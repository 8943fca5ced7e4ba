--------------------------- MODULE LRUCacheProofs ---------------------------
(***************************************************************************)
(* Proofs about the cache operators of LRUCache and about FallbackClient,  *)
(* for every set of keys and goroutines and every capacity, TTL and call   *)
(* timeout.                                                                *)
(***************************************************************************)
EXTENDS FallbackClient, SequenceTheorems, TLAPS

(* No key is on the list twice. *)
Distinct(s) == \A i, j \in 1..Len(s) : s[i] = s[j] => i = j

(* The list is ordered by the relation R. *)
OrderedBy(s, R) == \A i, j \in 1..Len(s) : i < j => <<s[i], s[j]>> \in R

-----------------------------------------------------------------------------
(* The cache operators, element by element.                                *)

(* Unlinking a key that is on a list of distinct keys closes the gap it     *)
(* leaves and changes nothing else (list.Remove).                           *)
LEMMA UnlinkShape ==
  ASSUME NEW s \in Seq(Keys), NEW n \in 1..Len(s), Distinct(s)
  PROVE  /\ Unlink(s, s[n]) \in Seq(Keys)
         /\ Len(Unlink(s, s[n])) = Len(s) - 1
         /\ \A i \in 1..(Len(s) - 1) :
              Unlink(s, s[n])[i] = IF i < n THEN s[i] ELSE s[i + 1]
<1> DEFINE I == {i \in 1..Len(s) : s[i] = s[n]}
<1>1. I = {n}
  BY DEF Distinct
<1>2. SelectInSeq(s, LAMBDA v : v = s[n]) = Min(I)
  BY <1>1 DEF SelectInSeq
<1>3. Min(I) = n
  BY <1>1 DEF Min
<1>4. Unlink(s, s[n]) = SubSeq(s, 1, n - 1) \o SubSeq(s, n + 1, Len(s))
  BY <1>2, <1>3 DEF Unlink, RemoveFirst, RemoveAt
<1> DEFINE L == SubSeq(s, 1, n - 1)
           R == SubSeq(s, n + 1, Len(s))
<1>5. /\ L \in Seq(Keys)
      /\ Len(L) = n - 1
      /\ \A i \in 1..(n - 1) : L[i] = s[i]
  BY SubSeqProperties, ElementOfSeq
<1>6. /\ R \in Seq(Keys)
      /\ Len(R) = Len(s) - n
      /\ \A i \in 1..(Len(s) - n) : R[i] = s[n + i]
  BY SubSeqProperties, ElementOfSeq
<1> HIDE DEF L, R, I
<1>7. /\ L \o R \in Seq(Keys)
      /\ Len(L \o R) = Len(L) + Len(R)
      /\ \A i \in 1..(Len(L) + Len(R)) :
           (L \o R)[i] = IF i <= Len(L) THEN L[i] ELSE R[i - Len(L)]
  BY <1>5, <1>6, ConcatProperties
<1>8. Unlink(s, s[n]) = L \o R
  BY <1>4 DEF L, R
<1>9. Len(s) \in Nat /\ Len(L \o R) = Len(s) - 1
  BY <1>5, <1>6, <1>7, LenProperties
<1>10. ASSUME NEW i \in 1..(Len(s) - 1), i < n
       PROVE  (L \o R)[i] = s[i]
  BY <1>5, <1>6, <1>7, <1>9, <1>10
<1>11. ASSUME NEW i \in 1..(Len(s) - 1), ~(i < n)
       PROVE  (L \o R)[i] = s[i + 1]
  <2>1. (L \o R)[i] = R[i - Len(L)]
    BY <1>5, <1>6, <1>7, <1>9, <1>11, SMTT(30)
  <2>2. i - Len(L) \in 1..(Len(s) - n) /\ n + (i - Len(L)) = i + 1
    BY <1>5, <1>9, <1>11
  <2>3. QED
    BY <2>1, <2>2, <1>6
<1>12. QED
  BY <1>7, <1>8, <1>9, <1>10, <1>11

(* list.PushFront puts the key first and shifts the rest by one. *)
LEMMA ConsShape ==
  ASSUME NEW s \in Seq(Keys), NEW k \in Keys
  PROVE  /\ Cons(k, s) \in Seq(Keys)
         /\ Len(Cons(k, s)) = Len(s) + 1
         /\ Cons(k, s)[1] = k
         /\ \A i \in 1..Len(s) : Cons(k, s)[i + 1] = s[i]
<1>1. /\ <<k>> \in Seq(Keys)
      /\ Len(<<k>>) = 1
      /\ <<k>>[1] = k
  OBVIOUS
<1>2. /\ <<k>> \o s \in Seq(Keys)
      /\ Len(<<k>> \o s) = 1 + Len(s)
      /\ \A i \in 1..(1 + Len(s)) :
           (<<k>> \o s)[i] = IF i <= 1 THEN <<k>>[i] ELSE s[i - 1]
  BY <1>1, ConcatProperties
<1>3. QED
  BY <1>1, <1>2 DEF Cons
(* The keys left after unlinking one, and that they keep their order. *)
LEMMA UnlinkProperties ==
  ASSUME NEW s \in Seq(Keys), NEW k \in Listed(s), Distinct(s)
  PROVE  /\ Unlink(s, k) \in Seq(Keys)
         /\ Len(Unlink(s, k)) = Len(s) - 1
         /\ Listed(Unlink(s, k)) = Listed(s) \ {k}
         /\ Distinct(Unlink(s, k))
         /\ \A R : OrderedBy(s, R) => OrderedBy(Unlink(s, k), R)
<1>1. PICK n \in 1..Len(s) : k = s[n]
  BY DEF Listed
<1> DEFINE u == Unlink(s, k)
<1>2. /\ u \in Seq(Keys)
      /\ Len(u) = Len(s) - 1
      /\ \A i \in 1..(Len(s) - 1) : u[i] = IF i < n THEN s[i] ELSE s[i + 1]
  BY <1>1, UnlinkShape
<1> HIDE DEF u
<1>3. Len(s) \in Nat
  BY LenProperties
<1>4. Distinct(u)
  BY <1>2, <1>3 DEF Distinct
<1>5. ASSUME NEW R, OrderedBy(s, R)
      PROVE  OrderedBy(u, R)
  BY <1>2, <1>3, <1>5 DEF OrderedBy
<1>6. Listed(u) \subseteq Listed(s) \ {k}
  BY <1>1, <1>2, <1>3 DEF Listed, Distinct
<1>7. ASSUME NEW j \in Listed(s) \ {k}
      PROVE  j \in Listed(u)
  <2>1. PICK m \in 1..Len(s) : j = s[m]
    BY DEF Listed
  <2>2. m # n
    BY <1>1, <2>1
  <2>3. CASE m < n
    BY <1>2, <1>3, <2>1, <2>3 DEF Listed
  <2>4. CASE m > n
    <3>1. m - 1 \in 1..Len(u) /\ u[m - 1] = s[m]
      BY <1>2, <1>3, <2>4
    <3>2. QED
      BY <2>1, <3>1 DEF Listed
  <2>5. QED
    BY <2>2, <2>3, <2>4
<1>8. QED
  BY <1>2, <1>4, <1>5, <1>6, <1>7 DEF u

(* Pushing a key that is not on the list to its front. *)
LEMMA ConsProperties ==
  ASSUME NEW s \in Seq(Keys), NEW k \in Keys, k \notin Listed(s), Distinct(s)
  PROVE  /\ Cons(k, s) \in Seq(Keys)
         /\ Len(Cons(k, s)) = Len(s) + 1
         /\ Listed(Cons(k, s)) = Listed(s) \cup {k}
         /\ Distinct(Cons(k, s))
         /\ \A R : OrderedBy(s, R) /\ (\A j \in Listed(s) : <<k, j>> \in R)
                  => OrderedBy(Cons(k, s), R)
<1> DEFINE c == Cons(k, s)
<1>1. /\ c \in Seq(Keys)
      /\ Len(c) = Len(s) + 1
      /\ c[1] = k
      /\ \A i \in 1..Len(s) : c[i + 1] = s[i]
  BY ConsShape
<1> HIDE DEF c
<1>2. Len(s) \in Nat
  BY LenProperties
<1>3. \A i \in 1..Len(c) : i # 1 => i - 1 \in 1..Len(s) /\ c[i] = s[i - 1]
  BY <1>1, <1>2
<1>4. \A i \in 1..Len(s) : i + 1 \in 1..Len(c)
  BY <1>1, <1>2
<1>5. Listed(c) = Listed(s) \cup {k}
  <2>1. Listed(c) \subseteq Listed(s) \cup {k}
    BY <1>1, <1>3, SMTT(30) DEF Listed
  <2>2. k \in Listed(c)
    BY <1>1, <1>2 DEF Listed
  <2>3. Listed(s) \subseteq Listed(c)
    BY <1>1, <1>4 DEF Listed
  <2>4. QED
    BY <2>1, <2>2, <2>3
<1>6. Distinct(c)
  BY <1>1, <1>2, <1>3 DEF Distinct, Listed
<1>7. ASSUME NEW R, OrderedBy(s, R), \A j \in Listed(s) : <<k, j>> \in R
      PROVE  OrderedBy(c, R)
  <2> SUFFICES ASSUME NEW i \in 1..Len(c), NEW j \in 1..Len(c), i < j
               PROVE  <<c[i], c[j]>> \in R
    BY DEF OrderedBy
  <2>1. j # 1 /\ c[j] = s[j - 1] /\ j - 1 \in 1..Len(s)
    BY <1>1, <1>2, <1>3
  <2>2. CASE i = 1
    <3>1. c[j] \in Listed(s)
      BY <2>1 DEF Listed
    <3>2. QED
      BY <1>1, <1>7, <2>2, <3>1
  <2>3. CASE i # 1
    <3>1. c[i] = s[i - 1] /\ i - 1 \in 1..Len(s) /\ i - 1 < j - 1
      BY <1>1, <1>2, <1>3, <2>3
    <3>2. QED
      BY <1>7, <2>1, <3>1 DEF OrderedBy
  <2>4. QED
    BY <2>2, <2>3
<1>8. QED
  BY <1>1, <1>5, <1>6, <1>7 DEF c

(* Eviction keeps a prefix of the list, one shorter than the capacity. *)
LEMMA EvictProperties ==
  ASSUME NEW s \in Seq(Keys), Distinct(s), Len(s) <= Cap
  PROVE  /\ Evict(s) \in Seq(Keys)
         /\ Len(Evict(s)) <= Cap - 1
         /\ Listed(Evict(s)) \subseteq Listed(s)
         /\ Distinct(Evict(s))
         /\ \A R : OrderedBy(s, R) => OrderedBy(Evict(s), R)
<1>1. Cap \in Nat /\ Cap >= 1 /\ Len(s) \in Nat
  BY CacheAssumption, LenProperties DEF Cap
<1>2. CASE Len(s) >= Cap
  <2>1. Evict(s) = SubSeq(s, 1, Cap - 1)
    BY <1>2 DEF Evict
  <2>2. /\ Evict(s) \in Seq(Keys)
        /\ Len(Evict(s)) = Cap - 1
        /\ \A i \in 1..(Cap - 1) : Evict(s)[i] = s[i]
    BY <1>1, <1>2, <2>1, SubSeqProperties, ElementOfSeq
  <2>3. QED
    BY <1>1, <1>2, <2>2, SMTT(30) DEF Listed, Distinct, OrderedBy
<1>3. CASE Len(s) < Cap
  <2>1. Evict(s) = s
    BY <1>1, <1>3 DEF Evict
  <2>2. QED
    BY <1>1, <1>3, <2>1
<1>4. QED
  BY <1>1, <1>2, <1>3
-----------------------------------------------------------------------------
(* What one call of Get or Put does to a consistent cache.                 *)

(* A cache whose list s and map m agree. *)
CacheOK(s, m) ==
  /\ s \in Seq(Keys)
  /\ Listed(s) = DOMAIN m
  /\ Distinct(s)
  /\ Len(s) <= Cap

(* The recency relation once k has been used. *)
Used(R, k) == {p \in R : p[2] # k} \cup {<<k, j>> : j \in Keys \ {k}}

(* A key pushed to the front of keys in recency order was just used. *)
LEMMA FrontIsNewest ==
  ASSUME NEW s \in Seq(Keys), NEW k \in Keys, k \notin Listed(s), Distinct(s),
         NEW R, OrderedBy(s, R)
  PROVE  OrderedBy(Cons(k, s), Used(R, k))
<1>1. \A i \in 1..Len(s) : s[i] \in Listed(s) /\ s[i] \in Keys
  BY ElementOfSeq DEF Listed
<1>2. OrderedBy(s, Used(R, k))
  BY <1>1 DEF OrderedBy, Used
<1>3. \A j \in Listed(s) : <<k, j>> \in Used(R, k)
  BY <1>1 DEF Listed, Used
<1>4. QED
  BY <1>2, <1>3, ConsProperties

(* Get keeps list and map in agreement and, on a hit, the recency order. *)
LEMMA GetPreserves ==
  ASSUME NEW s, NEW m, CacheOK(s, m), NEW k \in Keys, NEW t, NEW R, OrderedBy(s, R)
  PROVE  /\ CacheOK(GetOrder(s, m, k, t), GetItems(m, k, t))
         /\ OrderedBy(GetOrder(s, m, k, t), IF Hit(m, k, t) THEN Used(R, k) ELSE R)
<1> USE DEF CacheOK
<1>1. Len(s) \in Nat /\ Cap \in Nat
  BY LenProperties, CacheAssumption DEF Cap
<1>2. CASE k \notin DOMAIN m
  <2>1. GetOrder(s, m, k, t) = s /\ GetItems(m, k, t) = m /\ ~Hit(m, k, t)
    BY <1>2 DEF GetOrder, GetItems, Hit
  <2>2. QED
    BY <2>1
<1>3. CASE k \in DOMAIN m /\ Expired(m[k], t)
  <2>1. /\ GetOrder(s, m, k, t) = Unlink(s, k)
        /\ GetItems(m, k, t) = Without(m, {k})
        /\ ~Hit(m, k, t)
    BY <1>3 DEF GetOrder, GetItems, Hit
  <2>2. DOMAIN Without(m, {k}) = DOMAIN m \ {k}
    BY DEF Without
  <2>3. /\ Unlink(s, k) \in Seq(Keys)
        /\ Len(Unlink(s, k)) = Len(s) - 1
        /\ Listed(Unlink(s, k)) = DOMAIN m \ {k}
        /\ Distinct(Unlink(s, k))
        /\ OrderedBy(Unlink(s, k), R)
    BY <1>3, UnlinkProperties
  <2>4. Len(Unlink(s, k)) <= Cap
    BY <1>1, <2>3
  <2>5. QED
    BY <2>1, <2>2, <2>3, <2>4
<1>4. CASE k \in DOMAIN m /\ ~Expired(m[k], t)
  <2>1. /\ GetOrder(s, m, k, t) = Cons(k, Unlink(s, k))
        /\ GetItems(m, k, t) = m
        /\ Hit(m, k, t)
    BY <1>4 DEF GetOrder, GetItems, Hit, MoveToFront
  <2>2. /\ Unlink(s, k) \in Seq(Keys)
        /\ Len(Unlink(s, k)) = Len(s) - 1
        /\ Listed(Unlink(s, k)) = DOMAIN m \ {k}
        /\ Distinct(Unlink(s, k))
        /\ OrderedBy(Unlink(s, k), R)
    BY <1>4, UnlinkProperties
  <2>3. /\ Cons(k, Unlink(s, k)) \in Seq(Keys)
        /\ Len(Cons(k, Unlink(s, k))) = Len(s) - 1 + 1
        /\ Listed(Cons(k, Unlink(s, k))) = (DOMAIN m \ {k}) \cup {k}
        /\ Distinct(Cons(k, Unlink(s, k)))
    BY <2>2, ConsProperties
  <2>4. OrderedBy(Cons(k, Unlink(s, k)), Used(R, k))
    BY <2>2, FrontIsNewest
  <2>5. Len(Cons(k, Unlink(s, k))) <= Cap
    BY <1>1, <2>3
  <2>6. (DOMAIN m \ {k}) \cup {k} = DOMAIN m
    BY <1>4
  <2>7. QED
    BY <2>1, <2>3, <2>4, <2>5, <2>6
<1>5. QED
  BY <1>2, <1>3, <1>4

(* Put keeps list and map in agreement, within the capacity and in recency  *)
(* order.                                                                   *)
LEMMA PutPreserves ==
  ASSUME NEW s, NEW m, CacheOK(s, m), NEW k \in Keys, NEW v, NEW t,
         NEW R, OrderedBy(s, R)
  PROVE  /\ CacheOK(PutOrder(s, m, k), PutItems(s, m, k, v, t))
         /\ OrderedBy(PutOrder(s, m, k), Used(R, k))
<1> USE DEF CacheOK
<1>1. Len(s) \in Nat /\ Cap \in Nat
  BY LenProperties, CacheAssumption DEF Cap
<1>2. CASE k \in DOMAIN m
  <2>1. /\ PutOrder(s, m, k) = Cons(k, Unlink(s, k))
        /\ DOMAIN PutItems(s, m, k, v, t) = DOMAIN m
    BY <1>2 DEF PutOrder, PutItems, MoveToFront
  <2>2. /\ Unlink(s, k) \in Seq(Keys)
        /\ Len(Unlink(s, k)) = Len(s) - 1
        /\ Listed(Unlink(s, k)) = DOMAIN m \ {k}
        /\ Distinct(Unlink(s, k))
        /\ OrderedBy(Unlink(s, k), R)
    BY <1>2, UnlinkProperties
  <2>3. /\ Cons(k, Unlink(s, k)) \in Seq(Keys)
        /\ Len(Cons(k, Unlink(s, k))) = Len(s) - 1 + 1
        /\ Listed(Cons(k, Unlink(s, k))) = (DOMAIN m \ {k}) \cup {k}
        /\ Distinct(Cons(k, Unlink(s, k)))
    BY <2>2, ConsProperties
  <2>4. OrderedBy(Cons(k, Unlink(s, k)), Used(R, k))
    BY <2>2, FrontIsNewest
  <2>5. Len(Cons(k, Unlink(s, k))) <= Cap
    BY <1>1, <2>3
  <2>6. (DOMAIN m \ {k}) \cup {k} = DOMAIN m
    BY <1>2
  <2>7. QED
    BY <2>1, <2>3, <2>4, <2>5, <2>6
<1>3. CASE k \notin DOMAIN m
  <2>1. PutOrder(s, m, k) = Cons(k, Evict(s))
    BY <1>3 DEF PutOrder
  <2>2. /\ Evict(s) \in Seq(Keys)
        /\ Len(Evict(s)) <= Cap - 1
        /\ Listed(Evict(s)) \subseteq DOMAIN m
        /\ Distinct(Evict(s))
        /\ OrderedBy(Evict(s), R)
    BY EvictProperties
  <2>3. DOMAIN PutItems(s, m, k, v, t) = Listed(Evict(s)) \cup {k}
    BY <1>3, <2>2 DEF PutItems
  <2>4. /\ Cons(k, Evict(s)) \in Seq(Keys)
        /\ Len(Cons(k, Evict(s))) = Len(Evict(s)) + 1
        /\ Listed(Cons(k, Evict(s))) = Listed(Evict(s)) \cup {k}
        /\ Distinct(Cons(k, Evict(s)))
    BY <1>3, <2>2, ConsProperties
  <2>5. OrderedBy(Cons(k, Evict(s)), Used(R, k))
    BY <1>3, <2>2, FrontIsNewest
  <2>6. Len(Evict(s)) \in Nat
    BY <2>2, LenProperties
  <2>7. Len(Cons(k, Evict(s))) <= Cap
    BY <1>1, <2>2, <2>4, <2>6
  <2>8. QED
    BY <2>1, <2>3, <2>4, <2>5, <2>7
<1>4. QED
  BY <1>2, <1>3
-----------------------------------------------------------------------------
(* The invariants of FallbackClient.                                       *)

CacheInv == TypeOK /\ CacheConsistent /\ LeastRecentlyUsedLast

LEMMA CacheInvShape ==
  /\ CacheInv <=> TypeOK /\ CacheOK(order, items) /\ OrderedBy(order, newer)
  /\ CacheInv' <=> TypeOK' /\ CacheOK(order, items)' /\ OrderedBy(order, newer)'
BY DEF CacheInv, TypeOK, CacheConsistent, LeastRecentlyUsedLast, CacheOK,
       OrderedBy, Distinct

(* A stamped entry is an entry. *)
LEMMA StampType ==
  ASSUME NEW v \in Versions, NEW t \in Nat
  PROVE  /\ Stamp(v, t) \in Entries
         /\ Stamp(v, t).val = v
         /\ Stamp(v, t).expires = t + TTL
BY CacheAssumption DEF Stamp, Entries

(* A goroutine that moves to a phase with a well-formed request. *)
LEMMA RequestUpdate ==
  ASSUME RequestsOK, NEW r \in Renderers, NEW phase \in Phases, NEW q \in Requests,
         phase # "idle" => q.key \in Keys,
         pc' = [pc EXCEPT ![r] = phase], req' = [req EXCEPT ![r] = q]
  PROVE  RequestsOK'
BY DEF RequestsOK

(* The steps that leave the cache alone. *)
LEMMA CacheUntouched ==
  ASSUME CacheInv, UNCHANGED <<order, items, newer>>, RequestsOK',
         now' \in Nat, upstream' \in [Keys -> Versions],
         born' \in [Keys -> [Versions -> Nat]]
  PROVE  CacheInv'
BY DEF CacheInv, TypeOK, CacheConsistent, LeastRecentlyUsedLast

(* Every step of Render, of the sidecar and of the clock keeps the cache    *)
(* consistent and in recency order.                                         *)
LEMMA CacheInvStep == CacheInv /\ [Next]_vars => CacheInv'
<1> SUFFICES ASSUME CacheInv, [Next]_vars
             PROVE  CacheInv'
  OBVIOUS
<1>0. TypeOK /\ CacheOK(order, items) /\ OrderedBy(order, newer)
  BY CacheInvShape
<1>t. /\ RequestsOK
      /\ now \in Nat
      /\ upstream \in [Keys -> Versions]
      /\ born \in [Keys -> [Versions -> Nat]]
      /\ \A r \in Renderers : req[r] \in Requests
      /\ \A r \in Renderers : pc[r] # "idle" => req[r].key \in Keys
  BY <1>0 DEF TypeOK, RequestsOK
<1>z. 0 \in Versions /\ NoRequest \in Requests
  BY ClientAssumption DEF Versions, NoRequest, Requests
<1>1. CASE UNCHANGED vars
  BY <1>1 DEF vars, CacheInv, TypeOK, RequestsOK, CacheConsistent, LeastRecentlyUsedLast
<1>2. ASSUME NEW r \in Renderers, NEW k \in Keys, NEW b \in BOOLEAN, Render(r, k, b)
      PROVE  CacheInv'
  <2> DEFINE q == [key |-> k, marshals |-> b, at |-> IF b THEN 0 ELSE now, val |-> 0]
  <2>1. q \in Requests /\ q.key \in Keys
    BY <1>t, <1>z DEF Requests
  <2>2. RequestsOK'
    BY <1>2, <1>t, <2>1, RequestUpdate DEF Render, Goto, Phases
  <2>3. QED
    BY <1>2, <1>t, <2>2, CacheUntouched DEF Render
<1>3. ASSUME NEW r \in Renderers, CacheGet(r)
      PROVE  CacheInv'
  <2> DEFINE k == req[r].key
  <2>1. k \in Keys
    BY <1>t, <1>3 DEF CacheGet
  <2>2. /\ order' = GetOrder(order, items, k, now)
        /\ items' = GetItems(items, k, now)
        /\ newer' = IF Hit(items, k, now) THEN Used(newer, k) ELSE newer
    BY <1>3 DEF CacheGet, Use, Used
  <2>3. CacheOK(order, items)' /\ OrderedBy(order, newer)'
    BY <1>0, <2>1, <2>2, GetPreserves
  <2>4. DOMAIN items' \subseteq Keys /\ items' \in [DOMAIN items' -> Entries]
    BY <1>0, <2>2 DEF GetItems, Without, TypeOK
  <2>5. newer' \subseteq Keys \X Keys
    BY <1>0, <2>1, <2>2 DEF Used, TypeOK
  <2>6. RequestsOK'
    <3>1. CASE Hit(items, k, now)
      <4> DEFINE q == [req[r] EXCEPT !.at = now, !.val = items[k].val]
      <4>1. items[k].val \in Versions
        BY <1>0, <3>1 DEF Hit, TypeOK, Entries
      <4>2. q \in Requests /\ q.key \in Keys
        BY <1>t, <2>1, <4>1 DEF Requests
      <4>3. pc' = [pc EXCEPT ![r] = "done"] /\ req' = [req EXCEPT ![r] = q]
        BY <1>3, <3>1 DEF CacheGet, Goto
      <4>4. QED
        BY <1>t, <4>2, <4>3, RequestUpdate DEF Phases
    <3>2. CASE ~Hit(items, k, now)
      <4> DEFINE q == [req[r] EXCEPT !.at = now]
      <4>1. q \in Requests /\ q.key \in Keys
        BY <1>t, <2>1 DEF Requests
      <4>2. pc' = [pc EXCEPT ![r] = "call"] /\ req' = [req EXCEPT ![r] = q]
        BY <1>3, <3>2 DEF CacheGet, Goto
      <4>3. QED
        BY <1>t, <4>1, <4>2, RequestUpdate DEF Phases
    <3>3. QED
      BY <3>1, <3>2
  <2>7. TypeOK'
    BY <1>t, <1>3, <2>3, <2>4, <2>5, <2>6 DEF CacheGet, TypeOK, CacheOK
  <2>8. QED
    BY <2>3, <2>7, CacheInvShape
<1>4. ASSUME NEW r \in Renderers, CallOK(r)
      PROVE  CacheInv'
  <2> DEFINE q == [req[r] EXCEPT !.val = upstream[req[r].key],
                                 !.at = IF req[r].marshals THEN req[r].at ELSE now]
  <2>1. req[r].key \in Keys
    BY <1>t, <1>4 DEF CallOK
  <2>2. q \in Requests /\ q.key \in Keys
    BY <1>t, <2>1 DEF Requests
  <2>3. RequestsOK'
    BY <1>4, <1>t, <2>2, RequestUpdate DEF CallOK, Goto, Phases
  <2>4. QED
    BY <1>4, <1>t, <2>3, CacheUntouched DEF CallOK
<1>5. ASSUME NEW r \in Renderers, CallFails(r) \/ Return(r)
      PROVE  CacheInv'
  <2>1. RequestsOK'
    BY <1>5, <1>t, <1>z, RequestUpdate DEF CallFails, Return, Goto, Phases
  <2>2. QED
    BY <1>5, <1>t, <2>1, CacheUntouched DEF CallFails, Return
<1>6. ASSUME NEW r \in Renderers, CachePut(r)
      PROVE  CacheInv'
  <2> DEFINE k == req[r].key
             v == req[r].val
             q == [req[r] EXCEPT !.at = now]
  <2>1. k \in Keys /\ v \in Versions
    BY <1>t, <1>6 DEF CachePut, Requests
  <2>2. /\ order' = PutOrder(order, items, k)
        /\ items' = PutItems(order, items, k, v, now)
        /\ newer' = Used(newer, k)
    BY <1>6 DEF CachePut, Use, Used
  <2>3. CacheOK(order, items)' /\ OrderedBy(order, newer)'
    BY <1>0, <2>1, <2>2, PutPreserves
  <2>4. DOMAIN items' \subseteq Keys /\ items' \in [DOMAIN items' -> Entries]
    BY <1>0, <1>t, <2>1, <2>2, StampType DEF PutItems, TypeOK
  <2>5. newer' \subseteq Keys \X Keys
    BY <1>0, <2>1, <2>2 DEF Used, TypeOK
  <2>6. q \in Requests /\ q.key \in Keys
    BY <1>t, <2>1 DEF Requests
  <2>7. RequestsOK'
    BY <1>6, <1>t, <2>6, RequestUpdate DEF CachePut, Goto, Phases
  <2>8. TypeOK'
    BY <1>t, <1>6, <2>3, <2>4, <2>5, <2>7 DEF CachePut, TypeOK, CacheOK
  <2>9. QED
    BY <2>3, <2>8, CacheInvShape
<1>7. ASSUME NEW k \in Keys, UpstreamChange(k)
      PROVE  CacheInv'
  <2>1. upstream[k] + 1 \in Versions
    BY <1>t, <1>7, ClientAssumption DEF UpstreamChange, Versions
  <2>2. upstream' \in [Keys -> Versions] /\ born' \in [Keys -> [Versions -> Nat]]
    BY <1>t, <1>7, <2>1 DEF UpstreamChange
  <2>3. RequestsOK'
    BY <1>t, <1>7 DEF UpstreamChange, RequestsOK
  <2>4. QED
    BY <1>t, <1>7, <2>2, <2>3, CacheUntouched DEF UpstreamChange
<1>8. ASSUME Tick
      PROVE  CacheInv'
  <2>1. RequestsOK' /\ now' \in Nat
    BY <1>t, <1>8 DEF Tick, RequestsOK
  <2>2. QED
    BY <1>t, <1>8, <2>1, CacheUntouched DEF Tick
<1>9. QED
  BY <1>1, <1>2, <1>3, <1>4, <1>5, <1>6, <1>7, <1>8 DEF Next, RenderStep

LEMMA CacheInvInit == Init => CacheInv
<1> SUFFICES ASSUME Init
             PROVE  CacheInv
  OBVIOUS
<1>1. Cap \in Nat
  BY CacheAssumption DEF Cap
<1>2. Listed(order) = {} /\ Len(order) = 0 /\ DOMAIN items = {}
  BY DEF Init, Listed
<1>3. TypeOK
  BY ClientAssumption DEF Init, TypeOK, RequestsOK, NoRequest, Requests, Phases, Versions
<1>4. QED
  BY <1>1, <1>2, <1>3 DEF CacheInv, CacheConsistent, LeastRecentlyUsedLast

(* The cache of the fallback client never disagrees with its own recency    *)
(* list, never exceeds its capacity and always evicts the least recently    *)
(* used page, whatever requests race on it.                                 *)
THEOREM CacheCorrect == Spec => [](TypeOK /\ CacheConsistent /\ LeastRecentlyUsedLast)
<1>1. Spec => []CacheInv
  BY CacheInvInit, CacheInvStep, PTL DEF Spec
<1>2. CacheInv => TypeOK /\ CacheConsistent /\ LeastRecentlyUsedLast
  BY DEF CacheInv
<1>3. QED
  BY <1>1, <1>2, PTL
-----------------------------------------------------------------------------
(* Bounded staleness.                                                      *)

(* Every step keeps entries and answers within a TTL and a call of the      *)
(* version that superseded them.                                            *)
LEMMA StalenessStep == CacheInv /\ CacheInv' /\ StalenessInv /\ [Next]_vars => StalenessInv'
<1> SUFFICES ASSUME CacheInv, CacheInv', StalenessInv, [Next]_vars
             PROVE  StalenessInv'
  OBVIOUS
<1>t. /\ pc \in [Renderers -> Phases]
      /\ req \in [Renderers -> Requests]
      /\ now \in Nat
      /\ upstream \in [Keys -> Versions]
      /\ born \in [Keys -> [Versions -> Nat]]
      /\ DOMAIN items \subseteq Keys
      /\ \A k \in DOMAIN items : items[k].val \in Versions /\ items[k].expires \in Int
      /\ \A r \in Renderers : /\ req[r].at \in Nat
                              /\ req[r].val \in Versions
                              /\ req[r] \in Requests
                              /\ pc[r] # "idle" => req[r].key \in Keys
  BY DEF CacheInv, TypeOK, RequestsOK, Requests, Entries
<1>a. TTL \in Int /\ CallTimeout \in Nat /\ MaxVersion \in Nat /\ Versions = 0..MaxVersion
  BY CacheAssumption, ClientAssumption DEF Versions
<1>s. /\ \A k \in DOMAIN items : EntryFresh(k)
      /\ \A r \in Renderers : RequestFresh(r)
  BY DEF StalenessInv
<1>1. CASE UNCHANGED vars
  BY <1>1, <1>s DEF vars, StalenessInv, EntryFresh, RequestFresh
<1>2. ASSUME NEW r \in Renderers, NEW k \in Keys, NEW b \in BOOLEAN, Render(r, k, b)
      PROVE  StalenessInv'
  <2>1. \A j \in DOMAIN items' : EntryFresh(j)'
    BY <1>2, <1>s DEF Render, EntryFresh
  <2>2. RequestFresh(r)'
    BY <1>2, <1>t, <1>a DEF Render, Goto, RequestFresh
  <2>3. \A x \in Renderers \ {r} : RequestFresh(x)'
    BY <1>2, <1>s, <1>t DEF Render, Goto, RequestFresh
  <2>4. QED
    BY <2>1, <2>2, <2>3 DEF StalenessInv
<1>3. ASSUME NEW r \in Renderers, CacheGet(r)
      PROVE  StalenessInv'
  <2> DEFINE k == req[r].key
  <2>0. k \in Keys
    BY <1>t, <1>3 DEF CacheGet
  <2>1. \A j \in DOMAIN items' : EntryFresh(j)'
    <3>1. \A j \in DOMAIN items' : j \in DOMAIN items /\ items'[j] = items[j]
      BY <1>3 DEF CacheGet, GetItems, Without
    <3>2. UNCHANGED <<now, upstream, born>>
      BY <1>3 DEF CacheGet
    <3>3. QED
      BY <1>s, <3>1, <3>2 DEF EntryFresh
  <2>2. RequestFresh(r)'
    <3>1. CASE Hit(items, k, now)
      <4>1. /\ pc'[r] = "done"
            /\ req'[r].at = now
            /\ req'[r].val = items[k].val
            /\ req'[r].key = k
            /\ UNCHANGED <<now, upstream, born>>
        <5> DEFINE q == [req[r] EXCEPT !.at = now, !.val = items[k].val]
        <5>1. pc' = [pc EXCEPT ![r] = "done"] /\ req' = [req EXCEPT ![r] = q]
          BY <1>3, <3>1 DEF CacheGet, Goto
        <5>2. q.at = now /\ q.val = items[k].val /\ q.key = k
          BY <1>t DEF Requests
        <5>3. pc'[r] = "done" /\ req'[r] = q
          BY <1>t, <5>1
        <5>4. UNCHANGED <<now, upstream, born>>
          BY <1>3 DEF CacheGet
        <5>5. QED
          BY <5>2, <5>3, <5>4
      <4>2. k \in DOMAIN items /\ (TTL > 0 => now <= items[k].expires)
        BY <3>1, <1>t, <1>a DEF Hit, Expired
      <4>3. EntryFresh(k)
        BY <4>2, <1>s
      <4>4. /\ items[k].expires \in Int
            /\ items[k].val \in 0..MaxVersion /\ upstream[k] \in 0..MaxVersion
            /\ now \in Nat
        BY <1>t, <1>a, <2>0, <4>2
      <4>5. items[k].val < upstream[k] => items[k].val + 1 \in Versions
        BY <1>a, <4>4
      <4>6. items[k].val < upstream[k] => born[k][items[k].val + 1] \in Nat
        BY <1>t, <2>0, <4>5
      <4>7. (TTL > 0 /\ items[k].val < upstream[k]) =>
              now <= born[k][items[k].val + 1] + CallTimeout + TTL
        <5> SUFFICES ASSUME TTL > 0, items[k].val < upstream[k]
                     PROVE  now <= born[k][items[k].val + 1] + CallTimeout + TTL
          OBVIOUS
        <5> DEFINE b == born[k][items[k].val + 1]
                   e == items[k].expires
        <5>1. e <= b + CallTimeout + TTL
          BY <4>3 DEF EntryFresh
        <5>2. b \in Nat /\ e \in Int /\ now <= e /\ now \in Nat
          BY <4>2, <4>4, <4>6
        <5> HIDE DEF b, e
        <5>3. now <= b + CallTimeout + TTL
          BY <1>a, <5>1, <5>2
        <5>4. QED
          BY <5>3 DEF b
      <4>8. items[k].val <= upstream[k]
        BY <4>3 DEF EntryFresh
      <4>9. QED
        BY <1>a, <4>1, <4>4, <4>7, <4>8 DEF RequestFresh
    <3>2. CASE ~Hit(items, k, now)
      <4>1. pc'[r] = "call" /\ req'[r].at = now /\ now' = now
        BY <1>3, <1>t, <3>2 DEF CacheGet, Goto, Requests
      <4>2. QED
        BY <1>t, <1>a, <4>1 DEF RequestFresh
    <3>3. QED
      BY <3>1, <3>2
  <2>3. \A x \in Renderers \ {r} : RequestFresh(x)'
    <3>1. \A x \in Renderers \ {r} : pc'[x] = pc[x] /\ req'[x] = req[x]
      BY <1>3, <1>t DEF CacheGet, Goto
    <3>2. UNCHANGED <<now, upstream, born>>
      BY <1>3 DEF CacheGet
    <3>3. QED
      BY <1>s, <3>1, <3>2 DEF RequestFresh
  <2>4. QED
    BY <2>1, <2>2, <2>3 DEF StalenessInv
<1>4. ASSUME NEW r \in Renderers, CallOK(r)
      PROVE  StalenessInv'
  <2>1. \A j \in DOMAIN items' : EntryFresh(j)'
    BY <1>4, <1>s DEF CallOK, EntryFresh
  <2>2. RequestFresh(r)'
    <3>1. /\ req'[r].val = upstream[req[r].key]
          /\ req'[r].key = req[r].key
          /\ UNCHANGED <<now, upstream, born>>
          /\ \/ pc'[r] = "put" /\ req'[r].at = req[r].at
             \/ pc'[r] = "done" /\ req'[r].at = now
      BY <1>4, <1>t DEF CallOK, Goto, Requests
    <3>2. req[r].at <= now /\ now <= req[r].at + CallTimeout
      BY <1>4, <1>s DEF CallOK, RequestFresh
    <3>3. upstream[req[r].key] \in Nat
      BY <1>4, <1>t, <1>a DEF CallOK
    <3>4. QED
      BY <1>t, <1>a, <3>1, <3>2, <3>3 DEF RequestFresh
  <2>3. \A x \in Renderers \ {r} : RequestFresh(x)'
    BY <1>4, <1>s, <1>t DEF CallOK, Goto, RequestFresh
  <2>4. QED
    BY <2>1, <2>2, <2>3 DEF StalenessInv
<1>5. ASSUME NEW r \in Renderers, CallFails(r) \/ Return(r)
      PROVE  StalenessInv'
  <2>1. \A j \in DOMAIN items' : EntryFresh(j)'
    BY <1>5, <1>s DEF CallFails, Return, EntryFresh
  <2>2. pc'[r] = "idle"
    BY <1>5, <1>t DEF CallFails, Return, Goto
  <2>3. RequestFresh(r)'
    BY <2>2 DEF RequestFresh
  <2>4. \A x \in Renderers \ {r} : RequestFresh(x)'
    BY <1>5, <1>s, <1>t DEF CallFails, Return, Goto, RequestFresh
  <2>5. QED
    BY <2>1, <2>3, <2>4 DEF StalenessInv
<1>6. ASSUME NEW r \in Renderers, CachePut(r)
      PROVE  StalenessInv'
  <2> DEFINE k == req[r].key
             v == req[r].val
  <2>0. /\ k \in Keys
        /\ v \in Versions
        /\ UNCHANGED <<now, upstream, born>>
        /\ req[r].at <= now /\ now <= req[r].at + CallTimeout
        /\ v <= upstream[k]
        /\ v < upstream[k] => req[r].at <= born[k][v + 1]
    BY <1>6, <1>t, <1>s DEF CachePut, RequestFresh
  <2>1. v < upstream[k] => /\ v + 1 \in Versions
                           /\ born[k][v + 1] \in Nat
                           /\ now <= born[k][v + 1] + CallTimeout
    <3>1. upstream[k] \in 0..MaxVersion /\ v \in 0..MaxVersion
      BY <1>t, <1>a, <2>0
    <3>2. v < upstream[k] => v + 1 \in Versions
      BY <1>a, <3>1
    <3>3. v < upstream[k] => born[k][v + 1] \in Nat
      BY <1>t, <2>0, <3>2
    <3>4. now \in Nat /\ req[r].at \in Nat
      BY <1>t
    <3>5. ASSUME v < upstream[k]
          PROVE  now <= born[k][v + 1] + CallTimeout
      <4> DEFINE b == born[k][v + 1]
                 t == req[r].at
      <4>1. b \in Nat /\ t \in Nat /\ t <= b /\ now <= t + CallTimeout
        BY <2>0, <3>3, <3>4, <3>5
      <4> HIDE DEF b, t
      <4>2. now <= b + CallTimeout
        BY <1>a, <3>4, <4>1
      <4>3. QED
        BY <4>2 DEF b
    <3>6. QED
      BY <3>2, <3>3, <3>5
  <2>2. ASSUME NEW j \in DOMAIN items'
        PROVE  EntryFresh(j)'
    <3>1. CASE j = k
      <4>1. items'[j] = Stamp(v, now)
        BY <1>6, <2>2, <3>1 DEF CachePut, PutItems
      <4>2. items'[j].val = v /\ items'[j].expires = now + TTL
        BY <4>1, <1>t, <2>0, StampType
      <4>3. now' = now /\ upstream'[k] = upstream[k] /\ born'[k] = born[k]
        BY <2>0
      <4>4. now \in Nat
        BY <1>t
      <4>5. ASSUME v < upstream[k]
            PROVE  now + TTL <= born[k][v + 1] + CallTimeout + TTL
        <5> DEFINE b == born[k][v + 1]
        <5>1. b \in Nat /\ now <= b + CallTimeout
          BY <2>1, <4>5
        <5> HIDE DEF b
        <5>2. now + TTL <= b + CallTimeout + TTL
          BY <1>a, <4>4, <5>1
        <5>3. QED
          BY <5>2 DEF b
      <4>6. v <= upstream[k] /\ now + TTL <= now + TTL
        BY <1>a, <2>0, <4>4
      <4>7. QED
        BY <3>1, <4>2, <4>3, <4>5, <4>6 DEF EntryFresh
    <3>2. CASE j # k
      <4>1. j \in DOMAIN items /\ items'[j] = items[j]
        BY <1>6, <2>2, <3>2 DEF CachePut, PutItems
      <4>2. QED
        BY <1>s, <2>0, <4>1 DEF EntryFresh
    <3>3. QED
      BY <3>1, <3>2
  <2>3. RequestFresh(r)'
    <3>1. pc'[r] = "done" /\ req'[r].at = now /\ req'[r].val = v /\ req'[r].key = k
      BY <1>6, <1>t DEF CachePut, Goto, Requests
    <3>2. ASSUME v < upstream[k], TTL > 0
          PROVE  now <= born[k][v + 1] + CallTimeout + TTL
      <4> DEFINE b == born[k][v + 1]
      <4>1. b \in Nat /\ now <= b + CallTimeout /\ now \in Nat
        BY <1>t, <2>1, <3>2
      <4> HIDE DEF b
      <4>2. now <= b + CallTimeout + TTL
        BY <1>a, <3>2, <4>1
      <4>3. QED
        BY <4>2 DEF b
    <3>3. now' = now /\ upstream'[k] = upstream[k] /\ born'[k] = born[k] /\ now <= now
      BY <1>t, <2>0
    <3>4. QED
      BY <2>0, <3>1, <3>2, <3>3 DEF RequestFresh
  <2>4. \A x \in Renderers \ {r} : RequestFresh(x)'
    <3>1. \A x \in Renderers \ {r} : pc'[x] = pc[x] /\ req'[x] = req[x]
      BY <1>6, <1>t DEF CachePut, Goto
    <3>2. QED
      BY <1>s, <2>0, <3>1 DEF RequestFresh
  <2>5. QED
    BY <2>2, <2>3, <2>4 DEF StalenessInv
<1>7. ASSUME NEW k \in Keys, UpstreamChange(k)
      PROVE  StalenessInv'
  <2>1. /\ UNCHANGED <<items, now, pc, req>>
        /\ upstream[k] \in Nat /\ upstream[k] + 1 \in Versions
        /\ upstream'[k] = upstream[k] + 1
        /\ \A j \in Keys \ {k} : upstream'[j] = upstream[j] /\ born'[j] = born[j]
        /\ born'[k][upstream[k] + 1] = now
        /\ \A u \in Versions : u # upstream[k] + 1 => born'[k][u] = born[k][u]
    BY <1>7, <1>t, <1>a DEF UpstreamChange
  <2>2. ASSUME NEW j \in DOMAIN items
        PROVE  EntryFresh(j)'
    <3>1. CASE j # k
      BY <1>s, <1>t, <2>1, <3>1 DEF EntryFresh
    <3>2. CASE j = k
      <4>0. /\ items[k].val \in Nat /\ items[k].expires \in Int /\ now \in Nat
            /\ items' = items /\ now' = now
        BY <1>t, <1>a, <2>1, <2>2, <3>2
      <4>f. EntryFresh(k)
        BY <1>s, <2>2, <3>2
      <4>1. CASE items[k].val = upstream[k]
        <5>1. born'[k][items[k].val + 1] = now
          BY <2>1, <4>1
        <5>2. QED
          BY <1>a, <2>1, <3>2, <4>0, <4>f, <4>1, <5>1 DEF EntryFresh
      <4>2. CASE items[k].val # upstream[k]
        <5>1. items[k].val < upstream[k]
          BY <2>1, <4>0, <4>f, <4>2 DEF EntryFresh
        <5>2. items[k].val + 1 \in Versions /\ items[k].val + 1 # upstream[k] + 1
          BY <1>a, <2>1, <4>0, <5>1
        <5>3. born'[k][items[k].val + 1] = born[k][items[k].val + 1]
          BY <2>1, <5>2
        <5>4. QED
          BY <1>a, <2>1, <3>2, <4>0, <4>f, <5>1, <5>3 DEF EntryFresh
      <4>3. QED
        BY <4>1, <4>2
    <3>3. QED
      BY <3>1, <3>2
  <2>3. ASSUME NEW r \in Renderers
        PROVE  RequestFresh(r)'
    <3>1. CASE pc[r] \notin {"put", "done"}
      BY <1>s, <2>1, <3>1 DEF RequestFresh
    <3>2. CASE pc[r] \in {"put", "done"} /\ req[r].key # k
      BY <1>s, <1>t, <2>1, <3>2 DEF RequestFresh
    <3>3. CASE pc[r] \in {"put", "done"} /\ req[r].key = k
      <4>0. /\ req[r].val \in Nat /\ req[r].at \in Nat /\ now \in Nat
            /\ req' = req /\ pc' = pc /\ now' = now
        BY <1>t, <1>a, <2>1
      <4>f. RequestFresh(r)
        BY <1>s
      <4>1. CASE req[r].val = upstream[k]
        <5>1. born'[k][req[r].val + 1] = now
          BY <2>1, <4>1
        <5>2. QED
          BY <1>a, <2>1, <3>3, <4>0, <4>f, <4>1, <5>1, SMTT(30) DEF RequestFresh
      <4>2. CASE req[r].val # upstream[k]
        <5>1. req[r].val < upstream[k]
          BY <2>1, <3>3, <4>0, <4>f, <4>2 DEF RequestFresh
        <5>2. req[r].val + 1 \in Versions /\ req[r].val + 1 # upstream[k] + 1
          BY <1>a, <2>1, <4>0, <5>1
        <5>3. born'[k][req[r].val + 1] = born[k][req[r].val + 1]
          BY <2>1, <5>2
        <5>4. QED
          BY <1>a, <2>1, <3>3, <4>0, <4>f, <5>1, <5>3 DEF RequestFresh
      <4>3. QED
        BY <4>1, <4>2
    <3>4. QED
      BY <3>1, <3>2, <3>3
  <2>4. QED
    BY <2>1, <2>2, <2>3 DEF StalenessInv
<1>8. ASSUME Tick
      PROVE  StalenessInv'
  <2>1. /\ UNCHANGED <<items, upstream, born, pc, req>>
        /\ now' = now + 1
        /\ \A r \in Renderers :
             pc[r] \in {"call", "put"} => now < req[r].at + CallTimeout
    BY <1>8 DEF Tick
  <2>2. \A j \in DOMAIN items : EntryFresh(j)'
    BY <1>s, <1>t, <1>a, <2>1 DEF EntryFresh
  <2>3. \A r \in Renderers : RequestFresh(r)'
    BY <1>s, <1>t, <1>a, <2>1 DEF RequestFresh
  <2>4. QED
    BY <2>1, <2>2, <2>3 DEF StalenessInv
<1>9. QED
  BY <1>1, <1>2, <1>3, <1>4, <1>5, <1>6, <1>7, <1>8 DEF Next, RenderStep

(* No response of Client.Render, cached or not, is out of date by more than *)
(* the TTL and one sidecar call.                                            *)
THEOREM StalenessBounded == Spec => []BoundedStaleness
<1>1. Init => StalenessInv
  BY DEF Init, StalenessInv, RequestFresh
<1>2. StalenessInv => BoundedStaleness
  BY DEF StalenessInv, RequestFresh, BoundedStaleness
<1>3. Spec => []CacheInv
  BY CacheInvInit, CacheInvStep, PTL DEF Spec
<1>4. QED
  BY <1>1, <1>2, <1>3, StalenessStep, PTL DEF Spec
=============================================================================
