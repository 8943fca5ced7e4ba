------------------------- MODULE ClientRouterProofs -------------------------
(***************************************************************************)
(* Theorems about the client router for any set of paths, routes and       *)
(* layout chains and any number of navigations and other calls.  The       *)
(* state falls apart into the payloads with their cache, the calls of      *)
(* navigate, and the browser's history; each has lemmas about what a step  *)
(* may do to it.                                                           *)
(***************************************************************************)
EXTENDS ClientRouter, TLAPS

Payloads == [url : Urls, form : Urls \cup {NoUrl}, asked : Nat, came : Nat]

-----------------------------------------------------------------------------
(* Payloads.                                                               *)

(* A payload object keeps its path and its times, whoever writes to it. *)
HeapKept ==
  /\ DOMAIN heap \subseteq DOMAIN heap'
  /\ \A o \in DOMAIN heap : heap'[o].asked = heap[o].asked /\ heap'[o].came = heap[o].came

LEMMA StorePayload ==
  ASSUME PayloadTypeOK, NEW u \in Urls, NEW a \in Nat, Store(u, a)
  PROVE  /\ heap' \in Seq(Payloads) /\ HeapKept
         /\ Len(heap) + 1 \in DOMAIN heap'
         /\ heap'[Len(heap) + 1].asked = a /\ heap'[Len(heap) + 1].came = epoch
<1> DEFINE o == Payload(u, a)
           P == Payloads
<1>1. heap \in Seq(P) /\ o \in P /\ o.asked = a /\ o.came = epoch
  BY DEF PayloadTypeOK, Payload, Payloads
<1>2. heap' = Append(heap, o)
  BY DEF Store
<1> HIDE DEF P, o
<1>3. heap' \in Seq(P) /\ Len(heap') = Len(heap) + 1 /\ Len(heap) \in Nat
  BY <1>1, <1>2
<1>4. DOMAIN heap = 1..Len(heap) /\ DOMAIN heap' = 1..(Len(heap) + 1)
  BY <1>1, <1>3
<1>5. \A i \in 1..Len(heap) : heap'[i] = heap[i]
  BY <1>1, <1>2
<1>6. heap'[Len(heap) + 1] = o
  BY <1>1, <1>2
<1>7. QED
  BY <1>1, <1>3, <1>4, <1>5, <1>6 DEF HeapKept, P

LEMMA StoreType ==
  ASSUME PayloadTypeOK, NEW u \in Urls, NEW a \in Nat, Store(u, a), UNCHANGED invals
  PROVE  PayloadTypeOK'
<1> DEFINE E == [load : DOMAIN heap', place : DOMAIN heap']
           k == Len(heap) + 1
<1>1. /\ heap' \in Seq(Payloads) /\ DOMAIN heap \subseteq DOMAIN heap'
      /\ k \in DOMAIN heap'
  BY StorePayload DEF HeapKept
<1>2. cache' = [x \in Keys \cup {u} |-> IF x # u THEN cache[x]
                  ELSE [load |-> k, place |-> IF u \in Keys THEN cache[u].place ELSE k]]
  BY DEF Store, CacheSet
<1>3. \A x \in Keys : cache[x] \in E /\ cache[x].place \in DOMAIN heap'
  BY <1>1 DEF PayloadTypeOK
<1>4. [load |-> k, place |-> IF u \in Keys THEN cache[u].place ELSE k] \in E
  BY <1>1, <1>3
<1> HIDE DEF E, k
<1>5. cache' \in [Keys \cup {u} -> E] /\ Keys' = Keys \cup {u}
  BY <1>2, <1>3, <1>4 DEF Keys
<1>6. depRegistry' \subseteq Urls
  BY DEF Store, recordDeps, PayloadTypeOK
<1>7. epoch' \in Nat /\ invalidated' \in [Urls -> 0..epoch']
  BY DEF PayloadTypeOK, invals
<1>8. QED
  BY <1>1, <1>5, <1>6, <1>7 DEF PayloadTypeOK, Payloads, E

LEMMA StoreCache ==
  ASSUME PayloadTypeOK, CacheInv, NEW u \in Urls, NEW a \in Nat, Store(u, a), UNCHANGED invals
  PROVE  CacheInv'
<1> DEFINE k == Len(heap) + 1
           e == [load |-> k, place |-> IF u \in Keys THEN cache[u].place ELSE k]
<1>1. HeapKept /\ heap'[k].came = epoch
  BY StorePayload
<1>2. e.load = k
  OBVIOUS
<1>3. cache' = [x \in Keys \cup {u} |-> IF x # u THEN cache[x] ELSE e]
  BY DEF Store, CacheSet
<1> HIDE DEF k, e
<1>4. /\ Keys' = Keys \cup {u} /\ cache'[u] = e
      /\ \A x \in Keys \ {u} : cache'[x] = cache[x]
  BY <1>3 DEF Keys
<1>5. \A x \in Keys : cache[x].load \in DOMAIN heap
  BY DEF PayloadTypeOK
<1>6. invalidated' = invalidated /\ epoch >= invalidated[u]
  BY DEF PayloadTypeOK, invals
<1>7. ASSUME NEW x \in Keys', x \in Depends PROVE heap'[cache'[x].load].came >= invalidated'[x]
  <2>1. CASE x = u
    BY <2>1, <1>1, <1>2, <1>4, <1>6
  <2>2. CASE x # u
    BY <2>2, <1>1, <1>4, <1>5, <1>6, <1>7 DEF HeapKept, CacheInv, InvalidatedGone
  <2>3. QED
    BY <2>1, <2>2
<1>8. Keys' \cap Depends \subseteq depRegistry'
  BY <1>4 DEF CacheInv, Store, recordDeps
<1>9. QED
  BY <1>7, <1>8 DEF CacheInv, InvalidatedGone

LEMMA EvictType ==
  ASSUME PayloadTypeOK, NEW us, Evict(us),
         UNCHANGED invals \/ \E vs \in SUBSET Urls : NewEpoch(vs)
  PROVE  PayloadTypeOK'
<1> DEFINE E == [load : DOMAIN heap, place : DOMAIN heap]
<1>1. cache \in [Keys -> E] /\ cache' = [x \in Keys \ us |-> cache[x]]
  BY DEF PayloadTypeOK, Evict, CacheDelete, Restrict
<1> HIDE DEF E
<1>2. cache' \in [Keys \ us -> E] /\ Keys' = Keys \ us
  BY <1>1 DEF Keys
<1>3. epoch' \in Nat /\ invalidated' \in [Urls -> 0..epoch']
  <2>1. CASE UNCHANGED invals
    BY <2>1 DEF PayloadTypeOK, invals
  <2>2. CASE \E vs \in SUBSET Urls : NewEpoch(vs)
    BY <2>2 DEF PayloadTypeOK, NewEpoch
  <2>3. QED
    BY <2>1, <2>2
<1>4. heap' = heap /\ depRegistry' \subseteq Urls /\ Keys \subseteq Urls
  BY DEF PayloadTypeOK, Evict
<1>5. cache' \in [Keys' -> [load : DOMAIN heap', place : DOMAIN heap']] /\ Keys' \subseteq Urls
  BY <1>2, <1>4, Zenon DEF E
<1>6. QED
  BY <1>3, <1>4, <1>5 DEF PayloadTypeOK

(* What is left in the cache is not of a path that was invalidated. *)
LEMMA EvictCache ==
  ASSUME PayloadTypeOK, CacheInv, NEW us, Evict(us),
         \/ UNCHANGED invals
         \/ \E vs \in SUBSET Urls : NewEpoch(vs) /\ vs \cap depRegistry \subseteq us
  PROVE  CacheInv'
<1>1. cache' = [x \in Keys \ us |-> cache[x]] /\ heap' = heap /\ depRegistry' = depRegistry \ us
  BY DEF Evict, CacheDelete, Restrict
<1>2. Keys' = Keys \ us /\ \A x \in Keys' : cache'[x] = cache[x]
  BY <1>1 DEF Keys
<1>3. Keys' \cap Depends \subseteq depRegistry'
  BY <1>1, <1>2 DEF CacheInv
<1>4. \A x \in Keys' \cap Depends : invalidated'[x] = invalidated[x]
  BY <1>1, <1>2, <1>3 DEF PayloadTypeOK, NewEpoch, invals
<1>5. QED
  BY <1>1, <1>2, <1>3, <1>4 DEF CacheInv, InvalidatedGone

(* defaultApply writes a form result into a payload that others share. *)
LEMMA FormWritten ==
  ASSUME PayloadTypeOK, NEW u \in Urls, NEW g, heap' = [heap EXCEPT ![g].form = u],
         UNCHANGED <<cache, depRegistry, invals>>
  PROVE  PayloadTypeOK' /\ HeapKept /\ (CacheInv => CacheInv')
<1> DEFINE P == Payloads
           w(o) == [o EXCEPT !.form = u]
<1>1. \A o \in P : w(o) \in P /\ w(o).asked = o.asked /\ w(o).came = o.came
  BY DEF Payloads
<1>2. heap \in Seq(P) /\ heap' = [heap EXCEPT ![g] = w(heap[g])]
  BY DEF PayloadTypeOK, Payloads
<1> HIDE DEF P, w
<1>3. /\ DOMAIN heap = 1..Len(heap) /\ Len(heap) \in Nat
      /\ \A o \in DOMAIN heap : heap[o] \in P
  BY <1>2
<1>4. /\ DOMAIN heap' = DOMAIN heap
      /\ \A o \in DOMAIN heap : heap[o] \in P /\ (heap'[o] = heap[o] \/ heap'[o] = w(heap[o]))
  BY <1>2, <1>3, Zenon
<1>5. heap' \in [1..Len(heap) -> P]
  BY <1>1, <1>2, <1>3, <1>4
<1>6. heap' \in Seq(P)
  BY <1>3, <1>5
<1>7. HeapKept
  BY <1>1, <1>4 DEF HeapKept
<1>8. PayloadTypeOK'
  BY <1>4, <1>6 DEF PayloadTypeOK, Keys, invals, P, Payloads
<1>9. \A x \in Keys : cache[x].load \in DOMAIN heap
  BY DEF PayloadTypeOK
<1>10. CacheInv => CacheInv'
  BY <1>7, <1>9 DEF CacheInv, InvalidatedGone, Keys, HeapKept, invals
<1>11. QED
  BY <1>7, <1>8, <1>10

-----------------------------------------------------------------------------
(* The calls of navigate.                                                  *)

(* Changes of a record, for any sets its fields may be from. *)
LEMMA NavRecord ==
  ASSUME NEW A, NEW U, NEW B, NEW R, NEW a \in A, NEW b \in B, NEW l \in R,
         NEW c \in [at : A, url : U, pop : B, replace : B, restore : R, aborted : B, load : R,
                    asked : R, fresh : B]
  PROVE  LET Same(d) == d \in [at : A, url : U, pop : B, replace : B, restore : R,
                               aborted : B, load : R, asked : R, fresh : B]
         IN  /\ Same([c EXCEPT !.aborted = b]) /\ Same([c EXCEPT !.at = a])
             /\ Same([[c EXCEPT !.at = a] EXCEPT !.load = l])
             /\ [[c EXCEPT !.at = a] EXCEPT !.load = c.load] = [c EXCEPT !.at = a]
OBVIOUS

LEMMA AbortedNavs ==
  ASSUME NavTypeOK
  PROVE  /\ Aborted \in [Here -> Navs]
         /\ \A m \in Here : /\ m # activeAbort => Aborted[m] = navs[m]
                            /\ Aborted[m].url = navs[m].url /\ Aborted[m].at = navs[m].at
                            /\ Aborted[m].pop = navs[m].pop /\ Aborted[m].load = navs[m].load
                            /\ Aborted[m].restore = navs[m].restore
                            /\ Aborted[m].asked = navs[m].asked
                            /\ Aborted[m].fresh = navs[m].fresh
<1> DEFINE N == Navs
           yes == TRUE
           w(c) == [c EXCEPT !.aborted = yes]
<1>1. \A c \in N : w(c) \in N
  BY NavRecord DEF Navs
<1>2. \A c \in N : /\ w(c).url = c.url /\ w(c).at = c.at /\ w(c).pop = c.pop
                   /\ w(c).load = c.load /\ w(c).restore = c.restore /\ w(c).asked = c.asked
                   /\ w(c).fresh = c.fresh
  BY DEF Navs
<1>3. Aborted = [m \in Here |-> IF m = activeAbort THEN w(navs[m]) ELSE navs[m]]
  BY DEF Aborted
<1>4. navs \in [Here -> N]
  BY DEF NavTypeOK
<1> HIDE DEF N, w, yes
<1>5. Aborted \in [Here -> N]
  BY <1>1, <1>3, <1>4
<1>6. ASSUME NEW m \in Here PROVE Aborted[m] = IF m = activeAbort THEN w(navs[m]) ELSE navs[m]
  BY <1>3
<1>7. QED
  BY <1>2, <1>4, <1>5, <1>6 DEF N

LEMMA DoneNavs ==
  ASSUME NavTypeOK, NEW n \in Here
  PROVE  /\ Done(n) \in [Here -> Navs]
         /\ \A m \in Here \ {n} : Done(n)[m] = navs[m]
         /\ Done(n)[n].url = navs[n].url /\ ~Done(n)[n].pop /\ ~Done(n)[n].fresh
<1> DEFINE N == Navs
           d == [Idle(navs[n].url) EXCEPT !.at = "done"]
<1>1. navs \in [Here -> N] /\ navs[n].url \in Urls
  BY DEF NavTypeOK, Navs
<1> DEFINE no == FALSE
           B == BOOLEAN
           e == [at |-> "idle", url |-> navs[n].url, pop |-> no, replace |-> no, restore |-> 0,
                   aborted |-> no, load |-> 0, asked |-> 0, fresh |-> no]
<1>2. d \in N /\ d.url = navs[n].url /\ ~d.pop /\ ~d.fresh
  <2>1. Idle(navs[n].url) = e
    BY DEF Idle
  <2>2. no \in B /\ ~no
    OBVIOUS
  <2>3. N = [at : Underway \cup {"idle", "done"}, url : Urls, pop : B, replace : B, restore : Nat,
             aborted : B, load : Nat, asked : Nat, fresh : B]
    BY DEF Navs
  <2> HIDE DEF no, B, N
  <2>4. d \in N /\ d.url = navs[n].url /\ d.pop = no /\ d.fresh = no
    BY <1>1, <2>1, <2>2, <2>3
  <2>5. QED
    BY <2>2, <2>4
<1>3. Done(n) = [navs EXCEPT ![n] = d]
  BY DEF Done
<1> HIDE DEF N, d
<1>4. QED
  BY <1>1, <1>2, <1>3 DEF N

(* A navigation goes on to its modules, with the payload it has waited for *)
(* or the one it had.                                                      *)
MovesOn(n, a, l) == navs' = [navs EXCEPT ![n] = [[navs[n] EXCEPT !.at = a] EXCEPT !.load = l]]

LEMMA MovedNavs ==
  ASSUME NavTypeOK, NEW n \in Here, NEW a \in Underway, NEW l \in Nat, MovesOn(n, a, l)
  PROVE  /\ navs' \in [Here -> Navs]
         /\ \A m \in Here \ {n} : navs'[m] = navs[m]
         /\ navs'[n].at = a /\ navs'[n].load = l /\ navs'[n].url = navs[n].url
         /\ navs'[n].pop = navs[n].pop /\ navs'[n].restore = navs[n].restore
         /\ navs'[n].aborted = navs[n].aborted /\ navs'[n].asked = navs[n].asked
         /\ navs'[n].fresh = navs[n].fresh
<1> DEFINE N == Navs
           c == navs[n]
           d == [[c EXCEPT !.at = a] EXCEPT !.load = l]
<1>1. navs \in [Here -> N] /\ c \in N
  BY DEF NavTypeOK
<1>2. d \in N
  BY <1>1, NavRecord DEF Navs
<1>3. /\ d.at = a /\ d.load = l /\ d.url = c.url /\ d.pop = c.pop /\ d.restore = c.restore
      /\ d.aborted = c.aborted /\ d.asked = c.asked /\ d.fresh = c.fresh
  BY <1>1 DEF Navs
<1>4. navs' = [navs EXCEPT ![n] = d]
  BY DEF MovesOn
<1> HIDE DEF N, d
<1>5. QED
  BY <1>1, <1>2, <1>3, <1>4 DEF N

Opts == [pop : BOOLEAN, replace : BOOLEAN, restore : Nat, fresh : BOOLEAN]

LEMMA BegunNavs ==
  ASSUME NavTypeOK, NEW u \in Urls, NEW opts \in Opts, NEW hit \in Nat, NEW now \in Nat,
         Begin(u, opts, hit, now)
  PROVE  LET n == last + 1
         IN  /\ n \in Here /\ navs' \in [Here -> Navs]
             /\ activeAbort' = n /\ last' = n /\ navigating' = n
             /\ \A m \in Here \ {n} : navs'[m] = Aborted[m]
             /\ navs'[n].at \in Underway /\ navs'[n].url = u /\ ~navs'[n].aborted
             /\ navs'[n].pop = opts.pop /\ navs'[n].restore = opts.restore
             /\ navs'[n].load = hit /\ navs'[n].asked = now /\ navs'[n].fresh = opts.fresh
<1> DEFINE N == Navs
           n == last + 1
           a == IF hit = 0 THEN "fetch" ELSE "page"
           d == [at |-> a, url |-> u, pop |-> opts.pop, replace |-> opts.replace,
                 restore |-> opts.restore, aborted |-> FALSE, load |-> hit, asked |-> now,
                 fresh |-> opts.fresh]
<1>1. a \in Underway
  BY DEF Underway
<1>2. /\ opts.pop \in BOOLEAN /\ opts.replace \in BOOLEAN /\ opts.fresh \in BOOLEAN
      /\ opts.restore \in Nat
  BY DEF Opts
<1>3. d \in N
  BY <1>1, <1>2, Zenon DEF Navs
<1>4. /\ d.at = a /\ d.url = u /\ ~d.aborted /\ d.pop = opts.pop /\ d.restore = opts.restore
      /\ d.load = hit /\ d.asked = now /\ d.fresh = opts.fresh
  OBVIOUS
<1>5. /\ n \in Here /\ navs' = [Aborted EXCEPT ![n] = d]
      /\ activeAbort' = n /\ last' = n /\ navigating' = n
  BY DEF Begin
<1>6. Aborted \in [Here -> N]
  BY AbortedNavs
<1> HIDE DEF N, n, a, d
<1>7. navs' \in [Here -> N] /\ navs'[n] = d /\ \A m \in Here \ {n} : navs'[m] = Aborted[m]
  BY <1>3, <1>5, <1>6
<1>8. QED
  BY <1>1, <1>4, <1>5, <1>7 DEF N, n

-----------------------------------------------------------------------------
(* What the steps of the router are, by the part of the state they change.  *)

PayloadsMove ==
  \/ UNCHANGED <<payloads, invals>>
  \/ \E u \in Urls, a \in Nat : Store(u, a) /\ UNCHANGED invals
  \/ \E us : /\ Evict(us)
             /\ \/ UNCHANGED invals
                \/ \E vs \in SUBSET Urls : NewEpoch(vs) /\ vs \cap depRegistry \subseteq us
  \/ /\ \E u \in Urls : heap' = [heap EXCEPT ![global].form = u]
     /\ UNCHANGED <<cache, depRegistry, invals>>

LEMMA ClearMoves == ASSUME ClearAll PROVE PayloadsMove
<1>1. Evict(Urls) /\ NewEpoch(Urls) /\ Urls \cap depRegistry \subseteq Urls
  BY DEF ClearAll
<1>2. QED
  BY <1>1 DEF PayloadsMove

LEMMA CallsMove == ASSUME Calls PROVE PayloadsMove
<1>1. CASE \E us \in SUBSET Urls : invalidate(us)
  <2>1. PICK us \in SUBSET Urls : invalidate(us)
    BY <1>1
  <2>2. NewEpoch(us) /\ Evict(us \cap depRegistry)
    BY <2>1 DEF invalidate
  <2>3. QED
    BY <2>2 DEF PayloadsMove
<1>2. CASE \E u \in Urls : preloadData(u)
  <2>1. (Evict({Oldest}) \/ UNCHANGED payloads) /\ UNCHANGED invals
    BY <1>2 DEF preloadData
  <2>2. QED
    BY <2>1 DEF PayloadsMove
<1>3. CASE (\E u \in Urls : GotoInvalidating(u)) \/ invalidateAll
  BY <1>3, ClearMoves DEF GotoInvalidating, invalidateAll
<1>4. CASE (\E u \in Urls : pushState(u) \/ replaceState(u)) \/ Submit
  BY <1>4 DEF pushState, replaceState, Submit, PayloadsMove
<1>5. QED
  BY <1>1, <1>2, <1>3, <1>4 DEF Calls

LEMMA NetworkMoves == ASSUME TypeOK, Network PROVE PayloadsMove
<1>1. \A f \in fetches : f.url \in Urls /\ f.asked \in Nat
  BY DEF TypeOK, Flights
<1>2. CASE \E f \in fetches : RefetchOk(f) \/ PrefetchOk(f)
  <2>1. PICK f \in fetches : Store(f.url, f.asked) /\ UNCHANGED invals
    BY <1>2 DEF RefetchOk, PrefetchOk
  <2>2. QED
    BY <1>1, <2>1 DEF PayloadsMove
<1>3. CASE \E f \in fetches : Rewrap(f) \/ FetchLost(f)
  BY <1>3 DEF Rewrap, FetchLost, PayloadsMove
<1>4. CASE \E u \in forms : FormApplied(u)
  BY <1>4 DEF FormApplied, PayloadsMove, TypeOK
<1>5. CASE \E u \in forms : FormDropped(u) \/ \E v \in Urls : FormRedirected(u, v)
  BY <1>5 DEF FormDropped, FormRedirected, PayloadsMove
<1>6. QED
  BY <1>2, <1>3, <1>4, <1>5 DEF Network

LEMMA AnswerMoves == ASSUME TypeOK, NEW n \in Here, Answer(n) PROVE PayloadsMove
<1>1. CASE FetchOk(n)
  <2>1. Store(navs[n].url, navs[n].asked) /\ UNCHANGED invals
    BY <1>1 DEF FetchOk, GiveUp
  <2>2. navs[n].url \in Urls /\ navs[n].asked \in Nat
    BY DEF TypeOK, NavTypeOK, Navs
  <2>3. QED
    BY <2>1, <2>2 DEF PayloadsMove
<1>2. CASE ~FetchOk(n)
  <2>1. UNCHANGED <<payloads, invals>>
    BY <1>2 DEF Answer, FetchAborted, FetchFails, LoadPage, LoadFails, Superseded, Commit,
                FullLoad, GiveUp
  <2>2. QED
    BY <2>1 DEF PayloadsMove
<1>3. QED
  BY <1>1, <1>2

LEMMA PayloadsStep ==
  ASSUME TypeOK, CacheInv, [Next]_vars
  PROVE  PayloadTypeOK' /\ HeapKept /\ CacheInv'
<1>1. PayloadTypeOK
  BY DEF TypeOK
<1>2. PayloadsMove
  <2>1. CASE Navigation
    BY <2>1 DEF Navigation, Click, PopState, PayloadsMove
  <2>2. CASE UNCHANGED vars
    BY <2>2 DEF vars, PayloadsMove
  <2>3. QED
    BY <2>1, <2>2, CallsMove, NetworkMoves, AnswerMoves DEF Next
<1>3. CASE UNCHANGED <<payloads, invals>>
  BY <1>1, <1>3 DEF payloads, invals, PayloadTypeOK, HeapKept, CacheInv, InvalidatedGone, Keys
<1>4. CASE \E u \in Urls, a \in Nat : Store(u, a) /\ UNCHANGED invals
  BY <1>1, <1>4, StoreType, StoreCache, StorePayload
<1>5. CASE \E us : /\ Evict(us)
                   /\ \/ UNCHANGED invals
                      \/ \E vs \in SUBSET Urls : NewEpoch(vs) /\ vs \cap depRegistry \subseteq us
  <2>1. HeapKept
    BY <1>5 DEF Evict, HeapKept
  <2>2. QED
    BY <1>1, <1>5, <2>1, EvictType, EvictCache
<1>6. CASE /\ \E u \in Urls : heap' = [heap EXCEPT ![global].form = u]
           /\ UNCHANGED <<cache, depRegistry, invals>>
  BY <1>1, <1>6, FormWritten
<1>7. QED
  BY <1>2, <1>3, <1>4, <1>5, <1>6 DEF PayloadsMove

(* navigate is called: by a click, a goto, a form's redirect or, after the  *)
(* browser has moved to an entry, by popstate.                              *)
Asks ==
  \E u \in Urls, opts \in Opts, hit \in Nat, now \in Nat :
    /\ Veto \/ Begin(u, opts, hit, now)
    /\ opts.fresh => hit = 0
    /\ IF opts.pop THEN pos' \in DOMAIN entries /\ entries[pos'] = [url |-> u, id |-> opts.restore]
                   ELSE pos' = pos
    /\ UNCHANGED <<entries, unloaded, shallowed>>

(* A navigation ends without effect: the document is left, or it had been   *)
(* aborted or overtaken.                                                    *)
Ends(n) ==
  /\ navs' = Done(n)
  /\ unloaded' \/ (unloaded' = unloaded /\ (navs[n].aborted \/ activeAbort # n))
  /\ UNCHANGED <<entries, pos, shallowed, activeAbort, last, vetoed, active>>

(* It goes on with the payload it has, or the one that came. *)
GoesOn(n) ==
  /\ \E a \in Underway, l \in Nat :
       /\ MovesOn(n, a, l)
       /\ l = navs[n].load \/ (l \in DOMAIN heap' /\ heap'[l].asked = navs[n].asked)
  /\ UNCHANGED <<browser, activeAbort, last, vetoed, active>>

Shallow(u) == pushState(u) \/ replaceState(u)

Counts == ops' = ops \/ (ops < MaxOps /\ ops' = ops + 1)

LEMMA LinkOpts ==
  ASSUME NEW u, NEW r \in BOOLEAN
  PROVE  Link(u, r) \in Opts /\ ~Link(u, r).pop /\ ~Link(u, r).fresh
<1> DEFINE no == FALSE
           B == BOOLEAN
           e == [pop |-> no, replace |-> r, restore |-> 0, fresh |-> no]
<1>1. Link(u, r) = e
  BY DEF Link
<1>2. no \in B /\ r \in B /\ ~no
  OBVIOUS
<1>3. Opts = [pop : B, replace : B, restore : Nat, fresh : B]
  BY DEF Opts
<1> HIDE DEF no, B
<1>4. e \in Opts /\ e.pop = no /\ e.fresh = no
  BY <1>2, <1>3
<1>5. QED
  BY <1>1, <1>2, <1>4

LEMMA CachedIs == ASSUME TypeOK PROVE \A k \in Keys : Cached(k) \in Nat
<1>1. DOMAIN heap = 1..Len(heap) /\ Len(heap) \in Nat
  BY DEF TypeOK, PayloadTypeOK
<1>2. \A k \in Keys : cache[k].load \in DOMAIN heap
  BY DEF TypeOK, PayloadTypeOK
<1>3. QED
  BY <1>1, <1>2 DEF Cached

LEMMA LinkAsks ==
  ASSUME TypeOK, NEW u \in Urls, NEW r \in BOOLEAN, Navigate(u, Link(u, r)),
         UNCHANGED <<entries, pos, unloaded, shallowed>>
  PROVE  Asks
<1> DEFINE hit == IF u \in Keys THEN Cached(u) ELSE 0
<1>1. hit \in Nat /\ epoch \in Nat
  BY CachedIs DEF TypeOK, PayloadTypeOK
<1>2. Veto \/ Begin(u, Link(u, r), hit, epoch)
  BY DEF Navigate
<1> HIDE DEF hit
<1>3. QED
  BY <1>1, <1>2, LinkOpts DEF Asks

LEMMA PopAsks == ASSUME TypeOK, NEW p \in 1..Len(entries), PopState(p) PROVE Asks
<1> DEFINE hit == IF entries[p].url \in Keys THEN Cached(entries[p].url) ELSE 0
           yes == TRUE
           no == FALSE
           B == BOOLEAN
           opts == [pop |-> yes, replace |-> yes, restore |-> entries[p].id, fresh |-> no]
<1>1. hit \in Nat /\ epoch \in Nat
  BY CachedIs DEF TypeOK, PayloadTypeOK
<1>2. /\ entries[p] \in [url : Urls, id : Ids] /\ p \in DOMAIN entries
      /\ MaxNavs \in Nat /\ MaxOps \in Nat
  <2> DEFINE E == [url : Urls, id : Ids]
  <2>1. entries \in Seq(E)
    BY DEF TypeOK, HistoryTypeOK
  <2> HIDE DEF E
  <2>2. entries[p] \in E /\ p \in DOMAIN entries
    BY <2>1
  <2>3. QED
    BY <2>2, RouterAssumption DEF E
<1>3. entries[p] = [url |-> entries[p].url, id |-> entries[p].id] /\ entries[p].url \in Urls
      /\ entries[p].id \in Nat
  BY <1>2 DEF Ids
<1>4. /\ Veto \/ Begin(entries[p].url, opts, hit, epoch)
      /\ pos' = p /\ UNCHANGED <<entries, unloaded, shallowed>>
  BY DEF PopState, Navigate
<1>5. yes \in B /\ no \in B /\ yes /\ ~no
  OBVIOUS
<1>6. Opts = [pop : B, replace : B, restore : Nat, fresh : B]
  BY DEF Opts
<1> HIDE DEF hit, yes, no, B
<1>7. opts \in Opts /\ opts.pop = yes /\ opts.restore = entries[p].id /\ opts.fresh = no
  BY <1>3, <1>5, <1>6
<1> HIDE DEF opts
<1>8. QED
  BY <1>1, <1>2, <1>3, <1>4, <1>5, <1>7 DEF Asks

LEMMA GotoAsks == ASSUME TypeOK, NEW u \in Urls, GotoInvalidating(u) PROVE Asks
<1> DEFINE opts == [Link(u, FALSE) EXCEPT !.fresh = TRUE]
           yes == TRUE
           no == FALSE
           B == BOOLEAN
           e == [pop |-> no, replace |-> no, restore |-> 0, fresh |-> no]
<1>1. Veto \/ Begin(u, opts, 0, epoch + 1)
  BY DEF GotoInvalidating
<1>2. UNCHANGED <<entries, pos, unloaded, shallowed>>
  BY DEF GotoInvalidating, browser
<1>3. Link(u, FALSE) = e /\ opts = [e EXCEPT !.fresh = yes]
  <2>1. Link(u, FALSE) = e
    BY DEF Link
  <2> HIDE DEF e
  <2>2. QED
    BY <2>1
<1>4. yes \in B /\ no \in B /\ yes /\ ~no
  OBVIOUS
<1>5. Opts = [pop : B, replace : B, restore : Nat, fresh : B]
  BY DEF Opts
<1> HIDE DEF yes, no, B, opts
<1>6. opts \in Opts /\ opts.pop = no
  BY <1>3, <1>4, <1>5
<1>7. epoch + 1 \in Nat
  BY DEF TypeOK, PayloadTypeOK
<1>8. QED
  BY <1>1, <1>2, <1>4, <1>6, <1>7 DEF Asks

LEMMA AnswerKinds ==
  ASSUME TypeOK, NEW n \in Here, Answer(n) PROVE Ends(n) \/ GoesOn(n) \/ Commit(n)
<1>0. /\ navs \in [Here -> Navs]
      /\ navs[n].load \in Nat /\ navs[n].url \in Urls /\ navs[n].asked \in Nat
  BY DEF TypeOK, NavTypeOK, Navs
<1>1. CASE FetchOk(n) /\ ~Overtaken(n)
  <2> DEFINE l == Len(heap) + 1
  <2>1. /\ Store(navs[n].url, navs[n].asked)
        /\ UNCHANGED <<browser, activeAbort, last, vetoed, active>>
        /\ navs' = [navs EXCEPT ![n].at = "page", ![n].load = l]
    BY <1>1 DEF FetchOk, GiveUp
  <2>2. l \in DOMAIN heap' /\ heap'[l].asked = navs[n].asked /\ l \in Nat
    <3>1. PayloadTypeOK
      BY DEF TypeOK
    <3>2. Len(heap) \in Nat
      BY <3>1 DEF PayloadTypeOK
    <3>3. QED
      BY <1>0, <2>1, <3>1, <3>2, StorePayload
  <2> HIDE DEF l
  <2>3. MovesOn(n, "page", l)
    BY <1>0, <2>1 DEF MovesOn
  <2>4. QED
    BY <2>1, <2>2, <2>3 DEF GoesOn, Underway
<1>2. CASE LoadPage(n)
  <2> DEFINE l == navs[n].load
             d == [navs[n] EXCEPT !.at = "wrapper"]
  <2>1. /\ UNCHANGED <<browser, activeAbort, last, vetoed, active>>
        /\ navs' = [navs EXCEPT ![n] = d]
    BY <1>2, <1>0 DEF LoadPage
  <2>2. [d EXCEPT !.load = l] = d
    <3> DEFINE A == Underway \cup {"idle", "done"}
               B == BOOLEAN
    <3>1. /\ "wrapper" \in A /\ TRUE \in B /\ 0 \in Nat
          /\ navs[n] \in [at : A, url : Urls, pop : B, replace : B, restore : Nat, aborted : B,
                         load : Nat, asked : Nat, fresh : B]
      BY <1>0 DEF Navs, Underway
    <3> HIDE DEF A, B
    <3>2. QED
      BY <3>1, NavRecord
  <2> HIDE DEF l
  <2>3. MovesOn(n, "wrapper", l)
    BY <2>1, <2>2 DEF MovesOn
  <2> HIDE DEF d
  <2>4. QED
    BY <1>0, <2>1, <2>3 DEF GoesOn, Underway, l
<1>3. CASE (FetchOk(n) /\ Overtaken(n)) \/ FetchAborted(n) \/ Superseded(n)
  <2>1. GiveUp(n) /\ UNCHANGED browser /\ (navs[n].aborted \/ activeAbort # n)
    BY <1>3 DEF FetchOk, FetchAborted, Superseded, Overtaken
  <2>2. QED
    BY <2>1 DEF GiveUp, Ends, browser
<1>4. CASE FetchFails(n) \/ LoadFails(n)
  <2>1. FullLoad(n)
    BY <1>4 DEF FetchFails, LoadFails
  <2>2. QED
    BY <2>1 DEF FullLoad, GiveUp, Ends
<1>5. QED
  BY <1>1, <1>2, <1>3, <1>4 DEF Answer

LEMMA StepKinds ==
  ASSUME TypeOK, [Next]_vars
  PROVE  \/ Asks /\ Counts
         \/ (\E n \in Here : Ends(n) \/ GoesOn(n) \/ Commit(n)) /\ ops' = ops
         \/ (\E u \in Urls : Shallow(u)) /\ ops < MaxOps /\ ops' = ops + 1
         \/ UNCHANGED <<browser, nav, active>> /\ Counts
<1>1. CASE Navigation /\ UNCHANGED ops
  <2>1. CASE \E u \in Urls, r \in BOOLEAN : Click(u, r)
    <3>1. PICK u \in Urls, r \in BOOLEAN : Click(u, r)
      BY <2>1
    <3>2. Navigate(u, Link(u, r)) /\ UNCHANGED <<entries, pos, unloaded, shallowed>>
      BY <3>1 DEF Click, browser
    <3>3. QED
      BY <1>1, <3>2, LinkAsks DEF Counts
  <2>2. CASE \E p \in 1..Len(entries) : PopState(p)
    BY <1>1, <2>2, PopAsks DEF Counts
  <2>3. QED
    BY <1>1, <2>1, <2>2 DEF Navigation
<1>2. CASE Calls /\ ops < MaxOps /\ ops' = ops + 1
  <2>1. CASE \E u \in Urls : GotoInvalidating(u)
    BY <1>2, <2>1, GotoAsks DEF Counts
  <2>2. CASE \E u \in Urls : pushState(u) \/ replaceState(u)
    BY <1>2, <2>2 DEF Shallow
  <2>3. CASE \/ \E u \in Urls : preloadData(u)
             \/ \E us \in SUBSET Urls : invalidate(us)
             \/ invalidateAll \/ Submit
    BY <1>2, <2>3 DEF preloadData, invalidate, invalidateAll, Submit, Counts
  <2>4. QED
    BY <1>2, <2>1, <2>2, <2>3 DEF Calls
<1>3. CASE Network /\ UNCHANGED ops
  <2>1. CASE \E u \in forms, v \in Urls : FormRedirected(u, v)
    <3>1. PICK u \in forms, v \in Urls : FormRedirected(u, v)
      BY <2>1
    <3>2. Navigate(v, Link(v, FALSE)) /\ UNCHANGED <<entries, pos, unloaded, shallowed>>
      BY <3>1 DEF FormRedirected, browser
    <3>3. QED
      BY <1>3, <3>2, LinkAsks DEF Counts
  <2>2. CASE \/ \E f \in fetches : RefetchOk(f) \/ Rewrap(f) \/ PrefetchOk(f) \/ FetchLost(f)
             \/ \E u \in forms : FormDropped(u) \/ FormApplied(u)
    BY <1>3, <2>2 DEF RefetchOk, Rewrap, PrefetchOk, FetchLost, FormDropped, FormApplied, Counts
  <2>3. QED
    BY <1>3, <2>1, <2>2 DEF Network
<1>4. CASE \E n \in Here : Answer(n) /\ UNCHANGED ops
  BY <1>4, AnswerKinds
<1>5. CASE UNCHANGED vars
  BY <1>5 DEF vars, Counts
<1>6. QED
  BY <1>1, <1>2, <1>3, <1>4, <1>5 DEF Next

-----------------------------------------------------------------------------
(* The browser's history.                                                  *)

Entries == [url : Urls, id : Ids]

LEMMA EntriesAre ==
  ASSUME HistoryTypeOK
  PROVE  /\ entries \in Seq(Entries) /\ Len(entries) \in Nat /\ DOMAIN entries = 1..Len(entries)
         /\ pos \in 1..Len(entries) /\ \A p \in DOMAIN entries : entries[p] \in Entries
<1> DEFINE E == Entries
<1>1. entries \in Seq(E) /\ pos \in DOMAIN entries
  BY DEF HistoryTypeOK, Entries
<1> HIDE DEF E
<1>2. /\ Len(entries) \in Nat /\ DOMAIN entries = 1..Len(entries)
      /\ \A p \in DOMAIN entries : entries[p] \in E
  BY <1>1
<1>3. QED
  BY <1>1, <1>2 DEF E

(* A new entry in the place of the current one, or behind it. *)
LEMMA EntrySet ==
  ASSUME HistoryTypeOK, NEW u \in Urls, NEW i \in Ids, PushEntry(u, i) \/ ReplaceEntry(u, i)
  PROVE  /\ entries' \in Seq(Entries) /\ pos' \in DOMAIN entries'
         /\ entries'[pos'].url = u /\ entries'[pos'].id = i
         /\ \A p \in DOMAIN entries' :
              \/ entries'[p].url = u /\ entries'[p].id = i
              \/ \E q \in DOMAIN entries : entries'[p] = entries[q]
<1> DEFINE E == Entries
           e == [url |-> u, id |-> i]
<1>1. e \in E /\ e.url = u /\ e.id = i
  BY DEF Entries
<1>2. /\ entries \in Seq(E) /\ Len(entries) \in Nat /\ DOMAIN entries = 1..Len(entries)
      /\ pos \in 1..Len(entries)
  BY EntriesAre
<1>3. \/ entries' = Append(SubSeq(entries, 1, pos), e) /\ pos' = pos + 1
      \/ entries' = [entries EXCEPT ![pos] = e] /\ pos' = pos
  BY DEF PushEntry, ReplaceEntry
<1> HIDE DEF E, e
<1>4. CASE entries' = Append(SubSeq(entries, 1, pos), e) /\ pos' = pos + 1
  <2> DEFINE kept == SubSeq(entries, 1, pos)
  <2>1. kept \in Seq(E) /\ Len(kept) = pos /\ \A p \in 1..pos : kept[p] = entries[p]
    BY <1>2
  <2> HIDE DEF kept
  <2>2. entries' = Append(kept, e)
    BY <1>4 DEF kept
  <2>3. /\ entries' \in Seq(E) /\ DOMAIN entries' = 1..(pos + 1) /\ entries'[pos + 1] = e
        /\ \A p \in 1..pos : entries'[p] = entries[p]
    BY <1>1, <1>2, <2>1, <2>2
  <2>4. \A p \in 1..(pos + 1) : p = pos + 1 \/ p \in 1..pos
    BY <1>2
  <2>5. pos' = pos + 1 /\ pos + 1 \in 1..(pos + 1) /\ 1..pos \subseteq DOMAIN entries
    BY <1>2, <1>4
  <2>6. QED
    BY <1>1, <2>3, <2>4, <2>5 DEF E
<1>5. CASE entries' = [entries EXCEPT ![pos] = e] /\ pos' = pos
  <2>1. /\ entries' \in Seq(E) /\ DOMAIN entries' = DOMAIN entries /\ entries'[pos] = e
        /\ \A p \in DOMAIN entries : p # pos => entries'[p] = entries[p]
    BY <1>1, <1>2, <1>5
  <2>2. QED
    BY <1>1, <1>2, <1>5, <2>1 DEF E
<1>6. QED
  BY <1>3, <1>4, <1>5

(* captureSnapshot, between the lookups of other steps. *)
LEMMA Captured ==
  ASSUME HistoryTypeOK, captureSnapshot
  PROVE  /\ snapshots' \in [Ids -> Routes \cup {NoRoute}]
         /\ snapshots'[currentHistoryId] \in {snapshots[currentHistoryId], currentRouteId}
         /\ \A i \in Ids \ {currentHistoryId} : snapshots'[i] = snapshots[i]
BY DEF HistoryTypeOK, captureSnapshot

LEMMA BoundsAre == MaxNavs \in Nat /\ MaxOps \in Nat /\ CacheMax \in Nat \ {0}
BY RouterAssumption

LEMMA CountsUp ==
  ASSUME HistoryTypeOK, Counts
  PROVE  ops' \in 0..MaxOps /\ ops' \in Nat /\ ops \in Nat /\ ops' >= ops
BY BoundsAre DEF HistoryTypeOK, Counts

LEMMA SumGrows == \A a, b, c, d, k \in Nat : a <= b + c + k /\ d >= c => a <= b + d + k
OBVIOUS

(* What navigate leaves alone, whether its hooks agree or not. *)
LEMMA AsksLeaves ==
  ASSUME NEW u, NEW opts, NEW hit, NEW now, Veto \/ Begin(u, opts, hit, now)
  PROVE  /\ captureSnapshot
         /\ UNCHANGED <<activeKey, currentHistoryId, nextHistoryId, currentChainKey,
                        currentRouteId, restored>>
BY DEF Veto, Begin

HasId(i) == i \in Ids /\ i < nextHistoryId

LEMMA AsksNavs ==
  ASSUME TypeOK, IdsLast, Asks
  PROVE  /\ NavTypeOK'
         /\ nextHistoryId <= last' + ops + (IF activeAbort' = 0 THEN 2 ELSE 1)
         /\ \A m \in Here : navs'[m].pop => HasId(navs'[m].restore)
<1>0. NavTypeOK /\ HistoryTypeOK
  BY DEF TypeOK
<1>1. PICK u \in Urls, opts \in Opts, hit \in Nat, now \in Nat :
        /\ Veto \/ Begin(u, opts, hit, now)
        /\ IF opts.pop
           THEN pos' \in DOMAIN entries /\ entries[pos'] = [url |-> u, id |-> opts.restore]
           ELSE pos' = pos
  BY DEF Asks
<1>2. \A m \in Here : Aborted[m].pop => HasId(Aborted[m].restore)
  BY <1>0, AbortedNavs DEF IdsLast, HasId
<1>3. CASE Veto
  <2>1. navs' = Aborted /\ activeAbort' = activeAbort /\ last' = last
    BY <1>3 DEF Veto
  <2>2. NavTypeOK'
    BY <1>0, <2>1, AbortedNavs DEF NavTypeOK
  <2>3. QED
    BY <1>2, <2>1, <2>2 DEF IdsLast
<1>4. CASE Begin(u, opts, hit, now)
  <2> DEFINE n == last + 1
  <2>1. /\ n \in Here /\ navs' \in [Here -> Navs] /\ activeAbort' = n /\ last' = n
        /\ \A m \in Here \ {n} : navs'[m] = Aborted[m]
        /\ navs'[n].pop = opts.pop /\ navs'[n].restore = opts.restore
    BY <1>0, <1>4, BegunNavs
  <2>2. NavTypeOK'
    <3>1. n \in 0..MaxNavs /\ n \in {0} \cup Here
      BY <2>1, BoundsAre DEF Here
    <3> HIDE DEF n
    <3>2. QED
      BY <2>1, <3>1 DEF NavTypeOK
  <2>3. opts.pop => HasId(opts.restore)
    <3>1. SUFFICES ASSUME opts.pop PROVE HasId(opts.restore)
      OBVIOUS
    <3>2. pos' \in DOMAIN entries /\ entries[pos'].id = opts.restore
      BY <1>1, <3>1
    <3>3. QED
      BY <1>0, <3>2, EntriesAre DEF IdsLast, HasId, Entries
  <2>4. nextHistoryId <= last + ops + 2
    BY <1>0 DEF IdsLast, NavTypeOK, HistoryTypeOK
  <2>5. nextHistoryId <= last' + ops + (IF activeAbort' = 0 THEN 2 ELSE 1)
    BY <1>0, <2>1, <2>4, BoundsAre DEF NavTypeOK, HistoryTypeOK, Here
  <2> HIDE DEF n
  <2>6. QED
    BY <1>2, <2>1, <2>2, <2>3, <2>5
<1>5. QED
  BY <1>1, <1>3, <1>4

LEMMA AsksHistory ==
  ASSUME TypeOK, IdsLast, Asks, Counts PROVE NavTypeOK' /\ HistoryTypeOK' /\ IdsLast'
<1>0. HistoryTypeOK
  BY DEF TypeOK
<1>1. /\ captureSnapshot /\ UNCHANGED entries
      /\ UNCHANGED <<activeKey, currentHistoryId, nextHistoryId, currentRouteId>>
  BY AsksLeaves DEF Asks
<1>2. pos' \in DOMAIN entries
  BY <1>0 DEF Asks, HistoryTypeOK
<1>3. ops' \in 0..MaxOps
  BY <1>0, CountsUp
<1>4. HistoryTypeOK'
  BY <1>0, <1>1, <1>2, <1>3, Captured DEF HistoryTypeOK
<1>5. NavTypeOK' /\ nextHistoryId' <= last' + ops' + (IF activeAbort' = 0 THEN 2 ELSE 1)
  <2>1. NavTypeOK' /\ nextHistoryId <= last' + ops + (IF activeAbort' = 0 THEN 2 ELSE 1)
    BY AsksNavs
  <2>2. last' \in Nat /\ nextHistoryId \in Nat
    BY <1>0, <2>1, BoundsAre DEF NavTypeOK, HistoryTypeOK
  <2>3. CASE activeAbort' = 0
    BY <1>0, <1>1, <2>1, <2>2, <2>3, CountsUp, SumGrows
  <2>4. CASE activeAbort' # 0
    BY <1>0, <1>1, <2>1, <2>2, <2>4, CountsUp, SumGrows
  <2>5. QED
    BY <2>1, <2>3, <2>4
<1>6. \A i \in Ids : i >= nextHistoryId' => snapshots'[i] = NoRoute
  BY <1>0, <1>1, Captured, BoundsAre DEF IdsLast, HistoryTypeOK, Ids
<1>7. \A m \in Here :
      navs'[m].pop => navs'[m].restore \in Ids /\ navs'[m].restore < nextHistoryId'
  BY <1>1, AsksNavs DEF HasId
<1>8. QED
  BY <1>1, <1>4, <1>5, <1>6, <1>7 DEF IdsLast

(* A navigation that waits or gives up keeps, of what the history rests on, *)
(* everything.                                                              *)
LEMMA QuietNavs ==
  ASSUME NavTypeOK, NEW n \in Here, Ends(n) \/ GoesOn(n)
  PROVE  /\ NavTypeOK' /\ UNCHANGED <<entries, pos, activeAbort, last, vetoed, shallowed, active>>
         /\ \A m \in Here : navs'[m].pop => navs[m].pop
         /\ \A m \in Here : navs'[m].pop => navs'[m].restore = navs[m].restore
         /\ \A m \in Here : navs'[m].url = navs[m].url
<1>1. CASE Ends(n)
  BY <1>1, DoneNavs DEF Ends, NavTypeOK
<1>2. CASE GoesOn(n)
  <2>1. PICK a \in Underway, l \in Nat : MovesOn(n, a, l)
    BY <1>2 DEF GoesOn
  <2>2. UNCHANGED <<entries, pos, activeAbort, last, vetoed, shallowed, active>>
    BY <1>2 DEF GoesOn, browser
  <2>3. /\ navs' \in [Here -> Navs] /\ \A m \in Here \ {n} : navs'[m] = navs[m]
        /\ navs'[n].url = navs[n].url /\ navs'[n].pop = navs[n].pop
        /\ navs'[n].restore = navs[n].restore
    BY <2>1, MovedNavs
  <2>4. QED
    BY <2>2, <2>3 DEF NavTypeOK
<1>3. QED
  BY <1>1, <1>2

LEMMA QuietHistory ==
  ASSUME TypeOK, IdsLast, NEW n \in Here, Ends(n) \/ GoesOn(n), ops' = ops
  PROVE  NavTypeOK' /\ HistoryTypeOK' /\ IdsLast'
<1>1. NavTypeOK /\ HistoryTypeOK
  BY DEF TypeOK
<1>2. NavTypeOK' /\ UNCHANGED <<entries, pos, activeAbort, last, active>>
  BY <1>1, QuietNavs
<1>3. HistoryTypeOK'
  BY <1>1, <1>2 DEF HistoryTypeOK, active
<1>4. \A m \in Here :
      navs'[m].pop => navs'[m].restore \in Ids /\ navs'[m].restore < nextHistoryId'
  BY <1>1, <1>2, QuietNavs DEF IdsLast, active
<1>5. QED
  BY <1>2, <1>3, <1>4 DEF IdsLast, active

(* What a commit writes to the history. *)
LEMMA CommitRecords ==
  ASSUME TypeOK, IdsLast, NEW n \in Here, Commit(n)
  PROVE  /\ activeAbort = n /\ navs[n].url \in Urls
         /\ \/ /\ navs[n].pop /\ currentHistoryId' = navs[n].restore
               /\ UNCHANGED <<entries, pos, nextHistoryId>>
            \/ /\ ~navs[n].pop /\ nextHistoryId \in Ids
               /\ currentHistoryId' = nextHistoryId /\ nextHistoryId' = nextHistoryId + 1
               /\ PushEntry(navs[n].url, nextHistoryId) \/ ReplaceEntry(navs[n].url, nextHistoryId)
<1>1. activeAbort = n /\ navs[n].url \in Urls /\ n # 0
  BY BoundsAre DEF Commit, Overtaken, TypeOK, NavTypeOK, Navs, Here
<1>2. nextHistoryId \in Ids
  <2>1. nextHistoryId <= last + ops + 1 /\ last \in 0..MaxNavs /\ ops \in 0..MaxOps
    BY <1>1 DEF IdsLast, TypeOK, NavTypeOK, HistoryTypeOK
  <2>2. currentHistoryId \in Nat \ {0} /\ currentHistoryId < nextHistoryId /\ nextHistoryId \in Nat
    BY BoundsAre DEF IdsLast, TypeOK, HistoryTypeOK, Ids
  <2>3. QED
    BY <2>1, <2>2, BoundsAre DEF Ids
<1>3. Record(n)
  BY DEF Commit
<1>4. QED
  BY <1>1, <1>2, <1>3 DEF Record

LEMMA CommitHistory ==
  ASSUME TypeOK, IdsLast, NEW n \in Here, Commit(n), ops' = ops
  PROVE  NavTypeOK' /\ HistoryTypeOK' /\ IdsLast'
<1>0. NavTypeOK /\ HistoryTypeOK
  BY DEF TypeOK
<1>1. /\ navs' = Done(n) /\ activeAbort' = 0 /\ last' = last /\ snapshots' = snapshots
      /\ activeKey' = navs[n].url /\ currentRouteId' = RouteOf[navs[n].url]
  BY DEF Commit
<1>2. NavTypeOK'
  BY <1>0, <1>1, DoneNavs DEF NavTypeOK
<1>3. \A m \in Here : navs'[m].pop => navs[m].pop /\ navs'[m].restore = navs[m].restore
  BY <1>0, <1>1, DoneNavs
<1>4. activeKey' \in Urls /\ currentRouteId' \in Routes
  BY <1>1, CommitRecords, RouterAssumption
<1>5. nextHistoryId \in Nat /\ last \in Nat /\ ops \in Nat /\ nextHistoryId <= last + ops + 1
  <2>1. activeAbort # 0
    BY CommitRecords, BoundsAre DEF Here
  <2>2. QED
    BY <1>0, <2>1, BoundsAre DEF IdsLast, NavTypeOK, HistoryTypeOK
<1>6. CASE navs[n].pop
  <2>1. currentHistoryId' = navs[n].restore /\ UNCHANGED <<entries, pos, nextHistoryId>>
    BY <1>6, CommitRecords
  <2>2. currentHistoryId' \in Ids /\ currentHistoryId' < nextHistoryId'
    BY <1>6, <2>1 DEF IdsLast
  <2>3. HistoryTypeOK'
    BY <1>0, <1>1, <1>4, <2>1, <2>2 DEF HistoryTypeOK
  <2>4. nextHistoryId' <= last' + ops' + 2
    BY <1>1, <1>5, <2>1
  <2>5. QED
    BY <1>1, <1>2, <1>3, <2>1, <2>2, <2>3, <2>4 DEF IdsLast
<1>7. CASE ~navs[n].pop
  <2>1. /\ nextHistoryId \in Ids /\ currentHistoryId' = nextHistoryId
        /\ nextHistoryId' = nextHistoryId + 1
        /\ PushEntry(navs[n].url, nextHistoryId) \/ ReplaceEntry(navs[n].url, nextHistoryId)
    BY <1>7, CommitRecords
  <2>2. /\ entries' \in Seq(Entries) /\ pos' \in DOMAIN entries'
        /\ \A p \in DOMAIN entries' : \/ entries'[p].id = nextHistoryId
                                      \/ \E q \in DOMAIN entries : entries'[p] = entries[q]
    BY <1>0, <2>1, CommitRecords, EntrySet
  <2>3. HistoryTypeOK'
    BY <1>0, <1>1, <1>4, <1>5, <2>1, <2>2 DEF HistoryTypeOK, Entries
  <2>4. nextHistoryId' <= last' + ops' + 2 /\ currentHistoryId' < nextHistoryId'
    BY <1>1, <1>5, <2>1
  <2>5. \A i \in Ids : i < nextHistoryId => i < nextHistoryId'
    BY <1>5, <2>1, BoundsAre DEF Ids
  <2>6. \A i \in Ids : i >= nextHistoryId' => snapshots'[i] = NoRoute
    BY <1>1, <1>5, <2>1, BoundsAre DEF IdsLast, Ids
  <2>7. \A p \in DOMAIN entries : entries[p].id \in Ids
    BY <1>0, EntriesAre DEF Entries
  <2>8. \A p \in DOMAIN entries' : entries'[p].id < nextHistoryId'
    BY <1>5, <2>1, <2>2, <2>5, <2>7 DEF IdsLast
  <2>9. \A m \in Here :
        navs'[m].pop => navs'[m].restore \in Ids /\ navs'[m].restore < nextHistoryId'
    BY <1>3, <2>5 DEF IdsLast
  <2>10. QED
    BY <1>1, <1>2, <2>3, <2>4, <2>6, <2>8, <2>9 DEF IdsLast
<1>8. QED
  BY <1>6, <1>7

LEMMA ShallowHistory ==
  ASSUME TypeOK, IdsLast, NEW u \in Urls, Shallow(u), ops < MaxOps, ops' = ops + 1
  PROVE  NavTypeOK' /\ HistoryTypeOK' /\ IdsLast'
<1>0. NavTypeOK /\ HistoryTypeOK
  BY DEF TypeOK
<1>1. UNCHANGED <<navs, activeAbort, last, activeKey, currentRouteId, snapshots>>
  BY DEF Shallow, pushState, replaceState, nav, active
<1>2. NavTypeOK'
  BY <1>0, <1>1 DEF NavTypeOK
<1>3. /\ nextHistoryId \in Nat /\ last \in Nat /\ ops \in Nat /\ ops' \in 0..MaxOps
      /\ nextHistoryId <= last + ops + 2
      /\ currentHistoryId \in Nat \ {0} /\ currentHistoryId < nextHistoryId
  <2>1. last \in Nat /\ nextHistoryId \in Nat /\ currentHistoryId \in Nat \ {0}
    BY <1>0, BoundsAre DEF NavTypeOK, HistoryTypeOK, Ids
  <2>2. ops \in Nat /\ ops' \in 0..MaxOps
    BY <1>0, CountsUp DEF Counts
  <2>3. nextHistoryId <= last + ops + 2 /\ currentHistoryId < nextHistoryId
    BY <2>1, <2>2 DEF IdsLast
  <2>4. QED
    BY <2>1, <2>2, <2>3
<1>4. nextHistoryId \in Ids
  BY <1>0, <1>3, BoundsAre DEF Ids, NavTypeOK
<1>5. PICK i \in Ids :
        /\ PushEntry(u, i) \/ ReplaceEntry(u, i)
        /\ i < nextHistoryId' /\ currentHistoryId' \in Ids /\ currentHistoryId' < nextHistoryId'
        /\ nextHistoryId' \in {nextHistoryId, nextHistoryId + 1}
  <2>1. CASE pushState(u)
    BY <2>1, <1>3, <1>4 DEF pushState
  <2>2. CASE replaceState(u)
    BY <2>2, <1>0, <1>3 DEF replaceState, active, HistoryTypeOK
  <2>3. QED
    BY <2>1, <2>2 DEF Shallow
<1>6. /\ entries' \in Seq(Entries) /\ pos' \in DOMAIN entries'
      /\ \A p \in DOMAIN entries' : \/ entries'[p].id = i
                                    \/ \E q \in DOMAIN entries : entries'[p] = entries[q]
  BY <1>0, <1>5, EntrySet
<1>7. HistoryTypeOK'
  <2>1. nextHistoryId' \in Nat /\ currentHistoryId' \in Ids
    BY <1>3, <1>5
  <2>2. QED
    BY <1>0, <1>1, <1>3, <1>6, <2>1 DEF HistoryTypeOK, Entries
<1>8. nextHistoryId' <= last' + ops' + (IF activeAbort' = 0 THEN 2 ELSE 1)
  <2>1. nextHistoryId' <= nextHistoryId + 1 /\ nextHistoryId' \in Nat
    BY <1>3, <1>5
  <2>2. CASE activeAbort = 0
    BY <1>1, <1>3, <2>1, <2>2 DEF IdsLast
  <2>3. CASE activeAbort # 0
    BY <1>1, <1>3, <2>1, <2>3 DEF IdsLast
  <2>4. QED
    BY <2>2, <2>3
<1>9. \A k \in Ids : k < nextHistoryId => k < nextHistoryId'
  BY <1>3, <1>5, BoundsAre DEF Ids
<1>10. \A k \in Ids : k >= nextHistoryId' => snapshots'[k] = NoRoute
  BY <1>1, <1>3, <1>5, BoundsAre DEF IdsLast, Ids
<1>11. \A p \in DOMAIN entries : entries[p].id \in Ids
  BY <1>0, EntriesAre DEF Entries
<1>12. \A p \in DOMAIN entries' : entries'[p].id < nextHistoryId'
  BY <1>5, <1>6, <1>9, <1>11 DEF IdsLast
<1>13. \A m \in Here :
      navs'[m].pop => navs'[m].restore \in Ids /\ navs'[m].restore < nextHistoryId'
  BY <1>1, <1>9 DEF IdsLast
<1>14. QED
  BY <1>2, <1>5, <1>7, <1>8, <1>10, <1>12, <1>13 DEF IdsLast

LEMMA RestHistory ==
  ASSUME TypeOK, IdsLast, UNCHANGED <<browser, nav, active>>, Counts
  PROVE  NavTypeOK' /\ HistoryTypeOK' /\ IdsLast'
<1>0. NavTypeOK /\ HistoryTypeOK
  BY DEF TypeOK
<1>1. /\ UNCHANGED <<entries, pos, navs, activeAbort, last>>
      /\ UNCHANGED <<activeKey, currentHistoryId, nextHistoryId, currentRouteId, snapshots>>
  BY DEF browser, nav, active
<1>2. NavTypeOK'
  BY <1>0, <1>1 DEF NavTypeOK
<1>3. last \in Nat /\ nextHistoryId \in Nat
  BY <1>0, BoundsAre DEF HistoryTypeOK, NavTypeOK
<1>4. HistoryTypeOK'
  BY <1>0, <1>1, CountsUp DEF HistoryTypeOK
<1>5. nextHistoryId' <= last' + ops' + (IF activeAbort' = 0 THEN 2 ELSE 1)
  <2>1. CASE activeAbort = 0
    BY <1>0, <1>1, <1>3, <2>1, CountsUp, SumGrows DEF IdsLast
  <2>2. CASE activeAbort # 0
    BY <1>0, <1>1, <1>3, <2>2, CountsUp, SumGrows DEF IdsLast
  <2>3. QED
    BY <2>1, <2>2
<1>6. QED
  BY <1>1, <1>2, <1>4, <1>5 DEF IdsLast

LEMMA HistoryStep ==
  ASSUME TypeOK, IdsLast, [Next]_vars PROVE NavTypeOK' /\ HistoryTypeOK' /\ IdsLast'
BY StepKinds, AsksHistory, QuietHistory, CommitHistory, ShallowHistory, RestHistory

-----------------------------------------------------------------------------
(* The fetches and submissions that wait.                                  *)

LEMMA NewFlight ==
  ASSUME NEW k \in {"prefetch", "refetch"}, NEW u \in Urls, NEW a \in Nat
  PROVE  Flight(k, u, a) \in Flights
BY DEF Flight, Flights, NoRoute

LEMMA LocationIs == ASSUME TypeOK PROVE location \in Urls /\ activeKey \in Urls /\ epoch \in Nat
<1>1. HistoryTypeOK /\ PayloadTypeOK
  BY DEF TypeOK
<1>2. QED
  BY <1>1, EntriesAre DEF location, HistoryTypeOK, Entries, PayloadTypeOK

LEMMA WaitingType ==
  ASSUME TypeOK, [Next]_vars PROVE fetches' \subseteq Flights /\ forms' \subseteq Urls
<1>0. fetches \subseteq Flights /\ forms \subseteq Urls
  BY DEF TypeOK
<1>1. CASE UNCHANGED waiting
  BY <1>0, <1>1 DEF waiting
<1>2. ASSUME refetchActive(epoch + 1) PROVE fetches' \subseteq Flights /\ forms' \subseteq Urls
  BY <1>0, <1>2, LocationIs, NewFlight DEF refetchActive, Launch
<1>3. CASE Calls
  <2>1. CASE \E u \in Urls : preloadData(u)
    BY <1>0, <2>1, LocationIs, NewFlight DEF preloadData, Launch
  <2>2. CASE \/ \E us \in SUBSET Urls : invalidate(us)
             \/ invalidateAll
             \/ \E u \in Urls : GotoInvalidating(u)
    BY <1>1, <1>2, <2>2 DEF invalidate, invalidateAll, GotoInvalidating, ClearAll
  <2>3. CASE Submit
    BY <1>0, <2>3, LocationIs DEF Submit
  <2>4. CASE \E u \in Urls : pushState(u) \/ replaceState(u)
    BY <1>1, <2>4 DEF pushState, replaceState
  <2>5. QED
    BY <1>3, <2>1, <2>2, <2>3, <2>4 DEF Calls
<1>4. CASE Network
  <2>1. CASE \E f \in fetches : RefetchOk(f)
    <3>1. PICK f \in fetches : RefetchOk(f)
      BY <2>1
    <3> DEFINE g == [f EXCEPT !.kind = "rewrap", !.load = Len(heap) + 1, !.page = currentRouteId]
    <3>2. f \in Flights /\ Len(heap) + 1 \in Nat /\ currentRouteId \in Routes
      BY <1>0 DEF TypeOK, PayloadTypeOK, HistoryTypeOK
    <3>3. g \in Flights
      BY <3>2 DEF Flights
    <3> HIDE DEF g
    <3>4. fetches' \subseteq fetches \cup {g} /\ forms' = forms
      BY <3>1 DEF RefetchOk, Land, g
    <3>5. QED
      BY <1>0, <3>3, <3>4
  <2>2. CASE \E f \in fetches : Rewrap(f) \/ PrefetchOk(f) \/ FetchLost(f)
    BY <1>0, <2>2 DEF Rewrap, PrefetchOk, FetchLost, Land
  <2>3. CASE \E u \in forms :
               FormDropped(u) \/ FormApplied(u) \/ \E v \in Urls : FormRedirected(u, v)
    BY <1>0, <2>3 DEF FormDropped, FormApplied, FormRedirected
  <2>4. QED
    BY <1>4, <2>1, <2>2, <2>3 DEF Network
<1>5. CASE Navigation
  BY <1>1, <1>5 DEF Navigation, Click, PopState
<1>6. CASE \E n \in Here : Answer(n)
  BY <1>1, <1>6 DEF Answer, FetchOk, FetchAborted, FetchFails, LoadPage, LoadFails, Superseded,
                    Commit, FullLoad, GiveUp
<1>7. CASE UNCHANGED vars
  BY <1>1, <1>7 DEF vars
<1>8. QED
  BY <1>3, <1>4, <1>5, <1>6, <1>7 DEF Next

LEMMA TypeStep ==
  ASSUME TypeOK, IdsLast, CacheInv, [Next]_vars PROVE TypeOK' /\ IdsLast' /\ CacheInv'
<1>1. PayloadTypeOK' /\ CacheInv'
  BY PayloadsStep
<1>2. NavTypeOK' /\ HistoryTypeOK' /\ IdsLast'
  BY HistoryStep
<1>3. fetches' \subseteq Flights /\ forms' \subseteq Urls
  BY WaitingType
<1>4. QED
  BY <1>1, <1>2, <1>3 DEF TypeOK

-----------------------------------------------------------------------------
(* goto with invalidateAll.                                                *)

LEMMA FreshStep ==
  ASSUME TypeOK, FreshInv, HeapKept, [Next]_vars PROVE FreshInv'
<1>0. NavTypeOK /\ \A m \in Here : navs[m].asked \in Nat
  BY DEF TypeOK, NavTypeOK, Navs
<1> DEFINE Good(m) == /\ navs'[m].load \in DOMAIN heap'
                      /\ heap'[navs'[m].load].asked >= navs'[m].asked
           Same(m) == /\ navs'[m].fresh = navs[m].fresh /\ navs'[m].load = navs[m].load
                      /\ navs'[m].asked = navs[m].asked
<1>1. ASSUME NEW m \in Here, Same(m), navs'[m].fresh, navs'[m].load # 0 PROVE Good(m)
  BY <1>1 DEF FreshInv, HeapKept
<1>2. SUFFICES ASSUME NEW m \in Here
               PROVE  Same(m) \/ (navs'[m].fresh /\ navs'[m].load # 0 => Good(m))
  BY <1>1, <1>2 DEF FreshInv
<1>3. CASE Asks
  <2>1. PICK u \in Urls, opts \in Opts, hit \in Nat, now \in Nat :
          (Veto \/ Begin(u, opts, hit, now)) /\ (opts.fresh => hit = 0)
    BY <1>3 DEF Asks
  <2>2. \A k \in Here : /\ Aborted[k].fresh = navs[k].fresh /\ Aborted[k].load = navs[k].load
                        /\ Aborted[k].asked = navs[k].asked
    BY <1>0, AbortedNavs
  <2>3. CASE Veto
    BY <2>2, <2>3 DEF Veto
  <2>4. CASE Begin(u, opts, hit, now)
    <3> DEFINE n == last + 1
    <3>1. /\ \A k \in Here \ {n} : navs'[k] = Aborted[k]
          /\ navs'[n].load = hit /\ navs'[n].fresh = opts.fresh
      BY <1>0, <2>4, BegunNavs
    <3> HIDE DEF n
    <3>2. QED
      BY <2>1, <2>2, <3>1
  <2>5. QED
    BY <2>1, <2>3, <2>4
<1>4. CASE \E n \in Here : Ends(n) \/ Commit(n)
  <2>1. PICK n \in Here : navs' = Done(n)
    BY <1>4 DEF Ends, Commit
  <2>2. QED
    BY <1>0, <2>1, DoneNavs
<1>5. CASE \E n \in Here : GoesOn(n)
  <2>1. PICK n \in Here : GoesOn(n)
    BY <1>5
  <2>2. PICK a \in Underway, l \in Nat :
          /\ MovesOn(n, a, l)
          /\ l = navs[n].load \/ (l \in DOMAIN heap' /\ heap'[l].asked = navs[n].asked)
    BY <2>1 DEF GoesOn
  <2>3. /\ \A k \in Here \ {n} : navs'[k] = navs[k]
        /\ navs'[n].load = l /\ navs'[n].asked = navs[n].asked /\ navs'[n].fresh = navs[n].fresh
    BY <1>0, <2>2, MovedNavs
  <2>4. QED
    BY <1>0, <2>2, <2>3
<1>6. CASE (\E u \in Urls : Shallow(u)) \/ UNCHANGED <<browser, nav, active>>
  <2>1. navs' = navs
    BY <1>6 DEF Shallow, pushState, replaceState, nav
  <2>2. QED
    BY <2>1
<1>7. QED
  BY <1>3, <1>4, <1>5, <1>6, StepKinds

-----------------------------------------------------------------------------
(* The last navigation wins.                                               *)

LEMMA WinsStep ==
  ASSUME TypeOK, IdsLast, WinsInv, [Next]_vars PROVE WinsInv'
<1>0. NavTypeOK /\ HistoryTypeOK
  BY DEF TypeOK
<1>1. SUFFICES ASSUME ~unloaded', ~vetoed'
               PROVE  /\ activeAbort' \in {0, last'}
                      /\ activeAbort' # 0 =>
                           /\ navs'[last'].at \in Underway /\ ~navs'[last'].aborted
                           /\ navs'[last'].pop /\ ~shallowed' => location' = navs'[last'].url
                      /\ (activeAbort = 0 /\ last # 0 => Effect(navs[last].url))'
  BY DEF WinsInv
<1>2. CASE Asks
  <2>1. PICK u \in Urls, opts \in Opts, hit \in Nat, now \in Nat :
          /\ Veto \/ Begin(u, opts, hit, now)
          /\ IF opts.pop
             THEN pos' \in DOMAIN entries /\ entries[pos'] = [url |-> u, id |-> opts.restore]
             ELSE pos' = pos
          /\ entries' = entries
    BY <1>2 DEF Asks
  <2>2. Begin(u, opts, hit, now)
    BY <1>1, <2>1 DEF Veto
  <2> DEFINE n == last + 1
  <2>3. /\ n \in Here /\ activeAbort' = n /\ last' = n
        /\ navs'[n].at \in Underway /\ navs'[n].url = u /\ ~navs'[n].aborted
        /\ navs'[n].pop = opts.pop
    BY <1>0, <2>2, BegunNavs
  <2>4. n # 0
    BY <1>0, BoundsAre DEF NavTypeOK
  <2>5. opts.pop => location' = u
    BY <2>1 DEF location
  <2> HIDE DEF n
  <2>6. QED
    BY <2>3, <2>4, <2>5
<1>3. CASE \E n \in Here : Ends(n)
  <2>1. PICK n \in Here : Ends(n)
    BY <1>3
  <2>2. ~unloaded /\ ~vetoed /\ (navs[n].aborted \/ activeAbort # n)
    BY <1>1, <2>1 DEF Ends
  <2>3. UNCHANGED <<entries, pos, activeAbort, last, shallowed, active>> /\ navs' = Done(n)
    BY <2>1 DEF Ends
  <2>4. \A m \in Here : navs'[m].url = navs[m].url /\ (m # n => navs'[m] = navs[m])
    BY <1>0, <2>3, DoneNavs
  <2>5. activeAbort # 0 => n # last
    BY <2>2 DEF WinsInv
  <2>6. last \in {0} \cup Here
    BY <1>0, BoundsAre DEF NavTypeOK, Here
  <2>7. QED
    BY <1>0, <2>2, <2>3, <2>4, <2>5, <2>6 DEF WinsInv, Effect, active, location, NavTypeOK
<1>4. CASE \E n \in Here : GoesOn(n)
  <2>1. PICK n \in Here : GoesOn(n)
    BY <1>4
  <2>2. PICK a \in Underway, l \in Nat : MovesOn(n, a, l)
    BY <2>1 DEF GoesOn
  <2>3. ~unloaded /\ ~vetoed /\ UNCHANGED <<entries, pos, activeAbort, last, shallowed, active>>
    BY <1>1, <2>1 DEF GoesOn, browser
  <2>4. /\ \A m \in Here \ {n} : navs'[m] = navs[m]
        /\ navs'[n].at = a /\ navs'[n].aborted = navs[n].aborted
        /\ navs'[n].url = navs[n].url /\ navs'[n].pop = navs[n].pop
    BY <1>0, <2>2, MovedNavs
  <2>5. last \in {0} \cup Here
    BY <1>0, BoundsAre DEF NavTypeOK, Here
  <2>6. QED
    BY <1>0, <2>2, <2>3, <2>4, <2>5 DEF WinsInv, Effect, active, location, NavTypeOK
<1>5. CASE \E n \in Here : Commit(n)
  <2>1. PICK n \in Here : Commit(n)
    BY <1>5
  <2> DEFINE u == navs[n].url
  <2>2. /\ navs' = Done(n) /\ activeAbort' = 0 /\ last' = last
        /\ UNCHANGED <<unloaded, shallowed, vetoed>>
        /\ activeKey' = u /\ currentRouteId' = RouteOf[u] /\ currentChainKey' = ChainOf[RouteOf[u]]
    BY <2>1 DEF Commit
  <2>3. activeAbort = n /\ n # 0 /\ ~unloaded /\ ~vetoed
    BY <1>1, <2>1, <2>2, CommitRecords, BoundsAre DEF Here
  <2>4. n = last /\ (navs[n].pop /\ ~shallowed => location = u)
    BY <2>3 DEF WinsInv
  <2>5. navs'[n].url = u
    BY <1>0, <2>2, DoneNavs
  <2>6. ~shallowed => location' = u
    <3>1. CASE navs[n].pop
      BY <2>1, <2>4, <3>1, CommitRecords DEF location
    <3>2. CASE ~navs[n].pop
      BY <1>0, <2>1, <3>2, CommitRecords, EntrySet DEF location
    <3>3. QED
      BY <3>1, <3>2
  <2> HIDE DEF u
  <2>7. QED
    BY <2>2, <2>4, <2>5, <2>6 DEF Effect
<1>6. CASE \E u \in Urls : Shallow(u)
  <2>1. /\ UNCHANGED <<unloaded, navs, activeAbort, last, vetoed>> /\ shallowed'
        /\ UNCHANGED <<activeKey, currentRouteId, currentChainKey>>
    BY <1>6 DEF Shallow, pushState, replaceState, nav, active
  <2>2. QED
    BY <1>1, <2>1 DEF WinsInv, Effect
<1>7. CASE UNCHANGED <<browser, nav, active>>
  BY <1>1, <1>7 DEF WinsInv, Effect, location, browser, nav, active
<1>8. QED
  BY <1>2, <1>3, <1>4, <1>5, <1>6, <1>7, StepKinds

-----------------------------------------------------------------------------
(* Snapshots.                                                              *)

LEMMA AsksStand ==
  ASSUME TypeOK, IdsStand, RestoresOwnSnapshot, Asks PROVE IdsStand' /\ RestoresOwnSnapshot'
<1>0. NavTypeOK /\ HistoryTypeOK
  BY DEF TypeOK
<1>1. PICK u \in Urls, opts \in Opts, hit \in Nat, now \in Nat :
        /\ Veto \/ Begin(u, opts, hit, now)
        /\ IF opts.pop
           THEN pos' \in DOMAIN entries /\ entries[pos'] = [url |-> u, id |-> opts.restore]
           ELSE pos' = pos
        /\ entries' = entries /\ shallowed' = shallowed
  BY DEF Asks
<1>2. captureSnapshot /\ UNCHANGED <<currentHistoryId, currentRouteId, restored>>
  BY <1>1, AsksLeaves
<1>3. RestoresOwnSnapshot'
  BY <1>1, <1>2 DEF RestoresOwnSnapshot
<1>4. ASSUME NEW p \in DOMAIN entries
      PROVE  /\ snapshots'[entries[p].id] \in {NoRoute, RouteOf[entries[p].url]}
             /\ entries[p].id = currentHistoryId => RouteOf[entries[p].url] = currentRouteId
  <2>1. entries[p].id \in Ids
    BY <1>0, EntriesAre DEF Entries
  <2>2. /\ snapshots[entries[p].id] \in {NoRoute, RouteOf[entries[p].url]}
        /\ entries[p].id = currentHistoryId => RouteOf[entries[p].url] = currentRouteId
    BY DEF IdsStand
  <2>3. QED
    BY <1>0, <1>2, <2>1, <2>2, Captured
<1>5. ASSUME NEW n \in Here, n = activeAbort', navs'[n].pop
      PROVE  \E p \in DOMAIN entries :
               entries[p].url = navs'[n].url /\ entries[p].id = navs'[n].restore
  <2>1. CASE Veto
    <3>1. activeAbort' = activeAbort /\ navs' = Aborted
      BY <2>1 DEF Veto
    <3>2. navs[n].pop /\ navs'[n].url = navs[n].url /\ navs'[n].restore = navs[n].restore
      BY <1>0, <1>5, <3>1, AbortedNavs
    <3>3. QED
      BY <1>5, <3>1, <3>2 DEF IdsStand, EntryIs
  <2>2. CASE Begin(u, opts, hit, now)
    <3>1. /\ activeAbort' = last + 1 /\ navs'[last + 1].pop = opts.pop
          /\ navs'[last + 1].url = u /\ navs'[last + 1].restore = opts.restore
      BY <1>0, <2>2, BegunNavs
    <3>2. pos' \in DOMAIN entries /\ entries[pos'].url = u /\ entries[pos'].id = opts.restore
      BY <1>1, <1>5, <3>1
    <3>3. QED
      BY <1>5, <3>1, <3>2
  <2>3. QED
    BY <1>1, <2>1, <2>2
<1>6. QED
  BY <1>1, <1>2, <1>3, <1>4, <1>5 DEF IdsStand, EntryIs

LEMMA QuietStand ==
  ASSUME TypeOK, IdsStand, RestoresOwnSnapshot, NEW n \in Here, Ends(n) \/ GoesOn(n)
  PROVE  IdsStand' /\ RestoresOwnSnapshot'
<1>1. /\ UNCHANGED <<entries, activeAbort, shallowed>>
      /\ UNCHANGED <<currentHistoryId, currentRouteId, snapshots, restored>>
  BY QuietNavs DEF TypeOK, active
<1>2. \A m \in Here : navs'[m].pop => /\ navs[m].pop /\ navs'[m].url = navs[m].url
                                      /\ navs'[m].restore = navs[m].restore
  BY QuietNavs DEF TypeOK
<1>3. QED
  BY <1>1, <1>2 DEF IdsStand, EntryIs, RestoresOwnSnapshot

LEMMA CommitStand ==
  ASSUME TypeOK, IdsLast, ~shallowed, IdsStand, RestoresOwnSnapshot, NEW n \in Here, Commit(n)
  PROVE  IdsStand' /\ RestoresOwnSnapshot'
<1> DEFINE u == navs[n].url
           i == navs[n].restore
           route == RouteOf[u]
<1>0. HistoryTypeOK /\ 0 \notin Here
  BY BoundsAre DEF TypeOK, Here
<1>1. /\ activeAbort' = 0 /\ shallowed' = shallowed /\ snapshots' = snapshots
      /\ currentRouteId' = route
      /\ restored' = IF navs[n].pop /\ route \in Snapshotting /\ snapshots[i] # NoRoute
                     THEN restored \cup {<<snapshots[i], route>>} ELSE restored
  BY DEF Commit, restoreSnapshot
<1>2. CASE navs[n].pop
  <2>1. currentHistoryId' = i /\ entries' = entries
    BY <1>2, CommitRecords
  <2>2. PICK p \in DOMAIN entries : entries[p].url = u /\ entries[p].id = i
    BY <1>2, CommitRecords DEF IdsStand, EntryIs
  <2>3. snapshots[i] \in {NoRoute, route}
    BY <2>2 DEF IdsStand
  <2>4. \A q \in DOMAIN entries : entries[q].id = i => RouteOf[entries[q].url] = route
    BY <2>2 DEF IdsStand
  <2>5. RestoresOwnSnapshot'
    BY <1>1, <2>3 DEF RestoresOwnSnapshot
  <2> HIDE DEF u, i, route
  <2>6. QED
    BY <1>0, <1>1, <2>1, <2>4, <2>5 DEF IdsStand
<1>3. CASE ~navs[n].pop
  <2> DEFINE k == nextHistoryId
  <2>1. /\ k \in Ids /\ u \in Urls /\ currentHistoryId' = k
        /\ PushEntry(u, k) \/ ReplaceEntry(u, k)
    BY <1>3, CommitRecords
  <2>2. \A p \in DOMAIN entries' : \/ entries'[p].url = u /\ entries'[p].id = k
                                   \/ \E q \in DOMAIN entries : entries'[p] = entries[q]
    BY <1>0, <2>1, EntrySet
  <2>3. \A q \in DOMAIN entries : entries[q].id # k
    <3>1. k \in Nat /\ \A q \in DOMAIN entries : entries[q].id \in Nat /\ entries[q].id < k
      BY <1>0, EntriesAre, BoundsAre DEF IdsLast, HistoryTypeOK, Entries, Ids
    <3>2. QED
      BY <3>1
  <2>4. snapshots[k] = NoRoute
    BY <1>0, <2>1 DEF IdsLast, HistoryTypeOK
  <2>5. RestoresOwnSnapshot'
    BY <1>1, <1>3 DEF RestoresOwnSnapshot
  <2>6. \A p \in DOMAIN entries' :
          /\ snapshots'[entries'[p].id] \in {NoRoute, RouteOf[entries'[p].url]}
          /\ entries'[p].id = currentHistoryId' => RouteOf[entries'[p].url] = currentRouteId'
    BY <1>1, <2>1, <2>2, <2>3, <2>4 DEF IdsStand
  <2>7. \A p, q \in DOMAIN entries' :
          entries'[p].id = entries'[q].id => entries'[p].url = entries'[q].url
    BY <2>2, <2>3 DEF IdsStand
  <2> HIDE DEF u, i, route, k
  <2>8. QED
    BY <1>0, <1>1, <2>5, <2>6, <2>7 DEF IdsStand
<1>4. QED
  BY <1>2, <1>3

LEMMA SnapshotStep ==
  ASSUME TypeOK, SnapshotInv, [Next]_vars PROVE SnapshotInv'
<1>1. IdsLast /\ IdsLast'
  BY HistoryStep DEF SnapshotInv
<1>2. SUFFICES ASSUME ~shallowed' PROVE IdsStand' /\ RestoresOwnSnapshot'
  BY <1>1 DEF SnapshotInv
<1>3. CASE Asks
  <2>1. ~shallowed
    BY <1>2, <1>3 DEF Asks
  <2>2. QED
    BY <1>3, <2>1, AsksStand DEF SnapshotInv
<1>4. CASE \E n \in Here : Ends(n) \/ GoesOn(n)
  <2>1. ~shallowed
    BY <1>2, <1>4 DEF Ends, GoesOn, browser
  <2>2. QED
    BY <1>4, <2>1, QuietStand DEF SnapshotInv
<1>5. CASE \E n \in Here : Commit(n)
  <2>1. ~shallowed
    BY <1>2, <1>5 DEF Commit
  <2>2. QED
    BY <1>1, <1>5, <2>1, CommitStand DEF SnapshotInv
<1>6. CASE \E u \in Urls : Shallow(u)
  BY <1>2, <1>6 DEF Shallow, pushState, replaceState
<1>7. CASE UNCHANGED <<browser, nav, active>>
  BY <1>2, <1>7 DEF browser, nav, active, SnapshotInv, IdsStand, EntryIs, RestoresOwnSnapshot
<1>8. QED
  BY <1>3, <1>4, <1>5, <1>6, <1>7, StepKinds

-----------------------------------------------------------------------------
(* The theorems.                                                           *)

RouterInv == TypeOK /\ SnapshotInv /\ WinsInv /\ CacheInv /\ FreshInv

LEMMA IdleNav == ASSUME NEW u \in Urls PROVE Idle(u) \in Navs /\ ~Idle(u).pop /\ ~Idle(u).fresh
<1> DEFINE no == FALSE
           B == BOOLEAN
           e == [at |-> "idle", url |-> u, pop |-> no, replace |-> no, restore |-> 0,
                 aborted |-> no, load |-> 0, asked |-> 0, fresh |-> no]
<1>1. Idle(u) = e
  BY DEF Idle
<1>2. no \in B /\ ~no
  OBVIOUS
<1>3. Navs = [at : Underway \cup {"idle", "done"}, url : Urls, pop : B, replace : B,
              restore : Nat, aborted : B, load : Nat, asked : Nat, fresh : B]
  BY DEF Navs
<1> HIDE DEF no, B
<1>4. e \in Navs /\ e.pop = no /\ e.fresh = no
  BY <1>2, <1>3
<1>5. QED
  BY <1>1, <1>2, <1>4

LEMMA RouterStart == ASSUME Init PROVE RouterInv
<1>1. PICK u \in Entry :
        /\ entries = <<[url |-> u, id |-> 1]>>
        /\ pos = 1 /\ unloaded = FALSE /\ shallowed = FALSE
        /\ heap = [o \in 1..2 |-> [url |-> u, form |-> NoUrl, asked |-> 0, came |-> 0]]
        /\ cache = [k \in {u} |-> [load |-> 1, place |-> 1]]
        /\ depRegistry = {u} \cap Depends
        /\ navs = [n \in Here |-> Idle(u)]
        /\ activeAbort = 0 /\ last = 0
        /\ activeKey = u
        /\ currentHistoryId = 1 /\ nextHistoryId = 2 /\ currentRouteId = RouteOf[u]
        /\ snapshots = [i \in Ids |-> NoRoute] /\ restored = {}
        /\ fetches = {} /\ forms = {}
        /\ ops = 0 /\ epoch = 0 /\ invalidated = [k \in Urls |-> 0]
  BY DEF Init
<1>2. u \in Urls /\ RouteOf[u] \in Routes /\ Depends \subseteq Urls
  BY RouterAssumption
<1>3. 1 \in Ids /\ 0 \in 0..MaxOps /\ 0 \in 0..MaxNavs /\ 0 \notin Here
  BY BoundsAre DEF Ids, Here
<1>4. PayloadTypeOK
  <2> DEFINE P == Payloads
             o == [url |-> u, form |-> NoUrl, asked |-> 0, came |-> 0]
             E == [load : 1..2, place : 1..2]
             e == [load |-> 1, place |-> 1]
  <2>1. o \in P /\ e \in E
    BY <1>2 DEF Payloads
  <2>2. heap = [x \in 1..2 |-> o] /\ cache = [k \in {u} |-> e]
    BY <1>1
  <2> HIDE DEF P, o, E, e
  <2>3. heap \in Seq(P) /\ DOMAIN heap = 1..2
    BY <2>1, <2>2
  <2>4. cache \in [Keys -> E] /\ Keys = {u}
    BY <2>1, <2>2 DEF Keys
  <2>5. invalidated \in [Urls -> 0..epoch] /\ epoch \in Nat /\ depRegistry \subseteq Urls
    BY <1>1, <1>2
  <2>6. QED
    BY <1>2, <2>3, <2>4, <2>5 DEF PayloadTypeOK, P, Payloads, E
<1>5. NavTypeOK
  BY <1>1, <1>2, <1>3, IdleNav DEF NavTypeOK
<1>6. HistoryTypeOK
  <2> DEFINE E == [url : Urls, id : Ids]
             e == [url |-> u, id |-> 1]
  <2>1. e \in E /\ entries = <<e>>
    BY <1>1, <1>2, <1>3
  <2> HIDE DEF E, e
  <2>2. entries \in Seq(E) /\ pos \in DOMAIN entries
    BY <1>1, <2>1
  <2>3. QED
    BY <1>1, <1>2, <1>3, <2>2 DEF HistoryTypeOK, E
<1>7. TypeOK
  BY <1>1, <1>4, <1>5, <1>6 DEF TypeOK
<1>8. \A n \in Here : ~navs[n].pop /\ ~navs[n].fresh
  BY <1>1, <1>2, IdleNav
<1>9. DOMAIN entries = {1} /\ entries[1].url = u /\ entries[1].id = 1
  BY <1>1
<1>10. IdsLast
  BY <1>1, <1>8, <1>9 DEF IdsLast
<1>11. IdsStand /\ RestoresOwnSnapshot
  BY <1>1, <1>3, <1>8, <1>9 DEF IdsStand, RestoresOwnSnapshot
<1>12. WinsInv
  BY <1>1 DEF WinsInv
<1>13. CacheInv
  <2>1. Keys = {u} /\ cache[u].load = 1
    BY <1>1 DEF Keys
  <2>2. heap[1].came = 0 /\ invalidated[u] = 0
    BY <1>1, <1>2
  <2>3. QED
    BY <1>1, <2>1, <2>2 DEF CacheInv, InvalidatedGone
<1>14. FreshInv
  BY <1>8 DEF FreshInv
<1>15. QED
  BY <1>7, <1>10, <1>11, <1>12, <1>13, <1>14 DEF RouterInv, SnapshotInv

LEMMA RouterStep == ASSUME RouterInv, [Next]_vars PROVE RouterInv'
<1>1. TypeOK /\ SnapshotInv /\ IdsLast /\ WinsInv /\ CacheInv /\ FreshInv
  BY DEF RouterInv, SnapshotInv
<1>2. TypeOK' /\ CacheInv'
  BY <1>1, TypeStep
<1>3. FreshInv'
  BY <1>1, PayloadsStep, FreshStep
<1>4. QED
  BY <1>1, <1>2, <1>3, SnapshotStep, WinsStep DEF RouterInv

(* The inductive invariant gives each property the runs check. *)
LEMMA RouterCorrect ==
  ASSUME RouterInv
  PROVE  LastNavigationWins /\ RestoresOwnSnapshot /\ InvalidatedGone /\ FreshGoto
<1>1. LastNavigationWins
  <2>1. SUFFICES ASSUME Quiet, ~unloaded, ~vetoed, last > 0 PROVE Effect(navs[last].url)
    BY DEF LastNavigationWins, Effect
  <2>2. last \in Here /\ last # 0
    BY <2>1, BoundsAre DEF RouterInv, TypeOK, NavTypeOK, Here
  <2>3. navs[last].at \notin Underway
    BY <2>1, <2>2 DEF Quiet, Underway
  <2>4. QED
    BY <2>1, <2>2, <2>3 DEF RouterInv, WinsInv
<1>2. RestoresOwnSnapshot
  BY DEF RouterInv, SnapshotInv, RestoresOwnSnapshot
<1>3. InvalidatedGone /\ FreshGoto
  BY DEF RouterInv, CacheInv, FreshInv, FreshGoto
<1>4. QED
  BY <1>1, <1>2, <1>3

(* The last navigation wins, for any routes and layouts and any number of  *)
(* navigations, prefetches, invalidations and submissions: when none is    *)
(* under way, page, layout chain and address bar are those of the last one *)
(* the user asked for (navigate, the checks of activeAbort after each      *)
(* await).                                                                 *)
THEOREM LastWins == Spec => []LastNavigationWins
<1>1. Init => RouterInv
  BY RouterStart
<1>2. RouterInv /\ [Next]_vars => RouterInv'
  BY RouterStep
<1>3. RouterInv => LastNavigationWins
  BY RouterCorrect
<1>4. QED
  BY <1>1, <1>2, <1>3, PTL DEF Spec

(* A page gets back only what its own route has captured, however back and *)
(* forward interleave with navigations that are overtaken or cancelled     *)
(* (captureSnapshot, restoreSnapshot, the ids kept in history.state).      *)
THEOREM SnapshotsStayOwn == Spec => []RestoresOwnSnapshot
<1>1. Init => RouterInv
  BY RouterStart
<1>2. RouterInv /\ [Next]_vars => RouterInv'
  BY RouterStep
<1>3. RouterInv => RestoresOwnSnapshot
  BY RouterCorrect
<1>4. QED
  BY <1>1, <1>2, <1>3, PTL DEF Spec

(* What invalidate was to drop is gone: no payload with dependencies that  *)
(* was cached when its path was invalidated is cached after it (invalidate *)
(* goes through depRegistry, not through the cache).                       *)
THEOREM InvalidatedStaysGone == Spec => []InvalidatedGone
<1>1. Init => RouterInv
  BY RouterStart
<1>2. RouterInv /\ [Next]_vars => RouterInv'
  BY RouterStep
<1>3. RouterInv => InvalidatedGone
  BY RouterCorrect
<1>4. QED
  BY <1>1, <1>2, <1>3, PTL DEF Spec

(* A goto with invalidateAll is answered by a payload asked for by the     *)
(* call or later, whatever else is fetched and cached meanwhile.           *)
THEOREM GotoIsFresh == Spec => []FreshGoto
<1>1. Init => RouterInv
  BY RouterStart
<1>2. RouterInv /\ [Next]_vars => RouterInv'
  BY RouterStep
<1>3. RouterInv => FreshGoto
  BY RouterCorrect
<1>4. QED
  BY <1>1, <1>2, <1>3, PTL DEF Spec
=============================================================================
