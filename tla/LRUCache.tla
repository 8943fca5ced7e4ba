------------------------------ MODULE LRUCache ------------------------------
(***************************************************************************)
(* The response cache of the SSR fallback client                           *)
(* (packages/sveltego/runtime/svelte/fallback/cache.go): a fixed-capacity  *)
(* LRU whose entries expire.                                               *)
(*                                                                         *)
(* lruCache keeps a hash map and a recency list that must agree, so both   *)
(* are modelled: "order" is the list of keys, most recently used first,    *)
(* "items" the map from keys to entries.  The operators give the two       *)
(* fields that Get and Put leave behind; every call of either runs under   *)
(* lruCache.mu, so one call is one step.                                   *)
(***************************************************************************)
EXTENDS Integers, SequencesExt

CONSTANTS
  Keys,      \* the cache keys, route|sha256(data)
  Capacity,  \* the capacity newLRUCache is given
  TTL        \* the time to live newLRUCache is given; TTL <= 0 never expires

ASSUME CacheAssumption == Capacity \in Int /\ TTL \in Int

(* newLRUCache: a capacity that is not positive becomes 1. *)
Cap == IF Capacity <= 0 THEN 1 ELSE Capacity

(* The keys on the recency list. *)
Listed(order) == {order[i] : i \in 1..Len(order)}

(* The test Get applies to the entry it finds: now.After(expires). *)
Expired(entry, now) == TTL > 0 /\ now > entry.expires

(* Get returns the entry: present and not expired. *)
Hit(items, k, now) == k \in DOMAIN items /\ ~Expired(items[k], now)

(* list.Remove of k's element, list.MoveToFront of it, list.PushFront. *)
Unlink(order, k) == RemoveFirst(order, k)
MoveToFront(order, k) == Cons(k, Unlink(order, k))

(* The map without the keys in S. *)
Without(items, S) == [k \in DOMAIN items \ S |-> items[k]]

(* Get, the list and the map after it: a hit moves to the front, an expired *)
(* entry is dropped from both, a miss changes nothing.  (Sliding is a       *)
(* mistake: a hit that restarts the entry's TTL.)                           *)
GetOrder(order, items, k, now) ==
  CASE k \notin DOMAIN items -> order
    [] k \in DOMAIN items /\ Expired(items[k], now) -> Unlink(order, k)
    [] k \in DOMAIN items /\ ~Expired(items[k], now) -> MoveToFront(order, k)

GetItemsSliding(items, k, now) ==
  IF k \in DOMAIN items
  THEN IF Expired(items[k], now) THEN Without(items, {k})
       ELSE [items EXCEPT ![k].expires = now + TTL]
  ELSE items

GetItems(items, k, now) ==
  IF k \in DOMAIN items /\ Expired(items[k], now)
  THEN Without(items, {k})
  ELSE items

(* The entry Put stores: it expires a TTL from now. *)
Stamp(val, now) == [val |-> val, expires |-> now + TTL]

(* The loop of Put that removes the oldest element while the list is full. *)
Evict(order) == IF Len(order) >= Cap THEN SubSeq(order, 1, Cap - 1) ELSE order

(* Put, the list and the map after it.  The variant KeepEvicted is a        *)
(* mistake: the evicted key stays in the map.                               *)
PutOrder(order, items, k) ==
  IF k \in DOMAIN items THEN MoveToFront(order, k) ELSE Cons(k, Evict(order))

PutItemsKeepEvicted(order, items, k, val, now) ==
  [j \in DOMAIN items \cup {k} |-> IF j = k THEN Stamp(val, now) ELSE items[j]]

PutItems(order, items, k, val, now) ==
  LET evicted == IF k \in DOMAIN items THEN {}
                 ELSE Listed(order) \ Listed(Evict(order))
  IN  [j \in (DOMAIN items \ evicted) \cup {k} |->
         IF j = k THEN Stamp(val, now) ELSE items[j]]
=============================================================================
