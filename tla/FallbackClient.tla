--------------------------- MODULE FallbackClient ---------------------------
(***************************************************************************)
(* Client.Render of the SSR fallback (fallback/client.go): concurrent      *)
(* request goroutines look a page up in the shared LRU cache, call the     *)
(* Node sidecar on a miss and cache what it answers.  There is no          *)
(* single-flight: two misses on one key both call the sidecar and both     *)
(* Put, in either order.                                                   *)
(*                                                                         *)
(* The body the sidecar renders is abstracted to a version number: what it *)
(* would answer now for key k is upstream[k].  Time is a counter.          *)
(***************************************************************************)
EXTENDS LRUCache

CONSTANTS
  Renderers,    \* the request goroutines
  CallTimeout,  \* http.Client.Timeout of NewClient
  MaxTime,      \* bound on the clock
  MaxVersion,   \* bound on how often a page's output changes
  NoKey         \* the key of a goroutine outside Render

ASSUME ClientAssumption ==
  /\ NoKey \notin Keys
  /\ CallTimeout \in Nat
  /\ MaxTime \in Nat
  /\ MaxVersion \in Nat

VARIABLES
  order,     \* lruCache.order
  items,     \* lruCache.items
  now,       \* the clock
  upstream,  \* the version the sidecar would render for each key
  born,      \* history: born[k][v] is when version v of k became current
  pc,        \* where each goroutine is in Render
  req,       \* what it renders
  newer      \* history: <<j, k>> when j was used in the cache after k was

vars == <<order, items, now, upstream, born, pc, req, newer>>

Versions == 0..MaxVersion
Phases == {"idle", "get", "call", "put", "done"}
(* at: when the sidecar call began, and in phase "done" when Render         *)
(* returned; marshals: json.Marshal(req.Data) succeeds.                     *)
Requests == [key : Keys \cup {NoKey}, marshals : BOOLEAN, at : Nat, val : Versions]
Entries == [val : Versions, expires : Int]

RequestsOK ==
  /\ pc \in [Renderers -> Phases]
  /\ req \in [Renderers -> Requests]
  /\ \A r \in Renderers : pc[r] # "idle" => req[r].key \in Keys

TypeOK ==
  /\ order \in Seq(Keys)
  /\ DOMAIN items \subseteq Keys
  /\ items \in [DOMAIN items -> Entries]
  /\ now \in Nat
  /\ upstream \in [Keys -> Versions]
  /\ born \in [Keys -> [Versions -> Nat]]
  /\ newer \subseteq Keys \X Keys
  /\ RequestsOK

NoRequest == [key |-> NoKey, marshals |-> TRUE, at |-> 0, val |-> 0]

Init ==
  /\ order = <<>>
  /\ items = [k \in {} |-> Stamp(0, 0)]
  /\ now = 0
  /\ upstream = [k \in Keys |-> 0]
  /\ born = [k \in Keys |-> [v \in Versions |-> 0]]
  /\ pc = [r \in Renderers |-> "idle"]
  /\ req = [r \in Renderers |-> NoRequest]
  /\ newer = {}

(* k is now the most recently used key. *)
Use(k) == newer' = {p \in newer : p[2] # k} \cup {<<k, j>> : j \in Keys \ {k}}

Goto(r, phase) == pc' = [pc EXCEPT ![r] = phase]

(* Render is called.  Data that does not marshal takes renderUncached,      *)
(* which skips the cache.                                                   *)
Render(r, k, marshals) ==
  /\ pc[r] = "idle"
  /\ Goto(r, IF marshals THEN "get" ELSE "call")
  /\ req' = [req EXCEPT ![r] = [key |-> k, marshals |-> marshals,
                                at |-> IF marshals THEN 0 ELSE now, val |-> 0]]
  /\ UNCHANGED <<order, items, now, upstream, born, newer>>

(* The lookup of Render: a hit returns, a miss starts the sidecar call. *)
CacheGet(r) ==
  LET k == req[r].key IN
  /\ pc[r] = "get"
  /\ order' = GetOrder(order, items, k, now)
  /\ items' = GetItems(items, k, now)
  /\ \/ /\ Hit(items, k, now)
        /\ Goto(r, "done")
        /\ req' = [req EXCEPT ![r] = [@ EXCEPT !.at = now, !.val = items[k].val]]
        /\ Use(k)
     \/ /\ ~Hit(items, k, now)
        /\ Goto(r, "call")
        /\ req' = [req EXCEPT ![r] = [@ EXCEPT !.at = now]]
        /\ UNCHANGED newer
  /\ UNCHANGED <<now, upstream, born>>

(* callSidecar succeeds: the sidecar renders the current version.  An       *)
(* uncached render returns it, the others go on to Put.                     *)
CallOK(r) ==
  /\ pc[r] = "call"
  /\ Goto(r, IF req[r].marshals THEN "put" ELSE "done")
  /\ req' = [req EXCEPT ![r] =
               [@ EXCEPT !.val = upstream[req[r].key],
                         !.at = IF req[r].marshals THEN req[r].at ELSE now]]
  /\ UNCHANGED <<order, items, now, upstream, born, newer>>

(* callSidecar fails: no connection, a status that is not 200, a body that  *)
(* does not decode, the client's timeout or the request's own context.      *)
(* Render returns the error and the cache is left alone.                    *)
CallFails(r) ==
  /\ pc[r] = "call"
  /\ Goto(r, "idle")
  /\ req' = [req EXCEPT ![r] = NoRequest]
  /\ UNCHANGED <<order, items, now, upstream, born, newer>>

(* Put after a successful call, and Render returns. *)
CachePut(r) ==
  LET k == req[r].key IN
  /\ pc[r] = "put"
  /\ order' = PutOrder(order, items, k)
  /\ items' = PutItems(order, items, k, req[r].val, now)
  /\ Use(k)
  /\ Goto(r, "done")
  /\ req' = [req EXCEPT ![r] = [@ EXCEPT !.at = now]]
  /\ UNCHANGED <<now, upstream, born>>

(* The caller has its response and the goroutine is free again. *)
Return(r) ==
  /\ pc[r] = "done"
  /\ Goto(r, "idle")
  /\ req' = [req EXCEPT ![r] = NoRequest]
  /\ UNCHANGED <<order, items, now, upstream, born, newer>>

(* What the sidecar renders for k changes. *)
UpstreamChange(k) ==
  /\ upstream[k] < MaxVersion
  /\ upstream' = [upstream EXCEPT ![k] = @ + 1]
  /\ born' = [born EXCEPT ![k][upstream[k] + 1] = now]
  /\ UNCHANGED <<order, items, now, pc, req, newer>>

(* Time passes.  No call outlives http.Client.Timeout, and a goroutine that *)
(* holds the answer runs Put before the timeout would have fired.           *)
Tick ==
  /\ now < MaxTime
  /\ \A r \in Renderers : pc[r] \in {"call", "put"} => now < req[r].at + CallTimeout
  /\ now' = now + 1
  /\ UNCHANGED <<order, items, upstream, born, pc, req, newer>>

RenderStep(r) ==
  \/ \E k \in Keys, marshals \in BOOLEAN : Render(r, k, marshals)
  \/ CacheGet(r)
  \/ CallOK(r)
  \/ CallFails(r)
  \/ CachePut(r)
  \/ Return(r)

Next ==
  \/ \E r \in Renderers : RenderStep(r)
  \/ \E k \in Keys : UpstreamChange(k)
  \/ Tick

Spec == Init /\ [][Next]_vars

-----------------------------------------------------------------------------
(* The map and the recency list of lruCache hold the same keys, each once,  *)
(* and never more than the capacity: what "every operation already touches  *)
(* both the hash map and the doubly-linked recency list" must achieve.      *)
CacheConsistent ==
  /\ Listed(order) = DOMAIN items
  /\ \A i, j \in 1..Len(order) : order[i] = order[j] => i = j
  /\ Len(order) <= Cap

(* The recency list is ordered by last use, so the element Put evicts from  *)
(* the back is the least recently used of the cached keys.                  *)
LeastRecentlyUsedLast ==
  \A i, j \in 1..Len(order) : i < j => <<order[i], order[j]>> \in newer

(* A response is never more than a TTL and one sidecar call out of date,    *)
(* however many misses race on the key: when Render returned it, its        *)
(* version had not been superseded for longer than that.                    *)
BoundedStaleness ==
  TTL > 0 =>
    \A r \in Renderers :
      LET q == req[r] IN
      (pc[r] = "done" /\ q.val < upstream[q.key]) =>
        q.at <= born[q.key][q.val + 1] + CallTimeout + TTL
(* What makes BoundedStaleness inductive: how old the version in a cache    *)
(* entry, in a call under way and in a response can be.                     *)
EntryFresh(k) ==
  /\ items[k].expires <= now + TTL
  /\ items[k].val <= upstream[k]
  /\ items[k].val < upstream[k] =>
       items[k].expires <= born[k][items[k].val + 1] + CallTimeout + TTL

RequestFresh(r) ==
  /\ pc[r] \in {"call", "put"} => req[r].at <= now /\ now <= req[r].at + CallTimeout
  /\ pc[r] = "done" => req[r].at <= now
  /\ pc[r] \in {"put", "done"} => req[r].val <= upstream[req[r].key]
  /\ (pc[r] = "put" /\ req[r].val < upstream[req[r].key]) =>
       req[r].at <= born[req[r].key][req[r].val + 1]
  /\ (TTL > 0 /\ pc[r] = "done" /\ req[r].val < upstream[req[r].key]) =>
       req[r].at <= born[req[r].key][req[r].val + 1] + CallTimeout + TTL

StalenessInv ==
  /\ \A k \in DOMAIN items : EntryFresh(k)
  /\ \A r \in Renderers : RequestFresh(r)
=============================================================================
