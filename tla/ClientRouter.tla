---------------------------- MODULE ClientRouter ----------------------------
(***************************************************************************)
(* The client-side router that the build emits for every application       *)
(* (packages/sveltego/internal/vite/router.go, state.go, forms.go and      *)
(* cliententry.go): navigations, prefetches, invalidations, enhanced form  *)
(* submissions and the browser's history.  JavaScript runs one task at a   *)
(* time, so a step is the code between two awaits; everything else may     *)
(* happen in between.                                                      *)
(*                                                                         *)
(* A payload is an object: the cache, window.__sveltego__ and a navigation *)
(* that waits share it, so that a form result written to the global is     *)
(* also in the cache.  Payloads are numbered in the order of arrival; 1 is *)
(* the hydration payload and 2 the copy of it that entry.ts makes.         *)
(***************************************************************************)
EXTENDS Integers, Sequences, FiniteSets, SequencesExt

CONSTANTS
  Urls,         \* canonical paths of the application
  Entry,        \* the paths of them a document may be loaded at
  Routes,       \* route patterns
  RouteOf,      \* the route of each path
  ChainOf,      \* the layout chain of each route, or NoChain
  NoChain,
  Snapshotting, \* the routes whose page module exports a snapshot
  Depends,      \* the paths whose Load declares dependencies
  CacheMax,     \* PREFETCH_CACHE_MAX
  MaxNavs,      \* bound on the navigations that pass their hooks
  MaxOps        \* bound on the other calls of the user and the application

ASSUME RouterAssumption ==
  /\ RouteOf \in [Urls -> Routes] /\ Entry \subseteq Urls
  /\ DOMAIN ChainOf = Routes
  /\ Snapshotting \subseteq Routes /\ Depends \subseteq Urls
  /\ CacheMax \in Nat \ {0} /\ MaxNavs \in Nat /\ MaxOps \in Nat

NoUrl == "none"
NoRoute == "none"

VARIABLES
  entries,      \* the browser's session history: url and id
  pos,          \* the current entry; its url is location
  unloaded,     \* location.assign was called: the document is left
  heap,         \* the payload objects
  cache,        \* the Map of cached payloads: per key the payload and its place
  depRegistry,  \* the keys with recorded tags
  navs,         \* the calls of navigate
  activeAbort,  \* the navigation that owns the AbortController, 0 for null
  navigating,   \* the navigation shown by $app/state, 0 for null
  activeKey, currentHistoryId, nextHistoryId, currentChainKey, currentRouteId,
  snapshots,    \* per history id, the route a snapshot was captured from
  view,         \* what the mounted component renders: page module, payload, form
  pageState,    \* what $app/state says: payload and form
  global,       \* window.__sveltego__
  fetches,      \* prefetches and refetches that wait
  forms,        \* enhanced submissions that wait: the page each was made on
  \* history variables
  ops,          \* the number of other calls
  epoch,        \* the number of invalidations so far
  invalidated,  \* per path, the last invalidation that covered it
  last,         \* the last navigation that passed its hooks
  vetoed,       \* a hook has cancelled a navigation
  shallowed,    \* the application has used pushState or replaceState
  restored      \* the snapshots handed to a page: captured from, restored to

browser == <<entries, pos, unloaded, shallowed>>
payloads == <<heap, cache, depRegistry>>
nav == <<navs, activeAbort, navigating, last, vetoed>>
active == <<activeKey, currentHistoryId, nextHistoryId, currentChainKey, currentRouteId,
            snapshots, restored>>
screen == <<view, pageState, global>>
waiting == <<fetches, forms>>
invals == <<epoch, invalidated>>
vars == <<browser, payloads, nav, active, screen, waiting, invals, ops>>

-----------------------------------------------------------------------------
(* Payloads and their cache.                                               *)

Payload(u, asked) ==
  [url |-> u, form |-> NoUrl, asked |-> asked, came |-> epoch]

Keys == DOMAIN cache
Cached(u) == cache[u].load

(* Map.set: a known key keeps its place, a new one is the youngest.  A place *)
(* is the number of the payload that took it.                                *)
CacheSet(u, o) ==
  [k \in Keys \cup {u} |->
     IF k # u THEN cache[k]
     ELSE [load |-> o, place |-> IF u \in Keys THEN cache[u].place ELSE o]]

CacheDelete(us) == Restrict(cache, Keys \ us)

(* cache.keys().next(): the key that was set first. *)
Oldest == CHOOSE k \in Keys : \A j \in Keys : cache[k].place <= cache[j].place

(* Mutant: nothing is recorded for a payload that arrives later. *)
recordDepsAtBootOnly(u) == depRegistry

(* recordDeps: an empty list of tags deletes the entry. *)
recordDeps(u) == IF u \in Depends THEN depRegistry \cup {u} ELSE depRegistry \ {u}

(* fetchPayload answers: a new payload object, cached with its tags. *)
Store(u, asked) ==
  /\ heap' = Append(heap, Payload(u, asked))
  /\ cache' = CacheSet(u, Len(heap) + 1)
  /\ depRegistry' = recordDeps(u)

location == entries[pos].url
Here == 1..MaxNavs
Ids == 1..MaxNavs + MaxOps + 1

-----------------------------------------------------------------------------
(* Boot: entry.ts hydrates the page and calls startRouter.                 *)

Idle(u) == [at |-> "idle", url |-> u, pop |-> FALSE, replace |-> FALSE, restore |-> 0,
            aborted |-> FALSE, load |-> 0, asked |-> 0, fresh |-> FALSE]

Init ==
  \E u \in Entry :
    /\ entries = <<[url |-> u, id |-> 1]>>
    /\ pos = 1 /\ unloaded = FALSE /\ shallowed = FALSE
    /\ heap = [o \in 1..2 |-> [url |-> u, form |-> NoUrl, asked |-> 0, came |-> 0]]
    /\ cache = [k \in {u} |-> [load |-> 1, place |-> 1]]
    /\ depRegistry = {u} \cap Depends
    /\ navs = [n \in Here |-> Idle(u)]
    /\ activeAbort = 0 /\ navigating = 0 /\ last = 0 /\ vetoed = FALSE
    /\ activeKey = u
    /\ currentHistoryId = 1 /\ nextHistoryId = 2
    /\ currentRouteId = RouteOf[u] /\ currentChainKey = ChainOf[RouteOf[u]]
    /\ snapshots = [i \in Ids |-> NoRoute] /\ restored = {}
    /\ view = [page |-> RouteOf[u], load |-> 1, form |-> NoUrl]
    /\ pageState = [load |-> 1, form |-> NoUrl]
    /\ global = 2
    /\ fetches = {} /\ forms = {}
    /\ ops = 0 /\ epoch = 0 /\ invalidated = [k \in Urls |-> 0]

(* entry.ts, which made the document, closes over its own page module. *)
EntryRoute == RouteOf[heap[1].url]

-----------------------------------------------------------------------------
(* navigate, up to its first await.                                        *)

(* captureSnapshot: the mounted page's snapshot under the id it was shown as. *)
captureSnapshot ==
  snapshots' = IF currentRouteId \in Snapshotting
               THEN [snapshots EXCEPT ![currentHistoryId] = currentRouteId] ELSE snapshots

Aborted == [n \in Here |-> IF n = activeAbort THEN [navs[n] EXCEPT !.aborted = TRUE] ELSE navs[n]]

(* A hook cancels: the navigation in flight has been aborted all the same. *)
Veto ==
  /\ navs' = Aborted /\ vetoed' = TRUE
  /\ captureSnapshot
  /\ UNCHANGED <<activeAbort, navigating, last, activeKey, currentHistoryId, nextHistoryId,
                 currentChainKey, currentRouteId, restored>>

(* The hooks agree.  "hit" is what the cache holds for the key, 0 for nothing. *)
Begin(u, opts, hit, now) ==
  \E n \in Here :
    /\ n = last + 1
    /\ navs' = [Aborted EXCEPT ![n] =
                  [at |-> IF hit = 0 THEN "fetch" ELSE "page", url |-> u, pop |-> opts.pop,
                   replace |-> opts.replace, restore |-> opts.restore, aborted |-> FALSE,
                   load |-> hit, asked |-> now, fresh |-> opts.fresh]]
    /\ activeAbort' = n /\ navigating' = n /\ last' = n
    /\ captureSnapshot
    /\ UNCHANGED <<vetoed, activeKey, currentHistoryId, nextHistoryId, currentChainKey,
                   currentRouteId, restored>>

Link(u, r) == [pop |-> FALSE, replace |-> r, restore |-> 0, fresh |-> FALSE]

Navigate(u, opts) ==
  \/ Veto
  \/ Begin(u, opts, IF u \in Keys THEN Cached(u) ELSE 0, epoch)

(* onClick on an intercepted link, or goto. *)
Click(u, replace) ==
  /\ ~unloaded
  /\ Navigate(u, Link(u, replace))
  /\ UNCHANGED <<browser, payloads, screen, waiting, invals>>

(* Back or forward: the browser moves first, then onPopState runs. *)
PopState(p) ==
  /\ ~unloaded /\ p \in DOMAIN entries /\ p # pos
  /\ pos' = p
  /\ Navigate(entries[p].url, [pop |-> TRUE, replace |-> TRUE,
                               restore |-> entries[p].id, fresh |-> FALSE])
  /\ UNCHANGED <<entries, unloaded, shallowed, payloads, screen, waiting, invals>>

-----------------------------------------------------------------------------
(* navigate, after its awaits.                                             *)

Done(n) == [navs EXCEPT ![n] = [Idle(@.url) EXCEPT !.at = "done"]]

(* finishNavigating sets the state to null, whoever set it. *)
GiveUp(n) ==
  /\ navs' = Done(n) /\ navigating' = 0
  /\ UNCHANGED <<activeAbort, last, vetoed, active, screen, waiting, invals>>

(* finishNavigating, then location.assign. *)
FullLoad(n) ==
  /\ GiveUp(n) /\ unloaded' = TRUE
  /\ UNCHANGED <<entries, pos, shallowed>>

Waits(n, at) == ~unloaded /\ navs[n].at = at

(* Mutant: no check after the awaits. *)
NeverOvertaken(n) == FALSE

(* activeAbort !== ctrl *)
Overtaken(n) == activeAbort # n

(* The payload arrives.  It is cached even if the navigation is superseded. *)
FetchOk(n) ==
  /\ Waits(n, "fetch")
  /\ Store(navs[n].url, navs[n].asked)
  /\ \/ /\ ~Overtaken(n)
        /\ navs' = [navs EXCEPT ![n].at = "page", ![n].load = Len(heap) + 1]
        /\ UNCHANGED <<activeAbort, navigating, last, vetoed, active, screen, waiting, invals>>
     \/ Overtaken(n) /\ GiveUp(n)
  /\ UNCHANGED browser

(* Mutant: an AbortError is passed over in silence. *)
FetchAbortedSilently(n) ==
  /\ Waits(n, "fetch") /\ navs[n].aborted
  /\ navs' = Done(n)
  /\ UNCHANGED <<browser, payloads, activeAbort, navigating, last, vetoed, active, screen,
                 waiting, invals>>

FetchAborted(n) ==
  /\ Waits(n, "fetch") /\ navs[n].aborted
  /\ GiveUp(n) /\ UNCHANGED <<browser, payloads>>

FetchFails(n) ==
  /\ Waits(n, "fetch") /\ FullLoad(n) /\ UNCHANGED payloads

NeedsWrapper(n) == ChainOf[RouteOf[navs[n].url]] \notin {NoChain, currentChainKey}

LoadPage(n) ==
  /\ Waits(n, "page") /\ NeedsWrapper(n)
  /\ navs' = [navs EXCEPT ![n].at = "wrapper"]
  /\ UNCHANGED <<browser, payloads, activeAbort, navigating, last, vetoed, active, screen,
                 waiting, invals>>

Loaded(n) == Waits(n, "wrapper") \/ (Waits(n, "page") /\ ~NeedsWrapper(n))

LoadFails(n) ==
  /\ Waits(n, "page") \/ Waits(n, "wrapper")
  /\ FullLoad(n) /\ UNCHANGED payloads

Superseded(n) ==
  /\ Loaded(n) /\ Overtaken(n)
  /\ GiveUp(n) /\ UNCHANGED <<browser, payloads>>

(* history.pushState drops the entries after the current one. *)
PushEntry(u, id) ==
  /\ entries' = Append(SubSeq(entries, 1, pos), [url |-> u, id |-> id])
  /\ pos' = pos + 1

ReplaceEntry(u, id) ==
  /\ entries' = [entries EXCEPT ![pos] = [url |-> u, id |-> id]]
  /\ pos' = pos

Record(n) ==
  LET c == navs[n]
  IN  IF c.pop
      THEN /\ currentHistoryId' = c.restore
           /\ UNCHANGED <<entries, pos, nextHistoryId>>
      ELSE /\ currentHistoryId' = nextHistoryId /\ nextHistoryId' = nextHistoryId + 1
           /\ IF c.replace THEN ReplaceEntry(c.url, nextHistoryId)
                           ELSE PushEntry(c.url, nextHistoryId)

(* Mutant: the id of the page that is left. *)
restoreBeforeSwitch(n, route) ==
  LET id == currentHistoryId
  IN  restored' = IF navs[n].pop /\ route \in Snapshotting /\ snapshots[id] # NoRoute
                  THEN restored \cup {<<snapshots[id], route>>} ELSE restored

(* restoreSnapshot: the new page's accessor gets what the entry's id holds. *)
restoreSnapshot(n, route) ==
  LET id == navs[n].restore
  IN  restored' = IF navs[n].pop /\ route \in Snapshotting /\ snapshots[id] # NoRoute
                  THEN restored \cup {<<snapshots[id], route>>} ELSE restored

Shows(o) == [load |-> o, form |-> heap[o].form]

(* The page is swapped in the mounted wrapper, or unmounted and mounted. *)
Commit(n) ==
  LET route == RouteOf[navs[n].url]
      o     == navs[n].load
  IN  /\ Loaded(n) /\ ~Overtaken(n)
      /\ Record(n)
      /\ currentChainKey' = ChainOf[route] /\ currentRouteId' = route
      /\ view' = [page |-> route, load |-> o, form |-> heap[o].form]
      /\ pageState' = Shows(o) /\ global' = o
      /\ activeKey' = navs[n].url
      /\ restoreSnapshot(n, route)
      /\ activeAbort' = 0 /\ navigating' = 0 /\ navs' = Done(n)
      /\ UNCHANGED <<unloaded, shallowed, payloads, last, vetoed, snapshots, waiting, invals>>

(* Shallow routing: the entry changes, the page does not. *)
pushState(u) ==
  /\ ~unloaded
  /\ PushEntry(u, nextHistoryId)
  /\ currentHistoryId' = nextHistoryId /\ nextHistoryId' = nextHistoryId + 1
  /\ shallowed' = TRUE
  /\ UNCHANGED <<unloaded, payloads, nav, activeKey, currentChainKey, currentRouteId,
                 snapshots, restored, screen, waiting, invals>>

replaceState(u) ==
  /\ ~unloaded
  /\ ReplaceEntry(u, currentHistoryId) /\ shallowed' = TRUE
  /\ UNCHANGED <<unloaded, payloads, nav, active, screen, waiting, invals>>

-----------------------------------------------------------------------------
(* Invalidation and refetch.                                               *)

Flight(kind, u, now) == [kind |-> kind, url |-> u, asked |-> now, load |-> 0,
                         page |-> NoRoute]

Launch(f) ==
  fetches' = fetches \cup {f} /\ UNCHANGED forms

Land(f) == fetches' = fetches \ {f} /\ UNCHANGED forms

(* refetchActive starts a fetch of location. *)
refetchActive(now) == Launch(Flight("refetch", location, now))

Evict(us) ==
  /\ cache' = CacheDelete(us)
  /\ depRegistry' = depRegistry \ us
  /\ UNCHANGED heap

NewEpoch(us) ==
  /\ epoch' = epoch + 1
  /\ invalidated' = [k \in Urls |-> IF k \in us THEN epoch + 1 ELSE invalidated[k]]

(* invalidate: a tag or a predicate selects paths, but only the keys in the *)
(* registry are looked at.                                                 *)
invalidate(us) ==
  LET stale == us \cap depRegistry
  IN  /\ ~unloaded
      /\ NewEpoch(us)
      /\ Evict(stale)
      /\ IF activeKey \in stale THEN refetchActive(epoch + 1) ELSE UNCHANGED waiting
      /\ UNCHANGED <<browser, nav, active, screen>>

ClearAll == NewEpoch(Urls) /\ Evict(Urls) /\ refetchActive(epoch + 1)

invalidateAll ==
  /\ ~unloaded /\ ClearAll
  /\ UNCHANGED <<browser, nav, active, screen>>

(* Mutant: navigate looks at the cache first. *)
GotoThenInvalidate(u) ==
  /\ ~unloaded /\ ClearAll
  /\ Veto \/ Begin(u, [Link(u, FALSE) EXCEPT !.fresh = TRUE],
                    IF u \in Keys THEN Cached(u) ELSE 0, epoch + 1)
  /\ UNCHANGED <<browser, screen>>

(* goto with invalidateAll: the cache is cleared before navigate looks at it. *)
GotoInvalidating(u) ==
  /\ ~unloaded /\ ClearAll
  /\ Veto \/ Begin(u, [Link(u, FALSE) EXCEPT !.fresh = TRUE], 0, epoch + 1)
  /\ UNCHANGED <<browser, screen>>

(* refetchActive, its payload there: cached, and shown at once on a bare    *)
(* page (if the component can be set), after loadPage under a wrapper.      *)
RefetchOk(f) ==
  /\ ~unloaded /\ f.kind = "refetch"
  /\ Store(f.url, f.asked)
  /\ \/ /\ currentChainKey # NoChain
        /\ fetches' = (fetches \ {f}) \cup
             {[f EXCEPT !.kind = "rewrap", !.load = Len(heap) + 1, !.page = currentRouteId]}
        /\ UNCHANGED <<forms, screen>>
     \/ /\ currentChainKey = NoChain
        /\ Land(f)
        /\ global' = Len(heap) + 1
        /\ pageState' = [load |-> Len(heap) + 1, form |-> NoUrl]
        /\ view' \in {view, [view EXCEPT !.load = Len(heap) + 1, !.form = NoUrl]}
  /\ UNCHANGED <<browser, nav, active, invals>>

(* _setWrapperState, visible if a wrapper is mounted now. *)
SetWrapper(route, o) ==
  view' = IF currentChainKey # NoChain
          THEN [page |-> route, load |-> o, form |-> heap'[o].form] ELSE view

(* loadPage is done; if it failed the rune stays and the page state moves on. *)
Rewrap(f) ==
  /\ ~unloaded /\ f.kind = "rewrap" /\ Land(f)
  /\ UNCHANGED <<browser, payloads, nav, active, invals>>
  /\ SetWrapper(f.page, f.load) \/ UNCHANGED view
  /\ pageState' = Shows(f.load) /\ global' = f.load

-----------------------------------------------------------------------------
(* Prefetch.                                                               *)

(* preloadData makes room before it waits. *)
preloadData(u) ==
  /\ ~unloaded /\ u \notin Keys
  /\ IF Cardinality(Keys) >= CacheMax THEN Evict({Oldest}) ELSE UNCHANGED payloads
  /\ Launch(Flight("prefetch", u, epoch))
  /\ UNCHANGED <<browser, nav, active, screen, invals>>

PrefetchOk(f) ==
  /\ ~unloaded /\ f.kind = "prefetch" /\ Land(f)
  /\ Store(f.url, f.asked)
  /\ UNCHANGED <<browser, nav, active, screen, invals>>

(* A failed prefetch or refetch leaves everything as it is. *)
FetchLost(f) ==
  /\ ~unloaded /\ f.kind \in {"prefetch", "refetch"} /\ Land(f)
  /\ UNCHANGED <<browser, payloads, nav, active, screen, invals>>

-----------------------------------------------------------------------------
(* Enhanced forms.                                                         *)

Submit ==
  /\ ~unloaded /\ forms = {}
  /\ forms' = {activeKey}
  /\ UNCHANGED <<fetches, browser, payloads, nav, active, screen, invals>>

(* Cancelled by the callback, or answered with an error. *)
FormDropped(u) ==
  /\ ~unloaded /\ forms' = forms \ {u}
  /\ UNCHANGED <<fetches, browser, payloads, nav, active, screen, invals>>

(* defaultApply writes into the global payload, whichever page it is of by  *)
(* now; the listener of entry.ts shows it with the entry's page module.     *)
FormApplied(u) ==
  /\ ~unloaded /\ forms' = forms \ {u}
  /\ heap' = [heap EXCEPT ![global].form = u]
  /\ pageState' = [load |-> global, form |-> u]
  /\ IF ChainOf[EntryRoute] # NoChain THEN SetWrapper(EntryRoute, global) ELSE UNCHANGED view
  /\ UNCHANGED <<fetches, browser, cache, depRegistry, nav, active, global, invals>>

FormRedirected(u, to) ==
  /\ ~unloaded /\ forms' = forms \ {u}
  /\ Navigate(to, Link(to, FALSE))
  /\ UNCHANGED <<fetches, browser, payloads, screen, invals>>

-----------------------------------------------------------------------------
Answer(n) ==
  \/ FetchOk(n) \/ FetchAborted(n) \/ FetchFails(n)
  \/ LoadPage(n) \/ LoadFails(n) \/ Superseded(n) \/ Commit(n)

Navigation ==
  \/ \E u \in Urls, r \in BOOLEAN : Click(u, r)
  \/ \E p \in 1..Len(entries) : PopState(p)

Calls ==
  \/ \E u \in Urls : pushState(u) \/ replaceState(u) \/ preloadData(u) \/ GotoInvalidating(u)
  \/ \E us \in SUBSET Urls : invalidate(us)
  \/ invalidateAll \/ Submit

Network ==
  \/ \E f \in fetches : RefetchOk(f) \/ Rewrap(f) \/ PrefetchOk(f) \/ FetchLost(f)
  \/ \E u \in forms : FormDropped(u) \/ FormApplied(u) \/ \E v \in Urls : FormRedirected(u, v)

Next ==
  \/ Navigation /\ UNCHANGED ops
  \/ Calls /\ ops < MaxOps /\ ops' = ops + 1
  \/ Network /\ UNCHANGED ops
  \/ \E n \in Here : Answer(n) /\ UNCHANGED ops

Spec == Init /\ [][Next]_vars

(* A fetch and a chunk are answered in the end, with success or failure. *)
Fairness == \A n \in Here : WF_vars(Answer(n) /\ UNCHANGED ops)
FairSpec == Spec /\ Fairness

-----------------------------------------------------------------------------
(* The places a navigation waits at, and the others. *)
Underway == {"fetch", "page", "wrapper"}

Navs == [at : Underway \cup {"idle", "done"}, url : Urls, pop : BOOLEAN, replace : BOOLEAN,
         restore : Nat, aborted : BOOLEAN, load : Nat, asked : Nat, fresh : BOOLEAN]

Flights == [kind : {"prefetch", "refetch", "rewrap"}, url : Urls, asked : Nat, load : Nat,
            page : Routes \cup {NoRoute}]

PayloadTypeOK ==
  /\ heap \in Seq([url : Urls, form : Urls \cup {NoUrl}, asked : Nat, came : Nat])
  /\ cache \in [Keys -> [load : DOMAIN heap, place : DOMAIN heap]]
  /\ Keys \subseteq Urls /\ depRegistry \subseteq Urls
  /\ epoch \in Nat /\ invalidated \in [Urls -> 0..epoch]

NavTypeOK ==
  navs \in [Here -> Navs] /\ activeAbort \in {0} \cup Here /\ last \in 0..MaxNavs

HistoryTypeOK ==
  /\ entries \in Seq([url : Urls, id : Ids]) /\ pos \in DOMAIN entries
  /\ activeKey \in Urls /\ currentRouteId \in Routes
  /\ currentHistoryId \in Ids /\ nextHistoryId \in Nat
  /\ snapshots \in [Ids -> Routes \cup {NoRoute}] /\ ops \in 0..MaxOps

(* The parts of the state by which the calls go; the rest is only shown. *)
TypeOK ==
  /\ PayloadTypeOK /\ NavTypeOK /\ HistoryTypeOK
  /\ fetches \subseteq Flights /\ forms \subseteq Urls

Quiet == \A n \in Here : navs[n].at \in {"idle", "done"}

(* When no navigation is under way, the last one the user asked for is the  *)
(* one that took effect: the active key, the mounted route and chain and    *)
(* the address bar are its own, however many it overtook.  Hooks that       *)
(* cancel and shallow routing are excepted.                                 *)
LastNavigationWins ==
  Quiet /\ ~unloaded /\ ~vetoed /\ last > 0 =>
    LET u == navs[last].url
    IN  /\ activeKey = u
        /\ currentRouteId = RouteOf[u] /\ currentChainKey = ChainOf[RouteOf[u]]
        /\ ~shallowed => location = u

(* A page gets back only snapshots that the same route captured.            *)
RestoresOwnSnapshot == ~shallowed => \A r \in restored : r[1] = r[2]

(* A payload that was in the cache when its path was invalidated is not     *)
(* there any more: only one that was then still on its way may be stale.    *)
InvalidatedGone ==
  \A k \in Keys : k \in Depends => heap[cache[k].load].came >= invalidated[k]

(* goto with invalidateAll never shows a payload asked for before the call. *)
FreshGoto ==
  \A n \in Here : navs[n].fresh /\ navs[n].load # 0 => heap[navs[n].load].asked >= navs[n].asked

(* navigating becomes null again, whatever overtakes, fails or is aborted.  *)
NavigatingClears == []<>(navigating = 0 \/ unloaded)

-----------------------------------------------------------------------------
(* What the invariants above rest on.                                      *)

(* A history id is given out once, and a navigation under way has not had   *)
(* its own yet.                                                             *)
IdsLast ==
  /\ nextHistoryId <= last + ops + (IF activeAbort = 0 THEN 2 ELSE 1)
  /\ currentHistoryId < nextHistoryId
  /\ \A p \in DOMAIN entries : entries[p].id < nextHistoryId
  /\ \A i \in Ids : i >= nextHistoryId => snapshots[i] = NoRoute
  /\ \A n \in Here : navs[n].pop => navs[n].restore \in Ids /\ navs[n].restore < nextHistoryId

(* An entry's id stands for one path; the snapshot kept under it and the    *)
(* page shown as it are of that path's route; and the navigation that may   *)
(* commit as a history entry is to the path of that entry.                  *)
EntryIs(u, i) == \E p \in DOMAIN entries : entries[p].url = u /\ entries[p].id = i

IdsStand ==
  /\ \A p, q \in DOMAIN entries : entries[p].id = entries[q].id => entries[p].url = entries[q].url
  /\ \A p \in DOMAIN entries :
       /\ snapshots[entries[p].id] \in {NoRoute, RouteOf[entries[p].url]}
       /\ entries[p].id = currentHistoryId => RouteOf[entries[p].url] = currentRouteId
  /\ \A n \in Here : n = activeAbort /\ navs[n].pop => EntryIs(navs[n].url, navs[n].restore)

SnapshotInv == IdsLast /\ (~shallowed => IdsStand /\ RestoresOwnSnapshot)

(* As long as no hook cancels, the last navigation owns the controller and  *)
(* is under way, not aborted, or it has taken effect.                       *)
Effect(u) ==
  /\ activeKey = u /\ currentRouteId = RouteOf[u] /\ currentChainKey = ChainOf[RouteOf[u]]
  /\ ~shallowed => location = u

WinsInv ==
  ~unloaded /\ ~vetoed =>
    /\ activeAbort \in {0, last}
    /\ activeAbort # 0 =>
         /\ navs[last].at \in Underway /\ ~navs[last].aborted
         /\ navs[last].pop /\ ~shallowed => location = navs[last].url
    /\ activeAbort = 0 /\ last # 0 => Effect(navs[last].url)

(* A cached path that declares dependencies is registered. *)
CacheInv == InvalidatedGone /\ Keys \cap Depends \subseteq depRegistry

(* The payload of a navigation is one that has arrived. *)
FreshInv ==
  \A n \in Here : navs[n].fresh /\ navs[n].load # 0 =>
    /\ navs[n].load \in DOMAIN heap
    /\ heap[navs[n].load].asked >= navs[n].asked
=============================================================================
