# sveltego in TLA+

A verification development for [sveltego](../src/README.md), the Svelte-on-Go web
framework: TLA+ modules for the parts whose correctness depends on the order of
concurrent steps, on crashes between two steps, or on several pieces of code that must
read the same input alike; TLC configurations that check them on small instances; and
TLAPS proofs of the main safety properties of the server, the stores, the browser's
cookies and the client router for every instance.
`PROJECT.json` maps each definition to the source lines it models.

Paths below are relative to `src/packages/`; `S` is `sveltego`.

## 1. The system

### 1.1 Parts, state, operations

| Part | Source | State it keeps | Operations that change it | Module |
|---|---|---|---|---|
| Server lifecycle | `S/server/server.go`, `cron.go` | `initState`, `initDone`, `httpSrv`, `cronCancel`, `fallbackSupervisor` | `Init`, `RunInitAsync`, `ListenAndServe`, `Shutdown`; `ServeHTTP` reads | `ServerLifecycle` |
| Request pipeline | `S/server/pipeline.go`, `errors.go`, `actions.go`, `enhance.go`, `head.go` | per request: `pageBuf`, `matched`, the event with its `After` queue; shared: the buffer pool | `handle`, the `Handle` hook, `resolve`, the render functions, `handlePipelineError`, `writeResponse`, `drainAfter` | `RequestPipeline` |
| Streaming | `renderStreaming`, `S/exports/kit/streamed.go`, `S/render/writer.go` | a producer goroutine and context per stream, the render buffer, the connection | `StreamCtx`, `Wait`, `Cancel`, `FlushTo` | `StreamingRender` |
| SSR fallback cache and client | `S/runtime/svelte/fallback/cache.go`, `client.go` | the LRU list and map | `Get`, `Put`, `Render` | `LRUCache`, `FallbackClient` |
| SSR fallback sidecar | `fallback/sidecar.go`, `registry.go`, `S/server/ssr_fallback.go` | a Node process, `Supervisor.current`, restarts, backoff, the registry's client | `Start`, `Run`, `loop`, `Stop`, `StartFallbackSidecar`, `Registry.Render` | `FallbackSidecar` |
| Client router | `S/internal/vite/router.go`, `state.go`, `forms.go`, `wrapper.go` | payload cache, dependency registry, active navigation, snapshots, history | `navigate`, `goto`, `invalidate`, `invalidateAll`, `preloadData`, `popstate`, enhanced forms | `ClientRouter` |
| Routes | `S/internal/routescan`, `S/runtime/router`, `codegen/link_emit.go` | the scanned routes, an immutable tree | `Scan`, `NewTree`, `WithMatchers`, `Match`; typed links | `RouteScan`, `MatchState`, `Routes` |
| Code generation | `S/internal/codegen` | `.gen` and the files beside the sources | `Build` and its phases, `sveltego prerender` | `Codegen` |
| Prerender and static deploy | `S/server/prerender*.go`, `S/cmd/sveltego/prerender.go`, `adapter-static` | the output directory, its manifest, the server's table, the deploy tree | `Prerender`, `New`, `servePrerendered`, `Build` | `Prerender` |
| Assets and static files | `S/internal/images`, `S/internal/assets`, `S/server/static.go` | `static/_app`, the table of `kit.Asset`, what a browser keeps | `images.Build`, `assets.Build`, `ServeHTTP` | `StaticAssets` |
| Cookie session | `cookiesession` | plain or chunked cookies in the browser | `Set`, `Update`, `Refresh`, `Destroy` | `CookieSession` |
| CSRF | `S/server/csrf.go`, `auth/csrf.go` | a cookie, a token per page | `applyCSRF`, `Middleware` | `Csrf` |
| Token fields | `svelte_js2go/lower_csrf.go`, `csrfinject`, `csrffallback`, `vite/cliententry.go` | the forms of a document | four splicers | `FormTokens` |
| Auth stores | `auth/storage.go`, `auth/storage/*` | users, sessions, accounts, verifications, their indexes | the `Storage` interface | `AuthStorage`, `AuthStore` |
| Dev server | `S/internal/devserver` | the supervised Go process, the Vite process, the proxy's `rebuilding` flag, the debounce batch | `Run`, `handleChange`, `Reload`, `Watcher.Run` | `DevServer` |
| Tools | `mcp`, `lsp`, `init`, other `adapter-*` | none that matters | sequential request loops, file writing | - |

### 1.2 Interactions

*Server.* `ListenAndServe` starts `Init` in a goroutine and serves at once, so requests
meet a server whose `Init` runs. `Init` starts the sidecar (which owns a process and a
restart goroutine), configures the registry's client with its endpoint and starts the
cron goroutines; `Shutdown` undoes this from another goroutine. A request that passes the
gate runs `handle`; its render buffer comes from a process-wide pool and is lent out
through `Response.Body`. A page with `Streamed` fields is written by `renderStreaming`
while its producers run. A page that codegen could not lower goes through the registry to
the client, its cache, and the sidecar.

*Browser.* The server keeps no session: what a request knows is what the browser's jar
held when it was sent, and what it writes arrives with its response, in any order. The
client router fetches payloads, caches them and mounts pages; between two awaits anything
may happen. The token of the CSRF cookie gets into forms in four ways that meet in one
document.

*Build.* The scanner's routes feed the generator, whose manifest feeds the tree and the
client's route table. `sveltego prerender` runs the user's binary, which writes files a
server answers from. Code generation stages assets in a directory Vite also writes to.
The dev server runs all this again at every edit.

### 1.3 What is hard, and what correctness means

* *Gate*: two words of state are changed in two steps while requests read them. No request
  may pass before `Init` is over, none may wait for a channel nobody closes.
* *Background work*: a `Shutdown` races with the `Init` that starts it.
* *Buffer pool*: buffers cross the user's `Handle` hook; every return, error and panic
  must give back each buffer once, and not before its bytes are written.
* *One answer*: several parties write to one `ResponseWriter`, told apart by sentinels.
* *Streaming*: producers, context and connection change between any two steps.
* *Supervision*: crash, timeout, late ready line, backoff and stop interleave.
* *Cache*: two data structures under one lock, and no single-flight around calls.
* *Navigation*: the last navigation must win although every answer comes when it likes,
  and what was invalidated must not come back from a cache.
* *Jar*: overlapping requests write sessions of different shapes into one jar.
* *Matching*: a backtracking matcher over a sorted tree must agree with what the patterns
  mean, with the links that are built from them, and with the scanner's idea of a conflict.
* *Generation*: five readings of one project must fit together when the compilers run.
* *Crashes of a build*: a pass is killed between two files and the next one starts on what
  it left, or a server reads it.
* *Stores*: five backends promise one interface to concurrent callers.
* *Edits*: the last edit is built in the end, whatever arrives during a rebuild.

`PROJECT.json` lists each such place, with its line, under `hazards`.

## 2. Modules

| Module | Models | Uses |
|---|---|---|
| `LRUCache` | the cache as operators on its list and map | |
| `FallbackClient` | `Client.Render` by concurrent goroutines | `LRUCache` |
| `FallbackSidecar` | processes, `Start`, the supervisor, boot and dispatch | |
| `ServerLifecycle` | `Init`, gate, listener, cron, sidecar handle, `Shutdown` | |
| `RequestPipeline` | `handle` to `writeResponse` with the pool of buffers | |
| `StreamingRender` | `renderStreaming` against producers, context, connection | |
| `ClientRouter` | the router of one tab, a step per await | |
| `RouteScan` | scan, diagnostics, the build's verdict, what `New` refuses | |
| `MatchState` | the captures of a match: a fixed array and its overflow | |
| `Routes` | tree, `Match`, links, client manifest | `RouteScan`, `MatchState` |
| `Codegen` | the phases of `Build`; files by what they declare, use and import | |
| `Prerender` | the pass, the server that answers from it, the static adapter | |
| `StaticAssets` | the staging of assets and the static handler | |
| `CookieSession` | one browser's session cookies | |
| `Csrf` | token cookie and pages of several tabs, for both checks | |
| `FormTokens` | the token field from source to hydrated page | |
| `AuthStorage` | what `auth.Storage` promises | |
| `AuthStore` | memory, SQL (three dialects) and pgx stores | `INSTANCE AuthStorage` |
| `DevServer` | watcher, rebuild loop, children, proxy | |
| `MCBuild` | `Routes`, `Codegen`, `Prerender`, `StaticAssets` side by side | those, `MCRoutes` |
| `MCRender` | `FallbackSidecar`, `StreamingRender` side by side | those |
| `MCAccounts` | `CookieSession`, `Csrf`, `FormTokens`, `AuthStore` side by side | those |
| other `MC*` | constants and symmetry sets | the module named |
| `LRUCacheProofs` | theorems on the cache and its users | `FallbackClient` |
| `ServerLifecycleProofs` | theorems on the gate, on what starts, on captures | `ServerLifecycle`, `RouteScan`, `MatchState` |
| `RequestPipelineProofs`, `StreamingRenderProofs`, `ClientRouterProofs`, `AuthStoreProofs` | theorems | the module named |
| `ToolchainProofs` | theorems on processes and files around the server | `DevServer`, `StaticAssets`, `Prerender`, `FallbackSidecar`, `Codegen` |
| `BrowserProofs` | theorems on what a browser holds | `CookieSession`, `Csrf` |

`FallbackClient` composes the cache with its users; `AuthStore` is shown to implement
`AuthStorage`. `ServerLifecycle` sees the sidecar as one start and one stop, which
`FallbackSidecar` details; likewise `RequestPipeline` sees a streamed page as `BeginStream`
and `FinishStream`, which `StreamingRender` details, and a CSRF check as accepted or
refused, which `Csrf` details. `MCBuild`, `MCRender` and `MCAccounts` put components side by
side that read none of each other's state: a variable `part` chooses the one that moves, the
others stay at an initial state or at their end, where no fairness moves them, so each state
space is explored in full and they are added, not multiplied.

### LRUCache, FallbackClient

`order` is the list, front first, and `items` the map. `GetOrder`/`GetItems` and
`PutOrder`/`PutItems` are the effects of `Get` and `Put`, each atomic under
`lruCache.mu`. A goroutine is in phase *get*, *call*, *put* or *done* of `Render`;
the lock is not held during the call, so two misses on one key overlap. What a page
contains is a version number: `upstream[k]` is what the sidecar would render now, and
`UpstreamChange` (external) makes it newer. `born` and `newer` are history: when a
version became current, and which keys were used after which.

### FallbackSidecar

Processes are numbered in the order `cmd.Start` creates them; the number also stands
for the port. `sup` is where `Run` and then `loop` are: *start* and *await* are inside
`Start` (its `select` may find several cases ready), *drain* is the `<-doneCh` after a
failed start, *wait* is `cur.Wait()`. `StartFallbackSidecar` always sets `Restart`, so
the loop always runs. `Dispatch` is `Registry.Render` on a cache miss.

### ServerLifecycle

`Init` calls are numbered and call *i* owns channel *i*; channel 0 is the closed one
that `New` makes. `StartInit` takes two steps, as the code does. `Init` closes the
channel and then starts cron, `runInitAsync` the other way round; both orders are kept.
`Shutdown` reads its three fields in one step, under the lock, and then acts on what it
read. `pendingBy` and `held` are history: whose pending state a request saw.

### RequestPipeline

One record per request. `resps` is what `resolve` has returned to the hook so far; a
Response either has bytes of its own or aliases a pooled buffer. The hook may queue
`After` callbacks, short-circuit, call `resolve` (up to `MaxResolves` times), change an
error, return nothing or panic. `content[b]` is the page last rendered into buffer *b*:
`Release` leaves the bytes in place, as the code does. A server route's handler, a
streamed page and the error path call `WriteHeader` themselves, recorded in `answers`.
`KeepsEarlier` says whether the hook may return a Response of an earlier `resolve`.

### StreamingRender

Chunks are positions in the document: 0 the shell, 1..N the scripts, N+1 the tail.
`buf` is the render buffer, `wire` what was written. `prod` is each producer;
`parent` whether its context derives from the request's (`kit.Stream` uses the
background context). `streamCtx` is whether the context it was given has ended.
The wait, the check of the context, the flush and the second check are separate steps.

### ClientRouter

JavaScript runs one task at a time, so a step is the code between two awaits. A
navigation is a record with its place in `navigate` (*fetch*, *modules*, ...) and
`activeAbort` the one that may still commit. Payloads are objects on a `heap`: the
cache, `window.__sveltego__` and a waiting navigation share them. `came` and `asked` are
history: when a payload arrived and when it was asked for. `vetoed` (a hook cancelled)
and `shallowed` (`pushState` was called) mark what the properties except.

### RouteScan, MatchState, Routes

Directory names are records of bracket style, identifier and matcher. The author creates
directories from a catalogue until the build; `Scan` collects routes and diagnostics and
`Start` refuses a duplicate pattern and a missing matcher, or serves. `Routes` adds to these
steps of `RouteScan` the sorted table and the tree, and matches in `Request`. The tree is
a function from sequences of segments to routes; `matchNode` and the ordering of siblings
are recursive operators. The reference they are checked against, `Derivations`, is
declarative: all ways in which a pattern can produce a path.

### Codegen

A file is its package, its name, what it declares, uses and imports. `Clean`, the emission
of each route, types, transpiled pages, layouts and boundaries, the manifest, the client
entries and the project files are actions in the order of `Build`; each phase may fail and
leave what was written. `Compiles` is what the Go and TypeScript compilers compare: every
name used is declared once, every import is used. The author edits between builds.
The routes of a scan are emitted in any order, and the order of a layout chain is that of
the path to its directory: which files there are does not depend on either. `WriteFile`
replaces a file of the same path.

### Prerender

A file is *torn* from its creation to the end of its write. The pass (`Server.Prerender`
in the user's binary) removes, writes page by page, counts tolerated errors and writes the
manifest last; the server loads the manifest once and reads files per request; the static
adapter runs a pass into a scratch directory and copies. Each process may be killed
between any two steps. The path the subprocess runner hands to the pass is joined to the
project root there, as the code does, so the third directory `joined` exists.

### StaticAssets

Staging: `images.Build` with a goroutine per source up to `Concurrency`, the markup of
`<Image>`, then `assets.Build` (hash, then copy) and the emitted table; a kill leaves what
was written. Serving: `stat`, choice of a sibling, header, `open` are two steps around
which the file may change; the browser keeps a copy with its tag.

### CookieSession, Csrf, FormTokens

`jar` maps cookie names to values with a lifetime; a request carries the jar of its start
and its `Set-Cookie` headers are applied when the response arrives, or lost. A wire string
is the record of what was encrypted, so that a session put together from two writes shows
as *garbled*. `Csrf` has the jar's one token and a page and a request per tab, under
either of the two checks. In `FormTokens` markup is a sequence of lexemes; the three
scanners differ in what they take for the end of a tag, for a method and for an opt-out, and
the browser's splicer (`InjectCSRF`) looks at the document as it is. The router's commit, the
hooks and Svelte's render are kept in their order: `pending` is the microtask still to run,
`before` the token the global held while a page was mounted, `target` the element the
splicer looks below. Which forms have to carry a token is read off what the author wrote
(`Guarded`), not off the document.
What Svelte's compiler and runtime do is external and modelled from what the code relies on.

### AuthStorage, AuthStore

`AuthStorage` is the contract as the comments of `storage.go` state it: a call is one step
whose answer is determined by the state it finds, up to what the interface leaves open (two
rows under one key, an update to a taken email). Only `DeleteUser` may fail for no reason of
the contract's, and then nothing changes. `AuthStore` has the backends: a call is one
critical section or one statement; the SQL `DeleteUser` is a transaction of five statements
under read committed, any of which may fail. How each backend translates the outcome of a
statement into an error is a table per backend. On SQLite a transaction that commits is alone,
so it is modelled as one that other writers wait for; one that loses its snapshot fails.
`Shares` says whether a caller may give a user the email of another. `KeepsPromise` is the
contract under the identity mapping: every step of a store is one call or changes nothing the
contract sees. `DeviatesOnlySo` allows, besides, the five `...Deviates` actions, each bound to
its backends and to the answer and change the code really makes. The driver behind the
Postgres dialect is taken to be lib/pq, the first that `isConflict` names; with the one of
the integration test `CreateUser` fails already.

### DevServer

The sources are a version number with how far it gets: codegen refuses it, the compiler
does, the server never listens, or it is good. The kernel's event queue and the channel of
batches are bounded, `Watcher.Run` and `Run` are separate processes, and `pc` is where
`Run`, `handleChange` and `Reload` are. `missed` marks an edit no event told of: before the
watcher exists, in a directory not yet watched, or when the kernel's queue is full.
`ViteStop` has both outcomes of `Stop`: Vite is gone, or is left running because the grace
period passed or only its package manager was killed. `ChildrenHeld` is therefore about the
user's server and the proxy; `goSupervisor.stop`, unlike Vite's, waits for the process.

## 3. Runs

| Run | Expect | Properties | Bounds |
|---|---|---|---|
| FallbackClient | pass | CacheConsistent, BoundedStaleness | 3 keys, capacity 2, 2 goroutines, clock to 3, 2 versions |
| Render | pass | NoOrphan, StopsEverything, CrashRestarts | 2 restarts, backoff cap 3 |
| | | InOrder, ScriptsTellTruth, RestCancelled, StreamsEnd | 3 streams |
| ServerLifecycle | pass | InitGate, WaitsForItsInit, ShutdownStopsBackground, GatePassed | 1 request, 2 Init calls, cron and sidecar |
| RequestPipeline | pass | PoolConserved, BodyIntact, AnsweredOnceThenAfter | 2 requests, 4 buffers, 2 resolve calls |
| KeptResponse | violation | BodyIntact | as above, `KeepsEarlier` |
| ClientRouter | pass | LastNavigationWins, RestoresOwnSnapshot, InvalidatedGone, FreshGoto, NavigatingClears | 3 URLs on 3 routes, 2 navigations, 1 other call, cache of 1 |
| Build | pass | MatchExact, ResolutionOrder, NothingLost, AcceptedProjectStarts, LinksResolve | up to 3 directories of 24, 14 paths, 1 stacked capture |
| | | OutputFits | 2 directories, 36 x 156 projects, 1 edit |
| | | AsRendered | 3 sites of 2 releases, 2 passes, 1 tolerated error |
| | | URLsResolve | 2 assets, 5 templates, 2 stagings, 1 change, 2 goroutines |
| | | CopiesCurrent | 1 file with 2 siblings, 3 headers, 1 change each |
| ClientRoutes | violation | ClientAgrees | the routes of Build |
| Accounts | pass | NeverMixed, ReadBack | 2 requests, wires of 2, 3 and 6 over cookies of 2, 3 writes, clock to 2, 3 secrets |
| | | FormAccepted | 3 tabs, 3 tokens |
| | | TokenOnce, HydrationAgrees, FormsSubmittable | pages of one and two forms out of 5 methods, 3 actions, 3 opt-outs, 4 endings |
| | | DeviatesOnlySo | 5 backends, 2 users, 2 emails, 1 key, 1 deleter |
| FormSwaps | violation | SwapsSubmittable | pages of up to two forms, one navigation |
| AuthPgxLookups | violation | KeepsPromise | pgx, 2 users, 2 emails |
| DevServer | pass | ChildrenHeld, LatestIsServed, StopsWhenCancelled | 3 edits, 1 batch in the channel, 2 events in the kernel |

Why the bounds are enough:

* Three keys over a capacity of two evict, re-insert and replace; two goroutines
  overlap on one key; a clock to 3 passes a TTL of 1 and a call of 1.
* Two restarts are a first start, a restart within the budget, the last one and the
  end of the budget; a cap of 3 is reached by doubling 1.
* Two Init calls cover a retry and an overlap of an asynchronous Init with the next.
  Requests do not affect each other at the gate, so one is enough.
* Each of two requests holds at most two buffers at once; four buffers mean that none
  ever waits, as `sync.Pool` never makes anyone wait. Two resolve calls are needed for
  a second page to displace a first.
* Three streams have one before, one at and one after the awaited one.
* Two navigations, to which the initial load and the browser's back come in addition,
  overtake each other; a cache of one evicts at the second payload.
* Three directories are two siblings and one below or beside them; one stacked capture
  puts the boundary of the fixed array between the first and the second capture.
* A root and a directory below it are enough for inheritance, resets and boundaries above
  and beside; one edit makes a build over the output of another project.
* Two passes or stagings: one to be killed, one to start on what it left.
* Wires of one, two and three cookies shrink, grow and change their form; three writes
  are two overlapping ones and one after them; a clock to 2 passes the lifetime of 1, and a
  refresh of 2 outlives it. Three tabs are a page, one that mints and
  one that submits.
* One key for two users lets rows collide; one `DeleteUser` meets every other call between
  its statements. Two that meet each other are left to the theorem, which is about any number
  of callers. A landing page has no form, one or two: enough for
  a page that gains or loses one at a navigation.
* Three edits are one before, one during and one after a rebuild.

`CHECK_DEADLOCK FALSE` is set where the modelled part really ends: a finished request, a
finished stream, a bounded clock or number of edits. The run of the cache checks for
deadlock.

### What the violations show

* **KeptResponse**: a hook that calls `resolve` twice and returns the first Response
  sends a buffer that is back in the pool and that another request has overwritten.
* **ClientRoutes**: the client's manifest is in the order of the generated table, sorted
  by pattern with `[` before letters, and the browser takes the first match; for `/a` it
  mounts `/[p]` where the server's tree answers with `/a`.
* **FormSwaps**: the splicer is a navigation hook so that the pages the client router shows
  have their tokens (#541), but within one chain of layouts it runs before Svelte has rendered
  the page the rune holds, and the new page's forms stay without one.
* **AuthPgxLookups**: a missing user is not `ErrNotFound`, which `storage.go` promises and
  `adaptertest.go` asserts: `pgx.CollectOneRow` answers `ErrNoRows` before the code that would
  translate it is called.

### Behaviour the models show and the properties except

These are consequences of the code as it is, met while stating the properties; each is
listed among the hazards with its line.

* After a restart of the sidecar the registry's client keeps the old endpoint.
* A `Shutdown` between the start of the sidecar and the store of its supervisor leaves it
  running; `ShutdownStopsBackground` is about a `Shutdown` that begins after `Init`.
* The stream awaited at a disconnect is the one stream nobody cancels.
* A prefetch on its way during an invalidation stores its older payload afterwards.
* Two optional or rest siblings: the later displaces the earlier one's subtree.
* An error boundary of a project without layouts, and some untyped files, pass the
  generator and fail in the Go compiler (the right side of `ManifestCompiles`).
* A Vite build that follows code generation drops the staged assets.
* A later prerender pass changes the files under a running server.
* Two first GETs at once mint two tokens, and one page loses.
* A superseded navigation that fails still calls `location.assign`, and the refetch of an
  invalidation may answer late; `LastNavigationWins` is about navigations that commit.
* Three of the four splicers honour `nocsrf`; the browser's does not look for it and gives
  such a form a token. `FormsSubmittable` says nothing of forms that opted out, `TokenOnce`
  says that the server leaves them bare.
* A page mounted by a router that started from a shell is outside the element the splicer
  looks below, and a sidecar page whose token differs from the global's renders its input
  before the router sets the global; `FormsSubmittable` is not about these two mounts.
* Vite's `Stop` gives up after `shutdownGrace` and kills npx, pnpm or bun, not what they
  started, so Vite may hold its port after `Run` has returned; `ChildrenHeld` is about the
  user's server and the proxy.
* The stores depart from `storage.go` in five cases, which `Deviates` lists and
  `DeviatesOnlySo` bounds: pgx's lookups of a missing user (`pgx.go:65`); the lookups of a user
  that exists on Postgres, whose BOOLEAN column does not scan into an int (`sql.go:169`); an
  update that changes nothing on MySQL, answered `ErrNotFound` (`sql.go:216`); the memory
  store's index once two users have shared an email (`memory.go:86`); and `DeleteUser` under
  read committed, which misses rows that arrive behind its statements and succeeds twice
  (`sql.go:248`).
* A form with a token input of the author's own, written in another order of attributes,
  gets a second one from the build-time pass; `TokenOnce` leaves forms with such inputs out.

### Fairness

* `FallbackSidecar`: a killed process exits, and the steps of the supervisor that can
  be taken are taken (its goroutine runs, its timers fire). Nothing is assumed of a
  live process, which may serve or hang for ever.
* `ServerLifecycle`: only a request's own steps, its timer included. The Init hook may
  hang, so `GatePassed` rests on `InitTimeout`.
* `StreamingRender`: the handler's goroutine, the timer in `Wait` (`New` makes
  `streamTimeout` positive), `net/http` ending the request context once the handler has
  returned, and a producer returning once its own context is done, which is what
  `StreamCtx` asks of producers. A producer whose context is live may hang.
* `ClientRouter`: an answer, good or bad, to each fetch and module import of a navigation,
  which the browser gives; nothing of the user.
* `DevServer`: weak fairness of the watcher's and of `Run`'s steps, since both goroutines
  run and their timers fire, and of a good server's start to listen; strong fairness of
  the two `select` cases for the cancelled context, since Go's `select` chooses among ready
  cases at random and so does not pass one over for ever.

## 4. Proofs

Every theorem but three is of the form `Spec => []Inv`, by an inductive invariant that TLC
checked on the instances above first; `AdaptersKeepPromise` and `AdaptersDeviateOnlySo` are
refinements and `CapturesBacktrack` is about operators. The theorems
also contain the type invariants and, as conjuncts that no run lists separately,
`LeastRecentlyUsedLast`, `RestartBudget`, `HeldUntilOver` and `NoStrandedWaiter`.

| Theorem | Module | Says | Assumes |
|---|---|---|---|
| `CacheCorrect` | `LRUCacheProofs` | TypeOK, CacheConsistent, LeastRecentlyUsedLast | `CacheAssumption`, `ClientAssumption` |
| `StalenessBounded` | `LRUCacheProofs` | BoundedStaleness | the same |
| `InitGateHolds` | `ServerLifecycleProofs` | TypeOK, InitGate, HeldUntilOver, NoStrandedWaiter | `LifecycleAssumption` |
| `WaitsAreForOwnInit` | `ServerLifecycleProofs` | WaitsForItsInit | the same |
| `ShutdownLeavesNothing` | `ServerLifecycleProofs` | ShutdownStopsBackground | the same |
| `AcceptedProjectsStart` | `ServerLifecycleProofs` | AcceptedProjectStarts | none |
| `CapturesBacktrack` | `ServerLifecycleProofs` | `push`, `truncate` and `at` implement a plain sequence | `StackAssumption` |
| `StreamsInOrder` | `StreamingRenderProofs` | StreamTypeOK, InOrder, ScriptsTellTruth, RestCancelled | `StreamsAssumption` |
| `ScriptsAreTrue`, `NoProducerLeft` | `StreamingRenderProofs` | ScriptsTellTruth; RestCancelled | the same |
| `PoolBalanced` | `RequestPipelineProofs` | PoolConserved | `PipelineAssumption` |
| `AnsweredOnce` | `RequestPipelineProofs` | AnsweredOnceThenAfter | the same |
| `BodyOutlivesWrite` | `RequestPipelineProofs` | BodyIntact | the same, and `~KeepsEarlier` |
| `SupervisionSafe` | `ToolchainProofs` | TypeOK, NoOrphan, RestartBudget | `SidecarAssumption` |
| `DevHoldsChildren` | `ToolchainProofs` | ChildrenHeld (the user's server and the proxy) | none |
| `CopiesStayCurrent` | `ToolchainProofs` | CopiesCurrent | none |
| `AssetsResolve` | `ToolchainProofs` | URLsResolve | `WidthsAssumption`, `PictureAssumption`, `AssetsAssumption` |
| `ServedAsPlanned` | `ToolchainProofs` | AsRendered, of the pass and the server | `SitesAssumption` |
| `DeployedAsPlanned` | `ToolchainProofs` | AsRendered, of the pass and the static adapter | the same |
| `OutputAlwaysFits` | `ToolchainProofs` | OutputFits | `AboveAssumption`, `ProjectsAssumption` |
| `FormsAccepted` | `BrowserProofs` | FormAccepted | `TokensAssumption` |
| `SessionsNeverMixed` | `BrowserProofs` | NeverMixed | `SessionAssumption` |
| `SessionsReadBack` | `BrowserProofs` | ReadBack | the same |
| `LastWins` | `ClientRouterProofs` | LastNavigationWins | `RouterAssumption` |
| `SnapshotsStayOwn` | `ClientRouterProofs` | RestoresOwnSnapshot | the same |
| `InvalidatedStaysGone` | `ClientRouterProofs` | InvalidatedGone | the same |
| `GotoIsFresh` | `ClientRouterProofs` | FreshGoto | the same |
| `AdaptersKeepPromise` | `AuthStoreProofs` | KeepsPromise | `NoEmailAssumption`, `BackendsAssumption`; only memory and SQLite, and `~Shares` if memory is among them |
| `AdaptersDeviateOnlySo` | `AuthStoreProofs` | DeviatesOnlySo | `NoEmailAssumption`, `BackendsAssumption` |

The assumptions say what kind of value a constant is (a positive bound, a Boolean, a
placeholder that is no member of the set it stands beside, a path that ends in its
directory); sets of requests, tabs, keys,
users and callers may be of any size. `~KeepsEarlier` is not a matter of typing: `BodyIntact`
is false for a hook that returns the Response of an earlier `resolve`, as the run that
expects the violation shows. The same is true of the backends and of `~Shares` in
`AdaptersKeepPromise`: AuthPgxLookups refutes it for pgx, and the other
cases of `Deviates` are why the rest is needed.

* *Cache*: what `Get` and `Put` do to the list is stated once, as lemmas about
  removing a key, putting it in front and dropping the last; `LeastRecentlyUsedLast`
  needs that the list is ordered by the history of uses. `BoundedStaleness` is not
  inductive: `StalenessInv` adds a bound on every cached entry (its expiry is at most
  a TTL after the call that fetched it) and on every answer on its way to the cache.
* *Gate*: `GateInv` says of each call where its channel and its result are
  (`CallTellsTruth`), that calls follow each other (`CallsInOrder`), what `initState`
  stands for (`StateTellsTruth`) and what each request has seen (`RequestsSeeInit`).
* *Shutdown*: whatever runs in the background was started by a call and `Server` holds
  what stops it (`BackgroundReachable`); the three fields `Shutdown` read under the lock
  are still those of `Server` when it acts on them (`SettledShutdown`), because only a
  call under way writes them and there is none.
* *Scan and start*: the scanner and `New` decide by different rules. The scanner compares
  shapes (names of parameters erased) of directories with a page, a server file or a reset,
  and looks matchers up among the built-in and discovered names; the tree compares segments
  of the registered routes, and matchers with the map the generated code hands over.
  `AcceptedStartable`, that what was built has neither fault, follows at `Scan` because each
  of the tree's refusals has a fatal diagnostic (`ConflictFound`, `UnknownMatcherFound`). The
  theorem is about `ScanSpec`, whose steps are those of `RoutesSpec` without table, tree and
  requests.
* *Captures*: `Captures(C, st, s)` says that the state stands for the sequence `s`; the lemmas
  distinguish the sides of the array's end. It is the part of `MatchExact` that is not
  recursive.
* *Streaming*: `InPlace` fixes buffer and wire at every program point; with it a flush
  appends exactly the next chunk (`FlushAdvances`). `Told` keeps a script truthful from
  the wait until it is sent.
* *Pipeline*: `PoolConserved` needs that a request's scratch buffer is its own at every
  place in the code (`ScratchInUse`); `AnsweredOnceThenAfter` needs the count of answers
  at every place, broken attempts apart (`AnswersSoFar`). `BodyIntact` needs more, from
  `BodyReady`: the Response the hook is about to return aliases a buffer this request
  still holds. All steps of another request are dealt with by one lemma: what a request
  says of itself is kept by a step that leaves its record and its buffers alone.
* *Supervision*: `BudgetPaid` relates processes started to restarts counted, and
  `Holds` says which process each state of the supervisor is responsible for; without
  them `NoOrphan` is not preserved by `Spawn`.
* *Static files*: `StaticInv`: a modification time stands for one content, and a copy
  whose tag is still the file's holds the file. The `stat` of a request may be out of date
  when the file is opened, but then so is the tag it wrote.
* *Staged assets*: `URLsResolve` is about finished passes only; a goroutine truncates a
  file that an earlier pass left whole, and two sources with the same stem and hash write the
  same name. `StageInv` says of every name either that its file is whole (`Sound`) or that a
  goroutine of this pass has it open (`InHand`), and that a source which is done left its
  variants so (`VariantsOK`); the plan is taken, and the table written, only when nobody is
  in hand and nobody failed. `Turn` (the order in which a source writes its variants) makes
  the open file of a goroutine unique (`OneTurn`). `CopiesInv` is the same for the copies.
* *Prerendered pages*: `Faithful(n, rows, files)`: the rows are of release `n`, and if no two
  jobs of that release share a file, each row's file is its page. `PassInv` keeps it for the
  entries of the running pass, because a job not yet done is none of those listed
  (`OtherFile`), and says that there is no manifest until the last file is written; a removal
  leaves the weaker `Remaining`. `SiteInv` carries `Remaining` into the server's table as
  long as no pass is at work there. That a protected page is listed as protected
  (`ProtectedAsPlanned`) is not a matter of state: the route that answers a path has a job of
  its own for it, and where jobs do not share files that is the job whose entry is kept.
  `BuildInv` follows a Build: its scratch directory is empty or its own pass's, its rows are
  `Faithful` there, and the rows before `next` are `Faithful` in the deploy tree. Passes
  follow each other in the model: a binary that outlives its killed Build ends, or is
  killed, before the next Build begins.
* *Code generation*: `CodegenInv` says what is under `.gen` when each phase begins:
  `Output`, what the phases before it generate from the project as it is, and nothing else
  (`WrittenInPhase`); a phase that is passed over would have added nothing. For a write to
  add its files and replace none, no two files of the output may have one path
  (`OnePerPath`), which is shown package by package from a catalogue of the kinds of files
  a package can hold (`Catalogue`). Beside the sources there are only declaration files
  (`TypesOnly`), some perhaps of an earlier project. The rest is about one state: what each
  package declares (`DeclaredInUserSrc` and its siblings), that imports are those of the uses
  (`TidyOutput`), which uses are declared (`UsesKnown`) and which names twice
  (`DeclaredOnce`). The equivalence of `ManifestCompiles` falls out of the last two.
* *Session cookie*: for `NeverMixed`, `JarWhole` (meta and chunks are of one write and end
  together) and `OutWhole` (a response that says anything about a chunk says something
  about the meta cookie): applying the second to the first, in any order of responses,
  keeps the first. For `ReadBack`, `AloneKnows` (a request that has been alone so far
  carries what the jar holds) and `ExpectKept` (the jar holds one session, or none, after
  such a response). `FlushWhole`, `DeleteWhole` and `AppliedWhole` are the lemmas.
* *CSRF*: `CsrfInv`: while a settled page or request is there, no other request is about to
  set a token, and the token it carries is, or will be, that of the cookie.
* *Client router*: every step is of one of a few kinds for the history (`StepKinds`: asking,
  going on, ending, committing, shallow routing, none) and for the payloads
  (`PayloadsMove`). `WinsInv`: as long as no hook cancels, the last navigation owns the
  controller and is under way, not aborted, or it has taken effect. `SnapshotInv`: a
  history id is given out once (`IdsLast`) and stands for one path, so that what is kept or
  shown under it is of that path's route (`IdsStand`); a cancelled popstate leaves the
  address bar on another entry than the page, which is why the navigation that may commit is
  tied to *some* entry, not to the current one. `CacheInv`: a cached path with dependencies
  is registered. `FreshInv`: the payload a fresh navigation holds has arrived.
* *Stores*: `AuthInv` is the types, `IndexFollows` (the memory store's index of emails is
  that of its users, for emails that never clashed) and `TxHolds`. The last carries the commit
  of `DeleteUser`: the rows the transaction has deleted are its user's, are locked by it alone,
  and contain, kind by kind, those the user had when the call began. One lemma per operation
  then shows that the backend's step is a step of the contract, a stutter or one of the
  deviations. For the strict contract `AloneInv` adds `SQLiteAlone` (of a DeleteUser under way
  on SQLite: it is the only one, its user exists, and of the kinds it has been through it holds
  every row, not just the first ones) and `ClashesAreShared` (no email clashes unless callers
  share them); with these each of the five deviations is impossible or a step of the contract.

Only model-checked:

* all liveness (`StopsEverything`, `CrashRestarts`, `GatePassed`, `StreamsEnd`,
  `NavigatingClears`, `LatestIsServed`, `StopsWhenCancelled`): the proof system handles
  neither fairness with ENABLED nor induction over a recursive definition;
* the four invariants of `Routes` (`MatchExact`, `ResolutionOrder`, `NothingLost`,
  `LinksResolve`), whose matcher and reference are RECURSIVE, so that no theorem can be
  stated there or in `MCBuild`;
* the properties of `FormTokens`: the scanners produce their output with a fold over
  the lexemes, so that what they agree on for every markup is an induction over data.

## 5. Not modelled

* The lexer, the parser and the syntax tree, and of the translator to Go everything but
  the token fields and images: sequential, pure, about text.
* The string builders and escaping writers of generated code; headers other than those
  above, the hydration payload, HTML and JSON text, logs, content types and path checks of
  the static handler, the version endpoint.
* `mcp` and `lsp` are sequential loops over immutable data; `init` and the adapters other
  than the static one write files once. Hashing, mail and sms are cryptography and I/O.
* In modelled parts: panics in producers and cron tasks (the process ends), a `cmd.Start`
  that fails, a Vite process that ends by itself and a directory moved into the watched tree
  in the dev server, scroll and focus in
  the client router, installing the sidecar's npm dependencies, two prerender passes at
  once (no lock keeps them apart, and `AsRendered` would not survive them).

## 6. Plan

What is left of the proofs is what the scanners of `FormTokens` agree on, if a part of it can
be stated without induction over the markup.
