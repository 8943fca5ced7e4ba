------------------------------ MODULE DevServer ------------------------------
(***************************************************************************)
(* `sveltego dev' (packages/sveltego/internal/devserver): a watcher that   *)
(* turns file events into debounced batches, the loop of Run that answers  *)
(* each batch with codegen, a rebuild and a restart of the user's server,  *)
(* the Vite sibling, and the proxy in front of both.                       *)
(*                                                                         *)
(* The sources are a version number; an edit makes the next one and says   *)
(* how far it gets: codegen refuses it, `go build' does, the server never  *)
(* listens, or it is good.  What the server runs is the version codegen    *)
(* read.                                                                   *)
(***************************************************************************)
EXTENDS Integers, Sequences

CONSTANTS
  MaxEdits,    \* bound: edits
  ChanCap,     \* the capacity of Watcher.events (16)
  QueueCap     \* how many events the kernel keeps for the watcher

ASSUME DevAssumption == {MaxEdits, ChanCap, QueueCap} \subseteq Nat \ {0}

VARIABLES
  src,        \* the sources: version, how far it gets, where the next edit lands
  newDir,     \* a directory made since: "none", "unseen" by the watcher, "watched"
  missed,     \* whether an edit has happened that no event told of
  queue,      \* fsnotify's events
  pending,    \* Watcher.Run: whether a batch is being collected
  timer,      \* the debounce timer runs
  watcher,    \* "none", "made", "loop", "emit", "returned"
  batches,    \* how many batches are in the channel
  ctx,        \* whether Run's context is cancelled
  pc,         \* where Run is
  gen,        \* the version codegen last ran on
  verdict,    \* how far that version gets
  child,      \* the Go process: the version it runs, and whether it lives
  cmd,        \* whether the supervisor holds it
  vite,       \* the Vite process: "none", "up", or "left" running by Stop
  proxy,      \* the dev proxy: "down", "up", "rebuilding"
  req         \* whether a request is on its way through the proxy

watchVars == <<queue, pending, timer, watcher, batches>>
runVars == <<pc, gen, verdict, child, cmd, vite, proxy>>
devVars == <<src, newDir, missed, queue, pending, timer, watcher, batches, ctx,
             pc, gen, verdict, child, cmd, vite, proxy, req>>

Verdicts == {"good", "codegen", "build", "silent"}
NoChild == [version |-> 0, is |-> "none"]

DevInit ==
  /\ src = [version |-> 1, gets |-> "good"] /\ newDir = "none" /\ missed = FALSE
  /\ queue = <<>> /\ pending = FALSE /\ timer = FALSE /\ watcher = "none" /\ batches = 0
  /\ ctx = FALSE /\ pc = "codegen0" /\ gen = 0 /\ verdict = "good"
  /\ child = NoChild /\ cmd = FALSE /\ vite = "none" /\ proxy = "down" /\ req = FALSE
-----------------------------------------------------------------------------
(* The developer saves a file.  Before NewWatcher, in a directory not yet  *)
(* watched, or when the kernel's queue is full, no event is delivered.     *)
(* relevant drops the others: .gen/, build/, node_modules/, chmod.         *)
Edit(inNewDir) ==
  /\ src.version <= MaxEdits
  /\ inNewDir => newDir # "none"
  /\ \E gets \in Verdicts : src' = [version |-> src.version + 1, gets |-> gets]
  /\ LET seen == /\ watcher # "none" /\ watcher # "returned" /\ Len(queue) < QueueCap
                 /\ ~inNewDir \/ newDir = "watched"
     IN  /\ queue' = IF seen THEN Append(queue, "file") ELSE queue
         /\ missed' = ~seen
  /\ UNCHANGED <<newDir, pending, timer, watcher, batches, ctx, runVars, req>>

(* A route folder is made. *)
MakeDir ==
  /\ newDir = "none" /\ watcher \notin {"none", "returned"} /\ Len(queue) < QueueCap
  /\ newDir' = "unseen"
  /\ queue' = Append(queue, "dir")
  /\ UNCHANGED <<src, missed, pending, timer, watcher, batches, ctx, runVars, req>>

Cancel ==
  /\ ~ctx /\ ctx' = TRUE
  /\ UNCHANGED <<src, newDir, missed, watchVars, runVars, req>>
-----------------------------------------------------------------------------
(* Watcher.Run, one pass of its select.  A new directory is added to the   *)
(* watch; the files already in it are not looked at.                       *)
OnDir ==
  /\ watcher = "loop" /\ queue # <<>> /\ Head(queue) = "dir"
  /\ queue' = Tail(queue)
  /\ newDir' = "watched"
  /\ UNCHANGED <<src, missed, pending, timer, watcher, batches, ctx, runVars, req>>

(* Mutant: a change during a rebuild is taken to be part of it. *)
OnFileWhenIdle ==
  /\ watcher = "loop" /\ queue # <<>> /\ Head(queue) = "file"
  /\ queue' = Tail(queue)
  /\ pending' = (pending \/ pc = "loop") /\ timer' = (timer \/ pc = "loop")
  /\ UNCHANGED <<src, newDir, missed, watcher, batches, ctx, runVars, req>>

(* A file's event joins the batch and starts the window anew. *)
OnFile ==
  /\ watcher = "loop" /\ queue # <<>> /\ Head(queue) = "file"
  /\ queue' = Tail(queue)
  /\ pending' = TRUE /\ timer' = TRUE
  /\ UNCHANGED <<src, newDir, missed, watcher, batches, ctx, runVars, req>>

(* The window closes: emit takes the batch, then sends it. *)
OnTimer ==
  /\ watcher = "loop" /\ timer
  /\ timer' = FALSE
  /\ pending' = FALSE
  /\ watcher' = IF pending THEN "emit" ELSE "loop"
  /\ UNCHANGED <<src, newDir, missed, queue, batches, ctx, runVars, req>>

(* The send waits for room, or for the context. *)
Emit ==
  /\ watcher = "emit"
  /\ \/ batches < ChanCap /\ batches' = batches + 1
     \/ ctx /\ UNCHANGED batches
  /\ watcher' = "loop"
  /\ UNCHANGED <<src, newDir, missed, queue, pending, timer, ctx, runVars, req>>

(* The context ends: events is closed and nil goes to watchErr. *)
WatcherReturns ==
  /\ watcher = "loop" /\ ctx
  /\ watcher' = "returned"
  /\ UNCHANGED <<src, newDir, missed, queue, pending, timer, batches, ctx, runVars, req>>
-----------------------------------------------------------------------------
(* Run before its loop.  An error returns, through the deferred Stops. *)
InitialCodegen ==
  /\ pc = "codegen0"
  /\ gen' = src.version /\ verdict' = src.gets
  /\ pc' = IF src.gets = "codegen" THEN "unwind" ELSE "setup"
  /\ UNCHANGED <<src, newDir, missed, watchVars, ctx, child, cmd, vite, proxy, req>>

(* viteSupervisor: no process without a config, nor when Vite does not     *)
(* start.  Stop lets go of the process, kills it and waits shutdownGrace   *)
(* for its end; what it kills is the npx, pnpm or bun that was started,    *)
(* and Vite, their child, may go on.                                       *)
ViteStart == vite' \in {"none", "up"}
ViteStop == vite' \in IF vite = "up" THEN {"none", "left"} ELSE {vite}

(* newGoSupervisor, newViteSupervisor, NewWatcher, then Vite: a Vite that  *)
(* does not start is only a warning.                                       *)
Setup ==
  /\ pc = "setup"
  /\ \/ /\ watcher' = "made"
        /\ ViteStart
        /\ pc' = "build0"
     \/ pc' = "unwind" /\ UNCHANGED <<watcher, vite>>
  /\ UNCHANGED <<src, newDir, missed, queue, pending, timer, batches, ctx, gen, verdict,
                 child, cmd, proxy, req>>

(* build: the user's package against the generated files; a cancelled      *)
(* context kills it.                                                       *)
Builds == verdict # "build" /\ ~ctx

Spawned == child' = [version |-> gen, is |-> "starting"] /\ cmd' = TRUE

InitialBuild ==
  /\ pc = "build0"
  /\ \/ Builds /\ Spawned /\ pc' = "dial0"
     \/ ~Builds /\ pc' = "unwind" /\ UNCHANGED <<child, cmd>>
  /\ UNCHANGED <<src, newDir, missed, watchVars, ctx, gen, verdict, vite, proxy, req>>

(* waitDial gives up when the server does not listen in time, or the       *)
(* context ends.                                                           *)
InitialDial ==
  /\ pc = "dial0"
  /\ \/ child.is = "listening" /\ pc' = "proxy"
     \/ (child.is # "listening" \/ ctx) /\ pc' = "unwind"
  /\ UNCHANGED <<src, newDir, missed, watchVars, ctx, gen, verdict, child, cmd, vite, proxy, req>>

StartProxy ==
  /\ pc = "proxy"
  /\ \/ proxy' = "up" /\ pc' = "loop" /\ watcher' = "loop"
     \/ pc' = "unwind" /\ UNCHANGED <<proxy, watcher>>
  /\ UNCHANGED <<src, newDir, missed, queue, pending, timer, batches, ctx, gen, verdict,
                 child, cmd, vite, req>>

(* Run's loop.  Once the watcher has returned its closed channel yields    *)
(* empty batches, beside watchErr and ctx.Done: select picks any.          *)
TakeBatch ==
  /\ pc = "loop"
  /\ batches > 0 \/ watcher = "returned"
  /\ batches' = IF batches > 0 THEN batches - 1 ELSE 0
  /\ pc' = "codegen"
  /\ UNCHANGED <<src, newDir, missed, queue, pending, timer, watcher, ctx, gen, verdict,
                 child, cmd, vite, proxy, req>>

LeaveLoop ==
  /\ pc = "loop" /\ (ctx \/ watcher = "returned")
  /\ pc' = "unwind"
  /\ UNCHANGED <<src, newDir, missed, watchVars, ctx, gen, verdict, child, cmd, vite, proxy, req>>

(* handleChange: codegen; when it fails the old server goes on. *)
Codegen ==
  /\ pc = "codegen"
  /\ gen' = src.version /\ verdict' = src.gets
  /\ \/ src.gets # "codegen" /\ pc' = "stop" /\ proxy' = "rebuilding"
     \/ (src.gets = "codegen" \/ ctx) /\ pc' = "loop" /\ UNCHANGED proxy
  /\ UNCHANGED <<src, newDir, missed, watchVars, ctx, child, cmd, vite, req>>

(* Mutant: only a server that listens is stopped. *)
StopListening ==
  /\ pc = "stop"
  /\ child' = IF child.is = "listening" THEN NoChild ELSE child
  /\ cmd' = FALSE
  /\ pc' = "build"
  /\ UNCHANGED <<src, newDir, missed, watchVars, ctx, gen, verdict, vite, proxy, req>>

(* Reload: stop waits for the process to be gone, whatever it takes. *)
StopChild ==
  /\ pc = "stop"
  /\ child' = NoChild /\ cmd' = FALSE
  /\ pc' = "build"
  /\ UNCHANGED <<src, newDir, missed, watchVars, ctx, gen, verdict, vite, proxy, req>>

(* Reload: build, and start what was built; after a failed build nothing   *)
(* runs.                                                                   *)
Rebuild ==
  /\ pc = "build"
  /\ \/ Builds /\ Spawned /\ pc' = "dial" /\ UNCHANGED proxy
     \/ ~Builds /\ pc' = "loop" /\ proxy' = "up" /\ UNCHANGED <<child, cmd>>
  /\ UNCHANGED <<src, newDir, missed, watchVars, ctx, gen, verdict, vite, req>>

(* Mutant: no limit on the wait. *)
DialForEver ==
  /\ pc = "dial"
  /\ child.is = "listening"
  /\ proxy' = "up" /\ pc' = "loop"
  /\ UNCHANGED <<src, newDir, missed, watchVars, ctx, gen, verdict, child, cmd, vite, req>>

(* Reload: the new server listens, or not in time, or the context ends.    *)
(* Either way the proxy lets requests through again.                       *)
Dial ==
  /\ pc = "dial"
  /\ proxy' = "up" /\ pc' = "loop"
  /\ UNCHANGED <<src, newDir, missed, watchVars, ctx, gen, verdict, child, cmd, vite, req>>

(* Run's deferred calls: the proxy, Vite, the Go server. *)
Unwind ==
  /\ pc = "unwind"
  /\ proxy' = "down" /\ ViteStop
  /\ child' = IF cmd THEN NoChild ELSE child
  /\ cmd' = FALSE
  /\ pc' = "returned"
  /\ UNCHANGED <<src, newDir, missed, watchVars, ctx, gen, verdict, req>>
-----------------------------------------------------------------------------
(* The user's server: it listens, unless this version never does; it may   *)
(* die at any time, and does when the context that started it is           *)
(* cancelled.                                                              *)
ChildListens ==
  /\ child.is = "starting" /\ verdict # "silent"
  /\ child' = [child EXCEPT !.is = "listening"]
  /\ UNCHANGED <<src, newDir, missed, watchVars, ctx, pc, gen, verdict, cmd, vite, proxy, req>>

ChildDies ==
  /\ child.is \in {"starting", "listening"}
  /\ child' = [child EXCEPT !.is = "dead"]
  /\ UNCHANGED <<src, newDir, missed, watchVars, ctx, pc, gen, verdict, cmd, vite, proxy, req>>

(* proxy.ServeHTTP: the flag is read first, the upstream is dialled later. *)
Arrive ==
  /\ ~req /\ proxy = "up"    \* while rebuilding the answer is 503 at once
  /\ req' = TRUE
  /\ UNCHANGED <<src, newDir, missed, watchVars, ctx, runVars>>

Forward ==
  /\ req /\ req' = FALSE      \* 502 when no server listens by then
  /\ UNCHANGED <<src, newDir, missed, watchVars, ctx, runVars>>

WatcherStep == OnDir \/ OnFile \/ OnTimer \/ Emit \/ WatcherReturns
RunStep ==
  \/ InitialCodegen \/ Setup \/ InitialBuild \/ InitialDial \/ StartProxy
  \/ TakeBatch \/ LeaveLoop \/ Codegen \/ StopChild \/ Rebuild \/ Dial \/ Unwind
Outside == MakeDir \/ Cancel \/ ChildListens \/ ChildDies \/ Arrive \/ Forward
           \/ \E inNewDir \in BOOLEAN : Edit(inNewDir)

DevNext == WatcherStep \/ RunStep \/ Outside

(* The two goroutines run; a server that means to listen does; select is   *)
(* random, so it does not pass over a ready case for ever.                 *)
DevFairness ==
  /\ WF_devVars(WatcherStep) /\ SF_devVars(WatcherReturns)
  /\ WF_devVars(RunStep) /\ SF_devVars(LeaveLoop)
  /\ WF_devVars(ChildListens)

DevSpec == DevInit /\ [][DevNext]_devVars /\ DevFairness
-----------------------------------------------------------------------------
(* Every edit the watcher was told of is acted on: once the developer      *)
(* pauses, codegen has run on the last version, and if that version        *)
(* builds, the server was restarted with it, unless the dev server was     *)
(* stopped or could not start (Watcher.Run, handleChange, Reload).         *)
LatestIsServed ==
  <>[](\/ ctx \/ missed \/ pc = "returned"
       \/ gen = src.version /\ (src.gets \in {"good", "silent"} => child.version = src.version))

(* The supervisor holds the user's server until it is gone: two servers    *)
(* never run at once, and neither the server nor the proxy outlives Run    *)
(* (Reload, goSupervisor.stop, the deferred Stops).  Vite may: its Stop    *)
(* gives up after shutdownGrace, and kills the package manager's process.  *)
ChildrenHeld ==
  /\ child.is # "none" => cmd
  /\ pc = "returned" => child.is = "none" /\ proxy = "down"
  /\ pc \in {"build", "codegen0", "setup", "build0"} => child.is = "none"

(* What Run's own variables hold. *)
RunTypeOK ==
  /\ src \in [version : Nat, gets : Verdicts] /\ gen \in Nat /\ verdict \in Verdicts
  /\ child \in [version : Nat, is : {"none", "starting", "listening", "dead"}]
  /\ vite \in {"none", "up", "left"} /\ proxy \in {"down", "up", "rebuilding"}
  /\ pc \in {"codegen0", "setup", "build0", "dial0", "proxy", "loop", "codegen", "stop",
             "build", "dial", "unwind", "returned"}

(* A cancelled dev server stops in the end, also when the cancellation     *)
(* finds it in the middle of a change or with batches waiting.             *)
StopsWhenCancelled == ctx ~> (pc = "returned")
=============================================================================
