-------------------------- MODULE ServerLifecycle ---------------------------
(***************************************************************************)
(* The life of a sveltego server (packages/sveltego/server/server.go):     *)
(* the Init hook and the gate that holds requests back while it runs, the  *)
(* listener, the cron goroutines, the fallback sidecar and Shutdown.       *)
(*                                                                         *)
(* Init calls are numbered; call i owns the channel i that startInit       *)
(* makes.  Channel 0 is the one New closes.  The main goroutine makes the  *)
(* calls one after the other; an asynchronous Init, the requests and       *)
(* Shutdown run concurrently with it.                                      *)
(***************************************************************************)
EXTENDS Integers, FiniteSets

CONSTANTS
  Requests,    \* request goroutines
  MaxInits,    \* bound on the calls of Init, RunInitAsync and ListenAndServe
  HasCron,     \* Config.CronTasks is not empty
  HasSidecar   \* the registry has fallback routes

ASSUME LifecycleAssumption ==
  /\ MaxInits \in Nat \ {0}
  /\ HasCron \in BOOLEAN
  /\ HasSidecar \in BOOLEAN

VARIABLES
  initState,   \* Server.initState
  initDone,    \* Server.initDone
  closed,      \* the closed channels
  calls,       \* Init calls made so far
  kind,        \* kind[i]: which function made call i
  initPC,      \* where each Init call is
  initOK,      \* history: the calls that stored initReady
  pendingBy,   \* history: the last call that stored initPending
  main,        \* where the main goroutine is
  httpSrv,     \* Server.httpSrv, by the ListenAndServe call that made it
  listening,   \* the call whose http.Server is listening
  ownFront,    \* the application serves s on a listener of its own
  closedSrv,   \* the http.Servers that were shut down
  cronCancel,  \* Server.cronCancel, by the Init call that set it
  cronStopped, \* the Init calls whose cron context is cancelled
  cron,        \* the Init calls whose cron goroutines run
  supervisor,  \* Server.fallbackSupervisor, by the Init call that set it
  sidecars,    \* the Init calls whose sidecar runs and was not told to stop
  sd,          \* Shutdown: where it is and what it read under mu
  rpc,         \* where each request is in ServeHTTP
  rch,         \* the channel it waits on
  held         \* history: the call whose initPending made it wait

initVars == <<initState, initDone, closed, calls, kind, initPC, initOK, pendingBy>>
netVars == <<httpSrv, listening, ownFront, closedSrv>>
bgVars == <<cronCancel, cronStopped, cron, supervisor, sidecars>>
reqVars == <<rpc, rch, held>>
vars == <<initVars, main, netVars, bgVars, sd, reqVars>>

Inits == 1..MaxInits
Chans == 0..MaxInits
Kinds == {"sync", "async", "listen"}
InitPhases == {"none", "start", "swapped", "hook", "sidecar", "stash", "store",
               "cron", "launch", "close", "returned"}
RequestPhases == {"none", "gate", "grab", "wait", "recheck", "handle",
                  "handled", "static", "s500", "s503", "gone"}
ShutdownPhases == {"no", "cron", "sidecar", "listener", "drain", "done"}

InitTypeOK ==
  /\ initState \in {"ready", "pending", "failed"}
  /\ initDone \in Chans
  /\ closed \subseteq Chans
  /\ calls \in 0..MaxInits
  /\ kind \in [Inits -> Kinds]
  /\ initPC \in [Inits -> InitPhases]
  /\ initOK \subseteq Inits
  /\ pendingBy \in Chans
  /\ main \in {"idle", "init", "bind", "listen", "serve"}

ServeTypeOK ==
  /\ httpSrv \in Chans /\ listening \in Chans /\ ownFront \in BOOLEAN
  /\ closedSrv \subseteq Chans
  /\ rpc \in [Requests -> RequestPhases]
  /\ rch \in [Requests -> Chans]
  /\ held \in [Requests -> Chans]

BackgroundTypeOK ==
  /\ cronCancel \in Chans /\ cronStopped \subseteq Inits /\ cron \subseteq Inits
  /\ supervisor \in Chans /\ sidecars \subseteq Inits
  /\ sd \in [at : ShutdownPhases, srv : Chans, cancel : Chans, sup : Chans,
             settled : BOOLEAN]

TypeOK == InitTypeOK /\ ServeTypeOK /\ BackgroundTypeOK

(* New: the server starts ready, with a channel that is already closed. *)
Init ==
  /\ initState = "ready"
  /\ initDone = 0
  /\ closed = {0}
  /\ calls = 0
  /\ kind = [i \in Inits |-> "sync"]
  /\ initPC = [i \in Inits |-> "none"]
  /\ initOK = {}
  /\ pendingBy = 0
  /\ main = "idle"
  /\ httpSrv = 0 /\ listening = 0 /\ ownFront = FALSE /\ closedSrv = {}
  /\ cronCancel = 0 /\ cronStopped = {} /\ cron = {}
  /\ supervisor = 0 /\ sidecars = {}
  /\ sd = [at |-> "no", srv |-> 0, cancel |-> 0, sup |-> 0,
           settled |-> FALSE]
  /\ rpc = [r \in Requests |-> "none"]
  /\ rch = [r \in Requests |-> 0]
  /\ held = [r \in Requests |-> 0]

Step(i, from, to) ==
  /\ initPC[i] = from
  /\ initPC' = [initPC EXCEPT ![i] = to]

-----------------------------------------------------------------------------
(* The main goroutine.                                                     *)

(* Init, RunInitAsync or ListenAndServe is called. *)
Call(k) ==
  /\ main = "idle" /\ calls < MaxInits
  /\ calls' = calls + 1
  /\ kind' = [kind EXCEPT ![calls + 1] = k]
  /\ initPC' = [initPC EXCEPT ![calls + 1] = "start"]
  /\ main' = "init"
  /\ UNCHANGED <<initState, initDone, closed, initOK, pendingBy, netVars, bgVars, sd, reqVars>>

(* Where the main goroutine goes after startInit: on through Init, back     *)
(* from RunInitAsync, or on to the listener.                                *)
MainAfterStart(i) ==
  CASE kind[i] = "sync" -> "init"
    [] kind[i] = "async" -> "idle"
    [] kind[i] = "listen" -> "bind"

(* startInit: the fresh channel first, then the pending state.  (In         *)
(* StartInitStateFirst the two writes are swapped.)                         *)
StartInitStateFirst(i) ==
  /\ \/ /\ Step(i, "start", "swapped")
        /\ initState' = "pending"
        /\ pendingBy' = i
        /\ UNCHANGED <<initDone, main>>
     \/ /\ Step(i, "swapped", "hook")
        /\ initDone' = i
        /\ main' = MainAfterStart(i)
        /\ UNCHANGED <<initState, pendingBy>>
  /\ UNCHANGED <<closed, calls, kind, initOK, netVars, bgVars, sd, reqVars>>

StartInit(i) ==
  /\ \/ /\ Step(i, "start", "swapped")
        /\ initDone' = i
        /\ UNCHANGED <<initState, pendingBy, main>>
     \/ /\ Step(i, "swapped", "hook")
        /\ initState' = "pending"
        /\ pendingBy' = i
        /\ main' = MainAfterStart(i)
        /\ UNCHANGED initDone
  /\ UNCHANGED <<closed, calls, kind, initOK, netVars, bgVars, sd, reqVars>>

(* Init returns to the main goroutine. *)
SyncReturn ==
  /\ main = "init" /\ calls > 0 /\ kind[calls] = "sync" /\ initPC[calls] = "returned"
  /\ main' = "idle"
  /\ UNCHANGED <<initVars, netVars, bgVars, sd, reqVars>>

(* ListenAndServe stores its http.Server under mu, then listens: an error   *)
(* when the address is taken, ErrServerClosed after Shutdown of it.         *)
BindServer ==
  /\ main = "bind"
  /\ httpSrv' = calls
  /\ main' = "listen"
  /\ UNCHANGED <<initVars, listening, ownFront, closedSrv, bgVars, sd, reqVars>>

Listen ==
  /\ main = "listen" /\ calls \notin closedSrv
  /\ listening' = calls
  /\ main' = "serve"
  /\ UNCHANGED <<initVars, httpSrv, ownFront, closedSrv, bgVars, sd, reqVars>>

ListenFails ==
  /\ main = "listen"
  /\ main' = "idle"
  /\ UNCHANGED <<initVars, netVars, bgVars, sd, reqVars>>

(* Serve returns because the server was shut down. *)
ServeReturns ==
  /\ main = "serve" /\ listening = 0
  /\ main' = "idle"
  /\ UNCHANGED <<initVars, netVars, bgVars, sd, reqVars>>

(* The application serves s itself, after a call of Init or RunInitAsync. *)
ServeOwn ==
  /\ main = "idle" /\ calls > 0 /\ ~ownFront
  /\ ownFront' = TRUE
  /\ UNCHANGED <<initVars, main, httpSrv, listening, closedSrv, bgVars, sd, reqVars>>

-----------------------------------------------------------------------------
(* The rest of Init and runInitAsync.                                      *)

(* The hook, or the sidecar's boot, fails: store initFailed, then close. *)
FailNoClose(i, from) ==
  /\ Step(i, from, "returned")
  /\ initState' = "failed"
  /\ UNCHANGED <<initDone, closed, calls, kind, initOK, pendingBy, main, netVars, bgVars, sd, reqVars>>

Fail(i, from) ==
  /\ Step(i, from, "close")
  /\ initState' = "failed"
  /\ UNCHANGED <<initDone, closed, calls, kind, initOK, pendingBy, main, netVars, bgVars, sd, reqVars>>

HookFails(i) == Fail(i, "hook")
SidecarFails(i) == HasSidecar /\ Fail(i, "sidecar")

HookReturns(i) ==
  /\ Step(i, "hook", IF HasSidecar THEN "sidecar" ELSE "store")
  /\ UNCHANGED <<initState, initDone, closed, calls, kind, initOK, pendingBy, main, netVars, bgVars, sd, reqVars>>

(* StartFallbackSidecar: the process runs, then its supervisor is stashed   *)
(* under mu.                                                                *)
SidecarStarts(i) ==
  /\ Step(i, "sidecar", "stash")
  /\ sidecars' = sidecars \cup {i}
  /\ UNCHANGED <<initState, initDone, closed, calls, kind, initOK, pendingBy, main, netVars,
                 cronCancel, cronStopped, cron, supervisor, sd, reqVars>>

StashSupervisor(i) ==
  /\ Step(i, "stash", "store")
  /\ supervisor' = i
  /\ UNCHANGED <<initState, initDone, closed, calls, kind, initOK, pendingBy, main, netVars,
                 cronCancel, cronStopped, cron, sidecars, sd, reqVars>>

(* initReady is stored.  Init closes the channel next, runInitAsync starts  *)
(* cron first.                                                              *)
StoreReady(i) ==
  /\ Step(i, "store", IF kind[i] = "sync" THEN "close" ELSE "cron")
  /\ initState' = "ready"
  /\ initOK' = initOK \cup {i}
  /\ UNCHANGED <<initDone, closed, calls, kind, pendingBy, main, netVars, bgVars, sd, reqVars>>

CloseDone(i) ==
  /\ Step(i, "close", IF kind[i] = "sync" /\ i \in initOK THEN "cron" ELSE "returned")
  /\ closed' = closed \cup {i}
  /\ UNCHANGED <<initState, initDone, calls, kind, initOK, pendingBy, main, netVars, bgVars, sd, reqVars>>

AfterCron(i) == IF kind[i] = "sync" THEN "returned" ELSE "close"

(* startCron: nothing without tasks; otherwise the cancel function is       *)
(* stored under mu and the goroutines are launched.                         *)
StartCron(i) ==
  /\ \/ /\ HasCron
        /\ Step(i, "cron", "launch")
        /\ cronCancel' = i
     \/ /\ ~HasCron
        /\ Step(i, "cron", AfterCron(i))
        /\ UNCHANGED cronCancel
  /\ UNCHANGED <<initState, initDone, closed, calls, kind, initOK, pendingBy, main, netVars,
                 cronStopped, cron, supervisor, sidecars, sd, reqVars>>

LaunchCron(i) ==
  /\ Step(i, "launch", AfterCron(i))
  /\ cron' = cron \cup {i}
  /\ UNCHANGED <<initState, initDone, closed, calls, kind, initOK, pendingBy, main, netVars,
                 cronCancel, cronStopped, supervisor, sidecars, sd, reqVars>>

(* runCronLoop sees its context done. *)
CronExits(i) ==
  /\ i \in cron /\ i \in cronStopped
  /\ cron' = cron \ {i}
  /\ UNCHANGED <<initVars, main, netVars, cronCancel, cronStopped, supervisor,
                 sidecars, sd, reqVars>>
-----------------------------------------------------------------------------
(* Shutdown.                                                               *)

(* Under mu: read the server, the cron cancel function and the supervisor.  *)
(* settled is history: no Init call is under way and there was only one.    *)
ShutdownBegins ==
  /\ sd.at = "no" /\ calls > 0
  /\ sd' = [at |-> "cron", srv |-> httpSrv, cancel |-> cronCancel,
            sup |-> supervisor,
            settled |-> calls = 1 /\ initPC[1] = "returned"]
  /\ UNCHANGED <<initVars, main, netVars, bgVars, reqVars>>

(* Shutdown has returned and its locals are gone. *)
Finished == [sd EXCEPT !.at = "done", !.srv = 0, !.cancel = 0, !.sup = 0]

CancelCron ==
  /\ sd.at = "cron"
  /\ cronStopped' = IF sd.cancel = 0 THEN cronStopped ELSE cronStopped \cup {sd.cancel}
  /\ sd' = [sd EXCEPT !.at = "sidecar"]
  /\ UNCHANGED <<initVars, main, netVars, cronCancel, cron, supervisor, sidecars, reqVars>>

StopSidecarSkipped ==
  /\ sd.at = "sidecar"
  /\ sd' = IF sd.srv = 0 THEN Finished ELSE [sd EXCEPT !.at = "listener"]
  /\ UNCHANGED <<initVars, main, netVars, bgVars, reqVars>>

StopSidecar ==
  /\ sd.at = "sidecar"
  /\ sidecars' = sidecars \ {sd.sup}
  /\ sd' = IF sd.srv = 0 THEN Finished ELSE [sd EXCEPT !.at = "listener"]
  /\ UNCHANGED <<initVars, main, netVars, cronCancel, cronStopped, cron, supervisor, reqVars>>

(* http.Server.Shutdown: close the listener, then wait for the requests it  *)
(* accepted, or for ctx.                                                    *)
CloseListener ==
  /\ sd.at = "listener"
  /\ closedSrv' = closedSrv \cup {sd.srv}
  /\ listening' = IF listening = sd.srv THEN 0 ELSE listening
  /\ sd' = [sd EXCEPT !.at = "drain"]
  /\ UNCHANGED <<initVars, main, httpSrv, ownFront, bgVars, reqVars>>

Answered(r) == rpc[r] \in {"handled", "static", "s500", "s503", "gone"}

ShutdownReturns ==
  /\ sd.at = "drain"
  /\ sd' = Finished
  /\ UNCHANGED <<initVars, main, netVars, bgVars, reqVars>>

-----------------------------------------------------------------------------
(* Requests: ServeHTTP.                                                    *)

Move(r, from, to) ==
  /\ rpc[r] = from
  /\ rpc' = [rpc EXCEPT ![r] = to]
  /\ UNCHANGED <<initVars, main, netVars, bgVars, sd>>

Arrive(r) ==
  /\ ownFront \/ listening # 0
  /\ Move(r, "none", "gate")
  /\ UNCHANGED <<rch, held>>

(* serveVersion or servePrerendered answers before the gate. *)
ServeStatic(r) == Move(r, "gate", "static") /\ UNCHANGED <<rch, held>>

(* The switch on initState. *)
Gate(r) ==
  /\ Move(r, "gate", CASE initState = "ready" -> "handle"
                       [] initState = "failed" -> "s500"
                       [] initState = "pending" -> "grab")
  /\ held' = [held EXCEPT ![r] = IF initState = "pending" THEN pendingBy ELSE 0]
  /\ UNCHANGED rch

(* initDoneCh. *)
GrabChan(r) ==
  /\ Move(r, "grab", "wait")
  /\ rch' = [rch EXCEPT ![r] = initDone]
  /\ UNCHANGED held

(* The wait is over; the local variable done goes out of scope. *)
Release(r) == rch' = [rch EXCEPT ![r] = 0]
Forget(r) == held' = [held EXCEPT ![r] = 0]

(* The select: the channel closes, InitTimeout elapses or the client leaves. *)
WaitDone(r) ==
  /\ rch[r] \in closed
  /\ Move(r, "wait", "recheck")
  /\ Release(r)
  /\ UNCHANGED held

WaitTimeoutAfterDone(r) ==
  rch[r] \in closed /\ Move(r, "wait", "s503") /\ Release(r) /\ Forget(r)

WaitTimeout(r) == Move(r, "wait", "s503") /\ Release(r) /\ Forget(r)

ClientGone(r) == Move(r, "wait", "gone") /\ Release(r) /\ Forget(r)

(* Init is over: 500 when it failed, the pipeline otherwise. *)
RecheckIgnored(r) == Move(r, "recheck", "handle") /\ Forget(r) /\ UNCHANGED rch

Recheck(r) ==
  /\ Move(r, "recheck", IF initState = "failed" THEN "s500" ELSE "handle")
  /\ Forget(r)
  /\ UNCHANGED rch

(* The pipeline answers. *)
HandleReturns(r) == Move(r, "handle", "handled") /\ UNCHANGED <<rch, held>>

-----------------------------------------------------------------------------
InitStep(i) ==
  \/ StartInit(i)
  \/ HookReturns(i) \/ HookFails(i)
  \/ SidecarStarts(i) \/ SidecarFails(i) \/ StashSupervisor(i)
  \/ StoreReady(i) \/ CloseDone(i)
  \/ StartCron(i) \/ LaunchCron(i) \/ CronExits(i)

MainStep == SyncReturn \/ BindServer \/ Listen \/ ListenFails \/ ServeReturns \/ ServeOwn

ShutdownStep ==
  \/ ShutdownBegins \/ CancelCron \/ StopSidecar \/ CloseListener \/ ShutdownReturns

(* A request goroutine's own steps; the pipeline and the client are not     *)
(* among them.                                                              *)
GateStep(r) ==
  \/ ServeStatic(r) \/ Gate(r) \/ GrabChan(r)
  \/ WaitDone(r) \/ WaitTimeout(r) \/ Recheck(r)

Next ==
  \/ \E k \in Kinds : Call(k)
  \/ \E i \in Inits : InitStep(i)
  \/ MainStep
  \/ ShutdownStep
  \/ \E r \in Requests : Arrive(r) \/ GateStep(r) \/ ClientGone(r) \/ HandleReturns(r)

Spec == Init /\ [][Next]_vars

(* A request goroutine that can run does, and its timer fires.  Nothing is  *)
(* assumed of the Init hook, which may hang.                                *)
FairSpec == Spec /\ \A r \in Requests : WF_vars(GateStep(r))

-----------------------------------------------------------------------------
(* No request reaches the pipeline before Init is over, and with one Init   *)
(* call none does unless it succeeded: the stores before close(done) and    *)
(* the second look at initState together.                                   *)
InitGate ==
  \A r \in Requests :
    rpc[r] \in {"handle", "handled"} =>
      /\ \E i \in Inits : initPC[i] \in {"close", "cron", "launch", "returned"}
      /\ calls = 1 => 1 \in initOK

(* A request waits only on a channel that is closed or whose Init call is   *)
(* still going to close it, so InitTimeout is never what ends the wait once *)
(* Init is over.                                                            *)
NoStrandedWaiter ==
  \A r \in Requests :
    rpc[r] = "wait" => rch[r] \in closed \/ initPC[rch[r]] # "returned"

(* A request the gate held back goes on only when the Init call whose       *)
(* initPending it read, or a newer one, is over: startInit swaps the        *)
(* channel before it stores the state, so that the request cannot pick up   *)
(* the closed channel of an earlier Init.                                   *)
HeldUntilOver ==
  \A r \in Requests :
    rpc[r] = "recheck" =>
      \E i \in Inits : /\ i >= held[r]
                       /\ initPC[i] \in {"close", "cron", "launch", "returned"}

(* A waiting request waits for an Init that is going to end, and goes on    *)
(* only when it has: neither stranded on a channel nobody closes nor let    *)
(* through by an older Init (startInit, ServeHTTP).                         *)
WaitsForItsInit == HeldUntilOver /\ NoStrandedWaiter

(* A Shutdown that begins after the only Init call is over leaves no cron   *)
(* goroutine that was not told to stop, and no sidecar running.             *)
ShutdownStopsBackground ==
  sd.at = "done" /\ sd.settled /\ calls = 1 => cron \subseteq cronStopped /\ sidecars = {}

(* Every request that arrives gets through the gate, to the pipeline or to  *)
(* a fallback answer, even when the Init hook never returns.                *)
GatePassed ==
  \A r \in Requests : rpc[r] = "gate" ~> (rpc[r] = "handle" \/ Answered(r))

-----------------------------------------------------------------------------
(* What makes InitGate and NoStrandedWaiter inductive.                     *)

(* Call i is past startInit; call i has stored how it ended. *)
Started(i) == initPC[i] \notin {"none", "start", "swapped"}
Resolved(i) == initPC[i] \in {"close", "cron", "launch", "returned"}

(* The main goroutine makes one call at a time. *)
CallsInOrder ==
  /\ \A i \in Inits : initPC[i] = "none" <=> i > calls
  /\ main # "init" => \A i \in Inits : i <= calls => Started(i)
  /\ \A i \in Inits : i < calls => Started(i)
  /\ (main = "init" /\ Started(calls)) => kind[calls] = "sync"
  /\ main \in {"bind", "listen", "serve"} => calls > 0
  /\ (calls = 0) => (initOK = {} /\ main = "idle")

(* What initState and the channels say about the Init calls. *)
CallTellsTruth(i) ==
  /\ i \in initOK => Resolved(i)
  /\ (calls = 1 /\ Resolved(i) /\ i \notin initOK) => initState = "failed"
  /\ initPC[i] \in {"cron", "launch"} => i \in initOK
  /\ i \in closed => Resolved(i)
  /\ initPC[i] = "returned" => i \in closed
  /\ (kind[i] = "sync" /\ initPC[i] \in {"cron", "launch"}) => i \in closed

StateTellsTruth ==
  /\ \A i \in Inits : CallTellsTruth(i)
  /\ (initState = "ready" /\ \E i \in Inits : Started(i)) => initOK # {}
  /\ 0 \in closed
  /\ \A i \in Inits : initPC[i] \notin {"none", "start"} => i <= initDone
  /\ pendingBy # 0 => Started(pendingBy)
  /\ initDone # 0 => initPC[initDone] \notin {"none", "start"}

(* Requests arrive only after startInit, and what they have seen since. *)
RequestsSeeInit ==
  /\ (ownFront \/ listening # 0) => \E i \in Inits : Started(i)
  /\ \A r \in Requests :
       /\ rpc[r] # "none" => \E i \in Inits : Started(i)
       /\ rpc[r] = "grab" => held[r] <= initDone
       /\ rpc[r] = "wait" => rch[r] # 0 /\ held[r] <= rch[r]

GateInv == CallsInOrder /\ StateTellsTruth /\ RequestsSeeInit /\ HeldUntilOver /\ InitGate

(* What makes ShutdownStopsBackground inductive: whatever runs in the       *)
(* background was started by a call, and Server can reach what stops it.    *)
BackgroundReachable ==
  \A i \in Inits :
     /\ (i \in cron \/ i \in sidecars \/ i = cronCancel \/ i = supervisor) => initPC[i] # "none"
     /\ (i \in cron \/ initPC[i] = "launch") => cronCancel # 0
     /\ i \in sidecars => initPC[i] = "stash" \/ supervisor # 0

(* A Shutdown that found one call, over, keeps what it read, and what it    *)
(* has stopped stays stopped.                                               *)
SettledShutdown ==
  /\ sd.settled => calls > 0 /\ sd.at # "no"
  /\ (sd.settled /\ calls = 1) =>
       /\ initPC[1] = "returned"
       /\ sd.at = "cron" => sd.cancel = cronCancel
       /\ sd.at \in {"cron", "sidecar"} => sd.sup = supervisor
       /\ sd.at \in {"sidecar", "listener", "drain", "done"} => cron \subseteq cronStopped
       /\ sd.at \in {"listener", "drain", "done"} => sidecars = {}
=============================================================================
