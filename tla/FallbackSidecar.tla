-------------------------- MODULE FallbackSidecar ---------------------------
(***************************************************************************)
(* The Node sidecar of the SSR fallback: Start and the Supervisor          *)
(* (fallback/sidecar.go), the boot sequence that wires the client to it    *)
(* (server/ssr_fallback.go) and the dispatch of a request through the      *)
(* registry (fallback/registry.go).                                        *)
(*                                                                         *)
(* Every call of Start that gets as far as cmd.Start creates one process;  *)
(* processes are numbered in that order, and the number stands for the     *)
(* port the process listens on, so for its endpoint too.                   *)
(***************************************************************************)
EXTENDS Integers, FiniteSets

CONSTANTS
  MaxRestarts,  \* SidecarOptions.MaxRestarts
  BackoffCap    \* maxBackoff of loop, in seconds

ASSUME SidecarAssumption == MaxRestarts \in Int /\ BackoffCap \in Nat \ {0}

(* NewSupervisor: a budget that is not positive becomes 3. *)
MaxRetry == IF MaxRestarts <= 0 THEN 3 ELSE MaxRestarts

VARIABLES
  proc,       \* the processes: proc[p] for each p in Procs
  spawned,    \* how many processes were created
  ready,      \* the processes whose ready line scanStderr delivered
  badReady,   \* those whose ready line did not parse (errCh)
  cancelled,  \* the processes whose own context was cancelled
  ctxDone,    \* the supervisor's context is cancelled
  sup,        \* where Run and then loop are
  current,    \* Supervisor.current, 0 for nil
  restarts,   \* loop's restart count
  backoff,    \* loop's backoff, in seconds
  boot,       \* where StartFallbackSidecar is
  client,     \* the endpoint of the registry's client, 0 when not configured
  stop,       \* where Supervisor.Stop is
  outcome     \* how the last dispatched request ended

procVars == <<proc, spawned, ready, badReady>>
loopVars == <<sup, current, restarts, backoff>>
vars == <<proc, spawned, ready, badReady, cancelled, ctxDone, sup, current,
          restarts, backoff, boot, client, stop, outcome>>

(* One process for the first start, one per restart, and one to spare so    *)
(* that going over the budget would show.                                   *)
Procs == 1..(MaxRetry + 2)

TypeOK ==
  /\ proc \in [Procs -> {"none", "booting", "serving", "exited"}]
  /\ spawned \in 0..(MaxRetry + 2)
  /\ ready \subseteq Procs
  /\ badReady \subseteq Procs
  /\ cancelled \subseteq Procs
  /\ ctxDone \in BOOLEAN
  /\ sup \in {"idle", "start", "await", "drain", "wait", "backoff", "ended"}
  /\ current \in Procs \cup {0}
  /\ restarts \in 0..(MaxRetry + 1)
  /\ backoff \in 1..BackoffCap
  /\ boot \in {"none", "running", "configure", "up", "failed", "skipped"}
  /\ client \in Procs \cup {0}
  /\ stop \in {"no", "killed", "done"}
  /\ outcome \in {"none", "ok", "unconfigured", "refused"}

Init ==
  /\ proc = [p \in Procs |-> "none"]
  /\ spawned = 0
  /\ ready = {}
  /\ badReady = {}
  /\ cancelled = {}
  /\ ctxDone = FALSE
  /\ sup = "idle"
  /\ current = 0
  /\ restarts = 0
  /\ backoff = 1
  /\ boot = "none"
  /\ client = 0
  /\ stop = "no"
  /\ outcome = "none"

Alive(p) == proc[p] \in {"booting", "serving"}

(* exec.CommandContext kills a process when its context ends; that context  *)
(* is a child of the supervisor's.                                          *)
KilledNotInherited(p) == p \in cancelled
Killed(p) == p \in cancelled \/ ctxDone

-----------------------------------------------------------------------------
(* The processes.                                                          *)

(* The process listens and prints the ready line, scanStderr delivers it. *)
ProcReady(p) ==
  /\ proc[p] = "booting" /\ p \notin badReady
  /\ proc' = [proc EXCEPT ![p] = "serving"]
  /\ ready' = ready \cup {p}
  /\ UNCHANGED <<spawned, badReady, cancelled, ctxDone, loopVars, boot, client, stop, outcome>>

(* The ready line does not parse, or reading stderr fails. *)
ProcBadReady(p) ==
  /\ proc[p] = "booting" /\ p \notin badReady
  /\ badReady' = badReady \cup {p}
  /\ UNCHANGED <<proc, spawned, ready, cancelled, ctxDone, loopVars, boot, client, stop, outcome>>

(* The process crashes, or dies because its context was cancelled. *)
ProcExit(p) ==
  /\ Alive(p)
  /\ proc' = [proc EXCEPT ![p] = "exited"]
  /\ UNCHANGED <<spawned, ready, badReady, cancelled, ctxDone, loopVars, boot, client, stop, outcome>>

-----------------------------------------------------------------------------
(* Start, called by Run at boot and by loop on a restart.                  *)

(* StartFallbackSidecar: no registered route means nothing to do; a missing *)
(* sidecar tree or node binary is an error; otherwise Run calls Start.      *)
BootSkips ==
  /\ boot = "none"
  /\ boot' \in {"skipped", "failed"}
  /\ UNCHANGED <<procVars, cancelled, ctxDone, loopVars, client, stop, outcome>>

BootRuns ==
  /\ boot = "none"
  /\ boot' = "running"
  /\ sup' = "start"
  /\ UNCHANGED <<procVars, cancelled, ctxDone, current, restarts, backoff, client, stop, outcome>>

(* Start returns an error: Run cancels its context and gives up, loop goes  *)
(* round again, with current still the sidecar that died.                   *)
StartError ==
  IF boot = "running"
  THEN /\ sup' = "ended"
       /\ boot' = "failed"
       /\ ctxDone' = TRUE
  ELSE /\ sup' = "wait"
       /\ UNCHANGED <<boot, ctxDone>>

(* cmd.Start succeeds; with a context that is already done it does not. *)
Spawn ==
  /\ sup = "start" /\ ~ctxDone
  /\ spawned' = spawned + 1
  /\ proc' = [proc EXCEPT ![spawned + 1] = "booting"]
  /\ sup' = "await"
  /\ UNCHANGED <<ready, badReady, cancelled, ctxDone, current, restarts, backoff, boot, client, stop, outcome>>

(* A check before cmd.Start fails, or cmd.Start does. *)
SpawnFails ==
  /\ sup = "start"
  /\ StartError
  /\ UNCHANGED <<procVars, cancelled, current, restarts, backoff, client, stop, outcome>>

(* The select of Start.  Several cases can be ready at once: a process that *)
(* announced its port and died may still be returned as started.            *)
AwaitEndpoint ==
  /\ sup = "await" /\ spawned \in ready
  /\ current' = spawned
  /\ sup' = "wait"
  /\ \/ /\ boot = "running"
        /\ boot' = "configure"
        /\ UNCHANGED backoff
     \/ /\ boot # "running"
        /\ backoff' = 1
        /\ UNCHANGED boot
  /\ UNCHANGED <<procVars, cancelled, ctxDone, restarts, client, stop, outcome>>

(* A bad ready line or sidecarReadyTimeout: cancel the process and wait for *)
(* it to be reaped.                                                         *)
AwaitGiveUpNoReap ==
  /\ sup = "await"
  /\ cancelled' = cancelled \cup {spawned}
  /\ StartError
  /\ UNCHANGED <<procVars, current, restarts, backoff, client, stop, outcome>>

AwaitGiveUp ==
  /\ sup = "await"
  /\ cancelled' = cancelled \cup {spawned}
  /\ sup' = "drain"
  /\ UNCHANGED <<procVars, ctxDone, current, restarts, backoff, boot, client, stop, outcome>>

Drain ==
  /\ sup = "drain" /\ proc[spawned] = "exited"
  /\ StartError
  /\ UNCHANGED <<procVars, cancelled, current, restarts, backoff, client, stop, outcome>>

(* The process exits before Start saw it ready. *)
AwaitExit ==
  /\ sup = "await" /\ proc[spawned] = "exited"
  /\ cancelled' = cancelled \cup {spawned}
  /\ StartError
  /\ UNCHANGED <<procVars, current, restarts, backoff, client, stop, outcome>>

-----------------------------------------------------------------------------
(* The restart loop.                                                       *)

(* cur.Wait returns: stop when the context is done or the budget is spent,  *)
(* otherwise count a restart and back off.                                  *)
BudgetLeft == restarts < MaxRetry

WaitReturnsWithin(budget) ==
  /\ sup = "wait" /\ proc[current] = "exited"
  /\ \/ /\ ctxDone \/ restarts >= budget
        /\ sup' = "ended"
        /\ UNCHANGED restarts
     \/ /\ ~ctxDone /\ restarts < budget
        /\ restarts' = restarts + 1
        /\ sup' = "backoff"
  /\ UNCHANGED <<procVars, cancelled, ctxDone, current, backoff, boot, client, stop, outcome>>

WaitReturnsUnderBudget == WaitReturnsWithin(MaxRetry - 1)
WaitReturns == WaitReturnsWithin(MaxRetry)

(* The backoff elapses: double it up to the cap and call Start. *)
BackoffElapses ==
  /\ sup = "backoff"
  /\ backoff' = IF 2 * backoff > BackoffCap THEN BackoffCap ELSE 2 * backoff
  /\ sup' = "start"
  /\ UNCHANGED <<procVars, cancelled, ctxDone, current, restarts, boot, client, stop, outcome>>

BackoffCancelled ==
  /\ sup = "backoff" /\ ctxDone
  /\ sup' = "ended"
  /\ UNCHANGED <<procVars, cancelled, ctxDone, current, restarts, backoff, boot, client, stop, outcome>>

-----------------------------------------------------------------------------
(* The rest of StartFallbackSidecar, Stop, and requests.                   *)

(* NewClient with first.Endpoint(), and Registry.Configure.  The first      *)
(* sidecar Run returns is process 1.                                        *)
Configure ==
  /\ boot = "configure"
  /\ client' = 1
  /\ boot' = "up"
  /\ UNCHANGED <<procVars, cancelled, ctxDone, loopVars, stop, outcome>>

(* Supervisor.Stop: Stop of the sidecar that is current, then cancel of the *)
(* supervisor's context.                                                    *)
StopCurrent ==
  /\ boot = "up" /\ stop = "no"
  /\ cancelled' = cancelled \cup {current}
  /\ stop' = "killed"
  /\ UNCHANGED <<procVars, ctxDone, loopVars, boot, client, outcome>>

StopCancel ==
  /\ stop = "killed"
  /\ ctxDone' = TRUE
  /\ stop' = "done"
  /\ UNCHANGED <<procVars, cancelled, loopVars, boot, client, outcome>>

(* The context the server's Init was given is cancelled. *)
ParentCancel ==
  /\ ~ctxDone
  /\ ctxDone' = TRUE
  /\ UNCHANGED <<procVars, cancelled, loopVars, boot, client, stop, outcome>>

(* Registry.Render of a registered route whose page is not in the client's  *)
(* cache: an error without a client, otherwise a call to its endpoint.      *)
Dispatch ==
  /\ outcome' = CASE client = 0 -> "unconfigured"
                  [] client # 0 /\ proc[client] = "serving" -> "ok"
                  [] client # 0 /\ proc[client] # "serving" -> "refused"
  /\ UNCHANGED <<procVars, cancelled, ctxDone, loopVars, boot, client, stop>>

StartStep == Spawn \/ SpawnFails \/ AwaitEndpoint \/ AwaitGiveUp \/ Drain \/ AwaitExit
LoopStep == WaitReturns \/ BackoffElapses \/ BackoffCancelled

Next ==
  \/ \E p \in Procs : ProcReady(p) \/ ProcBadReady(p) \/ ProcExit(p)
  \/ BootSkips \/ BootRuns \/ Configure
  \/ StartStep \/ LoopStep
  \/ StopCurrent \/ StopCancel \/ ParentCancel
  \/ Dispatch

(* The goroutines of Start, loop and Stop run, their timers fire, and the   *)
(* system kills a process whose context was cancelled.  Nothing makes a     *)
(* process ready, and nothing makes it crash.                               *)
Fairness ==
  /\ WF_vars(StartStep)
  /\ WF_vars(LoopStep)
  /\ WF_vars(StopCancel)
  /\ \A p \in Procs : WF_vars(Killed(p) /\ ProcExit(p))

Spec == Init /\ [][Next]_vars
FairSpec == Spec /\ Fairness

-----------------------------------------------------------------------------
(* No orphan: a process that is alive is the one Start is waiting for or    *)
(* the supervisor's current one, so Stop can reach it and two sidecars      *)
(* never run at a time ("Start kills it and returns an error").             *)
NoOrphan ==
  \A p \in Procs : Alive(p) =>
    /\ p = spawned
    /\ sup \in {"await", "drain"} \/ (p = current /\ sup = "wait")

(* The process is relaunched at most MaxRestarts times in the supervisor's  *)
(* lifetime ("relaunch the process up to MaxRestarts times after a crash"). *)
RestartBudget == spawned <= MaxRetry + 1

(* Once the supervisor's context is cancelled, every sidecar process dies   *)
(* and the loop ends, whatever Start was doing at the time.                 *)
StopsEverything ==
  ctxDone ~> (sup \in {"idle", "ended"} /\ \A p \in Procs : ~Alive(p))

(* A crash of the current sidecar within the budget leads to another Start, *)
(* unless the supervisor is stopped.                                        *)
CrashRestarts ==
  \A n \in 0..MaxRetry :
    (sup = "wait" /\ proc[current] = "exited" /\ restarts = n /\ BudgetLeft)
      ~> (restarts > n /\ sup = "start") \/ ctxDone

-----------------------------------------------------------------------------
(* What makes NoOrphan and RestartBudget inductive: a process is spawned    *)
(* only by a Start the budget paid for, and where Run and loop are tells    *)
(* which process, if any, they hold.                                        *)
BudgetPaid ==
  /\ restarts <= MaxRetry
  /\ spawned <= restarts + 1
  /\ sup \in {"idle", "backoff", "start"} => spawned <= restarts

Holds ==
  /\ sup \in {"await", "drain"} => spawned > 0
  /\ (sup \in {"start", "await", "drain"} /\ boot # "running") => current # 0
  /\ (sup \in {"wait", "backoff"} \/ boot \in {"configure", "up"}) => current # 0
  /\ boot = "none" => sup = "idle"

SidecarInv == TypeOK /\ BudgetPaid /\ Holds /\ NoOrphan
=============================================================================
