----------------------- MODULE ServerLifecycleProofs ------------------------
(***************************************************************************)
(* The Init gate, for any number of requests and of Init calls, with and   *)
(* without cron tasks and fallback routes; that a project the build lets   *)
(* through is one server.New accepts; and the captures of a match.         *)
(***************************************************************************)
EXTENDS ServerLifecycle, RouteScan, MatchState, TLAPS

LEMMA BoundPositive == MaxInits \in Nat /\ MaxInits >= 1
BY LifecycleAssumption

-----------------------------------------------------------------------------
(* Types.                                                                  *)

LEMMA TypeInit == Init => TypeOK
<1>1. Init => InitTypeOK
  BY BoundPositive DEF Init, InitTypeOK, Chans, Kinds, InitPhases
<1>2. ASSUME Init
      PROVE  ServeTypeOK
  <2>1. 0 \in Chans
    BY BoundPositive DEF Chans
  <2>2. rpc \in [Requests -> RequestPhases]
    BY <1>2 DEF Init, RequestPhases
  <2>3. rch \in [Requests -> Chans]
    BY <1>2, <2>1 DEF Init
  <2>4. held \in [Requests -> Chans]
    BY <1>2, <2>1 DEF Init
  <2>5. QED
    BY <1>2, <2>1, <2>2, <2>3, <2>4 DEF Init, ServeTypeOK
<1>3. Init => BackgroundTypeOK
  BY BoundPositive DEF Init, BackgroundTypeOK, Chans, ShutdownPhases
<1>4. QED
  BY <1>1, <1>2, <1>3 DEF TypeOK

(* What an Init call's own steps change. *)
LEMMA InitStepType ==
  ASSUME TypeOK, NEW i \in Inits, InitStep(i)
  PROVE  TypeOK'
<1>0. i \in Chans
  BY BoundPositive DEF Inits, Chans
<1>1. InitTypeOK'
  <2>1. initPC' \in [Inits -> InitPhases]
    BY DEF TypeOK, InitTypeOK, InitPhases, InitStep, StartInit, HookReturns, HookFails,
           SidecarStarts, SidecarFails, Fail, StashSupervisor, StoreReady, CloseDone, StartCron,
           LaunchCron, CronExits, AfterCron, Step, initVars
  <2>2. /\ initDone' \in Chans /\ closed' \subseteq Chans /\ initOK' \subseteq Inits
        /\ initState' \in {"ready", "pending", "failed"} /\ pendingBy' \in Chans
    BY <1>0 DEF TypeOK, InitTypeOK, InitStep, StartInit, HookReturns, HookFails,
           SidecarStarts, SidecarFails, Fail, StashSupervisor, StoreReady, CloseDone, StartCron,
           LaunchCron, CronExits, initVars
  <2>3. main' \in {"idle", "init", "bind", "listen", "serve"}
    BY DEF TypeOK, InitTypeOK, Kinds, MainAfterStart, InitStep, StartInit, HookReturns, HookFails,
           SidecarStarts, SidecarFails, Fail, StashSupervisor, StoreReady, CloseDone, StartCron,
           LaunchCron, CronExits
  <2>4. UNCHANGED <<calls, kind>>
    BY DEF InitStep, StartInit, HookReturns, HookFails,
           SidecarStarts, SidecarFails, Fail, StashSupervisor, StoreReady, CloseDone, StartCron,
           LaunchCron, CronExits, initVars
  <2>5. QED
    BY <2>1, <2>2, <2>3, <2>4 DEF TypeOK, InitTypeOK
<1>2. UNCHANGED <<netVars, reqVars, sd>>
  BY DEF InitStep, StartInit, HookReturns, HookFails,
         SidecarStarts, SidecarFails, Fail, StashSupervisor, StoreReady, CloseDone, StartCron,
         LaunchCron, CronExits
<1>3. ServeTypeOK'
  BY <1>2 DEF TypeOK, ServeTypeOK, netVars, reqVars
<1>4. BackgroundTypeOK'
  <2>1. /\ cronCancel' \in Chans /\ cronStopped' \subseteq Inits /\ cron' \subseteq Inits
        /\ supervisor' \in Chans /\ sidecars' \subseteq Inits
    BY <1>0 DEF TypeOK, BackgroundTypeOK, InitStep, StartInit, HookReturns, HookFails,
           SidecarStarts, SidecarFails, Fail, StashSupervisor, StoreReady, CloseDone, StartCron,
           LaunchCron, CronExits, bgVars
  <2>2. QED
    BY <1>2, <2>1 DEF TypeOK, BackgroundTypeOK
<1>5. QED
  BY <1>1, <1>3, <1>4 DEF TypeOK

LEMMA MainStepType ==
  ASSUME TypeOK, MainStep \/ \E k \in Kinds : Call(k)
  PROVE  TypeOK'
<1>1. CASE MainStep
  <2>1. calls \in Chans
    BY DEF TypeOK, InitTypeOK, Chans
  <2>2. InitTypeOK'
    BY <1>1 DEF TypeOK, InitTypeOK, MainStep, SyncReturn, BindServer, Listen, ListenFails,
           ServeReturns, ServeOwn, initVars
  <2>3. ServeTypeOK'
    BY <1>1, <2>1 DEF TypeOK, ServeTypeOK, MainStep, SyncReturn, BindServer, Listen, ListenFails,
           ServeReturns, ServeOwn, netVars, reqVars
  <2>4. BackgroundTypeOK'
    BY <1>1 DEF TypeOK, BackgroundTypeOK, MainStep, SyncReturn, BindServer, Listen, ListenFails,
           ServeReturns, ServeOwn, bgVars
  <2>5. QED
    BY <2>2, <2>3, <2>4 DEF TypeOK
<1>2. ASSUME NEW k \in Kinds, Call(k)
      PROVE  TypeOK'
  <2>1. calls + 1 \in Inits /\ calls + 1 \in 0..MaxInits
    BY <1>2, BoundPositive DEF TypeOK, InitTypeOK, Call, Inits
  <2>2. InitTypeOK'
    BY <1>2, <2>1 DEF TypeOK, InitTypeOK, InitPhases, Call
  <2>3. ServeTypeOK' /\ BackgroundTypeOK'
    BY <1>2 DEF TypeOK, ServeTypeOK, BackgroundTypeOK, Call, netVars, bgVars, reqVars
  <2>4. QED
    BY <2>2, <2>3 DEF TypeOK
<1>3. QED
  BY <1>1, <1>2

LEMMA ShutdownStepType ==
  ASSUME TypeOK, ShutdownStep
  PROVE  TypeOK'
<1>0. 0 \in Chans
  BY BoundPositive DEF Chans
<1>1. InitTypeOK'
  BY DEF TypeOK, InitTypeOK, ShutdownStep, ShutdownBegins, CancelCron, StopSidecar,
         CloseListener, ShutdownReturns, initVars
<1>2. ServeTypeOK'
  BY <1>0 DEF TypeOK, ServeTypeOK, BackgroundTypeOK, ShutdownStep, ShutdownBegins, CancelCron,
         StopSidecar, CloseListener, ShutdownReturns, netVars, reqVars
<1>3. BackgroundTypeOK'
  <2>1. /\ cronCancel' \in Chans /\ cronStopped' \subseteq Inits /\ cron' \subseteq Inits
        /\ supervisor' \in Chans /\ sidecars' \subseteq Inits
    BY DEF TypeOK, BackgroundTypeOK, ShutdownStep, ShutdownBegins, CancelCron, StopSidecar,
           CloseListener, ShutdownReturns, bgVars, Chans, Inits
  <2>2. sd' \in [at : ShutdownPhases, srv : Chans, cancel : Chans, sup : Chans,
                 settled : BOOLEAN]
    <3>1. CASE ShutdownBegins
      BY <3>1 DEF TypeOK, ServeTypeOK, BackgroundTypeOK, ShutdownBegins, ShutdownPhases
    <3>2. CASE ~ShutdownBegins
      BY <1>0, <3>2 DEF TypeOK, BackgroundTypeOK, ShutdownStep, CancelCron, StopSidecar,
             CloseListener, ShutdownReturns, Finished, ShutdownPhases
    <3>3. QED
      BY <3>1, <3>2
  <2>3. QED
    BY <2>1, <2>2 DEF BackgroundTypeOK
<1>4. QED
  BY <1>1, <1>2, <1>3 DEF TypeOK

(* One step of request r. *)
RequestStep(r) == Arrive(r) \/ GateStep(r) \/ ClientGone(r) \/ HandleReturns(r)

LEMMA RequestStepShape ==
  ASSUME TypeOK, NEW r \in Requests, RequestStep(r)
  PROVE  /\ UNCHANGED <<initVars, main, netVars, bgVars, sd>>
         /\ \E to \in RequestPhases : rpc' = [rpc EXCEPT ![r] = to]
         /\ rch' = rch \/ \E c \in {0, initDone} : rch' = [rch EXCEPT ![r] = c]
         /\ held' = held \/ \E c \in {0, pendingBy} : held' = [held EXCEPT ![r] = c]
<1>1. UNCHANGED <<initVars, main, netVars, bgVars, sd>>
  BY DEF RequestStep, Arrive, GateStep, ServeStatic, Gate, GrabChan, WaitDone, WaitTimeout,
         Recheck, ClientGone, HandleReturns, Move
<1>2. \E to \in RequestPhases : rpc' = [rpc EXCEPT ![r] = to]
  BY DEF TypeOK, InitTypeOK, RequestStep, Arrive, GateStep, ServeStatic, Gate, GrabChan, WaitDone,
         WaitTimeout, Recheck, ClientGone, HandleReturns, Move, RequestPhases
<1>3. rch' = rch \/ \E c \in {0, initDone} : rch' = [rch EXCEPT ![r] = c]
  BY DEF RequestStep, Arrive, GateStep, ServeStatic, Gate, GrabChan, WaitDone, WaitTimeout,
         Recheck, ClientGone, HandleReturns, Release
<1>4. held' = held \/ \E c \in {0, pendingBy} : held' = [held EXCEPT ![r] = c]
  BY DEF RequestStep, Arrive, GateStep, ServeStatic, Gate, GrabChan, WaitDone, WaitTimeout,
         Recheck, ClientGone, HandleReturns, Forget
<1>5. QED
  BY <1>1, <1>2, <1>3, <1>4

LEMMA TypeStep == TypeOK /\ [Next]_vars => TypeOK'
<1>1. ASSUME TypeOK, NEW r \in Requests, RequestStep(r)
      PROVE  TypeOK'
  <2>1. 0 \in Chans /\ initDone \in Chans /\ pendingBy \in Chans
    BY <1>1, BoundPositive DEF TypeOK, InitTypeOK, Chans
  <2>2. InitTypeOK' /\ BackgroundTypeOK'
    BY <1>1, RequestStepShape DEF TypeOK, InitTypeOK, BackgroundTypeOK, initVars, bgVars
  <2>3. ServeTypeOK'
    BY <1>1, <2>1, RequestStepShape DEF TypeOK, ServeTypeOK, netVars
  <2>4. QED
    BY <2>2, <2>3 DEF TypeOK
<1>2. TypeOK /\ UNCHANGED vars => TypeOK'
  BY DEF TypeOK, InitTypeOK, ServeTypeOK, BackgroundTypeOK, vars, initVars, netVars, bgVars, reqVars
<1>3. QED
  BY <1>1, <1>2, InitStepType, MainStepType, ShutdownStepType DEF Next, RequestStep


-----------------------------------------------------------------------------
(* The gate.                                                               *)

(* A channel other than the one New closed belongs to an Init call. *)
LEMMA ChannelOfCall ==
  ASSUME TypeOK
  PROVE  /\ initDone \in Int /\ pendingBy \in Int /\ calls \in Int
         /\ initDone # 0 => initDone \in Inits
         /\ pendingBy # 0 => pendingBy \in Inits
         /\ \A j \in Inits : j \in Int /\ j >= 1 /\ j \in Chans
         /\ \A c \in Chans : c \in Int /\ (c # 0 => c \in Inits)
BY BoundPositive DEF TypeOK, InitTypeOK, Chans, Inits

(* The part of the invariant about requests survives a step that takes no   *)
(* Init call back and opens no listener.                                    *)
LEMMA RequestsFollow ==
  ASSUME TypeOK, RequestsSeeInit, HeldUntilOver, InitGate,
         UNCHANGED <<calls, reqVars, ownFront>>,
         listening' \in {listening, 0},
         initDone' \in Chans, initDone' >= initDone,
         initOK \subseteq initOK',
         \A i \in Inits : (Started(i) => Started(i)') /\ (Resolved(i) => Resolved(i)')
  PROVE  RequestsSeeInit' /\ HeldUntilOver' /\ InitGate'
<1>0. initDone \in Int /\ initDone' \in Int /\ \A r \in Requests : held[r] \in Int
  BY BoundPositive DEF TypeOK, InitTypeOK, ServeTypeOK, Chans
<1>1. RequestsSeeInit'
  BY <1>0 DEF RequestsSeeInit, reqVars
<1>2. HeldUntilOver'
  BY DEF HeldUntilOver, Resolved, reqVars
<1>3. InitGate'
  BY DEF InitGate, Resolved, reqVars
<1>4. QED
  BY <1>1, <1>2, <1>3

(* A step that leaves the Init calls, the main goroutine and the requests   *)
(* alone.                                                                   *)
LEMMA QuietGate ==
  ASSUME TypeOK, GateInv, UNCHANGED <<initVars, main, reqVars, ownFront>>,
         listening' \in {listening, 0}
  PROVE  GateInv'
<1>1. CallsInOrder'
  BY DEF GateInv, CallsInOrder, Started, initVars
<1>2. StateTellsTruth'
  BY DEF GateInv, StateTellsTruth, CallTellsTruth, Started, Resolved, initVars
<1>3. RequestsSeeInit' /\ HeldUntilOver' /\ InitGate'
  <2>1. initDone' \in Chans /\ initDone' >= initDone
    BY BoundPositive DEF TypeOK, InitTypeOK, Chans, initVars
  <2>2. QED
    BY <2>1, RequestsFollow DEF GateInv, Started, Resolved, initVars
<1>4. QED
  BY <1>1, <1>2, <1>3 DEF GateInv

(* A call that went through startInit exists once main is past it. *)
LEMMA MainHasStarted ==
  ASSUME TypeOK, GateInv, calls > 0, main # "init"
  PROVE  calls \in Inits /\ Started(calls)
<1>1. calls \in Inits
  BY BoundPositive DEF TypeOK, InitTypeOK, Inits
<1>2. QED
  BY <1>1 DEF GateInv, CallsInOrder, TypeOK, InitTypeOK, Inits

LEMMA MainGate ==
  ASSUME TypeOK, GateInv, MainStep
  PROVE  GateInv'
<1>0. UNCHANGED <<initVars, reqVars>>
  BY DEF MainStep, SyncReturn, BindServer, Listen, ListenFails, ServeReturns, ServeOwn
<1>1. main' # "init" /\ (main' \in {"bind", "listen", "serve"} => main \in {"bind", "listen", "serve"})
  BY DEF MainStep, SyncReturn, BindServer, Listen, ListenFails, ServeReturns, ServeOwn
<1>2. \A i \in Inits : i <= calls => Started(i)
  <2>1. CASE main # "init"
    BY <2>1 DEF GateInv, CallsInOrder
  <2>2. CASE SyncReturn
    <3>1. Started(calls)
      BY <2>2 DEF SyncReturn, Started
    <3>2. \A i \in Inits : i <= calls => i < calls \/ i = calls
      BY DEF TypeOK, InitTypeOK, Inits
    <3>3. QED
      BY <3>1, <3>2 DEF GateInv, CallsInOrder
  <2>3. QED
    BY <2>1, <2>2 DEF MainStep, BindServer, Listen, ListenFails, ServeReturns, ServeOwn
<1>3. CallsInOrder'
  BY <1>0, <1>1, <1>2 DEF GateInv, CallsInOrder, Started, MainStep, SyncReturn, BindServer, Listen,
         ListenFails, ServeReturns, ServeOwn, initVars
<1>4. StateTellsTruth'
  BY <1>0 DEF GateInv, StateTellsTruth, CallTellsTruth, Started, Resolved, initVars
<1>5. RequestsSeeInit' /\ HeldUntilOver' /\ InitGate'
  <2>1. CASE Listen \/ ServeOwn
    <3>1. calls > 0 /\ main # "init"
      BY <2>1 DEF GateInv, CallsInOrder, Listen, ServeOwn
    <3>2. \E i \in Inits : Started(i)'
      BY <1>0, <3>1, MainHasStarted DEF Started, initVars
    <3>3. RequestsSeeInit'
      BY <1>0, <3>2 DEF GateInv, RequestsSeeInit, Resolved, initVars, reqVars
    <3>4. InitGate'
      BY <1>0 DEF GateInv, InitGate, initVars, reqVars
    <3>5. HeldUntilOver'
      BY <1>0 DEF GateInv, HeldUntilOver, initVars, reqVars
    <3>6. QED
      BY <3>3, <3>4, <3>5
  <2>2. CASE ~(Listen \/ ServeOwn)
    <3>1. UNCHANGED <<ownFront, listening>>
      BY <2>2 DEF MainStep, SyncReturn, BindServer, ListenFails, ServeReturns, netVars
    <3>2. initDone' \in Chans /\ initDone' >= initDone
      BY <1>0, ChannelOfCall DEF TypeOK, InitTypeOK, initVars
    <3>3. QED
      BY <1>0, <3>1, <3>2, RequestsFollow DEF GateInv, Started, Resolved, initVars
  <2>3. QED
    BY <2>1, <2>2
<1>6. QED
  BY <1>3, <1>4, <1>5 DEF GateInv

LEMMA CallGate ==
  ASSUME TypeOK, GateInv, NEW k \in Kinds, Call(k)
  PROVE  GateInv'
<1>0. calls \in Nat /\ calls + 1 \in Inits /\ initPC[calls + 1] = "none"
  BY BoundPositive DEF TypeOK, InitTypeOK, Inits, GateInv, CallsInOrder, Call
<1>1. /\ calls' = calls + 1
      /\ \A j \in Inits : initPC'[j] = IF j = calls + 1 THEN "start" ELSE initPC[j]
      /\ \A j \in Inits : j # calls + 1 => kind'[j] = kind[j]
      /\ UNCHANGED <<initState, initDone, closed, initOK, pendingBy, netVars, reqVars>>
      /\ main' = "init"
  BY <1>0 DEF TypeOK, InitTypeOK, Call
<1>2. \A j \in Inits : (Started(j) <=> Started(j)') /\ (Resolved(j) <=> Resolved(j)')
  BY <1>0, <1>1 DEF Started, Resolved
<1>3. CallsInOrder'
  <2>1. \A j \in Inits : j \in Int
    BY DEF Inits
  <2>2. \A j \in Inits : j <= calls => Started(j)
    BY DEF GateInv, CallsInOrder, Call
  <2>3. \A j \in Inits : initPC'[j] = "none" <=> j > calls'
    BY <1>0, <1>1, <2>1 DEF GateInv, CallsInOrder
  <2>4. \A j \in Inits : j < calls' => Started(j)'
    BY <1>0, <1>1, <1>2, <2>1, <2>2
  <2>5. ~Started(calls)'
    BY <1>0, <1>1 DEF Started
  <2>6. QED
    BY <1>0, <1>1, <2>3, <2>4, <2>5 DEF CallsInOrder
<1>4. StateTellsTruth'
  <2>1. ASSUME NEW i \in Inits
        PROVE  CallTellsTruth(i)'
    <3>1. Resolved(i)' => calls' # 1
      BY <1>0, <1>1, <1>2 DEF GateInv, CallsInOrder, Resolved, Inits
    <3>2. CASE i = calls + 1
      BY <1>0, <1>1, <1>2, <3>1, <3>2 DEF GateInv, StateTellsTruth, CallTellsTruth
    <3>3. CASE i # calls + 1
      BY <1>1, <1>2, <3>1, <3>3 DEF GateInv, StateTellsTruth, CallTellsTruth
    <3>4. QED
      BY <3>2, <3>3
  <2>2. (initState' = "ready" /\ \E i \in Inits : Started(i)') => initOK' # {}
    BY <1>1, <1>2 DEF GateInv, StateTellsTruth
  <2>3. 0 \in closed'
    BY <1>1 DEF GateInv, StateTellsTruth
  <2>7. pendingBy' # 0 => Started(pendingBy)'
    BY <1>1, <1>2, ChannelOfCall DEF GateInv, StateTellsTruth, Started
  <2>8. \A i \in Inits : initPC'[i] \notin {"none", "start"} => i <= initDone'
    BY <1>1 DEF GateInv, StateTellsTruth
  <2>9. initDone' # 0 => initPC'[initDone'] \notin {"none", "start"}
    <3>1. initDone # 0 => initDone \in Inits
      BY DEF TypeOK, InitTypeOK, Chans, Inits
    <3>2. initDone # calls + 1 \/ initDone = 0
      BY <1>0 DEF GateInv, StateTellsTruth
    <3>3. QED
      BY <1>1, <3>1, <3>2 DEF GateInv, StateTellsTruth
  <2>10. QED
    BY <2>1, <2>2, <2>3, <2>7, <2>8, <2>9 DEF StateTellsTruth
<1>5. RequestsSeeInit'
  BY <1>1, <1>2 DEF GateInv, RequestsSeeInit, netVars, reqVars
<1>6. InitGate'
  <2>1. ASSUME NEW r \in Requests, rpc[r] \in {"handle", "handled"}
        PROVE  \E i \in Inits : Resolved(i)
    BY <2>1 DEF GateInv, InitGate, Resolved
  <2>2. (\E i \in Inits : Resolved(i)) => calls' # 1
    BY <1>0, <1>1 DEF GateInv, CallsInOrder, Resolved, Inits
  <2>3. QED
    BY <1>1, <1>2, <2>1, <2>2 DEF InitGate, Resolved, reqVars
<1>7. HeldUntilOver'
  BY <1>1, <1>2 DEF GateInv, HeldUntilOver, Resolved, reqVars
<1>8. QED
  BY <1>3, <1>4, <1>5, <1>6, <1>7 DEF GateInv

(* Only the newest call can be before the end of startInit. *)
LEMMA NewestCall ==
  ASSUME TypeOK, GateInv, NEW i \in Inits, initPC[i] \in {"start", "swapped"}
  PROVE  i = calls /\ main = "init"
<1>1. i \in Int /\ calls \in Int /\ i <= calls /\ ~Started(i)
  BY DEF TypeOK, InitTypeOK, Inits, GateInv, CallsInOrder, Started
<1>2. QED
  BY <1>1 DEF GateInv, CallsInOrder

LEMMA StartInitGate ==
  ASSUME TypeOK, GateInv, NEW i \in Inits, StartInit(i)
  PROVE  GateInv'
<1>0. /\ i = calls /\ main = "init" /\ ~Started(i) /\ ~Resolved(i) /\ i \notin initOK
      /\ i # 0
  <2>1. initPC[i] \in {"start", "swapped"}
    BY DEF StartInit, Step
  <2>2. QED
    BY <2>1, NewestCall DEF Started, Resolved, GateInv, StateTellsTruth, CallTellsTruth, Inits
<1>1. /\ \A j \in Inits : j # i => initPC'[j] = initPC[j]
      /\ UNCHANGED <<closed, calls, kind, initOK, netVars, reqVars>>
  BY DEF TypeOK, InitTypeOK, StartInit, Step
<1>2. CASE initPC[i] = "start"
  <2>0. initPC'[i] = "swapped" /\ initDone' = i /\ UNCHANGED <<initState, pendingBy, main>>
    BY <1>2 DEF TypeOK, InitTypeOK, StartInit, Step
  <2>1. \A j \in Inits : (Started(j) <=> Started(j)') /\ (Resolved(j) <=> Resolved(j)')
    BY <1>1, <1>2, <2>0 DEF Started, Resolved
  <2>2. CallsInOrder'
    BY <1>0, <1>1, <1>2, <2>0, <2>1 DEF GateInv, CallsInOrder, TypeOK, InitTypeOK, Inits
  <2>3. StateTellsTruth'
    <3>1. \A j \in Inits : CallTellsTruth(j)'
      BY <1>1, <1>2, <2>0, <2>1 DEF GateInv, StateTellsTruth, CallTellsTruth
    <3>2. \A j \in Inits : initPC'[j] \notin {"none", "start"} => j <= i
      BY <1>0, <1>1, ChannelOfCall DEF GateInv, CallsInOrder
    <3>3. pendingBy' # 0 => Started(pendingBy)'
      BY <2>0, <2>1, ChannelOfCall DEF GateInv, StateTellsTruth, Started
    <3>4. QED
      BY <1>0, <1>1, <2>0, <2>1, <3>1, <3>2, <3>3 DEF GateInv, StateTellsTruth
  <2>4. RequestsSeeInit' /\ HeldUntilOver' /\ InitGate'
    <3>1. initDone <= calls
      <4>1. CASE initDone = 0
        BY <1>0, <4>1, ChannelOfCall
      <4>2. CASE initDone # 0
        <5>1. initDone \in Inits /\ initPC[initDone] # "none"
          BY <4>2, ChannelOfCall DEF GateInv, StateTellsTruth
        <5>2. QED
          BY <5>1, ChannelOfCall DEF GateInv, CallsInOrder
      <4>3. QED
        BY <4>1, <4>2
    <3>2. initDone' \in Chans /\ initDone' >= initDone
      BY <1>0, <2>0, <3>1, ChannelOfCall
    <3>3. QED
      BY <1>1, <2>1, <3>2, RequestsFollow DEF GateInv, netVars
  <2>5. QED
    BY <2>2, <2>3, <2>4 DEF GateInv
<1>3. CASE initPC[i] = "swapped"
  <2>0. /\ initPC'[i] = "hook" /\ initState' = "pending" /\ pendingBy' = i /\ UNCHANGED initDone
        /\ main' = MainAfterStart(i)
    BY <1>3 DEF TypeOK, InitTypeOK, StartInit, Step
  <2>1. \A j \in Inits : /\ Started(j)' <=> (j = i \/ Started(j))
                         /\ Resolved(j) <=> Resolved(j)'
    BY <1>1, <1>3, <2>0 DEF Started, Resolved
  <2>2. CallsInOrder'
    <3>1. \A j \in Inits : j \in Int
      BY DEF Inits
    <3>2. \A j \in Inits : j < calls => Started(j)
      BY DEF GateInv, CallsInOrder
    <3>3. \A j \in Inits : j <= calls' => Started(j)'
      BY <1>0, <1>1, <2>1, <3>1, <3>2
    <3>4. \A j \in Inits : initPC'[j] = "none" <=> j > calls'
      BY <1>1, <1>3, <2>0 DEF GateInv, CallsInOrder
    <3>5. main' = "init" => kind[i] = "sync"
      BY <2>0 DEF MainAfterStart, TypeOK, InitTypeOK, Kinds
    <3>6. calls > 0
      BY <1>0 DEF Inits
    <3>7. QED
      BY <1>0, <1>1, <3>1, <3>3, <3>4, <3>5, <3>6 DEF CallsInOrder
  <2>3. StateTellsTruth'
    <3>1. \A j \in Inits : Resolved(j)' => calls' # 1
      BY <1>0, <1>1, <2>1 DEF GateInv, CallsInOrder, Resolved, Inits
    <3>2. \A j \in Inits : initPC'[j] \notin {"none", "start"} => j <= initDone'
      BY <1>1, <1>3, <2>0 DEF GateInv, StateTellsTruth
    <3>3. \A j \in Inits : CallTellsTruth(j)'
      BY <1>1, <1>3, <2>0, <2>1, <3>1 DEF GateInv, StateTellsTruth, CallTellsTruth
    <3>4. initDone' # 0 => initPC'[initDone'] \notin {"none", "start"}
      BY <1>1, <2>0, ChannelOfCall DEF GateInv, StateTellsTruth
    <3>5. Started(pendingBy)'
      BY <2>0 DEF Started
    <3>6. QED
      BY <1>1, <2>0, <3>2, <3>3, <3>4, <3>5 DEF GateInv, StateTellsTruth
  <2>4. RequestsSeeInit' /\ HeldUntilOver' /\ InitGate'
    <3>1. initDone' \in Chans /\ initDone' >= initDone
      BY <2>0, ChannelOfCall DEF TypeOK, InitTypeOK
    <3>2. QED
      BY <1>1, <2>1, <3>1, RequestsFollow DEF GateInv, netVars
  <2>5. QED
    BY <2>2, <2>3, <2>4 DEF GateInv
<1>4. QED
  BY <1>2, <1>3 DEF StartInit, Step

(* The steps of an Init call after startInit: the call stays started, and   *)
(* the main goroutine and the call count stay as they are.                  *)
LateStep(i) ==
  \/ HookReturns(i) \/ HookFails(i)
  \/ SidecarStarts(i) \/ SidecarFails(i) \/ StashSupervisor(i)
  \/ StoreReady(i) \/ CloseDone(i) \/ StartCron(i) \/ LaunchCron(i)

LEMMA LateShape ==
  ASSUME TypeOK, NEW i \in Inits, LateStep(i)
  PROVE  /\ \A j \in Inits : j # i => initPC'[j] = initPC[j]
         /\ UNCHANGED <<initDone, calls, kind, pendingBy, main, netVars, reqVars>>
         /\ initOK \subseteq initOK'
         /\ \A j \in Inits : /\ Started(j) <=> Started(j)'
                             /\ Resolved(j) => Resolved(j)'
         /\ Started(i)
<1>1. /\ \A j \in Inits : j # i => initPC'[j] = initPC[j]
      /\ UNCHANGED <<initDone, calls, kind, pendingBy, main, netVars, reqVars>>
      /\ initOK \subseteq initOK'
  BY DEF TypeOK, InitTypeOK, LateStep, HookReturns, HookFails, SidecarStarts, SidecarFails, Fail,
         StashSupervisor, StoreReady, CloseDone, StartCron, LaunchCron, Step
<1>2. /\ Started(i) /\ Started(i)' /\ (Resolved(i) => Resolved(i)')
  BY DEF TypeOK, InitTypeOK, LateStep, HookReturns, HookFails, SidecarStarts, SidecarFails, Fail,
         StashSupervisor, StoreReady, CloseDone, StartCron, LaunchCron, Step, AfterCron,
         Started, Resolved
<1>3. QED
  BY <1>1, <1>2 DEF Started, Resolved

LEMMA LateGate ==
  ASSUME TypeOK, GateInv, NEW i \in Inits, LateStep(i)
  PROVE  GateInv'
<1>1. CallsInOrder'
  <2>1. calls > 0 /\ calls' = calls
    BY LateShape DEF GateInv, CallsInOrder, Started, TypeOK, InitTypeOK, Inits
  <2>2. \A j \in Inits : initPC'[j] = "none" <=> initPC[j] = "none"
    BY LateShape DEF Started
  <2>3. calls \in Inits
    BY <2>1 DEF TypeOK, InitTypeOK, Inits
  <2>4. QED
    BY <2>1, <2>2, <2>3, LateShape DEF GateInv, CallsInOrder
<1>2. RequestsSeeInit' /\ HeldUntilOver' /\ InitGate'
  <2>1. initDone' \in Chans /\ initDone' >= initDone
    BY LateShape, ChannelOfCall DEF TypeOK, InitTypeOK
  <2>2. QED
    BY <2>1, LateShape, RequestsFollow DEF GateInv, netVars
<1>3. StateTellsTruth'
  <2>a. calls = 1 => \A j \in Inits : (initPC[j] # "none" => j = 1)
    BY DEF GateInv, CallsInOrder, Inits
  <2>b. initPC[i] # "none" /\ \A j \in Inits : j # i => initPC'[j] = initPC[j]
    BY LateShape DEF Started
  <2>c. calls = 1 => \A j \in Inits : Resolved(j)' => j = i
    BY <2>a, <2>b, LateShape DEF Resolved
  <2>d. /\ \A j \in Inits : initPC'[j] \notin {"none", "start"} => j <= initDone'
        /\ pendingBy' # 0 => Started(pendingBy)'
    <3>1. \A j \in Inits : initPC'[j] \notin {"none", "start"} => initPC[j] \notin {"none", "start"}
      BY LateShape DEF Started
    <3>2. pendingBy' # 0 => Started(pendingBy)'
      BY LateShape, ChannelOfCall DEF GateInv, StateTellsTruth, Started
    <3>3. QED
      BY <3>1, <3>2, LateShape DEF GateInv, StateTellsTruth
  <2>e. initDone' # 0 => initPC'[initDone'] \notin {"none", "start"}
    <3>1. initDone # 0 => initDone \in Inits
      BY DEF TypeOK, InitTypeOK, Chans, Inits
    <3>2. QED
      BY <3>1, LateShape DEF GateInv, StateTellsTruth, Started
  <2>f. /\ CallTellsTruth(i) /\ Started(i)
        /\ (initState = "ready" => initOK # {}) /\ 0 \in closed
    BY LateShape DEF GateInv, StateTellsTruth
  <2>g. /\ closed' = closed \/ closed' = closed \cup {i}
        /\ initOK' = initOK \/ initOK' = initOK \cup {i}
    BY DEF LateStep, HookReturns, HookFails, SidecarStarts, SidecarFails, Fail,
           StashSupervisor, StoreReady, CloseDone, StartCron, LaunchCron
  <2>h. ASSUME NEW j \in Inits, j # i
        PROVE  CallTellsTruth(j)'
    <3>1. CallTellsTruth(j) /\ initPC'[j] = initPC[j] /\ kind' = kind /\ calls' = calls
      BY <2>h, LateShape DEF GateInv, StateTellsTruth
    <3>2. (j \in closed' <=> j \in closed) /\ (j \in initOK' <=> j \in initOK)
      BY <2>g, <2>h
    <3>3. Resolved(j)' <=> Resolved(j)
      BY <3>1 DEF Resolved
    <3>4. calls = 1 => ~Resolved(j)'
      BY <2>c, <2>h
    <3>5. QED
      BY <3>1, <3>2, <3>3, <3>4 DEF CallTellsTruth
  <2>i. SUFFICES /\ CallTellsTruth(i)'
                 /\ initState' = "ready" => initOK' # {}
    BY <2>d, <2>e, <2>f, <2>g, <2>h DEF StateTellsTruth
  <2>1. CASE HookReturns(i) \/ SidecarStarts(i) \/ StashSupervisor(i)
    <3>1. /\ initPC'[i] \in {"sidecar", "stash", "store"} /\ ~Resolved(i)
          /\ UNCHANGED <<initState, closed, initOK>>
      BY <2>1 DEF TypeOK, InitTypeOK, HookReturns, SidecarStarts, StashSupervisor, Step, Resolved
    <3>2. QED
      BY <2>f, <3>1 DEF CallTellsTruth, Resolved
  <2>2. CASE HookFails(i) \/ SidecarFails(i)
    <3>1. /\ initPC'[i] = "close" /\ initState' = "failed" /\ ~Resolved(i)
          /\ UNCHANGED <<closed, initOK>>
      BY <2>2 DEF TypeOK, InitTypeOK, HookFails, SidecarFails, Fail, Step, Resolved
    <3>2. QED
      BY <2>f, <3>1 DEF CallTellsTruth, Resolved
  <2>3. CASE StoreReady(i)
    <3>1. /\ initPC'[i] \in {"close", "cron"} /\ initState' = "ready" /\ ~Resolved(i)
          /\ initPC'[i] = "cron" => kind[i] # "sync"
          /\ UNCHANGED <<closed, kind>> /\ initOK' = initOK \cup {i}
      BY <2>3 DEF TypeOK, InitTypeOK, StoreReady, Step, Resolved
    <3>2. QED
      BY <2>f, <3>1 DEF CallTellsTruth, Resolved
  <2>4. CASE CloseDone(i)
    <3>1. /\ initPC[i] = "close"
          /\ initPC'[i] = "returned" \/ (initPC'[i] = "cron" /\ i \in initOK)
          /\ closed' = closed \cup {i} /\ UNCHANGED <<initState, initOK, calls>>
      BY <2>4 DEF TypeOK, InitTypeOK, CloseDone, Step
    <3>2. QED
      BY <2>f, <3>1 DEF CallTellsTruth, Resolved
  <2>5. CASE StartCron(i) \/ LaunchCron(i)
    <3>1. /\ initPC[i] \in {"cron", "launch"} /\ i \in initOK
          /\ initPC'[i] \in {"launch", "close", "returned"}
          /\ initPC'[i] = "returned" => kind[i] = "sync"
          /\ UNCHANGED <<initState, closed, initOK, calls, kind>>
      BY <2>5, <2>f DEF TypeOK, InitTypeOK, StartCron, LaunchCron, AfterCron, Step, CallTellsTruth
    <3>2. QED
      BY <2>f, <3>1 DEF CallTellsTruth, Resolved
  <2>6. QED
    BY <2>1, <2>2, <2>3, <2>4, <2>5 DEF LateStep
<1>4. QED
  BY <1>1, <1>2, <1>3 DEF GateInv

(* A request that has arrived finds the state of a started Init call: it    *)
(* reaches the pipeline only past a stored initReady.                       *)
LEMMA RequestGate ==
  ASSUME TypeOK, GateInv, NEW r \in Requests, RequestStep(r)
  PROVE  GateInv'
<1>0. UNCHANGED <<initVars, main, netVars>>
  BY RequestStepShape
<1>1. CallsInOrder'
  BY <1>0 DEF GateInv, CallsInOrder, Started, initVars
<1>2. StateTellsTruth'
  BY <1>0 DEF GateInv, StateTellsTruth, CallTellsTruth, Started, Resolved, initVars
<1>3. \A q \in Requests : q # r => rpc'[q] = rpc[q] /\ rch'[q] = rch[q]
  BY RequestStepShape DEF TypeOK, ServeTypeOK
<1>4. \E i \in Inits : Started(i)
  <2>1. CASE rpc[r] = "none"
    <3>1. Arrive(r)
      BY <2>1 DEF RequestStep, GateStep, ServeStatic, Gate, GrabChan, WaitDone, WaitTimeout,
             Recheck, ClientGone, HandleReturns, Move
    <3>2. QED
      BY <3>1 DEF Arrive, GateInv, RequestsSeeInit
  <2>2. CASE rpc[r] # "none"
    BY <2>2 DEF GateInv, RequestsSeeInit
  <2>3. QED
    BY <2>1, <2>2
<1>5. /\ rpc'[r] = "grab" => held'[r] <= initDone'
      /\ rpc'[r] = "wait" => rch'[r] # 0 /\ held'[r] <= rch'[r]
  <2>1. rpc'[r] = "grab" => held'[r] = pendingBy
    BY DEF TypeOK, ServeTypeOK, InitTypeOK, RequestStep, Arrive, GateStep, ServeStatic, Gate, GrabChan,
           WaitDone, WaitTimeout, Recheck, ClientGone, HandleReturns, Move
  <2>2. pendingBy <= initDone /\ initDone # 0
    <3>1. \A i \in Inits : Started(i) => i <= initDone
      BY DEF GateInv, StateTellsTruth, Started
    <3>2. pendingBy # 0 => Started(pendingBy)
      BY DEF GateInv, StateTellsTruth
    <3>3. QED
      BY <1>4, <3>1, <3>2, ChannelOfCall
  <2>3. rpc'[r] = "wait" => rpc[r] = "grab" /\ rch'[r] = initDone /\ held' = held
    BY DEF TypeOK, ServeTypeOK, InitTypeOK, RequestStep, Arrive, GateStep, ServeStatic, Gate, GrabChan,
           WaitDone, WaitTimeout, Recheck, ClientGone, HandleReturns, Move
  <2>4. QED
    BY <1>0, <2>1, <2>2, <2>3 DEF GateInv, RequestsSeeInit, initVars
<1>6. HeldUntilOver'
  <2>1. rpc'[r] = "recheck" => WaitDone(r)
    BY DEF TypeOK, ServeTypeOK, InitTypeOK, RequestStep, Arrive, GateStep, ServeStatic, Gate, GrabChan,
           WaitDone, WaitTimeout, Recheck, ClientGone, HandleReturns, Move
  <2>2. WaitDone(r) => /\ rch[r] \in closed /\ rch[r] # 0 /\ rch[r] \in Chans
                       /\ held[r] \in Chans /\ held[r] <= rch[r] /\ held' = held
    BY DEF WaitDone, Move, GateInv, RequestsSeeInit, TypeOK, ServeTypeOK
  <2>3. \A c \in Inits : c \in closed => Resolved(c)
    BY DEF GateInv, StateTellsTruth, CallTellsTruth
  <2>4. rpc'[r] = "recheck" => \E i \in Inits : i >= held'[r] /\ Resolved(i)
    BY <2>1, <2>2, <2>3, ChannelOfCall
  <2>5. \A q \in Requests : q # r => rpc'[q] = rpc[q] /\ held'[q] = held[q]
    BY RequestStepShape DEF TypeOK, ServeTypeOK
  <2>6. QED
    BY <1>0, <2>4, <2>5 DEF GateInv, HeldUntilOver, Resolved, initVars
<1>7. RequestsSeeInit'
  <2>1. (ownFront' \/ listening' # 0) => \E i \in Inits : Started(i)'
    BY <1>0 DEF GateInv, RequestsSeeInit, Started, initVars, netVars
  <2>2. \E i \in Inits : Started(i)'
    BY <1>0, <1>4 DEF Started, initVars
  <2>3. \A q \in Requests : q # r => rpc'[q] = rpc[q] /\ rch'[q] = rch[q] /\ held'[q] = held[q]
    BY RequestStepShape DEF TypeOK, ServeTypeOK
  <2>4. QED
    BY <1>0, <1>5, <2>1, <2>2, <2>3 DEF GateInv, RequestsSeeInit, initVars
<1>8. rpc'[r] \in {"handle", "handled"} =>
        (\E i \in Inits : Resolved(i)) /\ (calls = 1 => 1 \in initOK)
  <2>0. calls = 1 => \A j \in Inits : (Resolved(j) => j = 1)
    BY DEF GateInv, CallsInOrder, Resolved, Inits
  <2>1. CASE rpc[r] = "gate" /\ rpc'[r] = "handle"
    <3>1. initState = "ready"
      BY <2>1 DEF TypeOK, ServeTypeOK, InitTypeOK, RequestStep, Arrive, GateStep, ServeStatic, Gate,
             GrabChan, WaitDone, WaitTimeout, Recheck, ClientGone, HandleReturns, Move
    <3>2. PICK i \in initOK : TRUE
      BY <1>4, <3>1 DEF GateInv, StateTellsTruth
    <3>3. i \in Inits /\ Resolved(i)
      BY <3>2 DEF TypeOK, InitTypeOK, GateInv, StateTellsTruth, CallTellsTruth
    <3>4. QED
      BY <2>0, <3>2, <3>3
  <2>2. CASE rpc[r] = "recheck" /\ rpc'[r] = "handle"
    <3>1. initState # "failed"
      BY <2>2 DEF TypeOK, ServeTypeOK, InitTypeOK, RequestStep, Arrive, GateStep, ServeStatic, Gate,
             GrabChan, WaitDone, WaitTimeout, Recheck, ClientGone, HandleReturns, Move
    <3>2. PICK i \in Inits : Resolved(i)
      BY <2>2 DEF GateInv, HeldUntilOver, Resolved
    <3>3. calls = 1 => i \in initOK
      BY <3>1, <3>2 DEF GateInv, StateTellsTruth, CallTellsTruth
    <3>4. QED
      BY <2>0, <3>2, <3>3
  <2>3. CASE rpc[r] \in {"handle", "handled"}
    BY <2>3 DEF GateInv, InitGate, Resolved
  <2>4. rpc'[r] \in {"handle", "handled"} =>
          \/ rpc[r] \in {"gate", "recheck"} /\ rpc'[r] = "handle"
          \/ rpc[r] \in {"handle", "handled"}
    BY DEF TypeOK, ServeTypeOK, InitTypeOK, RequestStep, Arrive, GateStep, ServeStatic, Gate,
           GrabChan, WaitDone, WaitTimeout, Recheck, ClientGone, HandleReturns, Move
  <2>5. QED
    BY <2>1, <2>2, <2>3, <2>4
<1>9. InitGate'
  BY <1>0, <1>3, <1>8 DEF GateInv, InitGate, Resolved, initVars
<1>10. QED
  BY <1>1, <1>2, <1>6, <1>7, <1>9 DEF GateInv

LEMMA GateInit == Init => GateInv
<1>1. Init => CallsInOrder
  BY BoundPositive DEF Init, CallsInOrder, Inits
<1>2. Init => StateTellsTruth
  BY BoundPositive DEF Init, StateTellsTruth, CallTellsTruth, Started, Resolved, Inits
<1>3. Init => RequestsSeeInit /\ HeldUntilOver /\ InitGate
  BY DEF Init, RequestsSeeInit, HeldUntilOver, InitGate
<1>4. QED
  BY <1>1, <1>2, <1>3 DEF GateInv

LEMMA GateInvStep == TypeOK /\ GateInv /\ [Next]_vars => GateInv'
<1>1. ASSUME TypeOK, GateInv, ShutdownStep
      PROVE  GateInv'
  <2>1. UNCHANGED <<initVars, main, reqVars, ownFront>> /\ listening' \in {listening, 0}
    BY <1>1 DEF ShutdownStep, ShutdownBegins, CancelCron, StopSidecar, CloseListener,
           ShutdownReturns, netVars
  <2>2. QED
    BY <1>1, <2>1, QuietGate
<1>2. ASSUME TypeOK, GateInv, NEW i \in Inits, CronExits(i)
      PROVE  GateInv'
  <2>1. UNCHANGED <<initVars, main, reqVars, ownFront, listening>>
    BY <1>2 DEF CronExits, netVars
  <2>2. QED
    BY <1>2, <2>1, QuietGate
<1>3. ASSUME TypeOK, GateInv, UNCHANGED vars
      PROVE  GateInv'
  <2>1. UNCHANGED <<initVars, main, reqVars, ownFront, listening>>
    BY <1>3 DEF vars, netVars
  <2>2. QED
    BY <1>3, <2>1, QuietGate
<1>4. ASSUME NEW i \in Inits, InitStep(i)
      PROVE  StartInit(i) \/ LateStep(i) \/ CronExits(i)
  BY <1>4 DEF InitStep, LateStep
<1>5. QED
  BY <1>1, <1>2, <1>3, <1>4, MainGate, CallGate, StartInitGate, LateGate, RequestGate
  DEF Next, RequestStep

(* For any number of requests and of Init calls: no request reaches the     *)
(* pipeline before an Init call has stored its outcome, and with one call   *)
(* only past a success; a request the gate held goes on only after the call *)
(* that held it, or a newer one, is over; and a request that waits will be  *)
(* released by the Init call whose channel it holds, or already has been.   *)
THEOREM InitGateHolds == Spec => [](TypeOK /\ InitGate /\ HeldUntilOver /\ NoStrandedWaiter)
<1>1. TypeOK /\ GateInv => InitGate /\ HeldUntilOver /\ NoStrandedWaiter
  <2>1. ASSUME TypeOK, GateInv, NEW r \in Requests, rpc[r] = "wait"
        PROVE  rch[r] \in closed \/ initPC[rch[r]] # "returned"
    <3>1. rch[r] \in Inits
      BY <2>1 DEF TypeOK, ServeTypeOK, Chans, Inits, GateInv, RequestsSeeInit
    <3>2. QED
      BY <2>1, <3>1 DEF GateInv, StateTellsTruth, CallTellsTruth
  <2>2. QED
    BY <2>1 DEF GateInv, NoStrandedWaiter
<1>2. QED
  BY <1>1, TypeInit, TypeStep, GateInit, GateInvStep, PTL DEF Spec

(* A request that waits is neither stranded nor let through by an older     *)
(* Init: the two halves of the theorem above that a run names together.     *)
THEOREM WaitsAreForOwnInit == Spec => []WaitsForItsInit
BY InitGateHolds, PTL DEF WaitsForItsInit

-----------------------------------------------------------------------------
(* Shutdown.                                                               *)

(* A step that leaves the Init calls, the background and Shutdown alone. *)
LEMMA QuietBackground ==
  ASSUME BackgroundReachable, SettledShutdown, UNCHANGED <<initPC, calls, bgVars, sd>>
  PROVE  BackgroundReachable' /\ SettledShutdown'
BY DEF BackgroundReachable, SettledShutdown, bgVars

LEMMA CallBackground ==
  ASSUME TypeOK, GateInv, BackgroundReachable, SettledShutdown, NEW k \in Kinds, Call(k)
  PROVE  BackgroundReachable' /\ SettledShutdown'
<1>0. calls \in Nat /\ calls + 1 \in Inits /\ calls' = calls + 1
  BY BoundPositive DEF TypeOK, InitTypeOK, Inits, Call
<1>1. \A j \in Inits : initPC'[j] = IF j = calls + 1 THEN "start" ELSE initPC[j]
  BY <1>0 DEF TypeOK, InitTypeOK, Call
<1>2. initPC[calls + 1] = "none"
  BY <1>0 DEF GateInv, CallsInOrder
<1>3. BackgroundReachable'
  BY <1>1, <1>2 DEF BackgroundReachable, Call, bgVars
<1>4. SettledShutdown'
  BY <1>0 DEF SettledShutdown, Call, bgVars
<1>5. QED
  BY <1>3, <1>4

(* An Init call's step, startInit included, moves no call back to "none". *)
LEMMA InitStepMoves ==
  ASSUME TypeOK, NEW i \in Inits, InitStep(i)
  PROVE  /\ UNCHANGED <<calls, sd, cronStopped>>
         /\ \A j \in Inits : j # i => initPC'[j] = initPC[j]
         /\ initPC[i] # "none" => initPC'[i] # "none"
         /\ ~CronExits(i) => initPC[i] \notin {"none", "returned"}
<1>1. UNCHANGED <<calls, sd, cronStopped>>
  BY DEF InitStep, StartInit, HookReturns, HookFails, SidecarStarts, SidecarFails, Fail,
         StashSupervisor, StoreReady, CloseDone, StartCron, LaunchCron, CronExits, initVars, bgVars
<1>2. \A j \in Inits : j # i => initPC'[j] = initPC[j]
  BY DEF TypeOK, InitTypeOK, InitStep, StartInit, HookReturns, HookFails, SidecarStarts,
         SidecarFails, Fail, StashSupervisor, StoreReady, CloseDone, StartCron, LaunchCron,
         CronExits, Step, initVars
<1>3. initPC[i] # "none" => initPC'[i] # "none"
  BY DEF TypeOK, InitTypeOK, InitStep, StartInit, HookReturns, HookFails, SidecarStarts,
         SidecarFails, Fail, StashSupervisor, StoreReady, CloseDone, StartCron, LaunchCron,
         CronExits, AfterCron, Step, initVars
<1>4. ~CronExits(i) => initPC[i] \notin {"none", "returned"}
  BY DEF InitStep, StartInit, HookReturns, HookFails, SidecarStarts, SidecarFails, Fail,
         StashSupervisor, StoreReady, CloseDone, StartCron, LaunchCron, Step
<1>5. QED
  BY <1>1, <1>2, <1>3, <1>4

LEMMA InitStepReachable ==
  ASSUME TypeOK, GateInv, BackgroundReachable, NEW i \in Inits, InitStep(i)
  PROVE  BackgroundReachable'
<1>0. i # 0
  BY DEF Inits
<1>1. CASE CronExits(i)
  BY <1>1 DEF BackgroundReachable, CronExits, initVars
<1>2. CASE SidecarStarts(i)
  <2>1. /\ initPC[i] = "sidecar" /\ initPC'[i] = "stash" /\ sidecars' = sidecars \cup {i}
        /\ UNCHANGED <<cron, cronCancel, supervisor>>
    BY <1>2 DEF TypeOK, InitTypeOK, SidecarStarts, Step
  <2>2. QED
    BY <2>1, InitStepMoves DEF BackgroundReachable
<1>3. CASE StashSupervisor(i)
  <2>1. /\ initPC[i] = "stash" /\ initPC'[i] = "store" /\ supervisor' = i
        /\ UNCHANGED <<cron, cronCancel, sidecars>>
    BY <1>3 DEF TypeOK, InitTypeOK, StashSupervisor, Step
  <2>2. QED
    BY <1>0, <2>1, InitStepMoves DEF BackgroundReachable
<1>4. CASE StartCron(i)
  <2>1. /\ initPC[i] = "cron" /\ initPC'[i] \in {"launch", "returned", "close"}
        /\ UNCHANGED <<cron, supervisor, sidecars>>
        /\ cronCancel' = i \/ (initPC'[i] # "launch" /\ cronCancel' = cronCancel)
    BY <1>4 DEF TypeOK, InitTypeOK, StartCron, Step, AfterCron
  <2>2. QED
    BY <1>0, <2>1, InitStepMoves DEF BackgroundReachable
<1>5. CASE LaunchCron(i)
  <2>1. /\ initPC[i] = "launch" /\ initPC'[i] \in {"returned", "close"}
        /\ cron' = cron \cup {i} /\ UNCHANGED <<cronCancel, supervisor, sidecars>>
    BY <1>5 DEF TypeOK, InitTypeOK, LaunchCron, Step, AfterCron
  <2>2. QED
    BY <2>1, InitStepMoves DEF BackgroundReachable
<1>6. CASE \/ StartInit(i) \/ HookReturns(i) \/ HookFails(i) \/ SidecarFails(i)
           \/ StoreReady(i) \/ CloseDone(i)
  <2>1. /\ initPC[i] # "stash" /\ initPC'[i] # "launch"
        /\ UNCHANGED <<cron, cronCancel, supervisor, sidecars>>
    BY <1>6 DEF TypeOK, InitTypeOK, StartInit, HookReturns, HookFails, SidecarFails, Fail,
           StoreReady, CloseDone, Step, bgVars
  <2>2. QED
    BY <2>1, InitStepMoves DEF BackgroundReachable
<1>7. QED
  BY <1>1, <1>2, <1>3, <1>4, <1>5, <1>6 DEF InitStep

(* With one call, which is over, an Init call can only see a cron goroutine *)
(* of it exit.                                                              *)
LEMMA InitStepSettled ==
  ASSUME TypeOK, GateInv, SettledShutdown, NEW i \in Inits, InitStep(i)
  PROVE  SettledShutdown'
<1>1. UNCHANGED <<calls, sd, cronStopped>>
  BY InitStepMoves
<1>2. CASE CronExits(i)
  BY <1>1, <1>2 DEF SettledShutdown, CronExits, initVars
<1>3. CASE ~CronExits(i)
  <2>1. initPC[i] \notin {"none", "returned"}
    BY <1>3, InitStepMoves
  <2>2. calls = 1 => i = 1
    BY <2>1 DEF GateInv, CallsInOrder, Inits
  <2>3. ~(sd.settled /\ calls = 1)
    BY <2>1, <2>2 DEF SettledShutdown
  <2>4. QED
    BY <1>1, <2>3 DEF SettledShutdown
<1>4. QED
  BY <1>2, <1>3

LEMMA ShutdownBackground ==
  ASSUME TypeOK, GateInv, BackgroundReachable, SettledShutdown, ShutdownStep
  PROVE  BackgroundReachable' /\ SettledShutdown'
<1>0. /\ UNCHANGED <<calls, initPC, cron, cronCancel, supervisor>>
      /\ sidecars' \subseteq sidecars /\ cronStopped \subseteq cronStopped'
  BY DEF ShutdownStep, ShutdownBegins, CancelCron, StopSidecar, CloseListener, ShutdownReturns,
         initVars, bgVars
<1>1. BackgroundReachable'
  BY <1>0 DEF BackgroundReachable
(* With one call made, all that runs in the background is that call's. *)
<1>2. calls = 1 => /\ cron \subseteq {1} /\ sidecars \subseteq {1}
                   /\ cronCancel \in {0, 1} /\ supervisor \in {0, 1}
  <2>1. calls = 1 => \A j \in Inits : initPC[j] # "none" => j = 1
    BY DEF GateInv, CallsInOrder, Inits
  <2>2. (cronCancel = 0 \/ cronCancel \in Inits) /\ (supervisor = 0 \/ supervisor \in Inits)
    BY DEF TypeOK, BackgroundTypeOK, Chans, Inits
  <2>3. QED
    BY <2>1, <2>2 DEF BackgroundReachable, TypeOK, BackgroundTypeOK
<1>3. CASE ShutdownBegins
  <2>1. /\ sd'.at = "cron" /\ sd'.cancel = cronCancel /\ sd'.sup = supervisor
        /\ sd'.settled = (calls = 1 /\ initPC[1] = "returned") /\ calls > 0
    BY <1>3 DEF ShutdownBegins
  <2>2. QED
    BY <1>0, <1>1, <2>1 DEF SettledShutdown
<1>4. CASE CancelCron
  <2>1. /\ sd.at = "cron" /\ sd'.at = "sidecar" /\ sd'.settled = sd.settled /\ sd'.sup = sd.sup
        /\ cronStopped' = IF sd.cancel = 0 THEN cronStopped ELSE cronStopped \cup {sd.cancel}
    BY <1>4 DEF CancelCron, TypeOK, BackgroundTypeOK
  <2>2. (sd.settled /\ calls = 1) => cron \subseteq cronStopped'
    BY <1>2, <2>1 DEF SettledShutdown, BackgroundReachable, TypeOK, BackgroundTypeOK
  <2>3. QED
    BY <1>0, <1>1, <2>1, <2>2 DEF SettledShutdown
<1>5. CASE StopSidecar
  <2>1. /\ sd.at = "sidecar" /\ sd'.at \in {"done", "listener"} /\ sd'.settled = sd.settled
        /\ sidecars' = sidecars \ {sd.sup} /\ cronStopped' = cronStopped
    BY <1>5 DEF StopSidecar, Finished, TypeOK, BackgroundTypeOK
  <2>2. (sd.settled /\ calls = 1) => sidecars' = {}
    BY <1>2, <2>1 DEF SettledShutdown, BackgroundReachable, TypeOK, BackgroundTypeOK
  <2>3. QED
    BY <1>0, <1>1, <2>1, <2>2 DEF SettledShutdown
<1>6. CASE CloseListener \/ ShutdownReturns
  <2>1. /\ sd.at \in {"listener", "drain"} /\ sd'.at \in {"drain", "done"}
        /\ sd'.settled = sd.settled /\ UNCHANGED <<sidecars, cronStopped>>
    BY <1>6 DEF CloseListener, ShutdownReturns, Finished, TypeOK, BackgroundTypeOK, bgVars
  <2>2. QED
    BY <1>0, <1>1, <2>1 DEF SettledShutdown
<1>7. QED
  BY <1>3, <1>4, <1>5, <1>6 DEF ShutdownStep

LEMMA BackgroundStep ==
  TypeOK /\ GateInv /\ BackgroundReachable /\ SettledShutdown /\ [Next]_vars
    => BackgroundReachable' /\ SettledShutdown'
<1>1. ASSUME NEW r \in Requests, TypeOK, RequestStep(r)
      PROVE  UNCHANGED <<initPC, calls, bgVars, sd>>
  BY <1>1, RequestStepShape DEF initVars
<1>2. MainStep => UNCHANGED <<initPC, calls, bgVars, sd>>
  BY DEF MainStep, SyncReturn, BindServer, Listen, ListenFails, ServeReturns, ServeOwn, initVars
<1>3. UNCHANGED vars => UNCHANGED <<initPC, calls, bgVars, sd>>
  BY DEF vars, initVars
<1>4. QED
  BY <1>1, <1>2, <1>3, QuietBackground, CallBackground, InitStepReachable, InitStepSettled,
     ShutdownBackground
  DEF Next, RequestStep

(* A Shutdown that begins after the only Init call is over leaves nothing   *)
(* of it running: every cron goroutine has been told to stop and the        *)
(* sidecar is gone, whichever listener served and whenever requests came.   *)
THEOREM ShutdownLeavesNothing == Spec => []ShutdownStopsBackground
<1>1. Init => BackgroundReachable /\ SettledShutdown
  BY BoundPositive DEF Init, BackgroundReachable, SettledShutdown, Inits
<1>2. SettledShutdown => ShutdownStopsBackground
  BY DEF SettledShutdown, ShutdownStopsBackground
<1>3. QED
  BY <1>1, <1>2, TypeInit, TypeStep, GateInit, GateInvStep, BackgroundStep, PTL DEF Spec

-----------------------------------------------------------------------------
(* The scan and the start.                                                 *)

(* Two registered directories of one pattern have one shape, and both claim *)
(* it, so the scan reports a conflict.                                      *)
LEMMA ConflictFound ==
  ASSUME NEW d \in Registered, NEW e \in Registered, d # e,
         ParsedSegments(d.path) = ParsedSegments(e.path)
  PROVE  "conflict" \in Diagnostics
<1>1. "conflict" \in detectPatternConflicts
  BY DEF Registered, detectPatternConflicts
<1>2. QED
  BY <1>1 DEF Diagnostics

LEMMA UnknownMatcherFound ==
  ASSUME NEW d \in Registered, NEW s \in ToSet(ParsedSegments(d.path)),
         s.matcher # 0, s.matcher \notin DOMAIN Accepts
  PROVE  "unknownMatcher" \in Diagnostics
<1>1. DOMAIN Accepts = DOMAIN BuiltIn \cup discoverMatchers
  BY DEF Accepts
<1>2. d \in walkRoutes
  BY DEF Registered
<1>3. "unknownMatcher" \in validateMatcherRefs
  BY <1>1, <1>2 DEF validateMatcherRefs
<1>4. QED
  BY <1>3 DEF Diagnostics

LEMMA RouteSegments ==
  ASSUME NEW d PROVE buildRoute(d).segments = ParsedSegments(d.path)
BY DEF buildRoute

LEMMA StartableStep ==
  ASSUME AcceptedStartable, [ScanNext]_scanVars
  PROVE  AcceptedStartable'
<1>1. CASE Scan
  <2>1. SUFFICES ASSUME status' = "built" PROVE (~Duplicate /\ WithMatchers)'
    BY DEF AcceptedStartable
  <2>2. /\ \A diag \in Diagnostics : ~isFatalDiagnostic(diag)
        /\ scanned' = {buildRoute(d) : d \in Registered}
    BY <1>1, <2>1 DEF Scan
  <2>3. "conflict" \notin Diagnostics /\ "unknownMatcher" \notin Diagnostics
    BY <2>2 DEF isFatalDiagnostic
  <2>4. ASSUME NEW r \in scanned', NEW q \in scanned', r # q, r.segments = q.segments
        PROVE  FALSE
    <3>1. PICK d \in Registered : r = buildRoute(d)
      BY <2>2, <2>4
    <3>2. PICK e \in Registered : q = buildRoute(e)
      BY <2>2, <2>4
    <3>3. QED
      BY <2>3, <2>4, <3>1, <3>2, RouteSegments, ConflictFound
  <2>5. ASSUME NEW r \in scanned', NEW s \in ToSet(r.segments), s.matcher # 0
        PROVE  s.matcher \in DOMAIN Accepts
    <3>1. PICK d \in Registered : r = buildRoute(d)
      BY <2>2, <2>5
    <3>2. QED
      BY <2>3, <2>5, <3>1, RouteSegments, UnknownMatcherFound
  <2>6. QED
    BY <2>4, <2>5 DEF Duplicate, WithMatchers
<1>2. CASE Start
  BY <1>2 DEF Start, AcceptedStartable
<1>3. ASSUME NEW d \in Catalogue, EditRoutes(d)
      PROVE  AcceptedStartable'
  BY <1>3 DEF EditRoutes, AcceptedStartable
<1>4. CASE UNCHANGED scanVars
  BY <1>4 DEF scanVars, AcceptedStartable, Duplicate, WithMatchers
<1>5. QED
  BY <1>1, <1>2, <1>3, <1>4 DEF ScanNext

(* server.New never refuses what the build let through: whatever the         *)
(* directories, their files and the matchers of src/params, a project        *)
(* without a fatal diagnostic has no pattern registered twice and no matcher *)
(* missing at startup.                                                       *)
THEOREM AcceptedProjectsStart == ScanSpec => []AcceptedProjectStarts
<1>1. ScanInit => AcceptedStartable /\ AcceptedProjectStarts
  BY DEF ScanInit, AcceptedStartable, AcceptedProjectStarts
<1>2. AcceptedStartable /\ AcceptedProjectStarts /\ [ScanNext]_scanVars => AcceptedProjectStarts'
  BY DEF AcceptedStartable, AcceptedProjectStarts, ScanNext, EditRoutes, Scan, Start, scanVars
<1>3. QED
  BY <1>1, <1>2, StartableStep, PTL DEF ScanSpec

-----------------------------------------------------------------------------
(* The captures of a match.                                                *)

LEMMA CapturesPushed ==
  ASSUME NEW C, NEW s \in Seq(C), NEW c \in C, NEW st, Captures(C, st, s)
  PROVE  Captures(C, push(st, c), Append(s, c))
<1> DEFINE t == Append(s, c)
           q == push(st, c)
<1>1. /\ t \in Seq(C) /\ Len(t) = Len(s) + 1 /\ t[Len(s) + 1] = c
      /\ \A i \in 1..Len(s) : t[i] = s[i]
  OBVIOUS
<1>2. /\ st.caps \in [1..MaxStackParams -> C \cup {<<>>}] /\ st.n = Len(s) /\ Len(s) \in Nat
      /\ st.over \in Seq(C) /\ Len(st.over) = Overflow(Len(s))
      /\ \A i \in 1..Len(s) : at(st, i) = s[i]
      /\ st \in [caps : [1..MaxStackParams -> C \cup {<<>>}], n : Nat, over : Seq(C)]
  BY DEF Captures
<1>3. CASE Len(s) < MaxStackParams
  <2> DEFINE k == [st.caps EXCEPT ![Len(s) + 1] = c]
  <2>0. /\ k \in [1..MaxStackParams -> C \cup {<<>>}] /\ k[Len(s) + 1] = c
        /\ \A i \in 1..Len(s) : k[i] = st.caps[i]
    <3> DEFINE D == C \cup {<<>>}
    <3>1. st.caps \in [1..MaxStackParams -> D] /\ c \in D /\ Len(s) + 1 \in 1..MaxStackParams
      BY <1>2, <1>3, StackAssumption
    <3> HIDE DEF D
    <3>2. k \in [1..MaxStackParams -> D] /\ k[Len(s) + 1] = c
      BY <3>1
    <3>3. ASSUME NEW i \in 1..Len(s) PROVE k[i] = st.caps[i]
      <4>1. i # Len(s) + 1 /\ i \in 1..MaxStackParams
        BY <1>2, <1>3, StackAssumption
      <4>2. QED
        BY <3>1, <4>1
    <3>4. QED
      BY <3>2, <3>3 DEF D
  <2>1. q = [caps |-> k, n |-> Len(s) + 1, over |-> st.over]
    BY <1>2, <1>3 DEF push
  <2> HIDE DEF k, q
  <2>5. /\ q.caps = k /\ q.n = Len(s) + 1 /\ q.over = st.over
        /\ q \in [caps : [1..MaxStackParams -> C \cup {<<>>}], n : Nat, over : Seq(C)]
    BY <1>2, <2>0, <2>1
  <2>2. Overflow(Len(s)) = 0 /\ Overflow(Len(s) + 1) = 0
    BY <1>2, <1>3, StackAssumption DEF Overflow
  <2> HIDE DEF t
  <2>3. ASSUME NEW i \in 1..Len(t) PROVE at(q, i) = t[i]
    <3>1. i \in 1..MaxStackParams /\ at(q, i) = q.caps[i] /\ at(st, i) = st.caps[i]
      BY <1>1, <1>2, <1>3, StackAssumption DEF at
    <3>2. CASE i = Len(s) + 1
      BY <1>1, <2>0, <2>5, <3>1, <3>2
    <3>3. CASE i # Len(s) + 1
      BY <1>1, <1>2, <2>0, <2>5, <3>1, <3>3
    <3>4. QED
      BY <3>2, <3>3
  <2>4. QED
    BY <1>1, <1>2, <2>2, <2>3, <2>5 DEF Captures, t, q
<1>4. CASE ~(Len(s) < MaxStackParams)
  <2> DEFINE o == Append(st.over, c)
  <2>1. q = [caps |-> st.caps, n |-> Len(s) + 1, over |-> o]
    BY <1>2, <1>4 DEF push
  <2>2. Overflow(Len(s)) = Len(s) - MaxStackParams /\ Overflow(Len(s) + 1) = Len(s) + 1 - MaxStackParams
    BY <1>2, <1>4, StackAssumption DEF Overflow
  <2>3. /\ o \in Seq(C) /\ Len(o) = Len(s) + 1 - MaxStackParams
        /\ o[Len(s) + 1 - MaxStackParams] = c
        /\ \A i \in 1..Len(s) - MaxStackParams : o[i] = st.over[i]
    <3> DEFINE w == st.over
    <3>1. w \in Seq(C) /\ Len(w) = Len(s) - MaxStackParams
      BY <1>2, <2>2
    <3> HIDE DEF w
    <3>2. /\ Append(w, c) \in Seq(C) /\ Len(Append(w, c)) = Len(w) + 1
          /\ Append(w, c)[Len(w) + 1] = c /\ \A i \in 1..Len(w) : Append(w, c)[i] = w[i]
      BY <3>1
    <3>3. Len(w) + 1 = Len(s) + 1 - MaxStackParams
      BY <1>2, <3>1, StackAssumption
    <3>4. QED
      BY <3>1, <3>2, <3>3 DEF w
  <2> HIDE DEF o, q
  <2>4. /\ q.caps = st.caps /\ q.n = Len(s) + 1 /\ q.over = o
        /\ q \in [caps : [1..MaxStackParams -> C \cup {<<>>}], n : Nat, over : Seq(C)]
    BY <1>2, <2>1, <2>3
  <2> HIDE DEF t
  <2>5. ASSUME NEW i \in 1..Len(t) PROVE at(q, i) = t[i]
    <3>1. CASE i = Len(s) + 1
      <4>1. at(q, i) = o[i - MaxStackParams]
        BY <1>2, <1>4, <2>4, <3>1, StackAssumption DEF at
      <4>2. i - MaxStackParams = Len(s) + 1 - MaxStackParams
        BY <1>2, <3>1, StackAssumption
      <4>3. QED
        BY <1>1, <2>3, <3>1, <4>1, <4>2
    <3>2. CASE i # Len(s) + 1
      <4>1. i \in 1..Len(s)
        BY <1>1, <1>2, <3>2
      <4>2. at(q, i) = at(st, i)
        BY <1>2, <1>4, <2>3, <2>4, <4>1, StackAssumption DEF at
      <4>3. QED
        BY <1>1, <1>2, <4>1, <4>2
    <3>3. QED
      BY <3>1, <3>2
  <2>6. QED
    BY <1>1, <1>2, <2>2, <2>3, <2>4, <2>5 DEF Captures, t, q
<1>5. QED
  BY <1>3, <1>4

LEMMA CapturesTruncated ==
  ASSUME NEW C, NEW s \in Seq(C), NEW to \in 0..Len(s), NEW st, Captures(C, st, s)
  PROVE  Captures(C, truncate(st, to), SubSeq(s, 1, to))
<1> DEFINE t == SubSeq(s, 1, to)
           q == truncate(st, to)
<1>1. /\ t \in Seq(C) /\ Len(t) = to /\ Len(s) \in Nat /\ to \in Nat /\ to <= Len(s)
      /\ \A i \in 1..to : t[i] = s[i]
  OBVIOUS
<1>2. /\ st \in [caps : [1..MaxStackParams -> C \cup {<<>>}], n : Nat, over : Seq(C)]
      /\ st.over \in Seq(C) /\ Len(st.over) = Overflow(Len(s))
      /\ \A i \in 1..Len(s) : at(st, i) = s[i]
  BY DEF Captures
<1>3. Overflow(to) = (IF to < MaxStackParams THEN 0 ELSE to - MaxStackParams)
      /\ Overflow(to) \in Nat /\ Overflow(to) <= Overflow(Len(s))
  BY <1>1, StackAssumption DEF Overflow
<1> DEFINE kept == IF Overflow(to) < Len(st.over) THEN SubSeq(st.over, 1, Overflow(to)) ELSE st.over
<1>4. kept \in Seq(C) /\ Len(kept) = Overflow(to) /\ \A i \in 1..Overflow(to) : kept[i] = st.over[i]
  BY <1>2, <1>3
<1>5. q = [st EXCEPT !.n = to, !.over = kept]
  BY <1>2, <1>3 DEF truncate
<1> HIDE DEF t, q, kept
<1>6. /\ q.caps = st.caps /\ q.n = to /\ q.over = kept
      /\ q \in [caps : [1..MaxStackParams -> C \cup {<<>>}], n : Nat, over : Seq(C)]
  BY <1>1, <1>2, <1>4, <1>5
<1>7. ASSUME NEW i \in 1..to PROVE at(q, i) = t[i]
  <2>1. at(q, i) = at(st, i)
    BY <1>1, <1>3, <1>4, <1>6, StackAssumption DEF at
  <2>2. QED
    BY <1>1, <1>2, <2>1
<1>8. QED
  BY <1>1, <1>4, <1>6, <1>7 DEF Captures, t, q

(* matchState, for every size of the fixed array: the state represents the  *)
(* captures of the branch under search.  Pushing a capture appends it,      *)
(* cutting back to an earlier count leaves exactly the captures there were  *)
(* then, whichever side of the array's end the two counts lie, and reading  *)
(* the captures back gives them in order.                                   *)
THEOREM CapturesBacktrack ==
  ASSUME NEW C, NEW s \in Seq(C), NEW st, Captures(C, st, s)
  PROVE  /\ Captures(C, NoCaptures, <<>>)
         /\ \A c \in C : Captures(C, push(st, c), Append(s, c))
         /\ \A to \in 0..Len(s) : Captures(C, truncate(st, to), SubSeq(s, 1, to))
         /\ [i \in 1..st.n |-> at(st, i)] = s
<1>1. Captures(C, NoCaptures, <<>>)
  BY StackAssumption DEF Captures, NoCaptures, Overflow
<1>2. [i \in 1..st.n |-> at(st, i)] = s
  BY DEF Captures
<1>3. QED
  BY <1>1, <1>2, CapturesPushed, CapturesTruncated
=============================================================================
