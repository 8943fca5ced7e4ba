-------------------------- MODULE RequestPipeline ---------------------------
(***************************************************************************)
(* The request pipeline (packages/sveltego/server/pipeline.go, errors.go,  *)
(* actions.go, csrf.go): the user's Handle hook around resolve, the match, *)
(* load and render path, the error path, the write of the response, the    *)
(* After callbacks, and the pool of render buffers (render/render.go) that *)
(* concurrent requests share.                                              *)
(*                                                                         *)
(* renderPage hands out a Response whose body aliases a pooled buffer; the *)
(* request keeps that buffer in pageBuf until the response is written.     *)
(* What a page contains is the pair of the request and the resolve call    *)
(* that rendered it.  User code (hooks, loads, actions, components) may    *)
(* return any error and may panic.                                         *)
(***************************************************************************)
EXTENDS Integers, Sequences, FiniteSets

CONSTANTS
  Requests,      \* concurrent requests
  Buffers,       \* the render.Writers that exist
  NoBuf,         \* a nil *render.Writer, and a body of its own
  MaxResolves,   \* bound on the resolve calls of one Handle hook
  KeepsEarlier   \* Handle may return a Response of an earlier resolve call

ASSUME PipelineAssumption ==
  /\ NoBuf \notin Buffers
  /\ MaxResolves \in Nat \ {0}
  /\ KeepsEarlier \in BOOLEAN

VARIABLES
  req,      \* the state of each request
  pool,     \* the buffers in the pool
  content   \* what was last rendered into each buffer

vars == <<req, pool, content>>

Phases == {"idle", "hook", "match", "csrf", "action", "load", "head", "headed",
           "render", "stream", "error", "boundary", "write", "after", "release", "done"}
Uses == {"none", "data", "shell", "page"}

(* The errors handlePipelineError answers by itself (a redirect, an HTTP    *)
(* error, a Fail), those it takes to the error boundary, and the two        *)
(* sentinels errServerRouteWrote and errStreamingWrote.                     *)
UserErrors == {"plain", "safe"}
Errors == UserErrors \cup {"none", "wrote"}

(* A call of WriteHeader, by whoever answers; "broken" when a handler or a  *)
(* streamed page fails after it.                                            *)
Writers == {"sent", "broken"}

Bodies == [buf : Buffers \cup {NoBuf}, gen : 0..MaxResolves]
Own == [buf |-> NoBuf, gen |-> 0]

RequestState ==
  [at : Phases, resolves : 0..MaxResolves, resps : Seq(Bodies), result : Bodies,
   err : Errors, use : Uses, buf : Buffers \cup {NoBuf}, pageBuf : Buffers \cup {NoBuf},
   matched : BOOLEAN, answers : Seq(Writers),
   after : {"none", "queued", "ran", "dropped"}]

TypeOK ==
  /\ req \in [Requests -> RequestState]
  /\ pool \subseteq Buffers
  /\ content \in [Buffers -> (Requests \X (0..MaxResolves)) \cup {NoBuf}]

Init ==
  /\ req = [r \in Requests |->
              [at |-> "idle", resolves |-> 0, resps |-> <<>>, result |-> Own,
               err |-> "none", use |-> "none", buf |-> NoBuf, pageBuf |-> NoBuf,
               matched |-> FALSE, answers |-> <<>>, after |-> "none"]]
  /\ pool = Buffers
  /\ content = [b \in Buffers |-> NoBuf]

(* render.Acquire and render.Release.  Release resets the length only: the  *)
(* bytes stay until the next owner writes over them.                        *)
Acquire(r, b) ==
  /\ b \in pool
  /\ pool' = pool \ {b}
  /\ content' = [content EXCEPT ![b] = <<r, req[r].resolves>>]

Release(bufs) ==
  /\ pool' = pool \cup (bufs \ {NoBuf})
  /\ UNCHANGED content

NoPool == UNCHANGED <<pool, content>>

-----------------------------------------------------------------------------
(* handle and the Handle hook.                                             *)

(* The hook may queue After callbacks before it does anything else. *)
Start(r) ==
  /\ req[r].at = "idle"
  /\ \E a \in {"none", "queued"} : req' = [req EXCEPT ![r].at = "hook", ![r].after = a]
  /\ NoPool

(* The hook leaves the sentinels alone; any other error it may drop. *)
InHook(r) == req[r].at = "hook" /\ req[r].err # "wrote"

CallResolve(r) ==
  /\ InHook(r) /\ req[r].resolves < MaxResolves
  /\ req' = [req EXCEPT ![r].at = "match", ![r].resolves = @ + 1, ![r].err = "none"]
  /\ NoPool

(* What the hook kept goes out of scope when it returns. *)
HookReturned(r) == [req EXCEPT ![r].resps = <<>>, ![r].resolves = 0, ![r].err = "none"]

(* The hook answers without, or instead of, a Response of resolve. *)
ShortCircuit(r) ==
  /\ InHook(r)
  /\ req' = [HookReturned(r) EXCEPT ![r].at = "write"]
  /\ NoPool

Returnable(r) ==
  LET resps == req[r].resps
  IN  IF KeepsEarlier THEN {resps[n] : n \in DOMAIN resps}
      ELSE IF resps # <<>> /\ req[r].err = "none" THEN {resps[Len(resps)]} ELSE {}

ReturnResponseReleased(r) ==
  /\ InHook(r)
  /\ \E res \in Returnable(r) :
       req' = [HookReturned(r) EXCEPT ![r].at = "write", ![r].result = res, ![r].pageBuf = NoBuf]
  /\ Release({req[r].pageBuf})

ReturnResponse(r) ==
  /\ InHook(r)
  /\ \E res \in Returnable(r) :
       req' = [HookReturned(r) EXCEPT ![r].at = "write", ![r].result = res]
  /\ NoPool

(* (nil, nil): handle returns at once. *)
ReturnNothing(r) ==
  /\ InHook(r)
  /\ req' = [HookReturned(r) EXCEPT ![r].at = "release", ![r].after = "dropped"]
  /\ NoPool

(* The hook returns an error, its own or resolve's, or it panics.  The      *)
(* sentinels go straight to the After callbacks.  (ReturnErrorUnchecked     *)
(* does not know them, ReturnErrorNoDrain returns at once.)                 *)
ReturnErrorUnchecked(r) ==
  /\ req[r].at = "hook"
  /\ \E e \in UserErrors : req' = [HookReturned(r) EXCEPT ![r].at = "error", ![r].err = e]
  /\ NoPool

ReturnErrorAfter(r, sentinel) ==
  /\ req[r].at = "hook"
  /\ \/ /\ req[r].err = "wrote"
        /\ req' = [HookReturned(r) EXCEPT ![r].at = sentinel]
     \/ /\ req[r].err # "wrote"
        /\ \E e \in UserErrors : req' = [HookReturned(r) EXCEPT ![r].at = "error", ![r].err = e]
  /\ NoPool

ReturnErrorNoDrain(r) == ReturnErrorAfter(r, "release")
ReturnError(r) == ReturnErrorAfter(r, "after")

-----------------------------------------------------------------------------
(* resolve.                                                                *)

(* resolve returns a Response, or an error, to the hook. *)
Resolved(r, res) ==
  /\ req' = [req EXCEPT ![r].at = "hook", ![r].use = "none", ![r].resps = Append(@, res)]
  /\ NoPool

Failed(r, e) ==
  /\ req' = [req EXCEPT ![r].at = "hook", ![r].use = "none", ![r].err = e]
  /\ NoPool

NoMatch(r) == req[r].at = "match" /\ Failed(r, "safe")

(* A route that matches: trailing-slash redirect, a server route, a route   *)
(* without a page, a data request or a page request.                        *)
Match(r) ==
  /\ req[r].at = "match"
  /\ \E to \in {"slash", "load", "csrf"} :
       req' = [req EXCEPT ![r].matched = TRUE,
                          ![r].at = IF to = "slash" THEN "hook" ELSE to,
                          ![r].resps = IF to = "slash" THEN Append(@, Own) ELSE @,
                          ![r].use = IF to = "load" THEN "data" ELSE "none"]
  /\ NoPool

(* The handler of a server route, or the 405, writes; the handler may panic *)
(* before or after it has.                                                  *)
MatchServer(r) ==
  /\ req[r].at = "match"
  /\ \/ req' = [req EXCEPT ![r].matched = TRUE, ![r].at = "hook", ![r].err = "wrote",
                           ![r].answers = Append(@, "sent")]
     \/ \E sent \in {<<>>, <<"broken">>} :
          req' = [req EXCEPT ![r].matched = TRUE, ![r].at = "error", ![r].err = "safe",
                             ![r].answers = @ \o sent]
  /\ NoPool

MatchNoPage(r) ==
  /\ req[r].at = "match"
  /\ req' = [req EXCEPT ![r].matched = TRUE, ![r].at = "hook", ![r].err = "safe"]
  /\ NoPool

(* applyCSRF rejects a POST, or lets it on to dispatchAction; a GET goes on *)
(* to the page.                                                             *)
ToPage(r) ==
  \/ \E u \in {"shell", "page"} :
       req' = [req EXCEPT ![r].at = "load", ![r].use = u] /\ NoPool
  \/ Resolved(r, Own)     \* renderEmptyShell

Csrf(r) ==
  /\ req[r].at = "csrf"
  /\ \/ Resolved(r, Own)  \* forbidden
     \/ req' = [req EXCEPT ![r].at = "action"] /\ NoPool
     \/ ToPage(r)

(* dispatchAction: a Response (an enhanced submission always gets one), an  *)
(* error, or form data for the page.                                        *)
Action(r) ==
  /\ req[r].at = "action"
  /\ Resolved(r, Own) \/ Failed(r, "safe") \/ ToPage(r)

(* The load chain fails: its error goes back to the hook.  (SSROnly makes a *)
(* data request a 404, another method a 405.)                               *)
LoadFails(r) ==
  /\ req[r].at = "load"
  /\ \E e \in UserErrors : Failed(r, e)

DataReturns(r) == req[r].at = "load" /\ req[r].use = "data" /\ Resolved(r, Own)

(* A panic on the way is recovered by runHandle, past the hook. *)
UserPanics(r) ==
  /\ req[r].at \in {"action", "load"}
  /\ req' = [req EXCEPT ![r].at = "error", ![r].err = "safe", ![r].use = "none"]
  /\ NoPool

(* The load chain succeeds.  gatherHead, when the route has a head handler, *)
(* renders into a buffer of its own and copies the bytes out.               *)
BeginHead(r) ==
  /\ req[r].at = "load" /\ req[r].use = "page"
  /\ \E b \in Buffers :
       /\ Acquire(r, b)
       /\ req' = [req EXCEPT ![r].at = "head", ![r].buf = b]

FinishHead(r) ==
  /\ req[r].at = "head"
  /\ req' = [req EXCEPT ![r].at = "headed", ![r].buf = NoBuf]
  /\ Release({req[r].buf})

(* Render into a buffer.  A page with streams sends its header first.       *)
BeginRender(r) ==
  /\ \/ req[r].at = "load" /\ req[r].use \in {"shell", "page"}
     \/ req[r].at = "headed"
  /\ \E b \in Buffers :
       /\ Acquire(r, b)
       /\ req' = [req EXCEPT ![r].at = "render", ![r].buf = b]

BeginStream(r) ==
  /\ req[r].at \in {"load", "headed"} /\ req[r].use = "page"
  /\ \E b \in Buffers :
       /\ Acquire(r, b)
       /\ req' = [req EXCEPT ![r].at = "stream", ![r].buf = b,
                             ![r].answers = Append(@, "sent")]

(* The component or the head handler fails: the deferred Release, and the   *)
(* error to the hook; or it panics.                                         *)
RenderFails(r) ==
  /\ req[r].at \in {"head", "render"}
  /\ \E to \in {"hook", "error"} :
       req' = [req EXCEPT ![r].at = to, ![r].err = "safe", ![r].buf = NoBuf,
                          ![r].use = "none"]
  /\ Release({req[r].buf})

(* renderSvelteShell copies the bytes and releases the buffer. *)
FinishShell(r) ==
  /\ req[r].at = "render" /\ req[r].use = "shell"
  /\ req' = [req EXCEPT ![r].at = "hook", ![r].use = "none", ![r].buf = NoBuf,
                        ![r].resps = Append(@, Own)]
  /\ Release({req[r].buf})

(* renderPage releases the buffer of an earlier resolve call and keeps this *)
(* one; the body aliases it.                                                *)
FinishPageReleased(r) ==
  /\ req[r].at = "render" /\ req[r].use = "page"
  /\ req' = [req EXCEPT ![r].at = "hook", ![r].use = "none", ![r].buf = NoBuf,
                        ![r].pageBuf = req[r].buf,
                        ![r].resps = Append(@, [buf |-> req[r].buf, gen |-> req[r].resolves])]
  /\ Release({req[r].pageBuf, req[r].buf})

FinishPage(r) ==
  /\ req[r].at = "render" /\ req[r].use = "page"
  /\ req' = [req EXCEPT ![r].at = "hook", ![r].use = "none", ![r].buf = NoBuf,
                        ![r].pageBuf = req[r].buf,
                        ![r].resps = Append(@, [buf |-> req[r].buf, gen |-> req[r].resolves])]
  /\ Release({req[r].pageBuf})

(* renderStreaming ends: the response is out or the client is gone, or the  *)
(* component or a write failed after WriteHeader.                           *)
FinishStream(r) ==
  /\ req[r].at = "stream"
  /\ \/ req' = [req EXCEPT ![r].at = "hook", ![r].err = "wrote", ![r].buf = NoBuf,
                           ![r].use = "none"]
     \/ \E to \in {"hook", "error"} :
          req' = [req EXCEPT ![r].at = to, ![r].err = "safe", ![r].buf = NoBuf,
                             ![r].use = "none",
                             ![r].answers = [@ EXCEPT ![Len(@)] = "broken"]]
  /\ Release({req[r].buf})

-----------------------------------------------------------------------------
(* handlePipelineError.                                                    *)

AnswerError(r) ==
  [HookReturned(r) EXCEPT ![r].at = "after", ![r].buf = NoBuf, ![r].answers = Append(@, "sent")]

(* A redirect, an HTTP error, a Fail outside an action, a HandleError that  *)
(* short-circuits, or no error boundary: one plain response.                *)
RespondPlain(r) ==
  /\ req[r].at = "error"
  /\ req' = AnswerError(r)
  /\ NoPool

(* The route's error boundary renders into a buffer of its own; if that     *)
(* fails, writeSafeError answers.                                           *)
BeginBoundary(r) ==
  /\ req[r].at = "error" /\ req[r].matched /\ req[r].err = "safe"
  /\ \E b \in Buffers :
       /\ Acquire(r, b)
       /\ req' = [req EXCEPT ![r].at = "boundary", ![r].buf = b]

FinishBoundary(r) ==
  /\ req[r].at = "boundary"
  /\ req' = AnswerError(r)
  /\ Release({req[r].buf})

(* HandleError, the boundary or an After callback panics: net/http recovers *)
(* once the deferred calls have run.                                        *)
Abort(r) ==
  /\ req[r].at \in {"error", "boundary", "after"}
  /\ req' = [HookReturned(r) EXCEPT ![r].at = "release", ![r].buf = NoBuf, ![r].after = "dropped"]
  /\ Release({req[r].buf})

-----------------------------------------------------------------------------
(* The end of handle.                                                      *)

WriteResponse(r) ==
  /\ req[r].at = "write"
  /\ req' = [req EXCEPT ![r].at = "after", ![r].answers = Append(@, "sent"), ![r].result = Own]
  /\ NoPool

DrainAfter(r) ==
  /\ req[r].at = "after"
  /\ req' = [req EXCEPT ![r].at = "release", ![r].after = IF @ = "queued" THEN "ran" ELSE @]
  /\ NoPool

(* The deferred Release of pageBuf, when there is one. *)
Finish(r) ==
  /\ req[r].at = "release"
  /\ req' = [req EXCEPT ![r].at = "done", ![r].pageBuf = NoBuf, ![r].matched = FALSE]
  /\ Release({req[r].pageBuf})

-----------------------------------------------------------------------------
HookStep(r) ==
  \/ Start(r) \/ CallResolve(r) \/ ShortCircuit(r)
  \/ ReturnResponse(r) \/ ReturnNothing(r) \/ ReturnError(r)

ResolveStep(r) ==
  \/ NoMatch(r) \/ Match(r) \/ MatchServer(r) \/ MatchNoPage(r)
  \/ Csrf(r) \/ Action(r) \/ LoadFails(r) \/ DataReturns(r) \/ UserPanics(r)

RenderStep(r) ==
  \/ BeginHead(r) \/ FinishHead(r) \/ BeginRender(r) \/ BeginStream(r) \/ RenderFails(r)
  \/ FinishShell(r) \/ FinishPage(r) \/ FinishStream(r)

EndStep(r) ==
  \/ RespondPlain(r) \/ BeginBoundary(r) \/ FinishBoundary(r) \/ Abort(r)
  \/ WriteResponse(r) \/ DrainAfter(r) \/ Finish(r)

Next ==
  \E r \in Requests : HookStep(r) \/ ResolveStep(r) \/ RenderStep(r) \/ EndStep(r)

Spec == Init /\ [][Next]_vars

-----------------------------------------------------------------------------
Held(r) == {req[r].buf, req[r].pageBuf} \ {NoBuf}

(* The buffers that left the pool are exactly those that requests hold, no  *)
(* two requests hold the same one, no request holds one twice, and a        *)
(* finished request holds none: Acquire and Release balance on every path,  *)
(* errors, panics and repeated resolve calls included.                      *)
PoolConserved ==
  /\ Buffers \ pool = UNION {Held(r) : r \in Requests}
  /\ \A r, q \in Requests : r # q => Held(r) \cap Held(q) = {}
  /\ \A r \in Requests :
       /\ req[r].buf = req[r].pageBuf => req[r].buf = NoBuf
       /\ req[r].at = "done" => Held(r) = {}

(* While a response is being written, the buffer its body aliases still     *)
(* contains the page that was rendered for it ("the writer must outlive     *)
(* writeResponse").                                                         *)
BodyIntact ==
  \A r \in Requests :
    LET res == req[r].result
    IN  req[r].at = "write" /\ res.buf # NoBuf => content[res.buf] = <<r, res.gen>>

(* Header and status go out once: a second WriteHeader happens only after a *)
(* handler or a streamed page that failed with its header already sent.     *)
OneAnswer ==
  \A r \in Requests :
    \A n \in 1..(Len(req[r].answers) - 1) : req[r].answers[n] = "broken"

(* The After callbacks a request queued run after its answer, whichever     *)
(* path that took: a request that is done never leaves them queued, and     *)
(* none ran before an answer.  They are dropped only when the hook returns  *)
(* (nil, nil) or a panic gets past runHandle.                               *)
AfterRuns ==
  \A r \in Requests :
    /\ req[r].at = "done" => req[r].after # "queued"
    /\ req[r].after = "ran" => req[r].answers # <<>>

(* A request is answered once, and then its After callbacks run, on every   *)
(* path through handle: a page, a server route, a stream, the error path    *)
(* and the sentinels (handle, handleError, DrainAfter).                     *)
AnsweredOnceThenAfter == OneAnswer /\ AfterRuns

-----------------------------------------------------------------------------
(* What makes the three inductive.                                         *)

(* A request holds a scratch buffer only while it renders into it, and no   *)
(* page before it starts or after it is done.                               *)
ScratchInUse(r) ==
  /\ req[r].buf # NoBuf <=> req[r].at \in {"head", "render", "stream", "boundary"}
  /\ req[r].at \in {"idle", "done"} => req[r].pageBuf = NoBuf

(* A body that aliases a buffer aliases pageBuf, which still holds its page. *)
BodyHeld(r, res) ==
  res.buf # NoBuf => res.buf = req[r].pageBuf /\ content[res.buf] = <<r, res.gen>>

(* The Response the hook may still return is the one of the last resolve    *)
(* call, provided that it did not fail.                                     *)
BodyReady(r) ==
  /\ req[r].at # "write" => req[r].result = Own
  /\ req[r].at = "idle" => req[r].resps = <<>>
  /\ req[r].at = "render" => content[req[r].buf] = <<r, req[r].resolves>>
  /\ (req[r].at = "hook" /\ req[r].err = "none" /\ req[r].resps # <<>>) =>
       BodyHeld(r, req[r].resps[Len(req[r].resps)])
  /\ req[r].at = "write" => BodyHeld(r, req[r].result)

AllBroken(ans) == \A n \in 1..Len(ans) : ans[n] = "broken"
OneWhole(ans) == \A n \in 1..(Len(ans) - 1) : ans[n] = "broken"

(* An answer is out in the phases that follow one, and in no other. *)
AnswerOut(r) ==
  \/ req[r].at = "hook" /\ req[r].err = "wrote"
  \/ req[r].at \in {"stream", "after"}

AnswersSoFar(r) ==
  /\ req[r].err = "wrote" => req[r].at = "hook"
  /\ OneWhole(req[r].answers)
  /\ AnswerOut(r) => req[r].answers # <<>>
  /\ ~AnswerOut(r) /\ req[r].at \notin {"release", "done"} => AllBroken(req[r].answers)
  /\ req[r].after = "ran" => req[r].at \in {"release", "done"} /\ req[r].answers # <<>>
  /\ req[r].at \in {"release", "done"} => req[r].after # "queued"

PipelineInv ==
  /\ PoolConserved
  /\ \A r \in Requests : ScratchInUse(r) /\ AnswersSoFar(r)

BodyInv == \A r \in Requests : BodyReady(r)
=============================================================================
