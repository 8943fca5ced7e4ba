-------------------------- MODULE StreamingRender ---------------------------
(***************************************************************************)
(* A streamed page: renderStreaming (packages/sveltego/server/pipeline.go) *)
(* sends the shell, then waits for each kit.Streamed value of the page     *)
(* data (exports/kit/streamed.go) in turn and sends a resolve script for   *)
(* it, and closes the document after the last.  It runs against one        *)
(* producer goroutine per stream, the request context and the connection.  *)
(*                                                                         *)
(* A chunk of the document is its position: 0 is the shell with the page,  *)
(* 1..N the resolve scripts in the order collectStreams found the streams, *)
(* N + 1 the tail.                                                         *)
(***************************************************************************)
EXTENDS Integers, Sequences

CONSTANT N   \* how many streams collectStreams found in the page's data

ASSUME StreamsAssumption == N \in Nat \ {0}

VARIABLES
  parent,     \* the context a stream was derived from: the request's or another
  prod,       \* each producer: running, returned a value or an error; nil: no Streamed
  streamCtx,  \* whether the context passed to each producer is done
  ctx,        \* whether the request context is done
  broken,     \* whether the client's connection is gone
  pc,         \* where renderStreaming is
  cur,        \* the stream it is at
  said,       \* what each resolve script says
  buf,        \* the chunks in the render buffer
  wire,       \* the chunks written to the ResponseWriter
  result      \* what renderStreaming returned

streamVars == <<parent, prod, streamCtx>>
renderVars == <<pc, cur, said, buf, wire, result>>
pageVars == <<parent, prod, streamCtx, ctx, broken, pc, cur, said, buf, wire, result>>

Streams == 1..N
Chunks == 0..(N + 1)

StreamTypeOK ==
  /\ parent \in [Streams -> {"request", "other"}]
  /\ prod \in [Streams -> {"nil", "running", "value", "error"}]
  /\ streamCtx \in [Streams -> BOOLEAN]
  /\ ctx \in BOOLEAN /\ broken \in BOOLEAN
  /\ pc \in {"shell", "flushShell", "wait", "check", "flush", "recheck", "tail", "flushTail", "returned"}
  /\ cur \in Streams
  /\ said \in [Streams -> {"nothing", "data", "error", "timeout", "cancelled"}]
  /\ buf \in Seq(Chunks) /\ wire \in Seq(Chunks)
  /\ result \in {"none", "nil", "clientGone", "error"}

(* Load has called StreamCtx for each stream; the goroutines already run. *)
StreamInit ==
  /\ parent \in [Streams -> {"request", "other"}]
  /\ prod \in [Streams -> {"nil", "running"}]
  /\ streamCtx = [s \in Streams |-> FALSE]
  /\ ctx = FALSE /\ broken = FALSE
  /\ pc = "shell" /\ cur = 1
  /\ said = [s \in Streams |-> "nothing"]
  /\ buf = <<>> /\ wire = <<>> /\ result = "none"

-----------------------------------------------------------------------------
(* The producers, the connection and the request context.                  *)

(* fn returns, on its own or because its context is done (StreamedSeq and   *)
(* StreamedChan watch it); the deferred cancel and close follow.            *)
Returns(s) ==
  /\ prod[s] = "running"
  /\ \E v \in {"value", "error"} : prod' = [prod EXCEPT ![s] = v]
  /\ streamCtx' = [streamCtx EXCEPT ![s] = TRUE]
  /\ UNCHANGED <<parent, ctx, broken>>
  /\ UNCHANGED renderVars

(* The client goes away: from now on a write may fail. *)
Disconnect ==
  /\ ~broken /\ broken' = TRUE
  /\ UNCHANGED <<streamVars, ctx, renderVars>>

(* The request context ends: the client is gone, a deadline of a middleware *)
(* has passed, or handle has returned.  The contexts derived from it end    *)
(* with it.  (Those of ContextDoneDetached are derived from none.)          *)
ContextDoneDetached ==
  /\ ~ctx /\ ctx' = TRUE
  /\ UNCHANGED <<streamVars, broken, renderVars>>

ContextDone ==
  /\ ~ctx /\ ctx' = TRUE
  /\ streamCtx' = [s \in Streams |-> streamCtx[s] \/ (parent[s] = "request" /\ prod[s] # "nil")]
  /\ UNCHANGED <<parent, prod, broken, renderVars>>

-----------------------------------------------------------------------------
(* renderStreaming.                                                        *)

(* cancelStreams(streams[from:]), counted from 1. *)
CancelFrom(from) ==
  streamCtx' = [s \in Streams |-> streamCtx[s] \/ (s >= from /\ prod[s] # "nil")]

Return(v) == pc' = "returned" /\ result' = v

(* FlushTo writes the buffer and resets it.  (FlushOKKept does not reset.)  *)
FlushOKKept == wire' = wire \o buf /\ UNCHANGED buf
FlushOK == wire' = wire \o buf /\ buf' = <<>>

(* Or its write fails.  On a live connection only a ResponseWriter of its   *)
(* own (a middleware's) fails; on a broken one a write may still succeed.   *)
(* isClientGone is TRUE of an error when the context is done or the         *)
(* connection broken.                                                       *)
ClientGone == ctx \/ broken

FlushFails(v) ==
  /\ v = IF ClientGone THEN "clientGone" ELSE "error"
  /\ UNCHANGED <<wire, buf>>
  /\ Return(v)

(* Headers, shell and page go to the buffer; the component may fail. *)
RenderShell ==
  /\ pc = "shell"
  /\ \/ Return("error") /\ UNCHANGED buf
     \/ buf' = Append(buf, 0) /\ pc' = "flushShell" /\ UNCHANGED result
  /\ UNCHANGED <<streamVars, ctx, broken, cur, said, wire>>

FlushShell ==
  /\ pc = "flushShell"
  /\ \/ FlushOK /\ pc' = "wait" /\ UNCHANGED <<streamCtx, result>>
     \/ FlushFails("clientGone") /\ CancelFrom(1)
     \/ FlushFails("error") /\ UNCHANGED streamCtx
  /\ UNCHANGED <<parent, prod, ctx, broken, cur, said>>

(* Streamed.Wait: one of the cases of its select that are ready.  A nil     *)
(* Streamed is an error at once.                                            *)
WaitReady(s, v) ==
  \/ prod[s] = "nil" /\ v = "error"
  \/ prod[s] = "value" /\ v \in {"data", "error"}   \* json.Marshal may fail
  \/ prod[s] = "error" /\ v = "error"
  \/ prod[s] # "nil" /\ ctx /\ v = "cancelled"

(* The timer of Wait fires: streamTimeout is never zero. *)
WaitTimeout(s, v) == prod[s] # "nil" /\ v = "timeout"

Wait(s, v) == WaitReady(s, v) \/ WaitTimeout(s, v)

(* emitResolveScript. *)
EmitResolveScript ==
  /\ pc = "wait" /\ pc' = "check"
  /\ \E v \in {"data", "error", "timeout", "cancelled"} :
       Wait(cur, v) /\ said' = [said EXCEPT ![cur] = v]
  /\ buf' = Append(buf, cur)
  /\ UNCHANGED <<streamVars, ctx, broken, cur, wire, result>>

(* ctx.Err() after the wait.  (CheckContextSkipped goes on regardless.) *)
CheckContextSkipped ==
  /\ pc = "check" /\ pc' = "flush"
  /\ UNCHANGED <<streamVars, ctx, broken, cur, said, buf, wire, result>>

CheckContext ==
  /\ pc = "check"
  /\ \/ ctx /\ CancelFrom(cur + 1) /\ Return("clientGone")
     \/ ~ctx /\ pc' = "flush" /\ UNCHANGED <<streamCtx, result>>
  /\ UNCHANGED <<parent, prod, ctx, broken, cur, said, buf, wire>>

FlushChunk ==
  /\ pc = "flush"
  /\ \/ FlushOK /\ pc' = "recheck" /\ UNCHANGED <<streamCtx, result>>
     \/ FlushFails("clientGone") /\ CancelFrom(cur + 1)
     \/ FlushFails("error") /\ UNCHANGED streamCtx
  /\ UNCHANGED <<parent, prod, ctx, broken, cur, said>>

(* ctx.Err() after the flush, and the head of the loop.  (NextStreamSkipsOne *)
(* is off by one.)                                                          *)
Recheck(from, last) ==
  /\ pc = "recheck"
  /\ \/ ctx /\ CancelFrom(from) /\ Return("nil") /\ UNCHANGED cur
     \/ ~ctx /\ cur < last /\ cur' = cur + 1 /\ pc' = "wait" /\ UNCHANGED <<streamCtx, result>>
     \/ ~ctx /\ cur >= last /\ pc' = "tail" /\ UNCHANGED <<streamCtx, result, cur>>
  /\ UNCHANGED <<parent, prod, ctx, broken, said, buf, wire>>

NextStreamSkipsOne == Recheck(cur + 2, N)
NextStream == Recheck(cur + 1, N)

RenderTail ==
  /\ pc = "tail" /\ pc' = "flushTail"
  /\ buf' = Append(buf, N + 1)
  /\ UNCHANGED <<streamVars, ctx, broken, cur, said, wire, result>>

FlushTail ==
  /\ pc = "flushTail"
  /\ \/ FlushOK /\ Return("nil")
     \/ \E v \in {"clientGone", "error"} : FlushFails(v)
  /\ UNCHANGED <<streamVars, ctx, broken, cur, said>>

-----------------------------------------------------------------------------
RenderStreaming ==
  \/ RenderShell \/ FlushShell \/ EmitResolveScript \/ CheckContext
  \/ FlushChunk \/ NextStream \/ RenderTail \/ FlushTail

StreamNext ==
  \/ RenderStreaming
  \/ \E s \in Streams : Returns(s)
  \/ Disconnect \/ ContextDone

StreamSpec == StreamInit /\ [][StreamNext]_pageVars

(* The handler's goroutine runs on and its timer fires; net/http ends the   *)
(* request context once the handler has returned; a producer returns once   *)
(* its context is done.  A producer whose context lives may run for ever.   *)
StreamFairness ==
  /\ WF_pageVars(RenderStreaming)
  /\ WF_pageVars(pc = "returned" /\ ContextDone)
  /\ \A s \in Streams : WF_pageVars(streamCtx[s] /\ Returns(s))

FairStreamSpec == StreamSpec /\ StreamFairness

-----------------------------------------------------------------------------
(* What reaches the client is a prefix of the document: the shell, then one *)
(* resolve script per stream in registration order, each once, then the     *)
(* tail; and a render that returned nil to a live request sent all of it.   *)
InOrder ==
  /\ \A n \in 1..Len(wire) : wire[n] = n - 1
  /\ Len(wire) <= N + 2
  /\ result = "nil" /\ ~ctx => Len(wire) = N + 2

(* A resolve script that reached the client tells what its producer did or  *)
(* that time ran out: never that the request was cancelled, and never data  *)
(* of a producer that has not returned a value.                             *)
ScriptsTellTruth ==
  \A s \in Streams :
    Len(wire) > s => /\ said[s] \in {"data", "error", "timeout"}
                     /\ said[s] = "data" => prod[s] = "value"

(* When renderStreaming gives up because the client is gone, the producers  *)
(* of all streams it has not come to are told to stop.                      *)
RestCancelled ==
  pc = "returned" /\ result \in {"nil", "clientGone"} =>
    \A s \in Streams : s > cur => prod[s] = "nil" \/ streamCtx[s]

(* The render ends, whatever the producers and the client do. *)
RenderEnds == <>(pc = "returned")

(* A producer bound to the request's context ends. *)
ProducersEnd == \A s \in Streams : parent[s] = "request" => <>(prod[s] # "running")

(* Nothing a streamed response has started goes on for ever: neither the    *)
(* render nor a producer that was given the request's context               *)
(* (renderStreaming, StreamCtx, Wait).                                      *)
StreamsEnd == RenderEnds /\ ProducersEnd

-----------------------------------------------------------------------------
(* Where renderStreaming is tells what it has written and what it buffers. *)
InPlace ==
  /\ pc = "shell" => wire = <<>> /\ buf = <<>> /\ cur = 1
  /\ pc = "flushShell" => wire = <<>> /\ buf = <<0>> /\ cur = 1
  /\ pc = "wait" => Len(wire) = cur /\ buf = <<>>
  /\ pc \in {"check", "flush"} => Len(wire) = cur /\ buf = <<cur>>
  /\ pc = "recheck" => Len(wire) = cur + 1 /\ buf = <<>>
  /\ pc = "tail" => Len(wire) = N + 1 /\ buf = <<>> /\ cur = N
  /\ pc = "flushTail" => Len(wire) = N + 1 /\ buf = <<N + 1>> /\ cur = N

(* The wire holds the document so far, and a return of nil to a live        *)
(* request leaves nothing out.                                              *)
Written ==
  /\ \A n \in 1..Len(wire) : wire[n] = n - 1
  /\ Len(wire) <= N + 2
  /\ pc = "returned" <=> result # "none"
  /\ result = "nil" => ctx \/ Len(wire) = N + 2

(* What the scripts say, whether they were sent or not. *)
Told ==
  \A s \in Streams :
    /\ said[s] = "data" => prod[s] = "value"
    /\ said[s] = "cancelled" => ctx
    /\ cur = s /\ pc \in {"check", "flush"} => said[s] # "nothing"
    /\ cur = s /\ pc = "flush" => said[s] # "cancelled"
    /\ Len(wire) > s => said[s] \in {"data", "error", "timeout"}

StreamInv == StreamTypeOK /\ InPlace /\ Written /\ Told /\ RestCancelled
=============================================================================
