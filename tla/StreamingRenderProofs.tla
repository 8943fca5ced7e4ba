----------------------- MODULE StreamingRenderProofs ------------------------
(***************************************************************************)
(* The safety of a streamed page, for every number of streams.             *)
(***************************************************************************)
EXTENDS StreamingRender, SequenceTheorems, TLAPS

USE StreamsAssumption

(* A chunk appended to an empty buffer. *)
LEMMA OneChunk ==
  ASSUME NEW c \in Chunks
  PROVE  /\ Append(<<>>, c) = <<c>>
         /\ <<c>> \in Seq(Chunks) /\ Len(<<c>>) = 1 /\ <<c>>[1] = c
OBVIOUS

(* A flush of a buffer that holds one chunk puts it at the end of the wire. *)
LEMMA FlushOne ==
  ASSUME NEW w \in Seq(Chunks), NEW c \in Chunks
  PROVE  /\ w \o <<c>> \in Seq(Chunks)
         /\ Len(w \o <<c>>) = Len(w) + 1
         /\ \A n \in 1..(Len(w) + 1) :
              (w \o <<c>>)[n] = IF n <= Len(w) THEN w[n] ELSE c
<1>1. <<c>> \in Seq(Chunks) /\ Len(<<c>>) = 1 /\ <<c>>[1] = c
  BY OneChunk
<1>2. /\ w \o <<c>> \in Seq(Chunks)
      /\ Len(w \o <<c>>) = Len(w) + 1
      /\ \A n \in 1..(Len(w) + 1) :
           (w \o <<c>>)[n] = IF n <= Len(w) THEN w[n] ELSE <<c>>[n - Len(w)]
  BY <1>1, ConcatProperties
<1>3. \A n \in 1..(Len(w) + 1) : ~(n <= Len(w)) => n - Len(w) = 1
  BY LenProperties
<1>4. QED
  BY <1>1, <1>2, <1>3

(* Load has started the producers and nothing is written. *)
LEMMA StreamStart == StreamInit => StreamInv
<1> SUFFICES ASSUME StreamInit PROVE StreamInv
  OBVIOUS
<1>1. StreamTypeOK
  <2>1. prod \in [Streams -> {"nil", "running", "value", "error"}]
    BY DEF StreamInit
  <2>2. cur \in Streams
    BY DEF StreamInit, Streams
  <2>3. streamCtx \in [Streams -> BOOLEAN]
    BY DEF StreamInit
  <2>4. said \in [Streams -> {"nothing", "data", "error", "timeout", "cancelled"}]
    BY DEF StreamInit
  <2>5. buf \in Seq(Chunks) /\ wire \in Seq(Chunks)
    BY DEF StreamInit
  <2>6. QED
    BY <2>1, <2>2, <2>3, <2>4, <2>5 DEF StreamInit, StreamTypeOK
<1>2. InPlace
  BY DEF StreamInit, InPlace
<1>3. Written
  BY DEF StreamInit, Written
<1>4. Told
  BY DEF StreamInit, Told, Streams
<1>5. RestCancelled
  BY DEF StreamInit, RestCancelled
<1>6. QED
  BY <1>1, <1>2, <1>3, <1>4, <1>5 DEF StreamInv

(* The producers, the connection and the context leave the render alone,    *)
(* and what they change they change for good.                               *)
LEMMA OutsideStep ==
  ASSUME StreamInv, (\E s \in Streams : Returns(s)) \/ Disconnect \/ ContextDone
  PROVE  StreamInv'
<1>1. UNCHANGED renderVars
  BY DEF Returns, Disconnect, ContextDone
<1>2. UNCHANGED <<pc, cur, said, buf, wire, result>>
  BY <1>1 DEF renderVars
<1>3. /\ ctx => ctx'
      /\ ctx' \in BOOLEAN /\ broken' \in BOOLEAN /\ parent' = parent
  BY DEF Returns, Disconnect, ContextDone, streamVars, StreamInv, StreamTypeOK
<1>4. prod' \in [Streams -> {"nil", "running", "value", "error"}]
  BY DEF Returns, Disconnect, ContextDone, streamVars, StreamInv, StreamTypeOK
<1>5. \A s \in Streams : prod[s] # "running" => prod'[s] = prod[s]
  BY DEF Returns, Disconnect, ContextDone, streamVars, StreamInv, StreamTypeOK
<1>6. streamCtx' \in [Streams -> BOOLEAN]
  BY DEF Returns, Disconnect, ContextDone, streamVars, StreamInv, StreamTypeOK
<1>7. \A s \in Streams : streamCtx[s] => streamCtx'[s]
  <2>1. CASE \E s \in Streams : Returns(s)
    BY <2>1 DEF Returns, StreamInv, StreamTypeOK
  <2>2. CASE Disconnect
    BY <2>2 DEF Disconnect, streamVars
  <2>3. CASE ContextDone
    BY <2>3 DEF ContextDone
  <2>4. QED
    BY <2>1, <2>2, <2>3
<1>8. StreamTypeOK'
  BY <1>2, <1>3, <1>4, <1>6 DEF StreamInv, StreamTypeOK
<1>9. InPlace' /\ Written'
  BY <1>2, <1>3 DEF StreamInv, InPlace, Written
<1>10. Told'
  BY <1>2, <1>3, <1>5 DEF StreamInv, Told
<1>11. RestCancelled'
  BY <1>2, <1>5, <1>7 DEF StreamInv, RestCancelled
<1>12. QED
  BY <1>8, <1>9, <1>10, <1>11 DEF StreamInv

(* The cancel calls of a return keep what was cancelled, and reach every    *)
(* stream from the one they start with.                                     *)
LEMMA CancelReaches ==
  ASSUME StreamInv, NEW from \in Nat, CancelFrom(from)
  PROVE  /\ streamCtx' \in [Streams -> BOOLEAN]
         /\ \A s \in Streams : s >= from => prod[s] = "nil" \/ streamCtx'[s]
BY DEF StreamInv, StreamTypeOK, CancelFrom

(* A flush that succeeds appends the buffered chunk, the next one in line. *)
LEMMA FlushAdvances ==
  ASSUME StreamInv, FlushOK, NEW c \in Chunks, buf = <<c>>, Len(wire) = c
  PROVE  /\ wire' \in Seq(Chunks) /\ buf' = <<>> /\ buf' \in Seq(Chunks)
         /\ Len(wire') = c + 1
         /\ \A n \in 1..Len(wire') : wire'[n] = n - 1
<1>1. wire' = wire \o <<c>> /\ buf' = <<>>
  BY DEF FlushOK
<1>2. wire \in Seq(Chunks) /\ Len(wire) \in Nat
  BY DEF StreamInv, StreamTypeOK
<1>3. /\ wire' \in Seq(Chunks) /\ Len(wire') = c + 1
      /\ \A n \in 1..(c + 1) : wire'[n] = IF n <= c THEN wire[n] ELSE c
  BY <1>1, <1>2, FlushOne
<1>4. \A n \in 1..c : wire[n] = n - 1
  BY DEF StreamInv, Written
<1>5. c \in Nat
  BY DEF Chunks
<1>6. \A n \in 1..(c + 1) : wire'[n] = n - 1
  BY <1>3, <1>4, <1>5
<1>7. QED
  BY <1>1, <1>3, <1>6

(* Every step of renderStreaming preserves the type invariant. *)
LEMMA RenderType ==
  ASSUME StreamInv, RenderStreaming
  PROVE  StreamTypeOK'
<1> USE DEF Streams, Chunks
<1>0. cur \in Chunks /\ 0 \in Chunks /\ N + 1 \in Chunks /\ cur + 1 \in Nat
  BY DEF StreamInv, StreamTypeOK
<1>1. CASE RenderShell
  <2>1. buf' \in Seq(Chunks)
    <3>1. buf = <<>> /\ buf \in Seq(Chunks)
      BY <1>1 DEF RenderShell, StreamInv, InPlace, StreamTypeOK
    <3>2. buf' = buf \/ buf' = Append(<<>>, 0)
      BY <1>1, <3>1 DEF RenderShell
    <3>3. QED
      BY <1>0, <3>1, <3>2, OneChunk
  <2>2. pc' \in {"flushShell", "returned"} /\ result' \in {"error", "none", "nil", "clientGone"}
    BY <1>1 DEF RenderShell, Return, StreamInv, StreamTypeOK
  <2>3. QED
    BY <1>1, <2>1, <2>2 DEF RenderShell, StreamInv, StreamTypeOK, streamVars
<1>2. CASE FlushShell
  <2>1. CASE FlushOK
    <3>1. buf = <<0>> /\ Len(wire) = 0
      BY <1>2 DEF FlushShell, StreamInv, InPlace
    <3>2. wire' \in Seq(Chunks) /\ buf' \in Seq(Chunks)
      BY <1>0, <2>1, <3>1, FlushAdvances
    <3>3. QED
      BY <1>2, <2>1, <3>2 DEF FlushShell, FlushFails, Return, StreamInv, StreamTypeOK, CancelFrom
  <2>2. CASE FlushFails("clientGone") /\ CancelFrom(1)
    BY <1>2, <2>2, CancelReaches DEF FlushShell, FlushFails, Return, StreamInv, StreamTypeOK
  <2>3. CASE FlushFails("error") /\ UNCHANGED streamCtx
    BY <1>2, <2>3 DEF FlushShell, FlushFails, Return, StreamInv, StreamTypeOK
  <2>4. QED
    BY <1>2, <2>1, <2>2, <2>3 DEF FlushShell
<1>3. CASE EmitResolveScript
  BY <1>3, <1>0, OneChunk DEF EmitResolveScript, StreamInv, StreamTypeOK, InPlace, streamVars
<1>4. CASE CheckContext
  BY <1>4, <1>0, CancelReaches DEF CheckContext, Return, StreamInv, StreamTypeOK
<1>5. CASE FlushChunk
  <2>1. CASE FlushOK /\ pc' = "recheck" /\ UNCHANGED <<streamCtx, result>>
    <3>1. buf = <<cur>> /\ Len(wire) = cur
      BY <1>5 DEF FlushChunk, StreamInv, InPlace
    <3>2. wire' \in Seq(Chunks) /\ buf' \in Seq(Chunks)
      BY <1>0, <2>1, <3>1, FlushAdvances
    <3>3. QED
      BY <1>5, <2>1, <3>2 DEF FlushChunk, StreamInv, StreamTypeOK
  <2>2. CASE FlushFails("clientGone") /\ CancelFrom(cur + 1)
    BY <1>0, <1>5, <2>2, CancelReaches DEF FlushChunk, FlushFails, Return, StreamInv, StreamTypeOK
  <2>3. CASE FlushFails("error") /\ UNCHANGED streamCtx
    BY <1>5, <2>3 DEF FlushChunk, FlushFails, Return, StreamInv, StreamTypeOK
  <2>4. QED
    BY <1>5, <2>1, <2>2, <2>3 DEF FlushChunk
<1>6. CASE NextStream
  <2>1. streamCtx' \in [Streams -> BOOLEAN]
    BY <1>0, <1>6, CancelReaches DEF NextStream, Recheck, StreamInv, StreamTypeOK
  <2>2. cur' \in Streams
    BY <1>6 DEF NextStream, Recheck, StreamInv, StreamTypeOK
  <2>3. QED
    BY <1>6, <2>1, <2>2 DEF NextStream, Recheck, Return, StreamInv, StreamTypeOK
<1>7. CASE RenderTail
  BY <1>7, <1>0, OneChunk DEF RenderTail, StreamInv, StreamTypeOK, InPlace, streamVars
<1>8. CASE FlushTail
  <2>1. CASE FlushOK /\ Return("nil")
    <3>1. buf = <<N + 1>> /\ Len(wire) = N + 1
      BY <1>8 DEF FlushTail, StreamInv, InPlace
    <3>2. wire' \in Seq(Chunks) /\ buf' \in Seq(Chunks)
      BY <1>0, <2>1, <3>1, FlushAdvances
    <3>3. QED
      BY <1>8, <2>1, <3>2 DEF FlushTail, Return, StreamInv, StreamTypeOK, streamVars
  <2>2. CASE \E v \in {"clientGone", "error"} : FlushFails(v)
    BY <1>8, <2>2 DEF FlushTail, FlushFails, Return, StreamInv, StreamTypeOK, streamVars
  <2>3. QED
    BY <1>8, <2>1, <2>2 DEF FlushTail
<1>9. QED
  BY <1>1, <1>2, <1>3, <1>4, <1>5, <1>6, <1>7, <1>8 DEF RenderStreaming

(* And what the program counter says about the buffer and the wire. *)
LEMMA RenderInPlace ==
  ASSUME StreamInv, RenderStreaming
  PROVE  InPlace' /\ Written'
<1> USE DEF Streams, Chunks
<1>0. /\ cur \in Chunks /\ 0 \in Chunks /\ N + 1 \in Chunks /\ cur \in Nat /\ cur <= N
      /\ Append(<<>>, 0) = <<0>> /\ Append(<<>>, cur) = <<cur>> /\ Append(<<>>, N + 1) = <<N + 1>>
  BY OneChunk DEF StreamInv, StreamTypeOK
<1>1. CASE RenderShell
  BY <1>0, <1>1 DEF RenderShell, Return, StreamInv, InPlace, Written, StreamTypeOK
<1>2. CASE FlushShell
  <2>1. CASE FlushOK /\ pc' = "wait" /\ UNCHANGED <<streamCtx, result>>
    <3>1. buf = <<0>> /\ Len(wire) = 0 /\ cur' = cur /\ result' = result
      BY <1>2, <2>1 DEF FlushShell, StreamInv, InPlace
    <3>2. /\ buf' = <<>> /\ Len(wire') = 1
          /\ \A n \in 1..Len(wire') : wire'[n] = n - 1
      BY <1>0, <2>1, <3>1, FlushAdvances
    <3>3. cur = 1
      BY <1>2 DEF FlushShell, StreamInv, InPlace
    <3>4. QED
      BY <1>2, <2>1, <3>1, <3>2, <3>3 DEF FlushShell, StreamInv, InPlace, Written
  <2>2. CASE \E v \in {"clientGone", "error"} : FlushFails(v)
    BY <1>2, <2>2 DEF FlushShell, FlushFails, Return, StreamInv, InPlace, Written
  <2>3. QED
    BY <1>2, <2>1, <2>2 DEF FlushShell
<1>3. CASE EmitResolveScript
  BY <1>0, <1>3 DEF EmitResolveScript, StreamInv, InPlace, Written
<1>4. CASE CheckContext
  BY <1>4 DEF CheckContext, Return, StreamInv, InPlace, Written
<1>5. CASE FlushChunk
  <2>1. CASE FlushOK /\ pc' = "recheck" /\ UNCHANGED <<streamCtx, result>>
    <3>1. buf = <<cur>> /\ Len(wire) = cur /\ cur' = cur /\ result' = result
      BY <1>5, <2>1 DEF FlushChunk, StreamInv, InPlace
    <3>2. /\ buf' = <<>> /\ Len(wire') = cur + 1
          /\ \A n \in 1..Len(wire') : wire'[n] = n - 1
      BY <1>0, <2>1, <3>1, FlushAdvances
    <3>3. QED
      BY <1>0, <1>5, <2>1, <3>1, <3>2 DEF FlushChunk, StreamInv, InPlace, Written
  <2>2. CASE \E v \in {"clientGone", "error"} : FlushFails(v)
    BY <1>5, <2>2 DEF FlushChunk, FlushFails, Return, StreamInv, InPlace, Written
  <2>3. QED
    BY <1>5, <2>1, <2>2 DEF FlushChunk
<1>6. CASE NextStream
  BY <1>0, <1>6 DEF NextStream, Recheck, Return, StreamInv, InPlace, Written
<1>7. CASE RenderTail
  BY <1>0, <1>7 DEF RenderTail, StreamInv, InPlace, Written
<1>8. CASE FlushTail
  <2>1. CASE FlushOK /\ Return("nil")
    <3>1. buf = <<N + 1>> /\ Len(wire) = N + 1
      BY <1>8 DEF FlushTail, StreamInv, InPlace
    <3>2. /\ Len(wire') = N + 2
          /\ \A n \in 1..Len(wire') : wire'[n] = n - 1
      BY <1>0, <2>1, <3>1, FlushAdvances
    <3>3. QED
      BY <1>8, <2>1, <3>2 DEF FlushTail, Return, StreamInv, InPlace, Written
  <2>2. CASE \E v \in {"clientGone", "error"} : FlushFails(v)
    BY <1>8, <2>2 DEF FlushTail, FlushFails, Return, StreamInv, InPlace, Written
  <2>3. QED
    BY <1>8, <2>1, <2>2 DEF FlushTail
<1>9. QED
  BY <1>1, <1>2, <1>3, <1>4, <1>5, <1>6, <1>7, <1>8 DEF RenderStreaming

(* A step that only sends, or only looks at the context, says nothing new. *)
LEMMA RenderTold ==
  ASSUME StreamInv, RenderStreaming
  PROVE  Told'
<1> USE DEF Streams
<1>0. cur \in Nat /\ N \in Nat
  BY DEF StreamInv, StreamTypeOK
<1>1. CASE RenderShell
  BY <1>1 DEF RenderShell, Return, StreamInv, Told, streamVars
<1>2. CASE FlushShell
  <2>1. CASE FlushOK /\ pc' = "wait" /\ UNCHANGED <<streamCtx, result>>
    <3>1. Len(wire') = 1
      BY <1>2, <2>1, FlushAdvances DEF FlushShell, StreamInv, InPlace, Chunks
    <3>2. QED
      BY <1>2, <2>1, <3>1 DEF FlushShell, StreamInv, Told
  <2>2. CASE \E v \in {"clientGone", "error"} : FlushFails(v)
    BY <1>2, <2>2 DEF FlushShell, FlushFails, Return, StreamInv, Told
  <2>3. QED
    BY <1>2, <2>1, <2>2 DEF FlushShell
<1>3. CASE EmitResolveScript
  <2>1. PICK v \in {"data", "error", "timeout", "cancelled"} :
          Wait(cur, v) /\ said' = [said EXCEPT ![cur] = v]
    BY <1>3 DEF EmitResolveScript
  <2>2. /\ v = "data" => prod[cur] = "value"
        /\ v = "cancelled" => ctx
    BY <2>1 DEF Wait, WaitReady, WaitTimeout
  <2>3. /\ said'[cur] = v
        /\ \A s \in Streams : s # cur => said'[s] = said[s]
    BY <2>1 DEF StreamInv, StreamTypeOK
  <2>4. Len(wire) = cur /\ wire' = wire /\ cur' = cur /\ pc' = "check" /\ ctx' = ctx /\ prod' = prod
    BY <1>3 DEF EmitResolveScript, StreamInv, InPlace, streamVars
  <2>5. QED
    BY <2>2, <2>3, <2>4 DEF StreamInv, Told
<1>4. CASE CheckContext
  BY <1>4 DEF CheckContext, Return, StreamInv, Told
<1>5. CASE FlushChunk
  <2>1. CASE FlushOK /\ pc' = "recheck" /\ UNCHANGED <<streamCtx, result>>
    <3>1. Len(wire) = cur /\ Len(wire') = cur + 1
      BY <1>5, <2>1, FlushAdvances DEF FlushChunk, StreamInv, InPlace, Chunks, StreamTypeOK
    <3>2. said[cur] \in {"data", "error", "timeout"}
      BY <1>5 DEF FlushChunk, StreamInv, Told, StreamTypeOK
    <3>3. QED
      BY <1>0, <1>5, <2>1, <3>1, <3>2 DEF FlushChunk, StreamInv, Told
  <2>2. CASE \E v \in {"clientGone", "error"} : FlushFails(v)
    BY <1>5, <2>2 DEF FlushChunk, FlushFails, Return, StreamInv, Told
  <2>3. QED
    BY <1>5, <2>1, <2>2 DEF FlushChunk
<1>6. CASE NextStream
  BY <1>6 DEF NextStream, Recheck, Return, StreamInv, Told
<1>7. CASE RenderTail
  BY <1>7 DEF RenderTail, StreamInv, Told, streamVars
<1>8. CASE FlushTail
  <2>1. CASE FlushOK /\ Return("nil")
    <3>1. Len(wire) = N + 1
      BY <1>8 DEF FlushTail, StreamInv, InPlace
    <3>2. \A s \in Streams : Len(wire) > s
      BY <3>1
    <3>3. QED
      BY <1>8, <2>1, <3>2 DEF FlushTail, Return, StreamInv, Told, streamVars
  <2>2. CASE \E v \in {"clientGone", "error"} : FlushFails(v)
    BY <1>8, <2>2 DEF FlushTail, FlushFails, Return, StreamInv, Told, streamVars
  <2>3. QED
    BY <1>8, <2>1, <2>2 DEF FlushTail
<1>9. QED
  BY <1>1, <1>2, <1>3, <1>4, <1>5, <1>6, <1>7, <1>8 DEF RenderStreaming

(* Each return to a client that is gone cancels what it has not come to. *)
LEMMA RenderCancels ==
  ASSUME StreamInv, RenderStreaming
  PROVE  RestCancelled'
<1> USE DEF Streams
<1>0. cur \in Nat /\ cur >= 1 /\ cur + 1 \in Nat /\ (pc = "flushTail" => cur = N)
  BY DEF StreamInv, StreamTypeOK, InPlace
<1>1. pc' # "returned" => RestCancelled'
  BY DEF RestCancelled
<1>2. CASE RenderShell
  BY <1>1, <1>2 DEF RenderShell, Return, RestCancelled
<1>3. CASE FlushShell
  <2>1. CASE FlushOK /\ pc' = "wait"
    BY <1>1, <2>1
  <2>2. CASE CancelFrom(1)
    <3>1. \A s \in Streams : s >= 1 => prod[s] = "nil" \/ streamCtx'[s]
      BY <2>2, CancelReaches
    <3>2. prod' = prod
      BY <1>3 DEF FlushShell
    <3>3. QED
      BY <3>1, <3>2 DEF RestCancelled
  <2>3. CASE FlushFails("error")
    BY <2>3 DEF FlushFails, Return, RestCancelled
  <2>4. QED
    BY <1>3, <2>1, <2>2, <2>3 DEF FlushShell
<1>4. CASE CheckContext \/ FlushChunk \/ NextStream
  <2>1. CASE pc' = "returned" /\ CancelFrom(cur + 1)
    <3>1. \A s \in Streams : s >= cur + 1 => prod[s] = "nil" \/ streamCtx'[s]
      BY <1>0, <2>1, CancelReaches
    <3>2. prod' = prod /\ cur' = cur
      BY <1>4, <2>1 DEF CheckContext, FlushChunk, NextStream, Recheck
    <3>3. \A s \in Streams : s > cur => s >= cur + 1
      BY <1>0
    <3>4. QED
      BY <3>1, <3>2, <3>3 DEF RestCancelled
  <2>2. CASE FlushFails("error")
    BY <2>2 DEF FlushFails, Return, RestCancelled
  <2>3. QED
    BY <1>1, <1>4, <2>1, <2>2 DEF CheckContext, FlushChunk, NextStream, Recheck, FlushFails, Return
<1>5. CASE EmitResolveScript \/ RenderTail
  BY <1>1, <1>5 DEF EmitResolveScript, RenderTail
<1>6. CASE FlushTail
  BY <1>0, <1>6 DEF FlushTail, RestCancelled
<1>7. QED
  BY <1>2, <1>3, <1>4, <1>5, <1>6 DEF RenderStreaming

LEMMA StreamStep == StreamInv /\ [StreamNext]_pageVars => StreamInv'
<1> SUFFICES ASSUME StreamInv, [StreamNext]_pageVars PROVE StreamInv'
  OBVIOUS
<1>1. CASE RenderStreaming
  BY <1>1, RenderType, RenderInPlace, RenderTold, RenderCancels DEF StreamInv
<1>2. CASE (\E s \in Streams : Returns(s)) \/ Disconnect \/ ContextDone
  BY <1>2, OutsideStep
<1>3. CASE UNCHANGED pageVars
  BY <1>3 DEF pageVars, StreamInv, StreamTypeOK, InPlace, Written, Told, RestCancelled
<1>4. QED
  BY <1>1, <1>2, <1>3 DEF StreamNext

(* For every number of streams, and whatever the producers, the client and  *)
(* the context do: what renderStreaming has sent is a prefix of the         *)
(* document, its resolve scripts are true, and a return to a client that is *)
(* gone leaves no stream it has not come to uncancelled.                    *)
THEOREM StreamsInOrder == StreamSpec => [](StreamTypeOK /\ InOrder /\ ScriptsTellTruth /\ RestCancelled)
<1>1. StreamInv => StreamTypeOK /\ InOrder /\ ScriptsTellTruth /\ RestCancelled
  BY DEF StreamInv, Written, InOrder, Told, ScriptsTellTruth
<1>2. QED
  BY <1>1, StreamStart, StreamStep, PTL DEF StreamSpec

(* Of the theorem above: no resolve script says more than the producer of   *)
(* its stream did.                                                          *)
THEOREM ScriptsAreTrue == StreamSpec => []ScriptsTellTruth
BY StreamsInOrder, PTL

(* Of the theorem above: once renderStreaming gives up, every producer it   *)
(* has not come to is cancelled, so that no goroutine is left behind.       *)
THEOREM NoProducerLeft == StreamSpec => []RestCancelled
BY StreamsInOrder, PTL
=============================================================================
