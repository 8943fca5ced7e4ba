------------------------------ MODULE MCRender ------------------------------
(* What may hang while a page is rendered: the producers of a streamed     *)
(* page, and the sidecar process that renders for the fallback.  Neither   *)
(* reads the other's state, so a behaviour of both is one of each, side by *)
(* side: a run moves one of them, and the other rests where no one waits   *)
(* for it: the sidecar not booted, the page with nothing left to send.     *)
EXTENDS FallbackSidecar, StreamingRender

VARIABLE part

PageDone ==
  /\ parent = [s \in Streams |-> "other"] /\ prod = [s \in Streams |-> "value"]
  /\ streamCtx = [s \in Streams |-> FALSE] /\ ctx = TRUE /\ broken = FALSE
  /\ pc = "returned" /\ cur = N /\ said = [s \in Streams |-> "data"]
  /\ buf = <<>> /\ wire = [n \in 1..(N + 2) |-> n - 1] /\ result = "nil"

RenderInit ==
  /\ part \in {"sidecar", "stream"} /\ Init
  /\ IF part = "stream" THEN StreamInit ELSE PageDone

RenderNext ==
  /\ UNCHANGED part
  /\ \/ part = "sidecar" /\ Next /\ UNCHANGED pageVars
     \/ part = "stream" /\ StreamNext /\ UNCHANGED vars

RenderSpec ==
  /\ RenderInit /\ [][RenderNext]_<<vars, pageVars, part>>
  /\ Fairness /\ StreamFairness
=============================================================================
