------------------------- MODULE MCRequestPipeline --------------------------
(* RequestPipeline for TLC: requests and buffers are interchangeable. *)
EXTENDS RequestPipeline, TLC

Symmetry == Permutations(Requests) \cup Permutations(Buffers)
=============================================================================
