-------------------------- MODULE MCFallbackClient --------------------------
(* FallbackClient on a small instance: keys and request goroutines are      *)
(* interchangeable.                                                         *)
EXTENDS FallbackClient

Symmetric == Permutations(Keys) \cup Permutations(Renderers)
=============================================================================
