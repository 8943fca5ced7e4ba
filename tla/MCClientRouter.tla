--------------------------- MODULE MCClientRouter ---------------------------
(* Two pages under one layout and one page without. *)
EXTENDS ClientRouter

McRouteOf == ("/a" :> "A") @@ ("/b" :> "B") @@ ("/c" :> "C")
McChainOf == ("A" :> "chain") @@ ("B" :> "chain") @@ ("C" :> "no chain")
=============================================================================
