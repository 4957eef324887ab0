------------------------------ MODULE MCHeaders ------------------------------
(***************************************************************************)
(* Instances of Headers.  The best chain is g, a1, a2, a3; b2, b3, b4 fork *)
(* off at a1, the checkpoint, and x1 off the genesis block; w2 follows a1  *)
(* with insufficient work.                                                 *)
(***************************************************************************)
EXTENDS Headers, TLC

CONSTANTS g, a1, a2, a3, b2, b3, b4, x1, w2

MCHdrs == {g, a1, a2, a3, b2, b3, b4, x1, w2}
MCParent == (g :> NoHdr) @@ (a1 :> g) @@ (a2 :> a1) @@ (a3 :> a2) @@ (b2 :> a1)
            @@ (b3 :> b2) @@ (b4 :> b3) @@ (x1 :> g) @@ (w2 :> a1)
MCSound == Hdrs \ {w2}
MCChainTo == (g :> <<g>>) @@ (a1 :> <<g, a1>>) @@ (a2 :> <<g, a1, a2>>)
             @@ (a3 :> <<g, a1, a2, a3>>) @@ (b2 :> <<g, a1, b2>>)
             @@ (b3 :> <<g, a1, b2, b3>>) @@ (b4 :> <<g, a1, b2, b3, b4>>)
=============================================================================
