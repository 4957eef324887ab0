------------------------ MODULE MCTransactionsIndex ------------------------
(***************************************************************************)
(* Instance of TransactionsIndex: F pays the receive address r, A spends   *)
(* that output with change to c.  Both may be reported for either address, *)
(* confirmed or not; the block hdr1 at height 1 has F only.                *)
(***************************************************************************)
EXTENDS TransactionsIndex, TLC

CONSTANTS F, A, r, c, oX, oF, oA, hdr1

MCTxIds == {F, A}
MCAddrs == {r, c}
MCOutPoints == {oX, oF, oA}
MCTxIns == (F :> {oX}) @@ (A :> {oF})
MCCreator == (oX :> NoTx) @@ (oF :> F) @@ (oA :> A)
MCOwner == (oX :> NotOurs) @@ (oF :> r) @@ (oA :> c)
MCHeaders == {hdr1}
MCHeaderHeight == hdr1 :> 1
MCBlockTxs == hdr1 :> {F}
=============================================================================
