---------------------------- MODULE MCAccountSync ----------------------------
(***************************************************************************)
(* Instances of AccountSync.  F pays r1.  A spends that output with change *)
(* to c1 and, in the gap instance, a payment to r2.  B is a double spend   *)
(* of A that pays a stranger.  hdr1 is followed by hdr2; alt2 and alt3 are *)
(* a longer branch without hdr2's transactions.                            *)
(***************************************************************************)
EXTENDS AccountSync, TLC

CONSTANTS F, A, B, r1, r2, r3, c1, oX, oF, oA, oS, oB, hdr1, hdr2, alt2, alt3, receive, change

OneTx == {F}
TwoTxs == {F, A}
ThreeTxs == {F, A, B}
MCAddrs == {r1, r2, r3, c1}
MCOutPoints == {oX, oF, oA, oS, oB}
AllIns == (F :> {oX}) @@ (A :> {oF}) @@ (B :> {oF})
MCTxIns == [t \in TxIds |-> AllIns[t]]
AllCreators == (oX :> NoTx) @@ (oF :> F) @@ (oA :> A) @@ (oS :> A) @@ (oB :> B)
MCCreator == [o \in MCOutPoints |-> IF AllCreators[o] \in TxIds THEN AllCreators[o] ELSE NoTx]
MCOwner == (oX :> NotOurs) @@ (oF :> r1) @@ (oA :> c1) @@ (oS :> r2) @@ (oB :> NotOurs)

\* one wallet with two chains, one with a receive chain only
TwoChains == (receive :> <<r1, r2, r3>>) @@ (change :> <<c1>>)
OneChain == receive :> <<r1, r2, r3>>
TwoGaps == (receive :> 1) @@ (change :> 1)
OneGap == receive :> 1

NoBlocks == {}
OneBlock == {hdr1}
Fork == {hdr1, hdr2, alt2, alt3}
AllHeights == (hdr1 :> 1) @@ (hdr2 :> 2) @@ (alt2 :> 2) @@ (alt3 :> 3)
MCHeaderHeight == [b \in Headers |-> AllHeights[b]]
AllBlockTxs == (hdr1 :> {F}) @@ (hdr2 :> {A}) @@ (alt2 :> {}) @@ (alt3 :> {B})
MCBlockTxs == [b \in Headers |-> AllBlockTxs[b] \cap TxIds]
AllBranches == (NoHeader :> {}) @@ (hdr1 :> {hdr1}) @@ (hdr2 :> {hdr1, hdr2})
               @@ (alt2 :> {hdr1, alt2}) @@ (alt3 :> {hdr1, alt2, alt3})
MCBranch == [b \in Headers \cup {NoHeader} |-> AllBranches[b]]
=============================================================================
