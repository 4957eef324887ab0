-------------------------- MODULE MCConnectKeystore --------------------------
(***************************************************************************)
(* Instances of ConnectKeystore: accounts of two wallets, whose keystores  *)
(* have the fingerprints f1 and f2.                                        *)
(***************************************************************************)
EXTENDS ConnectKeystore, TLC

CONSTANTS r1, r2, f1, f2

MCWanted == [r \in Requests |-> IF r = r1 THEN f1 ELSE f2]
MCMaxConnects == (r1 :> 2) @@ (r2 :> 1)
=============================================================================
