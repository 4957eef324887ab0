---------------------------- MODULE MCEthAccount ----------------------------
(***************************************************************************)
(* Instances of EthAccount.                                                *)
(***************************************************************************)
EXTENDS EthAccount
=============================================================================
