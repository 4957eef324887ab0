--------------------------- MODULE MCSynchronizer ---------------------------
(***************************************************************************)
(* Model checking instance of Synchronizer.                                *)
(***************************************************************************)
EXTENDS Synchronizer
=============================================================================
