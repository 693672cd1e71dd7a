-------------------------------- MODULE MCLocks -------------------------------
(***************************************************************************)
(* Requests and workers on one window.                                     *)
(***************************************************************************)
EXTENDS SettlementLocksProperties, TLC
=============================================================================
