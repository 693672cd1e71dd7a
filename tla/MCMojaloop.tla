------------------------------ MODULE MCMojaloop ------------------------------
(***************************************************************************)
(* Instances of MojaloopProperties for TLC.                                *)
(***************************************************************************)
EXTENDS MojaloopProperties

\* Expired meanwhile, in its last second, with time left.
SomeRemaining == {-1, 0, 30}
=============================================================================
