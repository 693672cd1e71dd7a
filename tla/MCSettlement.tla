----------------------------- MODULE MCSettlement ----------------------------
(***************************************************************************)
(* Instances of SettlementProperties for TLC.  Requests are interchangeable*)
(* and so are workers; windows are not declared symmetric with liveness.   *)
(***************************************************************************)
EXTENDS SettlementProperties, TLC

Symmetry == Permutations(Requests) \union Permutations(Workers)
WindowSymmetry == Symmetry \union Permutations(Windows)
=============================================================================
