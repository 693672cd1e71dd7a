------------------------------- MODULE MCCircuit -------------------------------
(***************************************************************************)
(* Two calls, in one process or in two.                                    *)
(***************************************************************************)
EXTENDS CircuitProperties, TLC

CONSTANTS p1, p2, c1, c2

MCPlacements == {c1 :> p1 @@ c2 :> p1, c1 :> p1 @@ c2 :> p2}
=============================================================================
