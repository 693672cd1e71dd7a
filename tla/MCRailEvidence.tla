---------------------------- MODULE MCRailEvidence ----------------------------
(***************************************************************************)
(* Instances of RailEvidenceProperties for TLC: transfers, keys and        *)
(* ingestions are interchangeable.                                         *)
(***************************************************************************)
EXTENDS RailEvidenceProperties, TLC

Symmetry == Permutations(Transfers) \union Permutations(Keys) \union Permutations(Ingests)
=============================================================================
