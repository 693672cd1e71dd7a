------------------------------- MODULE MCOutbound -------------------------------
(***************************************************************************)
(* Instances of OutboundProperties for TLC: transfers and polls are        *)
(* interchangeable.                                                        *)
(***************************************************************************)
EXTENDS OutboundProperties, TLC

Symmetry == Permutations(Transfers) \union Permutations(Polls)
=============================================================================
