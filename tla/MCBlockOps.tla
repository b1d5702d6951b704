---------------------------- MODULE MCBlockOps ----------------------------
(***************************************************************************)
(* Module BlockOps for TLC: one originator, one outsider, the fee account  *)
(* and two accounts to create.                                             *)
(***************************************************************************)
EXTENDS BlockOps

CONSTANTS origin, other, fees, new1, new2

MCAddrs       == {origin, other, fees, new1, new2}
MCOriginators == {origin}
MCOutsiders   == {other}

\* The two addresses that are not created yet play the same part.
MCSymmetry == Permutations({new1, new2})
=============================================================================
