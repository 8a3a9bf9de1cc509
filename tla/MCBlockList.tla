---------------------------- MODULE MCBlockList ----------------------------
(***************************************************************************)
(* BlockList with blocks of two slots.                                     *)
(***************************************************************************)
EXTENDS BlockList, TLC

CONSTANTS e1, e2, e3, e4, e5, b1, b2, b3

MCElems == {e1, e2, e3, e4, e5}
MCBlockIds == {b1, b2, b3}

\* Elements and addresses are never compared but for equality.
MCSymmetry == Permutations(MCElems) \cup Permutations(MCBlockIds)
=============================================================================
