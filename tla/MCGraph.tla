------------------------------ MODULE MCGraph ------------------------------
(***************************************************************************)
(* Graph on four node and five edge identities.                          *)
(***************************************************************************)
EXTENDS Graph, TLC

CONSTANTS n1, n2, n3, n4, e1, e2, e3, e4, e5

MCNodeIds == {n1, n2, n3, n4}
MCEdgeIds == {e1, e2, e3, e4, e5}

\* Node and edge identities are interchangeable: nothing tells them apart.
MCSymmetry == Permutations(MCNodeIds) \cup Permutations(MCEdgeIds)
=============================================================================
