------------------------------- MODULE MCTree -------------------------------
(***************************************************************************)
(* Tree with up to three nodes that a client makes, and room to copy them. *)
(***************************************************************************)
EXTENDS Tree

MCNodeIds == 1..6
MCGiven == [n \in MCNodeIds |-> IF n % 2 = 0 THEN "even" ELSE "odd"]
=============================================================================
