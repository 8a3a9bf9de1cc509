----------------------------- MODULE MCTraverse -----------------------------
(***************************************************************************)
(* Traverse over every graph of three nodes, in every order of its lists,  *)
(* and over every loop-free graph of four nodes with lists in one order.   *)
(***************************************************************************)
EXTENDS Traverse

MCNodes == 1..4
Three == 1..3

Distinct(s) == \A i, j \in 1..Len(s) : s[i] = s[j] => i = j
Lists == {s \in SeqOf(Three, 3) : Distinct(s)}
Ascending == {SetToSortSeq(S, <) : S \in SUBSET MCNodes}

SmallGraphs == {[n \in MCNodes |-> IF n \in Three THEN g[n] ELSE <<>>] : g \in [Three -> Lists]}
WideGraphs  == {g \in [MCNodes -> Ascending] : \A n \in MCNodes : ~Contains(g[n], n)}

MCGraphs == SmallGraphs \cup WideGraphs

\* Node names mean nothing to the walk: one start is as good as another.
MCStarts == {1}
=============================================================================
