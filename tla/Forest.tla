------------------------------- MODULE Forest -------------------------------
(***************************************************************************)
(* What tools::tree_t promises (the doc comments of                        *)
(* include/tools/tree.hpp): a graph of nodes with data and an ordered list *)
(* of labelled edges each, in which a subtree is erased, or copied, in one *)
(* indivisible step.  The graph is a value, a function from the live nodes *)
(* to what they hold; Tree and Parser use its operators too.               *)
(***************************************************************************)
EXTENDS Integers, Sequences, FiniteSets

CONSTANTS
  NodeIds,   \* the identities a node may have
  Data,      \* what a node may hold
  Labels     \* what an edge may hold

VARIABLE
  graph      \* [data, forward] of every live node

Edge(to, label) == [to |-> to, label |-> label]

Ends(g, n) == {g[n].forward[i].to : i \in 1..Len(g[n].forward)}

\* The nodes that a path from n leads to, n among them.
Reach(g, n) ==
  LET within[k \in 0..Cardinality(DOMAIN g)] ==
        IF k = 0 THEN {n}
        ELSE LET near == within[k - 1] IN near \cup UNION {Ends(g, m) : m \in near}
  IN  within[Cardinality(DOMAIN g)]

\* A single path leads from n to each node below it, and none back to n.
IsTree(g, n) ==
  LET S == Reach(g, n)
      into(m) == {p \in UNION {{k} \X (1..Len(g[k].forward)) : k \in S} :
                    g[p[1]].forward[p[2]].to = m}
  IN  \A m \in S : Cardinality(into(m)) = IF m = n THEN 0 ELSE 1

WithNode(g, n, d) ==
  [m \in DOMAIN g \cup {n} |-> IF m = n THEN [data |-> d, forward |-> <<>>] ELSE g[m]]

WithEdge(g, s, t, label) == [g EXCEPT ![s].forward = Append(@, Edge(t, label))]

\* The edges of a list that do not lead into S, in their order.
Outside(list, S) ==
  LET kept[i \in 0..Len(list)] ==
        IF i = 0 THEN <<>>
        ELSE IF list[i].to \in S THEN kept[i - 1]
        ELSE Append(kept[i - 1], list[i])
  IN  kept[Len(list)]

\* A node goes with the edges at it; the lists of the others keep their order.
Without(g, S) ==
  [n \in DOMAIN g \ S |-> [g[n] EXCEPT !.forward = Outside(@, S)]]

\* copy gives each node of a subtree the node that is to be its copy.
Injective(f) == \A a, b \in DOMAIN f : f[a] = f[b] => a = b

WithCopies(g, copy) ==
  LET origin(n) == CHOOSE m \in DOMAIN copy : copy[m] = n
      of(m) == [data |-> g[m].data,
                forward |-> [i \in 1..Len(g[m].forward) |->
                               Edge(copy[g[m].forward[i].to], g[m].forward[i].label)]]
  IN  [n \in DOMAIN g \cup {copy[m] : m \in DOMAIN copy} |->
         IF n \in DOMAIN g THEN g[n] ELSE of(origin(n))]

-----------------------------------------------------------------------------
Init == graph = [n \in {} |-> n]

AddNode(n, d) == n \notin DOMAIN graph /\ graph' = WithNode(graph, n, d)

AddEdge(s, t, label) == t \notin Ends(graph, s) /\ graph' = WithEdge(graph, s, t, label)

EraseSubtree(n) == graph' = Without(graph, Reach(graph, n))

\* Only a tree may be copied; what appears is the copy.
CopySubtree(n) ==
  /\ \E copy \in [Reach(graph, n) -> DOMAIN graph' \ DOMAIN graph] :
       Injective(copy) /\ graph' = WithCopies(graph, copy)
  /\ IsTree(graph, n)

Next ==
  \/ \E n \in NodeIds, d \in Data : AddNode(n, d)
  \/ \E s, t \in DOMAIN graph, label \in Labels : AddEdge(s, t, label)
  \/ \E n \in DOMAIN graph : EraseSubtree(n) \/ CopySubtree(n)

Spec == Init /\ [][Next]_graph
=============================================================================
