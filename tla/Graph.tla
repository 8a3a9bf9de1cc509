------------------------------- MODULE Graph -------------------------------
(***************************************************************************)
(* tools::orgraph_t (include/tools/graph.hpp): an oriented graph whose     *)
(* nodes and edges live in two blocklists and are named by iterators.      *)
(* Every node keeps two vectors of edge iterators, the edges that start    *)
(* at it and the edges that end at it; every edge keeps its two ends.      *)
(* The operations must keep these four views of the graph in agreement.    *)
(*                                                                         *)
(* A node or an edge is the identity of its storage, so an identity may    *)
(* be used again after the object is erased.  An operation that throws     *)
(* logic_error leaves everything unchanged, hence is a stuttering step.    *)
(***************************************************************************)
EXTENDS Integers, Sequences, SequencesExt, FiniteSets, FiniteSetsExt

CONSTANTS
  NodeIds,     \* storage a node may occupy
  EdgeIds,     \* storage an edge may occupy
  NoNode,      \* "no node"
  SelfLoops    \* may a client join a node to itself?

ASSUME GraphAssumption ==
  /\ NoNode \notin NodeIds
  /\ SelfLoops \in BOOLEAN

VARIABLES
  nodes,          \* nodes_list: the live nodes
  edges,          \* edges_list: the live edges
  source,         \* edge_t::source_node
  target,         \* edge_t::target_node
  forward_list,   \* node_t::forward_list
  backward_list,  \* node_t::backward_list
  dying,          \* the node remove_node is working on, NoNode outside of it
  todo,           \* what is left of the two lists that remove_node copied
  ub              \* has an operation touched an object that is not there?

lists == <<forward_list, backward_list>>
cascade == <<dying, todo>>
vars == <<nodes, edges, source, target, lists, cascade, ub>>

Init ==
  /\ nodes = {}
  /\ edges = {}
  /\ source = [e \in EdgeIds |-> NoNode]
  /\ target = [e \in EdgeIds |-> NoNode]
  /\ forward_list = [n \in NodeIds |-> <<>>]
  /\ backward_list = [n \in NodeIds |-> <<>>]
  /\ dying = NoNode
  /\ todo = <<>>
  /\ ub = FALSE

-----------------------------------------------------------------------------
\* Position of the first edge of n that leads to t; 0 stands for end().
get_edge_target(n, t) ==
  LET at == {i \in 1..Len(forward_list[n]) : target[forward_list[n][i]] = t}
  IN  IF at = {} THEN 0 ELSE Min(at)

\* Position of the first edge of n that comes from s; 0 stands for end().
get_edge_source(n, s) ==
  LET at == {i \in 1..Len(backward_list[n]) : source[backward_list[n][i]] = s}
  IN  IF at = {} THEN 0 ELSE Min(at)

\* No operation is in progress, and none has gone wrong.
Idle == dying = NoNode /\ ~ub

emplace_node(n) ==
  /\ Idle
  /\ n \notin nodes
  /\ nodes' = nodes \cup {n}
  /\ forward_list' = [forward_list EXCEPT ![n] = <<>>]
  /\ backward_list' = [backward_list EXCEPT ![n] = <<>>]
  /\ UNCHANGED <<edges, source, target, cascade, ub>>

\* Slip: the search for an existing edge is forgotten.
emplace_edge_unchecked(e, s, t) ==
  /\ Idle
  /\ e \notin edges
  /\ SelfLoops \/ s # t
  /\ edges' = edges \cup {e}
  /\ source' = [source EXCEPT ![e] = s]
  /\ target' = [target EXCEPT ![e] = t]
  /\ forward_list' = [forward_list EXCEPT ![s] = Append(@, e)]
  /\ backward_list' = [backward_list EXCEPT ![t] = Append(@, e)]
  /\ UNCHANGED <<nodes, cascade, ub>>

emplace_edge(e, s, t) ==
  /\ Idle
  /\ e \notin edges
  /\ SelfLoops \/ s # t
  /\ get_edge_target(s, t) = 0
  /\ edges' = edges \cup {e}
  /\ source' = [source EXCEPT ![e] = s]
  /\ target' = [target EXCEPT ![e] = t]
  /\ forward_list' = [forward_list EXCEPT ![s] = Append(@, e)]
  /\ backward_list' = [backward_list EXCEPT ![t] = Append(@, e)]
  /\ UNCHANGED <<nodes, cascade, ub>>

\* Slip: the edge stays in the backward list of its old target.
set_egde_target_listed_twice(e, new) ==
  /\ Idle
  /\ SelfLoops \/ source[e] # new
  /\ get_edge_source(new, source[e]) = 0
  /\ backward_list' = [backward_list EXCEPT ![new] = Append(@, e)]
  /\ target' = [target EXCEPT ![e] = new]
  /\ UNCHANGED <<nodes, edges, source, forward_list, cascade, ub>>

set_egde_target(e, new) ==
  LET old == target[e]
      s   == source[e]
  IN  /\ Idle
      /\ SelfLoops \/ s # new
      /\ get_edge_source(new, s) = 0
      /\ backward_list' =
           [backward_list EXCEPT ![old] = RemoveAt(@, get_edge_source(old, s)),
                                 ![new] = Append(@, e)]
      /\ target' = [target EXCEPT ![e] = new]
      /\ UNCHANGED <<nodes, edges, source, forward_list, cascade, ub>>

\* Slip: the duplicate is looked for at the old source, not at the new one.
set_egde_source_wrong_check(e, new) ==
  LET old == source[e]
      t   == target[e]
  IN  /\ Idle
      /\ new # old
      /\ SelfLoops \/ t # new
      /\ forward_list' =
           [forward_list EXCEPT ![old] = RemoveAt(@, get_edge_target(old, t)),
                                ![new] = Append(@, e)]
      /\ source' = [source EXCEPT ![e] = new]
      /\ UNCHANGED <<nodes, edges, target, backward_list, cascade, ub>>

set_egde_source(e, new) ==
  LET old == source[e]
      t   == target[e]
  IN  /\ Idle
      /\ SelfLoops \/ t # new
      /\ get_edge_target(new, t) = 0
      /\ forward_list' =
           [forward_list EXCEPT ![old] = RemoveAt(@, get_edge_target(old, t)),
                                ![new] = Append(@, e)]
      /\ source' = [source EXCEPT ![e] = new]
      /\ UNCHANGED <<nodes, edges, target, backward_list, cascade, ub>>

\* Slip: a vector's usual fast erase, which moves the last element into the gap.
Unlink_by_swap(e) ==
  LET s == source[e]
      t == target[e]
      fast_erase(list, i) == Front(ReplaceAt(list, i, Last(list)))
  IN  /\ forward_list' =
           [forward_list EXCEPT ![s] = fast_erase(@, get_edge_target(s, t))]
      /\ backward_list' =
           [backward_list EXCEPT ![t] = fast_erase(@, get_edge_source(t, s))]
      /\ edges' = edges \ {e}
      /\ source' = [source EXCEPT ![e] = NoNode]
      /\ target' = [target EXCEPT ![e] = NoNode]

\* The body of remove_edge: unlink the first edge with these ends from each
\* list, then free the edge itself.
Unlink(e) ==
  LET s == source[e]
      t == target[e]
  IN  /\ forward_list' =
           [forward_list EXCEPT ![s] = RemoveAt(@, get_edge_target(s, t))]
      /\ backward_list' =
           [backward_list EXCEPT ![t] = RemoveAt(@, get_edge_source(t, s))]
      /\ edges' = edges \ {e}
      /\ source' = [source EXCEPT ![e] = NoNode]
      /\ target' = [target EXCEPT ![e] = NoNode]

remove_edge(e) ==
  /\ Idle
  /\ Unlink(e)
  /\ UNCHANGED <<nodes, cascade, ub>>

\* Slip: only the edges that start at the node are removed with it.
remove_node_forward_only(n) ==
  /\ Idle
  /\ dying' = n
  /\ todo' = forward_list[n]
  /\ UNCHANGED <<nodes, edges, source, target, lists, ub>>

\* Slip: both copies are made of the forward list.
remove_node_copies_one_list(n) ==
  /\ Idle
  /\ dying' = n
  /\ todo' = forward_list[n] \o forward_list[n]
  /\ UNCHANGED <<nodes, edges, source, target, lists, ub>>

\* remove_node copies both lists, then calls remove_edge on each copy in turn
\* and frees the node; nothing else runs until it returns.
remove_node(n) ==
  /\ Idle
  /\ dying' = n
  /\ todo' = forward_list[n] \o backward_list[n]
  /\ UNCHANGED <<nodes, edges, source, target, lists, ub>>

\* One turn of its loops.  The copied iterator may name a freed edge.
remove_incident ==
  /\ dying # NoNode /\ ~ub
  /\ todo # <<>>
  /\ IF Head(todo) \in edges
       THEN Unlink(Head(todo)) /\ ub' = FALSE
       ELSE ub' = TRUE /\ UNCHANGED <<edges, source, target, lists>>
  /\ todo' = Tail(todo)
  /\ UNCHANGED <<nodes, dying>>

\* Slip: the iterator to the freed node is kept.
erase_node_keeps_iterator ==
  /\ dying # NoNode /\ ~ub
  /\ todo = <<>>
  /\ nodes' = nodes \ {dying}
  /\ UNCHANGED <<edges, source, target, lists, cascade, ub>>

erase_node ==
  /\ dying # NoNode /\ ~ub
  /\ todo = <<>>
  /\ nodes' = nodes \ {dying}
  /\ forward_list' = [forward_list EXCEPT ![dying] = <<>>]
  /\ backward_list' = [backward_list EXCEPT ![dying] = <<>>]
  /\ dying' = NoNode
  /\ UNCHANGED <<edges, source, target, todo, ub>>

Next ==
  \/ \E n \in NodeIds : emplace_node(n)
  \/ \E e \in EdgeIds, s, t \in nodes : emplace_edge(e, s, t)
  \/ \E e \in edges, n \in nodes : set_egde_target(e, n)
  \/ \E e \in edges, n \in nodes : set_egde_source(e, n)
  \/ \E e \in edges : remove_edge(e)
  \/ \E n \in nodes : remove_node(n)
  \/ remove_incident
  \/ erase_node

Spec == Init /\ [][Next]_vars

-----------------------------------------------------------------------------
(***************************************************************************)
(* Properties.                                                             *)
(***************************************************************************)

\* Every variable ranges over what its C++ type and the calls allow; the node
\* that remove_node works on is still a node of the graph.
TypeOK ==
  /\ nodes \subseteq NodeIds
  /\ edges \subseteq EdgeIds
  /\ source \in [EdgeIds -> NodeIds \cup {NoNode}]
  /\ target \in [EdgeIds -> NodeIds \cup {NoNode}]
  /\ forward_list \in [NodeIds -> Seq(EdgeIds)]
  /\ backward_list \in [NodeIds -> Seq(EdgeIds)]
  /\ dying \in nodes \cup {NoNode}
  /\ todo \in Seq(EdgeIds)
  /\ ub \in BOOLEAN

\* Edge e stands in the list of `home`, once, and in the list of no other node.
ListedOnlyAt(e, list, home) ==
  /\ \E i \in 1..Len(list[home]) : list[home][i] = e
  /\ \A n \in NodeIds : \A i, j \in 1..Len(list[n]) :
       list[n][i] = e => n = home /\ (list[n][j] = e => i = j)

\* What assert_integrity (graph.hpp) looks for: the lists name registered edges
\* only, and each edge is exactly once in the forward list of its source and
\* exactly once in the backward list of its target.
Integrity ==
  /\ \A n \in NodeIds : \A i \in 1..Len(forward_list[n]) : forward_list[n][i] \in edges
  /\ \A n \in NodeIds : \A i \in 1..Len(backward_list[n]) : backward_list[n][i] \in edges
  /\ \A e \in edges : ListedOnlyAt(e, forward_list, source[e])
  /\ \A e \in edges : ListedOnlyAt(e, backward_list, target[e])

\* An edge never outlives one of its ends: following source() or target() of
\* a live edge reaches a live node, also between the removals of remove_node.
EndsAlive == \A e \in edges : {source[e], target[e]} \subseteq nodes

\* Two different edges never join the same source to the same target, however
\* edges are inserted and moved (emplace_edge and set_egde_* refuse it).
NoParallelEdges ==
  \A e, f \in edges : source[e] = source[f] /\ target[e] = target[f] => e = f

\* Whatever remove_node still has to remove is there to be removed: its copies
\* of the two lists never name an edge that is already gone.
CascadeLive == \A i \in 1..Len(todo) : todo[i] \in edges

\* e stands before f in list.
Before(list, e, f) ==
  \E i, j \in 1..Len(list) : i < j /\ list[i] = e /\ list[j] = f

\* The forward list of a node is the order of a call's arguments, a block's
\* statements, a struct's fields: no operation reorders the edges it keeps.
OrderKept ==
  [][\A n \in nodes \cap nodes' : \A e, f \in edges \cap edges' :
       /\ Before(forward_list[n], e, f) => ~Before(forward_list'[n], f, e)
       /\ Before(backward_list[n], e, f) => ~Before(backward_list'[n], f, e)]_vars

\* What a client sees of the graph.  A node under removal, and the edges at it,
\* are gone for a client as soon as the call begins.
VisibleNodes == nodes \ {dying}
VisibleEdges == {e \in edges : dying \notin {source[e], target[e]}}
VisibleArcs  == {[id |-> e, from |-> source[e], to |-> target[e]] : e \in VisibleEdges}

Promise == INSTANCE Digraph WITH
  Vertices <- NodeIds,
  Arcs     <- EdgeIds,
  vertices <- VisibleNodes,
  arcs     <- VisibleArcs

\* Every operation of the graph is one operation of Digraph, with the whole
\* cascade of remove_node as its one DropVertex step.
ImplementsDigraph == Promise!Spec
=============================================================================
