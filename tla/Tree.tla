-------------------------------- MODULE Tree --------------------------------
(***************************************************************************)
(* tools::tree_t (include/tools/tree.hpp).  erase_subtree,                 *)
(* duplicate_subtree and assert_integrity each walk the graph with         *)
(* orgraph_t::traverse and act from its handler: erase_subtree collects    *)
(* nodes and removes them afterwards, duplicate_subtree adds nodes and     *)
(* edges to the graph that is being walked.                                *)
(*                                                                         *)
(* The inherited operations are single steps here (Graph has their parts,  *)
(* and shows why remove_node must not be given a node with an edge to      *)
(* itself);                                                                *)
(* the walk is the depth-first instance of the one in Traverse, over the   *)
(* lists as they are at each step.                                         *)
(***************************************************************************)
EXTENDS Integers, Sequences, FiniteSets, FiniteSetsExt

CONSTANTS
  NodeIds,     \* storage a node may occupy, naturals
  Data,        \* node_data
  Given,       \* the data that a client gives to a node, by its storage
  Labels,      \* edge_data
  NoNode,      \* node_iter{}
  MaxBuilt,    \* bound on the nodes of a graph that a client adds to or copies from
  MaxEdges,    \* bound on the edges when a client adds one
  MaxCalls,    \* bound on the subtrees that are erased or copied
  LoopsErased  \* may a client erase a node that has an edge to itself?

ASSUME TreeAssumption ==
  /\ NodeIds \subseteq Nat /\ NoNode \notin NodeIds
  /\ Given \in [NodeIds -> Data]
  /\ IsFiniteSet(NodeIds) /\ MaxBuilt \in 0..Cardinality(NodeIds)
  /\ MaxEdges \in Nat /\ MaxCalls \in Nat
  /\ LoopsErased \in BOOLEAN

VARIABLES
  graph,       \* the nodes, each with its data and forward list
  root,        \* tree_t::root
  op,          \* the operation in progress: "none", "erase", "copy", "check"
  arg,         \* its argument
  visited,     \* traverse: nodes that have been put into the deque
  seq,         \* traverse: the deque
  node,        \* traverse: the node whose edges are being handled
  idx,         \* traverse: position of the next edge in its list
  to_remove,   \* erase_subtree: the nodes still to be removed
  removing,    \* erase_subtree: the walk is over
  map,         \* duplicate_subtree: the copy of each node seen
  made,        \* history: the nodes that duplicate_subtree has added
  calls,       \* history: how many subtrees were erased or copied
  verdict,     \* assert_integrity: "none", "ok" or "throws"
  lost,        \* history: was the root erased, and not set again?
  ub           \* has an operation touched a node or an edge that is not there?

F == INSTANCE Forest

walk == <<visited, seq, node, idx>>
own == <<to_remove, removing, map, made>>
vars == <<graph, root, op, arg, walk, own, calls, verdict, lost, ub>>

Init ==
  /\ graph = [n \in {} |-> n]
  /\ root = NoNode /\ lost = FALSE /\ ub = FALSE
  /\ op = "none" /\ arg = NoNode
  /\ visited = {} /\ seq = <<>> /\ node = NoNode /\ idx = 1
  /\ to_remove = <<>> /\ removing = FALSE
  /\ map = [n \in {} |-> n] /\ made = {}
  /\ calls = 0 /\ verdict = "none"

\* The locals of an operation end with it.
Return ==
  /\ op' = "none" /\ arg' = NoNode
  /\ visited' = {} /\ seq' = <<>> /\ node' = NoNode /\ idx' = 1
  /\ to_remove' = <<>> /\ removing' = FALSE
  /\ map' = [n \in {} |-> n] /\ made' = {}

fresh == Min(NodeIds \ DOMAIN graph)
EdgeCount == MapThenSumSet(LAMBDA n : Len(graph[n].forward), DOMAIN graph)

-----------------------------------------------------------------------------
(***************************************************************************)
(* The calls of a client.                                                  *)
(***************************************************************************)
Idle == op = "none"
\* Nothing is added once the last subtree is erased or copied.
Small == Cardinality(DOMAIN graph) <= MaxBuilt /\ calls < MaxCalls
Quiet == /\ UNCHANGED <<op, arg, walk, own, calls, ub>>
         /\ verdict' = "none"

emplace_node ==
  /\ Idle /\ Small /\ Cardinality(DOMAIN graph) < MaxBuilt
  /\ graph' = F!WithNode(graph, fresh, Given[fresh])
  /\ Quiet /\ UNCHANGED <<root, lost>>

\* The label is the position of the edge, as in most rules of the parser.  A second
\* edge between the two is refused, an edge from a node to itself is not.
emplace_edge(s, t) ==
  /\ Idle /\ Small /\ EdgeCount < MaxEdges
  /\ t \notin F!Ends(graph, s) /\ Len(graph[s].forward) \in Labels
  /\ graph' = F!WithEdge(graph, s, t, Len(graph[s].forward))
  /\ Quiet /\ UNCHANGED <<root, lost>>

set_root(n) ==
  /\ Idle
  /\ root' = n /\ lost' = FALSE
  /\ Quiet /\ UNCHANGED graph

\* traverse begins: insert(start).
Start(name, n) ==
  /\ Idle
  /\ op' = name /\ arg' = n
  /\ visited' = {n} /\ seq' = <<n>> /\ node' = NoNode /\ idx' = 1
  /\ calls' = IF name = "check" THEN calls ELSE calls + 1
  /\ calls' <= MaxCalls
  /\ verdict' = "none"
  /\ UNCHANGED <<root, lost, ub>>

\* An edge from a node to itself stands in both of its lists.
Looped(n) == n \in F!Ends(graph, n)

erase_subtree(n) ==
  /\ LoopsErased \/ \A m \in F!Reach(graph, n) : ~Looped(m)
  /\ Start("erase", n)
  /\ UNCHANGED <<graph, own>>

\* The copy of `from` is made before the walk.  What is copied is a tree, as the
\* comment demands, and there is memory for it.
duplicate_subtree(n) ==
  /\ Small /\ F!IsTree(graph, n)
  /\ Cardinality(F!Reach(graph, n)) <= Cardinality(NodeIds \ DOMAIN graph)
  /\ Start("copy", n)
  /\ graph' = F!WithNode(graph, fresh, graph[n].data)
  /\ map' = [m \in {n} |-> fresh]
  /\ made' = {fresh}
  /\ UNCHANGED <<to_remove, removing>>

\* A client has set a root that is still there, so that the graph is not empty.  The
\* check of the graph itself, which comes first, passes: Integrity, a theorem on Graph.
assert_integrity ==
  /\ root # NoNode /\ ~lost
  /\ Start("check", root)
  /\ UNCHANGED <<graph, own>>

-----------------------------------------------------------------------------
(***************************************************************************)
(* The walk.                                                               *)
(***************************************************************************)
Walking == ~Idle /\ ~removing
ListDone == node # NoNode => idx > Len(graph[node].forward)

next_node ==
  /\ Walking /\ ListDone
  /\ seq # <<>>
  /\ node' = Head(seq) /\ seq' = Tail(seq) /\ idx' = 1
  /\ UNCHANGED <<graph, root, op, arg, visited, own, calls, verdict, lost, ub>>

\* Slip: a node that was taken may come into the deque again.
Take_again(e) ==
  /\ visited' = visited \cup {e.to}
  /\ seq' = IF \E i \in 1..Len(seq) : seq[i] = e.to THEN seq ELSE <<e.to>> \o seq
  /\ idx' = idx + 1
  /\ UNCHANGED <<root, op, arg, node, removing, calls, lost, ub>>

\* The next edge: its other end is put into the deque, and the handler called.
Take(e) ==
  /\ visited' = visited \cup {e.to}
  /\ seq' = IF e.to \in visited THEN seq ELSE <<e.to>> \o seq
  /\ idx' = idx + 1
  /\ UNCHANGED <<root, op, arg, node, removing, calls, lost, ub>>

\* Slip: a node is collected once for each edge that leads to it.
collect_all ==
  /\ Walking /\ ~ListDone /\ op = "erase"
  /\ LET e == graph[node].forward[idx]
     IN  /\ Take(e)
         /\ to_remove' = Append(to_remove, e.to)
  /\ UNCHANGED <<graph, map, made, verdict>>

\* The handler of erase_subtree.
collect ==
  /\ Walking /\ ~ListDone /\ op = "erase"
  /\ LET e == graph[node].forward[idx]
     IN  /\ Take(e)
         /\ to_remove' = IF e.to \in visited THEN to_remove ELSE Append(to_remove, e.to)
  /\ UNCHANGED <<graph, map, made, verdict>>

\* Slip: the copy of a node is joined to what the node itself is joined to.
copy_edge_shared ==
  /\ Walking /\ ~ListDone /\ op = "copy"
  /\ LET e == graph[node].forward[idx]
         with == F!WithNode(graph, fresh, graph[e.to].data)
     IN  /\ Take(e)
         /\ map' = [m \in DOMAIN map \cup {e.to} |-> IF m \in DOMAIN map THEN map[m] ELSE fresh]
         /\ graph' = F!WithEdge(with, map[node], e.to, e.label)
         /\ made' = made \cup {fresh}
  /\ UNCHANGED <<to_remove, verdict>>

\* The handler of duplicate_subtree: a node is made for every edge; map.emplace
\* keeps the copy that it has.
copy_edge ==
  /\ Walking /\ ~ListDone /\ op = "copy"
  /\ LET e == graph[node].forward[idx]
         with == F!WithNode(graph, fresh, graph[e.to].data)
     IN  /\ Take(e)
         /\ map' = [m \in DOMAIN map \cup {e.to} |-> IF m \in DOMAIN map THEN map[m] ELSE fresh]
         /\ graph' = F!WithEdge(with, map[node], map'[e.to], e.label)
         /\ made' = made \cup {fresh}
  /\ UNCHANGED <<to_remove, verdict>>

Throw ==
  /\ Return
  /\ verdict' = "throws"
  /\ UNCHANGED <<graph, root, calls, lost, ub>>

\* Slip: only an edge back to the root is a cycle.
check_edge_root_only ==
  /\ Walking /\ ~ListDone /\ op = "check"
  /\ LET e == graph[node].forward[idx]
     IN  IF e.to = root THEN Throw
         ELSE Take(e) /\ UNCHANGED <<graph, to_remove, map, made, verdict>>

\* The handler of assert_integrity, which throws out of the walk.
check_edge ==
  /\ Walking /\ ~ListDone /\ op = "check"
  /\ LET e == graph[node].forward[idx]
     IN  IF e.to \in visited THEN Throw
         ELSE Take(e) /\ UNCHANGED <<graph, to_remove, map, made, verdict>>

\* The walk is over: the copy and the check are done.
WalkDone == Walking /\ ListDone /\ seq = <<>>

return ==
  /\ WalkDone /\ op # "erase"
  /\ Return
  /\ verdict' = IF op = "check" THEN "ok" ELSE verdict
  /\ UNCHANGED <<graph, root, calls, lost, ub>>

start_removing ==
  /\ WalkDone /\ op = "erase"
  /\ removing' = TRUE
  /\ to_remove' = Append(to_remove, arg)
  /\ lost' = (lost \/ root \in visited)
  /\ UNCHANGED <<graph, root, op, arg, walk, map, made, calls, verdict, ub>>

\* remove_node of the next of them.  It works through copies of both lists of the node
\* and removes an edge that stands in both again, through an iterator to a freed slot.
remove_next ==
  /\ removing /\ to_remove # <<>> /\ ~ub
  /\ IF Head(to_remove) \in DOMAIN graph /\ ~Looped(Head(to_remove))
       THEN /\ graph' = F!Without(graph, {Head(to_remove)})
            /\ to_remove' = Tail(to_remove)
            /\ UNCHANGED ub
       ELSE ub' = TRUE /\ UNCHANGED <<graph, to_remove>>
  /\ UNCHANGED <<root, op, arg, walk, removing, map, made, calls, verdict, lost>>

\* The root is reset only if nothing is left.
erased ==
  /\ removing /\ to_remove = <<>>
  /\ root' = IF DOMAIN graph = {} THEN NoNode ELSE root
  /\ Return
  /\ UNCHANGED <<graph, calls, verdict, lost, ub>>

Client ==
  \/ emplace_node
  \/ \E s, t \in DOMAIN graph : emplace_edge(s, t)
  \/ \E n \in DOMAIN graph : set_root(n) \/ erase_subtree(n) \/ duplicate_subtree(n)
  \/ assert_integrity

Step ==
  \/ next_node \/ collect \/ copy_edge \/ check_edge \/ return
  \/ start_removing \/ remove_next \/ erased

Next == Client \/ Step

\* An operation that was called runs, without a wait, in the one thread there is.
Spec == Init /\ [][Next]_vars /\ WF_vars(Step)

-----------------------------------------------------------------------------
(***************************************************************************)
(* Properties.                                                             *)
(***************************************************************************)

\* The state has its shape; every edge, and what an operation still has to deal
\* with, names a live node; the root does until it is erased.
TypeOK ==
  /\ DOMAIN graph \subseteq NodeIds
  /\ \A n \in DOMAIN graph : graph[n].data \in Data /\ F!Ends(graph, n) \subseteq DOMAIN graph
  /\ root = NoNode \/ lost \/ root \in DOMAIN graph
  /\ Walking => visited \subseteq DOMAIN graph
  /\ \A i \in 1..Len(to_remove) : to_remove[i] \in DOMAIN graph
  /\ ub \in BOOLEAN

\* erase_subtree removes each node once and with it each edge once, although a node
\* is found by several edges and a cycle leads back to the first: it never asks
\* remove_node for a node that is gone or for an edge twice.
EraseDefined == ~ub

\* What a client sees: the copies appear when they are complete, and the subtree
\* is gone as soon as its removal begins.
VisibleGraph ==
  IF removing THEN F!Without(graph, {to_remove[i] : i \in 1..Len(to_remove)})
  ELSE F!Without(graph, made)

Promise == INSTANCE Forest WITH graph <- VisibleGraph

\* erase_subtree removes what forward edges lead to, shared or cyclic as it may
\* be, and nothing else; duplicate_subtree adds a copy of the tree with its data,
\* labels and order, apart from the original; no survivor is touched.
ImplementsForest == Promise!Spec

\* assert_integrity accepts a graph exactly if there is one path from the root to
\* each node that it leads to, and none back.
IntegrityRight ==
  verdict # "none" => (verdict = "ok") = F!IsTree(graph, root)

\* Every operation returns: the walk ends although it may go round in circles
\* (erase_subtree, assert_integrity) and although duplicate_subtree adds to the
\* graph that it walks over.
Returns == []<>(op = "none")
=============================================================================
