------------------------------ MODULE Traverse ------------------------------
(***************************************************************************)
(* orgraph_t::traverse (include/tools/graph.hpp), the walk that every pass *)
(* over the tree and both checks of assert_integrity are built on.  The    *)
(* graph does not change under the walk.  An edge is the pair of its ends, *)
(* which is sound because a graph has no parallel edges (GraphProofs shows *)
(* it, TraverseAssumption asks it of the lists).                           *)
(*                                                                         *)
(* One model covers both directions: adj[n] lists the other ends of the    *)
(* forward edges of n, or of its backward edges, in the order of its list. *)
(***************************************************************************)
EXTENDS Integers, Sequences, SequencesExt, FiniteSets

CONSTANTS
  Nodes,      \* the nodes of the graph
  NoNode,     \* "no node yet"
  Graphs,     \* the graphs considered, as functions from a node to its list
  Starts,     \* the nodes a client may start from
  Types       \* the instances of the template considered: "DFS", "BFS"

ASSUME TraverseAssumption ==
  /\ NoNode \notin Nodes
  /\ Graphs \subseteq [Nodes -> Seq(Nodes)]
  /\ \A g \in Graphs, n \in Nodes : \A i, j \in 1..Len(g[n]) : g[n][i] = g[n][j] => i = j
  /\ Starts \subseteq Nodes
  /\ Types \subseteq {"DFS", "BFS"}

VARIABLES
  adj,        \* the graph, seen in the direction of the walk
  type,       \* the instance of the template
  start,      \* the argument `start`
  visited,    \* nodes that have been put into the deque
  seq,        \* the deque
  node,       \* the node whose edges are being handled
  idx,        \* position of the next edge in its list
  status,     \* "running", "complete", or "stopped" by the handler
  order,      \* history: the nodes taken from the deque
  calls       \* history: the handler's arguments

input == <<adj, type, start>>
vars == <<input, visited, seq, node, idx, status, order, calls>>

\* The code before the loop: insert(start).
Init ==
  /\ adj \in Graphs
  /\ type \in Types
  /\ start \in Starts
  /\ visited = {start}
  /\ seq = <<start>>
  /\ node = NoNode
  /\ idx = 1
  /\ status = "running"
  /\ order = <<>>
  /\ calls = <<>>

\* Slip: insert() marks a node only when its walk begins.
Insert_unmarked(n) ==
  IF n \in visited
    THEN UNCHANGED <<visited, seq>>
    ELSE /\ seq' = IF type = "BFS" THEN Append(seq, n) ELSE <<n>> \o seq
         /\ UNCHANGED visited

\* Slip: both instances push to the front of the deque.
Insert_at_front(n) ==
  IF n \in visited
    THEN UNCHANGED <<visited, seq>>
    ELSE /\ visited' = visited \cup {n}
         /\ seq' = <<n>> \o seq

\* The lambda `insert`: a node enters the deque the first time it is seen, at
\* the back for BFS and at the front for DFS.
Insert(n) ==
  IF n \in visited
    THEN UNCHANGED <<visited, seq>>
    ELSE /\ visited' = visited \cup {n}
         /\ seq' = IF type = "BFS" THEN Append(seq, n) ELSE <<n>> \o seq

\* The list of the current node has been walked to its end.
ListDone == node # NoNode => idx > Len(adj[node])

\* Slip: the walk over a list starts one before its first edge.
next_node_before_first ==
  /\ status = "running" /\ ListDone
  /\ seq # <<>>
  /\ node' = Head(seq)
  /\ seq' = Tail(seq)
  /\ idx' = 0
  /\ order' = Append(order, Head(seq))
  /\ UNCHANGED <<input, visited, status, calls>>

\* while (!seq.empty()): take the front of the deque.
next_node ==
  /\ status = "running" /\ ListDone
  /\ seq # <<>>
  /\ node' = Head(seq)
  /\ seq' = Tail(seq)
  /\ idx' = 1
  /\ order' = Append(order, Head(seq))
  /\ UNCHANGED <<input, visited, status, calls>>

\* Slip: is_visited keeps the sense of what insert() returned.
handle_edge_inverted(stop) ==
  /\ status = "running" /\ ~ListDone
  /\ LET other == adj[node][idx]
     IN  /\ Insert(other)
         /\ calls' = Append(calls, [from |-> node, to |-> other,
                                    is_visited |-> other \notin visited])
  /\ idx' = idx + 1
  /\ status' = IF stop THEN "stopped" ELSE "running"
  /\ UNCHANGED <<input, node, order>>

\* Slip: an edge to a visited node ends the loop over the list.
handle_edge_break(stop) ==
  /\ status = "running" /\ ~ListDone
  /\ LET other == adj[node][idx]
     IN  /\ Insert(other)
         /\ calls' = Append(calls, [from |-> node, to |-> other,
                                    is_visited |-> other \in visited])
         /\ idx' = IF other \in visited THEN Len(adj[node]) + 1 ELSE idx + 1
  /\ status' = IF stop THEN "stopped" ELSE "running"
  /\ UNCHANGED <<input, node, order>>

\* One turn of the loop over the edges: insert the other end, then call the
\* handler, whose result says whether to stop.
handle_edge(stop) ==
  /\ status = "running" /\ ~ListDone
  /\ LET other == adj[node][idx]
     IN  /\ Insert(other)
         /\ calls' = Append(calls, [from |-> node, to |-> other,
                                    is_visited |-> other \in visited])
  /\ idx' = idx + 1
  /\ status' = IF stop THEN "stopped" ELSE "running"
  /\ UNCHANGED <<input, node, order>>

\* Slip: the loop waits until it has seen as many nodes as the graph has.
finish_when_all_seen ==
  /\ status = "running" /\ ListDone
  /\ seq = <<>> /\ visited = Nodes
  /\ status' = "complete"
  /\ UNCHANGED <<input, visited, seq, node, idx, order, calls>>

\* The deque is empty and the last list done: traverse returns.
finish ==
  /\ status = "running" /\ ListDone
  /\ seq = <<>>
  /\ status' = "complete"
  /\ UNCHANGED <<input, visited, seq, node, idx, order, calls>>

Next ==
  \/ next_node
  \/ \E stop \in BOOLEAN : handle_edge(stop)
  \/ finish

\* The walk is one thread that runs whenever it can; the handler returns.
Spec == Init /\ [][Next]_vars /\ WF_vars(Next)

-----------------------------------------------------------------------------
(***************************************************************************)
(* Properties.                                                             *)
(***************************************************************************)
Call == [from : Nodes, to : Nodes, is_visited : BOOLEAN]

\* Every variable ranges over what its type and the loop allow.
TypeOK ==
  /\ adj \in Graphs
  /\ type \in Types
  /\ start \in Starts
  /\ visited \subseteq Nodes
  /\ seq \in Seq(Nodes)
  /\ node \in Nodes \cup {NoNode}
  /\ idx \in Nat \ {0}
  /\ status \in {"running", "complete", "stopped"}
  /\ order \in Seq(Nodes)
  /\ calls \in Seq(Call)

Closed(S) == \A n \in S : \A i \in 1..Len(adj[n]) : adj[n][i] \in S

\* The nodes that a path leads to from `start`: the least closed set around it.
Reachable == {n \in Nodes : \A S \in SUBSET Nodes : start \in S /\ Closed(S) => n \in S}

\* The walk sees only nodes that a path leads to, and when it returns without
\* being stopped it has seen all of them.
VisitsReachable ==
  /\ visited \subseteq Reachable
  /\ status = "complete" => visited = Reachable

\* The k-th call is about the i-th edge of n.
Tells(k, n, i) == calls[k].from = n /\ calls[k].to = adj[n][i]

\* The handler is told of edges only; of those of a node in the order of its
\* list, and so of none twice; and if it does not stop the walk, of every edge
\* of every node that the walk has seen.
EachEdgeOnce ==
  /\ \A k \in 1..Len(calls) : \E i \in 1..Len(adj[calls[k].from]) : Tells(k, calls[k].from, i)
  /\ \A j, k \in 1..Len(calls) : calls[j].from = calls[k].from =>
       \A i, m \in 1..Len(adj[calls[k].from]) :
         Tells(j, calls[k].from, i) /\ Tells(k, calls[k].from, m) => (j < k <=> i < m)
  /\ status = "complete" =>
       \A n \in visited : \A i \in 1..Len(adj[n]) : \E k \in 1..Len(calls) : Tells(k, n, i)

\* The doc comment's colours: node1 is always known already, and is_visited is
\* false for exactly the call that discovers node2.
ColoursRight ==
  \A k \in 1..Len(calls) :
    LET known(n) == n = start \/ \E j \in 1..(k - 1) : calls[j].to = n
    IN  /\ known(calls[k].from)
        /\ calls[k].is_visited <=> known(calls[k].to)

Joined(m, n) == Contains(adj[m], n)

\* A walk takes nodes in breadth-first order when, for a before b before c, an
\* edge from a to c but not to b means that a node before a leads to b.
BFSOrder ==
  type = "BFS" =>
    \A a, b, c \in 1..Len(order) :
      a < b /\ b < c /\ Joined(order[a], order[c]) /\ ~Joined(order[a], order[b])
        => \E d \in 1..(a - 1) : Joined(order[d], order[b])

\* The walk returns, on cyclic graphs too.
Terminates == <>(status # "running")
=============================================================================
