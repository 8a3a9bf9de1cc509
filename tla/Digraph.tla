------------------------------ MODULE Digraph ------------------------------
(***************************************************************************)
(* What tools::orgraph_t promises to its clients (the doc comments of      *)
(* include/tools/graph.hpp): a set of vertices, and a set of arcs between  *)
(* them of which no two join the same source to the same target.  Every    *)
(* operation is one indivisible step; removing a vertex removes, in the    *)
(* same step, exactly the arcs that start or end at it.                    *)
(***************************************************************************)

CONSTANTS
  Vertices,   \* the identities a vertex may have
  Arcs        \* the identities an arc may have

VARIABLES
  vertices,   \* the vertices of the graph
  arcs        \* its arcs, as records [id, from, to]

dvars == <<vertices, arcs>>

Init ==
  /\ vertices = {}
  /\ arcs = {}

Joined(from, to) == \E a \in arcs : a.from = from /\ a.to = to

AddVertex(v) ==
  /\ v \notin vertices
  /\ vertices' = vertices \cup {v}
  /\ UNCHANGED arcs

AddArc(id, from, to) ==
  /\ {from, to} \subseteq vertices
  /\ ~Joined(from, to)
  /\ \A a \in arcs : a.id # id
  /\ arcs' = arcs \cup {[id |-> id, from |-> from, to |-> to]}
  /\ UNCHANGED vertices

\* One end of an arc moves; the arc keeps its identity.
MoveArc(a, from, to) ==
  /\ {from, to} \subseteq vertices
  /\ a.from = from \/ a.to = to
  /\ ~Joined(from, to)
  /\ arcs' = (arcs \ {a}) \cup {[id |-> a.id, from |-> from, to |-> to]}
  /\ UNCHANGED vertices

DropArc(a) ==
  /\ arcs' = arcs \ {a}
  /\ UNCHANGED vertices

DropVertex(v) ==
  /\ vertices' = vertices \ {v}
  /\ arcs' = {a \in arcs : a.from # v /\ a.to # v}

Next ==
  \/ \E v \in Vertices : AddVertex(v)
  \/ \E id \in Arcs, from, to \in Vertices : AddArc(id, from, to)
  \/ \E a \in arcs, from, to \in Vertices : MoveArc(a, from, to)
  \/ \E a \in arcs : DropArc(a)
  \/ \E v \in vertices : DropVertex(v)

Spec == Init /\ [][Next]_dvars
=============================================================================
