--------------------------- MODULE TraverseProofs ---------------------------
(***************************************************************************)
(* Proofs about Traverse, for every graph and every choice of the handler. *)
(***************************************************************************)
EXTENDS Traverse, SequenceTheorems, TLAPS

Queued(n) == \E i \in 1..Len(seq) : seq[i] = n

\* The other ends of the first k edges of n have been put into the deque.
SeenUpTo(n, k) == \A i \in 1..Len(adj[n]) : i <= k => adj[n][i] \in visited

\* What was put into the deque can be reached, and is what the walk started
\* from or what the handler was told of.
Sound ==
  /\ \A S \in SUBSET Nodes : start \in S /\ Closed(S) => visited \subseteq S
  /\ \A n \in Nodes : n \in visited <=> (n = start \/ \E j \in 1..Len(calls) : calls[j].to = n)

\* A visited node waits in the deque, is the current one, or has had its whole
\* list handled; the current one has had the edges before idx handled.
Swept ==
  /\ \A n \in Nodes : Queued(n) => n \in visited
  /\ node # NoNode => node \in visited /\ SeenUpTo(node, idx - 1)
  /\ \A n \in visited : Queued(n) \/ n = node \/ SeenUpTo(n, Len(adj[n]))
  /\ status = "complete" => ListDone /\ seq = <<>>

IInv == TypeOK /\ Sound /\ Swept /\ ColoursRight

\* The list of a node is a finite sequence of nodes.
LEMMA Lists ==
  ASSUME TypeOK, NEW n \in Nodes
  PROVE  adj[n] \in Seq(Nodes) /\ Len(adj[n]) \in Nat
BY TraverseAssumption, LenProperties DEF TypeOK

\* Whichever end of the deque insert() uses, it adds the node if it is new.
LEMMA InsertAdds ==
  ASSUME TypeOK, NEW o \in Nodes, Insert(o)
  PROVE  /\ visited' = visited \cup {o}
         /\ seq' \in Seq(Nodes)
         /\ \A n \in Nodes : Queued(n)' <=> Queued(n) \/ (n = o /\ o \notin visited)
<1>1. CASE o \in visited
  BY <1>1 DEF Insert, TypeOK, Queued
<1>2. CASE o \notin visited /\ type = "BFS"
  <2>1. visited' = visited \cup {o} /\ seq' = Append(seq, o)
    BY <1>2 DEF Insert
  <2>2. /\ seq \in Seq(Nodes) /\ Len(seq) \in Nat
        /\ seq' \in Seq(Nodes)
        /\ Len(seq') = Len(seq) + 1
        /\ \A i \in 1..Len(seq) : seq'[i] = seq[i]
        /\ seq'[Len(seq) + 1] = o
    BY <2>1, AppendProperties, LenProperties DEF TypeOK
  <2> QED
    BY <1>2, <2>1, <2>2 DEF Queued
<1>3. CASE o \notin visited /\ type # "BFS"
  <2>1. visited' = visited \cup {o} /\ seq' = <<o>> \o seq
    BY <1>3 DEF Insert
  <2>2. /\ seq \in Seq(Nodes) /\ Len(seq) \in Nat
        /\ <<o>> \in Seq(Nodes) /\ Len(<<o>>) = 1 /\ <<o>>[1] = o
    BY LenProperties DEF TypeOK
  <2>3. /\ seq' \in Seq(Nodes)
        /\ Len(seq') = 1 + Len(seq)
        /\ \A i \in 1..(1 + Len(seq)) : seq'[i] = IF i <= 1 THEN o ELSE seq[i - 1]
    BY <2>1, <2>2, ConcatProperties
  <2>4. ASSUME NEW n \in Nodes, Queued(n)
        PROVE  Queued(n)'
    <3>1. PICK i \in 1..Len(seq) : seq[i] = n
      BY <2>4 DEF Queued
    <3>2. i + 1 \in 1..Len(seq') /\ seq'[i + 1] = seq[i]
      BY <2>2, <2>3
    <3> QED
      BY <3>1, <3>2 DEF Queued
  <2>5. ASSUME NEW n \in Nodes, Queued(n)'
        PROVE  Queued(n) \/ n = o
    <3>1. PICK i \in 1..Len(seq') : seq'[i] = n
      BY <2>5 DEF Queued
    <3>2. CASE i = 1
      BY <3>1, <3>2, <2>2, <2>3
    <3>3. CASE i # 1
      <4>1. i - 1 \in 1..Len(seq) /\ seq[i - 1] = n
        BY <3>1, <3>3, <2>2, <2>3
      <4> QED
        BY <4>1 DEF Queued
    <3> QED
      BY <3>2, <3>3
  <2>6. Queued(o)'
    <3>1. 1 \in 1..Len(seq') /\ seq'[1] = o
      BY <2>2, <2>3
    <3> QED
      BY <3>1 DEF Queued
  <2> QED
    BY <1>3, <2>1, <2>3, <2>4, <2>5, <2>6
<1> QED
  BY <1>1, <1>2, <1>3

\* The start is the one node that is seen.
LEMMA InitIInv == Init => IInv
<1> SUFFICES ASSUME Init PROVE IInv
  OBVIOUS
<1>1. TypeOK
  BY TraverseAssumption DEF Init, TypeOK, Call
<1>2. Len(seq) = 1 /\ seq[1] = start /\ Len(calls) = 0 /\ node = NoNode
  BY DEF Init
<1>3. Sound
  BY <1>2, TraverseAssumption DEF Init, Sound
<1>4. Swept
  BY <1>2 DEF Init, Swept, Queued
<1>5. ColoursRight
  BY <1>2 DEF ColoursRight
<1> QED
  BY <1>1, <1>3, <1>4, <1>5 DEF IInv

\* The node that leaves the deque has its whole list before it.
LEMMA NextNodeStep == ASSUME IInv, next_node PROVE IInv'
<1> USE DEF IInv
<1>1. /\ adj' = adj /\ type' = type /\ start' = start /\ visited' = visited
      /\ status' = status /\ calls' = calls
      /\ node' = Head(seq) /\ seq' = Tail(seq) /\ idx' = 1
      /\ status = "running" /\ seq # <<>>
  BY DEF next_node, input
<1>2. /\ seq \in Seq(Nodes) /\ Len(seq) \in Nat \ {0}
      /\ Head(seq) \in Nodes /\ Head(seq) = seq[1]
      /\ seq' \in Seq(Nodes) /\ Len(seq') = Len(seq) - 1
      /\ \A i \in 1..Len(seq') : seq'[i] = seq[i + 1]
  BY <1>1, HeadTailProperties, LenProperties, EmptySeq DEF TypeOK
<1>3. TypeOK'
  <2>1. order' \in Seq(Nodes)
    BY <1>2, AppendProperties DEF next_node, TypeOK
  <2> QED
    BY <1>1, <1>2, <2>1 DEF TypeOK
<1>4. Sound'
  BY <1>1 DEF Sound, Closed
<1>5. ColoursRight'
  BY <1>1 DEF ColoursRight
<1>6. ASSUME NEW n \in Nodes
      PROVE  Queued(n) <=> Queued(n)' \/ n = node'
  <2>1. ASSUME Queued(n), n # node'
        PROVE  Queued(n)'
    <3>1. PICK i \in 1..Len(seq) : seq[i] = n
      BY <2>1 DEF Queued
    <3>2. i # 1
      BY <3>1, <2>1, <1>1, <1>2
    <3>3. i - 1 \in 1..Len(seq') /\ seq'[i - 1] = n
      BY <3>1, <3>2, <1>2
    <3> QED
      BY <3>3 DEF Queued
  <2>2. ASSUME Queued(n)'
        PROVE  Queued(n)
    <3>1. PICK i \in 1..Len(seq') : seq'[i] = n
      BY <2>2 DEF Queued
    <3>2. i + 1 \in 1..Len(seq) /\ seq[i + 1] = n
      BY <3>1, <1>2
    <3> QED
      BY <3>2 DEF Queued
  <2>3. Queued(node')
    <3>1. 1 \in 1..Len(seq) /\ seq[1] = node'
      BY <1>1, <1>2
    <3> QED
      BY <3>1 DEF Queued
  <2> QED
    BY <2>1, <2>2, <2>3
<1>7. node' \in visited
  BY <1>1, <1>2, <1>6 DEF Swept
<1>8. SeenUpTo(node, idx - 1)'
  BY <1>1 DEF SeenUpTo
<1>9. ASSUME NEW n \in visited
      PROVE  Queued(n)' \/ n = node' \/ SeenUpTo(n, Len(adj[n]))'
  <2>1. n \in Nodes /\ Len(adj[n]) \in Nat
    BY Lists DEF TypeOK
  <2>2. CASE Queued(n)
    BY <2>1, <2>2, <1>6
  <2>3. CASE n = node
    <3>1. SeenUpTo(n, idx - 1) /\ idx > Len(adj[n]) /\ idx \in Nat
      BY <2>1, <2>3, TraverseAssumption DEF next_node, ListDone, Swept, TypeOK
    <3> QED
      BY <3>1, <2>1, <1>1 DEF SeenUpTo
  <2>4. CASE SeenUpTo(n, Len(adj[n]))
    BY <2>4, <1>1 DEF SeenUpTo
  <2> QED
    BY <2>2, <2>3, <2>4 DEF Swept
<1>10. Swept'
  <2>1. status' # "complete"
    BY <1>1
  <2> QED
    BY <2>1, <1>1, <1>6, <1>7, <1>8, <1>9 DEF Swept
<1> QED
  BY <1>3, <1>4, <1>5, <1>10

\* The end of an edge is visited once the edge has been handled.
LEMMA HandleEdgeStep ==
  ASSUME IInv, NEW stop \in BOOLEAN, handle_edge(stop)
  PROVE  IInv'
<1> USE DEF IInv
<1> DEFINE other == adj[node][idx]
           call == [from |-> node, to |-> other, is_visited |-> other \in visited]
<1>1. /\ status = "running" /\ node # NoNode /\ ~(idx > Len(adj[node]))
      /\ Insert(other)
      /\ calls' = Append(calls, call)
      /\ idx' = idx + 1
      /\ status' \in {"running", "stopped"}
      /\ adj' = adj /\ type' = type /\ start' = start
      /\ node' = node /\ order' = order
  BY DEF handle_edge, ListDone, input
<1>2. /\ node \in Nodes /\ node \in visited /\ idx \in Nat \ {0}
      /\ adj[node] \in Seq(Nodes) /\ Len(adj[node]) \in Nat
  BY <1>1, Lists DEF TypeOK, Swept
<1>3. idx \in 1..Len(adj[node]) /\ other \in Nodes
  <2>1. idx \in 1..Len(adj[node])
    BY <1>1, <1>2
  <2> QED
    BY <2>1, <1>2, ElementOfSeq
<1>4. call \in Call /\ call.from = node /\ call.to = other
      /\ call.is_visited = (other \in visited)
  <2> HIDE DEF other
  <2>1. (other \in visited) \in BOOLEAN
    OBVIOUS
  <2> QED
    BY <1>2, <1>3, <2>1, Zenon DEF Call, call
<1> HIDE DEF other, call
<1>5. /\ visited' = visited \cup {other}
      /\ seq' \in Seq(Nodes)
      /\ \A n \in Nodes : Queued(n)' <=> Queued(n) \/ (n = other /\ other \notin visited)
  BY <1>1, <1>3, InsertAdds
<1>6. /\ calls \in Seq(Call) /\ Len(calls) \in Nat
      /\ calls' \in Seq(Call) /\ Len(calls') = Len(calls) + 1
      /\ \A j \in 1..Len(calls) : calls'[j] = calls[j]
      /\ calls'[Len(calls) + 1] = call
  BY <1>1, <1>4, AppendProperties, LenProperties DEF TypeOK
<1>7. TypeOK'
  BY <1>1, <1>2, <1>3, <1>5, <1>6 DEF TypeOK
<1>8. Sound'
  <2>1. ASSUME NEW S \in SUBSET Nodes, start \in S, Closed(S)
        PROVE  visited' \subseteq S
    <3>1. node \in S
      BY <2>1, <1>2 DEF Sound
    <3>2. other \in S
      BY <2>1, <3>1, <1>3 DEF Closed, other
    <3> QED
      BY <2>1, <3>2, <1>5 DEF Sound
  <2>2. ASSUME NEW n \in Nodes
        PROVE  n \in visited' <=> (n = start \/ \E j \in 1..Len(calls') : calls'[j].to = n)
    <3>1. (\E j \in 1..Len(calls') : calls'[j].to = n)
            <=> ((\E j \in 1..Len(calls) : calls[j].to = n) \/ other = n)
      BY <1>4, <1>6
    <3> QED
      BY <3>1, <1>5 DEF Sound
  <2> QED
    BY <2>1, <2>2, <1>1 DEF Sound, Closed
<1>9. ASSUME NEW n \in Nodes, NEW k \in Nat, SeenUpTo(n, k)
      PROVE  SeenUpTo(n, k)'
  BY <1>9, <1>1, <1>5 DEF SeenUpTo
<1>10. Swept'
  <2>1. \A n \in Nodes : Queued(n)' => n \in visited'
    BY <1>5 DEF Swept
  <2>2. SeenUpTo(node, idx - 1)'
    <3>1. \A i \in 1..Len(adj[node]) : i <= idx' - 1 => i <= idx - 1 \/ i = idx
      BY <1>1, <1>2
    <3>2. SeenUpTo(node, idx - 1)
      BY <1>1 DEF Swept
    <3>3. adj[node][idx] = other
      BY DEF other
    <3> QED
      BY <3>1, <3>2, <3>3, <1>1, <1>5 DEF SeenUpTo
  <2>3. ASSUME NEW n \in visited'
        PROVE  Queued(n)' \/ n = node' \/ SeenUpTo(n, Len(adj[n]))'
    <3>1. n \in Nodes /\ Len(adj[n]) \in Nat
      BY <1>7, <1>3, <1>5, Lists DEF TypeOK
    <3>2. CASE n \notin visited
      BY <3>1, <3>2, <1>5
    <3>3. CASE n \in visited
      BY <3>1, <3>3, <1>1, <1>5, <1>9 DEF Swept
    <3> QED
      BY <3>2, <3>3
  <2>4. status' # "complete"
    BY <1>1
  <2> QED
    BY <2>1, <2>2, <2>3, <2>4, <1>1, <1>2, <1>5 DEF Swept
<1>11. ColoursRight'
  <2> SUFFICES ASSUME NEW k \in 1..Len(calls')
               PROVE  /\ \/ calls'[k].from = start
                         \/ \E j \in 1..(k - 1) : calls'[j].to = calls'[k].from
                      /\ calls'[k].is_visited <=>
                           \/ calls'[k].to = start
                           \/ \E j \in 1..(k - 1) : calls'[j].to = calls'[k].to
    BY <1>1 DEF ColoursRight
  <2>1. \A j \in 1..(k - 1) : j \in 1..Len(calls) /\ calls'[j] = calls[j]
    BY <1>6
  <2>2. CASE k \in 1..Len(calls)
    <3>1. calls'[k] = calls[k]
      BY <2>2, <1>6
    <3>2. /\ \/ calls[k].from = start
             \/ \E j \in 1..(k - 1) : calls[j].to = calls[k].from
          /\ calls[k].is_visited <=>
               \/ calls[k].to = start
               \/ \E j \in 1..(k - 1) : calls[j].to = calls[k].to
      BY <2>2 DEF ColoursRight
    <3> QED
      BY <3>1, <3>2, <2>1
  <2>3. CASE k = Len(calls) + 1
    <3>1. calls'[k] = call /\ 1..(k - 1) = 1..Len(calls)
      BY <2>3, <1>6
    <3>2. node = start \/ \E j \in 1..Len(calls) : calls[j].to = node
      BY <1>2 DEF Sound
    <3>3. other \in visited <=> (other = start \/ \E j \in 1..Len(calls) : calls[j].to = other)
      BY <1>3 DEF Sound
    <3> QED
      BY <3>1, <3>2, <3>3, <2>1, <1>4
  <2> QED
    BY <2>2, <2>3, <1>6
<1> QED
  BY <1>7, <1>8, <1>10, <1>11

\* When the deque is empty, every list is done.
LEMMA FinishStep == ASSUME IInv, finish PROVE IInv'
BY DEF IInv, finish, input, TypeOK, Sound, Closed, Swept, Queued, SeenUpTo, ListDone, ColoursRight

\* The invariant holds in every reachable state.
LEMMA Inductive == Spec => []IInv
<1>1. Init => IInv
  BY InitIInv
<1>2. IInv /\ [Next]_vars => IInv'
  <2> SUFFICES ASSUME IInv, [Next]_vars PROVE IInv'
    OBVIOUS
  <2>1. CASE next_node
    BY <2>1, NextNodeStep
  <2>2. CASE \E stop \in BOOLEAN : handle_edge(stop)
    BY <2>2, HandleEdgeStep
  <2>3. CASE finish
    BY <2>3, FinishStep
  <2>4. CASE UNCHANGED vars
    BY <2>4 DEF vars, input, IInv, TypeOK, Sound, Closed, Swept, Queued, SeenUpTo, ListDone,
                ColoursRight
  <2> QED
    BY <2>1, <2>2, <2>3, <2>4 DEF Next
<1> QED
  BY <1>1, <1>2, PTL DEF Spec

\* When the walk is complete, the visited nodes are a closed set around the start.
LEMMA SeenAllReachable == ASSUME IInv PROVE VisitsReachable
<1>1. visited \subseteq Reachable
  BY DEF IInv, Sound, Reachable, TypeOK
<1>2. ASSUME status = "complete"
      PROVE  Reachable \subseteq visited
  <2>1. visited \in SUBSET Nodes /\ start \in visited
    BY TraverseAssumption DEF IInv, TypeOK, Sound
  <2>2. ASSUME NEW n \in visited
        PROVE  SeenUpTo(n, Len(adj[n]))
    <3>1. n \in Nodes /\ Len(adj[n]) \in Nat
      BY <2>1, Lists DEF IInv
    <3>2. ~Queued(n)
      BY <1>2 DEF IInv, Swept, Queued
    <3>3. CASE n = node
      <4>1. idx > Len(adj[n]) /\ SeenUpTo(n, idx - 1) /\ idx \in Nat
        BY <1>2, <3>1, <3>3, TraverseAssumption DEF IInv, TypeOK, Swept, ListDone
      <4> QED
        BY <3>1, <4>1 DEF SeenUpTo
    <3> QED
      BY <3>2, <3>3 DEF IInv, Swept
  <2>3. Closed(visited)
    <3>1. \A n \in visited : Len(adj[n]) \in Nat
      BY <2>1, Lists DEF IInv
    <3> QED
      BY <2>2, <3>1 DEF Closed, SeenUpTo
  <2> QED
    BY <2>1, <2>3 DEF Reachable
<1> QED
  BY <1>1, <1>2 DEF VisitsReachable

-----------------------------------------------------------------------------
(***************************************************************************)
(* Each edge once.  The edges of n that the handler was told of are the    *)
(* first Handled(n) of its list.                                           *)
(***************************************************************************)
Taken(n) == \E i \in 1..Len(order) : order[i] = n
Handled(n) == IF n = node THEN idx - 1 ELSE IF Taken(n) THEN Len(adj[n]) ELSE 0

\* A visited node is in the deque or was taken from it, and not both nor twice.
Once ==
  /\ \A i, j \in 1..Len(order) : order[i] = order[j] => i = j
  /\ \A i, j \in 1..Len(seq) : seq[i] = seq[j] => i = j
  /\ \A n \in Nodes : ~(Taken(n) /\ Queued(n))
  /\ \A n \in Nodes : n \in visited <=> Taken(n) \/ Queued(n)
  /\ node = IF Len(order) = 0 THEN NoNode ELSE order[Len(order)]
  /\ node # NoNode => idx - 1 <= Len(adj[node])

\* The calls for the edges of a node come in the order of its list.
InOrder ==
  \A j, k \in 1..Len(calls) : calls[j].from = calls[k].from =>
    \A i, m \in 1..Len(adj[calls[k].from]) :
      Tells(j, calls[k].from, i) /\ Tells(k, calls[k].from, m) => (j < k <=> i < m)

Told ==
  /\ \A n \in Nodes : \A k \in 1..Len(calls) :
       calls[k].from = n => \E i \in 1..Len(adj[n]) : i <= Handled(n) /\ Tells(k, n, i)
  /\ \A n \in Nodes : \A i \in 1..Len(adj[n]) :
       i <= Handled(n) => \E k \in 1..Len(calls) : Tells(k, n, i)
  /\ InOrder

EInv == IInv /\ Once /\ Told

\* The handler's arguments are nodes.
LEMMA CallFields ==
  ASSUME TypeOK
  PROVE  /\ Len(calls) \in Nat
         /\ \A k \in 1..Len(calls) : calls[k].from \in Nodes /\ calls[k].to \in Nodes
<1>1. calls \in Seq(Call)
  BY DEF TypeOK
<1>2. \A k \in 1..Len(calls) : calls[k] \in Call
  BY <1>1, ElementOfSeq
<1> QED
  BY <1>1, <1>2, LenProperties DEF Call

\* Nothing is handled twice by a list: two positions of it are two nodes.
LEMMA Distinct ==
  ASSUME TypeOK, NEW n \in Nodes, NEW i \in 1..Len(adj[n]), NEW j \in 1..Len(adj[n]), adj[n][i] = adj[n][j]
  PROVE  i = j
BY TraverseAssumption DEF TypeOK

\* Nothing has been taken or told yet.
LEMMA InitEInv == Init => EInv
<1> SUFFICES ASSUME Init PROVE EInv
  OBVIOUS
<1>1. /\ Len(seq) = 1 /\ seq[1] = start /\ Len(calls) = 0 /\ Len(order) = 0 /\ node = NoNode
      /\ visited = {start} /\ start \in Nodes /\ idx = 1
  BY TraverseAssumption DEF Init
<1>2. \A n \in Nodes : Handled(n) = 0
  BY <1>1, TraverseAssumption DEF Handled, Taken
<1>3. Once
  BY <1>1 DEF Once, Taken, Queued
<1>4. Told
  <2>1. \A n \in Nodes : Len(adj[n]) \in Nat
    BY InitIInv, Lists DEF IInv
  <2> QED
    BY <1>1, <1>2, <2>1 DEF Told, InOrder
<1> QED
  BY <1>3, <1>4, InitIInv DEF EInv

\* When the next node is taken, what was handled stays handled.
LEMMA NextNodeOnce ==
  ASSUME EInv, next_node
  PROVE  Once' /\ \A n \in Nodes : Handled(n)' = Handled(n)
<1>1. /\ adj' = adj /\ visited' = visited /\ calls' = calls
      /\ node' = Head(seq) /\ seq' = Tail(seq) /\ idx' = 1
      /\ order' = Append(order, Head(seq)) /\ seq # <<>>
  BY DEF next_node, input
<1>2. /\ seq \in Seq(Nodes) /\ Len(seq) \in Nat \ {0}
      /\ Head(seq) \in Nodes /\ Head(seq) = seq[1]
      /\ seq' \in Seq(Nodes) /\ Len(seq') = Len(seq) - 1
      /\ \A i \in 1..Len(seq') : seq'[i] = seq[i + 1] /\ i + 1 \in 1..Len(seq)
      /\ 1 \in 1..Len(seq)
  BY <1>1, HeadTailProperties, LenProperties, EmptySeq DEF EInv, IInv, TypeOK
<1> DEFINE h == Head(seq)
<1>3. /\ order \in Seq(Nodes) /\ Len(order) \in Nat
      /\ order' \in Seq(Nodes) /\ Len(order') = Len(order) + 1 /\ order'[Len(order) + 1] = h
      /\ \A i \in 1..Len(order) : order'[i] = order[i] /\ i \in 1..Len(order')
      /\ \A i \in 1..Len(order') : i \in 1..Len(order) \/ i = Len(order) + 1
      /\ Len(order) + 1 \in 1..Len(order')
  BY <1>1, <1>2, AppendProperties, LenProperties DEF EInv, IInv, TypeOK
<1>4. /\ \A i, j \in 1..Len(order) : order[i] = order[j] => i = j
      /\ \A i, j \in 1..Len(seq) : seq[i] = seq[j] => i = j
      /\ \A n \in Nodes : ~(Taken(n) /\ Queued(n))
      /\ \A n \in Nodes : n \in visited <=> Taken(n) \/ Queued(n)
      /\ node = IF Len(order) = 0 THEN NoNode ELSE order[Len(order)]
      /\ node # NoNode => idx - 1 <= Len(adj[node])
  BY DEF EInv, Once
<1>5. h \in Nodes /\ Queued(h) /\ ~Taken(h) /\ node' = h /\ order'[Len(order')] = h
  BY <1>1, <1>2, <1>3, <1>4 DEF Queued
<1> HIDE DEF h
<1>6. \A n \in Nodes : Taken(n)' <=> Taken(n) \/ n = h
  BY <1>3 DEF Taken
<1>7. \A n \in Nodes : Queued(n)' <=> Queued(n) /\ n # h
  <2> SUFFICES ASSUME NEW n \in Nodes
               PROVE  Queued(n)' <=> Queued(n) /\ n # h
    OBVIOUS
  <2>1. ASSUME Queued(n), n # h
        PROVE  Queued(n)'
    <3>1. PICK i \in 1..Len(seq) : seq[i] = n
      BY <2>1 DEF Queued
    <3>2. i - 1 \in 1..Len(seq') /\ (i - 1) + 1 = i
      BY <3>1, <2>1, <1>2 DEF h
    <3> QED
      BY <3>1, <3>2, <1>2 DEF Queued
  <2>2. ASSUME NEW i \in 1..Len(seq'), seq'[i] = n
        PROVE  Queued(n) /\ n # h
    <3>1. seq[i + 1] = n /\ i + 1 \in 1..Len(seq) /\ i + 1 # 1
      BY <2>2, <1>2
    <3> QED
      BY <3>1, <1>2, <1>4 DEF Queued, h
  <2> QED
    BY <2>1, <2>2 DEF Queued
<1>8. Once'
  <2>1. \A i, j \in 1..Len(order') : order'[i] = order'[j] => i = j
    BY <1>3, <1>4, <1>5 DEF Taken
  <2>2. \A i, j \in 1..Len(seq') : seq'[i] = seq'[j] => i = j
    <3> SUFFICES ASSUME NEW i \in 1..Len(seq'), NEW j \in 1..Len(seq'), seq'[i] = seq'[j]
                 PROVE  i = j
      OBVIOUS
    <3>1. i + 1 = j + 1
      BY <1>2, <1>4
    <3> QED
      BY <3>1
  <2>3. \A n \in Nodes : ~(Taken(n)' /\ Queued(n)')
    BY <1>4, <1>6, <1>7
  <2>4. \A n \in Nodes : n \in visited' <=> Taken(n)' \/ Queued(n)'
    BY <1>1, <1>4, <1>5, <1>6, <1>7
  <2>5. node' = IF Len(order') = 0 THEN NoNode ELSE order'[Len(order')]
    BY <1>3, <1>5
  <2>6. idx' - 1 <= Len(adj'[node'])
    <3>1. Len(adj[h]) \in Nat
      BY <1>5, Lists DEF EInv, IInv
    <3> QED
      BY <3>1, <1>1, <1>5
  <2> QED
    BY <2>1, <2>2, <2>3, <2>4, <2>5, <2>6 DEF Once
<1>9. \A n \in Nodes : Handled(n)' = Handled(n)
  <2> SUFFICES ASSUME NEW n \in Nodes
               PROVE  Handled(n)' = Handled(n)
    OBVIOUS
  <2>1. CASE n = h
    <3>1. n # node
      BY <2>1, <1>3, <1>4, <1>5, TraverseAssumption DEF Taken
    <3>2. Handled(n) = 0
      BY <3>1, <2>1, <1>5 DEF Handled
    <3>3. Handled(n)' = 0
      BY <2>1, <1>1, <1>5 DEF Handled
    <3> QED
      BY <3>2, <3>3
  <2>2. CASE n # h /\ n # node
    BY <2>2, <1>1, <1>5, <1>6 DEF Handled
  <2>3. CASE n # h /\ n = node
    <3>1. Taken(n)
      BY <2>3, <1>3, <1>4, TraverseAssumption DEF Taken
    <3>2. idx - 1 = Len(adj[n])
      <4>1. idx > Len(adj[n]) /\ idx - 1 <= Len(adj[n]) /\ idx \in Nat /\ Len(adj[n]) \in Nat
        BY <2>3, <1>4, Lists, TraverseAssumption DEF next_node, ListDone, EInv, IInv, TypeOK
      <4> QED
        BY <4>1
    <3> QED
      BY <3>1, <3>2, <2>3, <1>1, <1>5, <1>6 DEF Handled
  <2> QED
    BY <2>1, <2>2, <2>3
<1> QED
  BY <1>8, <1>9

\* The next node has been told of no edge, and the one before it of all.
LEMMA NextNodeTold ==
  ASSUME EInv, next_node
  PROVE  EInv'
<1>1. adj' = adj /\ calls' = calls
  BY DEF next_node, input
<1>2. Once' /\ \A n \in Nodes : Handled(n)' = Handled(n)
  BY NextNodeOnce
<1>3. IInv'
  BY NextNodeStep DEF EInv
<1>4. \A k \in 1..Len(calls) : calls[k].from \in Nodes
  BY CallFields DEF EInv, IInv
<1>5. Told'
  <2>1. ASSUME NEW n \in Nodes
        PROVE  /\ \A k \in 1..Len(calls) :
                    calls[k].from = n => \E i \in 1..Len(adj[n]) : i <= Handled(n)' /\ Tells(k, n, i)
               /\ \A i \in 1..Len(adj[n]) : i <= Handled(n)' => \E k \in 1..Len(calls) : Tells(k, n, i)
    BY <1>2 DEF EInv, Told
  <2>2. InOrder'
    <3>1. InOrder
      BY DEF EInv, Told
    <3> QED
      BY <1>1, <3>1 DEF InOrder, Tells
  <2>3. \A n, k, i : Tells(k, n, i)' <=> Tells(k, n, i)
    BY <1>1 DEF Tells
  <2>4. ASSUME NEW n \in Nodes
        PROVE  /\ \A k \in 1..Len(calls') :
                    calls'[k].from = n => \E i \in 1..Len(adj'[n]) : i <= Handled(n)' /\ Tells(k, n, i)'
               /\ \A i \in 1..Len(adj'[n]) : i <= Handled(n)' => \E k \in 1..Len(calls') : Tells(k, n, i)'
    BY <1>1, <2>1, <2>3
  <2> QED
    BY <2>2, <2>4, Zenon DEF Told
<1> QED
  BY <1>2, <1>3, <1>5 DEF EInv

\* Where insert() puts a new node, the deque holds no node twice.
LEMMA InsertOnce ==
  ASSUME TypeOK, NEW o \in Nodes, Insert(o), o \in visited \/ ~Queued(o),
         \A i, j \in 1..Len(seq) : seq[i] = seq[j] => i = j
  PROVE  \A i, j \in 1..Len(seq') : seq'[i] = seq'[j] => i = j
<1>1. CASE o \in visited
  BY <1>1 DEF Insert
<1>2. CASE o \notin visited /\ type = "BFS"
  <2>1. seq' = Append(seq, o)
    BY <1>2 DEF Insert
  <2>2. /\ seq \in Seq(Nodes) /\ Len(seq) \in Nat /\ Len(seq') = Len(seq) + 1
        /\ \A i \in 1..Len(seq) : seq'[i] = seq[i] /\ seq[i] # o
        /\ seq'[Len(seq) + 1] = o
        /\ \A i \in 1..Len(seq') : i \in 1..Len(seq) \/ i = Len(seq) + 1
    BY <1>2, <2>1, AppendProperties, LenProperties DEF TypeOK, Queued
  <2> QED
    BY <2>2
<1>3. CASE o \notin visited /\ type # "BFS"
  <2>1. seq' = <<o>> \o seq
    BY <1>3 DEF Insert
  <2>2. seq \in Seq(Nodes) /\ Len(seq) \in Nat /\ <<o>> \in Seq(Nodes) /\ Len(<<o>>) = 1 /\ <<o>>[1] = o
    BY LenProperties DEF TypeOK
  <2>3. /\ Len(seq') = 1 + Len(seq)
        /\ \A i \in 1..(1 + Len(seq)) : seq'[i] = IF i <= 1 THEN o ELSE seq[i - 1]
    BY <2>1, <2>2, ConcatProperties
  <2>4. \A i \in 1..Len(seq') : /\ i = 1 => seq'[i] = o
                                /\ i # 1 => i - 1 \in 1..Len(seq) /\ seq'[i] = seq[i - 1] /\ seq'[i] # o
    BY <1>3, <2>2, <2>3 DEF Queued
  <2> SUFFICES ASSUME NEW i \in 1..Len(seq'), NEW j \in 1..Len(seq'), seq'[i] = seq'[j]
               PROVE  i = j
    OBVIOUS
  <2>5. CASE i = 1 \/ j = 1
    BY <2>4, <2>5
  <2>6. CASE i # 1 /\ j # 1
    <3>1. i - 1 = j - 1
      BY <2>4, <2>6
    <3> QED
      BY <3>1, <2>2, <2>3
  <2> QED
    BY <2>5, <2>6
<1> QED
  BY <1>1, <1>2, <1>3

\* What a turn of the inner loop does.
LEMMA HandleEdgeFacts ==
  ASSUME EInv, NEW stop \in BOOLEAN, handle_edge(stop)
  PROVE  /\ node \in Nodes /\ node' = node /\ idx \in 1..Len(adj[node]) /\ idx' = idx + 1
         /\ adj[node] \in Seq(Nodes) /\ Len(adj[node]) \in Nat
         /\ adj[node][idx] \in Nodes /\ Insert(adj[node][idx])
         /\ Len(calls) \in Nat /\ Len(calls') = Len(calls) + 1
         /\ \A j \in 1..Len(calls) : calls'[j] = calls[j]
         /\ calls'[Len(calls) + 1].from = node /\ calls'[Len(calls) + 1].to = adj[node][idx]
         /\ adj' = adj /\ order' = order /\ type' = type /\ start' = start
         /\ Handled(node) = idx - 1
         /\ \A n \in Nodes : Handled(n)' = IF n = node THEN idx ELSE Handled(n)
         /\ status' # "complete"
<1> DEFINE other == adj[node][idx]
           call == [from |-> node, to |-> other, is_visited |-> other \in visited]
<1>1. /\ node # NoNode /\ ~(idx > Len(adj[node]))
      /\ Insert(other)
      /\ calls' = Append(calls, call)
      /\ idx' = idx + 1
      /\ adj' = adj /\ order' = order /\ node' = node /\ type' = type /\ start' = start
      /\ status' # "complete"
  BY DEF handle_edge, ListDone, input
<1>2. /\ node \in Nodes /\ idx \in Nat \ {0} /\ Len(adj[node]) \in Nat /\ adj[node] \in Seq(Nodes)
      /\ calls \in Seq(Call)
  BY <1>1, Lists DEF EInv, IInv, TypeOK
<1>3. idx \in 1..Len(adj[node])
  BY <1>1, <1>2
<1>4. other \in Nodes
  BY <1>2, <1>3, ElementOfSeq
<1>5. call \in Call /\ call.from = node /\ call.to = other
  <2> HIDE DEF other
  <2>1. (other \in visited) \in BOOLEAN
    OBVIOUS
  <2> QED
    BY <1>2, <1>4, <2>1, Zenon DEF Call, call
<1> HIDE DEF call, other
<1>6. /\ Len(calls) \in Nat /\ Len(calls') = Len(calls) + 1
      /\ \A j \in 1..Len(calls) : calls'[j] = calls[j]
      /\ calls'[Len(calls) + 1] = call
  BY <1>1, <1>2, <1>5, AppendProperties, LenProperties
<1>7. Handled(node) = idx - 1
  BY <1>1, <1>2 DEF Handled
<1>8. \A n \in Nodes : Handled(n)' = IF n = node THEN idx ELSE Handled(n)
  <2>1. ASSUME NEW n \in Nodes, n = node
        PROVE  Handled(n)' = idx
    BY <1>1, <1>2, <2>1 DEF Handled
  <2>2. ASSUME NEW n \in Nodes, n # node
        PROVE  Handled(n)' = Handled(n)
    BY <1>1, <2>2 DEF Handled, Taken
  <2> QED
    BY <2>1, <2>2
<1> QED
  BY <1>1, <1>2, <1>3, <1>4, <1>5, <1>6, <1>7, <1>8 DEF other

\* The end of an edge is queued only when it is seen for the first time.
LEMMA HandleEdgeOnce ==
  ASSUME EInv, NEW stop \in BOOLEAN, handle_edge(stop)
  PROVE  Once'
<1> DEFINE other == adj[node][idx]
<1>1. /\ node \in Nodes /\ node' = node /\ idx \in 1..Len(adj[node]) /\ idx' = idx + 1
      /\ Len(adj[node]) \in Nat /\ other \in Nodes /\ Insert(other) /\ adj' = adj /\ order' = order
  BY HandleEdgeFacts
<1>2. TypeOK
  BY DEF EInv, IInv
<1> HIDE DEF other
<1>3. /\ visited' = visited \cup {other}
      /\ \A n \in Nodes : Queued(n)' <=> Queued(n) \/ (n = other /\ other \notin visited)
  BY <1>1, <1>2, InsertAdds
<1>4. \A n \in Nodes : Taken(n)' <=> Taken(n)
  BY <1>1 DEF Taken
<1>5. /\ \A i, j \in 1..Len(order) : order[i] = order[j] => i = j
      /\ \A i, j \in 1..Len(seq) : seq[i] = seq[j] => i = j
      /\ \A n \in Nodes : ~(Taken(n) /\ Queued(n))
      /\ \A n \in Nodes : n \in visited <=> Taken(n) \/ Queued(n)
      /\ node = IF Len(order) = 0 THEN NoNode ELSE order[Len(order)]
  BY DEF EInv, Once
<1>6. \A i, j \in 1..Len(seq') : seq'[i] = seq'[j] => i = j
  BY <1>1, <1>2, <1>5, InsertOnce
<1>7. /\ \A n \in Nodes : ~(Taken(n)' /\ Queued(n)')
      /\ \A n \in Nodes : n \in visited' <=> Taken(n)' \/ Queued(n)'
  BY <1>3, <1>4, <1>5
<1>8. idx' - 1 <= Len(adj'[node'])
  BY <1>1
<1> QED
  BY <1>1, <1>5, <1>6, <1>7, <1>8 DEF Once

\* A call tells of the next edge of the node that is being handled.
LEMMA HandleEdgeTold ==
  ASSUME EInv, NEW stop \in BOOLEAN, handle_edge(stop)
  PROVE  EInv'
<1> DEFINE last == Len(calls) + 1
<1>1. /\ node \in Nodes /\ idx \in 1..Len(adj[node]) /\ Len(adj[node]) \in Nat
      /\ Len(calls) \in Nat /\ Len(calls') = last
      /\ \A j \in 1..Len(calls) : calls'[j] = calls[j]
      /\ calls'[last].from = node /\ calls'[last].to = adj[node][idx]
      /\ adj' = adj /\ Handled(node) = idx - 1
      /\ \A n \in Nodes : Handled(n)' = IF n = node THEN idx ELSE Handled(n)
  BY HandleEdgeFacts
<1>2. /\ 1..Len(calls') = 1..Len(calls) \cup {last} /\ last \notin 1..Len(calls)
      /\ last \in 1..Len(calls')
  BY <1>1
<1> HIDE DEF last
<1>3. \A n, i, k : /\ k \in 1..Len(calls) => (Tells(k, n, i)' <=> Tells(k, n, i))
                   /\ k = last => (Tells(k, n, i)' <=> n = node /\ adj[node][idx] = adj[n][i])
  BY <1>1 DEF Tells
<1>4. TypeOK /\ Told
  BY DEF EInv, IInv
<1>5. ASSUME NEW n \in Nodes, NEW k \in 1..Len(calls'), calls'[k].from = n
      PROVE  \E i \in 1..Len(adj[n]) : i <= Handled(n)' /\ Tells(k, n, i)'
  <2>1. CASE k = last
    BY <2>1, <1>1, <1>3, <1>5
  <2>2. CASE k # last
    <3>1. k \in 1..Len(calls) /\ calls[k].from = n
      BY <2>2, <1>1, <1>2, <1>5
    <3>2. PICK i \in 1..Len(adj[n]) : i <= Handled(n) /\ Tells(k, n, i)
      BY <3>1, <1>4 DEF Told
    <3>3. Len(adj[n]) \in Nat
      BY <1>4, Lists
    <3>4. i <= Handled(n)'
      BY <3>2, <3>3, <1>1
    <3> QED
      BY <3>1, <3>2, <3>4, <1>3
  <2> QED
    BY <2>1, <2>2
<1>6. ASSUME NEW n \in Nodes, NEW i \in 1..Len(adj[n]), i <= Handled(n)'
      PROVE  \E k \in 1..Len(calls') : Tells(k, n, i)'
  <2>1. CASE n = node /\ i = idx
    BY <2>1, <1>2, <1>3
  <2>2. CASE ~(n = node /\ i = idx)
    <3>1. Len(adj[n]) \in Nat
      BY <1>4, Lists
    <3>2. i <= Handled(n)
      BY <2>2, <3>1, <1>1, <1>6
    <3>3. PICK k \in 1..Len(calls) : Tells(k, n, i)
      BY <3>2, <1>4 DEF Told
    <3> QED
      BY <3>3, <1>2, <1>3
  <2> QED
    BY <2>1, <2>2
<1>7. ASSUME NEW k \in 1..Len(calls), NEW i \in 1..Len(adj[node]), Tells(k, node, i)
      PROVE  i < idx
  <2>1. PICK m \in 1..Len(adj[node]) : m <= idx - 1 /\ Tells(k, node, m)
    BY <1>1, <1>4, <1>7 DEF Told, Tells
  <2>2. adj[node][m] = adj[node][i]
    BY <1>7, <2>1 DEF Tells
  <2>3. m = i
    BY <2>2, <1>1, <1>4, Distinct
  <2> QED
    BY <2>1, <2>3, <1>1
<1>8. InOrder'
  <2> SUFFICES ASSUME NEW j \in 1..Len(calls'), NEW k \in 1..Len(calls'),
                      calls'[j].from = calls'[k].from,
                      NEW i \in 1..Len(adj[calls'[k].from]), NEW m \in 1..Len(adj[calls'[k].from]),
                      Tells(j, calls[k].from, i)', Tells(k, calls[k].from, m)'
               PROVE  j < k <=> i < m
    BY <1>1 DEF InOrder
  <2> DEFINE n == calls'[k].from
  <2>1. n = node \/ n \in Nodes
    BY <1>1, <1>2, <1>4, CallFields
  <2>2. n \in Nodes /\ Len(adj[n]) \in Nat
    BY <2>1, <1>1, <1>4, Lists
  <2>3. /\ calls'[j].from = n /\ calls'[j].to = adj[n][i]
        /\ calls'[k].from = n /\ calls'[k].to = adj[n][m]
    BY <1>1 DEF Tells
  <2>4. CASE j = last /\ k = last
    <3>1. adj[n][i] = adj[n][m]
      BY <2>3, <2>4
    <3>2. i = m
      BY <3>1, <2>2, <1>4, Distinct
    <3> QED
      BY <2>4, <3>2, <1>1, <1>2
  <2>5. CASE j = last /\ k # last
    <3>1. n = node /\ adj[node][i] = adj[node][idx]
      BY <1>1, <2>3, <2>5
    <3>2. i = idx
      BY <3>1, <1>1, <1>4, Distinct
    <3>3. k \in 1..Len(calls) /\ Tells(k, node, m)
      BY <3>1, <2>3, <2>5, <1>1, <1>2 DEF Tells
    <3>4. m < idx
      BY <3>1, <3>3, <1>7
    <3> QED
      BY <2>5, <3>2, <3>3, <3>4, <2>2, <1>1 DEF last
  <2>6. CASE j # last /\ k = last
    <3>1. n = node /\ adj[node][m] = adj[node][idx]
      BY <1>1, <2>3, <2>6
    <3>2. m = idx
      BY <3>1, <1>1, <1>4, Distinct
    <3>3. j \in 1..Len(calls) /\ Tells(j, node, i)
      BY <3>1, <2>3, <2>6, <1>1, <1>2 DEF Tells
    <3>4. i < idx
      BY <3>1, <3>3, <1>7
    <3> QED
      BY <2>6, <3>2, <3>3, <3>4, <2>2, <1>1 DEF last
  <2>7. CASE j # last /\ k # last
    <3>1. j \in 1..Len(calls) /\ k \in 1..Len(calls)
      BY <2>7, <1>2
    <3>2. /\ calls[j].from = n /\ calls[j].to = adj[n][i]
          /\ calls[k].from = n /\ calls[k].to = adj[n][m]
      BY <2>3, <3>1, <1>1
    <3> QED
      BY <3>1, <3>2, <1>4 DEF Told, InOrder, Tells
  <2> QED
    BY <2>4, <2>5, <2>6, <2>7
<1>9. Told'
  <2>1. ASSUME NEW n \in Nodes
        PROVE  /\ \A k \in 1..Len(calls') :
                    calls'[k].from = n => \E i \in 1..Len(adj'[n]) : i <= Handled(n)' /\ Tells(k, n, i)'
               /\ \A i \in 1..Len(adj'[n]) : i <= Handled(n)' => \E k \in 1..Len(calls') : Tells(k, n, i)'
    BY <1>1, <1>5, <1>6
  <2> QED
    BY <2>1, <1>8, Zenon DEF Told
<1> QED
  BY <1>9, HandleEdgeOnce, HandleEdgeStep DEF EInv

\* The invariant about edges holds in every reachable state.
LEMMA EdgesInductive == Spec => []EInv
<1>1. Init => EInv
  BY InitEInv
<1>2. EInv /\ [Next]_vars => EInv'
  <2> SUFFICES ASSUME EInv, [Next]_vars PROVE EInv'
    OBVIOUS
  <2>1. CASE next_node
    BY <2>1, NextNodeTold
  <2>2. CASE \E stop \in BOOLEAN : handle_edge(stop)
    BY <2>2, HandleEdgeTold
  <2>3. ASSUME UNCHANGED <<input, visited, seq, node, idx, order, calls>>
        PROVE  Once' /\ Told'
    <3>1. Once' 
      BY <2>3 DEF input, EInv, Once, Taken, Queued
    <3>2. \A n \in Nodes : Handled(n)' = Handled(n)
      BY <2>3 DEF input, Handled, Taken
    <3>3. Told'
      BY <2>3, <3>2 DEF input, EInv, Told, Tells, InOrder
    <3> QED
      BY <3>1, <3>3
  <2>4. CASE finish
    BY <2>3, <2>4, FinishStep DEF finish, EInv
  <2>5. CASE UNCHANGED vars
    <3>1. IInv'
      BY <2>5 DEF vars, input, EInv, IInv, TypeOK, Sound, Closed, Swept, Queued, SeenUpTo, ListDone,
                  ColoursRight
    <3> QED
      BY <2>3, <2>5, <3>1 DEF vars, EInv
  <2> QED
    BY <2>1, <2>2, <2>4, <2>5 DEF Next
<1> QED
  BY <1>1, <1>2, PTL DEF Spec

-----------------------------------------------------------------------------
(***************************************************************************)
(* Breadth-first order.  Discovered lists the visited nodes in the order   *)
(* in which a BFS has seen them: those taken, then those in the deque.     *)
(***************************************************************************)
Discovered == order \o seq
HandledTo(n, x) == \E i \in 1..Len(adj[n]) : i <= Handled(n) /\ adj[n][i] = x

\* Every discovered node but the first has an edge from a taken one.
Parented ==
  \A p \in 2..Len(Discovered) : \E d \in 1..Len(order) : Joined(order[d], Discovered[p])

\* What was discovered before the other end of a handled edge of the a-th node
\* has an edge from that node or from an earlier one.
Waves ==
  \A q \in 1..Len(Discovered), a \in 1..Len(order), n, x \in Nodes :
    n = order[a] /\ x = Discovered[q] /\ HandledTo(n, x) =>
      \A p \in 2..(q - 1) : \E d \in 1..a : Joined(order[d], Discovered[p])

BInv == EInv /\ (type = "BFS" => Parented /\ Waves)

\* The nodes in the order of their discovery: those taken, then those that wait.
LEMMA DiscoveredFacts ==
  ASSUME EInv
  PROVE  /\ order \in Seq(Nodes) /\ Len(order) \in Nat /\ seq \in Seq(Nodes) /\ Len(seq) \in Nat
         /\ Len(Discovered) = Len(order) + Len(seq)
         /\ \A p \in 1..Len(order) : Discovered[p] = order[p] /\ order[p] \in Nodes
         /\ \A p \in 1..Len(seq) : Discovered[Len(order) + p] = seq[p]
<1>1. order \in Seq(Nodes) /\ seq \in Seq(Nodes) /\ Len(order) \in Nat /\ Len(seq) \in Nat
  BY LenProperties DEF EInv, IInv, TypeOK
<1>2. /\ Len(Discovered) = Len(order) + Len(seq)
      /\ \A p \in 1..(Len(order) + Len(seq)) :
           Discovered[p] = IF p <= Len(order) THEN order[p] ELSE seq[p - Len(order)]
  BY <1>1, ConcatProperties DEF Discovered
<1>3. \A p \in 1..Len(order) : Discovered[p] = order[p] /\ order[p] \in Nodes
  BY <1>1, <1>2, ElementOfSeq
<1>4. ASSUME NEW p \in 1..Len(seq)
      PROVE  Discovered[Len(order) + p] = seq[p]
  <2>1. Len(order) + p \in 1..(Len(order) + Len(seq)) /\ ~(Len(order) + p <= Len(order))
        /\ (Len(order) + p) - Len(order) = p
    BY <1>1
  <2> QED
    BY <2>1, <1>2
<1> QED
  BY <1>1, <1>2, <1>3, <1>4

\* The current node is the last that was taken, and no other was taken there.
LEMMA CurrentIsLast ==
  ASSUME EInv, node # NoNode
  PROVE  Len(order) \in Nat \ {0} /\ \A a \in 1..Len(order) : order[a] = node <=> a = Len(order)
<1>1. Len(order) \in Nat
  BY DiscoveredFacts
<1>2. /\ \A i, j \in 1..Len(order) : order[i] = order[j] => i = j
      /\ node = IF Len(order) = 0 THEN NoNode ELSE order[Len(order)]
  BY DEF EInv, Once
<1> QED
  BY <1>1, <1>2

\* The start is discovered first, from nowhere.
LEMMA InitBInv == Init => BInv
<1> SUFFICES ASSUME Init PROVE BInv
  OBVIOUS
<1>1. EInv
  BY InitEInv
<1>2. Len(order) = 0 /\ Len(seq) = 1
  BY DEF Init
<1>3. Len(Discovered) = 1
  BY <1>1, <1>2, DiscoveredFacts
<1> QED
  BY <1>1, <1>2, <1>3 DEF BInv, Parented, Waves

\* To take a node from the deque does not change what was discovered, nor what
\* was handled.
LEMMA NextNodeWaves == ASSUME BInv, next_node PROVE BInv'
<1>1. EInv /\ EInv'
  BY NextNodeTold DEF BInv
<1>2. /\ adj' = adj /\ type' = type /\ seq # <<>> /\ seq' = Tail(seq)
      /\ order' = Append(order, Head(seq))
  BY DEF next_node, input
<1>3. /\ order \in Seq(Nodes) /\ Len(order) \in Nat /\ seq \in Seq(Nodes) /\ Len(seq) \in Nat \ {0}
      /\ Head(seq) = seq[1] /\ Head(seq) \in Nodes /\ Len(seq') = Len(seq) - 1
      /\ \A i \in 1..Len(seq') : seq'[i] = seq[i + 1]
  BY <1>1, <1>2, DiscoveredFacts, HeadTailProperties, LenProperties, EmptySeq
<1>4. /\ order' \in Seq(Nodes) /\ Len(order') = Len(order) + 1
      /\ \A i \in 1..Len(order) : order'[i] = order[i]
      /\ order'[Len(order) + 1] = Head(seq)
  BY <1>2, <1>3, AppendProperties
<1>5. Discovered' = Discovered
  <2>1. seq' \in Seq(Nodes)
    BY <1>2, <1>3, HeadTailProperties
  <2>2. /\ Discovered \in Seq(Nodes) /\ Len(Discovered) = Len(order) + Len(seq)
        /\ \A p \in 1..(Len(order) + Len(seq)) :
             Discovered[p] = IF p <= Len(order) THEN order[p] ELSE seq[p - Len(order)]
    BY <1>3, ConcatProperties DEF Discovered
  <2>3. /\ Discovered' \in Seq(Nodes) /\ Len(Discovered') = Len(order') + Len(seq')
        /\ \A p \in 1..(Len(order') + Len(seq')) :
             Discovered'[p] = IF p <= Len(order') THEN order'[p] ELSE seq'[p - Len(order')]
    BY <1>4, <2>1, ConcatProperties DEF Discovered
  <2>4. Len(Discovered') = Len(Discovered)
    BY <1>3, <1>4, <2>2, <2>3
  <2>5. ASSUME NEW p \in 1..Len(Discovered)
        PROVE  Discovered'[p] = Discovered[p]
    <3>1. /\ p \in Nat \ {0} /\ Len(order) \in Nat /\ Len(seq) \in Nat
          /\ p <= Len(order) + Len(seq) /\ Len(order') = Len(order) + 1 /\ Len(seq') = Len(seq) - 1
      BY <1>3, <1>4, <2>2
    <3>2. /\ Discovered[p] = IF p <= Len(order) THEN order[p] ELSE seq[p - Len(order)]
          /\ Discovered'[p] = IF p <= Len(order') THEN order'[p] ELSE seq'[p - Len(order')]
      <4>1. p \in 1..(Len(order) + Len(seq)) /\ p \in 1..(Len(order') + Len(seq'))
        BY <3>1
      <4> QED
        BY <4>1, <2>2, <2>3
    <3>3. CASE p <= Len(order)
      BY <3>1, <3>2, <3>3, <1>4
    <3>4. CASE p = Len(order) + 1
      <4>1. p - Len(order) = 1
        BY <3>1, <3>4
      <4> QED
        BY <3>1, <3>2, <3>4, <4>1, <1>3, <1>4
    <3>5. CASE p > Len(order) + 1
      <4> DEFINE i == p - Len(order')
      <4>1. i \in 1..Len(seq') /\ i + 1 = p - Len(order) /\ ~(p <= Len(order')) /\ ~(p <= Len(order))
        BY <3>1, <3>5
      <4>2. Discovered'[p] = seq'[i] /\ Discovered[p] = seq[i + 1]
        BY <3>2, <4>1
      <4> QED
        BY <4>1, <4>2, <1>3
    <3> QED
      BY <3>1, <3>3, <3>4, <3>5
  <2> QED
    BY <2>2, <2>3, <2>4, <2>5, SeqEqual
<1>6. ASSUME NEW n \in Nodes, NEW x
      PROVE  /\ HandledTo(n, x)' <=> HandledTo(n, x)
             /\ n = Head(seq) => ~HandledTo(n, x)'
  <2>1. Handled(n)' = Handled(n)
    BY <1>1, NextNodeOnce
  <2>2. n = Head(seq) => Handled(n)' = 0
    BY DEF Handled, next_node
  <2>3. Len(adj[n]) \in Nat
    BY <1>1, Lists DEF EInv, IInv
  <2> QED
    BY <2>1, <2>2, <2>3, <1>2 DEF HandledTo
<1>7. ASSUME type = "BFS"
      PROVE  Parented' /\ Waves'
  <2>1. Parented /\ Waves
    BY <1>7 DEF BInv
  <2>2. Len(Discovered) \in Nat
    BY <1>1, <1>3, DiscoveredFacts
  <2>3. \A d \in 1..Len(order) : d \in 1..Len(order') /\ order'[d] = order[d]
    BY <1>3, <1>4
  <2>4. ASSUME NEW p \in 2..Len(Discovered)
        PROVE  \E d \in 1..Len(order') : Contains(adj[order'[d]], Discovered[p])
    <3>1. PICK d \in 1..Len(order) : Joined(order[d], Discovered[p])
      BY <2>1 DEF Parented
    <3> QED
      BY <3>1, <2>3 DEF Joined
  <2>5. ASSUME NEW q \in 1..Len(Discovered), NEW a \in 1..Len(order'), NEW n \in Nodes, NEW x \in Nodes,
               n = order'[a], x = Discovered[q], HandledTo(n, x)', NEW p \in 2..(q - 1)
        PROVE  \E d \in 1..a : Contains(adj[order'[d]], Discovered[p])
    <3>1. HandledTo(n, x)
      BY <2>5, <1>6
    <3>2. a # Len(order) + 1
      BY <2>5, <1>4, <1>6
    <3>3. a \in 1..Len(order) /\ n = order[a]
      BY <3>2, <2>3, <2>5, <1>3, <1>4
    <3>4. PICK d \in 1..a : Joined(order[d], Discovered[p])
      BY <3>1, <3>3, <2>1, <2>5 DEF Waves
    <3>5. order'[d] = order[d]
      BY <3>3, <1>3, <2>3
    <3> QED
      BY <3>4, <3>5 DEF Joined
  <2>6. Parented'
    BY <2>4, <1>2, <1>5 DEF Parented, Joined
  <2>7. Waves'
    BY <2>5, <1>2, <1>5 DEF Waves, Joined
  <2> QED
    BY <2>6, <2>7
<1> QED
  BY <1>1, <1>2, <1>7 DEF BInv

\* A turn of the inner loop of a BFS adds to the end of what was discovered.
LEMMA InsertDiscovers ==
  ASSUME EInv, NEW stop \in BOOLEAN, handle_edge(stop), type = "BFS"
  PROVE  LET other == adj[node][idx]
         IN  /\ \A p \in 1..Len(Discovered) : Discovered'[p] = Discovered[p]
             /\ Len(Discovered) \in Nat
             /\ \/ Len(Discovered') = Len(Discovered)
                \/ /\ other \notin visited /\ Len(Discovered') = Len(Discovered) + 1
                   /\ Discovered'[Len(Discovered) + 1] = other
<1> DEFINE other == adj[node][idx]
<1>1. Insert(other) /\ other \in Nodes /\ order' = order
  BY HandleEdgeFacts
<1>2. /\ order \in Seq(Nodes) /\ Len(order) \in Nat /\ seq \in Seq(Nodes) /\ Len(seq) \in Nat
      /\ Len(Discovered) = Len(order) + Len(seq)
  BY DiscoveredFacts
<1> HIDE DEF other
<1>3. CASE other \in visited
  <2>1. Discovered' = Discovered
    BY <1>1, <1>3 DEF Insert, Discovered
  <2> QED
    BY <2>1, <1>2
<1>4. CASE other \notin visited
  <2>1. seq' = Append(seq, other)
    BY <1>1, <1>4 DEF Insert
  <2>2. /\ seq' \in Seq(Nodes) /\ Len(seq') = Len(seq) + 1 /\ seq'[Len(seq) + 1] = other
        /\ \A i \in 1..Len(seq) : seq'[i] = seq[i]
    BY <2>1, <1>1, <1>2, AppendProperties
  <2>3. /\ Len(Discovered') = Len(order) + Len(seq')
        /\ \A p \in 1..(Len(order) + Len(seq')) :
             Discovered'[p] = IF p <= Len(order) THEN order[p] ELSE seq'[p - Len(order)]
    <3>1. Discovered' = order \o seq'
      BY <1>1 DEF Discovered
    <3> QED
      BY <3>1, <2>2, <1>2, ConcatProperties
  <2>4. \A p \in 1..(Len(order) + Len(seq)) :
          Discovered[p] = IF p <= Len(order) THEN order[p] ELSE seq[p - Len(order)]
    BY <1>2, ConcatProperties DEF Discovered
  <2>5. ASSUME NEW p \in 1..Len(Discovered)
        PROVE  Discovered'[p] = Discovered[p]
    <3>1. p \in 1..(Len(order) + Len(seq)) /\ p \in 1..(Len(order) + Len(seq'))
          /\ (~(p <= Len(order)) => p - Len(order) \in 1..Len(seq))
      BY <1>2, <2>2
    <3> QED
      BY <3>1, <2>2, <2>3, <2>4
  <2>6. Discovered'[Len(Discovered) + 1] = other
    <3> DEFINE q == Len(Discovered) + 1
    <3>1. q \in 1..(Len(order) + Len(seq')) /\ ~(q <= Len(order)) /\ q - Len(order) = Len(seq) + 1
      BY <1>2, <2>2
    <3> QED
      BY <3>1, <2>2, <2>3
  <2> QED
    BY <1>2, <1>4, <2>2, <2>3, <2>5, <2>6 DEF other
<1> QED
  BY <1>3, <1>4 DEF other

\* What the current node leads to has been discovered after the nodes that the
\* earlier ones lead to.
LEMMA HandleEdgeWaves ==
  ASSUME BInv, NEW stop \in BOOLEAN, handle_edge(stop)
  PROVE  BInv'
<1> DEFINE other == adj[node][idx]
<1>1. EInv /\ EInv'
  BY HandleEdgeTold DEF BInv
<1>2. /\ node \in Nodes /\ node # NoNode /\ idx \in 1..Len(adj[node]) /\ Len(adj[node]) \in Nat
      /\ adj' = adj /\ order' = order /\ type' = type
      /\ Handled(node) = idx - 1
      /\ \A n \in Nodes : Handled(n)' = IF n = node THEN idx ELSE Handled(n)
  BY <1>1, HandleEdgeFacts, TraverseAssumption
<1>3. Len(order) \in Nat \ {0} /\ \A a \in 1..Len(order) : order[a] = node <=> a = Len(order)
  BY <1>1, <1>2, CurrentIsLast
<1>4. ASSUME type = "BFS"
      PROVE  Parented' /\ Waves'
  <2>1. Parented /\ Waves
    BY <1>4 DEF BInv
  <2>2. /\ \A p \in 1..Len(Discovered) : Discovered'[p] = Discovered[p]
        /\ Len(Discovered) \in Nat
        /\ \/ Len(Discovered') = Len(Discovered)
           \/ /\ other \notin visited /\ Len(Discovered') = Len(Discovered) + 1
              /\ Discovered'[Len(Discovered) + 1] = other
    BY <1>1, <1>4, InsertDiscovers
  <2> HIDE DEF other
  <2>3. \A p \in 1..Len(Discovered') : p \in 1..Len(Discovered) \/ p = Len(Discovered) + 1
    BY <2>2
  <2>4. ASSUME NEW p \in 2..Len(Discovered')
        PROVE  \E d \in 1..Len(order) : Contains(adj[order[d]], Discovered'[p])
    <3>1. CASE p \in 1..Len(Discovered)
      <4>1. p \in 2..Len(Discovered) /\ Discovered'[p] = Discovered[p]
        BY <3>1, <2>2
      <4> QED
        BY <4>1, <2>1 DEF Parented, Joined
    <3>2. CASE p \notin 1..Len(Discovered)
      <4>1. Discovered'[p] = other
        BY <3>2, <2>2, <2>3
      <4>2. Contains(adj[node], other)
        BY <1>2 DEF Contains, other
      <4>3. Len(order) \in 1..Len(order) /\ order[Len(order)] = node
        BY <1>3
      <4> QED
        BY <4>1, <4>2, <4>3
    <3> QED
      BY <3>1, <3>2
  <2>5. ASSUME NEW q \in 1..Len(Discovered'), NEW a \in 1..Len(order), NEW n \in Nodes, NEW x \in Nodes,
               n = order[a], x = Discovered'[q], HandledTo(n, x)', NEW p \in 2..(q - 1)
        PROVE  \E d \in 1..a : Contains(adj[order[d]], Discovered'[p])
    <3>1. p \in 2..Len(Discovered) /\ p \in 1..Len(Discovered) /\ Discovered'[p] = Discovered[p]
      BY <2>2
    <3>2. CASE n = node
      <4>1. a = Len(order)
        BY <3>2, <2>5, <1>3
      <4> QED
        BY <3>1, <4>1, <2>1 DEF Parented, Joined
    <3>3. CASE n # node
      <4>1. HandledTo(n, x)
        <5>1. Handled(n)' = Handled(n)
          BY <3>3, <1>2
        <5> QED
          BY <5>1, <2>5, <1>2 DEF HandledTo
      <4>2. x \in visited
        <5>1. PICK i \in 1..Len(adj[n]) : i <= Handled(n) /\ adj[n][i] = x
          BY <4>1 DEF HandledTo
        <5>2. PICK k \in 1..Len(calls) : Tells(k, n, i)
          BY <5>1, <1>1 DEF EInv, Told
        <5>3. calls[k].to = x
          BY <5>1, <5>2 DEF Tells
        <5> QED
          BY <5>3, <1>1 DEF EInv, IInv, Sound
      <4>3. q \in 1..Len(Discovered)
        BY <4>2, <2>2, <2>3, <2>5
      <4>4. PICK d \in 1..a : Joined(order[d], Discovered[p])
        <5>1. x = Discovered[q]
          BY <4>3, <2>2, <2>5
        <5> QED
          BY <4>1, <4>3, <5>1, <2>1, <2>5 DEF Waves
      <4> QED
        BY <4>4, <3>1 DEF Joined
    <3> QED
      BY <3>2, <3>3
  <2>6. Parented'
    BY <2>4, <1>2 DEF Parented, Joined
  <2>7. Waves'
    BY <2>5, <1>2 DEF Waves, Joined
  <2> QED
    BY <2>6, <2>7
<1> QED
  BY <1>1, <1>2, <1>4 DEF BInv

\* The invariant about waves holds in every reachable state.
LEMMA WavesInductive == Spec => []BInv
<1>1. Init => BInv
  BY InitBInv
<1>2. BInv /\ EInv' /\ [Next]_vars => BInv'
  <2> SUFFICES ASSUME BInv, EInv', [Next]_vars PROVE BInv'
    OBVIOUS
  <2>1. CASE next_node
    BY <2>1, NextNodeWaves
  <2>2. CASE \E stop \in BOOLEAN : handle_edge(stop)
    BY <2>2, HandleEdgeWaves
  <2>3. ASSUME UNCHANGED <<input, seq, node, idx, order>>
        PROVE  BInv'
    <3>1. adj' = adj /\ type' = type /\ order' = order /\ Discovered' = Discovered
      BY <2>3 DEF input, Discovered
    <3>2. \A n \in Nodes, x \in Nodes : HandledTo(n, x)' <=> HandledTo(n, x)
      BY <2>3 DEF input, Handled, HandledTo, Taken
    <3>3. Parented' <=> Parented
      BY <3>1 DEF Parented, Joined
    <3>4. Waves' <=> Waves
      BY <3>1, <3>2 DEF Waves, Joined
    <3> QED
      BY <3>1, <3>3, <3>4 DEF BInv
  <2>4. CASE finish
    BY <2>3, <2>4 DEF finish
  <2>5. CASE UNCHANGED vars
    BY <2>3, <2>5 DEF vars
  <2> QED
    BY <2>1, <2>2, <2>4, <2>5 DEF Next
<1> QED
  BY <1>1, <1>2, EdgesInductive, PTL DEF Spec

\* A node that was taken before the current one has had all its edges handled,
\* and when the walk is complete every visited node has.
LEMMA AllHandled ==
  ASSUME EInv, NEW n \in visited,
         status = "complete" \/ \E a \in 1..Len(order) : a < Len(order) /\ order[a] = n
  PROVE  n \in Nodes /\ Len(adj[n]) \in Nat /\ Handled(n) = Len(adj[n])
<1>1. TypeOK /\ n \in Nodes /\ Len(adj[n]) \in Nat
  BY Lists DEF EInv, IInv, TypeOK
<1>2. CASE n = node
  <2>1. node # NoNode
    BY <1>1, <1>2, TraverseAssumption
  <2>2. Len(order) \in Nat /\ \A a \in 1..Len(order) : order[a] = node <=> a = Len(order)
    BY <2>1, CurrentIsLast
  <2>3. status = "complete"
    BY <1>2, <2>2
  <2>4. idx > Len(adj[n]) /\ idx - 1 <= Len(adj[n]) /\ idx \in Nat
    BY <1>1, <1>2, <2>1, <2>3 DEF EInv, IInv, Swept, ListDone, Once, TypeOK
  <2>5. idx - 1 = Len(adj[n])
    BY <1>1, <2>4
  <2> QED
    BY <1>1, <1>2, <2>5 DEF Handled
<1>3. CASE n # node
  <2>1. Taken(n)
    <3>1. CASE status = "complete"
      <4>1. ~Queued(n)
        BY <3>1 DEF EInv, IInv, Swept, Queued
      <4> QED
        BY <4>1, <1>1 DEF EInv, Once
    <3>2. CASE \E a \in 1..Len(order) : a < Len(order) /\ order[a] = n
      BY <3>2 DEF Taken
    <3> QED
      BY <3>1, <3>2
  <2> QED
    BY <1>1, <1>3, <2>1 DEF Handled
<1> QED
  BY <1>2, <1>3

-----------------------------------------------------------------------------
\* Type correctness: whatever the handler answers, the deque holds only nodes
\* and the position in a list never falls before its first edge.
THEOREM TypeCorrect == Spec => []TypeOK
<1>1. IInv => TypeOK
  BY DEF IInv
<1> QED
  BY <1>1, Inductive, PTL

\* The walk visits exactly the nodes that a path leads to: no other at any time,
\* and all of them when traverse returns without having been stopped.
THEOREM VisitsAllReachable == Spec => []VisitsReachable
<1>1. IInv => VisitsReachable
  BY SeenAllReachable
<1> QED
  BY <1>1, Inductive, PTL

\* The colours of the doc comment: the handler's node1 was reported before (or is
\* the start), and is_visited tells whether node2 was.
THEOREM ColoursAreRight == Spec => []ColoursRight
<1>1. IInv => ColoursRight
  BY DEF IInv
<1> QED
  BY <1>1, Inductive, PTL

\* The handler is told of every edge that leaves a visited node exactly once, in
\* the order of the node's list, and of nothing else.
THEOREM EdgesAreToldOnce == Spec => []EachEdgeOnce
<1>1. ASSUME EInv
      PROVE  EachEdgeOnce
  <2>1. \A k \in 1..Len(calls) : calls[k].from \in Nodes
    BY <1>1, CallFields DEF EInv, IInv
  <2>2. \A k \in 1..Len(calls) : \E i \in 1..Len(adj[calls[k].from]) : Tells(k, calls[k].from, i)
    BY <1>1, <2>1 DEF EInv, Told
  <2>3. ASSUME status = "complete", NEW n \in visited, NEW i \in 1..Len(adj[n])
        PROVE  \E k \in 1..Len(calls) : Tells(k, n, i)
    <3>1. n \in Nodes /\ i <= Handled(n)
      BY <1>1, <2>3, AllHandled
    <3> QED
      BY <1>1, <3>1 DEF EInv, Told
  <2>4. InOrder
    BY <1>1 DEF EInv, Told
  <2> QED
    BY <2>2, <2>3, <2>4 DEF EachEdgeOnce, InOrder
<1> QED
  BY <1>1, EdgesInductive, PTL

\* The BFS instance takes nodes in breadth-first order, on graphs of any size.
THEOREM BreadthFirst == Spec => []BFSOrder
<1>1. ASSUME BInv
      PROVE  BFSOrder
  <2> SUFFICES ASSUME type = "BFS",
                      NEW a \in 1..Len(order), NEW b \in 1..Len(order), NEW c \in 1..Len(order),
                      a < b, b < c, Joined(order[a], order[c]), ~Joined(order[a], order[b])
               PROVE  \E d \in 1..(a - 1) : Joined(order[d], order[b])
    BY DEF BFSOrder
  <2>1. EInv /\ Waves
    BY <1>1 DEF BInv
  <2>2. /\ Len(order) \in Nat /\ Len(seq) \in Nat /\ Len(Discovered) = Len(order) + Len(seq)
        /\ \A p \in 1..Len(order) : Discovered[p] = order[p] /\ order[p] \in Nodes
    BY <2>1, DiscoveredFacts
  <2>3. a < Len(order) /\ order[a] \in Nodes /\ order[c] \in Nodes
    BY <2>2
  <2>4. order[a] \in visited
    BY <2>1, <2>3 DEF EInv, Once, Taken
  <2>5. Handled(order[a]) = Len(adj[order[a]])
    BY <2>1, <2>3, <2>4, AllHandled
  <2>6. HandledTo(order[a], order[c])
    <3>1. PICK i \in 1..Len(adj[order[a]]) : adj[order[a]][i] = order[c]
      BY DEF Joined, Contains
    <3>2. Len(adj[order[a]]) \in Nat
      BY <2>1, <2>3, Lists DEF EInv, IInv
    <3> QED
      BY <3>1, <3>2, <2>5 DEF HandledTo
  <2>7. c \in 1..Len(Discovered) /\ order[c] = Discovered[c] /\ b \in 2..(c - 1)
        /\ Discovered[b] = order[b]
    BY <2>2
  <2>8. PICK d \in 1..a : Joined(order[d], order[b])
    BY <2>1, <2>3, <2>6, <2>7 DEF Waves
  <2>9. d \in 1..(a - 1)
    BY <2>8
  <2> QED
    BY <2>8, <2>9
<1> QED
  BY <1>1, WavesInductive, PTL
=============================================================================
