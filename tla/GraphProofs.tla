---------------------------- MODULE GraphProofs ----------------------------
(***************************************************************************)
(* Proofs about Graph, for any number of nodes and edges, of a client that *)
(* joins no node to itself (with self-loops remove_node is undefined, see  *)
(* CascadeLive when SelfLoops is TRUE).                                    *)
(***************************************************************************)
EXTENDS Graph, ListLemmas

(***************************************************************************)
(* The agreement between a family of lists and the end of the edges they   *)
(* are kept for: forward_list with source, or backward_list with target.   *)
(***************************************************************************)
Agree(list, home, E) ==
  /\ list \in [NodeIds -> Seq(EdgeIds)]
  /\ home \in [EdgeIds -> NodeIds \cup {NoNode}]
  /\ \A n \in NodeIds : \A i \in 1..Len(list[n]) :
       list[n][i] \in E /\ home[list[n][i]] = n
  /\ \A n \in NodeIds : \A i, j \in 1..Len(list[n]) :
       list[n][i] = list[n][j] => i = j
  /\ \A e \in E : /\ home[e] \in NodeIds
                  /\ \E i \in 1..Len(list[home[e]]) : list[home[e]][i] = e

\* Appending a new edge to the list of its end keeps the agreement.
LEMMA AgreeAppend ==
  ASSUME NEW list, NEW home, NEW E \in SUBSET EdgeIds, Agree(list, home, E),
         NEW e \in EdgeIds \ E, NEW n \in NodeIds
  PROVE  Agree([list EXCEPT ![n] = Append(@, e)], [home EXCEPT ![e] = n], E \cup {e})
<1> DEFINE l2 == [list EXCEPT ![n] = Append(@, e)]
           h2 == [home EXCEPT ![e] = n]
<1>1. \A m \in NodeIds : list[m] \in Seq(EdgeIds) /\ Len(list[m]) \in Nat
  BY LenProperties DEF Agree
<1>2. /\ Append(list[n], e) \in Seq(EdgeIds)
      /\ Len(Append(list[n], e)) = Len(list[n]) + 1
      /\ \A i \in 1..Len(list[n]) : Append(list[n], e)[i] = list[n][i]
      /\ Append(list[n], e)[Len(list[n]) + 1] = e
  BY <1>1, AppendProperties
<1>3. /\ l2 \in [NodeIds -> Seq(EdgeIds)]
      /\ h2 \in [EdgeIds -> NodeIds \cup {NoNode}]
      /\ l2[n] = Append(list[n], e)
      /\ \A m \in NodeIds \ {n} : l2[m] = list[m]
  BY <1>1, <1>2 DEF Agree
<1>4. \A m \in NodeIds : \A i \in 1..Len(l2[m]) :
        l2[m][i] \in E \cup {e} /\ h2[l2[m][i]] = m
  BY <1>1, <1>2, <1>3 DEF Agree
<1>5. \A m \in NodeIds : \A i, j \in 1..Len(l2[m]) : l2[m][i] = l2[m][j] => i = j
  BY <1>1, <1>2, <1>3 DEF Agree
<1>6. \A f \in E \cup {e} : /\ h2[f] \in NodeIds
                            /\ \E i \in 1..Len(l2[h2[f]]) : l2[h2[f]][i] = f
  <2> TAKE f \in E \cup {e}
  <2>1. CASE f = e
    <3>1. h2[f] = n /\ Len(list[n]) + 1 \in 1..Len(l2[n])
      BY <2>1, <1>1, <1>2, <1>3 DEF Agree
    <3> QED
      BY <3>1, <2>1, <1>2, <1>3
  <2>2. CASE f # e
    <3>1. h2[f] = home[f] /\ home[f] \in NodeIds
      BY <2>2 DEF Agree
    <3>2. PICK i \in 1..Len(list[home[f]]) : list[home[f]][i] = f
      BY <2>2 DEF Agree
    <3>3. i \in 1..Len(l2[home[f]]) /\ l2[home[f]][i] = f
      BY <3>1, <3>2, <1>1, <1>2, <1>3
    <3> QED
      BY <3>1, <3>3
  <2> QED
    BY <2>1, <2>2
<1> QED
  BY <1>3, <1>4, <1>5, <1>6 DEF Agree

\* Erasing an edge from the list of its end, and from the edges, keeps it.
LEMMA AgreeRemove ==
  ASSUME NEW list, NEW home, NEW E \in SUBSET EdgeIds, Agree(list, home, E),
         NEW e \in E, NEW k \in 1..Len(list[home[e]]), list[home[e]][k] = e,
         NEW x \in NodeIds \cup {NoNode}
  PROVE  Agree([list EXCEPT ![home[e]] = RemoveAt(@, k)], [home EXCEPT ![e] = x], E \ {e})
<1> DEFINE n  == home[e]
           l2 == [list EXCEPT ![n] = RemoveAt(@, k)]
           h2 == [home EXCEPT ![e] = x]
<1>0. n \in NodeIds
  BY DEF Agree
<1>1. \A m \in NodeIds : list[m] \in Seq(EdgeIds) /\ Len(list[m]) \in Nat
  BY LenProperties DEF Agree
<1>2. /\ RemoveAt(list[n], k) \in Seq(EdgeIds)
      /\ Len(RemoveAt(list[n], k)) = Len(list[n]) - 1
      /\ \A j \in 1..(Len(list[n]) - 1) :
           RemoveAt(list[n], k)[j] = IF j < k THEN list[n][j] ELSE list[n][j + 1]
  BY <1>0, <1>1, RemoveAtShifts
<1>3. /\ l2 \in [NodeIds -> Seq(EdgeIds)]
      /\ h2 \in [EdgeIds -> NodeIds \cup {NoNode}]
      /\ l2[n] = RemoveAt(list[n], k)
      /\ \A m \in NodeIds \ {n} : l2[m] = list[m]
      /\ \A f \in E \ {e} : h2[f] = home[f]
  BY <1>0, <1>1, <1>2 DEF Agree
<1>a. Len(list[n]) \in Nat /\ Len(l2[n]) = Len(list[n]) - 1 /\ k \in 1..Len(list[n])
  BY <1>0, <1>1, <1>2, <1>3
<1>b. \A i \in 1..Len(l2[n]) :
         /\ i < k => i \in 1..Len(list[n]) /\ l2[n][i] = list[n][i]
         /\ i >= k => i + 1 \in 1..Len(list[n]) /\ l2[n][i] = list[n][i + 1]
  BY <1>a, <1>2, <1>3
<1> HIDE DEF l2, h2, n
<1>4. \A m \in NodeIds : \A i \in 1..Len(l2[m]) :
        l2[m][i] \in E \ {e} /\ h2[l2[m][i]] = m
  <2> TAKE m \in NodeIds
  <2> TAKE i \in 1..Len(l2[m])
  <2>1. CASE m = n
    <3>1. PICK j \in 1..Len(list[n]) : j # k /\ l2[m][i] = list[n][j]
      <4>1. CASE i < k
        BY <4>1, <2>1, <1>a, <1>b
      <4>2. CASE i >= k
        BY <4>2, <2>1, <1>a, <1>b
      <4> QED
        BY <4>1, <4>2, <1>a, <2>1
    <3>2. list[n][j] # e /\ list[n][j] \in E /\ home[list[n][j]] = n
      BY <3>1, <1>0 DEF Agree, n
    <3> QED
      BY <3>1, <3>2, <2>1, <1>3
  <2>2. CASE m # n
    <3>1. l2[m][i] \in E /\ home[l2[m][i]] = m
      BY <2>2, <1>3 DEF Agree
    <3> QED
      BY <3>1, <2>2, <1>3 DEF n
  <2> QED
    BY <2>1, <2>2
<1>5. \A m \in NodeIds : \A i, j \in 1..Len(l2[m]) : l2[m][i] = l2[m][j] => i = j
  <2> TAKE m \in NodeIds
  <2>1. CASE m = n
    <3>1. \A i, j \in 1..Len(list[n]) : list[n][i] = list[n][j] => i = j
      BY <1>0 DEF Agree
    <3> SUFFICES ASSUME NEW i \in 1..Len(l2[n]), NEW j \in 1..Len(l2[n]),
                        l2[n][i] = l2[n][j]
                 PROVE  i = j
      BY <2>1
    <3>2. CASE i < k /\ j < k
      BY <3>1, <3>2, <1>b
    <3>3. CASE i >= k /\ j >= k
      <4>1. i + 1 = j + 1
        BY <3>1, <3>3, <1>a, <1>b
      <4> QED
        BY <4>1, <1>a
    <3>4. CASE i < k /\ j >= k
      <4>1. i = j + 1
        BY <3>1, <3>4, <1>b
      <4> QED
        BY <4>1, <3>4, <1>a
    <3>5. CASE i >= k /\ j < k
      <4>1. i + 1 = j
        BY <3>1, <3>5, <1>b
      <4> QED
        BY <4>1, <3>5, <1>a
    <3> QED
      BY <3>2, <3>3, <3>4, <3>5, <1>a
  <2>2. CASE m # n
    BY <2>2, <1>3 DEF Agree
  <2> QED
    BY <2>1, <2>2
<1>6. \A f \in E \ {e} : /\ h2[f] \in NodeIds
                         /\ \E i \in 1..Len(l2[h2[f]]) : l2[h2[f]][i] = f
  <2> TAKE f \in E \ {e}
  <2>1. h2[f] = home[f] /\ home[f] \in NodeIds
    BY <1>3 DEF Agree
  <2>2. PICK i \in 1..Len(list[home[f]]) : list[home[f]][i] = f
    BY DEF Agree
  <2>3. CASE home[f] = n
    <3>1. i # k /\ i \in 1..Len(list[n])
      BY <2>2, <2>3 DEF n
    <3>2. CASE i < k
      <4>1. i \in 1..Len(l2[n]) /\ l2[n][i] = f
        BY <3>1, <3>2, <2>2, <2>3, <1>a, <1>b
      <4> QED
        BY <4>1, <2>1, <2>3
    <3>3. CASE i > k
      <4>1. i - 1 \in 1..Len(l2[n]) /\ l2[n][i - 1] = f
        BY <3>1, <3>3, <2>2, <2>3, <1>a, <1>b
      <4> QED
        BY <4>1, <2>1, <2>3
    <3> QED
      BY <3>1, <3>2, <3>3, <1>a
  <2>4. CASE home[f] # n
    BY <2>1, <2>2, <2>4, <1>3
  <2> QED
    BY <2>3, <2>4
<1> QED
  BY <1>3, <1>4, <1>5, <1>6 DEF Agree, l2, h2, n

\* A list that no edge has its end at may be replaced by a fresh one.
LEMMA AgreeReset ==
  ASSUME NEW list, NEW home, NEW E \in SUBSET EdgeIds, Agree(list, home, E),
         NEW n \in NodeIds, \A e \in E : home[e] # n
  PROVE  Agree([list EXCEPT ![n] = <<>>], home, E)
<1> DEFINE l2 == [list EXCEPT ![n] = <<>>]
<1>1. /\ l2 \in [NodeIds -> Seq(EdgeIds)]
      /\ Len(l2[n]) = 0
      /\ \A m \in NodeIds \ {n} : l2[m] = list[m]
  BY EmptySeq DEF Agree
<1>2. \A m \in NodeIds : 1..Len(l2[m]) = {} \/ l2[m] = list[m]
  BY <1>1
<1> QED
  BY <1>1, <1>2 DEF Agree

-----------------------------------------------------------------------------
(***************************************************************************)
(* What the two searches return when the lists agree with the edges.       *)
(***************************************************************************)
Views ==
  /\ nodes \subseteq NodeIds
  /\ edges \subseteq EdgeIds
  /\ Agree(forward_list, source, edges)
  /\ Agree(backward_list, target, edges)
  /\ NoParallelEdges

\* Min of a set with one element.
LEMMA MinOfOne ==
  ASSUME NEW k \in Int
  PROVE  Min({k}) = k
BY DEF Min

\* Searching for the ends of a live edge finds the position of that edge.
LEMMA SearchFinds ==
  ASSUME Views, NEW e \in edges
  PROVE  LET s == source[e]
             t == target[e]
             i == get_edge_target(s, t)
             j == get_edge_source(t, s)
         IN  /\ i \in 1..Len(forward_list[s]) /\ forward_list[s][i] = e
             /\ j \in 1..Len(backward_list[t]) /\ backward_list[t][j] = e
<1> DEFINE s == source[e]
           t == target[e]
<1>0. s \in NodeIds /\ t \in NodeIds
  BY DEF Views, Agree
<1>1. PICK i \in 1..Len(forward_list[s]) : forward_list[s][i] = e
  BY DEF Views, Agree
<1>2. {k \in 1..Len(forward_list[s]) : target[forward_list[s][k]] = t} = {i}
  <2> SUFFICES ASSUME NEW k \in 1..Len(forward_list[s]),
                      target[forward_list[s][k]] = t
               PROVE  k = i
    BY <1>1
  <2>1. forward_list[s][k] = e
    BY <1>0 DEF Views, Agree, NoParallelEdges
  <2> QED
    BY <2>1, <1>0, <1>1 DEF Views, Agree
<1>3. PICK j \in 1..Len(backward_list[t]) : backward_list[t][j] = e
  BY DEF Views, Agree
<1>4. {k \in 1..Len(backward_list[t]) : source[backward_list[t][k]] = s} = {j}
  <2> SUFFICES ASSUME NEW k \in 1..Len(backward_list[t]),
                      source[backward_list[t][k]] = s
               PROVE  k = j
    BY <1>3
  <2>1. backward_list[t][k] = e
    BY <1>0 DEF Views, Agree, NoParallelEdges
  <2> QED
    BY <2>1, <1>0, <1>3 DEF Views, Agree
<1>5. get_edge_target(s, t) = i /\ get_edge_source(t, s) = j
  BY <1>2, <1>4, MinOfOne DEF get_edge_target, get_edge_source
<1> QED
  BY <1>1, <1>3, <1>5

\* A search that ends at end() means that no edge has these ends.
LEMMA SearchFails ==
  ASSUME Views, NEW e \in edges
  PROVE  /\ get_edge_target(source[e], target[e]) # 0
         /\ get_edge_source(target[e], source[e]) # 0
BY SearchFinds

-----------------------------------------------------------------------------
(***************************************************************************)
(* The inductive invariant.  Besides the agreement of the lists, it says   *)
(* what the copies made by remove_node hold: exactly the edges at the      *)
(* dying node, each of them once.  Without self-loops the two copies share *)
(* no edge, which is what makes each remove_edge of the cascade legal.     *)
(***************************************************************************)
NoLoops == \A e \in edges : source[e] # target[e]

Incident(e, n) == n \in {source[e], target[e]}

Cascade ==
  /\ dying \in nodes \cup {NoNode}
  /\ todo \in Seq(EdgeIds)
  /\ CascadeLive
  /\ \A i \in 1..Len(todo) : Incident(todo[i], dying)
  /\ \A i, j \in 1..Len(todo) : todo[i] = todo[j] => i = j
  /\ \A e \in edges : Incident(e, dying) => \E i \in 1..Len(todo) : todo[i] = e

IInv == Views /\ EndsAlive /\ NoLoops /\ Cascade /\ ub = FALSE

\* The empty graph satisfies the invariant.
LEMMA IInvInit == ~SelfLoops /\ Init => IInv
<1> SUFFICES ASSUME Init PROVE IInv
  OBVIOUS
<1>1. Len(<<>>) = 0 /\ <<>> \in Seq(EdgeIds)
  BY EmptySeq
<1> QED
  BY <1>1 DEF Init, IInv, Views, Agree, EndsAlive, NoParallelEdges, NoLoops, Cascade,
              CascadeLive, Incident

\* Unlinking a live edge, in remove_edge or in a turn of remove_node.
LEMMA UnlinkKeepsViews ==
  ASSUME Views, EndsAlive, NoLoops, NEW e \in edges, Unlink(e), nodes' = nodes
  PROVE  /\ Views' /\ EndsAlive' /\ NoLoops'
         /\ \A f \in edges' : source'[f] = source[f] /\ target'[f] = target[f]
<1> DEFINE s == source[e]
           t == target[e]
           i == get_edge_target(s, t)
           j == get_edge_source(t, s)
<1>1. /\ i \in 1..Len(forward_list[s]) /\ forward_list[s][i] = e
      /\ j \in 1..Len(backward_list[t]) /\ backward_list[t][j] = e
  BY SearchFinds
<1> HIDE DEF i, j
<1>2. Agree([forward_list EXCEPT ![s] = RemoveAt(@, i)],
            [source EXCEPT ![e] = NoNode], edges \ {e})
  BY <1>1, AgreeRemove DEF Views
<1>3. Agree([backward_list EXCEPT ![t] = RemoveAt(@, j)],
            [target EXCEPT ![e] = NoNode], edges \ {e})
  BY <1>1, AgreeRemove DEF Views
<1>4. Agree(forward_list', source', edges') /\ Agree(backward_list', target', edges')
  BY <1>2, <1>3 DEF Unlink, i, j
<1>5. \A f \in edges' : f \in edges /\ source'[f] = source[f] /\ target'[f] = target[f]
  BY DEF Unlink, Views, Agree
<1> QED
  BY <1>4, <1>5 DEF Views, NoParallelEdges, EndsAlive, NoLoops, Unlink

\* While no node is being removed, the copies are empty.
LEMMA IdleEmpty ==
  ASSUME IInv, dying = NoNode
  PROVE  todo = <<>> /\ Len(todo) = 0
<1>1. Len(todo) \in Nat
  BY LenProperties DEF IInv, Cascade
<1>2. \A i \in 1..Len(todo) : FALSE
  BY GraphAssumption DEF IInv, Cascade, CascadeLive, Incident, EndsAlive, Views
<1>3. Len(todo) = 0
  BY <1>1, <1>2
<1> QED
  BY <1>3, EmptySeq DEF IInv, Cascade

\* A new node has empty lists and ends no edge.
LEMMA EmplaceNodeStep ==
  ASSUME IInv, NEW n \in NodeIds, emplace_node(n)
  PROVE  IInv'
<1>1. \A e \in edges : source[e] # n /\ target[e] # n
  BY DEF emplace_node, IInv, EndsAlive
<1>2. /\ Agree(forward_list', source', edges')
      /\ Agree(backward_list', target', edges')
  BY <1>1, AgreeReset DEF emplace_node, IInv, Views
<1>3. Views' /\ EndsAlive' /\ NoLoops'
  BY <1>2 DEF emplace_node, IInv, Views, NoParallelEdges, EndsAlive, NoLoops
<1>4. Cascade'
  BY DEF emplace_node, cascade, IInv, Cascade, CascadeLive, Incident
<1> QED
  BY <1>3, <1>4 DEF emplace_node, IInv

\* emplace_edge lists the new edge once at each of its ends.
LEMMA EmplaceEdgeStep ==
  ASSUME ~SelfLoops, IInv, NEW e \in EdgeIds, NEW s \in nodes, NEW t \in nodes,
         emplace_edge(e, s, t)
  PROVE  IInv'
<1>1. s \in NodeIds /\ t \in NodeIds /\ e \notin edges /\ s # t
  BY DEF IInv, Views, emplace_edge
<1>2. /\ Agree(forward_list', source', edges')
      /\ Agree(backward_list', target', edges')
  BY <1>1, AgreeAppend DEF emplace_edge, IInv, Views
<1>3. \A f \in edges : ~(source[f] = s /\ target[f] = t)
  BY SearchFails DEF emplace_edge, IInv
<1>4. /\ source'[e] = s /\ target'[e] = t
      /\ \A f \in edges : source'[f] = source[f] /\ target'[f] = target[f]
      /\ edges' = edges \cup {e} /\ nodes' = nodes
  BY <1>1 DEF emplace_edge, IInv, Views, Agree
<1>5. Views' /\ EndsAlive' /\ NoLoops'
  BY <1>1, <1>2, <1>3, <1>4 DEF IInv, Views, NoParallelEdges, EndsAlive, NoLoops
<1>6. Cascade'
  <2>1. dying' = NoNode /\ todo' = todo /\ Len(todo) = 0 /\ Len(todo') = 0
    BY IdleEmpty DEF emplace_edge, Idle, cascade
  <2>2. \A f \in edges' : ~Incident(f, NoNode)'
    BY <1>5, GraphAssumption DEF Incident, Views, Agree
  <2> QED
    BY <2>1, <2>2, <1>4 DEF IInv, Cascade, CascadeLive, Incident
<1> QED
  BY <1>5, <1>6 DEF emplace_edge, IInv, Idle

\* set_egde_target moves the edge from one backward list to another.
LEMMA SetTargetStep ==
  ASSUME ~SelfLoops, IInv, NEW e \in edges, NEW new \in nodes, set_egde_target(e, new)
  PROVE  IInv'
<1> DEFINE old == target[e]
           s   == source[e]
           k   == get_edge_source(old, s)
<1>0. e \in EdgeIds /\ new \in NodeIds /\ old \in NodeIds /\ s # new
  BY DEF IInv, Views, Agree, set_egde_target
<1>1. k \in 1..Len(backward_list[old]) /\ backward_list[old][k] = e
  BY SearchFinds DEF IInv
<1> HIDE DEF k
<1>2. Agree([backward_list EXCEPT ![old] = RemoveAt(@, k)],
            [target EXCEPT ![e] = NoNode], edges \ {e})
  BY <1>1, AgreeRemove DEF IInv, Views
<1> DEFINE l == [backward_list EXCEPT ![old] = RemoveAt(@, k)]
           h == [target EXCEPT ![e] = NoNode]
<1>3. Agree([l EXCEPT ![new] = Append(@, e)], [h EXCEPT ![e] = new], (edges \ {e}) \cup {e})
  <2> HIDE DEF l, h
  <2> QED
    BY <1>0, <1>2, AgreeAppend DEF IInv, Views, l, h
<1>4. /\ [l EXCEPT ![new] = Append(@, e)] = backward_list'
      /\ [h EXCEPT ![e] = new] = target'
      /\ (edges \ {e}) \cup {e} = edges'
  <2>1. old # new
    BY SearchFails DEF set_egde_target, IInv
  <2>2. l[new] = backward_list[new]
    BY <2>1, <1>0 DEF IInv, Views, Agree
  <2>3. [l EXCEPT ![new] = Append(@, e)] = backward_list'
    BY <2>1, <2>2 DEF set_egde_target, k
  <2>4. [h EXCEPT ![e] = new] = target'
    BY <1>0 DEF set_egde_target, IInv, Views, Agree
  <2> QED
    BY <2>3, <2>4 DEF set_egde_target
<1>5. Agree(backward_list', target', edges') /\ Agree(forward_list', source', edges')
  BY <1>3, <1>4 DEF set_egde_target, IInv, Views
<1>6. \A f \in edges : ~(source[f] = s /\ target[f] = new)
  BY SearchFails DEF set_egde_target, IInv
<1>7. /\ target'[e] = new /\ source' = source /\ edges' = edges /\ nodes' = nodes
      /\ \A f \in edges \ {e} : target'[f] = target[f]
  BY <1>0 DEF set_egde_target, IInv, Views, Agree
<1>8. Views' /\ EndsAlive' /\ NoLoops'
  BY <1>0, <1>5, <1>6, <1>7 DEF IInv, Views, NoParallelEdges, EndsAlive, NoLoops
<1>9. Cascade'
  <2>1. dying' = NoNode /\ todo' = todo /\ Len(todo) = 0 /\ Len(todo') = 0
    BY IdleEmpty DEF set_egde_target, Idle, cascade
  <2>2. \A f \in edges' : ~Incident(f, NoNode)'
    BY <1>8, GraphAssumption DEF Incident, Views, Agree
  <2> QED
    BY <2>1, <2>2, <1>7 DEF IInv, Cascade, CascadeLive, Incident
<1> QED
  BY <1>8, <1>9 DEF set_egde_target, IInv, Idle

\* set_egde_source moves the edge from one forward list to another.
LEMMA SetSourceStep ==
  ASSUME ~SelfLoops, IInv, NEW e \in edges, NEW new \in nodes, set_egde_source(e, new)
  PROVE  IInv'
<1> DEFINE old == source[e]
           t   == target[e]
           k   == get_edge_target(old, t)
<1>0. e \in EdgeIds /\ new \in NodeIds /\ old \in NodeIds /\ t # new
  BY DEF IInv, Views, Agree, set_egde_source
<1>1. k \in 1..Len(forward_list[old]) /\ forward_list[old][k] = e
  BY SearchFinds DEF IInv
<1> HIDE DEF k
<1>2. Agree([forward_list EXCEPT ![old] = RemoveAt(@, k)],
            [source EXCEPT ![e] = NoNode], edges \ {e})
  BY <1>1, AgreeRemove DEF IInv, Views
<1> DEFINE l == [forward_list EXCEPT ![old] = RemoveAt(@, k)]
           h == [source EXCEPT ![e] = NoNode]
<1>3. Agree([l EXCEPT ![new] = Append(@, e)], [h EXCEPT ![e] = new], (edges \ {e}) \cup {e})
  <2> HIDE DEF l, h
  <2> QED
    BY <1>0, <1>2, AgreeAppend DEF IInv, Views, l, h
<1>4. /\ [l EXCEPT ![new] = Append(@, e)] = forward_list'
      /\ [h EXCEPT ![e] = new] = source'
      /\ (edges \ {e}) \cup {e} = edges'
  <2>1. old # new
    BY SearchFails DEF set_egde_source, IInv
  <2>2. l[new] = forward_list[new]
    BY <2>1, <1>0 DEF IInv, Views, Agree
  <2>3. [l EXCEPT ![new] = Append(@, e)] = forward_list'
    BY <2>1, <2>2 DEF set_egde_source, k
  <2>4. [h EXCEPT ![e] = new] = source'
    BY <1>0 DEF set_egde_source, IInv, Views, Agree
  <2> QED
    BY <2>3, <2>4 DEF set_egde_source
<1>5. Agree(backward_list', target', edges') /\ Agree(forward_list', source', edges')
  BY <1>3, <1>4 DEF set_egde_source, IInv, Views
<1>6. \A f \in edges : ~(source[f] = new /\ target[f] = t)
  BY SearchFails DEF set_egde_source, IInv
<1>7. /\ source'[e] = new /\ target' = target /\ edges' = edges /\ nodes' = nodes
      /\ \A f \in edges \ {e} : source'[f] = source[f]
  BY <1>0 DEF set_egde_source, IInv, Views, Agree
<1>8. Views' /\ EndsAlive' /\ NoLoops'
  BY <1>0, <1>5, <1>6, <1>7 DEF IInv, Views, NoParallelEdges, EndsAlive, NoLoops
<1>9. Cascade'
  <2>1. dying' = NoNode /\ todo' = todo /\ Len(todo) = 0 /\ Len(todo') = 0
    BY IdleEmpty DEF set_egde_source, Idle, cascade
  <2>2. \A f \in edges' : ~Incident(f, NoNode)'
    BY <1>8, GraphAssumption DEF Incident, Views, Agree
  <2> QED
    BY <2>1, <2>2, <1>7 DEF IInv, Cascade, CascadeLive, Incident
<1> QED
  BY <1>8, <1>9 DEF set_egde_source, IInv, Idle

\* remove_edge takes the edge out of both lists before it is freed.
LEMMA RemoveEdgeStep ==
  ASSUME IInv, NEW e \in edges, remove_edge(e)
  PROVE  IInv'
<1>1. /\ Views' /\ EndsAlive' /\ NoLoops'
      /\ \A f \in edges' : source'[f] = source[f] /\ target'[f] = target[f]
  BY UnlinkKeepsViews DEF remove_edge, IInv
<1>2. dying' = NoNode /\ todo' = todo /\ Len(todo) = 0 /\ Len(todo') = 0
  BY IdleEmpty DEF remove_edge, Idle, cascade
<1>3. \A f \in edges' : ~Incident(f, NoNode)'
  BY <1>1, GraphAssumption DEF Incident, Views, Agree
<1>4. Cascade'
  BY <1>2, <1>3 DEF IInv, Cascade, CascadeLive, Incident, remove_edge
<1> QED
  BY <1>1, <1>4 DEF remove_edge, IInv, Idle

\* The two copies name the edges at n, and no edge is in both.
LEMMA RemoveNodeStep ==
  ASSUME IInv, NEW n \in nodes, remove_node(n)
  PROVE  IInv'
<1> DEFINE f == forward_list[n]
           b == backward_list[n]
<1>0. n \in NodeIds /\ todo' = f \o b /\ dying' = n
  BY DEF IInv, Views, remove_node
<1>1. /\ f \in Seq(EdgeIds) /\ b \in Seq(EdgeIds)
      /\ Len(f) \in Nat /\ Len(b) \in Nat
  BY <1>0, LenProperties DEF IInv, Views, Agree
<1>2. /\ \A i \in 1..Len(f) : f[i] \in edges /\ source[f[i]] = n
      /\ \A i \in 1..Len(b) : b[i] \in edges /\ target[b[i]] = n
      /\ \A i, j \in 1..Len(f) : f[i] = f[j] => i = j
      /\ \A i, j \in 1..Len(b) : b[i] = b[j] => i = j
  BY <1>0 DEF IInv, Views, Agree
<1>3. /\ \A e \in edges : source[e] = n => \E i \in 1..Len(f) : f[i] = e
      /\ \A e \in edges : target[e] = n => \E i \in 1..Len(b) : b[i] = e
  <2>1. /\ \A e \in edges : \E i \in 1..Len(forward_list[source[e]]) :
              forward_list[source[e]][i] = e
        /\ \A e \in edges : \E i \in 1..Len(backward_list[target[e]]) :
              backward_list[target[e]][i] = e
    BY DEF IInv, Views, Agree
  <2> QED
    BY <2>1
<1>4. \A i \in 1..Len(f), j \in 1..Len(b) : f[i] # b[j]
  BY <1>2 DEF IInv, NoLoops
<1> HIDE DEF f, b
<1>5. /\ todo' \in Seq(EdgeIds)
      /\ Len(todo') = Len(f) + Len(b)
      /\ \A i \in 1..(Len(f) + Len(b)) :
           todo'[i] = IF i <= Len(f) THEN f[i] ELSE b[i - Len(f)]
  BY <1>0, <1>1, ConcatProperties
<1>6. \A i \in 1..Len(todo') :
        \/ i \in 1..Len(f) /\ todo'[i] = f[i]
        \/ i - Len(f) \in 1..Len(b) /\ ~(i \in 1..Len(f)) /\ todo'[i] = b[i - Len(f)]
  BY <1>1, <1>5
<1>7. /\ edges' = edges /\ source' = source /\ target' = target /\ nodes' = nodes
      /\ forward_list' = forward_list /\ backward_list' = backward_list /\ ub' = ub
  BY DEF remove_node, lists
<1>8. \A i \in 1..Len(todo') :
        todo'[i] \in edges /\ n \in {source[todo'[i]], target[todo'[i]]}
  BY <1>2, <1>6
<1>9. ASSUME NEW i \in 1..Len(todo'), NEW j \in 1..Len(todo'), todo'[i] = todo'[j]
      PROVE  i = j
  <2>1. CASE i \in 1..Len(f) /\ j \in 1..Len(f)
    BY <2>1, <1>9, <1>2, <1>6, <1>1
  <2>2. CASE i \in 1..Len(f) /\ ~(j \in 1..Len(f))
    BY <2>2, <1>9, <1>4, <1>6
  <2>3. CASE ~(i \in 1..Len(f)) /\ j \in 1..Len(f)
    BY <2>3, <1>9, <1>4, <1>6
  <2>4. CASE ~(i \in 1..Len(f)) /\ ~(j \in 1..Len(f))
    <3>1. i - Len(f) = j - Len(f)
      BY <2>4, <1>9, <1>2, <1>6
    <3> QED
      BY <3>1, <1>1, <1>5
  <2> QED
    BY <2>1, <2>2, <2>3, <2>4
<1>10. ASSUME NEW e \in edges, Incident(e, n)
       PROVE  \E i \in 1..Len(todo') : todo'[i] = e
  <2>1. CASE source[e] = n
    <3>1. PICK i \in 1..Len(f) : f[i] = e
      BY <2>1, <1>3
    <3>2. i \in 1..Len(todo') /\ todo'[i] = e
      BY <3>1, <1>1, <1>5
    <3> QED
      BY <3>2
  <2>2. CASE target[e] = n
    <3>1. PICK i \in 1..Len(b) : b[i] = e
      BY <2>2, <1>3
    <3>2. Len(f) + i \in 1..(Len(f) + Len(b)) /\ ~(Len(f) + i <= Len(f))
          /\ (Len(f) + i) - Len(f) = i
      BY <1>1
    <3>3. Len(f) + i \in 1..Len(todo') /\ todo'[Len(f) + i] = e
      BY <3>1, <3>2, <1>5
    <3> QED
      BY <3>3
  <2> QED
    BY <2>1, <2>2, <1>10 DEF Incident
<1>11. Cascade'
  BY <1>0, <1>5, <1>7, <1>8, <1>9, <1>10 DEF Cascade, CascadeLive, Incident
<1>12. Views' /\ EndsAlive' /\ NoLoops' /\ ub' = FALSE
  BY <1>7 DEF IInv, Views, Agree, NoParallelEdges, EndsAlive, NoLoops
<1> QED
  BY <1>11, <1>12 DEF IInv

\* The head of the copies is live, so the turn is an ordinary remove_edge.
LEMMA RemoveIncidentStep ==
  ASSUME IInv, remove_incident
  PROVE  /\ IInv'
         /\ Head(todo) \in edges /\ Incident(Head(todo), dying)
         /\ Unlink(Head(todo))
         /\ dying' = dying /\ nodes' = nodes
<1> DEFINE e == Head(todo)
<1>1. /\ todo \in Seq(EdgeIds) /\ todo # <<>> /\ Len(todo) \in Nat \ {0}
      /\ e = todo[1] /\ 1 \in 1..Len(todo)
  BY LenProperties, EmptySeq, HeadTailProperties DEF remove_incident, IInv, Cascade
<1>2. e \in edges /\ Incident(e, dying)
  BY <1>1 DEF IInv, Cascade, CascadeLive
<1>3. /\ Unlink(e) /\ ub' = FALSE
      /\ todo' = Tail(todo) /\ nodes' = nodes /\ dying' = dying
  BY <1>2 DEF remove_incident
<1> HIDE DEF e
<1>4. /\ Views' /\ EndsAlive' /\ NoLoops'
      /\ \A f \in edges' : source'[f] = source[f] /\ target'[f] = target[f]
  BY <1>2, <1>3, UnlinkKeepsViews DEF IInv
<1>5. /\ todo' \in Seq(EdgeIds)
      /\ Len(todo') = Len(todo) - 1
      /\ \A i \in 1..Len(todo') : i + 1 \in 1..Len(todo) /\ todo'[i] = todo[i + 1]
  BY <1>1, <1>3, HeadTailProperties
<1>6. edges' = edges \ {e}
  BY <1>3 DEF Unlink
<1>7. \A i \in 1..Len(todo') :
        todo'[i] \in edges' /\ dying \in {source'[todo'[i]], target'[todo'[i]]}
  <2> TAKE i \in 1..Len(todo')
  <2>1. todo[i + 1] \in edges /\ Incident(todo[i + 1], dying)
    BY <1>5 DEF IInv, Cascade, CascadeLive
  <2>2. todo[i + 1] # e
    BY <1>1, <1>5 DEF IInv, Cascade
  <2> QED
    BY <2>1, <2>2, <1>3, <1>4, <1>5, <1>6 DEF Incident
<1>8. \A i, j \in 1..Len(todo') : todo'[i] = todo'[j] => i = j
  <2> SUFFICES ASSUME NEW i \in 1..Len(todo'), NEW j \in 1..Len(todo'), todo'[i] = todo'[j]
               PROVE  i = j
    OBVIOUS
  <2>1. i + 1 = j + 1
    BY <1>5 DEF IInv, Cascade
  <2> QED
    BY <2>1, <1>1, <1>5
<1>9. ASSUME NEW g \in edges', Incident(g, dying)'
      PROVE  \E i \in 1..Len(todo') : todo'[i] = g
  <2>1. g \in edges /\ Incident(g, dying) /\ g # e
    BY <1>3, <1>4, <1>6, <1>9 DEF Incident
  <2>2. PICK i \in 1..Len(todo) : todo[i] = g
    BY <2>1 DEF IInv, Cascade
  <2>3. i # 1
    BY <2>1, <2>2, <1>1
  <2>4. i - 1 \in 1..Len(todo') /\ todo'[i - 1] = todo[(i - 1) + 1] /\ (i - 1) + 1 = i
    BY <2>3, <1>1, <1>5
  <2> QED
    BY <2>2, <2>4
<1>10. Cascade'
  <2>1. dying' \in nodes' \cup {NoNode}
    BY <1>3 DEF IInv, Cascade
  <2> QED
    BY <2>1, <1>3, <1>5, <1>7, <1>8, <1>9 DEF Cascade, CascadeLive, Incident
<1> QED
  BY <1>2, <1>3, <1>4, <1>10 DEF IInv, e

\* The last step of remove_node frees a node that ends no edge any more.
LEMMA EraseNodeStep ==
  ASSUME IInv, erase_node
  PROVE  /\ IInv'
         /\ dying \in nodes
         /\ \A f \in edges : ~Incident(f, dying)
<1>1. Len(todo) = 0 /\ dying \in nodes /\ dying \in NodeIds
  BY EmptySeq DEF erase_node, IInv, Cascade, Views
<1>2. \A f \in edges : source[f] # dying /\ target[f] # dying
  BY <1>1 DEF IInv, Cascade, Incident
<1>3. /\ Agree(forward_list', source', edges')
      /\ Agree(backward_list', target', edges')
  BY <1>1, <1>2, AgreeReset DEF erase_node, IInv, Views
<1>4. Views' /\ EndsAlive' /\ NoLoops'
  BY <1>2, <1>3 DEF erase_node, IInv, Views, NoParallelEdges, EndsAlive, NoLoops
<1>5. \A f \in edges' : ~Incident(f, NoNode)'
  BY <1>4, GraphAssumption DEF Incident, Views, Agree
<1>6. Cascade'
  BY <1>1, <1>5 DEF erase_node, IInv, Cascade, CascadeLive, Incident
<1> QED
  BY <1>1, <1>2, <1>4, <1>6 DEF erase_node, IInv, Incident

\* Every step keeps the invariant.
LEMMA IInvStep == ~SelfLoops /\ IInv /\ [Next]_vars => IInv'
<1> SUFFICES ASSUME ~SelfLoops, IInv, [Next]_vars PROVE IInv'
  OBVIOUS
<1>1. CASE \E n \in NodeIds : emplace_node(n)
  BY <1>1, EmplaceNodeStep
<1>2. CASE \E e \in EdgeIds, s, t \in nodes : emplace_edge(e, s, t)
  BY <1>2, EmplaceEdgeStep
<1>3. CASE \E e \in edges, n \in nodes : set_egde_target(e, n)
  BY <1>3, SetTargetStep
<1>4. CASE \E e \in edges, n \in nodes : set_egde_source(e, n)
  BY <1>4, SetSourceStep
<1>5. CASE \E e \in edges : remove_edge(e)
  BY <1>5, RemoveEdgeStep
<1>6. CASE \E n \in nodes : remove_node(n)
  BY <1>6, RemoveNodeStep
<1>7. CASE remove_incident
  BY <1>7, RemoveIncidentStep
<1>8. CASE erase_node
  BY <1>8, EraseNodeStep
<1>9. CASE UNCHANGED vars
  BY <1>9 DEF vars, lists, cascade, IInv, Views, Agree, NoParallelEdges, EndsAlive,
              NoLoops, Cascade, CascadeLive, Incident
<1> QED
  BY <1>1, <1>2, <1>3, <1>4, <1>5, <1>6, <1>7, <1>8, <1>9 DEF Next

\* The invariant holds in every reachable state.
LEMMA Inductive == ~SelfLoops => (Spec => []IInv)
<1> SUFFICES ASSUME ~SelfLoops PROVE Spec => []IInv
  OBVIOUS
<1>1. Init => IInv
  BY IInvInit
<1>2. IInv /\ [Next]_vars => IInv'
  BY IInvStep
<1> QED
  BY <1>1, <1>2, PTL DEF Spec

-----------------------------------------------------------------------------
(***************************************************************************)
(* The theorems.                                                           *)
(***************************************************************************)

\* The type invariant of the graph.
THEOREM TypeCorrect == ~SelfLoops => (Spec => []TypeOK)
<1>1. IInv => TypeOK
  BY DEF IInv, Views, Agree, Cascade, TypeOK
<1> QED
  BY <1>1, Inductive, PTL

\* assert_integrity never throws, whatever calls were made and even in the
\* middle of remove_node.
THEOREM IntegrityHolds == ~SelfLoops => (Spec => []Integrity)
<1>1. IInv => Integrity
  <2> SUFFICES ASSUME IInv PROVE Integrity
    OBVIOUS
  <2>1. \A e \in edges : ListedOnlyAt(e, forward_list, source[e])
    BY DEF IInv, Views, Agree, ListedOnlyAt
  <2>2. \A e \in edges : ListedOnlyAt(e, backward_list, target[e])
    BY DEF IInv, Views, Agree, ListedOnlyAt
  <2> QED
    BY <2>1, <2>2 DEF IInv, Views, Agree, Integrity
<1> QED
  BY <1>1, Inductive, PTL

\* No live edge has an end that was erased.
THEOREM EndsStayAlive == ~SelfLoops => (Spec => []EndsAlive)
<1>1. IInv => EndsAlive
  BY DEF IInv
<1> QED
  BY <1>1, Inductive, PTL

\* No two edges join the same two nodes in the same direction.
THEOREM NoParallels == ~SelfLoops => (Spec => []NoParallelEdges)
<1>1. IInv => NoParallelEdges
  BY DEF IInv, Views
<1> QED
  BY <1>1, Inductive, PTL

\* remove_node never hands remove_edge an edge that is already gone: the
\* undefined behaviour of remove_node needs a self-loop.
THEOREM CascadeIsDefined == ~SelfLoops => (Spec => [](CascadeLive /\ ~ub))
<1>1. IInv => CascadeLive /\ ~ub
  BY DEF IInv, Cascade
<1> QED
  BY <1>1, Inductive, PTL

-----------------------------------------------------------------------------
(***************************************************************************)
(* The graph implements Digraph: every step is one step of Digraph, or     *)
(* changes nothing that a client sees.                                     *)
(***************************************************************************)
Arc(e) == [id |-> e, from |-> source[e], to |-> target[e]]

\* Between the operations a client sees every node and every edge.
LEMMA IdleSeesAll ==
  ASSUME IInv, dying = NoNode
  PROVE  VisibleNodes = nodes /\ VisibleEdges = edges
BY GraphAssumption DEF IInv, Views, EndsAlive, VisibleNodes, VisibleEdges

\* After a step that leaves no removal under way nothing is hidden.
LEMMA NextIdleSeesAll ==
  ASSUME IInv', dying' = NoNode
  PROVE  VisibleNodes' = nodes' /\ VisibleEdges' = edges'
BY GraphAssumption DEF IInv, Views, EndsAlive, VisibleNodes, VisibleEdges

\* The visible arcs are those of the visible edges.
LEMMA ArcOf ==
  \A a : a \in VisibleArcs <=> \E e \in VisibleEdges : a = Arc(e)
BY DEF VisibleArcs, Arc

\* And so they are after a step.
LEMMA NextArcOf ==
  \A a : a \in VisibleArcs' <=> \E e \in VisibleEdges' : a = Arc(e)'
BY DEF VisibleArcs, Arc

\* Removing an edge that a client sees removes its arc and nothing else.
LEMMA UnlinkDropsArc ==
  ASSUME IInv, IInv', dying = NoNode, dying' = NoNode, NEW e \in edges, Unlink(e)
  PROVE  VisibleArcs' = VisibleArcs \ {Arc(e)}
<1>1. /\ VisibleEdges = edges /\ VisibleEdges' = edges'
      /\ edges' = edges \ {e}
  BY IdleSeesAll, NextIdleSeesAll DEF Unlink
<1>2. \A f \in edges' : source'[f] = source[f] /\ target'[f] = target[f]
  BY <1>1 DEF Unlink, IInv, Views, Agree
<1>3. \A f \in edges' : Arc(f)' = Arc(f) /\ Arc(f) # Arc(e)
  BY <1>1, <1>2 DEF Arc
<1> QED
  BY <1>1, <1>3, ArcOf, NextArcOf

\* An edge whose ends have moved keeps its identity and shows its new ends.
LEMMA MovedEdge ==
  ASSUME IInv, IInv', dying = NoNode, dying' = NoNode, NEW e \in edges, edges' = edges,
         \A f \in edges \ {e} : source'[f] = source[f] /\ target'[f] = target[f]
  PROVE  VisibleArcs' = (VisibleArcs \ {Arc(e)}) \cup {Arc(e)'}
<1>1. VisibleEdges = edges /\ VisibleEdges' = edges
  BY IdleSeesAll, NextIdleSeesAll
<1>2. \A f \in edges \ {e} : Arc(f)' = Arc(f) /\ Arc(f) # Arc(e)
  BY DEF Arc
<1> QED
  BY <1>1, <1>2, ArcOf, NextArcOf

\* The search that found nothing is Digraph's condition.
LEMMA NotJoined ==
  ASSUME IInv, dying = NoNode, NEW s, NEW t,
         \A f \in edges : ~(source[f] = s /\ target[f] = t)
  PROVE  ~Promise!Joined(s, t)
BY IdleSeesAll, ArcOf DEF Promise!Joined, Arc

\* A step of the graph is a step of Digraph on what is visible, or changes nothing there.
LEMMA RefinementStep ==
  ASSUME ~SelfLoops, IInv, IInv', [Next]_vars
  PROVE  [Promise!Next]_(Promise!dvars)
<1>1. ASSUME NEW n \in NodeIds, emplace_node(n)
      PROVE  Promise!AddVertex(n)
  <2>1. /\ dying = NoNode /\ dying' = NoNode
        /\ edges' = edges /\ source' = source /\ target' = target
        /\ n \notin nodes /\ nodes' = nodes \cup {n}
    BY <1>1 DEF emplace_node, Idle, cascade
  <2>2. VisibleArcs' = VisibleArcs
    BY <2>1 DEF VisibleArcs, VisibleEdges
  <2> QED
    BY <2>1, <2>2, IdleSeesAll, NextIdleSeesAll DEF Promise!AddVertex
<1>2. ASSUME NEW e \in EdgeIds, NEW s \in nodes, NEW t \in nodes, emplace_edge(e, s, t)
      PROVE  Promise!AddArc(e, s, t)
  <2>1. /\ dying = NoNode /\ dying' = NoNode /\ nodes' = nodes
        /\ e \notin edges /\ edges' = edges \cup {e}
        /\ source'[e] = s /\ target'[e] = t
        /\ \A f \in edges : source'[f] = source[f] /\ target'[f] = target[f]
    BY <1>2 DEF emplace_edge, Idle, cascade, IInv, Views, Agree
  <2>2. /\ VisibleNodes = nodes /\ VisibleNodes' = nodes'
        /\ VisibleEdges = edges /\ VisibleEdges' = edges'
    BY <2>1, IdleSeesAll, NextIdleSeesAll
  <2>3. ~Promise!Joined(s, t)
    <3>1. \A f \in edges : ~(source[f] = s /\ target[f] = t)
      BY <1>2, SearchFails DEF emplace_edge, IInv
    <3> QED
      BY <3>1, <2>1, NotJoined
  <2>4. \A a \in VisibleArcs : a.id # e
    BY <2>1, <2>2, ArcOf DEF Arc
  <2>5. VisibleArcs' = VisibleArcs \cup {[id |-> e, from |-> s, to |-> t]}
    <3>1. Arc(e)' = [id |-> e, from |-> s, to |-> t]
      BY <2>1 DEF Arc
    <3>2. \A f \in edges : Arc(f)' = Arc(f)
      BY <2>1 DEF Arc
    <3> QED
      BY <3>1, <3>2, <2>1, <2>2, ArcOf, NextArcOf
  <2> QED
    BY <2>1, <2>2, <2>3, <2>4, <2>5 DEF Promise!AddArc
<1>3. ASSUME NEW e \in edges, NEW n \in nodes, set_egde_target(e, n)
      PROVE  Promise!MoveArc(Arc(e), source[e], n)
  <2>1. /\ dying = NoNode /\ dying' = NoNode /\ nodes' = nodes /\ edges' = edges
        /\ source' = source /\ target'[e] = n
        /\ \A f \in edges \ {e} : target'[f] = target[f]
        /\ source[e] \in nodes
    BY <1>3 DEF set_egde_target, Idle, cascade, IInv, Views, Agree, EndsAlive
  <2>2. ~Promise!Joined(source[e], n)
    <3>1. \A f \in edges : ~(source[f] = source[e] /\ target[f] = n)
      BY <1>3, SearchFails DEF set_egde_target, IInv
    <3> QED
      BY <3>1, <2>1, NotJoined
  <2>3. VisibleArcs' = (VisibleArcs \ {Arc(e)}) \cup {[id |-> e, from |-> source[e], to |-> n]}
    BY <2>1, MovedEdge DEF Arc
  <2> QED
    BY <2>1, <2>2, <2>3, IdleSeesAll, NextIdleSeesAll DEF Promise!MoveArc, Arc
<1>4. ASSUME NEW e \in edges, NEW n \in nodes, set_egde_source(e, n)
      PROVE  Promise!MoveArc(Arc(e), n, target[e])
  <2>1. /\ dying = NoNode /\ dying' = NoNode /\ nodes' = nodes /\ edges' = edges
        /\ target' = target /\ source'[e] = n
        /\ \A f \in edges \ {e} : source'[f] = source[f]
        /\ target[e] \in nodes
    BY <1>4 DEF set_egde_source, Idle, cascade, IInv, Views, Agree, EndsAlive
  <2>2. ~Promise!Joined(n, target[e])
    <3>1. \A f \in edges : ~(source[f] = n /\ target[f] = target[e])
      BY <1>4, SearchFails DEF set_egde_source, IInv
    <3> QED
      BY <3>1, <2>1, NotJoined
  <2>3. VisibleArcs' = (VisibleArcs \ {Arc(e)}) \cup {[id |-> e, from |-> n, to |-> target[e]]}
    BY <2>1, MovedEdge DEF Arc
  <2> QED
    BY <2>1, <2>2, <2>3, IdleSeesAll, NextIdleSeesAll DEF Promise!MoveArc, Arc
<1>5. ASSUME NEW e \in edges, remove_edge(e)
      PROVE  Arc(e) \in VisibleArcs /\ Promise!DropArc(Arc(e))
  <2>1. dying = NoNode /\ dying' = NoNode /\ nodes' = nodes /\ Unlink(e)
    BY <1>5 DEF remove_edge, Idle, cascade
  <2>2. VisibleNodes' = VisibleNodes
    BY <2>1 DEF VisibleNodes
  <2>3. Arc(e) \in VisibleArcs
    BY <2>1, IdleSeesAll, ArcOf
  <2> QED
    BY <2>1, <2>2, <2>3, UnlinkDropsArc DEF Promise!DropArc
<1>6. ASSUME NEW n \in nodes, remove_node(n)
      PROVE  n \in VisibleNodes /\ Promise!DropVertex(n)
  <2>1. /\ dying = NoNode /\ dying' = n /\ nodes' = nodes /\ edges' = edges
        /\ source' = source /\ target' = target
    BY <1>6 DEF remove_node, Idle
  <2>2. /\ VisibleNodes = nodes /\ VisibleEdges = edges
        /\ VisibleNodes' = nodes \ {n}
        /\ VisibleEdges' = {e \in edges : n \notin {source[e], target[e]}}
    BY <2>1, IdleSeesAll DEF VisibleNodes, VisibleEdges
  <2>3. \A e : Arc(e)' = Arc(e) /\ Arc(e).from = source[e] /\ Arc(e).to = target[e]
    BY <2>1 DEF Arc
  <2>4. VisibleArcs' = {a \in VisibleArcs : a.from # n /\ a.to # n}
    BY <2>2, <2>3, ArcOf, NextArcOf
  <2> QED
    BY <2>2, <2>4 DEF Promise!DropVertex
<1>7. CASE remove_incident
  <2>1. /\ Head(todo) \in edges /\ Incident(Head(todo), dying) /\ Unlink(Head(todo))
        /\ dying' = dying /\ nodes' = nodes
    BY <1>7, RemoveIncidentStep
  <2>2. edges' = edges \ {Head(todo)}
        /\ \A f \in edges' : source'[f] = source[f] /\ target'[f] = target[f]
    BY <2>1 DEF Unlink, IInv, Views, Agree
  <2>3. VisibleEdges' = VisibleEdges /\ VisibleEdges \subseteq edges'
    BY <2>1, <2>2 DEF VisibleEdges, Incident
  <2>4. \A f \in VisibleEdges : Arc(f)' = Arc(f)
    BY <2>2, <2>3 DEF Arc
  <2>5. VisibleArcs' = VisibleArcs
    BY <2>3, <2>4, ArcOf, NextArcOf
  <2>6. VisibleNodes' = VisibleNodes
    BY <2>1 DEF VisibleNodes
  <2> QED
    BY <2>5, <2>6 DEF Promise!dvars
<1>8. CASE erase_node
  <2>1. /\ \A f \in edges : ~Incident(f, dying)
        /\ dying' = NoNode /\ nodes' = nodes \ {dying}
        /\ edges' = edges /\ source' = source /\ target' = target
    BY <1>8, EraseNodeStep DEF erase_node
  <2>2. VisibleEdges = edges /\ VisibleEdges' = edges
    BY <2>1, NextIdleSeesAll DEF VisibleEdges, Incident
  <2>3. VisibleArcs' = VisibleArcs
    BY <2>1, <2>2 DEF VisibleArcs
  <2>4. VisibleNodes' = VisibleNodes
    BY <2>1, NextIdleSeesAll DEF VisibleNodes
  <2> QED
    BY <2>3, <2>4 DEF Promise!dvars
<1>9. CASE UNCHANGED vars
  BY <1>9 DEF vars, cascade, Promise!dvars, VisibleNodes, VisibleArcs, VisibleEdges
<1>10. \A n \in nodes : n \in NodeIds
  BY DEF IInv, Views
<1>11. ASSUME NEW e \in edges
       PROVE  source[e] \in NodeIds /\ target[e] \in NodeIds
  BY DEF IInv, Views, Agree
<1>12. ASSUME dying = NoNode, NEW e \in edges
       PROVE  Arc(e) \in VisibleArcs
  BY <1>12, IdleSeesAll, ArcOf
<1>13. ASSUME NEW e \in edges, NEW n \in nodes, set_egde_target(e, n) \/ set_egde_source(e, n)
       PROVE  dying = NoNode
  BY <1>13 DEF set_egde_target, set_egde_source, Idle
<1> QED
  BY <1>1, <1>2, <1>3, <1>4, <1>5, <1>6, <1>7, <1>8, <1>9, <1>10, <1>11, <1>12, <1>13
     DEF Next, Promise!Next

\* The graph keeps its promise: its lists, cross-references and cascades behave
\* as a set of vertices and a set of arcs with indivisible operations.
THEOREM GraphImplementsDigraph == ~SelfLoops => (Spec => ImplementsDigraph)
<1> SUFFICES ASSUME ~SelfLoops PROVE Spec => ImplementsDigraph
  OBVIOUS
<1>1. Init => Promise!Init
  BY DEF Init, Promise!Init, VisibleNodes, VisibleArcs, VisibleEdges
<1>2. IInv /\ IInv' /\ [Next]_vars => [Promise!Next]_(Promise!dvars)
  BY RefinementStep
<1>3. Spec => []IInv
  BY Inductive
<1> QED
  BY <1>1, <1>2, <1>3, PTL DEF Spec, ImplementsDigraph, Promise!Spec

-----------------------------------------------------------------------------
(***************************************************************************)
(* No operation reorders the edges it keeps.  A list changes in two ways   *)
(* only: one position is erased, or an edge that is not in it is appended. *)
(***************************************************************************)
\* No two members of list l stand the other way round in list m.
Kept(l, m) == \A e, f : Before(l, e, f) => ~Before(m, f, e)

\* A list of edges without a repetition.
Distinct(l) ==
  /\ l \in Seq(EdgeIds)
  /\ \A i, j \in 1..Len(l) : l[i] = l[j] => i = j

\* A list without a repetition has one order.
LEMMA SameKept ==
  ASSUME NEW l, Distinct(l)
  PROVE  Kept(l, l)
<1> SUFFICES ASSUME NEW e, NEW f, Before(l, e, f), Before(l, f, e) PROVE FALSE
  BY DEF Kept
<1>1. Len(l) \in Nat
  BY LenProperties DEF Distinct
<1>2. PICK i, j \in 1..Len(l) : i < j /\ l[i] = e /\ l[j] = f
  BY DEF Before
<1>3. PICK p, q \in 1..Len(l) : p < q /\ l[p] = f /\ l[q] = e
  BY DEF Before
<1>4. i = q /\ j = p
  BY <1>2, <1>3 DEF Distinct
<1> QED
  BY <1>1, <1>2, <1>3, <1>4

\* Erasing one position keeps the order of the rest.
LEMMA RemoveKept ==
  ASSUME NEW l, Distinct(l), NEW k \in 1..Len(l)
  PROVE  Kept(l, RemoveAt(l, k))
<1> SUFFICES ASSUME NEW e, NEW f, Before(RemoveAt(l, k), f, e) PROVE Before(l, f, e)
  BY SameKept DEF Kept
<1>1. Len(l) \in Nat
  BY LenProperties DEF Distinct
<1>2. /\ Len(RemoveAt(l, k)) = Len(l) - 1
      /\ \A j \in 1..(Len(l) - 1) :
           RemoveAt(l, k)[j] = IF j < k THEN l[j] ELSE l[j + 1]
  BY RemoveAtShifts DEF Distinct
<1>3. PICK p, q \in 1..(Len(l) - 1) :
        p < q /\ RemoveAt(l, k)[p] = f /\ RemoveAt(l, k)[q] = e
  BY <1>2 DEF Before
<1> DEFINE was(i) == IF i < k THEN i ELSE i + 1
<1>4. /\ was(p) \in 1..Len(l) /\ was(q) \in 1..Len(l) /\ was(p) < was(q)
  BY <1>1, <1>3
<1>5. l[was(p)] = f /\ l[was(q)] = e
  BY <1>2, <1>3
<1> QED
  BY <1>4, <1>5 DEF Before

\* Appending an edge that is not in the list keeps the order of the others.
LEMMA AppendKept ==
  ASSUME NEW l, Distinct(l), NEW x \in EdgeIds, \A i \in 1..Len(l) : l[i] # x
  PROVE  Kept(l, Append(l, x))
<1> SUFFICES ASSUME NEW e, NEW f, Before(l, e, f), Before(Append(l, x), f, e) PROVE FALSE
  BY DEF Kept
<1>1. Len(l) \in Nat
  BY LenProperties DEF Distinct
<1>2. /\ Len(Append(l, x)) = Len(l) + 1
      /\ \A i \in 1..Len(l) : Append(l, x)[i] = l[i]
      /\ Append(l, x)[Len(l) + 1] = x
  BY AppendProperties DEF Distinct
<1>3. PICK i, j \in 1..Len(l) : i < j /\ l[i] = e /\ l[j] = f
  BY DEF Before
<1>4. PICK p, q \in 1..(Len(l) + 1) :
        p < q /\ Append(l, x)[p] = f /\ Append(l, x)[q] = e
  BY <1>2 DEF Before
<1>5. q # Len(l) + 1
  BY <1>2, <1>3, <1>4
<1>6. p \in 1..Len(l) /\ q \in 1..Len(l)
  BY <1>1, <1>4, <1>5
<1>7. i = q /\ j = p
  BY <1>2, <1>3, <1>4, <1>6 DEF Distinct
<1> QED
  BY <1>1, <1>3, <1>4, <1>7

\* Every list the graph keeps is without a repetition.
LEMMA ListsDistinct ==
  ASSUME IInv, NEW n \in NodeIds
  PROVE  Distinct(forward_list[n]) /\ Distinct(backward_list[n])
BY DEF IInv, Views, Agree, Distinct

\* What an operation does to the order of the lists of node n.
KeptAt(n) ==
  Kept(forward_list[n], forward_list'[n]) /\ Kept(backward_list[n], backward_list'[n])

\* Unlinking an edge erases one position of two lists.
LEMMA UnlinkKept ==
  ASSUME IInv, NEW e \in edges, Unlink(e), NEW n \in NodeIds
  PROVE  KeptAt(n)
<1> DEFINE s == source[e]
           t == target[e]
           i == get_edge_target(s, t)
           j == get_edge_source(t, s)
<1>1. i \in 1..Len(forward_list[s]) /\ j \in 1..Len(backward_list[t])
  BY SearchFinds DEF IInv
<1>2. s \in NodeIds /\ t \in NodeIds
  BY DEF IInv, Views, Agree
<1>3. /\ forward_list' = [forward_list EXCEPT ![s] = RemoveAt(forward_list[s], i)]
      /\ backward_list' = [backward_list EXCEPT ![t] = RemoveAt(backward_list[t], j)]
      /\ forward_list \in [NodeIds -> Seq(EdgeIds)]
      /\ backward_list \in [NodeIds -> Seq(EdgeIds)]
  BY DEF Unlink, IInv, Views, Agree
<1> HIDE DEF s, t, i, j
<1>4. Kept(forward_list[n], forward_list'[n])
  <2>1. CASE n = s
    <3>1. forward_list'[n] = RemoveAt(forward_list[n], i)
      BY <1>3, <2>1
    <3> QED
      BY <3>1, <2>1, <1>1, ListsDistinct, RemoveKept
  <2>2. CASE n # s
    <3>1. forward_list'[n] = forward_list[n]
      BY <1>3, <2>2
    <3> QED
      BY <3>1, ListsDistinct, SameKept
  <2> QED
    BY <2>1, <2>2
<1>5. Kept(backward_list[n], backward_list'[n])
  <2>1. CASE n = t
    <3>1. backward_list'[n] = RemoveAt(backward_list[n], j)
      BY <1>3, <2>1
    <3> QED
      BY <3>1, <2>1, <1>1, ListsDistinct, RemoveKept
  <2>2. CASE n # t
    <3>1. backward_list'[n] = backward_list[n]
      BY <1>3, <2>2
    <3> QED
      BY <3>1, ListsDistinct, SameKept
  <2> QED
    BY <2>1, <2>2
<1> QED
  BY <1>4, <1>5 DEF KeptAt

\* A new edge goes to the end of two lists that do not name it.
LEMMA EmplaceEdgeKept ==
  ASSUME IInv, NEW e \in EdgeIds, NEW s \in nodes, NEW t \in nodes,
         emplace_edge(e, s, t), NEW n \in NodeIds
  PROVE  KeptAt(n)
<1>1. /\ forward_list' = [forward_list EXCEPT ![s] = Append(forward_list[s], e)]
      /\ backward_list' = [backward_list EXCEPT ![t] = Append(backward_list[t], e)]
      /\ forward_list \in [NodeIds -> Seq(EdgeIds)]
      /\ backward_list \in [NodeIds -> Seq(EdgeIds)]
  BY DEF emplace_edge, IInv, Views, Agree
<1>2. /\ \A i \in 1..Len(forward_list[n]) : forward_list[n][i] # e
      /\ \A i \in 1..Len(backward_list[n]) : backward_list[n][i] # e
  BY DEF emplace_edge, IInv, Views, Agree
<1>3. /\ Kept(forward_list[n], forward_list[n])
      /\ Kept(forward_list[n], Append(forward_list[n], e))
      /\ Kept(backward_list[n], backward_list[n])
      /\ Kept(backward_list[n], Append(backward_list[n], e))
  BY <1>2, ListsDistinct, SameKept, AppendKept
<1>4. /\ forward_list'[n] = forward_list[n] \/ forward_list'[n] = Append(forward_list[n], e)
      /\ backward_list'[n] = backward_list[n] \/ backward_list'[n] = Append(backward_list[n], e)
  BY <1>1
<1> QED
  BY <1>3, <1>4 DEF KeptAt

\* Moving the target of an edge takes it out of one backward list and puts it
\* at the end of another.
LEMMA SetTargetKept ==
  ASSUME IInv, NEW e \in edges, NEW new \in nodes, set_egde_target(e, new),
         NEW n \in NodeIds
  PROVE  KeptAt(n)
<1> DEFINE old == target[e]
           k   == get_edge_source(old, source[e])
<1>1. /\ k \in 1..Len(backward_list[old])
      /\ old \in NodeIds /\ e \in EdgeIds /\ new \in NodeIds
  BY SearchFinds DEF IInv, Views, Agree
<1>2. old # new
  BY SearchFails DEF set_egde_target, IInv
<1>3. /\ backward_list' = [backward_list EXCEPT ![old] = RemoveAt(@, k), ![new] = Append(@, e)]
      /\ forward_list' = forward_list
      /\ backward_list \in [NodeIds -> Seq(EdgeIds)]
  BY DEF set_egde_target, IInv, Views, Agree
<1>4. n # old => \A i \in 1..Len(backward_list[n]) : backward_list[n][i] # e
  BY DEF IInv, Views, Agree
<1> HIDE DEF old, k
<1>5. CASE n = old
  <2>1. backward_list'[n] = RemoveAt(backward_list[n], k)
    BY <1>2, <1>3, <1>5
  <2> QED
    BY <2>1, <1>1, <1>3, <1>5, ListsDistinct, SameKept, RemoveKept DEF KeptAt
<1>6. CASE n = new
  <2>1. backward_list'[n] = Append(backward_list[n], e)
    BY <1>1, <1>2, <1>3, <1>6
  <2> QED
    BY <2>1, <1>1, <1>2, <1>3, <1>4, <1>6, ListsDistinct, SameKept, AppendKept DEF KeptAt
<1>7. CASE n # old /\ n # new
  <2>1. backward_list'[n] = backward_list[n]
    BY <1>3, <1>7
  <2> QED
    BY <2>1, <1>3, ListsDistinct, SameKept DEF KeptAt
<1> QED
  BY <1>5, <1>6, <1>7

\* The same for the source of an edge and the forward lists.
LEMMA SetSourceKept ==
  ASSUME IInv, NEW e \in edges, NEW new \in nodes, set_egde_source(e, new),
         NEW n \in NodeIds
  PROVE  KeptAt(n)
<1> DEFINE old == source[e]
           k   == get_edge_target(old, target[e])
<1>1. /\ k \in 1..Len(forward_list[old])
      /\ old \in NodeIds /\ e \in EdgeIds /\ new \in NodeIds
  BY SearchFinds DEF IInv, Views, Agree
<1>2. old # new
  BY SearchFails DEF set_egde_source, IInv
<1>3. /\ forward_list' = [forward_list EXCEPT ![old] = RemoveAt(@, k), ![new] = Append(@, e)]
      /\ backward_list' = backward_list
      /\ forward_list \in [NodeIds -> Seq(EdgeIds)]
  BY DEF set_egde_source, IInv, Views, Agree
<1>4. n # old => \A i \in 1..Len(forward_list[n]) : forward_list[n][i] # e
  BY DEF IInv, Views, Agree
<1> HIDE DEF old, k
<1>5. CASE n = old
  <2>1. forward_list'[n] = RemoveAt(forward_list[n], k)
    BY <1>2, <1>3, <1>5
  <2> QED
    BY <2>1, <1>1, <1>3, <1>5, ListsDistinct, SameKept, RemoveKept DEF KeptAt
<1>6. CASE n = new
  <2>1. forward_list'[n] = Append(forward_list[n], e)
    BY <1>1, <1>2, <1>3, <1>6
  <2> QED
    BY <2>1, <1>1, <1>2, <1>3, <1>4, <1>6, ListsDistinct, SameKept, AppendKept DEF KeptAt
<1>7. CASE n # old /\ n # new
  <2>1. forward_list'[n] = forward_list[n]
    BY <1>3, <1>7
  <2> QED
    BY <2>1, <1>3, ListsDistinct, SameKept DEF KeptAt
<1> QED
  BY <1>5, <1>6, <1>7

\* Every step keeps the order of the lists of a node that stays.
LEMMA KeptStep ==
  ASSUME ~SelfLoops, IInv, [Next]_vars, NEW n \in nodes \cap nodes'
  PROVE  KeptAt(n)
<1>0. n \in NodeIds /\ n \in nodes /\ n \in nodes'
  BY DEF IInv, Views
<1>1. ASSUME forward_list'[n] = forward_list[n], backward_list'[n] = backward_list[n]
      PROVE  KeptAt(n)
  BY <1>0, <1>1, ListsDistinct, SameKept DEF KeptAt
<1>2. ASSUME NEW m \in NodeIds, emplace_node(m)
      PROVE  KeptAt(n)
  <2>1. m # n
    BY <1>0, <1>2 DEF emplace_node
  <2>2. forward_list'[n] = forward_list[n] /\ backward_list'[n] = backward_list[n]
    BY <2>1, <1>0, <1>2 DEF emplace_node, IInv, Views, Agree
  <2> QED
    BY <2>2, <1>1
<1>3. CASE \E e \in EdgeIds, s, t \in nodes : emplace_edge(e, s, t)
  BY <1>0, <1>3, EmplaceEdgeKept
<1>4. CASE \E e \in edges, m \in nodes : set_egde_target(e, m)
  BY <1>0, <1>4, SetTargetKept
<1>5. CASE \E e \in edges, m \in nodes : set_egde_source(e, m)
  BY <1>0, <1>5, SetSourceKept
<1>6. CASE \E e \in edges : remove_edge(e)
  BY <1>0, <1>6, UnlinkKept DEF remove_edge
<1>7. CASE \E m \in nodes : remove_node(m)
  BY <1>7, <1>1 DEF remove_node, lists
<1>8. CASE remove_incident
  BY <1>0, <1>8, RemoveIncidentStep, UnlinkKept
<1>9. CASE erase_node
  <2>1. dying # n
    BY <1>0, <1>9 DEF erase_node
  <2>2. forward_list'[n] = forward_list[n] /\ backward_list'[n] = backward_list[n]
    BY <2>1, <1>0, <1>9 DEF erase_node, IInv, Views, Agree
  <2> QED
    BY <2>2, <1>1
<1>10. CASE UNCHANGED vars
  BY <1>10, <1>1 DEF vars, lists
<1> QED
  BY <1>2, <1>3, <1>4, <1>5, <1>6, <1>7, <1>8, <1>9, <1>10 DEF Next

\* A call's arguments, a block's statements, a struct's fields stay in order
\* whatever edges are inserted, moved and removed around them.
THEOREM OrderStays == ~SelfLoops => (Spec => OrderKept)
<1> SUFFICES ASSUME ~SelfLoops PROVE Spec => OrderKept
  OBVIOUS
<1>1. IInv /\ [Next]_vars =>
        [\A n \in nodes \cap nodes' : \A e, f \in edges \cap edges' :
           /\ Before(forward_list[n], e, f) => ~Before(forward_list'[n], f, e)
           /\ Before(backward_list[n], e, f) => ~Before(backward_list'[n], f, e)]_vars
  BY KeptStep DEF KeptAt, Kept
<1>2. Spec => []IInv
  BY Inductive
<1> QED
  BY <1>1, <1>2, PTL DEF Spec, OrderKept
=============================================================================
