----------------------------- MODULE TreeProofs -----------------------------
(***************************************************************************)
(* Theorems on Tree and on the operators of Forest, for any storage, data  *)
(* and labels, and any trees that a client builds, erases and copies.      *)
(***************************************************************************)
EXTENDS Tree, ListLemmas

-----------------------------------------------------------------------------
(***************************************************************************)
(* Outside: what is left of a list without the edges into a set.           *)
(***************************************************************************)
Keep(q, e, S) == IF e.to \in S THEN q ELSE Append(q, e)

\* f[i] is what is left of the first i edges.
AreKept(f, list, S) ==
  f = [i \in 0..Len(list) |-> IF i = 0 THEN <<>>
                              ELSE IF list[i].to \in S THEN f[i - 1]
                              ELSE Append(f[i - 1], list[i])]

\* The same, by steps.
KeptBySteps(f, list, S) ==
  f[0] = <<>> /\ \A i \in 1..Len(list) : f[i] = Keep(f[i - 1], list[i], S)

\* The recursion defines a list for each number of edges.
LEMMA KeptExist ==
  ASSUME NEW E, NEW list \in Seq(E), NEW S
  PROVE  \E f \in [0..Len(list) -> Seq(E)] : AreKept(f, list, S) /\ KeptBySteps(f, list, S)
<1> DEFINE n == Len(list)
           table == [i \in 1..n |-> [q \in Seq(E) |-> Keep(q, list[i], S)]]
<1>1. n \in Nat /\ \A i \in 1..n : list[i] \in E
  BY LenProperties
<1>2. \A i \in 1..n : \A q \in Seq(E) : Keep(q, list[i], S) \in Seq(E)
  BY <1>1, AppendProperties DEF Keep
<1>3. /\ table \in [1..n -> [Seq(E) -> Seq(E)]]
      /\ \A i \in 1..n : \A q \in Seq(E) : table[i][q] = Keep(q, list[i], S)
  BY <1>2
<1>4. PICK step \in [1..n -> [Seq(E) -> Seq(E)]] :
        \A i \in 1..n : \A q \in Seq(E) : step[i][q] = Keep(q, list[i], S)
  BY <1>3
<1>5. PICK f \in [0..n -> Seq(E)] : Repeats(f, n, <<>>, step)
  <2>1. n \in Nat /\ <<>> \in Seq(E)
    BY <1>1, EmptySeq
  <2> HIDE DEF n
  <2> QED
    BY <2>1, RecursionTo
<1>6. f[0] = <<>> /\ \A i \in 1..n : f[i] = step[i][f[i - 1]]
  BY <1>5 DEF Repeats
<1>7. \A i \in 1..n : f[i] = Keep(f[i - 1], list[i], S)
  <2>1. \A i \in 1..n : i - 1 \in 0..n
    BY <1>1
  <2> QED
    BY <1>4, <1>6, <2>1
<1>8. AreKept(f, list, S)
  <2>1. \A i \in 0..n : i # 0 => i \in 1..n
    BY <1>1
  <2>2. f = [i \in 0..n |-> f[i]]
    OBVIOUS
  <2>3. \A i \in 0..n : f[i] = IF i = 0 THEN <<>> ELSE Keep(f[i - 1], list[i], S)
    BY <2>1, <1>6, <1>7
  <2> HIDE DEF n
  <2>4. f = [i \in 0..n |-> IF i = 0 THEN <<>> ELSE Keep(f[i - 1], list[i], S)]
    BY <2>2, <2>3
  <2> QED
    BY <2>4 DEF AreKept, Keep, n
<1> QED
  BY <1>6, <1>7, <1>8 DEF KeptBySteps

\* Two lists that are computed by the same steps are the same.
LEMMA KeptOnce ==
  ASSUME NEW list, NEW S, NEW n \in Nat, n <= Len(list), Len(list) \in Nat,
         NEW f, NEW g, NEW other, \A i \in 1..n : other[i] = list[i],
         n <= Len(other), Len(other) \in Nat,
         KeptBySteps(f, list, S), KeptBySteps(g, other, S)
  PROVE  f[n] = g[n]
<1> DEFINE Good == {i \in 0..n : f[i] = g[i]}
<1>1. 0 \in Good
  BY DEF KeptBySteps
<1>2. ASSUME NEW i \in 1..n, i - 1 \in Good
      PROVE  i \in Good
  <2>1. i \in 1..Len(list) /\ i \in 1..Len(other) /\ other[i] = list[i] /\ f[i - 1] = g[i - 1]
    BY <1>2
  <2>2. f[i] = Keep(f[i - 1], list[i], S) /\ g[i] = Keep(g[i - 1], other[i], S)
    BY <2>1 DEF KeptBySteps
  <2> QED
    BY <2>1, <2>2
<1>3. 0..n \subseteq Good
  <2> HIDE DEF Good
  <2> QED
    BY <1>1, <1>2, InductionTo
<1> QED
  BY <1>3

\* Outside is given by these lists.
LEMMA OutsideIs ==
  ASSUME NEW E, NEW list \in Seq(E), NEW S
  PROVE  \E f \in [0..Len(list) -> Seq(E)] :
           KeptBySteps(f, list, S) /\ F!Outside(list, S) = f[Len(list)]
<1> DEFINE G == CHOOSE f : AreKept(f, list, S)
<1>1. PICK f \in [0..Len(list) -> Seq(E)] : AreKept(f, list, S) /\ KeptBySteps(f, list, S)
  BY KeptExist
<1>2. AreKept(G, list, S)
  BY <1>1
<1>3. F!Outside(list, S) = G[Len(list)]
  BY DEF F!Outside, AreKept
<1>4. Len(list) \in Nat
  BY LenProperties
<1>5. KeptBySteps(G, list, S)
  <2> DEFINE e(j) == IF j = 0 THEN <<>>
                     ELSE IF list[j].to \in S THEN G[j - 1]
                     ELSE Append(G[j - 1], list[j])
  <2>1. G = [j \in 0..Len(list) |-> e(j)]
    BY <1>2 DEF AreKept
  <2>2. \A j \in 0..Len(list) : G[j] = e(j)
    <3> HIDE DEF e, G
    <3> QED
      BY <2>1
  <2>3. 0 \in 0..Len(list) /\ \A i \in 1..Len(list) : i \in 0..Len(list) /\ i # 0
    BY <1>4
  <2>4. G[0] = <<>>
    BY <2>2, <2>3
  <2>5. \A i \in 1..Len(list) : G[i] = Keep(G[i - 1], list[i], S)
    BY <2>2, <2>3 DEF Keep
  <2> QED
    BY <2>4, <2>5 DEF KeptBySteps
<1> HIDE DEF G
<1>6. f[Len(list)] = G[Len(list)]
  BY <1>1, <1>4, <1>5, KeptOnce
<1> QED
  BY <1>1, <1>3, <1>6

\* Outside of one edge more.
LEMMA OutsideAppend ==
  ASSUME NEW E, NEW list \in Seq(E), NEW e \in E, NEW S
  PROVE  F!Outside(Append(list, e), S) = Keep(F!Outside(list, S), e, S)
<1> DEFINE more == Append(list, e)
           n == Len(list)
<1>1. n \in Nat
  BY LenProperties
<1>2. more \in Seq(E) /\ Len(more) = n + 1 /\ more[n + 1] = e /\ \A i \in 1..n : more[i] = list[i]
  BY AppendProperties
<1> HIDE DEF more
<1>3. PICK f : KeptBySteps(f, list, S) /\ F!Outside(list, S) = f[n]
  BY OutsideIs
<1>4. PICK g : KeptBySteps(g, more, S) /\ F!Outside(more, S) = g[n + 1]
  BY <1>2, OutsideIs
<1>5. f[n] = g[n]
  <2> HIDE DEF n
  <2>1. n <= Len(more) /\ Len(more) \in Nat /\ n <= n
    BY <1>1, <1>2
  <2> QED
    BY <2>1, <1>1, <1>2, <1>3, <1>4, KeptOnce DEF n
<1>6. g[n + 1] = Keep(g[n], more[n + 1], S)
  <2>1. n + 1 \in 1..Len(more) /\ (n + 1) - 1 = n
    BY <1>1, <1>2
  <2> QED
    BY <2>1, <1>4 DEF KeptBySteps
<1> QED
  BY <1>2, <1>3, <1>4, <1>5, <1>6 DEF more

\* Nothing is left of no edges.
LEMMA OutsideEmpty ==
  ASSUME NEW S
  PROVE  F!Outside(<<>>, S) = <<>>
<1>1. <<>> \in Seq({}) /\ Len(<<>>) = 0
  BY EmptySeq
<1>2. PICK f : KeptBySteps(f, <<>>, S) /\ F!Outside(<<>>, S) = f[Len(<<>>)]
  BY <1>1, OutsideIs
<1>3. f[0] = <<>>
  BY <1>2, Zenon DEF KeptBySteps
<1> QED
  BY <1>1, <1>2, <1>3

\* Edges that do not lead into the set all stay.
LEMMA OutsideAll ==
  ASSUME NEW E, NEW list \in Seq(E), NEW S, \A i \in 1..Len(list) : list[i].to \notin S
  PROVE  F!Outside(list, S) = list
<1> DEFINE n == Len(list)
<1>1. n \in Nat /\ \A i \in 1..n : list[i] \in E
  BY LenProperties
<1>2. PICK f \in [0..n -> Seq(E)] : KeptBySteps(f, list, S) /\ F!Outside(list, S) = f[n]
  BY OutsideIs
<1> DEFINE Good == {m \in 0..n : Len(f[m]) = m /\ \A j \in 1..m : f[m][j] = list[j]}
<1>3. 0 \in Good
  BY <1>2, EmptySeq DEF KeptBySteps
<1>4. ASSUME NEW i \in 1..n, i - 1 \in Good
      PROVE  i \in Good
  <2>1. f[i] = Append(f[i - 1], list[i])
    BY <1>2 DEF KeptBySteps, Keep
  <2>2. i - 1 \in 0..n /\ i \in 0..n
    BY <1>1
  <2>3. f[i - 1] \in Seq(E) /\ list[i] \in E /\ Len(f[i - 1]) = i - 1
    BY <1>1, <1>4, <2>2
  <2>4. /\ Len(f[i]) = i /\ f[i][i] = list[i]
        /\ \A j \in 1..(i - 1) : f[i][j] = f[i - 1][j]
    <3> DEFINE q == f[i - 1]
    <3>1. /\ Len(Append(q, list[i])) = Len(q) + 1
          /\ Append(q, list[i])[Len(q) + 1] = list[i]
          /\ \A j \in 1..Len(q) : Append(q, list[i])[j] = q[j]
      BY <2>3, AppendProperties
    <3>2. Len(q) + 1 = i
      BY <2>3
    <3> HIDE DEF q
    <3> QED
      BY <3>1, <3>2, <2>1, <2>3 DEF q
  <2>5. \A j \in 1..i : j = i \/ j \in 1..(i - 1)
    OBVIOUS
  <2> QED
    BY <2>2, <2>4, <2>5, <1>4
<1>5. 0..n \subseteq Good
  <2> HIDE DEF Good
  <2> QED
    BY <1>1, <1>3, <1>4, InductionTo
<1>6. n \in Good /\ f[n] \in Seq(E)
  BY <1>1, <1>5
<1> QED
  BY <1>2, <1>6, SeqEqual

\* What is left is edges of the list, none of which leads into the set.
LEMMA OutsideType ==
  ASSUME NEW E, NEW list \in Seq(E), NEW S
  PROVE  /\ F!Outside(list, S) \in Seq(E)
         /\ \A j \in 1..Len(F!Outside(list, S)) :
              /\ F!Outside(list, S)[j].to \notin S
              /\ \E i \in 1..Len(list) : F!Outside(list, S)[j] = list[i]
<1> DEFINE n == Len(list)
           From(q, e) == e.to \notin S /\ \E i \in 1..n : e = list[i]
<1>1. n \in Nat /\ \A i \in 1..n : list[i] \in E
  BY LenProperties
<1>2. PICK f \in [0..n -> Seq(E)] : KeptBySteps(f, list, S) /\ F!Outside(list, S) = f[n]
  BY OutsideIs
<1> DEFINE Good == {m \in 0..n : \A j \in 1..Len(f[m]) : From(f[m], f[m][j])}
<1>3. 0 \in Good
  BY <1>2, EmptySeq DEF KeptBySteps
<1>4. ASSUME NEW i \in 1..n, i - 1 \in Good
      PROVE  i \in Good
  <2>1. f[i] = IF list[i].to \in S THEN f[i - 1] ELSE Append(f[i - 1], list[i])
    BY <1>2 DEF KeptBySteps, Keep
  <2>2. i - 1 \in 0..n /\ i \in 0..n /\ f[i - 1] \in Seq(E) /\ list[i] \in E
    BY <1>1
  <2>3. CASE list[i].to \in S
    BY <2>1, <2>2, <2>3, <1>4
  <2>4. CASE list[i].to \notin S
    <3> DEFINE q == f[i - 1]
    <3>1. /\ Len(q) \in Nat /\ Len(Append(q, list[i])) = Len(q) + 1
          /\ Append(q, list[i])[Len(q) + 1] = list[i]
          /\ \A j \in 1..Len(q) : Append(q, list[i])[j] = q[j]
      BY <2>2, AppendProperties, LenProperties
    <3>2. f[i] = Append(q, list[i]) /\ \A j \in 1..Len(q) : From(q, q[j])
      BY <2>1, <2>4, <1>4
    <3>3. From(q, list[i])
      BY <2>4
    <3> HIDE DEF q
    <3>4. \A j \in 1..(Len(q) + 1) : j = Len(q) + 1 \/ j \in 1..Len(q)
      BY <3>1
    <3> QED
      BY <3>1, <3>2, <3>3, <3>4, <2>2
  <2> QED
    BY <2>3, <2>4
<1>5. 0..n \subseteq Good
  <2> HIDE DEF Good
  <2> QED
    BY <1>1, <1>3, <1>4, InductionTo
<1>6. n \in Good /\ f[n] \in Seq(E)
  BY <1>1, <1>5
<1> QED
  BY <1>2, <1>6

\* To leave out one set and then another is to leave out both.
LEMMA OutsideTwice ==
  ASSUME NEW E, NEW list \in Seq(E), NEW A, NEW B
  PROVE  F!Outside(F!Outside(list, A), B) = F!Outside(list, A \cup B)
<1> DEFINE n == Len(list)
<1>1. n \in Nat /\ \A i \in 1..n : list[i] \in E
  BY LenProperties
<1>2. PICK f \in [0..n -> Seq(E)] : KeptBySteps(f, list, A) /\ F!Outside(list, A) = f[n]
  BY OutsideIs
<1>3. PICK h \in [0..n -> Seq(E)] :
        KeptBySteps(h, list, A \cup B) /\ F!Outside(list, A \cup B) = h[n]
  BY OutsideIs
<1> DEFINE Good == {m \in 0..n : F!Outside(f[m], B) = h[m]}
<1>4. 0 \in Good
  BY <1>2, <1>3, OutsideEmpty DEF KeptBySteps
<1>5. ASSUME NEW i \in 1..n, i - 1 \in Good
      PROVE  i \in Good
  <2>1. /\ f[i] = Keep(f[i - 1], list[i], A)
        /\ h[i] = Keep(h[i - 1], list[i], A \cup B)
    BY <1>2, <1>3 DEF KeptBySteps
  <2>a. i - 1 \in 0..n /\ i \in 0..n
    BY <1>1
  <2>2. i \in 0..n /\ f[i - 1] \in Seq(E) /\ list[i] \in E
    BY <1>1, <2>a
  <2>3. F!Outside(f[i - 1], B) = h[i - 1]
    BY <1>5
  <2>4. F!Outside(Append(f[i - 1], list[i]), B) = Keep(h[i - 1], list[i], B)
    BY <2>2, <2>3, OutsideAppend
  <2>5. F!Outside(f[i], B) = h[i]
    BY <2>1, <2>3, <2>4 DEF Keep
  <2> QED
    BY <2>2, <2>5
<1>6. 0..n \subseteq Good
  <2> HIDE DEF Good
  <2> QED
    BY <1>1, <1>4, <1>5, InductionTo
<1>7. n \in Good
  BY <1>1, <1>6
<1> QED
  BY <1>2, <1>3, <1>7

-----------------------------------------------------------------------------
(***************************************************************************)
(* Graphs: nodes taken out, and the nodes below a node.                    *)
(***************************************************************************)
EdgeType == [to : NodeIds, label : Labels]
NodeType == [data : Data, forward : Seq(EdgeType)]

IsGraph(g) == g \in [DOMAIN g -> NodeType]

\* No edge leads out of S.
Closed(g, S) == \A n \in S : F!Ends(g, n) \subseteq S

\* The ends of a node are the ends of the edges in its list.
LEMMA EndsOf ==
  ASSUME NEW g, NEW n
  PROVE  /\ \A i \in 1..Len(g[n].forward) : g[n].forward[i].to \in F!Ends(g, n)
         /\ \A m \in F!Ends(g, n) : \E i \in 1..Len(g[n].forward) : g[n].forward[i].to = m
BY DEF F!Ends

\* What Without leaves of each node.
LEMMA WithoutNode ==
  ASSUME NEW g, IsGraph(g), NEW S
  PROVE  LET w == F!Without(g, S)
         IN  /\ DOMAIN w = DOMAIN g \ S /\ IsGraph(w)
             /\ \A n \in DOMAIN g \ S :
                  /\ w[n] = [data |-> g[n].data, forward |-> F!Outside(g[n].forward, S)]
                  /\ F!Ends(w, n) \subseteq F!Ends(g, n) \ S
<1> DEFINE w == F!Without(g, S)
           left(n) == [data |-> g[n].data, forward |-> F!Outside(g[n].forward, S)]
<1>1. \A n \in DOMAIN g : /\ g[n] \in NodeType /\ g[n].data \in Data
                          /\ g[n].forward \in Seq(EdgeType)
  BY DEF IsGraph, NodeType
<1>2. \A n \in DOMAIN g : [g[n] EXCEPT !.forward = F!Outside(@, S)] = left(n)
  BY <1>1 DEF NodeType
<1>3. w = [n \in DOMAIN g \ S |-> left(n)]
  BY <1>2 DEF F!Without
<1>4. \A n \in DOMAIN g : F!Outside(g[n].forward, S) \in Seq(EdgeType)
  BY <1>1, OutsideType
<1>5. \A n \in DOMAIN g : left(n) \in NodeType
  BY <1>1, <1>4 DEF NodeType
<1>6. DOMAIN w = DOMAIN g \ S /\ \A n \in DOMAIN g \ S : w[n] = left(n)
  BY <1>3, Zenon
<1>7. IsGraph(w)
  BY <1>3, <1>5 DEF IsGraph
<1>8. ASSUME NEW n \in DOMAIN g \ S
      PROVE  F!Ends(w, n) \subseteq F!Ends(g, n) \ S
  <2>1. w[n].forward = F!Outside(g[n].forward, S)
    BY <1>6
  <2> HIDE DEF w, left
  <2>2. SUFFICES ASSUME NEW m \in F!Ends(w, n) PROVE m \in F!Ends(g, n) \ S
    OBVIOUS
  <2>3. PICK j \in 1..Len(w[n].forward) : w[n].forward[j].to = m
    BY EndsOf
  <2>4. /\ w[n].forward[j].to \notin S
        /\ \E i \in 1..Len(g[n].forward) : w[n].forward[j] = g[n].forward[i]
    BY <2>1, <1>1, OutsideType
  <2> QED
    BY <2>3, <2>4, EndsOf
<1> QED
  BY <1>6, <1>7, <1>8

\* Nothing changes in the other nodes if none of them leads to what is taken out.
LEMMA WithoutUntouched ==
  ASSUME NEW g, IsGraph(g), NEW S, \A n \in DOMAIN g \ S : F!Ends(g, n) \cap S = {}
  PROVE  F!Without(g, S) = [n \in DOMAIN g \ S |-> g[n]]
<1> DEFINE w == F!Without(g, S)
<1>1. /\ DOMAIN w = DOMAIN g \ S /\ IsGraph(w)
      /\ \A n \in DOMAIN g \ S :
           w[n] = [data |-> g[n].data, forward |-> F!Outside(g[n].forward, S)]
  BY WithoutNode
<1>2. ASSUME NEW n \in DOMAIN g \ S
      PROVE  w[n] = g[n]
  <2>1. g[n] \in NodeType /\ g[n].forward \in Seq(EdgeType)
    BY DEF IsGraph, NodeType
  <2>2. \A i \in 1..Len(g[n].forward) : g[n].forward[i].to \notin S
    BY EndsOf
  <2>3. F!Outside(g[n].forward, S) = g[n].forward
    BY <2>1, <2>2, OutsideAll
  <2>4. g[n] = [data |-> g[n].data, forward |-> g[n].forward]
    BY <2>1 DEF NodeType
  <2> QED
    BY <2>3, <2>4, <1>1
<1> HIDE DEF w
<1>3. w = [n \in DOMAIN g \ S |-> w[n]]
  BY <1>1 DEF IsGraph
<1> QED
  BY <1>2, <1>3 DEF w

\* To take out no node changes nothing.
LEMMA WithoutNone ==
  ASSUME NEW g, IsGraph(g)
  PROVE  F!Without(g, {}) = g
<1>1. F!Without(g, {}) = [n \in DOMAIN g \ {} |-> g[n]]
  BY WithoutUntouched
<1>2. DOMAIN g \ {} = DOMAIN g /\ g = [n \in DOMAIN g |-> g[n]]
  BY DEF IsGraph
<1> QED
  BY <1>1, <1>2

\* To take out some nodes and then others is to take out all of them.
LEMMA WithoutTwice ==
  ASSUME NEW g, IsGraph(g), NEW A, NEW B
  PROVE  F!Without(F!Without(g, A), B) = F!Without(g, A \cup B)
<1> DEFINE v == F!Without(g, A)
           w == F!Without(v, B)
           u == F!Without(g, A \cup B)
<1>1. /\ DOMAIN v = DOMAIN g \ A /\ IsGraph(v)
      /\ \A n \in DOMAIN g \ A :
           v[n] = [data |-> g[n].data, forward |-> F!Outside(g[n].forward, A)]
  BY WithoutNode
<1>a. IsGraph(v)
  BY <1>1
<1> HIDE DEF v
<1>2. /\ DOMAIN w = DOMAIN v \ B /\ IsGraph(w)
      /\ \A n \in DOMAIN v \ B :
           w[n] = [data |-> v[n].data, forward |-> F!Outside(v[n].forward, B)]
  BY <1>a, WithoutNode
<1>3. /\ DOMAIN u = DOMAIN g \ (A \cup B) /\ IsGraph(u)
      /\ \A n \in DOMAIN g \ (A \cup B) :
           u[n] = [data |-> g[n].data, forward |-> F!Outside(g[n].forward, A \cup B)]
  BY WithoutNode
<1>4. ASSUME NEW n \in DOMAIN g \ (A \cup B)
      PROVE  w[n] = u[n]
  <2>1. g[n].forward \in Seq(EdgeType)
    BY DEF IsGraph, NodeType
  <2>2. F!Outside(F!Outside(g[n].forward, A), B) = F!Outside(g[n].forward, A \cup B)
    BY <2>1, OutsideTwice
  <2>3. n \in DOMAIN v \ B /\ n \in DOMAIN g \ A
    BY <1>1
  <2> HIDE DEF w, u
  <2>4. v[n].data = g[n].data /\ v[n].forward = F!Outside(g[n].forward, A)
    BY <2>3, <1>1
  <2>5. w[n] = [data |-> g[n].data, forward |-> F!Outside(F!Outside(g[n].forward, A), B)]
    BY <2>3, <2>4, <1>2
  <2> QED
    BY <2>2, <2>5, <1>3
<1> HIDE DEF w, u
<1>5. DOMAIN w = DOMAIN u
  BY <1>1, <1>2, <1>3
<1>6. w = [n \in DOMAIN u |-> w[n]] /\ u = [n \in DOMAIN u |-> u[n]]
  BY <1>2, <1>3, <1>5 DEF IsGraph
<1>7. w = u
  BY <1>3, <1>4, <1>6
<1> QED
  BY <1>7 DEF w, u, v

-----------------------------------------------------------------------------
(***************************************************************************)
(* Reach: the recursion adds the ends of what it has, as many times as     *)
(* there are nodes.                                                        *)
(***************************************************************************)
Near(g, S) == S \cup UNION {F!Ends(g, m) : m \in S}

AreNear(f, g, n) ==
  f = [k \in 0..Cardinality(DOMAIN g) |->
         IF k = 0 THEN {n}
         ELSE LET near == f[k - 1] IN near \cup UNION {F!Ends(g, m) : m \in near}]

NearBySteps(f, g, n) ==
  f[0] = {n} /\ \A k \in 1..Cardinality(DOMAIN g) : f[k] = Near(g, f[k - 1])

\* The graphs that a walk may go over.
Sound(g) ==
  /\ IsFiniteSet(DOMAIN g)
  /\ \A m \in DOMAIN g : F!Ends(g, m) \subseteq DOMAIN g

\* The recursion defines a set for each number of steps.
LEMMA NearExist ==
  ASSUME NEW g, Sound(g), NEW n \in DOMAIN g
  PROVE  \E f \in [0..Cardinality(DOMAIN g) -> SUBSET DOMAIN g] :
           AreNear(f, g, n) /\ NearBySteps(f, g, n)
<1> DEFINE N == Cardinality(DOMAIN g)
           D == SUBSET DOMAIN g
           table == [k \in 1..N |-> [S \in D |-> Near(g, S)]]
<1>1. N \in Nat
  BY FS_CardinalityType DEF Sound
<1>2. \A S \in D : Near(g, S) \in D
  BY DEF Near, Sound
<1>3. table \in [1..N -> [D -> D]] /\ \A k \in 1..N : \A S \in D : table[k][S] = Near(g, S)
  BY <1>2
<1>4. PICK step \in [1..N -> [D -> D]] : \A k \in 1..N : \A S \in D : step[k][S] = Near(g, S)
  BY <1>3
<1>5. PICK f \in [0..N -> D] : Repeats(f, N, {n}, step)
  <2>1. {n} \in D
    OBVIOUS
  <2> HIDE DEF N, D
  <2> QED
    BY <2>1, <1>1, RecursionTo
<1>6. f[0] = {n} /\ \A k \in 1..N : f[k] = step[k][f[k - 1]]
  BY <1>5 DEF Repeats
<1>7. \A k \in 1..N : f[k] = Near(g, f[k - 1])
  <2>1. \A k \in 1..N : k - 1 \in 0..N
    BY <1>1
  <2>2. \A k \in 1..N : f[k - 1] \in D
    BY <2>1
  <2> QED
    BY <1>4, <1>6, <2>2
<1>8. AreNear(f, g, n)
  <2>1. \A k \in 0..N : k # 0 => k \in 1..N
    BY <1>1
  <2>2. f = [k \in 0..N |-> f[k]]
    OBVIOUS
  <2>3. \A k \in 0..N : f[k] = IF k = 0 THEN {n} ELSE Near(g, f[k - 1])
    BY <2>1, <1>6, <1>7
  <2> HIDE DEF N
  <2>4. f = [k \in 0..N |-> IF k = 0 THEN {n} ELSE Near(g, f[k - 1])]
    BY <2>2, <2>3
  <2> QED
    BY <2>4 DEF AreNear, Near, N
<1> QED
  BY <1>6, <1>7, <1>8 DEF NearBySteps

\* Forest counts as the modules of proofs do.
LEMMA SameCount ==
  ASSUME NEW S
  PROVE  F!Cardinality(S) = Cardinality(S)
BY DEF F!Cardinality, Cardinality

\* Reach is given by these sets.
LEMMA ReachIs ==
  ASSUME NEW g, Sound(g), NEW n \in DOMAIN g
  PROVE  \E f \in [0..Cardinality(DOMAIN g) -> SUBSET DOMAIN g] :
           NearBySteps(f, g, n) /\ F!Reach(g, n) = f[Cardinality(DOMAIN g)]
<1> DEFINE N == Cardinality(DOMAIN g)
           G == CHOOSE f : AreNear(f, g, n)
<1>1. PICK f \in [0..N -> SUBSET DOMAIN g] : AreNear(f, g, n) /\ NearBySteps(f, g, n)
  BY NearExist
<1>2. AreNear(G, g, n)
  BY <1>1
<1>3. F!Reach(g, n) = G[N]
  BY SameCount DEF F!Reach, AreNear
<1>4. N \in Nat
  BY FS_CardinalityType DEF Sound
<1>5. NearBySteps(G, g, n)
  <2> DEFINE e(k) == IF k = 0 THEN {n} ELSE G[k - 1] \cup UNION {F!Ends(g, m) : m \in G[k - 1]}
  <2>1. G = [k \in 0..N |-> e(k)]
    BY <1>2 DEF AreNear
  <2>2. \A k \in 0..N : G[k] = e(k)
    <3> HIDE DEF e, G, N
    <3> QED
      BY <2>1
  <2>3. 0 \in 0..N /\ \A k \in 1..N : k \in 0..N /\ k # 0
    BY <1>4
  <2>4. G[0] = {n}
    BY <2>2, <2>3
  <2>5. \A k \in 1..N : G[k] = Near(g, G[k - 1])
    BY <2>2, <2>3 DEF Near
  <2> QED
    BY <2>4, <2>5 DEF NearBySteps
<1> HIDE DEF G
<1>6. f[N] = G[N]
  <2> DEFINE Good == {k \in 0..N : f[k] = G[k]}
  <2>a. 0 \in 0..N
    BY <1>4
  <2>1. 0 \in Good
    BY <2>a, <1>1, <1>5 DEF NearBySteps
  <2>2. ASSUME NEW k \in 1..N, k - 1 \in Good
        PROVE  k \in Good
    <3>1. f[k] = Near(g, f[k - 1]) /\ G[k] = Near(g, G[k - 1])
      BY <1>1, <1>5 DEF NearBySteps
    <3> QED
      BY <3>1, <2>2, <1>4
  <2>3. 0..N \subseteq Good
    <3> HIDE DEF Good, N
    <3> QED
      BY <1>4, <2>1, <2>2, InductionTo
  <2> QED
    BY <2>3, <1>4
<1> QED
  BY <1>1, <1>3, <1>6

\* Reach is the least set around a node that no edge leads out of.
LEMMA ReachLeast ==
  ASSUME NEW g, Sound(g), NEW n \in DOMAIN g
  PROVE  /\ n \in F!Reach(g, n) /\ F!Reach(g, n) \subseteq DOMAIN g
         /\ Closed(g, F!Reach(g, n))
         /\ \A S : n \in S /\ Closed(g, S) => F!Reach(g, n) \subseteq S
<1> DEFINE N == Cardinality(DOMAIN g)
<1>1. N \in Nat
  BY FS_CardinalityType DEF Sound
<1>2. PICK f \in [0..N -> SUBSET DOMAIN g] : NearBySteps(f, g, n) /\ F!Reach(g, n) = f[N]
  BY ReachIs
<1>3. f[0] = {n} /\ \A k \in 1..N : f[k] = Near(g, f[k - 1])
  BY <1>2 DEF NearBySteps
<1>4. \A k \in 0..N : /\ f[k] \subseteq DOMAIN g /\ IsFiniteSet(f[k])
                      /\ Cardinality(f[k]) \in Nat /\ Cardinality(f[k]) <= N
  BY FS_Subset, FS_CardinalityType DEF Sound
<1>5. n \in f[N]
  <2> DEFINE Good == {k \in 0..N : n \in f[k]}
  <2>1. 0 \in Good
    BY <1>1, <1>3
  <2>2. \A k \in 1..N : k - 1 \in Good => k \in Good
    BY <1>1, <1>3 DEF Near
  <2>3. 0..N \subseteq Good
    <3> HIDE DEF Good, N
    <3> QED
      BY <1>1, <2>1, <2>2, InductionTo
  <2> QED
    BY <2>3, <1>1
<1>6. ASSUME NEW S, n \in S, Closed(g, S)
      PROVE  f[N] \subseteq S
  <2> DEFINE Good == {k \in 0..N : f[k] \subseteq S}
  <2>1. 0 \in Good
    BY <1>1, <1>3, <1>6
  <2>2. ASSUME NEW k \in 1..N, k - 1 \in Good
        PROVE  k \in Good
    BY <2>2, <1>1, <1>3, <1>6 DEF Near, Closed
  <2>3. 0..N \subseteq Good
    <3> HIDE DEF Good, N
    <3> QED
      BY <1>1, <2>1, <2>2, InductionTo
  <2> QED
    BY <2>3, <1>1
<1>7. Closed(g, f[N])
  <2> DEFINE Good == {k \in 0..N : Closed(g, f[k]) \/ Cardinality(f[k]) >= k + 1}
  <2>a. 0 \in 0..N
    BY <1>1
  <2>b. Cardinality(f[0]) = 1
    BY <1>3, FS_Singleton
  <2>1. 0 \in Good
    BY <2>a, <2>b
  <2>2. ASSUME NEW k \in 1..N, k - 1 \in Good
        PROVE  k \in Good
    <3>1. k - 1 \in 0..N /\ k \in 0..N /\ f[k] = Near(g, f[k - 1])
      BY <1>1, <1>3
    <3>2. CASE Closed(g, f[k - 1])
      <4>1. f[k] = f[k - 1]
        BY <3>1, <3>2 DEF Near, Closed
      <4> QED
        BY <3>1, <3>2, <4>1
    <3>3. CASE ~Closed(g, f[k - 1])
      <4>1. f[k - 1] \subseteq f[k] /\ f[k - 1] # f[k]
        BY <3>1, <3>3 DEF Near, Closed
      <4>2. Cardinality(f[k - 1]) >= k
        BY <2>2, <3>3
      <4>3. Cardinality(f[k - 1]) <= Cardinality(f[k]) /\ Cardinality(f[k]) # Cardinality(f[k - 1])
        BY <4>1, <3>1, <1>4, FS_Subset
      <4>4. /\ Cardinality(f[k]) \in Nat /\ Cardinality(f[k - 1]) \in Nat
        BY <3>1, <1>4
      <4>5. Cardinality(f[k]) >= k + 1
        BY <4>2, <4>3, <4>4
      <4> QED
        BY <4>5, <3>1
    <3> QED
      BY <3>2, <3>3
  <2>3. 0..N \subseteq Good
    <3> HIDE DEF Good, N
    <3> QED
      BY <1>1, <2>1, <2>2, InductionTo
  <2>4. N \in 0..N
    BY <1>1
  <2>5. N \in Good /\ Cardinality(f[N]) \in Nat /\ Cardinality(f[N]) <= N
    BY <2>3, <2>4, <1>4
  <2> QED
    BY <2>5, <1>1
<1>8. f[N] \subseteq DOMAIN g
  BY <1>1, <1>4
<1> QED
  BY <1>2, <1>5, <1>6, <1>7, <1>8

-----------------------------------------------------------------------------
(***************************************************************************)
(* The inductive invariant.                                                *)
(***************************************************************************)
\* The nodes that the client knows of, those the copy in progress did not make,
\* and the graph that they are.
Old == DOMAIN graph \ made
View == [n \in Old |-> graph[n]]
Edges(m) == View[m].forward
Below == F!Reach(View, arg)

\* The graph has its types, and no node of the client leads to a copy in progress.
Shape ==
  /\ DOMAIN graph \subseteq NodeIds
  /\ IsGraph(graph)
  /\ made \subseteq DOMAIN graph
  /\ \A n \in DOMAIN graph : F!Ends(graph, n) \subseteq DOMAIN graph
  /\ \A n \in Old : F!Ends(graph, n) \subseteq Old

\* What each operation leaves alone.
Locals ==
  /\ op \in {"none", "erase", "copy", "check"}
  /\ removing \in BOOLEAN /\ lost \in BOOLEAN
  /\ op # "erase" => to_remove = <<>> /\ ~removing
  /\ op # "copy" => made = {}
  /\ op # "none" => verdict = "none"
  /\ root = NoNode \/ lost \/ root \in Old
  /\ to_remove \in Seq(NodeIds) /\ NoRepeat(to_remove)
  /\ Members(to_remove) \subseteq DOMAIN graph
  /\ removing /\ ~lost => root \notin Members(to_remove)

\* The edge at position i of node m was handed to the handler.
Handled(m, i) ==
  /\ m \in visited /\ m \notin Members(seq)
  /\ i \in 1..Len(Edges(m))
  /\ m = node => i < idx
EndOf(m, i) == Edges(m)[i].to

\* The deque holds the nodes that were found and not yet taken.
Deque ==
  /\ arg \in visited /\ visited \subseteq Old
  /\ seq \in Seq(NodeIds) /\ NoRepeat(seq) /\ Members(seq) \subseteq visited
  /\ node # NoNode => /\ node \in visited /\ node \notin Members(seq)
                      /\ idx \in 1..(Len(Edges(node)) + 1)
  /\ node = NoNode => visited = Members(seq)

\* What is visited is below the start, and leads to visited nodes as far as the
\* walk has come; and each node was found through an edge.
Swept ==
  /\ visited \subseteq Below
  /\ \A m, i : Handled(m, i) => EndOf(m, i) \in visited
  /\ \A n \in visited : n # arg => \E m, i : Handled(m, i) /\ EndOf(m, i) = n

\* No node was found twice: of assert_integrity, which throws otherwise, and of
\* duplicate_subtree, which is called for trees.
Once ==
  \A m, i : Handled(m, i) =>
    /\ EndOf(m, i) # arg
    /\ \A k, j : Handled(k, j) /\ EndOf(k, j) = EndOf(m, i) => k = m /\ j = i

\* How many edges of node m were handled.
Count(m) ==
  IF m \in Members(seq) THEN 0 ELSE IF m = node THEN idx - 1 ELSE Len(Edges(m))

\* Each visited node has a copy of its own.
Paired ==
  /\ map \in [visited -> made]
  /\ \A m, n \in visited : map[m] = map[n] => m = n
  /\ \A c \in made : \E m \in visited : map[m] = c

\* A copy has the data of its node, and the edges handled so far.
CopyOf(m) ==
  /\ graph[map[m]].data = View[m].data
  /\ Len(graph[map[m]].forward) = Count(m)
  /\ \A i \in 1..Count(m) :
       graph[map[m]].forward[i] = F!Edge(map[EndOf(m, i)], Edges(m)[i].label)

Copied ==
  /\ F!IsTree(View, arg)
  /\ Cardinality(Below) <= Cardinality(NodeIds \ Old)
  /\ Paired
  /\ \A m \in visited : CopyOf(m)

InWalk ==
  /\ Deque /\ Swept
  /\ op \in {"check", "copy"} => Once
  /\ op = "check" => arg = root
  /\ op = "copy" => Copied
  /\ op = "erase" => Members(to_remove) = visited \ {arg}

IInv == Shape /\ Locals /\ (Walking => InWalk) /\ IntegrityRight

-----------------------------------------------------------------------------
(***************************************************************************)
(* What the shape of a graph gives.                                        *)
(***************************************************************************)
\* What the client knows of is a graph of its own, with the nodes as they are.
LEMMA ViewFacts ==
  ASSUME Shape
  PROVE  /\ DOMAIN View = Old /\ IsGraph(View) /\ Sound(View)
         /\ \A n \in Old : /\ View[n] = graph[n] /\ Edges(n) = graph[n].forward
                           /\ Edges(n) \in Seq(EdgeType) /\ Len(Edges(n)) \in Nat
                           /\ F!Ends(View, n) = F!Ends(graph, n)
         /\ IsFiniteSet(DOMAIN graph) /\ IsFiniteSet(NodeIds \ DOMAIN graph)
<1>1. DOMAIN View = Old /\ \A n \in Old : View[n] = graph[n]
  BY DEF View
<1>2. IsFiniteSet(DOMAIN graph) /\ IsFiniteSet(Old) /\ IsFiniteSet(NodeIds \ DOMAIN graph)
  BY TreeAssumption, FS_Subset DEF Shape, Old
<1>3. \A n \in Old : graph[n] \in NodeType /\ graph[n].forward \in Seq(EdgeType)
  BY DEF Shape, IsGraph, NodeType, Old
<1>4. IsGraph(View)
  BY <1>1, <1>3 DEF IsGraph, View
<1>5. \A n \in Old : F!Ends(View, n) = F!Ends(graph, n)
  BY <1>1 DEF F!Ends
<1>6. Sound(View)
  BY <1>1, <1>2, <1>5 DEF Sound, Shape
<1>7. \A n \in Old : /\ Edges(n) = graph[n].forward /\ Edges(n) \in Seq(EdgeType)
                     /\ Len(Edges(n)) \in Nat
  BY <1>1, <1>3, LenProperties DEF Edges
<1> QED
  BY <1>1, <1>2, <1>4, <1>5, <1>6, <1>7

\* With no copy in progress that is the whole graph.
LEMMA ViewAlone ==
  ASSUME Shape, made = {}
  PROVE  View = graph /\ Old = DOMAIN graph
<1>1. Old = DOMAIN graph
  BY DEF Old
<1>2. graph = [n \in DOMAIN graph |-> graph[n]]
  BY DEF Shape, IsGraph
<1> QED
  BY <1>1, <1>2 DEF View

\* It is what Tree says that a client sees.
LEMMA VisibleIsView ==
  ASSUME Shape, ~removing
  PROVE  VisibleGraph = View
<1>1. \A n \in DOMAIN graph \ made : F!Ends(graph, n) \cap made = {}
  BY DEF Shape, Old
<1>2. F!Without(graph, made) = [n \in DOMAIN graph \ made |-> graph[n]]
  BY <1>1, WithoutUntouched DEF Shape
<1> QED
  BY <1>2 DEF VisibleGraph, View, Old

\* The same as an implication.
LEMMA VisibleInWalk == Shape /\ ~removing => VisibleGraph = View
BY VisibleIsView

\* In the next state.
LEMMA VisibleInWalkNext == Shape' /\ ~removing' => (VisibleGraph = View)'
BY VisibleInWalk, PTL

\* The storage for the next node is free, if any is.
LEMMA FreshIsFree ==
  ASSUME NodeIds \ DOMAIN graph # {}
  PROVE  fresh \in NodeIds /\ fresh \notin DOMAIN graph
<1>1. NodeIds \ DOMAIN graph \in SUBSET Nat
  BY TreeAssumption
<1> QED
  BY <1>1, MinOfSet DEF fresh

\* A graph with a node more.
LEMMA NodeAdded ==
  ASSUME NEW g, IsGraph(g), NEW n \in NodeIds, n \notin DOMAIN g, NEW d \in Data
  PROVE  LET w == F!WithNode(g, n, d)
         IN  /\ DOMAIN w = DOMAIN g \cup {n} /\ IsGraph(w)
             /\ w[n] = [data |-> d, forward |-> <<>>]
             /\ \A m \in DOMAIN g : w[m] = g[m]
             /\ F!Ends(w, n) = {}
<1> DEFINE w == F!WithNode(g, n, d)
<1>1. /\ DOMAIN w = DOMAIN g \cup {n}
      /\ w[n] = [data |-> d, forward |-> <<>>]
      /\ \A m \in DOMAIN g : w[m] = g[m]
      /\ w = [m \in DOMAIN w |-> w[m]]
  BY DEF F!WithNode
<1>2. \A m \in DOMAIN w : w[m] \in NodeType
  <2>1. <<>> \in Seq(EdgeType)
    BY EmptySeq
  <2>2. w[n] \in NodeType
    BY <1>1, <2>1 DEF NodeType
  <2>3. \A m \in DOMAIN g : g[m] \in NodeType
    BY DEF IsGraph
  <2> QED
    BY <1>1, <2>2, <2>3
<1> HIDE DEF w
<1>3. IsGraph(w)
  BY <1>1, <1>2 DEF IsGraph
<1>5. w[n].forward = <<>>
  BY <1>1
<1>6. F!Ends(w, n) = {}
  BY <1>5 DEF F!Ends
<1> QED
  BY <1>1, <1>3, <1>6 DEF w

\* A graph with an edge more.
LEMMA EdgeAdded ==
  ASSUME NEW g, IsGraph(g), NEW s \in DOMAIN g, NEW t \in NodeIds, NEW label \in Labels
  PROVE  LET w == F!WithEdge(g, s, t, label)
         IN  /\ DOMAIN w = DOMAIN g /\ IsGraph(w)
             /\ w[s].data = g[s].data
             /\ w[s].forward = Append(g[s].forward, F!Edge(t, label))
             /\ \A m \in DOMAIN g : m # s => w[m] = g[m] /\ F!Ends(w, m) = F!Ends(g, m)
             /\ F!Ends(w, s) = F!Ends(g, s) \cup {t}
<1> DEFINE w == F!WithEdge(g, s, t, label)
           e == F!Edge(t, label)
           new == [data |-> g[s].data, forward |-> Append(g[s].forward, e)]
<1>1. \A m \in DOMAIN g : g[m] \in NodeType /\ g[m].data \in Data /\ g[m].forward \in Seq(EdgeType)
  BY DEF IsGraph, NodeType
<1>2. g = [m \in DOMAIN g |-> g[m]]
  BY DEF IsGraph
<1>a. \A x \in NodeType : [x EXCEPT !.forward = Append(@, e)]
                          = [data |-> x.data, forward |-> Append(x.forward, e)]
  BY DEF NodeType
<1>3. [g[s] EXCEPT !.forward = Append(@, e)] = new
  BY <1>1, <1>a
<1>4. w = [m \in DOMAIN g |-> IF m = s THEN new ELSE g[m]]
  BY <1>2, <1>3 DEF F!WithEdge
<1>5. e \in EdgeType /\ e.to = t
  BY DEF F!Edge, EdgeType
<1> HIDE DEF e
<1>6. LET l == Append(g[s].forward, e) IN
      /\ l \in Seq(EdgeType) /\ Len(l) = Len(g[s].forward) + 1 /\ l[Len(g[s].forward) + 1] = e
      /\ \A k \in 1..Len(g[s].forward) : l[k] = g[s].forward[k]
  BY <1>1, <1>5, AppendProperties
<1>7. new \in NodeType
  BY <1>1, <1>6 DEF NodeType
<1>8. IsGraph(w)
  <2> HIDE DEF new
  <2> QED
    BY <1>1, <1>4, <1>7 DEF IsGraph
<1>9. DOMAIN w = DOMAIN g /\ w[s] = new /\ \A m \in DOMAIN g : m # s => w[m] = g[m]
  <2> HIDE DEF new
  <2> QED
    BY <1>4
<1>10. w[s].data = g[s].data /\ w[s].forward = Append(g[s].forward, e)
  BY <1>9
<1> HIDE DEF w, new
<1>11. \A m \in DOMAIN g : m # s => F!Ends(w, m) = F!Ends(g, m)
  BY <1>9 DEF F!Ends
<1>12. F!Ends(w, s) = F!Ends(g, s) \cup {t}
  <2> DEFINE l == w[s].forward
             k == g[s].forward
  <2>1. /\ Len(k) \in Nat /\ Len(l) = Len(k) + 1 /\ l[Len(k) + 1] = e
        /\ \A i \in 1..Len(k) : l[i] = k[i]
    BY <1>1, <1>6, <1>10, LenProperties
  <2>2. F!Ends(w, s) = {l[i].to : i \in 1..Len(l)} /\ F!Ends(g, s) = {k[i].to : i \in 1..Len(k)}
    BY DEF F!Ends
  <2> HIDE DEF l, k
  <2>3. 1..Len(l) = 1..Len(k) \cup {Len(k) + 1}
    BY <2>1
  <2>4. {l[i].to : i \in 1..Len(l)} = {l[i].to : i \in 1..Len(k)} \cup {l[Len(k) + 1].to}
    BY <2>3
  <2>5. {l[i].to : i \in 1..Len(k)} = {k[i].to : i \in 1..Len(k)}
    BY <2>1
  <2> QED
    BY <2>1, <2>2, <2>4, <2>5, <1>5
<1> QED
  BY <1>8, <1>9, <1>10, <1>11, <1>12 DEF w, e

-----------------------------------------------------------------------------
(***************************************************************************)
(* What it is to be a tree, edge by edge.                                  *)
(***************************************************************************)
IsEdge(g, S, k, i) == k \in S /\ i \in 1..Len(g[k].forward)

Joined(g, n, S) ==
  /\ \A k, i : IsEdge(g, S, k, i) => g[k].forward[i].to # n
  /\ \A m \in S : m # n => \E k, i : IsEdge(g, S, k, i) /\ g[k].forward[i].to = m
  /\ \A k, i, l, j :
       /\ IsEdge(g, S, k, i) /\ IsEdge(g, S, l, j)
       /\ g[k].forward[i].to = g[l].forward[j].to
       => k = l /\ i = j

\* The edges from a finite set into a node, as IsTree has them.
Into(g, S, m) ==
  {p \in UNION {{k} \X (1..Len(g[k].forward)) : k \in S} : g[p[1]].forward[p[2]].to = m}

\* They are the pairs of a node and a position, and there are finitely many.
LEMMA IntoIs ==
  ASSUME NEW g, IsGraph(g), IsFiniteSet(DOMAIN g), NEW S, S \subseteq DOMAIN g, NEW m
  PROVE  /\ IsFiniteSet(Into(g, S, m))
         /\ \A p \in Into(g, S, m) : /\ IsEdge(g, S, p[1], p[2]) /\ p = <<p[1], p[2]>>
                                     /\ g[p[1]].forward[p[2]].to = m
         /\ \A k, i : /\ IsEdge(g, S, k, i)
                      /\ g[k].forward[i].to = m
                      => <<k, i>> \in Into(g, S, m)
<1> DEFINE of(k) == {k} \X (1..Len(g[k].forward))
           all == UNION {of(k) : k \in S}
<1>1. IsFiniteSet(S)
  BY FS_Subset
<1>2. \A k \in S : Len(g[k].forward) \in Nat
  BY LenProperties DEF IsGraph, NodeType
<1>3. ASSUME NEW k \in S
      PROVE  IsFiniteSet(of(k))
  <2>1. IsFiniteSet({k}) /\ IsFiniteSet(1..Len(g[k].forward))
    <3>1. 1 \in Int /\ Len(g[k].forward) \in Int
      BY <1>2
    <3> QED
      BY <3>1, FS_Singleton, FS_Interval, Zenon
  <2> QED
    BY <2>1, FS_Product, Zenon
<1>4. IsFiniteSet({of(k) : k \in S})
  <2> DEFINE f == [k \in S |-> of(k)]
  <2>1. f \in Surjection(S, {of(k) : k \in S})
    <3> HIDE DEF of
    <3> QED
      BY DEF Surjection
  <2> QED
    BY <2>1, <1>1, FS_Surjection
<1>5. IsFiniteSet(all)
  <2>1. \A T \in {of(k) : k \in S} : IsFiniteSet(T)
    BY <1>3
  <2> HIDE DEF of
  <2> QED
    BY <1>4, <2>1, FS_UNION
<1>6. Into(g, S, m) \subseteq all
  BY DEF Into
<1>7. IsFiniteSet(Into(g, S, m))
  BY <1>5, <1>6, FS_Subset
<1>8. ASSUME NEW p \in Into(g, S, m)
      PROVE  IsEdge(g, S, p[1], p[2]) /\ p = <<p[1], p[2]>> /\ g[p[1]].forward[p[2]].to = m
  <2>1. PICK k \in S : p \in {k} \X (1..Len(g[k].forward))
    BY DEF Into
  <2>2. p[1] = k /\ p[2] \in 1..Len(g[k].forward) /\ p = <<p[1], p[2]>>
    BY <2>1
  <2> QED
    BY <2>2 DEF Into, IsEdge
<1>9. ASSUME NEW k, NEW i, IsEdge(g, S, k, i), g[k].forward[i].to = m
      PROVE  <<k, i>> \in Into(g, S, m)
  <2>1. <<k, i>> \in of(k) /\ k \in S
    BY <1>9 DEF IsEdge
  <2> QED
    BY <2>1, <1>9 DEF Into
<1> QED
  BY <1>7, <1>8, <1>9

\* Forest's definition of a tree says the same.
LEMMA TreeMeans ==
  ASSUME NEW g, IsGraph(g), Sound(g), NEW n \in DOMAIN g
  PROVE  F!IsTree(g, n) <=> Joined(g, n, F!Reach(g, n))
<1> DEFINE S == F!Reach(g, n)
           count(m) == Cardinality(Into(g, S, m))
<1>1. n \in S /\ S \subseteq DOMAIN g /\ Closed(g, S)
  BY ReachLeast
<1>2. \A k, i : IsEdge(g, S, k, i) => g[k].forward[i].to \in S
  BY <1>1, EndsOf DEF IsEdge, Closed
<1>3. F!IsTree(g, n) <=> \A m \in S : count(m) = IF m = n THEN 0 ELSE 1
  BY SameCount, Zenon DEF F!IsTree, Into
<1> HIDE DEF S
<1>4. \A m : /\ IsFiniteSet(Into(g, S, m))
             /\ \A p \in Into(g, S, m) : /\ IsEdge(g, S, p[1], p[2]) /\ p = <<p[1], p[2]>>
                                         /\ g[p[1]].forward[p[2]].to = m
             /\ \A k, i : IsEdge(g, S, k, i) /\ g[k].forward[i].to = m => <<k, i>> \in Into(g, S, m)
  BY <1>1, IntoIs DEF Sound
<1>5. \A m : count(m) = 0 <=> Into(g, S, m) = {}
  BY <1>4, FS_EmptySet
<1>6. \A m : count(m) = 1 <=> \E p : Into(g, S, m) = {p}
  BY <1>4, FS_Singleton
<1> HIDE DEF count
<1>7. ASSUME F!IsTree(g, n)
      PROVE  Joined(g, n, S)
  <2>1. Into(g, S, n) = {}
    BY <1>1, <1>3, <1>5, <1>7
  <2>2. \A m \in S : m # n => \E p : Into(g, S, m) = {p}
    BY <1>3, <1>6, <1>7
  <2>3. \A k, i : IsEdge(g, S, k, i) => g[k].forward[i].to # n
    BY <2>1, <1>4
  <2>4. \A m \in S : m # n => \E k, i : IsEdge(g, S, k, i) /\ g[k].forward[i].to = m
    BY <2>2, <1>4
  <2>5. ASSUME NEW k, NEW i, NEW l, NEW j, IsEdge(g, S, k, i), IsEdge(g, S, l, j),
               g[k].forward[i].to = g[l].forward[j].to
        PROVE  k = l /\ i = j
    <3>1. PICK m \in S : g[k].forward[i].to = m
      BY <2>5, <1>2
    <3>2. <<k, i>> \in Into(g, S, m) /\ <<l, j>> \in Into(g, S, m)
      BY <3>1, <2>5, <1>4
    <3>3. <<k, i>> = <<l, j>>
      BY <3>1, <3>2, <2>1, <2>2
    <3> QED
      BY <3>3
  <2> QED
    BY <2>3, <2>4, <2>5 DEF Joined
<1>8. ASSUME Joined(g, n, S)
      PROVE  F!IsTree(g, n)
  <2>1. Into(g, S, n) = {}
    BY <1>4, <1>8 DEF Joined
  <2>2. ASSUME NEW m \in S, m # n
        PROVE  \E p : Into(g, S, m) = {p}
    <3>1. PICK k, i : IsEdge(g, S, k, i) /\ g[k].forward[i].to = m
      BY <2>2, <1>8 DEF Joined
    <3>2. <<k, i>> \in Into(g, S, m)
      BY <3>1, <1>4
    <3>3. ASSUME NEW p \in Into(g, S, m)
          PROVE  p = <<k, i>>
      <4>1. IsEdge(g, S, p[1], p[2]) /\ p = <<p[1], p[2]>> /\ g[p[1]].forward[p[2]].to = m
        BY <1>4
      <4>2. p[1] = k /\ p[2] = i
        BY <4>1, <3>1, <1>8 DEF Joined
      <4> QED
        BY <4>1, <4>2
    <3> QED
      BY <3>2, <3>3
  <2>3. \A m \in S : count(m) = IF m = n THEN 0 ELSE 1
    BY <2>1, <2>2, <1>5, <1>6
  <2> QED
    BY <2>3, <1>3
<1> QED
  BY <1>7, <1>8 DEF S

-----------------------------------------------------------------------------
(***************************************************************************)
(* The steps of the walk, whatever the handler does.                       *)
(***************************************************************************)
\* The client's graph stays as it is.
SameView == View' = View /\ Old' = Old

\* The edge that the walk has come to.
LEMMA NextEdge ==
  ASSUME Shape, Deque, ~ListDone
  PROVE  /\ node # NoNode /\ node \in visited /\ node \in Old /\ node \notin Members(seq)
         /\ idx \in 1..Len(Edges(node)) /\ idx \in Nat /\ Len(Edges(node)) \in Nat
         /\ graph[node].forward[idx] = Edges(node)[idx]
         /\ Edges(node)[idx] \in EdgeType
         /\ EndOf(node, idx) \in Old /\ EndOf(node, idx) \in F!Ends(View, node)
         /\ ~Handled(node, idx)
<1>1. node # NoNode /\ ~(idx > Len(graph[node].forward))
  BY DEF ListDone
<1>2. node \in visited /\ node \in Old /\ node \notin Members(seq)
  BY <1>1 DEF Deque
<1>3. /\ Edges(node) = graph[node].forward /\ Edges(node) \in Seq(EdgeType)
      /\ Len(Edges(node)) \in Nat /\ F!Ends(View, node) = F!Ends(graph, node)
  BY <1>2, ViewFacts
<1>4. idx \in 1..Len(Edges(node))
  BY <1>1, <1>3 DEF Deque
<1>5. graph[node].forward[idx] = Edges(node)[idx] /\ Edges(node)[idx] \in EdgeType
  BY <1>3, <1>4
<1>6. EndOf(node, idx) \in F!Ends(View, node)
  BY <1>4, EndsOf DEF Edges, EndOf
<1>7. EndOf(node, idx) \in Old
  BY <1>2, <1>3, <1>6 DEF Shape
<1>8. ~Handled(node, idx)
  BY <1>4 DEF Handled
<1> QED
  BY <1>1, <1>2, <1>3, <1>4, <1>5, <1>6, <1>7, <1>8

\* To take a node from the deque handles nothing.
LEMMA NextHandled ==
  ASSUME Shape, Deque, next_node
  PROVE  /\ Deque' /\ SameView
         /\ \A m, i : Handled(m, i)' <=> Handled(m, i)
         /\ \A m, i : EndOf(m, i)' = EndOf(m, i)
         /\ \A m \in visited : Count(m)' = Count(m)
<1>1. /\ ListDone /\ seq # <<>> /\ node' = Head(seq) /\ seq' = Tail(seq) /\ idx' = 1
      /\ graph' = graph /\ made' = made /\ visited' = visited /\ arg' = arg
  BY DEF next_node, own
<1>2. View' = View /\ Old' = Old
  BY <1>1 DEF View, Old
<1>3. \A m : Edges(m)' = Edges(m)
  BY <1>2 DEF Edges
<1>4. /\ Tail(seq) \in Seq(NodeIds) /\ NoRepeat(Tail(seq))
      /\ Head(seq) \in Members(seq) /\ Head(seq) \in NodeIds
      /\ Members(Tail(seq)) = Members(seq) \ {Head(seq)}
  BY <1>1, TailOfList DEF Deque
<1>5. \A m \in visited : Len(Edges(m)) \in Nat /\ Edges(m) = graph[m].forward
  BY ViewFacts DEF Deque
<1>6. node # NoNode => /\ node \in visited /\ node \notin Members(seq) /\ node # Head(seq)
                       /\ idx = Len(Edges(node)) + 1
  <2>1. node # NoNode => /\ node \in visited /\ idx > Len(Edges(node))
                         /\ idx \in 1..(Len(Edges(node)) + 1)
    BY <1>1, <1>5 DEF Deque, ListDone
  <2> QED
    BY <2>1, <1>4, <1>5 DEF Deque
<1>7. Head(seq) # NoNode
  BY <1>4, TreeAssumption
<1>8. Deque'
  <2>1. /\ Head(seq) \in visited
        /\ 1 \in 1..(Len(Edges(Head(seq))) + 1)
    BY <1>4, <1>5 DEF Deque
  <2>2. Edges(node)' = Edges(Head(seq))
    BY <1>1, <1>2 DEF Edges
  <2>3. node' \in visited' /\ node' \notin Members(seq') /\ idx' \in 1..(Len(Edges(node)') + 1)
    BY <2>1, <2>2, <1>1, <1>4
  <2> QED
    BY <2>3, <1>1, <1>2, <1>4, <1>7 DEF Deque
<1>9. ASSUME NEW m, NEW i
      PROVE  Handled(m, i)' <=> Handled(m, i)
  <2>1. CASE m = Head(seq)
    BY <2>1, <1>1, <1>4 DEF Handled
  <2>2. CASE m # Head(seq) /\ m = node /\ node # NoNode
    <3>1. i \in 1..Len(Edges(m)) => i < idx
      BY <2>2, <1>5, <1>6
    <3> QED
      BY <2>2, <3>1, <1>1, <1>3, <1>4 DEF Handled
  <2>3. CASE m # Head(seq) /\ ~(m = node /\ node # NoNode)
    <3>1. m \in visited /\ m \notin Members(seq) => m # node
      BY <2>3 DEF Deque
    <3> QED
      BY <2>3, <3>1, <1>1, <1>3, <1>4 DEF Handled
  <2> QED
    BY <2>1, <2>2, <2>3
<1>10. \A m, i : EndOf(m, i)' = EndOf(m, i)
  BY <1>3 DEF EndOf
<1>11. ASSUME NEW m \in visited
       PROVE  Count(m)' = Count(m)
  <2>1. CASE m = Head(seq)
    BY <2>1, <1>1, <1>4 DEF Count
  <2>2. CASE m # Head(seq) /\ m = node /\ node # NoNode
    <3>1. idx - 1 = Len(Edges(m))
      BY <2>2, <1>5, <1>6
    <3> QED
      BY <2>2, <3>1, <1>1, <1>3, <1>4, <1>6 DEF Count
  <2>3. CASE m # Head(seq) /\ ~(m = node /\ node # NoNode)
    <3>1. m \notin Members(seq) => m # node
      BY <2>3 DEF Deque
    <3> QED
      BY <2>3, <3>1, <1>1, <1>3, <1>4 DEF Count
  <2> QED
    BY <2>1, <2>2, <2>3
<1> QED
  BY <1>2, <1>8, <1>9, <1>10, <1>11 DEF SameView

\* To take an edge handles that edge.
LEMMA TakeHandled ==
  ASSUME Shape, Deque, ~ListDone, SameView, Take(Edges(node)[idx])
  PROVE  /\ Deque'
         /\ visited' = visited \cup {EndOf(node, idx)}
         /\ \A m, i : Handled(m, i)' <=> Handled(m, i) \/ (m = node /\ i = idx)
         /\ \A m, i : EndOf(m, i)' = EndOf(m, i)
         /\ \A m \in visited : Count(m)' = IF m = node THEN idx ELSE Count(m)
         /\ \A t : t = EndOf(node, idx) /\ t \notin visited => Count(t)' = 0
<1> DEFINE t == EndOf(node, idx)
<1>1. /\ visited' = visited \cup {t}
      /\ seq' = IF t \in visited THEN seq ELSE <<t>> \o seq
      /\ idx' = idx + 1 /\ node' = node /\ arg' = arg
  BY DEF Take, EndOf
<1>2. /\ node # NoNode /\ node \in visited /\ node \in Old /\ node \notin Members(seq)
      /\ idx \in 1..Len(Edges(node)) /\ idx \in Nat /\ Len(Edges(node)) \in Nat /\ t \in Old
  BY NextEdge
<1> HIDE DEF t
<1>3. \A m : Edges(m)' = Edges(m)
  BY DEF Edges, SameView
<1>4. t \in NodeIds /\ (t \notin visited => t \notin Members(seq))
  BY <1>2 DEF Old, Shape, Deque
<1>5. /\ seq' \in Seq(NodeIds) /\ NoRepeat(seq')
      /\ Members(seq') = IF t \in visited THEN Members(seq) ELSE Members(seq) \cup {t}
  <2>1. CASE t \in visited
    BY <2>1, <1>1 DEF Deque
  <2>2. CASE t \notin visited
    <3>1. seq \in Seq(NodeIds) /\ NoRepeat(seq) /\ t \notin Members(seq) /\ t \in NodeIds
      BY <2>2, <1>4 DEF Deque
    <3>2. /\ <<t>> \o seq \in Seq(NodeIds) /\ NoRepeat(<<t>> \o seq)
          /\ Members(<<t>> \o seq) = Members(seq) \cup {t}
      BY <3>1, PrependNew, Zenon
    <3> QED
      BY <2>2, <3>2, <1>1
  <2> QED
    BY <2>1, <2>2
<1>6. Deque'
  <2>1. node' \in visited' /\ node' \notin Members(seq') /\ node' # NoNode
    BY <1>1, <1>2, <1>4, <1>5
  <2>2. Len(Edges(node)') = Len(Edges(node)) /\ idx + 1 \in 1..(Len(Edges(node)) + 1)
    BY <1>1, <1>2 DEF Edges, SameView
  <2>3. idx' \in 1..(Len(Edges(node)') + 1)
    BY <2>2, <1>1
  <2>4. arg' \in visited' /\ visited' \subseteq Old' /\ Members(seq') \subseteq visited'
    BY <1>1, <1>2, <1>5 DEF Deque, SameView
  <2> QED
    BY <2>1, <2>3, <2>4, <1>5 DEF Deque
<1>7. ASSUME NEW m, NEW i
      PROVE  Handled(m, i)' <=> Handled(m, i) \/ (m = node /\ i = idx)
  <2>1. m \in visited' /\ m \notin Members(seq') <=> m \in visited /\ m \notin Members(seq)
    BY <1>1, <1>4, <1>5
  <2>2. CASE m = node
    <3>1. i \in 1..Len(Edges(m)) => (i < idx + 1 <=> i < idx \/ i = idx)
      BY <2>2, <1>2
    <3> QED
      BY <2>1, <2>2, <3>1, <1>1, <1>2, <1>3 DEF Handled
  <2>3. CASE m # node
    BY <2>1, <2>3, <1>1, <1>3 DEF Handled
  <2> QED
    BY <2>2, <2>3
<1>8. \A m, i : EndOf(m, i)' = EndOf(m, i)
  BY <1>3 DEF EndOf
<1>9. ASSUME NEW m \in visited
      PROVE  Count(m)' = IF m = node THEN idx ELSE Count(m)
  <2>1. m \in Members(seq') <=> m \in Members(seq)
    BY <1>5
  <2>2. idx' - 1 = idx
    BY <1>1, <1>2
  <2> QED
    BY <2>1, <2>2, <1>1, <1>2, <1>3 DEF Count
<1>10. \A m : m = t /\ t \notin visited => Count(m)' = 0
  BY <1>5 DEF Count
<1> QED
  BY <1>1, <1>6, <1>7, <1>8, <1>9, <1>10 DEF t

\* What was found stays found when a node is taken from the deque.
LEMMA NextKeeps ==
  ASSUME Shape, Deque, Swept, next_node
  PROVE  Swept' /\ (Once => Once') /\ (Copied => Copied')
<1>1. /\ View' = View /\ Old' = Old
      /\ \A m, i : Handled(m, i)' <=> Handled(m, i)
      /\ \A m, i : EndOf(m, i)' = EndOf(m, i)
      /\ \A m \in visited : Count(m)' = Count(m)
  BY NextHandled DEF SameView
<1>2. /\ graph' = graph /\ visited' = visited /\ map' = map /\ made' = made /\ arg' = arg
  BY DEF next_node, own
<1>3. Below' = Below
  BY <1>1, <1>2 DEF Below
<1>4. \A m : Edges(m)' = Edges(m)
  BY <1>1 DEF Edges
<1>5. Swept'
  BY <1>1, <1>2, <1>3 DEF Swept
<1>6. ASSUME Once
      PROVE  Once'
  BY <1>1, <1>2, <1>6 DEF Once
<1>7. ASSUME Copied
      PROVE  Copied'
  <2>1. F!IsTree(View, arg)' /\ (Cardinality(Below) <= Cardinality(NodeIds \ Old))'
    BY <1>1, <1>2, <1>3, <1>7 DEF Copied
  <2>2. Paired'
    BY <1>2, <1>7 DEF Copied, Paired
  <2>3. ASSUME NEW m \in visited
        PROVE  CopyOf(m)'
    <3>1. CopyOf(m)
      BY <1>7 DEF Copied
    <3> QED
      BY <3>1, <1>1, <1>2, <1>4 DEF CopyOf
  <2> QED
    BY <2>1, <2>2, <2>3, <1>2 DEF Copied
<1> QED
  BY <1>5, <1>6, <1>7

\* The other end of an edge is below the start, and was found through that edge.
LEMMA TakeKeeps ==
  ASSUME Shape, Deque, Swept, ~ListDone, SameView, Take(Edges(node)[idx])
  PROVE  Swept' /\ (Once /\ EndOf(node, idx) \notin visited => Once')
<1> DEFINE t == EndOf(node, idx)
<1>1. /\ visited' = visited \cup {t}
      /\ \A m, i : Handled(m, i)' <=> Handled(m, i) \/ (m = node /\ i = idx)
      /\ \A m, i : EndOf(m, i)' = EndOf(m, i)
  BY TakeHandled
<1>2. arg' = arg /\ arg \in visited /\ visited \subseteq Old
  BY DEF Take, Deque
<1>3. Below' = Below
  BY <1>2 DEF Below, SameView
<1>4. t \in F!Ends(View, node) /\ node \in visited
  BY NextEdge
<1>5. t \in Below
  <2>1. Closed(View, Below)
    BY <1>2, ViewFacts, ReachLeast DEF Below
  <2> QED
    BY <2>1, <1>4 DEF Swept, Closed
<1>6. t = EndOf(node, idx)
  OBVIOUS
<1> HIDE DEF t
<1>7. Swept'
  <2>1. visited' \subseteq Below'
    BY <1>1, <1>3, <1>5 DEF Swept
  <2>2. \A m, i : Handled(m, i)' => EndOf(m, i)' \in visited'
    BY <1>1, <1>6 DEF Swept
  <2>3. ASSUME NEW n \in visited', n # arg
        PROVE  \E m, i : Handled(m, i)' /\ EndOf(m, i)' = n
    BY <2>3, <1>1, <1>6 DEF Swept
  <2> QED
    BY <2>1, <2>2, <2>3, <1>2 DEF Swept
<1>8. ASSUME Once, t \notin visited
      PROVE  Once'
  <2>1. \A m, i : Handled(m, i) => EndOf(m, i) # t
    BY <1>8 DEF Swept
  <2>2. t # arg
    BY <1>2, <1>8
  <2>3. \A m, i : Handled(m, i)' => EndOf(m, i)' # arg'
    BY <2>2, <1>1, <1>2, <1>6, <1>8 DEF Once
  <2>4. ASSUME NEW m, NEW i, NEW k, NEW j, Handled(m, i)', Handled(k, j)',
               EndOf(k, j) = EndOf(m, i)
        PROVE  k = m /\ j = i
    BY <2>1, <2>4, <1>1, <1>6, <1>8 DEF Once
  <2> QED
    BY <2>3, <2>4, <1>1 DEF Once
<1> QED
  BY <1>6, <1>7, <1>8

\* When the deque is empty, what was found is what is below the start, and each
\* edge there was handled.
LEMMA WalkEnd ==
  ASSUME Shape, Deque, Swept, ListDone, seq = <<>>
  PROVE  /\ visited = Below
         /\ \A m, i : IsEdge(View, Below, m, i) <=> Handled(m, i)
         /\ \A m \in visited : Count(m) = Len(Edges(m))
<1>1. Members(seq) = {}
  BY DEF Members
<1>2. arg \in visited /\ visited \subseteq Old /\ node # NoNode
  BY <1>1 DEF Deque
<1>3. node \in visited /\ idx = Len(Edges(node)) + 1 /\ Len(Edges(node)) \in Nat
  BY <1>2, ViewFacts DEF Deque, ListDone
<1>4. \A m, i : Handled(m, i) <=> m \in visited /\ i \in 1..Len(Edges(m))
  BY <1>1, <1>3 DEF Handled
<1>5. Closed(View, visited)
  <2> SUFFICES ASSUME NEW m \in visited, NEW n \in F!Ends(View, m)
               PROVE  n \in visited
    BY DEF Closed
  <2>1. PICK i \in 1..Len(View[m].forward) : View[m].forward[i].to = n
    BY EndsOf
  <2>2. Handled(m, i) /\ EndOf(m, i) = n
    BY <2>1, <1>4 DEF Edges, EndOf
  <2> QED
    BY <2>2 DEF Swept
<1>6. Below \subseteq visited
  BY <1>2, <1>5, ViewFacts, ReachLeast DEF Below
<1>7. visited = Below
  BY <1>6 DEF Swept
<1>8. \A m \in visited : Count(m) = Len(Edges(m))
  BY <1>1, <1>3 DEF Count
<1> QED
  BY <1>4, <1>7, <1>8 DEF IsEdge, Edges

\* If no node was found twice until then, it is a tree.
LEMMA EndIsTree ==
  ASSUME Shape, Deque, Swept, Once, ListDone, seq = <<>>
  PROVE  F!IsTree(View, arg)
<1>1. /\ visited = Below
      /\ \A m, i : IsEdge(View, Below, m, i) <=> Handled(m, i)
  BY WalkEnd
<1>2. \A m, i : View[m].forward[i].to = EndOf(m, i)
  BY DEF EndOf, Edges
<1>3. Joined(View, arg, Below)
  <2>1. \A k, i : IsEdge(View, Below, k, i) => View[k].forward[i].to # arg
    BY <1>1, <1>2 DEF Once
  <2>2. \A m \in Below : m # arg => \E k, i : IsEdge(View, Below, k, i) /\ View[k].forward[i].to = m
    <3>1. \A m \in Below : m # arg => \E k, i : Handled(k, i) /\ EndOf(k, i) = m
      BY <1>1 DEF Swept
    <3> QED
      BY <3>1, <1>1, <1>2
  <2>3. ASSUME NEW k, NEW i, NEW l, NEW j, IsEdge(View, Below, k, i), IsEdge(View, Below, l, j),
               View[k].forward[i].to = View[l].forward[j].to
        PROVE  k = l /\ i = j
    <3>1. Handled(k, i) /\ Handled(l, j) /\ EndOf(k, i) = EndOf(l, j)
      BY <2>3, <1>1, <1>2
    <3> QED
      BY <3>1 DEF Once
  <2> QED
    BY <2>1, <2>2, <2>3 DEF Joined
<1>4. arg \in DOMAIN View
  BY ViewFacts DEF Deque
<1> QED
  BY <1>3, <1>4, ViewFacts, TreeMeans DEF Below

\* If a node is found again, it is none.
LEMMA AgainIsNoTree ==
  ASSUME Shape, Deque, Swept, ~ListDone, EndOf(node, idx) \in visited
  PROVE  ~F!IsTree(View, arg)
<1>1. SUFFICES ASSUME F!IsTree(View, arg) PROVE FALSE
  OBVIOUS
<1>2. arg \in DOMAIN View
  BY ViewFacts DEF Deque
<1>3. Joined(View, arg, Below)
  BY <1>1, <1>2, ViewFacts, TreeMeans DEF Below
<1>4. /\ node \in visited /\ idx \in 1..Len(Edges(node)) /\ ~Handled(node, idx)
  BY NextEdge
<1>5. IsEdge(View, Below, node, idx)
  BY <1>4 DEF IsEdge, Edges, Swept
<1>6. \A m, i : Handled(m, i) => IsEdge(View, Below, m, i)
  BY DEF Handled, IsEdge, Edges, Swept
<1>7. \A m, i : View[m].forward[i].to = EndOf(m, i)
  BY DEF EndOf, Edges
<1>8. EndOf(node, idx) # arg
  BY <1>3, <1>5, <1>7 DEF Joined
<1>9. PICK m, i : Handled(m, i) /\ EndOf(m, i) = EndOf(node, idx)
  BY <1>8 DEF Swept
<1>10. m = node /\ i = idx
  BY <1>3, <1>5, <1>6, <1>7, <1>9 DEF Joined
<1> QED
  BY <1>4, <1>9, <1>10

-----------------------------------------------------------------------------
(***************************************************************************)
(* The calls of a client keep the invariant, and do what Forest says.      *)
(***************************************************************************)
\* Between operations there is no copy, nothing to remove, and all is visible.
LEMMA IdleFacts ==
  ASSUME IInv, Idle
  PROVE  /\ made = {} /\ ~removing /\ to_remove = <<>> /\ Members(to_remove) = {}
         /\ View = graph /\ Old = DOMAIN graph /\ VisibleGraph = graph
         /\ \A n \in DOMAIN graph : F!Ends(graph, n) \subseteq DOMAIN graph
<1>1. Shape /\ made = {} /\ ~removing /\ to_remove = <<>>
  BY DEF IInv, Locals, Idle
<1>2. View = graph /\ Old = DOMAIN graph /\ VisibleGraph = View
  BY <1>1, ViewAlone, VisibleIsView
<1>3. Members(to_remove) = {}
  BY <1>1 DEF Members
<1> QED
  BY <1>1, <1>2, <1>3 DEF Shape

\* At the start there are no nodes.
LEMMA InitHolds == Init => IInv
<1> SUFFICES ASSUME Init PROVE IInv
  OBVIOUS
<1>1. DOMAIN graph = {} /\ graph = [n \in {} |-> n]
  BY DEF Init
<1>2. Shape
  BY <1>1 DEF Init, Shape, Old, IsGraph
<1>3. <<>> \in Seq(NodeIds) /\ Members(<<>>) = {} /\ NoRepeat(<<>>)
  BY EmptySeq DEF Members, NoRepeat
<1>4. Locals
  BY <1>1, <1>3 DEF Init, Locals
<1> QED
  BY <1>2, <1>4 DEF IInv, Init, Walking, Idle, IntegrityRight

\* A call that is over at once, and leaves the nodes that there are.
LEMMA QuietKeeps ==
  ASSUME IInv, Idle, Quiet, IsGraph(graph'),
         DOMAIN graph \subseteq DOMAIN graph', DOMAIN graph' \subseteq NodeIds,
         \A n \in DOMAIN graph' : F!Ends(graph', n) \subseteq DOMAIN graph',
         lost' \in BOOLEAN,
         (root' = root /\ lost' = lost) \/ root' \in DOMAIN graph'
  PROVE  IInv' /\ VisibleGraph' = graph'
<1>1. /\ made = {} /\ ~removing /\ to_remove = <<>> /\ Members(to_remove) = {}
      /\ Old = DOMAIN graph
  BY IdleFacts
<1>2. /\ op' = op /\ made' = made /\ removing' = removing /\ to_remove' = to_remove
      /\ verdict' = "none"
  BY DEF Quiet, own
<1>3. Old' = DOMAIN graph'
  BY <1>1, <1>2 DEF Old
<1>4. Shape'
  BY <1>1, <1>2, <1>3 DEF Shape
<1>5. root' = NoNode \/ lost' \/ root' \in Old'
  BY <1>1, <1>3 DEF IInv, Locals
<1>6. Locals'
  BY <1>1, <1>2, <1>5 DEF IInv, Locals
<1>7. VisibleGraph' = F!Without(graph', {})
  BY <1>1, <1>2 DEF VisibleGraph
<1>8. VisibleGraph' = graph'
  BY <1>7, WithoutNone
<1> QED
  BY <1>2, <1>4, <1>6, <1>8 DEF IInv, Walking, Idle, IntegrityRight

\* emplace_node adds a node that nothing leads to.
LEMMA EmplaceNode ==
  ASSUME IInv, emplace_node
  PROVE  IInv' /\ \E n \in NodeIds, d \in Data : Promise!AddNode(n, d)
<1>1. /\ Idle /\ Quiet /\ root' = root /\ lost' = lost
      /\ graph' = F!WithNode(graph, fresh, Given[fresh])
      /\ Cardinality(DOMAIN graph) < MaxBuilt
  BY DEF emplace_node
<1>2. /\ VisibleGraph = graph /\ IsGraph(graph) /\ DOMAIN graph \subseteq NodeIds
      /\ \A n \in DOMAIN graph : F!Ends(graph, n) \subseteq DOMAIN graph
      /\ lost \in BOOLEAN
  BY <1>1, IdleFacts DEF IInv, Shape, Locals
<1>3. NodeIds \ DOMAIN graph # {}
  <2>1. SUFFICES ASSUME NodeIds = DOMAIN graph PROVE FALSE
    BY <1>2
  <2>2. Cardinality(NodeIds) \in Nat /\ MaxBuilt \in 0..Cardinality(NodeIds)
    BY TreeAssumption, FS_CardinalityType
  <2> QED
    BY <2>1, <2>2, <1>1
<1>4. fresh \in NodeIds /\ fresh \notin DOMAIN graph /\ Given[fresh] \in Data
  BY <1>3, FreshIsFree, TreeAssumption
<1> DEFINE c == fresh
           d == Given[c]
<1>a. /\ graph' = F!WithNode(graph, c, d)
      /\ c \in NodeIds /\ c \notin DOMAIN graph /\ d \in Data
  BY <1>1, <1>4
<1> HIDE DEF c, d
<1>5. /\ DOMAIN graph' = DOMAIN graph \cup {c} /\ IsGraph(graph')
      /\ \A m \in DOMAIN graph : F!Ends(graph', m) = F!Ends(graph, m)
      /\ F!Ends(graph', c) = {}
  <2> DEFINE w == F!WithNode(graph, c, d)
  <2>1. /\ DOMAIN w = DOMAIN graph \cup {c} /\ IsGraph(w)
        /\ \A m \in DOMAIN graph : w[m] = graph[m]
        /\ F!Ends(w, c) = {}
    BY <1>a, <1>2, NodeAdded
  <2>2. graph' = w
    BY <1>a
  <2> HIDE DEF w
  <2>3. \A m \in DOMAIN graph : F!Ends(w, m) = F!Ends(graph, m)
    BY <2>1 DEF F!Ends
  <2> QED
    BY <2>1, <2>2, <2>3
<1>6. IInv' /\ VisibleGraph' = graph'
  <2>1. /\ DOMAIN graph \subseteq DOMAIN graph' /\ DOMAIN graph' \subseteq NodeIds
        /\ \A n \in DOMAIN graph' : F!Ends(graph', n) \subseteq DOMAIN graph'
    BY <1>2, <1>a, <1>5
  <2> QED
    BY <2>1, <1>1, <1>2, <1>5, QuietKeeps
<1>7. Promise!AddNode(c, d)
  BY <1>a, <1>2, <1>6 DEF Promise!AddNode, Promise!WithNode, F!WithNode
<1> QED
  BY <1>a, <1>6, <1>7

\* emplace_edge adds an edge between nodes that are there.
LEMMA EmplaceEdge ==
  ASSUME IInv, NEW s \in DOMAIN graph, NEW t \in DOMAIN graph, emplace_edge(s, t)
  PROVE  /\ IInv'
         /\ \E k, l \in DOMAIN VisibleGraph, label \in Labels : Promise!AddEdge(k, l, label)
<1> DEFINE label == Len(graph[s].forward)
<1>1. /\ Idle /\ Quiet /\ root' = root /\ lost' = lost
      /\ t \notin F!Ends(graph, s) /\ label \in Labels
      /\ graph' = F!WithEdge(graph, s, t, label)
  BY DEF emplace_edge
<1>2. /\ VisibleGraph = graph /\ IsGraph(graph) /\ DOMAIN graph \subseteq NodeIds
      /\ \A n \in DOMAIN graph : F!Ends(graph, n) \subseteq DOMAIN graph
      /\ lost \in BOOLEAN
  BY <1>1, IdleFacts DEF IInv, Shape, Locals
<1> HIDE DEF label
<1>3. /\ DOMAIN graph' = DOMAIN graph /\ IsGraph(graph')
      /\ \A m \in DOMAIN graph : m # s => F!Ends(graph', m) = F!Ends(graph, m)
      /\ F!Ends(graph', s) = F!Ends(graph, s) \cup {t}
  BY <1>1, <1>2, EdgeAdded
<1>4. IInv' /\ VisibleGraph' = graph'
  <2>1. \A n \in DOMAIN graph' : F!Ends(graph', n) \subseteq DOMAIN graph'
    BY <1>2, <1>3
  <2> QED
    BY <2>1, <1>1, <1>2, <1>3, QuietKeeps
<1>5. Promise!AddEdge(s, t, label)
  BY <1>1, <1>2, <1>4 DEF Promise!AddEdge, Promise!WithEdge, Promise!Ends, Promise!Edge,
                          F!WithEdge, F!Ends, F!Edge
<1> QED
  BY <1>1, <1>2, <1>4, <1>5

\* set_root changes no graph.
LEMMA SetRoot ==
  ASSUME IInv, NEW n \in DOMAIN graph, set_root(n)
  PROVE  IInv' /\ VisibleGraph' = VisibleGraph
<1>1. Idle /\ Quiet /\ graph' = graph /\ root' = n /\ lost' = FALSE
  BY DEF set_root
<1>2. /\ VisibleGraph = graph /\ IsGraph(graph) /\ DOMAIN graph \subseteq NodeIds
      /\ \A m \in DOMAIN graph : F!Ends(graph, m) \subseteq DOMAIN graph
  BY <1>1, IdleFacts DEF IInv, Shape
<1>3. IInv' /\ VisibleGraph' = graph'
  BY <1>1, <1>2, QuietKeeps
<1> QED
  BY <1>1, <1>2, <1>3

\* What a node that is found leads to is below it: the start of a walk.
LEMMA StartIsBelow ==
  Shape => \A n \in Old : n \in F!Reach(View, n) /\ F!Reach(View, n) \subseteq Old
BY ViewFacts, ReachLeast

\* In the next state.
LEMMA StartIsBelowNext ==
  Shape' => (\A n \in Old : n \in F!Reach(View, n) /\ F!Reach(View, n) \subseteq Old)'
BY StartIsBelow, PTL

\* A walk begins with its start in the deque.
LEMMA StartWalk ==
  ASSUME Shape', NEW n \in Old', arg' = n, visited' = {n}, seq' = <<n>>, node' = NoNode
  PROVE  Deque' /\ Swept' /\ Once' /\ \A m : m = n => Count(m)' = 0
<1>1. n \in NodeIds
  BY DEF Shape, Old
<1>2. <<n>> \in Seq(NodeIds) /\ NoRepeat(<<n>>) /\ Members(<<n>>) = {n}
  BY <1>1 DEF NoRepeat, Members
<1>3. Shape' => \A m \in Old' : m \in F!Reach(View', m) /\ F!Reach(View', m) \subseteq Old'
  BY StartIsBelowNext
<1>4. Deque'
  BY <1>2 DEF Deque
<1>5. \A m, i : ~Handled(m, i)'
  BY <1>2 DEF Handled
<1>6. Swept' /\ Once'
  BY <1>3, <1>5 DEF Swept, Once, Below
<1>7. \A m : m = n => Count(m)' = 0
  BY <1>2 DEF Count
<1> QED
  BY <1>4, <1>6, <1>7

\* erase_subtree and assert_integrity begin, in the graph as it is.
LEMMA StartSame ==
  ASSUME IInv, NEW name \in {"erase", "check"}, NEW n \in DOMAIN graph, Start(name, n),
         graph' = graph, UNCHANGED own, name = "check" => n = root
  PROVE  IInv' /\ VisibleGraph' = VisibleGraph
<1>1. /\ Idle /\ op' = name /\ arg' = n /\ visited' = {n} /\ seq' = <<n>> /\ node' = NoNode
      /\ verdict' = "none" /\ root' = root /\ lost' = lost
  BY DEF Start
<1>2. /\ made = {} /\ ~removing /\ to_remove = <<>> /\ Members(to_remove) = {}
      /\ Old = DOMAIN graph
  BY <1>1, IdleFacts
<1>3. to_remove' = to_remove /\ removing' = removing /\ made' = made
  BY DEF own
<1>4. Shape' /\ Old' = Old /\ VisibleGraph' = VisibleGraph
  BY <1>3 DEF IInv, Shape, Old, VisibleGraph
<1>5. Deque' /\ Swept' /\ Once'
  BY <1>1, <1>2, <1>4, StartWalk
<1>6. Locals'
  BY <1>1, <1>2, <1>3, <1>4 DEF IInv, Locals
<1>7. InWalk'
  BY <1>1, <1>2, <1>3, <1>5 DEF InWalk
<1> QED
  BY <1>1, <1>4, <1>6, <1>7 DEF IInv, IntegrityRight

\* duplicate_subtree begins with a copy of its argument that nobody sees.
LEMMA StartCopy ==
  ASSUME IInv, NEW n \in DOMAIN graph, duplicate_subtree(n)
  PROVE  IInv' /\ VisibleGraph' = VisibleGraph
<1>1. /\ Idle /\ op' = "copy" /\ arg' = n /\ visited' = {n} /\ seq' = <<n>> /\ node' = NoNode
      /\ verdict' = "none" /\ root' = root /\ lost' = lost
      /\ to_remove' = to_remove /\ removing' = removing
      /\ F!IsTree(graph, n)
      /\ Cardinality(F!Reach(graph, n)) <= Cardinality(NodeIds \ DOMAIN graph)
      /\ graph' = F!WithNode(graph, fresh, graph[n].data)
      /\ map' = [m \in {n} |-> fresh] /\ made' = {fresh}
  BY DEF duplicate_subtree, Start
<1>2. /\ made = {} /\ ~removing /\ to_remove = <<>> /\ Members(to_remove) = {}
      /\ View = graph /\ Old = DOMAIN graph /\ VisibleGraph = graph
      /\ \A m \in DOMAIN graph : F!Ends(graph, m) \subseteq DOMAIN graph
  BY <1>1, IdleFacts
<1>3. Shape /\ Locals /\ IsGraph(graph) /\ DOMAIN graph \subseteq NodeIds
  BY DEF IInv, Shape
<1>4. NodeIds \ DOMAIN graph # {}
  <2>1. SUFFICES ASSUME NodeIds \ DOMAIN graph = {} PROVE FALSE
    OBVIOUS
  <2>2. Sound(graph) /\ n \in F!Reach(graph, n) /\ F!Reach(graph, n) \subseteq DOMAIN graph
    BY <1>2, <1>3, ViewFacts, ReachLeast
  <2>3. IsFiniteSet(F!Reach(graph, n)) /\ Cardinality(NodeIds \ DOMAIN graph) = 0
    BY <2>1, <2>2, FS_Subset, FS_EmptySet DEF Sound
  <2>4. Cardinality(F!Reach(graph, n)) \in Nat
    BY <2>3, FS_CardinalityType
  <2>5. Cardinality(F!Reach(graph, n)) = 0
    BY <2>3, <2>4, <1>1
  <2> QED
    BY <2>2, <2>3, <2>5, FS_EmptySet
<1>5. fresh \in NodeIds /\ fresh \notin DOMAIN graph
  BY <1>4, FreshIsFree
<1> DEFINE c == fresh
           d == graph[n].data
<1>6. /\ graph' = F!WithNode(graph, c, d)
      /\ c \in NodeIds /\ c \notin DOMAIN graph /\ made' = {c} /\ map' = [m \in {n} |-> c]
  BY <1>1, <1>5
<1>7. d \in Data /\ d = graph[n].data
  BY <1>3 DEF IsGraph, NodeType
<1> HIDE DEF c, d
<1>8. /\ DOMAIN graph' = DOMAIN graph \cup {c} /\ IsGraph(graph')
      /\ graph'[c] = [data |-> d, forward |-> <<>>]
      /\ \A m \in DOMAIN graph : graph'[m] = graph[m] /\ F!Ends(graph', m) = F!Ends(graph, m)
      /\ F!Ends(graph', c) = {}
  <2> DEFINE w == F!WithNode(graph, c, d)
  <2>1. /\ DOMAIN w = DOMAIN graph \cup {c} /\ IsGraph(w)
        /\ w[c] = [data |-> d, forward |-> <<>>]
        /\ \A m \in DOMAIN graph : w[m] = graph[m]
        /\ F!Ends(w, c) = {}
    BY <1>3, <1>6, <1>7, NodeAdded
  <2>2. graph' = w
    BY <1>6
  <2> HIDE DEF w
  <2>3. \A m \in DOMAIN graph : F!Ends(w, m) = F!Ends(graph, m)
    BY <2>1 DEF F!Ends
  <2> QED
    BY <2>1, <2>2, <2>3
<1>10. Old' = Old /\ View' = View
  <2>1. Old' = Old
    BY <1>2, <1>8, <1>6 DEF Old
  <2>2. \A m \in Old : graph'[m] = graph[m]
    BY <1>2, <1>8
  <2> QED
    BY <2>1, <2>2 DEF View
<1>11. Shape'
  BY <1>2, <1>3, <1>8, <1>6, <1>10 DEF Shape
<1>12. Locals'
  BY <1>1, <1>2, <1>3, <1>10 DEF Locals
<1>13. Deque' /\ Swept' /\ Once' /\ \A m : m = n => Count(m)' = 0
  BY <1>1, <1>2, <1>10, <1>11, StartWalk
<1>14. Copied'
  <2>1. F!IsTree(View, arg)' /\ (Cardinality(Below) <= Cardinality(NodeIds \ Old))'
    BY <1>1, <1>2, <1>10 DEF Below
  <2>2. Paired'
    BY <1>1, <1>6 DEF Paired
  <2>3. CopyOf(n)'
    <3>1. graph'[map'[n]].data = View'[n].data
      BY <1>2, <1>6, <1>7, <1>8, <1>10
    <3>2. Len(graph'[map'[n]].forward) = 0 /\ Count(n)' = 0
      BY <1>8, <1>6, <1>13
    <3> QED
      BY <3>1, <3>2 DEF CopyOf
  <2> QED
    BY <2>1, <2>2, <2>3, <1>1 DEF Copied
<1>15. InWalk'
  BY <1>1, <1>13, <1>14 DEF InWalk
<1>16. VisibleGraph' = VisibleGraph
  <2>1. Shape /\ ~removing => VisibleGraph = View
    BY VisibleIsView
  <2>2. Shape' /\ ~removing' => VisibleGraph' = View'
    BY VisibleInWalkNext
  <2> QED
    BY <2>1, <2>2, <1>1, <1>2, <1>3, <1>10, <1>11
<1> QED
  BY <1>1, <1>11, <1>12, <1>15, <1>16 DEF IInv, IntegrityRight

-----------------------------------------------------------------------------
(***************************************************************************)
(* The steps of a walk keep the invariant, and a client sees none of them. *)
(***************************************************************************)
\* What holds at each step of a walk.
LEMMA WalkFacts ==
  ASSUME IInv, Walking
  PROVE  /\ Shape /\ Locals /\ Deque /\ Swept /\ InWalk /\ ~removing /\ verdict = "none"
         /\ op \in {"erase", "copy", "check"} /\ arg \in Old
  BY DEF IInv, InWalk, Locals, Walking, Idle, Deque

\* next_node moves the deque only.
LEMMA NextNode ==
  ASSUME IInv, next_node
  PROVE  IInv' /\ VisibleGraph' = VisibleGraph
<1>1. /\ Walking /\ graph' = graph /\ root' = root /\ op' = op /\ arg' = arg
      /\ visited' = visited /\ to_remove' = to_remove /\ removing' = removing /\ map' = map
      /\ made' = made /\ verdict' = verdict /\ lost' = lost
  BY DEF next_node, own
<1>2. /\ Shape /\ Locals /\ Deque /\ Swept /\ InWalk /\ ~removing /\ verdict = "none"
  BY <1>1, WalkFacts
<1>3. Deque' /\ Swept' /\ (Once => Once') /\ (Copied => Copied')
  BY <1>2, NextHandled, NextKeeps
<1>4. Shape' /\ Old' = Old /\ VisibleGraph' = VisibleGraph
  BY <1>1, <1>2 DEF Shape, Old, VisibleGraph
<1>5. Locals'
  BY <1>1, <1>2, <1>4 DEF Locals
<1>6. InWalk'
  BY <1>1, <1>2, <1>3 DEF InWalk
<1> QED
  BY <1>1, <1>2, <1>4, <1>5, <1>6 DEF IInv, IntegrityRight

\* collect notes what is new.
LEMMA Collect ==
  ASSUME IInv, collect
  PROVE  IInv' /\ VisibleGraph' = VisibleGraph
<1> DEFINE t == EndOf(node, idx)
<1>1. Walking /\ ~ListDone /\ op = "erase"
  BY DEF collect
<1>2. /\ Shape /\ Locals /\ Deque /\ Swept /\ InWalk /\ ~removing /\ verdict = "none"
  BY <1>1, WalkFacts
<1>3. /\ graph[node].forward[idx] = Edges(node)[idx] /\ t \in Old
  BY <1>1, <1>2, NextEdge
<1>4. /\ Take(Edges(node)[idx]) /\ graph' = graph /\ map' = map /\ made' = made
      /\ verdict' = verdict
      /\ to_remove' = IF t \in visited THEN to_remove ELSE Append(to_remove, t)
  BY <1>3 DEF collect, EndOf
<1>5. /\ root' = root /\ op' = op /\ arg' = arg /\ removing' = removing /\ lost' = lost
  BY <1>4 DEF Take
<1>6. Shape' /\ Old' = Old /\ View' = View /\ VisibleGraph' = VisibleGraph
  BY <1>2, <1>4, <1>5 DEF Shape, Old, View, VisibleGraph
<1>7. Deque' /\ Swept' /\ visited' = visited \cup {t}
  BY <1>1, <1>2, <1>4, <1>6, TakeHandled, TakeKeeps DEF SameView
<1> HIDE DEF t
<1>8. Members(to_remove) = visited \ {arg} /\ arg \in visited
  BY <1>1, <1>2 DEF InWalk, Deque
<1>9. to_remove \in Seq(NodeIds) /\ NoRepeat(to_remove) /\ t \in NodeIds /\ t \in DOMAIN graph
  BY <1>2, <1>3 DEF Locals, Old, Shape
<1>10. /\ to_remove' \in Seq(NodeIds) /\ NoRepeat(to_remove')
       /\ Members(to_remove') = visited' \ {arg'} /\ Members(to_remove') \subseteq DOMAIN graph'
  <2>1. CASE t \in visited
    BY <2>1, <1>2, <1>4, <1>5, <1>7, <1>8, <1>9 DEF Locals
  <2>2. CASE t \notin visited
    <3>1. t \notin Members(to_remove) /\ t # arg
      BY <2>2, <1>8
    <3>2. LET l == Append(to_remove, t)
          IN  l \in Seq(NodeIds) /\ NoRepeat(l) /\ Members(l) = Members(to_remove) \cup {t}
      BY <3>1, <1>9, AppendNew
    <3>3. to_remove' = Append(to_remove, t)
      BY <2>2, <1>4
    <3>4. to_remove' \in Seq(NodeIds) /\ NoRepeat(to_remove')
          /\ Members(to_remove') = Members(to_remove) \cup {t}
      BY <3>2, <3>3
    <3> QED
      BY <3>1, <3>4, <1>2, <1>4, <1>5, <1>7, <1>8, <1>9 DEF Locals
  <2> QED
    BY <2>1, <2>2
<1>11. Locals'
  BY <1>1, <1>2, <1>4, <1>5, <1>6, <1>10 DEF Locals
<1>12. InWalk'
  BY <1>1, <1>5, <1>7, <1>10 DEF InWalk
<1> QED
  BY <1>2, <1>4, <1>6, <1>11, <1>12 DEF IInv, IntegrityRight

\* An operation that returns, or throws, and leaves what is visible.
LEMMA ReturnKeeps ==
  ASSUME IInv, op # "none", Return, graph' = graph, lost' = lost,
         root' = root \/ (root' = NoNode),
         (verdict' # "none") => (verdict' = "ok") = F!IsTree(graph, root) /\ root' = root
  PROVE  IInv' /\ VisibleGraph' = graph
<1>1. /\ op' = "none" /\ made' = {} /\ removing' = FALSE /\ to_remove' = <<>>
  BY DEF Return
<1>2. Old' = DOMAIN graph /\ Old \subseteq DOMAIN graph
  BY <1>1 DEF Old
<1>3. Shape'
  BY <1>1, <1>2 DEF IInv, Shape
<1>4. <<>> \in Seq(NodeIds) /\ Members(<<>>) = {} /\ NoRepeat(<<>>)
  BY EmptySeq DEF Members, NoRepeat
<1>5. Locals'
  BY <1>1, <1>2, <1>4 DEF IInv, Locals
<1>6. IntegrityRight'
  BY DEF IntegrityRight
<1>7. VisibleGraph' = F!Without(graph, {})
  BY <1>1 DEF VisibleGraph
<1>8. VisibleGraph' = graph
  BY <1>7, WithoutNone DEF IInv, Shape
<1> QED
  BY <1>1, <1>3, <1>5, <1>6, <1>8 DEF IInv, Walking, Idle

\* check_edge throws exactly when a node is found again.
LEMMA CheckEdge ==
  ASSUME IInv, check_edge
  PROVE  IInv' /\ VisibleGraph' = VisibleGraph
<1> DEFINE t == EndOf(node, idx)
<1>1. Walking /\ ~ListDone /\ op = "check"
  BY DEF check_edge
<1>2. /\ Shape /\ Locals /\ Deque /\ Swept /\ InWalk /\ ~removing /\ verdict = "none"
      /\ made = {} /\ arg = root /\ Once
  BY <1>1, WalkFacts DEF Locals, InWalk
<1>3. View = graph /\ VisibleGraph = View
  BY <1>2, ViewAlone, VisibleIsView
<1>4. graph[node].forward[idx] = Edges(node)[idx]
  BY <1>1, <1>2, NextEdge
<1>5. IF t \in visited THEN Throw
      ELSE Take(Edges(node)[idx]) /\ UNCHANGED <<graph, to_remove, map, made, verdict>>
  BY <1>4 DEF check_edge, EndOf
<1>6. CASE t \in visited
  <2>1. Return /\ verdict' = "throws" /\ graph' = graph /\ root' = root /\ lost' = lost
    BY <1>5, <1>6 DEF Throw
  <2>2. ~F!IsTree(graph, root)
    BY <1>1, <1>2, <1>3, <1>6, AgainIsNoTree
  <2>3. (verdict' = "ok") = F!IsTree(graph, root)
    BY <2>1, <2>2 DEF F!IsTree
  <2>4. IInv' /\ VisibleGraph' = graph
    BY <2>1, <2>3, <1>1, ReturnKeeps
  <2> QED
    BY <2>4, <1>3
<1>7. CASE t \notin visited
  <2>1. /\ Take(Edges(node)[idx]) /\ graph' = graph /\ map' = map /\ made' = made
        /\ verdict' = verdict /\ to_remove' = to_remove
    BY <1>5, <1>7
  <2>2. /\ root' = root /\ op' = op /\ arg' = arg /\ removing' = removing /\ lost' = lost
    BY <2>1 DEF Take
  <2>3. Shape' /\ Old' = Old /\ View' = View /\ VisibleGraph' = VisibleGraph
    BY <1>2, <2>1, <2>2 DEF Shape, Old, View, VisibleGraph
  <2>4. Deque' /\ Swept' /\ Once'
    BY <1>1, <1>2, <1>7, <2>1, <2>3, TakeHandled, TakeKeeps DEF SameView
  <2>5. Locals'
    BY <1>2, <2>1, <2>2, <2>3 DEF Locals
  <2>6. InWalk'
    BY <1>1, <1>2, <2>2, <2>4 DEF InWalk
  <2> QED
    BY <1>2, <2>1, <2>3, <2>5, <2>6 DEF IInv, IntegrityRight
<1> QED
  BY <1>6, <1>7

\* As many edges of a node were handled as Count says, the first ones.
LEMMA CountHandled ==
  ASSUME Shape, Deque
  PROVE  \A m \in visited : Count(m) \in Nat /\ \A i \in 1..Count(m) : Handled(m, i)
<1> SUFFICES ASSUME NEW m \in visited
             PROVE  Count(m) \in Nat /\ \A i \in 1..Count(m) : Handled(m, i)
  OBVIOUS
<1>1. Len(Edges(m)) \in Nat /\ m \in NodeIds /\ m # NoNode
  BY ViewFacts, TreeAssumption DEF Deque, Old, Shape
<1>2. CASE m \in Members(seq)
  BY <1>2 DEF Count
<1>3. CASE m \notin Members(seq) /\ m = node
  <2>1. idx \in 1..(Len(Edges(m)) + 1)
    BY <1>1, <1>3 DEF Deque
  <2>2. Count(m) = idx - 1
    BY <1>3 DEF Count
  <2>3. Count(m) \in Nat /\ \A i \in 1..Count(m) : i \in 1..Len(Edges(m)) /\ i < idx
    BY <1>1, <2>1, <2>2
  <2> QED
    BY <1>3, <2>3 DEF Handled
<1>4. CASE m \notin Members(seq) /\ m # node
  BY <1>1, <1>4 DEF Count, Handled
<1> QED
  BY <1>2, <1>3, <1>4

\* There is room for the copy of a node that was not found before.
LEMMA RoomForCopy ==
  ASSUME Shape, Deque, Swept, Copied, NEW t \in Below, t \notin visited
  PROVE  NodeIds \ DOMAIN graph # {}
<1>1. SUFFICES ASSUME NodeIds \ DOMAIN graph = {} PROVE FALSE
  OBVIOUS
<1>2. NodeIds \ Old = made
  BY <1>1 DEF Shape, Old
<1>3. IsFiniteSet(Below) /\ visited \cup {t} \subseteq Below
  <2>1. Below \subseteq DOMAIN View /\ IsFiniteSet(DOMAIN View)
    BY ViewFacts, ReachLeast DEF Deque, Below, Sound
  <2> QED
    BY <2>1, FS_Subset DEF Swept
<1>4. IsFiniteSet(visited) /\ Cardinality(visited \cup {t}) = Cardinality(visited) + 1
  BY <1>3, FS_Subset, FS_AddElement
<1>5. map \in Bijection(visited, made)
  BY DEF Copied, Paired, Bijection, Injection, Surjection, IsInjective
<1>6. Cardinality(made) = Cardinality(visited)
  <2>1. ExistsBijection(visited, made)
    BY <1>5 DEF ExistsBijection
  <2> QED
    BY <2>1, <1>4, FS_Bijection
<1>7. Cardinality(visited \cup {t}) <= Cardinality(Below)
  BY <1>3, FS_Subset
<1>8. Cardinality(Below) <= Cardinality(visited)
  BY <1>2, <1>6 DEF Copied
<1>9. Cardinality(visited) \in Nat /\ Cardinality(Below) \in Nat
  BY <1>3, <1>4, FS_CardinalityType
<1> QED
  BY <1>4, <1>7, <1>8, <1>9

\* copy_edge adds the copy of a node and joins it to the copy of the node before.
LEMMA CopyEdge ==
  ASSUME IInv, copy_edge
  PROVE  IInv' /\ VisibleGraph' = VisibleGraph
<1> DEFINE t == EndOf(node, idx)
           label == Edges(node)[idx].label
           c == fresh
           s == map[node]
           d == graph[t].data
           w == F!WithNode(graph, c, d)
<1>1. Walking /\ ~ListDone /\ op = "copy"
  BY DEF copy_edge
<1>2. /\ Shape /\ Locals /\ Deque /\ Swept /\ InWalk /\ ~removing /\ verdict = "none"
      /\ Once /\ Copied /\ to_remove = <<>>
  BY <1>1, WalkFacts DEF InWalk, Locals
<1>3. /\ graph[node].forward[idx] = Edges(node)[idx] /\ t \in Old /\ label \in Labels
      /\ t \in F!Ends(View, node) /\ node \in visited /\ node \notin Members(seq)
      /\ idx \in 1..Len(Edges(node)) /\ idx \in Nat
  BY <1>1, <1>2, NextEdge DEF EdgeType, EndOf
<1>4. t \notin visited
  BY <1>1, <1>2, AgainIsNoTree DEF Copied
<1>5. /\ map \in [visited -> made] /\ s \in made /\ s \in DOMAIN graph
      /\ \A m, n \in visited : map[m] = map[n] => m = n
      /\ \A b \in made : \E m \in visited : map[m] = b
  BY <1>2, <1>3 DEF Copied, Paired, Shape
<1>6. t \in Below
  <2>1. Closed(View, Below)
    BY <1>2, ViewFacts, ReachLeast DEF Below, Deque
  <2> QED
    BY <2>1, <1>2, <1>3 DEF Swept, Closed
<1>7. c \in NodeIds /\ c \notin DOMAIN graph
  BY <1>2, <1>4, <1>6, RoomForCopy, FreshIsFree
<1>8. /\ Take(Edges(node)[idx]) /\ to_remove' = to_remove /\ verdict' = verdict
      /\ map' = [m \in visited \cup {t} |-> IF m \in visited THEN map[m] ELSE c]
      /\ graph' = F!WithEdge(w, s, map'[t], label)
      /\ made' = made \cup {c}
  BY <1>3, <1>5 DEF copy_edge, EndOf
<1>9. map'[t] = c /\ \A m \in visited : map'[m] = map[m]
  BY <1>4, <1>8
<1>10. d \in Data /\ d = View[t].data
  BY <1>2, <1>3, ViewFacts DEF Old, Shape, IsGraph, NodeType
<1>11. root' = root /\ op' = op /\ arg' = arg /\ removing' = removing /\ lost' = lost
  BY <1>8 DEF Take
<1>12. graph' = F!WithEdge(w, s, c, label)
  BY <1>8, <1>9
<1>13. t = EndOf(node, idx) /\ label = Edges(node)[idx].label
  OBVIOUS
<1> HIDE DEF t, label, c, s, d
<1>14. /\ DOMAIN w = DOMAIN graph \cup {c} /\ IsGraph(w)
       /\ w[c] = [data |-> d, forward |-> <<>>]
       /\ \A m \in DOMAIN graph : w[m] = graph[m]
       /\ F!Ends(w, c) = {}
  BY <1>2, <1>7, <1>10, NodeAdded DEF Shape
<1> HIDE DEF w
<1>15. \A m \in DOMAIN graph : F!Ends(w, m) = F!Ends(graph, m)
  BY <1>14 DEF F!Ends
<1>16. /\ DOMAIN graph' = DOMAIN graph \cup {c} /\ IsGraph(graph')
       /\ graph'[s].data = graph[s].data
       /\ graph'[s].forward = Append(graph[s].forward, F!Edge(c, label))
       /\ \A m \in DOMAIN w : m # s => graph'[m] = w[m] /\ F!Ends(graph', m) = F!Ends(w, m)
       /\ F!Ends(graph', s) = F!Ends(graph, s) \cup {c}
  <2> DEFINE g == F!WithEdge(w, s, c, label)
  <2>1. s \in DOMAIN w /\ w[s] = graph[s] /\ F!Ends(w, s) = F!Ends(graph, s)
    BY <1>5, <1>14, <1>15
  <2>2. /\ DOMAIN g = DOMAIN w /\ IsGraph(g)
        /\ g[s].data = w[s].data
        /\ g[s].forward = Append(w[s].forward, F!Edge(c, label))
        /\ \A m \in DOMAIN w : m # s => g[m] = w[m] /\ F!Ends(g, m) = F!Ends(w, m)
        /\ F!Ends(g, s) = F!Ends(w, s) \cup {c}
    BY <2>1, <1>3, <1>7, <1>14, EdgeAdded
  <2>3. graph' = g
    BY <1>12
  <2> HIDE DEF g
  <2> QED
    BY <2>1, <2>2, <2>3, <1>14
<1>17. s # c
  BY <1>5, <1>7
<1>18. graph'[c] = [data |-> d, forward |-> <<>>] /\ F!Ends(graph', c) = {}
  BY <1>14, <1>16, <1>17
<1>19. \A m \in DOMAIN graph : m # s => graph'[m] = graph[m] /\ F!Ends(graph', m) = F!Ends(graph, m)
  BY <1>14, <1>15, <1>16
<1>20. Old' = Old /\ View' = View
  <2>1. Old' = Old
    BY <1>7, <1>8, <1>16 DEF Old
  <2>2. \A m \in Old : m # s /\ graph'[m] = graph[m]
    BY <1>5, <1>19 DEF Old
  <2> QED
    BY <2>1, <2>2 DEF View
<1>21. Shape'
  <2>1. DOMAIN graph' \subseteq NodeIds /\ made' \subseteq DOMAIN graph'
    BY <1>2, <1>7, <1>8, <1>16 DEF Shape
  <2>2. \A m \in DOMAIN graph' : F!Ends(graph', m) \subseteq DOMAIN graph'
    BY <1>2, <1>16, <1>18, <1>19 DEF Shape
  <2>3. \A m \in Old : m # s /\ m \in DOMAIN graph
    BY <1>5 DEF Old
  <2>4. \A m \in Old : F!Ends(graph', m) \subseteq Old
    BY <2>3, <1>2, <1>19 DEF Shape
  <2> QED
    BY <2>1, <2>2, <2>4, <1>16, <1>20 DEF Shape
<1>22. Locals'
  BY <1>1, <1>2, <1>8, <1>11, <1>16, <1>20 DEF Locals
<1>23. /\ Deque' /\ Swept' /\ Once'
       /\ visited' = visited \cup {t}
       /\ \A m, i : EndOf(m, i)' = EndOf(m, i)
       /\ \A m \in visited : Count(m)' = IF m = node THEN idx ELSE Count(m)
       /\ \A m : m = t => Count(m)' = 0
  BY <1>1, <1>2, <1>4, <1>8, <1>13, <1>20, TakeHandled, TakeKeeps DEF SameView
<1>24. Paired'
  <2>1. map' \in [visited' -> made']
    BY <1>5, <1>8, <1>23
  <2>2. \A m \in visited : map'[m] # map'[t]
    BY <1>5, <1>7, <1>9, <1>2 DEF Shape
  <2>3. \A m, n \in visited' : map'[m] = map'[n] => m = n
    BY <2>2, <1>5, <1>9, <1>23
  <2>4. \A b \in made' : \E m \in visited' : map'[m] = b
    BY <1>5, <1>8, <1>9, <1>23
  <2> QED
    BY <2>1, <2>3, <2>4 DEF Paired
<1>25. ASSUME NEW m \in visited
       PROVE  /\ CopyOf(m) /\ Count(m) \in Nat
              /\ \A i \in 1..Count(m) : EndOf(m, i) \in visited
  BY <1>2, CountHandled DEF Copied, Swept
<1>26. Edges(node)' = Edges(node) /\ \A m : Edges(m)' = Edges(m)
  <2>1. node' = node
    BY <1>8 DEF Take
  <2> QED
    BY <2>1, <1>20 DEF Edges
<1>27. ASSUME NEW m \in visited'
       PROVE  CopyOf(m)'
  <2>1. CASE m = t
    <3>1. map'[m] = c /\ Count(m)' = 0
      BY <2>1, <1>9, <1>23
    <3>2. Len(graph'[c].forward) = 0 /\ graph'[c].data = View'[m].data
      BY <2>1, <1>10, <1>18, <1>20
    <3> QED
      BY <3>1, <3>2 DEF CopyOf
  <2>2. CASE m = node
    <3>1. Count(node) = idx - 1 /\ Count(m)' = idx
      BY <2>2, <1>3, <1>23 DEF Count
    <3>2. /\ graph[s].data = View[m].data
          /\ Len(graph[s].forward) = idx - 1
          /\ \A i \in 1..(idx - 1) : graph[s].forward[i] = F!Edge(map[EndOf(m, i)], Edges(m)[i].label)
      BY <2>2, <3>1, <1>3, <1>25 DEF CopyOf, s
    <3>3. graph[s].forward \in Seq(EdgeType) /\ F!Edge(c, label) \in EdgeType
      BY <1>2, <1>3, <1>5, <1>7 DEF Shape, IsGraph, NodeType, EdgeType, F!Edge
    <3>4. /\ Len(graph'[s].forward) = idx
          /\ graph'[s].forward[idx] = F!Edge(c, label)
          /\ \A i \in 1..(idx - 1) : graph'[s].forward[i] = graph[s].forward[i]
      <4>1. LET l == Append(graph[s].forward, F!Edge(c, label))
            IN  /\ Len(l) = Len(graph[s].forward) + 1
                /\ \A i \in 1..Len(graph[s].forward) : l[i] = graph[s].forward[i]
                /\ l[Len(graph[s].forward) + 1] = F!Edge(c, label)
        BY <3>3, AppendProperties
      <4> QED
        BY <4>1, <3>2, <1>3, <1>16
    <3>5. \A i \in 1..(idx - 1) : EndOf(m, i) \in visited
      BY <2>2, <3>1, <1>3, <1>25
    <3>6. \A i \in 1..idx : i \in 1..(idx - 1) \/ i = idx
      BY <1>3
    <3>7. \A i \in 1..idx : graph'[s].forward[i] = F!Edge(map'[EndOf(m, i)], Edges(m)[i].label)
      BY <2>2, <3>2, <3>4, <3>5, <3>6, <1>9, <1>13
    <3>8. map'[m] = s
      BY <2>2, <1>3, <1>9 DEF s
    <3> QED
      BY <3>1, <3>2, <3>4, <3>7, <3>8, <1>16, <1>20, <1>23, <1>26 DEF CopyOf
  <2>3. CASE m \in visited /\ m # node
    <3>1. map'[m] = map[m] /\ map[m] \in DOMAIN graph /\ map[m] # s
      BY <2>3, <1>2, <1>3, <1>5, <1>9 DEF s, Shape
    <3>2. graph'[map[m]] = graph[map[m]]
      BY <3>1, <1>19
    <3>3. Count(m)' = Count(m)
      BY <2>3, <1>23
    <3>4. CopyOf(m) /\ \A i \in 1..Count(m) : map'[EndOf(m, i)] = map[EndOf(m, i)]
      BY <2>3, <1>9, <1>25
    <3> QED
      BY <3>1, <3>2, <3>3, <3>4, <1>20, <1>23, <1>26 DEF CopyOf
  <2> QED
    BY <2>1, <2>2, <2>3, <1>23
<1>28. Copied'
  <2>1. F!IsTree(View, arg)' /\ (Cardinality(Below) <= Cardinality(NodeIds \ Old))'
    BY <1>2, <1>11, <1>20 DEF Copied, Below
  <2> QED
    BY <2>1, <1>24, <1>27 DEF Copied
<1>29. InWalk'
  BY <1>1, <1>11, <1>23, <1>28 DEF InWalk
<1>30. VisibleGraph' = VisibleGraph
  BY <1>2, <1>11, <1>20, <1>21, VisibleIsView, VisibleInWalkNext
<1> QED
  BY <1>2, <1>8, <1>21, <1>22, <1>29, <1>30 DEF IInv, IntegrityRight

-----------------------------------------------------------------------------
(***************************************************************************)
(* The refinement mapping uses Forest's operators for another graph.       *)
(***************************************************************************)
\* They are the same operators.
LEMMA SameOperators ==
  ASSUME NEW g, NEW n, NEW S
  PROVE  /\ Promise!Reach(g, n) = F!Reach(g, n)
         /\ Promise!IsTree(g, n) = F!IsTree(g, n)
         /\ Promise!Without(g, S) = F!Without(g, S)
         /\ Promise!WithCopies(g, S) = F!WithCopies(g, S)
<1>1. \A h, m : Promise!Ends(h, m) = F!Ends(h, m)
  BY DEF Promise!Ends, F!Ends
<1>2. \A T : Promise!Cardinality(T) = F!Cardinality(T)
  BY DEF Promise!Cardinality, F!Cardinality
<1>3. \A h, m : Promise!Reach(h, m) = F!Reach(h, m)
  BY <1>2 DEF Promise!Reach, F!Reach, Promise!Ends, F!Ends, Promise!Cardinality, F!Cardinality
<1>4. Promise!IsTree(g, n) = F!IsTree(g, n)
  BY <1>3, <1>2 DEF Promise!IsTree, F!IsTree
<1>5. Promise!Without(g, S) = F!Without(g, S)
  BY DEF Promise!Without, F!Without, Promise!Outside, F!Outside
<1>6. Promise!WithCopies(g, S) = F!WithCopies(g, S)
  BY DEF Promise!WithCopies, F!WithCopies, Promise!Edge, F!Edge
<1> QED
  BY <1>3, <1>4, <1>5, <1>6

-----------------------------------------------------------------------------
(***************************************************************************)
(* The ends of the operations.                                             *)
(***************************************************************************)
\* What holds when a walk is over.
LEMMA DoneFacts ==
  ASSUME IInv, WalkDone
  PROVE  /\ Shape /\ Locals /\ Deque /\ Swept /\ InWalk /\ ~removing /\ verdict = "none"
         /\ ListDone /\ seq = <<>>
         /\ visited = Below /\ arg \in visited /\ visited \subseteq Old
         /\ VisibleGraph = View
<1>1. /\ Shape /\ Locals /\ Deque /\ Swept /\ InWalk /\ ~removing /\ verdict = "none"
      /\ ListDone /\ seq = <<>>
  BY WalkFacts DEF WalkDone
<1>2. visited = Below /\ arg \in visited /\ visited \subseteq Old
  BY <1>1, WalkEnd DEF Deque
<1> QED
  BY <1>1, <1>2, VisibleIsView

\* When the walk of duplicate_subtree is over, the copy is what Forest says.
LEMMA CopyIsDone ==
  ASSUME IInv, WalkDone, op = "copy"
  PROVE  /\ map \in [F!Reach(View, arg) -> DOMAIN graph \ DOMAIN View]
         /\ F!Injective(map) /\ graph = F!WithCopies(View, map)
<1>1. /\ Shape /\ Deque /\ Swept /\ Copied /\ ListDone /\ seq = <<>>
      /\ visited = Below /\ visited \subseteq Old
  BY DoneFacts DEF InWalk
<1>2. /\ DOMAIN View = Old /\ made = DOMAIN graph \ Old /\ DOMAIN graph = Old \cup made
      /\ \A n \in Old : View[n] = graph[n]
  BY <1>1, ViewFacts DEF Shape, Old
<1>3. /\ map \in [visited -> made]
      /\ \A m, n \in visited : map[m] = map[n] => m = n
      /\ \A c \in made : \E m \in visited : map[m] = c
  BY <1>1 DEF Copied, Paired
<1>4. DOMAIN map = visited
  BY <1>3
<1> DEFINE copy(m) == [data |-> View[m].data,
                       forward |-> [i \in 1..Len(View[m].forward) |->
                                      F!Edge(map[View[m].forward[i].to], View[m].forward[i].label)]]
           origin(n) == CHOOSE m \in DOMAIN map : map[m] = n
<1>5. ASSUME NEW m \in visited
      PROVE  graph[map[m]] = copy(m)
  <2> DEFINE k == graph[map[m]].forward
  <2>1. map[m] \in DOMAIN graph /\ graph[map[m]] \in NodeType /\ k \in Seq(EdgeType)
    BY <1>2, <1>3, <1>1 DEF Shape, IsGraph, NodeType
  <2>2. CopyOf(m) /\ Count(m) = Len(Edges(m))
    BY <1>1, WalkEnd DEF Copied
  <2>3. /\ graph[map[m]].data = View[m].data
        /\ Len(k) = Len(View[m].forward)
        /\ \A i \in 1..Len(k) :
             k[i] = F!Edge(map[View[m].forward[i].to], View[m].forward[i].label)
    BY <2>2 DEF CopyOf, Edges, EndOf
  <2>4. k = [i \in 1..Len(k) |-> k[i]]
    BY <2>1
  <2>5. \A x \in NodeType : x = [data |-> x.data, forward |-> x.forward]
    BY DEF NodeType
  <2>6. graph[map[m]] = [data |-> graph[map[m]].data, forward |-> k]
    BY <2>1, <2>5
  <2> HIDE DEF k
  <2>7. k = [i \in 1..Len(View[m].forward) |->
               F!Edge(map[View[m].forward[i].to], View[m].forward[i].label)]
    BY <2>3, <2>4
  <2> QED
    BY <2>3, <2>6, <2>7
<1>6. ASSUME NEW n \in made
      PROVE  origin(n) \in visited /\ map[origin(n)] = n
  <2>1. \E m \in DOMAIN map : map[m] = n
    BY <1>3, <1>4
  <2> QED
    BY <2>1, <1>4
<1>7. {map[m] : m \in DOMAIN map} = made
  BY <1>3, <1>4
<1>8. F!WithCopies(View, map) =
        [n \in DOMAIN View \cup {map[m] : m \in DOMAIN map} |->
           IF n \in DOMAIN View THEN View[n] ELSE copy(origin(n))]
  BY DEF F!WithCopies
<1> HIDE DEF copy, origin
<1>9. \A n \in DOMAIN graph : graph[n] = IF n \in DOMAIN View THEN View[n] ELSE copy(origin(n))
  <2>1. ASSUME NEW n \in made
        PROVE  graph[n] = copy(origin(n))
    BY <1>5, <1>6
  <2> QED
    BY <2>1, <1>2
<1>10. graph = [n \in DOMAIN graph |-> graph[n]]
  BY <1>1 DEF Shape, IsGraph
<1>11. graph = [n \in DOMAIN graph |->
                  IF n \in DOMAIN View THEN View[n] ELSE copy(origin(n))]
  BY <1>9, <1>10
<1>12. graph = F!WithCopies(View, map)
  BY <1>2, <1>7, <1>8, <1>11
<1>13. map \in [F!Reach(View, arg) -> DOMAIN graph \ DOMAIN View]
  BY <1>1, <1>2, <1>3 DEF Below
<1>14. F!Injective(map)
  BY <1>3, <1>4 DEF F!Injective
<1> QED
  BY <1>12, <1>13, <1>14

\* return shows the copy of a tree, or gives the right verdict.
LEMMA Returned ==
  ASSUME IInv, return
  PROVE  /\ IInv'
         /\ \/ VisibleGraph' = VisibleGraph
            \/ \E n \in DOMAIN VisibleGraph : Promise!CopySubtree(n)
<1>1. /\ WalkDone /\ op # "erase" /\ Return /\ graph' = graph /\ root' = root /\ lost' = lost
      /\ verdict' = IF op = "check" THEN "ok" ELSE verdict
  BY DEF return
<1>2. /\ Shape /\ Locals /\ Deque /\ Swept /\ InWalk /\ verdict = "none"
      /\ ListDone /\ seq = <<>> /\ VisibleGraph = View /\ arg \in Old
      /\ op \in {"copy", "check"}
  BY <1>1, DoneFacts, WalkFacts DEF WalkDone
<1>3. CASE op = "check"
  <2>1. made = {} /\ arg = root /\ Once /\ View = graph
    BY <1>2, <1>3, ViewAlone DEF Locals, InWalk
  <2>2. F!IsTree(graph, root)
    BY <2>1, <1>2, EndIsTree
  <2>3. (verdict' = "ok") = F!IsTree(graph, root)
    BY <2>2, <1>1, <1>3 DEF F!IsTree
  <2> QED
    BY <2>1, <2>3, <1>1, <1>2, <1>3, ReturnKeeps
<1>4. CASE op = "copy"
  <2>1. IInv' /\ VisibleGraph' = graph
    BY <1>1, <1>2, <1>4, ReturnKeeps
  <2>2. /\ map \in [F!Reach(View, arg) -> DOMAIN graph \ DOMAIN View]
        /\ F!Injective(map) /\ graph = F!WithCopies(View, map)
    BY <1>1, <1>4, CopyIsDone
  <2>3. F!IsTree(View, arg)
    BY <1>2, <1>4 DEF InWalk, Copied
  <2>4. Promise!Injective(map)
    BY <2>2 DEF Promise!Injective, F!Injective
  <2>5. /\ map \in [Promise!Reach(View, arg) -> DOMAIN graph \ DOMAIN View]
        /\ graph = Promise!WithCopies(View, map) /\ Promise!IsTree(View, arg)
    BY <2>2, <2>3, SameOperators
  <2>6. Promise!CopySubtree(arg)
    BY <2>1, <2>4, <2>5, <1>2 DEF Promise!CopySubtree
  <2>7. arg \in DOMAIN VisibleGraph
    BY <1>2, ViewFacts
  <2> QED
    BY <2>1, <2>6, <2>7
<1> QED
  BY <1>2, <1>3, <1>4

\* start_removing makes all that is below the argument disappear at once.
LEMMA StartRemoving ==
  ASSUME IInv, start_removing
  PROVE  IInv' /\ \E n \in DOMAIN VisibleGraph : Promise!EraseSubtree(n)
<1>1. /\ WalkDone /\ op = "erase" /\ removing' = TRUE /\ to_remove' = Append(to_remove, arg)
      /\ lost' = (lost \/ root \in visited) /\ graph' = graph /\ root' = root /\ op' = op
      /\ arg' = arg /\ visited' = visited /\ made' = made /\ verdict' = verdict
  BY DEF start_removing, walk
<1>2. /\ Shape /\ Locals /\ InWalk /\ verdict = "none" /\ VisibleGraph = View
      /\ visited = Below /\ arg \in visited /\ visited \subseteq Old
  BY <1>1, DoneFacts
<1>3. made = {} /\ View = graph /\ Old = DOMAIN graph
  BY <1>1, <1>2, ViewAlone DEF Locals
<1>4. Members(to_remove) = visited \ {arg}
  BY <1>1, <1>2 DEF InWalk
<1>5. /\ Append(to_remove, arg) \in Seq(NodeIds) /\ NoRepeat(Append(to_remove, arg))
      /\ Members(Append(to_remove, arg)) = visited
  <2>1. /\ to_remove \in Seq(NodeIds) /\ NoRepeat(to_remove) /\ arg \notin Members(to_remove)
        /\ arg \in NodeIds
    BY <1>2, <1>3, <1>4 DEF Locals, Shape
  <2>2. /\ Append(to_remove, arg) \in Seq(NodeIds) /\ NoRepeat(Append(to_remove, arg))
        /\ Members(Append(to_remove, arg)) = Members(to_remove) \cup {arg}
    BY <2>1, AppendNew
  <2> QED
    BY <2>2, <1>2, <1>4
<1>6. /\ to_remove' \in Seq(NodeIds) /\ NoRepeat(to_remove') /\ Members(to_remove') = visited
  BY <1>1, <1>5
<1>7. Shape' /\ Old' = Old
  BY <1>1, <1>2 DEF Shape, Old
<1>8. Locals'
  BY <1>1, <1>2, <1>3, <1>6, <1>7 DEF Locals
<1>9. IInv'
  BY <1>1, <1>2, <1>7, <1>8 DEF IInv, Walking, IntegrityRight
<1>10. VisibleGraph' = F!Without(graph, visited)
  BY <1>1, <1>6 DEF VisibleGraph, Members
<1>11. VisibleGraph' = Promise!Without(VisibleGraph, Promise!Reach(VisibleGraph, arg))
  BY <1>2, <1>3, <1>10, SameOperators DEF Below
<1>12. Promise!EraseSubtree(arg) /\ arg \in DOMAIN VisibleGraph
  BY <1>2, <1>3, <1>11 DEF Promise!EraseSubtree
<1> QED
  BY <1>9, <1>12

\* Nothing that the invariant speaks of changes.
LEMMA SameState ==
  ASSUME IInv, UNCHANGED <<graph, root, op, arg, walk, own, verdict, lost>>
  PROVE  IInv' /\ VisibleGraph' = VisibleGraph
<1>1. /\ graph' = graph /\ root' = root /\ op' = op /\ arg' = arg /\ visited' = visited
      /\ seq' = seq /\ node' = node /\ idx' = idx /\ to_remove' = to_remove
      /\ removing' = removing /\ map' = map /\ made' = made /\ verdict' = verdict
      /\ lost' = lost
  BY DEF walk, own
<1>2. Old' = Old /\ View' = View /\ VisibleGraph' = VisibleGraph
  BY <1>1 DEF Old, View, VisibleGraph
<1>3. Shape' = Shape /\ Locals' = Locals /\ IntegrityRight' = IntegrityRight
  BY <1>1, <1>2 DEF Shape, Locals, IntegrityRight
<1>4. \A m : Edges(m)' = Edges(m)
  BY <1>2 DEF Edges
<1>5. /\ \A m, i : Handled(m, i)' <=> Handled(m, i)
      /\ \A m, i : EndOf(m, i)' = EndOf(m, i)
      /\ \A m : Count(m)' = Count(m)
  BY <1>1, <1>4 DEF Handled, EndOf, Count
<1>6. Below' = Below
  BY <1>1, <1>2 DEF Below
<1>7. Deque => Deque'
  <2>1. Edges(node)' = Edges(node)
    BY <1>1, <1>2 DEF Edges
  <2> QED
    BY <2>1, <1>1, <1>2 DEF Deque
<1>8. (Swept => Swept') /\ (Once => Once')
  BY <1>1, <1>5, <1>6 DEF Swept, Once
<1>9. ASSUME NEW m, CopyOf(m)
      PROVE  CopyOf(m)'
  BY <1>1, <1>2, <1>4, <1>5, <1>9 DEF CopyOf
<1>10. Paired => Paired'
  BY <1>1 DEF Paired
<1>11. Copied => Copied'
  BY <1>1, <1>2, <1>6, <1>9, <1>10 DEF Copied
<1>12. InWalk => InWalk'
  BY <1>1, <1>7, <1>8, <1>11 DEF InWalk
<1> QED
  BY <1>1, <1>2, <1>3, <1>12 DEF IInv, Walking, Idle

\* remove_next removes a node that is no longer visible, or is stuck.
LEMMA RemoveNext ==
  ASSUME IInv, remove_next
  PROVE  IInv' /\ VisibleGraph' = VisibleGraph
<1> DEFINE h == Head(to_remove)
           rest == Tail(to_remove)
<1>a. /\ removing /\ to_remove # <<>>
      /\ UNCHANGED <<root, op, arg, walk, removing, map, made, verdict, lost>>
      /\ \/ graph' = F!Without(graph, {h}) /\ to_remove' = rest
         \/ UNCHANGED <<graph, to_remove>>
  BY DEF remove_next
<1>b. CASE UNCHANGED <<graph, to_remove>>
  <2>1. UNCHANGED <<graph, root, op, arg, walk, own, verdict, lost>>
    BY <1>a, <1>b DEF own
  <2> QED
    BY <2>1, SameState
<1>c. SUFFICES ASSUME graph' = F!Without(graph, {h}), to_remove' = rest
              PROVE  IInv' /\ VisibleGraph' = VisibleGraph
  BY <1>a, <1>b
<1>1. /\ removing /\ to_remove # <<>> /\ graph' = F!Without(graph, {h}) /\ to_remove' = rest
      /\ root' = root /\ op' = op /\ removing' = removing /\ made' = made
      /\ verdict' = verdict /\ lost' = lost
  BY <1>a, <1>c
<1>2. Shape /\ Locals /\ made = {} /\ op = "erase" /\ verdict = "none" /\ Old = DOMAIN graph
  BY <1>1, ViewAlone DEF IInv, Locals
<1>3. /\ rest \in Seq(NodeIds) /\ NoRepeat(rest) /\ h \in Members(to_remove)
      /\ Members(rest) = Members(to_remove) \ {h}
  BY <1>1, <1>2, TailOfList DEF Locals
<1> HIDE DEF h, rest
<1>4. /\ DOMAIN graph' = DOMAIN graph \ {h} /\ IsGraph(graph')
      /\ \A n \in DOMAIN graph \ {h} : F!Ends(graph', n) \subseteq F!Ends(graph, n) \ {h}
  <2> DEFINE w == F!Without(graph, {h})
  <2>1. /\ DOMAIN w = DOMAIN graph \ {h} /\ IsGraph(w)
        /\ \A n \in DOMAIN graph \ {h} : F!Ends(w, n) \subseteq F!Ends(graph, n) \ {h}
    BY <1>2, WithoutNode DEF Shape
  <2>2. graph' = w
    BY <1>1
  <2> HIDE DEF w
  <2> QED
    BY <2>1, <2>2
<1>5. Old' = DOMAIN graph'
  BY <1>1, <1>2 DEF Old
<1>6. Shape'
  BY <1>1, <1>2, <1>4, <1>5 DEF Shape
<1>7. ~lost => root = NoNode \/ root \in DOMAIN graph'
  BY <1>1, <1>2, <1>3, <1>4 DEF Locals
<1>8. Locals'
  BY <1>1, <1>2, <1>3, <1>4, <1>5, <1>7 DEF Locals
<1>9. IInv'
  BY <1>1, <1>2, <1>6, <1>8 DEF IInv, Walking, IntegrityRight
<1>10. VisibleGraph = F!Without(graph, Members(to_remove))
  BY <1>1 DEF VisibleGraph, Members
<1>11. VisibleGraph' = F!Without(graph', Members(rest))
  BY <1>1 DEF VisibleGraph, Members
<1>12. F!Without(F!Without(graph, {h}), Members(rest)) = F!Without(graph, {h} \cup Members(rest))
  BY <1>2, WithoutTwice DEF Shape
<1>13. {h} \cup Members(rest) = Members(to_remove)
  BY <1>3
<1> QED
  BY <1>1, <1>9, <1>10, <1>11, <1>12, <1>13

\* erased forgets the root only when there are no nodes left.
LEMMA Erased ==
  ASSUME IInv, erased
  PROVE  IInv' /\ VisibleGraph' = VisibleGraph
<1>1. /\ removing /\ to_remove = <<>> /\ Return /\ graph' = graph /\ verdict' = verdict
      /\ lost' = lost /\ (root' = root \/ root' = NoNode)
  BY DEF erased
<1>2. Shape /\ op = "erase" /\ verdict = "none"
  BY <1>1 DEF IInv, Locals
<1>3. IInv' /\ VisibleGraph' = graph
  BY <1>1, <1>2, ReturnKeeps
<1>4. Members(to_remove) = {}
  BY <1>1 DEF Members
<1>5. VisibleGraph = F!Without(graph, {})
  BY <1>1, <1>4 DEF VisibleGraph, Members
<1>6. VisibleGraph = graph
  BY <1>2, <1>5, WithoutNone DEF Shape
<1> QED
  BY <1>3, <1>6

-----------------------------------------------------------------------------
(***************************************************************************)
(* The theorems.                                                           *)
(***************************************************************************)
\* Every step keeps the invariant; what a client sees changes as Forest allows.
LEMMA StepHolds ==
  ASSUME IInv, [Next]_vars
  PROVE  IInv' /\ (Promise!Next \/ VisibleGraph' = VisibleGraph)
<1>1. CASE emplace_node
  BY <1>1, EmplaceNode DEF Promise!Next
<1>2. ASSUME NEW s \in DOMAIN graph, NEW t \in DOMAIN graph, emplace_edge(s, t)
      PROVE  IInv' /\ Promise!Next
  BY <1>2, EmplaceEdge DEF Promise!Next
<1>3. ASSUME NEW n \in DOMAIN graph, set_root(n)
      PROVE  IInv' /\ VisibleGraph' = VisibleGraph
  BY <1>3, SetRoot
<1>4. ASSUME NEW n \in DOMAIN graph, erase_subtree(n)
      PROVE  IInv' /\ VisibleGraph' = VisibleGraph
  <2>1. Start("erase", n) /\ graph' = graph /\ UNCHANGED own
    BY <1>4 DEF erase_subtree
  <2> QED
    BY <2>1, StartSame
<1>5. ASSUME NEW n \in DOMAIN graph, duplicate_subtree(n)
      PROVE  IInv' /\ VisibleGraph' = VisibleGraph
  BY <1>5, StartCopy
<1>6. CASE assert_integrity
  <2>1. root # NoNode /\ ~lost /\ Start("check", root) /\ graph' = graph /\ UNCHANGED own
    BY <1>6 DEF assert_integrity
  <2>2. root \in DOMAIN graph
    BY <2>1 DEF IInv, Locals, Old
  <2> QED
    BY <2>1, <2>2, StartSame
<1>7. CASE next_node
  BY <1>7, NextNode
<1>8. CASE collect
  BY <1>8, Collect
<1>9. CASE copy_edge
  BY <1>9, CopyEdge
<1>10. CASE check_edge
  BY <1>10, CheckEdge
<1>11. CASE return
  <2>1. /\ IInv'
        /\ \/ VisibleGraph' = VisibleGraph
           \/ \E n \in DOMAIN VisibleGraph : Promise!CopySubtree(n)
    BY <1>11, Returned
  <2> QED
    BY <2>1 DEF Promise!Next
<1>12. CASE start_removing
  <2>1. IInv' /\ \E n \in DOMAIN VisibleGraph : Promise!EraseSubtree(n)
    BY <1>12, StartRemoving
  <2> QED
    BY <2>1 DEF Promise!Next
<1>13. CASE remove_next
  BY <1>13, RemoveNext
<1>14. CASE erased
  BY <1>14, Erased
<1>15. CASE UNCHANGED vars
  <2>1. UNCHANGED <<graph, root, op, arg, walk, own, verdict, lost>>
    BY <1>15 DEF vars
  <2> QED
    BY <2>1, SameState
<1> QED
  BY <1>1, <1>2, <1>3, <1>4, <1>5, <1>6, <1>7, <1>8, <1>9, <1>10, <1>11, <1>12, <1>13,
     <1>14, <1>15 DEF Next, Client, Step

\* A step, or none, preserves the invariant.
LEMMA NextHolds == IInv /\ [Next]_vars => IInv'
BY StepHolds

\* It is a step of the promise, or none, on what a client sees.
LEMMA NextRefines == IInv /\ [Next]_vars => [Promise!Next]_VisibleGraph
BY StepHolds

\* IInv holds in every reachable state.
THEOREM Invariant == Spec => []IInv
BY InitHolds, NextHolds, PTL DEF Spec

-----------------------------------------------------------------------------
(***************************************************************************)
(* What the erasure of a node with an edge to itself is kept from.         *)
(***************************************************************************)
\* Nothing undefined has happened, and no node that an erasure is about to remove
\* has an edge to itself, unless a client may erase such nodes.
LoopFree ==
  /\ ub \in BOOLEAN
  /\ ~LoopsErased =>
       /\ ~ub
       /\ op = "erase" /\ ~removing => \A m \in Below : ~Looped(m)
       /\ removing => \A m \in Members(to_remove) : ~Looped(m)

\* A call or a return, after which no erasure is in progress.
LEMMA NoErasure ==
  ASSUME LoopFree, ub' = ub, op' # "erase", ~removing'
  PROVE  LoopFree'
BY DEF LoopFree

\* A step of a walk that leaves the graph alone.
LEMMA WalkStaysLoopFree ==
  ASSUME LoopFree, ub' = ub, op' = op, removing' = removing, removing => to_remove' = to_remove,
         graph' = graph, made' = made, arg' = arg
  PROVE  LoopFree'
<1>1. Below' = Below
  BY DEF Below, View, Old
<1>2. \A m : Looped(m)' = Looped(m)
  BY DEF Looped
<1> QED
  BY <1>1, <1>2 DEF LoopFree

\* remove_next finds its node, without an edge to itself, and removing it gives no
\* node an edge.
LEMMA RemoveStaysLoopFree ==
  ASSUME IInv, LoopFree, remove_next
  PROVE  LoopFree'
<1> DEFINE h == Head(to_remove)
<1>1. /\ removing /\ to_remove # <<>> /\ ~ub /\ op' = op /\ removing' = removing
      /\ IF h \in DOMAIN graph /\ ~Looped(h)
           THEN graph' = F!Without(graph, {h}) /\ to_remove' = Tail(to_remove) /\ ub' = ub
           ELSE ub' = TRUE
  BY DEF remove_next
<1>2. Shape /\ Locals
  BY DEF IInv
<1>3. CASE LoopsErased
  BY <1>1, <1>3 DEF LoopFree
<1>4. CASE ~LoopsErased
  <2>1. /\ h \in Members(to_remove) /\ Members(Tail(to_remove)) = Members(to_remove) \ {h}
        /\ Members(to_remove) \subseteq DOMAIN graph
    BY <1>1, <1>2, TailOfList DEF Locals
  <2>2. \A m \in Members(to_remove) : m \notin F!Ends(graph, m)
    BY <1>1, <1>4 DEF LoopFree, Looped
  <2> HIDE DEF h
  <2>3. graph' = F!Without(graph, {h}) /\ to_remove' = Tail(to_remove) /\ ub' = ub
    BY <1>1, <2>1, <2>2 DEF Looped
  <2>4. \A m \in DOMAIN graph \ {h} : F!Ends(F!Without(graph, {h}), m) \subseteq F!Ends(graph, m)
    BY <1>2, WithoutNode DEF Shape
  <2>5. \A m \in Members(Tail(to_remove)) : m \notin F!Ends(graph', m)
    BY <2>1, <2>2, <2>3, <2>4
  <2>6. \A m \in Members(to_remove)' : ~Looped(m)'
    <3>1. Members(to_remove)' = Members(Tail(to_remove))
      BY <2>3 DEF Members
    <3> QED
      BY <3>1, <2>5 DEF Looped
  <2> QED
    BY <1>1, <2>3, <2>6 DEF LoopFree
<1> QED
  BY <1>3, <1>4

\* start_removing is left with the nodes that the walk has found.
LEMMA CollectedIsLoopFree ==
  ASSUME IInv, LoopFree, start_removing
  PROVE  LoopFree'
<1>1. /\ WalkDone /\ op = "erase" /\ removing' = TRUE /\ to_remove' = Append(to_remove, arg)
      /\ graph' = graph /\ ub' = ub
  BY DEF start_removing
<1>2. /\ Locals /\ InWalk /\ Shape /\ visited = Below /\ arg \in visited /\ visited \subseteq Old
      /\ ~removing
  BY <1>1, DoneFacts
<1>3. Members(to_remove) = visited \ {arg} /\ arg \in NodeIds /\ to_remove \in Seq(NodeIds)
      /\ NoRepeat(to_remove)
  BY <1>1, <1>2 DEF InWalk, Shape, Old, Locals
<1>4. Members(Append(to_remove, arg)) = Below
  BY <1>2, <1>3, AppendNew
<1>5. Members(to_remove)' = Below
  BY <1>1, <1>4 DEF Members
<1>6. \A m : Looped(m)' = Looped(m)
  BY <1>1 DEF Looped
<1> QED
  BY <1>1, <1>2, <1>5, <1>6 DEF LoopFree

\* erase_subtree begins where its guard holds.
LEMMA EraseStartsLoopFree ==
  ASSUME IInv, LoopFree, NEW n \in DOMAIN graph, erase_subtree(n)
  PROVE  LoopFree'
<1>1. /\ LoopsErased \/ \A m \in F!Reach(graph, n) : ~Looped(m)
      /\ Idle /\ arg' = n /\ graph' = graph /\ ub' = ub
      /\ removing' = removing /\ made' = made
  BY DEF erase_subtree, Start, own
<1>2. made = {} /\ ~removing /\ View = graph
  BY <1>1, IdleFacts
<1>3. Below' = F!Reach(graph, n)
  <2>1. View' = View
    BY <1>1 DEF View, Old
  <2> QED
    BY <2>1, <1>1, <1>2 DEF Below
<1>4. \A m : Looped(m)' = Looped(m)
  BY <1>1 DEF Looped
<1> QED
  BY <1>1, <1>2, <1>3, <1>4 DEF LoopFree

\* Every step keeps it.
LEMMA LoopFreeHolds == IInv /\ LoopFree /\ [Next]_vars => LoopFree'
<1> SUFFICES ASSUME IInv, LoopFree, [Next]_vars PROVE LoopFree'
  OBVIOUS
<1>1. op # "erase" => ~removing
  BY DEF IInv, Locals
<1>2. ASSUME Idle, Quiet
      PROVE  LoopFree'
  <2>1. ub' = ub /\ op' = op /\ removing' = removing /\ op = "none"
    BY <1>2 DEF Quiet, own, Idle
  <2> QED
    BY <2>1, <1>1, NoErasure
<1>3. CASE emplace_node
  BY <1>2, <1>3 DEF emplace_node
<1>4. ASSUME NEW s \in DOMAIN graph, NEW t \in DOMAIN graph, emplace_edge(s, t)
      PROVE  LoopFree'
  BY <1>2, <1>4 DEF emplace_edge
<1>5. ASSUME NEW n \in DOMAIN graph, set_root(n)
      PROVE  LoopFree'
  BY <1>2, <1>5 DEF set_root
<1>6. ASSUME NEW n \in DOMAIN graph, erase_subtree(n)
      PROVE  LoopFree'
  BY <1>6, EraseStartsLoopFree
<1>7. ASSUME NEW n, NEW name \in {"copy", "check"}, Start(name, n), removing' = removing
      PROVE  LoopFree'
  <2>1. ub' = ub /\ op' = name /\ op = "none"
    BY <1>7 DEF Start, Idle
  <2> QED
    BY <2>1, <1>1, <1>7, NoErasure
<1>8. ASSUME NEW n \in DOMAIN graph, duplicate_subtree(n)
      PROVE  LoopFree'
  BY <1>7, <1>8 DEF duplicate_subtree
<1>9. CASE assert_integrity
  BY <1>7, <1>9 DEF assert_integrity, own
<1>10. CASE next_node
  BY <1>10, WalkStaysLoopFree DEF next_node, own
<1>11. CASE collect
  <2>1. /\ ~removing /\ ub' = ub /\ op' = op /\ removing' = removing /\ graph' = graph
        /\ made' = made /\ arg' = arg
    BY <1>11 DEF collect, Take, Walking
  <2> QED
    BY <2>1, WalkStaysLoopFree
<1>12. CASE copy_edge
  <2>1. ub' = ub /\ op' = op /\ removing' = removing /\ op = "copy"
    BY <1>12 DEF copy_edge, Take
  <2> QED
    BY <2>1, <1>1, NoErasure
<1>13. ASSUME Return, ub' = ub
       PROVE  LoopFree'
  BY <1>13, NoErasure DEF Return
<1>14. CASE check_edge
  <2>1. CASE Throw
    BY <2>1, <1>13 DEF Throw
  <2>2. CASE ~Throw
    <3>1. ub' = ub /\ op' = op /\ removing' = removing /\ op = "check"
      BY <2>2, <1>14 DEF check_edge, Take
    <3> QED
      BY <3>1, <1>1, NoErasure
  <2> QED
    BY <2>1, <2>2
<1>15. CASE return
  BY <1>13, <1>15 DEF return
<1>16. CASE start_removing
  BY <1>16, CollectedIsLoopFree
<1>17. CASE remove_next
  BY <1>17, RemoveStaysLoopFree
<1>18. CASE erased
  BY <1>13, <1>18 DEF erased
<1>19. CASE UNCHANGED vars
  BY <1>19, WalkStaysLoopFree DEF vars, own
<1> QED
  BY <1>3, <1>4, <1>5, <1>6, <1>8, <1>9, <1>10, <1>11, <1>12, <1>14, <1>15, <1>16, <1>17,
     <1>18, <1>19 DEF Next, Client, Step

\* Both invariants hold in every reachable state.
LEMMA BothHold == Spec => [](IInv /\ LoopFree)
<1>1. Init => LoopFree
  BY DEF Init, LoopFree
<1> QED
  BY <1>1, InitHolds, NextHolds, LoopFreeHolds, PTL DEF Spec

\* erase_subtree, of nodes without an edge to themselves, asks remove_node for each
\* node and for each edge once, whatever cycles and shared nodes it finds.
THEOREM ErasureIsDefined == ~LoopsErased => (Spec => []EraseDefined)
<1> SUFFICES ASSUME ~LoopsErased PROVE Spec => []EraseDefined
  OBVIOUS
<1>1. IInv /\ LoopFree => EraseDefined
  BY DEF LoopFree, EraseDefined
<1> QED
  BY <1>1, BothHold, PTL

\* The types that the run checks are part of the invariants.
LEMMA TypesFollow == IInv /\ LoopFree => TypeOK
<1> SUFFICES ASSUME IInv, LoopFree PROVE TypeOK
  OBVIOUS
<1>1. Shape /\ Locals
  BY DEF IInv
<1>2. \A n \in DOMAIN graph : graph[n].data \in Data /\ F!Ends(graph, n) \subseteq DOMAIN graph
  BY <1>1 DEF Shape, IsGraph, NodeType
<1>3. root = NoNode \/ lost \/ root \in DOMAIN graph
  BY <1>1 DEF Locals, Old
<1>4. Walking => visited \subseteq DOMAIN graph
  BY DEF IInv, InWalk, Deque, Old
<1>5. \A i \in 1..Len(to_remove) : to_remove[i] \in DOMAIN graph
  BY <1>1 DEF Locals, Members
<1> QED
  BY <1>1, <1>2, <1>3, <1>4, <1>5 DEF TypeOK, Shape, LoopFree

\* If no node with an edge to itself is erased, every edge, every node that a walk has
\* found and every node that erase_subtree still has to remove is a live node, in
\* every reachable state.
THEOREM TypeCorrect == ~LoopsErased => (Spec => []TypeOK)
<1> SUFFICES ASSUME ~LoopsErased PROVE Spec => []TypeOK
  OBVIOUS
<1> QED
  BY BothHold, TypesFollow, PTL

\* assert_integrity, which removes nothing, throws exactly on the graphs that are no
\* tree, a graph with an edge from a node to itself among them.
THEOREM IntegrityIsRight == Spec => []IntegrityRight
<1>1. IInv => IntegrityRight
  BY DEF IInv
<1>2. Spec => []IInv
  BY Invariant
<1> QED
  BY <1>1, <1>2, PTL

\* At the start there is no graph to see.
LEMMA InitRefines == Init => Promise!Init
<1> SUFFICES ASSUME Init PROVE Promise!Init
  OBVIOUS
<1>1. /\ IInv /\ Idle /\ graph = [n \in {} |-> n]
  BY InitHolds DEF Init, Idle
<1>2. VisibleGraph = graph
  BY <1>1, IdleFacts
<1> QED
  BY <1>1, <1>2 DEF Promise!Init

\* erase_subtree and duplicate_subtree, which take many steps and change the graph
\* that they walk over, do what Forest does in one: the nodes below the argument
\* are gone, or have got one copy each, and nothing else has changed.  It holds where
\* no node with an edge to itself is erased, as remove_node is not defined on it.
THEOREM TreeImplementsForest == ~LoopsErased => (Spec => ImplementsForest)
<1> SUFFICES ASSUME ~LoopsErased PROVE Spec => ImplementsForest
  OBVIOUS
<1>1. Spec => []IInv
  BY Invariant
<1> QED
  BY <1>1, InitRefines, NextRefines, PTL DEF Spec, ImplementsForest, Promise!Spec
=============================================================================
