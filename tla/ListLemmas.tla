----------------------------- MODULE ListLemmas -----------------------------
(***************************************************************************)
(* Facts about the sequences and the sets of positions that the other      *)
(* modules of proofs need.                                                 *)
(***************************************************************************)
EXTENDS Integers, Sequences, SequencesExt, FiniteSets, FiniteSetsExt,
        SequenceTheorems, FiniteSetTheorems, WellFoundedInduction, TLAPS

\* A set of naturals that is not empty has a least element, which Min gives.
LEMMA MinOfSet ==
  ASSUME NEW S \in SUBSET Nat, S # {}
  PROVE  Min(S) \in S /\ \A y \in S : Min(S) <= y
<1> DEFINE below == {0..y : y \in S}
<1>1. \A y \in Nat : 0..y \in FiniteSubsetsOf(Nat)
  BY FS_Interval DEF FiniteSubsetsOf
<1>2. below \subseteq FiniteSubsetsOf(Nat) /\ below # {}
  BY <1>1
<1>3. PICK b \in below : \A c \in below : ~(<<c, b>> \in StrictSubsetOrdering(Nat))
  BY <1>2, WFMin, FS_StrictSubsetOrderingWellFounded
<1>4. PICK x \in S : b = 0..x
  OBVIOUS
<1>5. ASSUME NEW y \in S, y < x
      PROVE  FALSE
  <2>1. 0..y \subseteq 0..x /\ 0..y # 0..x
    BY <1>5
  <2>2. <<0..y, 0..x>> \in StrictSubsetOrdering(Nat)
    BY <2>1 DEF StrictSubsetOrdering
  <2> QED
    BY <2>2, <1>3, <1>4
<1>6. \A y \in S : x <= y
  BY <1>5
<1> QED
  BY <1>6 DEF Min

\* A set of positions of a list that is not empty has a last one, which Max gives.
LEMMA MaxOfSet ==
  ASSUME NEW n \in Nat, NEW S \in SUBSET (0..n), S # {}
  PROVE  Max(S) \in S /\ \A y \in S : y <= Max(S)
<1> DEFINE T == {n - y : y \in S}
<1>1. T \in SUBSET Nat /\ T # {}
  <2>1. \A y \in S : y \in Int /\ n - y \in Nat
    OBVIOUS
  <2> QED
    BY <2>1
<1>2. Min(T) \in T /\ \A t \in T : Min(T) <= t
  BY <1>1, MinOfSet
<1>3. PICK x \in S : Min(T) = n - x
  BY <1>2
<1>4. ASSUME NEW y \in S
      PROVE  x >= y
  <2>1. n - y \in T
    OBVIOUS
  <2>2. n - x <= n - y
    BY <2>1, <1>2, <1>3
  <2> QED
    BY <2>2
<1> QED
  BY <1>4 DEF Max

\* The last element of a list, and the list without it.
LEMMA FrontProperties ==
  ASSUME NEW S, NEW s \in Seq(S), s # <<>>
  PROVE  /\ Front(s) \in Seq(S) /\ Len(Front(s)) = Len(s) - 1
         /\ \A i \in 1..(Len(s) - 1) : Front(s)[i] = s[i]
         /\ Last(s) = s[Len(s)] /\ Len(s) \in 1..Len(s)
<1>1. Len(s) \in Nat \ {0} /\ \A i \in 1..Len(s) : s[i] \in S
  BY EmptySeq, LenProperties
<1> DEFINE m == Len(s) - 1
<1>2. \A i \in 1..m : s[i] \in S
  BY <1>1
<1>a. 1 \in Int /\ m \in Int
  BY <1>1
<1>3. /\ SubSeq(s, 1, m) \in Seq(S)
      /\ Len(SubSeq(s, 1, m)) = IF 1 <= m THEN m - 1 + 1 ELSE 0
      /\ \A i \in 1..(m - 1 + 1) : SubSeq(s, 1, m)[i] = s[1 + i - 1]
  <2> HIDE DEF m
  <2> QED
    BY <1>a, <1>2, SubSeqProperties
<1>4. m \in Nat
  BY <1>1
<1>5. Len(SubSeq(s, 1, m)) = m /\ \A i \in 1..m : SubSeq(s, 1, m)[i] = s[i]
  <2> HIDE DEF m
  <2>1. m - 1 + 1 = m /\ \A i \in 1..m : 1 + i - 1 = i
    BY <1>4
  <2> QED
    BY <2>1, <1>3, <1>4
<1>6. Front(s) = SubSeq(s, 1, m) /\ Last(s) = s[Len(s)]
  BY DEF Front, Last
<1>7. Len(s) \in 1..Len(s)
  BY <1>1
<1> QED
  BY <1>3, <1>5, <1>6, <1>7

(***************************************************************************)
(* RemoveAt (a vector's erase of one position) shifts what follows.        *)
(***************************************************************************)
\* What is before the position stays, what is after it moves down by one.
LEMMA RemoveAtShifts ==
  ASSUME NEW S, NEW s \in Seq(S), NEW i \in 1..Len(s)
  PROVE  /\ RemoveAt(s, i) \in Seq(S)
         /\ Len(RemoveAt(s, i)) = Len(s) - 1
         /\ \A j \in 1..(Len(s) - 1) :
              RemoveAt(s, i)[j] = IF j < i THEN s[j] ELSE s[j + 1]
<1> DEFINE a == SubSeq(s, 1, i - 1)
           b == SubSeq(s, i + 1, Len(s))
<1>1. Len(s) \in Nat
  BY LenProperties
<1>2. /\ a \in Seq(S)
      /\ Len(a) = i - 1
      /\ \A j \in 1..(i - 1) : a[j] = s[j]
  BY <1>1, SubSeqProperties
<1>3. /\ b \in Seq(S)
      /\ Len(b) = Len(s) - i
      /\ \A j \in 1..(Len(s) - i) : b[j] = s[i + j]
  BY <1>1, SubSeqProperties
<1>4. /\ a \o b \in Seq(S)
      /\ Len(a \o b) = Len(a) + Len(b)
      /\ \A j \in 1..(Len(a) + Len(b)) :
           (a \o b)[j] = IF j <= Len(a) THEN a[j] ELSE b[j - Len(a)]
  BY <1>2, <1>3, ConcatProperties
<1>5. RemoveAt(s, i) = a \o b
  BY DEF RemoveAt
<1> HIDE DEF a, b
<1>6. Len(a) + Len(b) = Len(s) - 1 /\ Len(a) = i - 1
  <2>1. (i - 1) + (Len(s) - i) = Len(s) - 1
    BY <1>1
  <2> QED
    BY <2>1, <1>2, <1>3
<1>7. ASSUME NEW j \in 1..(Len(s) - 1)
      PROVE  (a \o b)[j] = IF j < i THEN s[j] ELSE s[j + 1]
  <2>1. (a \o b)[j] = IF j <= i - 1 THEN a[j] ELSE b[j - (i - 1)]
    BY <1>4, <1>6
  <2>2. CASE j < i
    <3>1. j \in 1..(i - 1) /\ j <= i - 1
      BY <2>2, <1>1
    <3> QED
      BY <3>1, <2>1, <2>2, <1>2
  <2>3. CASE ~(j < i)
    <3>1. j - (i - 1) \in 1..(Len(s) - i) /\ i + (j - (i - 1)) = j + 1 /\ ~(j <= i - 1)
      BY <2>3, <1>1
    <3> QED
      BY <3>1, <2>1, <2>3, <1>3
  <2> QED
    BY <2>2, <2>3
<1> QED
  BY <1>4, <1>5, <1>6, <1>7

-----------------------------------------------------------------------------
(***************************************************************************)
(* Lists that hold nothing twice.                                          *)
(***************************************************************************)
Members(s) == {s[k] : k \in 1..Len(s)}
NoRepeat(s) == \A j, k \in 1..Len(s) : s[j] = s[k] => j = k
Pos(s, b) == CHOOSE k \in 1..Len(s) : s[k] = b

\* Each member has one position.
LEMMA PosOfMember ==
  ASSUME NEW s, NoRepeat(s)
  PROVE  /\ \A k \in 1..Len(s) : s[k] \in Members(s) /\ Pos(s, s[k]) = k
         /\ \A b \in Members(s) : Pos(s, b) \in 1..Len(s) /\ s[Pos(s, b)] = b
         /\ \A b, c \in Members(s) : Pos(s, b) = Pos(s, c) => b = c
<1>1. ASSUME NEW b \in Members(s)
      PROVE  Pos(s, b) \in 1..Len(s) /\ s[Pos(s, b)] = b
  <2>1. \E k \in 1..Len(s) : s[k] = b
    BY DEF Members
  <2> QED
    BY <2>1 DEF Pos
<1>2. ASSUME NEW k \in 1..Len(s)
      PROVE  s[k] \in Members(s) /\ Pos(s, s[k]) = k
  <2>1. s[k] \in Members(s)
    BY DEF Members
  <2>2. Pos(s, s[k]) \in 1..Len(s) /\ s[Pos(s, s[k])] = s[k]
    BY <2>1, <1>1
  <2> QED
    BY <2>1, <2>2 DEF NoRepeat
<1>3. ASSUME NEW b \in Members(s), NEW c \in Members(s), Pos(s, b) = Pos(s, c)
      PROVE  b = c
  BY <1>1, <1>3
<1> QED
  BY <1>1, <1>2, <1>3

\* A new member goes to the end.
LEMMA AppendNew ==
  ASSUME NEW S, NEW s \in Seq(S), NoRepeat(s), NEW b \in S, b \notin Members(s)
  PROVE  LET t == Append(s, b)
         IN  /\ t \in Seq(S) /\ NoRepeat(t) /\ Members(t) = Members(s) \cup {b}
             /\ \A c \in Members(s) : Pos(t, c) = Pos(s, c) /\ Pos(t, c) < Pos(t, b)
<1> DEFINE t == Append(s, b)
<1>1. /\ Len(s) \in Nat /\ t \in Seq(S) /\ Len(t) = Len(s) + 1 /\ t[Len(s) + 1] = b
      /\ \A k \in 1..Len(s) : t[k] = s[k]
  BY LenProperties, AppendProperties
<1> HIDE DEF t
<1>2. \A k \in 1..Len(t) : k \in 1..Len(s) \/ k = Len(s) + 1
  BY <1>1
<1>3. \A k \in 1..Len(s) : k \in 1..Len(t) /\ s[k] # b
  BY <1>1 DEF Members
<1>4. NoRepeat(t)
  BY <1>1, <1>2, <1>3 DEF NoRepeat
<1>5. Members(t) = Members(s) \cup {b}
  <2>1. ASSUME NEW c \in Members(t)
        PROVE  c \in Members(s) \cup {b}
    BY <1>1, <1>2 DEF Members
  <2>2. ASSUME NEW c \in Members(s)
        PROVE  c \in Members(t)
    BY <1>1, <1>3 DEF Members
  <2>3. Len(s) + 1 \in 1..Len(t)
    BY <1>1
  <2>4. b \in Members(t)
    BY <1>1, <2>3 DEF Members
  <2> QED
    BY <2>1, <2>2, <2>4
<1>6. ASSUME NEW c \in Members(s)
      PROVE  Pos(t, c) = Pos(s, c) /\ Pos(t, c) < Pos(t, b)
  <2>1. Pos(s, c) \in 1..Len(s) /\ s[Pos(s, c)] = c
    BY PosOfMember
  <2>2. Pos(s, c) \in 1..Len(t) /\ t[Pos(s, c)] = c
    BY <2>1, <1>1, <1>3
  <2>3. Pos(t, c) = Pos(s, c)
    BY <2>2, <1>4, PosOfMember
  <2>4. Len(s) + 1 \in 1..Len(t)
    BY <1>1
  <2>5. Pos(t, b) = Len(s) + 1
    BY <2>4, <1>1, <1>4, PosOfMember
  <2> QED
    BY <2>1, <2>3, <2>5, <1>1
<1> QED
  BY <1>1, <1>4, <1>5, <1>6 DEF t

\* The other members keep their order when one is taken out.
LEMMA RemoveMember ==
  ASSUME NEW S, NEW s \in Seq(S), NoRepeat(s), NEW b \in Members(s)
  PROVE  LET t == RemoveAt(s, Pos(s, b))
         IN  /\ t \in Seq(S) /\ NoRepeat(t) /\ Members(t) = Members(s) \ {b}
             /\ \A c, d \in Members(t) : Pos(t, c) <= Pos(t, d) <=> Pos(s, c) <= Pos(s, d)
<1> DEFINE i == Pos(s, b)
           t == RemoveAt(s, i)
           old(k) == IF k < i THEN k ELSE k + 1
<1>1. i \in 1..Len(s) /\ s[i] = b /\ Len(s) \in Nat
  BY PosOfMember, LenProperties
<1>2. /\ t \in Seq(S) /\ Len(t) = Len(s) - 1
      /\ \A k \in 1..(Len(s) - 1) : t[k] = IF k < i THEN s[k] ELSE s[k + 1]
  BY <1>1, RemoveAtShifts
<1> HIDE DEF t, i
<1>3. \A k \in 1..Len(t) : old(k) \in 1..Len(s) /\ old(k) # i /\ t[k] = s[old(k)]
  BY <1>1, <1>2
<1>4. \A j, k \in 1..Len(t) : old(j) <= old(k) <=> j <= k
  BY <1>1, <1>2
<1>5. \A m \in 1..Len(s) : m # i => \E k \in 1..Len(t) : old(k) = m
  <2> SUFFICES ASSUME NEW m \in 1..Len(s), m # i
               PROVE  \E k \in 1..Len(t) : old(k) = m
    OBVIOUS
  <2>1. CASE m < i
    <3>1. m \in 1..Len(t) /\ old(m) = m
      BY <2>1, <1>1, <1>2
    <3> QED
      BY <3>1
  <2>2. CASE m > i
    <3>1. m - 1 \in 1..Len(t) /\ old(m - 1) = m
      BY <2>2, <1>1, <1>2
    <3> QED
      BY <3>1
  <2> QED
    BY <2>1, <2>2, <1>1
<1> HIDE DEF old
<1>6. NoRepeat(t)
  <2> SUFFICES ASSUME NEW j \in 1..Len(t), NEW k \in 1..Len(t), t[j] = t[k]
               PROVE  j = k
    BY DEF NoRepeat
  <2>1. old(j) = old(k)
    BY <1>3 DEF NoRepeat
  <2>2. old(j) \in Nat /\ j <= k /\ k <= j
    BY <2>1, <1>3, <1>4
  <2> QED
    BY <2>2
<1>7. Members(t) = Members(s) \ {b}
  <2>1. ASSUME NEW c \in Members(t)
        PROVE  c \in Members(s) /\ c # b
    <3>1. PICK k \in 1..Len(t) : c = t[k]
      BY DEF Members
    <3>2. c = s[old(k)] /\ old(k) \in 1..Len(s) /\ old(k) # i
      BY <3>1, <1>3
    <3> QED
      BY <3>2, <1>1 DEF Members, NoRepeat
  <2>2. ASSUME NEW c \in Members(s), c # b
        PROVE  c \in Members(t)
    <3>1. PICK m \in 1..Len(s) : c = s[m]
      BY DEF Members
    <3>2. PICK k \in 1..Len(t) : old(k) = m
      BY <3>1, <2>2, <1>1, <1>5
    <3> QED
      BY <3>1, <3>2, <1>3 DEF Members
  <2> QED
    BY <2>1, <2>2
<1>8. ASSUME NEW c \in Members(t)
      PROVE  Pos(t, c) \in 1..Len(t) /\ Pos(s, c) = old(Pos(t, c))
  <2>1. Pos(t, c) \in 1..Len(t) /\ t[Pos(t, c)] = c
    BY <1>6, PosOfMember
  <2> QED
    BY <2>1, <1>3, PosOfMember
<1>9. \A c, d \in Members(t) : Pos(t, c) <= Pos(t, d) <=> Pos(s, c) <= Pos(s, d)
  BY <1>4, <1>8
<1> QED
  BY <1>2, <1>6, <1>7, <1>9 DEF t, i

\* The first member is taken out.
LEMMA TailOfList ==
  ASSUME NEW S, NEW s \in Seq(S), NoRepeat(s), s # <<>>
  PROVE  /\ Tail(s) \in Seq(S) /\ NoRepeat(Tail(s))
         /\ Head(s) \in Members(s) /\ Head(s) \in S
         /\ Members(Tail(s)) = Members(s) \ {Head(s)}
<1> DEFINE t == Tail(s)
<1>1. /\ Len(s) \in Nat \ {0} /\ t \in Seq(S) /\ Len(t) = Len(s) - 1
      /\ \A k \in 1..Len(t) : t[k] = s[k + 1]
      /\ Head(s) = s[1] /\ Head(s) \in S
  BY EmptySeq, LenProperties, HeadTailProperties
<1> HIDE DEF t
<1>2. 1 \in 1..Len(s) /\ \A k \in 1..Len(t) : k + 1 \in 1..Len(s) /\ k + 1 # 1
  BY <1>1
<1>3. \A k \in 1..Len(s) : k # 1 => k - 1 \in 1..Len(t) /\ s[k] = t[k - 1]
  BY <1>1
<1>4. NoRepeat(t)
  <2>1. ASSUME NEW j \in 1..Len(t), NEW k \in 1..Len(t), t[j] = t[k]
        PROVE  j + 1 = k + 1
    BY <2>1, <1>1, <1>2 DEF NoRepeat
  <2> QED
    BY <2>1 DEF NoRepeat
<1>5. Members(t) = Members(s) \ {Head(s)}
  <2>1. ASSUME NEW b \in Members(t)
        PROVE  b \in Members(s) /\ b # Head(s)
    <3>1. PICK k \in 1..Len(t) : b = t[k]
      BY DEF Members
    <3>2. b = s[k + 1] /\ k + 1 \in 1..Len(s) /\ k + 1 # 1
      BY <3>1, <1>1, <1>2
    <3> QED
      BY <3>2, <1>1, <1>2 DEF Members, NoRepeat
  <2>2. ASSUME NEW b \in Members(s), b # Head(s)
        PROVE  b \in Members(t)
    <3>1. PICK k \in 1..Len(s) : b = s[k]
      BY DEF Members
    <3>2. k - 1 \in 1..Len(t) /\ b = t[k - 1]
      BY <3>1, <2>2, <1>1, <1>3
    <3> QED
      BY <3>2 DEF Members
  <2> QED
    BY <2>1, <2>2
<1>6. Head(s) \in Members(s)
  BY <1>1, <1>2 DEF Members
<1> QED
  BY <1>1, <1>4, <1>5, <1>6 DEF t

\* A new member goes to the front.
LEMMA PrependNew ==
  ASSUME NEW S, NEW s \in Seq(S), NoRepeat(s), NEW b \in S, b \notin Members(s)
  PROVE  /\ <<b>> \o s \in Seq(S) /\ NoRepeat(<<b>> \o s)
         /\ Members(<<b>> \o s) = Members(s) \cup {b}
<1> DEFINE t == <<b>> \o s
<1>1. <<b>> \in Seq(S) /\ Len(<<b>>) = 1 /\ <<b>>[1] = b
  OBVIOUS
<1>2. /\ Len(s) \in Nat /\ t \in Seq(S) /\ Len(t) = 1 + Len(s)
      /\ \A k \in 1..(1 + Len(s)) : t[k] = IF k <= 1 THEN <<b>>[k] ELSE s[k - 1]
  BY <1>1, LenProperties, ConcatProperties
<1> HIDE DEF t
<1>3. /\ 1 \in 1..Len(t) /\ t[1] = b
      /\ \A k \in 1..Len(t) : k # 1 => k - 1 \in 1..Len(s) /\ t[k] = s[k - 1]
      /\ \A k \in 1..Len(s) : k + 1 \in 1..Len(t) /\ t[k + 1] = s[k]
  <2>1. 1 \in 1..Len(t) /\ t[1] = b
    BY <1>1, <1>2
  <2>2. ASSUME NEW k \in 1..Len(t), k # 1
        PROVE  k - 1 \in 1..Len(s) /\ t[k] = s[k - 1]
    <3>1. k \in 1..(1 + Len(s)) /\ ~(k <= 1) /\ k - 1 \in 1..Len(s)
      BY <1>2, <2>2
    <3> QED
      BY <3>1, <1>2
  <2>3. ASSUME NEW k \in 1..Len(s)
        PROVE  k + 1 \in 1..Len(t) /\ t[k + 1] = s[k]
    <3>1. k + 1 \in 1..(1 + Len(s)) /\ ~(k + 1 <= 1) /\ k + 1 - 1 = k
      BY <1>2
    <3>2. t[k + 1] = s[k + 1 - 1]
      BY <3>1, <1>2
    <3> QED
      BY <3>1, <3>2, <1>2
  <2> QED
    BY <2>1, <2>2, <2>3
<1>4. \A k \in 1..Len(s) : s[k] # b
  BY DEF Members
<1>5. NoRepeat(t)
  <2>1. ASSUME NEW j \in 1..Len(t), NEW k \in 1..Len(t), j # 1, k # 1, t[j] = t[k]
        PROVE  j = k
    <3>1. j - 1 \in 1..Len(s) /\ k - 1 \in 1..Len(s) /\ s[j - 1] = s[k - 1]
      BY <2>1, <1>3
    <3>2. j - 1 = k - 1
      BY <3>1 DEF NoRepeat
    <3> QED
      BY <3>2
  <2>2. \A k \in 1..Len(t) : k # 1 => t[k] # t[1]
    BY <1>3, <1>4
  <2> QED
    BY <2>1, <2>2 DEF NoRepeat
<1>6. Members(t) = Members(s) \cup {b}
  <2>1. ASSUME NEW c \in Members(t)
        PROVE  c \in Members(s) \cup {b}
    BY <1>3 DEF Members
  <2>2. ASSUME NEW c \in Members(s)
        PROVE  c \in Members(t)
    <3>1. PICK k \in 1..Len(s) : c = s[k]
      BY DEF Members
    <3> QED
      BY <3>1, <1>3 DEF Members
  <2>3. b \in Members(t)
    BY <1>3 DEF Members
  <2> QED
    BY <2>1, <2>2, <2>3
<1> QED
  BY <1>2, <1>5, <1>6 DEF t

(***************************************************************************)
(* Induction up to a bound, with a set in the place of a predicate, and    *)
(* the functions that are defined by recursion up to a bound.              *)
(***************************************************************************)
\* A set with 0 and with the successor, up to n, of each of its elements has 0..n.
LEMMA InductionTo ==
  ASSUME NEW n \in Nat, NEW Good, 0 \in Good, \A i \in 1..n : i - 1 \in Good => i \in Good
  PROVE  0..n \subseteq Good
<1> DEFINE Bad == {i \in 0..n : i \notin Good}
<1>1. SUFFICES ASSUME Bad # {} PROVE FALSE
  OBVIOUS
<1>2. Bad \in SUBSET Nat
  OBVIOUS
<1>3. Min(Bad) \in Bad /\ \A y \in Bad : Min(Bad) <= y
  BY <1>1, <1>2, MinOfSet
<1>4. PICK m \in Bad : \A y \in Bad : m <= y
  BY <1>3
<1>5. m \in 1..n /\ m - 1 \in 0..n /\ ~(m <= m - 1)
  BY <1>4
<1>6. m - 1 \notin Bad
  BY <1>4, <1>5
<1> QED
  BY <1>4, <1>5, <1>6

\* f[i] is what the first i of n steps make of start.
Repeats(f, n, start, step) == f[0] = start /\ \A i \in 1..n : f[i] = step[i][f[i - 1]]

\* A step that stays in a set S can be repeated n times from a start in S.
LEMMA RecursionTo ==
  ASSUME NEW n \in Nat, NEW S, NEW start \in S, NEW step \in [1..n -> [S -> S]]
  PROVE  \E f \in [0..n -> S] : Repeats(f, n, start, step)
<1> DEFINE Upto(m, f) == f[0] = start /\ \A i \in 1..m : f[i] = step[i][f[i - 1]]
           Good == {m \in 0..n : \E f \in [0..m -> S] : Upto(m, f)}
<1>1. 0 \in Good
  <2>1. [i \in 0..0 |-> start] \in [0..0 -> S] /\ Upto(0, [i \in 0..0 |-> start])
    OBVIOUS
  <2>2. 0 \in 0..n
    OBVIOUS
  <2> QED
    BY <2>1, <2>2
<1>2. ASSUME NEW m \in 1..n, m - 1 \in Good
      PROVE  m \in Good
  <2>1. PICK f \in [0..(m - 1) -> S] : Upto(m - 1, f)
    BY <1>2
  <2> DEFINE g == [i \in 0..m |-> IF i = m THEN step[m][f[m - 1]] ELSE f[i]]
  <2>2. g \in [0..m -> S]
    <3>1. f[m - 1] \in S /\ step[m] \in [S -> S]
      OBVIOUS
    <3>2. \A i \in 0..m : i # m => i \in 0..(m - 1)
      OBVIOUS
    <3> QED
      BY <3>1, <3>2
  <2>3. g[0] = start
    BY <2>1
  <2>4. ASSUME NEW i \in 1..m
        PROVE  g[i] = step[i][g[i - 1]]
    <3>1. i - 1 \in 0..m /\ i - 1 # m /\ g[i - 1] = f[i - 1]
      OBVIOUS
    <3>2. CASE i = m
      BY <3>1, <3>2
    <3>3. CASE i # m
      <4>1. i \in 1..(m - 1) /\ g[i] = f[i]
        BY <3>3
      <4> QED
        BY <4>1, <3>1, <2>1
    <3> QED
      BY <3>2, <3>3
  <2>5. m \in 0..n
    OBVIOUS
  <2> QED
    BY <2>2, <2>3, <2>4, <2>5
<1>3. 0..n \subseteq Good
  <2> HIDE DEF Good
  <2> QED
    BY <1>1, <1>2, InductionTo
<1>4. PICK f \in [0..n -> S] : Upto(n, f)
  BY <1>3
<1> QED
  BY <1>4 DEF Repeats
=============================================================================
