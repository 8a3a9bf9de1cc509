----------------------------- MODULE TypesProofs -----------------------------
(***************************************************************************)
(* Theorems on Types, for any basic types, structures, specifiers and      *)
(* bounds.                                                                 *)
(***************************************************************************)
EXTENDS Types, ListLemmas

Sizes == 0..(SizeLimit - 1)
Mods == {Pointer, ConstPointer} \cup (Nat \ {0})
AllNames == Names \cup {NoName}

\* Every number taken modulo SizeLimit is a size, and so are 0, 1 and PtrSize.
LEMMA Limits ==
  /\ SizeLimit \in Nat /\ SizeLimit > 1 /\ PtrSize \in Nat \ {0} /\ PtrSize \in Sizes
  /\ 0 \in Sizes /\ 1 \in Sizes
  /\ \A k \in Int : k % SizeLimit \in Sizes
BY TypeTableAssumption DEF TypeTableAssumption, Sizes

-----------------------------------------------------------------------------
(***************************************************************************)
(* size_of.                                                                *)
(***************************************************************************)
\* f[i] is the size with the first i modifiers around an entry of the size base.
Scaled(m, x) == IF IsPointer(m) THEN PtrSize ELSE (x * m) % SizeLimit
AreSizes(f, base, mods) ==
  f = [i \in 0..Len(mods) |-> IF i = 0 THEN base
                              ELSE IF IsPointer(mods[i]) THEN PtrSize
                              ELSE (f[i - 1] * mods[i]) % SizeLimit]

\* A modifier takes a size to a size.
LEMMA ScaledType ==
  ASSUME NEW m \in Mods, NEW x \in Sizes
  PROVE  Scaled(m, x) \in Sizes
<1>1. CASE IsPointer(m)
  BY <1>1, Limits DEF Scaled
<1>2. CASE ~IsPointer(m)
  <2>1. m \in Nat /\ x \in Nat
    BY <1>2, Limits DEF IsPointer, Mods, Sizes
  <2>2. x * m \in Int
    BY <2>1
  <2> QED
    BY <1>2, <2>2, Limits DEF Scaled
<1> QED
  BY <1>1, <1>2

\* The recursion of size_of defines a size for each number of modifiers.
LEMMA SizesExist ==
  ASSUME NEW base \in Sizes, NEW mods \in Seq(Mods)
  PROVE  \E f \in [0..Len(mods) -> Sizes] : AreSizes(f, base, mods)
<1> DEFINE n == Len(mods)
           table == [i \in 1..n |-> [x \in Sizes |-> Scaled(mods[i], x)]]
<1>1. n \in Nat /\ \A i \in 1..n : mods[i] \in Mods
  BY LenProperties
<1>2. /\ table \in [1..n -> [Sizes -> Sizes]]
      /\ \A i \in 1..n : \A x \in Sizes : table[i][x] = Scaled(mods[i], x)
  BY <1>1, ScaledType
<1>a. PICK step \in [1..n -> [Sizes -> Sizes]] :
        \A i \in 1..n : \A x \in Sizes : step[i][x] = Scaled(mods[i], x)
  BY <1>2
<1>b. PICK f \in [0..n -> Sizes] : Repeats(f, n, base, step)
  <2>1. n \in Nat
    BY <1>1
  <2> HIDE DEF n
  <2> QED
    BY <2>1, RecursionTo
<1>3. f[0] = base /\ \A i \in 1..n : f[i] = step[i][f[i - 1]]
  BY <1>b DEF Repeats
<1>4. ASSUME NEW i \in 1..n
      PROVE  f[i] = Scaled(mods[i], f[i - 1])
  <2>1. i - 1 \in 0..n
    BY <1>1
  <2> QED
    BY <1>3, <1>a, <2>1
<1>5. AreSizes(f, base, mods)
  <2>1. \A i \in 0..n : i # 0 => i \in 1..n
    BY <1>1
  <2>2. f = [i \in 0..n |-> f[i]]
    OBVIOUS
  <2>3. \A i \in 0..n : f[i] = IF i = 0 THEN base ELSE Scaled(mods[i], f[i - 1])
    BY <2>1, <1>3, <1>4
  <2> HIDE DEF n
  <2>4. f = [i \in 0..n |-> IF i = 0 THEN base ELSE Scaled(mods[i], f[i - 1])]
    BY <2>2, <2>3
  <2> QED
    BY <2>4 DEF AreSizes, Scaled, n
<1> QED
  BY <1>5

\* What the recursion of size_of says of each number of modifiers.
LEMMA SizeAt ==
  ASSUME NEW f, NEW base, NEW mods \in Seq(Mods), AreSizes(f, base, mods)
  PROVE  /\ f[0] = base
         /\ \A i \in 1..Len(mods) : f[i] = Scaled(mods[i], f[i - 1])
<1>1. Len(mods) \in Nat
  BY LenProperties
<1>2. 0 \in 0..Len(mods) /\ \A i \in 1..Len(mods) : i \in 0..Len(mods) /\ i # 0
  BY <1>1
<1>3. f[0] = base
  BY <1>2 DEF AreSizes
<1>4. ASSUME NEW i \in 1..Len(mods)
      PROVE  f[i] = Scaled(mods[i], f[i - 1])
  <2> DEFINE e(j) == IF j = 0 THEN base
                     ELSE IF IsPointer(mods[j]) THEN PtrSize
                     ELSE (f[j - 1] * mods[j]) % SizeLimit
  <2>1. f = [j \in 0..Len(mods) |-> e(j)]
    BY DEF AreSizes
  <2>2. f[i] = e(i)
    <3> HIDE DEF e
    <3> QED
      BY <2>1, <1>2
  <2> QED
    BY <2>2, <1>2 DEF Scaled
<1> QED
  BY <1>3, <1>4

\* size_of is given by these sizes.
LEMMA SizeOfIs ==
  ASSUME NEW tab, NEW t, tab[t.id].size \in Sizes, t.mods \in Seq(Mods)
  PROVE  \E f : AreSizes(f, tab[t.id].size, t.mods) /\ size_of(tab, t) = f[Len(t.mods)]
<1> DEFINE F == CHOOSE f : AreSizes(f, tab[t.id].size, t.mods)
<1>1. \E f : AreSizes(f, tab[t.id].size, t.mods)
  BY SizesExist
<1>2. AreSizes(F, tab[t.id].size, t.mods)
  BY <1>1
<1>3. size_of(tab, t) = F[Len(t.mods)]
  BY DEF size_of, AreSizes
<1> QED
  BY <1>2, <1>3

\* A size is a size: it is below the limit.
LEMMA SizeOfType ==
  ASSUME NEW tab, NEW t, tab[t.id].size \in Sizes, t.mods \in Seq(Mods)
  PROVE  size_of(tab, t) \in Sizes
<1> DEFINE n == Len(t.mods)
           base == tab[t.id].size
<1>1. PICK f : AreSizes(f, base, t.mods) /\ size_of(tab, t) = f[n]
  BY SizeOfIs
<1>2. n \in Nat /\ \A i \in 1..n : t.mods[i] \in Mods
  BY LenProperties
<1>3. f[0] = base /\ \A i \in 1..n : f[i] = Scaled(t.mods[i], f[i - 1])
  BY <1>1, SizeAt
<1> DEFINE Good == {i \in 0..n : f[i] \in Sizes}
<1>4. 0 \in Good
  BY <1>2, <1>3
<1>5. ASSUME NEW i \in 1..n, i - 1 \in Good
      PROVE  i \in Good
  <2>1. f[i - 1] \in Sizes
    BY <1>5
  <2>2. f[i] \in Sizes
    BY <2>1, <1>2, <1>3, ScaledType
  <2> QED
    BY <2>2, <1>2
<1>6. 0..n \subseteq Good
  <2> HIDE DEF Good, n
  <2> QED
    BY <1>2, <1>4, <1>5, InductionTo
<1> QED
  BY <1>1, <1>2, <1>6

HasPointer(mods) == \E j \in 1..Len(mods) : IsPointer(mods[j])

\* The size of a type with a pointer in it does not depend on the entry.
LEMMA SizeBehindPointer ==
  ASSUME NEW tab, NEW tab2, NEW t, tab[t.id].size \in Sizes, tab2[t.id].size \in Sizes,
         t.mods \in Seq(Mods), HasPointer(t.mods)
  PROVE  size_of(tab, t) = size_of(tab2, t)
<1> DEFINE n == Len(t.mods)
<1>1. PICK f : AreSizes(f, tab[t.id].size, t.mods) /\ size_of(tab, t) = f[n]
  BY SizeOfIs
<1>2. PICK g : AreSizes(g, tab2[t.id].size, t.mods) /\ size_of(tab2, t) = g[n]
  BY SizeOfIs
<1>3. n \in Nat
  BY LenProperties
<1>4. \A i \in 1..n : f[i] = Scaled(t.mods[i], f[i - 1])
  BY <1>1, SizeAt
<1>5. \A i \in 1..n : g[i] = Scaled(t.mods[i], g[i - 1])
  BY <1>2, SizeAt
<1>6. PICK j \in 1..n : IsPointer(t.mods[j])
  BY DEF HasPointer
<1> DEFINE Good == {i \in 0..n : j <= i => f[i] = g[i]}
<1>7. 0 \in Good
  BY <1>3
<1>8. ASSUME NEW i \in 1..n, i - 1 \in Good
      PROVE  i \in Good
  <2>1. CASE i = j
    <3>1. f[i] = PtrSize /\ g[i] = PtrSize
      BY <2>1, <1>4, <1>5, <1>6 DEF Scaled
    <3> QED
      BY <3>1, <1>3
  <2>2. CASE j < i
    <3>1. f[i - 1] = g[i - 1]
      BY <2>2, <1>8, <1>3
    <3>2. f[i] = g[i]
      BY <3>1, <1>4, <1>5
    <3> QED
      BY <3>2, <1>3
  <2>3. CASE i < j
    BY <2>3, <1>3
  <2> QED
    BY <2>1, <2>2, <2>3, <1>3
<1>9. 0..n \subseteq Good
  <2> HIDE DEF Good, n
  <2> QED
    BY <1>3, <1>7, <1>8, InductionTo
<1> QED
  BY <1>1, <1>2, <1>3, <1>6, <1>9

\* So does the size of a type on an entry whose size is what it was.
LEMMA SizeSame ==
  ASSUME NEW tab, NEW tab2, NEW t, tab[t.id].size = tab2[t.id].size
  PROVE  size_of(tab, t) = size_of(tab2, t)
BY DEF size_of

\* A type without the arrays on top is the entry itself, if there is no pointer,
\* and otherwise a pointer.
LEMMA ElementIs ==
  ASSUME NEW t, t.mods \in Seq(Mods), t = [id |-> t.id, const |-> t.const, mods |-> t.mods]
  PROVE  /\ element(t).id = t.id /\ element(t).mods \in Seq(Mods)
         /\ HasPointer(t.mods) <=> element(t).mods # <<>>
         /\ HasPointer(t.mods) => /\ element(t).mods # <<>>
                                  /\ IsPointer(element(t).mods[Len(element(t).mods)])
<1> DEFINE n == Len(t.mods)
           S == {0} \cup {i \in 1..n : IsPointer(t.mods[i])}
           last == Max(S)
<1>1. n \in Nat /\ \A i \in 1..n : t.mods[i] \in Mods
  BY LenProperties
<1>2. S \in SUBSET (0..n) /\ S # {}
  BY <1>1
<1>3. last \in S /\ \A y \in S : y <= last
  <2> HIDE DEF S, n
  <2> QED
    BY <1>1, <1>2, MaxOfSet
<1>4. last \in 0..n
  BY <1>2, <1>3
<1>5. element(t) = [t EXCEPT !.mods = SubSeq(t.mods, 1, last)]
  BY DEF element
<1>6. element(t).id = t.id /\ element(t).mods = SubSeq(t.mods, 1, last)
  <2> HIDE DEF last
  <2> QED
    BY <1>5
<1>7. /\ SubSeq(t.mods, 1, last) \in Seq(Mods)
      /\ Len(SubSeq(t.mods, 1, last)) = last
      /\ \A i \in 1..last : SubSeq(t.mods, 1, last)[i] = t.mods[i]
  <2>1. \A i \in 1..last : t.mods[i] \in Mods
    BY <1>1, <1>4
  <2>2. 1 \in Int /\ last \in Int
    BY <1>4
  <2> HIDE DEF last
  <2>3. /\ SubSeq(t.mods, 1, last) \in Seq(Mods)
        /\ Len(SubSeq(t.mods, 1, last)) = IF 1 <= last THEN last - 1 + 1 ELSE 0
        /\ \A i \in 1..(last - 1 + 1) : SubSeq(t.mods, 1, last)[i] = t.mods[1 + i - 1]
    BY <2>1, <2>2, SubSeqProperties
  <2>4. last - 1 + 1 = last /\ \A i \in 1..last : 1 + i - 1 = i
    BY <2>2
  <2> QED
    BY <2>3, <2>4, <1>4
<1>8. HasPointer(t.mods) <=> last # 0
  BY <1>1, <1>3 DEF HasPointer
<1>9. SubSeq(t.mods, 1, last) # <<>> <=> last # 0
  <2> HIDE DEF last
  <2> QED
    BY <1>7, EmptySeq
<1>10. last # 0 => IsPointer(t.mods[last])
  BY <1>3
<1>11. last # 0 => last \in 1..last
  BY <1>4
<1> QED
  <2> HIDE DEF last
  <2> QED
    BY <1>6, <1>7, <1>8, <1>9, <1>10, <1>11

\* It has a size exactly when the entry has one, or there is a pointer.
LEMMA ElementSize ==
  ASSUME NEW tab, NEW t, tab[t.id].size \in Sizes, t.mods \in Seq(Mods),
         t = [id |-> t.id, const |-> t.const, mods |-> t.mods]
  PROVE  size_of(tab, element(t)) # 0 <=> HasPointer(t.mods) \/ tab[t.id].size # 0
<1> DEFINE u == element(t)
           n == Len(u.mods)
<1>1. u.id = t.id /\ u.mods \in Seq(Mods) /\ tab[u.id].size \in Sizes
  BY ElementIs
<1>2. PICK f : AreSizes(f, tab[u.id].size, u.mods) /\ size_of(tab, u) = f[n]
  <2> HIDE DEF u
  <2> QED
    BY <1>1, SizeOfIs
<1>3. f[0] = tab[u.id].size /\ \A i \in 1..n : f[i] = Scaled(u.mods[i], f[i - 1])
  <2> HIDE DEF u
  <2> QED
    BY <1>1, <1>2, SizeAt
<1>4. CASE HasPointer(t.mods)
  <2>1. u.mods # <<>> /\ IsPointer(u.mods[n])
    BY <1>4, ElementIs
  <2>2. n \in 1..n
    <3> HIDE DEF u
    <3> QED
      BY <1>1, <2>1, FrontProperties
  <2>3. f[n] = PtrSize
    BY <1>3, <2>1, <2>2 DEF Scaled
  <2> QED
    BY <1>2, <1>4, <2>3, Limits
<1>5. CASE ~HasPointer(t.mods)
  <2>1. u.mods = <<>>
    BY <1>5, ElementIs
  <2>2. n = 0
    BY <2>1
  <2> QED
    BY <1>1, <1>2, <1>3, <1>5, <2>2
<1> QED
  BY <1>4, <1>5

-----------------------------------------------------------------------------
(***************************************************************************)
(* Tables, and how they grow.                                              *)
(***************************************************************************)
\* Types, fields and entries whose ids are up to n.
TypeIn(n) == [id : 1..n, const : BOOLEAN, mods : Seq(Mods)]
FieldIn(n) == [name : FieldNames, type : TypeIn(n), offset : Nat, size : Sizes]
Entry(n) == [kind : {"basic", "struct", "function"}, name : AllNames,
             size : Sizes, align : Nat \ {0}, fields : Seq(FieldIn(n)),
             returns : Seq(TypeIn(n)), params : Seq(TypeIn(n))]

\* The ids in a table are in the table.
Well(tab) ==
  /\ tab \in Seq(Entry(Len(tab)))
  /\ \A i \in 1..Len(tab) : tab[i].kind = "function" => tab[i].returns # <<>>

SameType(a, b) ==
  a.kind = b.kind /\ a.name = b.name /\ a.returns = b.returns /\ a.params = b.params

OneEach(tab) == \A i, j \in 1..Len(tab) : SameType(tab[i], tab[j]) => i = j

\* An entry that was just made.
Bare(e) == e.fields = <<>> /\ e.align = 1

\* What was in the table stays as it is; what is new has no fields yet.
Kept(tab, tab2) ==
  /\ Len(tab) <= Len(tab2)
  /\ \A i \in 1..Len(tab) : tab2[i] = tab[i]
  /\ \A i \in 1..Len(tab2) : i > Len(tab) => Bare(tab2[i])

Grows(tab, tab2) == Well(tab2) /\ OneEach(tab2) /\ Kept(tab, tab2)

\* An entry of a shorter table is one of a longer table.
LEMMA EntryWidens ==
  ASSUME NEW n \in Nat, NEW m \in Nat, n <= m
  PROVE  TypeIn(n) \subseteq TypeIn(m) /\ Entry(n) \subseteq Entry(m)
<1>1. TypeIn(n) \subseteq TypeIn(m)
  <2>1. 1..n \subseteq 1..m
    OBVIOUS
  <2> QED
    BY <2>1 DEF TypeIn
<1>2. FieldIn(n) \subseteq FieldIn(m)
  BY <1>1 DEF FieldIn
<1>3. Seq(TypeIn(n)) \subseteq Seq(TypeIn(m)) /\ Seq(FieldIn(n)) \subseteq Seq(FieldIn(m))
  BY <1>1, <1>2
<1> QED
  BY <1>1, <1>3 DEF Entry

\* What Well says of each entry.
LEMMA EntryFacts ==
  ASSUME NEW tab, Well(tab)
  PROVE  Len(tab) \in Nat /\ \A i \in 1..Len(tab) : tab[i] \in Entry(Len(tab)) /\ tab[i].size \in Sizes
<1>1. Len(tab) \in Nat /\ \A i \in 1..Len(tab) : tab[i] \in Entry(Len(tab))
  BY LenProperties DEF Well
<1> QED
  BY <1>1 DEF Entry

\* A table grows into itself.
LEMMA GrowsNot ==
  ASSUME NEW tab, Well(tab), OneEach(tab)
  PROVE  Grows(tab, tab)
BY EntryFacts DEF Grows, Kept

\* Growing twice is growing.
LEMMA GrowsOn ==
  ASSUME NEW a, NEW b, NEW c, Well(a), Grows(a, b), Grows(b, c)
  PROVE  Grows(a, c)
<1>1. Well(b) /\ Well(c) /\ OneEach(c) /\ Kept(a, b) /\ Kept(b, c)
  BY DEF Grows
<1>2. Len(a) \in Nat /\ Len(b) \in Nat /\ Len(c) \in Nat
  BY <1>1, EntryFacts
<1>3. Len(a) <= Len(b) /\ Len(b) <= Len(c)
  BY <1>1 DEF Kept
<1>4. \A i \in 1..Len(a) : c[i] = a[i]
  BY <1>1, <1>2, <1>3 DEF Kept
<1>5. ASSUME NEW i \in 1..Len(c), i > Len(a)
      PROVE  Bare(c[i])
  <2>1. CASE i > Len(b)
    BY <2>1, <1>1 DEF Kept
  <2>2. CASE i <= Len(b)
    <3>1. i \in 1..Len(b)
      BY <2>2, <1>2
    <3>2. Bare(b[i]) /\ c[i] = b[i]
      BY <3>1, <1>1, <1>5 DEF Kept
    <3> QED
      BY <3>2
  <2> QED
    BY <2>1, <2>2, <1>2
<1>6. Len(a) <= Len(c)
  BY <1>2, <1>3
<1> QED
  BY <1>1, <1>4, <1>5, <1>6 DEF Grows, Kept

\* insert_type of an entry that is not in the table.
LEMMA AppendEntry ==
  ASSUME NEW tab, Well(tab), OneEach(tab), NEW e \in Entry(Len(tab)), Bare(e),
         e.kind = "function" => e.returns # <<>>,
         \A i \in 1..Len(tab) : ~SameType(tab[i], e)
  PROVE  /\ Grows(tab, Append(tab, e))
         /\ Len(Append(tab, e)) = Len(tab) + 1 /\ Append(tab, e)[Len(tab) + 1] = e
<1> DEFINE n == Len(tab)
           tab2 == Append(tab, e)
<1>1. n \in Nat /\ n + 1 \in Nat /\ \A i \in 1..n : tab[i] \in Entry(n)
  BY EntryFacts
<1>2. tab \in Seq(Entry(n + 1)) /\ e \in Entry(n + 1)
  <2>1. Entry(n) \subseteq Entry(n + 1)
    BY <1>1, EntryWidens
  <2>2. tab \in Seq(Entry(n))
    BY DEF Well
  <2> QED
    BY <2>1, <2>2
<1>3. /\ tab2 \in Seq(Entry(n + 1)) /\ Len(tab2) = n + 1
      /\ \A i \in 1..n : tab2[i] = tab[i]
      /\ tab2[n + 1] = e
  <2> HIDE DEF n
  <2>1. /\ Append(tab, e) \in Seq(Entry(n + 1))
        /\ Len(Append(tab, e)) = Len(tab) + 1
        /\ \A i \in 1..Len(tab) : Append(tab, e)[i] = tab[i]
        /\ Append(tab, e)[Len(tab) + 1] = e
    BY <1>2, AppendProperties
  <2> QED
    BY <2>1 DEF n
<1>4. \A i \in 1..(n + 1) : i \in 1..n \/ i = n + 1
  BY <1>1
<1> HIDE DEF n, tab2
<1>5. Well(tab2)
  <2>1. \A i \in 1..n : tab[i].kind = "function" => tab[i].returns # <<>>
    BY DEF Well, n
  <2> QED
    BY <2>1, <1>3, <1>4 DEF Well
<1>6. OneEach(tab2)
  <2>1. \A i, j \in 1..n : SameType(tab[i], tab[j]) => i = j
    BY DEF OneEach, n
  <2>2. \A i \in 1..n : ~SameType(tab[i], e) /\ ~SameType(e, tab[i])
    BY DEF SameType, n
  <2> QED
    BY <2>1, <2>2, <1>3, <1>4 DEF OneEach
<1>7. Kept(tab, tab2)
  <2>1. \A i \in 1..(n + 1) : i > n => i = n + 1
    BY <1>1
  <2>2. n <= n + 1
    BY <1>1
  <2> QED
    BY <2>1, <2>2, <1>3 DEF Kept, n
<1> QED
  BY <1>3, <1>5, <1>6, <1>7 DEF Grows, n, tab2

\* get_id of a name in the table.
LEMMA IdOfName ==
  ASSUME NEW tab, Well(tab), NEW n, has_type(tab, n)
  PROVE  get_id(tab, n) \in 1..Len(tab) /\ tab[get_id(tab, n)].name = n
<1>1. named(tab, n) \in SUBSET Nat /\ named(tab, n) # {}
  BY EntryFacts DEF named, has_type
<1>2. get_id(tab, n) \in named(tab, n)
  BY <1>1, MinOfSet DEF get_id
<1> QED
  BY <1>2 DEF named

-----------------------------------------------------------------------------
(***************************************************************************)
(* The handlers' functions on a table.                                     *)
(***************************************************************************)
\* A function type is an entry.
LEMMA FunctionEntry ==
  ASSUME NEW n \in Nat, NEW r \in TypeIn(n), NEW ps \in Seq(TypeIn(n))
  PROVE  /\ Function(r, ps) \in Entry(n) /\ Bare(Function(r, ps))
         /\ Function(r, ps).kind = "function" /\ Function(r, ps).returns = <<r>>
         /\ Function(r, ps).params = ps
<1>1. <<>> \in Seq(FieldIn(n)) /\ <<r>> \in Seq(TypeIn(n))
  OBVIOUS
<1>2. 0 \in Sizes
  BY Limits
<1> QED
  BY <1>1, <1>2 DEF Function, Entry, AllNames, Bare

\* make_function_type grows the table, and its id is in it.
LEMMA MakeFunctionType ==
  ASSUME NEW tab, Well(tab), OneEach(tab),
         NEW r \in TypeIn(Len(tab)), NEW ps \in Seq(TypeIn(Len(tab)))
  PROVE  /\ Grows(tab, make_function_type(tab, r, ps).tab)
         /\ make_function_type(tab, r, ps).id \in 1..Len(make_function_type(tab, r, ps).tab)
<1> DEFINE same == {i \in 1..Len(tab) : tab[i].kind = "function" /\ tab[i].returns = <<r>>
                                                                  /\ tab[i].params = ps}
           e == Function(r, ps)
<1>0. Len(tab) \in Nat
  BY EntryFacts
<1>1. CASE same # {}
  <2>1. same \in SUBSET Nat
    BY <1>0
  <2>2. Min(same) \in same
    <3> HIDE DEF same
    <3> QED
      BY <1>1, <2>1, MinOfSet
  <2>3. Min(same) \in 1..Len(tab)
    BY <2>2
  <2>4. make_function_type(tab, r, ps) = [tab |-> tab, id |-> Min(same)]
    BY <1>1 DEF make_function_type
  <2> HIDE DEF same
  <2> QED
    BY <2>3, <2>4, GrowsNot
<1>2. CASE same = {}
  <2>1. /\ e \in Entry(Len(tab)) /\ Bare(e) /\ e.kind = "function"
        /\ e.returns = <<r>> /\ e.params = ps
    BY <1>0, FunctionEntry
  <2>2. \A i \in 1..Len(tab) : ~SameType(tab[i], e)
    <3> HIDE DEF e
    <3> QED
      BY <1>2, <2>1 DEF SameType
  <2>3. e.returns # <<>>
    BY <2>1
  <2>4. /\ Grows(tab, Append(tab, e))
        /\ Len(Append(tab, e)) = Len(tab) + 1
    <3> HIDE DEF e
    <3> QED
      BY <2>1, <2>2, <2>3, AppendEntry
  <2>5. make_function_type(tab, r, ps) = [tab |-> Append(tab, e), id |-> Len(tab) + 1]
    BY <1>2 DEF make_function_type
  <2>6. Len(tab) + 1 \in 1..(Len(tab) + 1)
    BY <1>0
  <2> HIDE DEF e
  <2> QED
    BY <2>4, <2>5, <2>6
<1> QED
  BY <1>1, <1>2

\* Contains is membership.
LEMMA NoZero ==
  ASSUME NEW s \in Seq(Modifiers), ~Contains(s, 0)
  PROVE  s \in Seq(Mods)
<1>1. \A i \in 1..Len(s) : s[i] \in Modifiers /\ s[i] # 0
  BY LenProperties DEF Contains
<1>2. \A i \in 1..Len(s) : s[i] \in Mods
  BY <1>1 DEF Modifiers, Mods
<1> QED
  BY <1>2

\* The specifiers that Types uses.
Simple(p) == p.const \in BOOLEAN /\ p.mods \in Seq(Modifiers)

\* What TypesAssumption says of a specifier and of its parameters.
LEMMA SpecFacts ==
  ASSUME NEW spec \in TypeSpec
  PROVE  /\ Simple(spec) /\ spec.call \in BOOLEAN /\ spec.post \in Seq(Modifiers)
         /\ Len(spec.params) \in Nat
         /\ \A i \in 1..Len(spec.params) : Simple(spec.params[i])
<1>1. spec.params \in Seq(PlainSpec) /\ Simple(spec) /\ spec.call \in BOOLEAN
      /\ spec.post \in Seq(Modifiers)
  BY DEF TypeSpec, Simple
<1>2. Len(spec.params) \in Nat /\ \A i \in 1..Len(spec.params) : spec.params[i] \in PlainSpec
  BY <1>1, LenProperties
<1> QED
  BY <1>1, <1>2 DEF PlainSpec, Simple

\* The type of a specifier without a call.
LEMMA PlainType ==
  ASSUME NEW tab, Well(tab), NEW p, Simple(p), has_type(tab, p.base), ~Contains(p.mods, 0)
  PROVE  plain_type(tab, p) \in TypeIn(Len(tab))
BY IdOfName, NoZero DEF plain_type, TypeIn, Simple

\* make_node_type grows the table, and its type is one of the table.
LEMMA MakeNodeType ==
  ASSUME NEW tab, Well(tab), OneEach(tab), NEW spec \in TypeSpec
  PROVE  /\ Grows(tab, make_node_type(tab, spec).tab)
         /\ make_node_type(tab, spec).ok \in BOOLEAN
         /\ make_node_type(tab, spec).ok =>
              make_node_type(tab, spec).type \in TypeIn(Len(make_node_type(tab, spec).tab))
<1> DEFINE made == make_node_type(tab, spec)
           params == [i \in 1..Len(spec.params) |-> plain_type(tab, spec.params[i])]
           known == has_type(tab, spec.base) /\ ~Contains(spec.mods, 0)
           called == make_function_type(tab, plain_type(tab, spec), params)
           refused == ~known \/ (spec.call /\ ~params_are_valid(tab, spec.params))
           fine == ~Contains(spec.post, 0) /\ (spec.post # <<>> => IsPointer(Head(spec.post)))
<1>0. Grows(tab, tab)
  BY GrowsNot
<1>1. CASE refused
  <2>1. made = [tab |-> tab, ok |-> FALSE]
    BY <1>1 DEF make_node_type
  <2> QED
    BY <2>1, <1>0
<1>2. CASE ~refused /\ ~spec.call
  <2>1. made = [tab |-> tab, ok |-> TRUE, type |-> plain_type(tab, spec)]
    BY <1>2 DEF make_node_type
  <2>2. plain_type(tab, spec) \in TypeIn(Len(tab))
    BY <1>2, PlainType, SpecFacts
  <2> QED
    BY <2>1, <2>2, <1>0
<1>3. CASE ~refused /\ spec.call
  <2>1. made = [tab |-> called.tab, ok |-> fine,
                type |-> [id |-> called.id, const |-> FALSE, mods |-> spec.post]]
    BY <1>3 DEF make_node_type
  <2>2. plain_type(tab, spec) \in TypeIn(Len(tab))
    BY <1>3, PlainType, SpecFacts
  <2>3. params \in Seq(TypeIn(Len(tab)))
    <3>1. \A i \in 1..Len(spec.params) : plain_type(tab, spec.params[i]) \in TypeIn(Len(tab))
      BY <1>3, PlainType, SpecFacts DEF params_are_valid
    <3> QED
      BY <3>1, SpecFacts
  <2>4. Grows(tab, called.tab) /\ called.id \in 1..Len(called.tab)
    <3> HIDE DEF params
    <3> QED
      BY <2>2, <2>3, MakeFunctionType
  <2>5. fine => spec.post \in Seq(Mods)
    BY NoZero, SpecFacts
  <2>6. fine \in BOOLEAN
    OBVIOUS
  <2> HIDE DEF called, fine, made
  <2>7. made.tab = called.tab /\ made.ok = fine
        /\ made.type = [id |-> called.id, const |-> FALSE, mods |-> spec.post]
    BY <2>1
  <2>8. made.ok => made.type \in TypeIn(Len(called.tab))
    BY <2>4, <2>5, <2>7 DEF TypeIn
  <2> QED
    BY <2>4, <2>6, <2>7, <2>8 DEF made
<1> QED
  BY <1>1, <1>2, <1>3

\* check_sizeof grows the table.
LEMMA CheckSizeof ==
  ASSUME NEW tab, Well(tab), OneEach(tab), NEW spec \in TypeSpec
  PROVE  Grows(tab, check_sizeof(tab, spec).tab) /\ check_sizeof(tab, spec).ok \in BOOLEAN
<1> DEFINE made == make_node_type(tab, spec)
<1>1. check_sizeof(tab, spec) =
        [tab |-> made.tab,
         ok |-> made.ok /\ ~is_function(made.tab, made.type) /\ size_of(made.tab, made.type) # 0]
  BY DEF check_sizeof
<1>2. Grows(tab, made.tab)
  BY MakeNodeType
<1> QED
  <2> HIDE DEF made
  <2> QED
    BY <1>1, <1>2

\* The arguments of a call are checked one after the other, each with the table
\* that the one before it has left.
AreChecked(f, tab, args) ==
  f = [i \in 0..Len(args) |-> IF i = 0 THEN [tab |-> tab, ok |-> TRUE]
                              ELSE check_sizeof(f[i - 1].tab, args[i])]

Tables == {t \in Seq(UNION {Entry(n) : n \in Nat}) : Well(t) /\ OneEach(t)}
Outcomes == [tab : Tables, ok : BOOLEAN]

\* A table that is well is an element of the set over which check_args recurs.
LEMMA WellTables ==
  ASSUME NEW tab, Well(tab), OneEach(tab)
  PROVE  tab \in Tables
<1>1. Len(tab) \in Nat
  BY EntryFacts
<1>2. Entry(Len(tab)) \subseteq UNION {Entry(n) : n \in Nat}
  BY <1>1
<1>3. tab \in Seq(UNION {Entry(n) : n \in Nat})
  BY <1>2 DEF Well
<1> QED
  BY <1>3 DEF Tables

\* An outcome of check_sizeof is one.
LEMMA SizeofOutcome ==
  ASSUME NEW x \in Outcomes, NEW spec \in TypeSpec
  PROVE  check_sizeof(x.tab, spec) \in Outcomes
<1>1. Well(x.tab) /\ OneEach(x.tab)
  BY DEF Outcomes, Tables
<1>2. Grows(x.tab, check_sizeof(x.tab, spec).tab) /\ check_sizeof(x.tab, spec).ok \in BOOLEAN
  BY <1>1, CheckSizeof
<1>3. check_sizeof(x.tab, spec).tab \in Tables
  BY <1>2, WellTables DEF Grows
<1>4. check_sizeof(x.tab, spec) =
        [tab |-> check_sizeof(x.tab, spec).tab, ok |-> check_sizeof(x.tab, spec).ok]
  BY DEF check_sizeof
<1> QED
  BY <1>2, <1>3, <1>4 DEF Outcomes

\* The recursion of check_args defines an outcome for each number of arguments.
LEMMA ChecksExist ==
  ASSUME NEW tab, Well(tab), OneEach(tab), NEW args \in Seq(TypeSpec)
  PROVE  \E f : AreChecked(f, tab, args)
<1> DEFINE n == Len(args)
           start == [tab |-> tab, ok |-> TRUE]
           table == [i \in 1..n |-> [x \in Outcomes |-> check_sizeof(x.tab, args[i])]]
<1>1. n \in Nat /\ \A i \in 1..n : args[i] \in TypeSpec
  BY LenProperties
<1>2. /\ table \in [1..n -> [Outcomes -> Outcomes]]
      /\ \A i \in 1..n : \A x \in Outcomes : table[i][x] = check_sizeof(x.tab, args[i])
  BY <1>1, SizeofOutcome
<1>3. start \in Outcomes
  BY WellTables DEF Outcomes
<1>4. PICK step \in [1..n -> [Outcomes -> Outcomes]] :
        \A i \in 1..n : \A x \in Outcomes : step[i][x] = check_sizeof(x.tab, args[i])
  BY <1>2
<1>5. PICK f \in [0..n -> Outcomes] : Repeats(f, n, start, step)
  <2>1. n \in Nat
    BY <1>1
  <2> HIDE DEF n, start
  <2> QED
    BY <2>1, <1>3, RecursionTo
<1>6. f[0] = start /\ \A i \in 1..n : f[i] = step[i][f[i - 1]]
  BY <1>5 DEF Repeats
<1>7. ASSUME NEW i \in 1..n
      PROVE  f[i] = check_sizeof(f[i - 1].tab, args[i])
  <2>1. i - 1 \in 0..n
    BY <1>1
  <2> QED
    BY <1>4, <1>6, <2>1
<1>8. AreChecked(f, tab, args)
  <2>1. \A i \in 0..n : i # 0 => i \in 1..n
    BY <1>1
  <2>2. f = [i \in 0..n |-> f[i]]
    OBVIOUS
  <2>3. \A i \in 0..n : f[i] = IF i = 0 THEN start ELSE check_sizeof(f[i - 1].tab, args[i])
    BY <2>1, <1>6, <1>7
  <2>4. f = [i \in 0..n |-> IF i = 0 THEN start ELSE check_sizeof(f[i - 1].tab, args[i])]
    <3> HIDE DEF n, start
    <3> QED
      BY <2>2, <2>3
  <2> QED
    BY <2>4 DEF AreChecked
<1> QED
  BY <1>8

\* The table after any number of arguments has grown out of the one before.
LEMMA CheckArgs ==
  ASSUME NEW args \in Seq(TypeSpec), Well(types), OneEach(types)
  PROVE  \A i \in 0..Len(args) : Grows(types, check_args(args)[i].tab)
<1> DEFINE n == Len(args)
           f == CHOOSE f : AreChecked(f, types, args)
<1>1. check_args(args) = f
  BY DEF check_args, AreChecked
<1>2. AreChecked(f, types, args)
  BY ChecksExist
<1>3. n \in Nat /\ \A i \in 1..n : args[i] \in TypeSpec
  BY LenProperties
<1> HIDE DEF f
<1>4. f[0] = [tab |-> types, ok |-> TRUE]
  BY <1>2, <1>3 DEF AreChecked
<1>5. ASSUME NEW i \in 1..n
      PROVE  f[i] = check_sizeof(f[i - 1].tab, args[i])
  <2> DEFINE e(j) == IF j = 0 THEN [tab |-> types, ok |-> TRUE]
                     ELSE check_sizeof(f[j - 1].tab, args[j])
  <2>1. f = [j \in 0..n |-> e(j)]
    BY <1>2 DEF AreChecked
  <2>2. i \in 0..n /\ i # 0
    BY <1>3
  <2>3. f[i] = e(i)
    <3> HIDE DEF e, n
    <3> QED
      BY <2>1, <2>2
  <2> QED
    BY <2>3, <2>2
<1> DEFINE Good == {i \in 0..n : Grows(types, f[i].tab)}
<1>6. 0 \in Good
  <2>1. Grows(types, types)
    BY GrowsNot
  <2> QED
    BY <2>1, <1>3, <1>4
<1>7. ASSUME NEW i \in 1..n, i - 1 \in Good
      PROVE  i \in Good
  <2>1. Grows(types, f[i - 1].tab)
    BY <1>7
  <2>2. Grows(f[i - 1].tab, f[i].tab)
    <3>1. Well(f[i - 1].tab) /\ OneEach(f[i - 1].tab)
      BY <2>1 DEF Grows
    <3> QED
      BY <3>1, <1>3, <1>5, CheckSizeof
  <2>3. Grows(types, f[i].tab)
    BY <2>1, <2>2, GrowsOn
  <2> QED
    BY <2>3, <1>3
<1>8. 0..n \subseteq Good
  <2> HIDE DEF Good, n
  <2> QED
    BY <1>3, <1>6, <1>7, InductionTo
<1> QED
  BY <1>1, <1>8

-----------------------------------------------------------------------------
(***************************************************************************)
(* One entry changes.                                                      *)
(***************************************************************************)
\* An entry of the same type in the place of an entry.
LEMMA ReplaceEntry ==
  ASSUME NEW tab, Well(tab), OneEach(tab), NEW o \in 1..Len(tab), NEW e \in Entry(Len(tab)),
         SameType(e, tab[o])
  PROVE  LET tab2 == [tab EXCEPT ![o] = e]
         IN  /\ Well(tab2) /\ OneEach(tab2) /\ Len(tab2) = Len(tab)
             /\ tab2[o] = e /\ \A i \in 1..Len(tab) : i # o => tab2[i] = tab[i]
<1> DEFINE tab2 == [tab EXCEPT ![o] = e]
<1>1. tab \in Seq(Entry(Len(tab)))
  BY DEF Well
<1>2. /\ tab2 \in Seq(Entry(Len(tab))) /\ Len(tab2) = Len(tab)
      /\ \A i \in 1..Len(tab) : tab2[i] = IF i = o THEN e ELSE tab[i]
  BY <1>1, ExceptSeq
<1> HIDE DEF tab2
<1>3. Well(tab2)
  <2>1. \A i \in 1..Len(tab) : tab[i].kind = "function" => tab[i].returns # <<>>
    BY DEF Well
  <2>2. e.kind = "function" => e.returns # <<>>
    BY <2>1 DEF SameType
  <2> QED
    BY <1>2, <2>1, <2>2 DEF Well
<1>4. \A i \in 1..Len(tab) : SameType(tab2[i], tab[i])
  BY <1>2 DEF SameType
<1>5. OneEach(tab2)
  <2>1. \A i, j \in 1..Len(tab) : SameType(tab2[i], tab2[j]) => SameType(tab[i], tab[j])
    BY <1>4 DEF SameType
  <2> QED
    BY <2>1, <1>2 DEF OneEach
<1> QED
  BY <1>2, <1>3, <1>5 DEF tab2

\* Rounding up keeps a size a size.
LEMMA RoundUp ==
  ASSUME NEW n \in Sizes, NEW a \in Nat \ {0}
  PROVE  round_up(n, a) \in Sizes
<1>1. n \in Int /\ n % a \in Int
  BY Limits DEF Sizes
<1>2. n + (a - (n % a)) \in Int
  BY <1>1
<1> QED
  BY <1>2, Limits DEF round_up

\* update_size makes no structure incomplete.
LEMMA UpdateSize ==
  ASSUME NEW n \in Nat, NEW info \in Entry(n)
  PROVE  update_size(info) \in Sizes /\ update_size(info) # 0
<1>1. info.size \in Sizes /\ info.align \in Nat \ {0}
  BY DEF Entry
<1>2. round_up(info.size, info.align) \in Sizes
  BY <1>1, RoundUp
<1> QED
  BY <1>2, Limits DEF update_size

\* The larger of two alignments.
LEMMA LargerOfTwo ==
  ASSUME NEW a \in Nat \ {0}, NEW b \in Nat \ {0}
  PROVE  Max({a, b}) \in Nat \ {0}
<1>1. \E x \in {a, b} : \A y \in {a, b} : x >= y
  OBVIOUS
<1>2. Max({a, b}) \in {a, b}
  BY <1>1 DEF Max
<1> QED
  BY <1>2

\* The field of the type t that is the last one of the entry o in tab2, and was not there in tab.
IsAdded(tab, tab2, o, t, field) ==
  /\ field.type = t /\ field.size = size_of(tab, t)
  /\ field.offset = round_up(tab[o].size, align_of(tab, t))
  /\ tab2[o].fields = Append(tab[o].fields, field)
  /\ tab2[o].size = (field.offset + field.size) % SizeLimit
  /\ tab2[o].align = Max({tab[o].align, align_of(tab, t)})

\* add_field puts one field and another size and alignment into one entry.
LEMMA AddField ==
  ASSUME NEW tab, Well(tab), OneEach(tab), NEW o \in 1..Len(tab), NEW name \in FieldNames,
         NEW t \in TypeIn(Len(tab))
  PROVE  LET tab2 == add_field(tab, o, name, t)
         IN  /\ Well(tab2) /\ OneEach(tab2) /\ Len(tab2) = Len(tab)
             /\ \A i \in 1..Len(tab) : i # o => tab2[i] = tab[i]
             /\ \E field \in FieldIn(Len(tab)) : IsAdded(tab, tab2, o, t, field)
<1> DEFINE n == Len(tab)
           info == tab[o]
           field == [name |-> name, type |-> t, offset |-> round_up(info.size, align_of(tab, t)),
                     size |-> size_of(tab, t)]
           e == [info EXCEPT !.fields = Append(@, field),
                             !.size = (field.offset + field.size) % SizeLimit,
                             !.align = Max({@, align_of(tab, t)})]
           tab2 == add_field(tab, o, name, t)
<1>0. n \in Nat /\ \A i \in 1..n : tab[i] \in Entry(n) /\ tab[i].size \in Sizes
  BY EntryFacts
<1>1. t.id \in 1..n /\ t.mods \in Seq(Mods)
  BY DEF TypeIn
<1>2. size_of(tab, t) \in Sizes
  BY <1>0, <1>1, SizeOfType
<1>3. align_of(tab, t) \in Nat \ {0}
  <2>1. tab[t.id].align \in Nat \ {0}
    BY <1>0, <1>1 DEF Entry
  <2> QED
    BY <2>1, Limits DEF align_of
<1>4. round_up(info.size, align_of(tab, t)) \in Sizes
  BY <1>0, <1>3, RoundUp
<1>5. /\ field \in FieldIn(n) /\ field.type = t /\ field.size = size_of(tab, t)
      /\ field.offset \in Sizes /\ field.offset = round_up(info.size, align_of(tab, t))
  BY <1>2, <1>4 DEF FieldIn, Sizes
<1>6. info \in Entry(n)
  BY <1>0
<1>7. info = [kind |-> info.kind, name |-> info.name, size |-> info.size, align |-> info.align,
              fields |-> info.fields, returns |-> info.returns, params |-> info.params]
      /\ info.fields \in Seq(FieldIn(n)) /\ info.align \in Nat \ {0}
  BY <1>6 DEF Entry
<1>8. /\ Append(info.fields, field) \in Seq(FieldIn(n))
      /\ (field.offset + field.size) % SizeLimit \in Sizes
      /\ Max({info.align, align_of(tab, t)}) \in Nat \ {0}
  <2>1. Append(info.fields, field) \in Seq(FieldIn(n))
    <3> HIDE DEF field, info, n
    <3> QED
      BY <1>5, <1>7, AppendProperties
  <2>2. field.offset + field.size \in Int
    <3>1. \A x, y \in Sizes : x + y \in Int
      BY Limits DEF Sizes
    <3> HIDE DEF field
    <3> QED
      BY <3>1, <1>2, <1>5
  <2>3. (field.offset + field.size) % SizeLimit \in Sizes
    <3> HIDE DEF field
    <3> QED
      BY <2>2, Limits
  <2>4. Max({info.align, align_of(tab, t)}) \in Nat \ {0}
    <3> HIDE DEF info
    <3> QED
      BY <1>3, <1>7, LargerOfTwo
  <2> QED
    BY <2>1, <2>3, <2>4
<1>9. /\ e \in Entry(n) /\ SameType(e, info) /\ e.fields = Append(info.fields, field)
      /\ e.size = (field.offset + field.size) % SizeLimit
      /\ e.align = Max({info.align, align_of(tab, t)})
  <2> HIDE DEF field, info, n
  <2> QED
    BY <1>6, <1>8 DEF Entry, SameType
<1>10. tab2 = [tab EXCEPT ![o] = e]
  BY DEF add_field
<1>11. LET tab3 == [tab EXCEPT ![o] = e]
       IN  /\ Well(tab3) /\ OneEach(tab3) /\ Len(tab3) = Len(tab)
           /\ tab3[o] = e /\ \A i \in 1..Len(tab) : i # o => tab3[i] = tab[i]
  <2> HIDE DEF e
  <2> QED
    BY <1>9, ReplaceEntry
<1> HIDE DEF e, tab2, field
<1>12. IsAdded(tab, tab2, o, t, field)
  BY <1>5, <1>9, <1>10, <1>11 DEF IsAdded
<1> QED
  BY <1>5, <1>10, <1>11, <1>12 DEF tab2

-----------------------------------------------------------------------------
(***************************************************************************)
(* The invariants, as predicates on a table, the id of the structure that  *)
(* is open (or 0), and the ids of the structures that are defined.         *)
(***************************************************************************)
\* A structure that is defined is not open again, and has the size that makes
\* begin_structure refuse it.
Closed(tab, o, d) == \A s \in d : s # o /\ tab[s].size # 0

Sound(tab, o, d) ==
  /\ Well(tab) /\ OneEach(tab)
  /\ o \in 0..Len(tab)
  /\ d \subseteq 1..Len(tab)
  /\ Closed(tab, o, d)

\* A field has the size of its type.  If no pointer is in the type, its entry is
\* complete and not open.
FieldFresh(tab, o, f) ==
  /\ f.size = size_of(tab, f.type)
  /\ HasPointer(f.type.mods) \/ (f.type.id # o /\ tab[f.type.id].size # 0)

Fresh(tab, o) ==
  \A i \in 1..Len(tab) : \A k \in 1..Len(tab[i].fields) : FieldFresh(tab, o, tab[i].fields[k])

\* The fields of a table that is well.
LEMMA FieldFacts ==
  ASSUME NEW tab, Well(tab), NEW i \in 1..Len(tab)
  PROVE  /\ Len(tab[i].fields) \in Nat
         /\ \A k \in 1..Len(tab[i].fields) :
              /\ tab[i].fields[k].type \in TypeIn(Len(tab))
              /\ tab[i].fields[k].type.id \in 1..Len(tab)
              /\ tab[i].fields[k].type.mods \in Seq(Mods)
<1>1. tab[i].fields \in Seq(FieldIn(Len(tab)))
  BY EntryFacts DEF Entry
<1>2. Len(tab[i].fields) \in Nat
      /\ \A k \in 1..Len(tab[i].fields) : tab[i].fields[k] \in FieldIn(Len(tab))
  BY <1>1, LenProperties
<1> QED
  BY <1>2 DEF FieldIn, TypeIn

\* A field stays fresh when the entry of its type keeps its size, or there is a
\* pointer in its type.
LEMMA FieldStaysFresh ==
  ASSUME NEW tab, NEW tab2, NEW o, NEW o2, NEW f, FieldFresh(tab, o, f), f.type.mods \in Seq(Mods),
         tab[f.type.id].size \in Sizes, tab2[f.type.id].size \in Sizes,
         \/ HasPointer(f.type.mods)
         \/ tab2[f.type.id].size = tab[f.type.id].size /\ f.type.id # o2
  PROVE  FieldFresh(tab2, o2, f)
<1>1. size_of(tab2, f.type) = size_of(tab, f.type)
  BY SizeBehindPointer, SizeSame
<1> QED
  BY <1>1 DEF FieldFresh

\* Growth keeps both.
LEMMA GrowKeepsSound ==
  ASSUME NEW tab, NEW o, NEW d, Sound(tab, o, d), NEW tab2, Grows(tab, tab2)
  PROVE  Sound(tab2, o, d)
<1>1. /\ Well(tab) /\ Well(tab2) /\ OneEach(tab2) /\ Len(tab) <= Len(tab2)
      /\ \A i \in 1..Len(tab) : tab2[i] = tab[i]
  BY DEF Sound, Grows, Kept
<1>2. Len(tab) \in Nat /\ Len(tab2) \in Nat
  BY <1>1, EntryFacts
<1>3. o \in 0..Len(tab2) /\ d \subseteq 1..Len(tab2)
  BY <1>1, <1>2 DEF Sound
<1>4. Closed(tab2, o, d)
  <2>1. d \subseteq 1..Len(tab) /\ Closed(tab, o, d)
    BY DEF Sound
  <2> QED
    BY <2>1, <1>1 DEF Closed
<1> QED
  BY <1>1, <1>3, <1>4 DEF Sound

\* The fields there stay fresh, as entries that were there keep their sizes; new entries have none.
LEMMA GrowKeepsFresh ==
  ASSUME NEW tab, Well(tab), NEW o, Fresh(tab, o), NEW tab2, Grows(tab, tab2)
  PROVE  Fresh(tab2, o)
<1>1. /\ Well(tab2) /\ Len(tab) <= Len(tab2)
      /\ \A i \in 1..Len(tab) : tab2[i] = tab[i]
      /\ \A i \in 1..Len(tab2) : i > Len(tab) => tab2[i].fields = <<>>
  BY DEF Grows, Kept, Bare
<1>2. Len(tab) \in Nat /\ Len(tab2) \in Nat
  BY <1>1, EntryFacts
<1>3. ASSUME NEW i \in 1..Len(tab2), NEW k \in 1..Len(tab2[i].fields)
      PROVE  FieldFresh(tab2, o, tab2[i].fields[k])
  <2>1. CASE i > Len(tab)
    <3>1. Len(tab2[i].fields) = 0
      BY <2>1, <1>1
    <3> QED
      BY <3>1
  <2>2. CASE ~(i > Len(tab))
    <3>1. i \in 1..Len(tab) /\ tab2[i] = tab[i]
      BY <2>2, <1>1, <1>2
    <3> DEFINE f == tab[i].fields[k]
    <3>2. FieldFresh(tab, o, f)
      BY <3>1 DEF Fresh
    <3>3. f.type.id \in 1..Len(tab) /\ f.type.mods \in Seq(Mods)
      BY <3>1, FieldFacts
    <3>4. /\ tab2[f.type.id].size = tab[f.type.id].size /\ tab[f.type.id].size \in Sizes
          /\ tab2[f.type.id].size \in Sizes
      BY <3>3, <1>1, EntryFacts
    <3>5. HasPointer(f.type.mods) \/ f.type.id # o
      BY <3>2 DEF FieldFresh
    <3>6. FieldFresh(tab2, o, f)
      <4> HIDE DEF f
      <4> QED
        BY <3>2, <3>3, <3>4, <3>5, FieldStaysFresh
    <3> QED
      BY <3>1, <3>6
  <2> QED
    BY <2>1, <2>2
<1> QED
  BY <1>3 DEF Fresh

\* When a structure is opened, no field has its type by value, as its size is 0.
LEMMA OpenKeeps ==
  ASSUME NEW tab, NEW d, Sound(tab, 0, d), NEW id \in 1..Len(tab), tab[id].size = 0
  PROVE  Sound(tab, id, d) /\ (Fresh(tab, 0) => Fresh(tab, id))
<1>1. Len(tab) \in Nat
  BY EntryFacts DEF Sound
<1>2. Sound(tab, id, d)
  BY <1>1 DEF Sound, Closed
<1>3. Fresh(tab, 0) => Fresh(tab, id)
  BY DEF Fresh, FieldFresh
<1> QED
  BY <1>2, <1>3

\* When it is closed without being defined, nothing else changes.
LEMMA CloseKeeps ==
  ASSUME NEW tab, NEW o, NEW d, Sound(tab, o, d)
  PROVE  Sound(tab, 0, d) /\ (Fresh(tab, o) => Fresh(tab, 0))
<1>1. Len(tab) \in Nat /\ Well(tab)
  BY EntryFacts DEF Sound
<1>2. Sound(tab, 0, d)
  BY <1>1 DEF Sound, Closed
<1>3. ASSUME Fresh(tab, o), NEW i \in 1..Len(tab), NEW k \in 1..Len(tab[i].fields)
      PROVE  FieldFresh(tab, 0, tab[i].fields[k])
  <2>1. tab[i].fields[k].type.id # 0
    BY <1>1, FieldFacts
  <2> QED
    BY <2>1, <1>3 DEF Fresh, FieldFresh
<1> QED
  BY <1>2, <1>3 DEF Fresh

\* A change of the size of the open structure disturbs no field, as none has the
\* type by value.
LEMMA ResizeKeepsFresh ==
  ASSUME NEW tab, NEW tab2, NEW o, NEW o2, Well(tab), Well(tab2), Fresh(tab, o),
         o2 \in {o, 0}, Len(tab2) = Len(tab),
         \A i \in 1..Len(tab) : i # o => tab2[i] = tab[i],
         NEW i \in 1..Len(tab), NEW k \in 1..Len(tab[i].fields)
  PROVE  FieldFresh(tab2, o2, tab[i].fields[k])
<1> DEFINE f == tab[i].fields[k]
<1>1. FieldFresh(tab, o, f)
  BY DEF Fresh
<1>2. f.type.id \in 1..Len(tab) /\ f.type.mods \in Seq(Mods)
  BY FieldFacts
<1>3. tab[f.type.id].size \in Sizes /\ tab2[f.type.id].size \in Sizes
  BY <1>2, EntryFacts
<1>4. HasPointer(f.type.mods) \/ f.type.id # o
  BY <1>1 DEF FieldFresh
<1>5. f.type.id # o => tab2[f.type.id] = tab[f.type.id]
  BY <1>2
<1>6. f.type.id # 0
  BY <1>2
<1> QED
  <2> HIDE DEF f
  <2>1. FieldFresh(tab2, o2, f)
    BY <1>1, <1>2, <1>3, <1>4, <1>5, <1>6, FieldStaysFresh
  <2> QED
    BY <2>1 DEF f

\* add_field of a field whose type is complete and not the open structure.
LEMMA AddFieldKeeps ==
  ASSUME NEW tab, NEW o, NEW d, Sound(tab, o, d), o # 0, NEW name \in FieldNames,
         NEW t \in TypeIn(Len(tab))
  PROVE  LET tab2 == add_field(tab, o, name, t)
         IN  /\ Sound(tab2, o, d)
             /\ \A s \in d : tab2[s] = tab[s]
             /\ Fresh(tab, o) /\ (HasPointer(t.mods) \/ (t.id # o /\ tab[t.id].size # 0))
                  => Fresh(tab2, o)
<1> DEFINE tab2 == add_field(tab, o, name, t)
           n == Len(tab)
<1>0. /\ Well(tab) /\ OneEach(tab) /\ n \in Nat /\ o \in 1..n /\ d \subseteq 1..n
      /\ Closed(tab, o, d)
  BY EntryFacts DEF Sound
<1>1. /\ Well(tab2) /\ OneEach(tab2) /\ Len(tab2) = n
      /\ \A i \in 1..n : i # o => tab2[i] = tab[i]
  BY <1>0, AddField
<1>a. PICK field \in FieldIn(n) : IsAdded(tab, tab2, o, t, field)
  BY <1>0, AddField
<1>2. /\ field.type = t /\ field.size = size_of(tab, t)
      /\ tab2[o].fields = Append(tab[o].fields, field)
  BY <1>a DEF IsAdded
<1> HIDE DEF tab2, n
<1>3. \A s \in d : s # o /\ tab2[s] = tab[s]
  BY <1>0, <1>1 DEF Closed
<1>4. Sound(tab2, o, d)
  <2>1. Closed(tab2, o, d)
    BY <1>0, <1>3 DEF Closed
  <2>2. o \in 0..n
    BY <1>0
  <2> QED
    BY <2>1, <2>2, <1>0, <1>1 DEF Sound
<1>5. ASSUME Fresh(tab, o), HasPointer(t.mods) \/ (t.id # o /\ tab[t.id].size # 0)
      PROVE  Fresh(tab2, o)
  <2>1. ASSUME NEW i \in 1..n, NEW k \in 1..Len(tab[i].fields)
        PROVE  FieldFresh(tab2, o, tab[i].fields[k])
    BY <2>1, <1>0, <1>1, <1>5, ResizeKeepsFresh DEF n
  <2>2. FieldFresh(tab2, o, field)
    <3>1. t.id \in 1..n /\ t.mods \in Seq(Mods)
      BY DEF TypeIn, n
    <3>2. tab[t.id].size \in Sizes /\ tab2[t.id].size \in Sizes
      BY <3>1, <1>0, <1>1, EntryFacts DEF n
    <3>3. t.id # o => tab2[t.id] = tab[t.id]
      BY <3>1, <1>1
    <3>4. size_of(tab2, t) = size_of(tab, t)
      BY <3>1, <3>2, <3>3, <1>5, SizeBehindPointer, SizeSame
    <3> QED
      BY <3>3, <3>4, <1>2, <1>5 DEF FieldFresh
  <2>3. ASSUME NEW i \in 1..n, NEW k \in 1..Len(tab2[i].fields)
        PROVE  FieldFresh(tab2, o, tab2[i].fields[k])
    <3>1. CASE i # o
      BY <3>1, <2>1, <2>3, <1>1
    <3>2. CASE i = o
      <4> DEFINE fs == tab[o].fields
      <4>1. fs \in Seq(FieldIn(n))
        BY <1>0, EntryFacts DEF Entry, n
      <4>2. /\ Len(Append(fs, field)) = Len(fs) + 1 /\ Len(fs) \in Nat
            /\ \A j \in 1..Len(fs) : Append(fs, field)[j] = fs[j]
            /\ Append(fs, field)[Len(fs) + 1] = field
        <5> HIDE DEF fs
        <5> QED
          BY <4>1, AppendProperties, LenProperties
      <4>3. k \in 1..(Len(fs) + 1) /\ tab2[i].fields = Append(fs, field)
        BY <3>2, <4>2, <1>2
      <4>4. CASE k \in 1..Len(fs)
        BY <3>2, <4>2, <4>3, <4>4, <2>1
      <4>5. CASE k = Len(fs) + 1
        BY <4>2, <4>3, <4>5, <2>2
      <4> QED
        BY <4>2, <4>3, <4>4, <4>5
    <3> QED
      BY <3>1, <3>2
  <2> QED
    BY <2>3, <1>1 DEF Fresh
<1> QED
  BY <1>3, <1>4, <1>5 DEF tab2

\* The end of a structure without an error.
LEMMA EndKeeps ==
  ASSUME NEW tab, NEW o, NEW d, Sound(tab, o, d), o # 0
  PROVE  LET tab2 == [tab EXCEPT ![o].size = update_size(tab[o])]
         IN  /\ Sound(tab2, 0, d \cup {o})
             /\ \A s \in d : tab2[s] = tab[s]
             /\ Fresh(tab, o) => Fresh(tab2, 0)
<1> DEFINE n == Len(tab)
           e == [tab[o] EXCEPT !.size = update_size(tab[o])]
           tab2 == [tab EXCEPT ![o] = e]
<1>0. /\ Well(tab) /\ OneEach(tab) /\ n \in Nat /\ o \in 1..n /\ d \subseteq 1..n
      /\ Closed(tab, o, d) /\ tab[o] \in Entry(n)
  BY EntryFacts DEF Sound
<1>1. update_size(tab[o]) \in Sizes /\ update_size(tab[o]) # 0
  BY <1>0, UpdateSize
<1>2. e \in Entry(n) /\ SameType(e, tab[o]) /\ e.fields = tab[o].fields /\ e.size # 0
  BY <1>0, <1>1 DEF Entry, SameType
<1>3. /\ Well(tab2) /\ OneEach(tab2) /\ Len(tab2) = n
      /\ tab2[o] = e /\ \A i \in 1..n : i # o => tab2[i] = tab[i]
  <2> HIDE DEF e
  <2> QED
    BY <1>0, <1>2, ReplaceEntry
<1>4. [tab EXCEPT ![o].size = update_size(tab[o])] = tab2
  OBVIOUS
<1> HIDE DEF tab2, e, n
<1>5. \A s \in d : s # o /\ tab2[s] = tab[s]
  BY <1>0, <1>3 DEF Closed
<1>6. Sound(tab2, 0, d \cup {o})
  <2>1. Closed(tab2, 0, d \cup {o})
    <3>1. \A s \in d : tab2[s].size # 0 /\ s # 0
      BY <1>0, <1>5 DEF Closed
    <3>2. tab2[o].size # 0 /\ o # 0
      BY <1>2, <1>3
    <3> QED
      BY <3>1, <3>2 DEF Closed
  <2>2. 0 \in 0..n /\ d \cup {o} \subseteq 1..n
    BY <1>0
  <2> QED
    BY <2>1, <2>2, <1>3 DEF Sound
<1>7. ASSUME Fresh(tab, o)
      PROVE  Fresh(tab2, 0)
  <2>1. ASSUME NEW i \in 1..n, NEW k \in 1..Len(tab[i].fields)
        PROVE  FieldFresh(tab2, 0, tab[i].fields[k])
    BY <2>1, <1>0, <1>3, <1>7, ResizeKeepsFresh DEF n
  <2>2. \A i \in 1..n : tab2[i].fields = tab[i].fields
    BY <1>2, <1>3
  <2> QED
    BY <2>1, <2>2, <1>3 DEF Fresh
<1> QED
  BY <1>4, <1>5, <1>6, <1>7

-----------------------------------------------------------------------------
(***************************************************************************)
(* Layouts.                                                                *)
(***************************************************************************)
\* The alignments that a type may have.
Alignments == {1, PtrSize} \cup {BasicSize[n] : n \in DOMAIN BasicSize}

\* The smaller divides the larger: in the code they are 1, 2, 4 and 8.
AlignmentsDivide == \A a, b \in Alignments : a <= b => b % a = 0

\* No size has wrapped or is about to: the next field, however it is aligned, has
\* its offset below the limit.
Roomy(tab) ==
  \A i \in 1..Len(tab) :
    /\ \A a \in Alignments : tab[i].size + a < SizeLimit
    /\ \A k \in 1..Len(tab[i].fields) :
         /\ tab[i].fields[k].size # 0
         /\ tab[i].fields[k].offset + tab[i].fields[k].size < SizeLimit

\* The k-th field of the entry i is aligned, and ends where the next one begins or before.
Lies(tab, i, k) ==
  LET fs == tab[i].fields
      a == align_of(tab, fs[k].type)
  IN  /\ fs[k].offset % a = 0
      /\ a <= tab[i].align
      /\ fs[k].offset + fs[k].size <= IF k = Len(fs) THEN tab[i].size ELSE fs[k + 1].offset

Laid(tab, d) ==
  \A i \in 1..Len(tab) :
    /\ tab[i].align \in Alignments
    /\ tab[i].size = 0 => tab[i].align = 1
    /\ \A k \in 1..Len(tab[i].fields) : Lies(tab, i, k)
    /\ i \in d => tab[i].size % tab[i].align = 0

\* Alignments are positive.
LEMMA AlignmentsAreNumbers == Alignments \subseteq Nat \ {0}
BY TypeTableAssumption DEF TypeTableAssumption, Alignments

\* The rest of a division by d is what the multiples of d below leave.
LEMMA MultipleIsDivisible ==
  ASSUME NEW q \in Nat, NEW d \in Nat \ {0}
  PROVE  (d * q) % d = 0
OBVIOUS

\* round_up, when there is room, finds the next multiple.
LEMMA RoundedUp ==
  ASSUME NEW n \in Nat, NEW a \in Nat \ {0}, n + a < SizeLimit
  PROVE  round_up(n, a) \in Nat /\ round_up(n, a) >= n /\ round_up(n, a) % a = 0
<1> DEFINE q == n \div a
           r == n % a
           up == n + (a - r)
<1>1. n = (a * q) + r /\ q \in Nat /\ r \in 0..(a - 1)
  OBVIOUS
<1>2. up \in Nat /\ up >= n /\ up <= n + a
  BY <1>1
<1>3. up % a = 0
  <2>1. q + 1 \in Nat
    BY <1>1
  <2>2. a * (q + 1) = (a * q) + a
    BY <1>1
  <2>3. up = a * (q + 1)
    BY <1>1, <2>2
  <2>4. (a * (q + 1)) % a = 0
    <3> DEFINE p == q + 1
    <3>1. p \in Nat
      BY <2>1
    <3> HIDE DEF p, q
    <3>2. (a * p) % a = 0
      BY <3>1, MultipleIsDivisible
    <3> QED
      BY <3>2 DEF p
  <2> QED
    BY <2>3, <2>4
<1>4. up % SizeLimit = up
  <2>1. SizeLimit \in Nat /\ up < SizeLimit
    BY <1>2, Limits
  <2> HIDE DEF up
  <2> QED
    BY <1>2, <2>1
<1>5. CASE r = 0
  BY <1>5 DEF round_up
<1>6. CASE r # 0
  <2>1. round_up(n, a) = up % SizeLimit
    BY <1>6 DEF round_up
  <2> HIDE DEF up
  <2> QED
    BY <2>1, <1>2, <1>3, <1>4
<1> QED
  BY <1>5, <1>6

\* So does update_size; a size of 0 is 1 byte, which is aligned as such a structure is.
LEMMA UpdatedSize ==
  ASSUME NEW info, info.size \in Nat, info.align \in Nat \ {0},
         info.size + info.align < SizeLimit, info.size = 0 => info.align = 1
  PROVE  update_size(info) >= info.size /\ update_size(info) % info.align = 0
<1> DEFINE r == round_up(info.size, info.align)
<1>1. r \in Nat /\ r >= info.size /\ r % info.align = 0
  BY RoundedUp
<1>2. update_size(info) = IF r = 0 THEN 1 ELSE r
  BY DEF update_size
<1> HIDE DEF r
<1>3. CASE r = 0
  <2>1. info.size = 0 /\ info.align = 1
    BY <1>1, <1>3
  <2> QED
    BY <2>1, <1>2, <1>3
<1> QED
  BY <1>1, <1>2, <1>3

\* The alignment of a type is one of its entry or a pointer's.
LEMMA AlignOfIn ==
  ASSUME NEW tab, NEW d, Laid(tab, d), NEW t \in TypeIn(Len(tab))
  PROVE  align_of(tab, t) \in Alignments
BY DEF TypeIn, Laid, align_of, Alignments

\* It stays with that of the entry, or if there is a pointer.
LEMMA AlignSame ==
  ASSUME NEW tab, NEW tab2, NEW t,
         HasPointer(t.mods) \/ tab[t.id].align = tab2[t.id].align
  PROVE  align_of(tab2, t) = align_of(tab, t)
BY DEF align_of, HasPointer

\* A field that lies right does so when its structure gets larger, but not its alignment smaller.
LEMMA LiesStays ==
  ASSUME NEW tab, Well(tab), NEW tab2, Well(tab2), Len(tab2) >= Len(tab),
         NEW i \in 1..Len(tab), NEW k \in 1..Len(tab[i].fields), Lies(tab, i, k),
         tab2[i].fields = tab[i].fields, tab2[i].align >= tab[i].align,
         tab2[i].size >= tab[i].size,
         align_of(tab2, tab[i].fields[k].type) = align_of(tab, tab[i].fields[k].type),
         align_of(tab, tab[i].fields[k].type) \in Nat
  PROVE  Lies(tab2, i, k)
<1> DEFINE fs == tab[i].fields
           a == align_of(tab, fs[k].type)
           end == fs[k].offset + fs[k].size
<1>1. /\ tab[i].size \in Int /\ tab2[i].size \in Int
      /\ tab[i].align \in Int /\ tab2[i].align \in Int
  <2>1. i \in 1..Len(tab2)
    BY EntryFacts
  <2> QED
    BY <2>1, EntryFacts DEF Entry, Sizes
<1>2. end \in Int /\ a \in Int
  <2>1. fs \in Seq(FieldIn(Len(tab)))
    BY EntryFacts DEF Entry
  <2>2. fs[k] \in FieldIn(Len(tab))
    BY <2>1, LenProperties
  <2>3. fs[k].offset \in Int /\ fs[k].size \in Int
    BY <2>2 DEF FieldIn, Sizes
  <2> QED
    BY <2>3
<1>3. /\ fs[k].offset % a = 0 /\ a <= tab[i].align
      /\ end <= IF k = Len(fs) THEN tab[i].size ELSE fs[k + 1].offset
  BY DEF Lies
<1>4. tab2[i].fields = fs /\ align_of(tab2, fs[k].type) = a
  OBVIOUS
<1>5. a <= tab2[i].align
  <2> HIDE DEF a
  <2> QED
    BY <1>1, <1>2, <1>3
<1>6. end <= IF k = Len(fs) THEN tab2[i].size ELSE fs[k + 1].offset
  <2> HIDE DEF end, fs
  <2> QED
    BY <1>1, <1>2, <1>3
<1> QED
  BY <1>3, <1>4, <1>5, <1>6 DEF Lies

\* The alignment of the type of a field stays, when only the open entry changes.
LEMMA FieldAlignSame ==
  ASSUME NEW tab, Well(tab), NEW o, Fresh(tab, o), NEW tab2,
         \A i \in 1..Len(tab) : i # o => tab2[i] = tab[i],
         NEW i \in 1..Len(tab), NEW k \in 1..Len(tab[i].fields)
  PROVE  align_of(tab2, tab[i].fields[k].type) = align_of(tab, tab[i].fields[k].type)
<1> DEFINE t == tab[i].fields[k].type
<1>1. t.id \in 1..Len(tab)
  BY FieldFacts
<1>2. HasPointer(t.mods) \/ t.id # o
  BY DEF Fresh, FieldFresh
<1>3. HasPointer(t.mods) \/ tab[t.id].align = tab2[t.id].align
  BY <1>1, <1>2
<1> HIDE DEF t
<1>4. align_of(tab2, t) = align_of(tab, t)
  BY <1>3, AlignSame
<1> QED
  BY <1>4 DEF t

\* Growth keeps layouts.
LEMMA GrowKeepsLaid ==
  ASSUME NEW tab, Well(tab), NEW tab2, Grows(tab, tab2), NEW d \in SUBSET (1..Len(tab)),
         Laid(tab, d)
  PROVE  Laid(tab2, d)
<1>1. /\ Well(tab2) /\ Len(tab) <= Len(tab2)
      /\ \A i \in 1..Len(tab) : tab2[i] = tab[i]
      /\ \A i \in 1..Len(tab2) : i > Len(tab) => Bare(tab2[i])
  BY DEF Grows, Kept
<1>2. Len(tab) \in Nat /\ Len(tab2) \in Nat
  BY <1>1, EntryFacts
<1>3. ASSUME NEW i \in 1..Len(tab2)
      PROVE  /\ tab2[i].align \in Alignments
             /\ tab2[i].size = 0 => tab2[i].align = 1
             /\ \A k \in 1..Len(tab2[i].fields) : Lies(tab2, i, k)
             /\ i \in d => tab2[i].size % tab2[i].align = 0
  <2>1. CASE i > Len(tab)
    <3>1. tab2[i].fields = <<>> /\ tab2[i].align = 1 /\ i \notin d
      BY <2>1, <1>1, <1>2 DEF Bare
    <3>2. Len(tab2[i].fields) = 0
      BY <3>1
    <3> QED
      BY <3>1, <3>2 DEF Alignments
  <2>2. CASE ~(i > Len(tab))
    <3>1. i \in 1..Len(tab) /\ tab2[i] = tab[i]
      BY <2>2, <1>1, <1>2
    <3>2. /\ tab[i].align \in Alignments
          /\ tab[i].size = 0 => tab[i].align = 1
          /\ \A k \in 1..Len(tab[i].fields) : Lies(tab, i, k)
          /\ i \in d => tab[i].size % tab[i].align = 0
      BY <3>1 DEF Laid
    <3>3. ASSUME NEW k \in 1..Len(tab[i].fields)
          PROVE  Lies(tab2, i, k)
      <4> DEFINE t == tab[i].fields[k].type
      <4>1. t.id \in 1..Len(tab) /\ t \in TypeIn(Len(tab))
        BY <3>1, FieldFacts
      <4>2. align_of(tab2, t) = align_of(tab, t)
        <5>1. tab[t.id].align = tab2[t.id].align
          BY <4>1, <1>1
        <5> HIDE DEF t
        <5> QED
          BY <5>1, AlignSame
      <4>3. align_of(tab, t) \in Nat
        BY <4>1, AlignOfIn, AlignmentsAreNumbers
      <4>4. tab[i].align \in Int /\ tab[i].size \in Int
        BY <3>1, EntryFacts DEF Entry, Sizes
      <4> QED
        BY <3>1, <3>2, <4>2, <4>3, <4>4, <1>1, <1>2, LiesStays
    <3> QED
      BY <3>1, <3>2, <3>3
  <2> QED
    BY <2>1, <2>2
<1> QED
  BY <1>3 DEF Laid

\* A field more, when neither its offset nor its end wraps.
LEMMA AddFieldKeepsLaid ==
  ASSUME NEW tab, NEW o, NEW d, Sound(tab, o, d), o # 0, Fresh(tab, o), NEW name \in FieldNames,
         NEW t \in TypeIn(Len(tab)), HasPointer(t.mods) \/ t.id # o,
         \A a \in Alignments : tab[o].size + a < SizeLimit,
         Roomy(add_field(tab, o, name, t)), Laid(tab, d)
  PROVE  Laid(add_field(tab, o, name, t), d)
<1> DEFINE tab2 == add_field(tab, o, name, t)
           n == Len(tab)
           a == align_of(tab, t)
           fs == tab[o].fields
           m == Len(fs)
<1>0. /\ Well(tab) /\ OneEach(tab) /\ n \in Nat /\ o \in 1..n /\ o \notin d
      /\ tab[o].size \in Nat /\ tab[o].align \in Nat /\ fs \in Seq(FieldIn(n))
  BY EntryFacts DEF Sound, Closed, Entry, Sizes
<1>1. /\ Well(tab2) /\ Len(tab2) = n
      /\ \A i \in 1..n : i # o => tab2[i] = tab[i]
  BY <1>0, AddField
<1>c. PICK field \in FieldIn(n) : IsAdded(tab, tab2, o, t, field)
  BY <1>0, AddField
<1>2. /\ field.type = t /\ field.size = size_of(tab, t)
      /\ field.offset = round_up(tab[o].size, a)
      /\ tab2[o].fields = Append(fs, field)
      /\ tab2[o].size = (field.offset + field.size) % SizeLimit
      /\ tab2[o].align = Max({tab[o].align, a})
  BY <1>c DEF IsAdded
<1>3. a \in Alignments /\ a \in Nat \ {0} /\ tab[o].align \in Alignments
  BY <1>0, AlignOfIn, AlignmentsAreNumbers DEF Laid
<1>4. /\ Len(Append(fs, field)) = m + 1 /\ m \in Nat
      /\ \A j \in 1..m : Append(fs, field)[j] = fs[j]
      /\ Append(fs, field)[m + 1] = field
  <2> HIDE DEF fs
  <2> QED
    BY <1>0, AppendProperties, LenProperties
<1>5. field.offset \in Nat /\ field.offset >= tab[o].size /\ field.offset % a = 0
  <2> HIDE DEF a
  <2> QED
    BY <1>0, <1>2, <1>3, RoundedUp
<1>6. tab2[o].align \in Alignments /\ tab2[o].align >= a /\ tab2[o].align >= tab[o].align
  <2> HIDE DEF a, tab2
  <2>1. \E x \in {tab[o].align, a} : \A y \in {tab[o].align, a} : x >= y
    BY <1>0, <1>3
  <2>2. /\ Max({tab[o].align, a}) \in {tab[o].align, a}
        /\ \A y \in {tab[o].align, a} : Max({tab[o].align, a}) >= y
    BY <2>1 DEF Max
  <2> QED
    BY <1>2, <1>3, <2>2
<1>a. \A i \in 1..n : \A k \in 1..Len(tab[i].fields) :
        align_of(tab2, tab[i].fields[k].type) = align_of(tab, tab[i].fields[k].type)
  <2> HIDE DEF tab2, n
  <2> QED
    BY <1>0, <1>1, FieldAlignSame DEF n
<1>b. align_of(tab2, t) = a
  <2>1. t.id \in 1..n
    BY DEF TypeIn
  <2>2. HasPointer(t.mods) \/ tab[t.id].align = tab2[t.id].align
    BY <1>1, <2>1
  <2> HIDE DEF tab2
  <2> QED
    BY <2>2, AlignSame
<1> HIDE DEF tab2, a
<1>7. field.size # 0 /\ tab2[o].size = field.offset + field.size /\ tab2[o].size # 0
      /\ field.size \in Nat
  <2>1. m + 1 \in 1..Len(tab2[o].fields) /\ tab2[o].fields[m + 1] = field
    BY <1>2, <1>4
  <2>2. field.size # 0 /\ field.offset + field.size < SizeLimit
    <3>1. Roomy(tab2) /\ o \in 1..Len(tab2)
      BY <1>0, <1>1 DEF tab2
    <3>2. /\ tab2[o].fields[m + 1].size # 0
          /\ tab2[o].fields[m + 1].offset + tab2[o].fields[m + 1].size < SizeLimit
      <4> HIDE DEF m
      <4> QED
        BY <3>1, <2>1 DEF Roomy
    <3> QED
      BY <3>2, <2>1
  <2>3. field.size \in Nat
    <3>1. field.size \in Sizes
      BY DEF FieldIn
    <3> QED
      BY <3>1 DEF Sizes
  <2>4. field.offset + field.size \in Nat
    BY <2>3, <1>5
  <2>5. SizeLimit \in Nat
    BY Limits
  <2>6. (field.offset + field.size) % SizeLimit = field.offset + field.size
    BY <2>2, <2>4, <2>5
  <2> QED
    BY <2>2, <2>3, <2>6, <1>2, <1>5
<1>8. ASSUME NEW k \in 1..m
      PROVE  Lies(tab2, o, k)
  <2> DEFINE b == align_of(tab, fs[k].type)
             end == fs[k].offset + fs[k].size
  <2>1. Lies(tab, o, k)
    BY <1>0 DEF Laid
  <2>2. /\ fs[k].offset % b = 0 /\ b <= tab[o].align
        /\ end <= IF k = m THEN tab[o].size ELSE fs[k + 1].offset
    BY <2>1 DEF Lies
  <2>3. fs[k] \in FieldIn(n) /\ end \in Int
    <3>1. fs[k] \in FieldIn(n)
      <4> HIDE DEF fs, n
      <4> QED
        BY <1>0, LenProperties
    <3> QED
      BY <3>1 DEF FieldIn, Sizes
  <2>4. b \in Nat
    <3>1. fs[k].type \in TypeIn(n)
      BY <2>3 DEF FieldIn
    <3> QED
      BY <3>1, AlignOfIn, AlignmentsAreNumbers
  <2>5. /\ tab2[o].fields[k] = fs[k] /\ Len(tab2[o].fields) = m + 1
        /\ align_of(tab2, fs[k].type) = b
    <3>1. align_of(tab2, fs[k].type) = b
      BY <1>0, <1>a
    <3>2. Append(fs, field)[k] = fs[k]
      BY <1>4
    <3> HIDE DEF b, fs, m
    <3> QED
      BY <3>1, <3>2, <1>2, <1>4
  <2>6. b <= tab2[o].align
    <3>1. tab2[o].align \in Int
      <4>1. tab2[o].align \in Nat \ {0}
        BY <1>6, AlignmentsAreNumbers
      <4> QED
        BY <4>1
    <3> HIDE DEF b
    <3> QED
      BY <3>1, <2>2, <2>4, <1>0, <1>6
  <2>7. end <= tab2[o].fields[k + 1].offset
    <3>1. CASE k = m
      <4>1. tab2[o].fields[k + 1] = field
        BY <3>1, <1>2, <1>4
      <4> HIDE DEF end
      <4> QED
        BY <4>1, <3>1, <2>2, <2>3, <1>0, <1>5
    <3>2. CASE k # m
      <4>1. k + 1 \in 1..m
        BY <3>2, <1>4
      <4>2. tab2[o].fields[k + 1] = fs[k + 1]
        BY <4>1, <1>2, <1>4
      <4> HIDE DEF end
      <4> QED
        BY <4>2, <3>2, <2>2
    <3> QED
      BY <3>1, <3>2
  <2>8. k # m + 1
    BY <1>4
  <2> HIDE DEF b, fs, m
  <2> QED
    BY <2>2, <2>5, <2>6, <2>7, <2>8 DEF Lies, b
<1>9. Lies(tab2, o, m + 1)
  <2>1. tab2[o].fields[m + 1] = field /\ Len(tab2[o].fields) = m + 1
    BY <1>2, <1>4
  <2>2. field.offset + field.size <= tab2[o].size
    BY <1>5, <1>7
  <2> HIDE DEF m
  <2> QED
    BY <2>1, <2>2, <1>2, <1>5, <1>6, <1>b DEF Lies
<1>10. ASSUME NEW i \in 1..n
       PROVE  /\ tab2[i].align \in Alignments
              /\ tab2[i].size = 0 => tab2[i].align = 1
              /\ \A k \in 1..Len(tab2[i].fields) : Lies(tab2, i, k)
              /\ i \in d => tab2[i].size % tab2[i].align = 0
  <2>1. CASE i = o
    <3>1. \A k \in 1..(m + 1) : k \in 1..m \/ k = m + 1
      BY <1>4
    <3> HIDE DEF m
    <3> QED
      BY <2>1, <3>1, <1>0, <1>2, <1>4, <1>6, <1>7, <1>8, <1>9
  <2>2. CASE i # o
    <3>1. tab2[i] = tab[i]
      BY <2>2, <1>1
    <3>2. ASSUME NEW k \in 1..Len(tab[i].fields)
          PROVE  Lies(tab2, i, k)
      <4>1. Lies(tab, i, k)
        BY DEF Laid
      <4>2. align_of(tab2, tab[i].fields[k].type) = align_of(tab, tab[i].fields[k].type)
        BY <1>a
      <4> QED
        BY <3>1, <4>1, <4>2 DEF Lies
    <3> QED
      BY <3>1, <3>2 DEF Laid
  <2> QED
    BY <2>1, <2>2
<1> QED
  BY <1>1, <1>10 DEF Laid, tab2

\* The end of a structure rounds its size up to its alignment.
LEMMA EndKeepsLaid ==
  ASSUME NEW tab, NEW o, NEW d, Sound(tab, o, d), o # 0, Fresh(tab, o), Laid(tab, d),
         \A a \in Alignments : tab[o].size + a < SizeLimit
  PROVE  Laid([tab EXCEPT ![o].size = update_size(tab[o])], d \cup {o})
<1> DEFINE n == Len(tab)
           e == [tab[o] EXCEPT !.size = update_size(tab[o])]
           tab2 == [tab EXCEPT ![o] = e]
<1>0. /\ Well(tab) /\ OneEach(tab) /\ n \in Nat /\ o \in 1..n /\ tab[o] \in Entry(n)
      /\ tab[o].size \in Nat /\ tab[o].align \in Nat \ {0}
  BY EntryFacts DEF Sound, Entry, Sizes
<1>1. /\ tab[o].align \in Alignments /\ (tab[o].size = 0 => tab[o].align = 1)
  BY <1>0 DEF Laid
<1>2. /\ update_size(tab[o]) \in Sizes /\ update_size(tab[o]) # 0
      /\ update_size(tab[o]) >= tab[o].size /\ update_size(tab[o]) % tab[o].align = 0
  BY <1>0, <1>1, UpdateSize, UpdatedSize
<1>3. /\ e \in Entry(n) /\ SameType(e, tab[o]) /\ e.fields = tab[o].fields
      /\ e.align = tab[o].align /\ e.size = update_size(tab[o])
  BY <1>0, <1>2 DEF Entry, SameType
<1>4. /\ Well(tab2) /\ Len(tab2) = n
      /\ tab2[o] = e /\ \A i \in 1..n : i # o => tab2[i] = tab[i]
  <2> HIDE DEF e
  <2> QED
    BY <1>0, <1>3, ReplaceEntry
<1>5. [tab EXCEPT ![o].size = update_size(tab[o])] = tab2
  OBVIOUS
<1> HIDE DEF tab2, e
<1>6. \A i \in 1..n : \A k \in 1..Len(tab[i].fields) :
        align_of(tab2, tab[i].fields[k].type) = align_of(tab, tab[i].fields[k].type)
  <2>1. Well(tab) /\ \A i \in 1..Len(tab) : i # o => tab2[i] = tab[i]
    BY <1>0, <1>4
  <2> QED
    BY <2>1, FieldAlignSame
<1>7. ASSUME NEW i \in 1..n, NEW k \in 1..Len(tab[i].fields)
      PROVE  Lies(tab2, i, k)
  <2>1. Lies(tab, i, k)
    BY DEF Laid
  <2>2. tab[i].fields[k].type \in TypeIn(n)
    BY <1>0, FieldFacts
  <2>3. align_of(tab, tab[i].fields[k].type) \in Nat
    BY <2>2, AlignOfIn, AlignmentsAreNumbers
  <2>4. /\ tab2[i].fields = tab[i].fields /\ tab2[i].align = tab[i].align
        /\ tab2[i].size = tab[i].size \/ (i = o /\ tab2[i].size = update_size(tab[o]))
    BY <1>3, <1>4
  <2>5. tab[i].size \in Int /\ tab[i].align \in Int
    BY <1>0, EntryFacts DEF Entry, Sizes
  <2>6. tab2[i].size >= tab[i].size /\ tab2[i].align >= tab[i].align /\ Len(tab2) >= Len(tab)
    BY <2>4, <2>5, <1>0, <1>2, <1>4
  <2> HIDE DEF n
  <2> QED
    BY <2>1, <2>3, <2>4, <2>6, <1>0, <1>4, <1>6, LiesStays DEF n
<1>8. ASSUME NEW i \in 1..n
      PROVE  /\ tab2[i].align \in Alignments
             /\ tab2[i].size = 0 => tab2[i].align = 1
             /\ \A k \in 1..Len(tab2[i].fields) : Lies(tab2, i, k)
             /\ i \in d \cup {o} => tab2[i].size % tab2[i].align = 0
  <2>1. CASE i = o
    BY <2>1, <1>1, <1>2, <1>3, <1>4, <1>7
  <2>2. CASE i # o
    BY <2>2, <1>4, <1>7 DEF Laid
  <2> QED
    BY <2>1, <2>2
<1> QED
  BY <1>4, <1>5, <1>8 DEF Laid

-----------------------------------------------------------------------------
(***************************************************************************)
(* What contains what.                                                     *)
(***************************************************************************)
Holds(tab, s, i) ==
  \E k \in 1..Len(tab[s].fields) :
    tab[s].fields[k].type.id = i /\ element(tab[s].fields[k].type).mods = <<>>

Loop(tab, S) == S # {} /\ \A s \in S : \E i \in S : Holds(tab, s, i)

NoLoop(tab) == \A S \in SUBSET (1..Len(tab)) : ~Loop(tab, S)

\* Nothing holds the open structure by value.
LEMMA OpenIsNotHeld ==
  ASSUME NEW tab, Well(tab), NEW o, Fresh(tab, o), NEW s \in 1..Len(tab)
  PROVE  ~Holds(tab, s, o)
<1> SUFFICES ASSUME NEW k \in 1..Len(tab[s].fields), tab[s].fields[k].type.id = o,
                    element(tab[s].fields[k].type).mods = <<>>
             PROVE  FALSE
  BY DEF Holds
<1> DEFINE t == tab[s].fields[k].type
<1>1. t \in TypeIn(Len(tab)) /\ t.mods \in Seq(Mods)
  BY FieldFacts
<1>2. t = [id |-> t.id, const |-> t.const, mods |-> t.mods]
  BY <1>1 DEF TypeIn
<1>3. HasPointer(t.mods)
  BY DEF Fresh, FieldFresh
<1>4. element(t).mods # <<>>
  <2> HIDE DEF t
  <2> QED
    BY <1>1, <1>2, <1>3, ElementIs
<1> QED
  BY <1>4

\* Only the open structure gets to hold something, and nothing holds it: no loop comes about.
LEMMA NoLoopKept ==
  ASSUME NEW tab, NEW tab2, NEW o, NoLoop(tab),
         \A s \in 1..Len(tab2) : ~Holds(tab2, s, o),
         \A s \in 1..Len(tab2), i \in 1..Len(tab2) :
           s # o /\ Holds(tab2, s, i) => s \in 1..Len(tab) /\ Holds(tab, s, i)
  PROVE  NoLoop(tab2)
<1> SUFFICES ASSUME NEW S \in SUBSET (1..Len(tab2)), Loop(tab2, S)
             PROVE  FALSE
  BY DEF NoLoop
<1> DEFINE T == S \ {o}
<1>1. ASSUME NEW s \in S
      PROVE  \E i \in T : Holds(tab2, s, i)
  BY DEF Loop
<1>2. T # {}
  BY <1>1 DEF Loop
<1>3. ASSUME NEW s \in T
      PROVE  s \in 1..Len(tab) /\ \E i \in T : Holds(tab, s, i)
  BY <1>1
<1>4. T \in SUBSET (1..Len(tab)) /\ Loop(tab, T)
  BY <1>2, <1>3 DEF Loop
<1> QED
  BY <1>4 DEF NoLoop

\* Growth makes none.
LEMMA GrowKeepsNoLoop ==
  ASSUME NEW tab, Well(tab), NEW tab2, Grows(tab, tab2), NoLoop(tab)
  PROVE  NoLoop(tab2)
<1>1. /\ Well(tab2) /\ Len(tab) <= Len(tab2)
      /\ \A i \in 1..Len(tab) : tab2[i] = tab[i]
      /\ \A i \in 1..Len(tab2) : i > Len(tab) => tab2[i].fields = <<>>
  BY DEF Grows, Kept, Bare
<1>2. Len(tab) \in Nat /\ Len(tab2) \in Nat
  BY <1>1, EntryFacts
<1>3. ASSUME NEW s \in 1..Len(tab2)
      PROVE  ~Holds(tab2, s, 0)
  BY <1>1, FieldFacts DEF Holds
<1>4. ASSUME NEW s \in 1..Len(tab2), NEW i, Holds(tab2, s, i)
      PROVE  s \in 1..Len(tab) /\ Holds(tab, s, i)
  <2>1. s \in 1..Len(tab)
    <3> SUFFICES ASSUME s > Len(tab) PROVE FALSE
      BY <1>2
    <3>1. Len(tab2[s].fields) = 0
      BY <1>1
    <3> QED
      BY <3>1, <1>4 DEF Holds
  <2> QED
    BY <2>1, <1>1, <1>4 DEF Holds
<1> QED
  BY <1>3, <1>4, NoLoopKept

\* Nor does a change of the open structure that leaves it unheld.
LEMMA ChangeKeepsNoLoop ==
  ASSUME NEW tab, NEW tab2, NEW o, Well(tab2), Fresh(tab2, o), Len(tab2) = Len(tab),
         \A i \in 1..Len(tab) : i # o => tab2[i] = tab[i], NoLoop(tab)
  PROVE  NoLoop(tab2)
<1>1. \A s \in 1..Len(tab2) : ~Holds(tab2, s, o)
  BY OpenIsNotHeld
<1>2. \A s \in 1..Len(tab2), i \in 1..Len(tab2) :
        s # o /\ Holds(tab2, s, i) => s \in 1..Len(tab) /\ Holds(tab, s, i)
  BY DEF Holds
<1> QED
  BY <1>1, <1>2, NoLoopKept

-----------------------------------------------------------------------------
(***************************************************************************)
(* The invariant, and each action.                                         *)
(***************************************************************************)
IInv ==
  /\ Sound(types, open, defined)
  /\ ok \in BOOLEAN /\ errors \in BOOLEAN /\ ub \in BOOLEAN

\* What is to be shown of a step from a state with IInv.
StepKeeps ==
  /\ IInv'
  /\ \A s \in defined : types'[s] = types[s]
  /\ ~SelfFields /\ Fresh(types, open) => Fresh(types', open')
  /\ ~SelfFields /\ Fresh(types, open) /\ NoLoop(types) => NoLoop(types')
  /\ ~SelfFields /\ Fresh(types, open) /\ Roomy(types) /\ Roomy(types') /\ Laid(types, defined)
       => Laid(types', defined')

\* A step by which the table at most grows.
LEMMA GrowStep ==
  ASSUME IInv, Grows(types, types'), open' = open, defined' = defined,
         ok' \in BOOLEAN, errors' \in BOOLEAN, ub' \in BOOLEAN
  PROVE  StepKeeps
<1>1. Sound(types, open, defined) /\ Well(types) /\ defined \subseteq 1..Len(types)
  BY DEF IInv, Sound
<1>2. Sound(types', open', defined')
  BY <1>1, GrowKeepsSound
<1>3. Fresh(types, open) => Fresh(types', open')
  BY <1>1, GrowKeepsFresh
<1>4. \A s \in defined : types'[s] = types[s]
  BY <1>1 DEF Grows, Kept
<1>5. NoLoop(types) => NoLoop(types')
  BY <1>1, GrowKeepsNoLoop
<1>6. Laid(types, defined) => Laid(types', defined')
  BY <1>1, GrowKeepsLaid
<1> QED
  BY <1>2, <1>3, <1>4, <1>5, <1>6 DEF StepKeeps, IInv

\* The table with the structure s, which is new or was there.
LEMMA WithStruct ==
  ASSUME Well(types), OneEach(types), NEW s \in Structs
  PROVE  /\ Grows(types, with_struct(s))
         /\ get_id(with_struct(s), s) \in 1..Len(with_struct(s))
<1> DEFINE n == Len(types)
           e == Structure(s)
<1>0. n \in Nat
  BY EntryFacts
<1>1. CASE has_type(types, s)
  BY <1>1, GrowsNot, IdOfName DEF with_struct
<1>2. CASE ~has_type(types, s)
  <2>1. e \in Entry(n) /\ Bare(e) /\ e.kind = "struct" /\ e.name = s
    <3>1. <<>> \in Seq(FieldIn(n)) /\ <<>> \in Seq(TypeIn(n)) /\ 0 \in Sizes
      BY Limits
    <3>2. s \in AllNames
      BY DEF AllNames, Names
    <3> QED
      BY <3>1, <3>2 DEF Structure, Entry, Bare
  <2>2. \A i \in 1..n : ~SameType(types[i], e)
    BY <1>2, <2>1 DEF SameType, has_type, named
  <2>3. /\ Grows(types, Append(types, e))
        /\ Len(Append(types, e)) = n + 1 /\ Append(types, e)[n + 1] = e
    <3> HIDE DEF e
    <3> QED
      BY <2>1, <2>2, AppendEntry
  <2>4. with_struct(s) = Append(types, e)
    BY <1>2 DEF with_struct
  <2>5. n + 1 \in 1..(n + 1)
    BY <1>0
  <2>6. has_type(with_struct(s), s)
    <3> HIDE DEF e
    <3>1. n + 1 \in named(with_struct(s), s)
      BY <2>1, <2>3, <2>4, <2>5 DEF named
    <3> QED
      BY <3>1 DEF has_type
  <2> QED
    <3> HIDE DEF e
    <3> QED
      BY <2>3, <2>4, <2>6, IdOfName DEF Grows
<1> QED
  BY <1>1, <1>2

\* check_structure of a forward declaration.
LEMMA DeclareStructureStep ==
  ASSUME IInv, NEW s \in Structs, declare_structure(s)
  PROVE  StepKeeps
<1>1. types' = with_struct(s) /\ UNCHANGED <<open, ok, errors, defined, ub>>
  BY DEF declare_structure
<1>2. Grows(types, types')
  BY <1>1, WithStruct DEF IInv, Sound
<1> QED
  BY <1>1, <1>2, GrowStep DEF IInv

\* check_structure up to the fields.
LEMMA BeginStructureStep ==
  ASSUME IInv, NEW s \in Structs, begin_structure(s)
  PROVE  StepKeeps
<1> DEFINE id == get_id(types', s)
<1>1. /\ open = 0 /\ types' = with_struct(s) /\ UNCHANGED <<defined, ub>>
      /\ IF types'[id].size # 0 THEN errors' = TRUE /\ UNCHANGED <<open, ok>>
                                ELSE open' = id /\ ok' = TRUE /\ UNCHANGED errors
  BY DEF begin_structure, Idle
<1>2. Grows(types, types') /\ id \in 1..Len(types')
  BY <1>1, WithStruct DEF IInv, Sound
<1> HIDE DEF id
<1>3. CASE types'[id].size # 0
  BY <1>1, <1>2, <1>3, GrowStep DEF IInv
<1>4. CASE types'[id].size = 0
  <2>1. Sound(types, 0, defined) /\ Well(types) /\ defined \subseteq 1..Len(types)
    BY <1>1 DEF IInv, Sound
  <2>2. Sound(types', 0, defined) /\ (Fresh(types, 0) => Fresh(types', 0))
    BY <1>2, <2>1, GrowKeepsSound, GrowKeepsFresh
  <2>3. Sound(types', id, defined) /\ (Fresh(types', 0) => Fresh(types', id))
    BY <1>2, <1>4, <2>2, OpenKeeps
  <2>4. \A d \in defined : types'[d] = types[d]
    BY <2>1, <1>2 DEF Grows, Kept
  <2>5. open' = id /\ open = 0 /\ defined' = defined
        /\ ok' \in BOOLEAN /\ errors' \in BOOLEAN /\ ub' \in BOOLEAN
    BY <1>1, <1>4 DEF IInv
  <2>6. /\ NoLoop(types) => NoLoop(types')
        /\ Laid(types, defined) => Laid(types', defined')
    BY <1>2, <2>1, <2>5, GrowKeepsNoLoop, GrowKeepsLaid
  <2> QED
    BY <2>2, <2>3, <2>4, <2>5, <2>6 DEF StepKeeps, IInv
<1> QED
  BY <1>3, <1>4

\* One field of a structure.
LEMMA CheckFieldStep ==
  ASSUME IInv, NEW name \in FieldNames, NEW spec \in Specs, check_field(name, spec)
  PROVE  StepKeeps
<1> DEFINE made == make_node_type(types, spec)
           good == /\ made.ok
                   /\ validate_type(made.tab, made.type, TRUE, FALSE)
                   /\ ~has_field(types[open], name)
<1>1. /\ open # 0
      /\ types' = IF good THEN add_field(made.tab, open, name, made.type) ELSE made.tab
      /\ ok' = (ok /\ good)
      /\ errors' = (errors \/ ~good)
      /\ good /\ ~SelfFields => ~(made.type.id = open /\ element(made.type).mods = <<>>)
      /\ UNCHANGED <<open, defined, ub>>
  BY DEF check_field
<1>2. spec \in TypeSpec /\ Well(types) /\ OneEach(types)
  BY TypesAssumption DEF TypesAssumption, IInv, Sound
<1>3. /\ Grows(types, made.tab) /\ made.ok \in BOOLEAN
      /\ made.ok => made.type \in TypeIn(Len(made.tab))
  BY <1>2, MakeNodeType
<1>4. ok' \in BOOLEAN /\ errors' \in BOOLEAN /\ ub' \in BOOLEAN
  BY <1>1 DEF IInv
<1> HIDE DEF made
<1>5. CASE ~good
  <2>1. types' = made.tab /\ open' = open /\ defined' = defined
    BY <1>1, <1>5
  <2> HIDE DEF good
  <2> QED
    BY <1>3, <1>4, <2>1, GrowStep
<1>6. CASE good
  <2> DEFINE t == made.type
  <2>0. /\ types' = add_field(made.tab, open, name, t) /\ open' = open /\ defined' = defined
        /\ t \in TypeIn(Len(made.tab)) /\ size_of(made.tab, element(t)) # 0
        /\ ~SelfFields => ~(t.id = open /\ element(t).mods = <<>>)
    BY <1>1, <1>3, <1>6 DEF validate_type
  <2> HIDE DEF t, good
  <2>1. /\ Sound(types, open, defined) /\ Sound(made.tab, open, defined)
        /\ Fresh(types, open) => Fresh(made.tab, open)
    BY <1>2, <1>3, GrowKeepsSound, GrowKeepsFresh DEF IInv
  <2>2. /\ Sound(types', open, defined)
        /\ \A s \in defined : types'[s] = made.tab[s]
        /\ Fresh(made.tab, open) /\ (HasPointer(t.mods) \/ (t.id # open /\ made.tab[t.id].size # 0))
             => Fresh(types', open)
    BY <1>1, <2>0, <2>1, AddFieldKeeps
  <2>3. ~SelfFields => HasPointer(t.mods) \/ (t.id # open /\ made.tab[t.id].size # 0)
    <3>1. /\ t.mods \in Seq(Mods) /\ t.id \in 1..Len(made.tab)
          /\ t = [id |-> t.id, const |-> t.const, mods |-> t.mods]
      BY <2>0 DEF TypeIn
    <3>2. made.tab[t.id].size \in Sizes
      BY <3>1, <1>3, EntryFacts DEF Grows
    <3>3. HasPointer(t.mods) \/ made.tab[t.id].size # 0
      BY <3>1, <3>2, <2>0, ElementSize
    <3>4. HasPointer(t.mods) <=> element(t).mods # <<>>
      BY <3>1, ElementIs
    <3> QED
      BY <3>3, <3>4, <2>0
  <2>4. \A s \in defined : made.tab[s] = types[s]
    BY <2>1, <1>3 DEF Sound, Grows, Kept
  <2>5. IInv'
    BY <1>4, <2>0, <2>2 DEF IInv
  <2>6. ~SelfFields /\ Fresh(types, open) => Fresh(types', open')
    BY <2>0, <2>1, <2>2, <2>3
  <2>7. ASSUME ~SelfFields, Fresh(types, open), NoLoop(types)
        PROVE  NoLoop(types')
    <3>1. NoLoop(made.tab)
      BY <2>7, <1>2, <1>3, GrowKeepsNoLoop
    <3>2. /\ Well(types') /\ Fresh(types', open) /\ Len(types') = Len(made.tab)
          /\ \A i \in 1..Len(made.tab) : i # open => types'[i] = made.tab[i]
      <4>1. Well(made.tab) /\ OneEach(made.tab) /\ open \in 1..Len(made.tab)
        BY <2>1, <1>1, EntryFacts DEF Sound
      <4>2. LET tab2 == add_field(made.tab, open, name, t)
            IN  /\ Well(tab2) /\ Len(tab2) = Len(made.tab)
                /\ \A i \in 1..Len(made.tab) : i # open => tab2[i] = made.tab[i]
        BY <4>1, <2>0, AddField
      <4> QED
        BY <4>2, <2>0, <2>6, <2>7
    <3> QED
      BY <3>1, <3>2, ChangeKeepsNoLoop
  <2>8. ASSUME ~SelfFields, Fresh(types, open), Roomy(types), Roomy(types'), Laid(types, defined)
        PROVE  Laid(types', defined')
    <3>1. Laid(made.tab, defined)
      <4>1. defined \in SUBSET (1..Len(types))
        BY DEF IInv, Sound
      <4> QED
        BY <4>1, <2>8, <1>2, <1>3, GrowKeepsLaid
    <3>2. \A a \in Alignments : made.tab[open].size + a < SizeLimit
      <4>1. open \in 1..Len(types)
        BY <1>1, <2>1, EntryFacts DEF Sound
      <4>2. made.tab[open] = types[open]
        BY <4>1, <1>3 DEF Grows, Kept
      <4> QED
        BY <4>1, <4>2, <2>8 DEF Roomy
    <3>3. HasPointer(t.mods) \/ t.id # open
      BY <2>3, <2>8
    <3>4. Roomy(add_field(made.tab, open, name, t))
      BY <2>0, <2>8
    <3>5. Laid(add_field(made.tab, open, name, t), defined)
      BY <3>1, <3>2, <3>3, <3>4, <1>1, <2>0, <2>1, <2>8, AddFieldKeepsLaid
    <3> QED
      BY <3>5, <2>0
  <2> QED
    BY <2>0, <2>2, <2>4, <2>5, <2>6, <2>7, <2>8 DEF StepKeeps
<1> QED
  BY <1>5, <1>6

\* The end of a structure.
LEMMA EndStructureStep ==
  ASSUME IInv, end_structure
  PROVE  StepKeeps
<1>1. /\ open # 0 /\ open' = 0 /\ UNCHANGED <<ok, errors, ub>>
      /\ types' = IF ok THEN [types EXCEPT ![open].size = update_size(types[open])] ELSE types
      /\ defined' = IF ok THEN defined \cup {open} ELSE defined
  BY DEF end_structure
<1>2. Sound(types, open, defined)
  BY DEF IInv
<1>3. ok' \in BOOLEAN /\ errors' \in BOOLEAN /\ ub' \in BOOLEAN
  BY <1>1 DEF IInv
<1>4. CASE ok
  <2>1. types' = [types EXCEPT ![open].size = update_size(types[open])]
        /\ defined' = defined \cup {open}
    BY <1>1, <1>4
  <2>2. /\ Sound(types', 0, defined')
        /\ \A s \in defined : types'[s] = types[s]
        /\ Fresh(types, open) => Fresh(types', 0)
    <3> DEFINE tab2 == [types EXCEPT ![open].size = update_size(types[open])]
    <3>1. /\ Sound(tab2, 0, defined \cup {open})
          /\ \A s \in defined : tab2[s] = types[s]
          /\ Fresh(types, open) => Fresh(tab2, 0)
      BY <1>1, <1>2, EndKeeps
    <3>2. types' = tab2 /\ defined' = defined \cup {open}
      BY <2>1
    <3> HIDE DEF tab2
    <3> QED
      BY <3>1, <3>2
  <2>3. ASSUME Fresh(types, open), NoLoop(types)
        PROVE  NoLoop(types')
    <3>1. open \in 1..Len(types) /\ Well(types)
      BY <1>1, <1>2, EntryFacts DEF Sound
    <3>2. Len(types') = Len(types)
      BY <2>1
    <3>3. ASSUME NEW s \in 1..Len(types), NEW i
          PROVE  Holds(types', s, i) <=> Holds(types, s, i)
      <4>1. types'[s].fields = types[s].fields
        BY <3>1, <2>1, EntryFacts DEF Well
      <4> QED
        BY <4>1 DEF Holds
    <3> QED
      BY <3>2, <3>3, <2>3 DEF NoLoop, Loop
  <2>4. ASSUME Fresh(types, open), Roomy(types), Laid(types, defined)
        PROVE  Laid(types', defined')
    <3>1. \A a \in Alignments : types[open].size + a < SizeLimit
      BY <1>1, <1>2, <2>4, EntryFacts DEF Roomy, Sound
    <3>2. Laid([types EXCEPT ![open].size = update_size(types[open])], defined \cup {open})
      BY <3>1, <1>1, <1>2, <2>4, EndKeepsLaid
    <3> QED
      BY <3>2, <2>1
  <2> QED
    BY <1>1, <1>3, <2>2, <2>3, <2>4 DEF StepKeeps, IInv
<1>5. CASE ~ok
  <2>1. types' = types /\ defined' = defined
    BY <1>1, <1>5
  <2>2. Sound(types', 0, defined') /\ (Fresh(types, open) => Fresh(types', 0))
    BY <1>2, <2>1, CloseKeeps
  <2> QED
    BY <1>1, <1>3, <2>1, <2>2 DEF StepKeeps, IInv
<1> QED
  BY <1>4, <1>5

\* A variable.
LEMMA DeclareVariableStep ==
  ASSUME IInv, NEW spec \in Specs, declare_variable(spec)
  PROVE  StepKeeps
<1> DEFINE made == make_node_type(types, spec)
<1>1. /\ types' = made.tab /\ UNCHANGED <<open, ok, defined, ub>>
      /\ errors' = (errors \/ ~made.ok \/ ~validate_type(made.tab, made.type, TRUE, FALSE))
  BY DEF declare_variable
<1>2. spec \in TypeSpec /\ Well(types) /\ OneEach(types)
  BY TypesAssumption DEF TypesAssumption, IInv, Sound
<1>3. Grows(types, made.tab)
  BY <1>2, MakeNodeType
<1> HIDE DEF made
<1>4. errors' \in BOOLEAN
  BY <1>1
<1> QED
  BY <1>1, <1>3, <1>4, GrowStep DEF IInv

\* A call.
LEMMA CheckCallStep ==
  ASSUME IInv, NEW id, NEW args \in ArgLists, NEW fit \in BOOLEAN, check_call(id, args, fit)
  PROVE  StepKeeps
<1> DEFINE after == check_args(args)
<1>0. Well(types) /\ OneEach(types) /\ args \in Seq(TypeSpec)
  BY TypesAssumption DEF TypesAssumption, IInv, Sound
<1>1. UNCHANGED <<open, ok, defined>>
  BY DEF check_call
<1>2. CASE Len(args) # Len(types[id].params)
  <2>1. errors' = TRUE /\ UNCHANGED <<types, ub>>
    BY <1>2 DEF check_call
  <2> QED
    BY <1>0, <1>1, <2>1, GrowsNot, GrowStep DEF IInv
<1>3. CASE Len(args) = Len(types[id].params)
  <2>1. /\ types' = after[Len(args)].tab
        /\ errors' = (errors \/ ~fit \/ \E i \in 1..Len(args) : ~after[i].ok)
        /\ ub' \in {FALSE, \E i \in 1..Len(args) : after[i].ok /\ after[i].tab # types}
    BY <1>3 DEF check_call
  <2>2. Grows(types, after[Len(args)].tab)
    <3>1. Len(args) \in 0..Len(args)
      BY <1>0, LenProperties
    <3> QED
      BY <3>1, <1>0, CheckArgs
  <2> HIDE DEF after
  <2>3. errors' \in BOOLEAN /\ ub' \in BOOLEAN
    BY <2>1
  <2> QED
    BY <1>1, <2>1, <2>2, <2>3, GrowStep DEF IInv
<1> QED
  BY <1>2, <1>3

\* A return.
LEMMA CheckReturnStep ==
  ASSUME IInv, NEW id, NEW spec \in Specs, NEW fit \in BOOLEAN, check_return(id, spec, fit)
  PROVE  StepKeeps
<1> DEFINE value == check_sizeof(types, spec)
<1>0. Well(types) /\ OneEach(types) /\ spec \in TypeSpec
  BY TypesAssumption DEF TypesAssumption, IInv, Sound
<1>1. UNCHANGED <<open, ok, defined>>
  BY DEF check_return
<1>2. CASE is_void(types, types[id].returns[1])
  <2>1. errors' = TRUE /\ UNCHANGED <<types, ub>>
    BY <1>2 DEF check_return
  <2> QED
    BY <1>0, <1>1, <2>1, GrowsNot, GrowStep DEF IInv
<1>3. CASE ~is_void(types, types[id].returns[1])
  <2>1. /\ types' = value.tab
        /\ errors' = (errors \/ ~value.ok \/ ~fit)
        /\ ub' \in {FALSE, value.ok /\ value.tab # types}
    BY <1>3 DEF check_return
  <2>2. Grows(types, value.tab) /\ value.ok \in BOOLEAN
    BY <1>0, CheckSizeof
  <2> HIDE DEF value
  <2>3. errors' \in BOOLEAN /\ ub' \in BOOLEAN
    BY <2>1, <2>2
  <2> QED
    BY <1>1, <2>1, <2>2, <2>3, GrowStep DEF IInv
<1> QED
  BY <1>2, <1>3

\* The names of the basic types, in some order, each once.
LEMMA BasicNames ==
  LET D == DOMAIN BasicSize
      n == Cardinality(D)
  IN  /\ n \in Nat /\ SetToSeq(D) \in [1..n -> D]
      /\ \A i, j \in 1..n : SetToSeq(D)[i] = SetToSeq(D)[j] => i = j
<1> DEFINE D == DOMAIN BasicSize
           n == Cardinality(D)
<1>1. n \in Nat /\ ExistsBijection(1..n, D)
  BY TypeTableAssumption, FS_CardinalityType DEF TypeTableAssumption
<1>2. PICK f \in Bijection(1..n, D) : TRUE
  BY <1>1 DEF ExistsBijection
<1>3. f \in [1..n -> D] /\ IsInjective(f)
  BY <1>2 DEF Bijection, Injection
<1>4. SetToSeq(D) \in [1..n -> D] /\ IsInjective(SetToSeq(D))
  BY <1>3 DEF SetToSeq
<1> HIDE DEF n, D
<1>5. \A i, j \in 1..n : SetToSeq(D)[i] = SetToSeq(D)[j] => i = j
  BY <1>4 DEF IsInjective
<1> QED
  BY <1>1, <1>4, <1>5 DEF n, D

\* TypeTable().
LEMMA InitIInv ==
  ASSUME Init
  PROVE  IInv /\ Fresh(types, open) /\ NoLoop(types) /\ Laid(types, defined)
<1> DEFINE D == DOMAIN BasicSize
           n == Cardinality(D)
           name(i) == SetToSeq(D)[i]
<1>1. n \in Nat /\ \A i \in 1..n : name(i) \in D
  BY BasicNames
<1>2. \A i, j \in 1..n : name(i) = name(j) => i = j
  BY BasicNames
<1>3. types = [i \in 1..n |-> Basic(name(i))]
  BY DEF Init
<1> HIDE DEF n, name, D
<1>4. ASSUME NEW i \in 1..n
      PROVE  types[i] \in Entry(n) /\ types[i].kind = "basic" /\ types[i].name = name(i)
             /\ types[i].fields = <<>>
  <2>1. types[i] = Basic(name(i))
    BY <1>3
  <2>2. BasicSize[name(i)] \in Sizes /\ BasicSize[name(i)] \in Nat \ {0}
    BY <1>1, TypeTableAssumption DEF TypeTableAssumption, Sizes, D
  <2>3. name(i) \in AllNames
    BY <1>1 DEF AllNames, Names, D
  <2>4. <<>> \in Seq(FieldIn(n)) /\ <<>> \in Seq(TypeIn(n))
    OBVIOUS
  <2> QED
    BY <2>1, <2>2, <2>3, <2>4 DEF Basic, Entry
<1>5. types \in Seq(Entry(n)) /\ Len(types) = n
  BY <1>1, <1>3, <1>4
<1>6. Well(types)
  BY <1>4, <1>5 DEF Well
<1>7. OneEach(types)
  BY <1>2, <1>4, <1>5 DEF OneEach, SameType
<1>8. open = 0 /\ defined = {} /\ ok \in BOOLEAN /\ errors \in BOOLEAN /\ ub \in BOOLEAN
  BY DEF Init
<1>9. Sound(types, open, defined)
  BY <1>1, <1>5, <1>6, <1>7, <1>8 DEF Sound, Closed
<1>10. Fresh(types, open)
  <2>1. \A i \in 1..n : Len(types[i].fields) = 0
    BY <1>4
  <2> QED
    BY <2>1, <1>5 DEF Fresh
<1>11. NoLoop(types)
  <2>1. \A s \in 1..n, i \in 1..n : ~Holds(types, s, i)
    BY <1>4 DEF Holds
  <2> QED
    BY <2>1, <1>5 DEF NoLoop, Loop
<1>12. Laid(types, defined)
  <2>1. ASSUME NEW i \in 1..n
        PROVE  types[i].align \in Alignments /\ types[i].size # 0
    <3>1. types[i] = Basic(name(i)) /\ name(i) \in DOMAIN BasicSize
      BY <1>1, <1>3 DEF D
    <3>2. types[i].align = BasicSize[name(i)] /\ types[i].size = BasicSize[name(i)]
      BY <3>1 DEF Basic
    <3>3. BasicSize[name(i)] # 0
      BY <3>1, TypeTableAssumption DEF TypeTableAssumption
    <3> QED
      BY <3>1, <3>2, <3>3 DEF Alignments
  <2>2. \A i \in 1..n : Len(types[i].fields) = 0
    BY <1>4
  <2> QED
    BY <2>1, <2>2, <1>5, <1>8 DEF Laid
<1> QED
  BY <1>8, <1>9, <1>10, <1>11, <1>12 DEF IInv

\* Every step keeps the invariant.
LEMMA NextKeeps ==
  ASSUME IInv, Next
  PROVE  StepKeeps
<1>1. ASSUME NEW s \in Structs, declare_structure(s) \/ begin_structure(s)
      PROVE  StepKeeps
  BY <1>1, DeclareStructureStep, BeginStructureStep
<1>2. ASSUME NEW name \in FieldNames, NEW spec \in Specs, check_field(name, spec)
      PROVE  StepKeeps
  BY <1>2, CheckFieldStep
<1>3. CASE end_structure
  BY <1>3, EndStructureStep
<1>4. ASSUME NEW spec \in Specs, declare_variable(spec)
      PROVE  StepKeeps
  BY <1>4, DeclareVariableStep
<1>5. ASSUME NEW id \in FunctionIds, NEW args \in ArgLists, NEW fit \in BOOLEAN,
             check_call(id, args, fit)
      PROVE  StepKeeps
  BY <1>5, CheckCallStep
<1>6. ASSUME NEW id \in FunctionIds, NEW spec \in Specs, NEW fit \in BOOLEAN,
             check_return(id, spec, fit)
      PROVE  StepKeeps
  BY <1>6, CheckReturnStep
<1> QED
  BY <1>1, <1>2, <1>3, <1>4, <1>5, <1>6 DEF Next

\* A step that changes nothing keeps it too.
LEMMA StutterKeeps ==
  ASSUME IInv, UNCHANGED vars
  PROVE  StepKeeps
BY DEF vars, IInv, StepKeeps

\* HasByValue is Holds on the table of the state.
LEMMA ContainsIs ==
  ASSUME NEW s, NEW i
  PROVE  HasByValue(s, i) <=> Holds(types, s, i)
BY DEF HasByValue, Holds

\* Laid, with alignments that divide one another, is LayoutSound.
LEMMA LaidOut ==
  ASSUME IInv, AlignmentsDivide, Laid(types, defined)
  PROVE  LayoutSound
<1>1. Well(types) /\ defined \subseteq 1..Len(types)
  BY DEF IInv, Sound
<1> SUFFICES ASSUME NEW s \in defined
             PROVE  LET info == types[s]
                        last == Len(info.fields)
                        end(k) == info.fields[k].offset + info.fields[k].size
                    IN  /\ \A k \in 1..last :
                             /\ info.fields[k].offset % align_of(types, info.fields[k].type) = 0
                             /\ info.align % align_of(types, info.fields[k].type) = 0
                             /\ end(k) <= IF k = last THEN info.size ELSE info.fields[k + 1].offset
                        /\ info.size % info.align = 0
  BY DEF LayoutSound
<1>2. s \in 1..Len(types)
  BY <1>1
<1>3. /\ types[s].align \in Alignments /\ types[s].size % types[s].align = 0
      /\ \A k \in 1..Len(types[s].fields) : Lies(types, s, k)
  BY <1>2 DEF Laid
<1>4. ASSUME NEW k \in 1..Len(types[s].fields)
      PROVE  types[s].align % align_of(types, types[s].fields[k].type) = 0
  <2>1. types[s].fields[k].type \in TypeIn(Len(types))
    BY <1>1, <1>2, FieldFacts
  <2>2. align_of(types, types[s].fields[k].type) \in Alignments
    BY <2>1, AlignOfIn
  <2>3. align_of(types, types[s].fields[k].type) <= types[s].align
    BY <1>3 DEF Lies
  <2> QED
    BY <2>2, <2>3, <1>3 DEF AlignmentsDivide
<1> QED
  BY <1>3, <1>4 DEF Lies

-----------------------------------------------------------------------------
(***************************************************************************)
(* Theorems.                                                               *)
(***************************************************************************)
\* IInv holds in every reachable state.
THEOREM Inductive == Spec => []IInv
<1>1. Init => IInv
  BY InitIInv
<1>2. IInv /\ [Next]_vars => IInv'
  BY NextKeeps, StutterKeeps DEF StepKeeps
<1> QED
  BY <1>1, <1>2, PTL DEF Spec

\* What TypeOK says of an entry.
LEMMA TypesAreTyped ==
  ASSUME IInv
  PROVE  TypeOK
<1>1. Well(types) /\ open \in 0..Len(types) /\ defined \subseteq 1..Len(types)
      /\ ok \in BOOLEAN /\ errors \in BOOLEAN /\ ub \in BOOLEAN
  BY DEF IInv, Sound
<1>2. Len(types) \in Nat
  BY <1>1, EntryFacts
<1>3. \A t \in TypeIn(Len(types)) : Type(t)
  BY DEF TypeIn, Type, Ids, Mods
<1>4. ASSUME NEW i \in Ids
      PROVE  /\ types[i].kind \in {"basic", "struct", "function"}
             /\ types[i].size \in 0..(SizeLimit - 1) /\ types[i].align \in Nat \ {0}
             /\ \A k \in 1..Len(types[i].fields) : Type(types[i].fields[k].type)
             /\ \A k \in 1..Len(types[i].params) : Type(types[i].params[k])
             /\ types[i].kind = "function" => Type(types[i].returns[1])
  <2>0. i \in 1..Len(types)
    BY DEF Ids
  <2>1. /\ types[i].kind \in {"basic", "struct", "function"}
        /\ types[i].size \in Sizes /\ types[i].align \in Nat \ {0}
        /\ types[i].returns \in Seq(TypeIn(Len(types))) /\ types[i].params \in Seq(TypeIn(Len(types)))
    BY <2>0, <1>1, EntryFacts DEF Entry
  <2>2. \A k \in 1..Len(types[i].fields) : Type(types[i].fields[k].type)
    BY <2>0, <1>1, <1>3, FieldFacts
  <2>3. \A k \in 1..Len(types[i].params) : Type(types[i].params[k])
    BY <2>1, <1>3, LenProperties
  <2>4. types[i].kind = "function" => Type(types[i].returns[1])
    <3>1. ASSUME types[i].kind = "function"
          PROVE  types[i].returns[1] \in TypeIn(Len(types))
      <4>1. types[i].returns # <<>>
        BY <3>1, <2>0, <1>1 DEF Well
      <4>2. 1 \in 1..Len(types[i].returns)
        BY <4>1, <2>1, EmptySeq, LenProperties
      <4> QED
        BY <4>2, <2>1, LenProperties
    <3> QED
      BY <3>1, <1>3
  <2> QED
    BY <2>1, <2>2, <2>3, <2>4 DEF Sizes
<1>5. open \in Ids \cup {0} /\ defined \subseteq Ids
  BY <1>1, <1>2 DEF Ids
<1> QED
  BY <1>1, <1>4, <1>5 DEF TypeOK

\* The table is always well-formed: every id that a type, a field, a parameter or a
\* handler holds is in it, and every size is below the limit.
THEOREM TypeCorrect == Spec => []TypeOK
BY Inductive, TypesAreTyped, PTL

\* The table has one entry for each structure and each function type
\* (insert_type and make_function_type look before they insert).
THEOREM OneEntryEach == Spec => []NoDuplicates
<1>1. IInv => NoDuplicates
  BY DEF IInv, Sound, OneEach, SameType, NoDuplicates, Ids
<1> QED
  BY <1>1, Inductive, PTL

\* check_structure never changes a structure that it has accepted.
THEOREM DefinitionsStay == Spec => DefinedOnce
<1>1. IInv /\ [Next]_vars => [\A s \in defined : types'[s] = types[s]]_vars
  BY NextKeeps DEF StepKeeps
<1> QED
  BY <1>1, Inductive, PTL DEF Spec, DefinedOnce

\* With the sizes of fields.
FInv == IInv /\ Fresh(types, open)

\* As long as no structure has a field of its own type by value, fields stay fresh.
LEMMA StaysFresh ==
  ASSUME ~SelfFields
  PROVE  Spec => []FInv
<1>1. Init => FInv
  BY InitIInv DEF FInv
<1>2. FInv /\ [Next]_vars => FInv'
  <2>1. ASSUME FInv, [Next]_vars
        PROVE  FInv'
    <3>1. StepKeeps
      BY <2>1, NextKeeps, StutterKeeps DEF FInv
    <3>2. Fresh(types', open')
      BY <3>1, <2>1 DEF StepKeeps, FInv
    <3> QED
      BY <3>1, <3>2 DEF StepKeeps, FInv
  <2> QED
    BY <2>1
<1> QED
  BY <1>1, <1>2, PTL DEF Spec

\* As long as no structure has a field of its own type by value, the size that
\* add_field has given a field is the size of its type ever after, and no field
\* has an incomplete type.
THEOREM SizesStayFresh == ~SelfFields => (Spec => []FieldSizesFresh)
<1> SUFFICES ASSUME ~SelfFields
             PROVE  Spec => []FieldSizesFresh
  OBVIOUS
<1>1. FInv => FieldSizesFresh
  <2>1. ASSUME FInv, NEW i \in Ids, NEW k \in 1..Len(types[i].fields)
        PROVE  /\ types[i].fields[k].size = size_of(types, types[i].fields[k].type)
               /\ size_of(types, element(types[i].fields[k].type)) # 0
    <3> DEFINE t == types[i].fields[k].type
    <3>1. Well(types) /\ i \in 1..Len(types)
      BY <2>1 DEF FInv, IInv, Sound, Ids
    <3>2. FieldFresh(types, open, types[i].fields[k])
      BY <3>1, <2>1 DEF FInv, Fresh
    <3>3. t \in TypeIn(Len(types))
      BY <3>1, <2>1, FieldFacts
    <3>4. HasPointer(t.mods) \/ types[t.id].size # 0
      BY <3>2 DEF FieldFresh
    <3>5. /\ t.mods \in Seq(Mods) /\ types[t.id].size \in Sizes
          /\ t = [id |-> t.id, const |-> t.const, mods |-> t.mods]
      <4> HIDE DEF t
      <4> QED
        BY <3>1, <3>3, EntryFacts DEF TypeIn
    <3>6. size_of(types, element(t)) # 0
      <4> HIDE DEF t
      <4> QED
        BY <3>4, <3>5, ElementSize
    <3> QED
      BY <3>2, <3>6 DEF FieldFresh
  <2> QED
    BY <2>1 DEF FieldSizesFresh
<1> QED
  BY <1>1, StaysFresh, PTL

\* Under the same premise no structure contains itself, directly or through others,
\* so that is_const and size_of, which go down the fields, come to an end.
THEOREM NothingInItself == ~SelfFields => (Spec => []NotInItself)
<1> SUFFICES ASSUME ~SelfFields
             PROVE  Spec => []NotInItself
  OBVIOUS
<1> DEFINE CInv == FInv /\ NoLoop(types)
<1>1. Init => CInv
  BY InitIInv DEF FInv
<1>2. FInv /\ FInv' /\ CInv /\ [Next]_vars => CInv'
  <2>1. ASSUME FInv', CInv, [Next]_vars
        PROVE  CInv'
    <3>1. StepKeeps
      BY <2>1, NextKeeps, StutterKeeps DEF FInv
    <3>2. NoLoop(types')
      BY <3>1, <2>1 DEF StepKeeps, FInv
    <3> QED
      BY <3>2, <2>1
  <2> QED
    BY <2>1
<1>3. CInv => NotInItself
  <2>1. ASSUME CInv, NEW S \in SUBSET {i \in Ids : types[i].kind = "struct"}, S # {}
        PROVE  \E s \in S : \A i \in S : ~HasByValue(s, i)
    <3>1. S \in SUBSET (1..Len(types))
      BY <2>1 DEF Ids
    <3>2. ~Loop(types, S)
      BY <3>1, <2>1 DEF NoLoop
    <3> QED
      BY <3>2, <2>1, ContainsIs DEF Loop
  <2> QED
    BY <2>1 DEF NotInItself
<1> HIDE DEF CInv
<1> QED
  BY <1>1, <1>2, <1>3, StaysFresh, PTL DEF Spec

\* Under the same premise, as long as no size has wrapped, the fields of every structure
\* that was accepted are aligned and apart, inside of the structure, and the
\* structures in an array of it are aligned as well (add_field, update_size).
THEOREM LayoutsAreSound ==
  ~SelfFields /\ AlignmentsDivide => (Spec /\ []Roomy(types) => []LayoutSound)
<1> SUFFICES ASSUME ~SelfFields, AlignmentsDivide
             PROVE  Spec /\ []Roomy(types) => []LayoutSound
  OBVIOUS
<1> DEFINE LInv == FInv /\ Laid(types, defined)
           Room == Roomy(types)
<1>1. Init => LInv
  BY InitIInv DEF FInv
<1>2. FInv' /\ Room /\ Room' /\ LInv /\ [Next]_vars => LInv'
  <2>1. ASSUME FInv', Room, Room', LInv, [Next]_vars
        PROVE  LInv'
    <3>1. StepKeeps
      BY <2>1, NextKeeps, StutterKeeps DEF FInv
    <3>2. Laid(types', defined')
      BY <3>1, <2>1 DEF StepKeeps, FInv
    <3> QED
      BY <3>2, <2>1
  <2> QED
    BY <2>1
<1>3. LInv => LayoutSound
  BY LaidOut DEF FInv
<1> HIDE DEF LInv
<1>4. Spec /\ []Room => []LayoutSound
  <2> HIDE DEF Room
  <2> QED
    BY <1>1, <1>2, <1>3, StaysFresh, PTL DEF Spec
<1> QED
  BY <1>4
=============================================================================
