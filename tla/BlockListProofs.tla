-------------------------- MODULE BlockListProofs --------------------------
(***************************************************************************)
(* Proofs about BlockList, for any width of a block, any elements and any  *)
(* addresses.                                                              *)
(***************************************************************************)
EXTENDS BlockList, ListLemmas

\* The numbers of the slots, and None which is not one.
LEMMA SlotNumbers ==
  /\ blk_size \in Nat \ {0} /\ Slots \in SUBSET Nat /\ Slots \in SUBSET (0..blk_size) /\ Slots # {}
  /\ None \in Int /\ None \notin Nat /\ None \notin Slots
  /\ \A i \in Slots : i \in Nat /\ i < blk_size
<1> QED
  BY BitsetAssumption DEF Slots, None

\* emplace takes a slot that is free.
LEMMA FreeSlot ==
  ASSUME NEW blk \in Block, ~full(blk)
  PROVE  emplace_idx(blk) \in Slots \ blk.map
<1>1. blk.map \in SUBSET Slots /\ blk.map # Slots
  BY DEF Block, full, is_full
<1>2. Slots \ blk.map \in SUBSET Nat /\ Slots \ blk.map # {}
  BY <1>1, SlotNumbers
<1>3. Min(Slots \ blk.map) \in Slots \ blk.map
  BY <1>2, MinOfSet
<1> QED
  BY <1>1, <1>3 DEF emplace_idx, find_free_idx, is_full

\* begin() of a block is its first used slot.
LEMMA FirstSlot ==
  ASSUME NEW blk \in Block, blk.map # {}
  PROVE  begin_idx(blk) \in blk.map /\ \A j \in blk.map : begin_idx(blk) <= j
<1>1. blk.map \in SUBSET Nat
  BY SlotNumbers DEF Block
<1> QED
  BY <1>1, MinOfSet DEF begin_idx, find_used_idx, is_empty

\* next_iterator of a used slot is the next used slot, or None at the last.
LEMMA NextSlot ==
  ASSUME NEW blk \in Block, NEW i \in blk.map
  PROVE  LET n == next_idx(blk, i)
         IN  \/ n = None /\ \A j \in blk.map : j <= i
             \/ /\ n \in blk.map /\ n # None /\ n > i
                /\ \A j \in blk.map : j > i => n <= j
<1> DEFINE rest == shifted_right(blk.map, i + 1)
<1>1. /\ blk.map \in SUBSET Slots /\ i \in Nat /\ i < blk_size /\ blk_size \in Nat
      /\ \A j \in blk.map : j \in Nat /\ j < blk_size
  BY SlotNumbers DEF Block
<1>2. CASE i + 1 >= blk_size
  <2>1. next_idx(blk, i) = None
    BY <1>2 DEF next_idx
  <2>2. \A j \in blk.map : j <= i
    BY <1>1, <1>2
  <2> QED
    BY <2>1, <2>2
<1>3. CASE i + 1 < blk_size
  <2>1. rest = {s \in Slots : s + (i + 1) \in blk.map}
    BY DEF shifted_right
  <2>2. \A j \in blk.map : j > i => j - (i + 1) \in rest /\ (j - (i + 1)) + (i + 1) = j
    <3> SUFFICES ASSUME NEW j \in blk.map, j > i
                 PROVE  j - (i + 1) \in rest /\ (j - (i + 1)) + (i + 1) = j
      OBVIOUS
    <3>1. (j - (i + 1)) + (i + 1) = j /\ j - (i + 1) \in 0..(blk_size - 1)
      BY <1>1
    <3> QED
      BY <3>1, <2>1 DEF Slots
  <2>3. rest \in SUBSET Nat /\ \A s \in rest : s + (i + 1) \in blk.map /\ s \in Nat
    BY <2>1, SlotNumbers
  <2>4. next_idx(blk, i) = IF find_used_idx(rest) = None THEN None ELSE i + 1 + find_used_idx(rest)
    <3>1. ~(i \notin blk.map \/ i + 1 >= blk_size)
      BY <1>1, <1>3
    <3> QED
      BY <3>1 DEF next_idx
  <2> HIDE DEF rest
  <2>5. CASE rest = {}
    <3>1. find_used_idx(rest) = None
      BY <2>5 DEF find_used_idx, is_empty
    <3>2. \A j \in blk.map : j <= i
      BY <2>2, <2>5, <1>1
    <3> QED
      BY <3>1, <3>2, <2>4
  <2>6. CASE rest # {}
    <3>1. Min(rest) \in rest /\ \A s \in rest : Min(rest) <= s
      BY <2>3, <2>6, MinOfSet
    <3>2. find_used_idx(rest) = Min(rest)
      BY <2>6 DEF find_used_idx, is_empty
    <3> DEFINE m == Min(rest)
    <3> HIDE DEF m
    <3>3. m \in Nat /\ m # None /\ m + (i + 1) \in blk.map /\ \A s \in rest : m <= s
      BY <3>1, <2>3, SlotNumbers DEF m
    <3>4. next_idx(blk, i) = m + (i + 1)
      BY <3>2, <3>3, <2>4, <1>1 DEF m
    <3>5. m + (i + 1) > i /\ m + (i + 1) # None
      BY <3>3, <1>1, SlotNumbers
    <3>6. \A j \in blk.map : j > i => m + (i + 1) <= j
      <4> SUFFICES ASSUME NEW j \in blk.map, j > i
                   PROVE  m + (i + 1) <= j
        OBVIOUS
      <4>1. m <= j - (i + 1) /\ j \in Nat
        BY <2>2, <3>3, <1>1
      <4> QED
        BY <4>1, <3>3, <1>1
    <3> QED
      BY <3>3, <3>4, <3>5, <3>6
  <2> QED
    BY <2>5, <2>6
<1> QED
  BY <1>1, <1>2, <1>3

\* What a block holds after emplace and erase.
LEMMA EmplacedBlock ==
  ASSUME NEW blk \in Block, NEW e \in Elems, ~full(blk)
  PROVE  LET new == with_emplaced(blk, e)
             k == emplace_idx(blk)
         IN  /\ new \in Block /\ new.map = blk.map \cup {k}
             /\ new.at[k] = e /\ \A i \in Slots : i # k => new.at[i] = blk.at[i]
<1>1. emplace_idx(blk) \in Slots \ blk.map
  BY FreeSlot
<1>2. blk.map \in SUBSET Slots /\ blk.at \in [Slots -> Elems \cup {NoElem}]
  BY DEF Block
<1> QED
  BY <1>1, <1>2 DEF with_emplaced, Block

\* FixedSet's erase empties one slot and leaves the others.
LEMMA ErasedBlock ==
  ASSUME NEW blk \in Block, NEW k \in Slots
  PROVE  LET new == with_erased(blk, k)
         IN  /\ new \in Block /\ new.map = blk.map \ {k}
             /\ new.at[k] = NoElem /\ \A i \in Slots : i # k => new.at[i] = blk.at[i]
<1>1. blk.map \in SUBSET Slots /\ blk.at \in [Slots -> Elems \cup {NoElem}]
  BY DEF Block
<1> QED
  BY <1>1 DEF with_erased, Block

-----------------------------------------------------------------------------
(***************************************************************************)
(* A list s of blocks with the contents m: what Put and Take make of it.   *)
(***************************************************************************)
Sound(s, m) ==
  /\ NoRepeat(s)
  /\ \A b \in BlockIds :
       /\ b \in Members(s) <=> m[b].map # {}
       /\ m[b].map = {i \in Slots : m[b].at[i] # NoElem}

\* The list and the contents t and m2 after e was put into slot k of block b, and
\* after slot k of block b was emptied.
PutInto(s, m, b, k, e, t, m2) ==
  /\ k = emplace_idx(m[b])
  /\ m2 = [m EXCEPT ![b] = with_emplaced(m[b], e)]
  /\ t = IF b \in Members(s) THEN s ELSE Append(s, b)

TakenFrom(s, m, b, k, t, m2) ==
  /\ m2 = [m EXCEPT ![b] = with_erased(m[b], k)]
  /\ t = IF empty(with_erased(m[b], k)) THEN RemoveAt(s, Pos(s, b)) ELSE s

StoredIn(s, m) == UNION {{m[b].at[i] : i \in m[b].map} : b \in Members(s)}

\* The elements stored are those in the slots of any block.
LEMMA StoredSlots ==
  ASSUME NEW s \in Seq(BlockIds), NEW m \in [BlockIds -> Block], Sound(s, m)
  PROVE  /\ Members(s) \subseteq BlockIds
         /\ \A e : e \in StoredIn(s, m) <=>
              e # NoElem /\ \E b \in BlockIds, i \in Slots : m[b].at[i] = e
         /\ StoredIn(s, m) \subseteq Elems
<1>1. Members(s) \subseteq BlockIds
  BY ElementOfSeq DEF Members
<1>2. \A b \in BlockIds : /\ m[b].map = {i \in Slots : m[b].at[i] # NoElem}
                          /\ b \in Members(s) <=> m[b].map # {}
                          /\ m[b].at \in [Slots -> Elems \cup {NoElem}]
  BY DEF Sound, Block
<1>3. ASSUME NEW e, e \in StoredIn(s, m)
      PROVE  e # NoElem /\ (\E b \in BlockIds, i \in Slots : m[b].at[i] = e) /\ e \in Elems
  <2>1. PICK b \in Members(s) : \E i \in m[b].map : e = m[b].at[i]
    BY <1>3 DEF StoredIn
  <2>2. PICK i \in m[b].map : e = m[b].at[i]
    BY <2>1
  <2>3. b \in BlockIds /\ i \in Slots /\ m[b].at[i] # NoElem
    BY <2>2, <1>1, <1>2
  <2>4. m[b].at[i] \in Elems \cup {NoElem}
    BY <2>3, <1>2
  <2> QED
    BY <2>2, <2>3, <2>4
<1>4. ASSUME NEW e, e # NoElem, NEW b \in BlockIds, NEW i \in Slots, m[b].at[i] = e
      PROVE  e \in StoredIn(s, m)
  <2>1. i \in m[b].map
    BY <1>2, <1>4
  <2>2. b \in Members(s)
    BY <2>1, <1>2
  <2> QED
    BY <2>1, <2>2, <1>4 DEF StoredIn
<1> QED
  BY <1>1, <1>3, <1>4

\* The part of emplace that constructs the element.
LEMMA PutKeeps ==
  ASSUME NEW s \in Seq(BlockIds), NEW m \in [BlockIds -> Block], Sound(s, m),
         NEW b \in BlockIds, NEW e \in Elems, ~full(m[b]),
         NEW k, NEW t, NEW m2, PutInto(s, m, b, k, e, t, m2)
  PROVE  /\ t \in Seq(BlockIds) /\ m2 \in [BlockIds -> Block] /\ Sound(t, m2)
         /\ k \in Slots /\ m[b].at[k] = NoElem /\ m2[b].at[k] = e
         /\ \A c \in BlockIds, i \in Slots : <<c, i>> # <<b, k>> => m2[c].at[i] = m[c].at[i]
         /\ \A c \in BlockIds : m[c].map \subseteq m2[c].map /\ (c # b => m2[c].map = m[c].map)
         /\ m2[b].map = m[b].map \cup {k}
         /\ Members(t) = Members(s) \cup {b}
         /\ \A c \in Members(s) : Pos(t, c) = Pos(s, c)
         /\ b \notin Members(s) => \A c \in Members(s) : Pos(t, c) < Pos(t, b)
         /\ StoredIn(t, m2) = StoredIn(s, m) \cup {e}
<1>1. k \in Slots \ m[b].map
  BY FreeSlot DEF PutInto
<1>2. /\ with_emplaced(m[b], e) \in Block /\ with_emplaced(m[b], e).map = m[b].map \cup {k}
      /\ with_emplaced(m[b], e).at[k] = e
      /\ \A i \in Slots : i # k => with_emplaced(m[b], e).at[i] = m[b].at[i]
  BY EmplacedBlock DEF PutInto
<1>3. /\ m2 \in [BlockIds -> Block] /\ m2[b].map = m[b].map \cup {k} /\ m2[b].at[k] = e
      /\ \A i \in Slots : i # k => m2[b].at[i] = m[b].at[i]
      /\ \A c \in BlockIds : c # b => m2[c] = m[c]
  BY <1>2 DEF PutInto
<1>4. \A c \in BlockIds : /\ m[c].map = {i \in Slots : m[c].at[i] # NoElem}
                          /\ c \in Members(s) <=> m[c].map # {}
  BY DEF Sound
<1>5. m[b].at[k] = NoElem
  BY <1>1, <1>4
<1>6. NoRepeat(s)
  BY DEF Sound
<1>7. /\ t \in Seq(BlockIds) /\ NoRepeat(t) /\ Members(t) = Members(s) \cup {b}
      /\ \A c \in Members(s) : Pos(t, c) = Pos(s, c)
      /\ b \notin Members(s) => \A c \in Members(s) : Pos(t, c) < Pos(t, b)
  <2>1. CASE b \in Members(s)
    BY <2>1, <1>6 DEF PutInto
  <2>2. CASE b \notin Members(s)
    BY <2>2, <1>6, AppendNew DEF PutInto
  <2> QED
    BY <2>1, <2>2
<1>8. ASSUME NEW c \in BlockIds
      PROVE  /\ c \in Members(t) <=> m2[c].map # {}
             /\ m2[c].map = {i \in Slots : m2[c].at[i] # NoElem}
  <2>1. CASE c = b
    <3>1. e # NoElem
      BY FixedSetAssumption
    <3>2. \A i \in Slots : i \in m2[b].map <=> m2[b].at[i] # NoElem
      BY <3>1, <1>1, <1>3, <1>4
    <3>3. m2[b].map \subseteq Slots
      BY <1>1, <1>3, <1>4
    <3> QED
      BY <2>1, <3>2, <3>3, <1>3, <1>7
  <2>2. CASE c # b
    BY <2>2, <1>3, <1>4, <1>7
  <2> QED
    BY <2>1, <2>2
<1>9. Sound(t, m2)
  BY <1>7, <1>8 DEF Sound
<1>10. \A c \in BlockIds, i \in Slots : <<c, i>> # <<b, k>> => m2[c].at[i] = m[c].at[i]
  BY <1>3
<1>11. \A c \in BlockIds : m[c].map \subseteq m2[c].map /\ (c # b => m2[c].map = m[c].map)
  BY <1>3
<1>12. StoredIn(t, m2) = StoredIn(s, m) \cup {e}
  <2>1. \A x : x \in StoredIn(s, m) <=> x # NoElem /\ \E c \in BlockIds, i \in Slots : m[c].at[i] = x
    BY StoredSlots
  <2>2. \A x : x \in StoredIn(t, m2) <=> x # NoElem /\ \E c \in BlockIds, i \in Slots : m2[c].at[i] = x
    BY <1>3, <1>7, <1>9, StoredSlots
  <2>3. ASSUME NEW x, x \in StoredIn(t, m2), x # e
        PROVE  x \in StoredIn(s, m)
    <3>1. PICK c \in BlockIds, i \in Slots : m2[c].at[i] = x
      BY <2>2, <2>3
    <3>2. <<c, i>> # <<b, k>>
      BY <3>1, <2>3, <1>3
    <3>3. m[c].at[i] = x
      BY <3>1, <3>2, <1>10
    <3> QED
      BY <3>3, <2>1, <2>2, <2>3
  <2>4. ASSUME NEW x, x \in StoredIn(s, m)
        PROVE  x \in StoredIn(t, m2)
    <3>1. PICK c \in BlockIds, i \in Slots : m[c].at[i] = x /\ x # NoElem
      BY <2>1, <2>4
    <3>2. <<c, i>> # <<b, k>>
      BY <3>1, <1>5
    <3>3. m2[c].at[i] = x
      BY <3>1, <3>2, <1>10
    <3> QED
      BY <3>1, <3>3, <2>2
  <2>5. e \in StoredIn(t, m2)
    BY <2>2, <1>1, <1>3, FixedSetAssumption
  <2> QED
    BY <2>3, <2>4, <2>5
<1> QED
  BY <1>1, <1>3, <1>5, <1>7, <1>9, <1>10, <1>11, <1>12

\* The part of erase after std::next.
LEMMA TakeKeeps ==
  ASSUME NEW s \in Seq(BlockIds), NEW m \in [BlockIds -> Block], Sound(s, m),
         NEW b \in Members(s), NEW k \in m[b].map,
         \A c \in BlockIds, i \in Slots : m[c].at[i] = m[b].at[k] => c = b /\ i = k,
         NEW t, NEW m2, TakenFrom(s, m, b, k, t, m2)
  PROVE  /\ t \in Seq(BlockIds) /\ m2 \in [BlockIds -> Block] /\ Sound(t, m2)
         /\ b \in BlockIds /\ k \in Slots /\ m2[b].at[k] = NoElem
         /\ \A c \in BlockIds, i \in Slots : <<c, i>> # <<b, k>> => m2[c].at[i] = m[c].at[i]
         /\ \A c \in BlockIds : c # b => m2[c].map = m[c].map
         /\ m2[b].map = m[b].map \ {k}
         /\ Members(t) = IF m[b].map = {k} THEN Members(s) \ {b} ELSE Members(s)
         /\ \A c, d \in Members(t) : Pos(t, c) <= Pos(t, d) <=> Pos(s, c) <= Pos(s, d)
         /\ StoredIn(t, m2) = StoredIn(s, m) \ {m[b].at[k]} /\ m[b].at[k] \in StoredIn(s, m)
<1> DEFINE e == m[b].at[k]
<1>0. b \in BlockIds
  BY StoredSlots
<1>1. \A c \in BlockIds : /\ m[c].map = {i \in Slots : m[c].at[i] # NoElem}
                          /\ c \in Members(s) <=> m[c].map # {}
  BY DEF Sound
<1>2. k \in Slots /\ e # NoElem
  BY <1>0, <1>1
<1>3. /\ with_erased(m[b], k) \in Block /\ with_erased(m[b], k).map = m[b].map \ {k}
      /\ with_erased(m[b], k).at[k] = NoElem
      /\ \A i \in Slots : i # k => with_erased(m[b], k).at[i] = m[b].at[i]
  BY <1>0, <1>2, ErasedBlock
<1>4. /\ m2 \in [BlockIds -> Block] /\ m2[b].map = m[b].map \ {k} /\ m2[b].at[k] = NoElem
      /\ \A i \in Slots : i # k => m2[b].at[i] = m[b].at[i]
      /\ \A c \in BlockIds : c # b => m2[c] = m[c]
  BY <1>0, <1>3 DEF TakenFrom
<1>5. empty(with_erased(m[b], k)) <=> m[b].map = {k}
  BY <1>3 DEF empty, is_empty
<1>6. NoRepeat(s)
  BY DEF Sound
<1>7. /\ t \in Seq(BlockIds) /\ NoRepeat(t)
      /\ Members(t) = IF m[b].map = {k} THEN Members(s) \ {b} ELSE Members(s)
      /\ \A c, d \in Members(t) : Pos(t, c) <= Pos(t, d) <=> Pos(s, c) <= Pos(s, d)
  <2>1. CASE m[b].map = {k}
    <3>1. t = RemoveAt(s, Pos(s, b))
      BY <2>1, <1>5 DEF TakenFrom
    <3> QED
      BY <3>1, <2>1, <1>6, RemoveMember
  <2>2. CASE m[b].map # {k}
    BY <2>2, <1>5, <1>6 DEF TakenFrom
  <2> QED
    BY <2>1, <2>2
<1>8. ASSUME NEW c \in BlockIds
      PROVE  /\ c \in Members(t) <=> m2[c].map # {}
             /\ m2[c].map = {i \in Slots : m2[c].at[i] # NoElem}
  <2>1. CASE c = b
    <3>1. \A i \in Slots : i \in m2[b].map <=> m2[b].at[i] # NoElem
      BY <1>0, <1>1, <1>4
    <3>2. m2[b].map \subseteq Slots
      BY <1>0, <1>1, <1>4
    <3>3. m2[b].map = {} <=> m[b].map = {k}
      BY <1>4
    <3> QED
      BY <2>1, <3>1, <3>2, <3>3, <1>7
  <2>2. CASE c # b
    BY <2>2, <1>1, <1>4, <1>7
  <2> QED
    BY <2>1, <2>2
<1>9. Sound(t, m2)
  BY <1>7, <1>8 DEF Sound
<1>10. \A c \in BlockIds, i \in Slots : <<c, i>> # <<b, k>> => m2[c].at[i] = m[c].at[i]
  BY <1>4
<1>11. \A x : x \in StoredIn(s, m) <=> x # NoElem /\ \E c \in BlockIds, i \in Slots : m[c].at[i] = x
  BY StoredSlots
<1>12. StoredIn(t, m2) = StoredIn(s, m) \ {e}
  <2>1. \A x : x \in StoredIn(t, m2) <=> x # NoElem /\ \E c \in BlockIds, i \in Slots : m2[c].at[i] = x
    BY <1>4, <1>7, <1>9, StoredSlots
  <2>2. ASSUME NEW x, x \in StoredIn(t, m2)
        PROVE  x \in StoredIn(s, m) /\ x # e
    <3>1. PICK c \in BlockIds, i \in Slots : m2[c].at[i] = x /\ x # NoElem
      BY <2>1, <2>2
    <3>2. <<c, i>> # <<b, k>>
      BY <3>1, <1>4
    <3>3. m[c].at[i] = x
      BY <3>1, <3>2, <1>10
    <3>4. x # e
      BY <3>2, <3>3
    <3> QED
      BY <3>1, <3>3, <3>4, <1>11
  <2>3. ASSUME NEW x, x \in StoredIn(s, m), x # e
        PROVE  x \in StoredIn(t, m2)
    <3>1. PICK c \in BlockIds, i \in Slots : m[c].at[i] = x /\ x # NoElem
      BY <1>11, <2>3
    <3>2. <<c, i>> # <<b, k>>
      BY <3>1, <2>3
    <3>3. m2[c].at[i] = x
      BY <3>1, <3>2, <1>10
    <3> QED
      BY <3>1, <3>3, <2>1
  <2> QED
    BY <2>2, <2>3
<1>13. e \in StoredIn(s, m)
  BY <1>0, <1>2, <1>11
<1>14. \A c \in BlockIds : c # b => m2[c].map = m[c].map
  BY <1>4
<1> QED
  BY <1>0, <1>2, <1>4, <1>7, <1>9, <1>10, <1>12, <1>13, <1>14

-----------------------------------------------------------------------------
(***************************************************************************)
(* The inductive invariant.                                                *)
(***************************************************************************)

\* An element is where the client's iterator to it says, and nowhere else.
Homed ==
  \A b \in BlockIds, i \in Slots :
    block[b].at[i] # NoElem => handle[block[b].at[i]] = [blk |-> b, idx |-> i]

\* The walk is over, or in a block of the list: at a used slot, or at no slot yet.
Walk ==
  \/ it = end
  \/ it.blk \in Listed /\ (it.idx # None => it.idx \in block[it.blk].map)

\* The walk that was dereferenced has its slot.
Dereferenced == deref # NoElem => it # end /\ it.idx # None /\ block[it.blk].at[it.idx] = deref

\* Each element is counted, and nothing else if only empty lists are cleared.
Counted == Cardinality(Stored) <= elements_num /\ (~ClearsStored => SizeExact)

IInv ==
  /\ TypeOK
  /\ Sound(blocks, block)
  /\ Homed
  /\ Walk
  /\ Dereferenced
  /\ IsFiniteSet(Stored) /\ Counted

\* What the invariant says of the list and of each block.
LEMMA ListFacts ==
  ASSUME IInv
  PROVE  /\ blocks \in Seq(BlockIds) /\ block \in [BlockIds -> Block]
         /\ Listed = Members(blocks) /\ Stored = StoredIn(blocks, block)
         /\ NoRepeat(blocks) /\ Listed \subseteq BlockIds /\ NoBlock \notin Listed
         /\ \A b : Position(b) = Pos(blocks, b)
         /\ \A b \in BlockIds : /\ block[b].map \in SUBSET Slots
                                /\ b \in Listed <=> block[b].map # {}
                                /\ \A i \in Slots : i \in block[b].map <=> block[b].at[i] # NoElem
         /\ Stored \subseteq Elems
         /\ \A e : e \in Stored <=> e # NoElem /\ \E b \in BlockIds, i \in Slots : block[b].at[i] = e
<1>1. blocks \in Seq(BlockIds) /\ block \in [BlockIds -> Block] /\ Sound(blocks, block)
  BY DEF IInv, TypeOK
<1>2. Listed = Members(blocks) /\ Stored = StoredIn(blocks, block)
  BY DEF Listed, Members, Stored, StoredIn
<1>3. \A b : Position(b) = Pos(blocks, b)
  BY DEF Position, Pos
<1>4. /\ Members(blocks) \subseteq BlockIds /\ StoredIn(blocks, block) \subseteq Elems
      /\ \A e : e \in StoredIn(blocks, block) <=>
           e # NoElem /\ \E b \in BlockIds, i \in Slots : block[b].at[i] = e
  BY <1>1, StoredSlots
<1>5. \A b \in BlockIds : /\ block[b].map \in SUBSET Slots
                          /\ b \in Listed <=> block[b].map # {}
                          /\ \A i \in Slots : i \in block[b].map <=> block[b].at[i] # NoElem
  BY <1>1, <1>2 DEF Sound
<1>6. NoRepeat(blocks)
  BY <1>1 DEF Sound
<1> QED
  BY <1>1, <1>2, <1>3, <1>4, <1>5, <1>6, BlockListAssumption

\* Where the walk is.
LEMMA CurrentSlot ==
  ASSUME IInv, it # end
  PROVE  /\ it.blk \in Listed /\ it.blk \in BlockIds /\ it \in Iterator
         /\ get_idx(it) \in block[it.blk].map /\ get_idx(it) \in Slots
         /\ it.idx = None => \A j \in block[it.blk].map : get_idx(it) <= j
         /\ it.idx # None => get_idx(it) = it.idx
         /\ get(it) = block[it.blk].at[get_idx(it)] /\ get(it) \in Stored
<1>1. it.blk \in Listed /\ it.blk \in BlockIds /\ it \in Iterator
  BY ListFacts DEF IInv, Walk, TypeOK
<1>2. block[it.blk].map # {} /\ block[it.blk].map \in SUBSET Slots /\ block[it.blk] \in Block
  BY <1>1, ListFacts
<1>3. CASE it.idx = None
  <2>1. get_idx(it) = begin_idx(block[it.blk])
    BY <1>3 DEF get_idx
  <2>2. get_idx(it) \in block[it.blk].map /\ \A j \in block[it.blk].map : get_idx(it) <= j
    BY <2>1, <1>2, FirstSlot
  <2>3. get(it) = block[it.blk].at[get_idx(it)] /\ get(it) \in Stored
    BY <2>2, <1>1, <1>2, ListFacts DEF get
  <2> QED
    BY <2>2, <2>3, <1>1, <1>2, <1>3
<1>4. CASE it.idx # None
  <2>1. get_idx(it) = it.idx /\ it.idx \in block[it.blk].map
    BY <1>4, <1>1 DEF get_idx, IInv, Walk
  <2>2. get(it) = block[it.blk].at[get_idx(it)] /\ get(it) \in Stored
    BY <2>1, <1>1, <1>2, ListFacts DEF get
  <2> QED
    BY <2>1, <2>2, <1>1, <1>2, <1>4
<1> QED
  BY <1>3, <1>4

\* Where an element is.
LEMMA HandleSlot ==
  ASSUME IInv, NEW e \in Stored
  PROVE  /\ handle[e] \in Iterator /\ handle[e].blk \in Listed /\ handle[e].blk \in BlockIds
         /\ handle[e].idx \in block[handle[e].blk].map
         /\ handle[e].idx \in Slots /\ get_idx(handle[e]) = handle[e].idx
         /\ block[handle[e].blk].at[handle[e].idx] = e /\ get(handle[e]) = e
         /\ \A c \in BlockIds, i \in Slots : block[c].at[i] = e => c = handle[e].blk /\ i = handle[e].idx
<1>1. e \in Elems /\ e # NoElem
  BY ListFacts
<1>2. PICK b \in BlockIds, i \in Slots : block[b].at[i] = e
  BY ListFacts
<1>3. ASSUME NEW c \in BlockIds, NEW j \in Slots, block[c].at[j] = e
      PROVE  c = handle[e].blk /\ j = handle[e].idx
  <2>1. handle[e] = [blk |-> c, idx |-> j]
    BY <1>1, <1>3 DEF IInv, Homed
  <2> QED
    BY <2>1
<1>4. handle[e].blk = b /\ handle[e].idx = i
  BY <1>2, <1>3
<1>5. i \in block[b].map /\ b \in Listed
  BY <1>1, <1>2, ListFacts
<1>6. i # None
  BY SlotNumbers
<1>7. handle[e] \in Iterator
  BY <1>1 DEF IInv, TypeOK
<1>8. get_idx(handle[e]) = handle[e].idx
  BY <1>4, <1>6 DEF get_idx
<1>9. get(handle[e]) = e
  BY <1>2, <1>4, <1>8 DEF get
<1>10. \A c \in BlockIds, j \in Slots : block[c].at[j] = e => c = handle[e].blk /\ j = handle[e].idx
  BY <1>3
<1> QED
  BY <1>2, <1>4, <1>5, <1>7, <1>8, <1>9, <1>10

\* Where ++ leads: to the next used slot of the block, or to the next block.
LEMMA NextFacts ==
  ASSUME IInv, it # end
  PROVE  /\ next(it) \in Iterator
         /\ \/ /\ next(it).blk = it.blk /\ next(it).idx \in block[it.blk].map /\ next(it).idx # None
               /\ next(it).idx > get_idx(it)
               /\ \A j \in block[it.blk].map : j > get_idx(it) => next(it).idx <= j
            \/ /\ \A j \in block[it.blk].map : j <= get_idx(it)
               /\ next(it) = end /\ \A c \in Listed : Pos(blocks, c) <= Pos(blocks, it.blk)
            \/ /\ \A j \in block[it.blk].map : j <= get_idx(it)
               /\ next(it).idx = None /\ next(it).blk \in Listed /\ next(it).blk # it.blk
               /\ Pos(blocks, next(it).blk) = Pos(blocks, it.blk) + 1
<1> DEFINE b == it.blk
           j == next_idx(block[b], get_idx(it))
           p == Pos(blocks, b)
<1>1. /\ b \in Listed /\ b \in BlockIds /\ it \in Iterator /\ block[b] \in Block
      /\ get_idx(it) \in block[b].map /\ block[b].map \in SUBSET Slots
  BY CurrentSlot, ListFacts
<1>2. \/ j = None /\ \A i \in block[b].map : i <= get_idx(it)
      \/ /\ j \in block[b].map /\ j # None /\ j > get_idx(it)
         /\ \A i \in block[b].map : i > get_idx(it) => j <= i
  BY <1>1, NextSlot
<1>3. next(it) = IF j # None THEN [it EXCEPT !.idx = j] ELSE [blk |-> NextBlock(b), idx |-> None]
  BY DEF next
<1>4. NextBlock(b) = IF p = Len(blocks) THEN NoBlock ELSE blocks[p + 1]
  BY ListFacts DEF NextBlock
<1>5. /\ NoRepeat(blocks) /\ Listed = Members(blocks) /\ Len(blocks) \in Nat
      /\ p \in 1..Len(blocks) /\ \A c \in Listed : Pos(blocks, c) \in 1..Len(blocks)
  BY <1>1, ListFacts, PosOfMember, LenProperties
<1> HIDE DEF j, p
<1>6. CASE j # None
  <2>1. next(it) \in Iterator /\ next(it).blk = b /\ next(it).idx = j
    BY <1>1, <1>2, <1>3, <1>6 DEF Iterator
  <2> QED
    BY <2>1, <1>2, <1>6
<1>7. CASE j = None
  <2>1. CASE p = Len(blocks)
    <3>1. next(it) = end
      BY <2>1, <1>3, <1>4, <1>7 DEF end
    <3>2. \A c \in Listed : Pos(blocks, c) <= p
      BY <2>1, <1>5
    <3>3. end \in Iterator
      BY DEF end, Iterator
    <3> QED
      BY <3>1, <3>2, <3>3, <1>2, <1>7 DEF p
  <2>2. CASE p # Len(blocks)
    <3>1. p + 1 \in 1..Len(blocks)
      BY <2>2, <1>5
    <3>2. blocks[p + 1] \in Listed /\ Pos(blocks, blocks[p + 1]) = p + 1
      BY <3>1, <1>5, PosOfMember
    <3>3. next(it).blk = blocks[p + 1] /\ next(it).idx = None /\ next(it) = [blk |-> blocks[p + 1], idx |-> None]
      BY <2>2, <1>3, <1>4, <1>7
    <3>4. next(it) \in Iterator
      BY <3>2, <3>3, ListFacts DEF Iterator
    <3>5. blocks[p + 1] # b
      BY <3>2, <1>5 DEF p
    <3> QED
      BY <3>2, <3>3, <3>4, <3>5, <1>2, <1>7 DEF p
  <2> QED
    BY <2>1, <2>2
<1> QED
  BY <1>6, <1>7

-----------------------------------------------------------------------------
(***************************************************************************)
(* The steps.                                                              *)
(***************************************************************************)
\* The empty list satisfies the invariant.
LEMMA InitIInv == Init => IInv
<1> SUFFICES ASSUME Init PROVE IInv
  OBVIOUS
<1>1. EmptyBlock \in Block /\ EmptyBlock.map = {} /\ \A i \in Slots : EmptyBlock.at[i] = NoElem
  BY DEF EmptyBlock, Block
<1>2. /\ blocks = <<>> /\ Len(blocks) = 0 /\ \A b \in BlockIds : block[b] = EmptyBlock
      /\ block = [b \in BlockIds |-> EmptyBlock]
  BY DEF Init
<1> HIDE DEF EmptyBlock
<1>3. end \in Iterator
  BY DEF end, Iterator
<1>4. TypeOK
  <2>1. blocks \in Seq(BlockIds)
    BY <1>2
  <2>2. block \in [BlockIds -> Block]
    BY <1>1, <1>2
  <2>3. handle \in [Elems -> Iterator]
    BY <1>3 DEF Init
  <2> QED
    BY <2>1, <2>2, <2>3, <1>3 DEF Init, TypeOK
<1>5. Listed = {} /\ Members(blocks) = {}
  BY <1>2 DEF Listed, Members
<1>6. Stored = {}
  BY <1>5 DEF Stored
<1>7. Sound(blocks, block)
  <2>1. NoRepeat(blocks)
    BY <1>2 DEF NoRepeat
  <2>2. \A b \in BlockIds : block[b].map = {i \in Slots : block[b].at[i] # NoElem} /\ block[b].map = {}
    BY <1>1, <1>2
  <2> QED
    BY <2>1, <2>2, <1>5 DEF Sound
<1>8. Homed
  BY <1>1, <1>2 DEF Homed
<1>9. Walk /\ Dereferenced
  BY DEF Init, Walk, Dereferenced
<1>10. IsFiniteSet(Stored) /\ Counted
  BY <1>6, FS_EmptySet DEF Counted, SizeExact, Init
<1> QED
  BY <1>4, <1>7, <1>8, <1>9, <1>10 DEF IInv

\* emplace puts e into block b, which has room or is new.
EmplacedIn(b, e) ==
  /\ e \notin Stored /\ ~full(block[b]) /\ Put(b, e)
  /\ blocks' = IF b \in Listed THEN blocks ELSE Append(blocks, b)

\* What emplace does to the list and to the walk.
LEMMA PutFacts ==
  ASSUME IInv, NEW b \in BlockIds, NEW e \in Elems, EmplacedIn(b, e)
  PROVE  LET k == emplace_idx(block[b])
         IN  /\ blocks' \in Seq(BlockIds) /\ block' \in [BlockIds -> Block] /\ Sound(blocks', block')
             /\ k \in Slots /\ k \notin block[b].map /\ block'[b].at[k] = e
             /\ \A c \in BlockIds, i \in Slots : <<c, i>> # <<b, k>> => block'[c].at[i] = block[c].at[i]
             /\ \A c \in BlockIds : block[c].map \subseteq block'[c].map /\ (c # b => block'[c].map = block[c].map)
             /\ block'[b].map = block[b].map \cup {k}
             /\ Listed' = Listed \cup {b} /\ Stored' = Stored \cup {e}
             /\ \A c \in Listed : Pos(blocks', c) = Pos(blocks, c)
             /\ b \notin Listed => \A c \in Listed : Pos(blocks', c) < Pos(blocks', b)
             /\ handle' \in [Elems -> Iterator] /\ handle'[e] = [blk |-> b, idx |-> k]
             /\ \A x \in Elems : x # e => handle'[x] = handle[x]
<1> DEFINE k == emplace_idx(block[b])
<1>1. /\ blocks \in Seq(BlockIds) /\ block \in [BlockIds -> Block] /\ Sound(blocks, block)
      /\ Listed = Members(blocks) /\ Stored = StoredIn(blocks, block)
  BY ListFacts DEF IInv
<1>2. /\ PutInto(blocks, block, b, k, e, blocks', block') /\ ~full(block[b])
      /\ handle' = [handle EXCEPT ![e] = [blk |-> b, idx |-> k]]
  BY <1>1 DEF EmplacedIn, Put, PutInto
<1>3. Listed' = Members(blocks') /\ Stored' = StoredIn(blocks', block')
  BY DEF Listed, Members, Stored, StoredIn
<1>4. k \in Slots \ block[b].map
  BY <1>1, <1>2, FreeSlot
<1>5. handle \in [Elems -> Iterator] /\ [blk |-> b, idx |-> k] \in Iterator
  BY <1>4 DEF IInv, TypeOK, Iterator
<1>6. /\ handle' \in [Elems -> Iterator] /\ handle'[e] = [blk |-> b, idx |-> k]
      /\ \A x \in Elems : x # e => handle'[x] = handle[x]
  BY <1>2, <1>5
<1>7. /\ blocks' \in Seq(BlockIds) /\ block' \in [BlockIds -> Block] /\ Sound(blocks', block')
      /\ block'[b].at[k] = e
      /\ \A c \in BlockIds, i \in Slots : <<c, i>> # <<b, k>> => block'[c].at[i] = block[c].at[i]
      /\ \A c \in BlockIds : block[c].map \subseteq block'[c].map /\ (c # b => block'[c].map = block[c].map)
      /\ block'[b].map = block[b].map \cup {k}
      /\ Members(blocks') = Members(blocks) \cup {b}
      /\ \A c \in Members(blocks) : Pos(blocks', c) = Pos(blocks, c)
      /\ b \notin Members(blocks) => \A c \in Members(blocks) : Pos(blocks', c) < Pos(blocks', b)
      /\ StoredIn(blocks', block') = StoredIn(blocks, block) \cup {e}
  BY <1>1, <1>2, PutKeeps
<1> HIDE DEF k
<1> QED
  BY <1>1, <1>3, <1>4, <1>6, <1>7 DEF k

\* An element put into a free slot of a block, new or not, keeps the invariant.
LEMMA PutStep ==
  ASSUME IInv, NEW b \in BlockIds, NEW e \in Elems, EmplacedIn(b, e)
  PROVE  IInv'
<1> DEFINE k == emplace_idx(block[b])
<1>1. /\ blocks' \in Seq(BlockIds) /\ block' \in [BlockIds -> Block] /\ Sound(blocks', block')
      /\ k \in Slots /\ k \notin block[b].map /\ block'[b].at[k] = e
      /\ \A c \in BlockIds, i \in Slots : <<c, i>> # <<b, k>> => block'[c].at[i] = block[c].at[i]
      /\ \A c \in BlockIds : block[c].map \subseteq block'[c].map
      /\ Listed' = Listed \cup {b} /\ Stored' = Stored \cup {e}
      /\ handle' \in [Elems -> Iterator] /\ handle'[e] = [blk |-> b, idx |-> k]
      /\ \A x \in Elems : x # e => handle'[x] = handle[x]
  BY PutFacts
<1> HIDE DEF k
<1>2. elements_num' = elements_num + 1 /\ UNCHANGED <<it, deref>> /\ e \notin Stored
  BY DEF EmplacedIn, Put
<1>3. TypeOK'
  BY <1>1, <1>2 DEF IInv, TypeOK
<1>4. Homed'
  <2> SUFFICES ASSUME NEW c \in BlockIds, NEW i \in Slots, block'[c].at[i] # NoElem
               PROVE  handle'[block'[c].at[i]] = [blk |-> c, idx |-> i]
    BY DEF Homed
  <2>1. CASE c = b /\ i = k
    BY <2>1, <1>1
  <2>2. CASE ~(c = b /\ i = k)
    <3>1. block'[c].at[i] = block[c].at[i]
      BY <2>2, <1>1
    <3>2. block[c].at[i] \in Stored /\ block[c].at[i] \in Elems /\ block[c].at[i] # e
      BY <3>1, <1>2, ListFacts
    <3> QED
      BY <3>1, <3>2, <1>1 DEF IInv, Homed
  <2> QED
    BY <2>1, <2>2
<1>5. Walk'
  <2>1. CASE it = end
    BY <2>1, <1>2 DEF Walk, end
  <2>2. CASE it # end
    <3>1. it.blk \in Listed /\ it.blk \in BlockIds /\ (it.idx # None => it.idx \in block[it.blk].map)
      BY <2>2, ListFacts DEF IInv, Walk
    <3> QED
      BY <3>1, <1>1, <1>2 DEF Walk
  <2> QED
    BY <2>1, <2>2
<1>6. Dereferenced'
  <2> SUFFICES ASSUME deref # NoElem
               PROVE  it # end /\ it.idx # None /\ block'[it.blk].at[it.idx] = deref
    BY <1>2 DEF Dereferenced, end
  <2>1. it # end /\ it.idx # None /\ block[it.blk].at[it.idx] = deref
    BY DEF IInv, Dereferenced
  <2>2. it.blk \in BlockIds /\ it.idx \in block[it.blk].map /\ it.idx \in Slots
    BY <2>1, CurrentSlot
  <2>3. <<it.blk, it.idx>> # <<b, k>>
    BY <2>2, <1>1
  <2> QED
    BY <2>1, <2>2, <2>3, <1>1
<1>7. IsFiniteSet(Stored') /\ Cardinality(Stored') = Cardinality(Stored) + 1 /\ Cardinality(Stored) \in Nat
  BY <1>1, <1>2, FS_AddElement, FS_CardinalityType DEF IInv
<1>8. Counted'
  BY <1>2, <1>7 DEF IInv, Counted, SizeExact, TypeOK
<1> QED
  BY <1>1, <1>3, <1>4, <1>5, <1>6, <1>7, <1>8 DEF IInv

\* emplace puts the element into a block with a free slot.
LEMMA EmplaceFacts ==
  ASSUME IInv, NEW e \in Elems, emplace(e)
  PROVE  \E b \in BlockIds : EmplacedIn(b, e)
<1>1. CASE (\E b \in Listed : FirstOpen(b) /\ Put(b, e)) /\ UNCHANGED blocks
  BY <1>1, ListFacts DEF emplace, FirstOpen, EmplacedIn
<1>2. CASE \E b \in BlockIds \ Listed : blocks' = Append(blocks, b) /\ Put(b, e)
  <2>1. PICK b \in BlockIds \ Listed : blocks' = Append(blocks, b) /\ Put(b, e)
    BY <1>2
  <2>2. ~full(block[b])
    BY <2>1, ListFacts, SlotNumbers DEF full, is_full
  <2> QED
    BY <2>1, <2>2 DEF emplace, EmplacedIn
<1> QED
  BY <1>1, <1>2 DEF emplace

\* What erase does to the list; i is the iterator it was given.
LEMMA TakeFacts ==
  ASSUME IInv, NEW i \in Iterator, i.blk \in Listed, get_idx(i) \in block[i.blk].map, Take(i)
  PROVE  LET b == i.blk
             k == get_idx(i)
             e == block[b].at[k]
         IN  /\ blocks' \in Seq(BlockIds) /\ block' \in [BlockIds -> Block] /\ Sound(blocks', block')
             /\ b \in BlockIds /\ k \in Slots /\ e \in Elems /\ block'[b].at[k] = NoElem
             /\ \A c \in BlockIds, j \in Slots : <<c, j>> # <<b, k>> => block'[c].at[j] = block[c].at[j]
             /\ \A c \in BlockIds : c # b => block'[c].map = block[c].map
             /\ block'[b].map = block[b].map \ {k}
             /\ Listed' = (IF block[b].map = {k} THEN Listed \ {b} ELSE Listed)
             /\ Stored' = Stored \ {e} /\ e \in Stored
             /\ \A c, d \in Listed' : Pos(blocks', c) <= Pos(blocks', d) <=> Pos(blocks, c) <= Pos(blocks, d)
             /\ handle' \in [Elems -> Iterator] /\ handle'[e] = end
             /\ \A x \in Elems : x # e => handle'[x] = handle[x]
             /\ elements_num' \in Nat /\ IsFiniteSet(Stored') /\ Counted'
<1> DEFINE b == i.blk
           k == get_idx(i)
           e == block[b].at[k]
<1>1. /\ blocks \in Seq(BlockIds) /\ block \in [BlockIds -> Block] /\ Sound(blocks, block)
      /\ Listed = Members(blocks) /\ Stored = StoredIn(blocks, block)
      /\ b \in Members(blocks) /\ b \in BlockIds /\ k \in block[b].map /\ k \in Slots
  BY ListFacts DEF IInv
<1>2. /\ TakenFrom(blocks, block, b, k, blocks', block')
      /\ elements_num' = elements_num - 1
      /\ handle' = [handle EXCEPT ![e] = end]
  BY ListFacts DEF Take, TakenFrom
<1>3. e # NoElem /\ e \in Elems /\ e \in Stored
  BY <1>1, ListFacts
<1>4. ASSUME NEW c \in BlockIds, NEW j \in Slots, block[c].at[j] = e
      PROVE  c = b /\ j = k
  BY <1>1, <1>3, <1>4, HandleSlot
<1>5. Listed' = Members(blocks') /\ Stored' = StoredIn(blocks', block')
  BY DEF Listed, Members, Stored, StoredIn
<1> HIDE DEF b, k
<1>6. /\ blocks' \in Seq(BlockIds) /\ block' \in [BlockIds -> Block] /\ Sound(blocks', block')
      /\ block'[b].at[k] = NoElem
      /\ \A c \in BlockIds, j \in Slots : <<c, j>> # <<b, k>> => block'[c].at[j] = block[c].at[j]
      /\ \A c \in BlockIds : c # b => block'[c].map = block[c].map
      /\ block'[b].map = block[b].map \ {k}
      /\ Members(blocks') = IF block[b].map = {k} THEN Members(blocks) \ {b} ELSE Members(blocks)
      /\ \A c, d \in Members(blocks') : Pos(blocks', c) <= Pos(blocks', d) <=> Pos(blocks, c) <= Pos(blocks, d)
      /\ StoredIn(blocks', block') = StoredIn(blocks, block) \ {e}
  <2>1. \A c \in BlockIds, j \in Slots : block[c].at[j] = block[b].at[k] => c = b /\ j = k
    BY <1>4
  <2>2. TakenFrom(blocks, block, b, k, blocks', block')
    BY <1>2
  <2>3. /\ blocks \in Seq(BlockIds) /\ block \in [BlockIds -> Block] /\ Sound(blocks, block)
        /\ b \in Members(blocks) /\ k \in block[b].map
    BY <1>1
  <2> QED
    BY <2>1, <2>2, <2>3, TakeKeeps
<1>7. handle \in [Elems -> Iterator] /\ end \in Iterator
  BY DEF IInv, TypeOK, end, Iterator
<1>8. /\ handle' \in [Elems -> Iterator] /\ handle'[e] = end
      /\ \A x \in Elems : x # e => handle'[x] = handle[x]
  BY <1>2, <1>3, <1>7
<1> HIDE DEF e
<1>9. elements_num' \in Nat /\ IsFiniteSet(Stored') /\ Counted'
  <2>1. Stored' = Stored \ {e} /\ IsFiniteSet(Stored)
    BY <1>1, <1>5, <1>6 DEF IInv
  <2>2. /\ IsFiniteSet(Stored') /\ Cardinality(Stored') = Cardinality(Stored) - 1
        /\ Cardinality(Stored) \in Nat /\ Cardinality(Stored') \in Nat
    BY <2>1, <1>3, FS_RemoveElement, FS_CardinalityType
  <2>3. /\ elements_num \in Nat /\ Cardinality(Stored) <= elements_num
        /\ ~ClearsStored => elements_num = Cardinality(Stored)
    BY DEF IInv, Counted, SizeExact, TypeOK
  <2>4. elements_num' \in Nat /\ Cardinality(Stored') <= elements_num'
    BY <2>2, <2>3, <1>2
  <2>5. ~ClearsStored => elements_num' = Cardinality(Stored')
    BY <2>2, <2>3, <1>2
  <2> QED
    BY <2>2, <2>4, <2>5 DEF Counted, SizeExact
<1> QED
  BY <1>1, <1>3, <1>5, <1>6, <1>8, <1>9 DEF b, k, e

\* Taking an element out keeps the invariant if the walk does not stay at it.
LEMMA TakeStep ==
  ASSUME IInv, NEW i \in Iterator, i.blk \in Listed, get_idx(i) \in block[i.blk].map, Take(i),
         it' \in Iterator, deref' \in Elems \cup {NoElem},
         it' = end \/ (it'.blk \in Listed' /\ (it'.idx # None => it'.idx \in block'[it'.blk].map)),
         deref' # NoElem => it' # end /\ it'.idx # None /\ block'[it'.blk].at[it'.idx] = deref'
  PROVE  IInv'
<1> DEFINE b == i.blk
           k == get_idx(i)
           e == block[b].at[k]
<1>1. /\ blocks' \in Seq(BlockIds) /\ block' \in [BlockIds -> Block] /\ Sound(blocks', block')
      /\ b \in BlockIds /\ k \in Slots /\ e \in Elems /\ block'[b].at[k] = NoElem
      /\ \A c \in BlockIds, j \in Slots : <<c, j>> # <<b, k>> => block'[c].at[j] = block[c].at[j]
      /\ handle' \in [Elems -> Iterator]
      /\ \A x \in Elems : x # e => handle'[x] = handle[x]
      /\ elements_num' \in Nat /\ IsFiniteSet(Stored') /\ Counted'
      /\ e \in Stored
  BY TakeFacts
<1>2. \A c \in BlockIds, j \in Slots : block[c].at[j] = e => c = b /\ j = k
  BY <1>1, HandleSlot
<1> HIDE DEF b, k, e
<1>3. TypeOK'
  BY <1>1 DEF IInv, TypeOK
<1>4. Homed'
  <2> SUFFICES ASSUME NEW c \in BlockIds, NEW j \in Slots, block'[c].at[j] # NoElem
               PROVE  handle'[block'[c].at[j]] = [blk |-> c, idx |-> j]
    BY DEF Homed
  <2>1. <<c, j>> # <<b, k>>
    BY <1>1
  <2>2. block'[c].at[j] = block[c].at[j]
    BY <2>1, <1>1
  <2>3. block[c].at[j] \in Elems /\ block[c].at[j] # e
    BY <2>1, <2>2, <1>2, ListFacts
  <2> QED
    BY <2>2, <2>3, <1>1 DEF IInv, Homed
<1>5. Walk' /\ Dereferenced'
  BY DEF Walk, Dereferenced, end
<1> QED
  BY <1>1, <1>3, <1>4, <1>5 DEF IInv

\* erase of e leaves the walk, which is at another element, where it is.
LEMMA EraseFacts ==
  ASSUME IInv, NEW e \in Elems, erase(e)
  PROVE  /\ e \in Stored /\ Take(handle[e]) /\ UNCHANGED <<it, deref>>
         /\ handle[e] \in Iterator /\ handle[e].blk \in Listed
         /\ get_idx(handle[e]) \in block[handle[e].blk].map
         /\ block[handle[e].blk].at[get_idx(handle[e])] = e
         /\ it # end => /\ <<it.blk, get_idx(it)>> # <<handle[e].blk, handle[e].idx>>
                        /\ it.blk \in Listed' /\ get_idx(it) \in block'[it.blk].map
                        /\ get_idx(it)' = get_idx(it)
<1>1. e \in Stored /\ Take(handle[e]) /\ UNCHANGED <<it, deref>> /\ (it # end => get(it) # e)
  BY DEF erase
<1> DEFINE b == handle[e].blk
           k == handle[e].idx
<1>2. /\ handle[e] \in Iterator /\ b \in Listed /\ b \in BlockIds /\ k \in block[b].map /\ k \in Slots
      /\ get_idx(handle[e]) = k /\ block[b].at[k] = e
  BY <1>1, HandleSlot
<1>3. /\ block' \in [BlockIds -> Block]
      /\ \A c \in BlockIds : c # b => block'[c].map = block[c].map
      /\ block'[b].map = block[b].map \ {k}
      /\ Listed' = (IF block[b].map = {k} THEN Listed \ {b} ELSE Listed)
  BY <1>1, <1>2, TakeFacts
<1> HIDE DEF b, k
<1>4. ASSUME it # end
      PROVE  /\ <<it.blk, get_idx(it)>> # <<b, k>>
             /\ it.blk \in Listed' /\ get_idx(it) \in block'[it.blk].map
             /\ get_idx(it)' = get_idx(it)
  <2> DEFINE n == get_idx(it)
  <2>1. /\ it.blk \in Listed /\ it.blk \in BlockIds /\ n \in block[it.blk].map /\ n \in Slots
        /\ it.idx = None => \A j \in block[it.blk].map : n <= j
        /\ it.idx # None => n = it.idx
        /\ get(it) = block[it.blk].at[n]
    BY <1>4, CurrentSlot
  <2> HIDE DEF n
  <2>2. <<it.blk, n>> # <<b, k>>
    BY <1>1, <1>2, <1>4, <2>1
  <2>3. it.blk \in Listed' /\ n \in block'[it.blk].map /\ block'[it.blk].map \subseteq block[it.blk].map
    BY <1>2, <1>3, <2>1, <2>2
  <2>4. get_idx(it)' = n
    <3>1. CASE it.idx # None
      BY <3>1, <1>1, <2>1 DEF get_idx
    <3>2. CASE it.idx = None
      <4>1. get_idx(it)' = begin_idx(block'[it.blk])
        BY <3>2, <1>1 DEF get_idx
      <4> DEFINE f == begin_idx(block'[it.blk])
      <4>2. f \in block'[it.blk].map /\ \A j \in block'[it.blk].map : f <= j
        BY <1>3, <2>1, <2>3, FirstSlot
      <4> HIDE DEF f
      <4>3. f <= n /\ n <= f /\ f \in block[it.blk].map
        BY <3>2, <4>2, <2>1, <2>3
      <4>4. f \in Nat /\ n \in Nat
        BY <4>3, <2>1, ListFacts, SlotNumbers
      <4> QED
        BY <4>1, <4>3, <4>4 DEF f
    <3> QED
      BY <3>1, <3>2
  <2> QED
    BY <2>2, <2>3, <2>4 DEF n
<1> QED
  BY <1>1, <1>2, <1>4 DEF b, k

\* An element is erased by the iterator that the client kept.
LEMMA EraseStep ==
  ASSUME IInv, NEW e \in Elems, erase(e)
  PROVE  IInv'
<1>1. /\ e \in Stored /\ Take(handle[e]) /\ UNCHANGED <<it, deref>>
      /\ handle[e] \in Iterator /\ handle[e].blk \in Listed
      /\ get_idx(handle[e]) \in block[handle[e].blk].map
      /\ it # end => it.blk \in Listed' /\ get_idx(it) \in block'[it.blk].map
      /\ it # end => <<it.blk, get_idx(it)>> # <<handle[e].blk, handle[e].idx>>
      /\ get_idx(handle[e]) = handle[e].idx
  BY EraseFacts, HandleSlot
<1>2. it \in Iterator /\ deref \in Elems \cup {NoElem}
  BY DEF IInv, TypeOK
<1>3. it # end => (it.idx # None => get_idx(it) = it.idx) /\ it.blk \in BlockIds /\ get_idx(it) \in Slots
  BY CurrentSlot
<1>4. deref # NoElem => it # end /\ it.idx # None /\ block[it.blk].at[it.idx] = deref
  BY DEF IInv, Dereferenced
<1>5. \A c \in BlockIds, j \in Slots :
        <<c, j>> # <<handle[e].blk, get_idx(handle[e])>> => block'[c].at[j] = block[c].at[j]
  BY <1>1, TakeFacts
<1>6. deref # NoElem => block'[it.blk].at[it.idx] = deref
  BY <1>1, <1>3, <1>4, <1>5
<1>7. /\ it' \in Iterator /\ deref' \in Elems \cup {NoElem}
      /\ it' = end \/ (it'.blk \in Listed' /\ (it'.idx # None => it'.idx \in block'[it'.blk].map))
      /\ deref' # NoElem => it' # end /\ it'.idx # None /\ block'[it'.blk].at[it'.idx] = deref'
  BY <1>1, <1>2, <1>3, <1>4, <1>6
<1> QED
  BY <1>1, <1>7, TakeStep

\* The element that the walk is at is erased, and the walk goes on behind it.
LEMMA EraseAtWalkStep == ASSUME IInv, erase_at_walk PROVE IInv'
<1>1. it # end /\ Take(it) /\ it' = next(it) /\ deref' = NoElem
  BY DEF erase_at_walk
<1> DEFINE b == it.blk
           k == get_idx(it)
<1>2. it \in Iterator /\ b \in Listed /\ k \in block[b].map
  BY <1>1, CurrentSlot
<1>3. /\ \A c \in BlockIds : c # b => block'[c].map = block[c].map
      /\ block'[b].map = block[b].map \ {k}
      /\ Listed' = (IF block[b].map = {k} THEN Listed \ {b} ELSE Listed)
      /\ k \in Slots
  BY <1>1, <1>2, TakeFacts
<1>4. /\ next(it) \in Iterator
      /\ \/ /\ next(it).blk = b /\ next(it).idx \in block[b].map /\ next(it).idx > k
         \/ next(it) = end
         \/ next(it).idx = None /\ next(it).blk \in Listed /\ next(it).blk # b
  BY <1>1, NextFacts
<1> HIDE DEF b, k
<1>5. it' = end \/ (it'.blk \in Listed' /\ (it'.idx # None => it'.idx \in block'[it'.blk].map))
  <2>1. CASE next(it).blk = b /\ next(it).idx \in block[b].map /\ next(it).idx > k
    <3>1. next(it).idx # k
      BY <2>1, <1>3, SlotNumbers
    <3> QED
      BY <2>1, <3>1, <1>1, <1>2, <1>3
  <2>2. CASE next(it).idx = None /\ next(it).blk \in Listed /\ next(it).blk # b
    BY <2>2, <1>1, <1>3
  <2> QED
    BY <2>1, <2>2, <1>1, <1>4
<1>6. it' \in Iterator /\ deref' = NoElem
  BY <1>1, <1>4
<1> QED
  BY <1>1, <1>2, <1>5, <1>6, TakeStep DEF b, k

\* The walk moves and the list stays.
LEMMA WalkStep ==
  ASSUME IInv, UNCHANGED <<blocks, block, elements_num, handle>>,
         it' \in Iterator, deref' \in Elems \cup {NoElem},
         it' = end \/ (it'.blk \in Listed /\ (it'.idx # None => it'.idx \in block[it'.blk].map)),
         deref' # NoElem => it' # end /\ it'.idx # None /\ block[it'.blk].at[it'.idx] = deref'
  PROVE  IInv'
<1>1. Stored' = Stored /\ Listed' = Listed
  BY DEF Stored, Listed
<1>2. TypeOK' /\ Sound(blocks', block') /\ Homed' /\ IsFiniteSet(Stored') /\ Counted'
  BY <1>1 DEF IInv, TypeOK, Homed, Counted, SizeExact
<1>3. Walk' /\ Dereferenced'
  BY <1>1 DEF Walk, Dereferenced, end
<1> QED
  BY <1>2, <1>3 DEF IInv

\* Where begin() leads: to the first used slot of the first block.
LEMMA BeginFacts ==
  ASSUME IInv, begin, blocks # <<>>
  PROVE  /\ it' # end /\ it'.blk \in Listed /\ it'.idx \in block[it'.blk].map /\ it' \in Iterator
         /\ Pos(blocks, it'.blk) = 1 /\ it'.idx # None
         /\ \A j \in block[it'.blk].map : it'.idx <= j
<1>1. /\ blocks \in Seq(BlockIds) /\ Listed = Members(blocks) /\ NoRepeat(blocks)
  BY ListFacts
<1>2. Len(blocks) \in Nat \ {0} /\ Head(blocks) = blocks[1] /\ 1 \in 1..Len(blocks)
  BY <1>1, EmptySeq, LenProperties, HeadTailProperties
<1>3. Head(blocks) \in Listed /\ Pos(blocks, Head(blocks)) = 1
  BY <1>1, <1>2, PosOfMember
<1>4. /\ Head(blocks) \in BlockIds /\ block[Head(blocks)] \in Block /\ block[Head(blocks)].map # {}
      /\ block[Head(blocks)].map \in SUBSET Slots
  BY <1>3, ListFacts
<1> DEFINE b == Head(blocks)
           k == begin_idx(block[b])
<1>5. k \in block[b].map /\ \A j \in block[b].map : k <= j
  BY <1>4, FirstSlot
<1>6. it' = [blk |-> b, idx |-> k]
  BY DEF begin
<1> HIDE DEF b, k
<1>7. it'.blk = b /\ it'.idx = k
  BY <1>6
<1>8. b \in BlockIds /\ k \in Slots /\ k # None
  BY <1>4, <1>5, SlotNumbers DEF b
<1>9. it' \in Iterator /\ it' # end
  BY <1>6, <1>7, <1>8, BlockListAssumption DEF Iterator, end
<1> QED
  BY <1>3, <1>5, <1>7, <1>8, <1>9 DEF b

\* A walk begins at the first block, with no index yet.
LEMMA BeginStep == ASSUME IInv, begin PROVE IInv'
<1>1. deref' = NoElem /\ UNCHANGED <<blocks, block, elements_num, handle>>
  BY DEF begin
<1>2. CASE blocks = <<>>
  <2>1. it' = end /\ end \in Iterator
    BY <1>2 DEF begin, end, Iterator
  <2> QED
    BY <2>1, <1>1, WalkStep
<1>3. CASE blocks # <<>>
  BY <1>1, <1>3, BeginFacts, WalkStep
<1> QED
  BY <1>2, <1>3

\* A dereference settles the index of the walk and reads an element that is stored.
LEMMA DereferenceFacts ==
  ASSUME IInv, dereference
  PROVE  /\ it # end /\ it' # end /\ it' \in Iterator /\ it'.blk = it.blk /\ it'.idx = get_idx(it)
         /\ it'.idx \in block[it.blk].map /\ it'.idx # None /\ it.blk \in Listed
         /\ deref' = block[it.blk].at[it'.idx] /\ deref' \in Elems
         /\ UNCHANGED <<blocks, block, elements_num, handle>>
<1>1. /\ it # end /\ it' = resolved(it) /\ deref' = get(it)
      /\ UNCHANGED <<blocks, block, elements_num, handle>>
  BY DEF dereference
<1>2. /\ it.blk \in Listed /\ it.blk \in BlockIds /\ it \in Iterator
      /\ get_idx(it) \in block[it.blk].map /\ get_idx(it) \in Slots
      /\ get(it) = block[it.blk].at[get_idx(it)] /\ get(it) \in Stored
  BY <1>1, CurrentSlot
<1>3. it' \in Iterator /\ it'.blk = it.blk /\ it'.idx = get_idx(it)
  BY <1>1, <1>2 DEF resolved, Iterator
<1>4. it'.idx # None /\ it' # end /\ deref' \in Elems
  BY <1>1, <1>2, <1>3, ListFacts, SlotNumbers DEF end
<1> QED
  BY <1>1, <1>2, <1>3, <1>4

\* It keeps the invariant.
LEMMA DereferenceStep == ASSUME IInv, dereference PROVE IInv'
<1> QED
  BY DereferenceFacts, WalkStep

\* The walk goes to the next used slot, or to the next block.
LEMMA AdvanceStep == ASSUME IInv, advance PROVE IInv'
<1>1. /\ it # end /\ it' = next(it) /\ deref' = NoElem
      /\ UNCHANGED <<blocks, block, elements_num, handle>>
  BY DEF advance
<1>2. it.blk \in Listed
  BY <1>1, CurrentSlot
<1> QED
  BY <1>1, <1>2, NextFacts, WalkStep

\* With no throw in a new block, one leaves everything as it is.
LEMMA ThrowsNothing ==
  ASSUME ~ThrowsInNewBlock, emplace_throws
  PROVE  UNCHANGED vars
<1> QED
  BY DEF emplace_throws, vars

\* A step that changes nothing keeps the invariant.
LEMMA StutterStep == ASSUME IInv, UNCHANGED vars PROVE IInv'
<1>1. UNCHANGED <<blocks, block, elements_num, handle, it, deref>>
  BY DEF vars
<1>2. Stored' = Stored /\ Listed' = Listed
  BY <1>1 DEF Stored, Listed
<1> QED
  BY <1>1, <1>2 DEF IInv, TypeOK, Homed, Counted, SizeExact, Walk, Dereferenced, end

\* clear leaves an empty list, and no block in use.
LEMMA ClearFacts ==
  ASSUME IInv, clear
  PROVE  /\ blocks' \in Seq(BlockIds) /\ block' \in [BlockIds -> Block] /\ Sound(blocks', block')
         /\ Listed' = {} /\ Stored' = {}
<1>1. EmptyBlock \in Block /\ EmptyBlock.map = {} /\ \A i \in Slots : EmptyBlock.at[i] = NoElem
  BY DEF EmptyBlock, Block
<1>2. /\ blocks' = <<>> /\ Len(blocks') = 0 /\ \A b \in BlockIds : block'[b] = EmptyBlock
      /\ block' = [b \in BlockIds |-> EmptyBlock]
  BY DEF clear
<1> HIDE DEF EmptyBlock
<1>3. Listed' = {} /\ Members(blocks') = {}
  BY <1>2 DEF Listed, Members
<1>4. Stored' = {}
  BY <1>3 DEF Stored
<1>5. NoRepeat(blocks') /\ blocks' \in Seq(BlockIds)
  BY <1>2 DEF NoRepeat
<1>6. \A b \in BlockIds : block'[b].map = {i \in Slots : block'[b].at[i] # NoElem} /\ block'[b].map = {}
  BY <1>1, <1>2
<1>7. Sound(blocks', block')
  BY <1>3, <1>5, <1>6 DEF Sound
<1>8. block' \in [BlockIds -> Block]
  BY <1>1, <1>2
<1> QED
  BY <1>3, <1>4, <1>5, <1>7, <1>8

\* It keeps the invariant: the count is kept, and it is 0 if nothing was stored.
LEMMA ClearStep == ASSUME IInv, clear PROVE IInv'
<1>1. /\ blocks' \in Seq(BlockIds) /\ block' \in [BlockIds -> Block] /\ Sound(blocks', block')
      /\ Stored' = {}
  BY ClearFacts
<1>2. /\ handle' = [e \in Elems |-> end] /\ it' = end /\ deref' = NoElem
      /\ elements_num' = elements_num /\ (ClearsStored \/ Stored = {})
  BY DEF clear
<1>3. elements_num \in Nat /\ (~ClearsStored => elements_num = 0)
  BY <1>2, FS_EmptySet DEF IInv, Counted, SizeExact, TypeOK
<1>4. end \in Iterator
  BY DEF end, Iterator
<1>6. handle' \in [Elems -> Iterator]
  BY <1>2, <1>4
<1>7. TypeOK'
  BY <1>1, <1>2, <1>3, <1>4, <1>6 DEF TypeOK
<1>8. \A b \in BlockIds, i \in Slots : block'[b].at[i] = NoElem
  <2>1. \A e : e \in StoredIn(blocks', block') <=>
          e # NoElem /\ \E b \in BlockIds, i \in Slots : block'[b].at[i] = e
    BY <1>1, StoredSlots
  <2>2. StoredIn(blocks', block') = {}
    BY <1>1 DEF Stored, StoredIn, Listed, Members
  <2> QED
    BY <2>1, <2>2
<1>9. Homed' /\ Walk' /\ Dereferenced'
  BY <1>2, <1>8 DEF Homed, Walk, Dereferenced, end
<1>10. IsFiniteSet(Stored') /\ Counted'
  BY <1>1, <1>2, <1>3, FS_EmptySet DEF Counted, SizeExact
<1> QED
  BY <1>1, <1>7, <1>9, <1>10 DEF IInv

\* Every step keeps the invariant.
LEMMA NextKeepsIInv ==
  ASSUME ~ThrowsInNewBlock, IInv, [Next]_vars
  PROVE  IInv'
<1>1. ASSUME NEW e \in Elems, emplace(e)
      PROVE  IInv'
  BY <1>1, EmplaceFacts, PutStep
<1>2. ASSUME NEW e \in Elems, erase(e)
      PROVE  IInv'
  BY <1>2, EraseStep
<1>3. CASE emplace_throws
  BY <1>3, ThrowsNothing, StutterStep
<1>4. CASE UNCHANGED vars
  BY <1>4, StutterStep
<1> QED
  BY <1>1, <1>2, <1>3, <1>4, EraseAtWalkStep, BeginStep, DereferenceStep, AdvanceStep, ClearStep DEF Next

-----------------------------------------------------------------------------
(***************************************************************************)
(* The theorems.  They are about elements whose constructor does not throw *)
(* in a block that was just added; such a throw leaves an empty block in   *)
(* the list, see ThrowsInNewBlock.                                         *)
(***************************************************************************)

\* Elements are where the client's iterators say, the walk stays inside the list
\* and the count is exact.
THEOREM Inductive == ~ThrowsInNewBlock => (Spec => []IInv)
<1> SUFFICES ASSUME ~ThrowsInNewBlock PROVE Spec => []IInv
  OBVIOUS
<1>1. IInv /\ [Next]_vars => IInv'
  BY NextKeepsIInv
<1> QED
  BY <1>1, InitIInv, PTL DEF Spec

\* Iterators, blocks and the count keep their types: erase never counts below 0.
THEOREM TypeCorrect == ~ThrowsInNewBlock => (Spec => []TypeOK)
<1>1. IInv => TypeOK
  BY DEF IInv
<1> QED
  BY <1>1, Inductive, PTL

\* The list holds every block once and none that is empty; the maps say exactly
\* which slots hold an object; a freed block holds none.
THEOREM BlocksAreSound == ~ThrowsInNewBlock => (Spec => []BlocksSound)
<1>1. IInv => BlocksSound
  BY ListFacts DEF IInv, Sound, NoRepeat, BlocksSound
<1> QED
  BY <1>1, Inductive, PTL

\* No operation on other elements disturbs the iterator to a stored element or
\* a walk that was dereferenced.
THEOREM IteratorsAreStable == ~ThrowsInNewBlock => (Spec => []IteratorsStable)
<1>1. ASSUME IInv
      PROVE  IteratorsStable
  <2>1. \A e \in Stored : handle[e].blk \in Listed /\ get(handle[e]) = e
    BY <1>1, HandleSlot
  <2>2. ASSUME deref # NoElem
        PROVE  it.blk \in Listed /\ get(it) = deref
    <3>1. it # end /\ it.idx # None /\ block[it.blk].at[it.idx] = deref
      BY <1>1, <2>2 DEF IInv, Dereferenced
    <3> QED
      BY <1>1, <3>1, CurrentSlot
  <2> QED
    BY <2>1, <2>2 DEF IteratorsStable
<1> QED
  BY <1>1, Inductive, PTL

\* size() is the number of the elements, if no list with elements is cleared.
THEOREM SizeIsExact == ~ThrowsInNewBlock /\ ~ClearsStored => (Spec => []SizeExact)
<1> SUFFICES ASSUME ~ThrowsInNewBlock, ~ClearsStored PROVE Spec => []SizeExact
  OBVIOUS
<1>1. IInv => SizeExact
  BY DEF IInv, Counted
<1> QED
  BY <1>1, Inductive, PTL

\* empty() and size() == 0 agree under the same conditions: the count is 0 exactly
\* when the last block is gone.
THEOREM EmptyIsRight == ~ThrowsInNewBlock /\ ~ClearsStored => (Spec => []EmptyRight)
<1> SUFFICES ASSUME ~ThrowsInNewBlock, ~ClearsStored PROVE Spec => []EmptyRight
  OBVIOUS
<1>1. ASSUME IInv
      PROVE  EmptyRight
  <2>1. elements_num = Cardinality(Stored) /\ IsFiniteSet(Stored)
    BY <1>1 DEF IInv, Counted, SizeExact
  <2>2. elements_num = 0 <=> Stored = {}
    BY <2>1, FS_EmptySet
  <2>3. blocks = <<>> => Stored = {}
    BY DEF Stored, Listed
  <2>4. ASSUME blocks # <<>>
        PROVE  Stored # {}
    <3>1. blocks \in Seq(BlockIds) /\ Listed \subseteq BlockIds
      BY <1>1, ListFacts
    <3>2. Len(blocks) \in Nat \ {0}
      BY <2>4, <3>1, EmptySeq, LenProperties
    <3>3. PICK b : b \in Listed
      BY <3>2 DEF Listed
    <3>4. PICK i : i \in block[b].map
      BY <1>1, <3>1, <3>3, ListFacts
    <3>5. b \in BlockIds /\ i \in Slots /\ block[b].at[i] # NoElem
      BY <1>1, <3>1, <3>3, <3>4, ListFacts
    <3>6. block[b].at[i] \in Stored
      BY <1>1, <3>5, ListFacts
    <3> QED
      BY <3>6
  <2> QED
    BY <2>2, <2>3, <2>4 DEF EmptyRight
<1> QED
  BY <1>1, Inductive, PTL

-----------------------------------------------------------------------------
(***************************************************************************)
(* BlockList implements Store.  s is a list, h the client's iterators.     *)
(***************************************************************************)

\* The walk w meets the element f at its block, from its slot on, or later.
InFront(s, h, w, f) ==
  /\ Pos(s, w.blk) <= Pos(s, h[f].blk)
  /\ (h[f].blk = w.blk /\ w.idx # None) => w.idx <= h[f].idx

\* Ahead, by where the elements are.
AheadRight ==
  /\ Ahead \subseteq Stored
  /\ it = end => Ahead = {}
  /\ it # end => /\ get(it) \in Ahead
                 /\ \A f \in Stored : f \in Ahead <=> InFront(blocks, handle, it, f)

\* The invariant makes the set of elements ahead of the walk what AheadRight says.
LEMMA AheadKnown == IInv => AheadRight
<1> SUFFICES ASSUME IInv PROVE AheadRight
  OBVIOUS
<1>1. CASE it = end
  BY <1>1 DEF Ahead, AheadRight
<1>2. CASE it # end
  <2> DEFINE p == Pos(blocks, it.blk)
             g == get_idx(it)
             InBlock(k) == {block[blocks[k]].at[i] : i \in {j \in block[blocks[k]].map :
                              blocks[k] = it.blk => j >= g}}
  <2>1. Ahead = UNION {InBlock(k) : k \in p..Len(blocks)}
    BY <1>2, ListFacts DEF Ahead
  <2>2. /\ NoRepeat(blocks) /\ Listed = Members(blocks) /\ Len(blocks) \in Nat /\ p \in 1..Len(blocks)
        /\ blocks \in Seq(BlockIds) /\ \A c \in Listed : c \in BlockIds
        /\ \A k \in 1..Len(blocks) : blocks[k] \in Listed /\ Pos(blocks, blocks[k]) = k
        /\ \A c \in Listed : Pos(blocks, c) \in 1..Len(blocks) /\ blocks[Pos(blocks, c)] = c
    BY <1>2, CurrentSlot, ListFacts, PosOfMember, LenProperties
  <2>3. /\ it.idx = None => \A j \in block[it.blk].map : g <= j
        /\ it.idx # None => g = it.idx
        /\ g \in block[it.blk].map /\ g \in Nat /\ \A j \in block[it.blk].map : j \in Nat
        /\ get(it) = block[it.blk].at[g] /\ it.blk \in Listed
    BY <1>2, CurrentSlot, ListFacts, SlotNumbers
  <2>4. ASSUME NEW k \in p..Len(blocks), NEW f \in InBlock(k)
        PROVE  f \in Stored /\ InFront(blocks, handle, it, f)
    <3>1. PICK i \in block[blocks[k]].map : f = block[blocks[k]].at[i] /\ (blocks[k] = it.blk => i >= g)
      OBVIOUS
    <3>2. k \in 1..Len(blocks) /\ k >= p
      BY <2>2
    <3>3. blocks[k] \in BlockIds /\ i \in Slots /\ Pos(blocks, blocks[k]) = k
      BY <3>1, <3>2, <2>2, ListFacts
    <3>4. f \in Stored
      BY <3>1, <3>3, ListFacts
    <3>5. handle[f].blk = blocks[k] /\ handle[f].idx = i
      BY <3>1, <3>3, <3>4, HandleSlot
    <3>6. (blocks[k] = it.blk /\ it.idx # None) => it.idx <= i
      BY <3>1, <2>3, SlotNumbers, <3>3
    <3> QED
      BY <3>2, <3>3, <3>4, <3>5, <3>6 DEF InFront
  <2>5. ASSUME NEW f \in Stored, InFront(blocks, handle, it, f)
        PROVE  f \in Ahead
    <3> DEFINE c == handle[f].blk
               i == handle[f].idx
               k == Pos(blocks, c)
    <3>1. c \in Listed /\ i \in block[c].map /\ block[c].at[i] = f
      BY HandleSlot
    <3>2. k \in 1..Len(blocks) /\ blocks[k] = c /\ p <= k
      BY <2>2, <2>5, <3>1 DEF InFront
    <3>3. c = it.blk => i >= g
      BY <2>3, <2>5, <3>1 DEF InFront
    <3> HIDE DEF c, i, k, g, p
    <3>4. k \in p..Len(blocks) /\ f \in InBlock(k)
      BY <2>2, <3>1, <3>2, <3>3
    <3> QED
      BY <2>1, <3>4
  <2>6. get(it) \in Stored /\ InFront(blocks, handle, it, get(it))
    <3>1. get(it) \in Stored /\ it.blk \in BlockIds /\ g \in Slots
      BY <1>2, CurrentSlot
    <3>2. handle[get(it)].blk = it.blk /\ handle[get(it)].idx = g
      BY <3>1, <2>3, HandleSlot
    <3> QED
      BY <3>1, <3>2, <2>2, <2>3 DEF InFront
  <2>7. Ahead \subseteq Stored /\ \A f \in Stored : f \in Ahead => InFront(blocks, handle, it, f)
    BY <2>1, <2>4
  <2> QED
    BY <1>2, <2>5, <2>6, <2>7 DEF AheadRight
<1> QED
  BY <1>1, <1>2

\* ++ passes the element the walk is at and no other.
LEMMA NextPasses ==
  ASSUME IInv, it # end, NEW f \in Stored
  PROVE  InFront(blocks, handle, it, f) /\ f # get(it)
           <=> next(it) # end /\ InFront(blocks, handle, next(it), f)
<1> DEFINE b == it.blk
           g == get_idx(it)
           c == handle[f].blk
           i == handle[f].idx
           n == next(it)
<1>1. /\ b \in Listed /\ b \in BlockIds /\ g \in block[b].map /\ g \in Slots /\ g \in Nat
      /\ it.idx = None => \A j \in block[b].map : g <= j
      /\ it.idx # None => g = it.idx
      /\ get(it) = block[b].at[g]
  BY CurrentSlot, SlotNumbers
<1>2. /\ c \in Listed /\ c \in BlockIds /\ i \in block[c].map /\ i \in Slots /\ i \in Nat /\ block[c].at[i] = f
      /\ \A d \in BlockIds, j \in Slots : block[d].at[j] = f => d = c /\ j = i
  BY HandleSlot, SlotNumbers
<1>3. f = get(it) <=> c = b /\ i = g
  BY <1>1, <1>2
<1>4. /\ Pos(blocks, b) \in Nat /\ Pos(blocks, c) \in Nat
      /\ Pos(blocks, b) = Pos(blocks, c) <=> b = c
  BY <1>1, <1>2, ListFacts, PosOfMember, LenProperties
<1>5. InFront(blocks, handle, it, f) <=> Pos(blocks, b) <= Pos(blocks, c) /\ (c = b => g <= i)
  BY <1>1, <1>2 DEF InFront
<1>6. n # end => (InFront(blocks, handle, n, f)
                   <=> Pos(blocks, n.blk) <= Pos(blocks, c) /\ (c = n.blk /\ n.idx # None => n.idx <= i))
  BY DEF InFront
<1>7. \/ /\ n.blk = b /\ n.idx \in block[b].map /\ n.idx # None /\ n.idx > g
         /\ \A j \in block[b].map : j > g => n.idx <= j
      \/ /\ \A j \in block[b].map : j <= g
         /\ n = end /\ \A d \in Listed : Pos(blocks, d) <= Pos(blocks, b)
      \/ /\ \A j \in block[b].map : j <= g
         /\ n.idx = None /\ n.blk \in Listed /\ n.blk # b
         /\ Pos(blocks, n.blk) = Pos(blocks, b) + 1
  BY NextFacts
<1>8. n.blk \in Listed => n # end
  BY ListFacts DEF end
<1>9. n.idx \in block[b].map => n.idx \in Nat
  BY <1>1, ListFacts, SlotNumbers
<1> HIDE DEF b, g, c, i, n
<1>10. CASE /\ n.blk = b /\ n.idx \in block[b].map /\ n.idx # None /\ n.idx > g
            /\ \A j \in block[b].map : j > g => n.idx <= j
  BY <1>1, <1>2, <1>3, <1>4, <1>5, <1>6, <1>8, <1>9, <1>10 DEF n
<1>11. CASE /\ \A j \in block[b].map : j <= g
            /\ n = end /\ \A d \in Listed : Pos(blocks, d) <= Pos(blocks, b)
  BY <1>1, <1>2, <1>3, <1>4, <1>5, <1>11 DEF n
<1>12. CASE /\ \A j \in block[b].map : j <= g
            /\ n.idx = None /\ n.blk \in Listed /\ n.blk # b
            /\ Pos(blocks, n.blk) = Pos(blocks, b) + 1
  BY <1>1, <1>2, <1>3, <1>4, <1>5, <1>6, <1>8, <1>12 DEF n
<1> QED
  BY <1>7, <1>10, <1>11, <1>12

\* What the walk has ahead, over and the elements are, in the next state.
LEMMA NextAhead == IInv' => AheadRight'
<1> QED
  BY AheadKnown, PTL

\* emplace: the walk may meet the new element, and the others as before.
LEMMA EmplaceInserts ==
  ASSUME IInv, IInv', NEW e \in Elems, emplace(e)
  PROVE  Promise!Insert(e)
<1>1. PICK b \in BlockIds : EmplacedIn(b, e)
  BY EmplaceFacts
<1>2. /\ Stored' = Stored \cup {e}
      /\ \A c \in Listed : Pos(blocks', c) = Pos(blocks, c)
      /\ \A x \in Elems : x # e => handle'[x] = handle[x]
  <2>1. Stored' = Stored \cup {e} /\ \A c \in Listed : Pos(blocks', c) = Pos(blocks, c)
    BY <1>1, PutFacts
  <2>2. \A x \in Elems : x # e => handle'[x] = handle[x]
    BY <1>1 DEF EmplacedIn, Put, IInv, TypeOK
  <2> QED
    BY <2>1, <2>2
<1>3. e \notin Stored /\ it' = it
  BY <1>1 DEF EmplacedIn, Put
<1>4. AheadRight /\ AheadRight'
  BY AheadKnown, NextAhead
<1>5. CASE it = end
  <2>1. Ahead = {} /\ Ahead' = {}
    BY <1>3, <1>4, <1>5 DEF AheadRight, end
  <2> QED
    BY <2>1, <1>2, <1>3, <1>5 DEF Promise!Insert, end
<1>6. CASE it # end
  <2>1. Ahead \subseteq Stored /\ \A f \in Stored : f \in Ahead <=> InFront(blocks, handle, it, f)
    BY <1>4, <1>6 DEF AheadRight
  <2>2. Ahead' \subseteq Stored' /\ \A f \in Stored' : f \in Ahead' <=> InFront(blocks', handle', it, f)
    BY <1>3, <1>4, <1>6 DEF AheadRight, end
  <2>3. it.blk \in Listed
    BY <1>6, CurrentSlot
  <2>4. ASSUME NEW f \in Stored
        PROVE  InFront(blocks', handle', it, f) <=> InFront(blocks, handle, it, f)
    <3>1. handle'[f] = handle[f] /\ handle[f].blk \in Listed
      BY <1>2, <1>3, HandleSlot, ListFacts
    <3> QED
      BY <3>1, <2>3, <1>2 DEF InFront
  <2>5. Ahead' = Ahead \/ Ahead' = Ahead \cup {e}
    BY <1>2, <1>3, <2>1, <2>2, <2>4
  <2>6. Ahead' \in {Ahead, Ahead \cup {e}}
    BY <2>5
  <2> QED
    BY <2>6, <1>2, <1>3, <1>6 DEF Promise!Insert, end
<1> QED
  BY <1>5, <1>6

\* A walk w that stays in the list keeps the elements before and behind it when
\* the element at i is taken out.
LEMMA TakeKeepsFront ==
  ASSUME IInv, IInv', NEW i \in Iterator, i.blk \in Listed, get_idx(i) \in block[i.blk].map, Take(i),
         NEW f \in Stored', NEW w, w.blk \in Listed', w.blk \in Listed
  PROVE  InFront(blocks', handle', w, f) <=> InFront(blocks, handle, w, f)
<1>1. /\ Stored' = Stored \ {block[i.blk].at[get_idx(i)]}
      /\ \A c, d \in Listed' : Pos(blocks', c) <= Pos(blocks', d) <=> Pos(blocks, c) <= Pos(blocks, d)
      /\ \A x \in Elems : x # block[i.blk].at[get_idx(i)] => handle'[x] = handle[x]
      /\ \A c \in BlockIds : c # i.blk => block'[c].map = block[c].map
      /\ block'[i.blk].map = block[i.blk].map \ {get_idx(i)}
      /\ Listed' = (IF block[i.blk].map = {get_idx(i)} THEN Listed \ {i.blk} ELSE Listed)
  BY TakeFacts
<1>2. f \in Stored /\ f \in Elems /\ handle'[f] = handle[f]
  BY <1>1, ListFacts
<1>3. handle[f].blk \in Listed /\ handle[f].idx \in block[handle[f].blk].map
      /\ block[handle[f].blk].at[handle[f].idx] = f
  BY <1>2, HandleSlot
<1>4. handle[f].blk \in Listed'
  BY <1>1, <1>3
<1> QED
  BY <1>1, <1>2, <1>4 DEF InFront

\* erase of an element the walk is not at takes it from what is ahead, if it was
\* there, and leaves something there.
LEMMA EraseErases ==
  ASSUME IInv, IInv', NEW e \in Elems, erase(e)
  PROVE  Promise!Erase(e)
<1>1. /\ e \in Stored /\ Take(handle[e]) /\ it' = it
      /\ handle[e] \in Iterator /\ handle[e].blk \in Listed
      /\ get_idx(handle[e]) \in block[handle[e].blk].map
      /\ block[handle[e].blk].at[get_idx(handle[e])] = e
      /\ it # end => it.blk \in Listed'
  BY EraseFacts
<1>2. Stored' = Stored \ {e}
  BY <1>1, TakeFacts
<1>3. AheadRight /\ AheadRight'
  BY AheadKnown, NextAhead
<1>4. CASE it = end
  <2>1. Ahead = {} /\ Ahead' = {}
    BY <1>1, <1>3, <1>4 DEF AheadRight, end
  <2> QED
    BY <2>1, <1>1, <1>2, <1>4 DEF Promise!Erase, end
<1>5. CASE it # end
  <2>1. Ahead \subseteq Stored /\ \A f \in Stored : f \in Ahead <=> InFront(blocks, handle, it, f)
    BY <1>3, <1>5 DEF AheadRight
  <2>2. /\ Ahead' \subseteq Stored' /\ Ahead' # {}
        /\ \A f \in Stored' : f \in Ahead' <=> InFront(blocks', handle', it, f)
    BY <1>1, <1>3, <1>5 DEF AheadRight, end
  <2>3. it.blk \in Listed
    BY <1>5, CurrentSlot
  <2>4. \A f \in Stored' : InFront(blocks', handle', it, f) <=> InFront(blocks, handle, it, f)
    BY <1>1, <1>5, <2>3, TakeKeepsFront
  <2>5. Ahead' = Ahead \ {e}
    BY <1>2, <2>1, <2>2, <2>4
  <2> QED
    BY <2>2, <2>5, <1>1, <1>2, <1>5 DEF Promise!Erase, end
<1> QED
  BY <1>4, <1>5

\* The walk moves on from e to next(it), and e goes or stays.
LEMMA MovesOn ==
  ASSUME IInv, IInv', it # end, it' = next(it),
         Stored' \in {Stored, Stored \ {get(it)}},
         \A f \in Stored' : it' # end =>
           (InFront(blocks', handle', it', f) <=> InFront(blocks, handle, it', f))
  PROVE  get(it) \in Elems /\ Promise!Pass(get(it))
<1>1. AheadRight /\ AheadRight'
  BY AheadKnown, NextAhead
<1>2. /\ Ahead \subseteq Stored /\ get(it) \in Ahead
      /\ \A f \in Stored : f \in Ahead <=> InFront(blocks, handle, it, f)
  BY <1>1 DEF AheadRight
<1>3. /\ Ahead' \subseteq Stored'
      /\ it' = end => Ahead' = {}
      /\ it' # end => Ahead' # {} /\ \A f \in Stored' : f \in Ahead' <=> InFront(blocks', handle', it', f)
  BY <1>1 DEF AheadRight, end
<1>4. \A f \in Stored : InFront(blocks, handle, it, f) /\ f # get(it)
                          <=> it' # end /\ InFront(blocks, handle, it', f)
  BY NextPasses
<1>5. get(it) \notin Ahead'
  BY <1>2, <1>3, <1>4
<1>6. Ahead' = Ahead \ {get(it)}
  BY <1>2, <1>3, <1>4, <1>5
<1>7. (it' = end) = (Ahead' = {})
  BY <1>3
<1>8. get(it) \in Elems
  BY <1>2, ListFacts
<1> QED
  BY <1>2, <1>6, <1>7, <1>8 DEF Promise!Pass, end

\* Erasing at the walk passes the element and erases it.
LEMMA EraseAtWalkPasses ==
  ASSUME IInv, IInv', erase_at_walk
  PROVE  get(it) \in Elems /\ Promise!Pass(get(it))
<1>1. it # end /\ Take(it) /\ it' = next(it)
  BY DEF erase_at_walk
<1>2. /\ it \in Iterator /\ it.blk \in Listed /\ get_idx(it) \in block[it.blk].map
      /\ block[it.blk].at[get_idx(it)] = get(it)
  BY <1>1, CurrentSlot
<1>3. Stored' = Stored \ {get(it)}
  BY <1>1, <1>2, TakeFacts
<1>4. it' # end => it'.blk \in Listed'
  BY DEF IInv, Walk, end
<1>5. it' # end => it'.blk \in Listed
  BY <1>1, <1>2, NextFacts
<1>6. \A f \in Stored' : it' # end =>
        (InFront(blocks', handle', it', f) <=> InFront(blocks, handle, it', f))
  BY <1>1, <1>2, <1>4, <1>5, TakeKeepsFront
<1> QED
  BY <1>1, <1>3, <1>6, MovesOn

\* An advance passes the element that the walk is at, and no other.
LEMMA AdvancePasses ==
  ASSUME IInv, IInv', advance
  PROVE  get(it) \in Elems /\ Promise!Pass(get(it))
<1>1. it # end /\ it' = next(it) /\ UNCHANGED <<blocks, block, handle>>
  BY DEF advance
<1>2. Stored' = Stored
  BY <1>1 DEF Stored, Listed
<1>3. \A f \in Stored' : it' # end =>
        (InFront(blocks', handle', it', f) <=> InFront(blocks, handle, it', f))
  BY <1>1
<1> QED
  BY <1>1, <1>2, <1>3, MovesOn

\* begin() has everything ahead.
LEMMA BeginBegins ==
  ASSUME IInv, IInv', begin
  PROVE  Promise!Begin
<1>1. UNCHANGED <<blocks, block, handle>>
  BY DEF begin
<1>2. Stored' = Stored
  BY <1>1 DEF Stored, Listed
<1>3. AheadRight'
  BY NextAhead
<1>4. CASE blocks = <<>>
  <2>1. it' = end
    BY <1>4 DEF begin
  <2>2. Stored = {}
    BY <1>4 DEF Stored, Listed
  <2>3. Ahead' = {}
    BY <2>1, <1>3 DEF AheadRight, end
  <2> QED
    BY <2>1, <2>2, <2>3, <1>2 DEF Promise!Begin, end
<1>5. CASE blocks # <<>>
  <2>1. /\ it' # end /\ it'.blk \in Listed /\ it'.idx \in block[it'.blk].map
        /\ Pos(blocks, it'.blk) = 1 /\ \A j \in block[it'.blk].map : it'.idx <= j
    BY <1>5, BeginFacts
  <2>2. /\ Ahead' \subseteq Stored /\ Ahead' # {}
        /\ \A f \in Stored : f \in Ahead' <=> InFront(blocks, handle, it', f)
    BY <2>1, <1>1, <1>2, <1>3 DEF AheadRight, end
  <2>3. ASSUME NEW f \in Stored
        PROVE  InFront(blocks, handle, it', f)
    <3>1. handle[f].blk \in Listed /\ handle[f].idx \in block[handle[f].blk].map
      BY HandleSlot
    <3>2. Pos(blocks, handle[f].blk) \in 1..Len(blocks) /\ Len(blocks) \in Nat
      BY <3>1, ListFacts, PosOfMember, LenProperties
    <3> QED
      BY <3>1, <3>2, <2>1 DEF InFront
  <2>4. Ahead' = Stored /\ Stored # {}
    BY <2>2, <2>3
  <2> QED
    BY <2>1, <2>4, <1>2 DEF Promise!Begin, end
<1> QED
  BY <1>4, <1>5

\* * settles the slot the walk is at, and what is ahead does not change.
LEMMA DereferenceStutters ==
  ASSUME IInv, IInv', dereference
  PROVE  UNCHANGED <<Stored, Ahead, it = end>>
<1>1. /\ it # end /\ it' # end /\ it'.blk = it.blk /\ it'.idx = get_idx(it)
      /\ UNCHANGED <<blocks, block, handle>>
  BY DereferenceFacts
<1>2. Stored' = Stored
  BY <1>1 DEF Stored, Listed
<1>3. AheadRight /\ AheadRight'
  BY AheadKnown, NextAhead
<1>4. ASSUME NEW f \in Stored
      PROVE  InFront(blocks', handle', it', f) <=> InFront(blocks, handle, it, f)
  <2>1. handle[f].idx \in block[handle[f].blk].map
    BY HandleSlot
  <2>2. /\ it.idx = None => \A j \in block[it.blk].map : get_idx(it) <= j
        /\ it.idx # None => get_idx(it) = it.idx
        /\ get_idx(it) # None
    BY <1>1, CurrentSlot, SlotNumbers
  <2> QED
    BY <2>1, <2>2, <1>1 DEF InFront
<1>5. /\ Ahead \subseteq Stored
      /\ \A f \in Stored : f \in Ahead <=> InFront(blocks, handle, it, f)
  BY <1>1, <1>3 DEF AheadRight
<1>6. /\ Ahead' \subseteq Stored
      /\ \A f \in Stored : f \in Ahead' <=> InFront(blocks', handle', it', f)
  BY <1>1, <1>2, <1>3 DEF AheadRight, end
<1>7. Ahead' = Ahead
  BY <1>4, <1>5, <1>6
<1>8. (it = end)' = (it = end)
  BY <1>1 DEF end
<1> QED
  BY <1>2, <1>7, <1>8

\* clear is the clear of Store.
LEMMA ClearClears ==
  ASSUME IInv, IInv', clear
  PROVE  Promise!Clear
<1>1. Stored' = {} /\ it' = end
  BY ClearFacts DEF clear
<1>2. Ahead' = {}
  BY <1>1, NextAhead DEF AheadRight, end
<1> QED
  BY <1>1, <1>2 DEF Promise!Clear, end

\* A step of the list is a step of Store, or changes nothing there.
LEMMA RefinementStep ==
  ASSUME ~ThrowsInNewBlock, IInv, IInv', [Next]_vars
  PROVE  [Promise!Next]_(Promise!svars)
<1>1. ASSUME NEW e \in Elems, emplace(e)
      PROVE  Promise!Next
  BY <1>1, EmplaceInserts DEF Promise!Next
<1>2. ASSUME NEW e \in Elems, erase(e)
      PROVE  Promise!Next
  BY <1>2, EraseErases DEF Promise!Next
<1>3. CASE erase_at_walk
  BY <1>3, EraseAtWalkPasses DEF Promise!Next
<1>4. CASE advance
  BY <1>4, AdvancePasses DEF Promise!Next
<1>5. CASE begin
  BY <1>5, BeginBegins DEF Promise!Next
<1>6. CASE clear
  BY <1>6, ClearClears DEF Promise!Next
<1>7. CASE dereference
  BY <1>7, DereferenceStutters DEF Promise!svars
<1>8. ASSUME UNCHANGED vars
      PROVE  UNCHANGED Promise!svars
  <2>1. UNCHANGED <<blocks, block, it>>
    BY <1>8 DEF vars
  <2>2. Stored' = Stored /\ Ahead' = Ahead /\ (it = end)' = (it = end)
    BY <2>1 DEF Stored, Listed, Ahead, Position, get_idx, end
  <2> QED
    BY <2>2 DEF Promise!svars
<1>9. CASE emplace_throws
  BY <1>8, <1>9, ThrowsNothing
<1> QED
  BY <1>1, <1>2, <1>3, <1>4, <1>5, <1>6, <1>7, <1>8, <1>9 DEF Next

\* Blocks, slots and lazy iterators keep the promise of Store: a walk passes each
\* element that stays exactly once, whatever is emplaced or erased meanwhile.
THEOREM KeepsPromise == ~ThrowsInNewBlock => (Spec => ImplementsStore)
<1> SUFFICES ASSUME ~ThrowsInNewBlock PROVE Spec => ImplementsStore
  OBVIOUS
<1>1. Init => Promise!Init
  <2> SUFFICES ASSUME Init PROVE Promise!Init
    OBVIOUS
  <2>1. Stored = {} /\ it = end
    BY DEF Init, Stored, Listed
  <2>2. Ahead = {}
    BY <2>1 DEF Ahead
  <2> QED
    BY <2>1, <2>2 DEF Promise!Init
<1>2. IInv /\ IInv' /\ [Next]_vars => [Promise!Next]_(Promise!svars)
  BY RefinementStep
<1>3. Spec => []IInv
  BY Inductive
<1> QED
  BY <1>1, <1>2, <1>3, PTL DEF Spec, ImplementsStore, Promise!Spec
=============================================================================
