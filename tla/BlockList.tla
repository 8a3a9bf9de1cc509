------------------------------ MODULE BlockList ------------------------------
(***************************************************************************)
(* blocklist<T, blk_size> (include/tools/blocklist.hpp): a std::list of    *)
(* fixedset blocks, and its iterators.  orgraph_t keeps its nodes and      *)
(* edges in two of them and addresses both by iterators that it stores for *)
(* as long as the element lives.                                           *)
(*                                                                         *)
(* The client keeps the iterator that emplace returned for each element,   *)
(* and one more that walks over the list while elements come and go.  It   *)
(* erases the element the walk is at only through the walk (it =           *)
(* l.erase(it)), as the iterator of an erased element is invalid.          *)
(***************************************************************************)
EXTENDS FixedSet, Sequences, SequencesExt

CONSTANTS
  BlockIds,          \* addresses of list nodes; a freed one may be used again
  NoBlock,           \* the list's end
  ThrowsInNewBlock,  \* whether T's constructor may throw in a block just added
  ClearsStored,      \* may a client clear a list that is not empty?
  MaxCounted         \* bound on elements_num when a list that is not empty is cleared

ASSUME BlockListAssumption ==
  /\ NoBlock \notin BlockIds
  /\ ThrowsInNewBlock \in BOOLEAN
  /\ ClearsStored \in BOOLEAN
  /\ MaxCounted \in Nat

VARIABLES
  blocks,        \* the list, by addresses
  block,         \* the block at each address
  elements_num,
  handle,        \* the client's iterator to each element
  it,            \* the client's walking iterator
  deref          \* the element *it gave since `it` was last set, or NoElem

vars == <<blocks, block, elements_num, handle, it, deref>>

Listed == {blocks[k] : k \in 1..Len(blocks)}
Stored == UNION {{block[b].at[i] : i \in block[b].map} : b \in Listed}

Iterator == [blk : BlockIds \cup {NoBlock}, idx : Slots \cup {None}]
end == [blk |-> NoBlock, idx |-> None]

\* iterator_content::get_idx: an unset index becomes the first used slot's.
get_idx(i) == IF i.idx = None THEN begin_idx(block[i.blk]) ELSE i.idx
resolved(i) == [i EXCEPT !.idx = get_idx(i)]

\* iterator_content::get.
get(i) == block[i.blk].at[get_idx(i)]

Position(b) == CHOOSE k \in 1..Len(blocks) : blocks[k] = b
NextBlock(b) == IF Position(b) = Len(blocks) THEN NoBlock ELSE blocks[Position(b) + 1]

\* Slip: the next block is entered at the slot this one was left at.
next_same_slot(i) ==
  LET j == next_idx(block[i.blk], get_idx(i))
  IN  IF j # None
        THEN [i EXCEPT !.idx = j]
        ELSE [blk |-> NextBlock(i.blk),
              idx |-> IF NextBlock(i.blk) = NoBlock THEN None ELSE get_idx(i)]

\* iterator_content::next: the next used slot of the block, or the next block
\* with its index left unset.
next(i) ==
  LET j == next_idx(block[i.blk], get_idx(i))
  IN  IF j # None
        THEN [i EXCEPT !.idx = j]
        ELSE [blk |-> NextBlock(i.blk), idx |-> None]

-----------------------------------------------------------------------------
Init ==
  /\ blocks = <<>>
  /\ block = [b \in BlockIds |-> EmptyBlock]
  /\ elements_num = 0
  /\ handle = [e \in Elems |-> end]
  /\ it = end
  /\ deref = NoElem

AllFull == \A b \in Listed : full(block[b])

\* The first block that is not full.
FirstOpen(b) ==
  \E k \in 1..Len(blocks) :
    /\ blocks[k] = b /\ ~full(block[b])
    /\ \A j \in 1..(k - 1) : full(block[blocks[j]])

\* The element e is constructed in block b.
Put(b, e) ==
  /\ block' = [block EXCEPT ![b] = with_emplaced(block[b], e)]
  /\ handle' = [handle EXCEPT ![e] = [blk |-> b, idx |-> emplace_idx(block[b])]]
  /\ elements_num' = elements_num + 1
  /\ UNCHANGED <<it, deref>>

\* emplace, and insert which calls it: the element goes into the first block
\* that has room, or into a new block at the end of the list.
emplace(e) ==
  /\ e \notin Stored
  /\ \/ /\ \E b \in Listed : FirstOpen(b) /\ Put(b, e)
        /\ UNCHANGED blocks
     \/ /\ AllFull
        /\ \E b \in BlockIds \ Listed : blocks' = Append(blocks, b) /\ Put(b, e)

\* emplace when T's constructor throws: a block added for it stays, empty.
emplace_throws ==
  /\ \/ ~AllFull /\ UNCHANGED blocks
     \/ /\ AllFull /\ ThrowsInNewBlock
        /\ \E b \in BlockIds \ Listed : blocks' = Append(blocks, b)
  /\ UNCHANGED <<block, elements_num, handle, it, deref>>

\* Slip: the count falls only when a block goes.
Take_counts_blocks(i) ==
  LET b == i.blk
      rest == with_erased(block[b], get_idx(i))
  IN  /\ block' = [block EXCEPT ![b] = rest]
      /\ blocks' = IF empty(rest) THEN RemoveAt(blocks, Position(b)) ELSE blocks
      /\ elements_num' = IF empty(rest) THEN elements_num - 1 ELSE elements_num
      /\ handle' = [handle EXCEPT ![block[b].at[get_idx(i)]] = end]

\* Slip: a block that becomes empty stays in the list.
Take_keeps_block(i) ==
  LET b == i.blk
      rest == with_erased(block[b], get_idx(i))
  IN  /\ block' = [block EXCEPT ![b] = rest]
      /\ elements_num' = elements_num - 1
      /\ handle' = [handle EXCEPT ![block[b].at[get_idx(i)]] = end]
      /\ UNCHANGED blocks

\* Slip: the last element of the block fills the gap.
Take_fills_gap(i) ==
  LET b == i.blk
      gap == get_idx(i)
      last == Max(block[b].map)
      rest == with_erased([block[b] EXCEPT !.at[gap] = block[b].at[last]], last)
  IN  /\ block' = [block EXCEPT ![b] = rest]
      /\ blocks' = IF empty(rest) THEN RemoveAt(blocks, Position(b)) ELSE blocks
      /\ elements_num' = elements_num - 1
      /\ handle' = [handle EXCEPT ![block[b].at[gap]] = end]

\* The part of erase after std::next: the block loses the element, and the
\* list loses the block once it is empty.
Take(i) ==
  LET b == i.blk
      rest == with_erased(block[b], get_idx(i))
  IN  /\ block' = [block EXCEPT ![b] = rest]
      /\ blocks' = IF empty(rest) THEN RemoveAt(blocks, Position(b)) ELSE blocks
      /\ elements_num' = elements_num - 1
      /\ handle' = [handle EXCEPT ![block[b].at[get_idx(i)]] = end]

\* erase by the iterator that emplace returned, the result not used.
erase(e) ==
  /\ e \in Stored
  /\ it # end => get(it) # e
  /\ Take(handle[e])
  /\ UNCHANGED <<it, deref>>

\* it = l.erase(it).
erase_at_walk ==
  /\ it # end
  /\ Take(it)
  /\ it' = next(it)
  /\ deref' = NoElem

\* it = l.begin().
begin ==
  /\ it' = IF blocks = <<>> THEN end
           ELSE [blk |-> Head(blocks), idx |-> begin_idx(block[Head(blocks)])]
  /\ deref' = NoElem
  /\ UNCHANGED <<blocks, block, elements_num, handle>>

\* *it.
dereference ==
  /\ it # end
  /\ it' = resolved(it)
  /\ deref' = get(it)
  /\ UNCHANGED <<blocks, block, elements_num, handle>>

\* ++it.
advance ==
  /\ it # end
  /\ it' = next(it)
  /\ deref' = NoElem
  /\ UNCHANGED <<blocks, block, elements_num, handle>>

\* clear(): the blocks and their elements go, elements_num stays.  The client
\* gives up its iterators.
clear ==
  /\ Stored = {} \/ (ClearsStored /\ elements_num <= MaxCounted)
  /\ blocks' = <<>>
  /\ block' = [b \in BlockIds |-> EmptyBlock]
  /\ handle' = [e \in Elems |-> end]
  /\ it' = end
  /\ deref' = NoElem
  /\ UNCHANGED elements_num

Next ==
  \/ \E e \in Elems : emplace(e) \/ erase(e)
  \/ emplace_throws
  \/ erase_at_walk
  \/ begin
  \/ dereference
  \/ advance
  \/ clear

Spec == Init /\ [][Next]_vars

-----------------------------------------------------------------------------
(***************************************************************************)
(* Properties.                                                             *)
(***************************************************************************)

\* Every variable ranges over what its type allows.
TypeOK ==
  /\ blocks \in Seq(BlockIds)
  /\ block \in [BlockIds -> Block]
  /\ elements_num \in Nat
  /\ handle \in [Elems -> Iterator]
  /\ it \in Iterator
  /\ deref \in Elems \cup {NoElem}

\* The list holds every block once and none that is empty, so that begin() and
\* ++ always find an element; slots hold objects exactly where the map says,
\* and nothing lives in a block that was freed.
BlocksSound ==
  /\ \A j, k \in 1..Len(blocks) : blocks[j] = blocks[k] => j = k
  /\ \A b \in BlockIds :
       /\ b \in Listed <=> block[b].map # {}
       /\ block[b].map = {i \in Slots : block[b].at[i] # NoElem}

\* "Move and Insertion does not affect any existing iterators.  Erasure
\* invalidates only iterators to the element erased": an iterator that emplace
\* returned, and one that was dereferenced, denote their element as long as it
\* is stored.
IteratorsStable ==
  /\ \A e \in Stored : handle[e].blk \in Listed /\ get(handle[e]) = e
  /\ deref # NoElem => it.blk \in Listed /\ get(it) = deref

\* size() "returns number of elements in container", whatever emplace and erase have
\* done to the blocks, unless ClearsStored: clear() of a list with elements keeps their
\* count.
SizeExact == elements_num = Cardinality(Stored)

\* empty(), which asks for the blocks, "returns true is size() == 0", which is the count.
EmptyRight == (blocks = <<>>) = (elements_num = 0)

\* The elements from the walking iterator on, in the order of the list.
Ahead ==
  IF it = end THEN {}
  ELSE UNION {{block[blocks[k]].at[i] : i \in {j \in block[blocks[k]].map :
                blocks[k] = it.blk => j >= get_idx(it)}} :
              k \in Position(it.blk)..Len(blocks)}

Promise == INSTANCE Store WITH stored <- Stored, ahead <- Ahead, over <- it = end

\* The blocks, slots and lazy iterators keep the promise of Store: each step is
\* one of its operations, or changes nothing it speaks of.
ImplementsStore == Promise!Spec
=============================================================================
