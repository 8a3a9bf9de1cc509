------------------------------ MODULE FixedSet ------------------------------
(***************************************************************************)
(* fixedset<T, blk_size> (include/tools/fixedset.hpp) as values: a block   *)
(* is its bit map and what its raw slots hold.  A slot holds an object     *)
(* from its construction to its destruction, whatever the map says.        *)
(***************************************************************************)
EXTENDS Bitset

CONSTANTS
  Elems,      \* objects of type T
  NoElem      \* what a slot without an object holds

ASSUME FixedSetAssumption == NoElem \notin Elems

Block == [map : SUBSET Slots, at : [Slots -> Elems \cup {NoElem}]]

\* fixedset(): no slot used.
EmptyBlock == [map |-> {}, at |-> [i \in Slots |-> NoElem]]

\* Slip: the comparison with the width is off by one.
full_too_late(blk) == Cardinality(blk.map) > blk_size

full(blk) == is_full(blk.map)
empty(blk) == is_empty(blk.map)

\* emplace: the first free slot takes the object; the block must not be full.
emplace_idx(blk) == find_free_idx(blk.map)
with_emplaced(blk, e) ==
  [map |-> blk.map \cup {emplace_idx(blk)}, at |-> [blk.at EXCEPT ![emplace_idx(blk)] = e]]

\* erase: the object is destroyed, then its bit is cleared.  The slot is used; erase
\* throws otherwise, and blocklist passes no such iterator.
with_erased(blk, i) == [map |-> blk.map \ {i}, at |-> [blk.at EXCEPT ![i] = NoElem]]

\* The index of begin(), None for end().
begin_idx(blk) == find_used_idx(blk.map)

\* next_iterator: the next used slot, None for end().
next_idx(blk, i) ==
  IF i \notin blk.map \/ i + 1 >= blk_size
    THEN None
    ELSE LET next == find_used_idx(shifted_right(blk.map, i + 1))
         IN  IF next = None THEN None ELSE i + 1 + next
=============================================================================
