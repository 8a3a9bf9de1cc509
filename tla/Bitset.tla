------------------------------- MODULE Bitset -------------------------------
(***************************************************************************)
(* bitset<size> (include/tools/bitset.hpp).  A value is the set of indexes *)
(* of its one bits.                                                        *)
(***************************************************************************)
EXTENDS Integers, FiniteSets, FiniteSetsExt

CONSTANT blk_size      \* the width; 8, 16, 32 or 64 in the code

ASSUME BitsetAssumption == blk_size \in Nat \ {0}

Slots == 0..(blk_size - 1)

\* An idx that is not a slot: (ssize_t)-1, also (size_t)-1.
None == -1

is_full(map) == map = Slots
is_empty(map) == map = {}
find_free_idx(map) == IF is_full(map) THEN None ELSE Min(Slots \ map)
find_used_idx(map) == IF is_empty(map) THEN None ELSE Min(map)
shifted_right(map, k) == {i \in Slots : i + k \in map}
=============================================================================
