-------------------------------- MODULE Store --------------------------------
(***************************************************************************)
(* What a client of blocklist relies on: a set of elements and one walk    *)
(* over it, during which elements come and go.  The walk passes every      *)
(* element that stays, once; one that comes meanwhile may or may not be    *)
(* met; the walk is over when nothing is ahead of it.                      *)
(***************************************************************************)
CONSTANT Elems

VARIABLES
  stored,     \* the elements
  ahead,      \* those the walk has not passed, with the one it is at
  over        \* the walk has reached end()

svars == <<stored, ahead, over>>

Init == stored = {} /\ ahead = {} /\ over = TRUE

Insert(e) ==
  /\ e \notin stored
  /\ stored' = stored \cup {e}
  /\ ahead' \in IF over THEN {ahead} ELSE {ahead, ahead \cup {e}}
  /\ UNCHANGED over

\* The element the walk is at is erased by the walk alone.
Erase(e) ==
  /\ e \in stored
  /\ stored' = stored \ {e}
  /\ ahead' = ahead \ {e}
  /\ ~over => ahead' # {}
  /\ UNCHANGED over

Clear ==
  /\ stored' = {}
  /\ ahead' = {}
  /\ over' = TRUE

Begin ==
  /\ ahead' = stored
  /\ over' = (stored = {})
  /\ UNCHANGED stored

Pass(e) ==
  /\ e \in ahead
  /\ ahead' = ahead \ {e}
  /\ over' = (ahead' = {})
  /\ stored' \in {stored, stored \ {e}}

Next ==
  \/ \E e \in Elems : Insert(e) \/ Erase(e) \/ Pass(e)
  \/ Clear
  \/ Begin

Spec == Init /\ [][Next]_svars
=============================================================================
