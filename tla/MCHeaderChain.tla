--------------------------- MODULE MCHeaderChain ----------------------------
(***************************************************************************)
(* Instances of HeaderChain for TLC.  Finality is checked with crews of    *)
(* four and two, each in one order: a bound of four slots from one block   *)
(* to the next lets any producer make the next block, so that the order of *)
(* the slots does not matter.  Slots are checked with a crew of three that *)
(* may be shuffled into every order; its blocks confirm only themselves.   *)
(***************************************************************************)
EXTENDS HeaderChain, SequencesExt, TLC

CONSTANTS pa, pb, pc, pd

FourOrTwo == {<<pa, pb, pc, pd>>, <<pa, pb>>, <<pb, pc>>}
SameSize  == {<<pa, pb>>, <<pb, pc>>}

AllSchedules == FourOrTwo \cup SetToSeqs({pa, pb, pc})
StartedWith  == FourOrTwo \cup {<<pa, pb, pc>>}

BoundsBySize ==
    (2 :> [num |-> 11, skip |-> 4, confirmed |-> 3])
    @@ (3 :> [num |-> 9, skip |-> 5, confirmed |-> 0])
    @@ (4 :> [num |-> 9, skip |-> 4, confirmed |-> 3])

\* Only differences of slots matter, and finality depends on slots only through the
\* position in the round.
View ==
    <<[hs EXCEPT !.slot = @ - hs.shuffled, !.shuffled = 0], confirms, builtOn,
      IF Len(hs.schedule) = 3 THEN [p \in DOMAIN lastSlot |-> lastSlot[p] - hs.shuffled] ELSE <<>>>>
=============================================================================
