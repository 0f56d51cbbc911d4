--------------------------- MODULE MCUndoJournal ----------------------------
(***************************************************************************)
(* Instances of UndoJournal for TLC.  The values of the row are            *)
(* interchangeable, and so are its payers.                                 *)
(***************************************************************************)
EXTENDS UndoJournal, TLC

CONSTANTS v1, v2, p1, p2

Symmetry == Permutations({v1, v2}) \cup Permutations({p1, p2})

\* Every operation of a node that runs, with one payer, whoever it is; then restarts
\* without squashes.
RunsAndRestarts ==
    {[ops |-> {"insert", "reinsert", "squash"}, payers |-> {p}] : p \in {p1, p2}}
    \cup
    {[ops |-> {"insert", "restart"}, payers |-> {p1, p2}]}

SquashAndRestart == {[ops |-> {"squash", "restart"}, payers |-> {p1}]}
=============================================================================
