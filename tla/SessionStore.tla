---------------------------- MODULE SessionStore ----------------------------
(***************************************************************************)
(* What ChainDB promises to the chain controller: a set of tables together *)
(* with a stack of nested undo sessions, numbered by consecutive           *)
(* revisions.  Each open session remembers the whole contents of the       *)
(* tables at the moment it was started.  The promise is the documentation  *)
(* of undo_stack in undo_state.hpp: undo "restores the state to how it was *)
(* prior to the current session", squash "does not change the state of the *)
(* index, only the state of the undo buffer", commit "discards all undo    *)
(* history prior to revision".                                             *)
(*                                                                         *)
(* Module UndoStack, which records one undo value per changed row instead  *)
(* of a copy of the tables, implements this specification.                 *)
(***************************************************************************)
EXTENDS Integers

CONSTANTS Tables, Keys, Rows, None

VARIABLES
    revision,   \* revision of the innermost open session
    tail,       \* sessions up to this revision are committed
    rows,       \* contents of the tables: None for an absent primary key
    snaps       \* snaps[r]: the contents when the session r was started

svars == <<revision, tail, rows, snaps>>

Contents == [Tables -> [Keys -> Rows \cup {None}]]

Init ==
    /\ revision = 0
    /\ tail = 0
    /\ rows \in Contents
    /\ snaps = [r \in {} |-> rows]

\* A session starts: the present contents are what its undo returns to.
Start ==
    /\ revision' = revision + 1
    /\ snaps' = [r \in tail + 1 .. revision + 1 |->
                    IF r = revision + 1 THEN rows ELSE snaps[r]]
    /\ UNCHANGED <<tail, rows>>

\* A row is inserted, updated or removed; no open session forgets anything.
Write ==
    /\ \E t \in Tables, k \in Keys, v \in Rows \cup {None} :
          rows' = [rows EXCEPT ![t][k] = v]
    /\ UNCHANGED <<revision, tail, snaps>>

\* The innermost session is discarded with everything written in it.
Undo ==
    /\ revision > tail
    /\ revision' = revision - 1
    /\ rows' = snaps[revision]
    /\ snaps' = [r \in tail + 1 .. revision - 1 |-> snaps[r]]
    /\ UNCHANGED tail

\* The innermost session becomes a part of the enclosing one.
Squash ==
    /\ revision > tail
    /\ revision' = revision - 1
    /\ snaps' = [r \in tail + 1 .. revision - 1 |-> snaps[r]]
    /\ UNCHANGED <<tail, rows>>

\* The outermost sessions, up to revision r, can no longer be undone.
Commit ==
    \E r \in tail + 1 .. revision :
        /\ tail' = r
        /\ snaps' = [q \in r + 1 .. revision |-> snaps[q]]
        /\ UNCHANGED <<revision, rows>>

\* The numbering restarts; possible only when no session is open.
SetRevision ==
    /\ revision = tail
    /\ revision' \in Nat
    /\ tail' = revision'
    /\ UNCHANGED <<rows, snaps>>

Next == Start \/ Write \/ Undo \/ Squash \/ Commit \/ SetRevision

Spec == Init /\ [][Next]_svars
=============================================================================
