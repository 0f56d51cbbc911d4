----------------------------- MODULE UndoStack ------------------------------
(***************************************************************************)
(* The undo sessions of ChainDB, libraries/chain/chaindb/undo_state.cpp.   *)
(*                                                                         *)
(* Every open session has a revision.  Each table keeps a stack of undo    *)
(* states, at most one per revision, created lazily by the first write of  *)
(* the session to that table.  An undo state says, for each primary key    *)
(* the session touched, whether the row was new, changed (with its old     *)
(* value) or removed (with its old value).  A small state machine per      *)
(* table (stage_ and revision_) decides whether the next write needs a new *)
(* undo state.                                                             *)
(*                                                                         *)
(* The deque stack_ of a table is a function from revisions to undo        *)
(* states.  That is exact as long as the revisions in the deque increase;  *)
(* the guards that stand for the CYBERWAY_SESSION_ASSERTs exclude an       *)
(* operation that would break it, and NoSessionException says that none of *)
(* these guards is ever false when its operation is called.  A row stands  *)
(* for the value together with payer, size and in_ram; the generator of    *)
(* primary keys (next_pk) is not part of this module.                      *)
(***************************************************************************)
EXTENDS Integers

CONSTANTS
    Tables,         \* tables (code, scope, table name)
    Keys,           \* primary keys
    Rows,           \* contents of a row
    None,           \* no row, no undo value
    MaxRevision     \* bound on the revisions of a model

ASSUME NoneAssumption == None \notin Rows
ASSUME MaxRevisionAssumption == MaxRevision \in Nat

VARIABLES
    revision,       \* undo_stack_impl::revision_
    tail,           \* undo_stack_impl::tail_revision_
    stage,          \* undo_stack_impl::stage_
    tables,         \* undo_stack_impl::tables_
    rows,           \* what a read of the tables returns
    snaps           \* history: contents of the tables at the start of each
                    \* open session; no action reads it

vars == <<revision, tail, stage, tables, rows, snaps>>

impossible_revision == -1

Stages == {"Unknown", "New", "Stack"}

Contents == [Tables -> [Keys -> Rows \cup {None}]]

UndoMap == [Keys -> Rows \cup {None}]

NoMap == [k \in Keys |-> None]

UndoState == [new : SUBSET Keys, old : UndoMap, removed : UndoMap]

EmptyState == [new |-> {}, old |-> NoMap, removed |-> NoMap]

\* A table that is not in tables_.
NoTable == [stage |-> "Unknown", rev |-> impossible_revision, stack |-> [r \in {} |-> EmptyState]]

-----------------------------------------------------------------------------
\* table_undo_stack: the state machine of one table

empty(tab) == DOMAIN tab.stack = {}

\* revision_ of the newest undo state is below r (head_revision() is 0 for none)
HeadBelow(tab, r) == \A q \in DOMAIN tab.stack : q < r

\* stack_ without the state of revision r / with state s at revision r
WithoutState(stk, r) == [q \in DOMAIN stk \ {r} |-> stk[q]]

WithState(stk, r, s) == [q \in DOMAIN stk \cup {r} |-> IF q = r THEN s ELSE stk[q]]

\* mutant of update_stage: the state of the revision is not looked for
update_stage_forgets(stk, r) == [stage |-> "New", rev |-> r, stack |-> stk]

update_stage(stk, r) ==
    IF r \in DOMAIN stk THEN [stage |-> "Stack", rev |-> r, stack |-> stk]
    ELSE IF r > 0 THEN [stage |-> "New", rev |-> r, stack |-> stk]
    ELSE [stage |-> "Unknown", rev |-> impossible_revision, stack |-> stk]

\* head(): the undo state of the current session, created when stage_ is New.
head(tab) ==
    IF tab.stage = "New"
    THEN [stage |-> "Stack", rev |-> tab.rev, stack |-> WithState(tab.stack, tab.rev, EmptyState)]
    ELSE tab

HeadState(tab) == IF tab.stage = "New" THEN EmptyState ELSE tab.stack[tab.rev]

\* head() neither throws nor breaks the order of the deque
HeadOk(tab) ==
    \/ tab.stage = "New" /\ HeadBelow(tab, tab.rev)
    \/ /\ tab.stage = "Stack"
       /\ tab.rev \in DOMAIN tab.stack
       /\ HeadBelow(tab, tab.rev + 1)

start_session(tab, r) ==
    IF empty(tab) THEN tab ELSE [stage |-> "New", rev |-> r, stack |-> tab.stack]

\* undo(): forget the newest undo state, if the session has one.
table_undo(tab) ==
    update_stage(IF tab.stage = "Stack" THEN WithoutState(tab.stack, tab.rev) ELSE tab.stack,
                 tab.rev - 1)

\* squash(): the newest undo state becomes one of the previous revision.
table_squash(tab) ==
    update_stage(IF tab.stage = "Stack"
                 THEN WithState(WithoutState(tab.stack, tab.rev), tab.rev - 1, tab.stack[tab.rev])
                 ELSE tab.stack,
                 tab.rev - 1)

\* for_tables() erases a table whose stack became empty.
erase_empty(tab) == IF empty(tab) THEN NoTable ELSE tab

-----------------------------------------------------------------------------
\* Undo states: what a write records, what undo restores, how two merge

\* std::map::emplace: an existing entry stays.
emplace(m, k, v) == IF m[k] = None THEN [m EXCEPT ![k] = v] ELSE m

insert_state(s, k) ==
    IF s.removed[k] # None
    THEN [new |-> s.new,
          old |-> emplace(s.old, k, s.removed[k]),
          removed |-> [s.removed EXCEPT ![k] = None]]
    ELSE [new |-> s.new \cup {k}, old |-> s.old, removed |-> s.removed]

\* mutant of update_state: the last value of the session overwrites the first
update_state_last(s, k, orig) ==
    IF k \in s.new THEN s
    ELSE [new |-> s.new, old |-> [s.old EXCEPT ![k] = orig], removed |-> s.removed]

update_state(s, k, orig) ==
    IF k \in s.new \/ s.old[k] # None
    THEN s
    ELSE [new |-> s.new, old |-> emplace(s.old, k, orig), removed |-> s.removed]

remove_state(s, k, orig) ==
    IF k \in s.new THEN [new |-> s.new \ {k}, old |-> s.old, removed |-> s.removed]
    ELSE IF s.old[k] # None
    THEN [new |-> s.new,
          old |-> [s.old EXCEPT ![k] = None],
          removed |-> emplace(s.removed, k, s.old[k])]
    ELSE [new |-> s.new, old |-> s.old, removed |-> emplace(s.removed, k, orig)]

\* The old values are written back, then the new rows removed, then the removed
\* rows inserted again.
undo_rows(s, content) ==
    [k \in Keys |-> IF s.removed[k] # None THEN s.removed[k]
                    ELSE IF k \in s.new THEN None
                    ELSE IF s.old[k] # None THEN s.old[k]
                    ELSE content[k]]

\* squash(): the three loops that merge state b into its neighbour a.
merge_old(a, b) ==
    [new |-> a.new,
     old |-> [k \in Keys |-> IF k \in a.new \/ a.old[k] # None THEN a.old[k] ELSE b.old[k]],
     removed |-> a.removed]

merge_new(a, b) ==
    LET back == {k \in b.new : a.removed[k] # None} IN
    [new |-> a.new \cup (b.new \ back),
     old |-> [k \in Keys |-> IF k \in back /\ a.old[k] = None THEN a.removed[k] ELSE a.old[k]],
     removed |-> [k \in Keys |-> IF k \in back THEN None ELSE a.removed[k]]]

\* mutant of merge_removed: a row made and removed in one session stays recorded
merge_removed_keeps(a, b) ==
    LET gone == {k \in Keys : b.removed[k] # None} IN
    [new |-> a.new \ gone,
     old |-> [k \in Keys |-> IF k \in gone THEN None ELSE a.old[k]],
     removed |-> [k \in Keys |-> IF k \in gone
                                 THEN IF a.old[k] # None THEN a.old[k] ELSE b.removed[k]
                                 ELSE a.removed[k]]]

merge_removed(a, b) ==
    LET gone == {k \in Keys \ a.new : b.removed[k] # None} IN
    [new |-> {k \in a.new : b.removed[k] = None},
     old |-> [k \in Keys |-> IF k \in gone THEN None ELSE a.old[k]],
     removed |-> [k \in Keys |-> IF k \in gone /\ a.removed[k] = None
                                 THEN IF a.old[k] # None THEN a.old[k] ELSE b.removed[k]
                                 ELSE a.removed[k]]]

merge_states(a, b) == merge_removed(merge_new(merge_old(a, b), b), b)

\* Delete + Update and Delete + Delete are asserted not to happen.
MergeOk(a, b) ==
    /\ \A k \in Keys : b.old[k] # None /\ k \notin a.new /\ a.old[k] = None
                          => a.removed[k] = None
    /\ LET c == merge_new(merge_old(a, b), b) IN
       \A k \in Keys : b.removed[k] # None /\ k \notin c.new /\ c.old[k] = None
                          => c.removed[k] = None
-----------------------------------------------------------------------------
\* undo_stack_impl: one table's share of each operation

enabled == stage \in {"Stack", "New"}

\* get_table(): a table unknown so far enters with the current revision.
get_table(t) ==
    IF empty(tables[t])
    THEN [stage |-> "New", rev |-> revision, stack |-> [r \in {} |-> EmptyState]]
    ELSE tables[t]

WithHeadState(tab, s) ==
    [stage |-> "Stack", rev |-> tab.rev, stack |-> WithState(tab.stack, tab.rev, s)]

UndoTable(tab, r) ==
    IF empty(tab) THEN tab
    ELSE table_undo(IF HeadBelow(tab, r) THEN tab ELSE head(tab))

UndoTableRows(tab, r, content) ==
    IF empty(tab) \/ HeadBelow(tab, r) THEN content ELSE undo_rows(HeadState(tab), content)

UndoOk(tab, r) ==
    \/ empty(tab)
    \/ HeadBelow(tab, r) /\ tab.stage = "New"
    \/ ~HeadBelow(tab, r) /\ HeadOk(tab) /\ tab.rev = r

\* mutant of SquashTable: off by one at the committed revision
SquashTable_tail(tab, r) ==
    IF empty(tab) THEN tab
    ELSE IF ~HeadBelow(tab, r) /\ DOMAIN head(tab).stack = {head(tab).rev}
    THEN IF head(tab).rev - 1 >= tail THEN table_squash(head(tab)) ELSE table_undo(head(tab))
    ELSE table_squash(tab)

\* The newest state is kept, one revision lower, unless the previous revision has
\* a state to merge it into or is already committed.
SquashTable(tab, r) ==
    LET h == head(tab)
        prev == h.rev - 1
    IN  IF empty(tab) THEN tab
        ELSE IF HeadBelow(tab, r) THEN table_squash(tab)
        ELSE IF DOMAIN h.stack = {h.rev}
        THEN IF prev > tail THEN table_squash(h) ELSE table_undo(h)
        ELSE IF prev \notin DOMAIN h.stack THEN table_squash(h)
        ELSE table_undo([stage |-> h.stage, rev |-> h.rev, stack |->
                WithState(h.stack, prev, merge_states(h.stack[prev], h.stack[h.rev]))])

SquashOk(tab, r) ==
    \/ UndoOk(tab, r) /\ (empty(tab) \/ HeadBelow(tab, r))
    \/ /\ UndoOk(tab, r)
       /\ tab.stage = "Stack" /\ r - 1 \in DOMAIN tab.stack
              => MergeOk(tab.stack[r - 1], tab.stack[r])

\* The states up to revision r are dropped from the front of the deque.
CommitTable(tab, r) ==
    [stage |-> tab.stage, rev |-> tab.rev,
     stack |-> [q \in {p \in DOMAIN tab.stack : p > r} |-> tab.stack[q]]]

\* start_session() asserts that the revision of a table grows.
StartOk == \A t \in Tables : empty(tables[t]) \/ tables[t].rev < revision + 1

SetRevisionOk == \A t \in Tables : empty(tables[t])

\* mutant of StageAt: the stage is not reset with the last session
StageAt_keeps(rev, tl) == stage

StageAt(rev, tl) == IF rev = tl THEN "Unknown" ELSE stage

-----------------------------------------------------------------------------
\* The operations

Init ==
    /\ revision = 0
    /\ tail = 0
    /\ stage = "Unknown"
    /\ tables = [t \in Tables |-> NoTable]
    /\ rows \in Contents
    /\ snaps = [r \in {} |-> rows]

\* set_revision(rev): called when no session is open.
SetRevision(rev) ==
    /\ revision = tail
    /\ SetRevisionOk
    /\ revision' = rev
    /\ tail' = rev
    /\ stage' = "Unknown"
    /\ UNCHANGED <<tables, rows, snaps>>

\* start_undo_session(true)
StartSession ==
    /\ revision < MaxRevision
    /\ StartOk
    /\ revision' = revision + 1
    /\ stage' = "Stack"
    /\ tables' = [t \in Tables |-> start_session(tables[t], revision + 1)]
    /\ snaps' = [r \in tail + 1 .. revision + 1 |->
                    IF r = revision + 1 THEN rows ELSE snaps[r]]
    /\ UNCHANGED <<tail, rows>>

\* Row k of table t becomes v; s is the head undo state of t after the write.
Record(t, k, v, s) ==
    /\ enabled => HeadOk(get_table(t))
    /\ tables' = IF enabled
                 THEN [tables EXCEPT ![t] = WithHeadState(get_table(t), s)]
                 ELSE tables
    /\ rows' = [rows EXCEPT ![t][k] = v]
    /\ UNCHANGED <<revision, tail, stage, snaps>>

Insert(t, k, v) ==
    /\ rows[t][k] = None
    /\ Record(t, k, v, insert_state(HeadState(get_table(t)), k))

Update(t, k, v) ==
    /\ rows[t][k] # None
    /\ Record(t, k, v, update_state(HeadState(get_table(t)), k, rows[t][k]))

Remove(t, k) ==
    /\ rows[t][k] # None
    /\ Record(t, k, None, remove_state(HeadState(get_table(t)), k, rows[t][k]))

\* undo(revision_): a session that is not pushed is undone by its destructor,
\* a block by undo_last_revision().
Undo ==
    /\ revision > tail
    /\ \A t \in Tables : UndoOk(tables[t], revision)
    /\ tables' = [t \in Tables |-> erase_empty(UndoTable(tables[t], revision))]
    /\ rows' = [t \in Tables |-> UndoTableRows(tables[t], revision, rows[t])]
    /\ revision' = revision - 1
    /\ stage' = StageAt(revision - 1, tail)
    /\ snaps' = [r \in tail + 1 .. revision - 1 |-> snaps[r]]
    /\ UNCHANGED tail

\* squash(revision_): a transaction's session becomes a part of its block's.
Squash ==
    /\ revision > tail
    /\ \A t \in Tables : SquashOk(tables[t], revision)
    /\ tables' = [t \in Tables |-> erase_empty(SquashTable(tables[t], revision))]
    /\ revision' = revision - 1
    /\ stage' = StageAt(revision - 1, tail)
    /\ snaps' = [r \in tail + 1 .. revision - 1 |-> snaps[r]]
    /\ UNCHANGED <<tail, rows>>

\* commit(r): block r became irreversible.
Commit(r) ==
    /\ r > tail
    /\ r <= revision
    /\ tables' = [t \in Tables |-> erase_empty(CommitTable(tables[t], r))]
    /\ tail' = r
    /\ stage' = StageAt(revision, r)
    /\ snaps' = [q \in r + 1 .. revision |-> snaps[q]]
    /\ UNCHANGED <<revision, rows>>

Next ==
    \/ \E rev \in 0 .. MaxRevision : SetRevision(rev)
    \/ StartSession
    \/ \E t \in Tables, k \in Keys, v \in Rows : Insert(t, k, v) \/ Update(t, k, v)
    \/ \E t \in Tables, k \in Keys : Remove(t, k)
    \/ Undo
    \/ Squash
    \/ \E r \in 1 .. MaxRevision : Commit(r)

Spec == Init /\ [][Next]_vars

-----------------------------------------------------------------------------
\* Properties

\* Every variable has its type; the undo states and the snapshots are kept for
\* uncommitted revisions only.
TypeOK ==
    /\ revision \in Nat
    /\ tail \in Nat
    /\ tail <= revision
    /\ stage \in Stages
    /\ rows \in Contents
    /\ DOMAIN tables = Tables
    /\ \A t \in Tables :
        /\ tables[t].stage \in Stages
        /\ tables[t].rev \in Int
        /\ DOMAIN tables[t].stack \subseteq tail + 1 .. revision
        /\ \A r \in DOMAIN tables[t].stack : tables[t].stack[r] \in UndoState
    /\ DOMAIN snaps = tail + 1 .. revision
    /\ \A r \in tail + 1 .. revision : snaps[r] \in Contents

\* No CYBERWAY_SESSION_ASSERT of undo_state.cpp can fail, whatever sequence of
\* sessions and writes led here: not the revision checks of start_session() and
\* set_revision(), not the stage checks of head(), undo() and squash(), not the
\* revision checks of undo and squash, and not the "UB" checks of the merge
\* (Delete + Update, Delete + Delete).
NoSessionException ==
    /\ revision = tail => SetRevisionOk
    /\ StartOk
    /\ enabled => \A t \in Tables : HeadOk(get_table(t))
    /\ revision > tail => \A t \in Tables : /\ UndoOk(tables[t], revision)
                                            /\ SquashOk(tables[t], revision)

\* What the tables hold after session r - 1 and before session r.
At(r) == IF r = revision + 1 THEN rows ELSE snaps[r]

\* Undo entry of k in state s leads from contents x before the session to y after.
Links(s, k, x, y) ==
    \/ k \in s.new /\ s.old[k] = None /\ s.removed[k] = None /\ x = None /\ y # None
    \/ k \notin s.new /\ s.old[k] # None /\ s.removed[k] = None /\ x = s.old[k] /\ y # None
    \/ k \notin s.new /\ s.old[k] = None /\ s.removed[k] # None /\ x = s.removed[k] /\ y = None
    \/ k \notin s.new /\ s.old[k] = None /\ s.removed[k] = None /\ x = y

\* Every uncommitted session can be undone exactly: for each open session and
\* each row, the undo state recorded for that session (or its absence) is the
\* difference between the contents at its start and at the start of the next
\* one.  So any chain of undos, at any later time, passes through the very
\* contents the sessions started from, also after squashes merged sessions and
\* commits dropped older ones.
UndoLinks ==
    \A t \in Tables : \A r \in tail + 1 .. revision :
        IF r \in DOMAIN tables[t].stack
        THEN \A k \in Keys : Links(tables[t].stack[r], k, At(r)[t][k], At(r + 1)[t][k])
        ELSE At(r)[t] = At(r + 1)[t]

\* The state machine of a table: it follows the global revision, and it is in
\* stage Stack exactly when the current session has an undo state.
StageMachine ==
    /\ stage = IF revision = tail THEN "Unknown" ELSE "Stack"
    /\ \A t \in Tables :
        ~empty(tables[t]) =>
            /\ tables[t].rev = revision
            /\ tables[t].stage = IF revision \in DOMAIN tables[t].stack THEN "Stack" ELSE "New"

\* The snapshots are kept beside the undo states, for the mapping alone: no
\* operation reads them.
Store == INSTANCE SessionStore WITH
            revision <- revision, tail <- tail, rows <- rows, snaps <- snaps

\* The undo stack implements whole-table snapshots: every behaviour is one of
\* SessionStore.
ImplementsSessionStore == Store!Spec
=============================================================================
