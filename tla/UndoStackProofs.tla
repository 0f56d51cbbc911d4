-------------------------- MODULE UndoStackProofs ---------------------------
(***************************************************************************)
(* Proofs about UndoStack, for every set of tables, keys and rows and      *)
(* every bound on the revisions.                                           *)
(***************************************************************************)
EXTENDS UndoStack, TLAPS

\* The inductive invariant: UndoLinks is what undo needs, StageMachine is what
\* ties the undo state a write goes to to the session that is open.
IInv == TypeOK /\ StageMachine /\ UndoLinks

-----------------------------------------------------------------------------
\* Undo states of a single key

\* A new undo state records nothing.
LEMMA EmptyLinks ==
    ASSUME NEW k \in Keys, NEW x
    PROVE  EmptyState \in UndoState /\ Links(EmptyState, k, x, x)
  BY DEF EmptyState, UndoState, UndoMap, NoMap, Links

\* insert(): the undo state stays well formed, the entry of the inserted key
\* leads to the new row and no other entry changes.
LEMMA InsertLinks ==
    ASSUME NEW s \in UndoState, NEW k \in Keys, NEW x, NEW v \in Rows,
           Links(s, k, x, None)
    PROVE  /\ insert_state(s, k) \in UndoState
           /\ Links(insert_state(s, k), k, x, v)
           /\ \A j \in Keys \ {k} : \A p, q : Links(s, j, p, q) => Links(insert_state(s, k), j, p, q)
  BY NoneAssumption DEF UndoState, UndoMap, insert_state, emplace, Links

\* update(): the value before the session is kept.
LEMMA UpdateLinks ==
    ASSUME NEW s \in UndoState, NEW k \in Keys, NEW x, NEW y \in Rows, NEW v \in Rows,
           Links(s, k, x, y)
    PROVE  /\ update_state(s, k, y) \in UndoState
           /\ Links(update_state(s, k, y), k, x, v)
           /\ \A j \in Keys \ {k} : \A p, q : Links(s, j, p, q) => Links(update_state(s, k, y), j, p, q)
  BY NoneAssumption DEF UndoState, UndoMap, update_state, emplace, Links

\* remove(): the value before the session is kept, or nothing if it was new.
LEMMA RemoveLinks ==
    ASSUME NEW s \in UndoState, NEW k \in Keys, NEW x, NEW y \in Rows,
           Links(s, k, x, y)
    PROVE  /\ remove_state(s, k, y) \in UndoState
           /\ Links(remove_state(s, k, y), k, x, None)
           /\ \A j \in Keys \ {k} : \A p, q : Links(s, j, p, q) => Links(remove_state(s, k, y), j, p, q)
  BY NoneAssumption DEF UndoState, UndoMap, remove_state, emplace, Links

\* undo(): the contents before the session come back.
LEMMA UndoRowsRestore ==
    ASSUME NEW s \in UndoState, NEW c, NEW k \in Keys, NEW x, Links(s, k, x, c[k])
    PROVE  undo_rows(s, c)[k] = x
  BY DEF undo_rows, Links

\* squash(): the merged state of two consecutive sessions leads from the
\* contents before the first to the contents after the second.
LEMMA MergeLinks ==
    ASSUME NEW a \in UndoState, NEW b \in UndoState, NEW k \in Keys, NEW x, NEW y, NEW z,
           Links(a, k, x, y), Links(b, k, y, z)
    PROVE  Links(merge_states(a, b), k, x, z)
  BY NoneAssumption, ZenonT(40) DEF UndoState, UndoMap, merge_states, merge_old, merge_new, merge_removed, Links

\* squash(): the merged state is well formed.
LEMMA MergeType ==
    ASSUME NEW a \in UndoState, NEW b \in UndoState
    PROVE  merge_states(a, b) \in UndoState
  BY DEF UndoState, UndoMap, merge_states, merge_old, merge_new, merge_removed

-----------------------------------------------------------------------------
\* The operations preserve the inductive invariant

\* The undo stack starts without tables and without sessions.
LEMMA InitInv == Init => IInv
  BY DEF Init, IInv, TypeOK, StageMachine, UndoLinks, Stages, NoTable, empty, impossible_revision

\* start_undo_session(): the new session has no undo state anywhere.
LEMMA StartInv == IInv /\ StartSession => IInv'
  <1> SUFFICES ASSUME IInv, StartSession PROVE IInv'
    OBVIOUS
  <1> USE DEF IInv
  <1>1. TypeOK'
    BY DEF TypeOK, StartSession, start_session, empty, Stages
  <1>2. StageMachine'
    BY DEF TypeOK, StageMachine, StartSession, start_session, empty
  <1>3. UndoLinks'
    <2>1. \A r \in tail + 1 .. revision + 1 : At(r)' = At(r)
      BY DEF TypeOK, StartSession, At
    <2>2. \A r \in Int : r = revision + 2 => At(r)' = rows
      BY DEF TypeOK, StartSession, At
    <2>3. \A t \in Tables : tables'[t].stack = tables[t].stack
      BY DEF TypeOK, StartSession, start_session
    <2> SUFFICES ASSUME NEW t \in Tables, NEW r \in tail + 1 .. revision + 1
                 PROVE  IF r \in DOMAIN tables[t].stack
                        THEN \A k \in Keys : Links(tables[t].stack[r], k, At(r)'[t][k], At(r + 1)'[t][k])
                        ELSE At(r)'[t] = At(r + 1)'[t]
      BY <2>3 DEF UndoLinks, StartSession
    <2>4. CASE r = revision + 1
      BY <2>1, <2>2, <2>4 DEF TypeOK, At
    <2>5. CASE r # revision + 1
      BY <2>1, <2>5 DEF TypeOK, UndoLinks
    <2> QED BY <2>4, <2>5
  <1> QED BY <1>1, <1>2, <1>3

\* set_revision(): nothing is recorded when it is called, so nothing can break.
LEMMA SetRevisionInv ==
    ASSUME NEW rev \in 0 .. MaxRevision, IInv, SetRevision(rev)
    PROVE  IInv'
  <1> USE DEF IInv
  <1>1. /\ TypeOK'
        /\ StageMachine'
    BY MaxRevisionAssumption DEF TypeOK, StageMachine, SetRevision, SetRevisionOk, empty, Stages
  <1>2. UndoLinks'
    BY MaxRevisionAssumption DEF UndoLinks, SetRevision
  <1> QED BY <1>1, <1>2

\* While a session is open, the undo state a write goes to is the one of the
\* current revision and leads from the start of the session to the present.
LEMMA HeadLinks ==
    ASSUME IInv, enabled, NEW t \in Tables
    PROVE  /\ revision > tail
           /\ get_table(t).rev = revision
           /\ get_table(t).stage \in {"New", "Stack"}
           /\ get_table(t).stack = tables[t].stack \/ empty(tables[t])
           /\ DOMAIN get_table(t).stack = DOMAIN tables[t].stack
           /\ HeadState(get_table(t)) \in UndoState
           /\ \A k \in Keys : Links(HeadState(get_table(t)), k, snaps[revision][t][k], rows[t][k])
  <1> USE DEF IInv
  <1>1. revision > tail
    BY DEF TypeOK, StageMachine, enabled
  <1>2. CASE empty(tables[t])
    <2>1. get_table(t) = [stage |-> "New", rev |-> revision, stack |-> [r \in {} |-> EmptyState]]
      BY <1>2 DEF get_table
    <2>2. DOMAIN tables[t].stack = {}
      BY <1>2 DEF empty
    <2>3. snaps[revision][t] = rows[t]
      BY <1>1, <2>2 DEF TypeOK, UndoLinks, At
    <2>4. HeadState(get_table(t)) = EmptyState
      BY <2>1 DEF HeadState
    <2>5. EmptyState \in UndoState
      BY DEF EmptyState, UndoState, UndoMap, NoMap
    <2> QED BY <1>1, <1>2, <2>1, <2>2, <2>3, <2>4, <2>5, EmptyLinks DEF empty
  <1>3. CASE ~empty(tables[t])
    <2>1. get_table(t) = tables[t] /\ tables[t].rev = revision
      BY <1>3 DEF get_table, StageMachine
    <2>2. CASE revision \in DOMAIN tables[t].stack
      <3>1. tables[t].stage = "Stack" /\ HeadState(get_table(t)) = tables[t].stack[revision]
        BY <1>3, <2>1, <2>2 DEF StageMachine, HeadState
      <3>2. \A k \in Keys : Links(tables[t].stack[revision], k, snaps[revision][t][k], rows[t][k])
        BY <1>1, <2>2 DEF TypeOK, UndoLinks, At
      <3>3. HeadState(get_table(t)) \in UndoState
        BY <2>2, <3>1 DEF TypeOK
      <3>4. \A k \in Keys : Links(HeadState(get_table(t)), k, snaps[revision][t][k], rows[t][k])
        BY <3>1, <3>2
      <3> QED BY <1>1, <2>1, <3>1, <3>3, <3>4
    <2>3. CASE revision \notin DOMAIN tables[t].stack
      <3>1. tables[t].stage = "New" /\ HeadState(get_table(t)) = EmptyState
        BY <1>3, <2>1, <2>3 DEF StageMachine, HeadState
      <3>2. snaps[revision][t] = rows[t]
        BY <1>1, <2>3 DEF TypeOK, UndoLinks, At
      <3>3. EmptyState \in UndoState
        BY DEF EmptyState, UndoState, UndoMap, NoMap
      <3>4. \A k \in Keys : Links(HeadState(get_table(t)), k, snaps[revision][t][k], rows[t][k])
        BY <3>1, <3>2, EmptyLinks
      <3> QED BY <1>1, <2>1, <3>1, <3>3, <3>4
    <2> QED BY <2>2, <2>3
  <1> QED BY <1>2, <1>3

\* A write preserves the invariant when the new head state s has a correct
\* entry for the written key and keeps the entries of the others.
LEMMA RecordInv ==
    ASSUME IInv, NEW t \in Tables, NEW k \in Keys, NEW v \in Rows \cup {None}, NEW s,
           Record(t, k, v, s),
           enabled => /\ s \in UndoState
                      /\ Links(s, k, snaps[revision][t][k], v)
                      /\ \A j \in Keys \ {k} : \A p, q :
                            Links(HeadState(get_table(t)), j, p, q) => Links(s, j, p, q)
    PROVE  IInv'
  <1> USE DEF IInv
  <1>0. /\ rows' = [rows EXCEPT ![t][k] = v]
        /\ revision' = revision /\ tail' = tail /\ stage' = stage /\ snaps' = snaps
    BY DEF Record
  <1>1. rows' \in Contents /\ \A u \in Tables \ {t} : rows'[u] = rows[u]
    BY <1>0 DEF TypeOK, Contents
  <1>2. rows'[t][k] = v /\ \A j \in Keys \ {k} : rows'[t][j] = rows[t][j]
    BY <1>0 DEF TypeOK, Contents
  <1>3. CASE ~enabled
    <2>1. revision = tail /\ tables' = tables
      BY <1>3 DEF StageMachine, TypeOK, enabled, Record
    <2> QED BY <1>0, <1>1, <2>1 DEF TypeOK, StageMachine, UndoLinks, At
  <1>4. CASE enabled
    <2> DEFINE tab == get_table(t)
    <2>1. /\ revision > tail /\ tab.rev = revision
          /\ DOMAIN tab.stack = DOMAIN tables[t].stack
          /\ tab.stack = tables[t].stack \/ empty(tables[t])
          /\ \A j \in Keys : Links(HeadState(tab), j, snaps[revision][t][j], rows[t][j])
      BY <1>4, HeadLinks
    <2>2. tables' = [tables EXCEPT ![t] = WithHeadState(tab, s)]
      BY <1>4 DEF Record
    <2>3. /\ tables'[t].stage = "Stack"
          /\ tables'[t].rev = revision
          /\ DOMAIN tables'[t].stack = DOMAIN tables[t].stack \cup {revision}
          /\ tables'[t].stack[revision] = s
          /\ \A r \in DOMAIN tables[t].stack \ {revision} : tables'[t].stack[r] = tables[t].stack[r]
      BY <2>1, <2>2 DEF TypeOK, WithHeadState, WithState, empty
    <2>4. DOMAIN tables' = Tables /\ \A u \in Tables \ {t} : tables'[u] = tables[u]
      BY <2>2 DEF TypeOK
    <2>5. TypeOK'
      BY <1>0, <1>1, <1>4, <2>1, <2>3, <2>4 DEF TypeOK, Stages
    <2>6. StageMachine'
      BY <1>0, <2>1, <2>3, <2>4 DEF StageMachine, empty
    <2>7. \A r \in tail + 1 .. revision : At(r)' = snaps[r] /\ At(r) = snaps[r]
      BY <1>0 DEF TypeOK, At
    <2>8. At(revision + 1) = rows /\ At(revision + 1)' = rows'
      BY <1>0 DEF At
    <2>9. \A j \in Keys : Links(s, j, snaps[revision][t][j], rows'[t][j])
      BY <1>2, <1>4, <2>1
    <2>10. UndoLinks'
      <3> SUFFICES ASSUME NEW u \in Tables, NEW r \in tail + 1 .. revision
                   PROVE  IF r \in DOMAIN tables'[u].stack
                          THEN \A j \in Keys : Links(tables'[u].stack[r], j, At(r)'[u][j], At(r + 1)'[u][j])
                          ELSE At(r)'[u] = At(r + 1)'[u]
        BY <1>0 DEF UndoLinks
      <3>1. CASE u # t
        <4>1. At(r)'[u] = At(r)[u] /\ At(r + 1)'[u] = At(r + 1)[u]
          BY <1>0, <1>1, <2>7, <3>1 DEF At
        <4> QED BY <2>4, <3>1, <4>1 DEF UndoLinks
      <3>2. CASE u = t /\ r = revision
        BY <1>0, <2>1, <2>3, <2>7, <2>9, <3>2 DEF At
      <3>3. CASE u = t /\ r # revision
        <4>1. r + 1 \in tail + 1 .. revision
          BY <3>3 DEF TypeOK
        <4>2. At(r)' = At(r) /\ At(r + 1)' = At(r + 1)
          BY <2>7, <4>1 
        <4> QED BY <2>3, <3>3, <4>2 DEF UndoLinks
      <3> QED BY <3>1, <3>2, <3>3
    <2> QED BY <2>5, <2>6, <2>10
  <1> QED BY <1>3, <1>4

\* insert() in any stage keeps the invariant.
LEMMA InsertInv ==
    ASSUME IInv, NEW t \in Tables, NEW k \in Keys, NEW v \in Rows, Insert(t, k, v)
    PROVE  IInv'
  <1> DEFINE h == HeadState(get_table(t))
  <1>1. Record(t, k, v, insert_state(h, k)) /\ rows[t][k] = None
    BY DEF Insert
  <1>2. ASSUME enabled
        PROVE  /\ insert_state(h, k) \in UndoState
               /\ Links(insert_state(h, k), k, snaps[revision][t][k], v)
               /\ \A j \in Keys \ {k} : \A p, q : Links(h, j, p, q) => Links(insert_state(h, k), j, p, q)
    <2>1. h \in UndoState /\ Links(h, k, snaps[revision][t][k], None)
      BY <1>1, <1>2, HeadLinks
    <2> HIDE DEF h
    <2> QED BY <2>1, InsertLinks
  <1> HIDE DEF h
  <1> QED BY <1>1, <1>2, RecordInv DEF h

\* update() in any stage keeps the invariant.
LEMMA UpdateInv ==
    ASSUME IInv, NEW t \in Tables, NEW k \in Keys, NEW v \in Rows, Update(t, k, v)
    PROVE  IInv'
  <1> DEFINE h == HeadState(get_table(t))
             y == rows[t][k]
  <1>1. Record(t, k, v, update_state(h, k, y)) /\ y \in Rows
    BY DEF Update, IInv, TypeOK, Contents
  <1>2. ASSUME enabled
        PROVE  /\ update_state(h, k, y) \in UndoState
               /\ Links(update_state(h, k, y), k, snaps[revision][t][k], v)
               /\ \A j \in Keys \ {k} : \A p, q : Links(h, j, p, q) => Links(update_state(h, k, y), j, p, q)
    <2>1. h \in UndoState /\ Links(h, k, snaps[revision][t][k], y)
      BY <1>2, HeadLinks
    <2> HIDE DEF h, y
    <2> QED BY <1>1, <2>1, UpdateLinks
  <1> HIDE DEF h, y
  <1> QED BY <1>1, <1>2, RecordInv DEF h

\* remove() in any stage keeps the invariant.
LEMMA RemoveInv ==
    ASSUME IInv, NEW t \in Tables, NEW k \in Keys, Remove(t, k)
    PROVE  IInv'
  <1> DEFINE h == HeadState(get_table(t))
             y == rows[t][k]
  <1>1. Record(t, k, None, remove_state(h, k, y)) /\ y \in Rows
    BY DEF Remove, IInv, TypeOK, Contents
  <1>2. ASSUME enabled
        PROVE  /\ remove_state(h, k, y) \in UndoState
               /\ Links(remove_state(h, k, y), k, snaps[revision][t][k], None)
               /\ \A j \in Keys \ {k} : \A p, q : Links(h, j, p, q) => Links(remove_state(h, k, y), j, p, q)
    <2>1. h \in UndoState /\ Links(h, k, snaps[revision][t][k], y)
      BY <1>2, HeadLinks
    <2> HIDE DEF h, y
    <2> QED BY <1>1, <2>1, RemoveLinks
  <1> HIDE DEF h, y
  <1> QED BY <1>1, <1>2, RecordInv DEF h

\* commit(): only undo states of committed sessions go.
LEMMA CommitInv ==
    ASSUME IInv, NEW c \in 1 .. MaxRevision, Commit(c)
    PROVE  IInv'
  <1> USE DEF IInv
  <1>0. /\ c \in Nat /\ c > tail /\ c <= revision
        /\ tail' = c /\ revision' = revision /\ rows' = rows
        /\ snaps' = [q \in c + 1 .. revision |-> snaps[q]]
        /\ stage' = StageAt(revision, c)
        /\ tables' = [t \in Tables |-> erase_empty(CommitTable(tables[t], c))]
    BY MaxRevisionAssumption DEF Commit
  <1>1. ASSUME NEW t \in Tables
        PROVE  /\ DOMAIN tables'[t].stack = {r \in DOMAIN tables[t].stack : r > c}
               /\ \A r \in DOMAIN tables'[t].stack : tables'[t].stack[r] = tables[t].stack[r]
               /\ ~empty(tables'[t]) => /\ tables'[t].stage = tables[t].stage
                                        /\ tables'[t].rev = tables[t].rev
               /\ tables'[t].stage \in Stages /\ tables'[t].rev \in Int
    BY <1>0 DEF TypeOK, erase_empty, CommitTable, empty, NoTable, Stages, impossible_revision
  <1>2. TypeOK'
    <2>1. stage' \in Stages
      BY <1>0 DEF TypeOK, StageAt, Stages
    <2> QED BY <1>0, <1>1, <2>1 DEF TypeOK
  <1>3. StageMachine'
    <2>1. stage' = IF revision' = tail' THEN "Unknown" ELSE "Stack"
      BY <1>0 DEF TypeOK, StageMachine, StageAt
    <2>2. ASSUME NEW t \in Tables, ~empty(tables'[t])
          PROVE  /\ tables'[t].rev = revision'
                 /\ tables'[t].stage = IF revision' \in DOMAIN tables'[t].stack THEN "Stack" ELSE "New"
      <3>1. ~empty(tables[t]) /\ revision > c
        BY <1>0, <1>1, <2>2 DEF TypeOK, empty
      <3> QED BY <1>0, <1>1, <2>2, <3>1 DEF TypeOK, StageMachine
    <2> QED BY <2>1, <2>2 DEF StageMachine
  <1>4. UndoLinks'
    <2>1. ASSUME NEW r \in c + 1 .. revision + 1 PROVE At(r)' = At(r)
      <3>1. CASE r = revision + 1
        BY <1>0, <3>1 DEF At
      <3>2. CASE r # revision + 1
        <4>1. r \in c + 1 .. revision
          BY <1>0, <3>2 DEF TypeOK
        <4>2. snaps'[r] = snaps[r]
          BY <1>0, <4>1
        <4> QED BY <1>0, <3>2, <4>2 DEF At
      <3> QED BY <3>1, <3>2
    <2> QED BY <1>0, <1>1, <2>1 DEF TypeOK, UndoLinks
  <1> QED BY <1>2, <1>3, <1>4

\* update_stage() and the erasure of empty tables keep the undo states and bring
\* the state machine of the table to revision r.
LEMMA UpdateStageShape ==
    ASSUME NEW stk, NEW r \in Int, DOMAIN stk \subseteq 1 .. r
    PROVE  LET tab == erase_empty(update_stage(stk, r)) IN
           /\ DOMAIN tab.stack = DOMAIN stk
           /\ \A q \in DOMAIN stk : tab.stack[q] = stk[q]
           /\ tab.stage \in Stages
           /\ tab.rev \in Int
           /\ ~empty(tab) => /\ tab.rev = r
                             /\ tab.stage = IF r \in DOMAIN stk THEN "Stack" ELSE "New"
  <1> DEFINE u == update_stage(stk, r)
             tab == erase_empty(u)
  <1>1. u.stack = stk /\ u.stage \in Stages /\ u.rev \in Int
    BY DEF update_stage, Stages, impossible_revision
  <1>2. CASE DOMAIN stk = {}
    <2>1. tab = NoTable
      BY <1>1, <1>2 DEF erase_empty, empty
    <2> QED BY <1>2, <2>1 DEF NoTable, Stages, empty, impossible_revision
  <1>3. CASE DOMAIN stk # {}
    <2>1. tab = u
      BY <1>1, <1>3 DEF erase_empty, empty
    <2>2. r > 0
      BY <1>3
    <2>3. u.rev = r /\ u.stage = IF r \in DOMAIN stk THEN "Stack" ELSE "New"
      BY <2>2 DEF update_stage
    <2> QED BY <1>1, <2>1, <2>3
  <1> QED BY <1>2, <1>3

\* What the state machine says of a table while a session is open.
LEMMA TableCases ==
    ASSUME IInv, revision > tail, NEW t \in Tables
    PROVE  /\ DOMAIN tables[t].stack \subseteq 1 .. revision
           /\ revision \in Nat /\ tail \in Nat
           /\ ~empty(tables[t]) => tables[t].rev = revision
           /\ revision \in DOMAIN tables[t].stack =>
                 ~empty(tables[t]) /\ ~HeadBelow(tables[t], revision) /\ tables[t].stage = "Stack"
           /\ revision \notin DOMAIN tables[t].stack =>
                 HeadBelow(tables[t], revision) /\ (empty(tables[t]) \/ tables[t].stage = "New")
  BY DEF IInv, TypeOK, StageMachine, empty, HeadBelow

\* undo(): of each table exactly the state of the current revision goes.
LEMMA UndoShape ==
    ASSUME IInv, revision > tail, NEW t \in Tables
    PROVE  LET tab == erase_empty(UndoTable(tables[t], revision)) IN
           /\ DOMAIN tab.stack = DOMAIN tables[t].stack \ {revision}
           /\ \A q \in DOMAIN tab.stack : tab.stack[q] = tables[t].stack[q]
           /\ tab.stage \in Stages
           /\ tab.rev \in Int
           /\ ~empty(tab) => /\ tab.rev = revision - 1
                             /\ tab.stage = IF revision - 1 \in DOMAIN tab.stack THEN "Stack" ELSE "New"
  <1> DEFINE stk == tables[t].stack
             tab == erase_empty(UndoTable(tables[t], revision))
             rest == IF tables[t].stage = "Stack" THEN WithoutState(stk, revision) ELSE stk
  <1>1. CASE empty(tables[t])
    <2>1. tab = NoTable /\ DOMAIN stk = {}
      BY <1>1 DEF UndoTable, erase_empty, empty
    <2> QED BY <2>1 DEF NoTable, Stages, empty, impossible_revision
  <1>2. CASE ~empty(tables[t])
    <2>1. UndoTable(tables[t], revision) = update_stage(rest, revision - 1)
      BY <1>2, TableCases DEF UndoTable, table_undo, head
    <2>2. DOMAIN rest = DOMAIN stk \ {revision} /\ \A q \in DOMAIN rest : rest[q] = stk[q]
      BY <1>2, TableCases DEF WithoutState
    <2>3. DOMAIN rest \subseteq 1 .. revision - 1 /\ revision - 1 \in Int
      BY <2>2, TableCases
    <2> HIDE DEF rest
    <2> QED BY <2>1, <2>2, <2>3, UpdateStageShape
  <1> QED BY <1>1, <1>2

\* undo(): every table returns to its contents at the start of the session.
LEMMA UndoContents ==
    ASSUME IInv, revision > tail
    PROVE  [t \in Tables |-> UndoTableRows(tables[t], revision, rows[t])] = snaps[revision]
  <1>1. ASSUME NEW t \in Tables
        PROVE  UndoTableRows(tables[t], revision, rows[t]) = snaps[revision][t]
    <2>1. CASE revision \in DOMAIN tables[t].stack
      <3> DEFINE s == tables[t].stack[revision]
      <3>1. UndoTableRows(tables[t], revision, rows[t]) = undo_rows(s, rows[t])
        BY <2>1, TableCases DEF UndoTableRows, HeadState
      <3>2. s \in UndoState /\ \A k \in Keys : Links(s, k, snaps[revision][t][k], rows[t][k])
        BY <2>1 DEF IInv, TypeOK, UndoLinks, At
      <3>3. \A k \in Keys : undo_rows(s, rows[t])[k] = snaps[revision][t][k]
        BY <3>2, UndoRowsRestore
      <3>4. snaps[revision][t] \in [Keys -> Rows \cup {None}]
        BY DEF IInv, TypeOK, Contents
      <3>5. undo_rows(s, rows[t]) = [k \in Keys |-> undo_rows(s, rows[t])[k]]
        BY DEF undo_rows
      <3> HIDE DEF s
      <3> QED BY <3>1, <3>3, <3>4, <3>5
    <2>2. CASE revision \notin DOMAIN tables[t].stack
      <3>1. UndoTableRows(tables[t], revision, rows[t]) = rows[t]
        BY <2>2, TableCases DEF UndoTableRows
      <3> QED BY <2>2, <3>1 DEF IInv, TypeOK, UndoLinks, At
    <2> QED BY <2>1, <2>2
  <1>2. snaps[revision] \in [Tables -> [Keys -> Rows \cup {None}]]
    BY DEF IInv, TypeOK, Contents
  <1> QED BY <1>1, <1>2

\* undo(): the enclosing session is the current one again, with its own differences.
LEMMA UndoInv ==
    ASSUME IInv, Undo
    PROVE  IInv'
  <1>0. /\ revision > tail /\ revision \in Nat /\ tail \in Nat
        /\ revision' = revision - 1 /\ tail' = tail
        /\ snaps' = [r \in tail + 1 .. revision - 1 |-> snaps[r]]
        /\ stage' = StageAt(revision - 1, tail)
        /\ tables' = [t \in Tables |-> erase_empty(UndoTable(tables[t], revision))]
    BY DEF Undo, IInv, TypeOK
  <1>1. rows' = snaps[revision]
    BY UndoContents DEF Undo
  <1>2. ASSUME NEW t \in Tables
        PROVE  /\ DOMAIN tables'[t].stack = DOMAIN tables[t].stack \ {revision}
               /\ \A q \in DOMAIN tables'[t].stack : tables'[t].stack[q] = tables[t].stack[q]
               /\ tables'[t].stage \in Stages
               /\ tables'[t].rev \in Int
               /\ ~empty(tables'[t]) =>
                    /\ tables'[t].rev = revision - 1
                    /\ tables'[t].stage = IF revision - 1 \in DOMAIN tables'[t].stack THEN "Stack" ELSE "New"
    BY <1>0, UndoShape
  <1>3. TypeOK'
    <2>1. stage' \in Stages /\ rows' \in Contents
      BY <1>0, <1>1 DEF StageAt, Stages, IInv, TypeOK
    <2> QED BY <1>0, <1>2, <2>1 DEF IInv, TypeOK
  <1>4. StageMachine'
    <2>1. stage' = IF revision' = tail' THEN "Unknown" ELSE "Stack"
      BY <1>0 DEF StageAt, IInv, StageMachine
    <2> QED BY <1>0, <1>2, <2>1 DEF StageMachine
  <1>5. UndoLinks'
    <2>1. \A r \in tail + 1 .. revision : At(r)' = snaps[r] /\ At(r) = snaps[r]
      BY <1>0, <1>1 DEF At
    <2> SUFFICES ASSUME NEW t \in Tables, NEW r \in tail + 1 .. revision - 1
                 PROVE  IF r \in DOMAIN tables'[t].stack
                        THEN \A k \in Keys : Links(tables'[t].stack[r], k, At(r)'[t][k], At(r + 1)'[t][k])
                        ELSE At(r)'[t] = At(r + 1)'[t]
      BY <1>0 DEF UndoLinks
    <2>2. At(r)' = At(r) /\ At(r + 1)' = At(r + 1)
      BY <1>0, <2>1
    <2>3. r \in tail + 1 .. revision /\ r # revision
      BY <1>0
    <2> QED BY <1>2, <2>2, <2>3 DEF IInv, UndoLinks
  <1> QED BY <1>3, <1>4, <1>5 DEF IInv

\* squash(): the state of the current revision is merged into the one below,
\* takes its place, or is dropped when the revision below is committed.
LEMMA SquashShape ==
    ASSUME IInv, revision > tail, NEW t \in Tables
    PROVE  LET tab == erase_empty(SquashTable(tables[t], revision))
               stk == tables[t].stack
           IN
           /\ DOMAIN tab.stack = IF revision \notin DOMAIN stk THEN DOMAIN stk
                                 ELSE IF revision - 1 > tail
                                 THEN (DOMAIN stk \ {revision}) \cup {revision - 1}
                                 ELSE {}
           /\ \A q \in DOMAIN tab.stack :
                 tab.stack[q] = IF q # revision - 1 \/ revision \notin DOMAIN stk THEN stk[q]
                                ELSE IF q \in DOMAIN stk THEN merge_states(stk[q], stk[revision])
                                ELSE stk[revision]
           /\ tab.stage \in Stages
           /\ tab.rev \in Int
           /\ ~empty(tab) => /\ tab.rev = revision - 1
                             /\ tab.stage = IF revision - 1 \in DOMAIN tab.stack THEN "Stack" ELSE "New"
  <1> DEFINE stk == tables[t].stack
             tab == erase_empty(SquashTable(tables[t], revision))
  <1>0. /\ revision \in Nat /\ tail \in Nat /\ revision - 1 \in Int
        /\ DOMAIN stk \subseteq tail + 1 .. revision
    BY DEF IInv, TypeOK
  <1>1. CASE empty(tables[t])
    <2>1. tab = NoTable /\ DOMAIN stk = {}
      BY <1>1 DEF SquashTable, erase_empty, empty
    <2> QED BY <2>1 DEF NoTable, Stages, empty, impossible_revision
  <1>2. CASE ~empty(tables[t]) /\ revision \notin DOMAIN stk
    <2>1. SquashTable(tables[t], revision) = update_stage(stk, revision - 1)
      BY <1>2, TableCases DEF SquashTable, table_squash
    <2>2. DOMAIN stk \subseteq 1 .. revision - 1
      BY <1>0, <1>2
    <2>3. tab = erase_empty(update_stage(stk, revision - 1))
      BY <2>1
    <2> HIDE DEF stk, tab
    <2>4. /\ DOMAIN tab.stack = DOMAIN stk
          /\ \A q \in DOMAIN stk : tab.stack[q] = stk[q]
          /\ tab.stage \in Stages
          /\ tab.rev \in Int
          /\ ~empty(tab) => /\ tab.rev = revision - 1
                            /\ tab.stage = IF revision - 1 \in DOMAIN stk THEN "Stack" ELSE "New"
      BY <1>0, <2>2, <2>3, UpdateStageShape
    <2> QED BY <1>2, <2>4 DEF stk, tab
  <1>3. CASE revision \in DOMAIN stk
    <2> DEFINE low == IF revision - 1 \in DOMAIN stk
                      THEN merge_states(stk[revision - 1], stk[revision]) ELSE stk[revision]
               rest == WithoutState(stk, revision)
               res == IF revision - 1 > tail THEN WithState(rest, revision - 1, low) ELSE rest
    <2>1. /\ ~empty(tables[t]) /\ ~HeadBelow(tables[t], revision)
          /\ tables[t].stage = "Stack" /\ tables[t].rev = revision
          /\ head(tables[t]) = tables[t]
      BY <1>3, TableCases DEF head
    <2>2. DOMAIN rest = DOMAIN stk \ {revision} /\ \A q \in DOMAIN rest : rest[q] = stk[q]
      BY DEF WithoutState
    <2>3. ~(revision - 1 > tail) => DOMAIN stk = {revision}
      BY <1>0, <1>3
    <2>4. /\ DOMAIN res = IF revision - 1 > tail THEN (DOMAIN stk \ {revision}) \cup {revision - 1} ELSE {}
          /\ \A q \in DOMAIN res : res[q] = IF q # revision - 1 THEN stk[q] ELSE low
      BY <1>0, <2>2, <2>3 DEF WithState
    <2>5. DOMAIN res \subseteq 1 .. revision - 1
      BY <1>0, <2>4
    <2>6. SquashTable(tables[t], revision) = update_stage(res, revision - 1)
      <3>1. CASE DOMAIN stk = {revision}
        <4>1. SquashTable(tables[t], revision) =
                IF revision - 1 > tail THEN table_squash(tables[t]) ELSE table_undo(tables[t])
          BY <2>1, <3>1 DEF SquashTable
        <4>2. revision - 1 \notin DOMAIN stk
          BY <1>0, <3>1
        <4> QED BY <2>1, <4>1, <4>2 DEF table_squash, table_undo
      <3>2. CASE DOMAIN stk # {revision} /\ revision - 1 \notin DOMAIN stk
        <4>1. SquashTable(tables[t], revision) = table_squash(tables[t])
          BY <2>1, <3>2 DEF SquashTable
        <4> QED BY <2>1, <2>3, <3>2, <4>1 DEF table_squash
      <3>3. CASE DOMAIN stk # {revision} /\ revision - 1 \in DOMAIN stk
        <4> DEFINE mid == WithState(stk, revision - 1, low)
        <4>1. SquashTable(tables[t], revision) =
                table_undo([stage |-> "Stack", rev |-> revision, stack |-> mid])
          BY <2>1, <3>3 DEF SquashTable
        <4>2. SquashTable(tables[t], revision) = update_stage(WithoutState(mid, revision), revision - 1)
          BY <4>1 DEF table_undo
        <4>3. WithoutState(mid, revision) = res
          <5>1. revision - 1 > tail /\ revision # revision - 1
            BY <1>0, <2>3, <3>3
          <5> QED BY <3>3, <5>1 DEF WithState, WithoutState
        <4> QED BY <4>2, <4>3
      <3> QED BY <3>1, <3>2, <3>3
    <2> HIDE DEF stk, res, tab
    <2>7. /\ DOMAIN tab.stack = DOMAIN res
          /\ \A q \in DOMAIN res : tab.stack[q] = res[q]
          /\ tab.stage \in Stages
          /\ tab.rev \in Int
          /\ ~empty(tab) => /\ tab.rev = revision - 1
                            /\ tab.stage = IF revision - 1 \in DOMAIN res THEN "Stack" ELSE "New"
      BY <1>0, <2>5, <2>6, UpdateStageShape DEF tab
    <2> QED BY <1>3, <2>4, <2>7 DEF stk, tab
  <1> QED BY <1>1, <1>2, <1>3

\* squash(): the enclosing session records what both sessions did.
LEMMA SquashInv ==
    ASSUME IInv, Squash
    PROVE  IInv'
  <1>0. /\ revision > tail /\ revision \in Nat /\ tail \in Nat
        /\ revision' = revision - 1 /\ tail' = tail /\ rows' = rows
        /\ snaps' = [r \in tail + 1 .. revision - 1 |-> snaps[r]]
        /\ stage' = StageAt(revision - 1, tail)
        /\ tables' = [t \in Tables |-> erase_empty(SquashTable(tables[t], revision))]
    BY DEF Squash, IInv, TypeOK
  <1>1. ASSUME NEW t \in Tables
        PROVE  /\ DOMAIN tables'[t].stack = IF revision \notin DOMAIN tables[t].stack
                                            THEN DOMAIN tables[t].stack
                                            ELSE IF revision - 1 > tail
                                            THEN (DOMAIN tables[t].stack \ {revision}) \cup {revision - 1}
                                            ELSE {}
               /\ \A q \in DOMAIN tables'[t].stack :
                     tables'[t].stack[q] =
                        IF q # revision - 1 \/ revision \notin DOMAIN tables[t].stack THEN tables[t].stack[q]
                        ELSE IF q \in DOMAIN tables[t].stack
                        THEN merge_states(tables[t].stack[q], tables[t].stack[revision])
                        ELSE tables[t].stack[revision]
               /\ tables'[t].stage \in Stages
               /\ tables'[t].rev \in Int
               /\ ~empty(tables'[t]) =>
                    /\ tables'[t].rev = revision - 1
                    /\ tables'[t].stage = IF revision - 1 \in DOMAIN tables'[t].stack THEN "Stack" ELSE "New"
    BY <1>0, SquashShape
  <1>2. TypeOK'
    <2>1. stage' \in Stages /\ rows' \in Contents
      BY <1>0 DEF StageAt, Stages, IInv, TypeOK
    <2>2. ASSUME NEW t \in Tables
          PROVE  /\ DOMAIN tables'[t].stack \subseteq tail + 1 .. revision - 1
                 /\ \A q \in DOMAIN tables'[t].stack : tables'[t].stack[q] \in UndoState
      <3>1. /\ DOMAIN tables[t].stack \subseteq tail + 1 .. revision
            /\ \A q \in DOMAIN tables[t].stack : tables[t].stack[q] \in UndoState
        BY DEF IInv, TypeOK
      <3>2. CASE revision \notin DOMAIN tables[t].stack
        <4>1. DOMAIN tables'[t].stack = DOMAIN tables[t].stack
          BY <1>1, <3>2
        <4>2. \A q \in DOMAIN tables'[t].stack : tables'[t].stack[q] = tables[t].stack[q]
          BY <1>1, <3>2
        <4>3. DOMAIN tables[t].stack \subseteq tail + 1 .. revision - 1
          BY <1>0, <3>1, <3>2
        <4> QED BY <3>1, <4>1, <4>2, <4>3
      <3>3. CASE revision \in DOMAIN tables[t].stack /\ revision - 1 > tail
        <4>1. DOMAIN tables'[t].stack = (DOMAIN tables[t].stack \ {revision}) \cup {revision - 1}
          BY <1>1, <3>3
        <4>2. DOMAIN tables'[t].stack \subseteq tail + 1 .. revision - 1
          BY <1>0, <3>1, <3>3, <4>1
        <4>3. ASSUME NEW q \in DOMAIN tables'[t].stack, q # revision - 1
              PROVE  tables'[t].stack[q] = tables[t].stack[q] /\ q \in DOMAIN tables[t].stack
          BY <1>1, <4>1, <4>3
        <4>4. ASSUME NEW q \in DOMAIN tables'[t].stack, q = revision - 1
              PROVE  tables'[t].stack[q] \in UndoState
          <5>1. CASE q \in DOMAIN tables[t].stack
            <6>1. tables'[t].stack[q] = merge_states(tables[t].stack[q], tables[t].stack[revision])
              BY <1>1, <3>3, <4>4, <5>1
            <6> QED BY <3>1, <3>3, <5>1, <6>1, MergeType
          <5>2. CASE q \notin DOMAIN tables[t].stack
            <6>1. tables'[t].stack[q] = tables[t].stack[revision]
              BY <1>1, <3>3, <4>4, <5>2
            <6> QED BY <3>1, <3>3, <6>1
          <5> QED BY <5>1, <5>2
        <4> QED BY <3>1, <4>2, <4>3, <4>4
      <3>4. CASE revision \in DOMAIN tables[t].stack /\ ~(revision - 1 > tail)
        BY <1>1, <3>4
      <3> QED BY <3>2, <3>3, <3>4
    <2>3. \A t \in Tables : tables'[t].stage \in Stages /\ tables'[t].rev \in Int
      BY <1>1
    <2>4. DOMAIN tables' = Tables /\ DOMAIN snaps' = tail + 1 .. revision - 1
      BY <1>0
    <2>5. \A r \in tail + 1 .. revision - 1 : snaps'[r] \in Contents
      BY <1>0 DEF IInv, TypeOK
    <2>6. revision' \in Nat /\ tail' \in Nat /\ tail' <= revision'
      BY <1>0
    <2> QED BY <1>0, <2>1, <2>2, <2>3, <2>4, <2>5, <2>6 DEF TypeOK
  <1>3. StageMachine'
    <2>1. stage' = IF revision' = tail' THEN "Unknown" ELSE "Stack"
      BY <1>0 DEF StageAt, IInv, StageMachine
    <2> QED BY <1>0, <1>1, <2>1 DEF StageMachine
  <1>4. UndoLinks'
    <2>1. \A r \in tail + 1 .. revision - 1 : At(r)' = snaps[r] /\ At(r) = snaps[r]
      BY <1>0 DEF At
    <2>2. \A r \in Int : r = revision => At(r)' = rows
      BY <1>0 DEF At
    <2> SUFFICES ASSUME NEW t \in Tables, NEW r \in tail + 1 .. revision - 1
                 PROVE  IF r \in DOMAIN tables'[t].stack
                        THEN \A k \in Keys : Links(tables'[t].stack[r], k, At(r)'[t][k], At(r + 1)'[t][k])
                        ELSE At(r)'[t] = At(r + 1)'[t]
      BY <1>0 DEF UndoLinks
    <2>3. CASE r # revision - 1
      <3>1. At(r)' = At(r) /\ At(r + 1)' = At(r + 1) /\ r \in tail + 1 .. revision /\ r # revision
        BY <1>0, <2>1, <2>3
      <3>2. r \in DOMAIN tables'[t].stack <=> r \in DOMAIN tables[t].stack
        <4>1. CASE revision \notin DOMAIN tables[t].stack
          BY <1>1, <4>1
        <4>2. CASE revision \in DOMAIN tables[t].stack
          <5>1. revision - 1 > tail
            BY <1>0
          <5>2. DOMAIN tables'[t].stack = (DOMAIN tables[t].stack \ {revision}) \cup {revision - 1}
            BY <1>1, <4>2, <5>1
          <5> QED BY <2>3, <3>1, <5>2
        <4> QED BY <4>1, <4>2
      <3>3. r \in DOMAIN tables[t].stack => tables'[t].stack[r] = tables[t].stack[r]
        BY <1>1, <2>3, <3>2
      <3> QED BY <3>1, <3>2, <3>3 DEF IInv, UndoLinks
    <2>4. CASE r = revision - 1
      <3>1. /\ At(r)' = snaps[r] /\ At(r + 1)' = rows
            /\ At(r) = snaps[r] /\ At(r + 1) = snaps[revision]
            /\ At(revision) = snaps[revision] /\ At(revision + 1) = rows
            /\ r \in tail + 1 .. revision /\ revision \in tail + 1 .. revision /\ r > tail
        BY <1>0, <2>1, <2>2, <2>4 DEF At
      <3>2. IF r \in DOMAIN tables[t].stack
            THEN \A k \in Keys : Links(tables[t].stack[r], k, snaps[r][t][k], snaps[revision][t][k])
            ELSE snaps[r][t] = snaps[revision][t]
        BY <3>1 DEF IInv, UndoLinks
      <3>3. IF revision \in DOMAIN tables[t].stack
            THEN \A k \in Keys : Links(tables[t].stack[revision], k, snaps[revision][t][k], rows[t][k])
            ELSE snaps[revision][t] = rows[t]
        BY <3>1 DEF IInv, UndoLinks
      <3>4. CASE revision \notin DOMAIN tables[t].stack
        BY <1>1, <3>1, <3>2, <3>3, <3>4, ZenonT(40)
      <3>5. CASE revision \in DOMAIN tables[t].stack /\ r \notin DOMAIN tables[t].stack
        <4>1. r \in DOMAIN tables'[t].stack /\ tables'[t].stack[r] = tables[t].stack[revision]
          BY <1>1, <2>4, <3>1, <3>5
        <4> QED BY <3>1, <3>2, <3>3, <3>5, <4>1
      <3>6. CASE revision \in DOMAIN tables[t].stack /\ r \in DOMAIN tables[t].stack
        <4>1. /\ r \in DOMAIN tables'[t].stack
              /\ tables'[t].stack[r] = merge_states(tables[t].stack[r], tables[t].stack[revision])
          BY <1>1, <2>4, <3>1, <3>6
        <4>2. tables[t].stack[r] \in UndoState /\ tables[t].stack[revision] \in UndoState
          BY <3>6 DEF IInv, TypeOK
        <4>3. ASSUME NEW k \in Keys
              PROVE  Links(merge_states(tables[t].stack[r], tables[t].stack[revision]), k, snaps[r][t][k], rows[t][k])
          BY <3>2, <3>3, <3>6, <4>2, MergeLinks
        <4> QED BY <3>1, <4>1, <4>3
      <3> QED BY <3>4, <3>5, <3>6
    <2> QED BY <2>3, <2>4
  <1> QED BY <1>2, <1>3, <1>4 DEF IInv

-----------------------------------------------------------------------------
\* Theorems

\* The inductive invariant holds in every state of every behaviour.
LEMMA Invariance == Spec => []IInv
  <1>1. Init => IInv
    BY InitInv
  <1>2. IInv /\ [Next]_vars => IInv'
    <2> SUFFICES ASSUME IInv, [Next]_vars PROVE IInv'
      OBVIOUS
    <2>1. CASE \E rev \in 0 .. MaxRevision : SetRevision(rev)
      BY <2>1, SetRevisionInv
    <2>2. CASE StartSession
      BY <2>2, StartInv
    <2>3. CASE \E t \in Tables, k \in Keys, v \in Rows : Insert(t, k, v) \/ Update(t, k, v)
      BY <2>3, InsertInv, UpdateInv
    <2>4. CASE \E t \in Tables, k \in Keys : Remove(t, k)
      BY <2>4, RemoveInv
    <2>5. CASE Undo
      BY <2>5, UndoInv
    <2>6. CASE Squash
      BY <2>6, SquashInv
    <2>7. CASE \E r \in 1 .. MaxRevision : Commit(r)
      BY <2>7, CommitInv
    <2>8. CASE UNCHANGED vars
      BY <2>8 DEF vars, IInv, TypeOK, StageMachine, UndoLinks, At, empty
    <2> QED BY <2>1, <2>2, <2>3, <2>4, <2>5, <2>6, <2>7, <2>8 DEF Next
  <1> QED BY <1>1, <1>2, PTL DEF Spec

\* undo_state.cpp keeps its types: the revisions are ordered and undo states
\* exist for uncommitted revisions only.
THEOREM TypeCorrect == Spec => []TypeOK
  BY Invariance, PTL DEF IInv

\* Every uncommitted session can be undone exactly: the recorded undo states are
\* the differences between the contents at the starts of consecutive sessions.
THEOREM SessionsUndoable == Spec => []UndoLinks
  BY Invariance, PTL DEF IInv

\* The state machine of every table follows the one of the stack (update_stage of
\* undo_state.cpp), after undos, squashes and commits in any order.
THEOREM StagesFollow == Spec => []StageMachine
  BY Invariance, PTL DEF IInv

\* Two undo states that lead from x to y and from y to z never meet the cases the
\* merge asserts to be impossible.
LEMMA MergeNeverUB ==
    ASSUME NEW a \in UndoState, NEW b \in UndoState,
           \A k \in Keys : \E x, y, z : Links(a, k, x, y) /\ Links(b, k, y, z)
    PROVE  MergeOk(a, b)
  <1> DEFINE c == merge_new(merge_old(a, b), b)
  <1>1. ASSUME NEW k \in Keys, b.old[k] # None, k \notin a.new, a.old[k] = None
        PROVE  a.removed[k] = None
    BY <1>1 DEF Links
  <1>2. ASSUME NEW k \in Keys, b.removed[k] # None, k \notin c.new, c.old[k] = None
        PROVE  c.removed[k] = None
    <2>1. PICK x, y, z : Links(a, k, x, y) /\ Links(b, k, y, z)
      OBVIOUS
    <2>2. k \notin b.new /\ b.old[k] = None /\ y # None
      BY <1>2, <2>1 DEF Links
    <2>3. c.old[k] = a.old[k] /\ c.removed[k] = a.removed[k] /\ (k \in c.new <=> k \in a.new)
      BY <2>2 DEF merge_new, merge_old, UndoState, UndoMap
    <2> QED BY <1>2, <2>1, <2>2, <2>3 DEF Links
  <1> QED BY <1>1, <1>2 DEF MergeOk

\* No assertion of undo_state.cpp fails in any state that sessions and writes can
\* lead to.
THEOREM NoExceptions == Spec => []NoSessionException
  <1>1. IInv => NoSessionException
    <2> SUFFICES ASSUME IInv PROVE NoSessionException
      OBVIOUS
    <2>1. ASSUME revision = tail PROVE SetRevisionOk
      <3>1. tail \in Int /\ tail + 1 .. revision = {}
        BY <2>1 DEF IInv, TypeOK
      <3> QED BY <3>1 DEF IInv, TypeOK, SetRevisionOk, empty
    <2>2. StartOk
      <3>1. revision \in Int /\ \A t \in Tables : ~empty(tables[t]) => tables[t].rev = revision
        BY DEF IInv, TypeOK, StageMachine
      <3>2. ASSUME NEW t \in Tables, ~empty(tables[t]) PROVE tables[t].rev < revision + 1
        <4>1. tables[t].rev = revision
          BY <3>1, <3>2
        <4> QED BY <3>1, <4>1
      <3> QED BY <3>2 DEF StartOk
    <2>3. ASSUME NEW t \in Tables, enabled PROVE HeadOk(get_table(t))
      <3>1. CASE empty(tables[t])
        BY <3>1 DEF HeadOk, get_table, HeadBelow
      <3>2. CASE ~empty(tables[t])
        <4>1. get_table(t) = tables[t]
          BY <3>2 DEF get_table
        <4> QED BY <3>2, <4>1 DEF IInv, TypeOK, StageMachine, HeadOk, HeadBelow
      <3> QED BY <3>1, <3>2
    <2>4. ASSUME NEW t \in Tables, revision > tail PROVE UndoOk(tables[t], revision)
      BY <2>4, TableCases DEF UndoOk, HeadOk, HeadBelow
    <2>5. ASSUME NEW t \in Tables, revision > tail PROVE SquashOk(tables[t], revision)
      <3> DEFINE stk == tables[t].stack
      <3>1. CASE tables[t].stage = "Stack" /\ revision \in DOMAIN stk /\ revision - 1 \in DOMAIN stk
        <4>1. /\ revision \in Int /\ tail \in Int
              /\ revision \in tail + 1 .. revision /\ revision - 1 \in tail + 1 .. revision
              /\ stk[revision - 1] \in UndoState /\ stk[revision] \in UndoState
          BY <2>5, <3>1 DEF IInv, TypeOK
        <4>2. \A k \in Keys :
                /\ Links(stk[revision], k, At(revision)[t][k], At(revision + 1)[t][k])
                /\ Links(stk[revision - 1], k, At(revision - 1)[t][k], At((revision - 1) + 1)[t][k])
          BY <3>1, <4>1 DEF IInv, UndoLinks
        <4>3. (revision - 1) + 1 = revision
          BY <4>1
        <4>4. MergeOk(stk[revision - 1], stk[revision])
          BY <4>1, <4>2, <4>3, MergeNeverUB
        <4> QED BY <2>4, <2>5, <4>4 DEF SquashOk
      <3>2. CASE revision \notin DOMAIN stk
        BY <2>4, <2>5, <3>2, TableCases DEF SquashOk
      <3>3. CASE revision \in DOMAIN stk /\ ~(tables[t].stage = "Stack" /\ revision - 1 \in DOMAIN stk)
        BY <2>4, <2>5, <3>3 DEF SquashOk
      <3> QED BY <3>1, <3>2, <3>3
    <2> QED BY <2>1, <2>2, <2>3, <2>4, <2>5 DEF NoSessionException
  <1> QED BY <1>1, Invariance, PTL

\* The row-wise undo stack implements whole-table snapshots: undo brings back
\* everything as it was when the session started, squash and commit change no row.
THEOREM Refinement == Spec => ImplementsSessionStore
  <1>1. Init => Store!Init
    BY DEF Init, Store!Init, Contents, Store!Contents
  <1>2. IInv /\ [Next]_vars => [Store!Next]_(Store!svars)
    <2> SUFFICES ASSUME IInv, [Next]_vars PROVE Store!Next \/ UNCHANGED Store!svars
      BY DEF Store!svars
    <2>1. CASE \E rev \in 0 .. MaxRevision : SetRevision(rev)
      BY <2>1, MaxRevisionAssumption DEF SetRevision, Store!Next, Store!SetRevision
    <2>2. CASE StartSession
      BY <2>2 DEF StartSession, Store!Next, Store!Start
    <2>3. CASE \E t \in Tables, k \in Keys, v \in Rows : Insert(t, k, v) \/ Update(t, k, v)
      <3>1. PICK t \in Tables, k \in Keys, v \in Rows : Insert(t, k, v) \/ Update(t, k, v)
        BY <2>3
      <3> QED BY <3>1 DEF Insert, Update, Record, Store!Next, Store!Write
    <2>4. CASE \E t \in Tables, k \in Keys : Remove(t, k)
      <3>1. PICK t \in Tables, k \in Keys : Remove(t, k)
        BY <2>4
      <3> QED BY <3>1 DEF Remove, Record, Store!Next, Store!Write
    <2>5. CASE Undo
      <3>1. rows' = snaps[revision]
        BY <2>5, UndoContents DEF Undo
      <3> QED BY <2>5, <3>1 DEF Undo, Store!Next, Store!Undo
    <2>6. CASE Squash
      BY <2>6 DEF Squash, Store!Next, Store!Squash
    <2>7. CASE \E r \in 1 .. MaxRevision : Commit(r)
      <3>1. PICK r \in 1 .. MaxRevision : Commit(r)
        BY <2>7
      <3>2. r \in tail + 1 .. revision
        BY <3>1, MaxRevisionAssumption DEF Commit, IInv, TypeOK
      <3> QED BY <3>1, <3>2 DEF Commit, Store!Next, Store!Commit
    <2>8. CASE UNCHANGED vars
      BY <2>8 DEF vars, Store!svars
    <2> QED BY <2>1, <2>2, <2>3, <2>4, <2>5, <2>6, <2>7, <2>8 DEF Next
  <1> QED BY <1>1, <1>2, Invariance, PTL DEF Spec, ImplementsSessionStore, Store!Spec
=============================================================================
