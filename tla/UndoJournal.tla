---------------------------- MODULE UndoJournal -----------------------------
(***************************************************************************)
(* How the undo sessions of ChainDB reach the database, and come back from *)
(* it when a node restarts: undo_state.cpp (what each operation writes),   *)
(* journal.cpp (how pending writes of one document merge), mongo_driver.cpp *)
(* (how the merged writes are applied) and undo_stack_impl::restore().     *)
(*                                                                         *)
(* The journal keeps the writes of each primary key apart, undo documents  *)
(* belong to one primary key, and a merge never looks at another key: the  *)
(* module follows ONE row of one table.  Its undo state in a session is an *)
(* entry of one of the three maps new_values_, old_values_,                *)
(* removed_values_, and the same entry is a document of the undo           *)
(* collection, found by its undo_pk.  The two are written separately; the  *)
(* service fields of an entry (undo_rec among them) are kept in memory     *)
(* next to the map the entry sits in and need not agree with it.           *)
(*                                                                         *)
(* A document has a value and service fields.  Of the service fields of a  *)
(* row the payer is kept (size and in_ram are written and copied with it); *)
(* of an undo document revision, undo_rec, undo_payer and payer.           *)
(* Documents sit in MongoDB, which is external: an operation that finds no *)
(* document changes nothing and is not counted.                            *)
(***************************************************************************)
EXTENDS Integers, FiniteSetsExt

CONSTANTS
    Vals,           \* values of the row
    NoVal,          \* no value: the object of clone_service()
    Payers,         \* accounts that pay for the row
    MaxRevision,    \* bound on the revisions of a model
    MaxUndoPk,      \* bound on the undo documents of a model
    Trials          \* what a run explores: operations (ops) besides update and remove,
                    \* and who pays for the row (payers)

ASSUME NoValAssumption == NoVal \notin Vals
\* "reinsert" is the insert of a row that the session removed.
ASSUME TrialsAssumption ==
    \A t \in Trials : /\ t.ops \subseteq {"insert", "reinsert", "squash", "restart"}
                      /\ t.payers \subseteq Payers

\* Restart does not model what restore() does with two undo documents of one row
\* and one revision, which squashed inserts can leave behind (SquashNewRemove).
ASSUME RestartAssumption == \A t \in Trials : ~({"insert", "squash", "restart"} \subseteq t.ops)

VARIABLES
    revision, tail, \* undo_stack_impl::revision_, tail_revision_
    undo,           \* undo[r]: the entry of the row in the undo state of r
    row,            \* the row as the cache holds it
    jdata,          \* journal: the pending write of the row
    jundo,          \* journal: the pending writes of undo documents
    data,           \* database: the document of the row
    docs,           \* database: the undo documents of the row
    snaps,          \* history: the row at the start of each open session
    trial           \* the trial of this run

vars == <<revision, tail, undo, row, jdata, jundo, data, docs, snaps, trial>>

\* A row is its value and its payer.
NoRow == [val |-> NoVal, svc |-> NoVal]

Recs == {"New", "Old", "Removed"}

Service == [rev : Nat, rec : Recs, upay : Payers, pay : Payers]

\* A document of the undo collection is not taken for a missing one.
ASSUME ServiceAssumption == NoVal \notin Service

\* An entry of the undo state and the map it is in; NoEntry when there is none.
NoEntry == [map |-> "none"]

Entry == [map : Recs, upk : Nat, val : Vals \cup {NoVal}, svc : Service]

NoDocs == [u \in {} |-> NoRow]

-----------------------------------------------------------------------------
\* journal.cpp: _detail::write merges a write into the pending one

NoOp == [op |-> "Unknown"]

Throw == [op |-> "Throw"]

Op(op, obj) == [op |-> op, obj |-> obj]

\* mutant of Merge: an insert after a pending remove stays an insert
MergeInsertKeeps(src, dst) ==
    IF dst.op = "Unknown" \/ src.op # "Revision" THEN src
    ELSE Op(dst.op, [val |-> dst.obj.val, svc |-> src.obj.svc])

Merge(src, dst) ==
    IF dst.op = "Unknown" THEN src
    ELSE IF dst.op = "Throw" \/ (dst.op = "Remove" /\ src.op # "Insert") THEN Throw
    ELSE CASE src.op = "Insert" ->
                IF dst.op = "Remove" THEN Op("Update", src.obj) ELSE Throw
           [] src.op = "Update" ->
                Op(IF dst.op = "Revision" THEN "Update" ELSE dst.op, src.obj)
           [] src.op = "Revision" ->
                Op(dst.op, [val |-> dst.obj.val, svc |-> src.obj.svc])
           [] src.op = "Remove" ->
                IF dst.op = "Insert" THEN NoOp ELSE src

\* The pending write of undo document u in j
Pending(j, u) == IF u \in DOMAIN j THEN j[u] ELSE NoOp

\* The same write of each of the undo documents upks
WriteUndos(j, upks, src) ==
    LET op(u) == IF u \in upks THEN Merge(src, Pending(j, u)) ELSE Pending(j, u)
    IN  [u \in {x \in DOMAIN j \cup upks : op(x) # NoOp} |-> op(u)]

\* journal::write_undo on the pending undo writes j
WriteUndo(j, u, src) == WriteUndos(j, {u}, src)

\* The pending write of the row: journal::write_data
WriteData(src) == Merge(src, jdata)

-----------------------------------------------------------------------------
\* mongo_driver.cpp: what a write does to the document it finds

Apply(op, doc) ==
    CASE op.op \in {"Unknown", "Throw"} -> doc
      [] op.op = "Insert" -> IF doc = NoRow THEN op.obj ELSE doc
      [] op.op = "Update" -> IF doc = NoRow THEN NoRow ELSE op.obj
      [] op.op = "Revision" -> IF doc = NoRow THEN NoRow
                               ELSE [val |-> doc.val, svc |-> op.obj.svc]
      [] op.op = "Remove" -> NoRow

\* The write is counted: an insert finds no document, any other finds one.
Matches(op, doc) ==
    \/ op.op = "Unknown"
    \/ op.op = "Insert" /\ doc = NoRow
    \/ op.op \in {"Update", "Revision", "Remove"} /\ doc # NoRow

DocOf(u) == IF u \in DOMAIN docs THEN docs[u] ELSE NoRow

\* The undo collection after the pending writes j
ApplyAll(j) ==
    LET upks == DOMAIN docs \cup DOMAIN j
        new == [u \in upks |-> IF u \in DOMAIN j THEN Apply(j[u], DocOf(u)) ELSE docs[u]]
    IN  [u \in {x \in upks : new[x] # NoRow} |-> new[u]]

\* What a reader of the database sees once the journal is applied
DataView == Apply(jdata, data)

DocsView == ApplyAll(jundo)

-----------------------------------------------------------------------------
\* undo_state.cpp: entries and what they write

enabled == revision > tail

\* generate_undo_pk(): the counter only has to be fresh, so the smallest undo_pk
\* in use nowhere stands for it.
FreshPk ==
    LET used == DOMAIN docs \cup DOMAIN jundo
                \cup {undo[r].upk : r \in {q \in DOMAIN undo : undo[q] # NoEntry}}
    IN  Min((0 .. Cardinality(used)) \ used)

\* init_undo_object()
InitEntry(rec, val, upay, pay) ==
    [map |-> rec, upk |-> FreshPk, val |-> val,
     svc |-> [rev |-> revision, rec |-> rec, upay |-> upay, pay |-> pay]]

SetPayer(svc, p) == [rev |-> svc.rev, rec |-> svc.rec, upay |-> svc.upay, pay |-> p]

SetRec(svc, rec) == [rev |-> svc.rev, rec |-> rec, upay |-> svc.upay, pay |-> svc.pay]

SetRev(svc, r) == [rev |-> r, rec |-> svc.rec, upay |-> svc.upay, pay |-> svc.pay]

\* The undo document of an entry, and the one without its value (clone_service())
Full(e) == [val |-> e.val, svc |-> e.svc]

CloneService(svc) == [val |-> NoVal, svc |-> svc]

WithEntry(r, e) == [undo EXCEPT ![r] = e]

-----------------------------------------------------------------------------
\* The operations

Init ==
    /\ revision = 0
    /\ tail = 0
    /\ undo = [r \in {} |-> NoEntry]
    /\ trial \in Trials
    /\ row \in [val : Vals, svc : trial.payers] \cup {NoRow}
    /\ jdata = NoOp
    /\ jundo = NoDocs
    /\ data = row
    /\ docs = NoDocs
    /\ snaps = [r \in {} |-> row]

\* start_undo_session(true)
StartSession ==
    /\ revision < MaxRevision
    /\ revision' = revision + 1
    /\ undo' = [r \in tail + 1 .. revision + 1 |->
                    IF r = revision + 1 THEN NoEntry ELSE undo[r]]
    /\ snaps' = [r \in tail + 1 .. revision + 1 |->
                    IF r = revision + 1 THEN row ELSE snaps[r]]
    /\ UNCHANGED <<tail, row, jdata, jundo, data, docs>>

\* The row becomes new; the entry of the current session becomes e.
Write(new, op, e, undoWrites) ==
    /\ e # NoEntry => e.upk < MaxUndoPk
    /\ row' = new
    /\ jdata' = WriteData(op)
    /\ undo' = IF enabled THEN WithEntry(revision, e) ELSE undo
    /\ jundo' = IF enabled THEN undoWrites ELSE jundo
    /\ UNCHANGED <<revision, tail, data, docs, snaps>>

HeadEntry == IF enabled THEN undo[revision] ELSE NoEntry

\* insert(): a row removed in this session is an updated one again; the undo
\* document is rewritten from clone_service().
Insert(v, p) ==
    LET new == [val |-> v, svc |-> p]
        e == HeadEntry
        svc == SetRec(SetPayer(e.svc, p), "Old")
        fresh == InitEntry("New", NoVal, p, p)
    IN  /\ (IF e.map = "Removed" THEN "reinsert" ELSE "insert") \in trial.ops
        /\ row = NoRow
        /\ IF e.map = "Removed"
           THEN Write(new, Op("Insert", new), [map |-> "Old", upk |-> e.upk, val |-> e.val, svc |-> svc],
                      WriteUndo(jundo, e.upk, Op("Update", CloneService(svc))))
           ELSE Write(new, Op("Insert", new), fresh,
                      WriteUndo(jundo, fresh.upk, Op("Insert", CloneService(fresh.svc))))

\* mutant of Update: the second update of a session is recorded as a new entry
UpdateAgain(v, p) ==
    LET new == [val |-> v, svc |-> p]
        fresh == InitEntry("Old", row.val, row.svc, p)
    IN  /\ row # NoRow
        /\ Write(new, Op("Update", new), fresh, WriteUndo(jundo, fresh.upk, Op("Insert", Full(fresh))))

\* update(): the payer of an entry follows the row; the undo document of a row
\* already updated in this session is not rewritten.
Update(v, p) ==
    LET new == [val |-> v, svc |-> p]
        e == HeadEntry
        kept == [map |-> e.map, upk |-> e.upk, val |-> e.val, svc |-> SetPayer(e.svc, p)]
        fresh == InitEntry("Old", row.val, row.svc, p)
    IN  /\ row # NoRow
        /\ CASE e.map = "New" -> Write(new, Op("Update", new), kept,
                                       WriteUndo(jundo, e.upk, Op("Update", CloneService(kept.svc))))
             [] e.map = "Old" -> Write(new, Op("Update", new), kept, jundo)
             [] OTHER -> Write(new, Op("Update", new), fresh,
                               WriteUndo(jundo, fresh.upk, Op("Insert", Full(fresh))))

\* mutant of Remove: the undo document of an updated row is not rewritten
RemoveUnwritten ==
    LET e == HeadEntry
        gone == [map |-> "Removed", upk |-> e.upk, val |-> e.val, svc |-> SetRec(e.svc, "Removed")]
    IN  e.map = "Old" /\ row # NoRow /\ Write(NoRow, Op("Remove", NoRow), gone, jundo)

\* remove()
Remove ==
    LET e == HeadEntry
        gone == [map |-> "Removed", upk |-> e.upk, val |-> e.val, svc |-> SetRec(e.svc, "Removed")]
        fresh == InitEntry("Removed", row.val, row.svc, row.svc)
        op == Op("Remove", NoRow)
    IN  /\ row # NoRow
        /\ CASE e.map = "New" -> Write(NoRow, op, NoEntry, WriteUndo(jundo, e.upk, op))
             [] e.map = "Old" -> Write(NoRow, op, gone, WriteUndo(jundo, e.upk, Op("Update", Full(gone))))
             [] OTHER -> Write(NoRow, op, fresh, WriteUndo(jundo, fresh.upk, Op("Insert", Full(fresh))))

\* The row of a session that is undone, and the write that restores it.
UndoneRow(e) ==
    CASE e.map = "none" -> row
      [] e.map = "New" -> NoRow
      [] OTHER -> [val |-> e.val, svc |-> e.svc.upay]

\* mutant of UndoWrite: the present payer is written
UndoWritePayer(e) ==
    CASE e.map = "none" -> NoOp
      [] e.map = "New" -> Op("Remove", NoRow)
      [] e.map = "Old" -> Op("Update", [val |-> e.val, svc |-> e.svc.pay])
      [] e.map = "Removed" -> Op("Insert", UndoneRow(e))

UndoWrite(e) ==
    CASE e.map = "none" -> NoOp
      [] e.map = "New" -> Op("Remove", NoRow)
      [] e.map = "Old" -> Op("Update", UndoneRow(e))
      [] e.map = "Removed" -> Op("Insert", UndoneRow(e))

WriteIf(src, dst) == IF src = NoOp THEN dst ELSE Merge(src, dst)

\* chaindb_controller_impl::undo_revision(): undo() and then apply_all_changes(),
\* with the check of the number of matched documents switched off.  A write the
\* journal throws on stays pending.
Undo ==
    LET e == undo[revision]
        jd == WriteIf(UndoWrite(e), jdata)
        ju == IF e = NoEntry THEN jundo ELSE WriteUndo(jundo, e.upk, Op("Remove", NoRow))
    IN  /\ revision > tail
        /\ row' = UndoneRow(e)
        /\ data' = Apply(jd, data)
        /\ docs' = ApplyAll(ju)
        /\ jdata' = IF jd = Throw THEN Throw ELSE NoOp
        /\ jundo' = [u \in {x \in DOMAIN ju : ju[x] = Throw} |-> Throw]
        /\ revision' = revision - 1
        /\ undo' = [r \in tail + 1 .. revision - 1 |-> undo[r]]
        /\ snaps' = [r \in tail + 1 .. revision - 1 |-> snaps[r]]
        /\ UNCHANGED tail

\* write_operation::revision(): the service fields of entry e, one revision lower
RevisionWrite(e) == Op("Revision", [val |-> NoVal, svc |-> e.svc.pay])

UndoRevisionWrite(e) == Op("Revision", CloneService(SetRev(e.svc, revision - 1)))

\* The previous session ends up with entry e; jd and ju are the pending writes.
SquashTo(e, jd, ju) ==
    /\ undo' = [r \in tail + 1 .. revision - 1 |-> IF r = revision - 1 THEN e ELSE undo[r]]
    /\ jdata' = jd
    /\ jundo' = ju
    /\ revision' = revision - 1
    /\ snaps' = [r \in tail + 1 .. revision - 1 |-> snaps[r]]
    /\ UNCHANGED <<tail, row, data, docs>>

\* The row is in the database, so its service fields are rewritten too.
SquashData(e) == IF e.map = "Removed" THEN jdata ELSE WriteData(RevisionWrite(e))

Without(j, e) == WriteUndo(j, e.upk, Op("Remove", NoRow))

\* remove_state(): the previous revision is committed.
SquashCommitted(b) ==
    /\ revision - 1 = tail
    /\ SquashTo(NoEntry, SquashData(b), Without(jundo, b))

\* squash_state() and the cells "nop + x" of the merge
SquashMove(a, b) ==
    /\ a = NoEntry
    /\ SquashTo([map |-> b.map, upk |-> b.upk, val |-> b.val, svc |-> SetRev(b.svc, revision - 1)],
                SquashData(b), WriteUndo(jundo, b.upk, UndoRevisionWrite(b)))

\* new + upd -> new, upd(was=X) + upd(was=Y) -> upd(was=X)
SquashUpdate(a, b) ==
    /\ a.map \in {"New", "Old"} /\ b.map = "Old"
    /\ SquashTo([map |-> a.map, upk |-> a.upk, val |-> a.val, svc |-> SetPayer(a.svc, b.svc.pay)],
                SquashData(b), Without(jundo, b))

\* mutant of SquashInsert: the undo document of the wrong session is removed
SquashInsertWrong(a, b) ==
    LET e == [map |-> "Old", upk |-> a.upk, val |-> a.val, svc |-> SetRec(a.svc, "Old")] IN
    /\ a.map = "Removed" /\ b.map = "New"
    /\ SquashTo(e, jdata, WriteUndo(Without(jundo, a), a.upk, Op("Update", Full(e))))

\* del(was=X) + new -> upd(was=X); the payer of b is not copied
SquashInsert(a, b) ==
    LET e == [map |-> "Old", upk |-> a.upk, val |-> a.val, svc |-> SetRec(a.svc, "Old")] IN
    /\ a.map = "Removed" /\ b.map = "New"
    /\ SquashTo(e, jdata, WriteUndo(Without(jundo, b), a.upk, Op("Update", Full(e))))

\* new + del -> nop; the undo document of a is not touched
SquashNewRemove(a, b) ==
    /\ a.map = "New" /\ b.map = "Removed"
    /\ SquashTo(NoEntry, jdata, Without(jundo, b))

\* upd(was=X) + del(was=Y) -> del(was=X); undo_rec and the undo document of a
\* are not touched
SquashOldRemove(a, b) ==
    /\ a.map = "Old" /\ b.map = "Removed"
    /\ SquashTo([map |-> "Removed", upk |-> a.upk, val |-> a.val, svc |-> a.svc],
                jdata, Without(jundo, b))

Squash ==
    LET b == undo[revision]
        a == undo[revision - 1]
    IN  /\ "squash" \in trial.ops
        /\ revision > tail
        /\ \/ b = NoEntry /\ SquashTo(IF revision - 1 > tail THEN a ELSE NoEntry, jdata, jundo)
           \/ b # NoEntry /\ SquashCommitted(b)
           \/ /\ b # NoEntry
              /\ revision - 1 > tail
              /\ \/ SquashMove(a, b)
                 \/ SquashUpdate(a, b)
                 \/ SquashInsert(a, b)
                 \/ SquashNewRemove(a, b)
                 \/ SquashOldRemove(a, b)

\* mutant of EntriesUpTo: off by one
EntriesBelow(c) == {undo[r] : r \in {q \in tail + 1 .. c - 1 : undo[q] # NoEntry}}

\* The entries of the sessions up to revision c
EntriesUpTo(c) == {undo[r] : r \in {q \in tail + 1 .. c : undo[q] # NoEntry}}

\* commit(c): the undo documents of the committed sessions are removed.
Commit(c) ==
    /\ c \in tail + 1 .. revision
    /\ jundo' = WriteUndos(jundo, {e.upk : e \in EntriesUpTo(c)}, Op("Remove", NoRow))
    /\ tail' = c
    /\ undo' = [r \in c + 1 .. revision |-> undo[r]]
    /\ snaps' = [r \in c + 1 .. revision |-> snaps[r]]
    /\ UNCHANGED <<revision, row, jdata, data, docs>>

\* apply_all_changes(): at the end of a block, and before many reads.
Flush ==
    /\ jdata # NoOp \/ DOMAIN jundo # {}
    /\ data' = DataView
    /\ docs' = DocsView
    /\ jdata' = NoOp
    /\ jundo' = NoDocs
    /\ UNCHANGED <<revision, tail, undo, row, snaps>>

\* restore(): the document of revision r becomes an entry of the map its undo_rec
\* names.
RestoredEntry(r) ==
    LET here == {u \in DOMAIN DocsView : DocsView[u].svc.rev = r}
        u == CHOOSE x \in here : TRUE
        d == DocsView[u]
    IN  IF here = {} THEN NoEntry
        ELSE [map |-> d.svc.rec, upk |-> u, val |-> d.val, svc |-> d.svc]

\* ~controller_impl() undoes the pending block (Undo) and applies all changes; the
\* next start of the node calls restore().  Every block writes undo documents in
\* tables of its own, so revision_ and tail_revision_ come back as they were.
Restart ==
    /\ "restart" \in trial.ops
    /\ data' = DataView
    /\ docs' = DocsView
    /\ row' = DataView
    /\ jdata' = NoOp
    /\ jundo' = NoDocs
    /\ undo' = [r \in tail + 1 .. revision |-> RestoredEntry(r)]
    /\ UNCHANGED <<revision, tail, snaps>>

Step ==
    \/ StartSession
    \/ \E v \in Vals, p \in trial.payers : Insert(v, p) \/ Update(v, p)
    \/ Remove
    \/ Undo
    \/ Squash
    \/ \E c \in 1 .. MaxRevision : Commit(c)
    \/ Flush
    \/ Restart

Next == Step /\ UNCHANGED trial

Spec == Init /\ [][Next]_vars

-----------------------------------------------------------------------------
\* Properties

\* journal.cpp throws "Wrong state on insert / update / update_revision / delete"
\* for no sequence of operations and flushes: the merge of pending writes never
\* meets a combination it does not know.
JournalNeverThrows ==
    /\ jdata # Throw
    /\ \A u \in DOMAIN jundo : jundo[u] # Throw

\* Whenever the journal is applied, each write finds what it needs: execute_bulk()
\* never counts a missing document ("MongoDB driver returns bad result on bulk
\* execution") and never meets a duplicate.
FlushMatches ==
    /\ Matches(jdata, data)
    /\ \A u \in DOMAIN jundo : Matches(jundo[u], DocOf(u))

\* The database with the pending writes holds the value and the payer that the
\* cache holds: a reader that misses the cache is never wrong, whenever the journal
\* was applied last.
RowInSync ==
    /\ (DataView = NoRow) <=> (row = NoRow)
    /\ DataView.val = row.val
    /\ DataView.svc = row.svc

\* Undo brings the database back to the value the row had when the session
\* started, whatever was squashed, flushed or reloaded in between ("Restores the
\* state to how it was prior to the current session discarding all changes").
UndoRestores ==
    [][revision > tail /\ Undo => /\ data'.val = snaps[revision].val
                                  /\ row'.val = snaps[revision].val
                                  /\ (data' = NoRow) <=> (snaps[revision] = NoRow)]_vars

\* The undo history of committed sessions is discarded: no undo document of a
\* committed revision outlives commit() ("Discards all undo history prior to
\* revision"), also when the sessions were reloaded by a restart.  Squashes, which
\* may leave documents behind (SquashNewRemove), are left out.
CommitDiscards ==
    "squash" \notin trial.ops => \A u \in DOMAIN DocsView : DocsView[u].svc.rev > tail

\* Each entry in memory has its undo document, with the same revision, the same
\* payer to restore and, but for a row removed and inserted again, the same value;
\* its undo_rec names the map of the entry, but for an updated row whose remove was
\* squashed.
DocsMatch ==
    \A r \in DOMAIN undo : undo[r] # NoEntry =>
        LET e == undo[r] IN
        /\ e \in Entry /\ e.svc.rev = r
        /\ e.upk \in DOMAIN DocsView
        /\ LET d == DocsView[e.upk] IN
           /\ d.svc.rev = r
           /\ d.svc.upay = e.svc.upay
           /\ d.svc.rec = e.svc.rec
           /\ d.val = e.val \/ (e.map # "New" /\ d.val = NoVal)
           /\ d.svc.rec = e.map \/ (d.svc.rec = "Old" /\ e.map = "Removed")
=============================================================================
