-------------------------- MODULE UndoJournalProofs --------------------------
(***************************************************************************)
(* Proofs about the way undo sessions reach the database, for any values,  *)
(* payers, revisions and undo documents: the journal never throws, its     *)
(* writes find what they need, the database with the pending writes is     *)
(* what the cache holds, each entry in memory has its document, and undo   *)
(* restores the row.                                                       *)
(***************************************************************************)
EXTENDS UndoJournal, FiniteSetTheorems, TLAPS

-----------------------------------------------------------------------------
\* The trials

\* A restart takes an updated row whose remove was squashed for an updated one, and finds
\* no value in the document of a row that was inserted again: no restarts in such trials.
ReloadsExactly == \A t \in Trials : "restart" \in t.ops => t.ops \cap {"squash", "reinsert"} = {}

\* The payer of an entry may be stale where sessions are squashed.
OnePayer == \A t \in Trials : "squash" \in t.ops => \A p, q \in t.payers : p = q

-----------------------------------------------------------------------------
\* Types

Values == Vals \cup {NoVal}

Documents(V, S) == [val : V, svc : S]

Rows == Documents(Vals, trial.payers)

Services == [rev : Nat, rec : Recs, upay : trial.payers, pay : trial.payers]

UndoDocs == Documents(Values, Services)

\* A pending write of a document with values of V and service fields of S
IsOp(o, V, S) ==
    \/ o = NoOp
    \/ o.op = "Remove"
    \/ /\ o.op \in {"Insert", "Update", "Revision"}
       /\ o.obj = [val |-> o.obj.val, svc |-> o.obj.svc]
       /\ o.obj.svc \in S
       /\ o.op # "Revision" => o.obj.val \in V

Entries == [map : Recs, upk : Nat, val : Values, svc : Services]

\* What undo document u is once the writes j are applied
View(j, u) == Apply(Pending(j, u), DocOf(u))

IsJournal(j) ==
    /\ DOMAIN j \in SUBSET Nat /\ IsFiniteSet(DOMAIN j)
    /\ \A u \in DOMAIN j : IsOp(j[u], Values, Services) /\ Matches(j[u], DocOf(u))

TypeOK ==
    /\ trial \in Trials
    /\ tail \in Nat /\ revision \in Nat /\ tail <= revision
    /\ undo \in [tail + 1 .. revision -> Entries \cup {NoEntry}]
    /\ snaps \in [tail + 1 .. revision -> Rows \cup {NoRow}]
    /\ row \in Rows \cup {NoRow}
    /\ data \in Rows \cup {NoRow}
    /\ IsOp(jdata, Vals, trial.payers) /\ Matches(jdata, data)
    /\ DOMAIN docs \in SUBSET Nat /\ IsFiniteSet(DOMAIN docs)
    /\ \A u \in DOMAIN docs : docs[u] \in UndoDocs
    /\ IsJournal(jundo)

-----------------------------------------------------------------------------
\* The invariant

\* The value, and the payer where no session is squashed, reach the database.
InSync ==
    /\ DataView.val = row.val
    /\ "squash" \notin trial.ops => DataView = row

\* An entry e brings the row back from after to before.
Restores(e, before, after) ==
    CASE e.map = "none" -> before.val = after.val
      [] e.map = "New" -> before = NoRow /\ after # NoRow /\ e.val = NoVal
      [] e.map = "Old" -> before # NoRow /\ after # NoRow /\ e.val = before.val
      [] e.map = "Removed" -> before # NoRow /\ after = NoRow /\ e.val = before.val

After(r) == IF r = revision THEN row ELSE snaps[r + 1]

Chain == \A r \in tail + 1 .. revision : Restores(undo[r], snaps[r], After(r))

\* d is the document of entry e of revision r.
Describes(d, e, r) ==
    /\ d # NoRow
    /\ d.svc.rev = r /\ e.svc.rev = r
    /\ d.svc.upay = e.svc.upay
    /\ d.svc.rec = e.svc.rec
    /\ d.val = e.val \/ (e.map # "New" /\ d.val = NoVal)
    /\ d.svc.rec = e.map \/ (d.svc.rec = "Old" /\ e.map = "Removed")
    /\ "restart" \in trial.ops => d.val = e.val /\ d.svc.rec = e.map

Documented == \A r \in tail + 1 .. revision : undo[r] # NoEntry => Describes(View(jundo, undo[r].upk), undo[r], r)

\* Without squashes every undo document is that of an entry.
NoStrays ==
    "squash" \notin trial.ops => \A u \in Nat : View(jundo, u) # NoRow =>
        \E r \in tail + 1 .. revision : undo[r] # NoEntry /\ undo[r].upk = u

IInv == TypeOK /\ InSync /\ Chain /\ Documented /\ NoStrays

-----------------------------------------------------------------------------
\* The journal

\* A document is not a missing one.
LEMMA IsDocument ==
    /\ \A S : NoRow \notin Documents(Vals, S)
    /\ TypeOK => NoRow \notin UndoDocs
  <1>1. \A S : NoRow \notin Documents(Vals, S)
    BY NoValAssumption DEF NoRow, Documents
  <1>2. ASSUME TypeOK, NoRow \in UndoDocs PROVE FALSE
    <2>1. NoVal \in Services
      BY <1>2 DEF NoRow, UndoDocs, Documents
    <2>2. trial.payers \subseteq Payers
      BY <1>2, TrialsAssumption DEF TypeOK
    <2>3. NoVal \in Service
      BY <2>1, <2>2 DEF Services, Service
    <2> QED BY <2>3, ServiceAssumption
  <1> QED BY <1>1, <1>2

\* What a write leaves is a document or none.
LEMMA ApplyType ==
    ASSUME NEW V, NEW S, NEW o, IsOp(o, V, S), NEW doc \in Documents(V, S) \cup {NoRow}
    PROVE  Apply(o, doc) \in Documents(V, S) \cup {NoRow}
  <1>1. CASE o = NoOp
    BY <1>1 DEF Apply, NoOp
  <1>2. CASE o.op = "Remove"
    BY <1>2 DEF Apply
  <1>3. CASE o.op \in {"Insert", "Update"} /\ o.obj \in Documents(V, S)
    BY <1>3 DEF Apply
  <1>4. CASE o.op = "Revision" /\ o.obj.svc \in S
    <2>1. CASE doc = NoRow
      BY <1>4, <2>1 DEF Apply
    <2>2. CASE doc # NoRow
      <3>1. Apply(o, doc) = [val |-> doc.val, svc |-> o.obj.svc]
        BY <1>4, <2>2 DEF Apply
      <3>2. doc.val \in V
        BY <2>2 DEF Documents
      <3> QED BY <1>4, <3>1, <3>2 DEF Documents
    <2> QED BY <2>1, <2>2
  <1>5. o.op \in {"Insert", "Update"} /\ o.obj.val \in V /\ o.obj.svc \in S
           /\ o.obj = [val |-> o.obj.val, svc |-> o.obj.svc] => o.obj \in Documents(V, S)
    BY DEF Documents
  <1> QED BY <1>1, <1>2, <1>3, <1>4, <1>5 DEF IsOp

\* What a merged write is worth: it finds what it needs where its parts did, one after the
\* other, and does the same (journal.cpp _detail::write).
Merged(src, dst, doc, V, S) ==
    /\ IsOp(Merge(src, dst), V, S)
    /\ Matches(Merge(src, dst), doc)
    /\ Apply(Merge(src, dst), doc) = Apply(src, Apply(dst, doc))

\* Merge of a write with the pending one
LEMMA MergeFacts ==
    ASSUME NEW V, NEW S, NoRow \notin Documents(V, S),
           NEW src, IsOp(src, V, S), src # NoOp, NEW dst, IsOp(dst, V, S),
           NEW doc \in Documents(V, S) \cup {NoRow},
           Matches(dst, doc), Matches(src, Apply(dst, doc))
    PROVE  Merged(src, dst, doc, V, S)
  <1> DEFINE o == Merge(src, dst)
             mid == Apply(dst, doc)
  <1>1. src.op \in {"Insert", "Update", "Revision", "Remove"}
    BY DEF IsOp
  <1>2. src.op \in {"Insert", "Update", "Revision"} =>
           src.obj = [val |-> src.obj.val, svc |-> src.obj.svc] /\ src.obj.svc \in S
    BY DEF IsOp, NoOp
  <1>3. src.op \in {"Insert", "Update"} => src.obj.val \in V /\ src.obj \in Documents(V, S)
    BY DEF IsOp, NoOp, Documents
  <1>4. src.op # "Insert" => mid # NoRow
    BY <1>1 DEF Matches
  <1>5. src.op = "Insert" => mid = NoRow
    BY DEF Matches
  <1>6. CASE dst = NoOp
    <2>1. o = src /\ mid = doc
      BY <1>6 DEF Merge, NoOp, Apply
    <2> QED BY <2>1 DEF Merged
  <1>7. CASE dst.op = "Remove"
    <2>1. mid = NoRow /\ doc # NoRow
      BY <1>7 DEF Apply, Matches
    <2>2. src.op = "Insert"
      BY <1>4, <2>1
    <2>3. o = Op("Update", src.obj)
      BY <1>7, <2>2 DEF Merge
    <2>4. o.op = "Update" /\ o.obj = src.obj
      BY <2>3 DEF Op
    <2>5. Apply(o, doc) = src.obj /\ Apply(src, mid) = src.obj /\ Matches(o, doc)
      BY <2>1, <2>2, <2>4 DEF Apply, Matches
    <2> QED BY <1>2, <1>3, <2>2, <2>4, <2>5 DEF Merged, IsOp
  <1>8. CASE dst.op \in {"Insert", "Update", "Revision"}
    <2>1. dst.obj = [val |-> dst.obj.val, svc |-> dst.obj.svc] /\ dst.obj.svc \in S
      BY <1>8 DEF IsOp, NoOp
    <2>2. dst.op \in {"Insert", "Update"} => dst.obj.val \in V /\ dst.obj \in Documents(V, S)
      BY <1>8 DEF IsOp, NoOp, Documents
    <2>3. /\ dst.op = "Insert" => doc = NoRow
          /\ dst.op # "Insert" => doc # NoRow
      BY <1>8 DEF Matches
    <2>4. dst.op \in {"Insert", "Update"} => mid = dst.obj
      BY <1>8, <2>3 DEF Apply
    <2>5. dst.op = "Revision" => mid = [val |-> doc.val, svc |-> dst.obj.svc] /\ doc.val \in V
      BY <1>8, <2>3 DEF Apply, Documents
    <2>6. mid # NoRow
      BY <1>8, <2>1, <2>2, <2>4, <2>5 DEF Documents
    <2>7. src.op # "Insert"
      BY <1>5, <2>6
    <2>8. CASE src.op = "Update"
      <3>1. o = Op(IF dst.op = "Revision" THEN "Update" ELSE dst.op, src.obj)
        BY <1>8, <2>8 DEF Merge
      <3>2. o.op \in {"Insert", "Update"} /\ o.obj = src.obj /\ (o.op = "Insert" <=> dst.op = "Insert")
        BY <1>8, <3>1 DEF Op
      <3>3. Apply(o, doc) = src.obj /\ Apply(src, mid) = src.obj /\ Matches(o, doc)
        BY <2>3, <2>6, <2>8, <3>2 DEF Apply, Matches
      <3> QED BY <1>2, <1>3, <2>8, <3>2, <3>3 DEF Merged, IsOp
    <2>9. CASE src.op = "Revision"
      <3> DEFINE obj == [val |-> dst.obj.val, svc |-> src.obj.svc]
      <3>1. o = Op(dst.op, obj)
        BY <1>8, <2>9 DEF Merge
      <3>2. o.op = dst.op /\ o.obj = obj /\ obj.val = dst.obj.val /\ obj.svc = src.obj.svc
            /\ obj = [val |-> obj.val, svc |-> obj.svc]
        BY <3>1 DEF Op
      <3>3. Apply(src, mid) = [val |-> mid.val, svc |-> src.obj.svc]
        BY <2>6, <2>9 DEF Apply
      <3>4. Matches(o, doc)
        BY <1>8, <2>3, <3>2 DEF Matches
      <3>5. Apply(o, doc) = [val |-> mid.val, svc |-> src.obj.svc]
        <4>1. CASE dst.op \in {"Insert", "Update"}
          BY <2>3, <2>4, <3>2, <4>1 DEF Apply
        <4>2. CASE dst.op = "Revision"
          BY <2>3, <2>5, <3>2, <4>2 DEF Apply
        <4> QED BY <1>8, <4>1, <4>2
      <3> HIDE DEF obj
      <3>6. IsOp(o, V, S)
        BY <1>2, <1>8, <2>2, <2>9, <3>2 DEF IsOp
      <3> QED BY <3>3, <3>4, <3>5, <3>6 DEF Merged
    <2>10. CASE src.op = "Remove"
      <3>1. Apply(src, mid) = NoRow
        BY <2>10 DEF Apply
      <3>2. CASE dst.op = "Insert"
        <4>1. o = NoOp
          BY <2>10, <3>2 DEF Merge
        <4>2. Apply(NoOp, doc) = doc /\ Matches(NoOp, doc)
          BY DEF Apply, Matches, NoOp
        <4> QED BY <2>3, <3>1, <3>2, <4>1, <4>2 DEF Merged, IsOp
      <3>3. CASE dst.op # "Insert"
        <4>1. o = src
          BY <1>8, <2>10, <3>3 DEF Merge
        <4>2. Apply(src, doc) = NoRow /\ Matches(src, doc)
          BY <2>3, <2>10, <3>3 DEF Apply, Matches
        <4> QED BY <3>1, <4>1, <4>2 DEF Merged
      <3> QED BY <3>2, <3>3
    <2> QED BY <1>1, <2>7, <2>8, <2>9, <2>10
  <1> QED BY <1>6, <1>7, <1>8 DEF IsOp

\* The documents of the database, and what the writes j make of them
LEMMA ViewType ==
    ASSUME TypeOK, NEW j, IsJournal(j)
    PROVE  /\ \A u : DocOf(u) \in UndoDocs \cup {NoRow}
           /\ \A u : IsOp(Pending(j, u), Values, Services) /\ Matches(Pending(j, u), DocOf(u))
           /\ \A u : View(j, u) \in UndoDocs \cup {NoRow}
           /\ \A u : View(j, u) # NoRow => u \in DOMAIN docs \cup DOMAIN j
  <1>1. \A u : DocOf(u) \in UndoDocs \cup {NoRow}
    BY DEF TypeOK, DocOf
  <1>2. \A u : IsOp(Pending(j, u), Values, Services) /\ Matches(Pending(j, u), DocOf(u))
    BY DEF IsJournal, Pending, IsOp, Matches, NoOp
  <1>3. ASSUME NEW u PROVE View(j, u) \in UndoDocs \cup {NoRow}
    <2> DEFINE o == Pending(j, u)
               d == DocOf(u)
    <2>1. IsOp(o, Values, Services) /\ d \in Documents(Values, Services) \cup {NoRow}
      BY <1>1, <1>2 DEF UndoDocs
    <2> HIDE DEF o, d
    <2>2. Apply(o, d) \in Documents(Values, Services) \cup {NoRow}
      BY <2>1, ApplyType
    <2> QED BY <2>2 DEF o, d, View, UndoDocs
  <1>4. ASSUME NEW u, u \notin DOMAIN docs, u \notin DOMAIN j PROVE View(j, u) = NoRow
    BY <1>4 DEF View, Pending, DocOf, Apply, NoOp
  <1> QED BY <1>1, <1>2, <1>3, <1>4

\* What writes of undo documents do to the view
Written(j, k, upks, src) ==
    /\ IsJournal(k)
    /\ \A u : View(k, u) = IF u \in upks THEN Apply(src, View(j, u)) ELSE View(j, u)

\* Writes of undo documents that find what they need
LEMMA WriteUndosFacts ==
    ASSUME TypeOK, NEW j, IsJournal(j), NEW upks \in SUBSET Nat, IsFiniteSet(upks),
           NEW src, IsOp(src, Values, Services), src # NoOp,
           \A u \in upks : Matches(src, View(j, u))
    PROVE  Written(j, WriteUndos(j, upks, src), upks, src)
  <1> DEFINE op(u) == IF u \in upks THEN Merge(src, Pending(j, u)) ELSE Pending(j, u)
             D == {x \in DOMAIN j \cup upks : op(x) # NoOp}
             k == WriteUndos(j, upks, src)
  <1>1. k = [u \in D |-> op(u)]
    BY DEF WriteUndos
  <1>2. /\ \A u : DocOf(u) \in UndoDocs \cup {NoRow}
        /\ \A u : IsOp(Pending(j, u), Values, Services) /\ Matches(Pending(j, u), DocOf(u))
    BY ViewType
  <1>3. ASSUME NEW u \in upks PROVE Merged(src, Pending(j, u), DocOf(u), Values, Services)
    <2> DEFINE o == Pending(j, u)
               d == DocOf(u)
    <2>1. IsOp(o, Values, Services) /\ Matches(o, d) /\ d \in Documents(Values, Services) \cup {NoRow}
      BY <1>2 DEF UndoDocs
    <2>2. Matches(src, Apply(o, d)) /\ NoRow \notin Documents(Values, Services)
      BY IsDocument DEF View, UndoDocs
    <2> HIDE DEF o, d
    <2>3. Merged(src, o, d, Values, Services)
      BY <2>1, <2>2, MergeFacts
    <2> QED BY <2>3 DEF o, d
  <1>4. \A u : /\ IsOp(op(u), Values, Services) /\ Matches(op(u), DocOf(u))
               /\ Apply(op(u), DocOf(u)) = IF u \in upks THEN Apply(src, View(j, u)) ELSE View(j, u)
    BY <1>2, <1>3 DEF Merged, View
  <1>5. \A u : u \notin D => op(u) = NoOp
    BY DEF Pending
  <1>6. IsFiniteSet(DOMAIN j \cup upks) /\ DOMAIN j \cup upks \in SUBSET Nat
    BY FS_Union DEF IsJournal
  <1>7. D \in SUBSET (DOMAIN j \cup upks)
    OBVIOUS
  <1>8. IsFiniteSet(D) /\ D \in SUBSET Nat
    <2> HIDE DEF D
    <2> QED BY <1>6, <1>7, FS_Subset
  <1> HIDE DEF D, op
  <1>9. DOMAIN k = D /\ \A u \in D : k[u] = op(u)
    BY <1>1
  <1> HIDE DEF k
  <1>10. IsJournal(k)
    BY <1>4, <1>8, <1>9 DEF IsJournal
  <1>11. \A u : Pending(k, u) = op(u)
    BY <1>5, <1>9 DEF Pending
  <1>12. \A u : View(k, u) = IF u \in upks THEN Apply(src, View(j, u)) ELSE View(j, u)
    BY <1>4, <1>11 DEF View
  <1> QED BY <1>10, <1>12 DEF Written, k

\* The write of one undo document
LEMMA WriteUndoFacts ==
    ASSUME TypeOK, NEW j, IsJournal(j), NEW u \in Nat,
           NEW src, IsOp(src, Values, Services), src # NoOp, Matches(src, View(j, u))
    PROVE  /\ IsJournal(WriteUndo(j, u, src))
           /\ View(WriteUndo(j, u, src), u) = Apply(src, View(j, u))
           /\ \A x : x # u => View(WriteUndo(j, u, src), x) = View(j, x)
  <1>1. {u} \in SUBSET Nat /\ IsFiniteSet({u}) /\ \A x \in {u} : Matches(src, View(j, x))
    BY FS_Singleton
  <1>2. Written(j, WriteUndos(j, {u}, src), {u}, src)
    BY <1>1, WriteUndosFacts
  <1> QED BY <1>2 DEF Written, WriteUndo

\* The undo collection after the writes j is their view.
LEMMA ApplyAllFacts ==
    ASSUME TypeOK, NEW j, IsJournal(j)
    PROVE  LET d == ApplyAll(j)
           IN  /\ \A u : u \in DOMAIN d <=> View(j, u) # NoRow
               /\ \A u \in DOMAIN d : d[u] = View(j, u) /\ d[u] \in UndoDocs
               /\ DOMAIN d \in SUBSET Nat /\ IsFiniteSet(DOMAIN d)
  <1> DEFINE upks == DOMAIN docs \cup DOMAIN j
             new == [u \in upks |-> IF u \in DOMAIN j THEN Apply(j[u], DocOf(u)) ELSE docs[u]]
             D == {x \in upks : new[x] # NoRow}
             d == ApplyAll(j)
  <1>1. d = [u \in D |-> new[u]]
    BY DEF ApplyAll
  <1>2. /\ \A u : View(j, u) \in UndoDocs \cup {NoRow}
        /\ \A u : View(j, u) # NoRow => u \in upks
    BY ViewType
  <1>3. \A u \in upks : new[u] = View(j, u)
    BY DEF View, Pending, DocOf, Apply, NoOp
  <1>4. IsFiniteSet(upks) /\ upks \in SUBSET Nat
    BY FS_Union DEF IsJournal, TypeOK
  <1> HIDE DEF upks, new
  <1>5. \A u : u \in D <=> View(j, u) # NoRow
    BY <1>2, <1>3
  <1>6. D \in SUBSET upks /\ D \in SUBSET Nat
    BY <1>4
  <1>7. IsFiniteSet(D)
    <2> HIDE DEF D
    <2> QED BY <1>4, <1>6, FS_Subset
  <1> HIDE DEF D
  <1>8. DOMAIN d = D /\ \A u \in D : d[u] = new[u] /\ u \in upks
    BY <1>1, <1>6
  <1> HIDE DEF d
  <1>9. \A u \in D : d[u] = View(j, u) /\ d[u] \in UndoDocs
    BY <1>2, <1>3, <1>5, <1>8
  <1> QED BY <1>5, <1>6, <1>7, <1>8, <1>9 DEF d

-----------------------------------------------------------------------------
\* Undo documents and entries

\* An entry is not NoEntry.
LEMMA EntryFacts ==
    ASSUME NEW e \in Entries \cup {NoEntry}
    PROVE  /\ e = NoEntry <=> e.map = "none"
           /\ e # NoEntry => /\ e \in Entries /\ e.map \in Recs /\ e.upk \in Nat
                             /\ e.val \in Values /\ e.svc \in Services
  BY DEF Entries, NoEntry, Recs

\* Every set of natural numbers that is not empty has a least element.
LEMMA NatMin ==
    ASSUME NEW S, S \subseteq Nat, S # {}
    PROVE  \E x \in S : \A y \in S : x <= y
  <1> DEFINE R == OpToRel(<, Nat)
  <1>1. PICK x \in S : \A y \in S : ~ (<<y, x>> \in R)
    <2> HIDE DEF R
    <2>1. IsWellFoundedOn(R, Nat)
      BY NatLessThanWellFounded DEF R
    <2> QED BY <2>1, WFMin
  <1>2. \A y \in S : x <= y
    <2> SUFFICES ASSUME NEW y \in S, y < x PROVE FALSE
      BY SMT
    <2>1. <<y, x>> \in R
      BY DEF OpToRel
    <2> QED BY <1>1, <2>1
  <1> QED BY <1>2

\* The undo_pk of a new entry is in use nowhere.
LEMMA FreshFacts ==
    ASSUME IInv
    PROVE  /\ FreshPk \in Nat
           /\ View(jundo, FreshPk) = NoRow
           /\ \A r \in tail + 1 .. revision : undo[r] # NoEntry => undo[r].upk # FreshPk
  <1> DEFINE upks == {undo[r].upk : r \in {q \in DOMAIN undo : undo[q] # NoEntry}}
             used == DOMAIN docs \cup DOMAIN jundo \cup upks
             n == Cardinality(used)
             S == (0 .. n) \ used
  <1>1. TypeOK /\ IsJournal(jundo) /\ DOMAIN undo = tail + 1 .. revision
    BY DEF IInv, TypeOK
  <1>2. ASSUME NEW r \in DOMAIN undo, undo[r] # NoEntry
        PROVE  undo[r].upk \in DOMAIN docs \cup DOMAIN jundo
    <2>1. View(jundo, undo[r].upk) # NoRow
      BY <1>1, <1>2 DEF IInv, Documented, Describes
    <2> QED BY <1>1, <2>1, ViewType
  <1>3. used = DOMAIN docs \cup DOMAIN jundo
    BY <1>2
  <1>4. IsFiniteSet(used)
    BY <1>1, <1>3, FS_Union DEF TypeOK, IsJournal
  <1>5. FreshPk = Min(S)
    BY DEF FreshPk
  <1>6. \A r \in tail + 1 .. revision : undo[r] # NoEntry => undo[r].upk \in used
    BY <1>1
  <1> HIDE DEF used
  <1>7. n \in Nat
    BY <1>4, FS_CardinalityType
  <1>8. S # {}
    <2> SUFFICES ASSUME S = {} PROVE FALSE
      OBVIOUS
    <2>1. 0 .. n \in SUBSET used
      OBVIOUS
    <2> HIDE DEF n
    <2>2. Cardinality(0 .. n) <= Cardinality(used)
      BY <1>4, <2>1, FS_Subset
    <2>3. Cardinality(0 .. n) = n + 1
      BY <1>7, FS_Interval
    <2> QED BY <1>7, <2>2, <2>3 DEF n
  <1>9. S \subseteq Nat
    BY <1>7
  <1>10. Min(S) \in S
    <2> HIDE DEF S
    <2>1. PICK x \in S : \A y \in S : x <= y
      BY <1>8, <1>9, NatMin
    <2> QED BY <2>1 DEF Min
  <1>11. FreshPk \in Nat /\ FreshPk \notin used
    BY <1>5, <1>9, <1>10
  <1> QED BY <1>1, <1>3, <1>6, <1>11, ViewType

\* Two entries have different documents.
LEMMA UpkUnique ==
    ASSUME IInv, NEW r \in tail + 1 .. revision, NEW q \in tail + 1 .. revision,
           undo[r] # NoEntry, undo[q] # NoEntry, undo[r].upk = undo[q].upk
    PROVE  r = q
  BY DEF IInv, Documented, Describes

-----------------------------------------------------------------------------
\* The initial state, and what is left to show of a step

\* The initial state satisfies the invariant.
LEMMA InitIInv == Init => IInv
  <1> SUFFICES ASSUME Init PROVE IInv
    OBVIOUS
  <1>1. /\ trial \in Trials /\ revision = 0 /\ tail = 0 /\ row \in Rows \cup {NoRow} /\ data = row
        /\ jdata = NoOp
    BY DEF Init, Rows, Documents
  <1>2. /\ undo = [r \in {} |-> NoEntry] /\ snaps = [r \in {} |-> row]
        /\ tail + 1 .. revision = {}
    BY <1>1 DEF Init
  <1>3. DOMAIN jundo = {} /\ DOMAIN docs = {}
    BY DEF Init, NoDocs
  <1>4. IsFiniteSet({})
    BY FS_EmptySet
  <1>5. undo \in [tail + 1 .. revision -> Entries \cup {NoEntry}]
    BY <1>2
  <1>6. snaps \in [tail + 1 .. revision -> Rows \cup {NoRow}]
    BY <1>2
  <1>7. IsOp(jdata, Vals, trial.payers) /\ Matches(jdata, data) /\ DataView = data
    BY <1>1 DEF IsOp, Matches, DataView, Apply, NoOp
  <1>8. IsJournal(jundo)
    BY <1>3, <1>4 DEF IsJournal
  <1>9. TypeOK
    BY <1>1, <1>3, <1>4, <1>5, <1>6, <1>7, <1>8 DEF TypeOK
  <1>10. InSync
    BY <1>1, <1>7 DEF InSync
  <1>11. Chain /\ Documented
    BY <1>2 DEF Chain, Documented
  <1>12. NoStrays
    BY <1>3, <1>8, <1>9, ViewType DEF NoStrays
  <1> QED BY <1>9, <1>10, <1>11, <1>12 DEF IInv

\* The stack and the row of the next state
NextStack ==
    /\ trial' = trial
    /\ tail' \in Nat /\ revision' \in Nat /\ tail' <= revision'
    /\ undo' \in [tail' + 1 .. revision' -> Entries \cup {NoEntry}]
    /\ snaps' \in [tail' + 1 .. revision' -> Rows \cup {NoRow}]
    /\ row' \in Rows \cup {NoRow}
    /\ \A r \in tail' + 1 .. revision' :
          Restores(undo'[r], snaps'[r], IF r = revision' THEN row' ELSE snaps'[r + 1])

\* The documents of the next state, when the writes j are applied to the present ones
NextDocs(j) ==
    /\ IsJournal(j)
    /\ \A r \in tail' + 1 .. revision' : undo'[r] # NoEntry =>
          Describes(View(j, undo'[r].upk), undo'[r], r)
    /\ "squash" \notin trial.ops => \A u \in Nat : View(j, u) # NoRow =>
          \E r \in tail' + 1 .. revision' : undo'[r] # NoEntry /\ undo'[r].upk = u

\* The trial stays, and what is defined from it.
LEMMA TrialStays ==
    ASSUME trial' = trial
    PROVE  /\ Rows' = Rows /\ Services' = Services /\ Entries' = Entries /\ UndoDocs' = UndoDocs
  BY DEF Rows, Services, Entries, UndoDocs

\* A step that writes to the journal
LEMMA KeepStep ==
    ASSUME IInv, NextStack, NextDocs(jundo'), docs' = docs, data' = data,
           IsOp(jdata', Vals, trial.payers), Matches(jdata', data),
           Apply(jdata', data).val = row'.val,
           "squash" \notin trial.ops => Apply(jdata', data) = row'
    PROVE  IInv'
  <1>1. trial' = trial /\ Rows' = Rows /\ Services' = Services /\ Entries' = Entries /\ UndoDocs' = UndoDocs
    BY TrialStays DEF NextStack
  <1>2. \A u : DocOf(u)' = DocOf(u)
    BY DEF DocOf
  <1>3. \A u : View(jundo, u)' = View(jundo', u)
    BY <1>2 DEF View, Pending
  <1>4. IsJournal(jundo)'
    BY <1>1, <1>2 DEF NextDocs, IsJournal
  <1>5. TypeOK'
    BY <1>1, <1>4 DEF TypeOK, IInv, NextStack
  <1>6. InSync'
    BY <1>1 DEF InSync, DataView
  <1>7. Chain'
    BY DEF Chain, After, NextStack
  <1>8. Documented'
    BY <1>1, <1>3 DEF Documented, NextDocs, Describes
  <1>9. NoStrays'
    BY <1>1, <1>3 DEF NoStrays, NextDocs
  <1> QED BY <1>5, <1>6, <1>7, <1>8, <1>9 DEF IInv

\* A step that applies the journal
LEMMA CleanStep ==
    ASSUME IInv, NextStack, NEW j, NextDocs(j), docs' = ApplyAll(j),
           jdata' = NoOp, DOMAIN jundo' = {},
           data' \in Rows \cup {NoRow}, data'.val = row'.val,
           "squash" \notin trial.ops => data' = row'
    PROVE  IInv'
  <1>1. trial' = trial /\ Rows' = Rows /\ Services' = Services /\ Entries' = Entries /\ UndoDocs' = UndoDocs
    BY TrialStays DEF NextStack
  <1>2. TypeOK /\ IsJournal(j)
    BY DEF IInv, NextDocs
  <1>3. /\ \A u : u \in DOMAIN docs' <=> View(j, u) # NoRow
        /\ \A u \in DOMAIN docs' : docs'[u] = View(j, u) /\ docs'[u] \in UndoDocs
        /\ DOMAIN docs' \in SUBSET Nat /\ IsFiniteSet(DOMAIN docs')
    BY <1>2, ApplyAllFacts
  <1>4. \A u : DocOf(u)' = View(j, u)
    BY <1>3 DEF DocOf
  <1>5. DOMAIN jundo' = {}
    OBVIOUS
  <1>6. \A u : View(jundo, u)' = View(j, u)
    <2>1. \A u : Pending(jundo, u)' = NoOp
      BY <1>5 DEF Pending
    <2>2. \A d : Apply(NoOp, d) = d
      BY DEF Apply, NoOp
    <2> QED BY <1>4, <2>1, <2>2 DEF View
  <1>7. IsJournal(jundo)'
    BY <1>5, FS_EmptySet DEF IsJournal
  <1>8. IsOp(jdata, Vals, trial.payers)' /\ Matches(jdata, data)' /\ DataView' = data'
    BY DEF IsOp, Matches, DataView, Apply, NoOp
  <1>9. TypeOK'
    BY <1>1, <1>3, <1>7, <1>8 DEF TypeOK, IInv, NextStack
  <1>10. InSync'
    BY <1>1, <1>8 DEF InSync
  <1>11. Chain'
    BY DEF Chain, After, NextStack
  <1>12. Documented'
    BY <1>1, <1>6 DEF Documented, NextDocs, Describes
  <1>13. NoStrays'
    BY <1>1, <1>6 DEF NoStrays, NextDocs
  <1> QED BY <1>9, <1>10, <1>11, <1>12, <1>13 DEF IInv

\* The database with the pending writes holds a row exactly when the cache does.
LEMMA DataFacts ==
    ASSUME IInv
    PROVE  /\ DataView \in Rows \cup {NoRow}
           /\ DataView = NoRow <=> row = NoRow
           /\ \A x \in Rows \cup {NoRow} : x = NoRow <=> x.val = NoVal
           /\ \A x \in Rows : x.val \in Vals /\ x.svc \in trial.payers
  <1>1. DataView \in Rows \cup {NoRow}
    <2>1. data \in Documents(Vals, trial.payers) \cup {NoRow} /\ IsOp(jdata, Vals, trial.payers)
      BY DEF IInv, TypeOK, Rows
    <2>2. Apply(jdata, data) \in Documents(Vals, trial.payers) \cup {NoRow}
      BY <2>1, ApplyType
    <2> QED BY <2>2 DEF DataView, Rows
  <1>2. \A x \in Rows : x.val \in Vals /\ x.svc \in trial.payers
    BY DEF Rows, Documents
  <1>3. \A x \in Rows \cup {NoRow} : x = NoRow <=> x.val = NoVal
    BY <1>2, NoValAssumption DEF NoRow
  <1>4. row \in Rows \cup {NoRow} /\ DataView.val = row.val
    BY DEF IInv, TypeOK, InSync
  <1> QED BY <1>1, <1>2, <1>3, <1>4

\* A write of the row that finds what it needs
LEMMA DataWrite ==
    ASSUME IInv, NEW op, IsOp(op, Vals, trial.payers), op # NoOp, Matches(op, DataView)
    PROVE  /\ IsOp(WriteData(op), Vals, trial.payers) /\ Matches(WriteData(op), data)
           /\ Apply(WriteData(op), data) = Apply(op, DataView)
  <1>1. /\ data \in Documents(Vals, trial.payers) \cup {NoRow}
        /\ IsOp(jdata, Vals, trial.payers) /\ Matches(jdata, data)
    BY DEF IInv, TypeOK, Rows
  <1>2. NoRow \notin Documents(Vals, trial.payers)
    BY IsDocument
  <1>3. Matches(op, Apply(jdata, data))
    BY DEF DataView
  <1>4. Merged(op, jdata, data, Vals, trial.payers)
    BY <1>1, <1>2, <1>3, MergeFacts
  <1> QED BY <1>4 DEF Merged, WriteData, DataView

-----------------------------------------------------------------------------
\* Sessions start, rows are written

\* The parts of the invariant about the stack
LEMMA StackFacts ==
    ASSUME IInv
    PROVE  /\ TypeOK /\ IsJournal(jundo) /\ trial \in Trials
           /\ tail \in Nat /\ revision \in Nat /\ tail <= revision
           /\ undo \in [tail + 1 .. revision -> Entries \cup {NoEntry}]
           /\ snaps \in [tail + 1 .. revision -> Rows \cup {NoRow}]
           /\ row \in Rows \cup {NoRow}
           /\ IsOp(jdata, Vals, trial.payers) /\ Matches(jdata, data)
           /\ Apply(jdata, data).val = row.val
           /\ "squash" \notin trial.ops => Apply(jdata, data) = row
           /\ \A r \in tail + 1 .. revision :
                 Restores(undo[r], snaps[r], IF r = revision THEN row ELSE snaps[r + 1])
           /\ \A r \in tail + 1 .. revision : undo[r] # NoEntry =>
                 Describes(View(jundo, undo[r].upk), undo[r], r)
           /\ "squash" \notin trial.ops => \A u \in Nat : View(jundo, u) # NoRow =>
                 \E r \in tail + 1 .. revision : undo[r] # NoEntry /\ undo[r].upk = u
  <1>1. TypeOK /\ InSync /\ Chain /\ Documented /\ NoStrays
    BY DEF IInv
  <1>2. \A r \in tail + 1 .. revision :
           Restores(undo[r], snaps[r], IF r = revision THEN row ELSE snaps[r + 1])
    BY <1>1 DEF Chain, After
  <1> QED BY <1>1, <1>2 DEF TypeOK, InSync, DataView, Documented, NoStrays

\* A session starts with no entry.
LEMMA StartStep ==
    ASSUME IInv, StartSession, trial' = trial
    PROVE  IInv'
  <1> DEFINE n == revision + 1
  <1>1. /\ tail \in Nat /\ revision \in Nat /\ tail <= revision
        /\ undo \in [tail + 1 .. revision -> Entries \cup {NoEntry}]
        /\ snaps \in [tail + 1 .. revision -> Rows \cup {NoRow}]
        /\ row \in Rows \cup {NoRow}
        /\ \A r \in tail + 1 .. revision :
              Restores(undo[r], snaps[r], IF r = revision THEN row ELSE snaps[r + 1])
    BY StackFacts
  <1>2. /\ revision' = n /\ tail' = tail /\ row' = row /\ jdata' = jdata /\ jundo' = jundo
        /\ data' = data /\ docs' = docs
        /\ undo' = [r \in tail + 1 .. n |-> IF r = n THEN NoEntry ELSE undo[r]]
        /\ snaps' = [r \in tail + 1 .. n |-> IF r = n THEN row ELSE snaps[r]]
    BY DEF StartSession
  <1>3. /\ n \in Nat /\ tail <= n /\ n \in tail + 1 .. n
        /\ \A r \in tail + 1 .. n : r = n \/ (r \in tail + 1 .. revision /\ r # n)
        /\ \A r \in tail + 1 .. revision : r \in tail + 1 .. n /\ r # n
        /\ \A r \in tail + 1 .. revision : r = revision \/ r + 1 \in tail + 1 .. revision
        /\ \A r \in tail + 1 .. revision : r = revision <=> r + 1 = n
    BY <1>1
  <1> HIDE DEF n
  <1>4. undo' \in [tail + 1 .. n -> Entries \cup {NoEntry}] /\ snaps' \in [tail + 1 .. n -> Rows \cup {NoRow}]
    BY <1>1, <1>2, <1>3
  <1>5. /\ undo'[n] = NoEntry /\ snaps'[n] = row
        /\ \A r \in tail + 1 .. revision : undo'[r] = undo[r] /\ snaps'[r] = snaps[r]
    BY <1>2, <1>3
  <1>6. ASSUME NEW r \in tail + 1 .. n
        PROVE  Restores(undo'[r], snaps'[r], IF r = n THEN row ELSE snaps'[r + 1])
    <2>1. CASE r = n
      <3>1. Restores(NoEntry, row, row)
        BY DEF Restores, NoEntry
      <3> QED BY <1>5, <2>1, <3>1
    <2>2. CASE r \in tail + 1 .. revision /\ r # n
      <3>1. (IF r = revision THEN row ELSE snaps[r + 1]) = snaps'[r + 1]
        BY <1>3, <1>5, <2>2
      <3> QED BY <1>1, <1>5, <2>2, <3>1
    <2> QED BY <1>3, <2>1, <2>2
  <1>7. NextStack
    BY <1>1, <1>2, <1>3, <1>4, <1>6 DEF NextStack
  <1>8. NextDocs(jundo')
    <2>1. \A r \in tail + 1 .. n : undo'[r] # NoEntry => r \in tail + 1 .. revision
      BY <1>3, <1>5
    <2> QED BY <1>2, <1>3, <1>5, <2>1, StackFacts DEF NextDocs
  <1> QED BY <1>2, <1>7, <1>8, StackFacts, KeepStep

\* What a write of the row does to the present session, if there is one: x is the undo_pk it
\* is about.
Recorded(e, ju, x, new) ==
    /\ IsJournal(ju)
    /\ Restores(e, snaps[revision], new)
    /\ e # NoEntry => e.upk = x /\ Describes(View(ju, x), e, revision)
    /\ e = NoEntry => View(ju, x) = NoRow
    /\ undo[revision] # NoEntry => undo[revision].upk = x
    /\ \A r \in tail + 1 .. revision - 1 : undo[r] # NoEntry => undo[r].upk # x
    /\ \A u \in Nat : u # x => View(ju, u) = View(jundo, u)

\* A write of the row
LEMMA WriteStep ==
    ASSUME IInv, trial' = trial, NEW new \in Rows \cup {NoRow},
           NEW op, IsOp(op, Vals, trial.payers), op # NoOp, Matches(op, DataView), Apply(op, DataView) = new,
           NEW e \in Entries \cup {NoEntry}, NEW ju, Write(new, op, e, ju),
           NEW x \in Nat, enabled => Recorded(e, ju, x, new)
    PROVE  IInv'
  <1> DEFINE n == revision
  <1>1. /\ tail \in Nat /\ n \in Nat /\ tail <= n
        /\ undo \in [tail + 1 .. n -> Entries \cup {NoEntry}]
        /\ snaps \in [tail + 1 .. n -> Rows \cup {NoRow}]
        /\ \A r \in tail + 1 .. n :
              Restores(undo[r], snaps[r], IF r = n THEN row ELSE snaps[r + 1])
        /\ \A r \in tail + 1 .. n : undo[r] # NoEntry => Describes(View(jundo, undo[r].upk), undo[r], r)
        /\ "squash" \notin trial.ops => \A u \in Nat : View(jundo, u) # NoRow =>
              \E r \in tail + 1 .. n : undo[r] # NoEntry /\ undo[r].upk = u
    BY StackFacts
  <1>2. /\ row' = new /\ jdata' = WriteData(op) /\ revision' = n /\ tail' = tail /\ data' = data /\ docs' = docs
        /\ snaps' = snaps
        /\ undo' = IF enabled THEN [undo EXCEPT ![n] = e] ELSE undo
        /\ jundo' = IF enabled THEN ju ELSE jundo
    BY DEF Write, WithEntry
  <1>3. /\ IsOp(jdata', Vals, trial.payers) /\ Matches(jdata', data)
        /\ Apply(jdata', data) = new
    BY <1>2, DataWrite
  <1>4. CASE ~ enabled
    <2>1. tail + 1 .. n = {}
      BY <1>1, <1>4 DEF enabled
    <2>2. NextStack
      BY <1>1, <1>2, <1>4, <2>1 DEF NextStack
    <2>3. NextDocs(jundo')
      BY <1>1, <1>2, <1>4, <2>1, StackFacts DEF NextDocs
    <2> QED BY <1>2, <1>3, <2>2, <2>3, KeepStep
  <1>5. CASE enabled
    <2>1. /\ n \in tail + 1 .. n
          /\ \A r \in tail + 1 .. n : r = n \/ (r \in tail + 1 .. n - 1 /\ r # n)
      BY <1>1, <1>5 DEF enabled
    <2>2. undo' = [undo EXCEPT ![n] = e] /\ jundo' = ju
      BY <1>2, <1>5
    <2>3. Recorded(e, ju, x, new)
      BY <1>5
    <2> HIDE DEF n
    <2>4. /\ undo' \in [tail + 1 .. n -> Entries \cup {NoEntry}] /\ undo'[n] = e
          /\ \A r \in tail + 1 .. n : r # n => undo'[r] = undo[r]
      BY <1>1, <2>1, <2>2
    <2>5. ASSUME NEW r \in tail + 1 .. n
          PROVE  Restores(undo'[r], snaps'[r], IF r = n THEN row' ELSE snaps'[r + 1])
      <3>1. CASE r = n
        BY <1>2, <2>3, <2>4, <3>1 DEF Recorded, n
      <3>2. CASE r # n
        BY <1>1, <1>2, <2>4, <3>2
      <3> QED BY <3>1, <3>2
    <2>6. NextStack
      BY <1>1, <1>2, <2>4, <2>5 DEF NextStack
    <2>7. ASSUME NEW r \in tail + 1 .. n, undo'[r] # NoEntry
          PROVE  Describes(View(ju, undo'[r].upk), undo'[r], r)
      <3>1. CASE r = n
        BY <2>3, <2>4, <2>7, <3>1 DEF Recorded, n
      <3>2. CASE r \in tail + 1 .. n - 1 /\ r # n
        <4>1. undo'[r] = undo[r] /\ undo[r] # NoEntry /\ undo[r].upk # x
          BY <2>3, <2>4, <2>7, <3>2 DEF Recorded, n
        <4>2. undo[r].upk \in Nat
          BY <1>1, <4>1, EntryFacts
        <4>3. View(ju, undo[r].upk) = View(jundo, undo[r].upk)
          BY <2>3, <4>1, <4>2 DEF Recorded
        <4> QED BY <1>1, <4>1, <4>3
      <3> QED BY <2>1, <3>1, <3>2
    <2>8. ASSUME "squash" \notin trial.ops, NEW u \in Nat, View(ju, u) # NoRow
          PROVE  \E r \in tail + 1 .. n : undo'[r] # NoEntry /\ undo'[r].upk = u
      <3>1. CASE u = x
        BY <2>1, <2>3, <2>4, <2>8, <3>1 DEF Recorded
      <3>2. CASE u # x
        <4>1. View(jundo, u) # NoRow
          BY <2>3, <2>8, <3>2 DEF Recorded
        <4>2. PICK r \in tail + 1 .. n : undo[r] # NoEntry /\ undo[r].upk = u
          BY <1>1, <2>8, <4>1
        <4>3. r # n
          BY <2>3, <3>2, <4>2 DEF Recorded, n
        <4> QED BY <2>4, <4>2, <4>3
      <3> QED BY <3>1, <3>2
    <2>9. NextDocs(jundo')
      BY <1>2, <2>2, <2>3, <2>7, <2>8 DEF NextDocs, Recorded
    <2> QED BY <1>2, <1>3, <2>6, <2>9, KeepStep DEF n
  <1> QED BY <1>4, <1>5

\* The service fields of entries
LEMMA ServiceFacts ==
    ASSUME NEW svc \in Services, NEW p \in trial.payers, NEW rec \in Recs, NEW n \in Nat
    PROVE  /\ SetPayer(svc, p) \in Services /\ SetRec(svc, rec) \in Services /\ SetRev(svc, n) \in Services
           /\ SetPayer(svc, p).rev = svc.rev /\ SetPayer(svc, p).rec = svc.rec
           /\ SetPayer(svc, p).upay = svc.upay /\ SetPayer(svc, p).pay = p
           /\ SetRec(svc, rec).rev = svc.rev /\ SetRec(svc, rec).rec = rec /\ SetRec(svc, rec).upay = svc.upay
           /\ SetRev(svc, n).rev = n /\ SetRev(svc, n).rec = svc.rec /\ SetRev(svc, n).upay = svc.upay
           /\ svc.rev \in Nat /\ svc.rec \in Recs /\ svc.upay \in trial.payers /\ svc.pay \in trial.payers
  BY DEF Services, SetPayer, SetRec, SetRev

\* The present session
LEMMA HeadFacts ==
    ASSUME IInv
    PROVE  /\ HeadEntry \in Entries \cup {NoEntry}
           /\ ~ enabled => HeadEntry = NoEntry
           /\ enabled => /\ revision \in tail + 1 .. revision /\ HeadEntry = undo[revision]
                         /\ Restores(HeadEntry, snaps[revision], row)
                         /\ snaps[revision] \in Rows \cup {NoRow}
           /\ HeadEntry # NoEntry =>
                 /\ enabled /\ HeadEntry.upk \in Nat
                 /\ Describes(View(jundo, HeadEntry.upk), HeadEntry, revision)
                 /\ \A r \in tail + 1 .. revision - 1 : undo[r] # NoEntry => undo[r].upk # HeadEntry.upk
           /\ \A r \in tail + 1 .. revision - 1 : r \in tail + 1 .. revision /\ r # revision
  <1>1. /\ tail \in Nat /\ revision \in Nat /\ tail <= revision
        /\ undo \in [tail + 1 .. revision -> Entries \cup {NoEntry}]
        /\ snaps \in [tail + 1 .. revision -> Rows \cup {NoRow}]
        /\ \A r \in tail + 1 .. revision :
              Restores(undo[r], snaps[r], IF r = revision THEN row ELSE snaps[r + 1])
        /\ \A r \in tail + 1 .. revision : undo[r] # NoEntry => Describes(View(jundo, undo[r].upk), undo[r], r)
    BY StackFacts
  <1>2. \A r \in tail + 1 .. revision - 1 : r \in tail + 1 .. revision /\ r # revision
    BY <1>1
  <1>3. enabled => revision \in tail + 1 .. revision
    BY <1>1 DEF enabled
  <1>4. HeadEntry \in Entries \cup {NoEntry}
    BY <1>1, <1>3 DEF HeadEntry
  <1>5. ASSUME HeadEntry # NoEntry
        PROVE  /\ enabled /\ HeadEntry.upk \in Nat
               /\ Describes(View(jundo, HeadEntry.upk), HeadEntry, revision)
               /\ \A r \in tail + 1 .. revision - 1 : undo[r] # NoEntry => undo[r].upk # HeadEntry.upk
    <2>1. enabled /\ HeadEntry = undo[revision]
      BY <1>5 DEF HeadEntry
    <2>2. HeadEntry.upk \in Nat
      BY <1>4, <1>5, EntryFacts
    <2>3. \A r \in tail + 1 .. revision - 1 : undo[r] # NoEntry => undo[r].upk # HeadEntry.upk
      BY <1>2, <1>3, <1>5, <2>1, UpkUnique
    <2> QED BY <1>1, <1>3, <1>5, <2>1, <2>2, <2>3
  <1>6. enabled => HeadEntry = undo[revision] /\ Restores(HeadEntry, snaps[revision], row)
    BY <1>1, <1>3 DEF HeadEntry
  <1> QED BY <1>1, <1>2, <1>3, <1>4, <1>5, <1>6 DEF HeadEntry

\* A new entry, with its document
LEMMA FreshEntry ==
    ASSUME IInv, HeadEntry = NoEntry, NEW rec \in Recs, NEW val \in Values,
           NEW upay \in trial.payers, NEW pay \in trial.payers, NEW new,
           enabled => Restores(InitEntry(rec, val, upay, pay), snaps[revision], new),
           NEW doc, doc = Full(InitEntry(rec, val, upay, pay))
    PROVE  LET e == InitEntry(rec, val, upay, pay)
               ju == WriteUndo(jundo, e.upk, Op("Insert", doc))
           IN  /\ e \in Entries /\ e.upk \in Nat
               /\ enabled => Recorded(e, ju, e.upk, new)
  <1> DEFINE e == InitEntry(rec, val, upay, pay)
             src == Op("Insert", doc)
             ju == WriteUndo(jundo, e.upk, src)
             svc == [rev |-> revision, rec |-> rec, upay |-> upay, pay |-> pay]
  <1>1. TypeOK /\ revision \in Nat /\ IsJournal(jundo)
    BY StackFacts
  <1>2. svc \in Services
    BY <1>1 DEF Services
  <1>3. e = [map |-> rec, upk |-> FreshPk, val |-> val, svc |-> svc]
    BY DEF InitEntry
  <1>4. /\ FreshPk \in Nat /\ View(jundo, FreshPk) = NoRow
        /\ \A r \in tail + 1 .. revision : undo[r] # NoEntry => undo[r].upk # FreshPk
    BY FreshFacts
  <1>5. svc.rev = revision /\ svc.rec = rec
    OBVIOUS
  <1> HIDE DEF svc
  <1>6. e \in Entries /\ e.upk = FreshPk /\ e.map = rec /\ e.val = val /\ e.svc = svc /\ e # NoEntry
    BY <1>2, <1>3, <1>4 DEF Entries, NoEntry
  <1>7. doc = [val |-> val, svc |-> svc]
    BY <1>6 DEF Full
  <1>8. doc \in UndoDocs /\ doc.val = val /\ doc.svc = svc
    BY <1>2, <1>7 DEF UndoDocs, Documents
  <1>9. doc # NoRow
    BY <1>1, <1>8, IsDocument
  <1>10. src.op = "Insert" /\ src.obj = doc
    BY DEF Op
  <1>11. IsOp(src, Values, Services) /\ src # NoOp /\ Matches(src, View(jundo, FreshPk)) /\ Apply(src, NoRow) = doc
    BY <1>2, <1>4, <1>7, <1>8, <1>10 DEF IsOp, Matches, Apply, NoOp
  <1> HIDE DEF src
  <1>12. /\ IsJournal(ju) /\ View(ju, FreshPk) = doc
         /\ \A u : u # FreshPk => View(ju, u) = View(jundo, u)
    BY <1>1, <1>4, <1>6, <1>11, WriteUndoFacts
  <1>13. Describes(doc, e, revision)
    BY <1>5, <1>6, <1>8, <1>9 DEF Describes
  <1>14. ASSUME enabled PROVE Recorded(e, ju, e.upk, new)
    <2>1. undo[revision] = NoEntry
      BY <1>14 DEF HeadEntry
    <2>2. \A r \in tail + 1 .. revision - 1 : undo[r] # NoEntry => undo[r].upk # FreshPk
      BY <1>4, HeadFacts
    <2> HIDE DEF e, ju
    <2> QED BY <1>6, <1>12, <1>13, <1>14, <2>1, <2>2 DEF Recorded, e
  <1> QED BY <1>4, <1>6, <1>14 DEF src

\* The entry of the present session changes, and its document with it or not.
LEMMA HeadRecorded ==
    ASSUME IInv, HeadEntry # NoEntry, NEW e \in Entries, e.upk = HeadEntry.upk, NEW new,
           Restores(e, snaps[revision], new), NEW doc \in UndoDocs, Describes(doc, e, revision)
    PROVE  Recorded(e, WriteUndo(jundo, HeadEntry.upk, Op("Update", doc)), HeadEntry.upk, new)
  <1> DEFINE x == HeadEntry.upk
             src == Op("Update", doc)
             ju == WriteUndo(jundo, x, src)
  <1>1. TypeOK /\ IsJournal(jundo)
    BY StackFacts
  <1>2. /\ enabled /\ x \in Nat /\ HeadEntry = undo[revision]
        /\ Describes(View(jundo, x), HeadEntry, revision)
        /\ \A r \in tail + 1 .. revision - 1 : undo[r] # NoEntry => undo[r].upk # x
    BY HeadFacts
  <1>3. View(jundo, x) # NoRow
    BY <1>2 DEF Describes
  <1>4. src.op = "Update" /\ src.obj = doc /\ doc = [val |-> doc.val, svc |-> doc.svc]
        /\ doc.svc \in Services /\ doc.val \in Values
    BY DEF Op, UndoDocs, Documents
  <1>5. IsOp(src, Values, Services) /\ src # NoOp /\ Matches(src, View(jundo, x)) /\ Apply(src, View(jundo, x)) = doc
    BY <1>3, <1>4 DEF IsOp, Matches, Apply, NoOp
  <1> HIDE DEF src, x
  <1>6. IsJournal(ju) /\ View(ju, x) = doc /\ \A u : u # x => View(ju, u) = View(jundo, u)
    BY <1>1, <1>2, <1>5, WriteUndoFacts
  <1>7. e # NoEntry
    BY DEF Entries, NoEntry, Recs
  <1> HIDE DEF ju
  <1>8. Recorded(e, ju, x, new)
    BY <1>2, <1>6, <1>7 DEF Recorded, x
  <1> QED BY <1>8 DEF ju, x, src

\* A row is written to the database.
LEMMA RowWrite ==
    ASSUME IInv, NEW new \in Rows
    PROVE  /\ \A o \in {"Insert", "Update"} :
                 IsOp(Op(o, new), Vals, trial.payers) /\ Op(o, new) # NoOp
           /\ row = NoRow => /\ Matches(Op("Insert", new), DataView)
                             /\ Apply(Op("Insert", new), DataView) = new
           /\ row # NoRow => /\ Matches(Op("Update", new), DataView)
                             /\ Apply(Op("Update", new), DataView) = new
  <1>1. DataView = NoRow <=> row = NoRow
    BY DataFacts
  <1>2. new = [val |-> new.val, svc |-> new.svc] /\ new.val \in Vals /\ new.svc \in trial.payers
    BY DEF Rows, Documents
  <1>3. \A o \in {"Insert", "Update"} : Op(o, new).op = o /\ Op(o, new).obj = new
    BY DEF Op
  <1>4. \A o \in {"Insert", "Update"} : IsOp(Op(o, new), Vals, trial.payers) /\ Op(o, new) # NoOp
    BY <1>2, <1>3 DEF IsOp, NoOp
  <1> QED BY <1>1, <1>3, <1>4 DEF Matches, Apply

\* A row is removed from the database, or an undo document.
LEMMA RemoveWrite ==
    ASSUME NEW V, NEW S, NEW doc, doc # NoRow
    PROVE  /\ IsOp(Op("Remove", NoRow), V, S) /\ Op("Remove", NoRow) # NoOp
           /\ Matches(Op("Remove", NoRow), doc) /\ Apply(Op("Remove", NoRow), doc) = NoRow
  <1>1. Op("Remove", NoRow).op = "Remove"
    BY DEF Op
  <1> QED BY <1>1 DEF IsOp, NoOp, Matches, Apply

\* A row is inserted, new or removed before in the session.
LEMMA InsertStep ==
    ASSUME IInv, ReloadsExactly, trial' = trial, NEW v \in Vals, NEW p \in trial.payers, Insert(v, p)
    PROVE  IInv'
  <1> DEFINE new == [val |-> v, svc |-> p]
             e == HeadEntry
             svc == SetRec(SetPayer(e.svc, p), "Old")
             again == [map |-> "Old", upk |-> e.upk, val |-> e.val, svc |-> svc]
             fresh == InitEntry("New", NoVal, p, p)
             op == Op("Insert", new)
  <1>1. new \in Rows /\ new # NoRow /\ row = NoRow
    BY NoValAssumption DEF Rows, Documents, NoRow, Insert
  <1>2. /\ IsOp(op, Vals, trial.payers) /\ op # NoOp /\ Matches(op, DataView) /\ Apply(op, DataView) = new
    BY <1>1, RowWrite
  <1>3. /\ e \in Entries \cup {NoEntry}
        /\ enabled => Restores(e, snaps[revision], row) /\ snaps[revision] \in Rows \cup {NoRow}
        /\ e # NoEntry => enabled /\ e.upk \in Nat /\ Describes(View(jundo, e.upk), e, revision)
    BY HeadFacts
  <1>4. CASE e.map = "Removed"
    <2> DEFINE doc == CloneService(svc)
               ju == WriteUndo(jundo, e.upk, Op("Update", doc))
    <2>1. Write(new, op, again, ju) /\ "reinsert" \in trial.ops
      BY <1>4 DEF Insert
    <2>2. e # NoEntry /\ e.svc \in Services /\ e.val \in Values /\ e.upk \in Nat
      BY <1>3, <1>4, EntryFacts DEF NoEntry
    <2>3. "Old" \in Recs /\ SetPayer(e.svc, p) \in Services
      BY <2>2, StackFacts, ServiceFacts DEF Recs
    <2>4. /\ svc \in Services /\ svc.rec = "Old" /\ svc.rev = e.svc.rev /\ svc.upay = e.svc.upay
      <3>1. SetPayer(e.svc, p).rev = e.svc.rev /\ SetPayer(e.svc, p).upay = e.svc.upay
        BY DEF SetPayer
      <3>2. svc.rec = "Old" /\ svc.rev = SetPayer(e.svc, p).rev /\ svc.upay = SetPayer(e.svc, p).upay
        BY DEF SetRec
      <3>3. svc \in Services
        BY <2>3 DEF SetRec, Services
      <3> QED BY <3>1, <3>2, <3>3
    <2>5. Restores(e, snaps[revision], row) /\ Describes(View(jundo, e.upk), e, revision) /\ enabled
      BY <1>3, <2>2
    <2>6. "restart" \notin trial.ops
      BY <2>1, StackFacts DEF ReloadsExactly
    <2>7. doc = [val |-> NoVal, svc |-> svc]
      BY DEF CloneService
    <2>8. again = [map |-> "Old", upk |-> e.upk, val |-> e.val, svc |-> svc]
      OBVIOUS
    <2> HIDE DEF svc, doc, e, again
    <2>9. again \in Entries /\ again.map = "Old" /\ again.upk = e.upk /\ again.val = e.val /\ again.svc = svc
      BY <2>2, <2>3, <2>4, <2>8 DEF Entries
    <2>10. doc \in UndoDocs /\ doc.val = NoVal /\ doc.svc = svc
      BY <2>4, <2>7 DEF UndoDocs, Documents, Values
    <2>11. doc # NoRow
      BY <2>10, StackFacts, IsDocument
    <2>12. Restores(again, snaps[revision], new)
      BY <1>1, <1>4, <2>5, <2>9 DEF Restores
    <2>13. Describes(doc, again, revision)
      BY <2>4, <2>5, <2>6, <2>9, <2>10, <2>11 DEF Describes
    <2> HIDE DEF new
    <2>14. Recorded(again, ju, e.upk, new)
      BY <2>2, <2>9, <2>10, <2>12, <2>13, HeadRecorded DEF e
    <2> HIDE DEF ju, op
    <2> QED BY <1>1, <1>2, <2>1, <2>2, <2>9, <2>14, WriteStep
  <1>5. CASE e.map # "Removed"
    <2> DEFINE doc == CloneService(fresh.svc)
               ju == WriteUndo(jundo, fresh.upk, Op("Insert", doc))
    <2>1. Write(new, op, fresh, ju)
      BY <1>5 DEF Insert
    <2>2. e = NoEntry
      <3>1. CASE enabled
        <4>1. e.map # "New" /\ e.map # "Old"
          BY <1>1, <1>3, <3>1 DEF Restores
        <4> QED BY <1>3, <1>5, <4>1, EntryFacts DEF Recs
      <3> QED BY <1>3, <3>1
    <2>3. fresh.map = "New" /\ fresh.val = NoVal
      BY DEF InitEntry
    <2>4. doc = Full(fresh)
      BY <2>3 DEF CloneService, Full
    <2>5. enabled => snaps[revision] = NoRow
      <3>1. enabled => snaps[revision].val = row.val
        BY <1>3, <2>2 DEF Restores, NoEntry
      <3> QED BY <1>1, <1>3, <3>1, DataFacts DEF NoRow
    <2> HIDE DEF new, e
    <2>6. enabled => Restores(fresh, snaps[revision], new)
      BY <1>1, <2>3, <2>5 DEF Restores
    <2>7. "New" \in Recs /\ NoVal \in Values
      BY DEF Recs, Values
    <2> HIDE DEF doc
    <2>8. fresh \in Entries /\ fresh.upk \in Nat /\ (enabled => Recorded(fresh, ju, fresh.upk, new))
      BY <2>2, <2>4, <2>6, <2>7, FreshEntry DEF e
    <2> HIDE DEF ju, fresh, op
    <2> QED BY <1>1, <1>2, <2>1, <2>8, WriteStep
  <1> QED BY <1>4, <1>5

\* The head entry of a row that exists is not that of a removed one; without one the row is
\* as the session found it.
LEMMA HeadOfRow ==
    ASSUME IInv, row # NoRow
    PROVE  /\ row \in Rows /\ row.val \in Vals /\ row.svc \in trial.payers
           /\ HeadEntry.map \in {"none", "New", "Old"}
           /\ HeadEntry.map = "none" => HeadEntry = NoEntry
           /\ HeadEntry = NoEntry /\ enabled => snaps[revision] # NoRow /\ snaps[revision].val = row.val
  <1>1. /\ HeadEntry \in Entries \cup {NoEntry}
        /\ ~ enabled => HeadEntry = NoEntry
        /\ enabled => Restores(HeadEntry, snaps[revision], row) /\ snaps[revision] \in Rows \cup {NoRow}
    BY HeadFacts
  <1>2. row \in Rows /\ row.val \in Vals /\ row.svc \in trial.payers
    BY StackFacts, DataFacts
  <1>3. HeadEntry.map \in Recs \cup {"none"} /\ (HeadEntry.map = "none" => HeadEntry = NoEntry)
    BY <1>1, EntryFacts
  <1>4. HeadEntry.map # "Removed"
    <2>1. CASE enabled
      BY <1>1, <2>1 DEF Restores
    <2>2. CASE ~ enabled
      BY <1>1, <2>2 DEF NoEntry
    <2> QED BY <2>1, <2>2
  <1>5. ASSUME HeadEntry = NoEntry, enabled PROVE snaps[revision] # NoRow /\ snaps[revision].val = row.val
    <2>1. snaps[revision].val = row.val
      BY <1>1, <1>5 DEF Restores, NoEntry
    <2> QED BY <1>2, <2>1, NoValAssumption DEF NoRow
  <1> QED BY <1>2, <1>3, <1>4, <1>5 DEF Recs

\* A row is updated.
LEMMA UpdateStep ==
    ASSUME IInv, trial' = trial, NEW v \in Vals, NEW p \in trial.payers, Update(v, p)
    PROVE  IInv'
  <1> DEFINE new == [val |-> v, svc |-> p]
             e == HeadEntry
             svc == SetPayer(e.svc, p)
             kept == [map |-> e.map, upk |-> e.upk, val |-> e.val, svc |-> svc]
             fresh == InitEntry("Old", row.val, row.svc, p)
             op == Op("Update", new)
  <1>1. new \in Rows /\ new # NoRow /\ row # NoRow
    BY NoValAssumption DEF Rows, Documents, NoRow, Update
  <1>2. /\ IsOp(op, Vals, trial.payers) /\ op # NoOp /\ Matches(op, DataView) /\ Apply(op, DataView) = new
    BY <1>1, RowWrite
  <1>3. /\ e \in Entries \cup {NoEntry}
        /\ enabled => Restores(e, snaps[revision], row) /\ snaps[revision] \in Rows \cup {NoRow}
        /\ e # NoEntry => /\ enabled /\ e.upk \in Nat /\ Describes(View(jundo, e.upk), e, revision)
                          /\ e = undo[revision]
                          /\ \A r \in tail + 1 .. revision - 1 : undo[r] # NoEntry => undo[r].upk # e.upk
    BY HeadFacts
  <1>4. /\ row.val \in Vals /\ row.svc \in trial.payers /\ e.map \in {"none", "New", "Old"}
        /\ e.map = "none" => e = NoEntry
        /\ e = NoEntry /\ enabled => snaps[revision] # NoRow /\ snaps[revision].val = row.val
    BY <1>1, HeadOfRow
  <1>5. ASSUME e.map \in {"New", "Old"}
        PROVE  /\ e # NoEntry /\ e.upk \in Nat /\ svc \in Services
               /\ kept \in Entries /\ kept.map = e.map /\ kept.upk = e.upk /\ kept.val = e.val /\ kept.svc = svc
               /\ svc.rev = e.svc.rev /\ svc.rec = e.svc.rec /\ svc.upay = e.svc.upay
               /\ Restores(e, snaps[revision], row) /\ Describes(View(jundo, e.upk), e, revision)
               /\ Restores(kept, snaps[revision], new)
    <2>1. e # NoEntry /\ e.svc \in Services /\ e.val \in Values /\ e.upk \in Nat /\ e.map \in Recs
      BY <1>3, <1>5, EntryFacts DEF NoEntry
    <2>2. svc \in Services /\ svc.rev = e.svc.rev /\ svc.rec = e.svc.rec /\ svc.upay = e.svc.upay
      BY <2>1 DEF SetPayer, Services
    <2>3. kept = [map |-> e.map, upk |-> e.upk, val |-> e.val, svc |-> svc]
      OBVIOUS
    <2> HIDE DEF svc, kept, e
    <2>4. kept \in Entries /\ kept.map = e.map /\ kept.upk = e.upk /\ kept.val = e.val /\ kept.svc = svc
      BY <2>1, <2>2, <2>3 DEF Entries
    <2>5. Restores(e, snaps[revision], row) /\ Describes(View(jundo, e.upk), e, revision)
      BY <1>3, <2>1
    <2>6. Restores(kept, snaps[revision], new)
      BY <1>1, <1>5, <2>4, <2>5 DEF Restores
    <2> QED BY <2>1, <2>2, <2>4, <2>5, <2>6
  <1>6. CASE e.map = "New"
    <2> DEFINE doc == CloneService(svc)
               ju == WriteUndo(jundo, e.upk, Op("Update", doc))
    <2>1. kept.svc = svc
      OBVIOUS
    <2>2. Write(new, op, kept, ju)
      BY <1>6, <2>1 DEF Update
    <2>3. doc = [val |-> NoVal, svc |-> svc]
      BY DEF CloneService
    <2> HIDE DEF svc, doc, e, kept
    <2>4. doc \in UndoDocs /\ doc.val = NoVal /\ doc.svc = svc
      BY <1>5, <1>6, <2>3 DEF UndoDocs, Documents, Values
    <2>5. doc # NoRow
      BY <2>4, StackFacts, IsDocument
    <2>6. e.val = NoVal
      BY <1>5, <1>6 DEF Restores
    <2>7. Describes(doc, kept, revision)
      BY <1>5, <1>6, <2>4, <2>5, <2>6 DEF Describes
    <2> HIDE DEF new
    <2>8. Recorded(kept, ju, e.upk, new)
      BY <1>5, <1>6, <2>4, <2>7, HeadRecorded DEF e
    <2> HIDE DEF ju, op
    <2> QED BY <1>1, <1>2, <1>5, <1>6, <2>2, <2>8, WriteStep
  <1>7. CASE e.map = "Old"
    <2>1. Write(new, op, kept, jundo)
      BY <1>7 DEF Update
    <2> HIDE DEF svc, e, kept, new, op
    <2>2. Describes(View(jundo, e.upk), kept, revision)
      BY <1>5, <1>7 DEF Describes
    <2>3. kept # NoEntry
      BY <1>5, <1>7 DEF NoEntry
    <2>4. Recorded(kept, jundo, e.upk, new)
      BY <1>3, <1>5, <1>7, <2>2, <2>3, StackFacts DEF Recorded
    <2> QED BY <1>1, <1>2, <1>5, <1>7, <2>1, <2>4, WriteStep
  <1>8. CASE e.map = "none"
    <2> DEFINE doc == Full(fresh)
               ju == WriteUndo(jundo, fresh.upk, Op("Insert", doc))
    <2>1. Write(new, op, fresh, ju)
      BY <1>8 DEF Update
    <2>2. e = NoEntry
      BY <1>4, <1>8
    <2>3. fresh.map = "Old" /\ fresh.val = row.val
      BY DEF InitEntry
    <2> HIDE DEF new, e
    <2>4. enabled => Restores(fresh, snaps[revision], new)
      BY <1>1, <1>4, <2>2, <2>3 DEF Restores
    <2>5. "Old" \in Recs /\ row.val \in Values
      BY <1>4 DEF Recs, Values
    <2>6. fresh \in Entries /\ fresh.upk \in Nat /\ (enabled => Recorded(fresh, ju, fresh.upk, new))
      <3>1. doc = Full(fresh)
        OBVIOUS
      <3> HIDE DEF doc
      <3> QED BY <1>4, <2>2, <2>4, <2>5, <3>1, FreshEntry DEF e
    <2> HIDE DEF ju, fresh, op
    <2> QED BY <1>1, <1>2, <2>1, <2>6, WriteStep
  <1> QED BY <1>4, <1>6, <1>7, <1>8

\* A row is removed.
LEMMA RemoveStep ==
    ASSUME IInv, trial' = trial, Remove
    PROVE  IInv'
  <1> DEFINE e == HeadEntry
             svc == SetRec(e.svc, "Removed")
             gone == [map |-> "Removed", upk |-> e.upk, val |-> e.val, svc |-> svc]
             fresh == InitEntry("Removed", row.val, row.svc, row.svc)
             op == Op("Remove", NoRow)
  <1>1. row # NoRow /\ DataView # NoRow
    BY DataFacts DEF Remove
  <1>2. IsOp(op, Vals, trial.payers) /\ op # NoOp /\ Matches(op, DataView) /\ Apply(op, DataView) = NoRow
    BY <1>1, RemoveWrite
  <1>3. /\ e \in Entries \cup {NoEntry}
        /\ enabled => Restores(e, snaps[revision], row) /\ snaps[revision] \in Rows \cup {NoRow}
        /\ e # NoEntry => /\ enabled /\ e.upk \in Nat /\ Describes(View(jundo, e.upk), e, revision)
                          /\ e = undo[revision]
                          /\ \A r \in tail + 1 .. revision - 1 : undo[r] # NoEntry => undo[r].upk # e.upk
    BY HeadFacts
  <1>4. /\ row.val \in Vals /\ row.svc \in trial.payers /\ e.map \in {"none", "New", "Old"}
        /\ e.map = "none" => e = NoEntry
        /\ e = NoEntry /\ enabled => snaps[revision] # NoRow /\ snaps[revision].val = row.val
    BY <1>1, HeadOfRow
  <1>5. ASSUME e.map \in {"New", "Old"}
        PROVE  /\ e # NoEntry /\ e.upk \in Nat /\ e.svc \in Services /\ e.val \in Values
               /\ Restores(e, snaps[revision], row) /\ Describes(View(jundo, e.upk), e, revision)
    BY <1>3, <1>5, EntryFacts DEF NoEntry
  <1>6. CASE e.map = "New"
    <2> DEFINE ju == WriteUndo(jundo, e.upk, op)
               x == e.upk
    <2>1. Write(NoRow, op, NoEntry, ju)
      BY <1>6 DEF Remove
    <2>2. View(jundo, x) # NoRow /\ x \in Nat
      BY <1>5, <1>6 DEF Describes
    <2>3. IsOp(op, Values, Services) /\ op # NoOp /\ Matches(op, View(jundo, x)) /\ Apply(op, View(jundo, x)) = NoRow
      BY <2>2, RemoveWrite
    <2>4. snaps[revision] = NoRow
      BY <1>5, <1>6 DEF Restores
    <2>5. Restores(NoEntry, NoRow, NoRow)
      BY DEF Restores, NoEntry
    <2> HIDE DEF op, x
    <2>6. /\ IsJournal(ju) /\ View(ju, x) = NoRow
          /\ \A u : u # x => View(ju, u) = View(jundo, u)
      BY <2>2, <2>3, StackFacts, WriteUndoFacts DEF x
    <2> HIDE DEF e, ju
    <2>7. Recorded(NoEntry, ju, x, NoRow)
      BY <1>3, <1>5, <1>6, <2>4, <2>5, <2>6 DEF Recorded, x
    <2> QED BY <1>2, <2>1, <2>2, <2>7, WriteStep
  <1>7. CASE e.map = "Old"
    <2> DEFINE doc == Full(gone)
               ju == WriteUndo(jundo, e.upk, Op("Update", doc))
    <2>1. Write(NoRow, op, gone, ju)
      BY <1>7 DEF Remove
    <2>2. doc = [val |-> e.val, svc |-> svc]
      BY DEF Full
    <2>3. gone = [map |-> "Removed", upk |-> e.upk, val |-> e.val, svc |-> svc]
      OBVIOUS
    <2>4. svc \in Services /\ svc.rev = e.svc.rev /\ svc.rec = "Removed" /\ svc.upay = e.svc.upay
      BY <1>5, <1>7 DEF SetRec, Services, Recs
    <2> HIDE DEF svc, doc, e, gone
    <2>5. gone \in Entries /\ gone.map = "Removed" /\ gone.upk = e.upk /\ gone.val = e.val /\ gone.svc = svc
      BY <1>5, <1>7, <2>3, <2>4 DEF Entries, Recs
    <2>6. doc \in UndoDocs /\ doc.val = e.val /\ doc.svc = svc
      BY <1>5, <1>7, <2>2, <2>4 DEF UndoDocs, Documents
    <2>7. doc # NoRow
      BY <2>6, StackFacts, IsDocument
    <2>8. Describes(doc, gone, revision)
      BY <1>5, <1>7, <2>4, <2>5, <2>6, <2>7 DEF Describes
    <2>9. Restores(gone, snaps[revision], NoRow)
      BY <1>5, <1>7, <2>5 DEF Restores
    <2>10. Recorded(gone, ju, e.upk, NoRow)
      BY <1>5, <1>7, <2>5, <2>6, <2>8, <2>9, HeadRecorded DEF e
    <2> HIDE DEF ju, op
    <2> QED BY <1>2, <1>5, <1>7, <2>1, <2>5, <2>10, WriteStep
  <1>8. CASE e.map = "none"
    <2> DEFINE doc == Full(fresh)
               ju == WriteUndo(jundo, fresh.upk, Op("Insert", doc))
    <2>1. Write(NoRow, op, fresh, ju)
      BY <1>8 DEF Remove
    <2>2. e = NoEntry
      BY <1>4, <1>8
    <2>3. fresh.map = "Removed" /\ fresh.val = row.val
      BY DEF InitEntry
    <2> HIDE DEF e
    <2>4. enabled => Restores(fresh, snaps[revision], NoRow)
      BY <1>4, <2>2, <2>3 DEF Restores
    <2>5. "Removed" \in Recs /\ row.val \in Values
      BY <1>4 DEF Recs, Values
    <2>6. fresh \in Entries /\ fresh.upk \in Nat /\ (enabled => Recorded(fresh, ju, fresh.upk, NoRow))
      <3>1. doc = Full(fresh)
        OBVIOUS
      <3> HIDE DEF doc
      <3> QED BY <1>4, <2>2, <2>4, <2>5, <3>1, FreshEntry DEF e
    <2> HIDE DEF ju, fresh, op
    <2> QED BY <1>2, <2>1, <2>6, WriteStep
  <1> QED BY <1>4, <1>6, <1>7, <1>8

-----------------------------------------------------------------------------
\* Undo

\* Whether an entry restores a row depends on the values alone.
LEMMA RestoresSame ==
    ASSUME IInv, NEW e, NEW f, f.map = e.map, f.val = e.val,
           NEW x \in Rows \cup {NoRow}, NEW y \in Rows \cup {NoRow}, x.val = y.val,
           NEW z \in Rows \cup {NoRow}, NEW w \in Rows \cup {NoRow}, z.val = w.val,
           Restores(e, x, z)
    PROVE  Restores(f, y, w)
  <1>1. (x = NoRow <=> y = NoRow) /\ (z = NoRow <=> w = NoRow)
    BY DataFacts
  <1> QED BY <1>1 DEF Restores

\* The row and the document of the row after an undo: what the session started from
LEMMA UndoFacts ==
    ASSUME IInv, Undo
    PROVE  /\ row' \in Rows \cup {NoRow} /\ data' \in Rows \cup {NoRow}
           /\ row'.val = snaps[revision].val /\ data'.val = row'.val
           /\ "squash" \notin trial.ops => data' = row'
           /\ jdata' = NoOp
  <1> DEFINE n == revision
             e == undo[n]
             s == snaps[n]
             op == UndoWrite(e)
  <1>1. n > tail /\ row' = UndoneRow(e) /\ data' = Apply(WriteIf(op, jdata), data)
        /\ jdata' = IF WriteIf(op, jdata) = Throw THEN Throw ELSE NoOp
    BY DEF Undo
  <1>2. /\ tail \in Nat /\ n \in Nat /\ n \in tail + 1 .. n
        /\ e \in Entries \cup {NoEntry} /\ s \in Rows \cup {NoRow} /\ Restores(e, s, row)
        /\ row \in Rows \cup {NoRow} /\ DataView.val = row.val
        /\ "squash" \notin trial.ops => DataView = row
    <2>1. tail \in Nat /\ n \in Nat /\ n \in tail + 1 .. n
      BY <1>1, StackFacts
    <2> QED BY <2>1, StackFacts DEF DataView
  <1>3. DataView \in Rows \cup {NoRow} /\ (DataView = NoRow <=> row = NoRow)
    BY DataFacts
  <1>4. ASSUME Matches(WriteIf(op, jdata), data) PROVE jdata' = NoOp
    <2>1. ~Matches(Throw, data)
      BY DEF Matches, Throw
    <2> QED BY <1>1, <1>4, <2>1
  <1>5. e.map \in {"none", "New", "Old", "Removed"}
    BY <1>2, EntryFacts DEF Recs
  <1> HIDE DEF e, s, n
  <1>6. CASE e.map = "none"
    <2>1. op = NoOp /\ row' = row
      BY <1>1, <1>6 DEF UndoWrite, UndoneRow
    <2>2. data' = DataView
      BY <1>1, <2>1 DEF WriteIf, DataView
    <2>3. s.val = row.val
      BY <1>2, <1>6 DEF Restores
    <2>4. jdata' = NoOp
      <3>1. Matches(jdata, data)
        BY DEF IInv, TypeOK
      <3> QED BY <1>4, <2>1, <3>1 DEF WriteIf
    <2> QED BY <1>2, <1>3, <2>1, <2>2, <2>3, <2>4 DEF s, n
  <1>7. CASE e.map = "New"
    <2>1. op = Op("Remove", NoRow) /\ row' = NoRow
      BY <1>1, <1>7 DEF UndoWrite, UndoneRow
    <2>2. s = NoRow /\ row # NoRow
      BY <1>2, <1>7 DEF Restores
    <2>3. /\ IsOp(op, Vals, trial.payers) /\ op # NoOp /\ Matches(op, DataView)
          /\ Apply(op, DataView) = NoRow
      BY <1>3, <2>1, <2>2, RemoveWrite
    <2> HIDE DEF op
    <2>4. data' = NoRow /\ Matches(WriteIf(op, jdata), data)
      BY <1>1, <2>3, DataWrite DEF WriteIf, WriteData
    <2>5. jdata' = NoOp
      BY <1>4, <2>4
    <2> QED BY <2>1, <2>2, <2>4, <2>5 DEF s, n
  <1>8. CASE e.map \in {"Old", "Removed"}
    <2> DEFINE new == UndoneRow(e)
               o == IF e.map = "Old" THEN "Update" ELSE "Insert"
    <2>1. new = [val |-> e.val, svc |-> e.svc.upay]
      BY <1>8 DEF UndoneRow
    <2>2. op = Op(o, new)
      BY <1>8 DEF UndoWrite
    <2>3. s # NoRow /\ e.val = s.val /\ (e.map = "Old" => row # NoRow) /\ (e.map = "Removed" => row = NoRow)
      BY <1>2, <1>8 DEF Restores
    <2>4. e.svc.upay \in trial.payers
      <3>1. e.svc \in Services
        BY <1>2, <1>8, EntryFacts DEF NoEntry
      <3> QED BY <3>1 DEF Services
    <2>5. e.val \in Vals
      BY <1>2, <2>3, DataFacts
    <2> HIDE DEF new
    <2>6. new \in Rows /\ new.val = e.val
      BY <2>1, <2>4, <2>5 DEF Rows, Documents
    <2>7. /\ IsOp(op, Vals, trial.payers) /\ op # NoOp /\ Matches(op, DataView)
          /\ Apply(op, DataView) = new
      BY <1>8, <2>2, <2>3, <2>6, RowWrite
    <2> HIDE DEF op
    <2>8. data' = new /\ Matches(WriteIf(op, jdata), data)
      BY <1>1, <2>7, DataWrite DEF WriteIf, WriteData
    <2>9. jdata' = NoOp
      BY <1>4, <2>8
    <2> QED BY <1>1, <2>3, <2>6, <2>8, <2>9 DEF s, n, new
  <1> QED BY <1>5, <1>6, <1>7, <1>8

\* The undo document of an entry is removed.
LEMMA WithoutFacts ==
    ASSUME IInv, NEW r \in tail + 1 .. revision, undo[r] # NoEntry
    PROVE  LET k == Without(jundo, undo[r])
           IN  /\ IsJournal(k) /\ undo[r].upk \in Nat /\ View(k, undo[r].upk) = NoRow
               /\ \A u : u # undo[r].upk => View(k, u) = View(jundo, u)
               /\ \A q \in tail + 1 .. revision : q # r /\ undo[q] # NoEntry =>
                     undo[q].upk # undo[r].upk /\ View(k, undo[q].upk) = View(jundo, undo[q].upk)
  <1> DEFINE x == undo[r].upk
             src == Op("Remove", NoRow)
             k == Without(jundo, undo[r])
  <1>1. k = WriteUndo(jundo, x, src)
    BY DEF Without
  <1>2. x \in Nat /\ View(jundo, x) # NoRow
    <2>1. undo[r] \in Entries \cup {NoEntry} /\ Describes(View(jundo, x), undo[r], r)
      BY StackFacts
    <2> QED BY <2>1, EntryFacts DEF Describes
  <1>3. /\ IsOp(src, Values, Services) /\ src # NoOp /\ Matches(src, View(jundo, x))
        /\ Apply(src, View(jundo, x)) = NoRow
    BY <1>2, RemoveWrite
  <1>4. \A q \in tail + 1 .. revision : q # r /\ undo[q] # NoEntry => undo[q].upk # x
    BY UpkUnique
  <1> HIDE DEF src, x
  <1>5. IsJournal(k) /\ View(k, x) = NoRow /\ \A u : u # x => View(k, u) = View(jundo, u)
    BY <1>1, <1>2, <1>3, StackFacts, WriteUndoFacts
  <1> HIDE DEF k
  <1> QED BY <1>2, <1>4, <1>5 DEF k, x

\* Undo of a session
LEMMA UndoStep ==
    ASSUME IInv, Undo, trial' = trial
    PROVE  IInv'
  <1> DEFINE n == revision
             m == revision - 1
             e == undo[n]
             j == IF e = NoEntry THEN jundo ELSE WriteUndo(jundo, e.upk, Op("Remove", NoRow))
  <1>1. /\ n > tail /\ revision' = m /\ tail' = tail
        /\ docs' = ApplyAll(j) /\ jundo' = [u \in {x \in DOMAIN j : j[x] = Throw} |-> Throw]
        /\ undo' = [r \in tail + 1 .. m |-> undo[r]]
        /\ snaps' = [r \in tail + 1 .. m |-> snaps[r]]
    BY DEF Undo
  <1>2. /\ row' \in Rows \cup {NoRow} /\ data' \in Rows \cup {NoRow}
        /\ row'.val = snaps[n].val /\ data'.val = row'.val
        /\ "squash" \notin trial.ops => data' = row'
        /\ jdata' = NoOp
    BY UndoFacts
  <1>3. /\ tail \in Nat /\ n \in Nat
        /\ undo \in [tail + 1 .. n -> Entries \cup {NoEntry}]
        /\ snaps \in [tail + 1 .. n -> Rows \cup {NoRow}]
        /\ \A r \in tail + 1 .. n :
              Restores(undo[r], snaps[r], IF r = n THEN row ELSE snaps[r + 1])
        /\ \A r \in tail + 1 .. n : undo[r] # NoEntry => Describes(View(jundo, undo[r].upk), undo[r], r)
        /\ "squash" \notin trial.ops => \A u \in Nat : View(jundo, u) # NoRow =>
              \E r \in tail + 1 .. n : undo[r] # NoEntry /\ undo[r].upk = u
    BY StackFacts
  <1>4. /\ m \in Nat /\ tail <= m /\ n \in tail + 1 .. n /\ m + 1 = n
        /\ \A r \in tail + 1 .. m : r \in tail + 1 .. n /\ r # n /\ (r = m => r + 1 = n)
                                    /\ (r # m => r + 1 \in tail + 1 .. m)
        /\ \A r \in tail + 1 .. n : r = n \/ r \in tail + 1 .. m
    <2>1. tail \in Nat /\ n \in Nat /\ n > tail
      BY <1>1, <1>3
    <2> QED BY <2>1
  <1>5. /\ IsJournal(j)
        /\ e # NoEntry => View(j, e.upk) = NoRow
        /\ \A u : (e # NoEntry => u # e.upk) => View(j, u) = View(jundo, u)
        /\ \A q \in tail + 1 .. m : undo[q] # NoEntry => View(j, undo[q].upk) = View(jundo, undo[q].upk)
    <2>1. CASE e = NoEntry
      BY <2>1, StackFacts
    <2>2. CASE e # NoEntry
      <3>1. j = Without(jundo, undo[n])
        BY <2>2 DEF Without
      <3> HIDE DEF j, m, n
      <3>2. n = revision
        BY DEF n
      <3> QED BY <1>4, <2>2, <3>1, <3>2, WithoutFacts
    <2> QED BY <2>1, <2>2
  <1> HIDE DEF j, m, n
  <1>6. /\ \A r \in tail + 1 .. m : undo'[r] = undo[r] /\ snaps'[r] = snaps[r]
        /\ undo' \in [tail + 1 .. m -> Entries \cup {NoEntry}] /\ snaps' \in [tail + 1 .. m -> Rows \cup {NoRow}]
    BY <1>1, <1>3, <1>4
  <1>7. ASSUME NEW r \in tail + 1 .. m
        PROVE  Restores(undo'[r], snaps'[r], IF r = m THEN row' ELSE snaps'[r + 1])
    <2>1. Restores(undo[r], snaps[r], snaps[r + 1]) /\ snaps[r] \in Rows \cup {NoRow}
      BY <1>3, <1>4
    <2>2. CASE r = m
      <3>1. snaps[r + 1].val = row'.val /\ snaps[r + 1] \in Rows \cup {NoRow}
        BY <1>2, <1>3, <1>4, <2>2
      <3>2. Restores(undo[r], snaps[r], row')
        BY <1>2, <2>1, <3>1, RestoresSame
      <3> QED BY <1>6, <2>2, <3>2
    <2>3. CASE r # m
      BY <1>4, <1>6, <2>1, <2>3
    <2> QED BY <2>2, <2>3
  <1>8. NextStack
    BY <1>1, <1>2, <1>3, <1>4, <1>6, <1>7 DEF NextStack
  <1>9. ASSUME "squash" \notin trial.ops, NEW u \in Nat, View(j, u) # NoRow
        PROVE  \E r \in tail + 1 .. m : undo'[r] # NoEntry /\ undo'[r].upk = u
    <2>1. View(jundo, u) # NoRow /\ (e # NoEntry => u # e.upk)
      BY <1>5, <1>9
    <2>2. PICK r \in tail + 1 .. n : undo[r] # NoEntry /\ undo[r].upk = u
      BY <1>3, <1>9, <2>1
    <2>3. r # n
      BY <2>1, <2>2
    <2> QED BY <1>4, <1>6, <2>2, <2>3
  <1>10. NextDocs(j)
    BY <1>1, <1>3, <1>4, <1>5, <1>6, <1>9 DEF NextDocs
  <1>11. DOMAIN jundo' = {}
    <2>1. \A x \in DOMAIN j : \E d : Matches(j[x], d)
      BY <1>5 DEF IsJournal
    <2>2. \A d : ~Matches(Throw, d)
      BY DEF Matches, Throw
    <2> QED BY <1>1, <2>1, <2>2
  <1> QED BY <1>1, <1>2, <1>8, <1>10, <1>11, CleanStep

-----------------------------------------------------------------------------
\* Squash

\* What is left to show of a squash
LEMMA SquashStep ==
    ASSUME IInv, trial' = trial, "squash" \in trial.ops, revision > tail,
           NEW e \in Entries \cup {NoEntry}, NEW jd, NEW ju, SquashTo(e, jd, ju),
           IsOp(jd, Vals, trial.payers), Matches(jd, data), Apply(jd, data).val = row.val,
           IsJournal(ju),
           revision - 1 > tail => /\ Restores(e, snaps[revision - 1], row)
                                  /\ e # NoEntry => Describes(View(ju, e.upk), e, revision - 1),
           \A r \in tail + 1 .. revision - 2 : undo[r] # NoEntry =>
               View(ju, undo[r].upk) = View(jundo, undo[r].upk)
    PROVE  IInv'
  <1> DEFINE n == revision
             m == revision - 1
  <1>1. /\ revision' = m /\ tail' = tail /\ jdata' = jd /\ jundo' = ju /\ row' = row
        /\ docs' = docs /\ data' = data
        /\ undo' = [r \in tail + 1 .. m |-> IF r = m THEN e ELSE undo[r]]
        /\ snaps' = [r \in tail + 1 .. m |-> snaps[r]]
    BY DEF SquashTo
  <1>2. /\ tail \in Nat /\ n \in Nat /\ row \in Rows \cup {NoRow}
        /\ undo \in [tail + 1 .. n -> Entries \cup {NoEntry}]
        /\ snaps \in [tail + 1 .. n -> Rows \cup {NoRow}]
        /\ \A r \in tail + 1 .. n :
              Restores(undo[r], snaps[r], IF r = n THEN row ELSE snaps[r + 1])
        /\ \A r \in tail + 1 .. n : undo[r] # NoEntry => Describes(View(jundo, undo[r].upk), undo[r], r)
    BY StackFacts
  <1>3. /\ m \in Nat /\ tail <= m /\ n \in tail + 1 .. n /\ m + 1 = n
        /\ \A r \in tail + 1 .. m : r \in tail + 1 .. n /\ r # n /\ (r = m => m > tail)
                                    /\ (r # m => r + 1 \in tail + 1 .. m /\ r \in tail + 1 .. revision - 2)
    BY <1>2
  <1>4. m > tail => /\ Restores(e, snaps[m], row)
                    /\ e # NoEntry => Describes(View(ju, e.upk), e, m)
    OBVIOUS
  <1> HIDE DEF n, m
  <1>5. undo' \in [tail + 1 .. m -> Entries \cup {NoEntry}]
    BY <1>1, <1>2, <1>3
  <1>6. snaps' \in [tail + 1 .. m -> Rows \cup {NoRow}] /\ \A r \in tail + 1 .. m : snaps'[r] = snaps[r]
    BY <1>1, <1>2, <1>3
  <1>7. \A r \in tail + 1 .. m : undo'[r] = IF r = m THEN e ELSE undo[r]
    BY <1>1
  <1>8. ASSUME NEW r \in tail + 1 .. m
        PROVE  Restores(undo'[r], snaps'[r], IF r = m THEN row' ELSE snaps'[r + 1])
    <2>1. CASE r = m
      BY <1>1, <1>3, <1>4, <1>6, <1>7, <2>1
    <2>2. CASE r # m
      BY <1>2, <1>3, <1>6, <1>7, <2>2
    <2> QED BY <2>1, <2>2
  <1>9. NextStack
    BY <1>1, <1>2, <1>3, <1>5, <1>6, <1>8 DEF NextStack
  <1>10. ASSUME NEW r \in tail + 1 .. m, undo'[r] # NoEntry
         PROVE  Describes(View(ju, undo'[r].upk), undo'[r], r)
    <2>1. CASE r = m
      BY <1>3, <1>4, <1>7, <1>10, <2>1
    <2>2. CASE r # m
      BY <1>2, <1>3, <1>7, <1>10, <2>2
    <2> QED BY <2>1, <2>2
  <1>11. NextDocs(jundo')
    BY <1>1, <1>10 DEF NextDocs
  <1> QED BY <1>1, <1>9, <1>11, KeepStep

\* The write of the service fields of a squashed entry to the row
LEMMA SquashDataFacts ==
    ASSUME IInv, NEW b \in Entries, NEW s, Restores(b, s, row)
    PROVE  /\ IsOp(SquashData(b), Vals, trial.payers) /\ Matches(SquashData(b), data)
           /\ Apply(SquashData(b), data).val = row.val
  <1> DEFINE op == RevisionWrite(b)
             svc == b.svc.pay
  <1>1. CASE b.map = "Removed"
    BY <1>1, StackFacts DEF SquashData
  <1>2. CASE b.map # "Removed"
    <2>1. row # NoRow
      <3>1. b.map \in {"New", "Old"}
        BY <1>2 DEF Entries, Recs
      <3> QED BY <3>1 DEF Restores
    <2>2. DataView # NoRow /\ DataView.val = row.val
      BY <2>1, DataFacts DEF IInv, InSync
    <2>3. svc \in trial.payers
      BY DEF Entries, Services
    <2>4. op = Op("Revision", [val |-> NoVal, svc |-> svc])
      BY DEF RevisionWrite
    <2> HIDE DEF op, svc
    <2>5. op.op = "Revision" /\ op.obj = [val |-> NoVal, svc |-> svc]
      BY <2>4 DEF Op
    <2>6. IsOp(op, Vals, trial.payers) /\ op # NoOp /\ Matches(op, DataView)
      BY <2>2, <2>3, <2>5 DEF IsOp, Matches, NoOp
    <2>7. Apply(op, DataView).val = DataView.val
      BY <2>2, <2>5 DEF Apply
    <2>8. SquashData(b) = WriteData(op)
      BY <1>2 DEF SquashData, op
    <2> QED BY <2>2, <2>6, <2>7, <2>8, DataWrite
  <1> QED BY <1>1, <1>2

\* The two sessions of a squash
LEMMA SquashFacts ==
    ASSUME IInv, revision > tail
    PROVE  /\ revision \in tail + 1 .. revision /\ revision \in Nat /\ tail \in Nat
           /\ undo[revision] \in Entries \cup {NoEntry}
           /\ snaps[revision] \in Rows \cup {NoRow} /\ row \in Rows \cup {NoRow}
           /\ Restores(undo[revision], snaps[revision], row)
           /\ undo[revision] # NoEntry => Describes(View(jundo, undo[revision].upk), undo[revision], revision)
           /\ \A r \in tail + 1 .. revision - 2 : r \in tail + 1 .. revision /\ r # revision /\ r # revision - 1
           /\ revision - 1 > tail =>
                 /\ revision - 1 \in tail + 1 .. revision /\ revision - 1 # revision /\ revision - 1 \in Nat
                 /\ undo[revision - 1] \in Entries \cup {NoEntry}
                 /\ snaps[revision - 1] \in Rows \cup {NoRow}
                 /\ Restores(undo[revision - 1], snaps[revision - 1], snaps[revision])
                 /\ undo[revision - 1] # NoEntry =>
                       Describes(View(jundo, undo[revision - 1].upk), undo[revision - 1], revision - 1)
  <1> DEFINE n == revision
             m == revision - 1
  <1>1. /\ tail \in Nat /\ n \in Nat /\ row \in Rows \cup {NoRow}
        /\ undo \in [tail + 1 .. n -> Entries \cup {NoEntry}]
        /\ snaps \in [tail + 1 .. n -> Rows \cup {NoRow}]
        /\ \A r \in tail + 1 .. n :
              Restores(undo[r], snaps[r], IF r = n THEN row ELSE snaps[r + 1])
        /\ \A r \in tail + 1 .. n : undo[r] # NoEntry => Describes(View(jundo, undo[r].upk), undo[r], r)
    BY StackFacts
  <1>2. /\ n \in tail + 1 .. n /\ m + 1 = n /\ m # n
        /\ m > tail => m \in tail + 1 .. n /\ m \in Nat
        /\ \A r \in tail + 1 .. revision - 2 : r \in tail + 1 .. n /\ r # n /\ r # m
    BY <1>1
  <1>3. Restores(undo[n], snaps[n], row)
    BY <1>1, <1>2
  <1> HIDE DEF n, m
  <1>4. m > tail => Restores(undo[m], snaps[m], snaps[n])
    BY <1>1, <1>2
  <1>5. /\ undo[n] \in Entries \cup {NoEntry} /\ snaps[n] \in Rows \cup {NoRow}
        /\ undo[n] # NoEntry => Describes(View(jundo, undo[n].upk), undo[n], n)
        /\ m > tail => /\ undo[m] \in Entries \cup {NoEntry} /\ snaps[m] \in Rows \cup {NoRow}
                       /\ undo[m] # NoEntry => Describes(View(jundo, undo[m].upk), undo[m], m)
    BY <1>1, <1>2
  <1> QED BY <1>1, <1>2, <1>3, <1>4, <1>5 DEF n, m

\* The inner session has no entry.
LEMMA SquashNothing ==
    ASSUME IInv, ReloadsExactly, trial' = trial, "squash" \in trial.ops, revision > tail, undo[revision] = NoEntry,
           SquashTo(IF revision - 1 > tail THEN undo[revision - 1] ELSE NoEntry, jdata, jundo)
    PROVE  IInv'
  <1> DEFINE m == revision - 1
             e == IF m > tail THEN undo[m] ELSE NoEntry
  <1>1. /\ snaps[revision] \in Rows \cup {NoRow} /\ row \in Rows \cup {NoRow}
        /\ Restores(undo[revision], snaps[revision], row)
        /\ m > tail => /\ undo[m] \in Entries \cup {NoEntry} /\ snaps[m] \in Rows \cup {NoRow}
                       /\ Restores(undo[m], snaps[m], snaps[revision])
                       /\ undo[m] # NoEntry => Describes(View(jundo, undo[m].upk), undo[m], m)
    BY SquashFacts
  <1>2. snaps[revision].val = row.val
    BY <1>1 DEF Restores, NoEntry
  <1>3. m > tail => Restores(undo[m], snaps[m], row)
    BY <1>1, <1>2, RestoresSame
  <1>4. e \in Entries \cup {NoEntry} /\ (m > tail => e = undo[m])
    BY <1>1
  <1>5. SquashTo(e, jdata, jundo)
    OBVIOUS
  <1>6. m > tail => Restores(e, snaps[m], row) /\ (e # NoEntry => Describes(View(jundo, e.upk), e, m))
    BY <1>1, <1>3, <1>4
  <1> HIDE DEF e
  <1> QED BY <1>4, <1>5, <1>6, StackFacts, SquashStep

\* The previous revision is committed.
LEMMA SquashCommittedStep ==
    ASSUME IInv, ReloadsExactly, trial' = trial, "squash" \in trial.ops, revision > tail,
           undo[revision] # NoEntry, SquashCommitted(undo[revision])
    PROVE  IInv'
  <1> DEFINE b == undo[revision]
             ju == Without(jundo, b)
             jd == SquashData(b)
  <1>1. revision - 1 = tail /\ SquashTo(NoEntry, jd, ju)
    BY DEF SquashCommitted
  <1>2. /\ revision \in tail + 1 .. revision /\ b \in Entries /\ Restores(b, snaps[revision], row)
        /\ revision \in Nat /\ tail \in Nat
        /\ \A r \in tail + 1 .. revision - 2 : r \in tail + 1 .. revision /\ r # revision
    BY SquashFacts
  <1>3. IsOp(jd, Vals, trial.payers) /\ Matches(jd, data) /\ Apply(jd, data).val = row.val
    BY <1>2, SquashDataFacts
  <1>4. IsJournal(ju)
    BY <1>2, WithoutFacts
  <1>5. ~ (revision - 1 > tail) /\ \A r \in tail + 1 .. revision - 2 : FALSE
    BY <1>1, <1>2
  <1> HIDE DEF b, ju, jd
  <1> QED BY <1>1, <1>3, <1>4, <1>5, SquashStep

\* The entry of the inner session moves outwards.
LEMMA SquashMoveStep ==
    ASSUME IInv, ReloadsExactly, trial' = trial, "squash" \in trial.ops, revision > tail, revision - 1 > tail,
           undo[revision] # NoEntry, SquashMove(undo[revision - 1], undo[revision])
    PROVE  IInv'
  <1> DEFINE m == revision - 1
             b == undo[revision]
             svc == SetRev(b.svc, m)
             e == [map |-> b.map, upk |-> b.upk, val |-> b.val, svc |-> svc]
             op == UndoRevisionWrite(b)
             jd == SquashData(b)
             ju == WriteUndo(jundo, b.upk, op)
             x == b.upk
             d == View(jundo, x)
  <1>1. undo[m] = NoEntry /\ SquashTo(e, jd, ju)
    BY DEF SquashMove
  <1>2. /\ revision \in tail + 1 .. revision /\ b \in Entries
        /\ snaps[revision] \in Rows \cup {NoRow} /\ row \in Rows \cup {NoRow}
        /\ Restores(b, snaps[revision], row) /\ Describes(d, b, revision)
        /\ \A r \in tail + 1 .. revision - 2 : r \in tail + 1 .. revision /\ r # revision
        /\ m \in Nat /\ snaps[m] \in Rows \cup {NoRow} /\ Restores(undo[m], snaps[m], snaps[revision])
    BY SquashFacts
  <1>3. snaps[m].val = snaps[revision].val
    BY <1>1, <1>2 DEF Restores, NoEntry
  <1>4. b.svc \in Services /\ x \in Nat /\ b.val \in Values /\ b.map \in Recs
    BY <1>2 DEF Entries
  <1>5. svc \in Services /\ svc.rev = m /\ svc.rec = b.svc.rec /\ svc.upay = b.svc.upay
    BY <1>2, <1>4 DEF SetRev, Services
  <1>6. e = [map |-> b.map, upk |-> x, val |-> b.val, svc |-> svc]
    OBVIOUS
  <1>7. op = Op("Revision", [val |-> NoVal, svc |-> svc])
    BY DEF UndoRevisionWrite, CloneService
  <1>8. IsOp(jd, Vals, trial.payers) /\ Matches(jd, data) /\ Apply(jd, data).val = row.val
    BY <1>2, SquashDataFacts
  <1>9. d \in UndoDocs \cup {NoRow} /\ d # NoRow
    BY <1>2, StackFacts, ViewType DEF Describes
  <1>10. \A r \in tail + 1 .. revision - 2 : undo[r] # NoEntry => undo[r].upk # x
    BY <1>2, UpkUnique
  <1>11. "restart" \notin trial.ops
    BY StackFacts DEF ReloadsExactly
  <1> HIDE DEF svc, e, op
  <1>12. e \in Entries /\ e.map = b.map /\ e.upk = x /\ e.val = b.val /\ e.svc = svc
    BY <1>4, <1>5, <1>6 DEF Entries
  <1>13. op.op = "Revision" /\ op.obj = [val |-> NoVal, svc |-> svc]
    BY <1>7 DEF Op
  <1>14. IsOp(op, Values, Services) /\ op # NoOp /\ Matches(op, d)
    BY <1>5, <1>9, <1>13 DEF IsOp, Matches, NoOp
  <1>15. Apply(op, d) = [val |-> d.val, svc |-> svc]
    BY <1>9, <1>13 DEF Apply
  <1>16. /\ IsJournal(ju) /\ View(ju, x) = [val |-> d.val, svc |-> svc]
         /\ \A u : u # x => View(ju, u) = View(jundo, u)
    BY <1>4, <1>14, <1>15, StackFacts, WriteUndoFacts
  <1>17. [val |-> d.val, svc |-> svc] # NoRow
    <2>1. d.val \in Values
      BY <1>9 DEF UndoDocs, Documents
    <2>2. [val |-> d.val, svc |-> svc] \in UndoDocs
      BY <1>5, <2>1 DEF UndoDocs, Documents
    <2> QED BY <2>2, StackFacts, IsDocument
  <1> HIDE DEF ju, jd, d, m
  <1>18. Describes(View(ju, x), e, m)
    BY <1>2, <1>5, <1>11, <1>12, <1>16, <1>17 DEF Describes
  <1>19. Restores(e, snaps[m], row)
    BY <1>2, <1>3, <1>12, RestoresSame
  <1> HIDE DEF b, x
  <1> QED BY <1>1, <1>8, <1>10, <1>12, <1>16, <1>18, <1>19, SquashStep DEF m

\* What two entries to squash have: their documents differ, that of the inner one is removed.
LEMMA SquashPair ==
    ASSUME IInv, ReloadsExactly, "squash" \in trial.ops, revision > tail, revision - 1 > tail,
           undo[revision] # NoEntry, undo[revision - 1] # NoEntry
    PROVE  LET a == undo[revision - 1]
               b == undo[revision]
               k == Without(jundo, b)
           IN  /\ a \in Entries /\ b \in Entries
               /\ snaps[revision - 1] \in Rows \cup {NoRow} /\ snaps[revision] \in Rows \cup {NoRow}
               /\ row \in Rows \cup {NoRow} /\ revision - 1 \in Nat /\ a.upk \in Nat
               /\ Restores(a, snaps[revision - 1], snaps[revision]) /\ Restores(b, snaps[revision], row)
               /\ Describes(View(jundo, a.upk), a, revision - 1)
               /\ IsJournal(k) /\ View(k, a.upk) = View(jundo, a.upk)
               /\ "restart" \notin trial.ops
               /\ \A r \in tail + 1 .. revision - 2 : undo[r] # NoEntry =>
                     undo[r].upk # a.upk /\ View(k, undo[r].upk) = View(jundo, undo[r].upk)
  <1> DEFINE m == revision - 1
             a == undo[m]
             b == undo[revision]
             k == Without(jundo, b)
  <1>1. /\ revision \in tail + 1 .. revision /\ b \in Entries
        /\ snaps[revision] \in Rows \cup {NoRow} /\ row \in Rows \cup {NoRow}
        /\ Restores(b, snaps[revision], row)
        /\ \A r \in tail + 1 .. revision - 2 : r \in tail + 1 .. revision /\ r # revision /\ r # m
        /\ m \in tail + 1 .. revision /\ m # revision /\ m \in Nat
        /\ a \in Entries /\ snaps[m] \in Rows \cup {NoRow} /\ Restores(a, snaps[m], snaps[revision])
        /\ Describes(View(jundo, a.upk), a, m)
    BY SquashFacts
  <1>2. /\ IsJournal(k)
        /\ \A q \in tail + 1 .. revision : q # revision /\ undo[q] # NoEntry =>
              undo[q].upk # b.upk /\ View(k, undo[q].upk) = View(jundo, undo[q].upk)
    BY <1>1, WithoutFacts
  <1>3. \A r \in tail + 1 .. revision - 2 : undo[r] # NoEntry => undo[r].upk # a.upk
    BY <1>1, UpkUnique
  <1>4. "restart" \notin trial.ops
    BY StackFacts DEF ReloadsExactly
  <1>5. a.upk \in Nat
    BY <1>1 DEF Entries
  <1> HIDE DEF k, m
  <1>6. View(k, a.upk) = View(jundo, a.upk)
    BY <1>1, <1>2 DEF m
  <1>7. \A r \in tail + 1 .. revision - 2 : undo[r] # NoEntry =>
           undo[r].upk # a.upk /\ View(k, undo[r].upk) = View(jundo, undo[r].upk)
    BY <1>1, <1>2, <1>3
  <1> QED BY <1>1, <1>2, <1>4, <1>5, <1>6, <1>7 DEF k, m

\* new + upd, upd + upd
LEMMA SquashUpdateStep ==
    ASSUME IInv, ReloadsExactly, trial' = trial, "squash" \in trial.ops, revision > tail, revision - 1 > tail,
           undo[revision] # NoEntry, SquashUpdate(undo[revision - 1], undo[revision])
    PROVE  IInv'
  <1> DEFINE m == revision - 1
             a == undo[m]
             b == undo[revision]
             svc == SetPayer(a.svc, b.svc.pay)
             e == [map |-> a.map, upk |-> a.upk, val |-> a.val, svc |-> svc]
             jd == SquashData(b)
             ju == Without(jundo, b)
  <1>1. a.map \in {"New", "Old"} /\ b.map = "Old" /\ SquashTo(e, jd, ju)
    BY DEF SquashUpdate
  <1>2. a # NoEntry
    BY <1>1 DEF NoEntry
  <1>3. /\ a \in Entries /\ b \in Entries
        /\ Restores(a, snaps[m], snaps[revision]) /\ Restores(b, snaps[revision], row)
        /\ Describes(View(jundo, a.upk), a, m)
        /\ IsJournal(ju) /\ View(ju, a.upk) = View(jundo, a.upk)
        /\ \A r \in tail + 1 .. revision - 2 : undo[r] # NoEntry => View(ju, undo[r].upk) = View(jundo, undo[r].upk)
    BY <1>2, SquashPair
  <1>4. IsOp(jd, Vals, trial.payers) /\ Matches(jd, data) /\ Apply(jd, data).val = row.val
    BY <1>3, SquashDataFacts
  <1>5. svc \in Services /\ svc.rev = a.svc.rev /\ svc.rec = a.svc.rec /\ svc.upay = a.svc.upay
    <2>1. a.svc \in Services /\ b.svc \in Services
      BY <1>3 DEF Entries
    <2> QED BY <2>1 DEF SetPayer, Services
  <1>6. e = [map |-> a.map, upk |-> a.upk, val |-> a.val, svc |-> svc]
    OBVIOUS
  <1> HIDE DEF svc, e
  <1>7. e \in Entries /\ e.map = a.map /\ e.upk = a.upk /\ e.val = a.val /\ e.svc = svc
    BY <1>3, <1>5, <1>6 DEF Entries
  <1> HIDE DEF ju, jd, m, a
  <1>8. Describes(View(ju, e.upk), e, m)
    BY <1>3, <1>5, <1>7 DEF Describes
  <1>9. Restores(e, snaps[m], row)
    BY <1>1, <1>3, <1>7 DEF Restores
  <1> HIDE DEF b
  <1> QED BY <1>1, <1>3, <1>4, <1>7, <1>8, <1>9, SquashStep DEF m

\* del + new
LEMMA SquashInsertStep ==
    ASSUME IInv, ReloadsExactly, trial' = trial, "squash" \in trial.ops, revision > tail, revision - 1 > tail,
           undo[revision] # NoEntry, SquashInsert(undo[revision - 1], undo[revision])
    PROVE  IInv'
  <1> DEFINE m == revision - 1
             a == undo[m]
             b == undo[revision]
             svc == SetRec(a.svc, "Old")
             e == [map |-> "Old", upk |-> a.upk, val |-> a.val, svc |-> svc]
             k == Without(jundo, b)
             doc == Full(e)
             op == Op("Update", doc)
             ju == WriteUndo(k, a.upk, op)
             x == a.upk
  <1>1. a.map = "Removed" /\ b.map = "New" /\ SquashTo(e, jdata, ju)
    BY DEF SquashInsert
  <1>2. a # NoEntry
    BY <1>1 DEF NoEntry
  <1>3. /\ a \in Entries /\ b \in Entries
        /\ Restores(a, snaps[m], snaps[revision]) /\ Restores(b, snaps[revision], row)
        /\ Describes(View(jundo, x), a, m)
        /\ IsJournal(k) /\ View(k, x) = View(jundo, x) /\ x \in Nat
        /\ "restart" \notin trial.ops
        /\ \A r \in tail + 1 .. revision - 2 : undo[r] # NoEntry =>
              undo[r].upk # x /\ View(k, undo[r].upk) = View(jundo, undo[r].upk)
    BY <1>2, SquashPair
  <1>4. svc \in Services /\ svc.rev = a.svc.rev /\ svc.rec = "Old" /\ svc.upay = a.svc.upay
    <2>1. a.svc \in Services
      BY <1>3 DEF Entries
    <2> QED BY <2>1 DEF SetRec, Services, Recs
  <1>5. e = [map |-> "Old", upk |-> x, val |-> a.val, svc |-> svc] /\ doc = [val |-> a.val, svc |-> svc]
    BY DEF Full
  <1>6. a.val \in Values
    BY <1>3 DEF Entries
  <1> HIDE DEF svc, e, doc
  <1>7. e \in Entries /\ e.map = "Old" /\ e.upk = x /\ e.val = a.val /\ e.svc = svc
    BY <1>3, <1>4, <1>5, <1>6 DEF Entries, Recs
  <1>8. doc \in UndoDocs /\ doc.val = a.val /\ doc.svc = svc
    BY <1>4, <1>5, <1>6 DEF UndoDocs, Documents
  <1>9. doc # NoRow
    BY <1>8, StackFacts, IsDocument
  <1>10. op.op = "Update" /\ op.obj = doc
    BY DEF Op
  <1>11. View(k, x) # NoRow
    BY <1>3 DEF Describes
  <1>12. IsOp(op, Values, Services) /\ op # NoOp /\ Matches(op, View(k, x)) /\ Apply(op, View(k, x)) = doc
    BY <1>4, <1>5, <1>6, <1>8, <1>10, <1>11 DEF IsOp, Matches, NoOp, Apply
  <1> HIDE DEF k, op, x
  <1>13. IsJournal(ju) /\ View(ju, x) = doc /\ \A u : u # x => View(ju, u) = View(k, u)
    BY <1>3, <1>12, StackFacts, WriteUndoFacts DEF x
  <1> HIDE DEF ju, m, a
  <1>14. Describes(View(ju, e.upk), e, m)
    BY <1>3, <1>4, <1>7, <1>8, <1>9, <1>13 DEF Describes
  <1>15. Restores(e, snaps[m], row)
    BY <1>1, <1>3, <1>7 DEF Restores
  <1>16. \A r \in tail + 1 .. revision - 2 : undo[r] # NoEntry => View(ju, undo[r].upk) = View(jundo, undo[r].upk)
    BY <1>3, <1>13
  <1> HIDE DEF b
  <1> QED BY <1>1, <1>7, <1>13, <1>14, <1>15, <1>16, StackFacts, SquashStep DEF m

\* new + del: no entry is left.
LEMMA SquashNewRemoveStep ==
    ASSUME IInv, ReloadsExactly, trial' = trial, "squash" \in trial.ops, revision > tail, revision - 1 > tail,
           undo[revision] # NoEntry, SquashNewRemove(undo[revision - 1], undo[revision])
    PROVE  IInv'
  <1> DEFINE m == revision - 1
             a == undo[m]
             b == undo[revision]
             ju == Without(jundo, b)
  <1>1. a.map = "New" /\ b.map = "Removed" /\ SquashTo(NoEntry, jdata, ju)
    BY DEF SquashNewRemove
  <1>2. a # NoEntry
    BY <1>1 DEF NoEntry
  <1>3. /\ Restores(a, snaps[m], snaps[revision]) /\ Restores(b, snaps[revision], row) /\ IsJournal(ju)
        /\ \A r \in tail + 1 .. revision - 2 : undo[r] # NoEntry => View(ju, undo[r].upk) = View(jundo, undo[r].upk)
    BY <1>2, SquashPair
  <1>4. snaps[m] = NoRow /\ row = NoRow
    BY <1>1, <1>3 DEF Restores
  <1>5. Restores(NoEntry, snaps[m], row)
    BY <1>4 DEF Restores, NoEntry
  <1> HIDE DEF ju, b
  <1> QED BY <1>1, <1>3, <1>5, StackFacts, SquashStep

\* upd + del
LEMMA SquashOldRemoveStep ==
    ASSUME IInv, ReloadsExactly, trial' = trial, "squash" \in trial.ops, revision > tail, revision - 1 > tail,
           undo[revision] # NoEntry, SquashOldRemove(undo[revision - 1], undo[revision])
    PROVE  IInv'
  <1> DEFINE m == revision - 1
             a == undo[m]
             b == undo[revision]
             e == [map |-> "Removed", upk |-> a.upk, val |-> a.val, svc |-> a.svc]
             ju == Without(jundo, b)
  <1>1. a.map = "Old" /\ b.map = "Removed" /\ SquashTo(e, jdata, ju)
    BY DEF SquashOldRemove
  <1>2. a # NoEntry
    BY <1>1 DEF NoEntry
  <1>3. /\ a \in Entries /\ Restores(a, snaps[m], snaps[revision]) /\ Restores(b, snaps[revision], row)
        /\ Describes(View(jundo, a.upk), a, m)
        /\ IsJournal(ju) /\ View(ju, a.upk) = View(jundo, a.upk) /\ "restart" \notin trial.ops
        /\ \A r \in tail + 1 .. revision - 2 : undo[r] # NoEntry => View(ju, undo[r].upk) = View(jundo, undo[r].upk)
    BY <1>2, SquashPair
  <1>4. e = [map |-> "Removed", upk |-> a.upk, val |-> a.val, svc |-> a.svc]
    OBVIOUS
  <1> HIDE DEF e
  <1>5. e \in Entries /\ e.map = "Removed" /\ e.upk = a.upk /\ e.val = a.val /\ e.svc = a.svc
    BY <1>3, <1>4 DEF Entries, Recs
  <1> HIDE DEF ju, m, a
  <1>6. Describes(View(ju, e.upk), e, m)
    BY <1>1, <1>3, <1>5 DEF Describes
  <1>7. Restores(e, snaps[m], row)
    BY <1>1, <1>3, <1>5 DEF Restores
  <1> HIDE DEF b
  <1> QED BY <1>1, <1>3, <1>5, <1>6, <1>7, StackFacts, SquashStep DEF m

\* Every squash
LEMMA SquashAllSteps ==
    ASSUME IInv, ReloadsExactly, trial' = trial, Squash
    PROVE  IInv'
  <1>1. "squash" \in trial.ops /\ revision > tail
    BY DEF Squash
  <1>2. CASE undo[revision] = NoEntry
    BY <1>1, <1>2, SquashNothing DEF Squash
  <1>3. CASE undo[revision] # NoEntry /\ SquashCommitted(undo[revision])
    BY <1>1, <1>3, SquashCommittedStep
  <1>4. CASE undo[revision] # NoEntry /\ revision - 1 > tail
             /\ SquashMove(undo[revision - 1], undo[revision])
    BY <1>1, <1>4, SquashMoveStep
  <1>5. CASE undo[revision] # NoEntry /\ revision - 1 > tail
             /\ (SquashUpdate(undo[revision - 1], undo[revision]) \/ SquashInsert(undo[revision - 1], undo[revision]))
    BY <1>1, <1>5, SquashUpdateStep, SquashInsertStep
  <1>6. CASE undo[revision] # NoEntry /\ revision - 1 > tail
             /\ (SquashNewRemove(undo[revision - 1], undo[revision])
                 \/ SquashOldRemove(undo[revision - 1], undo[revision]))
    BY <1>1, <1>6, SquashNewRemoveStep, SquashOldRemoveStep
  <1> QED BY <1>2, <1>3, <1>4, <1>5, <1>6 DEF Squash

-----------------------------------------------------------------------------
\* Commit, flush and restart

\* The oldest sessions are committed and their undo documents removed.
LEMMA CommitStep ==
    ASSUME IInv, trial' = trial, NEW c, Commit(c)
    PROVE  IInv'
  <1> DEFINE n == revision
             es == EntriesUpTo(c)
             upks == {e.upk : e \in es}
             src == Op("Remove", NoRow)
             k == WriteUndos(jundo, upks, src)
  <1>1. /\ c \in tail + 1 .. n /\ jundo' = k /\ tail' = c /\ revision' = n /\ row' = row
        /\ jdata' = jdata /\ data' = data /\ docs' = docs
        /\ undo' = [r \in c + 1 .. n |-> undo[r]] /\ snaps' = [r \in c + 1 .. n |-> snaps[r]]
    BY DEF Commit
  <1>2. /\ tail \in Nat /\ n \in Nat /\ row \in Rows \cup {NoRow} /\ TypeOK /\ IsJournal(jundo)
        /\ undo \in [tail + 1 .. n -> Entries \cup {NoEntry}]
        /\ snaps \in [tail + 1 .. n -> Rows \cup {NoRow}]
        /\ \A r \in tail + 1 .. n :
              Restores(undo[r], snaps[r], IF r = n THEN row ELSE snaps[r + 1])
        /\ \A r \in tail + 1 .. n : undo[r] # NoEntry => Describes(View(jundo, undo[r].upk), undo[r], r)
        /\ "squash" \notin trial.ops => \A u \in Nat : View(jundo, u) # NoRow =>
              \E r \in tail + 1 .. n : undo[r] # NoEntry /\ undo[r].upk = u
    BY StackFacts
  <1>3. /\ c \in Nat /\ c <= n
        /\ \A r \in c + 1 .. n : r \in tail + 1 .. n /\ r \notin tail + 1 .. c /\ (r # n => r + 1 \in c + 1 .. n)
        /\ \A r \in tail + 1 .. c : r \in tail + 1 .. n
        /\ \A r \in tail + 1 .. n : r \in tail + 1 .. c \/ r \in c + 1 .. n
    BY <1>1, <1>2
  <1>4. \A u : u \in upks <=> \E r \in tail + 1 .. c : undo[r] # NoEntry /\ undo[r].upk = u
    BY DEF EntriesUpTo
  <1> HIDE DEF n, es, upks, src
  <1>5. \A u \in upks : u \in Nat /\ View(jundo, u) # NoRow
    <2> SUFFICES ASSUME NEW u \in upks PROVE u \in Nat /\ View(jundo, u) # NoRow
      OBVIOUS
    <2>1. PICK r \in tail + 1 .. c : undo[r] # NoEntry /\ undo[r].upk = u
      BY <1>4
    <2> QED BY <1>2, <1>3, <2>1, EntryFacts DEF Describes
  <1>6. upks \in SUBSET Nat /\ upks \in SUBSET (DOMAIN docs \cup DOMAIN jundo)
    BY <1>2, <1>5, ViewType
  <1>7. IsFiniteSet(upks)
    <2>1. IsFiniteSet(DOMAIN docs \cup DOMAIN jundo)
      BY <1>2, FS_Union DEF TypeOK, IsJournal
    <2> QED BY <1>6, <2>1, FS_Subset
  <1>8. /\ IsOp(src, Values, Services) /\ src # NoOp
        /\ \A u \in upks : Matches(src, View(jundo, u)) /\ Apply(src, View(jundo, u)) = NoRow
    <2>1. \A d : d # NoRow => /\ IsOp(src, Values, Services) /\ src # NoOp
                              /\ Matches(src, d) /\ Apply(src, d) = NoRow
      BY RemoveWrite DEF src
    <2>2. IsOp(src, Values, Services) /\ src # NoOp
      BY DEF src, Op, IsOp, NoOp
    <2> QED BY <1>5, <2>1, <2>2
  <1>9. Written(jundo, k, upks, src)
    BY <1>2, <1>6, <1>7, <1>8, WriteUndosFacts
  <1> HIDE DEF k
  <1>10. /\ IsJournal(k) /\ \A u \in upks : View(k, u) = NoRow
         /\ \A u : u \notin upks => View(k, u) = View(jundo, u)
    BY <1>8, <1>9 DEF Written
  <1>11. /\ undo' \in [c + 1 .. n -> Entries \cup {NoEntry}] /\ snaps' \in [c + 1 .. n -> Rows \cup {NoRow}]
         /\ \A r \in c + 1 .. n : undo'[r] = undo[r] /\ snaps'[r] = snaps[r]
    BY <1>1, <1>2, <1>3
  <1>12. \A r \in c + 1 .. n : Restores(undo'[r], snaps'[r], IF r = n THEN row' ELSE snaps'[r + 1])
    BY <1>1, <1>2, <1>3, <1>11
  <1>13. NextStack
    BY <1>1, <1>2, <1>3, <1>11, <1>12 DEF NextStack
  <1>14. ASSUME NEW r \in c + 1 .. n, undo[r] # NoEntry PROVE undo[r].upk \notin upks
    <2> SUFFICES ASSUME undo[r].upk \in upks PROVE FALSE
      OBVIOUS
    <2>1. PICK q \in tail + 1 .. c : undo[q] # NoEntry /\ undo[q].upk = undo[r].upk
      BY <1>4
    <2>2. q \in tail + 1 .. n /\ r \in tail + 1 .. n /\ q # r
      BY <1>3
    <2> QED BY <1>14, <2>1, <2>2, UpkUnique DEF n
  <1>15. \A r \in c + 1 .. n : undo'[r] # NoEntry => Describes(View(k, undo'[r].upk), undo'[r], r)
    BY <1>2, <1>3, <1>10, <1>11, <1>14
  <1>16. ASSUME "squash" \notin trial.ops, NEW u \in Nat, View(k, u) # NoRow
         PROVE  \E r \in c + 1 .. n : undo'[r] # NoEntry /\ undo'[r].upk = u
    <2>1. u \notin upks /\ View(jundo, u) # NoRow
      BY <1>10, <1>16
    <2>2. PICK r \in tail + 1 .. n : undo[r] # NoEntry /\ undo[r].upk = u
      BY <1>2, <1>16, <2>1
    <2>3. r \in c + 1 .. n
      BY <1>3, <1>4, <2>1, <2>2
    <2> QED BY <1>11, <2>2, <2>3
  <1>17. NextDocs(jundo')
    BY <1>1, <1>10, <1>15, <1>16 DEF NextDocs
  <1> QED BY <1>1, <1>13, <1>17, StackFacts, KeepStep

\* The journal is applied.
LEMMA FlushStep ==
    ASSUME IInv, trial' = trial, Flush
    PROVE  IInv'
  <1>1. /\ data' = DataView /\ docs' = ApplyAll(jundo) /\ jdata' = NoOp /\ jundo' = NoDocs
        /\ revision' = revision /\ tail' = tail /\ undo' = undo /\ row' = row /\ snaps' = snaps
    BY DEF Flush, DocsView
  <1>2. DOMAIN jundo' = {}
    BY <1>1 DEF NoDocs
  <1>3. NextStack
    BY <1>1, StackFacts DEF NextStack
  <1>4. NextDocs(jundo)
    BY <1>1, StackFacts DEF NextDocs
  <1>5. /\ data' \in Rows \cup {NoRow} /\ data'.val = row'.val
        /\ "squash" \notin trial.ops => data' = row'
    BY <1>1, DataFacts, StackFacts DEF DataView
  <1> QED BY <1>1, <1>3, <1>4, <1>5, <1>2, CleanStep

\* A session is read back from its undo document.
LEMMA RestoredFacts ==
    ASSUME IInv, "restart" \in trial.ops, "squash" \notin trial.ops, NEW r \in tail + 1 .. revision
    PROVE  LET e == undo[r]
               d == View(jundo, e.upk)
           IN  /\ e = NoEntry => RestoredEntry(r) = NoEntry
               /\ e # NoEntry => /\ d.val = e.val /\ d.svc.rec = e.map
                                 /\ RestoredEntry(r) = [map |-> d.svc.rec, upk |-> e.upk, val |-> d.val, svc |-> d.svc]
  <1> DEFINE e == undo[r]
             d == View(jundo, e.upk)
             here == {u \in DOMAIN DocsView : DocsView[u].svc.rev = r}
  <1>1. /\ \A u : u \in DOMAIN DocsView <=> View(jundo, u) # NoRow
        /\ \A u \in DOMAIN DocsView : DocsView[u] = View(jundo, u)
        /\ DOMAIN DocsView \in SUBSET Nat
    BY StackFacts, ApplyAllFacts DEF DocsView
  <1>2. ASSUME NEW u \in here PROVE e # NoEntry /\ u = e.upk
    <2>1. View(jundo, u) # NoRow /\ View(jundo, u).svc.rev = r /\ u \in Nat
      BY <1>1
    <2>2. PICK q \in tail + 1 .. revision : undo[q] # NoEntry /\ undo[q].upk = u
      BY <2>1, StackFacts
    <2>3. View(jundo, u).svc.rev = q
      BY <2>2, StackFacts DEF Describes
    <2> QED BY <2>1, <2>2, <2>3
  <1>3. ASSUME e = NoEntry PROVE RestoredEntry(r) = NoEntry
    <2>1. here = {}
      BY <1>2, <1>3
    <2> QED BY <2>1 DEF RestoredEntry
  <1>4. ASSUME e # NoEntry
        PROVE  /\ d.val = e.val /\ d.svc.rec = e.map
               /\ RestoredEntry(r) = [map |-> d.svc.rec, upk |-> e.upk, val |-> d.val, svc |-> d.svc]
    <2>1. Describes(d, e, r)
      BY <1>4, StackFacts
    <2>2. d # NoRow /\ d.svc.rev = r /\ d.val = e.val /\ d.svc.rec = e.map
      BY <2>1 DEF Describes
    <2>3. e.upk \in here /\ DocsView[e.upk] = d
      BY <1>1, <2>2
    <2>4. here = {e.upk}
      BY <1>2, <2>3
    <2> DEFINE y == CHOOSE x \in here : TRUE
    <2>5. y = e.upk
      BY <2>4
    <2>6. RestoredEntry(r) = [map |-> DocsView[y].svc.rec, upk |-> y, val |-> DocsView[y].val, svc |-> DocsView[y].svc]
      BY <2>3 DEF RestoredEntry
    <2> HIDE DEF y
    <2> QED BY <2>2, <2>3, <2>5, <2>6
  <1> QED BY <1>3, <1>4

\* The node restarts.
LEMMA RestartStep ==
    ASSUME IInv, ReloadsExactly, trial' = trial, Restart
    PROVE  IInv'
  <1>1. /\ "restart" \in trial.ops /\ data' = DataView /\ docs' = ApplyAll(jundo) /\ row' = DataView
        /\ jdata' = NoOp /\ jundo' = NoDocs /\ revision' = revision /\ tail' = tail /\ snaps' = snaps
        /\ undo' = [r \in tail + 1 .. revision |-> RestoredEntry(r)]
    BY DEF Restart, DocsView
  <1>2. "squash" \notin trial.ops
    BY <1>1, StackFacts DEF ReloadsExactly
  <1>3. /\ tail \in Nat /\ revision \in Nat /\ tail <= revision
        /\ undo \in [tail + 1 .. revision -> Entries \cup {NoEntry}]
        /\ snaps \in [tail + 1 .. revision -> Rows \cup {NoRow}]
        /\ row \in Rows \cup {NoRow} /\ DataView = row
        /\ \A r \in tail + 1 .. revision :
              Restores(undo[r], snaps[r], IF r = revision THEN row ELSE snaps[r + 1])
        /\ \A r \in tail + 1 .. revision : undo[r] # NoEntry => Describes(View(jundo, undo[r].upk), undo[r], r)
        /\ \A u \in Nat : View(jundo, u) # NoRow =>
              \E r \in tail + 1 .. revision : undo[r] # NoEntry /\ undo[r].upk = u
    BY <1>2, StackFacts DEF DataView
  <1>4. ASSUME NEW r \in tail + 1 .. revision
        PROVE  /\ undo'[r] \in Entries \cup {NoEntry} /\ undo'[r].map = undo[r].map
               /\ undo[r] = NoEntry <=> undo'[r] = NoEntry
               /\ undo[r] # NoEntry => undo'[r].upk = undo[r].upk /\ undo'[r].val = undo[r].val
               /\ undo[r] # NoEntry => Describes(View(jundo, undo[r].upk), undo'[r], r)
    <2> DEFINE e == undo[r]
               d == View(jundo, e.upk)
               f == undo'[r]
    <2>1. f = RestoredEntry(r)
      BY <1>1
    <2>2. CASE e = NoEntry
      BY <1>1, <1>2, <2>1, <2>2, RestoredFacts
    <2>3. CASE e # NoEntry
      <3>1. /\ d.val = e.val /\ d.svc.rec = e.map
            /\ f = [map |-> d.svc.rec, upk |-> e.upk, val |-> d.val, svc |-> d.svc]
        BY <1>1, <1>2, <2>1, <2>3, RestoredFacts
      <3>2. Describes(d, e, r) /\ e \in Entries
        BY <1>3, <2>3
      <3>3. d \in UndoDocs
        BY <3>2, StackFacts, ViewType DEF Describes
      <3> HIDE DEF f, d
      <3>4. f.map = d.svc.rec /\ f.upk = e.upk /\ f.val = d.val /\ f.svc = d.svc
        BY <3>1
      <3>5. f \in Entries
        <4>1. d.svc \in Services /\ d.val \in Values /\ e.map \in Recs /\ e.upk \in Nat
          BY <3>2, <3>3 DEF UndoDocs, Documents, Entries
        <4> QED BY <3>1, <4>1 DEF Entries
      <3>6. f # NoEntry
        BY <3>5, EntryFacts DEF Entries, NoEntry, Recs
      <3>7. Describes(d, f, r)
        BY <3>1, <3>2, <3>4 DEF Describes
      <3> QED BY <2>3, <3>1, <3>4, <3>5, <3>6, <3>7 DEF f, d
    <2> QED BY <2>2, <2>3
  <1>5. undo' \in [tail + 1 .. revision -> Entries \cup {NoEntry}]
    BY <1>1, <1>4
  <1>6. ASSUME NEW r \in tail + 1 .. revision
        PROVE  Restores(undo'[r], snaps'[r], IF r = revision THEN row' ELSE snaps'[r + 1])
    <2>1. row' = row /\ snaps' = snaps
      BY <1>1, <1>3
    <2>2. Restores(undo[r], snaps[r], IF r = revision THEN row ELSE snaps[r + 1])
      BY <1>3
    <2>3. CASE undo[r] = NoEntry
      BY <1>4, <2>1, <2>2, <2>3
    <2>4. CASE undo[r] # NoEntry
      <3>1. undo'[r].map = undo[r].map /\ undo'[r].val = undo[r].val
        BY <1>4, <2>4
      <3> QED BY <2>1, <2>2, <3>1 DEF Restores
    <2> QED BY <2>3, <2>4
  <1>7. NextStack
    BY <1>1, <1>3, <1>5, <1>6 DEF NextStack
  <1>8. NextDocs(jundo)
    <2>1. \A r \in tail + 1 .. revision : undo'[r] # NoEntry => Describes(View(jundo, undo'[r].upk), undo'[r], r)
      BY <1>4
    <2>2. \A u \in Nat : View(jundo, u) # NoRow =>
             \E r \in tail + 1 .. revision : undo'[r] # NoEntry /\ undo'[r].upk = u
      BY <1>3, <1>4
    <2> QED BY <1>1, <2>1, <2>2, StackFacts DEF NextDocs
  <1>9. data' \in Rows \cup {NoRow} /\ data'.val = row'.val /\ data' = row'
    BY <1>1, <1>3
  <1>10. DOMAIN jundo' = {}
    BY <1>1 DEF NoDocs
  <1> QED BY <1>1, <1>7, <1>8, <1>9, <1>10, CleanStep

-----------------------------------------------------------------------------
\* The theorems

\* Every step keeps the invariant.
LEMMA NextIInv ==
    ASSUME IInv, ReloadsExactly, [Next]_vars
    PROVE  IInv'
  <1>1. CASE UNCHANGED vars
    <2>1. /\ trial' = trial /\ revision' = revision /\ tail' = tail /\ undo' = undo /\ snaps' = snaps
          /\ row' = row /\ jdata' = jdata /\ jundo' = jundo /\ data' = data /\ docs' = docs
      BY <1>1 DEF vars
    <2>2. NextStack
      BY <2>1, StackFacts DEF NextStack
    <2>3. NextDocs(jundo')
      BY <2>1, StackFacts DEF NextDocs
    <2> QED BY <2>1, <2>2, <2>3, StackFacts, KeepStep
  <1>2. ASSUME Next PROVE IInv'
    <2>1. trial' = trial /\ Step
      BY <1>2 DEF Next
    <2>2. ASSUME NEW v \in Vals, NEW p \in trial.payers, Insert(v, p) \/ Update(v, p) PROVE IInv'
      BY <2>1, <2>2, InsertStep, UpdateStep
    <2>3. ASSUME NEW c \in 1 .. MaxRevision, Commit(c) PROVE IInv'
      BY <2>1, <2>3, CommitStep
    <2>4. CASE StartSession \/ Remove \/ Undo
      BY <2>1, <2>4, StartStep, RemoveStep, UndoStep
    <2>5. CASE Squash \/ Flush \/ Restart
      BY <2>1, <2>5, SquashAllSteps, FlushStep, RestartStep
    <2> QED BY <2>1, <2>2, <2>3, <2>4, <2>5 DEF Step
  <1> QED BY <1>1, <1>2

\* The invariant holds in every state of a node that does not restart between squashes or
\* after a row was inserted again.
THEOREM JournalInvariant ==
    ASSUME ReloadsExactly
    PROVE  Spec => []IInv
  <1>1. IInv /\ [Next]_vars => IInv'
    BY NextIInv
  <1> QED BY <1>1, InitIInv, PTL DEF Spec

\* The merge of pending writes meets no combination it does not know, whatever the sequence
\* of writes, squashes, commits, undone sessions and flushes (journal.cpp _detail::write).
THEOREM NeverThrows ==
    ASSUME ReloadsExactly
    PROVE  Spec => []JournalNeverThrows
  <1>1. IInv => JournalNeverThrows
    <2>1. \A o, V, S : IsOp(o, V, S) => o # Throw
      <3>1. NoOp # Throw /\ Throw.op = "Throw"
        BY DEF NoOp, Throw
      <3> QED BY <3>1 DEF IsOp
    <2> QED BY <2>1 DEF IInv, TypeOK, IsJournal, JournalNeverThrows
  <1> QED BY <1>1, JournalInvariant, PTL

\* Whenever the journal is applied, each of its writes finds the document it needs
\* (mongo_driver.cpp execute_bulk).
THEOREM FlushesMatch ==
    ASSUME ReloadsExactly
    PROVE  Spec => []FlushMatches
  <1>1. IInv => FlushMatches
    BY DEF IInv, TypeOK, IsJournal, FlushMatches
  <1> QED BY <1>1, JournalInvariant, PTL

\* The database with the pending writes holds the value and the payer of the cache, when
\* sessions are squashed in trials with one payer.
THEOREM RowsInSync ==
    ASSUME ReloadsExactly, OnePayer
    PROVE  Spec => []RowInSync
  <1>1. ASSUME IInv PROVE RowInSync
    <2>1. /\ DataView \in Rows \cup {NoRow} /\ (DataView = NoRow <=> row = NoRow) /\ DataView.val = row.val
          /\ \A x \in Rows : x.svc \in trial.payers
      BY <1>1, DataFacts DEF IInv, InSync
    <2>2. row \in Rows \cup {NoRow} /\ trial \in Trials /\ ("squash" \notin trial.ops => DataView = row)
      BY <1>1 DEF IInv, TypeOK, InSync
    <2>3. DataView.svc = row.svc
      <3>1. CASE "squash" \in trial.ops /\ row # NoRow
        <4>1. DataView.svc \in trial.payers /\ row.svc \in trial.payers
          BY <2>1, <2>2, <3>1
        <4> QED BY <2>2, <3>1, <4>1 DEF OnePayer
      <3>2. CASE "squash" \notin trial.ops \/ row = NoRow
        BY <2>1, <2>2, <3>2
      <3> QED BY <3>1, <3>2
    <2> QED BY <2>1, <2>3 DEF RowInSync
  <1> QED BY <1>1, JournalInvariant, PTL

\* Each entry in memory has its undo document, with the same revision and payer to restore
\* (undo_state.cpp, the writes of write_undo).
THEOREM DocumentsMatch ==
    ASSUME ReloadsExactly
    PROVE  Spec => []DocsMatch
  <1>1. ASSUME IInv PROVE DocsMatch
    <2> SUFFICES ASSUME NEW r \in DOMAIN undo, undo[r] # NoEntry
                 PROVE  LET e == undo[r] IN
                        /\ e \in Entry /\ e.svc.rev = r
                        /\ e.upk \in DOMAIN DocsView
                        /\ LET d == DocsView[e.upk] IN
                           /\ d.svc.rev = r
                           /\ d.svc.upay = e.svc.upay
                           /\ d.svc.rec = e.svc.rec
                           /\ d.val = e.val \/ (e.map # "New" /\ d.val = NoVal)
                           /\ d.svc.rec = e.map \/ (d.svc.rec = "Old" /\ e.map = "Removed")
      BY DEF DocsMatch
    <2> DEFINE e == undo[r]
               d == View(jundo, e.upk)
    <2>1. e \in Entries /\ Describes(d, e, r)
      BY <1>1, StackFacts
    <2>2. e \in Entry
      <3>1. trial.payers \subseteq Payers
        BY <1>1, TrialsAssumption DEF IInv, TypeOK
      <3>2. Services \subseteq Service
        BY <3>1 DEF Services, Service
      <3> QED BY <2>1, <3>2 DEF Entries, Entry, Values
    <2>3. e.upk \in DOMAIN DocsView /\ DocsView[e.upk] = d
      <3>1. d # NoRow
        BY <2>1 DEF Describes
      <3> QED BY <1>1, <3>1, StackFacts, ApplyAllFacts DEF DocsView
    <2> HIDE DEF d
    <2> QED BY <2>1, <2>2, <2>3 DEF Describes
  <1> QED BY <1>1, JournalInvariant, PTL

\* Without squashes no undo document of a committed revision outlives commit(), also after
\* restarts (undo_stack_impl::commit).
THEOREM CommitsDiscard ==
    ASSUME ReloadsExactly
    PROVE  Spec => []CommitDiscards
  <1>1. ASSUME IInv PROVE CommitDiscards
    <2> SUFFICES ASSUME "squash" \notin trial.ops, NEW u \in DOMAIN DocsView
                 PROVE  DocsView[u].svc.rev > tail
      BY DEF CommitDiscards
    <2>1. View(jundo, u) # NoRow /\ u \in Nat /\ DocsView[u] = View(jundo, u)
      BY <1>1, StackFacts, ApplyAllFacts DEF DocsView
    <2>2. PICK r \in tail + 1 .. revision : undo[r] # NoEntry /\ undo[r].upk = u
      BY <1>1, <2>1, StackFacts
    <2>3. DocsView[u].svc.rev = r
      BY <1>1, <2>1, <2>2, StackFacts DEF Describes
    <2>4. r > tail
      BY <1>1, StackFacts
    <2> QED BY <2>3, <2>4
  <1> QED BY <1>1, JournalInvariant, PTL

\* Undo brings the row, in the cache and in the database, back to the value it had when the
\* session started (undo_stack::undo).
THEOREM UndoRestoresRow ==
    ASSUME ReloadsExactly
    PROVE  Spec => UndoRestores
  <1>1. ASSUME IInv, revision > tail, Undo
        PROVE  /\ data'.val = snaps[revision].val
               /\ row'.val = snaps[revision].val
               /\ (data' = NoRow) <=> (snaps[revision] = NoRow)
    <2>1. /\ data' \in Rows \cup {NoRow} /\ row'.val = snaps[revision].val /\ data'.val = row'.val
      BY <1>1, UndoFacts
    <2>2. snaps[revision] \in Rows \cup {NoRow}
      BY <1>1, SquashFacts
    <2> QED BY <1>1, <2>1, <2>2, DataFacts
  <1>2. ASSUME IInv
        PROVE  [revision > tail /\ Undo => /\ data'.val = snaps[revision].val
                                           /\ row'.val = snaps[revision].val
                                           /\ (data' = NoRow) <=> (snaps[revision] = NoRow)]_vars
    BY <1>1, <1>2
  <1> QED BY <1>2, JournalInvariant, PTL DEF Spec, UndoRestores
=============================================================================
