------------------------ MODULE TransactionFlowProofs ------------------------
(***************************************************************************)
(* Proofs about transactions on a node that produces, for any programs,    *)
(* delays, expirations and numbers of transactions and blocks: a block     *)
(* that was made by the rules is applied with the same outcome, no id      *)
(* takes effect twice, a delayed transaction is scheduled until it is      *)
(* retired, and what was accepted is not lost.                             *)
(***************************************************************************)
EXTENDS TransactionFlow, FiniteSetTheorems, TLAPS

-----------------------------------------------------------------------------
\* Types

Progs == Trxs \cup Made
IdSet == [prog : Progs, at : Nat]
ReceiptSet == [id : IdSet, status : {"executed", "delayed", "hard_fail", "expired"}, packed : BOOLEAN]
KnownSet == [id : IdSet, expires : Nat]
RowSet == [id : IdSet, key : [sender : BOOLEAN, prog : Progs], published : Nat, delay_until : Nat, expiration : Nat]
Dbs == [dedup : SUBSET KnownSet, gtos : SUBSET RowSet, ran : SUBSET Progs]
BlockSet == [db : Dbs, receipts : Seq(ReceiptSet), trxs : Seq(IdSet)]

\* The ids of input transactions and of those that were made by others
TrxIds == {id \in IdSet : id.prog \in Trxs => id.at = 0}

-----------------------------------------------------------------------------
\* Receipts and the database

Nested == {Does[p].prog : p \in {q \in Progs : Does[q].op = "nest"}}
Sent == {Does[p].prog : p \in {q \in Progs : Does[q].op \in {"defer", "replace"}}}

\* A nested and a deferred transaction with the same contents, made in one block, have the
\* same id: their hashes tell nothing else apart.  The programs that are made both ways:
Shared == Nested \cap Sent

\* What the receipts L of a chain say is in its database at this slot.
\* Inputs are known as long as they are not expired.
InputsKnown(db, L, slot) ==
    /\ \A x \in L : x.id.at = 0 =>
          x.id.prog \in Trxs /\ (is_known_unexpired_transaction(db, x.id) \/ Expires[x.id.prog] < slot)
    /\ \A e \in db.dedup : e.id.at = 0 => e.id.prog \in Trxs /\ e.expires = Expires[e.id.prog]

\* A row is found by the sender of its transaction and by its id.
RowsUnique(db) ==
    /\ \A g \in db.gtos : g.key = IF g.id.at = 0 THEN [sender |-> FALSE, prog |-> g.id.prog] ELSE KeyOf(g.id.prog)
    /\ \A g, h \in db.gtos : g.key = h.key => g = h

\* Inputs are scheduled from the receipt that delays them to the one that retires them.
DelayedRows(db, L) ==
    /\ \A g \in db.gtos : g.id.at = 0 =>
          /\ \E x \in L : x.id = g.id /\ x.status = "delayed"
          /\ \A x \in L : x.id = g.id => x.status = "delayed"
    /\ \A x \in L : x.id.at = 0 /\ x.status = "delayed" =>
          (\E g \in db.gtos : g.id = x.id) \/ (\E y \in L : y.id = x.id /\ y.status # "delayed")

\* Made transactions: those of this slot that have receipts are nested ones.
MadeReceipts(db, L, slot) ==
    \A x \in L : x.id.at # 0 =>
        /\ x.id.at <= slot /\ x.status # "delayed"
        /\ x.id.at = slot => is_known_unexpired_transaction(db, x.id) /\ x.id.prog \in Nested

MadeRows(db, L, slot) ==
    \A g \in db.gtos : g.id.at # 0 =>
        /\ g.id.at = g.published /\ g.id.at <= slot /\ g.id.prog \in Sent
        /\ g.id.prog \notin Shared => \A x \in L : x.id # g.id

Books(db, L, slot) ==
    /\ InputsKnown(db, L, slot)
    /\ RowsUnique(db)
    /\ DelayedRows(db, L)
    /\ MadeReceipts(db, L, slot)
    /\ MadeRows(db, L, slot)

BooksOf(db, K, slot) ==
    db \in Dbs /\ K \subseteq ReceiptSet /\ slot \in Nat /\ 0 < slot /\ Books(db, K, slot)

\* The receipt r may follow those of L.
Fresh(L, r) ==
    r.id.prog \notin Shared => \A x \in L : x.id = r.id => x.status = "delayed" /\ r.status \in Retired

Once(L, rs) == \A k \in DOMAIN rs : Fresh(L \cup {rs[j] : j \in 1 .. k - 1}, rs[k])

-----------------------------------------------------------------------------
\* Blocks

\* What apply_block comes to when it has made b again
Accepted(b) == [b |-> b, ok |-> TRUE, wait |-> NoId, failed |-> {}]

Extends(rs, qs) == Len(qs) <= Len(rs) /\ \A i \in 1 .. Len(qs) : rs[i] = qs[i]

\* A block that begins with the receipts of b makes b on db.
Reproduces(db, slot, b) ==
    \A rs \in Seq(ReceiptSet) : Extends(rs, b.receipts) =>
        ApplyReceipts(db, slot, rs)[Len(b.receipts)] = Accepted(b)

\* The transactions of a block are those of its receipts.
Match(b) ==
    /\ ToSet(b.trxs) \subseteq TrxIds
    /\ {id \in ToSet(b.trxs) : id.prog \in Trxs} = Packed(b.receipts)

\* b is a block after the receipts L, made by the rules so far.
Regular(b, L, slot) ==
    /\ b \in BlockSet
    /\ BooksOf(b.db, L \cup ToSet(b.receipts), slot)
    /\ Once(L, b.receipts)
    /\ Match(b)

\* It builds on db, and whoever has its receipts makes it again.
Sound(b, db, L, slot) == Regular(b, L, slot) /\ Reproduces(db, slot, b)

-----------------------------------------------------------------------------
\* The inductive invariant

ChainBlocks == [slot : Nat, receipts : Seq(ReceiptSet), trxs : Seq(IdSet), db : Dbs]

\* The block of the chain that b becomes; ts are the transactions that are kept with it.
Stored(slot, b, ts) == [slot |-> slot, receipts |-> b.receipts, trxs |-> ts, db |-> b.db]

PastTo(c, i) == UNION {ToSet(c[j].receipts) : j \in 1 .. i}
Past(c) == PastTo(c, Len(c))

ChainOk(c) ==
    /\ c \in Seq(ChainBlocks) /\ Len(c) > 0
    /\ \A i \in 1 .. Len(c) :
          /\ Books(c[i].db, PastTo(c, i), c[i].slot)
          /\ Once(PastTo(c, i - 1), c[i].receipts)
          /\ ToSet(c[i].trxs) \subseteq TrxIds
    /\ \A i \in 1 .. Len(c) - 1 : c[i].slot < c[i + 1].slot

\* The last block can be applied again.
LastOk(c) ==
    Len(c) > 1 =>
        \E b \in BlockSet :
            /\ b.db = c[Len(c)].db /\ b.receipts = c[Len(c)].receipts
            /\ apply_block(c[Len(c) - 1].db, c[Len(c)].slot, c[Len(c)].receipts) = Accepted(b)

PendingOk ==
    /\ \A p, q \in pending : p = q
    /\ \A p \in pending : p.slot \in Nat /\ head.slot < p.slot /\ Sound(p.b, head.db, Past(chain), p.slot)

TypeOK ==
    /\ unapplied \subseteq TrxIds
    /\ incoming \in Seq(Trxs)
    /\ told \subseteq Trxs
    /\ gone \subseteq TrxIds

IInv == TypeOK /\ ChainOk(chain) /\ LastOk(chain) /\ PendingOk /\ refused = {} /\ NothingLost

-----------------------------------------------------------------------------
\* Recursive functions

\* A set of natural numbers has a least one.
LEMMA NatMin ==
    ASSUME NEW S, S \subseteq Nat, S # {}
    PROVE  \E x \in S : \A y \in S : x <= y
  <1> DEFINE R == OpToRel(<, Nat)
  <1>1. PICK x \in S : \A y \in S : ~ (<<y, x>> \in R)
    <2> HIDE DEF R
    <2>1. IsWellFoundedOn(R, Nat)
      BY NatLessThanWellFounded DEF R
    <2> QED BY <2>1, WFMin
  <1>2. \A y \in S : x <= y
    <2> SUFFICES ASSUME NEW y \in S, y < x PROVE FALSE
      BY SMT
    <2>1. <<y, x>> \in R
      BY DEF OpToRel
    <2> QED BY <1>1, <2>1
  <1> QED BY <1>2

\* A set that has 0 and with each number the next one has all up to k.
LEMMA Climb ==
    ASSUME NEW k \in Nat, NEW S, 0 \in S, \A i \in 1 .. k : i - 1 \in S => i \in S
    PROVE  \A i \in 0 .. k : i \in S
  <1> SUFFICES ASSUME NEW j \in 0 .. k, j \notin S PROVE FALSE
    OBVIOUS
  <1> DEFINE T == {i \in Nat : i <= k /\ i \notin S}
  <1>1. T # {} /\ T \subseteq Nat
    OBVIOUS
  <1>2. PICK x \in T : \A y \in T : x <= y
    <2> HIDE DEF T
    <2> QED BY <1>1, NatMin
  <1>3. x \in Nat /\ x <= k /\ x \notin S /\ x # 0
    OBVIOUS
  <1>4. x - 1 \in Nat /\ x - 1 < x /\ x \in 1 .. k
    BY <1>3
  <1>5. x - 1 \in S
    BY <1>2, <1>4
  <1> QED BY <1>3, <1>4, <1>5

\* ApplyReceipts does one receipt after the other.
LEMMA ReceiptSteps ==
    ASSUME NEW db, NEW slot, NEW rs, Len(rs) \in Nat
    PROVE  LET f == ApplyReceipts(db, slot, rs) IN
           /\ f[0] = Accepted(start_block(db, slot))
           /\ \A i \in 1 .. Len(rs) : f[i] = ApplyReceipt(f[i - 1], rs[i], slot, rs)
  <1> DEFINE n == Len(rs)
             a == Accepted(start_block(db, slot))
             G(v, i) == ApplyReceipt(v, rs[i], slot, rs)
             R(k, f) == [i \in 0 .. k |-> IF i = 0 THEN a ELSE G(f[i - 1], i)]
             step == CHOOSE f : f = R(n, f)
             S == {k \in 0 .. n : \E f : f = R(k, f)}
  <1>1. ApplyReceipts(db, slot, rs) = step
    BY DEF ApplyReceipts, Accepted
  <1> HIDE DEF a, G
  <1>2. 0 \in S
    <2>1. [i \in 0 .. 0 |-> a] = R(0, [i \in 0 .. 0 |-> a])
      OBVIOUS
    <2> HIDE DEF R
    <2>2. \E f : f = R(0, f)
      BY <2>1, Zenon
    <2> QED BY <2>2
  <1>3. ASSUME NEW k \in 1 .. n, k - 1 \in S PROVE k \in S
    <2>1. PICK f : f = R(k - 1, f)
      BY <1>3
    <2> DEFINE h == [i \in 0 .. k |-> IF i = k THEN G(f[k - 1], k) ELSE f[i]]
    <2>2. h = R(k, h)
      BY <2>1
    <2> HIDE DEF R, h
    <2>3. \E z : z = R(k, z)
      BY <2>2, Zenon
    <2> QED BY <2>3
  <1>4. n \in S
    <2> HIDE DEF S
    <2>1. \A k \in 0 .. n : k \in S
      BY <1>2, <1>3, Climb
    <2> QED BY <2>1
  <1>5. step = R(n, step)
    BY <1>4
  <1> HIDE DEF step
  <1>6. step[0] = a /\ \A i \in 1 .. n : step[i] = G(step[i - 1], i)
    BY <1>5
  <1> QED BY <1>1, <1>6 DEF a, G

\* Unapplied transactions are tried one after the other.
UnappliedRun(f, o, order, slot) ==
    /\ f[0] = o
    /\ \A i \in 1 .. Len(order) : f[i] = TryUnapplied(f[i - 1], order[i], slot)
    /\ ApplyUnapplied(o, order, slot) = f[Len(order)]

\* Such a run exists: the recursive function of ApplyUnapplied has its equations.
LEMMA UnappliedSteps ==
    ASSUME NEW o, NEW order, NEW slot, Len(order) \in Nat
    PROVE  \E f : UnappliedRun(f, o, order, slot)
  <1> DEFINE n == Len(order)
             a == o
             G(v, i) == TryUnapplied(v, order[i], slot)
             R(k, f) == [i \in 0 .. k |-> IF i = 0 THEN a ELSE G(f[i - 1], i)]
             step == CHOOSE f : f = R(n, f)
             S == {k \in 0 .. n : \E f : f = R(k, f)}
  <1>1. ApplyUnapplied(o, order, slot) = step[n]
    BY DEF ApplyUnapplied
  <1> HIDE DEF a, G
  <1>2. 0 \in S
    <2>1. [i \in 0 .. 0 |-> a] = R(0, [i \in 0 .. 0 |-> a])
      OBVIOUS
    <2> HIDE DEF R
    <2>2. \E f : f = R(0, f)
      BY <2>1, Zenon
    <2> QED BY <2>2
  <1>3. ASSUME NEW k \in 1 .. n, k - 1 \in S PROVE k \in S
    <2>1. PICK f : f = R(k - 1, f)
      BY <1>3
    <2> DEFINE h == [i \in 0 .. k |-> IF i = k THEN G(f[k - 1], k) ELSE f[i]]
    <2>2. h = R(k, h)
      BY <2>1
    <2> HIDE DEF R, h
    <2>3. \E z : z = R(k, z)
      BY <2>2, Zenon
    <2> QED BY <2>3
  <1>4. n \in S
    <2> HIDE DEF S
    <2>1. \A k \in 0 .. n : k \in S
      BY <1>2, <1>3, Climb
    <2> QED BY <2>1
  <1>5. step = R(n, step)
    BY <1>4
  <1> HIDE DEF step
  <1>6. step[0] = a /\ \A i \in 1 .. n : step[i] = G(step[i - 1], i)
    BY <1>5
  <1>7. \E f : f[0] = a /\ (\A i \in 1 .. n : f[i] = G(f[i - 1], i)) /\ step[n] = f[n]
    BY <1>6, Zenon
  <1>8. \E f : UnappliedRun(f, o, order, slot)
    BY <1>1, <1>7, Zenon DEF a, G, UnappliedRun
  <1> QED BY <1>8

\* Scheduled transactions are tried one after the other.
ScheduledRun(f, b, order, slot) ==
    /\ f[0] = b
    /\ \A i \in 1 .. Len(order) : f[i] = TryScheduled(f[i - 1], order[i], slot)
    /\ ApplyScheduled(b, order, slot) = f[Len(order)]

\* The same for ApplyScheduled
LEMMA ScheduledSteps ==
    ASSUME NEW b, NEW order, NEW slot, Len(order) \in Nat
    PROVE  \E f : ScheduledRun(f, b, order, slot)
  <1> DEFINE n == Len(order)
             a == b
             G(v, i) == TryScheduled(v, order[i], slot)
             R(k, f) == [i \in 0 .. k |-> IF i = 0 THEN a ELSE G(f[i - 1], i)]
             step == CHOOSE f : f = R(n, f)
             S == {k \in 0 .. n : \E f : f = R(k, f)}
  <1>1. ApplyScheduled(b, order, slot) = step[n]
    BY DEF ApplyScheduled
  <1> HIDE DEF a, G
  <1>2. 0 \in S
    <2>1. [i \in 0 .. 0 |-> a] = R(0, [i \in 0 .. 0 |-> a])
      OBVIOUS
    <2> HIDE DEF R
    <2>2. \E f : f = R(0, f)
      BY <2>1, Zenon
    <2> QED BY <2>2
  <1>3. ASSUME NEW k \in 1 .. n, k - 1 \in S PROVE k \in S
    <2>1. PICK f : f = R(k - 1, f)
      BY <1>3
    <2> DEFINE h == [i \in 0 .. k |-> IF i = k THEN G(f[k - 1], k) ELSE f[i]]
    <2>2. h = R(k, h)
      BY <2>1
    <2> HIDE DEF R, h
    <2>3. \E z : z = R(k, z)
      BY <2>2, Zenon
    <2> QED BY <2>3
  <1>4. n \in S
    <2> HIDE DEF S
    <2>1. \A k \in 0 .. n : k \in S
      BY <1>2, <1>3, Climb
    <2> QED BY <2>1
  <1>5. step = R(n, step)
    BY <1>4
  <1> HIDE DEF step
  <1>6. step[0] = a /\ \A i \in 1 .. n : step[i] = G(step[i - 1], i)
    BY <1>5
  <1>7. \E f : f[0] = a /\ (\A i \in 1 .. n : f[i] = G(f[i - 1], i)) /\ step[n] = f[n]
    BY <1>6, Zenon
  <1>8. \E f : ScheduledRun(f, b, order, slot)
    BY <1>1, <1>7, Zenon DEF a, G, ScheduledRun
  <1> QED BY <1>8

\* The first of the queue are tried one after the other.
PendingRun(f, o, fits, slot) ==
    /\ f[0] = [o EXCEPT !.incoming = SubSeq(@, Len(fits) + 1, Len(@))]
    /\ \A i \in 1 .. Len(fits) : f[i] = ProcessIncoming(f[i - 1], o.incoming[i], fits[i], slot)
    /\ ProcessPending(o, fits, slot) = f[Len(fits)]

\* The same for ProcessPending
LEMMA PendingSteps ==
    ASSUME NEW o, NEW fits, NEW slot, Len(fits) \in Nat
    PROVE  \E f : PendingRun(f, o, fits, slot)
  <1> DEFINE n == Len(fits)
             a == [o EXCEPT !.incoming = SubSeq(@, Len(fits) + 1, Len(@))]
             G(v, i) == ProcessIncoming(v, o.incoming[i], fits[i], slot)
             R(k, f) == [i \in 0 .. k |-> IF i = 0 THEN a ELSE G(f[i - 1], i)]
             step == CHOOSE f : f = R(n, f)
             S == {k \in 0 .. n : \E f : f = R(k, f)}
  <1>1. ProcessPending(o, fits, slot) = step[n]
    BY DEF ProcessPending
  <1> HIDE DEF a, G
  <1>2. 0 \in S
    <2>1. [i \in 0 .. 0 |-> a] = R(0, [i \in 0 .. 0 |-> a])
      OBVIOUS
    <2> HIDE DEF R
    <2>2. \E f : f = R(0, f)
      BY <2>1, Zenon
    <2> QED BY <2>2
  <1>3. ASSUME NEW k \in 1 .. n, k - 1 \in S PROVE k \in S
    <2>1. PICK f : f = R(k - 1, f)
      BY <1>3
    <2> DEFINE h == [i \in 0 .. k |-> IF i = k THEN G(f[k - 1], k) ELSE f[i]]
    <2>2. h = R(k, h)
      BY <2>1
    <2> HIDE DEF R, h
    <2>3. \E z : z = R(k, z)
      BY <2>2, Zenon
    <2> QED BY <2>3
  <1>4. n \in S
    <2> HIDE DEF S
    <2>1. \A k \in 0 .. n : k \in S
      BY <1>2, <1>3, Climb
    <2> QED BY <2>1
  <1>5. step = R(n, step)
    BY <1>4
  <1> HIDE DEF step
  <1>6. step[0] = a /\ \A i \in 1 .. n : step[i] = G(step[i - 1], i)
    BY <1>5
  <1>7. \E f : f[0] = a /\ (\A i \in 1 .. n : f[i] = G(f[i - 1], i)) /\ step[n] = f[n]
    BY <1>6, Zenon
  <1>8. \E f : PendingRun(f, o, fits, slot)
    BY <1>1, <1>7, Zenon DEF a, G, PendingRun
  <1> QED BY <1>8

\* Another producer tries its transactions.
OtherRun(f, db, slot, ops) ==
    /\ f[0] = start_block(db, slot)
    /\ \A i \in 1 .. Len(ops) : f[i] = TryOther(f[i - 1], ops[i], slot)
    /\ OtherBlock(db, slot, ops) = f[Len(ops)]

\* The same for OtherBlock
LEMMA OtherSteps ==
    ASSUME NEW db, NEW slot, NEW ops, Len(ops) \in Nat
    PROVE  \E f : OtherRun(f, db, slot, ops)
  <1> DEFINE n == Len(ops)
             a == start_block(db, slot)
             G(v, i) == TryOther(v, ops[i], slot)
             R(k, f) == [i \in 0 .. k |-> IF i = 0 THEN a ELSE G(f[i - 1], i)]
             step == CHOOSE f : f = R(n, f)
             S == {k \in 0 .. n : \E f : f = R(k, f)}
  <1>1. OtherBlock(db, slot, ops) = step[n]
    BY DEF OtherBlock
  <1> HIDE DEF a, G
  <1>2. 0 \in S
    <2>1. [i \in 0 .. 0 |-> a] = R(0, [i \in 0 .. 0 |-> a])
      OBVIOUS
    <2> HIDE DEF R
    <2>2. \E f : f = R(0, f)
      BY <2>1, Zenon
    <2> QED BY <2>2
  <1>3. ASSUME NEW k \in 1 .. n, k - 1 \in S PROVE k \in S
    <2>1. PICK f : f = R(k - 1, f)
      BY <1>3
    <2> DEFINE h == [i \in 0 .. k |-> IF i = k THEN G(f[k - 1], k) ELSE f[i]]
    <2>2. h = R(k, h)
      BY <2>1
    <2> HIDE DEF R, h
    <2>3. \E z : z = R(k, z)
      BY <2>2, Zenon
    <2> QED BY <2>3
  <1>4. n \in S
    <2> HIDE DEF S
    <2>1. \A k \in 0 .. n : k \in S
      BY <1>2, <1>3, Climb
    <2> QED BY <2>1
  <1>5. step = R(n, step)
    BY <1>4
  <1> HIDE DEF step
  <1>6. step[0] = a /\ \A i \in 1 .. n : step[i] = G(step[i - 1], i)
    BY <1>5
  <1>7. \E f : f[0] = a /\ (\A i \in 1 .. n : f[i] = G(f[i - 1], i)) /\ step[n] = f[n]
    BY <1>6, Zenon
  <1>8. \E f : OtherRun(f, db, slot, ops)
    BY <1>1, <1>7, Zenon DEF a, G, OtherRun
  <1> QED BY <1>8

-----------------------------------------------------------------------------
\* The database after one more receipt.  K are the receipts so far.

\* Types of the parts of a database
LEMMA DbTypes ==
    ASSUME NEW db \in Dbs, NEW K, K \subseteq ReceiptSet
    PROVE  /\ \A e \in db.dedup : e.id.prog \in Progs /\ e.id.at \in Nat /\ e.expires \in Nat
           /\ \A g \in db.gtos : g.id.prog \in Progs /\ g.id.at \in Nat /\ g.published \in Nat /\ g.key.prog \in Progs
           /\ \A x \in K : x.id.prog \in Progs /\ x.id.at \in Nat
  BY DEF Dbs, KnownSet, RowSet, ReceiptSet, IdSet

\* Ids are their contents.
LEMMA SameId ==
    ASSUME NEW x \in IdSet, NEW y \in IdSet, x.prog = y.prog, x.at = y.at
    PROVE  x = y
  BY DEF IdSet

\* Rows with one id are the same.
LEMMA RowById ==
    ASSUME NEW db, RowsUnique(db), NEW g \in db.gtos, NEW h \in db.gtos, g.id = h.id
    PROVE  g = h
  BY DEF RowsUnique

\* A block begins: expired entries are forgotten.
LEMMA BooksStart ==
    ASSUME NEW db \in Dbs, NEW K, K \subseteq ReceiptSet, NEW s \in Nat, Books(db, K, s),
           NEW slot \in Nat, s < slot
    PROVE  BooksOf(clear_expired_input_transactions(db, slot), K, slot)
  <1> DEFINE d == clear_expired_input_transactions(db, slot)
  <1>1. d \in Dbs /\ d.gtos = db.gtos /\ d.dedup = {e \in db.dedup : slot <= e.expires}
    BY DEF clear_expired_input_transactions, Dbs
  <1> HIDE DEF d
  <1>2. /\ \A e \in db.dedup : e.id.prog \in Progs /\ e.id.at \in Nat /\ e.expires \in Nat
        /\ \A g \in db.gtos : g.id.prog \in Progs /\ g.id.at \in Nat
        /\ \A x \in K : x.id.prog \in Progs /\ x.id.at \in Nat
    BY DbTypes
  <1>3. InputsKnown(d, K, slot)
    <2>1. ASSUME NEW x \in K, x.id.at = 0
          PROVE  x.id.prog \in Trxs /\ (is_known_unexpired_transaction(d, x.id) \/ Expires[x.id.prog] < slot)
      <3>1. x.id.prog \in Trxs /\ (is_known_unexpired_transaction(db, x.id) \/ Expires[x.id.prog] < s)
        BY <2>1 DEF Books, InputsKnown
      <3>2. Expires[x.id.prog] \in Nat
        BY <3>1, ProgramsAssumption
      <3>3. CASE Expires[x.id.prog] < s
        BY <3>1, <3>2, <3>3
      <3>4. CASE is_known_unexpired_transaction(db, x.id)
        <4>1. PICK e \in db.dedup : e.id = x.id
          BY <3>4 DEF is_known_unexpired_transaction
        <4>2. e.expires = Expires[x.id.prog]
          BY <2>1, <4>1 DEF Books, InputsKnown
        <4>3. CASE slot <= e.expires
          BY <1>1, <3>1, <4>1, <4>3 DEF is_known_unexpired_transaction
        <4>4. CASE ~(slot <= e.expires)
          BY <3>1, <3>2, <4>2, <4>4
        <4> QED BY <4>3, <4>4
      <3> QED BY <3>1, <3>3, <3>4
    <2>2. \A e \in d.dedup : e.id.at = 0 => e.id.prog \in Trxs /\ e.expires = Expires[e.id.prog]
      BY <1>1 DEF Books, InputsKnown
    <2> QED BY <2>1, <2>2 DEF InputsKnown
  <1>4. RowsUnique(d)
    BY <1>1 DEF Books, RowsUnique
  <1>5. DelayedRows(d, K)
    BY <1>1 DEF Books, DelayedRows
  <1>6. MadeReceipts(d, K, slot)
    BY <1>2 DEF Books, MadeReceipts
  <1>7. MadeRows(d, K, slot)
    BY <1>1, <1>2 DEF Books, MadeRows
  <1> QED BY <1>1, <1>3, <1>4, <1>5, <1>6, <1>7 DEF Books, BooksOf, d

\* A row is retired.
LEMMA BooksRetire ==
    ASSUME NEW db, NEW K, NEW slot, BooksOf(db, K, slot), NEW g \in db.gtos, g.published < slot,
           NEW d \in Dbs, d.dedup = db.dedup, d.gtos = db.gtos \ {g},
           NEW r \in ReceiptSet, r.id = g.id, r.status \in Retired
    PROVE  BooksOf(d, K \cup {r}, slot) /\ Fresh(K, r)
  <1>1. db \in Dbs /\ K \subseteq ReceiptSet /\ slot \in Nat /\ 0 < slot /\ Books(db, K, slot)
    BY DEF BooksOf
  <1>2. /\ \A h \in db.gtos : h.id.prog \in Progs /\ h.id.at \in Nat /\ h.published \in Nat
        /\ \A x \in K : x.id.prog \in Progs /\ x.id.at \in Nat
    BY <1>1, DbTypes
  <1>3. \A h \in d.gtos : h \in db.gtos /\ h.id # g.id
    BY <1>1, RowById DEF Books
  <1>4. r.id.at = 0 => \E x \in K : x.id = r.id
    BY <1>1 DEF Books, DelayedRows
  <1>5. r.status # "delayed"
    BY DEF Retired
  <1>6. InputsKnown(d, K \cup {r}, slot)
    BY <1>1, <1>4 DEF Books, InputsKnown, is_known_unexpired_transaction
  <1>7. RowsUnique(d)
    BY <1>1, <1>3 DEF Books, RowsUnique
  <1>8. DelayedRows(d, K \cup {r})
    <2>1. ASSUME NEW h \in d.gtos, h.id.at = 0
          PROVE  /\ \E x \in K \cup {r} : x.id = h.id /\ x.status = "delayed"
                 /\ \A x \in K \cup {r} : x.id = h.id => x.status = "delayed"
      BY <1>1, <1>3, <2>1 DEF Books, DelayedRows
    <2>2. ASSUME NEW x \in K \cup {r}, x.id.at = 0, x.status = "delayed"
          PROVE  \/ \E h \in d.gtos : h.id = x.id
                 \/ \E y \in K \cup {r} : y.id = x.id /\ y.status # "delayed"
      <3>1. x \in K
        BY <1>5, <2>2
      <3>2. (\E h \in db.gtos : h.id = x.id) \/ (\E y \in K : y.id = x.id /\ y.status # "delayed")
        BY <1>1, <2>2, <3>1 DEF Books, DelayedRows
      <3>3. CASE x.id = g.id
        BY <1>5, <3>3
      <3>4. CASE x.id # g.id
        BY <3>2, <3>4
      <3> QED BY <3>3, <3>4
    <2> QED BY <2>1, <2>2 DEF DelayedRows
  <1>9. g.id.at # 0 => g.id.at < slot
    BY <1>1, <1>2 DEF Books, MadeRows
  <1>10. MadeReceipts(d, K \cup {r}, slot)
    <2>1. ASSUME NEW x \in K, x.id.at # 0
          PROVE  /\ x.id.at <= slot /\ x.status # "delayed"
                 /\ x.id.at = slot => is_known_unexpired_transaction(d, x.id) /\ x.id.prog \in Nested
      BY <1>1, <2>1 DEF Books, MadeReceipts, is_known_unexpired_transaction
    <2>2. r.id.at # 0 => r.id.at <= slot /\ r.id.at # slot
      BY <1>1, <1>2, <1>9
    <2> QED BY <1>5, <2>1, <2>2 DEF MadeReceipts
  <1>11. MadeRows(d, K \cup {r}, slot)
    BY <1>1, <1>3 DEF Books, MadeRows
  <1>12. Fresh(K, r)
    BY <1>1 DEF Books, Fresh, DelayedRows, MadeRows
  <1> QED BY <1>1, <1>6, <1>7, <1>8, <1>10, <1>11, <1>12 DEF Books, BooksOf

\* Keys of inputs and of deferred transactions
LEMMA Keys ==
    ASSUME NEW p, NEW q
    PROVE  KeyOf(p) # [sender |-> FALSE, prog |-> q] /\ [sender |-> FALSE, prog |-> q].prog = q
  BY DEF KeyOf

\* The key of a row, by its id
LEMMA RowKey ==
    ASSUME NEW db, RowsUnique(db), NEW g \in db.gtos
    PROVE  /\ g.id.at = 0 => g.key = [sender |-> FALSE, prog |-> g.id.prog]
           /\ g.id.at # 0 => g.key = KeyOf(g.id.prog)
  BY DEF RowsUnique

\* An input that is not expired and not known has no receipt yet, and no row.
LEMMA InputIsNew ==
    ASSUME NEW db, NEW K, NEW slot, BooksOf(db, K, slot), NEW t \in Trxs,
           ~is_known_unexpired_transaction(db, InputId(t)), slot <= Expires[t]
    PROVE  /\ \A x \in K : x.id # InputId(t)
           /\ \A g \in db.gtos : g.id # InputId(t)
  <1>1. InputId(t).at = 0 /\ InputId(t).prog = t
    BY DEF InputId
  <1>2. slot \in Nat /\ Expires[t] \in Nat /\ InputsKnown(db, K, slot) /\ DelayedRows(db, K)
    BY ProgramsAssumption DEF BooksOf, Books
  <1>3. ASSUME NEW x \in K, x.id = InputId(t) PROVE FALSE
    <2>1. is_known_unexpired_transaction(db, InputId(t)) \/ Expires[t] < slot
      BY <1>1, <1>2, <1>3 DEF InputsKnown
    <2> QED BY <1>2, <2>1
  <1>4. ASSUME NEW g \in db.gtos, g.id = InputId(t) PROVE FALSE
    BY <1>1, <1>2, <1>3, <1>4 DEF DelayedRows
  <1> QED BY <1>3, <1>4

\* An input is recorded and gets its receipt; a delayed one gets a row.
LEMMA BooksInput ==
    ASSUME NEW db, NEW K, NEW slot, BooksOf(db, K, slot), NEW t \in Trxs,
           ~is_known_unexpired_transaction(db, InputId(t)), slot <= Expires[t],
           NEW d \in Dbs, d.dedup = db.dedup \cup {[id |-> InputId(t), expires |-> Expires[t]]},
           NEW r \in ReceiptSet, r.id = InputId(t),
           \/ r.status = "executed" /\ d.gtos = db.gtos
           \/ /\ r.status = "delayed"
              /\ d.gtos = db.gtos \cup {Gto(InputId(t), [sender |-> FALSE, prog |-> t], slot, Delay[t])}
    PROVE  BooksOf(d, K \cup {r}, slot) /\ Fresh(K, r)
  <1> DEFINE id == InputId(t)
             g == Gto(id, [sender |-> FALSE, prog |-> t], slot, Delay[t])
             e == [id |-> id, expires |-> Expires[t]]
  <1>1. id.at = 0 /\ id.prog = t
    BY DEF InputId
  <1>2. db \in Dbs /\ K \subseteq ReceiptSet /\ slot \in Nat /\ 0 < slot /\ Books(db, K, slot)
    BY DEF BooksOf
  <1>3. /\ \A x \in K : x.id # id
        /\ \A h \in db.gtos : h.id # id
    BY InputIsNew
  <1>4. g.id = id /\ g.key = [sender |-> FALSE, prog |-> t]
    BY DEF Gto
  <1>5. e.id = id /\ e.expires = Expires[t]
    OBVIOUS
  <1>6. /\ db.gtos \subseteq d.gtos
        /\ \A h \in d.gtos : h \in db.gtos \/ (h = g /\ r.status = "delayed")
        /\ r.status = "delayed" => g \in d.gtos
    OBVIOUS
  <1>7. \A h \in db.gtos : h.id \in IdSet
    BY <1>2 DEF Dbs, RowSet
  <1>8. id \in IdSet
    BY DEF InputId, IdSet, Progs
  <1> HIDE DEF id, g, e
  <1>9. d.dedup = db.dedup \cup {e} /\ r.id = id
    BY DEF e, id
  <1>10. InputsKnown(d, K \cup {r}, slot)
    BY <1>1, <1>2, <1>5, <1>9 DEF Books, InputsKnown, is_known_unexpired_transaction
  <1>11. RowsUnique(d)
    <2>1. \A h \in d.gtos : h.key = IF h.id.at = 0 THEN [sender |-> FALSE, prog |-> h.id.prog] ELSE KeyOf(h.id.prog)
      BY <1>1, <1>2, <1>4, <1>6 DEF Books, RowsUnique
    <2>2. ASSUME NEW h \in db.gtos, h.key = g.key PROVE FALSE
      <3>1. h.id.at = 0 /\ h.id.prog = t
        <4> DEFINE other == [sender |-> FALSE, prog |-> h.id.prog]
        <4>1. RowsUnique(db)
          BY <1>2 DEF Books
        <4>2. KeyOf(h.id.prog) # g.key /\ g.key.prog = t /\ other.prog = h.id.prog
          BY <1>4, Keys
        <4>3. h.id.at = 0 /\ h.key = other
          BY <2>2, <4>1, <4>2, RowKey
        <4> QED BY <2>2, <4>2, <4>3
      <3>2. h.id = id
        BY <1>1, <1>7, <1>8, <3>1, SameId
      <3> QED BY <1>3, <3>2
    <2>3. \A h, k \in d.gtos : h.key = k.key => h = k
      BY <1>2, <1>6, <2>2 DEF Books, RowsUnique
    <2> QED BY <2>1, <2>3 DEF RowsUnique
  <1>12. DelayedRows(d, K \cup {r})
    BY <1>2, <1>3, <1>4, <1>6, <1>9 DEF Books, DelayedRows
  <1>13. MadeReceipts(d, K \cup {r}, slot)
    BY <1>1, <1>2, <1>9 DEF Books, MadeReceipts, is_known_unexpired_transaction
  <1>14. MadeRows(d, K \cup {r}, slot)
    BY <1>1, <1>2, <1>3, <1>4, <1>6, <1>9 DEF Books, MadeRows
  <1>15. Fresh(K, r)
    BY <1>3, <1>9 DEF Fresh
  <1> QED BY <1>2, <1>10, <1>11, <1>12, <1>13, <1>14, <1>15 DEF Books, BooksOf

\* A nested transaction is recorded and gets its receipt.
LEMMA BooksNested ==
    ASSUME NEW db, NEW K, NEW slot, BooksOf(db, K, slot), NEW p \in Nested,
           ~is_known_unexpired_transaction(db, MadeId(p, slot)),
           NEW d \in Dbs, d.dedup = db.dedup \cup {[id |-> MadeId(p, slot), expires |-> slot]}, d.gtos = db.gtos,
           NEW r \in ReceiptSet, r.id = MadeId(p, slot), r.status = "executed"
    PROVE  BooksOf(d, K \cup {r}, slot) /\ Fresh(K, r)
  <1> DEFINE id == MadeId(p, slot)
             e == [id |-> id, expires |-> slot]
  <1>1. id.at = slot /\ id.prog = p
    BY DEF MadeId
  <1>2. db \in Dbs /\ K \subseteq ReceiptSet /\ slot \in Nat /\ 0 < slot /\ Books(db, K, slot)
    BY DEF BooksOf
  <1>3. \A x \in K : x.id # id
    BY <1>1, <1>2 DEF Books, MadeReceipts
  <1>4. e.id = id
    OBVIOUS
  <1> HIDE DEF id, e
  <1>5. d.dedup = db.dedup \cup {e} /\ r.id = id
    BY DEF e, id
  <1>6. InputsKnown(d, K \cup {r}, slot)
    BY <1>1, <1>2, <1>4, <1>5 DEF Books, InputsKnown, is_known_unexpired_transaction
  <1>7. RowsUnique(d)
    BY <1>2 DEF Books, RowsUnique
  <1>8. DelayedRows(d, K \cup {r})
    BY <1>1, <1>2, <1>5 DEF Books, DelayedRows
  <1>9. MadeReceipts(d, K \cup {r}, slot)
    BY <1>1, <1>2, <1>4, <1>5 DEF Books, MadeReceipts, is_known_unexpired_transaction
  <1>10. MadeRows(d, K \cup {r}, slot)
    BY <1>1, <1>2, <1>5 DEF Books, MadeRows, Shared
  <1>11. Fresh(K, r)
    BY <1>3, <1>5 DEF Fresh
  <1> QED BY <1>2, <1>6, <1>7, <1>8, <1>9, <1>10, <1>11 DEF Books, BooksOf

\* What a program does to deferred transactions
LEMMA ExecFields ==
    ASSUME NEW db \in Dbs, NEW p \in Progs, NEW slot \in Nat
    PROVE  LET d == exec(db, p, slot)
               q == Does[p].prog
               kept == {h \in db.gtos : h.key # KeyOf(q)}
           IN  /\ d \in Dbs /\ d.dedup = db.dedup
               /\ \/ d.gtos = db.gtos \/ d.gtos = kept
                  \/ q \in Sent /\ d.gtos = kept \cup {Gto(MadeId(q, slot), KeyOf(q), slot, 0)}
  <1> DEFINE q == Does[p].prog
             g == Gto(MadeId(q, slot), KeyOf(q), slot, 0)
             kept == {h \in db.gtos : h.key # KeyOf(q)}
             ran == [db EXCEPT !.ran = @ \cup {p}]
             d == exec(db, p, slot)
  <1>1. q \in Progs /\ Does[p].op \in {"defer", "replace", "cancel", "nest"}
    BY ProgramsAssumption DEF Progs
  <1>2. g \in RowSet
    BY <1>1, ProgramsAssumption DEF Gto, MadeId, KeyOf, RowSet, IdSet
  <1>3. ran \in Dbs /\ ran.gtos = db.gtos /\ ran.dedup = db.dedup
    BY DEF Dbs
  <1> HIDE DEF ran, g, q
  <1>4. CASE Does[p].op \in {"defer", "replace"}
    <2>1. d = [ran EXCEPT !.gtos = {h \in @ : h.key # KeyOf(q)} \cup {g}]
      BY <1>4 DEF exec, schedule_deferred_transaction, ran, g, q
    <2>2. d \in Dbs /\ d.dedup = db.dedup /\ d.gtos = kept \cup {g}
      BY <1>2, <1>3, <2>1 DEF Dbs
    <2>3. q \in Sent
      BY <1>4 DEF Sent, q
    <2> QED BY <2>2, <2>3 DEF q, g
  <1>5. CASE Does[p].op = "cancel"
    <2>1. d = [ran EXCEPT !.gtos = {h \in @ : h.key # KeyOf(q)}]
      BY <1>5 DEF exec, cancel_deferred_transaction, ran, q
    <2>2. d \in Dbs /\ d.dedup = db.dedup /\ d.gtos = kept
      BY <1>3, <2>1 DEF Dbs
    <2> QED BY <2>2 DEF q
  <1>6. CASE Does[p].op = "nest"
    <2>1. d = ran
      BY <1>6 DEF exec, ran
    <2> QED BY <1>3, <2>1 DEF q
  <1> QED BY <1>1, <1>4, <1>5, <1>6

\* A program runs.
LEMMA BooksExec ==
    ASSUME NEW db, NEW K, NEW slot, BooksOf(db, K, slot), NEW p \in Progs
    PROVE  BooksOf(exec(db, p, slot), K, slot)
  <1> DEFINE d == exec(db, p, slot)
             q == Does[p].prog
             g == Gto(MadeId(q, slot), KeyOf(q), slot, 0)
             kept == {h \in db.gtos : h.key # KeyOf(q)}
  <1>1. db \in Dbs /\ K \subseteq ReceiptSet /\ slot \in Nat /\ 0 < slot /\ Books(db, K, slot)
    BY DEF BooksOf
  <1>2. d \in Dbs /\ d.dedup = db.dedup
    BY <1>1, ExecFields
  <1>3. d.gtos = db.gtos \/ d.gtos = kept \/ (q \in Sent /\ d.gtos = kept \cup {g})
    BY <1>1, ExecFields
  <1>4. g.id.at = slot /\ g.id.prog = q /\ g.published = slot /\ g.key = KeyOf(q)
    BY DEF Gto, MadeId
  <1> HIDE DEF d, q, g
  <1>5. /\ \A h \in d.gtos : h \in db.gtos \/ (h = g /\ q \in Sent)
        /\ \A h \in db.gtos : h.key # KeyOf(q) => h \in d.gtos
        /\ g \in d.gtos /\ d.gtos # db.gtos => \A h \in d.gtos : h = g \/ h.key # KeyOf(q)
    BY <1>3
  <1>6. InputsKnown(d, K, slot)
    BY <1>1, <1>2 DEF Books, InputsKnown, is_known_unexpired_transaction
  <1>7. RowsUnique(d)
    <2>1. \A h \in d.gtos : h.key = IF h.id.at = 0 THEN [sender |-> FALSE, prog |-> h.id.prog] ELSE KeyOf(h.id.prog)
      <3> SUFFICES ASSUME NEW h \in d.gtos
                   PROVE  /\ h.id.at = 0 => h.key = [sender |-> FALSE, prog |-> h.id.prog]
                          /\ h.id.at # 0 => h.key = KeyOf(h.id.prog)
        OBVIOUS
      <3>1. CASE h \in db.gtos
        BY <1>1, <3>1, RowKey DEF Books
      <3>2. CASE h = g
        BY <1>1, <1>4, <3>2
      <3> QED BY <1>5, <3>1, <3>2
    <2>2. \A h, k \in d.gtos : h.key = k.key => h = k
      BY <1>1, <1>3, <1>4 DEF Books, RowsUnique
    <2> QED BY <2>1, <2>2 DEF RowsUnique
  <1>8. \A h \in db.gtos : h.id.at = 0 => h \in d.gtos
    <2> SUFFICES ASSUME NEW h \in db.gtos, h.id.at = 0 PROVE h.key # KeyOf(q)
      BY <1>5
    <2>1. h.key = [sender |-> FALSE, prog |-> h.id.prog]
      BY <1>1, RowKey DEF Books
    <2> QED BY <2>1, Keys
  <1>9. DelayedRows(d, K)
    <2>1. \A h \in d.gtos : h.id.at = 0 => h \in db.gtos
      BY <1>1, <1>4, <1>5
    <2> QED BY <1>1, <1>8, <2>1 DEF Books, DelayedRows
  <1>10. MadeReceipts(d, K, slot)
    BY <1>1, <1>2 DEF Books, MadeReceipts, is_known_unexpired_transaction
  <1>11. MadeRows(d, K, slot)
    <2>1. ASSUME q \notin Shared, q \in Sent, NEW x \in K, x.id = g.id PROVE FALSE
      BY <1>1, <1>4, <2>1 DEF Books, MadeReceipts, Shared
    <2> QED BY <1>1, <1>4, <1>5, <2>1 DEF Books, MadeRows
  <1> QED BY <1>1, <1>2, <1>6, <1>7, <1>9, <1>10, <1>11 DEF Books, BooksOf, d

-----------------------------------------------------------------------------
\* Sequences of receipts

\* One more element
LEMMA Appended ==
    ASSUME NEW S, NEW rs \in Seq(S), NEW r \in S
    PROVE  /\ Append(rs, r) \in Seq(S) /\ Len(rs) \in Nat /\ Len(Append(rs, r)) = Len(rs) + 1
           /\ \A i \in 1 .. Len(rs) : Append(rs, r)[i] = rs[i]
           /\ Append(rs, r)[Len(rs) + 1] = r
           /\ DOMAIN rs = 1 .. Len(rs) /\ DOMAIN Append(rs, r) = 1 .. Len(rs) + 1
  OBVIOUS

\* What is in a list with one more
LEMMA ToSetAppend ==
    ASSUME NEW S, NEW rs \in Seq(S), NEW r \in S
    PROVE  ToSet(Append(rs, r)) = ToSet(rs) \cup {r}
  <1> DEFINE q == Append(rs, r)
  <1>1. /\ Len(rs) \in Nat /\ q[Len(rs) + 1] = r
        /\ \A i \in 1 .. Len(rs) : q[i] = rs[i]
        /\ DOMAIN rs = 1 .. Len(rs) /\ DOMAIN q = 1 .. Len(rs) + 1
    BY Appended
  <1> HIDE DEF q
  <1>2. \A i \in 1 .. Len(rs) + 1 : i \in 1 .. Len(rs) \/ i = Len(rs) + 1
    BY <1>1
  <1>3. Len(rs) + 1 \in 1 .. Len(rs) + 1 /\ \A i \in 1 .. Len(rs) : i \in 1 .. Len(rs) + 1
    BY <1>1
  <1>4. ASSUME NEW x \in ToSet(q) PROVE x \in ToSet(rs) \cup {r}
    BY <1>1, <1>2 DEF ToSet
  <1>5. ASSUME NEW x \in ToSet(rs) \cup {r} PROVE x \in ToSet(q)
    BY <1>1, <1>3 DEF ToSet
  <1>6. ToSet(q) = ToSet(rs) \cup {r}
    BY <1>4, <1>5
  <1> QED BY <1>6 DEF q

\* The inputs among receipts with one more
LEMMA PackedAppend ==
    ASSUME NEW rs \in Seq(ReceiptSet), NEW r \in ReceiptSet
    PROVE  /\ r.packed => Packed(Append(rs, r)) = Packed(rs) \cup {r.id}
           /\ ~r.packed => Packed(Append(rs, r)) = Packed(rs)
  <1> DEFINE q == Append(rs, r)
  <1>1. /\ Len(rs) \in Nat /\ q[Len(rs) + 1] = r
        /\ \A i \in 1 .. Len(rs) : q[i] = rs[i]
        /\ DOMAIN rs = 1 .. Len(rs) /\ DOMAIN q = 1 .. Len(rs) + 1
    BY Appended
  <1> HIDE DEF q
  <1>2. \A i \in 1 .. Len(rs) + 1 : i \in 1 .. Len(rs) \/ i = Len(rs) + 1
    BY <1>1
  <1>3. Len(rs) + 1 \in 1 .. Len(rs) + 1 /\ \A i \in 1 .. Len(rs) : i \in 1 .. Len(rs) + 1
    BY <1>1
  <1>4. ASSUME NEW x \in Packed(q) PROVE x \in Packed(rs) \/ (r.packed /\ x = r.id)
    BY <1>1, <1>2 DEF Packed
  <1>5. Packed(rs) \subseteq Packed(q)
    BY <1>1, <1>3 DEF Packed
  <1>6. r.packed => r.id \in Packed(q)
    BY <1>1, <1>3 DEF Packed
  <1>7. /\ r.packed => Packed(q) = Packed(rs) \cup {r.id}
        /\ ~r.packed => Packed(q) = Packed(rs)
    BY <1>4, <1>5, <1>6
  <1> QED BY <1>7 DEF q

\* A receipt that may follow is added.
LEMMA OnceAppend ==
    ASSUME NEW L, NEW rs \in Seq(ReceiptSet), NEW r \in ReceiptSet,
           Once(L, rs), Fresh(L \cup ToSet(rs), r)
    PROVE  Once(L, Append(rs, r))
  <1> DEFINE q == Append(rs, r)
  <1>1. /\ Len(rs) \in Nat /\ q[Len(rs) + 1] = r
        /\ \A i \in 1 .. Len(rs) : q[i] = rs[i]
        /\ DOMAIN rs = 1 .. Len(rs) /\ DOMAIN q = 1 .. Len(rs) + 1
    BY Appended
  <1> HIDE DEF q
  <1>2. ASSUME NEW k \in 1 .. Len(rs) PROVE Fresh(L \cup {q[j] : j \in 1 .. k - 1}, q[k])
    <2>1. \A j \in 1 .. k - 1 : q[j] = rs[j]
      BY <1>1
    <2>2. {q[j] : j \in 1 .. k - 1} = {rs[j] : j \in 1 .. k - 1}
      BY <2>1
    <2>3. Fresh(L \cup {rs[j] : j \in 1 .. k - 1}, rs[k])
      BY <1>1 DEF Once
    <2> QED BY <1>1, <2>2, <2>3
  <1>3. ASSUME NEW k \in 1 .. Len(rs) + 1, k = Len(rs) + 1
        PROVE  Fresh(L \cup {q[j] : j \in 1 .. k - 1}, q[k])
    <2>1. k - 1 = Len(rs) /\ \A j \in 1 .. k - 1 : q[j] = rs[j]
      BY <1>1, <1>3
    <2>2. {q[j] : j \in 1 .. k - 1} = ToSet(rs)
      BY <1>1, <2>1 DEF ToSet
    <2> QED BY <1>1, <1>3, <2>2
  <1>4. \A k \in 1 .. Len(rs) + 1 : k \in 1 .. Len(rs) \/ k = Len(rs) + 1
    BY <1>1
  <1>5. Once(L, q)
    BY <1>1, <1>2, <1>3, <1>4 DEF Once
  <1> QED BY <1>5 DEF q

\* What begins with rs and r begins with rs and has r next.
LEMMA ExtendsAppend ==
    ASSUME NEW rs \in Seq(ReceiptSet), NEW r \in ReceiptSet, NEW qs \in Seq(ReceiptSet),
           Extends(qs, Append(rs, r))
    PROVE  /\ Extends(qs, rs) /\ Len(qs) \in Nat /\ Len(rs) + 1 \in 1 .. Len(qs)
           /\ qs[Len(rs) + 1] = r /\ r \in ToSet(qs)
  <1>1. /\ Len(rs) \in Nat /\ Append(rs, r)[Len(rs) + 1] = r /\ Len(Append(rs, r)) = Len(rs) + 1
        /\ \A i \in 1 .. Len(rs) : Append(rs, r)[i] = rs[i]
    BY Appended
  <1>2. Len(qs) \in Nat /\ Len(rs) + 1 <= Len(qs) /\ Len(rs) + 1 \in 1 .. Len(rs) + 1 /\ DOMAIN qs = 1 .. Len(qs)
    BY <1>1 DEF Extends
  <1>3. \A i \in 1 .. Len(rs) : i \in 1 .. Len(rs) + 1
    BY <1>1
  <1>4. \A i \in 1 .. Len(rs) + 1 : qs[i] = Append(rs, r)[i]
    BY <1>1 DEF Extends
  <1>5. qs[Len(rs) + 1] = r /\ \A i \in 1 .. Len(rs) : qs[i] = rs[i]
    BY <1>1, <1>2, <1>3, <1>4
  <1>6. Len(rs) <= Len(qs) /\ Len(rs) + 1 \in 1 .. Len(qs)
    BY <1>1, <1>2
  <1> QED BY <1>2, <1>5, <1>6 DEF Extends, ToSet

\* What is after the first receipts
LEMMA Tail1 ==
    ASSUME NEW rs \in Seq(ReceiptSet), NEW r \in ReceiptSet
    PROVE  LET got == SubSeq(Append(rs, r), Len(rs) + 1, Len(Append(rs, r))) IN
           Len(got) = 1 /\ got # <<>> /\ got[1] = r
  OBVIOUS

\* The last two receipts of a list
LEMMA Tail2 ==
    ASSUME NEW rs \in Seq(ReceiptSet), NEW r \in ReceiptSet, NEW s \in ReceiptSet
    PROVE  LET q == Append(Append(rs, r), s)
               got == SubSeq(q, Len(rs) + 1, Len(q)) IN
           Len(got) = 2 /\ got # <<>> /\ got[1] = r /\ got[2] = s
  OBVIOUS

-----------------------------------------------------------------------------
\* Blocks that are made again

Waiting(b, id) == [b |-> b, ok |-> TRUE, wait |-> id, failed |-> {}]

\* The check of a transaction with one receipt
LEMMA CheckOne ==
    ASSUME NEW b \in BlockSet, NEW c \in BlockSet, NEW r \in ReceiptSet, NEW result, NEW rs,
           c.receipts = Append(b.receipts, r), result.b = c,
           result.ok \/ r.status = "hard_fail", r.packed => result.ok
    PROVE  CheckReceipt(Accepted(b), r, result, rs) = Accepted(c)
  <1> DEFINE v == Accepted(b)
             n == Len(v.b.receipts)
             got == SubSeq(result.b.receipts, n + 1, Len(result.b.receipts))
             nested == Len(got) = 2
             explicit == nested => \E x \in ToSet(rs) : ~x.packed /\ x.id = got[2].id
             matches == got # <<>> /\ got[1] = r /\ (nested => got[2] \in ToSet(rs))
  <1>1. v.b = b /\ b.receipts \in Seq(ReceiptSet)
    BY DEF Accepted, BlockSet
  <1>2. Len(got) = 1 /\ got # <<>> /\ got[1] = r
    <2> DEFINE q == Append(b.receipts, r)
    <2>1. got = SubSeq(q, Len(b.receipts) + 1, Len(q))
      BY <1>1
    <2> HIDE DEF got
    <2> QED BY <1>1, <2>1, Tail1, Zenon
  <1>3. ~nested
    BY <1>2
  <1>4. CheckReceipt(v, r, result, rs) =
          IF r.packed /\ ~(result.ok /\ explicit) THEN [v EXCEPT !.ok = FALSE, !.failed = {r.id}]
          ELSE [v EXCEPT !.b = result.b, !.ok = (result.ok \/ r.status = "hard_fail") /\ matches,
                         !.wait = IF nested THEN got[2].id ELSE NoId]
    BY DEF CheckReceipt
  <1> HIDE DEF got, n, v
  <1>5. explicit /\ matches
    BY <1>2, <1>3
  <1> HIDE DEF explicit, matches, nested
  <1>6. ~(r.packed /\ ~(result.ok /\ explicit)) /\ ((result.ok \/ r.status = "hard_fail") /\ matches) = TRUE
    BY <1>5
  <1>7. CheckReceipt(v, r, result, rs) = [v EXCEPT !.b = c, !.ok = TRUE, !.wait = NoId]
    BY <1>3, <1>4, <1>6
  <1> QED BY <1>7 DEF v, Accepted

\* The check of a transaction with a nested one
LEMMA CheckTwo ==
    ASSUME NEW b \in BlockSet, NEW c \in BlockSet, NEW r \in ReceiptSet, NEW s \in ReceiptSet, NEW result, NEW rs,
           c.receipts = Append(Append(b.receipts, r), s), result.b = c, result.ok, s \in ToSet(rs), ~s.packed
    PROVE  CheckReceipt(Accepted(b), r, result, rs) = Waiting(c, s.id)
  <1> DEFINE v == Accepted(b)
             n == Len(v.b.receipts)
             got == SubSeq(result.b.receipts, n + 1, Len(result.b.receipts))
             nested == Len(got) = 2
             explicit == nested => \E x \in ToSet(rs) : ~x.packed /\ x.id = got[2].id
             matches == got # <<>> /\ got[1] = r /\ (nested => got[2] \in ToSet(rs))
  <1>1. v.b = b /\ b.receipts \in Seq(ReceiptSet)
    BY DEF Accepted, BlockSet
  <1>2. Len(got) = 2 /\ got # <<>> /\ got[1] = r /\ got[2] = s
    <2> DEFINE q == Append(Append(b.receipts, r), s)
    <2>1. got = SubSeq(q, Len(b.receipts) + 1, Len(q))
      BY <1>1
    <2> DEFINE z == SubSeq(q, Len(b.receipts) + 1, Len(q))
    <2>2. Len(z) = 2 /\ z # <<>> /\ z[1] = r /\ z[2] = s
      BY <1>1, Tail2
    <2> HIDE DEF got, z
    <2>3. got = z
      BY <2>1 DEF z
    <2> QED BY <2>2, <2>3
  <1>3. nested
    BY <1>2
  <1>4. CheckReceipt(v, r, result, rs) =
          IF r.packed /\ ~(result.ok /\ explicit) THEN [v EXCEPT !.ok = FALSE, !.failed = {r.id}]
          ELSE [v EXCEPT !.b = result.b, !.ok = (result.ok \/ r.status = "hard_fail") /\ matches,
                         !.wait = IF nested THEN got[2].id ELSE NoId]
    BY DEF CheckReceipt
  <1> HIDE DEF got, n, v
  <1>5. explicit /\ matches
    BY <1>2, <1>3
  <1> HIDE DEF explicit, matches, nested
  <1>6. ~(r.packed /\ ~(result.ok /\ explicit)) /\ ((result.ok \/ r.status = "hard_fail") /\ matches) = TRUE
    BY <1>5
  <1>7. CheckReceipt(v, r, result, rs) = [v EXCEPT !.b = c, !.ok = TRUE, !.wait = s.id]
    BY <1>2, <1>3, <1>4, <1>6
  <1> QED BY <1>7 DEF v, Accepted, Waiting

\* A receipt of an input or of a row, when none is waited for
LEMMA ApplyInput ==
    ASSUME NEW b, NEW r, r.packed, NEW slot, NEW rs
    PROVE  ApplyReceipt(Accepted(b), r, slot, rs) =
             CheckReceipt(Accepted(b), r, push_transaction(b, r.id, slot), rs)
  BY DEF ApplyReceipt, Accepted

\* The receipt of a scheduled transaction finds the only row with its id.
LEMMA ApplyRow ==
    ASSUME NEW b, NEW r, ~r.packed, NEW slot, NEW rs, NEW g \in b.db.gtos, g.id = r.id, RowsUnique(b.db)
    PROVE  ApplyReceipt(Accepted(b), r, slot, rs) =
             CheckReceipt(Accepted(b), r, push_scheduled_transaction(b, g, slot), rs)
  <1> DEFINE scheduled == {h \in b.db.gtos : h.id = r.id}
  <1>1. g \in scheduled /\ \A h \in scheduled : h = g
    BY RowById
  <1>2. (CHOOSE h \in scheduled : TRUE) = g
    BY <1>1
  <1>3. scheduled # {}
    BY <1>1
  <1> HIDE DEF scheduled
  <1>4. ApplyReceipt(Accepted(b), r, slot, rs) =
          CheckReceipt(Accepted(b), r, push_scheduled_transaction(b, CHOOSE h \in scheduled : TRUE, slot), rs)
    BY <1>3 DEF ApplyReceipt, Accepted, scheduled
  <1> QED BY <1>2, <1>4

\* The receipt of a nested transaction that is waited for
LEMMA ApplyNested ==
    ASSUME NEW b, NEW s, ~s.packed, s.id # NoId, NEW slot, NEW rs
    PROVE  ApplyReceipt(Waiting(b, s.id), s, slot, rs) = Accepted(b)
  <1>1. (~s.packed /\ s.id = s.id) = TRUE
    OBVIOUS
  <1>2. ApplyReceipt(Waiting(b, s.id), s, slot, rs) =
          [Waiting(b, s.id) EXCEPT !.wait = NoId, !.ok = (~s.packed /\ s.id = s.id)]
    BY DEF ApplyReceipt, Waiting
  <1> QED BY <1>1, <1>2 DEF Accepted, Waiting

\* An empty block
LEMMA ReproduceStart ==
    ASSUME NEW db, NEW slot
    PROVE  Reproduces(db, slot, start_block(db, slot))
  <1> DEFINE b == start_block(db, slot)
  <1>1. b.receipts = <<>>
    BY DEF start_block, Block
  <1> SUFFICES ASSUME NEW rs \in Seq(ReceiptSet)
               PROVE  ApplyReceipts(db, slot, rs)[0] = Accepted(b)
    BY <1>1 DEF Reproduces
  <1>2. Len(rs) \in Nat
    OBVIOUS
  <1> QED BY <1>2, ReceiptSteps

\* One receipt more
LEMMA ReproduceOne ==
    ASSUME NEW db, NEW slot, NEW b \in BlockSet, NEW c, NEW r \in ReceiptSet,
           Reproduces(db, slot, b), c.receipts = Append(b.receipts, r),
           \A rs \in Seq(ReceiptSet) : ApplyReceipt(Accepted(b), r, slot, rs) = Accepted(c)
    PROVE  Reproduces(db, slot, c)
  <1> SUFFICES ASSUME NEW rs \in Seq(ReceiptSet), Extends(rs, c.receipts)
               PROVE  ApplyReceipts(db, slot, rs)[Len(c.receipts)] = Accepted(c)
    BY DEF Reproduces
  <1> DEFINE f == ApplyReceipts(db, slot, rs)
             n == Len(b.receipts)
  <1>1. b.receipts \in Seq(ReceiptSet) /\ n \in Nat
    BY DEF BlockSet
  <1>2. Extends(rs, b.receipts) /\ Len(rs) \in Nat /\ n + 1 \in 1 .. Len(rs) /\ rs[n + 1] = r
    BY <1>1, ExtendsAppend
  <1>3. f[n] = Accepted(b)
    BY <1>2 DEF Reproduces
  <1>4. \A i \in 1 .. Len(rs) : f[i] = ApplyReceipt(f[i - 1], rs[i], slot, rs)
    BY <1>2, ReceiptSteps
  <1>5. Len(c.receipts) = n + 1 /\ (n + 1) - 1 = n
    BY <1>1
  <1> HIDE DEF f, n
  <1>6. f[n + 1] = ApplyReceipt(f[n], r, slot, rs)
    BY <1>2, <1>4, <1>5
  <1> QED BY <1>3, <1>5, <1>6 DEF f

\* Two receipts more
LEMMA ReproduceTwo ==
    ASSUME NEW db, NEW slot, NEW b \in BlockSet, NEW c, NEW r \in ReceiptSet, NEW s \in ReceiptSet,
           Reproduces(db, slot, b), c.receipts = Append(Append(b.receipts, r), s), ~s.packed, s.id # NoId,
           \A rs \in Seq(ReceiptSet) : s \in ToSet(rs) =>
               ApplyReceipt(Accepted(b), r, slot, rs) = Waiting(c, s.id)
    PROVE  Reproduces(db, slot, c)
  <1> SUFFICES ASSUME NEW rs \in Seq(ReceiptSet), Extends(rs, c.receipts)
               PROVE  ApplyReceipts(db, slot, rs)[Len(c.receipts)] = Accepted(c)
    BY DEF Reproduces
  <1> DEFINE f == ApplyReceipts(db, slot, rs)
             n == Len(b.receipts)
             q == Append(b.receipts, r)
  <1>1. b.receipts \in Seq(ReceiptSet) /\ n \in Nat /\ q \in Seq(ReceiptSet) /\ Len(q) = n + 1
    BY DEF BlockSet
  <1>2. Len(c.receipts) = n + 2 /\ (n + 1) - 1 = n /\ (n + 2) - 1 = n + 1 /\ (n + 1) + 1 = n + 2
    BY <1>1
  <1> HIDE DEF n
  <1>3. Extends(rs, q) /\ Len(rs) \in Nat /\ n + 2 \in 1 .. Len(rs) /\ rs[n + 2] = s /\ s \in ToSet(rs)
    <2>1. c.receipts = Append(q, s)
      OBVIOUS
    <2> HIDE DEF q
    <2>2. /\ Extends(rs, q) /\ Len(rs) \in Nat /\ Len(q) + 1 \in 1 .. Len(rs)
          /\ rs[Len(q) + 1] = s /\ s \in ToSet(rs)
      BY <1>1, <2>1, ExtendsAppend
    <2> QED BY <1>1, <1>2, <2>2
  <1>4. Extends(rs, b.receipts) /\ n + 1 \in 1 .. Len(rs) /\ rs[n + 1] = r
    BY <1>1, <1>3, ExtendsAppend DEF n
  <1>5. f[n] = Accepted(b)
    BY <1>4 DEF Reproduces, n
  <1>6. \A i \in 1 .. Len(rs) : f[i] = ApplyReceipt(f[i - 1], rs[i], slot, rs)
    BY <1>3, ReceiptSteps
  <1> HIDE DEF f, q
  <1>7. f[n + 1] = ApplyReceipt(f[n], r, slot, rs)
    BY <1>2, <1>4, <1>6
  <1>8. f[n + 1] = Waiting(c, s.id)
    BY <1>3, <1>5, <1>7
  <1>9. f[n + 2] = ApplyReceipt(f[n + 1], s, slot, rs)
    BY <1>2, <1>3, <1>6
  <1>10. f[n + 2] = Accepted(c)
    BY <1>8, <1>9, ApplyNested
  <1> QED BY <1>2, <1>10 DEF f

-----------------------------------------------------------------------------
\* Transactions in a block

\* A block that is started
LEMMA StartSound ==
    ASSUME NEW db \in Dbs, NEW L, L \subseteq ReceiptSet, NEW s \in Nat, Books(db, L, s),
           NEW slot \in Nat, s < slot
    PROVE  Sound(start_block(db, slot), db, L, slot) /\ start_block(db, slot).trxs = <<>>
  <1> DEFINE b == start_block(db, slot)
             d == clear_expired_input_transactions(db, slot)
  <1>1. BooksOf(d, L, slot)
    BY BooksStart
  <1>2. b.db = d /\ b.receipts = <<>> /\ b.trxs = <<>> /\ b = [db |-> d, receipts |-> <<>>, trxs |-> <<>>]
    BY DEF start_block, Block
  <1>3. d \in Dbs
    BY <1>1 DEF BooksOf
  <1>4. Reproduces(db, slot, b)
    BY ReproduceStart
  <1> HIDE DEF b, d
  <1>5. b \in BlockSet
    BY <1>2, <1>3 DEF BlockSet
  <1>6. ToSet(b.receipts) = {} /\ ToSet(b.trxs) = {} /\ Packed(b.receipts) = {} /\ DOMAIN b.receipts = {}
    BY <1>2 DEF ToSet, Packed
  <1>7. L \cup ToSet(b.receipts) = L
    BY <1>6
  <1>8. Once(L, b.receipts) /\ Match(b)
    BY <1>6 DEF Once, Match
  <1> QED BY <1>1, <1>2, <1>4, <1>5, <1>7, <1>8 DEF Sound, Regular, b

\* The receipt r is added, with or without its transaction.
LEMMA RegularOne ==
    ASSUME NEW b, NEW L, NEW slot, Regular(b, L, slot), NEW c \in BlockSet, NEW r \in ReceiptSet,
           c.receipts = Append(b.receipts, r),
           BooksOf(c.db, (L \cup ToSet(b.receipts)) \cup {r}, slot),
           Fresh(L \cup ToSet(b.receipts), r),
           \/ r.packed /\ c.trxs = Append(b.trxs, r.id) /\ r.id.prog \in Trxs /\ r.id.at = 0
           \/ ~r.packed /\ c.trxs = Append(b.trxs, r.id) /\ r.id.prog \notin Trxs
           \/ ~r.packed /\ c.trxs = b.trxs
    PROVE  Regular(c, L, slot)
  <1>1. b \in BlockSet /\ b.receipts \in Seq(ReceiptSet) /\ b.trxs \in Seq(IdSet) /\ r.id \in IdSet
    BY DEF Regular, BlockSet, ReceiptSet
  <1>2. ToSet(c.receipts) = ToSet(b.receipts) \cup {r}
    BY <1>1, ToSetAppend
  <1>3. (L \cup ToSet(b.receipts)) \cup {r} = L \cup ToSet(c.receipts)
    BY <1>2
  <1>4. BooksOf(c.db, L \cup ToSet(c.receipts), slot)
    BY <1>3
  <1>5. Once(L, c.receipts)
    BY <1>1, OnceAppend DEF Regular
  <1>6. /\ r.packed => Packed(c.receipts) = Packed(b.receipts) \cup {r.id}
        /\ ~r.packed => Packed(c.receipts) = Packed(b.receipts)
    BY <1>1, PackedAppend
  <1>7. c.trxs = Append(b.trxs, r.id) => ToSet(c.trxs) = ToSet(b.trxs) \cup {r.id}
    BY <1>1, ToSetAppend
  <1>8. Match(c)
    <2>1. Match(b)
      BY DEF Regular
    <2>2. CASE r.packed
      <3>1. ToSet(c.trxs) = ToSet(b.trxs) \cup {r.id} /\ Packed(c.receipts) = Packed(b.receipts) \cup {r.id}
        BY <1>6, <1>7, <2>2
      <3>2. r.id \in TrxIds /\ r.id.prog \in Trxs
        BY <1>1, <2>2 DEF TrxIds
      <3> QED BY <2>1, <3>1, <3>2 DEF Match
    <2>3. CASE ~r.packed /\ c.trxs = b.trxs
      BY <1>6, <2>1, <2>3 DEF Match
    <2>4. CASE ~r.packed /\ c.trxs = Append(b.trxs, r.id) /\ r.id.prog \notin Trxs
      <3>1. ToSet(c.trxs) = ToSet(b.trxs) \cup {r.id} /\ Packed(c.receipts) = Packed(b.receipts)
        BY <1>6, <1>7, <2>4
      <3>2. r.id \in TrxIds
        BY <1>1, <2>4 DEF TrxIds
      <3> QED BY <2>1, <2>4, <3>1, <3>2 DEF Match
    <2> QED BY <2>2, <2>3, <2>4
  <1> QED BY <1>4, <1>5, <1>8 DEF Regular

\* What push_scheduled_transaction does with a row that is ready
LEMMA ScheduledFields ==
    ASSUME NEW b \in BlockSet, NEW g \in b.db.gtos, NEW slot \in Nat, g.delay_until <= slot
    PROVE  LET R == push_scheduled_transaction(b, g, slot)
               c == R.b
               d == [b.db EXCEPT !.gtos = @ \ {g}]
           IN  \E st \in Retired :
                   /\ c \in BlockSet /\ c.receipts = Append(b.receipts, Receipt(g.id, st, FALSE)) /\ c.trxs = b.trxs
                   /\ c.db = d \/ c.db = exec(d, g.id.prog, slot)
                   /\ R.ok \/ st = "hard_fail"
  <1> DEFINE R == push_scheduled_transaction(b, g, slot)
             d == [b.db EXCEPT !.gtos = @ \ {g}]
             x == exec(d, g.id.prog, slot)
             removed == remove_scheduled_transaction(b, g)
             With(e, st) == [b EXCEPT !.db = e, !.receipts = Append(@, Receipt(g.id, st, FALSE))]
  <1>1. b.db \in Dbs /\ g \in RowSet /\ g.id \in IdSet /\ g.id.prog \in Progs /\ b.receipts \in Seq(ReceiptSet)
    BY DEF BlockSet, Dbs, RowSet, IdSet
  <1>2. d \in Dbs
    BY <1>1 DEF Dbs
  <1>3. x \in Dbs
    BY <1>1, <1>2, ExecFields
  <1>4. removed = [b EXCEPT !.db = d]
    BY DEF remove_scheduled_transaction, BlockSet
  <1> HIDE DEF d, x, removed
  <1>5. ASSUME NEW st \in Retired, NEW e \in Dbs
        PROVE  /\ With(e, st) \in BlockSet /\ With(e, st).trxs = b.trxs /\ With(e, st).db = e
               /\ With(e, st).receipts = Append(b.receipts, Receipt(g.id, st, FALSE))
    <2>1. Receipt(g.id, st, FALSE) \in ReceiptSet
      BY <1>1 DEF Receipt, ReceiptSet, Retired
    <2> DEFINE rs == Append(b.receipts, Receipt(g.id, st, FALSE))
    <2>2. rs \in Seq(ReceiptSet)
      BY <1>1, <2>1, Appended
    <2>3. With(e, st) = [b EXCEPT !.db = e, !.receipts = rs]
      BY DEF BlockSet
    <2> HIDE DEF rs, With
    <2>4. /\ With(e, st) \in BlockSet /\ With(e, st).trxs = b.trxs /\ With(e, st).db = e
          /\ With(e, st).receipts = rs
      BY <2>2, <2>3 DEF BlockSet
    <2> QED BY <2>4 DEF rs
  <1>6. /\ push_receipt(removed, g.id, "expired", FALSE) = With(d, "expired")
        /\ push_receipt(removed, g.id, "hard_fail", FALSE) = With(d, "hard_fail")
        /\ [push_receipt(removed, g.id, "executed", FALSE) EXCEPT !.db = x] = With(x, "executed")
    BY <1>1, <1>4 DEF push_receipt, BlockSet
  <1>7. removed.db = d
    BY <1>1, <1>4 DEF BlockSet
  <1>8. R = IF g.expiration < slot THEN Done(push_receipt(removed, g.id, "expired", FALSE))
            ELSE IF ~ExecOk(d, g.id.prog, FALSE) THEN Failed(push_receipt(removed, g.id, "hard_fail", FALSE))
            ELSE Done([push_receipt(removed, g.id, "executed", FALSE) EXCEPT !.db = x])
    <2>1. g.delay_until \in Nat
      BY <1>1 DEF RowSet
    <2>2. ~(g.delay_until > slot)
      BY <2>1
    <2> QED BY <1>7, <2>2 DEF push_scheduled_transaction, HardFail, removed, x
  <1> HIDE DEF R, With
  <1>9. \/ R.b = With(d, "expired") /\ R.ok
        \/ R.b = With(d, "hard_fail")
        \/ R.b = With(x, "executed") /\ R.ok
    BY <1>6, <1>8 DEF Done, Failed
  <1>10. "expired" \in Retired /\ "hard_fail" \in Retired /\ "executed" \in Retired
    BY DEF Retired
  <1> DEFINE Good(st) ==
               /\ R.b \in BlockSet /\ R.b.receipts = Append(b.receipts, Receipt(g.id, st, FALSE)) /\ R.b.trxs = b.trxs
               /\ R.b.db = d \/ R.b.db = x
               /\ R.ok \/ st = "hard_fail"
  <1>11. R.b = With(d, "expired") /\ R.ok => Good("expired")
    <2>1. /\ With(d, "expired") \in BlockSet /\ With(d, "expired").trxs = b.trxs /\ With(d, "expired").db = d
          /\ With(d, "expired").receipts = Append(b.receipts, Receipt(g.id, "expired", FALSE))
      BY <1>2, <1>5, <1>10
    <2> QED BY <2>1, Zenon
  <1>12. R.b = With(d, "hard_fail") => Good("hard_fail")
    <2>1. /\ With(d, "hard_fail") \in BlockSet /\ With(d, "hard_fail").trxs = b.trxs /\ With(d, "hard_fail").db = d
          /\ With(d, "hard_fail").receipts = Append(b.receipts, Receipt(g.id, "hard_fail", FALSE))
      BY <1>2, <1>5, <1>10
    <2> QED BY <2>1, Zenon
  <1>13. R.b = With(x, "executed") /\ R.ok => Good("executed")
    <2>1. /\ With(x, "executed") \in BlockSet /\ With(x, "executed").trxs = b.trxs /\ With(x, "executed").db = x
          /\ With(x, "executed").receipts = Append(b.receipts, Receipt(g.id, "executed", FALSE))
      BY <1>3, <1>5, <1>10
    <2> QED BY <2>1, Zenon
  <1>14. \E st \in Retired : Good(st)
    <2> HIDE DEF Good
    <2> QED BY <1>9, <1>10, <1>11, <1>12, <1>13
  <1> QED BY <1>14 DEF R, d, x

\* A row that is ready is retired.
LEMMA ScheduledSound ==
    ASSUME NEW b, NEW db, NEW L, NEW slot, Sound(b, db, L, slot),
           NEW g \in b.db.gtos, g.delay_until <= slot, g.published < slot
    PROVE  LET c == push_scheduled_transaction(b, g, slot).b IN Sound(c, db, L, slot) /\ c.trxs = b.trxs
  <1> DEFINE R == push_scheduled_transaction(b, g, slot)
             c == R.b
             d == [b.db EXCEPT !.gtos = @ \ {g}]
             x == exec(d, g.id.prog, slot)
             K == L \cup ToSet(b.receipts)
  <1>1. b \in BlockSet /\ BooksOf(b.db, K, slot) /\ Regular(b, L, slot) /\ Reproduces(db, slot, b)
    BY DEF Sound, Regular
  <1>2. b.db \in Dbs /\ slot \in Nat /\ RowsUnique(b.db)
    BY <1>1 DEF BooksOf, Books
  <1>3. PICK st \in Retired :
          /\ c \in BlockSet /\ c.receipts = Append(b.receipts, Receipt(g.id, st, FALSE)) /\ c.trxs = b.trxs
          /\ c.db = d \/ c.db = x
          /\ R.ok \/ st = "hard_fail"
    BY <1>1, <1>2, ScheduledFields
  <1> DEFINE r == Receipt(g.id, st, FALSE)
  <1>4. g \in RowSet /\ g.id \in IdSet /\ g.id.prog \in Progs
    BY <1>2 DEF Dbs, RowSet, IdSet
  <1>5. r \in ReceiptSet /\ r.id = g.id /\ r.status = st /\ ~r.packed
    BY <1>4 DEF Receipt, ReceiptSet, Retired
  <1>6. d \in Dbs /\ d.dedup = b.db.dedup /\ d.gtos = b.db.gtos \ {g}
    BY <1>2 DEF Dbs
  <1> HIDE DEF d, r, K
  <1>7. BooksOf(d, K \cup {r}, slot) /\ Fresh(K, r)
    BY <1>1, <1>5, <1>6, BooksRetire
  <1>8. BooksOf(x, K \cup {r}, slot)
    BY <1>4, <1>7, BooksExec
  <1> HIDE DEF x, R
  <1>9. BooksOf(c.db, K \cup {r}, slot)
    BY <1>3, <1>7, <1>8
  <1>10. Regular(c, L, slot)
    BY <1>1, <1>3, <1>5, <1>7, <1>9, RegularOne DEF K, r
  <1>11. ASSUME NEW rs \in Seq(ReceiptSet) PROVE ApplyReceipt(Accepted(b), r, slot, rs) = Accepted(c)
    <2>1. ApplyReceipt(Accepted(b), r, slot, rs) = CheckReceipt(Accepted(b), r, R, rs)
      BY <1>2, <1>5, ApplyRow DEF R
    <2>2. CheckReceipt(Accepted(b), r, R, rs) = Accepted(c)
      <3>1. c.receipts = Append(b.receipts, r)
        BY <1>3 DEF r
      <3>2. (R.ok \/ r.status = "hard_fail") /\ (r.packed => R.ok)
        BY <1>3, <1>5
      <3> QED BY <1>1, <1>3, <1>5, <3>1, <3>2, CheckOne
    <2> QED BY <2>1, <2>2
  <1>12. Reproduces(db, slot, c)
    BY <1>1, <1>3, <1>5, <1>11, ReproduceOne DEF r
  <1> QED BY <1>3, <1>10, <1>12 DEF Sound, R

\* An input in the block, before its nested transaction
LEMMA AppliedFields ==
    ASSUME NEW b \in BlockSet, NEW t \in Trxs, NEW slot \in Nat
    PROVE  LET id == InputId(t)
               c == Applied(b, id, slot)
               st == IF Delay[t] > 0 THEN "delayed" ELSE "executed"
               d == record_transaction(b.db, id, Expires[t])
           IN  /\ c \in BlockSet
               /\ c.receipts = Append(b.receipts, Receipt(id, st, TRUE)) /\ c.trxs = Append(b.trxs, id)
               /\ c.db = IF Delay[t] > 0 THEN schedule_transaction(d, id, slot) ELSE exec(d, t, slot)
               /\ d \in Dbs /\ d.gtos = b.db.gtos
               /\ d.dedup = b.db.dedup \cup {[id |-> id, expires |-> Expires[t]]}
  <1> DEFINE id == InputId(t)
             c == Applied(b, id, slot)
             st == IF Delay[t] > 0 THEN "delayed" ELSE "executed"
             e == [id |-> id, expires |-> Expires[t]]
             d == record_transaction(b.db, id, Expires[t])
             x == IF Delay[t] > 0 THEN schedule_transaction(d, id, slot) ELSE exec(d, t, slot)
             rs == Append(b.receipts, Receipt(id, st, TRUE))
             ts == Append(b.trxs, id)
  <1>1. /\ id \in IdSet /\ id.prog = t /\ Expiration(id) = Expires[t] /\ Expires[t] \in Nat
        /\ Delay[t] \in Nat /\ t \in Progs
    BY ProgramsAssumption DEF InputId, IdSet, Expiration, Progs
  <1>2. b.db \in Dbs /\ b.receipts \in Seq(ReceiptSet) /\ b.trxs \in Seq(IdSet)
    BY DEF BlockSet
  <1>3. e \in KnownSet
    BY <1>1 DEF KnownSet
  <1>4. d \in Dbs /\ d.gtos = b.db.gtos /\ d.dedup = b.db.dedup \cup {e}
    BY <1>2, <1>3 DEF record_transaction, Dbs
  <1>5. Receipt(id, st, TRUE) \in ReceiptSet
    BY <1>1 DEF Receipt, ReceiptSet
  <1>6. rs \in Seq(ReceiptSet) /\ ts \in Seq(IdSet)
    BY <1>1, <1>2, <1>5, Appended
  <1>7. c = [b EXCEPT !.db = x, !.receipts = rs, !.trxs = ts]
    BY <1>1 DEF Applied, push_receipt, BlockSet
  <1> HIDE DEF d, id
  <1>8. schedule_transaction(d, id, slot) \in Dbs
    <2> DEFINE g == Gto(id, [sender |-> FALSE, prog |-> id.prog], slot, Delay[id.prog])
    <2>1. g \in RowSet
      BY <1>1, ProgramsAssumption DEF Gto, RowSet
    <2> HIDE DEF g
    <2>2. schedule_transaction(d, id, slot) = [d EXCEPT !.gtos = @ \cup {g}]
      BY DEF schedule_transaction, g
    <2> QED BY <1>4, <2>1, <2>2 DEF Dbs
  <1>9. exec(d, t, slot) \in Dbs
    BY <1>1, <1>4, ExecFields
  <1>10. x \in Dbs
    BY <1>8, <1>9
  <1> HIDE DEF x, rs, ts, c
  <1>11. c \in BlockSet /\ c.receipts = rs /\ c.trxs = ts /\ c.db = x
    BY <1>6, <1>7, <1>10 DEF BlockSet
  <1> QED BY <1>4, <1>11 DEF x, rs, ts, c, d, id

\* An input that passes its checks, before its nested transaction
LEMMA AppliedRegular ==
    ASSUME NEW b, NEW L, NEW slot, Regular(b, L, slot), NEW t \in Trxs, InputOk(b.db, InputId(t), slot)
    PROVE  Regular(Applied(b, InputId(t), slot), L, slot)
  <1> DEFINE id == InputId(t)
             c == Applied(b, id, slot)
             st == IF Delay[t] > 0 THEN "delayed" ELSE "executed"
             d == record_transaction(b.db, id, Expires[t])
             r == Receipt(id, st, TRUE)
             x == schedule_transaction(d, id, slot)
             g == Gto(id, [sender |-> FALSE, prog |-> t], slot, Delay[t])
             K == L \cup ToSet(b.receipts)
  <1>1. b \in BlockSet /\ BooksOf(b.db, K, slot) /\ slot \in Nat
    BY DEF Regular, BooksOf
  <1>2. /\ c \in BlockSet /\ c.receipts = Append(b.receipts, r) /\ c.trxs = Append(b.trxs, id)
        /\ c.db = IF Delay[t] > 0 THEN x ELSE exec(d, t, slot)
        /\ d \in Dbs /\ d.gtos = b.db.gtos
        /\ d.dedup = b.db.dedup \cup {[id |-> id, expires |-> Expires[t]]}
    BY <1>1, AppliedFields
  <1>3. ~is_known_unexpired_transaction(b.db, id) /\ slot <= Expires[t]
    BY <1>1, ProgramsAssumption DEF InputOk, validate_expiration, Expiration, InputId
  <1>4. id \in IdSet /\ id.prog = t /\ id.at = 0 /\ t \in Progs
    BY DEF InputId, IdSet, Progs
  <1>5. r \in ReceiptSet /\ r.id = id /\ r.status = st /\ r.packed
    BY <1>4 DEF Receipt, ReceiptSet
  <1>6. x = [d EXCEPT !.gtos = @ \cup {g}]
    BY <1>4 DEF schedule_transaction
  <1>7. c.receipts = Append(b.receipts, r) /\ c.trxs = Append(b.trxs, r.id)
    BY <1>2, <1>5
  <1> HIDE DEF c, d, r, K, g, x
  <1>8. BooksOf(c.db, K \cup {r}, slot) /\ Fresh(K, r)
    <2>1. CASE Delay[t] > 0
      <3>1. c.db = x /\ r.status = "delayed" /\ x \in Dbs
        BY <1>1, <1>2, <1>5, <2>1 DEF BlockSet
      <3>2. x.dedup = d.dedup /\ x.gtos = d.gtos \cup {g}
        BY <1>2, <1>6 DEF Dbs
      <3>3. x.dedup = b.db.dedup \cup {[id |-> id, expires |-> Expires[t]]} /\ x.gtos = b.db.gtos \cup {g}
        BY <1>2, <3>2
      <3> QED BY <1>1, <1>3, <1>5, <3>1, <3>3, BooksInput DEF g
    <2>2. CASE ~(Delay[t] > 0)
      <3>1. c.db = exec(d, t, slot) /\ r.status = "executed"
        BY <1>2, <1>5, <2>2
      <3>2. BooksOf(d, K \cup {r}, slot) /\ Fresh(K, r)
        BY <1>1, <1>2, <1>3, <1>5, <3>1, BooksInput
      <3> QED BY <1>4, <3>1, <3>2, BooksExec
    <2> QED BY <2>1, <2>2
  <1>9. Regular(c, L, slot)
    BY <1>2, <1>4, <1>5, <1>7, <1>8, RegularOne DEF K
  <1> QED BY <1>9 DEF c

\* The nested transaction: its receipt follows, or it fails.
LEMMA NestedRegular ==
    ASSUME NEW b, NEW L, NEW slot, Regular(b, L, slot), NEW p \in Nested
    PROVE  LET R == push_nested_trx(b, p, slot)
               s == Receipt(MadeId(p, slot), "executed", FALSE)
           IN  \/ ~R.ok /\ R.b = b
               \/ /\ R.ok /\ Regular(R.b, L, slot) /\ R.b.receipts = Append(b.receipts, s)
                  /\ R.b.trxs = Append(b.trxs, MadeId(p, slot))
                  /\ s \in ReceiptSet /\ s.id # NoId /\ ~s.packed
  <1> DEFINE id == MadeId(p, slot)
             R == push_nested_trx(b, p, slot)
             c == R.b
             e == [id |-> id, expires |-> slot]
             d == record_transaction(b.db, id, slot)
             s == Receipt(id, "executed", FALSE)
             x == exec(d, p, slot)
             rs == Append(b.receipts, s)
             ts == Append(b.trxs, id)
             K == L \cup ToSet(b.receipts)
  <1>1. /\ b \in BlockSet /\ BooksOf(b.db, K, slot) /\ slot \in Nat /\ 0 < slot
        /\ b.db \in Dbs /\ b.receipts \in Seq(ReceiptSet) /\ b.trxs \in Seq(IdSet)
    BY DEF Regular, BooksOf, BlockSet
  <1>2. p \in Made /\ p \in Progs /\ p \notin Trxs
    BY ProgramsAssumption DEF Nested, Progs
  <1>3. id \in IdSet /\ id.prog = p /\ id.at = slot
    BY <1>1, <1>2 DEF MadeId, IdSet
  <1>4. id # NoId
    BY <1>1, <1>3 DEF NoId
  <1>5. s \in ReceiptSet /\ s.id = id /\ s.status = "executed" /\ ~s.packed
    BY <1>3 DEF Receipt, ReceiptSet
  <1>6. d \in Dbs /\ d.gtos = b.db.gtos /\ d.dedup = b.db.dedup \cup {e}
    <2>1. e \in KnownSet
      BY <1>1, <1>3 DEF KnownSet
    <2> QED BY <1>1, <2>1 DEF record_transaction, Dbs
  <1>7. CASE is_known_unexpired_transaction(b.db, id) \/ ~ExecOk(d, p, FALSE)
    <2>1. R = Failed(b)
      BY <1>7 DEF push_nested_trx
    <2> QED BY <2>1 DEF Failed
  <1>8. CASE ~(is_known_unexpired_transaction(b.db, id) \/ ~ExecOk(d, p, FALSE))
    <2>1. R = Done([b EXCEPT !.db = x, !.receipts = rs, !.trxs = ts])
      BY <1>8 DEF push_nested_trx, push_receipt, BlockSet
    <2>2. R.ok /\ c = [b EXCEPT !.db = x, !.receipts = rs, !.trxs = ts]
      BY <2>1 DEF Done
    <2>3. rs \in Seq(ReceiptSet) /\ ts \in Seq(IdSet)
      BY <1>1, <1>3, <1>5, Appended
    <2>4. BooksOf(d, K \cup {s}, slot) /\ Fresh(K, s)
      <3> HIDE DEF d, K, s
      <3>1. ~is_known_unexpired_transaction(b.db, MadeId(p, slot))
        BY <1>8
      <3>2. d.dedup = b.db.dedup \cup {[id |-> MadeId(p, slot), expires |-> slot]} /\ s.id = MadeId(p, slot)
        BY <1>5, <1>6
      <3> QED BY <1>1, <1>5, <1>6, <3>1, <3>2, BooksNested
    <2> HIDE DEF d, rs, ts
    <2>5. BooksOf(x, K \cup {s}, slot)
      <3> HIDE DEF K, s
      <3> QED BY <1>2, <2>4, BooksExec
    <2>6. x \in Dbs
      BY <2>5 DEF BooksOf
    <2> HIDE DEF x, R
    <2>7. c \in BlockSet /\ c.db = x /\ c.receipts = rs /\ c.trxs = ts
      BY <2>2, <2>3, <2>6, <1>1 DEF BlockSet
    <2>8. Regular(c, L, slot)
      <3> HIDE DEF s, id
      <3>1. c.receipts = Append(b.receipts, s) /\ c.trxs = Append(b.trxs, s.id) /\ s.id.prog \notin Trxs
        BY <1>2, <1>3, <1>5, <2>7 DEF rs, ts
      <3>2. BooksOf(c.db, (L \cup ToSet(b.receipts)) \cup {s}, slot) /\ Fresh(L \cup ToSet(b.receipts), s)
        BY <2>4, <2>5, <2>7
      <3> QED BY <1>5, <2>7, <3>1, <3>2, RegularOne
    <2> QED BY <1>4, <1>5, <2>2, <2>7, <2>8 DEF R, rs, ts
  <1> QED BY <1>7, <1>8

\* push_transaction adds the transaction with all that it does, or nothing.
LEMMA PushSound ==
    ASSUME NEW b, NEW db, NEW L, NEW slot, Sound(b, db, L, slot), NEW t \in Trxs
    PROVE  LET R == push_transaction(b, InputId(t), slot) IN
           \/ ~R.ok /\ R.b = b
           \/ R.ok /\ Sound(R.b, db, L, slot) /\ ToSet(b.trxs) \cup {InputId(t)} \subseteq ToSet(R.b.trxs)
  <1> DEFINE id == InputId(t)
             R == push_transaction(b, id, slot)
             a == Applied(b, id, slot)
             st == IF Delay[t] > 0 THEN "delayed" ELSE "executed"
             r == Receipt(id, st, TRUE)
             p == Does[t].prog
             N == push_nested_trx(a, p, slot)
             s == Receipt(MadeId(p, slot), "executed", FALSE)
  <1>1. b \in BlockSet /\ Regular(b, L, slot) /\ Reproduces(db, slot, b) /\ slot \in Nat
    BY DEF Sound, Regular, BooksOf
  <1>2. id \in IdSet /\ id.prog = t
    BY DEF InputId, IdSet, Progs
  <1>3. r \in ReceiptSet /\ r.id = id /\ r.packed
    BY <1>2 DEF Receipt, ReceiptSet
  <1>4. a \in BlockSet /\ a.receipts = Append(b.receipts, r) /\ a.trxs = Append(b.trxs, id)
    BY <1>1, AppliedFields
  <1>5. ToSet(a.trxs) = ToSet(b.trxs) \cup {id}
    <2>1. b.trxs \in Seq(IdSet)
      BY <1>1 DEF BlockSet
    <2> QED BY <1>2, <1>4, <2>1, ToSetAppend
  <1>6. \A rs : ApplyReceipt(Accepted(b), r, slot, rs) = CheckReceipt(Accepted(b), r, R, rs)
    <2>1. r.packed /\ R = push_transaction(b, r.id, slot)
      BY <1>3
    <2> HIDE DEF R, r
    <2> QED BY <2>1, ApplyInput
  <1>7. CASE ~(InputOk(b.db, id, slot) /\ (Delay[t] > 0 \/ ExecOk(b.db, t, TRUE)))
    <2>1. R = Failed(b)
      BY <1>2, <1>7 DEF push_transaction
    <2> QED BY <2>1 DEF Failed
  <1>8. CASE InputOk(b.db, id, slot) /\ (Delay[t] > 0 \/ ExecOk(b.db, t, TRUE))
    <2>1. R = WithNested(b, a, id, slot)
      BY <1>2, <1>8 DEF push_transaction
    <2>2. Regular(a, L, slot)
      BY <1>1, <1>8, AppliedRegular
    <2> HIDE DEF a, r, id, R, s
    <2>3. CASE ~Nests(id)
      <3>1. R.ok /\ R.b = a
        BY <2>1, <2>3 DEF WithNested, Done
      <3>2. \A rs : CheckReceipt(Accepted(b), r, R, rs) = Accepted(a)
        BY <1>1, <1>3, <1>4, <3>1, CheckOne
      <3>3. Reproduces(db, slot, a)
        BY <1>1, <1>3, <1>4, <1>6, <3>2, ReproduceOne
      <3> QED BY <1>5, <2>2, <3>1, <3>3 DEF Sound, id, R
    <2>4. CASE Nests(id)
      <3>1. R = AfterNested(b, N)
        BY <1>2, <2>1, <2>4 DEF WithNested
      <3>2. p \in Nested
        BY <1>2, <2>4 DEF Nests, Nested, Progs
      <3>3. \/ ~N.ok /\ N.b = a
            \/ /\ N.ok /\ Regular(N.b, L, slot) /\ N.b.receipts = Append(a.receipts, s)
               /\ N.b.trxs = Append(a.trxs, MadeId(p, slot))
               /\ s \in ReceiptSet /\ s.id # NoId /\ ~s.packed
        BY <2>2, <3>2, NestedRegular DEF s
      <3> HIDE DEF N
      <3>4. CASE ~N.ok /\ N.b = a
        <4>1. R = Failed([a EXCEPT !.receipts = b.receipts, !.trxs = b.trxs, !.db = b.db])
          BY <3>1, <3>4, <1>4 DEF AfterNested, make_block_restore_point, BlockSet
        <4>2. [a EXCEPT !.receipts = b.receipts, !.trxs = b.trxs, !.db = b.db] = b
          BY <1>1, <1>4 DEF BlockSet
        <4>3. ~R.ok /\ R.b = b
          BY <4>1, <4>2 DEF Failed
        <4> QED BY <4>3 DEF R, id
      <3>5. CASE /\ N.ok /\ Regular(N.b, L, slot) /\ N.b.receipts = Append(a.receipts, s)
                 /\ N.b.trxs = Append(a.trxs, MadeId(p, slot))
                 /\ s \in ReceiptSet /\ s.id # NoId /\ ~s.packed
        <4> DEFINE c == N.b
        <4>1. R = N /\ R.ok /\ R.b = c
          BY <3>1, <3>5 DEF AfterNested
        <4>2. c \in BlockSet /\ c.receipts = Append(Append(b.receipts, r), s)
          BY <1>4, <3>5 DEF Regular
        <4>3. ToSet(a.trxs) \subseteq ToSet(c.trxs)
          <5>1. a.trxs \in Seq(IdSet) /\ MadeId(p, slot) \in IdSet
            BY <1>1, <1>4, <3>2, ProgramsAssumption DEF BlockSet, MadeId, IdSet, Nested, Progs
          <5>2. ToSet(c.trxs) = ToSet(a.trxs) \cup {MadeId(p, slot)}
            BY <3>5, <5>1, ToSetAppend
          <5> QED BY <5>2
        <4> HIDE DEF c
        <4>4. \A rs : s \in ToSet(rs) => CheckReceipt(Accepted(b), r, R, rs) = Waiting(c, s.id)
          BY <1>1, <1>3, <3>5, <4>1, <4>2, CheckTwo
        <4>5. Reproduces(db, slot, c)
          BY <1>1, <1>3, <1>6, <3>5, <4>2, <4>4, ReproduceTwo
        <4>6. Sound(c, db, L, slot)
          BY <3>5, <4>5 DEF Sound, c
        <4> QED BY <1>5, <4>1, <4>3, <4>6 DEF R, id
      <3> QED BY <3>3, <3>4, <3>5
    <2> QED BY <2>3, <2>4
  <1> QED BY <1>7, <1>8

\* Also what is no input may be tried.
LEMMA PushAny ==
    ASSUME NEW b, NEW db, NEW L, NEW slot, Sound(b, db, L, slot), NEW id \in TrxIds
    PROVE  LET R == push_transaction(b, id, slot) IN
           \/ ~R.ok /\ R.b = b
           \/ R.ok /\ Sound(R.b, db, L, slot) /\ ToSet(b.trxs) \cup {id} \subseteq ToSet(R.b.trxs)
  <1>1. CASE id.prog \notin Trxs
    <2>1. push_transaction(b, id, slot) = Failed(b)
      BY <1>1 DEF push_transaction, InputOk
    <2> QED BY <2>1 DEF Failed
  <1>2. CASE id.prog \in Trxs
    <2>1. id = InputId(id.prog)
      BY <1>2 DEF TrxIds, IdSet, InputId
    <2> DEFINE t == id.prog
    <2> HIDE DEF t
    <2>2. t \in Trxs /\ id = InputId(t)
      BY <1>2, <2>1 DEF t
    <2> QED BY <2>2, PushSound
  <1> QED BY <1>1, <1>2

\* Rows that are ready are retired one after the other.
LEMMA ScheduledAllSound ==
    ASSUME NEW b, NEW db, NEW L, NEW slot, Sound(b, db, L, slot), NEW order, Len(order) \in Nat,
           \A i \in 1 .. Len(order) : order[i].delay_until <= slot /\ order[i].published < slot
    PROVE  LET c == ApplyScheduled(b, order, slot) IN Sound(c, db, L, slot) /\ c.trxs = b.trxs
  <1> DEFINE n == Len(order)
  <1>1. PICK f : ScheduledRun(f, b, order, slot)
    BY ScheduledSteps, Zenon
  <1>2. /\ f[0] = b
        /\ \A i \in 1 .. n : f[i] = TryScheduled(f[i - 1], order[i], slot)
        /\ ApplyScheduled(b, order, slot) = f[n]
    BY <1>1 DEF ScheduledRun
  <1> DEFINE S == {i \in 0 .. n : Sound(f[i], db, L, slot) /\ f[i].trxs = b.trxs}
  <1>3. 0 \in S
    BY <1>2
  <1>4. ASSUME NEW i \in 1 .. n, i - 1 \in S PROVE i \in S
    <2> DEFINE c == f[i - 1]
               g == order[i]
    <2>1. Sound(c, db, L, slot) /\ c.trxs = b.trxs
      BY <1>4
    <2>2. f[i] = IF g \in c.db.gtos THEN push_scheduled_transaction(c, g, slot).b ELSE c
      BY <1>2 DEF TryScheduled
    <2>3. g.delay_until <= slot /\ g.published < slot
      OBVIOUS
    <2> HIDE DEF c, g
    <2>4. CASE g \in c.db.gtos
      <3>1. f[i] = push_scheduled_transaction(c, g, slot).b
        BY <2>2, <2>4
      <3>2. Sound(f[i], db, L, slot) /\ f[i].trxs = c.trxs
        BY <2>1, <2>3, <2>4, <3>1, ScheduledSound
      <3> QED BY <2>1, <3>2
    <2>5. CASE g \notin c.db.gtos
      BY <2>1, <2>2, <2>5
    <2> QED BY <2>4, <2>5
  <1>5. n \in S
    <2> HIDE DEF S
    <2>1. \A i \in 0 .. n : i \in S
      BY <1>3, <1>4, Climb
    <2> QED BY <2>1
  <1> QED BY <1>2, <1>5

\* What others try
OtherOps(ops) ==
    Len(ops) \in Nat /\ \A i \in 1 .. Len(ops) : ops[i].input => \E t \in Trxs : ops[i].id = InputId(t)

\* Blocks of others are made by the rules.
LEMMA OtherSound ==
    ASSUME NEW db \in Dbs, NEW L, L \subseteq ReceiptSet, NEW s \in Nat, Books(db, L, s),
           NEW slot \in Nat, s < slot, NEW ops, OtherOps(ops)
    PROVE  Sound(OtherBlock(db, slot, ops), db, L, slot)
  <1> DEFINE n == Len(ops)
  <1>1. n \in Nat /\ \A i \in 1 .. n : ops[i].input => \E t \in Trxs : ops[i].id = InputId(t)
    BY DEF OtherOps
  <1>2. PICK f : OtherRun(f, db, slot, ops)
    BY <1>1, OtherSteps, Zenon
  <1>3. /\ f[0] = start_block(db, slot)
        /\ \A i \in 1 .. n : f[i] = TryOther(f[i - 1], ops[i], slot)
        /\ OtherBlock(db, slot, ops) = f[n]
    BY <1>2 DEF OtherRun
  <1> DEFINE S == {i \in 0 .. n : Sound(f[i], db, L, slot)}
  <1>4. 0 \in S
    BY <1>1, <1>3, StartSound
  <1>5. ASSUME NEW i \in 1 .. n, i - 1 \in S PROVE i \in S
    <2> DEFINE b == f[i - 1]
               op == ops[i]
               rows == {g \in Ready(b.db, slot) : g.id = op.id}
               g0 == CHOOSE g \in rows : TRUE
    <2>1. Sound(b, db, L, slot)
      BY <1>5
    <2>2. op.input => \E t \in Trxs : op.id = InputId(t)
      BY <1>1
    <2>3. f[i] = IF op.input THEN push_transaction(b, op.id, slot).b
                 ELSE IF rows = {} THEN b ELSE push_scheduled_transaction(b, g0, slot).b
      BY <1>3 DEF TryOther
    <2>4. rows # {} => g0 \in rows
      OBVIOUS
    <2>5. g0 \in rows => g0 \in b.db.gtos /\ g0.delay_until <= slot /\ g0.published < slot
      BY DEF Ready
    <2> HIDE DEF b, op, rows, g0
    <2>6. CASE op.input
      <3>1. PICK t \in Trxs : op.id = InputId(t)
        BY <2>2, <2>6
      <3>2. f[i] = push_transaction(b, InputId(t), slot).b
        BY <2>3, <2>6, <3>1
      <3>3. f[i] = b \/ Sound(f[i], db, L, slot)
        BY <2>1, <3>2, PushSound
      <3> QED BY <2>1, <3>3
    <2>7. CASE ~op.input /\ rows = {}
      BY <2>1, <2>3, <2>7
    <2>8. CASE ~op.input /\ rows # {}
      <3>1. f[i] = push_scheduled_transaction(b, g0, slot).b
        BY <2>3, <2>8
      <3>2. Sound(f[i], db, L, slot)
        BY <2>1, <2>4, <2>5, <2>8, <3>1, ScheduledSound
      <3> QED BY <3>2
    <2> QED BY <2>6, <2>7, <2>8
  <1>6. n \in S
    <2> HIDE DEF S
    <2>1. \A i \in 0 .. n : i \in S
      BY <1>1, <1>4, <1>5, Climb
    <2> QED BY <1>1, <2>1
  <1> QED BY <1>3, <1>6

\* A block that was made by the rules is accepted as it is.
LEMMA GoodOutcome ==
    ASSUME NEW b, NEW db, NEW L, NEW slot, Sound(b, db, L, slot)
    PROVE  apply_block(db, slot, b.receipts) = Accepted(b)
  <1> DEFINE rs == b.receipts
             v == ApplyReceipts(db, slot, rs)[Len(rs)]
  <1>1. rs \in Seq(ReceiptSet) /\ Reproduces(db, slot, b)
    BY DEF Sound, Regular, BlockSet
  <1>2. Extends(rs, rs)
    BY <1>1 DEF Extends
  <1>3. v = Accepted(b)
    BY <1>1, <1>2 DEF Reproduces
  <1>4. apply_block(db, slot, rs) = [v EXCEPT !.ok = @ /\ v.wait = NoId /\ v.b.receipts = rs]
    BY DEF apply_block
  <1> HIDE DEF v, rs
  <1>5. v.ok = TRUE /\ v.wait = NoId /\ v.b.receipts = rs
    BY <1>3 DEF Accepted, rs
  <1>6. (v.ok /\ v.wait = NoId /\ v.b.receipts = rs) = TRUE
    BY <1>5
  <1>7. apply_block(db, slot, rs) = [v EXCEPT !.ok = TRUE]
    BY <1>4, <1>6
  <1> QED BY <1>3, <1>7 DEF Accepted, rs

\* What comes of a received block v with these receipts: what it has made is made by the
\* rules, and it is that block when it is accepted.
Outcome(v, rs, db, L, slot) ==
    /\ Sound(v.b, db, L, slot)
    /\ v.ok \in BOOLEAN
    /\ v.ok => v = Accepted(v.b) /\ v.b.receipts = rs

\* A block with a receipt too many
LEMMA BadOutcome ==
    ASSUME NEW b, NEW db, NEW L, NEW slot, Sound(b, db, L, slot), NEW t \in Trxs
    PROVE  LET rs == Append(b.receipts, Receipt(InputId(t), "executed", TRUE)) IN
           Outcome(apply_block(db, slot, rs), rs, db, L, slot)
  <1> DEFINE r == Receipt(InputId(t), "executed", TRUE)
             rs == Append(b.receipts, r)
             n == Len(b.receipts)
             f == ApplyReceipts(db, slot, rs)
             R == push_transaction(b, InputId(t), slot)
             v == f[n + 1]
             w == apply_block(db, slot, rs)
             got == SubSeq(R.b.receipts, n + 1, Len(R.b.receipts))
             nested == Len(got) = 2
             explicit == nested => \E x \in ToSet(rs) : ~x.packed /\ x.id = got[2].id
             matches == got # <<>> /\ got[1] = r /\ (nested => got[2] \in ToSet(rs))
             wait == IF nested THEN got[2].id ELSE NoId
  <1>1. b.receipts \in Seq(ReceiptSet) /\ Reproduces(db, slot, b)
    BY DEF Sound, Regular, BlockSet
  <1>2. r \in ReceiptSet /\ r.id = InputId(t) /\ r.packed
    BY DEF Receipt, ReceiptSet, InputId, IdSet, Progs
  <1> HIDE DEF r
  <1>3. /\ rs \in Seq(ReceiptSet) /\ n \in Nat /\ Len(rs) = n + 1 /\ rs[n + 1] = r
        /\ \A i \in 1 .. n : rs[i] = b.receipts[i]
    BY <1>1, <1>2, Appended
  <1> HIDE DEF rs
  <1>4. Extends(rs, b.receipts) /\ n + 1 \in 1 .. Len(rs) /\ (n + 1) - 1 = n /\ Len(rs) \in Nat
    BY <1>3 DEF Extends
  <1>5. f[n] = Accepted(b)
    BY <1>1, <1>3, <1>4 DEF Reproduces
  <1>6. v = ApplyReceipt(f[n], rs[n + 1], slot, rs)
    <2>1. \A i \in 1 .. Len(rs) : f[i] = ApplyReceipt(f[i - 1], rs[i], slot, rs)
      BY <1>4, ReceiptSteps
    <2> HIDE DEF f, n
    <2> QED BY <1>4, <2>1
  <1>7. v = CheckReceipt(Accepted(b), r, R, rs)
    BY <1>2, <1>3, <1>5, <1>6, ApplyInput
  <1>8. w = [v EXCEPT !.ok = @ /\ v.wait = NoId /\ v.b.receipts = rs]
    BY <1>3 DEF apply_block
  <1>9. (~R.ok /\ R.b = b) \/ (R.ok /\ Sound(R.b, db, L, slot))
    BY PushSound
  <1>10. v = IF r.packed /\ ~(R.ok /\ explicit) THEN [Accepted(b) EXCEPT !.ok = FALSE, !.failed = {r.id}]
             ELSE [Accepted(b) EXCEPT !.b = R.b, !.ok = (R.ok \/ r.status = "hard_fail") /\ matches, !.wait = wait]
    <2>1. Accepted(b).b = b
      BY DEF Accepted
    <2> HIDE DEF v, R
    <2> QED BY <1>7, <2>1 DEF CheckReceipt
  <1> HIDE DEF v, w, R, got, nested, explicit, matches, wait
  <1>11. CASE ~(R.ok /\ explicit)
    <2>1. v = [Accepted(b) EXCEPT !.ok = FALSE, !.failed = {r.id}]
      BY <1>2, <1>10, <1>11
    <2>2. v.b = b /\ v.ok = FALSE /\ v = [b |-> b, ok |-> FALSE, wait |-> NoId, failed |-> {r.id}]
      BY <2>1 DEF Accepted
    <2>3. (v.ok /\ v.wait = NoId /\ v.b.receipts = rs) = FALSE
      BY <2>2
    <2>4. w = [v EXCEPT !.ok = FALSE]
      BY <1>8, <2>3
    <2>5. w.b = b /\ w.ok = FALSE
      BY <2>2, <2>4
    <2> QED BY <2>5 DEF Outcome, w, rs, r
  <1>12. CASE R.ok /\ explicit
    <2> DEFINE fine == (R.ok \/ r.status = "hard_fail") /\ matches
               good == fine /\ wait = NoId /\ R.b.receipts = rs
    <2>1. v = [Accepted(b) EXCEPT !.b = R.b, !.ok = fine, !.wait = wait]
      BY <1>10, <1>12
    <2> HIDE DEF fine
    <2>2. v = [b |-> R.b, ok |-> fine, wait |-> wait, failed |-> {}]
      BY <2>1 DEF Accepted
    <2>3. v.b = R.b /\ v.ok = fine /\ v.wait = wait
      BY <2>2
    <2>4. w = [v EXCEPT !.ok = good]
      BY <1>8, <2>3
    <2>5. w = [b |-> R.b, ok |-> good, wait |-> wait, failed |-> {}]
      BY <2>2, <2>4
    <2>6. good \in BOOLEAN
      OBVIOUS
    <2>7. good => wait = NoId /\ R.b.receipts = rs /\ good = TRUE
      OBVIOUS
    <2> HIDE DEF good
    <2>8. w.b = R.b /\ w.ok = good
      BY <2>5
    <2>9. good => w = Accepted(w.b)
      BY <2>5, <2>7, <2>8 DEF Accepted
    <2> QED BY <1>9, <1>12, <2>6, <2>7, <2>8, <2>9 DEF Outcome, w, rs, r
  <1> QED BY <1>11, <1>12

\* Whatever others send
LEMMA OtherOutcome ==
    ASSUME NEW db \in Dbs, NEW L, L \subseteq ReceiptSet, NEW s \in Nat, Books(db, L, s),
           NEW slot \in Nat, s < slot, NEW o \in OtherBlocks(db, slot)
    PROVE  LET v == apply_block(db, slot, o.receipts) IN
           Outcome(v, o.receipts, db, L, slot) /\ Refused(o, v) = {}
  <1> DEFINE all == {[input |-> TRUE, id |-> InputId(t)] : t \in Trxs}
                    \cup {[input |-> FALSE, id |-> g.id] : g \in db.gtos}
             Tried(k) == {OtherBlock(db, slot, q) : q \in BoundedSeq(all, k)}
             v == apply_block(db, slot, o.receipts)
  <1>1. ASSUME NEW k, NEW b \in Tried(k) PROVE Sound(b, db, L, slot)
    <2>1. PICK q \in BoundedSeq(all, k) : b = OtherBlock(db, slot, q)
      OBVIOUS
    <2>2. q \in Seq(all)
      <3> HIDE DEF all
      <3> QED BY DEF BoundedSeq, SeqOf
    <2>3. Len(q) \in Nat /\ \A i \in 1 .. Len(q) : q[i] \in all
      BY <2>2
    <2>4. ASSUME NEW i \in 1 .. Len(q), q[i].input PROVE \E t \in Trxs : q[i].id = InputId(t)
      <3>1. q[i] \in all
        BY <2>3
      <3>2. CASE \E t \in Trxs : q[i] = [input |-> TRUE, id |-> InputId(t)]
        BY <3>2
      <3>3. CASE \E g \in db.gtos : q[i] = [input |-> FALSE, id |-> g.id]
        <4>1. q[i].input = FALSE
          BY <3>3
        <4> QED BY <2>4, <4>1
      <3> QED BY <3>1, <3>2, <3>3
    <2>5. OtherOps(q)
      BY <2>3, <2>4 DEF OtherOps
    <2> QED BY <2>1, <2>5, OtherSound
  <1>2. o \in {[b |-> b, receipts |-> b.receipts, good |-> TRUE] : b \in Tried(MaxOps)}
              \cup UNION {{[b |-> b, receipts |-> Append(b.receipts, Receipt(InputId(t), "executed", TRUE)),
                           good |-> FALSE] : t \in Trxs} : b \in Tried(MaxOps - 1)}
    BY DEF OtherBlocks
  <1> HIDE DEF Tried
  <1>3. \/ \E b \in Tried(MaxOps) : o = [b |-> b, receipts |-> b.receipts, good |-> TRUE]
        \/ \E b \in Tried(MaxOps - 1), t \in Trxs :
              o = [b |-> b, receipts |-> Append(b.receipts, Receipt(InputId(t), "executed", TRUE)), good |-> FALSE]
    BY <1>2
  <1>4. CASE \E b \in Tried(MaxOps) : o = [b |-> b, receipts |-> b.receipts, good |-> TRUE]
    <2>1. PICK b \in Tried(MaxOps) : o = [b |-> b, receipts |-> b.receipts, good |-> TRUE]
      BY <1>4
    <2>2. Sound(b, db, L, slot) /\ o.b = b /\ o.receipts = b.receipts
      BY <1>1, <2>1
    <2>3. v = Accepted(b)
      BY <2>2, GoodOutcome
    <2> HIDE DEF v
    <2>4. v.b = b /\ v.ok = TRUE
      BY <2>3 DEF Accepted
    <2>5. Outcome(v, o.receipts, db, L, slot)
      BY <2>2, <2>3, <2>4 DEF Outcome
    <2>6. Refused(o, v) = {}
      BY <2>2, <2>4 DEF Refused
    <2> QED BY <2>5, <2>6 DEF v
  <1>5. CASE \E b \in Tried(MaxOps - 1), t \in Trxs :
                o = [b |-> b, receipts |-> Append(b.receipts, Receipt(InputId(t), "executed", TRUE)), good |-> FALSE]
    <2>1. PICK b \in Tried(MaxOps - 1), t \in Trxs :
                o = [b |-> b, receipts |-> Append(b.receipts, Receipt(InputId(t), "executed", TRUE)), good |-> FALSE]
      BY <1>5
    <2>2. Sound(b, db, L, slot)
      BY <1>1
    <2>3. o.receipts = Append(b.receipts, Receipt(InputId(t), "executed", TRUE)) /\ o.good = FALSE
      BY <2>1
    <2>4. Outcome(v, o.receipts, db, L, slot)
      BY <2>2, <2>3, BadOutcome
    <2>5. Refused(o, v) = {}
      BY <2>3 DEF Refused
    <2> QED BY <2>4, <2>5
  <1> QED BY <1>3, <1>4, <1>5

-----------------------------------------------------------------------------
\* Transactions into the pending block

\* The lists while a block is filled; C are the inputs of the chain.
Flows ==
    [b : BlockSet, unapplied : SUBSET TrxIds, incoming : Seq(Trxs), told : SUBSET Trxs, gone : SUBSET TrxIds]

FlowOk(f, db, L, slot, C) ==
    /\ f \in Flows
    /\ Sound(f.b, db, L, slot)
    /\ \A t \in f.told : InputId(t) \in C \cup ToSet(f.b.trxs) \cup f.unapplied \cup f.gone

\* Ids of inputs
LEMMA InputIds ==
    ASSUME NEW t \in Trxs
    PROVE  InputId(t) \in TrxIds
  BY DEF InputId, TrxIds, IdSet, Progs

\* The lists after one more transaction
LEMMA FlowStep ==
    ASSUME NEW f, NEW db, NEW L, NEW slot, NEW C, FlowOk(f, db, L, slot, C),
           NEW b, Sound(b, db, L, slot), NEW U, NEW G, NEW T, NEW I \in Seq(Trxs),
           U \subseteq TrxIds, G \subseteq TrxIds, T \subseteq Trxs,
           \A t \in T : t \in f.told \/ InputId(t) \in ToSet(b.trxs),
           \A t \in f.told : InputId(t) \in C \cup ToSet(f.b.trxs) \cup f.unapplied \cup f.gone =>
                             InputId(t) \in C \cup ToSet(b.trxs) \cup U \cup G
    PROVE  FlowOk([f EXCEPT !.b = b, !.unapplied = U, !.incoming = I, !.told = T, !.gone = G], db, L, slot, C)
  <1> DEFINE e == [f EXCEPT !.b = b, !.unapplied = U, !.incoming = I, !.told = T, !.gone = G]
  <1>1. f \in Flows /\ b \in BlockSet
    BY DEF FlowOk, Sound, Regular
  <1>2. e \in Flows /\ e.b = b /\ e.unapplied = U /\ e.incoming = I /\ e.told = T /\ e.gone = G
    BY <1>1 DEF Flows
  <1> HIDE DEF e
  <1>3. \A t \in T : InputId(t) \in C \cup ToSet(b.trxs) \cup U \cup G
    BY DEF FlowOk
  <1>4. FlowOk(e, db, L, slot, C)
    BY <1>2, <1>3 DEF FlowOk
  <1> QED BY <1>4 DEF e

\* An unapplied transaction
LEMMA UnappliedFlow ==
    ASSUME NEW f, NEW db, NEW L, NEW slot, NEW C, FlowOk(f, db, L, slot, C), NEW id \in TrxIds
    PROVE  LET e == TryUnapplied(f, id, slot) IN FlowOk(e, db, L, slot, C) /\ e.incoming = f.incoming
  <1> DEFINE e == TryUnapplied(f, id, slot)
             R == push_transaction(f.b, id, slot)
             With(b, U, G) == [f EXCEPT !.b = b, !.unapplied = U, !.incoming = f.incoming, !.told = f.told, !.gone = G]
  <1>1. /\ f \in Flows /\ Sound(f.b, db, L, slot) /\ f.unapplied \subseteq TrxIds /\ f.gone \subseteq TrxIds
        /\ f.incoming \in Seq(Trxs) /\ f.told \subseteq Trxs
    BY DEF FlowOk, Flows
  <1>2. \A b, U, G : With(b, U, G).incoming = f.incoming
    BY <1>1 DEF Flows
  <1>3. (~R.ok /\ R.b = f.b) \/ (R.ok /\ Sound(R.b, db, L, slot) /\ ToSet(f.b.trxs) \cup {id} \subseteq ToSet(R.b.trxs))
    BY <1>1, PushAny
  <1>4. \/ e = With(f.b, f.unapplied \ {id}, f.gone \cup {id})
        \/ e = With(R.b, f.unapplied \ {id}, IF R.ok THEN f.gone \ {id} ELSE f.gone \cup {id})
    BY <1>1 DEF TryUnapplied, Push, Flows
  <1> HIDE DEF R, e
  <1>5. FlowOk(With(f.b, f.unapplied \ {id}, f.gone \cup {id}), db, L, slot, C)
    <2>1. f.unapplied \ {id} \subseteq TrxIds /\ f.gone \cup {id} \subseteq TrxIds
      BY <1>1
    <2>2. \A x \in f.told : InputId(x) \in C \cup ToSet(f.b.trxs) \cup f.unapplied \cup f.gone =>
                            InputId(x) \in C \cup ToSet(f.b.trxs) \cup (f.unapplied \ {id}) \cup (f.gone \cup {id})
      OBVIOUS
    <2> QED BY <1>1, <2>1, <2>2, FlowStep
  <1>6. CASE ~R.ok /\ R.b = f.b
    <2>1. e = With(f.b, f.unapplied \ {id}, f.gone \cup {id})
      BY <1>4, <1>6
    <2> QED BY <1>2, <1>5, <2>1 DEF e
  <1>7. CASE R.ok /\ Sound(R.b, db, L, slot) /\ ToSet(f.b.trxs) \cup {id} \subseteq ToSet(R.b.trxs)
    <2>1. FlowOk(With(R.b, f.unapplied \ {id}, f.gone \ {id}), db, L, slot, C)
      BY <1>1, <1>7, FlowStep
    <2>2. e = With(f.b, f.unapplied \ {id}, f.gone \cup {id}) \/ e = With(R.b, f.unapplied \ {id}, f.gone \ {id})
      BY <1>4, <1>7
    <2> HIDE DEF With
    <2> QED BY <1>2, <1>5, <2>1, <2>2 DEF e
  <1> QED BY <1>3, <1>6, <1>7

\* Unapplied transactions
LEMMA UnappliedAllFlow ==
    ASSUME NEW f, NEW db, NEW L, NEW slot, NEW C, FlowOk(f, db, L, slot, C), NEW order \in Seq(TrxIds)
    PROVE  LET e == ApplyUnapplied(f, order, slot) IN FlowOk(e, db, L, slot, C) /\ e.incoming = f.incoming
  <1> DEFINE n == Len(order)
  <1>1. n \in Nat /\ \A i \in 1 .. n : order[i] \in TrxIds
    OBVIOUS
  <1>2. PICK h : UnappliedRun(h, f, order, slot)
    BY <1>1, UnappliedSteps, Zenon
  <1>3. /\ h[0] = f
        /\ \A i \in 1 .. n : h[i] = TryUnapplied(h[i - 1], order[i], slot)
        /\ ApplyUnapplied(f, order, slot) = h[n]
    BY <1>2 DEF UnappliedRun
  <1> DEFINE S == {i \in 0 .. n : FlowOk(h[i], db, L, slot, C) /\ h[i].incoming = f.incoming}
  <1>4. 0 \in S
    BY <1>1, <1>3
  <1>5. ASSUME NEW i \in 1 .. n, i - 1 \in S PROVE i \in S
    <2> DEFINE e == h[i - 1]
    <2>1. FlowOk(e, db, L, slot, C) /\ e.incoming = f.incoming
      BY <1>5
    <2>2. h[i] = TryUnapplied(e, order[i], slot) /\ order[i] \in TrxIds
      BY <1>1, <1>3
    <2> HIDE DEF e
    <2>3. FlowOk(h[i], db, L, slot, C) /\ h[i].incoming = e.incoming
      BY <2>1, <2>2, UnappliedFlow
    <2> QED BY <2>1, <2>3
  <1>6. n \in S
    <2> HIDE DEF S
    <2>1. \A i \in 0 .. n : i \in S
      BY <1>1, <1>4, <1>5, Climb
    <2> QED BY <1>1, <2>1
  <1> QED BY <1>3, <1>6

\* A transaction that arrives
LEMMA IncomingFlow ==
    ASSUME NEW f, NEW db, NEW L, NEW slot, NEW C, FlowOk(f, db, L, slot, C), NEW t \in Trxs, NEW fits
    PROVE  FlowOk(ProcessIncoming(f, t, fits, slot), db, L, slot, C)
  <1> DEFINE id == InputId(t)
             e == ProcessIncoming(f, t, fits, slot)
             R == push_transaction(f.b, id, slot)
             With(b, I, T, U, G) == [f EXCEPT !.b = b, !.unapplied = U, !.incoming = I, !.told = T, !.gone = G]
  <1>1. /\ f \in Flows /\ Sound(f.b, db, L, slot) /\ f.unapplied \subseteq TrxIds /\ f.gone \subseteq TrxIds
        /\ f.incoming \in Seq(Trxs) /\ f.told \subseteq Trxs
    BY DEF FlowOk, Flows
  <1>2. id \in TrxIds
    BY InputIds
  <1>3. (~R.ok /\ R.b = f.b) \/ (R.ok /\ Sound(R.b, db, L, slot) /\ ToSet(f.b.trxs) \cup {id} \subseteq ToSet(R.b.trxs))
    BY <1>1, <1>2, PushAny
  <1>4. \/ e = f
        \/ e = With(f.b, Append(f.incoming, t), f.told, f.unapplied, f.gone)
        \/ e = With(R.b, f.incoming, IF R.ok THEN f.told \cup {t} ELSE f.told, f.unapplied \ {id},
                    IF R.ok THEN f.gone \ {id} ELSE f.gone \cup (f.unapplied \cap {id}))
    BY <1>1 DEF ProcessIncoming, Flows
  <1> HIDE DEF R, e, id
  <1>5. FlowOk(With(f.b, Append(f.incoming, t), f.told, f.unapplied, f.gone), db, L, slot, C)
    <2>1. Append(f.incoming, t) \in Seq(Trxs)
      BY <1>1, Appended
    <2> DEFINE I == Append(f.incoming, t)
    <2> HIDE DEF I
    <2>2. FlowOk(With(f.b, I, f.told, f.unapplied, f.gone), db, L, slot, C)
      BY <1>1, <2>1, FlowStep DEF I
    <2> QED BY <2>2 DEF I
  <1>6. CASE ~R.ok /\ R.b = f.b
    <2> DEFINE G == f.gone \cup (f.unapplied \cap {id})
               U == f.unapplied \ {id}
    <2>1. \A x \in f.told : InputId(x) \in C \cup ToSet(f.b.trxs) \cup f.unapplied \cup f.gone =>
                            InputId(x) \in C \cup ToSet(f.b.trxs) \cup U \cup G
      OBVIOUS
    <2>2. U \subseteq TrxIds /\ G \subseteq TrxIds
      BY <1>1
    <2> HIDE DEF U, G
    <2>3. FlowOk(With(f.b, f.incoming, f.told, U, G), db, L, slot, C)
      BY <1>1, <2>1, <2>2, FlowStep
    <2>4. \/ e = f \/ e = With(f.b, Append(f.incoming, t), f.told, f.unapplied, f.gone)
          \/ e = With(f.b, f.incoming, f.told, U, G)
      BY <1>4, <1>6 DEF U, G
    <2> HIDE DEF With
    <2> QED BY <1>5, <2>3, <2>4 DEF e
  <1>7. CASE R.ok /\ Sound(R.b, db, L, slot) /\ ToSet(f.b.trxs) \cup {id} \subseteq ToSet(R.b.trxs)
    <2> DEFINE G == f.gone \ {id}
               U == f.unapplied \ {id}
               T == f.told \cup {t}
    <2>1. \A x \in f.told : InputId(x) \in C \cup ToSet(f.b.trxs) \cup f.unapplied \cup f.gone =>
                            InputId(x) \in C \cup ToSet(R.b.trxs) \cup U \cup G
      BY <1>7
    <2>2. U \subseteq TrxIds /\ G \subseteq TrxIds /\ T \subseteq Trxs
      BY <1>1
    <2>3. \A x \in T : x \in f.told \/ InputId(x) \in ToSet(R.b.trxs)
      BY <1>7 DEF id
    <2> HIDE DEF U, G, T
    <2>4. FlowOk(With(R.b, f.incoming, T, U, G), db, L, slot, C)
      BY <1>1, <1>7, <2>1, <2>2, <2>3, FlowStep
    <2>5. \/ e = f \/ e = With(f.b, Append(f.incoming, t), f.told, f.unapplied, f.gone)
          \/ e = With(R.b, f.incoming, T, U, G)
      BY <1>4, <1>7 DEF U, G, T
    <2> HIDE DEF With
    <2> QED BY <1>5, <2>4, <2>5 DEF e
  <1> QED BY <1>3, <1>6, <1>7

\* The queue
LEMMA PendingFlow ==
    ASSUME NEW f, NEW db, NEW L, NEW slot, NEW C, FlowOk(f, db, L, slot, C),
           NEW fits, Len(fits) \in Nat, Len(fits) <= Len(f.incoming)
    PROVE  FlowOk(ProcessPending(f, fits, slot), db, L, slot, C)
  <1> DEFINE n == Len(fits)
             I == SubSeq(f.incoming, n + 1, Len(f.incoming))
  <1>1. /\ f \in Flows /\ Sound(f.b, db, L, slot) /\ f.unapplied \subseteq TrxIds /\ f.gone \subseteq TrxIds
        /\ f.incoming \in Seq(Trxs) /\ f.told \subseteq Trxs
    BY DEF FlowOk, Flows
  <1>2. I \in Seq(Trxs) /\ \A i \in 1 .. n : f.incoming[i] \in Trxs
    BY <1>1
  <1>3. PICK h : PendingRun(h, f, fits, slot)
    BY PendingSteps, Zenon
  <1>4. /\ h[0] = [f EXCEPT !.incoming = I]
        /\ \A i \in 1 .. n : h[i] = ProcessIncoming(h[i - 1], f.incoming[i], fits[i], slot)
        /\ ProcessPending(f, fits, slot) = h[n]
    BY <1>1, <1>3 DEF PendingRun, Flows
  <1> HIDE DEF I
  <1> DEFINE S == {i \in 0 .. n : FlowOk(h[i], db, L, slot, C)}
  <1>5. FlowOk(h[0], db, L, slot, C)
    <2>1. h[0] = [f EXCEPT !.b = f.b, !.unapplied = f.unapplied, !.incoming = I, !.told = f.told, !.gone = f.gone]
      BY <1>1, <1>4 DEF Flows
    <2>2. FlowOk([f EXCEPT !.b = f.b, !.unapplied = f.unapplied, !.incoming = I, !.told = f.told, !.gone = f.gone],
                 db, L, slot, C)
      BY <1>1, <1>2, FlowStep
    <2> QED BY <2>1, <2>2
  <1>6. 0 \in S
    BY <1>5
  <1>7. ASSUME NEW i \in 1 .. n, i - 1 \in S PROVE i \in S
    <2> DEFINE e == h[i - 1]
               t == f.incoming[i]
    <2>1. FlowOk(e, db, L, slot, C) /\ h[i] = ProcessIncoming(e, t, fits[i], slot) /\ t \in Trxs
      BY <1>2, <1>4, <1>7
    <2> HIDE DEF e, t
    <2>2. FlowOk(h[i], db, L, slot, C)
      BY <2>1, IncomingFlow
    <2> QED BY <2>2
  <1>8. n \in S
    <2> HIDE DEF S
    <2>1. \A i \in 0 .. n : i \in S
      BY <1>6, <1>7, Climb
    <2> QED BY <2>1
  <1> QED BY <1>4, <1>8

-----------------------------------------------------------------------------
\* Chains

Inputs(c) == UNION {Packed(c[i].receipts) : i \in 1 .. Len(c)}

\* Receipts of a chain
LEMMA PastTypes ==
    ASSUME NEW c \in Seq(ChainBlocks), NEW i \in 0 .. Len(c)
    PROVE  PastTo(c, i) \subseteq ReceiptSet
  <1> SUFFICES ASSUME NEW j \in 1 .. i PROVE ToSet(c[j].receipts) \subseteq ReceiptSet
    BY DEF PastTo
  <1>1. c[j] \in ChainBlocks
    BY SMT
  <1>2. c[j].receipts \in Seq(ReceiptSet)
    BY <1>1 DEF ChainBlocks
  <1> QED BY <1>2 DEF ToSet

\* The parts of a longer chain
LEMMA PastAppend ==
    ASSUME NEW c \in Seq(ChainBlocks), NEW e \in ChainBlocks
    PROVE  LET q == Append(c, e) IN
           /\ \A i \in 0 .. Len(c) : PastTo(q, i) = PastTo(c, i)
           /\ PastTo(q, Len(c) + 1) = PastTo(c, Len(c)) \cup ToSet(e.receipts)
           /\ Inputs(q) = Inputs(c) \cup Packed(e.receipts)
  <1> DEFINE q == Append(c, e)
             n == Len(c)
  <1>1. n \in Nat /\ Len(q) = n + 1 /\ q[n + 1] = e /\ \A i \in 1 .. n : q[i] = c[i]
    BY Appended
  <1> HIDE DEF q, n
  <1>2. \A i \in 1 .. n + 1 : i \in 1 .. n \/ i = n + 1
    BY <1>1
  <1>3. n + 1 \in 1 .. n + 1 /\ \A i \in 1 .. n : i \in 1 .. n + 1
    BY <1>1
  <1>4. ASSUME NEW i \in 0 .. n PROVE PastTo(q, i) = PastTo(c, i)
    <2>1. \A j \in 1 .. i : q[j] = c[j]
      BY <1>1
    <2>2. {ToSet(q[j].receipts) : j \in 1 .. i} = {ToSet(c[j].receipts) : j \in 1 .. i}
      BY <2>1
    <2> QED BY <2>2 DEF PastTo
  <1>5. {ToSet(q[j].receipts) : j \in 1 .. n + 1} = {ToSet(c[j].receipts) : j \in 1 .. n} \cup {ToSet(e.receipts)}
    BY <1>1, <1>2, <1>3
  <1>6. PastTo(q, n + 1) = PastTo(c, n) \cup ToSet(e.receipts)
    BY <1>5 DEF PastTo
  <1>7. {Packed(q[j].receipts) : j \in 1 .. n + 1} = {Packed(c[j].receipts) : j \in 1 .. n} \cup {Packed(e.receipts)}
    BY <1>1, <1>2, <1>3
  <1>8. Inputs(q) = Inputs(c) \cup Packed(e.receipts)
    BY <1>1, <1>7 DEF Inputs, n
  <1> QED BY <1>4, <1>6, <1>8 DEF q, n

\* What ChainOk says of the last block
LEMMA ChainHead ==
    ASSUME NEW c, ChainOk(c)
    PROVE  /\ c \in Seq(ChainBlocks) /\ Len(c) \in Nat /\ 0 < Len(c)
           /\ Last(c) = c[Len(c)] /\ Last(c) \in ChainBlocks
           /\ Last(c).db \in Dbs /\ Last(c).slot \in Nat /\ Last(c).receipts \in Seq(ReceiptSet)
           /\ ToSet(Last(c).trxs) \subseteq TrxIds
           /\ Past(c) \subseteq ReceiptSet /\ Books(Last(c).db, Past(c), Last(c).slot)
  <1> DEFINE n == Len(c)
  <1>1. c \in Seq(ChainBlocks) /\ n \in Nat /\ 0 < n /\ n \in 1 .. n /\ n \in 0 .. n
    BY DEF ChainOk
  <1>2. c[n] \in ChainBlocks
    BY <1>1
  <1>3. c[n].db \in Dbs /\ c[n].slot \in Nat /\ c[n].receipts \in Seq(ReceiptSet)
    BY <1>2 DEF ChainBlocks
  <1>4. Past(c) \subseteq ReceiptSet
    BY <1>1, PastTypes DEF Past
  <1>5. Books(c[n].db, Past(c), c[n].slot) /\ ToSet(c[n].trxs) \subseteq TrxIds
    BY <1>1 DEF ChainOk, Past
  <1>6. Last(c) = c[n]
    BY DEF Last
  <1> QED BY <1>1, <1>2, <1>3, <1>4, <1>5, <1>6

\* A block is added.
LEMMA ChainAppend ==
    ASSUME NEW c, ChainOk(c), NEW b, NEW slot, Sound(b, Last(c).db, Past(c), slot), Last(c).slot < slot,
           NEW ts, ts \in Seq(IdSet), ToSet(ts) \subseteq TrxIds
    PROVE  LET q == Append(c, Stored(slot, b, ts)) IN
           ChainOk(q) /\ LastOk(q) /\ Inputs(q) = Inputs(c) \cup Packed(b.receipts)
  <1> DEFINE e == Stored(slot, b, ts)
             q == Append(c, e)
             n == Len(c)
  <1>1. c \in Seq(ChainBlocks) /\ n \in Nat /\ 0 < n /\ Last(c) = c[n] /\ Last(c).slot \in Nat
    BY ChainHead
  <1>2. /\ b \in BlockSet /\ BooksOf(b.db, Past(c) \cup ToSet(b.receipts), slot)
        /\ Once(Past(c), b.receipts)
    BY DEF Sound, Regular
  <1>3. slot \in Nat /\ Books(b.db, Past(c) \cup ToSet(b.receipts), slot)
    BY <1>2 DEF BooksOf
  <1>4. /\ e.slot = slot /\ e.receipts = b.receipts /\ e.trxs = ts /\ e.db = b.db /\ e \in ChainBlocks
    BY <1>2, <1>3 DEF BlockSet, ChainBlocks, Stored
  <1> HIDE DEF e
  <1>5. /\ q \in Seq(ChainBlocks) /\ Len(q) = n + 1 /\ q[n + 1] = e /\ \A i \in 1 .. n : q[i] = c[i]
    BY <1>1, <1>4, Appended
  <1>6. /\ \A i \in 0 .. n : PastTo(q, i) = PastTo(c, i)
        /\ PastTo(q, n + 1) = Past(c) \cup ToSet(b.receipts)
        /\ Inputs(q) = Inputs(c) \cup Packed(b.receipts)
    BY <1>1, <1>4, PastAppend DEF Past
  <1>7. apply_block(c[n].db, slot, b.receipts) = Accepted(b)
    BY <1>1, GoodOutcome
  <1> HIDE DEF q, n
  <1>8. PastTo(q, n) = Past(c) /\ (n + 1) - 1 = n
    BY <1>1, <1>6 DEF Past, n
  <1>9. ASSUME NEW i \in 1 .. n
        PROVE  /\ Books(q[i].db, PastTo(q, i), q[i].slot)
               /\ Once(PastTo(q, i - 1), q[i].receipts)
               /\ ToSet(q[i].trxs) \subseteq TrxIds
    <2>1. q[i] = c[i] /\ PastTo(q, i) = PastTo(c, i) /\ PastTo(q, i - 1) = PastTo(c, i - 1)
      BY <1>1, <1>5, <1>6
    <2> QED BY <2>1 DEF ChainOk, n
  <1>10. /\ Books(q[n + 1].db, PastTo(q, n + 1), q[n + 1].slot)
         /\ Once(PastTo(q, (n + 1) - 1), q[n + 1].receipts)
         /\ ToSet(q[n + 1].trxs) \subseteq TrxIds
    BY <1>2, <1>3, <1>4, <1>5, <1>6, <1>8
  <1>11. \A i \in 1 .. n + 1 : i \in 1 .. n \/ i = n + 1
    BY <1>1
  <1>12. ASSUME NEW i \in 1 .. n PROVE q[i].slot < q[i + 1].slot
    <2>1. CASE i = n
      BY <1>1, <1>4, <1>5, <2>1
    <2>2. CASE i # n
      <3>1. i \in 1 .. n - 1 /\ i + 1 \in 1 .. n
        BY <1>1, <2>2
      <3> QED BY <1>5, <3>1 DEF ChainOk, n
    <2> QED BY <2>1, <2>2
  <1>13. ChainOk(q)
    <2>1. Len(q) > 0 /\ Len(q) - 1 = n
      BY <1>1, <1>5
    <2>2. \A i \in 1 .. n + 1 :
            /\ Books(q[i].db, PastTo(q, i), q[i].slot)
            /\ Once(PastTo(q, i - 1), q[i].receipts)
            /\ ToSet(q[i].trxs) \subseteq TrxIds
      BY <1>9, <1>10, <1>11
    <2> QED BY <1>5, <1>12, <2>1, <2>2 DEF ChainOk
  <1>14. LastOk(q)
    <2>1. q[Len(q)] = e /\ q[Len(q) - 1] = c[n]
      BY <1>1, <1>5
    <2>2. apply_block(q[Len(q) - 1].db, q[Len(q)].slot, q[Len(q)].receipts) = Accepted(b)
      BY <1>4, <1>7, <2>1
    <2> QED BY <1>2, <1>4, <2>1, <2>2 DEF LastOk
  <1> QED BY <1>6, <1>13, <1>14 DEF q, e

\* The last block is popped.
LEMMA ChainFront ==
    ASSUME NEW c, ChainOk(c), Len(c) > 1
    PROVE  /\ ChainOk(Front(c)) /\ Last(Front(c)) = c[Len(c) - 1]
           /\ Append(Front(c), Last(c)) = c
           /\ Inputs(c) = Inputs(Front(c)) \cup Packed(Last(c).receipts)
  <1> DEFINE d == Front(c)
             n == Len(c)
             e == c[n]
  <1>1. c \in Seq(ChainBlocks) /\ n \in Nat /\ Last(c) = e /\ e \in ChainBlocks
    BY ChainHead
  <1>2. /\ d \in Seq(ChainBlocks) /\ Len(d) = n - 1 /\ n - 1 \in Nat /\ \A i \in 1 .. n - 1 : d[i] = c[i]
    BY <1>1 DEF Front
  <1>3. Append(d, e) = c
    <2>1. /\ Append(d, e) \in Seq(ChainBlocks) /\ Len(Append(d, e)) = (n - 1) + 1 /\ Append(d, e)[(n - 1) + 1] = e
          /\ \A i \in 1 .. n - 1 : Append(d, e)[i] = d[i]
      BY <1>1, <1>2, Appended
    <2> DEFINE q == Append(d, e)
    <2> HIDE DEF d, q
    <2>2. Len(q) = n /\ q[n] = e /\ \A i \in 1 .. n : i = n \/ i \in 1 .. n - 1
      BY <1>1, <2>1 DEF q
    <2>3. \A i \in 1 .. n : q[i] = c[i]
      BY <1>1, <1>2, <2>1, <2>2 DEF q
    <2>4. q = c
      BY <1>1, <2>1, <2>2, <2>3 DEF q
    <2> QED BY <2>4 DEF q
  <1> HIDE DEF d
  <1> HIDE DEF n, e
  <1>4. /\ \A i \in 0 .. Len(d) : PastTo(Append(d, e), i) = PastTo(d, i)
         /\ Inputs(Append(d, e)) = Inputs(d) \cup Packed(e.receipts)
    BY <1>1, <1>2, PastAppend
  <1>5. \A i \in 0 .. n - 1 : PastTo(c, i) = PastTo(d, i)
    BY <1>2, <1>3, <1>4
  <1>6. Inputs(c) = Inputs(d) \cup Packed(e.receipts)
    BY <1>3, <1>4
  <1>7. n - 1 > 0
    BY <1>1 DEF n
  <1>8. ASSUME NEW i \in 1 .. n - 1
        PROVE  /\ Books(d[i].db, PastTo(d, i), d[i].slot)
               /\ Once(PastTo(d, i - 1), d[i].receipts)
               /\ ToSet(d[i].trxs) \subseteq TrxIds
    <2>1. i \in 1 .. n /\ i \in 0 .. n - 1 /\ i - 1 \in 0 .. n - 1
      BY <1>1
    <2>2. d[i] = c[i] /\ PastTo(c, i) = PastTo(d, i) /\ PastTo(c, i - 1) = PastTo(d, i - 1)
      BY <1>2, <1>5, <2>1
    <2> QED BY <2>1, <2>2 DEF ChainOk, n
  <1>9. ASSUME NEW i \in 1 .. (n - 1) - 1 PROVE d[i].slot < d[i + 1].slot
    <2>1. i \in 1 .. n - 1 /\ i + 1 \in 1 .. n - 1
      BY <1>1
    <2> QED BY <1>2, <2>1 DEF ChainOk, n
  <1>10. ChainOk(d)
    BY <1>2, <1>7, <1>8, <1>9 DEF ChainOk
  <1>11. Last(d) = c[n - 1]
    <2>1. n - 1 \in 1 .. n - 1
      BY <1>1, <1>7
    <2> QED BY <1>2, <2>1 DEF Last
  <1> QED BY <1>1, <1>3, <1>6, <1>10, <1>11 DEF d, n, e

-----------------------------------------------------------------------------
\* Steps

\* What the actions use of the invariant
LEMMA InvFacts ==
    ASSUME IInv
    PROVE  /\ TypeOK /\ ChainOk(chain) /\ LastOk(chain) /\ PendingOk /\ refused = {} /\ NothingLost
           /\ head.db \in Dbs /\ head.slot \in Nat /\ Past(chain) \subseteq ReceiptSet
           /\ Books(head.db, Past(chain), head.slot)
           /\ PendingTrxs \subseteq TrxIds /\ InChain = Inputs(chain)
  <1>1. TypeOK /\ ChainOk(chain) /\ LastOk(chain) /\ PendingOk /\ refused = {} /\ NothingLost
    BY DEF IInv
  <1>2. /\ head.db \in Dbs /\ head.slot \in Nat /\ Past(chain) \subseteq ReceiptSet
        /\ Books(head.db, Past(chain), head.slot) /\ chain \in Seq(ChainBlocks)
    BY <1>1, ChainHead DEF head
  <1>3. PendingTrxs \subseteq TrxIds
    BY <1>1 DEF PendingOk, PendingTrxs, Sound, Regular, Match
  <1>4. DOMAIN chain = 1 .. Len(chain)
    BY <1>2
  <1>5. InChain = Inputs(chain)
    BY <1>4 DEF InChain, Inputs
  <1> QED BY <1>1, <1>2, <1>3, <1>5

\* The chain of the genesis block is good.
LEMMA InitInv ==
    ASSUME Init
    PROVE  IInv
  <1> DEFINE e == [slot |-> 0, receipts |-> <<>>, trxs |-> <<>>, db |-> EmptyDb]
  <1>1. EmptyDb \in Dbs /\ EmptyDb.dedup = {} /\ EmptyDb.gtos = {}
    BY DEF EmptyDb, Dbs
  <1>2. e \in ChainBlocks /\ e.slot = 0 /\ e.receipts = <<>> /\ e.trxs = <<>> /\ e.db = EmptyDb
    BY <1>1 DEF ChainBlocks
  <1> HIDE DEF e
  <1>3. chain = <<e>> /\ pending = {} /\ unapplied = {} /\ incoming = <<>> /\ told = {} /\ gone = {} /\ refused = {}
    BY DEF Init, e
  <1>4. chain \in Seq(ChainBlocks) /\ Len(chain) = 1 /\ chain[1] = e
    BY <1>2, <1>3
  <1>5. ToSet(e.receipts) = {} /\ ToSet(e.trxs) = {} /\ DOMAIN e.receipts = {}
    BY <1>2 DEF ToSet
  <1>6. PastTo(chain, 1) = {}
    BY <1>4, <1>5 DEF PastTo
  <1>7. Books(EmptyDb, {}, 0)
    BY <1>1 DEF Books, InputsKnown, RowsUnique, DelayedRows, MadeReceipts, MadeRows
  <1>8. Once(PastTo(chain, 0), e.receipts)
    BY <1>5 DEF Once
  <1>9. ChainOk(chain)
    <2>1. \A i \in 1 .. 1 : i = 1 /\ i - 1 = 0
      OBVIOUS
    <2>2. \A i \in 1 .. 1 :
            /\ Books(chain[i].db, PastTo(chain, i), chain[i].slot)
            /\ Once(PastTo(chain, i - 1), chain[i].receipts)
            /\ ToSet(chain[i].trxs) \subseteq TrxIds
      BY <1>2, <1>4, <1>5, <1>6, <1>7, <1>8, <2>1
    <2>3. ~(\E i \in 1 .. 1 - 1 : TRUE)
      OBVIOUS
    <2> QED BY <1>4, <2>2, <2>3 DEF ChainOk
  <1>10. LastOk(chain)
    BY <1>4 DEF LastOk
  <1>11. TypeOK /\ PendingOk /\ NothingLost
    BY <1>3 DEF TypeOK, PendingOk, NothingLost
  <1> QED BY <1>3, <1>9, <1>10, <1>11 DEF IInv

\* A block is started or filled: the lists of f.
LEMMA InstallInv ==
    ASSUME IInv, NEW slot, slot \in Nat, head.slot < slot, NEW producing, NEW f,
           FlowOk(f, head.db, Past(chain), slot, Inputs(chain)), Install(slot, producing, f),
           UNCHANGED <<chain, refused>>
    PROVE  IInv'
  <1>1. /\ TypeOK /\ ChainOk(chain) /\ LastOk(chain) /\ refused = {} /\ InChain = Inputs(chain)
    BY InvFacts
  <1>2. /\ f.unapplied \subseteq TrxIds /\ f.gone \subseteq TrxIds /\ f.incoming \in Seq(Trxs) /\ f.told \subseteq Trxs
        /\ Sound(f.b, head.db, Past(chain), slot)
        /\ \A t \in f.told : InputId(t) \in Inputs(chain) \cup ToSet(f.b.trxs) \cup f.unapplied \cup f.gone
    BY DEF FlowOk, Flows
  <1> DEFINE p == [slot |-> slot, producing |-> producing, b |-> f.b]
  <1>3. /\ pending' = {p} /\ unapplied' = f.unapplied /\ incoming' = f.incoming /\ told' = f.told
        /\ gone' = f.gone \cap ToldIds(f.told) /\ chain' = chain /\ refused' = refused
    BY DEF Install
  <1>4. p.slot = slot /\ p.b = f.b
    OBVIOUS
  <1> HIDE DEF p
  <1>5. head' = head /\ InChain' = Inputs(chain)
    BY <1>1, <1>3 DEF head, InChain
  <1>6. TypeOK'
    BY <1>2, <1>3 DEF TypeOK
  <1>7. ChainOk(chain') /\ LastOk(chain')
    BY <1>1, <1>3
  <1>8. \A x \in pending' : x = p
    BY <1>3
  <1>9. PendingOk'
    <2>1. Past(chain') = Past(chain) /\ head'.slot < p.slot /\ p.slot \in Nat
      BY <1>3, <1>4, <1>5
    <2>2. Sound(p.b, head'.db, Past(chain'), p.slot)
      BY <1>2, <1>3, <1>4, <1>5
    <2> QED BY <1>8, <2>1, <2>2 DEF PendingOk
  <1>10. PendingTrxs' = ToSet(f.b.trxs)
    BY <1>3, <1>4 DEF PendingTrxs
  <1>11. NothingLost'
    BY <1>2, <1>3, <1>5, <1>10 DEF NothingLost, ToldIds
  <1> QED BY <1>1, <1>3, <1>6, <1>7, <1>9, <1>11 DEF IInv

\* The lists before a block is filled
LEMMA FlowStart ==
    ASSUME IInv, NEW slot, NEW b, Sound(b, head.db, Past(chain), slot), NEW U, U \subseteq TrxIds,
           unapplied \cup PendingTrxs \subseteq U \cup ToSet(b.trxs)
    PROVE  FlowOk([Flow(b) EXCEPT !.unapplied = U], head.db, Past(chain), slot, Inputs(chain))
  <1> DEFINE f == [Flow(b) EXCEPT !.unapplied = U]
  <1>1. TypeOK /\ NothingLost /\ InChain = Inputs(chain)
    BY InvFacts
  <1>2. b \in BlockSet
    BY DEF Sound, Regular
  <1>3. f = [b |-> b, unapplied |-> U, incoming |-> incoming, told |-> told, gone |-> gone]
    BY DEF Flow
  <1> HIDE DEF f
  <1>4. f \in Flows /\ f.b = b /\ f.unapplied = U /\ f.told = told /\ f.gone = gone
    BY <1>1, <1>2, <1>3 DEF Flows, TypeOK
  <1>5. \A t \in told : InputId(t) \in Inputs(chain) \cup ToSet(b.trxs) \cup U \cup gone
    BY <1>1 DEF NothingLost
  <1>6. FlowOk(f, head.db, Past(chain), slot, Inputs(chain))
    BY <1>4, <1>5 DEF FlowOk
  <1> QED BY <1>6 DEF f

\* The same with the list of unapplied transactions as it is
LEMMA FlowAsIs ==
    ASSUME IInv, NEW slot, NEW b, Sound(b, head.db, Past(chain), slot), PendingTrxs \subseteq ToSet(b.trxs)
    PROVE  FlowOk(Flow(b), head.db, Past(chain), slot, Inputs(chain)) /\ Flow(b).incoming = incoming
  <1>1. Flow(b) = [Flow(b) EXCEPT !.unapplied = unapplied] /\ Flow(b).incoming = incoming
    BY DEF Flow
  <1>2. unapplied \subseteq TrxIds
    BY InvFacts DEF TypeOK
  <1>3. FlowOk([Flow(b) EXCEPT !.unapplied = unapplied], head.db, Past(chain), slot, Inputs(chain))
    BY <1>2, FlowStart
  <1> QED BY <1>1, <1>3

\* start_block of the plugin with a speculative block
LEMMA SpeculativeInv ==
    ASSUME IInv, NEW slot \in 1 .. MaxSlot, StartSpeculative(slot)
    PROVE  IInv'
  <1>1. slot \in Nat /\ head.slot < slot /\ head.slot \in Nat
    BY InvFacts DEF StartSpeculative
  <1>2. PICK b \in IF pending = {} THEN {start_block(head.db, slot)} ELSE {p.b : p \in pending},
             fits \in BoundedSeq(BOOLEAN, Len(incoming)) :
               Install(slot, FALSE, ProcessPending(Flow(b), fits, slot))
    BY DEF StartSpeculative
  <1>3. /\ UNCHANGED <<chain, refused>> /\ \A p \in pending : p.slot = slot
    BY DEF StartSpeculative
  <1>4. Sound(b, head.db, Past(chain), slot) /\ PendingTrxs \subseteq ToSet(b.trxs)
    <2>1. CASE pending = {}
      <3>1. b = start_block(head.db, slot) /\ PendingTrxs = {}
        BY <1>2, <2>1 DEF PendingTrxs
      <3> QED BY <1>1, <3>1, InvFacts, StartSound
    <2>2. CASE pending # {}
      <3>1. PICK p \in pending : b = p.b
        BY <1>2, <2>2
      <3>2. PendingOk
        BY InvFacts
      <3>3. Sound(b, head.db, Past(chain), slot) /\ \A q \in pending : q = p
        BY <1>3, <3>1, <3>2 DEF PendingOk
      <3>4. PendingTrxs \subseteq ToSet(b.trxs)
        BY <3>1, <3>3 DEF PendingTrxs
      <3> QED BY <3>3, <3>4
    <2> QED BY <2>1, <2>2
  <1>5. Len(fits) \in Nat /\ Len(fits) <= Len(incoming)
    <2>1. Len(incoming) \in Nat
      BY InvFacts DEF TypeOK
    <2> QED BY <2>1 DEF BoundedSeq, SeqOf
  <1>6. FlowOk(Flow(b), head.db, Past(chain), slot, Inputs(chain)) /\ Flow(b).incoming = incoming
    BY <1>4, FlowAsIs
  <1>7. FlowOk(ProcessPending(Flow(b), fits, slot), head.db, Past(chain), slot, Inputs(chain))
    BY <1>5, <1>6, PendingFlow
  <1> QED BY <1>1, <1>2, <1>3, <1>7, InstallInv

\* start_block of the plugin with a block of this node
LEMMA OwnInv ==
    ASSUME IInv, NEW slot \in 1 .. MaxSlot, StartOwn(slot)
    PROVE  IInv'
  <1> DEFINE lost == Aborted(unapplied, PendingTrxs)
             b0 == start_block(head.db, slot)
             f0 == [Flow(b0) EXCEPT !.unapplied = lost]
             L == Past(chain)
             C == Inputs(chain)
  <1>1. slot \in Nat /\ head.slot < slot /\ head.slot \in Nat
    BY InvFacts DEF StartOwn
  <1>2. UNCHANGED <<chain, refused>>
    BY DEF StartOwn
  <1>3. PICK order \in Orders(lost) :
          \E rows \in ScheduledOrders(ApplyUnapplied(f0, order, slot).b.db, slot) :
          \E fits \in BoundedSeq(BOOLEAN, IF Len(order) < Cardinality(lost) THEN 0 ELSE Len(incoming)) :
            LET f == ApplyUnapplied(f0, order, slot)
            IN  Install(slot, TRUE, ProcessPending([f EXCEPT !.b = ApplyScheduled(f.b, rows, slot)], fits, slot))
    BY DEF StartOwn
  <1> DEFINE f == ApplyUnapplied(f0, order, slot)
  <1>4. PICK rows \in ScheduledOrders(f.b.db, slot),
             fits \in BoundedSeq(BOOLEAN, IF Len(order) < Cardinality(lost) THEN 0 ELSE Len(incoming)) :
               Install(slot, TRUE, ProcessPending([f EXCEPT !.b = ApplyScheduled(f.b, rows, slot)], fits, slot))
    BY <1>3
  <1>5. lost \subseteq TrxIds /\ lost = unapplied \cup PendingTrxs
    BY InvFacts DEF Aborted, TypeOK
  <1>6. Sound(b0, head.db, L, slot)
    BY <1>1, InvFacts, StartSound
  <1>7. FlowOk(f0, head.db, L, slot, C)
    BY <1>5, <1>6, FlowStart
  <1>8. f0.incoming = incoming
    BY DEF Flow
  <1>9. order \in Seq(TrxIds)
    <2>1. order \in Seq(lost)
      <3> HIDE DEF lost
      <3> QED BY DEF Orders, BoundedSeq, SeqOf
    <2> HIDE DEF lost
    <2> QED BY <1>5, <2>1
  <1>10. Len(fits) \in Nat /\ Len(fits) <= Len(incoming)
    <2>1. Len(incoming) \in Nat
      BY InvFacts DEF TypeOK
    <2> DEFINE k == IF Len(order) < Cardinality(lost) THEN 0 ELSE Len(incoming)
    <2>2. k \in Nat /\ k <= Len(incoming)
      BY <2>1
    <2> HIDE DEF k
    <2>3. fits \in BoundedSeq(BOOLEAN, k)
      BY DEF k
    <2> QED BY <2>1, <2>2, <2>3 DEF BoundedSeq, SeqOf
  <1>11. Len(rows) \in Nat /\ \A i \in 1 .. Len(rows) : rows[i].delay_until <= slot /\ rows[i].published < slot
    <2> DEFINE S == Ready(f.b.db, slot)
    <2>1. \A g \in S : g.delay_until <= slot /\ g.published < slot
      BY DEF Ready
    <2>2. rows \in Orders(S)
      BY DEF ScheduledOrders
    <2> HIDE DEF S
    <2>3. rows \in Seq(S)
      BY <2>2 DEF Orders, BoundedSeq, SeqOf
    <2> QED BY <2>1, <2>3
  <1> HIDE DEF f0, lost
  <1>12. FlowOk(f, head.db, L, slot, C) /\ f.incoming = incoming
    BY <1>7, <1>8, <1>9, UnappliedAllFlow
  <1> HIDE DEF f
  <1>13. /\ f \in Flows /\ Sound(f.b, head.db, L, slot) /\ f.unapplied \subseteq TrxIds /\ f.gone \subseteq TrxIds
         /\ f.incoming \in Seq(Trxs) /\ f.told \subseteq Trxs
    BY <1>12 DEF FlowOk, Flows
  <1> DEFINE b == ApplyScheduled(f.b, rows, slot)
             e == [f EXCEPT !.b = b]
  <1>14. Sound(b, head.db, L, slot) /\ b.trxs = f.b.trxs
    BY <1>11, <1>13, ScheduledAllSound
  <1> HIDE DEF b
  <1>15. e = [f EXCEPT !.b = b, !.unapplied = f.unapplied, !.incoming = f.incoming, !.told = f.told, !.gone = f.gone]
    BY <1>13 DEF Flows
  <1>16. FlowOk(e, head.db, L, slot, C)
    <2>1. FlowOk([f EXCEPT !.b = b, !.unapplied = f.unapplied, !.incoming = f.incoming, !.told = f.told, !.gone = f.gone],
                 head.db, L, slot, C)
      BY <1>12, <1>13, <1>14, FlowStep
    <2> QED BY <1>15, <2>1
  <1>17. e.incoming = incoming
    BY <1>12, <1>13 DEF Flows
  <1> HIDE DEF e
  <1>18. FlowOk(ProcessPending(e, fits, slot), head.db, L, slot, C)
    BY <1>10, <1>16, <1>17, PendingFlow
  <1>19. Install(slot, TRUE, ProcessPending(e, fits, slot))
    BY <1>4 DEF e, b
  <1> QED BY <1>1, <1>2, <1>18, <1>19, InstallInv

\* process_incoming_transaction_async with and without a pending block
LEMMA IncomingInv ==
    ASSUME IInv, NEW t \in Trxs, Incoming(t)
    PROVE  IInv'
  <1>1. CASE /\ incoming' = Append(incoming, t)
             /\ UNCHANGED <<chain, pending, unapplied, told, gone, refused>>
    <2>1. Append(incoming, t) \in Seq(Trxs)
      BY InvFacts, Appended DEF TypeOK
    <2>2. TypeOK'
      BY <1>1, <2>1, InvFacts DEF TypeOK
    <2>3. head' = head /\ InChain' = InChain /\ PendingTrxs' = PendingTrxs
      BY <1>1 DEF head, InChain, PendingTrxs
    <2>4. ChainOk(chain') /\ LastOk(chain') /\ refused' = {}
      BY <1>1, InvFacts
    <2>5. PendingOk'
      BY <1>1, <2>3, InvFacts DEF PendingOk
    <2>6. NothingLost'
      BY <1>1, <2>3, InvFacts DEF NothingLost
    <2> QED BY <2>2, <2>4, <2>5, <2>6 DEF IInv
  <1>2. CASE /\ \E p \in pending, fits \in BOOLEAN :
                  Install(p.slot, p.producing, ProcessIncoming(Flow(p.b), t, fits, p.slot))
             /\ UNCHANGED <<chain, refused>>
    <2>1. PICK p \in pending, fits \in BOOLEAN :
            Install(p.slot, p.producing, ProcessIncoming(Flow(p.b), t, fits, p.slot))
      BY <1>2
    <2>2. /\ p.slot \in Nat /\ head.slot < p.slot /\ Sound(p.b, head.db, Past(chain), p.slot)
          /\ \A q \in pending : q = p
      BY InvFacts DEF PendingOk
    <2>3. PendingTrxs \subseteq ToSet(p.b.trxs)
      BY <2>2 DEF PendingTrxs
    <2>4. FlowOk(Flow(p.b), head.db, Past(chain), p.slot, Inputs(chain))
      BY <2>2, <2>3, FlowAsIs
    <2>5. FlowOk(ProcessIncoming(Flow(p.b), t, fits, p.slot), head.db, Past(chain), p.slot, Inputs(chain))
      BY <2>4, IncomingFlow
    <2> QED BY <1>2, <2>1, <2>2, <2>5, InstallInv
  <1> QED BY <1>1, <1>2 DEF Incoming

\* Nothing is pending and the chain is good.
LEMMA NewChainInv ==
    ASSUME IInv, ChainOk(chain'), LastOk(chain'), pending' = {}, refused' = {},
           TypeOK', NothingLost'
    PROVE  IInv'
  <1>1. PendingOk'
    BY DEF PendingOk
  <1> QED BY <1>1 DEF IInv

\* Ids of the pending block that are inputs have receipts in it.
LEMMA PendingInputs ==
    ASSUME NEW b, Match(b), NEW t \in Trxs
    PROVE  InputId(t) \in ToSet(b.trxs) <=> InputId(t) \in Packed(b.receipts)
  BY DEF Match, InputId

\* commit_block: the pending block is the head.
LEMMA CommitInv ==
    ASSUME IInv, Commit
    PROVE  IInv'
  <1>1. PICK p \in pending :
          chain' = Append(chain, [slot |-> p.slot, receipts |-> p.b.receipts, trxs |-> p.b.trxs, db |-> p.b.db])
    BY DEF Commit
  <1>2. pending' = {} /\ UNCHANGED <<unapplied, incoming, told, gone, refused>>
    BY DEF Commit
  <1>3. /\ p.slot \in Nat /\ head.slot < p.slot /\ Sound(p.b, head.db, Past(chain), p.slot)
        /\ \A q \in pending : q = p
    BY InvFacts DEF PendingOk
  <1>4. p.b \in BlockSet /\ Match(p.b) /\ p.b.trxs \in Seq(IdSet) /\ ToSet(p.b.trxs) \subseteq TrxIds
    BY <1>3 DEF Sound, Regular, Match, BlockSet
  <1>5. chain' = Append(chain, Stored(p.slot, p.b, p.b.trxs))
    BY <1>1 DEF Stored
  <1>6. ChainOk(chain') /\ LastOk(chain') /\ Inputs(chain') = Inputs(chain) \cup Packed(p.b.receipts)
    <2>1. ChainOk(chain) /\ Last(chain) = head
      BY InvFacts DEF head
    <2> QED BY <1>3, <1>4, <1>5, <2>1, ChainAppend
  <1>7. InChain' = Inputs(chain')
    <2>1. chain' \in Seq(ChainBlocks)
      BY <1>6 DEF ChainOk
    <2>2. DOMAIN chain' = 1 .. Len(chain')
      BY <2>1
    <2> QED BY <2>2 DEF InChain, Inputs
  <1>8. PendingTrxs = ToSet(p.b.trxs)
    BY <1>3 DEF PendingTrxs
  <1>9. TypeOK'
    BY <1>2, InvFacts DEF TypeOK
  <1>10. NothingLost'
    <2> SUFFICES ASSUME NEW t \in told PROVE InputId(t) \in InChain' \cup unapplied \cup gone
      BY <1>2 DEF NothingLost
    <2>1. t \in Trxs /\ InputId(t) \in Inputs(chain) \cup ToSet(p.b.trxs) \cup unapplied \cup gone
      BY <1>8, InvFacts DEF NothingLost, TypeOK
    <2>2. InputId(t) \in ToSet(p.b.trxs) => InputId(t) \in Packed(p.b.receipts)
      BY <1>4, <2>1, PendingInputs
    <2> QED BY <1>6, <1>7, <2>1, <2>2
  <1>11. refused' = {}
    BY <1>2, InvFacts
  <1> QED BY <1>2, <1>6, <1>9, <1>10, <1>11, NewChainInv

\* The domain of a chain
LEMMA InChainInputs ==
    ASSUME ChainOk(chain')
    PROVE  InChain' = Inputs(chain')
  <1>1. chain' \in Seq(ChainBlocks)
    BY DEF ChainOk
  <1>2. DOMAIN chain' = 1 .. Len(chain')
    BY <1>1
  <1> QED BY <1>2 DEF InChain, Inputs

\* A received block that is accepted
LEMMA ReceivedAppend ==
    ASSUME NEW c, ChainOk(c), NEW slot, Last(c).slot < slot, NEW o, NEW v, v.ok,
           Outcome(v, o.receipts, Last(c).db, Past(c), slot)
    PROVE  LET q == Append(c, Received(slot, o, v)) IN
           ChainOk(q) /\ LastOk(q) /\ Inputs(q) = Inputs(c) \cup Packed(v.b.receipts)
  <1>1. Sound(v.b, Last(c).db, Past(c), slot) /\ v.b.receipts = o.receipts
    BY DEF Outcome
  <1>2. Received(slot, o, v) = Stored(slot, v.b, <<>>)
    BY <1>1 DEF Received, Stored
  <1>3. <<>> \in Seq(IdSet) /\ ToSet(<<>>) \subseteq TrxIds
    BY DEF ToSet
  <1>4. LET q == Append(c, Stored(slot, v.b, <<>>)) IN
        ChainOk(q) /\ LastOk(q) /\ Inputs(q) = Inputs(c) \cup Packed(v.b.receipts)
    BY <1>1, <1>3, ChainAppend
  <1> QED BY <1>2, <1>4

\* What is unapplied after a received block: what it took away is in it, or has failed.
LEMMA AfterApplyFacts ==
    ASSUME NEW v, NEW rs, NEW db, NEW L, NEW slot, Outcome(v, rs, db, L, slot), NEW lost, lost \subseteq TrxIds
    PROVE  /\ AfterApply(lost, v) \subseteq TrxIds
           /\ v.ok => AfterApply(lost, v) = lost \ Packed(v.b.receipts)
           /\ ~v.ok => \A t \in Trxs : InputId(t) \in lost => InputId(t) \in AfterApply(lost, v) \cup v.failed
  <1>1. Match(v.b)
    BY DEF Outcome, Sound, Regular
  <1>2. ToSet(v.b.trxs) \subseteq TrxIds
    BY <1>1 DEF Match
  <1>3. \A t \in Trxs : InputId(t) \in ToSet(v.b.trxs) <=> InputId(t) \in Packed(v.b.receipts)
    BY <1>1, PendingInputs
  <1>4. CASE v.ok
    BY <1>4 DEF AfterApply
  <1>5. CASE ~v.ok
    <2>1. AfterApply(lost, v) = (lost \ (Packed(v.b.receipts) \cup v.failed)) \cup ToSet(v.b.trxs)
      BY <1>5 DEF AfterApply, Aborted
    <2> QED BY <1>2, <1>3, <1>5, <2>1
  <1> QED BY <1>4, <1>5

\* A block of another producer on the head
LEMMA ReceiveInv ==
    ASSUME IInv, NEW slot \in 1 .. MaxSlot, ReceiveBlock(slot)
    PROVE  IInv'
  <1> DEFINE lost == Aborted(unapplied, PendingTrxs)
  <1>1. slot \in Nat /\ head.slot < slot /\ head.slot \in Nat
    BY InvFacts DEF ReceiveBlock
  <1>2. PICK o \in OtherBlocks(head.db, slot) :
          LET v == apply_block(head.db, slot, o.receipts) IN
          /\ chain' = IF v.ok THEN Append(chain, Received(slot, o, v)) ELSE chain
          /\ unapplied' = AfterApply(lost, v)
          /\ gone' = (gone \cup (v.failed \cap lost)) \cap ToldIds(told)
          /\ refused' = refused \cup Refused(o, v)
    BY DEF ReceiveBlock
  <1>3. pending' = {} /\ incoming' = incoming /\ told' = told
    BY DEF ReceiveBlock
  <1> DEFINE v == apply_block(head.db, slot, o.receipts)
  <1>4. /\ chain' = IF v.ok THEN Append(chain, Received(slot, o, v)) ELSE chain
        /\ unapplied' = AfterApply(lost, v)
        /\ gone' = (gone \cup (v.failed \cap lost)) \cap ToldIds(told)
        /\ refused' = refused \cup Refused(o, v)
    BY <1>2
  <1>5. Outcome(v, o.receipts, head.db, Past(chain), slot) /\ Refused(o, v) = {}
    BY <1>1, InvFacts, OtherOutcome
  <1>6. lost \subseteq TrxIds /\ lost = unapplied \cup PendingTrxs
    BY InvFacts DEF Aborted, TypeOK
  <1> HIDE DEF v, lost
  <1>7. /\ AfterApply(lost, v) \subseteq TrxIds
        /\ v.ok => AfterApply(lost, v) = lost \ Packed(v.b.receipts)
        /\ ~v.ok => \A t \in Trxs : InputId(t) \in lost => InputId(t) \in AfterApply(lost, v) \cup v.failed
    BY <1>5, <1>6, AfterApplyFacts
  <1>8. /\ ChainOk(chain') /\ LastOk(chain')
        /\ v.ok => Inputs(chain') = Inputs(chain) \cup Packed(v.b.receipts)
        /\ ~v.ok => Inputs(chain') = Inputs(chain)
    <2>1. CASE v.ok
      <3>1. chain' = Append(chain, Received(slot, o, v)) /\ head = Last(chain) /\ ChainOk(chain)
        BY <1>4, <2>1, InvFacts DEF head
      <3> QED BY <1>1, <1>5, <2>1, <3>1, ReceivedAppend
    <2>2. CASE ~v.ok
      BY <1>4, <2>2, InvFacts
    <2> QED BY <2>1, <2>2
  <1>9. InChain' = Inputs(chain')
    BY <1>8, InChainInputs
  <1>10. refused' = {}
    BY <1>4, <1>5, InvFacts
  <1>11. ToldIds(told) \subseteq TrxIds /\ \A t \in told : InputId(t) \in ToldIds(told)
    BY InvFacts, InputIds DEF TypeOK, ToldIds
  <1>12. TypeOK'
    BY <1>3, <1>4, <1>7, <1>11, InvFacts DEF TypeOK
  <1>13. NothingLost'
    <2> SUFFICES ASSUME NEW t \in told PROVE InputId(t) \in InChain' \cup unapplied' \cup gone'
      BY <1>3 DEF NothingLost
    <2>1. t \in Trxs /\ InputId(t) \in Inputs(chain) \cup lost \cup gone
      BY <1>6, InvFacts DEF NothingLost, TypeOK
    <2>2. CASE v.ok
      BY <1>4, <1>7, <1>8, <1>9, <1>11, <2>1, <2>2
    <2>3. CASE ~v.ok
      BY <1>4, <1>7, <1>8, <1>9, <1>11, <2>1, <2>3
    <2> QED BY <2>2, <2>3
  <1> QED BY <1>3, <1>8, <1>10, <1>12, <1>13, NewChainInv

\* A block of another producer in place of the head: it is good, or the head is applied again.
LEMMA SwitchInv ==
    ASSUME IInv, NEW slot \in 1 .. MaxSlot, SwitchForks(slot)
    PROVE  IInv'
  <1> DEFINE base == chain[Len(chain) - 1]
             lost == Aborted(Aborted(unapplied, PendingTrxs), ToSet(head.trxs))
             again == apply_block(base.db, head.slot, head.receipts)
             d == Front(chain)
  <1>1. slot \in Nat /\ Len(chain) > 1 /\ base.slot < slot
    BY DEF SwitchForks
  <1>2. PICK o \in OtherBlocks(base.db, slot) :
          LET v == apply_block(base.db, slot, o.receipts) IN
          /\ chain' = Append(Front(chain), IF v.ok THEN Received(slot, o, v) ELSE [head EXCEPT !.db = again.b.db])
          /\ unapplied' = IF v.ok THEN AfterApply(lost, v) ELSE AfterApply(AfterApply(lost, v), again)
          /\ gone' = (gone \cup (v.failed \cap lost)
                           \cup IF v.ok THEN Packed(head.receipts) \ ToSet(head.trxs) ELSE {}) \cap ToldIds(told)
          /\ refused' = refused \cup Refused(o, v) \cup (IF v.ok \/ again.ok THEN {} ELSE {head.receipts})
    BY DEF SwitchForks
  <1>3. pending' = {} /\ incoming' = incoming /\ told' = told
    BY DEF SwitchForks
  <1> DEFINE v == apply_block(base.db, slot, o.receipts)
  <1>4. /\ chain' = Append(d, IF v.ok THEN Received(slot, o, v) ELSE [head EXCEPT !.db = again.b.db])
        /\ unapplied' = IF v.ok THEN AfterApply(lost, v) ELSE AfterApply(AfterApply(lost, v), again)
        /\ gone' = (gone \cup (v.failed \cap lost)
                         \cup IF v.ok THEN Packed(head.receipts) \ ToSet(head.trxs) ELSE {}) \cap ToldIds(told)
        /\ refused' = refused \cup Refused(o, v) \cup (IF v.ok \/ again.ok THEN {} ELSE {head.receipts})
    BY <1>2
  <1>5. /\ ChainOk(d) /\ Last(d) = base /\ Append(d, head) = chain
        /\ Inputs(chain) = Inputs(d) \cup Packed(head.receipts)
    BY <1>1, InvFacts, ChainFront DEF head
  <1>6. /\ base.db \in Dbs /\ base.slot \in Nat /\ Past(d) \subseteq ReceiptSet
        /\ Books(base.db, Past(d), base.slot)
    BY <1>5, ChainHead
  <1>7. Outcome(v, o.receipts, base.db, Past(d), slot) /\ Refused(o, v) = {}
    BY <1>1, <1>6, OtherOutcome
  <1>8. head = chain[Len(chain)] /\ head \in ChainBlocks /\ ToSet(head.trxs) \subseteq TrxIds
    BY InvFacts, ChainHead DEF head
  <1>9. PICK b \in BlockSet : b.db = head.db /\ b.receipts = head.receipts /\ again = Accepted(b)
    BY <1>1, <1>8, InvFacts DEF LastOk
  <1> HIDE DEF again
  <1>10. again.ok = TRUE /\ again.b.db = head.db /\ again.b.receipts = head.receipts
    BY <1>9 DEF Accepted
  <1>11. [head EXCEPT !.db = again.b.db] = head
    BY <1>8, <1>10 DEF ChainBlocks
  <1>12. lost \subseteq TrxIds /\ lost = unapplied \cup PendingTrxs \cup ToSet(head.trxs)
    BY <1>8, InvFacts DEF Aborted, TypeOK
  <1> HIDE DEF v, lost, base, d
  <1>13. /\ AfterApply(lost, v) \subseteq TrxIds
         /\ v.ok => AfterApply(lost, v) = lost \ Packed(v.b.receipts)
         /\ ~v.ok => \A t \in Trxs : InputId(t) \in lost => InputId(t) \in AfterApply(lost, v) \cup v.failed
    BY <1>7, <1>12, AfterApplyFacts
  <1>14. AfterApply(AfterApply(lost, v), again) = AfterApply(lost, v) \ Packed(head.receipts)
    BY <1>10 DEF AfterApply
  <1>15. /\ ChainOk(chain') /\ LastOk(chain')
         /\ v.ok => Inputs(chain') = Inputs(d) \cup Packed(v.b.receipts)
         /\ ~v.ok => Inputs(chain') = Inputs(chain)
    <2>1. CASE v.ok
      <3>1. chain' = Append(d, Received(slot, o, v))
        BY <1>4, <2>1
      <3> QED BY <1>1, <1>5, <1>7, <2>1, <3>1, ReceivedAppend
    <2>2. CASE ~v.ok
      <3>1. chain' = chain
        BY <1>4, <1>5, <1>11, <2>2
      <3> QED BY <2>2, <3>1, InvFacts
    <2> QED BY <2>1, <2>2
  <1>16. InChain' = Inputs(chain')
    BY <1>15, InChainInputs
  <1>17. refused' = {}
    BY <1>4, <1>7, <1>10, InvFacts
  <1>18. ToldIds(told) \subseteq TrxIds /\ \A t \in told : InputId(t) \in ToldIds(told)
    BY InvFacts, InputIds DEF TypeOK, ToldIds
  <1>19. unapplied' \subseteq TrxIds
    BY <1>4, <1>13, <1>14
  <1>20. TypeOK'
    BY <1>3, <1>4, <1>18, <1>19, InvFacts DEF TypeOK
  <1>21. NothingLost'
    <2> SUFFICES ASSUME NEW t \in told PROVE InputId(t) \in InChain' \cup unapplied' \cup gone'
      BY <1>3 DEF NothingLost
    <2>1. t \in Trxs /\ InputId(t) \in Inputs(chain) \cup unapplied \cup PendingTrxs \cup gone
      BY InvFacts DEF NothingLost, TypeOK
    <2> DEFINE id == InputId(t)
    <2>2. id \in ToldIds(told)
      BY <1>18
    <2> HIDE DEF id
    <2>3. t \in Trxs /\ id \in Inputs(chain) \cup lost \cup gone
      BY <1>12, <2>1 DEF id
    <2>4. CASE v.ok
      <3>1. id \in Inputs(d) \cup (Packed(head.receipts) \ ToSet(head.trxs)) \cup lost \cup gone
        BY <1>5, <1>12, <2>3
      <3>2. unapplied' = lost \ Packed(v.b.receipts) /\ InChain' = Inputs(d) \cup Packed(v.b.receipts)
        BY <1>4, <1>13, <1>15, <1>16, <2>4
      <3>3. gone' = (gone \cup (v.failed \cap lost) \cup (Packed(head.receipts) \ ToSet(head.trxs))) \cap ToldIds(told)
        BY <1>4, <2>4
      <3>4. id \in InChain' \cup unapplied' \cup gone'
        BY <2>2, <3>1, <3>2, <3>3
      <3> QED BY <3>4 DEF id
    <2>5. CASE ~v.ok
      <3>1. unapplied' = AfterApply(lost, v) \ Packed(head.receipts) /\ InChain' = Inputs(chain)
        BY <1>4, <1>14, <1>15, <1>16, <2>5
      <3>2. gone \cap ToldIds(told) \subseteq gone' /\ (v.failed \cap lost) \cap ToldIds(told) \subseteq gone'
        BY <1>4, <2>5
      <3>3. Packed(head.receipts) \subseteq Inputs(chain)
        BY <1>5
      <3>4. id \in lost => id \in AfterApply(lost, v) \cup v.failed
        BY <1>13, <2>3, <2>5 DEF id
      <3>5. id \in InChain' \cup unapplied' \cup gone'
        BY <2>2, <2>3, <3>1, <3>2, <3>3, <3>4
      <3> QED BY <3>5 DEF id
    <2> QED BY <2>4, <2>5
  <1> QED BY <1>3, <1>15, <1>17, <1>20, <1>21, NewChainInv

\* Nothing happens to the node.
LEMMA StutterInv ==
    ASSUME IInv, UNCHANGED vars
    PROVE  IInv'
  <1>1. /\ chain' = chain /\ pending' = pending /\ unapplied' = unapplied /\ incoming' = incoming
        /\ told' = told /\ gone' = gone /\ refused' = refused
    BY DEF vars
  <1>2. head' = head /\ InChain' = InChain /\ PendingTrxs' = PendingTrxs
    BY <1>1 DEF head, InChain, PendingTrxs
  <1>3. TypeOK' /\ ChainOk(chain') /\ LastOk(chain') /\ refused' = {}
    BY <1>1, InvFacts DEF TypeOK
  <1>4. PendingOk'
    BY <1>1, <1>2, InvFacts DEF PendingOk
  <1>5. NothingLost'
    BY <1>1, <1>2, InvFacts DEF NothingLost
  <1> QED BY <1>3, <1>4, <1>5 DEF IInv

-----------------------------------------------------------------------------
\* Theorems

\* Every step of the node preserves the invariant.
LEMMA NextInv ==
    ASSUME IInv, [Next]_vars
    PROVE  IInv'
  <1>1. ASSUME NEW slot \in 1 .. MaxSlot,
               StartSpeculative(slot) \/ StartOwn(slot) \/ ReceiveBlock(slot) \/ SwitchForks(slot)
        PROVE  IInv'
    BY <1>1, SpeculativeInv, OwnInv, ReceiveInv, SwitchInv
  <1>2. ASSUME NEW t \in Trxs, Incoming(t) PROVE IInv'
    BY <1>2, IncomingInv
  <1>3. CASE Commit
    BY <1>3, CommitInv
  <1>4. CASE UNCHANGED vars
    BY <1>4, StutterInv
  <1> QED BY <1>1, <1>2, <1>3, <1>4 DEF Next

\* The invariant behind the theorems below: the receipts of the chain and of the pending block
\* say what the table of known transactions and the table of scheduled ones hold, and each
\* block is made again by whoever applies its receipts.
THEOREM FlowInvariant == Spec => []IInv
  <1>1. Init => IInv
    BY InitInv
  <1>2. IInv /\ [Next]_vars => IInv'
    BY NextInv
  <1> QED BY <1>1, <1>2, PTL DEF Spec

\* Blocks made by the rules are accepted with the outcome of their producer, those of this
\* node among them, and the transactions of a pending block are those of its receipts
\* (apply_block, make_block_restore_point and push_scheduled_transaction of controller.cpp).
THEOREM MadeBlocksAccepted == Spec => []BlocksAccepted
  <1>1. ASSUME IInv PROVE BlocksAccepted
    <2>1. refused = {}
      BY <1>1 DEF IInv
    <2>2. ASSUME NEW p \in pending
          PROVE  {id \in ToSet(p.b.trxs) : id.prog \in Trxs} = Packed(p.b.receipts)
      BY <1>1, <2>2, InvFacts DEF PendingOk, Sound, Regular, Match
    <2>3. ASSUME Len(chain) > 1
          PROVE  LET v == apply_block(chain[Len(chain) - 1].db, head.slot, head.receipts)
                 IN  v.ok /\ v.b.db = head.db
      <3>1. LastOk(chain) /\ head = chain[Len(chain)]
        BY <1>1, InvFacts, ChainHead DEF head
      <3>2. PICK b \in BlockSet :
              /\ b.db = head.db
              /\ apply_block(chain[Len(chain) - 1].db, head.slot, head.receipts) = Accepted(b)
        BY <2>3, <3>1 DEF LastOk
      <3> QED BY <3>2 DEF Accepted
    <2> QED BY <2>1, <2>2, <2>3 DEF BlocksAccepted
  <1> QED BY <1>1, FlowInvariant, PTL

\* A transaction that process_incoming_transaction_async reported as accepted stays in the
\* chain, in the pending block or among the unapplied ones, through abort_block, pop_block and
\* fork switches, until it fails or expires.
THEOREM AcceptedNotLost == Spec => []NothingLost
  <1>1. IInv => NothingLost
    BY DEF IInv
  <1> QED BY <1>1, FlowInvariant, PTL

\* The receipts of the chain that are for id
LEMMA Statuses ==
    ASSUME ChainOk(chain), NEW id
    PROVE  StatusesOf(id) = {r.status : r \in {x \in Past(chain) : x.id = id}}
  <1>1. DOMAIN chain = 1 .. Len(chain)
    BY DEF ChainOk
  <1> QED BY <1>1 DEF StatusesOf, Past, PastTo

\* A delayed input has its row among the scheduled transactions from the receipt that delays it
\* to the one that retires it, whether it ran, failed or expired (push_scheduled_transaction).
THEOREM DelayedRetiredOnce == Spec => []DelayedUntilRetired
  <1>1. ASSUME IInv PROVE DelayedUntilRetired
    <2> SUFFICES ASSUME NEW t \in Trxs, Delay[t] > 0
                 PROVE  (\E g \in head.db.gtos : g.id = InputId(t)) <=> StatusesOf(InputId(t)) = {"delayed"}
      BY DEF DelayedUntilRetired
    <2> DEFINE id == InputId(t)
               L == Past(chain)
    <2>1. id.at = 0
      BY DEF InputId
    <2>2. DelayedRows(head.db, L)
      BY <1>1, InvFacts DEF Books
    <2>3. StatusesOf(id) = {r.status : r \in {x \in L : x.id = id}}
      BY <1>1, InvFacts, Statuses
    <2> HIDE DEF id, L
    <2>4. ASSUME NEW g \in head.db.gtos, g.id = id PROVE StatusesOf(id) = {"delayed"}
      <3>1. /\ \E x \in L : x.id = id /\ x.status = "delayed"
            /\ \A x \in L : x.id = id => x.status = "delayed"
        BY <2>1, <2>2, <2>4 DEF DelayedRows
      <3> QED BY <2>3, <3>1
    <2>5. ASSUME StatusesOf(id) = {"delayed"} PROVE \E g \in head.db.gtos : g.id = id
      <3>1. PICK x \in L : x.id = id /\ x.status = "delayed"
        BY <2>3, <2>5
      <3>2. \A y \in L : y.id = id => y.status = "delayed"
        BY <2>3, <2>5
      <3> QED BY <2>1, <2>2, <3>1, <3>2 DEF DelayedRows
    <2>6. (\E g \in head.db.gtos : g.id = id) <=> StatusesOf(id) = {"delayed"}
      BY <2>4, <2>5
    <2> QED BY <2>6 DEF id
  <1> QED BY <1>1, FlowInvariant, PTL

\* OneReceipt of the ids whose program is made in one way only, all input transactions among them
OneReceiptOfOthers ==
    \A i, j \in DOMAIN chain : \A k \in DOMAIN chain[i].receipts, l \in DOMAIN chain[j].receipts :
        LET r == chain[i].receipts[k]
            s == chain[j].receipts[l]
        IN  r.id = s.id /\ s.id.prog \notin Shared /\ (i < j \/ (i = j /\ k < l)) =>
            r.status = "delayed" /\ s.status \in Retired

\* No transaction takes effect twice, unless its program is started as a nested transaction by
\* one program and scheduled by another: then two of them made in one block may have one id
\* (apply_context.cpp schedule_deferred_transaction and execute_nested_transaction set the same fields).
THEOREM NoneTwice == Spec => []OneReceiptOfOthers
  <1>1. ASSUME IInv PROVE OneReceiptOfOthers
    <2>1. ChainOk(chain) /\ chain \in Seq(ChainBlocks) /\ Len(chain) \in Nat /\ DOMAIN chain = 1 .. Len(chain)
      BY <1>1, InvFacts, ChainHead
    <2> SUFFICES ASSUME NEW i \in 1 .. Len(chain), NEW j \in 1 .. Len(chain),
                        NEW k \in DOMAIN chain[i].receipts, NEW l \in DOMAIN chain[j].receipts,
                        chain[i].receipts[k].id = chain[j].receipts[l].id,
                        chain[j].receipts[l].id.prog \notin Shared,
                        i < j \/ (i = j /\ k < l)
                 PROVE  chain[i].receipts[k].status = "delayed" /\ chain[j].receipts[l].status \in Retired
      BY <2>1 DEF OneReceiptOfOthers
    <2> DEFINE r == chain[i].receipts[k]
               s == chain[j].receipts[l]
               seen == PastTo(chain, j - 1) \cup {chain[j].receipts[m] : m \in 1 .. l - 1}
    <2>2. Fresh(seen, s)
      BY <2>1 DEF ChainOk, Once
    <2>3. chain[i].receipts \in Seq(ReceiptSet) /\ chain[j].receipts \in Seq(ReceiptSet)
      <3>1. chain[i] \in ChainBlocks /\ chain[j] \in ChainBlocks
        BY <2>1
      <3> QED BY <3>1 DEF ChainBlocks
    <2>4. k \in Nat /\ 0 < k /\ l \in Nat
      BY <2>3
    <2>5. r \in seen
      <3>1. CASE i < j
        <4>1. i \in 1 .. j - 1
          BY <2>1, <3>1
        <4>2. r \in ToSet(chain[i].receipts)
          BY DEF ToSet
        <4> QED BY <4>1, <4>2 DEF PastTo
      <3>2. CASE i = j /\ k < l
        <4>1. k \in 1 .. l - 1
          BY <2>4, <3>2
        <4> QED BY <3>2, <4>1
      <3> QED BY <3>1, <3>2
    <2> QED BY <2>2, <2>5 DEF Fresh
  <1> QED BY <1>1, FlowInvariant, PTL

\* No transaction takes effect twice in a chain when no program is made in both ways.
THEOREM OneReceiptEach ==
    ASSUME Shared = {}
    PROVE  Spec => []OneReceipt
  <1>1. OneReceiptOfOthers => OneReceipt
    BY DEF OneReceiptOfOthers, OneReceipt
  <1> QED BY <1>1, NoneTwice, PTL
=============================================================================
