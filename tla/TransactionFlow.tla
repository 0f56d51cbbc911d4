-------------------------- MODULE TransactionFlow ---------------------------
(***************************************************************************)
(* Transactions on a node that produces: from the queue of the producer    *)
(* plugin into a pending block, from an aborted or popped block into       *)
(* unapplied_transactions and from there into the next block of this node, *)
(* while blocks of others arrive.                                          *)
(*                                                                         *)
(* Other producers make their blocks with the same operators; a bad block  *)
(* has one more receipt.  When blocks are started and shipped is the       *)
(* matter of ProductionLoop, here it may happen at any time.               *)
(***************************************************************************)
EXTENDS BlockTransactions

CONSTANTS
    MaxSlot,        \* bound on time
    MaxBlocks,      \* bound on blocks of the chain
    MaxQueue,       \* bound on _pending_incoming_transactions
    MaxOps          \* bound on the transactions in blocks of others

VARIABLES
    chain,          \* the blocks, each with the database it left
    pending,        \* the pending block, or {}
    unapplied,      \* unapplied_transactions of the controller
    incoming,       \* _pending_incoming_transactions
    told,           \* history: transactions reported as accepted
    gone,           \* history: those of told that failed or expired later, or went with a block of others
    refused         \* history: blocks that were well made and not accepted

vars == <<chain, pending, unapplied, incoming, told, gone, refused>>

head == Last(chain)

Init ==
    /\ chain = <<[slot |-> 0, receipts |-> <<>>, trxs |-> <<>>, db |-> EmptyDb]>>
    /\ pending = {}
    /\ unapplied = {}
    /\ incoming = <<>>
    /\ told = {}
    /\ gone = {}
    /\ refused = {}

-----------------------------------------------------------------------------
\* Transactions into the pending block of this node.  f holds the block and the lists.

Flow(b) == [b |-> b, unapplied |-> unapplied, incoming |-> incoming, told |-> told, gone |-> gone]

\* controller::push_transaction: what has run or failed for good is no longer unapplied.
Push(f, id, slot) ==
    LET After(result) == [f EXCEPT !.b = result.b, !.unapplied = @ \ {id},
                                   !.gone = IF result.ok THEN @ \ {id} ELSE @ \cup {id}]
    IN  After(push_transaction(f.b, id, slot))

\* One of the unapplied transactions: it is dropped when it is expired.
TryUnapplied(f, id, slot) ==
    IF Expiration(id) < slot THEN [f EXCEPT !.unapplied = @ \ {id}, !.gone = @ \cup {id}]
    ELSE Push(f, id, slot)

\* Processing of unapplied transactions in some order, until time is up.
ApplyUnapplied(f, order, slot) ==
    LET step[i \in 0 .. Len(order)] == IF i = 0 THEN f ELSE TryUnapplied(step[i - 1], order[i], slot)
    IN  step[Len(order)]

\* The scheduled transactions a block may retire: not those published in it
Ready(db, slot) == {g \in db.gtos : g.delay_until <= slot /\ g.published < slot}

\* A row that an earlier transaction removed or replaced is passed over.
TryScheduled(b, g, slot) == IF g \in b.db.gtos THEN push_scheduled_transaction(b, g, slot).b ELSE b

\* Processing of scheduled transactions, those in order
ApplyScheduled(b, order, slot) ==
    LET step[i \in 0 .. Len(order)] == IF i = 0 THEN b ELSE TryScheduled(step[i - 1], order[i], slot)
    IN  step[Len(order)]

\* Some of S, one after the other
Orders(S) == {o \in BoundedSeq(S, Cardinality(S)) : IsInjective(o)}

\* Some of the ready rows, in the order of by_delay: others are blacklisted after a failure
\* or come after the deadline.
ScheduledOrders(db, slot) ==
    {o \in Orders(Ready(db, slot)) : \A i, j \in DOMAIN o : i < j => o[i].delay_until <= o[j].delay_until}

\* process_incoming_transaction_async with a pending block.  What does not fit is queued again.
ProcessIncoming(f, t, fits, slot) ==
    LET id == InputId(t)
        rejected == Expiration(id) < slot \/ is_known_unexpired_transaction(f.b.db, id)
        After(result) == [f EXCEPT !.b = result.b, !.unapplied = @ \ {id},
                                   !.told = IF result.ok THEN @ \cup {t} ELSE @,
                                   !.gone = IF result.ok THEN @ \ {id} ELSE @ \cup (f.unapplied \cap {id})]
    IN  IF rejected THEN f
        ELSE IF ~fits THEN [f EXCEPT !.incoming = Append(@, t)]
        ELSE After(push_transaction(f.b, id, slot))

\* process_pending_transactions: the first n of the queue
ProcessPending(f, fits, slot) ==
    LET n == Len(fits)
        step[i \in 0 .. n] ==
            IF i = 0 THEN [f EXCEPT !.incoming = SubSeq(@, n + 1, Len(@))]
            ELSE ProcessIncoming(step[i - 1], f.incoming[i], fits[i], slot)
    IN  step[n]

-----------------------------------------------------------------------------
\* Mutant: the transactions of the block are forgotten.
Aborted_forgets(lost, ids) == lost

\* abort_block and pop_block: the transactions of the block are unapplied again.
Aborted(lost, ids) == lost \cup ids

ToldIds(trxs) == {InputId(t) : t \in trxs}

PendingTrxs == UNION {ToSet(p.b.trxs) : p \in pending}

Install(slot, producing, f) ==
    /\ pending' = {[slot |-> slot, producing |-> producing, b |-> f.b]}
    /\ unapplied' = f.unapplied
    /\ incoming' = f.incoming
    /\ told' = f.told
    /\ gone' = f.gone \cap ToldIds(f.told)

\* start_block of the plugin when another producer is in turn, or this node waits for its
\* time: a pending block stays as it is.
StartSpeculative(slot) ==
    /\ slot > head.slot
    /\ \A p \in pending : p.slot = slot
    /\ \E b \in IF pending = {} THEN {start_block(head.db, slot)} ELSE {p.b : p \in pending},
          fits \in BoundedSeq(BOOLEAN, Len(incoming)) :
            Install(slot, FALSE, ProcessPending(Flow(b), fits, slot))
    /\ UNCHANGED <<chain, refused>>

\* start_block of the plugin, for a block of this node: unapplied transactions, scheduled
\* ones and, when there was time for all unapplied ones, the queue
StartOwn(slot) ==
    /\ slot > head.slot
    /\ \E lost \in {Aborted(unapplied, PendingTrxs)} : \E order \in Orders(lost) :
       \E f \in {ApplyUnapplied([Flow(start_block(head.db, slot)) EXCEPT !.unapplied = lost], order, slot)} :
       \E rows \in ScheduledOrders(f.b.db, slot) :
       \E b \in {ApplyScheduled(f.b, rows, slot)},
          fits \in BoundedSeq(BOOLEAN, IF Len(order) < Cardinality(lost) THEN 0 ELSE Len(incoming)) :
            Install(slot, TRUE, ProcessPending([f EXCEPT !.b = b], fits, slot))
    /\ UNCHANGED <<chain, refused>>

\* process_incoming_transaction_async
Incoming(t) ==
    \/ /\ pending = {} /\ Len(incoming) < MaxQueue
       /\ incoming' = Append(incoming, t)
       /\ UNCHANGED <<chain, pending, unapplied, told, gone, refused>>
    \/ /\ \E p \in pending, fits \in BOOLEAN :
            /\ ~fits => Len(incoming) < MaxQueue
            /\ Install(p.slot, p.producing, ProcessIncoming(Flow(p.b), t, fits, p.slot))
       /\ UNCHANGED <<chain, refused>>

\* produce_block: finalize, sign and commit
Commit ==
    /\ Len(chain) <= MaxBlocks
    /\ \E p \in pending :
        /\ p.producing
        /\ chain' = Append(chain, [slot |-> p.slot, receipts |-> p.b.receipts, trxs |-> p.b.trxs, db |-> p.b.db])
    /\ pending' = {}
    /\ UNCHANGED <<unapplied, incoming, told, gone, refused>>

-----------------------------------------------------------------------------
\* Blocks of others

\* An input or a scheduled transaction in a block of another producer
TryOther(b, op, slot) ==
    LET rows == {g \in Ready(b.db, slot) : g.id = op.id}
    IN  IF op.input THEN push_transaction(b, op.id, slot).b
        ELSE IF rows = {} THEN b
        ELSE push_scheduled_transaction(b, CHOOSE g \in rows : TRUE, slot).b

\* A block of another producer on db: it tries these transactions one after the other.
OtherBlock(db, slot, ops) ==
    LET step[i \in 0 .. Len(ops)] ==
            IF i = 0 THEN start_block(db, slot) ELSE TryOther(step[i - 1], ops[i], slot)
    IN  step[Len(ops)]

\* Blocks of others on db: with receipts that are right, or with one too many
OtherBlocks(db, slot) ==
    LET ops == {[input |-> TRUE, id |-> InputId(t)] : t \in Trxs} \cup {[input |-> FALSE, id |-> g.id] : g \in db.gtos}
        Tried(k) == {OtherBlock(db, slot, o) : o \in BoundedSeq(ops, k)}
    IN  {[b |-> b, receipts |-> b.receipts, good |-> TRUE] : b \in Tried(MaxOps)}
        \cup UNION {{[b |-> b, receipts |-> Append(b.receipts, Receipt(InputId(t), "executed", TRUE)),
                      good |-> FALSE] : t \in Trxs} : b \in Tried(MaxOps - 1)}

\* Inputs among receipts
Packed(receipts) == {receipts[i].id : i \in {j \in DOMAIN receipts : receipts[j].packed}}

\* What apply_block leaves in unapplied_transactions: the inputs that ran are gone from it and,
\* when the block is bad, back again as those of an aborted block.
AfterApply(lost, v) ==
    LET ran == Packed(v.b.receipts)
    IN  IF v.ok THEN lost \ ran ELSE Aborted(lost \ (ran \cup v.failed), ToSet(v.b.trxs))

\* A block of another producer in the chain
Received(slot, o, v) == [slot |-> slot, receipts |-> o.receipts, trxs |-> <<>>, db |-> v.b.db]

\* The receipts of o, if it was made by the rules and applied with another outcome
Refused(o, v) == IF o.good /\ ~(v.ok /\ v.b.db = o.b.db) THEN {o.receipts} ELSE {}

\* on_incoming_block with a block that builds on the head
ReceiveBlock(slot) ==
    /\ Len(chain) <= MaxBlocks
    /\ slot > head.slot
    /\ \E o \in OtherBlocks(head.db, slot), lost \in {Aborted(unapplied, PendingTrxs)} :
       \E v \in {apply_block(head.db, slot, o.receipts)} :
        /\ chain' = IF v.ok THEN Append(chain, Received(slot, o, v)) ELSE chain
        /\ unapplied' = AfterApply(lost, v)
        /\ gone' = (gone \cup (v.failed \cap lost)) \cap ToldIds(told)
        /\ refused' = refused \cup Refused(o, v)
    /\ pending' = {}
    /\ UNCHANGED <<incoming, told>>

\* on_incoming_block with a block that is better than the head and builds on the one before:
\* the head is popped and, when the block is bad, applied again.
SwitchForks(slot) ==
    /\ Len(chain) > 1
    /\ \E base \in {chain[Len(chain) - 1]}, lost \in {Aborted(Aborted(unapplied, PendingTrxs), ToSet(head.trxs))} :
        /\ slot > base.slot
        /\ \E o \in OtherBlocks(base.db, slot), again \in {apply_block(base.db, head.slot, head.receipts)} :
           \E v \in {apply_block(base.db, slot, o.receipts)} :
            /\ chain' = Append(Front(chain), IF v.ok THEN Received(slot, o, v) ELSE [head EXCEPT !.db = again.b.db])
            /\ unapplied' = IF v.ok THEN AfterApply(lost, v) ELSE AfterApply(AfterApply(lost, v), again)
            /\ gone' = (gone \cup (v.failed \cap lost)
                             \cup IF v.ok THEN Packed(head.receipts) \ ToSet(head.trxs) ELSE {}) \cap ToldIds(told)
            /\ refused' = refused \cup Refused(o, v) \cup (IF v.ok \/ again.ok THEN {} ELSE {head.receipts})
    /\ pending' = {}
    /\ UNCHANGED <<incoming, told>>

Next ==
    \/ \E slot \in 1 .. MaxSlot :
        StartSpeculative(slot) \/ StartOwn(slot) \/ ReceiveBlock(slot) \/ SwitchForks(slot)
    \/ \E t \in Trxs : Incoming(t)
    \/ Commit

Spec == Init /\ [][Next]_vars

-----------------------------------------------------------------------------
\* Properties

InChain == UNION {Packed(chain[i].receipts) : i \in DOMAIN chain}

\* The statuses that receipts of the chain give to id
StatusesOf(id) ==
    UNION {{r.status : r \in {x \in ToSet(chain[i].receipts) : x.id = id}} : i \in DOMAIN chain}

Retired == {"executed", "hard_fail", "expired"}

\* No transaction takes effect twice in a chain: an id has one receipt, or a receipt that
\* delays it and one that retires it, although the list of known transactions forgets those
\* that are expired and the same transaction arrives again and again from peers, from the
\* queue and from aborted blocks.
OneReceipt ==
    \A i, j \in DOMAIN chain : \A k \in DOMAIN chain[i].receipts, l \in DOMAIN chain[j].receipts :
        LET r == chain[i].receipts[k]
            s == chain[j].receipts[l]
        IN  r.id = s.id /\ (i < j \/ (i = j /\ k < l)) => r.status = "delayed" /\ s.status \in Retired

\* A delayed transaction waits until one receipt retires it: it is scheduled as long as there
\* is none and never after, also when it fails.
DelayedUntilRetired ==
    \A t \in Trxs : Delay[t] > 0 =>
        ((\E g \in head.db.gtos : g.id = InputId(t)) <=> StatusesOf(InputId(t)) = {"delayed"})

\* A block that was made by the rules is accepted wherever it is applied, with the database
\* of its producer, and so is each block of this node: what the producer tried without
\* success, nested failures included, leaves no trace in it.  The transactions of a pending
\* block, which become unapplied when it is aborted, are those of its receipts.
BlocksAccepted ==
    /\ refused = {}
    /\ \A p \in pending :
        {id \in ToSet(p.b.trxs) : id.prog \in Trxs} = Packed(p.b.receipts)
    /\ Len(chain) > 1 =>
        \E v \in {apply_block(chain[Len(chain) - 1].db, head.slot, head.receipts)} : v.ok /\ v.b.db = head.db

\* A transaction that was reported as accepted is in the chain, in the pending block or in the
\* list of unapplied ones, unless it failed or expired when it was tried again, or a block of
\* another producer that had it was popped.
NothingLost ==
    \A t \in told : InputId(t) \in InChain \cup PendingTrxs \cup unapplied \cup gone
=============================================================================
