------------------------- MODULE BlockTransactions --------------------------
(***************************************************************************)
(* How controller.cpp runs transactions in the pending block: input,       *)
(* nested and deferred ones, with the table that finds duplicates, the     *)
(* table of scheduled transactions and the receipts of the block.          *)
(*                                                                         *)
(* What a transaction does is a program.  A program may schedule, replace  *)
(* or cancel a deferred transaction or start a nested one; it fails when   *)
(* a program that spoils it has run.  Time is the slot of the block.       *)
(* Sessions are what SessionStore promises: a failure leaves the database  *)
(* as it was.                                                              *)
(***************************************************************************)
EXTENDS Naturals, FiniteSets, Sequences, SequencesExt

CONSTANTS
    Trxs,           \* programs of input transactions
    Made,           \* programs of deferred and nested transactions
    Does,           \* Does[p] = [op, prog]: what program p does to another
    Delay,          \* Delay[t]: delay_sec of input transaction t
    Expires,        \* Expires[t]: expiration of input transaction t
    Spoils,         \* pairs <<p, q>>: q fails after p
    Window,         \* deferred_trx_expiration_window
    MaxLifetime     \* max_transaction_lifetime

ASSUME ProgramsAssumption ==
    /\ Trxs \cap Made = {}
    /\ Does \in [Trxs \cup Made -> [op : {"defer", "replace", "cancel", "nest"}, prog : Made]]
    /\ Delay \in [Trxs -> Nat] /\ Expires \in [Trxs -> Nat] /\ Window \in Nat /\ MaxLifetime \in Nat

\* The id of a transaction is a hash of its program and, for one that is made when another
\* runs, of the time of that block.
InputId(t) == [prog |-> t, at |-> 0]
MadeId(p, slot) == [prog |-> p, at |-> slot]

NoId == [prog |-> "none", at |-> 0]

EmptyDb == [dedup |-> {}, gtos |-> {}, ran |-> {}]

\* A block while it is made: database, receipts and block_state::trxs
Block(db) == [db |-> db, receipts |-> <<>>, trxs |-> <<>>]

Receipt(id, status, packed) == [id |-> id, status |-> status, packed |-> packed]

push_receipt(b, id, status, packed) == [b EXCEPT !.receipts = Append(@, Receipt(id, status, packed))]

-----------------------------------------------------------------------------
\* Duplicates

is_known_unexpired_transaction(db, id) == \E e \in db.dedup : e.id = id

record_transaction(db, id, expire) == [db EXCEPT !.dedup = @ \cup {[id |-> id, expires |-> expire]}]

\* Mutant: an entry goes when its expiration is reached, not when it is past.
clear_expired_input_transactions_early(db, slot) ==
    [db EXCEPT !.dedup = {e \in @ : slot < e.expires}]

clear_expired_input_transactions(db, slot) ==
    [db EXCEPT !.dedup = {e \in @ : slot <= e.expires}]

\* The expiration of an input transaction; what runs made expires with its block.
Expiration(id) == IF id.prog \in Trxs THEN Expires[id.prog] ELSE id.at

validate_expiration(id, slot) == Expiration(id) \in slot .. slot + MaxLifetime

-----------------------------------------------------------------------------
\* Execution

\* A row of generated_transaction_object; key is sender and sender_id.
Gto(id, key, slot, delay) ==
    [id |-> id, key |-> key, published |-> slot, delay_until |-> slot + delay,
     expiration |-> slot + delay + Window]

KeyOf(p) == [sender |-> TRUE, prog |-> p]

schedule_transaction(db, id, slot) ==
    [db EXCEPT !.gtos = @ \cup {Gto(id, [sender |-> FALSE, prog |-> id.prog], slot, Delay[id.prog])}]

\* schedule_deferred_transaction and cancel_deferred_transaction
schedule_deferred_transaction(db, p, slot) ==
    [db EXCEPT !.gtos = {g \in @ : g.key # KeyOf(p)} \cup {Gto(MadeId(p, slot), KeyOf(p), slot, 0)}]

cancel_deferred_transaction(db, p) == [db EXCEPT !.gtos = {g \in @ : g.key # KeyOf(p)}]

\* Whether program p runs to its end; only an input transaction may start a nested one.
ExecOk(db, p, mayNest) ==
    /\ \A q \in db.ran : <<q, p>> \notin Spoils
    /\ Does[p].op = "nest" => mayNest
    /\ Does[p].op = "defer" => \A g \in db.gtos : g.key # KeyOf(Does[p].prog)

exec(db, p, slot) ==
    LET ran == [db EXCEPT !.ran = @ \cup {p}]
    IN  CASE Does[p].op \in {"defer", "replace"} -> schedule_deferred_transaction(ran, Does[p].prog, slot)
          [] Does[p].op = "cancel" -> cancel_deferred_transaction(ran, Does[p].prog)
          [] OTHER -> ran

\* Results: the block after it and whether it raised an exception
Done(b) == [b |-> b, ok |-> TRUE]
Failed(b) == [b |-> b, ok |-> FALSE]

\* push_nested_trx: its duplicate check and its run; the exception is its caller's to handle
push_nested_trx(b, p, slot) ==
    LET id == MadeId(p, slot)
        recorded == record_transaction(b.db, id, slot)
        run == [push_receipt(b, id, "executed", FALSE) EXCEPT !.db = exec(recorded, p, slot),
                                                              !.trxs = Append(@, id)]
    IN  IF is_known_unexpired_transaction(b.db, id) \/ ~ExecOk(recorded, p, FALSE)
        THEN Failed(b) ELSE Done(run)

\* What an input transaction must pass before it runs; a nested one that comes back as an
\* input has no signatures.
InputOk(db, id, slot) ==
    /\ validate_expiration(id, slot)
    /\ ~is_known_unexpired_transaction(db, id)
    /\ id.prog \in Trxs

\* The block with transaction id in it, before its nested transaction
Applied(b, id, slot) ==
    LET recorded == record_transaction(b.db, id, Expiration(id))
        delayed == Delay[id.prog] > 0
    IN  [push_receipt(b, id, IF delayed THEN "delayed" ELSE "executed", TRUE) EXCEPT
            !.db = IF delayed THEN schedule_transaction(recorded, id, slot) ELSE exec(recorded, id.prog, slot),
            !.trxs = Append(@, id)]

Nests(id) == Delay[id.prog] = 0 /\ Does[id.prog].op = "nest"

\* Mutant: only the transactions are restored.
make_block_restore_point_receipts(b, then) == [b EXCEPT !.trxs = then.trxs]

\* What of the block b remains when it is restored to the one of then
make_block_restore_point(b, then) == [b EXCEPT !.receipts = then.receipts, !.trxs = then.trxs]

\* The end of push_transaction: applied has the transaction in it, nested its nested one too.
AfterNested(b, nested) ==
    IF nested.ok THEN nested ELSE Failed([make_block_restore_point(nested.b, b) EXCEPT !.db = b.db])

WithNested(b, applied, id, slot) ==
    IF Nests(id) THEN AfterNested(b, push_nested_trx(applied, Does[id.prog].prog, slot)) ELSE Done(applied)

push_transaction(b, id, slot) ==
    IF InputOk(b.db, id, slot) /\ (Delay[id.prog] > 0 \/ ExecOk(b.db, id.prog, TRUE))
    THEN WithNested(b, Applied(b, id, slot), id, slot) ELSE Failed(b)

remove_scheduled_transaction(b, g) == [b EXCEPT !.db.gtos = @ \ {g}]

\* Mutant: the session with the removal is not squashed.
HardFail_unsquashed(b, g) == push_receipt(b, g.id, "hard_fail", FALSE)

\* A scheduled transaction that failed is retired as well: its row stays removed.
HardFail(b, g) == push_receipt(remove_scheduled_transaction(b, g), g.id, "hard_fail", FALSE)

\* push_scheduled_transaction of the row g, with no subjective failure
push_scheduled_transaction(b, g, slot) ==
    LET removed == remove_scheduled_transaction(b, g)
    IN  IF g.delay_until > slot THEN Failed(b)
        ELSE IF g.expiration < slot THEN Done(push_receipt(removed, g.id, "expired", FALSE))
        ELSE IF ~ExecOk(removed.db, g.id.prog, FALSE) THEN Failed(HardFail(b, g))
        ELSE Done([push_receipt(removed, g.id, "executed", FALSE) EXCEPT !.db = exec(removed.db, g.id.prog, slot)])

-----------------------------------------------------------------------------
\* Blocks

start_block(db, slot) == Block(clear_expired_input_transactions(db, slot))

\* The checks of one receipt r after the transaction of r has run with this result.  A nested
\* receipt that the block lacks is an exception of the outer transaction.
CheckReceipt(v, r, result, receipts) ==
    LET n == Len(v.b.receipts)
        got == SubSeq(result.b.receipts, n + 1, Len(result.b.receipts))
        nested == Len(got) = 2
        explicit == nested => \E x \in ToSet(receipts) : ~x.packed /\ x.id = got[2].id
        matches == got # <<>> /\ got[1] = r /\ (nested => got[2] \in ToSet(receipts))
    IN  IF r.packed /\ ~(result.ok /\ explicit) THEN [v EXCEPT !.ok = FALSE, !.failed = {r.id}]
        ELSE [v EXCEPT !.b = result.b, !.ok = (result.ok \/ r.status = "hard_fail") /\ matches,
                       !.wait = IF nested THEN got[2].id ELSE NoId]

\* One receipt of a received block: v is the block so far, whether it is good and the nested
\* transaction whose receipt must follow.
ApplyReceipt(v, r, slot, receipts) ==
    LET scheduled == {g \in v.b.db.gtos : g.id = r.id}
    IN  IF ~v.ok THEN v
        ELSE IF v.wait # NoId THEN [v EXCEPT !.wait = NoId, !.ok = ~r.packed /\ r.id = v.wait]
        ELSE IF ~r.packed /\ scheduled = {} THEN [v EXCEPT !.ok = FALSE]
        ELSE CheckReceipt(v, r, IF r.packed THEN push_transaction(v.b, r.id, slot)
                                ELSE push_scheduled_transaction(v.b, CHOOSE g \in scheduled : TRUE, slot), receipts)

\* The receipts of a block one after the other
ApplyReceipts(db, slot, receipts) ==
    LET step[i \in 0 .. Len(receipts)] ==
            IF i = 0 THEN [b |-> start_block(db, slot), ok |-> TRUE, wait |-> NoId, failed |-> {}]
            ELSE ApplyReceipt(step[i - 1], receipts[i], slot, receipts)
    IN  step

\* apply_block: the block made again from its receipts; failed is the input that raised an
\* exception.
apply_block(db, slot, receipts) ==
    LET v == ApplyReceipts(db, slot, receipts)[Len(receipts)]
    IN  [v EXCEPT !.ok = @ /\ v.wait = NoId /\ v.b.receipts = receipts]
=============================================================================
