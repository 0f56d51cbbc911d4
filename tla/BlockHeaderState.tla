-------------------------- MODULE BlockHeaderState --------------------------
(***************************************************************************)
(* The header state of a block, block_header_state.cpp: who may produce    *)
(* the next block (a schedule shuffled once per round), how many producers *)
(* still have to confirm each recent block, and which block is             *)
(* irreversible (DPoS).  Everything here is a function of the chain up to  *)
(* the block; module HeaderChain lets a chain grow, module DposForks uses  *)
(* the confirmations for two competing branches.                           *)
(*                                                                         *)
(* Left out: signatures, hashes, merkle roots, schedule versions and the   *)
(* BFT confirmations nobody sends.  A schedule is a sequence of producers. *)
(***************************************************************************)
EXTENDS Integers, Sequences, FiniteSetsExt

CONSTANTS
    MaxTracked      \* config::maximum_tracked_dpos_confirmations

ASSUME MaxTrackedAssumption == MaxTracked \in Nat \ {0}

ProducersOf(schedule) == {schedule[i] : i \in 1 .. Len(schedule)}

\* m with m[k] = v
With(m, k, v) == [x \in DOMAIN m \cup {k} |-> IF x = k THEN v ELSE m[x]]

\* The header state that follows the promotion of the first schedule: block num was
\* produced by the only producer of the genesis schedule, whose own blocks are
\* proposed at once and irreversible with the next one.
Bootstrapped(schedule, system, num) ==
    [num |-> num, slot |-> num, producer |-> system,
     schedule |-> schedule, shuffled |-> num, pending |-> <<>>, pendingNum |-> 0,
     lastProduced |-> With([p \in ProducersOf(schedule) |-> num - 1], system, num),
     impliedIrb |-> [p \in ProducersOf(schedule) |-> num - 1],
     confirmCount |-> <<>>, proposed |-> num, lib |-> num - 1]

-----------------------------------------------------------------------------
get_scheduled_producer(hs, slot) ==
    hs.schedule[((slot - (hs.shuffled + 1)) % Len(hs.schedule)) + 1]

\* Entry (size - 1) / 3 of the sorted numbers: the greatest number that at most a
\* third of the producers are below.
calc_dpos_last_irreversible(irb) ==
    Max({irb[p] : p \in {q \in DOMAIN irb :
            Cardinality({r \in DOMAIN irb : irb[r] < irb[q]}) <= (Cardinality(DOMAIN irb) - 1) \div 3}})

required_confs(n) == ((n * 2) \div 3) + 1

\* The window of tracked confirmations drops its oldest block when it is full.
grow_confirm_count(hs) ==
    LET kept == IF Len(hs.confirmCount) < MaxTracked THEN hs.confirmCount ELSE Tail(hs.confirmCount)
    IN  Append(kept, required_confs(Len(hs.schedule)))

generate_next(hs, slot) ==
    LET p == get_scheduled_producer(hs, slot)
        irb == With(hs.impliedIrb, p, hs.proposed)
    IN  [num |-> hs.num + 1, slot |-> slot, producer |-> p,
         schedule |-> hs.schedule, shuffled |-> hs.shuffled,
         pending |-> hs.pending, pendingNum |-> hs.pendingNum,
         lastProduced |-> With(hs.lastProduced, p, hs.num + 1),
         impliedIrb |-> irb,
         confirmCount |-> grow_confirm_count(hs),
         proposed |-> hs.proposed,
         lib |-> calc_dpos_last_irreversible(irb)]

\* The newest n blocks and the block itself are confirmed once more.  The newest
\* block that needs no further confirmation is proposed irreversible, and the window
\* starts behind it.
set_confirmed(hs, n) ==
    LET cc == hs.confirmCount
        from == Max({1, Len(cc) - n})
        done == {i \in from .. Len(cc) : cc[i] = 1}
        z == IF done = {} THEN 0 ELSE Max(done)
        first == IF done = {} THEN from ELSE z
    IN  [hs EXCEPT !.proposed = IF done = {} THEN @ ELSE hs.num - (Len(cc) - z),
                   !.confirmCount = [i \in 1 .. Len(cc) - z |->
                        IF i + z < first THEN cc[i + z] ELSE cc[i + z] - 1]]

\* A pending schedule becomes active when the block that set it is irreversible.
Promotes(hs) == hs.pending # <<>> /\ hs.lib >= hs.pendingNum

ShuffleDisplacement(hs) == (hs.slot - (hs.shuffled + Len(hs.schedule))) % Len(hs.schedule)

RoundEnded(hs) == hs.slot >= hs.shuffled + Len(hs.schedule)

\* mutant of IsShuffle: the slots of the new round that are past are shuffled as well
IsShuffle_all(order, s, n) == Len(order) = Len(s) /\ ProducersOf(order) = ProducersOf(s)

\* order is a shuffle of schedule s that leaves its first n places alone.  The seeded
\* shuffle of random.hpp is one of them.
IsShuffle(order, s, n) ==
    /\ Len(order) = Len(s)
    /\ ProducersOf(order) = ProducersOf(s)
    /\ SubSeq(order, 1, n) = SubSeq(s, 1, n)

\* The orders update_active_schedule() may leave in the schedule, taken from orders.
ShuffleOrders(hs, orders) ==
    IF Promotes(hs) THEN {o \in orders : IsShuffle(o, hs.pending, 0)}
    ELSE IF RoundEnded(hs) THEN {o \in orders : IsShuffle(o, hs.schedule, ShuffleDisplacement(hs))}
    ELSE {hs.schedule}

\* mutant of Renewed: new producers start from nothing
Renewed_zero(m, hs) == [p \in ProducersOf(hs.pending) |-> IF p \in DOMAIN m THEN m[p] ELSE 0]

\* mutant of Renewed: new producers start from the proposed block
Renewed_proposed(m, hs) ==
    [p \in ProducersOf(hs.pending) |-> IF p \in DOMAIN m THEN m[p] ELSE hs.proposed]

\* Known producers keep their numbers, new ones start from the irreversible block.
Renewed(m, hs) ==
    [p \in ProducersOf(hs.pending) |-> IF p \in DOMAIN m THEN m[p] ELSE hs.lib]

\* mutant of update_active_schedule: what the producers made before is forgotten
update_active_schedule_forgets(hs, order) ==
    IF Promotes(hs)
    THEN [hs EXCEPT !.schedule = order, !.pending = <<>>, !.shuffled = hs.slot,
                    !.lastProduced = [p \in ProducersOf(hs.pending) |-> hs.lib],
                    !.impliedIrb = Renewed(@, hs)]
    ELSE IF RoundEnded(hs)
    THEN [hs EXCEPT !.schedule = order, !.shuffled = hs.slot - ShuffleDisplacement(hs)]
    ELSE hs

update_active_schedule(hs, order) ==
    IF Promotes(hs)
    THEN [hs EXCEPT !.schedule = order, !.pending = <<>>, !.shuffled = hs.slot,
                    !.lastProduced = With(Renewed(@, hs), hs.producer, hs.num),
                    !.impliedIrb = Renewed(@, hs)]
    ELSE IF RoundEnded(hs)
    THEN [hs EXCEPT !.schedule = order, !.shuffled = hs.slot - ShuffleDisplacement(hs)]
    ELSE hs

set_new_producers(hs, schedule) ==
    [hs EXCEPT !.pending = schedule, !.pendingNum = hs.num]

\* next(): producer p of the block after hs does not confirm a block twice.  The
\* unsigned difference of the code wraps to a huge number when n exceeds the block.
ConfirmOk(hs, p, n) ==
    p \in DOMAIN hs.lastProduced => n > hs.num + 1 \/ hs.lastProduced[p] < hs.num + 1 - n
=============================================================================
