---------------------------- MODULE HeaderChain -----------------------------
(***************************************************************************)
(* A chain of headers as block_header_state::next() accepts them: blocks   *)
(* may skip slots, confirm any range the code lets them confirm, and set   *)
(* new producers.  The blocks of module BlockHeaderState are the state of  *)
(* the head; what the earlier blocks did is kept in history variables.     *)
(***************************************************************************)
EXTENDS BlockHeaderState

CONSTANTS
    Schedules,      \* the orders a shuffle may leave producers in
    FirstSchedules, \* the schedules a chain starts with, a subset
    NewSchedules,   \* schedules a block may set, a subset
    MayShrink,      \* TRUE: a new schedule may be smaller than the active one
    System,         \* the producer of the genesis schedule
    BaseNum,        \* number of the block that promoted the first schedule
    Bounds          \* for each size of a schedule, bounds on the number of the head (num),
                    \* the slots from one block to the next (skip) and the blocks one
                    \* header confirms (confirmed)

\* set_proposed_producers takes at most config::max_producers distinct producers, and an
\* empty schedule never becomes pending.
ASSUME SchedulesAssumption ==
    /\ FirstSchedules \subseteq Schedules /\ NewSchedules \subseteq Schedules
    /\ \A s \in Schedules :
          /\ s \in Seq(ProducersOf(s)) /\ Len(s) > 0 /\ Len(s) <= 125
          /\ \A i, j \in 1 .. Len(s) : s[i] = s[j] => i = j
ASSUME ChainAssumption ==
    /\ MayShrink \in BOOLEAN
    /\ BaseNum \in Nat \ {0}
    /\ \A s \in Schedules : Bounds[Len(s)] \in [num : Nat, skip : Nat, confirmed : Nat]

VARIABLES
    hs,             \* block_header_state of the head
    confirms,       \* history: how many producers block n needs, which confirmed it
    lastSlot,       \* history: slot of the last block of each producer
    builtOn         \* history: what was proposed irreversible when each producer made its
                    \* last block

vars == <<hs, confirms, lastSlot, builtOn>>

Init ==
    /\ \E s \in FirstSchedules : hs = Bootstrapped(s, System, BaseNum)
    /\ confirms = [n \in {} |-> [size |-> 1, by |-> {}]]
    /\ lastSlot = [p \in {} |-> 0]
    /\ builtOn = [p \in {} |-> 0]

\* The blocks confirmed by a block with header field confirmed = n
ConfirmedBy(n) == hs.num + 1 - n .. hs.num + 1

Bound == Bounds[Len(hs.schedule)]

\* next(): a header with this time and confirmed follows the head.  order is the
\* schedule after the shuffle, new the header's new_producers.
NextBlock(slot, n) ==
    LET p == get_scheduled_producer(hs, slot)
    IN  /\ hs.num < Bound.num
        /\ slot > hs.slot
        /\ ConfirmOk(hs, p, n)
        /\ \E confirmed \in {set_confirmed(generate_next(hs, slot), n)} :
           \E updated \in {update_active_schedule(confirmed, order) :
                            order \in ShuffleOrders(confirmed, Schedules)} :
              \/ hs' = updated
              \/ \E new \in NewSchedules :
                    /\ ~Promotes(confirmed) /\ updated.pending = <<>>
                    /\ MayShrink \/ Len(new) >= Len(updated.schedule)
                    /\ hs' = set_new_producers(updated, new)
        /\ confirms' =
            [b \in DOMAIN confirms \cup {hs.num + 1} |->
                LET c == IF b = hs.num + 1 THEN [size |-> Len(hs.schedule), by |-> {}] ELSE confirms[b]
                IN  [c EXCEPT !.by = IF b \in ConfirmedBy(n) THEN @ \cup {p} ELSE @]]
        /\ lastSlot' = With(lastSlot, p, slot)
        /\ builtOn' = With(builtOn, p, hs.proposed)

Next ==
    \E slot \in hs.slot + 1 .. hs.slot + Bound.skip, n \in 0 .. Min({hs.num + 1, Bound.confirmed}) :
        NextBlock(slot, n)

Spec == Init /\ [][Next]_vars

-----------------------------------------------------------------------------
\* Properties

\* A block is proposed irreversible only after as many producers confirmed it, each in a
\* block of its own, as are more than two thirds of those scheduled when it was made: no
\* producer counts twice, although the counters do not remember who confirmed and the
\* schedule changes in between.  The counters kept are exactly those of the blocks behind
\* the proposed one (or of the last MaxTracked), and none of them wraps.
ProposedByTwoThirds ==
    /\ hs.proposed > BaseNum =>
          3 * Cardinality(confirms[hs.proposed].by) > 2 * confirms[hs.proposed].size
    /\ Len(hs.confirmCount) = Min({MaxTracked, hs.num - hs.proposed})
    /\ \A i \in 1 .. Len(hs.confirmCount) : hs.confirmCount[i] \in 1 .. 255

\* A block becomes irreversible only when more than two thirds of the producers then
\* scheduled have themselves made a block after it was proposed.  The map that is counted
\* does not tell: update_active_schedule enters producers that made no block yet, and the
\* entries of those that leave are dropped.
IrreversibleByTwoThirds ==
    [][hs'.lib > hs.lib =>
          3 * Cardinality({p \in ProducersOf(hs.schedule) \cap DOMAIN builtOn' : builtOn'[p] >= hs'.lib})
            > 2 * Len(hs.schedule)]_vars

\* The last irreversible block of a chain never moves back, also when the active schedule
\* changes.  The fork database prefers the block with the greater one, so this is what
\* makes a block built on the head the new head, as commit_block asserts.
IrreversibleAdvances == [][hs'.lib >= hs.lib]_vars

\* Each producer has one slot per round: a producer that made a block in this round
\* is scheduled at the very slot it used and at no other slot of the round, although
\* the rest of the schedule is shuffled in the middle of a round after missed slots.
\* The head is in the round of its schedule, so the slot arithmetic never underflows.
OneSlotPerRound ==
    /\ hs.slot - hs.shuffled \in 0 .. Len(hs.schedule) - 1
    /\ \A p \in DOMAIN lastSlot : lastSlot[p] > hs.shuffled =>
          {s \in hs.shuffled + 1 .. hs.shuffled + Len(hs.schedule) :
              get_scheduled_producer(hs, s) = p} = {lastSlot[p]}
=============================================================================
