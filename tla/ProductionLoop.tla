--------------------------- MODULE ProductionLoop ---------------------------
(***************************************************************************)
(* The loop of producer_plugin.cpp that decides, slot by slot, whether     *)
(* this node speculates or produces, and the one timer that drives it.     *)
(*                                                                         *)
(* A handler runs to its end in one step.  Between handlers the clock      *)
(* advances, the timer expires, blocks arrive, and an operator pauses      *)
(* production, resumes it, changes options or takes a snapshot.  A handler *)
(* whose timer has expired waits in the queue of the application and can   *)
(* no longer be cancelled: that is what _timer_corelation_id is for.       *)
(*                                                                         *)
(* Times are ticks, a slot is Interval of them, block s has the time       *)
(* s * Interval.  The chain is the number and the slot of its head.        *)
(* Transactions are left out: a start of a block may find its deadline     *)
(* passed with transactions still queued.                                  *)
(***************************************************************************)
EXTENDS Integers, FiniteSets, Sequences

CONSTANTS
    Interval,       \* block_interval_us
    Shortest,       \* a block is not started with less time than this, and a start is retried after it
    StartWindow,    \* 110% of max_block_usage[CPU]
    Offset,         \* _produce_time_offset_us
    Future,         \* a block must not be further ahead than this
    Rotation,       \* the active schedule
    Locals,         \* _producers, each with its key in _signature_providers
    AgeLimited,     \* whether _max_irreversible_block_age_us is set
    Faults,         \* what may throw: chain.start_block ("start"), the chain while start_block
                    \* applies transactions ("apply"), the signature provider ("sign")
    MaxSlot,        \* bound on time
    MaxNum          \* bound on block numbers

ASSUME TimesAssumption ==
    /\ Interval \in Nat /\ Shortest \in 1 .. Interval - 1
    /\ StartWindow \in Nat /\ Offset \in Int /\ Future \in Nat
ASSUME RotationAssumption == Len(Rotation) \in Nat \ {0} /\ DOMAIN Rotation = 1 .. Len(Rotation)
ASSUME SwitchesAssumption == AgeLimited \in BOOLEAN /\ Faults \subseteq {"start", "apply", "sign"}

VARIABLES
    now,            \* the clock
    n,              \* the plugin and its chain, and (history) whether the last run of the
                    \* loop was left by an exception (threw)
    signed,         \* history: every block this node signed
    excused,        \* history: in the present slot something kept the node from producing
    missed          \* history: slots of ours that passed without a block and without excuse

vars == <<now, n, signed, excused, missed>>

NoBlock == [num |-> 0, slot |-> 0, confirmed |-> 0]
NoTimer == [at |-> -1, runs |-> "nothing"]

Turn(slot) == Rotation[(slot % Len(Rotation)) + 1]
TimeOf(slot) == slot * Interval
Larger(a, b) == IF a > b THEN a ELSE b

-----------------------------------------------------------------------------
\* Times

\* Mutant: the clock is not looked at.
calculate_pending_block_slot_head(h) == h.slot + 1

calculate_pending_block_slot(h) ==
    LET base == Larger(now, TimeOf(h.slot))
        slot == (base \div Interval) + 1
    IN  IF TimeOf(slot) - now < Shortest THEN slot + 1 ELSE slot

calculate_block_deadline(slot) == TimeOf(slot) + Offset
calculate_block_starttime(slot) == TimeOf(slot) - StartWindow

\* A producer of the active schedule is woken for every slot.
calculate_next_block_slot(slot) == slot + 1

-----------------------------------------------------------------------------
\* The timer: a new wait cancels the former one, and outdates what is queued

\* Mutant: the correlation id is not changed.
Arm_keeps_id(m, at, runs) == [m EXCEPT !.timer = [at |-> at, runs |-> runs]]

Arm(m, at, runs) ==
    [m EXCEPT !.timer = [at |-> at, runs |-> runs],
              !.queue = {[h EXCEPT !.current = FALSE] : h \in @}]

Cancel(m) == [m EXCEPT !.timer = NoTimer]

\* Handlers whose correlation id is that of the plugin
Live(m) == (IF m.timer = NoTimer THEN {} ELSE {m.timer.runs})
              \cup {h.runs : h \in {g \in m.queue : g.current}}

-----------------------------------------------------------------------------
\* start_block

irreversible_too_old(m) == AgeLimited /\ m.old
production_disabled_by_policy(m) == ~m.enabled \/ m.paused \/ irreversible_too_old(m)

\* Mutant: the watermark is not looked at.
MayProduce_anyway(m, slot) == ~production_disabled_by_policy(m) /\ Turn(slot) \in Locals

MayProduce(m, slot) ==
    /\ ~production_disabled_by_policy(m)
    /\ Turn(slot) \in Locals
    /\ m.watermarks[Turn(slot)] < m.head.num + 1

\* 16 bits of the distance; nothing for a producer that has not produced since the start
blocks_to_confirm(m, slot) ==
    LET w == m.watermarks[Turn(slot)]
    IN  IF w # 0 /\ w < m.head.num THEN (m.head.num - w) % 65536 ELSE 0

abort_block(m) == [m EXCEPT !.pending = NoBlock]

Pending(m, slot, confirmed) == [num |-> m.head.num + 1, slot |-> slot, confirmed |-> confirmed]

\* A speculative block stays as it is until something aborts it.
Speculate(m, slot) ==
    IF m.pending = NoBlock THEN [m EXCEPT !.pending = Pending(m, slot, 0)] ELSE m

\* The block of the previous slot is missing and there is still time to wait for it.
AwaitsPrevious(m, slot) ==
    /\ TimeOf(slot) - TimeOf(m.head.slot) > Interval
    /\ now < calculate_block_starttime(slot)

\* What start_block may leave and return.  Whether the transactions it finds use up the
\* time to the deadline is left open; for a block of this node it makes no difference.
\* An exception of chain.start_block fails the start of a block of this node; anywhere
\* else, and while transactions are applied, an exception leaves start_block.
start_block(m) ==
    LET slot == calculate_pending_block_slot(m.head)
        speculating == [m EXCEPT !.mode = "speculating"]
        producing == [m EXCEPT !.mode = "producing"]
        started == [producing EXCEPT !.pending = Pending(m, slot, blocks_to_confirm(m, slot))]
        Out(states, results) == [state : states, result : results]
        Fault(kind, state, result) == IF kind \in Faults THEN Out({state}, {result}) ELSE {}
    IN  IF ~MayProduce(m, slot)
        THEN Out({Speculate(speculating, slot)}, {"waiting", "exhausted"})
                \cup (IF m.pending = NoBlock THEN Fault("start", speculating, "threw") ELSE {})
                \cup Fault("apply", Speculate(speculating, slot), "threw")
        ELSE IF AwaitsPrevious(m, slot)
        THEN Out({Speculate(producing, slot)}, {"failed"})
                \cup (IF m.pending = NoBlock THEN Fault("start", producing, "threw") ELSE {})
        ELSE Out({started}, {"succeeded"})
                \cup Fault("start", abort_block(producing), "failed")
                \cup Fault("apply", started, "threw")

-----------------------------------------------------------------------------
\* schedule_production_loop

\* Mutant: wakes up at the time of the block, not one interval earlier.
schedule_delayed_production_loop_late(m, slot) ==
    Arm(m, TimeOf(calculate_next_block_slot(slot)), "loop")

\* A producer of this node is in the active schedule.
HasTurn == \E p \in Locals, i \in DOMAIN Rotation : Rotation[i] = p

schedule_delayed_production_loop(m, slot) ==
    IF HasTurn
    THEN Arm(m, TimeOf(calculate_next_block_slot(slot)) - Interval, "loop")
    ELSE m

\* When the pending block is shipped
ShippingTime(slot) ==
    IF calculate_block_deadline(slot) > now THEN calculate_block_deadline(slot)
    ELSE Larger(now, TimeOf(slot) - Interval)

Scheduled(m, result) ==
    LET delays == Locals # {} /\ ~production_disabled_by_policy(m)
    IN  CASE result = "threw" -> [m EXCEPT !.threw = TRUE]
          [] result = "failed" -> Arm(m, now + Shortest, "loop")
          [] result = "waiting" -> IF delays
                THEN schedule_delayed_production_loop(m, calculate_pending_block_slot(m.head)) ELSE m
          [] result \in {"succeeded", "exhausted"} /\ m.mode = "producing" ->
                Arm(m, ShippingTime(m.pending.slot), "produce")
          [] OTHER -> IF delays THEN schedule_delayed_production_loop(m, m.pending.slot) ELSE m

\* Only a guard_exception, which ends the node, is caught: any other leaves the loop with
\* its timer cancelled.
schedule_production_loop(m) ==
    {Scheduled(o.state, o.result) : o \in start_block([Cancel(m) EXCEPT !.threw = FALSE])}

-----------------------------------------------------------------------------
\* History: a slot lasts from after the time of the one before to its own time

SlotAt(t) == (t + Interval - 1) \div Interval

\* Work that should have been done by now
Due(m) == (m.timer # NoTimer /\ m.timer.at <= now) \/ \E h \in m.queue : h.current

\* A reason not to produce for the slot at time t
Impeded(m, t) ==
    \/ m.threw
    \/ ~MayProduce(m, SlotAt(t))
    \/ m.head.slot >= SlotAt(t)
    \/ (m.mode = "producing" /\ m.pending = NoBlock)

\* Too late to start another block for the present slot
TooLate == TimeOf(SlotAt(now)) - now < Shortest

\* The handler continues with the loop from m; excuse tells whether it disturbs the slot.
\* What leaves the loop is dropped by fc::scoped_exit, or answered by the HTTP plugin.
LoopFrom(m, excuse) ==
    /\ n' \in schedule_production_loop(m)
    /\ excused' = (excused \/ excuse \/ Impeded(n', now))
    /\ UNCHANGED <<now, missed>>

-----------------------------------------------------------------------------
\* The node is started with or without stale production, paused or not.
plugin_startup(enabled, paused, old) ==
    [head |-> [num |-> 1, slot |-> 0], pending |-> NoBlock, mode |-> "speculating",
     timer |-> NoTimer, queue |-> {}, threw |-> FALSE, enabled |-> enabled, paused |-> paused, old |-> old,
     watermarks |-> [p \in Locals |-> 0]]

Init ==
    /\ now = 0
    /\ \E enabled, paused \in BOOLEAN, old \in {FALSE, AgeLimited} :
            n \in schedule_production_loop(plugin_startup(enabled, paused, old))
    /\ ~n.threw
    /\ signed = {}
    /\ excused = TRUE
    /\ missed = {}

\* The clock advances, past handlers that are due when the node is busy.
Tick ==
    LET s == SlotAt(now)
        busy == Due(n)
        passed == now = TimeOf(s)
    IN  /\ now < TimeOf(MaxSlot)
        /\ now' = now + 1
        /\ excused' = ((~passed /\ excused) \/ busy \/ Impeded(n, now + 1))
        /\ missed' = IF /\ passed /\ ~excused /\ ~busy /\ Turn(s) \in Locals
                        /\ \A b \in signed : b.slot # s
                     THEN missed \cup {s} ELSE missed
        /\ UNCHANGED <<n, signed>>

\* The timer expires: its handler is queued.
Expire ==
    /\ n.timer # NoTimer /\ n.timer.at <= now
    /\ n' = [Cancel(n) EXCEPT !.queue = @ \cup {[runs |-> n.timer.runs, current |-> TRUE]}]
    /\ UNCHANGED <<now, signed, excused, missed>>

Dequeued(h) == [n EXCEPT !.queue = @ \ {h}]

\* A handler of an outdated timer does nothing.
SkipHandler(h) ==
    /\ ~h.current
    /\ n' = Dequeued(h)
    /\ UNCHANGED <<now, signed, excused, missed>>

\* An exception of this handler leaves app().exec() and ends the process.
RunLoopHandler(h) ==
    /\ h.current /\ h.runs = "loop"
    /\ LoopFrom(Dequeued(h), FALSE) /\ ~n'.threw
    /\ UNCHANGED signed

\* The assertions of produce_block
CanProduce(m) == m.mode = "producing" /\ m.pending # NoBlock /\ Turn(m.pending.slot) \in Locals

\* produce_block: finalize, sign, commit and raise the watermark
produce_block(m, old) ==
    [abort_block(m) EXCEPT
        !.head = [num |-> m.pending.num, slot |-> m.pending.slot],
        !.watermarks[Turn(m.pending.slot)] = m.pending.num,
        !.old = old]

\* maybe_produce_block: when the block cannot be produced or signed it is aborted.
RunProduceHandler(h) ==
    /\ h.current /\ h.runs = "produce"
    /\ \/ /\ CanProduce(n)
          /\ \E old \in {n.old, FALSE} : LoopFrom(produce_block(Dequeued(h), old), FALSE)
          /\ signed' = signed \cup {[by |-> Turn(n.pending.slot), num |-> n.pending.num,
                                    slot |-> n.pending.slot, from |-> n.pending.num - n.pending.confirmed]}
       \/ /\ ~CanProduce(n) \/ "sign" \in Faults
          /\ LoopFrom(abort_block(Dequeued(h)), TRUE)
          /\ UNCHANGED signed

-----------------------------------------------------------------------------
\* Heads a received block can lead to: on any branch, in a slot of another producer or
\* with a block this node signed itself, and not too far in the future.
Heads ==
    {h \in [num : 1 .. MaxNum, slot : 1 .. MaxSlot + 1] :
        /\ h.num <= h.slot + 1
        /\ TimeOf(h.slot) < now + Future
        /\ Turn(h.slot) \in Locals => \E b \in signed : b.num = h.num /\ b.slot = h.slot}

\* on_incoming_block, for a block that is new: the pending block is aborted before the
\* new one is pushed.  The head may stay where it is, and production is enabled when the
\* head is recent.
OnIncomingBlock ==
    /\ \E h \in Heads \cup {n.head}, old \in {n.old, FALSE} :
        LoopFrom([abort_block(n) EXCEPT !.head = h, !.old = old,
                                        !.enabled = @ \/ TimeOf(h.slot + 1) >= now], TooLate)
    /\ UNCHANGED signed

\* on_incoming_block, for a block that push_block rejects
OnRejectedBlock ==
    /\ LoopFrom(abort_block(n), TooLate)
    /\ UNCHANGED signed

\* The irreversible block grows too old without anyone noticing.
IrreversibleAges ==
    /\ AgeLimited /\ ~n.old
    /\ n' = [n EXCEPT !.old = TRUE]
    /\ excused' = TRUE
    /\ UNCHANGED <<now, signed, missed>>

pause ==
    /\ ~n.paused
    /\ n' = [n EXCEPT !.paused = TRUE]
    /\ excused' = TRUE
    /\ UNCHANGED <<now, signed, missed>>

\* resume and update_runtime_options: a node that speculates looks again.
Reevaluate(m) ==
    /\ IF m.mode = "speculating" THEN LoopFrom(abort_block(m), TooLate)
       ELSE n' = m /\ UNCHANGED <<now, excused, missed>>
    /\ UNCHANGED signed

\* Mutant: the loop is left to the next timer.
resume_only == n' = [n EXCEPT !.paused = FALSE] /\ UNCHANGED <<now, signed, excused, missed>>

resume == Reevaluate([n EXCEPT !.paused = FALSE])

update_runtime_options == AgeLimited /\ \E old \in BOOLEAN : Reevaluate([n EXCEPT !.old = old])

\* create_snapshot and get_integrity_hash start over when there is a pending block.
create_snapshot ==
    /\ n.pending # NoBlock
    /\ LoopFrom(abort_block(n), TooLate)
    /\ UNCHANGED signed

Next ==
    \/ Tick
    \/ Expire
    \/ \E h \in n.queue : SkipHandler(h) \/ RunLoopHandler(h) \/ RunProduceHandler(h)
    \/ OnIncomingBlock
    \/ OnRejectedBlock
    \/ IrreversibleAges
    \/ pause
    \/ resume
    \/ update_runtime_options
    \/ create_snapshot

Spec == Init /\ [][Next]_vars

-----------------------------------------------------------------------------
\* Properties

\* A node that may produce, for a producer of the active schedule, always has a handler to
\* come, armed or queued, whose correlation id is current: whatever order timers, blocks and
\* requests of an operator come in, nothing but an exception of start_block that leaves the
\* loop, with its timer cancelled, stops it, and the next run of the loop mends that.
LoopStaysArmed == HasTurn /\ ~production_disabled_by_policy(n) => Live(n) # {} \/ n.threw

\* The handler that ships a block finds the block it was set for: unless production was
\* disabled meanwhile or an exception left the loop, produce_block is called only in mode
\* producing, with a block on the present head in a slot of a producer of this node.
ShipsWhatWasStarted ==
    "produce" \in Live(n) /\ ~production_disabled_by_policy(n) => CanProduce(n) \/ n.threw

\* No producer confirms a number twice: the ranges of block numbers confirmed by any two
\* blocks it signed are disjoint, on whatever branches they are.
NoDoubleConfirm ==
    \A a, b \in signed : a.by = b.by /\ a # b => a.num < b.from \/ b.num < a.from

\* No producer signs two blocks for one slot.
OneBlockPerSlot ==
    \A a, b \in signed : a.slot = b.slot => a = b

\* No slot of a producer of this node passes without its block, unless in that slot
\* production was disabled, the watermark or the head stood in the way, starting or
\* signing failed or threw, the node was busy, or something restarted the block in the last moment.
OwnSlotsProduced == missed = {}
=============================================================================
