------------------------ MODULE ProductionLoopProofs ------------------------
(***************************************************************************)
(* Proofs about the production loop of producer_plugin.cpp, for any        *)
(* schedule, any producers of the node and any lengths of slots, windows   *)
(* and retries.                                                            *)
(***************************************************************************)
EXTENDS ProductionLoop, TLAPS

-----------------------------------------------------------------------------
\* Types

Handlers == [runs : {"loop", "produce"}, current : BOOLEAN]
Timers   == {NoTimer} \cup [at : Int, runs : {"loop", "produce"}]

Plugin ==
    [head : [num : Nat, slot : Nat],
     pending : [num : Nat, slot : Nat, confirmed : Nat],
     mode : {"speculating", "producing"},
     timer : Timers,
     queue : SUBSET Handlers,
     threw : BOOLEAN,
     enabled : BOOLEAN, paused : BOOLEAN, old : BOOLEAN,
     watermarks : [Locals -> Nat]]

\* The chain and the switches of two states of the plugin agree.
SameChain(a, b) ==
    /\ a.head = b.head /\ a.watermarks = b.watermarks
    /\ a.enabled = b.enabled /\ a.paused = b.paused /\ a.old = b.old

Signatures == [by : Locals, num : Nat, slot : Nat, from : Int]

\* A handler of kind x is to come and its correlation id is current.
IsLive(m, x) ==
    \/ m.timer # NoTimer /\ m.timer.runs = x
    \/ \E h \in m.queue : h.current /\ h.runs = x

-----------------------------------------------------------------------------
\* Arithmetic of slots

\* What \div returns
LEMMA DivBounds ==
    ASSUME NEW x \in Nat
    PROVE  /\ x \div Interval \in Nat
           /\ (x \div Interval) * Interval <= x
           /\ x < (x \div Interval) * Interval + Interval
  <1>1. Interval \in Nat /\ Interval > 0
    BY TimesAssumption
  <1> QED BY <1>1, SMT

\* A slot is Interval ticks long.
LEMMA TimeOfStep ==
    ASSUME NEW s \in Nat
    PROVE  TimeOf(s) \in Nat /\ TimeOf(s + 1) = TimeOf(s) + Interval
  BY TimesAssumption, SMT DEF TimeOf

\* Slots are ordered as their times.
LEMMA TimeOfMonotone ==
    ASSUME NEW s \in Nat, NEW t \in Nat, TimeOf(s) < TimeOf(t)
    PROVE  s < t
  BY TimesAssumption, SMT DEF TimeOf

-----------------------------------------------------------------------------
\* The invariant

\* The pending block is one that start_block started for a producer of this node, and it
\* confirms nothing that the producer has confirmed before.
Ships(m) ==
    /\ m.pending # NoBlock
    /\ m.pending.num = m.head.num + 1
    /\ Turn(m.pending.slot) \in Locals
    /\ m.watermarks[Turn(m.pending.slot)] < m.pending.num - m.pending.confirmed

\* Whenever the plugin is left in mode producing a handler is to come, and one that ships a
\* block finds the block it was set for.  When production is disabled, a queued handler may
\* outlive the mode; an exception that leaves the loop leaves it queued too, without a timer
\* and perhaps without a block.
LoopInv(m) ==
    /\ m.mode = "producing" => m.threw \/ \E x \in {"loop", "produce"} : IsLive(m, x)
    /\ m.mode = "producing" /\ IsLive(m, "produce") => Ships(m) \/ (m.threw /\ m.pending = NoBlock)
    /\ HasTurn /\ ~production_disabled_by_policy(m) =>
          m.threw \/ \E x \in {"loop", "produce"} : IsLive(m, x)
    /\ IsLive(m, "produce") => HasTurn
    /\ IsLive(m, "produce") /\ ~production_disabled_by_policy(m) => m.mode = "producing" \/ m.threw

\* What a producer signed is at most its watermark.
BelowWatermark == \A b \in signed : b.num <= n.watermarks[b.by]

\* The block to be shipped is for a slot later than every one signed for, and is not
\* shipped before the time of its slot.
InTime(m, t, slots) ==
    m.mode = "producing" /\ m.pending # NoBlock =>
        /\ IsLive(m, "produce") => \A b \in slots : b < m.pending.slot
        /\ m.timer # NoTimer /\ m.timer.runs = "produce" => TimeOf(m.pending.slot) <= m.timer.at
        /\ (\E h \in m.queue : h.current /\ h.runs = "produce") => TimeOf(m.pending.slot) <= t

SignedSlots == {b.slot : b \in signed}

\* Blocks are not shipped early, and no exception leaves a started block behind: a handler
\* that is queued would ship it before its time.
NotEarly == Offset >= 0 /\ "apply" \notin Faults

\* Nothing is signed before its time.
SlotInv ==
    /\ \A b \in SignedSlots : TimeOf(b) <= now
    /\ InTime(n, now, SignedSlots)
    /\ OneBlockPerSlot

IInv ==
    /\ now \in Nat
    /\ n \in Plugin
    /\ signed \in SUBSET Signatures
    /\ LoopInv(n)
    /\ BelowWatermark
    /\ NoDoubleConfirm
    /\ NotEarly => SlotInv

-----------------------------------------------------------------------------
\* start_block and schedule_production_loop

\* The slot of the next block is after that of the head, and not over.
LEMMA PendingSlot ==
    ASSUME NEW h \in [num : Nat, slot : Nat], now \in Nat
    PROVE  /\ calculate_pending_block_slot(h) \in Nat
           /\ TimeOf(calculate_pending_block_slot(h)) > now
           /\ calculate_pending_block_slot(h) > h.slot
  <1> DEFINE base == Larger(now, TimeOf(h.slot))
             slot == (base \div Interval) + 1
  <1>1. base \in Nat /\ base >= now /\ base >= TimeOf(h.slot)
    BY TimeOfStep DEF Larger
  <1>2. slot \in Nat /\ TimeOf(slot) > base /\ TimeOf(slot + 1) = TimeOf(slot) + Interval
    BY <1>1, DivBounds, TimeOfStep, TimesAssumption DEF TimeOf
  <1> HIDE DEF slot, base
  <1>3. TimeOf(slot) \in Nat /\ TimeOf(h.slot) \in Nat
    BY <1>2, TimeOfStep
  <1>4. slot > h.slot
    BY <1>1, <1>2, <1>3, TimeOfMonotone
  <1>5. TimeOf(slot) > now /\ TimeOf(slot + 1) > now
    BY <1>1, <1>2, <1>3, TimesAssumption
  <1> QED BY <1>2, <1>4, <1>5 DEF calculate_pending_block_slot, slot, base

\* The block that a speculating node is left with
Speculated(m, slot) == IF m.pending = NoBlock THEN Pending(m, slot, 0) ELSE m.pending

\* How start_block may end: without a right to produce, waiting for the block before or
\* without a block, with a block of this node, or left by an exception.
StartOutcome(m, slot, o) ==
    \/ /\ ~MayProduce(m, slot)
       /\ o.result \in {"waiting", "exhausted"}
       /\ o.state = [m EXCEPT !.mode = "speculating", !.pending = Speculated(m, slot)]
    \/ /\ MayProduce(m, slot)
       /\ o.result = "failed"
       /\ \/ /\ AwaitsPrevious(m, slot)
             /\ o.state = [m EXCEPT !.mode = "producing", !.pending = Speculated(m, slot)]
          \/ o.state = [m EXCEPT !.mode = "producing", !.pending = NoBlock]
    \/ /\ MayProduce(m, slot)
       /\ o.result = "succeeded"
       /\ o.state = [m EXCEPT !.mode = "producing",
                              !.pending = Pending(m, slot, blocks_to_confirm(m, slot))]
    \/ /\ o.result = "threw"
       /\ \/ o.state = [m EXCEPT !.mode = "speculating", !.pending = NoBlock]
          \/ o.state = [m EXCEPT !.mode = "speculating", !.pending = Speculated(m, slot)]
          \/ o.state = [m EXCEPT !.mode = "producing", !.pending = NoBlock]
          \/ /\ MayProduce(m, slot) /\ "apply" \in Faults
             /\ o.state = [m EXCEPT !.mode = "producing",
                                    !.pending = Pending(m, slot, blocks_to_confirm(m, slot))]

\* start_block ends in one of those ways.
LEMMA StartBlockCases ==
    ASSUME NEW m \in Plugin, NEW slot \in Nat, slot = calculate_pending_block_slot(m.head),
           NEW o \in start_block(m)
    PROVE  StartOutcome(m, slot, o)
  <1> DEFINE modeless == [m EXCEPT !.mode = "speculating"]
             speculating == Speculate(modeless, slot)
             producing == [m EXCEPT !.mode = "producing"]
             waiting == Speculate(producing, slot)
             started == [producing EXCEPT !.pending = Pending(m, slot, blocks_to_confirm(m, slot))]
  <1>1. speculating = [m EXCEPT !.mode = "speculating", !.pending = Speculated(m, slot)]
    BY DEF Speculate, Speculated, Pending, Plugin
  <1>2. waiting = [m EXCEPT !.mode = "producing", !.pending = Speculated(m, slot)]
    BY DEF Speculate, Speculated, Pending, Plugin
  <1>3. abort_block(producing) = [m EXCEPT !.mode = "producing", !.pending = NoBlock]
    BY DEF abort_block, Plugin
  <1>4. started = [m EXCEPT !.mode = "producing",
                            !.pending = Pending(m, slot, blocks_to_confirm(m, slot))]
    BY DEF Plugin
  <1>5. m.pending = NoBlock =>
            /\ modeless = [m EXCEPT !.mode = "speculating", !.pending = NoBlock]
            /\ producing = [m EXCEPT !.mode = "producing", !.pending = NoBlock]
    <2>1. m.pending = NoBlock => modeless = [m EXCEPT !.mode = "speculating", !.pending = NoBlock]
      BY ZenonT(40) DEF Plugin
    <2>2. m.pending = NoBlock => producing = [m EXCEPT !.mode = "producing", !.pending = NoBlock]
      BY ZenonT(40) DEF Plugin
    <2> QED BY <2>1, <2>2
  <1>6. /\ speculating = Speculate(modeless, slot)
        /\ started = [producing EXCEPT !.pending = Pending(m, slot, blocks_to_confirm(m, slot))]
        /\ waiting = Speculate(producing, slot)
    OBVIOUS
  <1> DEFINE Out(states, results) == [state : states, result : results]
             Fault(kind, state, result) == IF kind \in Faults THEN Out({state}, {result}) ELSE {}
             spec == Out({speculating}, {"waiting", "exhausted"})
                       \cup (IF m.pending = NoBlock THEN Fault("start", modeless, "threw") ELSE {})
                       \cup Fault("apply", speculating, "threw")
             wait == Out({waiting}, {"failed"})
                       \cup (IF m.pending = NoBlock THEN Fault("start", producing, "threw") ELSE {})
             made == Out({started}, {"succeeded"})
                       \cup Fault("start", abort_block(producing), "failed")
                       \cup Fault("apply", started, "threw")
  <1>7. start_block(m) = IF ~MayProduce(m, slot) THEN spec ELSE IF AwaitsPrevious(m, slot) THEN wait ELSE made
    BY DEF start_block
  <1> HIDE DEF speculating, modeless, producing, waiting, started
  <1>8. CASE ~MayProduce(m, slot) /\ o \in spec
    BY <1>1, <1>5, <1>8 DEF StartOutcome
  <1>9. CASE MayProduce(m, slot) /\ AwaitsPrevious(m, slot) /\ o \in wait
    BY <1>2, <1>5, <1>9 DEF StartOutcome
  <1>10. CASE MayProduce(m, slot) /\ o \in made
    BY <1>3, <1>4, <1>10 DEF StartOutcome
  <1> QED BY <1>7, <1>8, <1>9, <1>10

\* What the loop does with a start that leaves it speculating
LEMMA Waits ==
    ASSUME NEW st, NEW result \in {"waiting", "exhausted"}, st.mode = "speculating"
    PROVE  Scheduled(st, result) =
             LET s == IF result = "waiting" THEN calculate_pending_block_slot(st.head) ELSE st.pending.slot
             IN  IF Locals # {} /\ ~production_disabled_by_policy(st) /\ HasTurn
                 THEN Arm(st, TimeOf(calculate_next_block_slot(s)) - Interval, "loop") ELSE st
  <1>1. CASE result = "waiting"
    BY <1>1 DEF Scheduled, schedule_delayed_production_loop
  <1>2. CASE result = "exhausted"
    BY <1>2 DEF Scheduled, schedule_delayed_production_loop
  <1> QED BY <1>1, <1>2

\* A slot that has a producer of this node is one of the rotation.
LEMMA TurnIsScheduled ==
    ASSUME NEW slot \in Nat, Turn(slot) \in Locals
    PROVE  HasTurn
  <1>1. (slot % Len(Rotation)) + 1 \in DOMAIN Rotation
    BY RotationAssumption
  <1> QED BY <1>1 DEF Turn, HasTurn

\* A producer confirms only numbers above its watermark.
LEMMA ConfirmsAboveWatermark ==
    ASSUME NEW m \in Plugin, NEW slot \in Nat, MayProduce(m, slot)
    PROVE  /\ blocks_to_confirm(m, slot) \in Nat
           /\ m.watermarks[Turn(slot)] < m.head.num + 1 - blocks_to_confirm(m, slot)
  <1> DEFINE w == m.watermarks[Turn(slot)]
  <1>1. w \in Nat /\ m.head.num \in Nat /\ w < m.head.num + 1
    BY DEF MayProduce, Plugin
  <1> HIDE DEF w
  <1>2. CASE w # 0 /\ w < m.head.num
    <2>1. /\ (m.head.num - w) % 65536 \in Nat
          /\ (m.head.num - w) % 65536 <= m.head.num - w
      BY <1>1, <1>2, SMT
    <2> QED BY <1>1, <1>2, <2>1 DEF blocks_to_confirm, w
  <1>3. CASE ~(w # 0 /\ w < m.head.num)
    BY <1>1, <1>3 DEF blocks_to_confirm, w
  <1> QED BY <1>2, <1>3

\* A new wait leaves one handler to come, its own.
LEMMA ArmResult ==
    ASSUME NEW m \in Plugin, NEW at \in Int, NEW x \in {"loop", "produce"}
    PROVE  /\ Arm(m, at, x) \in Plugin
           /\ Arm(m, at, x).timer = [at |-> at, runs |-> x]
           /\ \A h \in Arm(m, at, x).queue : ~h.current
           /\ \A y : IsLive(Arm(m, at, x), y) <=> y = x
           /\ SameChain(Arm(m, at, x), m)
           /\ Arm(m, at, x).pending = m.pending /\ Arm(m, at, x).mode = m.mode
           /\ Arm(m, at, x).threw = m.threw
  <1> DEFINE a == Arm(m, at, x)
             q == {[h EXCEPT !.current = FALSE] : h \in m.queue}
  <1>1. q \in SUBSET Handlers /\ \A h \in q : ~h.current
    <2>1. \A h \in Handlers : /\ [h EXCEPT !.current = FALSE] \in Handlers
                              /\ ~[h EXCEPT !.current = FALSE].current
      BY DEF Handlers
    <2>2. m.queue \in SUBSET Handlers
      BY DEF Plugin
    <2> QED BY <2>1, <2>2
  <1>2. a = [m EXCEPT !.timer = [at |-> at, runs |-> x], !.queue = q]
    BY DEF Arm
  <1> HIDE DEF q, a
  <1>3. [at |-> at, runs |-> x] \in Timers /\ [at |-> at, runs |-> x] # NoTimer
    BY DEF Timers, NoTimer
  <1>4. a.timer = [at |-> at, runs |-> x] /\ a.queue = q /\ a \in Plugin
    BY <1>1, <1>2, <1>3 DEF Plugin
  <1>5. SameChain(a, m) /\ a.pending = m.pending /\ a.mode = m.mode /\ a.threw = m.threw
    BY <1>2 DEF Plugin, SameChain
  <1>6. \A y : IsLive(a, y) <=> y = x
    BY <1>1, <1>3, <1>4 DEF IsLive
  <1> QED BY <1>1, <1>4, <1>5, <1>6 DEF a


\* A run of the loop leaves the chain and the switches alone and ends in one of four ways:
\* speculating, armed unless there is nothing to wait for; about to try again; with a block
\* of this node that is shipped when the timer expires; or left by an exception.
LEMMA LoopOutcomes ==
    ASSUME NEW m \in Plugin, now \in Nat, NEW r \in schedule_production_loop(m),
           NEW slot \in Nat, slot = calculate_pending_block_slot(m.head)
    PROVE  /\ r \in Plugin
           /\ SameChain(r, m)
           /\ \/ /\ r.mode = "speculating" /\ ~r.threw
                 /\ \/ \A y : IsLive(r, y) <=> y = "loop"
                    \/ /\ ~HasTurn \/ production_disabled_by_policy(m)
                       /\ \A y : IsLive(r, y) => IsLive(m, y)
              \/ /\ r.mode = "producing" /\ MayProduce(m, slot) /\ ~r.threw
                 /\ \A y : IsLive(r, y) <=> y = "loop"
              \/ /\ r.mode = "producing" /\ MayProduce(m, slot) /\ ~r.threw
                 /\ \A y : IsLive(r, y) <=> y = "produce"
                 /\ r.timer = [at |-> ShippingTime(slot), runs |-> "produce"]
                 /\ \A h \in r.queue : ~h.current
                 /\ r.pending = Pending(m, slot, blocks_to_confirm(m, slot))
              \/ /\ r.threw
                 /\ \A y : IsLive(r, y) => IsLive(m, y)
                 /\ \/ r.mode = "speculating"
                    \/ r.mode = "producing" /\ r.pending = NoBlock
                    \/ /\ r.mode = "producing" /\ MayProduce(m, slot) /\ "apply" \in Faults
                       /\ r.pending = Pending(m, slot, blocks_to_confirm(m, slot))
  <1> DEFINE c == [Cancel(m) EXCEPT !.threw = FALSE]
             Blocks == [num : Nat, slot : Nat, confirmed : Nat]
             made == Pending(m, slot, blocks_to_confirm(m, slot))
  <1>1. /\ c \in Plugin /\ SameChain(c, m) /\ c.pending = m.pending /\ c.queue = m.queue
        /\ c.timer = NoTimer /\ ~c.threw
    BY DEF Cancel, Plugin, Timers, SameChain
  <1> HIDE DEF c
  <1>2. \A y : IsLive(c, y) => IsLive(m, y)
    BY <1>1 DEF IsLive
  <1>3. PICK o \in start_block(c) : r = Scheduled(o.state, o.result)
    BY DEF schedule_production_loop, c
  <1> DEFINE st == o.state
  <1>4. slot = calculate_pending_block_slot(c.head) /\ \A s : MayProduce(c, s) <=> MayProduce(m, s)
    BY <1>1 DEF SameChain, MayProduce, production_disabled_by_policy, irreversible_too_old
  <1>5. Pending(c, slot, blocks_to_confirm(c, slot)) = made
    BY <1>1 DEF SameChain, Pending, blocks_to_confirm
  <1>6. StartOutcome(c, slot, o)
    BY <1>1, <1>3, <1>4, StartBlockCases
  <1>7. /\ Speculated(c, slot) \in Blocks /\ NoBlock \in Blocks
        /\ MayProduce(m, slot) => made \in Blocks
    BY <1>1, ConfirmsAboveWatermark DEF Plugin, Pending, NoBlock, Speculated
  <1> HIDE DEF Blocks, made
  <1>8. PICK p \in Blocks, x \in {"speculating", "producing"} :
            /\ st = [c EXCEPT !.mode = x, !.pending = p]
            /\ \/ ~MayProduce(m, slot) /\ o.result \in {"waiting", "exhausted"} /\ x = "speculating"
               \/ MayProduce(m, slot) /\ o.result = "failed" /\ x = "producing"
               \/ MayProduce(m, slot) /\ o.result = "succeeded" /\ x = "producing" /\ p = made
               \/ /\ o.result = "threw"
                  /\ \/ x = "speculating"
                     \/ x = "producing" /\ p = NoBlock
                     \/ x = "producing" /\ MayProduce(m, slot) /\ "apply" \in Faults /\ p = made
    <2> DEFINE Ends(q, y) == st = [c EXCEPT !.mode = y, !.pending = q]
               spec == Speculated(c, slot)
    <2>1. \/ ~MayProduce(m, slot) /\ o.result \in {"waiting", "exhausted"} /\ Ends(spec, "speculating")
          \/ MayProduce(m, slot) /\ o.result = "failed" /\ (Ends(spec, "producing") \/ Ends(NoBlock, "producing"))
          \/ MayProduce(m, slot) /\ o.result = "succeeded" /\ Ends(made, "producing")
          \/ /\ o.result = "threw"
             /\ \/ Ends(NoBlock, "speculating")
                \/ Ends(spec, "speculating")
                \/ Ends(NoBlock, "producing")
                \/ MayProduce(m, slot) /\ "apply" \in Faults /\ Ends(made, "producing")
      BY <1>4, <1>5, <1>6 DEF StartOutcome
    <2>2. \A q, y : Ends(q, y) <=> st = [c EXCEPT !.mode = y, !.pending = q]
      OBVIOUS
    <2>3. spec \in Blocks
      BY <1>7
    <2> HIDE DEF Ends, st, spec
    <2>4. \E p \in Blocks, x \in {"speculating", "producing"} :
            /\ Ends(p, x)
            /\ \/ ~MayProduce(m, slot) /\ o.result \in {"waiting", "exhausted"} /\ x = "speculating"
               \/ MayProduce(m, slot) /\ o.result = "failed" /\ x = "producing"
               \/ MayProduce(m, slot) /\ o.result = "succeeded" /\ x = "producing" /\ p = made
               \/ /\ o.result = "threw"
                  /\ \/ x = "speculating"
                     \/ x = "producing" /\ p = NoBlock
                     \/ x = "producing" /\ MayProduce(m, slot) /\ "apply" \in Faults /\ p = made
      BY <1>7, <2>1, <2>3
    <2> QED BY <2>2, <2>4
  <1> HIDE DEF st
  <1>9. /\ st \in Plugin /\ st.mode = x /\ st.pending = p /\ ~st.threw
        /\ SameChain(st, c) /\ st.timer = c.timer /\ st.queue = c.queue
    BY <1>1, <1>8 DEF Plugin, SameChain, Blocks
  <1>10. /\ SameChain(st, m)
         /\ \A y : IsLive(st, y) => IsLive(m, y)
         /\ production_disabled_by_policy(st) <=> production_disabled_by_policy(m)
    BY <1>1, <1>2, <1>9 DEF SameChain, IsLive, production_disabled_by_policy, irreversible_too_old
  <1>11. now + Shortest \in Int /\ ShippingTime(slot) \in Int
    BY TimesAssumption, TimeOfStep DEF ShippingTime, calculate_block_deadline, Larger
  <1>12. \A s \in Nat : TimeOf(calculate_next_block_slot(s)) - Interval \in Int
    BY TimesAssumption DEF calculate_next_block_slot, TimeOf
  <1>13. CASE /\ ~MayProduce(m, slot)
              /\ o.result \in {"waiting", "exhausted"}
              /\ st.mode = "speculating"
    <2> DEFINE s == IF o.result = "waiting" THEN calculate_pending_block_slot(st.head) ELSE st.pending.slot
    <2>1. s \in Nat
      BY <1>1, <1>4, <1>9 DEF Plugin, SameChain
    <2>2. r = IF Locals # {} /\ ~production_disabled_by_policy(st) /\ HasTurn
              THEN Arm(st, TimeOf(calculate_next_block_slot(s)) - Interval, "loop") ELSE st
      <3>1. r = Scheduled(st, o.result)
        BY <1>3 DEF st
      <3>2. o.result \in {"waiting", "exhausted"} /\ st.mode = "speculating"
        BY <1>13
      <3> HIDE DEF st
      <3> QED BY <3>1, <3>2, Waits
    <2> HIDE DEF s
    <2>3. CASE Locals # {} /\ ~production_disabled_by_policy(st) /\ HasTurn
      <3>1. /\ r \in Plugin /\ SameChain(r, st) /\ r.mode = st.mode /\ r.threw = st.threw
            /\ \A y : IsLive(r, y) <=> y = "loop"
        BY <1>9, <1>12, <2>1, <2>2, <2>3, ArmResult, ZenonT(40)
      <3>2. SameChain(r, m)
        BY <1>10, <3>1 DEF SameChain
      <3> QED BY <1>9, <1>13, <3>1, <3>2
    <2>4. CASE ~(Locals # {} /\ ~production_disabled_by_policy(st) /\ HasTurn)
      BY <1>9, <1>10, <1>13, <2>2, <2>4 DEF HasTurn
    <2> QED BY <2>3, <2>4
  <1>14. CASE MayProduce(m, slot) /\ o.result = "failed" /\ st.mode = "producing"
    <2>1. r = Arm(st, now + Shortest, "loop")
      BY <1>3, <1>14 DEF Scheduled, st
    <2>2. /\ r \in Plugin /\ SameChain(r, st) /\ r.mode = st.mode /\ r.threw = st.threw
          /\ \A y : IsLive(r, y) <=> y = "loop"
      BY <1>9, <1>11, <2>1, ArmResult, ZenonT(40)
    <2>3. SameChain(r, m)
      BY <1>10, <2>2 DEF SameChain
    <2> QED BY <1>9, <1>14, <2>2, <2>3
  <1>15. CASE /\ MayProduce(m, slot) /\ o.result = "succeeded" /\ st.mode = "producing"
              /\ st.pending = made
    <2>1. r = Arm(st, ShippingTime(slot), "produce")
      BY <1>3, <1>15 DEF Scheduled, st, Pending, made
    <2>2. /\ r \in Plugin /\ SameChain(r, st) /\ r.mode = st.mode /\ r.threw = st.threw
          /\ r.pending = st.pending /\ r.timer = [at |-> ShippingTime(slot), runs |-> "produce"]
          /\ \A h \in r.queue : ~h.current
          /\ \A y : IsLive(r, y) <=> y = "produce"
      BY <1>9, <1>11, <2>1, ArmResult, ZenonT(40)
    <2>3. SameChain(r, m)
      BY <1>10, <2>2 DEF SameChain
    <2> QED BY <1>9, <1>15, <2>2, <2>3 DEF made
  <1>16. CASE /\ o.result = "threw"
              /\ \/ st.mode = "speculating"
                 \/ st.mode = "producing" /\ st.pending = NoBlock
                 \/ st.mode = "producing" /\ MayProduce(m, slot) /\ "apply" \in Faults /\ st.pending = made
    <2>1. r = [st EXCEPT !.threw = TRUE]
      BY <1>3, <1>16 DEF Scheduled, st
    <2>2. /\ r \in Plugin /\ r.threw /\ r.mode = st.mode /\ r.pending = st.pending
          /\ r.timer = st.timer /\ r.queue = st.queue /\ SameChain(r, st)
      BY <1>9, <2>1 DEF Plugin, SameChain
    <2>3. SameChain(r, m) /\ \A y : IsLive(r, y) => IsLive(m, y)
      BY <1>10, <2>2 DEF SameChain, IsLive
    <2> QED BY <1>16, <2>2, <2>3 DEF made
  <1> QED BY <1>8, <1>9, <1>13, <1>14, <1>15, <1>16

-----------------------------------------------------------------------------
\* The invariant holds initially and every step preserves it

\* Whatever state a handler passes on, a run of the loop establishes its part of the invariant.
LEMMA LoopEstablishes ==
    ASSUME NEW m \in Plugin, now \in Nat, IsLive(m, "produce") => HasTurn,
           NEW r \in schedule_production_loop(m)
    PROVE  r \in Plugin /\ SameChain(r, m) /\ LoopInv(r)
  <1> DEFINE slot == calculate_pending_block_slot(m.head)
  <1>1. slot \in Nat /\ TimeOf(slot) > now /\ slot > m.head.slot
    BY PendingSlot DEF Plugin
  <1> HIDE DEF slot
  <1>2. /\ r \in Plugin /\ SameChain(r, m)
        /\ production_disabled_by_policy(r) <=> production_disabled_by_policy(m)
    BY <1>1, LoopOutcomes, ZenonT(40) DEF slot, SameChain, production_disabled_by_policy, irreversible_too_old
  <1>3. CASE /\ r.mode = "speculating"
             /\ \A y : IsLive(r, y) <=> y = "loop"
    BY <1>2, <1>3 DEF LoopInv
  <1>4. CASE /\ r.mode = "speculating"
             /\ ~HasTurn \/ production_disabled_by_policy(m)
             /\ \A y : IsLive(r, y) => IsLive(m, y)
    BY <1>2, <1>4 DEF LoopInv
  <1>5. CASE /\ r.mode = "producing" /\ MayProduce(m, slot)
             /\ \A y : IsLive(r, y) <=> y = "loop"
    BY <1>2, <1>5 DEF LoopInv
  <1>6. CASE /\ r.mode = "producing" /\ MayProduce(m, slot)
             /\ \A y : IsLive(r, y) <=> y = "produce"
             /\ r.pending = Pending(m, slot, blocks_to_confirm(m, slot))
    <2>1. /\ blocks_to_confirm(m, slot) \in Nat
          /\ m.watermarks[Turn(slot)] < m.head.num + 1 - blocks_to_confirm(m, slot)
          /\ Turn(slot) \in Locals
      BY <1>1, <1>6, ConfirmsAboveWatermark DEF MayProduce
    <2>2. HasTurn
      BY <1>1, <2>1, TurnIsScheduled
    <2>3. Ships(r)
      BY <1>1, <1>2, <1>6, <2>1 DEF Ships, SameChain, Pending, NoBlock, Plugin
    <2> QED BY <1>2, <1>6, <2>2, <2>3 DEF LoopInv
  <1>7. CASE /\ r.threw
             /\ \A y : IsLive(r, y) => IsLive(m, y)
             /\ \/ r.mode = "speculating"
                \/ r.mode = "producing" /\ r.pending = NoBlock
                \/ /\ r.mode = "producing" /\ MayProduce(m, slot)
                   /\ r.pending = Pending(m, slot, blocks_to_confirm(m, slot))
    <2>1. MayProduce(m, slot) /\ r.pending = Pending(m, slot, blocks_to_confirm(m, slot)) => Ships(r)
      BY <1>1, <1>2, ConfirmsAboveWatermark DEF MayProduce, Ships, SameChain, Pending, NoBlock, Plugin
    <2> QED BY <1>2, <1>7, <2>1 DEF LoopInv
  <1> QED BY <1>1, <1>2, <1>3, <1>4, <1>5, <1>6, <1>7, LoopOutcomes DEF slot

\* A block is started for a slot that is not over, and shipped when the slot is.
LEMMA LoopInTime ==
    ASSUME NEW m \in Plugin, now \in Nat, NotEarly,
           NEW slots \in SUBSET Nat, \A b \in slots : TimeOf(b) <= now,
           NEW r \in schedule_production_loop(m)
    PROVE  InTime(r, now, slots)
  <1> DEFINE slot == calculate_pending_block_slot(m.head)
  <1>1. slot \in Nat /\ TimeOf(slot) > now /\ TimeOf(slot) \in Nat
    BY PendingSlot, TimeOfStep DEF Plugin
  <1> HIDE DEF slot
  <1>2. CASE \A y : IsLive(r, y) <=> y = "loop"
    BY <1>2 DEF InTime, IsLive
  <1>3. CASE /\ \A y : IsLive(r, y) <=> y = "produce"
             /\ r.timer = [at |-> ShippingTime(slot), runs |-> "produce"]
             /\ \A h \in r.queue : ~h.current
             /\ r.pending = Pending(m, slot, blocks_to_confirm(m, slot))
    <2>1. ShippingTime(slot) = TimeOf(slot) + Offset
      BY <1>1, TimesAssumption DEF ShippingTime, calculate_block_deadline, NotEarly
    <2>2. r.pending.slot = slot
      BY <1>3 DEF Pending
    <2>3. \A b \in slots : b < slot
      <3> SUFFICES ASSUME NEW b \in slots PROVE b < slot
        OBVIOUS
      <3>1. TimeOf(b) \in Nat /\ TimeOf(b) < TimeOf(slot)
        BY <1>1, TimeOfStep
      <3> QED BY <1>1, <3>1, TimeOfMonotone
    <2> QED BY <1>1, <1>3, <2>1, <2>2, <2>3, TimesAssumption DEF InTime, NotEarly
  <1>4. CASE r.mode = "speculating"
    BY <1>4 DEF InTime
  <1>5. CASE r.pending = NoBlock
    BY <1>5 DEF InTime
  <1>6. "apply" \notin Faults
    BY DEF NotEarly
  <1> QED BY <1>1, <1>2, <1>3, <1>4, <1>5, <1>6, LoopOutcomes DEF slot

\* A handler that ends with the loop and signs nothing preserves the invariant, whatever
\* it did to the pending block, the head and the switches.
LEMMA LoopKeepsIInv ==
    ASSUME IInv, NEW m \in Plugin, m.watermarks = n.watermarks,
           IsLive(m, "produce") => IsLive(n, "produce"),
           n' \in schedule_production_loop(m), now' = now, signed' = signed
    PROVE  IInv'
  <1>1. IsLive(m, "produce") => HasTurn
    BY DEF IInv, LoopInv
  <1>2. now \in Nat
    BY DEF IInv
  <1>3. n' \in Plugin /\ SameChain(n', m) /\ LoopInv(n')
    BY <1>1, <1>2, LoopEstablishes
  <1>4. n'.watermarks = n.watermarks
    BY <1>3 DEF SameChain
  <1>5. NotEarly => SlotInv'
    <2> SUFFICES ASSUME NotEarly PROVE SlotInv'
      OBVIOUS
    <2>1. SignedSlots \in SUBSET Nat /\ \A b \in SignedSlots : TimeOf(b) <= now
      BY DEF IInv, SlotInv, SignedSlots, Signatures
    <2>2. InTime(n', now, SignedSlots)
      BY <1>2, <2>1, LoopInTime
    <2>3. OneBlockPerSlot'
      BY DEF IInv, SlotInv, OneBlockPerSlot
    <2>4. SignedSlots' = SignedSlots
      BY DEF SignedSlots
    <2> QED BY <2>1, <2>2, <2>3, <2>4 DEF SlotInv
  <1>6. BelowWatermark' /\ NoDoubleConfirm'
    BY <1>4 DEF IInv, BelowWatermark, NoDoubleConfirm
  <1> QED BY <1>3, <1>5, <1>6 DEF IInv

\* plugin_startup leaves an invariant state.
LEMMA InitIInv == Init => IInv
  <1> SUFFICES ASSUME Init PROVE IInv
    OBVIOUS
  <1>1. PICK enabled, paused \in BOOLEAN, old \in {FALSE, AgeLimited} :
            n \in schedule_production_loop(plugin_startup(enabled, paused, old))
    BY DEF Init
  <1> DEFINE m == plugin_startup(enabled, paused, old)
  <1>2. m \in Plugin /\ ~IsLive(m, "produce")
    BY SwitchesAssumption DEF plugin_startup, Plugin, NoBlock, NoTimer, Timers, IsLive
  <1> HIDE DEF m
  <1>3. now \in Nat /\ signed = {}
    BY DEF Init
  <1>4. n \in Plugin /\ LoopInv(n)
    BY <1>1, <1>2, <1>3, LoopEstablishes DEF m
  <1>5. SignedSlots = {}
    BY <1>3 DEF SignedSlots
  <1>6. NotEarly => InTime(n, now, SignedSlots)
    BY <1>1, <1>2, <1>3, <1>5, LoopInTime DEF m
  <1>7. NotEarly => SlotInv
    BY <1>3, <1>5, <1>6 DEF SlotInv, OneBlockPerSlot
  <1> QED BY <1>3, <1>4, <1>7 DEF IInv, BelowWatermark, NoDoubleConfirm

\* The clock preserves the invariant.
LEMMA TickIInv == IInv /\ Tick => IInv'
  <1> SUFFICES ASSUME IInv, Tick PROVE IInv'
    OBVIOUS
  <1>1. n' = n /\ signed' = signed /\ now' = now + 1 /\ now \in Nat
    BY DEF IInv, Tick
  <1>2. NotEarly => SlotInv'
    <2> SUFFICES ASSUME NotEarly PROVE SlotInv'
      OBVIOUS
    <2>1. SlotInv /\ n \in Plugin
      BY DEF IInv
    <2>2. SignedSlots' = SignedSlots /\ SignedSlots \in SUBSET Nat
      BY <1>1 DEF SignedSlots, IInv, Signatures
    <2>3. \A s \in Nat : TimeOf(s) \in Nat
      BY TimeOfStep
    <2>4. n.pending.slot \in Nat
      BY <2>1 DEF Plugin
    <2>5. InTime(n, now + 1, SignedSlots)
      BY <1>1, <2>1, <2>3, <2>4 DEF SlotInv, InTime
    <2>6. \A b \in SignedSlots : TimeOf(b) <= now + 1
      BY <1>1, <2>1, <2>2, <2>3 DEF SlotInv
    <2>7. OneBlockPerSlot'
      BY <1>1, <2>1 DEF SlotInv, OneBlockPerSlot
    <2> QED BY <1>1, <2>2, <2>5, <2>6, <2>7 DEF SlotInv
  <1> QED BY <1>1, <1>2 DEF IInv, BelowWatermark, NoDoubleConfirm

\* A step that leaves the block, the mode and the chain alone preserves the invariant when
\* handlers that were to come still are and none is new: one that ships may only have moved
\* from an expired timer to the queue.
LEMMA QuietIInv ==
    ASSUME IInv, n' \in Plugin, now' = now, signed' = signed,
           n'.head = n.head, n'.watermarks = n.watermarks, n'.pending = n.pending, n'.mode = n.mode,
           n'.threw = n.threw,
           production_disabled_by_policy(n) => production_disabled_by_policy(n'),
           \A y : IsLive(n', y) <=> IsLive(n, y),
           NotEarly /\ InTime(n, now, SignedSlots) => InTime(n', now, SignedSlots)
    PROVE  IInv'
  <1>1. LoopInv(n')
    BY DEF IInv, LoopInv, Ships
  <1>2. NotEarly => SlotInv'
    BY DEF IInv, SlotInv, SignedSlots, OneBlockPerSlot
  <1> QED BY <1>1, <1>2 DEF IInv, BelowWatermark, NoDoubleConfirm

\* An expired timer only moves its handler to the queue.
LEMMA ExpireIInv == IInv /\ Expire => IInv'
  <1> SUFFICES ASSUME IInv, Expire PROVE IInv'
    OBVIOUS
  <1> DEFINE g == [runs |-> n.timer.runs, current |-> TRUE]
  <1>1. n \in Plugin /\ n.timer # NoTimer /\ n.timer.at <= now /\ now' = now /\ signed' = signed
    BY DEF IInv, Expire
  <1>2. g \in Handlers /\ g.current /\ g.runs = n.timer.runs
    BY <1>1 DEF Handlers, Plugin, Timers
  <1>3. n' = [n EXCEPT !.timer = NoTimer, !.queue = n.queue \cup {g}]
    BY <1>1 DEF Expire, Cancel, Plugin
  <1> HIDE DEF g
  <1>4. /\ n' \in Plugin /\ SameChain(n', n) /\ n'.pending = n.pending /\ n'.mode = n.mode /\ n'.threw = n.threw
        /\ n'.timer = NoTimer /\ n'.queue = n.queue \cup {g}
    BY <1>1, <1>2, <1>3 DEF Plugin, Timers, SameChain
  <1>5. \A y : IsLive(n', y) <=> IsLive(n, y)
    BY <1>1, <1>2, <1>4 DEF IsLive
  <1>6. NotEarly /\ InTime(n, now, SignedSlots) => InTime(n', now, SignedSlots)
    <2>1. now \in Nat /\ n.timer.at \in Int /\ TimeOf(n.pending.slot) \in Nat
      BY <1>1, TimeOfStep DEF IInv, Plugin, Timers
    <2> QED BY <1>1, <1>2, <1>4, <1>5, <2>1 DEF InTime
  <1> QED BY <1>1, <1>4, <1>5, <1>6, QuietIInv
        DEF SameChain, production_disabled_by_policy, irreversible_too_old

\* Handlers that are skipped were not to come.
LEMMA SkipIInv == ASSUME NEW h \in n.queue PROVE IInv /\ SkipHandler(h) => IInv'
  <1> SUFFICES ASSUME IInv, SkipHandler(h) PROVE IInv'
    OBVIOUS
  <1>1. n \in Plugin /\ ~h.current /\ n' = [n EXCEPT !.queue = n.queue \ {h}] /\ now' = now /\ signed' = signed
    BY DEF IInv, SkipHandler, Dequeued
  <1>2. /\ n' \in Plugin /\ SameChain(n', n) /\ n'.pending = n.pending /\ n'.mode = n.mode /\ n'.threw = n.threw
        /\ n'.timer = n.timer /\ n'.queue = n.queue \ {h}
    BY <1>1 DEF Plugin, SameChain
  <1>3. \A y : IsLive(n', y) <=> IsLive(n, y)
    BY <1>1, <1>2 DEF IsLive
  <1>4. InTime(n, now, SignedSlots) => InTime(n', now, SignedSlots)
    BY <1>2, <1>3 DEF InTime
  <1> QED BY <1>1, <1>2, <1>3, <1>4, QuietIInv
        DEF SameChain, production_disabled_by_policy, irreversible_too_old

\* Disabling production preserves the invariant.
LEMMA SwitchIInv == IInv /\ (pause \/ IrreversibleAges) => IInv'
  <1> SUFFICES ASSUME IInv, pause \/ IrreversibleAges PROVE IInv'
    OBVIOUS
  <1>1. /\ n \in Plugin /\ now' = now /\ signed' = signed
        /\ \/ n' = [n EXCEPT !.paused = TRUE]
           \/ n' = [n EXCEPT !.old = TRUE] /\ AgeLimited
    BY DEF IInv, pause, IrreversibleAges
  <1>2. /\ n' \in Plugin /\ n'.head = n.head /\ n'.watermarks = n.watermarks
        /\ n'.pending = n.pending /\ n'.mode = n.mode /\ n'.threw = n.threw
        /\ n'.timer = n.timer /\ n'.queue = n.queue
    BY <1>1, ZenonT(40) DEF Plugin
  <1>3. production_disabled_by_policy(n')
    BY <1>1 DEF production_disabled_by_policy, irreversible_too_old, Plugin
  <1>4. \A y : IsLive(n', y) <=> IsLive(n, y)
    BY <1>2 DEF IsLive
  <1>5. InTime(n, now, SignedSlots) => InTime(n', now, SignedSlots)
    BY <1>2, <1>4 DEF InTime
  <1> QED BY <1>1, <1>2, <1>3, <1>4, <1>5, QuietIInv

\* A handler that runs the loop takes itself off the queue first.
LEMMA RunLoopIInv == ASSUME NEW h \in n.queue PROVE IInv /\ RunLoopHandler(h) => IInv'
  <1> SUFFICES ASSUME IInv, RunLoopHandler(h) PROVE IInv'
    OBVIOUS
  <1> DEFINE m == Dequeued(h)
  <1>1. n \in Plugin /\ now' = now /\ signed' = signed /\ n' \in schedule_production_loop(m)
    BY DEF IInv, RunLoopHandler, LoopFrom
  <1>2. m \in Plugin /\ m.watermarks = n.watermarks /\ m.timer = n.timer /\ m.queue \subseteq n.queue
    BY <1>1 DEF Dequeued, Plugin
  <1> HIDE DEF m
  <1>3. IsLive(m, "produce") => IsLive(n, "produce")
    BY <1>2 DEF IsLive
  <1> QED BY <1>1, <1>2, <1>3, LoopKeepsIInv

\* The head of the chain is always a block with a number and a slot.
LEMMA HeadsType == Heads \in SUBSET [num : Nat, slot : Nat]
  <1>1. \A x \in [num : 1 .. MaxNum, slot : 1 .. MaxSlot + 1] : x \in [num : Nat, slot : Nat]
    BY SMT
  <1> QED BY <1>1 DEF Heads

\* Blocks that arrive, accepted or not, and snapshots abort the pending block and run the loop.
LEMMA AbortIInv ==
    IInv /\ (OnIncomingBlock \/ OnRejectedBlock \/ create_snapshot) => IInv'
  <1> SUFFICES ASSUME IInv, OnIncomingBlock \/ OnRejectedBlock \/ create_snapshot PROVE IInv'
    OBVIOUS
  <1>1. n \in Plugin /\ now' = now /\ signed' = signed
    BY DEF IInv, OnIncomingBlock, OnRejectedBlock, create_snapshot, LoopFrom
  <1>2. PICK head \in [num : Nat, slot : Nat], old \in BOOLEAN, enabled \in BOOLEAN :
           n' \in schedule_production_loop(
                    [n EXCEPT !.pending = NoBlock, !.head = head, !.old = old, !.enabled = enabled])
    <2>1. CASE OnIncomingBlock
      <3>1. PICK head \in Heads \cup {n.head}, old \in {n.old, FALSE} :
              n' \in schedule_production_loop(
                 [abort_block(n) EXCEPT !.head = head, !.old = old,
                                        !.enabled = @ \/ TimeOf(head.slot + 1) >= now])
        BY <2>1 DEF OnIncomingBlock, LoopFrom
      <3> DEFINE e == n.enabled \/ TimeOf(head.slot + 1) >= now
      <3>2. [abort_block(n) EXCEPT !.head = head, !.old = old,
                                   !.enabled = @ \/ TimeOf(head.slot + 1) >= now]
            = [n EXCEPT !.pending = NoBlock, !.head = head, !.old = old, !.enabled = e]
        BY <1>1 DEF abort_block, Plugin
      <3>3. head \in [num : Nat, slot : Nat] /\ old \in BOOLEAN /\ e \in BOOLEAN
        BY <1>1, HeadsType DEF Plugin
      <3> HIDE DEF e
      <3> QED BY <3>1, <3>2, <3>3
    <2>2. CASE OnRejectedBlock \/ create_snapshot
      <3>1. n' \in schedule_production_loop(abort_block(n))
        BY <2>2 DEF OnRejectedBlock, create_snapshot, LoopFrom
      <3>2. abort_block(n) =
               [n EXCEPT !.pending = NoBlock, !.head = n.head, !.old = n.old, !.enabled = n.enabled]
        BY <1>1 DEF abort_block, Plugin
      <3>3. n.head \in [num : Nat, slot : Nat] /\ n.old \in BOOLEAN /\ n.enabled \in BOOLEAN
        BY <1>1 DEF Plugin
      <3> QED BY <3>1, <3>2, <3>3
    <2> QED BY <2>1, <2>2
  <1> DEFINE m == [n EXCEPT !.pending = NoBlock, !.head = head, !.old = old, !.enabled = enabled]
  <1>3. m \in Plugin /\ m.watermarks = n.watermarks /\ m.timer = n.timer /\ m.queue = n.queue
    BY <1>1, <1>2 DEF Plugin, NoBlock
  <1>4. n' \in schedule_production_loop(m)
    BY <1>2
  <1> HIDE DEF m
  <1>5. IsLive(m, "produce") => IsLive(n, "produce")
    BY <1>3 DEF IsLive
  <1> QED BY <1>1, <1>3, <1>4, <1>5, LoopKeepsIInv

\* Requests of an operator: while the node speculates they run the loop; while it produces
\* the handler to come, which the invariant promises in that mode, takes notice.
LEMMA ReevaluateIInv == IInv /\ (resume \/ update_runtime_options) => IInv'
  <1> SUFFICES ASSUME IInv, resume \/ update_runtime_options PROVE IInv'
    OBVIOUS
  <1>1. n \in Plugin
    BY DEF IInv
  <1>2. PICK paused, old \in BOOLEAN : Reevaluate([n EXCEPT !.paused = paused, !.old = old])
    <2>1. CASE resume
      <3>1. /\ [n EXCEPT !.paused = FALSE] = [n EXCEPT !.paused = FALSE, !.old = n.old]
            /\ n.old \in BOOLEAN
        BY <1>1 DEF Plugin
      <3> QED BY <2>1, <3>1 DEF resume
    <2>2. CASE update_runtime_options
      <3>1. /\ \A old : [n EXCEPT !.old = old] = [n EXCEPT !.paused = n.paused, !.old = old]
            /\ n.paused \in BOOLEAN
        BY <1>1 DEF Plugin
      <3> QED BY <2>2, <3>1 DEF update_runtime_options
    <2> QED BY <2>1, <2>2
  <1> DEFINE m == [n EXCEPT !.paused = paused, !.old = old]
  <1>3. /\ m \in Plugin /\ m.watermarks = n.watermarks /\ m.timer = n.timer /\ m.queue = n.queue
        /\ m.head = n.head /\ m.pending = n.pending /\ m.mode = n.mode /\ m.threw = n.threw
    BY <1>1, <1>2 DEF Plugin
  <1>4. /\ signed' = signed /\ now' = now
        /\ \/ n.mode = "speculating" /\ n' \in schedule_production_loop(abort_block(m))
           \/ n.mode = "producing" /\ n' = m
    BY <1>2, <1>3 DEF Reevaluate, LoopFrom, Plugin
  <1> HIDE DEF m
  <1>5. CASE n.mode = "speculating" /\ n' \in schedule_production_loop(abort_block(m))
    <2> DEFINE a == abort_block(m)
    <2>1. a \in Plugin /\ a.watermarks = n.watermarks /\ a.timer = n.timer /\ a.queue = n.queue
      BY <1>3 DEF abort_block, Plugin, NoBlock
    <2> HIDE DEF a
    <2>2. IsLive(a, "produce") => IsLive(n, "produce")
      BY <2>1 DEF IsLive
    <2> QED BY <1>4, <1>5, <2>1, <2>2, LoopKeepsIInv DEF a
  <1>6. CASE n.mode = "producing" /\ n' = m
    <2>1. \A y : IsLive(m, y) <=> IsLive(n, y)
      BY <1>3 DEF IsLive
    <2>2. LoopInv(m)
      BY <1>3, <1>6, <2>1 DEF IInv, LoopInv, Ships
    <2>3. InTime(n, now, SignedSlots) => InTime(m, now, SignedSlots)
      BY <1>3, <2>1 DEF InTime
    <2>4. NotEarly => SlotInv'
      BY <1>4, <1>6, <2>3 DEF IInv, SlotInv, SignedSlots, OneBlockPerSlot
    <2> QED BY <1>3, <1>4, <1>6, <2>2, <2>4 DEF IInv, BelowWatermark, NoDoubleConfirm
  <1> QED BY <1>4, <1>5, <1>6

\* maybe_produce_block: the block that is signed confirms only numbers above the watermark
\* and is for a slot no block was signed for, and the watermark rises to it.
LEMMA RunProduceIInv == ASSUME NEW h \in n.queue PROVE IInv /\ RunProduceHandler(h) => IInv'
  <1> SUFFICES ASSUME IInv, RunProduceHandler(h) PROVE IInv'
    OBVIOUS
  <1>1. n \in Plugin /\ now \in Nat /\ now' = now /\ h.current /\ h.runs = "produce"
    BY DEF IInv, RunProduceHandler, LoopFrom
  <1>2. IsLive(n, "produce") /\ HasTurn
    BY <1>1 DEF IsLive, IInv, LoopInv
  <1> DEFINE d == Dequeued(h)
  <1>3. /\ d \in Plugin /\ d.watermarks = n.watermarks /\ d.pending = n.pending
        /\ d.timer = n.timer /\ d.queue \subseteq n.queue
    BY <1>1 DEF Dequeued, Plugin
  <1> HIDE DEF d
  <1>4. CASE n' \in schedule_production_loop(abort_block(d)) /\ signed' = signed
    <2> DEFINE a == abort_block(d)
    <2>1. a \in Plugin /\ a.watermarks = n.watermarks
      BY <1>3 DEF abort_block, Plugin, NoBlock
    <2> HIDE DEF a
    <2> QED BY <1>1, <1>2, <1>4, <2>1, LoopKeepsIInv DEF a
  <1> DEFINE by == Turn(n.pending.slot)
             new == [by |-> by, num |-> n.pending.num, slot |-> n.pending.slot,
                     from |-> n.pending.num - n.pending.confirmed]
  <1>5. CASE /\ CanProduce(n)
             /\ \E old \in {n.old, FALSE} : n' \in schedule_production_loop(produce_block(d, old))
             /\ signed' = signed \cup {new}
    <2>1. Ships(n) /\ n.mode = "producing" /\ n.pending # NoBlock
      BY <1>2, <1>5 DEF CanProduce, IInv, LoopInv
    <2>2. PICK old \in {n.old, FALSE} : n' \in schedule_production_loop(produce_block(d, old))
      BY <1>5
    <2> DEFINE m == produce_block(d, old)
               w == n.watermarks
    <2>3. /\ n.pending \in [num : Nat, slot : Nat, confirmed : Nat]
          /\ by \in Locals /\ w \in [Locals -> Nat]
          /\ w[by] < n.pending.num - n.pending.confirmed
      BY <1>1, <2>1 DEF Ships, Plugin
    <2>4. m \in Plugin /\ m.watermarks = [w EXCEPT ![by] = n.pending.num]
      <3>1. m = [d EXCEPT !.pending = NoBlock,
                          !.head = [num |-> n.pending.num, slot |-> n.pending.slot],
                          !.watermarks = [w EXCEPT ![by] = n.pending.num],
                          !.old = old]
        BY <1>3 DEF produce_block, abort_block, Plugin
      <3>2. old \in BOOLEAN
        BY <1>1 DEF Plugin
      <3> HIDE DEF m, w, by
      <3>3. [w EXCEPT ![by] = n.pending.num] \in [Locals -> Nat]
        BY <2>3
      <3> QED BY <1>3, <2>3, <3>1, <3>2, <3>3 DEF Plugin, NoBlock
    <2> HIDE DEF m
    <2>5. n' \in Plugin /\ SameChain(n', m) /\ LoopInv(n')
      BY <1>1, <1>2, <2>2, <2>4, LoopEstablishes DEF m
    <2>6. n'.watermarks = [w EXCEPT ![by] = n.pending.num]
      BY <2>4, <2>5 DEF SameChain
    <2>7. /\ new \in Signatures /\ new.by = by /\ new.num = n.pending.num
          /\ new.slot = n.pending.slot /\ w[by] < new.from /\ new.from <= new.num
      BY <2>3 DEF Signatures
    <2>8. \A b \in signed : /\ b \in Signatures /\ b.num \in Nat /\ b.from \in Int /\ b.slot \in Nat
                            /\ b.by \in Locals /\ b.num <= w[b.by]
      BY DEF IInv, BelowWatermark, Signatures
    <2> HIDE DEF new, by, w
    <2>9. new.num \in Nat /\ new.from \in Int /\ w[by] \in Nat
      BY <2>3, <2>7 DEF Signatures
    <2>10. BelowWatermark'
      <3> SUFFICES ASSUME NEW b \in signed' PROVE b.num <= n'.watermarks[b.by]
        BY DEF BelowWatermark
      <3>1. CASE b = new
        BY <2>3, <2>6, <2>7, <2>9, <3>1
      <3>2. CASE b \in signed /\ b.by = by
        BY <2>3, <2>6, <2>7, <2>8, <2>9, <3>2
      <3>3. CASE b \in signed /\ b.by # by
        BY <2>3, <2>6, <2>8, <3>3
      <3> QED BY <1>5, <3>1, <3>2, <3>3
    <2>11. NoDoubleConfirm'
      <3>1. \A b \in signed : b.by = new.by => b.num < new.from
        BY <2>7, <2>8, <2>9
      <3> QED BY <1>5, <3>1 DEF IInv, NoDoubleConfirm
    <2>12. NotEarly => SlotInv'
      <3> SUFFICES ASSUME NotEarly PROVE SlotInv'
        OBVIOUS
      <3>1. SlotInv /\ TimeOf(new.slot) <= now /\ \A b \in signed : b.slot < new.slot
        BY <1>1, <1>2, <2>1, <2>7 DEF IInv, SlotInv, InTime, SignedSlots
      <3>2. SignedSlots' = SignedSlots \cup {new.slot}
        BY <1>5 DEF SignedSlots
      <3>3. SignedSlots' \in SUBSET Nat /\ \A b \in SignedSlots' : TimeOf(b) <= now
        BY <2>7, <2>8, <3>1, <3>2 DEF SlotInv, SignedSlots, Signatures
      <3>4. InTime(n', now, SignedSlots')
        BY <1>1, <2>2, <2>4, <3>3, LoopInTime DEF m
      <3>5. OneBlockPerSlot'
        BY <1>5, <2>8, <3>1 DEF OneBlockPerSlot, SlotInv
      <3> QED BY <1>1, <3>3, <3>4, <3>5 DEF SlotInv
    <2>13. signed' \in SUBSET Signatures
      BY <1>5, <2>7, <2>8
    <2> QED BY <1>1, <2>5, <2>10, <2>11, <2>12, <2>13 DEF IInv
  <1> QED BY <1>4, <1>5 DEF RunProduceHandler, LoopFrom, d

\* Every step of the plugin, of its clock and of its surroundings preserves the invariant.
LEMMA NextIInv == IInv /\ [Next]_vars => IInv'
  <1> SUFFICES ASSUME IInv, [Next]_vars PROVE IInv'
    OBVIOUS
  <1>1. CASE UNCHANGED vars
    BY <1>1 DEF vars, IInv, BelowWatermark, NoDoubleConfirm, SlotInv, SignedSlots, OneBlockPerSlot
  <1>2. ASSUME NEW h \in n.queue, SkipHandler(h) \/ RunLoopHandler(h) \/ RunProduceHandler(h)
        PROVE  IInv'
    BY <1>2, SkipIInv, RunLoopIInv, RunProduceIInv
  <1> QED BY <1>1, <1>2, TickIInv, ExpireIInv, SwitchIInv, AbortIInv, ReevaluateIInv DEF Next

\* The invariant of the loop holds in every reachable state.
LEMMA Invariance == Spec => []IInv
  BY InitIInv, NextIInv, PTL DEF Spec

\* Live, as a set, has the kinds of handlers that IsLive holds of.
LEMMA LiveKinds == \A x : x \in Live(n) <=> IsLive(n, x)
  BY DEF Live, IsLive

-----------------------------------------------------------------------------
\* The properties

\* A node that may produce for a producer of the active schedule always has a handler to
\* come whose correlation id is current: schedule_production_loop never forgets to arm the
\* timer when the former handler is outdated, in whatever order timers, blocks and requests
\* of an operator are handled, and whatever fails in it: only after an exception that left
\* the loop may nothing be to come.
THEOREM StaysArmed == Spec => []LoopStaysArmed
  <1>1. IInv => LoopStaysArmed
    BY LiveKinds DEF IInv, LoopInv, LoopStaysArmed
  <1> QED BY <1>1, Invariance, PTL

\* While production is not disabled, the handler that calls produce_block finds the mode and
\* the block it was set for: the assertions of produce_block do not fail, unless an exception
\* left the loop after the handler was queued.
THEOREM ShipsStarted == Spec => []ShipsWhatWasStarted
  <1>1. IInv => ShipsWhatWasStarted
    BY LiveKinds DEF IInv, LoopInv, Ships, ShipsWhatWasStarted, CanProduce
  <1> QED BY <1>1, Invariance, PTL

\* The watermarks of start_block and produce_block keep a producer from confirming a block
\* number twice, on whatever branches its blocks are.
THEOREM ConfirmsOnce == Spec => []NoDoubleConfirm
  <1>1. IInv => NoDoubleConfirm
    BY DEF IInv
  <1> QED BY <1>1, Invariance, PTL

\* A node that ships its blocks no earlier than the time of their slot (a
\* produce-time-offset that is not negative) never signs two blocks for one slot, even when
\* the head is switched to a branch that ends before the slot, if no exception leaves the loop
\* while it applies transactions to a block it has started.
THEOREM SignsOncePerSlot == ASSUME NotEarly PROVE Spec => []OneBlockPerSlot
  <1>1. IInv => OneBlockPerSlot
    BY DEF IInv, SlotInv
  <1> QED BY <1>1, Invariance, PTL

-----------------------------------------------------------------------------
\* No slot is missed

\* The slot k is at most the one that calculate_pending_block_slot computes with this head
\* at time t: the first after the head that is not almost over.
Near(k, h, t) == \A j \in Nat : h.slot < j /\ t + Shortest <= TimeOf(j) => k <= j

\* The handler to come, if it is not queued already, comes soon enough: to ship a block in
\* its slot, to try again while the slot can still be used, or when a slot is over in which
\* the node has no right to produce.
Wakes(m, t) ==
    /\ m.pending # NoBlock => Near(m.pending.slot, m.head, t)
    /\ m.timer # NoTimer => \A h \in m.queue : ~h.current
    /\ \A g, h \in m.queue : g.current /\ h.current => g = h
    /\ m.timer # NoTimer /\ m.timer.runs = "produce" =>
          m.mode = "producing" /\ m.timer.at <= TimeOf(m.pending.slot)
    /\ m.timer # NoTimer /\ m.timer.runs = "loop" /\ m.mode = "producing" /\ m.pending # NoBlock =>
          \E k \in Nat : Near(k, m.head, t) /\ m.timer.at + Shortest <= TimeOf(k)
    /\ m.timer # NoTimer /\ m.timer.runs = "loop" /\ m.mode = "speculating" =>
          \E k \in Nat : Near(k, m.head, t) /\ m.timer.at <= TimeOf(k) /\ ~MayProduce(m, k)

\* The block for slot s is about to be shipped, or there is time to try to start it again.
Course(m, t, s) ==
    \/ /\ m.mode = "producing" /\ m.pending # NoBlock /\ m.pending.slot = s
       /\ IsLive(m, "produce")
       /\ m.timer # NoTimer => m.timer.at <= TimeOf(s)
    \/ /\ IsLive(m, "loop")
       /\ t + Shortest <= TimeOf(s)
       /\ m.timer # NoTimer => m.timer.at + Shortest <= TimeOf(s)

\* The node owes a block for slot s.
Open(blocks, s) == Turn(s) \in Locals /\ \A b \in blocks : b.slot # s

CourseInv ==
    /\ excused \in BOOLEAN
    /\ Wakes(n, now)
    /\ ~excused /\ Open(signed, SlotAt(now)) => Course(n, now, SlotAt(now))
    /\ OwnSlotsProduced

\* Blocks are not shipped after the time of their slot, and whoever still waits for the block of
\* the previous slot has the time to try again and to start the block then.
InGoodTime == Offset <= 0 /\ 2 * Shortest <= StartWindow + 1

\* Times are ordered as their slots.
LEMMA SlotOrder ==
    ASSUME NEW s \in Nat, NEW t \in Nat
    PROVE  /\ TimeOf(s) \in Nat /\ TimeOf(t) \in Nat
           /\ s <= t => TimeOf(s) <= TimeOf(t)
           /\ TimeOf(s) < TimeOf(t) + Interval => s <= t
           /\ s < t => TimeOf(s) + Interval <= TimeOf(t)
  <1>1. TimeOf(s) \in Nat /\ TimeOf(t) \in Nat /\ TimeOf(t + 1) = TimeOf(t) + Interval /\ TimeOf(s + 1) = TimeOf(s) + Interval
    BY TimeOfStep
  <1>2. Interval \in Nat /\ Interval > 0
    BY TimesAssumption
  <1>3. TimeOf(s) < TimeOf(t + 1) => s < t + 1
    BY <1>1, TimeOfMonotone
  <1>4. TimeOf(t) < TimeOf(s) => t < s
    BY <1>1, TimeOfMonotone
  <1>5. TimeOf(t) < TimeOf(s + 1) => t < s + 1
    BY <1>1, TimeOfMonotone
  <1> QED BY <1>1, <1>2, <1>3, <1>4, <1>5

\* The slot at a time is the first that is not over.
LEMMA SlotAtBounds ==
    ASSUME NEW t \in Nat
    PROVE  /\ SlotAt(t) \in Nat
           /\ t <= TimeOf(SlotAt(t)) /\ TimeOf(SlotAt(t)) < t + Interval
  <1> DEFINE x == t + Interval - 1
             q == x \div Interval
  <1>1. Interval \in Nat /\ Interval > 0 /\ x \in Nat
    BY TimesAssumption
  <1>2. q \in Nat /\ q * Interval <= x /\ x < q * Interval + Interval
    <2> HIDE DEF x
    <2> QED BY <1>1, DivBounds
  <1>3. TimeOf(q) = q * Interval /\ SlotAt(t) = q /\ TimeOf(q) \in Nat
    BY <1>2, TimeOfStep DEF TimeOf, SlotAt
  <1>4. x = t + Interval - 1
    OBVIOUS
  <1> DEFINE y == q * Interval
  <1>5. y <= x /\ x < y + Interval /\ TimeOf(q) = y /\ y \in Nat
    BY <1>2, <1>3
  <1> HIDE DEF x, q, y
  <1>6. t <= y /\ y < t + Interval
    BY <1>1, <1>4, <1>5
  <1> QED BY <1>2, <1>3, <1>5, <1>6

\* There is only one such slot.
LEMMA SlotAtUnique ==
    ASSUME NEW t \in Nat, NEW s \in Nat, t <= TimeOf(s), TimeOf(s) < t + Interval
    PROVE  SlotAt(t) = s
  <1> DEFINE q == SlotAt(t)
  <1>1. q \in Nat /\ t <= TimeOf(q) /\ TimeOf(q) < t + Interval
    BY SlotAtBounds
  <1>2. Interval \in Nat
    BY TimesAssumption
  <1> HIDE DEF q
  <1>3. TimeOf(q) \in Nat /\ TimeOf(s) \in Nat
    BY <1>1, SlotOrder
  <1>4. TimeOf(q) < TimeOf(s) + Interval /\ TimeOf(s) < TimeOf(q) + Interval
    BY <1>1, <1>2, <1>3
  <1>5. q <= s /\ s <= q
    BY <1>1, <1>4, SlotOrder
  <1> QED BY <1>1, <1>5 DEF q

\* What calculate_pending_block_slot computes, before it steps over a slot that is almost over
LEMMA FirstSlot ==
    ASSUME NEW h \in [num : Nat, slot : Nat], now \in Nat
    PROVE  \E slot \in Nat, base \in Nat :
             /\ base = IF now > TimeOf(h.slot) THEN now ELSE TimeOf(h.slot)
             /\ base < TimeOf(slot) /\ TimeOf(slot) <= base + Interval
             /\ calculate_pending_block_slot(h) =
                    IF TimeOf(slot) - now < Shortest THEN slot + 1 ELSE slot
  <1> DEFINE base == Larger(now, TimeOf(h.slot))
             q == base \div Interval
             slot == q + 1
  <1>1. base \in Nat /\ base = IF now > TimeOf(h.slot) THEN now ELSE TimeOf(h.slot)
    BY TimeOfStep DEF Larger
  <1>2. calculate_pending_block_slot(h) = IF TimeOf(slot) - now < Shortest THEN slot + 1 ELSE slot
    BY DEF calculate_pending_block_slot
  <1> HIDE DEF base
  <1>3. q \in Nat /\ q * Interval <= base /\ base < q * Interval + Interval
    BY <1>1, DivBounds
  <1>4. TimeOf(q) = q * Interval /\ TimeOf(slot) = TimeOf(q) + Interval /\ TimeOf(q) \in Nat /\ Interval \in Nat
    BY <1>3, TimeOfStep, TimesAssumption DEF TimeOf
  <1>5. TimeOf(q) <= base /\ base < TimeOf(q) + Interval
    BY <1>3, <1>4
  <1>6. slot \in Nat
    BY <1>3
  <1> HIDE DEF q, slot
  <1>7. base < TimeOf(slot) /\ TimeOf(slot) <= base + Interval
    BY <1>1, <1>4, <1>5
  <1> QED BY <1>1, <1>2, <1>6, <1>7

\* It is the first slot after the head that is not almost over.
LEMMA PendingNear ==
    ASSUME NEW h \in [num : Nat, slot : Nat], now \in Nat
    PROVE  /\ now + Shortest <= TimeOf(calculate_pending_block_slot(h))
           /\ Near(calculate_pending_block_slot(h), h, now)
  <1>1. PICK slot \in Nat, base \in Nat :
             /\ base = IF now > TimeOf(h.slot) THEN now ELSE TimeOf(h.slot)
             /\ base < TimeOf(slot) /\ TimeOf(slot) <= base + Interval
             /\ calculate_pending_block_slot(h) =
                    IF TimeOf(slot) - now < Shortest THEN slot + 1 ELSE slot
    BY FirstSlot
  <1>2. Interval \in Nat /\ Shortest \in Nat /\ Shortest < Interval /\ 0 < Shortest
    BY TimesAssumption
  <1>3. TimeOf(slot) \in Nat /\ TimeOf(h.slot) \in Nat /\ TimeOf(slot + 1) = TimeOf(slot) + Interval
    BY TimeOfStep
  <1>4. now + Shortest <= TimeOf(calculate_pending_block_slot(h))
    BY <1>1, <1>2, <1>3
  <1>5. ASSUME NEW j \in Nat, h.slot < j, now + Shortest <= TimeOf(j)
        PROVE  calculate_pending_block_slot(h) <= j
    <2>1. TimeOf(h.slot) + Interval <= TimeOf(j) /\ TimeOf(j) \in Nat
      BY <1>5, SlotOrder
    <2>2. TimeOf(slot) < TimeOf(j) + Interval
      BY <1>1, <1>2, <1>3, <1>5, <2>1
    <2>3. slot <= j
      BY <2>2, SlotOrder
    <2>4. CASE slot = j
      BY <1>1, <1>2, <1>3, <1>5, <2>4
    <2>5. CASE slot < j
      BY <1>1, <2>5
    <2> QED BY <2>3, <2>4, <2>5
  <1> QED BY <1>4, <1>5 DEF Near

\* While there is time for it, the pending block is for the present slot.
LEMMA PresentSlot ==
    ASSUME NEW h \in [num : Nat, slot : Nat], now \in Nat, NEW s \in Nat, h.slot < s,
           now + Shortest <= TimeOf(s), TimeOf(s) < now + Interval
    PROVE  calculate_pending_block_slot(h) = s
  <1> DEFINE slot == calculate_pending_block_slot(h)
  <1>1. slot \in Nat /\ now + Shortest <= TimeOf(slot) /\ Near(slot, h, now)
    BY PendingSlot, PendingNear
  <1> HIDE DEF slot
  <1>2. Interval \in Nat /\ Shortest \in Nat /\ TimeOf(s) \in Nat /\ TimeOf(slot) \in Nat
    BY <1>1, TimesAssumption, SlotOrder
  <1>3. slot <= s
    BY <1>1 DEF Near
  <1>4. TimeOf(s) < TimeOf(slot) + Interval
    BY <1>1, <1>2
  <1>5. s <= slot
    BY <1>1, <1>4, SlotOrder
  <1> QED BY <1>1, <1>3, <1>5 DEF slot

-----------------------------------------------------------------------------
\* What a run of the loop waits for

\* The loop ends without a handler of its own, or waits for one of three things: the end of
\* a slot it has no right to, the time to try again, the time to ship.  An exception leaves it
\* without a timer.
LEMMA LoopTimes ==
    ASSUME NEW m \in Plugin, now \in Nat, NEW r \in schedule_production_loop(m),
           NEW slot \in Nat, slot = calculate_pending_block_slot(m.head)
    PROVE  \/ /\ r.mode = "speculating" /\ ~MayProduce(m, slot) /\ r.pending = Speculated(m, slot)
              /\ \/ r.timer = NoTimer /\ r.queue = m.queue
                 \/ /\ \E k \in {slot, r.pending.slot} : r.timer = [at |-> TimeOf(k), runs |-> "loop"]
                    /\ \A h \in r.queue : ~h.current
           \/ /\ r.mode = "producing" /\ MayProduce(m, slot)
              /\ r.timer = [at |-> now + Shortest, runs |-> "loop"]
              /\ \A h \in r.queue : ~h.current
              /\ \/ r.pending = NoBlock
                 \/ AwaitsPrevious(m, slot) /\ r.pending = Speculated(m, slot)
           \/ /\ r.mode = "producing" /\ MayProduce(m, slot)
              /\ r.timer = [at |-> ShippingTime(slot), runs |-> "produce"]
              /\ \A h \in r.queue : ~h.current
              /\ r.pending = Pending(m, slot, blocks_to_confirm(m, slot))
           \/ /\ r.threw /\ r.timer = NoTimer /\ r.queue = m.queue
              /\ \/ r.pending \in {NoBlock, Speculated(m, slot)}
                 \/ r.pending = Pending(m, slot, blocks_to_confirm(m, slot))
  <1> DEFINE c == [Cancel(m) EXCEPT !.threw = FALSE]
             Blocks == [num : Nat, slot : Nat, confirmed : Nat]
  <1>1. /\ c \in Plugin /\ c.timer = NoTimer /\ c.queue = m.queue
        /\ c.head = m.head /\ c.pending = m.pending
        /\ c.watermarks = m.watermarks /\ SameChain(c, m)
    BY DEF Cancel, Plugin, Timers, SameChain
  <1> HIDE DEF c
  <1>2. PICK o \in start_block(c) : r = Scheduled(o.state, o.result)
    BY DEF schedule_production_loop, c
  <1> DEFINE st == o.state
  <1>3. /\ slot = calculate_pending_block_slot(c.head)
        /\ MayProduce(c, slot) <=> MayProduce(m, slot)
        /\ AwaitsPrevious(c, slot) <=> AwaitsPrevious(m, slot)
    BY <1>1 DEF SameChain, MayProduce, production_disabled_by_policy, irreversible_too_old, AwaitsPrevious
  <1>4. /\ Pending(c, slot, blocks_to_confirm(c, slot)) = Pending(m, slot, blocks_to_confirm(m, slot))
        /\ Speculated(c, slot) = Speculated(m, slot)
    BY <1>1 DEF Pending, blocks_to_confirm, Speculated
  <1>5. StartOutcome(c, slot, o)
    BY <1>1, <1>2, <1>3, StartBlockCases
  <1>6. /\ Speculated(m, slot) \in Blocks /\ NoBlock \in Blocks
        /\ MayProduce(m, slot) => Pending(m, slot, blocks_to_confirm(m, slot)) \in Blocks
    BY ConfirmsAboveWatermark DEF Plugin, Pending, NoBlock, Speculated
  <1> HIDE DEF Blocks
  <1>7. PICK p \in Blocks, x \in {"speculating", "producing"} :
            /\ st = [c EXCEPT !.mode = x, !.pending = p]
            /\ \/ /\ ~MayProduce(m, slot) /\ o.result \in {"waiting", "exhausted"} /\ x = "speculating"
                  /\ p = Speculated(m, slot)
               \/ /\ MayProduce(m, slot) /\ o.result = "failed" /\ x = "producing"
                  /\ p = NoBlock \/ (AwaitsPrevious(m, slot) /\ p = Speculated(m, slot))
               \/ /\ MayProduce(m, slot) /\ o.result = "succeeded" /\ x = "producing"
                  /\ p = Pending(m, slot, blocks_to_confirm(m, slot))
               \/ /\ o.result = "threw"
                  /\ \/ p \in {NoBlock, Speculated(m, slot)}
                     \/ MayProduce(m, slot) /\ p = Pending(m, slot, blocks_to_confirm(m, slot))
    <2> DEFINE Ends(p, x) == st = [c EXCEPT !.mode = x, !.pending = p]
    <2>1. \/ /\ ~MayProduce(m, slot) /\ o.result \in {"waiting", "exhausted"}
             /\ Ends(Speculated(m, slot), "speculating")
          \/ /\ MayProduce(m, slot) /\ o.result = "failed"
             /\ \/ Ends(NoBlock, "producing")
                \/ AwaitsPrevious(m, slot) /\ Ends(Speculated(m, slot), "producing")
          \/ /\ MayProduce(m, slot) /\ o.result = "succeeded"
             /\ Ends(Pending(m, slot, blocks_to_confirm(m, slot)), "producing")
          \/ /\ o.result = "threw"
             /\ \/ Ends(NoBlock, "speculating")
                \/ Ends(Speculated(m, slot), "speculating")
                \/ Ends(NoBlock, "producing")
                \/ /\ MayProduce(m, slot)
                   /\ Ends(Pending(m, slot, blocks_to_confirm(m, slot)), "producing")
      BY <1>3, <1>4, <1>5 DEF StartOutcome
    <2>2. \A p, x : Ends(p, x) <=> st = [c EXCEPT !.mode = x, !.pending = p]
      OBVIOUS
    <2> HIDE DEF Ends, st
    <2>3. \E p \in Blocks, x \in {"speculating", "producing"} :
            /\ Ends(p, x)
            /\ \/ /\ ~MayProduce(m, slot) /\ o.result \in {"waiting", "exhausted"} /\ x = "speculating"
                  /\ p = Speculated(m, slot)
               \/ /\ MayProduce(m, slot) /\ o.result = "failed" /\ x = "producing"
                  /\ p = NoBlock \/ (AwaitsPrevious(m, slot) /\ p = Speculated(m, slot))
               \/ /\ MayProduce(m, slot) /\ o.result = "succeeded" /\ x = "producing"
                  /\ p = Pending(m, slot, blocks_to_confirm(m, slot))
               \/ /\ o.result = "threw"
                  /\ \/ p \in {NoBlock, Speculated(m, slot)}
                     \/ MayProduce(m, slot) /\ p = Pending(m, slot, blocks_to_confirm(m, slot))
      BY <1>6, <2>1
    <2> QED BY <2>2, <2>3
  <1> HIDE DEF st
  <1>8. /\ st \in Plugin /\ st.mode = x /\ st.pending = p
        /\ st.head = m.head /\ st.timer = NoTimer /\ st.queue = m.queue
    BY <1>1, <1>7 DEF Plugin, Blocks
  <1>9. now + Shortest \in Int /\ ShippingTime(slot) \in Int
    BY TimesAssumption, TimeOfStep DEF ShippingTime, calculate_block_deadline, Larger
  <1>10. \A s \in Nat : TimeOf(calculate_next_block_slot(s)) - Interval = TimeOf(s) /\ TimeOf(s) \in Int
    BY TimeOfStep, TimesAssumption DEF calculate_next_block_slot
  <1>11. CASE /\ ~MayProduce(m, slot) /\ o.result \in {"waiting", "exhausted"}
              /\ x = "speculating" /\ p = Speculated(m, slot)
    <2> DEFINE s == IF o.result = "waiting" THEN calculate_pending_block_slot(st.head) ELSE st.pending.slot
    <2>1. s \in {slot, p.slot} /\ s \in Nat
      BY <1>8 DEF Blocks
    <2>2. r = st \/ r = Arm(st, TimeOf(calculate_next_block_slot(s)) - Interval, "loop")
      <3>1. r = Scheduled(st, o.result)
        BY <1>2 DEF st
      <3>2. o.result \in {"waiting", "exhausted"} /\ st.mode = "speculating"
        BY <1>8, <1>11
      <3> HIDE DEF st
      <3> QED BY <3>1, <3>2, Waits
    <2> HIDE DEF s
    <2>3. r = st \/ r = Arm(st, TimeOf(s), "loop")
      BY <1>10, <2>1, <2>2
    <2>4. CASE r = st
      BY <1>8, <1>11, <2>4
    <2>5. CASE r = Arm(st, TimeOf(s), "loop")
      <3>1. /\ r.timer = [at |-> TimeOf(s), runs |-> "loop"] /\ \A h \in r.queue : ~h.current
            /\ r.pending = p /\ r.mode = x
        BY <1>8, <1>10, <2>1, <2>5, ArmResult, ZenonT(40)
      <3> QED BY <1>11, <2>1, <3>1
    <2> QED BY <2>3, <2>4, <2>5
  <1>12. CASE /\ MayProduce(m, slot) /\ o.result = "failed" /\ x = "producing"
              /\ p = NoBlock \/ (AwaitsPrevious(m, slot) /\ p = Speculated(m, slot))
    <2>1. r = Arm(st, now + Shortest, "loop")
      BY <1>2, <1>12 DEF Scheduled, st
    <2>2. /\ r.timer = [at |-> now + Shortest, runs |-> "loop"] /\ \A h \in r.queue : ~h.current
          /\ r.pending = p /\ r.mode = x
      BY <1>8, <1>9, <2>1, ArmResult, ZenonT(40)
    <2> QED BY <1>12, <2>2
  <1>13. CASE /\ MayProduce(m, slot) /\ o.result = "succeeded" /\ x = "producing"
              /\ p = Pending(m, slot, blocks_to_confirm(m, slot))
    <2>1. r = Arm(st, ShippingTime(slot), "produce")
      BY <1>2, <1>8, <1>13 DEF Scheduled, st, Pending
    <2>2. /\ r.timer = [at |-> ShippingTime(slot), runs |-> "produce"] /\ \A h \in r.queue : ~h.current
          /\ r.pending = p /\ r.mode = x
      BY <1>8, <1>9, <2>1, ArmResult, ZenonT(40)
    <2> QED BY <1>13, <2>2
  <1>14. CASE /\ o.result = "threw"
              /\ \/ p \in {NoBlock, Speculated(m, slot)}
                 \/ p = Pending(m, slot, blocks_to_confirm(m, slot))
    <2>1. r = [st EXCEPT !.threw = TRUE]
      BY <1>2, <1>14 DEF Scheduled, st
    <2>2. r.threw /\ r.pending = p /\ r.timer = NoTimer /\ r.queue = m.queue
      BY <1>8, <2>1 DEF Plugin
    <2> QED BY <1>14, <2>2
  <1> QED BY <1>7, <1>11, <1>12, <1>13, <1>14

\* A pending block is not NoBlock.
LEMMA PendingIsBlock ==
    ASSUME NEW m \in Plugin, NEW slot \in Nat, NEW k
    PROVE  Pending(m, slot, k) # NoBlock /\ Pending(m, slot, k).slot = slot
  BY DEF Pending, NoBlock, Plugin

\* A reason not to produce for slot s
Blocked(m, s) ==
    \/ m.threw
    \/ ~MayProduce(m, s)
    \/ m.head.slot >= s
    \/ (m.mode = "producing" /\ m.pending = NoBlock)

\* Whatever state a handler passes on, a run of the loop sets the timer early enough, and
\* as long as there is time for the present slot it takes its course.
LEMMA LoopOnCourse ==
    ASSUME InGoodTime, NEW m \in Plugin, now \in Nat, NEW r \in schedule_production_loop(m),
           m.pending # NoBlock => Near(m.pending.slot, m.head, now),
           \A g, h \in m.queue : g.current /\ h.current => g = h
    PROVE  /\ Wakes(r, now)
           /\ \A s \in Nat : /\ now + Shortest <= TimeOf(s) /\ TimeOf(s) < now + Interval
                             /\ ~Blocked(r, s)
                             => Course(r, now, s)
  <1> DEFINE slot == calculate_pending_block_slot(m.head)
  <1>1. /\ slot \in Nat /\ TimeOf(slot) > now /\ slot > m.head.slot
        /\ m.head \in [num : Nat, slot : Nat] /\ m.pending \in [num : Nat, slot : Nat, confirmed : Nat]
    BY PendingSlot DEF Plugin
  <1>2. Near(slot, m.head, now) /\ now + Shortest <= TimeOf(slot)
    BY <1>1, PendingNear
  <1>3. ASSUME NEW s \in Nat, now + Shortest <= TimeOf(s), TimeOf(s) < now + Interval, ~Blocked(r, s),
               r.head = m.head
        PROVE  slot = s
    BY <1>1, <1>3, PresentSlot DEF Blocked
  <1> HIDE DEF slot
  <1>4. r \in Plugin /\ r.head = m.head /\ \A s : MayProduce(r, s) <=> MayProduce(m, s)
    <2>1. r \in Plugin /\ SameChain(r, m)
      BY <1>1, LoopOutcomes, ZenonT(40) DEF slot
    <2> QED BY <2>1 DEF SameChain, MayProduce, production_disabled_by_policy, irreversible_too_old
  <1>5. /\ Interval \in Nat /\ Shortest \in Nat /\ 0 < Shortest /\ StartWindow \in Nat /\ Offset \in Int
        /\ Offset <= 0 /\ 2 * Shortest <= StartWindow + 1
    BY TimesAssumption DEF InGoodTime
  <1>6. \A k, at : [at |-> at, runs |-> k].at = at /\ [at |-> at, runs |-> k].runs = k
    OBVIOUS
  <1>7. \A at \in Int, x \in {"loop", "produce"} : [at |-> at, runs |-> x] # NoTimer
    BY DEF NoTimer
  <1>8. TimeOf(slot) \in Nat
    BY <1>1, TimeOfStep
  <1>9. /\ Speculated(m, slot) # NoBlock
        /\ Near(Speculated(m, slot).slot, m.head, now)
        /\ Speculated(m, slot).slot \in Nat
    BY <1>1, <1>2, PendingIsBlock DEF Speculated
  <1>10. CASE /\ r.mode = "speculating" /\ ~MayProduce(m, slot) /\ r.pending = Speculated(m, slot)
              /\ \/ r.timer = NoTimer /\ r.queue = m.queue
                 \/ /\ \E k \in {slot, r.pending.slot} : r.timer = [at |-> TimeOf(k), runs |-> "loop"]
                    /\ \A h \in r.queue : ~h.current
    <2>1. /\ r.pending # NoBlock => Near(r.pending.slot, r.head, now)
          /\ \A g, h \in r.queue : g.current /\ h.current => g = h
      BY <1>4, <1>9, <1>10
    <2>2. r.timer # NoTimer => \E k \in {slot, r.pending.slot} : r.timer = [at |-> TimeOf(k), runs |-> "loop"]
      BY <1>10
    <2>3. r.pending.slot <= slot /\ r.pending.slot \in Nat
      BY <1>1, <1>2, <1>9, <1>10 DEF Near
    <2>4. \A k \in {slot, r.pending.slot} : TimeOf(k) \in Nat /\ TimeOf(k) <= TimeOf(slot)
      BY <1>1, <2>3, SlotOrder
    <2>5. r.timer # NoTimer => r.timer.runs = "loop" /\ r.timer.at <= TimeOf(slot)
      BY <1>6, <2>2, <2>4
    <2>6. /\ Near(slot, r.head, now) /\ ~MayProduce(r, slot)
          /\ r.timer # NoTimer => \A h \in r.queue : ~h.current
      BY <1>2, <1>4, <1>10
    <2>7. Wakes(r, now)
      BY <1>1, <1>10, <2>1, <2>5, <2>6 DEF Wakes
    <2>8. ASSUME NEW s \in Nat, now + Shortest <= TimeOf(s), TimeOf(s) < now + Interval, ~Blocked(r, s)
          PROVE  FALSE
      BY <1>3, <1>4, <2>6, <2>8 DEF Blocked
    <2> QED BY <2>7, <2>8
  <1>11. CASE /\ r.mode = "producing" /\ MayProduce(m, slot)
              /\ r.timer = [at |-> now + Shortest, runs |-> "loop"]
              /\ \A h \in r.queue : ~h.current
              /\ \/ r.pending = NoBlock
                 \/ AwaitsPrevious(m, slot) /\ r.pending = Speculated(m, slot)
    <2>1. r.timer # NoTimer /\ r.timer.at = now + Shortest /\ r.timer.runs = "loop" /\ IsLive(r, "loop")
      <3>1. now + Shortest \in Int
        BY <1>5
      <3>2. r.timer.at = now + Shortest /\ r.timer.runs = "loop"
        BY <1>6, <1>11
      <3>3. r.timer # NoTimer
        BY <1>7, <1>11, <3>1
      <3> QED BY <3>2, <3>3 DEF IsLive
    <2>2. r.pending # NoBlock => Near(r.pending.slot, r.head, now)
      BY <1>4, <1>9, <1>11
    <2>3. r.pending # NoBlock => now + Shortest + Shortest <= TimeOf(slot)
      <3>1. r.pending # NoBlock => now < TimeOf(slot) - StartWindow
        BY <1>11 DEF AwaitsPrevious, calculate_block_starttime
      <3> QED BY <1>5, <1>8, <3>1
    <2>4. Near(slot, r.head, now)
      BY <1>2, <1>4
    <2>5. Wakes(r, now)
      BY <1>1, <1>11, <2>1, <2>2, <2>3, <2>4 DEF Wakes
    <2>6. ASSUME NEW s \in Nat, now + Shortest <= TimeOf(s), TimeOf(s) < now + Interval, ~Blocked(r, s)
          PROVE  Course(r, now, s)
      <3>1. r.pending # NoBlock /\ slot = s
        BY <1>3, <1>4, <1>11, <2>6 DEF Blocked
      <3> QED BY <2>1, <2>3, <2>6, <3>1 DEF Course
    <2> QED BY <2>5, <2>6
  <1>12. CASE /\ r.mode = "producing" /\ MayProduce(m, slot)
              /\ r.timer = [at |-> ShippingTime(slot), runs |-> "produce"]
              /\ \A h \in r.queue : ~h.current
              /\ r.pending = Pending(m, slot, blocks_to_confirm(m, slot))
    <2>1. ShippingTime(slot) \in Int /\ ShippingTime(slot) <= TimeOf(slot)
      BY <1>1, <1>5, <1>8 DEF ShippingTime, calculate_block_deadline, Larger
    <2>2. /\ r.timer # NoTimer /\ r.timer.at <= TimeOf(slot) /\ r.timer.runs = "produce"
          /\ IsLive(r, "produce")
      BY <1>6, <1>7, <1>12, <2>1 DEF IsLive
    <2>3. r.pending # NoBlock /\ r.pending.slot = slot
      BY <1>1, <1>12, PendingIsBlock
    <2>4. Wakes(r, now)
      BY <1>2, <1>4, <1>12, <2>2, <2>3 DEF Wakes
    <2>5. ASSUME NEW s \in Nat, now + Shortest <= TimeOf(s), TimeOf(s) < now + Interval, ~Blocked(r, s)
          PROVE  Course(r, now, s)
      <3>1. slot = s
        BY <1>3, <1>4, <2>5
      <3> QED BY <1>12, <2>2, <2>3, <3>1 DEF Course
    <2> QED BY <2>4, <2>5
  <1>13. CASE /\ r.threw /\ r.timer = NoTimer /\ r.queue = m.queue
              /\ \/ r.pending \in {NoBlock, Speculated(m, slot)}
                 \/ r.pending = Pending(m, slot, blocks_to_confirm(m, slot))
    <2>1. r.pending # NoBlock => Near(r.pending.slot, r.head, now)
      BY <1>1, <1>2, <1>4, <1>9, <1>13, PendingIsBlock
    <2>2. Wakes(r, now)
      BY <1>13, <2>1 DEF Wakes
    <2> QED BY <1>13, <2>2 DEF Blocked
  <1> QED BY <1>1, <1>10, <1>11, <1>12, <1>13, LoopTimes DEF slot

-----------------------------------------------------------------------------
\* The course is kept by every step

\* A handler that ends with the loop keeps the course, if it aborts the pending block when it
\* changes the head, and if it is excused or in time.
LEMMA LoopKeepsCourse ==
    ASSUME InGoodTime, IInv, CourseInv, NEW m \in Plugin, NEW excuse \in BOOLEAN,
           LoopFrom(m, excuse), signed \subseteq signed',
           m.queue \subseteq n.queue,
           m.pending = NoBlock \/ (m.pending = n.pending /\ m.head = n.head),
           ~excused /\ ~excuse /\ Open(signed', SlotAt(now)) => now + Shortest <= TimeOf(SlotAt(now))
    PROVE  CourseInv'
  <1> DEFINE s == SlotAt(now)
  <1>1. now \in Nat /\ now' = now /\ n' \in schedule_production_loop(m) /\ missed' = missed
    BY DEF IInv, LoopFrom
  <1>2. excused' \in BOOLEAN /\ (~excused' => ~excused /\ ~excuse /\ ~Blocked(n', s))
    BY DEF LoopFrom, CourseInv, Impeded, Blocked
  <1>3. s \in Nat /\ TimeOf(s) < now + Interval
    BY <1>1, SlotAtBounds
  <1>4. /\ m.pending # NoBlock => Near(m.pending.slot, m.head, now)
        /\ \A g, h \in m.queue : g.current /\ h.current => g = h
    BY DEF CourseInv, Wakes
  <1>5. SlotAt(now') = s
    BY <1>1
  <1> HIDE DEF s
  <1>6. /\ Wakes(n', now)
        /\ now + Shortest <= TimeOf(s) /\ ~Blocked(n', s) => Course(n', now, s)
    BY <1>1, <1>3, <1>4, LoopOnCourse
  <1>7. ~excused /\ ~excuse /\ Open(signed', s) => now + Shortest <= TimeOf(s)
    BY DEF s
  <1>8. OwnSlotsProduced'
    BY <1>1 DEF CourseInv, OwnSlotsProduced
  <1>9. ~excused' /\ Open(signed', s) => Course(n', now, s)
    BY <1>2, <1>6, <1>7
  <1> QED BY <1>1, <1>2, <1>5, <1>6, <1>8, <1>9 DEF CourseInv

\* The clock: at the end of a slot no block is owed for it, and whoever owes one for the next
\* is on its course already.
LEMMA TickCourse == ASSUME InGoodTime, IInv, CourseInv, Tick PROVE CourseInv'
  <1> DEFINE s == SlotAt(now)
             z == SlotAt(now + 1)
  <1>1. n \in Plugin /\ now \in Nat /\ n' = n /\ signed' = signed /\ now' = now + 1
    BY DEF IInv, Tick
  <1>2. /\ s \in Nat /\ now <= TimeOf(s) /\ TimeOf(s) < now + Interval
        /\ z \in Nat /\ now + 1 <= TimeOf(z) /\ TimeOf(z) < now + 1 + Interval
    BY <1>1, SlotAtBounds
  <1>3. Interval \in Nat /\ Shortest \in Nat /\ 0 < Shortest /\ Shortest < Interval
    BY TimesAssumption
  <1>4. /\ excused' \in BOOLEAN
        /\ ~excused' => /\ now = TimeOf(s) \/ ~excused
                        /\ ~Due(n) /\ ~Blocked(n, z)
        /\ missed' = IF /\ now = TimeOf(s) /\ ~excused /\ ~Due(n) /\ Turn(s) \in Locals
                        /\ \A b \in signed : b.slot # s
                     THEN missed \cup {s} ELSE missed
    BY DEF Tick, Impeded, Blocked, CourseInv
  <1>5. /\ Wakes(n, now) /\ missed = {}
        /\ ~excused /\ Open(signed, s) => Course(n, now, s)
    BY DEF CourseInv, OwnSlotsProduced
  <1>6. SlotAt(now') = z
    BY <1>1
  <1>7. now < TimeOf(s) => z = s
    <2>1. now < TimeOf(s) => now + 1 <= TimeOf(s) /\ TimeOf(s) < now + 1 + Interval /\ now + 1 \in Nat
      BY <1>1, <1>2, <1>3, SlotOrder
    <2> QED BY <1>2, <2>1, SlotAtUnique
  <1>8. TimeOf(s) \in Nat /\ TimeOf(z) \in Nat
    BY <1>2, SlotOrder
  <1> HIDE DEF s, z
  <1>9. ~Due(n) => /\ \A h \in n.queue : ~h.current
                   /\ n.timer # NoTimer => n.timer.at \in Int /\ now + 1 <= n.timer.at
    BY <1>1 DEF Due, Plugin, Timers
  <1>10. missed' = {}
    <2>1. ASSUME now = TimeOf(s), ~Due(n), Course(n, now, s) PROVE FALSE
      BY <1>1, <1>3, <1>8, <1>9, <2>1 DEF Course, IsLive
    <2> QED BY <1>4, <1>5, <2>1 DEF Open
  <1>11. Wakes(n, now + 1)
    <2>1. ASSUME NEW k, NEW h, Near(k, h, now) PROVE Near(k, h, now + 1)
      BY <1>1, <1>3, <2>1, SlotOrder DEF Near
    <2> QED BY <1>5, <2>1 DEF Wakes
  <1>12. ASSUME ~excused', Open(signed, z), now < TimeOf(s) PROVE Course(n, now + 1, z)
    <2>1. z = s /\ ~Due(n) /\ Course(n, now, s)
      BY <1>4, <1>5, <1>7, <1>8, <1>1, <1>12
    <2> QED BY <1>1, <1>3, <1>8, <1>9, <2>1 DEF Course, IsLive
  <1>13. ASSUME ~excused', Open(signed, z), now = TimeOf(s) PROVE Course(n, now + 1, z)
    <2>1. ~Due(n) /\ ~n.threw /\ MayProduce(n, z) /\ n.head.slot < z /\ ~(n.mode = "producing" /\ n.pending = NoBlock)
      BY <1>1, <1>2, <1>4, <1>13 DEF Blocked, Plugin
    <2>2. HasTurn /\ ~production_disabled_by_policy(n)
      BY <1>2, <2>1, TurnIsScheduled DEF MayProduce
    <2>3. \E x \in {"loop", "produce"} : IsLive(n, x)
      BY <2>1, <2>2 DEF IInv, LoopInv
    <2>4. /\ n.timer # NoTimer /\ n.timer.runs \in {"loop", "produce"}
          /\ n.timer.at \in Int /\ now + 1 <= n.timer.at
      BY <1>9, <2>1, <2>3 DEF IsLive
    <2>5. z = s + 1 /\ TimeOf(z) = TimeOf(s) + Interval
      <3>1. TimeOf(s + 1) = TimeOf(s) + Interval /\ s + 1 \in Nat
        BY <1>2, TimeOfStep
      <3>2. now + 1 <= TimeOf(s + 1) /\ TimeOf(s + 1) < now + 1 + Interval /\ now + 1 \in Nat
        BY <1>1, <1>3, <1>8, <1>13, <3>1
      <3> QED BY <3>1, <3>2, SlotAtUnique DEF z
    <2>6. now + Shortest <= TimeOf(z) /\ now + 1 + Shortest <= TimeOf(z)
      BY <1>1, <1>3, <1>8, <1>13, <2>5
    <2>7. ASSUME NEW k \in Nat, Near(k, n.head, now) PROVE k <= z /\ TimeOf(k) \in Nat /\ TimeOf(k) <= TimeOf(z)
      <3>1. k <= z
        BY <1>2, <2>1, <2>6, <2>7 DEF Near
      <3> QED BY <1>2, <3>1, SlotOrder
    <2>8. ASSUME NEW k \in Nat, Near(k, n.head, now), n.timer.at <= TimeOf(k) PROVE k = z
      <3>1. TimeOf(s) < TimeOf(k) /\ k <= z
        BY <1>1, <1>8, <1>13, <2>4, <2>7, <2>8
      <3>2. s < k
        BY <1>2, <3>1, TimeOfMonotone
      <3> QED BY <1>2, <2>5, <3>1, <3>2
    <2>9. CASE n.timer.runs = "produce"
      <3>1. n.mode = "producing" /\ n.timer.at <= TimeOf(n.pending.slot) /\ n.pending # NoBlock
        BY <1>5, <2>1, <2>4, <2>9 DEF Wakes
      <3>2. n.pending.slot \in Nat /\ Near(n.pending.slot, n.head, now)
        BY <1>1, <1>5, <3>1 DEF Wakes, Plugin
      <3>3. n.pending.slot = z
        BY <2>8, <3>1, <3>2
      <3>4. IsLive(n, "produce")
        BY <2>4, <2>9 DEF IsLive
      <3> QED BY <3>1, <3>3, <3>4 DEF Course
    <2>10. CASE n.timer.runs = "loop" /\ n.mode = "producing"
      <3>1. PICK k \in Nat : Near(k, n.head, now) /\ n.timer.at + Shortest <= TimeOf(k)
        BY <1>5, <2>1, <2>4, <2>10 DEF Wakes
      <3>2. n.timer.at + Shortest <= TimeOf(z)
        BY <1>3, <1>8, <2>4, <2>7, <3>1
      <3>3. IsLive(n, "loop")
        BY <2>4, <2>10 DEF IsLive
      <3> QED BY <2>6, <3>2, <3>3 DEF Course
    <2>11. CASE n.timer.runs = "loop" /\ n.mode = "speculating"
      <3>1. PICK k \in Nat : Near(k, n.head, now) /\ n.timer.at <= TimeOf(k) /\ ~MayProduce(n, k)
        BY <1>5, <2>4, <2>11 DEF Wakes
      <3> QED BY <2>1, <2>8, <3>1
    <2>12. n.mode \in {"producing", "speculating"}
      BY <1>1 DEF Plugin
    <2> QED BY <2>4, <2>9, <2>10, <2>11, <2>12
  <1>14. ~excused' /\ Open(signed, z) => Course(n, now + 1, z)
    BY <1>1, <1>2, <1>8, <1>12, <1>13
  <1> QED BY <1>1, <1>4, <1>6, <1>10, <1>11, <1>14 DEF CourseInv, OwnSlotsProduced

\* An expired timer moves its handler to the queue, a skipped handler was not to come.
LEMMA QueueCourse ==
    ASSUME IInv, CourseInv, Expire \/ \E h \in n.queue : SkipHandler(h)
    PROVE  CourseInv'
  <1>1. /\ n \in Plugin /\ now' = now /\ signed' = signed
        /\ excused' = excused /\ missed' = missed
    BY DEF IInv, Expire, SkipHandler
  <1>2. Wakes(n, now)
    BY DEF CourseInv
  <1>3. /\ n'.head = n.head /\ n'.pending = n.pending /\ n'.mode = n.mode
        /\ Wakes(n', now)
        /\ \A y : IsLive(n, y) => IsLive(n', y)
        /\ n'.timer = NoTimer \/ n'.timer = n.timer
    <2>1. CASE Expire
      <3> DEFINE g == [runs |-> n.timer.runs, current |-> TRUE]
      <3>1. n' = [n EXCEPT !.timer = NoTimer, !.queue = n.queue \cup {g}] /\ n.timer # NoTimer
        BY <1>1, <2>1 DEF Expire, Cancel, Plugin
      <3>2. g.current /\ g.runs = n.timer.runs
        OBVIOUS
      <3> HIDE DEF g
      <3>3. /\ n'.head = n.head /\ n'.pending = n.pending /\ n'.mode = n.mode
            /\ n'.timer = NoTimer /\ n'.queue = n.queue \cup {g}
        BY <1>1, <3>1 DEF Plugin
      <3>4. \A y : IsLive(n, y) => IsLive(n', y)
        BY <3>2, <3>3 DEF IsLive
      <3>5. \A h \in n.queue : ~h.current
        BY <1>2, <3>1 DEF Wakes
      <3> QED BY <1>2, <3>3, <3>4, <3>5 DEF Wakes
    <2>2. ASSUME NEW h \in n.queue, SkipHandler(h)
          PROVE  /\ n'.head = n.head /\ n'.pending = n.pending /\ n'.mode = n.mode
                 /\ Wakes(n', now) /\ n'.timer = n.timer
                 /\ \A y : IsLive(n, y) => IsLive(n', y)
      <3>1. n' = [n EXCEPT !.queue = n.queue \ {h}] /\ ~h.current
        BY <2>2 DEF SkipHandler, Dequeued
      <3>2. /\ n'.head = n.head /\ n'.pending = n.pending /\ n'.mode = n.mode
            /\ n'.timer = n.timer /\ n'.queue = n.queue \ {h}
            /\ SameChain(n', n)
        BY <1>1, <3>1 DEF Plugin, SameChain
      <3>3. \A y : IsLive(n, y) => IsLive(n', y)
        BY <3>1, <3>2 DEF IsLive
      <3>4. \A k : MayProduce(n', k) <=> MayProduce(n, k)
        BY <3>2 DEF SameChain, MayProduce, production_disabled_by_policy, irreversible_too_old
      <3> QED BY <1>2, <3>2, <3>3, <3>4 DEF Wakes
    <2> QED BY <2>1, <2>2
  <1>4. \A s : Course(n, now, s) => Course(n', now, s)
    BY <1>3 DEF Course
  <1> QED BY <1>1, <1>3, <1>4 DEF CourseInv, OwnSlotsProduced

\* Switches change while the timer runs: production is disabled, or the node is producing and
\* looks at the switches when it runs the loop again.
LEMMA SwitchesCourse ==
    ASSUME CourseInv, n \in Plugin, NEW paused \in BOOLEAN, NEW old \in BOOLEAN,
           n' = [n EXCEPT !.paused = paused, !.old = old],
           n.mode = "producing" \/ ((n.paused => paused) /\ (n.old => old)),
           now' = now, signed' = signed, missed' = missed,
           excused' \in BOOLEAN, excused => excused'
    PROVE  CourseInv'
  <1>1. /\ n'.head = n.head /\ n'.pending = n.pending /\ n'.mode = n.mode
        /\ n'.timer = n.timer /\ n'.queue = n.queue /\ n'.watermarks = n.watermarks
        /\ n'.enabled = n.enabled /\ n'.paused = paused /\ n'.old = old
    BY DEF Plugin
  <1>2. n.mode = "speculating" => \A k : ~MayProduce(n, k) => ~MayProduce(n', k)
    BY <1>1 DEF MayProduce, production_disabled_by_policy, irreversible_too_old
  <1>3. Wakes(n', now)
    BY <1>1, <1>2 DEF CourseInv, Wakes
  <1>4. \A s : Course(n, now, s) => Course(n', now, s)
    BY <1>1 DEF Course, IsLive
  <1> QED BY <1>3, <1>4 DEF CourseInv, OwnSlotsProduced

\* Production is disabled.
LEMMA DisableCourse == ASSUME IInv, CourseInv, pause \/ IrreversibleAges PROVE CourseInv'
  <1>1. /\ n \in Plugin /\ now' = now /\ signed' = signed /\ missed' = missed /\ excused' = TRUE
        /\ n.paused \in BOOLEAN /\ n.old \in BOOLEAN
    BY DEF IInv, pause, IrreversibleAges, Plugin
  <1>2. CASE pause
    <2>1. n' = [n EXCEPT !.paused = TRUE, !.old = n.old]
      BY <1>1, <1>2 DEF pause, Plugin
    <2> QED BY <1>1, <2>1, SwitchesCourse
  <1>3. CASE IrreversibleAges
    <2>1. n' = [n EXCEPT !.paused = n.paused, !.old = TRUE]
      BY <1>1, <1>3 DEF IrreversibleAges, Plugin
    <2> QED BY <1>1, <2>1, SwitchesCourse
  <1> QED BY <1>2, <1>3

\* Who is not too late is in time.
LEMMA NotTooLate ==
    ASSUME now \in Nat, ~TooLate
    PROVE  now + Shortest <= TimeOf(SlotAt(now))
  <1>1. TimeOf(SlotAt(now)) \in Nat /\ Shortest \in Nat
    BY SlotAtBounds, SlotOrder, TimesAssumption
  <1> QED BY <1>1 DEF TooLate

\* A handler that aborts the pending block and runs the loop is excused when it is too late.
LEMMA AbortsCourse ==
    ASSUME InGoodTime, IInv, CourseInv, NEW m \in Plugin, m.pending = NoBlock, m.queue = n.queue,
           LoopFrom(m, TooLate), signed' = signed
    PROVE  CourseInv'
  <1>1. now \in Nat /\ TooLate \in BOOLEAN
    BY DEF IInv, TooLate
  <1>2. ~TooLate => now + Shortest <= TimeOf(SlotAt(now))
    BY <1>1, NotTooLate
  <1> QED BY <1>1, <1>2, LoopKeepsCourse

\* Blocks that arrive, accepted or not, and snapshots
LEMMA BlocksCourse ==
    ASSUME InGoodTime, IInv, CourseInv, OnIncomingBlock \/ OnRejectedBlock \/ create_snapshot
    PROVE  CourseInv'
  <1>1. n \in Plugin /\ signed' = signed
    BY DEF IInv, OnIncomingBlock, OnRejectedBlock, create_snapshot
  <1>2. CASE OnIncomingBlock
    <2>1. PICK head \in Heads \cup {n.head}, old \in {n.old, FALSE} :
             LoopFrom([abort_block(n) EXCEPT !.head = head, !.old = old,
                                             !.enabled = @ \/ TimeOf(head.slot + 1) >= now], TooLate)
      BY <1>2 DEF OnIncomingBlock
    <2> DEFINE e == n.enabled \/ TimeOf(head.slot + 1) >= now
               m == [n EXCEPT !.pending = NoBlock, !.head = head, !.old = old, !.enabled = e]
    <2>2. [abort_block(n) EXCEPT !.head = head, !.old = old,
                                 !.enabled = @ \/ TimeOf(head.slot + 1) >= now] = m
      BY <1>1 DEF abort_block, Plugin
    <2>3. head \in [num : Nat, slot : Nat] /\ old \in BOOLEAN /\ e \in BOOLEAN
      BY <1>1, HeadsType DEF Plugin
    <2> HIDE DEF e
    <2>4. m \in Plugin /\ m.pending = NoBlock /\ m.queue = n.queue
      BY <1>1, <2>3 DEF Plugin, NoBlock
    <2>5. LoopFrom(m, TooLate)
      BY <2>1, <2>2
    <2> HIDE DEF m
    <2> QED BY <1>1, <2>4, <2>5, AbortsCourse
  <1>3. CASE OnRejectedBlock \/ create_snapshot
    <2>1. LoopFrom(abort_block(n), TooLate)
      BY <1>3 DEF OnRejectedBlock, create_snapshot
    <2>2. abort_block(n) \in Plugin /\ abort_block(n).pending = NoBlock /\ abort_block(n).queue = n.queue
      BY <1>1 DEF abort_block, Plugin, NoBlock
    <2> QED BY <1>1, <2>1, <2>2, AbortsCourse
  <1> QED BY <1>2, <1>3

\* Requests of an operator
LEMMA ReevaluateCourse ==
    ASSUME InGoodTime, IInv, CourseInv, resume \/ update_runtime_options
    PROVE  CourseInv'
  <1>1. n \in Plugin
    BY DEF IInv
  <1>2. PICK paused, old \in BOOLEAN : Reevaluate([n EXCEPT !.paused = paused, !.old = old])
    <2>1. CASE resume
      <3>1. /\ [n EXCEPT !.paused = FALSE] = [n EXCEPT !.paused = FALSE, !.old = n.old]
            /\ n.old \in BOOLEAN
        BY <1>1 DEF Plugin
      <3> QED BY <2>1, <3>1 DEF resume
    <2>2. CASE update_runtime_options
      <3>1. /\ \A old : [n EXCEPT !.old = old] = [n EXCEPT !.paused = n.paused, !.old = old]
            /\ n.paused \in BOOLEAN
        BY <1>1 DEF Plugin
      <3> QED BY <2>2, <3>1 DEF update_runtime_options
    <2> QED BY <2>1, <2>2
  <1> DEFINE m == [n EXCEPT !.paused = paused, !.old = old]
  <1>3. m \in Plugin /\ m.queue = n.queue /\ m.mode = n.mode
    BY <1>1, <1>2 DEF Plugin
  <1>4. /\ signed' = signed
        /\ \/ n.mode = "speculating" /\ LoopFrom(abort_block(m), TooLate)
           \/ n.mode = "producing" /\ n' = m /\ now' = now /\ excused' = excused /\ missed' = missed
    BY <1>1, <1>2, <1>3 DEF Reevaluate, Plugin
  <1>5. CASE n.mode = "speculating" /\ LoopFrom(abort_block(m), TooLate)
    <2> HIDE DEF m
    <2>1. abort_block(m) \in Plugin /\ abort_block(m).pending = NoBlock /\ abort_block(m).queue = n.queue
      BY <1>3 DEF abort_block, Plugin, NoBlock
    <2> QED BY <1>4, <1>5, <2>1, AbortsCourse
  <1>6. CASE n.mode = "producing" /\ n' = m /\ now' = now /\ excused' = excused /\ missed' = missed
    <2>1. excused \in BOOLEAN
      BY DEF CourseInv
    <2>2. n' = [n EXCEPT !.paused = paused, !.old = old]
      BY <1>6
    <2>3. n.mode = "producing" /\ now' = now /\ excused' = excused /\ missed' = missed /\ signed' = signed
      BY <1>4, <1>6
    <2> QED BY <1>1, <2>1, <2>2, <2>3, SwitchesCourse
  <1> QED BY <1>4, <1>5, <1>6

\* A queued handler, unless it is excused, runs while there is time for the present slot, or
\* ships its block.
LEMMA HandlersCourse ==
    ASSUME InGoodTime, IInv, CourseInv, NEW h \in n.queue, RunLoopHandler(h) \/ RunProduceHandler(h)
    PROVE  CourseInv'
  <1> DEFINE d == Dequeued(h)
             s == SlotAt(now)
  <1>1. n \in Plugin /\ now \in Nat /\ h.current
    BY DEF IInv, RunLoopHandler, RunProduceHandler
  <1>2. /\ d \in Plugin /\ d.queue \subseteq n.queue /\ d.pending = n.pending /\ d.head = n.head
        /\ d.watermarks = n.watermarks
    BY <1>1 DEF Dequeued, Plugin
  <1> HIDE DEF d
  <1>3. \A x : IsLive(n, x) => h.runs = x
    <2>1. n.timer = NoTimer /\ \A g \in n.queue : g.current => g = h
      BY <1>1 DEF CourseInv, Wakes
    <2> QED BY <2>1 DEF IsLive
  <1>4. ~excused /\ Open(signed, s) => Course(n, now, s)
    BY DEF CourseInv
  <1>5. CASE RunLoopHandler(h)
    <2>1. h.runs = "loop" /\ LoopFrom(d, FALSE) /\ signed' = signed
      BY <1>5 DEF RunLoopHandler, d
    <2>2. ~excused /\ Open(signed', s) => now + Shortest <= TimeOf(s)
      BY <1>3, <1>4, <2>1 DEF Course
    <2> QED BY <1>2, <2>1, <2>2, LoopKeepsCourse
  <1>6. CASE /\ RunProduceHandler(h) /\ CanProduce(n)
             /\ \E old \in {n.old, FALSE} : LoopFrom(produce_block(d, old), FALSE)
             /\ signed' = signed \cup {[by |-> Turn(n.pending.slot), num |-> n.pending.num,
                                 slot |-> n.pending.slot, from |-> n.pending.num - n.pending.confirmed]}
    <2>1. PICK old \in {n.old, FALSE} : LoopFrom(produce_block(d, old), FALSE)
      BY <1>6
    <2> DEFINE m == produce_block(d, old)
               by == Turn(n.pending.slot)
               w == n.watermarks
    <2>2. m \in Plugin /\ m.pending = NoBlock /\ m.queue = d.queue
      <3>1. m = [d EXCEPT !.pending = NoBlock,
                          !.head = [num |-> n.pending.num, slot |-> n.pending.slot],
                          !.watermarks = [w EXCEPT ![by] = n.pending.num],
                          !.old = old]
        BY <1>2 DEF produce_block, abort_block, Plugin
      <3>2. /\ old \in BOOLEAN /\ w \in [Locals -> Nat]
            /\ n.pending \in [num : Nat, slot : Nat, confirmed : Nat]
        BY <1>1 DEF Plugin
      <3> HIDE DEF m, w, by
      <3>3. [w EXCEPT ![by] = n.pending.num] \in [Locals -> Nat]
        BY <3>2
      <3> QED BY <1>2, <3>1, <3>2, <3>3 DEF Plugin, NoBlock
    <2>3. h.runs = "produce"
      BY <1>6 DEF RunProduceHandler
    <2>4. signed \subseteq signed' /\ \E b \in signed' : b.slot = n.pending.slot
      <3> DEFINE new == [by |-> Turn(n.pending.slot), num |-> n.pending.num,
                         slot |-> n.pending.slot, from |-> n.pending.num - n.pending.confirmed]
      <3>1. signed' = signed \cup {new} /\ new.slot = n.pending.slot
        BY <1>6
      <3> HIDE DEF new
      <3> QED BY <3>1
    <2>5. Open(signed', s) => Open(signed, s) /\ n.pending.slot # s
      BY <2>4 DEF Open
    <2>6. ~(~excused /\ Open(signed', s))
      <3>1. Course(n, now, s) => n.pending.slot = s
        BY <1>3, <2>3 DEF Course
      <3> QED BY <1>4, <2>5, <3>1
    <2> HIDE DEF m
    <2>7. LoopFrom(m, FALSE)
      BY <2>1 DEF m
    <2> QED BY <1>2, <2>2, <2>4, <2>6, <2>7, LoopKeepsCourse
  <1>7. CASE LoopFrom(abort_block(d), TRUE) /\ signed' = signed
    <2> DEFINE m == abort_block(d)
    <2>1. m \in Plugin /\ m.pending = NoBlock /\ m.queue = d.queue
      BY <1>2 DEF abort_block, Plugin, NoBlock
    <2>2. LoopFrom(m, TRUE)
      BY <1>7
    <2> HIDE DEF m
    <2> QED BY <1>2, <1>7, <2>1, <2>2, LoopKeepsCourse
  <1> QED BY <1>5, <1>6, <1>7 DEF RunProduceHandler, d

\* The node starts with the first slot excused.
LEMMA InitCourse == ASSUME InGoodTime, Init PROVE CourseInv
  <1>1. PICK enabled, paused \in BOOLEAN, old \in {FALSE, AgeLimited} :
            n \in schedule_production_loop(plugin_startup(enabled, paused, old))
    BY DEF Init
  <1> DEFINE m == plugin_startup(enabled, paused, old)
  <1>2. m \in Plugin /\ m.pending = NoBlock /\ m.queue = {}
    BY SwitchesAssumption DEF plugin_startup, Plugin, NoBlock, NoTimer, Timers
  <1>3. n \in schedule_production_loop(m)
    BY <1>1
  <1> HIDE DEF m
  <1>4. now \in Nat /\ excused = TRUE /\ missed = {}
    BY DEF Init
  <1>5. Wakes(n, now)
    BY <1>2, <1>3, <1>4, LoopOnCourse
  <1> QED BY <1>4, <1>5 DEF CourseInv, OwnSlotsProduced

\* Every step keeps the course.
LEMMA NextCourse == ASSUME InGoodTime, IInv, CourseInv, [Next]_vars PROVE CourseInv'
  <1>1. CASE UNCHANGED vars
    BY <1>1 DEF vars, CourseInv, OwnSlotsProduced
  <1>2. ASSUME NEW h \in n.queue, SkipHandler(h) \/ RunLoopHandler(h) \/ RunProduceHandler(h)
        PROVE  CourseInv'
    BY <1>2, QueueCourse, HandlersCourse
  <1> QED BY <1>1, <1>2, TickCourse, QueueCourse, DisableCourse, BlocksCourse, ReevaluateCourse DEF Next

\* No slot of a producer of this node passes without its block, unless there was a reason that
\* OwnSlotsProduced accepts, for any lengths of slots, windows and retries that meet two
\* conditions: blocks are not shipped after the time of their slot (produce-time-offset-us is
\* not positive), and the node stops waiting for the block before early enough to try again
\* and still start (calculate_block_starttime leaves twice the shortest time, less a tick).
\* The defaults of the code do.
THEOREM SlotsUsed == ASSUME InGoodTime PROVE Spec => []OwnSlotsProduced
  <1>1. Init => CourseInv
    BY InitCourse
  <1>2. IInv /\ CourseInv /\ [Next]_vars => CourseInv'
    BY NextCourse
  <1>3. CourseInv => OwnSlotsProduced
    BY DEF CourseInv
  <1> QED BY <1>1, <1>2, <1>3, Invariance, PTL DEF Spec

=============================================================================
