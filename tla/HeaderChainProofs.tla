------------------------- MODULE HeaderChainProofs --------------------------
(***************************************************************************)
(* Proofs about block_header_state, for chains of any length, any          *)
(* schedules of distinct producers and any confirmations and skipped       *)
(* slots: what is proposed irreversible and what is irreversible has the   *)
(* producers it needs, and every producer has one slot per round.          *)
(***************************************************************************)
EXTENDS HeaderChain, FiniteSetTheorems, TLAPS

-----------------------------------------------------------------------------
\* Types

Producers == (UNION {ProducersOf(s) : s \in Schedules}) \cup {System}

\* Numbers for some producers
Numbers == UNION {[P -> Nat] : P \in SUBSET Producers}

Headers ==
    [num : Nat, slot : Nat, producer : Producers,
     schedule : Schedules, shuffled : Nat, pending : Schedules \cup {<<>>}, pendingNum : Nat,
     lastProduced : Numbers, impliedIrb : Numbers,
     confirmCount : Seq(Nat), proposed : Nat, lib : Nat]

Confirmations == [size : Nat, by : SUBSET Producers]

-----------------------------------------------------------------------------
\* The invariant

TypeOK ==
    /\ hs \in Headers
    /\ confirms \in [BaseNum + 1 .. hs.num -> Confirmations]
    /\ lastSlot \in Numbers
    /\ builtOn \in Numbers

\* The maps of the header state cover the active schedule.
Members(h) ==
    /\ DOMAIN h.impliedIrb = ProducersOf(h.schedule)
    /\ ProducersOf(h.schedule) \subseteq DOMAIN h.lastProduced

\* Fewer than a third of the producers are behind the irreversible block, unless a schedule
\* may shrink: then those who are behind may be all that is left.
Lagging(h) == {p \in DOMAIN h.impliedIrb : h.impliedIrb[p] < h.lib}

Finality(h) ==
    /\ h.lib <= h.proposed
    /\ \A p \in DOMAIN h.impliedIrb : h.impliedIrb[p] <= h.proposed
    /\ ~MayShrink => 3 * Cardinality(Lagging(h)) < Cardinality(DOMAIN h.impliedIrb)
    /\ ~MayShrink /\ h.pending # <<>> => Len(h.pending) >= Len(h.schedule)

\* Who is ahead of block l in the map that is counted made a block that far ahead.
Backed(h, built, l) ==
    \A p \in DOMAIN h.impliedIrb :
        h.impliedIrb[p] > l => p \in DOMAIN built /\ built[p] >= h.impliedIrb[p]

\* The window covers the blocks behind the proposed one, or the last MaxTracked.
Window(h) ==
    /\ BaseNum <= h.proposed /\ h.proposed <= h.num
    /\ Len(h.confirmCount) <= MaxTracked
    /\ Len(h.confirmCount) <= h.num - h.proposed
    /\ Len(h.confirmCount) < MaxTracked => Len(h.confirmCount) = h.num - h.proposed

\* A counter is the number of producers that still have to confirm its block.
Counters(h, conf) ==
    /\ \A b \in DOMAIN conf : IsFiniteSet(conf[b].by)
    /\ \A i \in 1 .. Len(h.confirmCount) :
          /\ h.confirmCount[i] > 0 /\ h.confirmCount[i] <= 255
          /\ h.confirmCount[i] + Cardinality(conf[h.num - Len(h.confirmCount) + i].by)
                = required_confs(conf[h.num - Len(h.confirmCount) + i].size)
    /\ h.proposed > BaseNum =>
          Cardinality(conf[h.proposed].by) >= required_confs(conf[h.proposed].size)

\* A producer confirmed nothing after its last block as far as the map remembers it, and one
\* that the map forgot confirmed nothing after the block that set the pending schedule: if it
\* returns with that schedule, the irreversible block it starts from is not below.
Confirmers(h, conf) ==
    \A b \in DOMAIN conf : \A p \in conf[b].by :
        IF p \in DOMAIN h.lastProduced THEN b <= h.lastProduced[p]
        ELSE h.pending # <<>> => b <= h.pendingNum

\* The head is in the round of its schedule, and who made a block in this round made it in
\* its slot.
Rounds(h, last) ==
    /\ h.shuffled <= h.slot /\ h.slot < h.shuffled + Len(h.schedule)
    /\ \A p \in DOMAIN last :
          /\ last[p] <= h.slot
          /\ last[p] > h.shuffled => h.schedule[last[p] - h.shuffled] = p

IInv ==
    /\ TypeOK
    /\ Members(hs)
    /\ hs.pendingNum <= hs.num
    /\ Finality(hs)
    /\ ~MayShrink => Backed(hs, builtOn, hs.lib)
    /\ Window(hs)
    /\ Counters(hs, confirms)
    /\ Confirmers(hs, confirms)
    /\ Rounds(hs, lastSlot)

-----------------------------------------------------------------------------
\* Extrema

\* Every set of natural numbers that is not empty has a least element.
LEMMA NatMin ==
    ASSUME NEW S, S \subseteq Nat, S # {}
    PROVE  \E x \in S : \A y \in S : x <= y
  <1> DEFINE R == OpToRel(<, Nat)
  <1>1. PICK x \in S : \A y \in S : ~ (<<y, x>> \in R)
    <2> HIDE DEF R
    <2>1. IsWellFoundedOn(R, Nat)
      BY NatLessThanWellFounded DEF R
    <2> QED BY <2>1, WFMin
  <1>2. \A y \in S : x <= y
    <2> SUFFICES ASSUME NEW y \in S, y < x PROVE FALSE
      BY SMT
    <2>1. <<y, x>> \in R
      BY DEF OpToRel
    <2> QED BY <1>1, <2>1
  <1> QED BY <1>2

\* Max of a bounded set of natural numbers that is not empty is its greatest element.
LEMMA MaxOf ==
    ASSUME NEW S, S \subseteq Nat, S # {}, NEW b \in Nat, \A x \in S : x <= b
    PROVE  Max(S) \in S /\ \A y \in S : Max(S) >= y
  <1> DEFINE T == {b - x : x \in S}
  <1>1. \A y \in S : b - y \in T
    OBVIOUS
  <1>2. T \subseteq Nat
    BY SMT
  <1>3. \A t \in T : \E x \in S : t = b - x
    OBVIOUS
  <1> HIDE DEF T
  <1>4. PICK t \in T : \A y \in T : t <= y
    BY <1>1, <1>2, NatMin
  <1>5. PICK x \in S : t = b - x
    BY <1>3, <1>4
  <1>6. \A y \in S : x >= y
    BY <1>1, <1>4, <1>5
  <1> QED BY <1>6 DEF Max

\* Max of two numbers is the greater one.
LEMMA MaxPair ==
    ASSUME NEW a \in Int, NEW b \in Int
    PROVE  Max({a, b}) = IF a >= b THEN a ELSE b
  BY DEF Max

\* Min of two numbers is the smaller one.
LEMMA MinPair ==
    ASSUME NEW a \in Int, NEW b \in Int
    PROVE  Min({a, b}) = IF a <= b THEN a ELSE b
  BY DEF Min

-----------------------------------------------------------------------------
\* Maps and schedules

\* What With does to numbers of producers
LEMMA WithType ==
    ASSUME NEW m \in Numbers, NEW k \in Producers, NEW v \in Nat
    PROVE  /\ With(m, k, v) \in Numbers
           /\ DOMAIN With(m, k, v) = DOMAIN m \cup {k}
           /\ With(m, k, v)[k] = v
           /\ \A x \in DOMAIN m \ {k} : With(m, k, v)[x] = m[x]
  <1>1. PICK P \in SUBSET Producers : m \in [P -> Nat]
    BY DEF Numbers
  <1>2. With(m, k, v) \in [P \cup {k} -> Nat]
    BY <1>1 DEF With
  <1>3. P \cup {k} \in SUBSET Producers
    OBVIOUS
  <1>4. With(m, k, v) \in Numbers
    BY <1>2, <1>3 DEF Numbers
  <1> QED BY <1>1, <1>4 DEF With

\* Numbers are natural, of producers.
LEMMA NumbersType ==
    ASSUME NEW m \in Numbers
    PROVE  DOMAIN m \subseteq Producers /\ \A x \in DOMAIN m : m[x] \in Nat
  BY DEF Numbers

\* A schedule has as many producers as places.
LEMMA ScheduleFacts ==
    ASSUME NEW s \in Schedules
    PROVE  /\ Len(s) \in Nat /\ Len(s) > 0 /\ Len(s) <= 125 /\ DOMAIN s = 1 .. Len(s) /\ s # <<>>
           /\ \A i \in 1 .. Len(s) : s[i] \in ProducersOf(s)
           /\ ProducersOf(s) \subseteq Producers
           /\ IsFiniteSet(ProducersOf(s)) /\ Cardinality(ProducersOf(s)) = Len(s)
  <1>1. s \in Seq(ProducersOf(s)) /\ Len(s) > 0 /\ Len(s) <= 125
    BY SchedulesAssumption
  <1>2. \A i, j \in 1 .. Len(s) : s[i] = s[j] => i = j
    BY SchedulesAssumption
  <1>3. Len(s) \in Nat /\ DOMAIN s = 1 .. Len(s) /\ s # <<>> /\ s \in [1 .. Len(s) -> ProducersOf(s)]
    <2> DEFINE T == ProducersOf(s)
    <2>1. s \in Seq(T) /\ Len(s) > 0
      BY <1>1
    <2> HIDE DEF T
    <2>2. Len(s) \in Nat /\ DOMAIN s = 1 .. Len(s) /\ s # <<>> /\ s \in [1 .. Len(s) -> T]
      BY <2>1
    <2> QED BY <2>2 DEF T
  <1>4. ProducersOf(s) \subseteq Producers
    BY DEF Producers
  <1>5. IsFiniteSet(1 .. Len(s)) /\ Cardinality(1 .. Len(s)) = Len(s)
    <2>1. IsFiniteSet(1 .. Len(s)) /\ Cardinality(1 .. Len(s)) = IF 1 > Len(s) THEN 0 ELSE Len(s) - 1 + 1
      BY <1>3, FS_Interval
    <2> QED BY <1>1, <1>3, <2>1
  <1>6. s \in Surjection(1 .. Len(s), ProducersOf(s)) /\ s \in Injection(1 .. Len(s), ProducersOf(s))
    <2>1. \A p \in ProducersOf(s) : \E i \in 1 .. Len(s) : s[i] = p
      BY DEF ProducersOf
    <2> QED BY <1>2, <1>3, <2>1 DEF Surjection, Injection, IsInjective
  <1>7. IsFiniteSet(ProducersOf(s)) /\ Cardinality(ProducersOf(s)) = Len(s)
    BY <1>5, <1>6, FS_Surjection
  <1> QED BY <1>1, <1>3, <1>4, <1>7
-----------------------------------------------------------------------------
\* Irreversible blocks

Below(m, w) == {r \in DOMAIN m : m[r] < w}

\* calc_dpos_last_irreversible returns the greatest number that fewer than a third of the
\* producers are below.
LEMMA CalcFacts ==
    ASSUME NEW irb \in Numbers, IsFiniteSet(DOMAIN irb), DOMAIN irb # {},
           NEW b \in Nat, \A p \in DOMAIN irb : irb[p] <= b
    PROVE  /\ calc_dpos_last_irreversible(irb) \in Nat
           /\ calc_dpos_last_irreversible(irb) <= b
           /\ 3 * Cardinality(Below(irb, calc_dpos_last_irreversible(irb))) < Cardinality(DOMAIN irb)
           /\ \A w \in Nat : 3 * Cardinality(Below(irb, w)) < Cardinality(DOMAIN irb)
                                => w <= calc_dpos_last_irreversible(irb)
  <1> DEFINE N == Cardinality(DOMAIN irb)
             Good == {q \in DOMAIN irb : Cardinality(Below(irb, irb[q])) <= (N - 1) \div 3}
             S == {irb[p] : p \in Good}
  <1>1. N \in Nat /\ N > 0
    BY FS_CardinalityType, FS_EmptySet
  <1>2. \A w : /\ Below(irb, w) \subseteq DOMAIN irb
               /\ IsFiniteSet(Below(irb, w)) /\ Cardinality(Below(irb, w)) \in Nat
    <2> TAKE w
    <2>1. Below(irb, w) \in SUBSET DOMAIN irb
      BY DEF Below
    <2> QED BY <2>1, FS_Subset, FS_CardinalityType
  <1>3. \A p \in DOMAIN irb : irb[p] \in Nat
    BY NumbersType
  <1>4. calc_dpos_last_irreversible(irb) = Max(S)
    BY DEF calc_dpos_last_irreversible, Below
  <1> HIDE DEF N
  <1>5. \A q : q \in Good <=> q \in DOMAIN irb /\ 3 * Cardinality(Below(irb, irb[q])) < N
    BY <1>1, <1>2
  <1> HIDE DEF Good
  <1>6. ASSUME NEW w \in Nat, 3 * Cardinality(Below(irb, w)) < N
        PROVE  \E q \in Good : irb[q] >= w
    <2> DEFINE G == DOMAIN irb \ Below(irb, w)
               V == {irb[r] : r \in G}
    <2>1. G # {}
      <3> SUFFICES ASSUME G = {} PROVE FALSE
        OBVIOUS
      <3>1. Below(irb, w) = DOMAIN irb
        BY <1>2
      <3> QED BY <1>1, <1>6, <3>1 DEF N
    <2>2. V \subseteq Nat /\ V # {} /\ \A r \in G : irb[r] \in V
      BY <1>3, <2>1
    <2>3. \A v \in V : \E r \in G : v = irb[r]
      OBVIOUS
    <2> HIDE DEF V
    <2>4. PICK v \in V : \A y \in V : v <= y
      BY <2>2, NatMin
    <2>5. PICK q \in G : v = irb[q]
      BY <2>3, <2>4
    <2>6. q \in DOMAIN irb /\ irb[q] >= w
      BY <1>3, <2>5 DEF Below
    <2>7. Below(irb, irb[q]) \in SUBSET Below(irb, w)
      <3> SUFFICES ASSUME NEW r \in Below(irb, irb[q]), r \notin Below(irb, w) PROVE FALSE
        OBVIOUS
      <3>1. r \in G /\ irb[r] < irb[q]
        BY DEF Below
      <3>2. irb[q] <= irb[r]
        BY <2>2, <2>4, <2>5, <3>1
      <3> QED BY <1>3, <2>6, <3>1, <3>2
    <2>8. Cardinality(Below(irb, irb[q])) <= Cardinality(Below(irb, w))
      BY <1>2, <2>7, FS_Subset
    <2> QED BY <1>1, <1>2, <1>5, <1>6, <2>6, <2>8
  <1>7. Good # {}
    <2>1. Below(irb, 0) = {}
      BY <1>3 DEF Below
    <2> QED BY <1>1, <1>6, <2>1, FS_EmptySet
  <1>8. S \subseteq Nat /\ S # {} /\ \A x \in S : x <= b
    BY <1>3, <1>5, <1>7
  <1>9. \A x \in S : \E q \in Good : x = irb[q]
    OBVIOUS
  <1>10. \A q \in Good : irb[q] \in S
    OBVIOUS
  <1> HIDE DEF S
  <1>11. Max(S) \in S /\ \A y \in S : Max(S) >= y
    BY <1>8, MaxOf
  <1>12. 3 * Cardinality(Below(irb, Max(S))) < N
    BY <1>5, <1>9, <1>11
  <1>13. \A w \in Nat : 3 * Cardinality(Below(irb, w)) < N => w <= Max(S)
    <2> SUFFICES ASSUME NEW w \in Nat, 3 * Cardinality(Below(irb, w)) < N PROVE w <= Max(S)
      OBVIOUS
    <2>1. PICK q \in Good : irb[q] >= w
      BY <1>6
    <2>2. irb[q] \in Nat /\ Max(S) \in Nat /\ Max(S) >= irb[q]
      BY <1>8, <1>10, <1>11
    <2> QED BY <2>1, <2>2
  <1> QED BY <1>4, <1>8, <1>11, <1>12, <1>13 DEF N

-----------------------------------------------------------------------------
\* generate_next

\* The producer of a later slot is one of the schedule.
LEMMA ScheduledProducer ==
    ASSUME NEW h \in Headers, NEW slot \in Nat, h.shuffled < slot
    PROVE  /\ get_scheduled_producer(h, slot) \in ProducersOf(h.schedule)
           /\ get_scheduled_producer(h, slot) \in Producers
  <1> DEFINE L == Len(h.schedule)
             x == slot - (h.shuffled + 1)
  <1>1. h.schedule \in Schedules /\ h.shuffled \in Nat
    BY DEF Headers
  <1>2. L \in Nat /\ L > 0 /\ x \in Nat
    BY <1>1, ScheduleFacts
  <1> HIDE DEF L, x
  <1>3. (x % L) + 1 \in 1 .. L
    BY <1>2
  <1> QED BY <1>1, <1>3, ScheduleFacts DEF get_scheduled_producer, L, x

\* More than two thirds are required, and 8 bits hold them.
LEMMA RequiredConfs ==
    ASSUME NEW k \in Nat
    PROVE  /\ required_confs(k) \in Nat /\ required_confs(k) > 0
           /\ 3 * required_confs(k) > 2 * k
           /\ k <= 125 => required_confs(k) <= 255
  BY DEF required_confs

\* The window after generate_next: the old one, without its oldest block when it is full,
\* and the new block, which everybody has to confirm.
LEMMA GrownWindow ==
    ASSUME NEW h \in Headers, Window(h)
    PROVE  LET cc == grow_confirm_count(h)
               k  == IF Len(h.confirmCount) < MaxTracked THEN 0 ELSE 1
           IN  /\ cc \in Seq(Nat)
               /\ Len(cc) = Len(h.confirmCount) + 1 - k
               /\ \A i \in 1 .. Len(cc) - 1 : cc[i] = h.confirmCount[i + k]
               /\ cc[Len(cc)] = required_confs(Len(h.schedule))
  <1> DEFINE old == h.confirmCount
             r == required_confs(Len(h.schedule))
  <1>1. old \in Seq(Nat) /\ MaxTracked \in Nat /\ MaxTracked > 0 /\ Len(old) <= MaxTracked
    BY MaxTrackedAssumption DEF Headers, Window
  <1>2. r \in Nat
    <2>1. Len(h.schedule) \in Nat
      BY ScheduleFacts DEF Headers
    <2> QED BY <2>1, RequiredConfs
  <1>3. grow_confirm_count(h) = Append(IF Len(old) < MaxTracked THEN old ELSE Tail(old), r)
    BY DEF grow_confirm_count
  <1> HIDE DEF old, r
  <1> QED BY <1>1, <1>2, <1>3 DEF old, r

\* What generate_next leaves alone and what it preserves; the irreversible block does not
\* move back.
LEMMA GenerateNext ==
    ASSUME NEW h \in Headers, Members(h), Finality(h), Window(h),
           NEW slot \in Nat, h.shuffled < slot
    PROVE  LET p == get_scheduled_producer(h, slot)
               g == generate_next(h, slot)
           IN  /\ g \in Headers
               /\ Members(g) /\ Finality(g)
               /\ ~MayShrink => g.lib >= h.lib
  <1> DEFINE p == get_scheduled_producer(h, slot)
             g == generate_next(h, slot)
             irb == With(h.impliedIrb, p, h.proposed)
  <1>1. p \in ProducersOf(h.schedule) /\ p \in Producers
    BY ScheduledProducer
  <1> HIDE DEF p
  <1>2. /\ h.impliedIrb \in Numbers /\ h.lastProduced \in Numbers /\ h.proposed \in Nat
        /\ h.num \in Nat /\ h.schedule \in Schedules /\ h.lib \in Nat
    BY DEF Headers
  <1>3. /\ irb \in Numbers /\ DOMAIN irb = DOMAIN h.impliedIrb
        /\ irb[p] = h.proposed /\ \A q \in DOMAIN irb \ {p} : irb[q] = h.impliedIrb[q]
    <2>1. irb \in Numbers /\ DOMAIN irb = DOMAIN h.impliedIrb \cup {p}
      BY <1>1, <1>2, WithType, Zenon
    <2>2. irb[p] = h.proposed
      BY <1>1, <1>2, WithType, ZenonT(40)
    <2>3. \A q \in DOMAIN h.impliedIrb \ {p} : irb[q] = h.impliedIrb[q]
      BY <1>1, <1>2, WithType, ZenonT(40)
    <2>4. p \in DOMAIN h.impliedIrb
      BY <1>1 DEF Members
    <2> HIDE DEF irb
    <2> QED BY <2>1, <2>4, <2>3, <2>2
  <1>4. /\ With(h.lastProduced, p, h.num + 1) \in Numbers
        /\ DOMAIN With(h.lastProduced, p, h.num + 1) = DOMAIN h.lastProduced \cup {p}
    <2>1. h.num + 1 \in Nat
      BY <1>2
    <2> QED BY <1>1, <1>2, <2>1, WithType, Zenon
  <1>5. grow_confirm_count(h) \in Seq(Nat)
    BY GrownWindow
  <1>6. /\ IsFiniteSet(DOMAIN irb) /\ DOMAIN irb # {}
        /\ \A q \in DOMAIN irb : irb[q] <= h.proposed /\ irb[q] >= h.impliedIrb[q]
    <2>1. DOMAIN irb = ProducersOf(h.schedule)
      BY <1>3 DEF Members
    <2>2. IsFiniteSet(DOMAIN irb) /\ DOMAIN irb # {}
      BY <1>1, <1>2, <2>1, ScheduleFacts
    <2>3. \A q \in DOMAIN irb : h.impliedIrb[q] <= h.proposed /\ h.impliedIrb[q] \in Nat
      BY <1>2, <1>3, NumbersType DEF Finality
    <2> QED BY <1>2, <1>3, <2>2, <2>3
  <1> HIDE DEF irb
  <1> DEFINE lib == calc_dpos_last_irreversible(irb)
  <1>7. /\ lib \in Nat /\ lib <= h.proposed
        /\ 3 * Cardinality(Below(irb, lib)) < Cardinality(DOMAIN irb)
        /\ \A w \in Nat : 3 * Cardinality(Below(irb, w)) < Cardinality(DOMAIN irb) => w <= lib
    BY <1>2, <1>3, <1>6, CalcFacts
  <1> HIDE DEF lib
  <1>8. g = [num |-> h.num + 1, slot |-> slot, producer |-> p,
             schedule |-> h.schedule, shuffled |-> h.shuffled,
             pending |-> h.pending, pendingNum |-> h.pendingNum,
             lastProduced |-> With(h.lastProduced, p, h.num + 1),
             impliedIrb |-> irb,
             confirmCount |-> grow_confirm_count(h),
             proposed |-> h.proposed, lib |-> lib]
    BY DEF generate_next, p, irb, lib
  <1> HIDE DEF g
  <1>9. g \in Headers
    BY <1>1, <1>2, <1>3, <1>4, <1>5, <1>7, <1>8 DEF Headers
  <1>10. Members(g)
    BY <1>3, <1>4, <1>8 DEF Members
  <1>11. Finality(g)
    <2>1. Lagging(g) = Below(irb, lib)
      BY <1>8 DEF Lagging, Below
    <2> QED BY <1>6, <1>7, <1>8, <2>1 DEF Finality
  <1>12. ASSUME ~MayShrink PROVE lib >= h.lib
    <2>1. Below(irb, h.lib) \in SUBSET Lagging(h)
      <3> SUFFICES ASSUME NEW q \in Below(irb, h.lib) PROVE q \in Lagging(h)
        OBVIOUS
      <3>1. q \in DOMAIN h.impliedIrb /\ irb[q] < h.lib /\ irb[q] >= h.impliedIrb[q]
        BY <1>3, <1>6 DEF Below
      <3>2. irb[q] \in Nat /\ h.impliedIrb[q] \in Nat
        BY <1>2, <1>3, <3>1, NumbersType
      <3> QED BY <1>2, <3>1, <3>2 DEF Lagging
    <2>2. Lagging(h) \in SUBSET DOMAIN irb
      BY <1>3 DEF Lagging
    <2>3. IsFiniteSet(Lagging(h)) /\ Cardinality(Lagging(h)) \in Nat
      BY <1>6, <2>2, FS_Subset, FS_CardinalityType
    <2>4. IsFiniteSet(Below(irb, h.lib)) /\ Cardinality(Below(irb, h.lib)) <= Cardinality(Lagging(h))
      BY <2>1, <2>3, FS_Subset
    <2>5. Cardinality(Below(irb, h.lib)) \in Nat /\ Cardinality(DOMAIN irb) \in Nat
      BY <1>6, <2>4, FS_CardinalityType
    <2>6. 3 * Cardinality(Lagging(h)) < Cardinality(DOMAIN irb)
      BY <1>3, <1>12 DEF Finality
    <2>7. 3 * Cardinality(Below(irb, h.lib)) < Cardinality(DOMAIN irb)
      BY <2>3, <2>4, <2>5, <2>6
    <2> QED BY <1>2, <1>7, <2>7
  <1> QED BY <1>8, <1>9, <1>10, <1>11, <1>12 DEF p, g

-----------------------------------------------------------------------------
\* set_confirmed

\* z counters are dropped, those of the blocks up to the newest that is complete; of the
\* others those confirmed are one less, and none becomes 0.
ConfirmedWindow(g, n, c, z) ==
    LET cc == g.confirmCount
    IN  /\ c.confirmCount \in Seq(Nat)
        /\ Len(c.confirmCount) = Len(cc) - z
        /\ \A i \in 1 .. Len(cc) - z :
              /\ c.confirmCount[i] = IF i + z >= Len(cc) - n THEN cc[i + z] - 1 ELSE cc[i + z]
              /\ c.confirmCount[i] > 0
        /\ z = 0 => c.proposed = g.proposed
        /\ z > 0 => /\ c.proposed = g.num - (Len(cc) - z)
                    /\ cc[z] = 1 /\ z >= Len(cc) - n

\* set_confirmed changes the proposed block and the window, and those as ConfirmedWindow says.
LEMMA SetConfirmed ==
    ASSUME NEW g \in Headers, NEW n \in Nat,
           Len(g.confirmCount) <= g.num,
           \A i \in 1 .. Len(g.confirmCount) : g.confirmCount[i] > 0
    PROVE  LET c == set_confirmed(g, n)
           IN  /\ c \in Headers
               /\ c = [g EXCEPT !.proposed = c.proposed, !.confirmCount = c.confirmCount]
               /\ \E z \in 0 .. Len(g.confirmCount) : ConfirmedWindow(g, n, c, z)
  <1> DEFINE cc == g.confirmCount
             L == Len(cc)
             from == Max({1, L - n})
             done == {i \in from .. L : cc[i] = 1}
             z == IF done = {} THEN 0 ELSE Max(done)
             first == IF done = {} THEN from ELSE z
             prop == IF done = {} THEN g.proposed ELSE g.num - (L - z)
             win == [i \in 1 .. L - z |-> IF i + z < first THEN cc[i + z] ELSE cc[i + z] - 1]
             c == set_confirmed(g, n)
  <1>1. cc \in Seq(Nat) /\ L \in Nat /\ g.num \in Nat /\ L <= g.num /\ g.proposed \in Nat
    BY DEF Headers
  <1>2. c = [g EXCEPT !.proposed = prop, !.confirmCount = win]
    BY DEF set_confirmed
  <1> HIDE DEF c
  <1>3. from \in Int /\ from >= 1 /\ \A i \in 1 .. L : i >= from <=> i >= L - n
    <2>1. L - n \in Int
      BY <1>1
    <2>2. from = IF 1 >= L - n THEN 1 ELSE L - n
      BY <2>1, MaxPair
    <2> HIDE DEF from
    <2> QED BY <1>1, <2>1, <2>2
  <1> HIDE DEF from
  <1>4. done # {} => z \in done /\ \A i \in done : i <= z
    <2> SUFFICES ASSUME done # {} PROVE z \in done /\ \A i \in done : i <= z
      OBVIOUS
    <2>1. done \subseteq Nat /\ \A i \in done : i <= L
      BY <1>1, <1>3
    <2>2. Max(done) \in done /\ \A i \in done : Max(done) >= i
      <3> HIDE DEF done
      <3> QED BY <1>1, <2>1, MaxOf
    <2>3. z = Max(done)
      OBVIOUS
    <2>4. \A i \in done : i \in Nat
      BY <2>1
    <2> HIDE DEF done, z
    <2> QED BY <2>2, <2>3, <2>4
  <1>5. done = {} => z = 0 /\ first = from /\ prop = g.proposed
    OBVIOUS
  <1>6. done # {} => first = z /\ prop = g.num - (L - z)
    OBVIOUS
  <1>7. \A i \in from .. L : cc[i] = 1 <=> i \in done
    OBVIOUS
  <1>8. \A i \in done : i \in from .. L /\ cc[i] = 1
    OBVIOUS
  <1>9. \A i \in 1 .. L : cc[i] \in Nat /\ cc[i] > 0
    BY <1>1
  <1> HIDE DEF z, first, prop, done, cc, L
  <1>10. done # {} => z \in 1 .. L /\ z >= from /\ cc[z] = 1
    <2> SUFFICES ASSUME done # {} PROVE z \in 1 .. L /\ z >= from /\ cc[z] = 1
      OBVIOUS
    <2>1. z \in from .. L /\ cc[z] = 1
      BY <1>4, <1>8
    <2> QED BY <1>1, <1>3, <2>1
  <1>11. z \in 0 .. L /\ (z > 0 => done # {})
    BY <1>1, <1>5, <1>10
  <1>12. first \in Int /\ \A i \in 1 .. L - z : i + z < first <=> i + z < L - n
    <2>1. CASE done = {}
      BY <1>1, <1>3, <1>5, <1>11, <2>1
    <2>2. CASE done # {}
      <3>1. z >= from /\ z \in 1 .. L /\ first = z
        BY <1>6, <1>10, <2>2
      <3>2. z >= L - n
        BY <1>3, <3>1
      <3> QED BY <1>1, <3>1, <3>2
    <2> QED BY <2>1, <2>2
  <1>13. \A i \in 1 .. L - z : i + z >= L - n => cc[i + z] # 1
    <2> SUFFICES ASSUME NEW i \in 1 .. L - z, i + z >= L - n, cc[i + z] = 1 PROVE FALSE
      OBVIOUS
    <2>1. i + z \in 1 .. L
      BY <1>1, <1>11
    <2>2. i + z \in 1 .. L /\ i + z >= from
      BY <1>3, <2>1
    <2>3. i + z \in done
      BY <1>1, <1>3, <1>7, <2>2
    <2> QED BY <1>4, <1>11, <2>3
  <1>14. \A i \in 1 .. L - z : cc[i + z] \in Nat /\ cc[i + z] > 0
    <2> SUFFICES ASSUME NEW i \in 1 .. L - z PROVE i + z \in 1 .. L
      BY <1>9
    <2> QED BY <1>1, <1>11
  <1>15. /\ win \in Seq(Nat) /\ Len(win) = L - z
         /\ \A i \in 1 .. L - z :
               /\ win[i] = IF i + z >= L - n THEN cc[i + z] - 1 ELSE cc[i + z]
               /\ win[i] > 0
    <2>1. \A i \in 1 .. L - z : /\ win[i] = IF i + z >= L - n THEN cc[i + z] - 1 ELSE cc[i + z]
                                /\ win[i] > 0 /\ win[i] \in Nat
      <3> SUFFICES ASSUME NEW i \in 1 .. L - z
                   PROVE  /\ win[i] = IF i + z >= L - n THEN cc[i + z] - 1 ELSE cc[i + z]
                          /\ win[i] > 0 /\ win[i] \in Nat
        OBVIOUS
      <3>1. win[i] = IF i + z < first THEN cc[i + z] ELSE cc[i + z] - 1
        OBVIOUS
      <3> HIDE DEF win
      <3>2. i + z \in Int /\ L - n \in Int
        BY <1>1, <1>11
      <3>3. win[i] = IF i + z >= L - n THEN cc[i + z] - 1 ELSE cc[i + z]
        BY <1>12, <3>1, <3>2
      <3>4. cc[i + z] \in Nat /\ cc[i + z] > 0 /\ (i + z >= L - n => cc[i + z] # 1)
        BY <1>13, <1>14
      <3> QED BY <3>3, <3>4
    <2>2. DOMAIN win = 1 .. L - z /\ L - z \in Nat
      BY <1>1, <1>11
    <2>3. win \in [1 .. L - z -> Nat]
      BY <2>1, <2>2
    <2> HIDE DEF win
    <2>4. win \in Seq(Nat) /\ Len(win) = L - z
      BY <2>2, <2>3
    <2> QED BY <2>1, <2>4
  <1>16. /\ prop \in Nat /\ (z = 0 => prop = g.proposed)
         /\ z > 0 => prop = g.num - (L - z) /\ cc[z] = 1 /\ z >= L - n
    <2>1. CASE done = {}
      BY <1>1, <1>5, <2>1
    <2>2. CASE done # {}
      <3>1. z \in 1 .. L /\ z >= from /\ cc[z] = 1
        BY <1>10, <2>2
      <3>2. z >= L - n
        BY <1>3, <3>1
      <3> QED BY <1>1, <1>6, <2>2, <3>1, <3>2
    <2> QED BY <2>1, <2>2
  <1> HIDE DEF win
  <1>17. c \in Headers /\ c.proposed = prop /\ c.confirmCount = win
    BY <1>2, <1>15, <1>16 DEF Headers
  <1>18. ConfirmedWindow(g, n, c, z)
    BY <1>15, <1>16, <1>17 DEF ConfirmedWindow, cc, L
  <1> QED BY <1>2, <1>11, <1>17, <1>18 DEF c, cc, L

-----------------------------------------------------------------------------
\* Who confirmed what

\* The history after a block of producer p that confirms the n blocks before it
ConfirmsAfter(n, p) ==
    [b \in DOMAIN confirms \cup {hs.num + 1} |->
        LET c == IF b = hs.num + 1 THEN [size |-> Len(hs.schedule), by |-> {}] ELSE confirms[b]
        IN  [c EXCEPT !.by = IF b \in ConfirmedBy(n) THEN @ \cup {p} ELSE @]]

\* Who needed to confirm block b, and who did before the next block
SizeOf(b) == IF b = hs.num + 1 THEN Len(hs.schedule) ELSE confirms[b].size
ByOf(b) == IF b = hs.num + 1 THEN {} ELSE confirms[b].by

\* The history of a block after another one: who had to confirm it is fixed, and the new
\* producer is added when the block is in its range.
LEMMA ConfirmsAfterFacts ==
    ASSUME IInv, NEW n \in Nat, NEW p \in Producers
    PROVE  LET conf == ConfirmsAfter(n, p)
           IN  /\ conf \in [BaseNum + 1 .. hs.num + 1 -> Confirmations]
               /\ \A b \in BaseNum + 1 .. hs.num + 1 :
                     /\ conf[b].size = SizeOf(b)
                     /\ conf[b].by = IF b >= hs.num + 1 - n THEN ByOf(b) \cup {p} ELSE ByOf(b)
                     /\ SizeOf(b) \in Nat
                     /\ IsFiniteSet(ByOf(b)) /\ IsFiniteSet(conf[b].by)
  <1> DEFINE conf == ConfirmsAfter(n, p)
  <1>1. /\ hs.num \in Nat /\ BaseNum \in Nat /\ BaseNum <= hs.num /\ Len(hs.schedule) \in Nat
        /\ confirms \in [BaseNum + 1 .. hs.num -> Confirmations]
    <2>1. hs \in Headers /\ Window(hs) /\ confirms \in [BaseNum + 1 .. hs.num -> Confirmations]
      BY DEF IInv, TypeOK
    <2>2. hs.num \in Nat /\ hs.proposed \in Nat /\ hs.schedule \in Schedules
      BY <2>1 DEF Headers
    <2> QED BY <2>1, <2>2, ScheduleFacts, ChainAssumption DEF Window
  <1>2. DOMAIN confirms \cup {hs.num + 1} = BaseNum + 1 .. hs.num + 1
    BY <1>1
  <1>3. ASSUME NEW b \in BaseNum + 1 .. hs.num + 1
        PROVE  /\ conf[b] \in Confirmations
               /\ conf[b].size = SizeOf(b)
               /\ conf[b].by = IF b >= hs.num + 1 - n THEN ByOf(b) \cup {p} ELSE ByOf(b)
               /\ SizeOf(b) \in Nat
               /\ IsFiniteSet(ByOf(b)) /\ IsFiniteSet(conf[b].by)
    <2> DEFINE old == IF b = hs.num + 1 THEN [size |-> Len(hs.schedule), by |-> {}] ELSE confirms[b]
    <2>1. b \in ConfirmedBy(n) <=> b >= hs.num + 1 - n
      BY <1>1 DEF ConfirmedBy
    <2>2. conf[b] = [old EXCEPT !.by = IF b \in ConfirmedBy(n) THEN old.by \cup {p} ELSE old.by]
      BY <1>2 DEF ConfirmsAfter
    <2>3. old \in Confirmations /\ old.size = SizeOf(b) /\ old.by = ByOf(b)
      BY <1>1 DEF Confirmations, SizeOf, ByOf
    <2>4. b # hs.num + 1 => b \in DOMAIN confirms
      BY <1>1
    <2>5. IsFiniteSet(ByOf(b))
      BY <2>4, FS_EmptySet DEF IInv, Counters, ByOf
    <2> HIDE DEF old, conf
    <2>6. /\ conf[b] \in Confirmations
          /\ conf[b].size = SizeOf(b)
          /\ conf[b].by = IF b >= hs.num + 1 - n THEN ByOf(b) \cup {p} ELSE ByOf(b)
          /\ SizeOf(b) \in Nat
      BY <2>1, <2>2, <2>3 DEF Confirmations
    <2>7. IsFiniteSet(ByOf(b) \cup {p})
      BY <2>5, FS_AddElement
    <2> QED BY <2>5, <2>6, <2>7
  <1>4. conf \in [BaseNum + 1 .. hs.num + 1 -> Confirmations]
    <2>1. DOMAIN conf = BaseNum + 1 .. hs.num + 1 /\ conf = [b \in DOMAIN conf |-> conf[b]]
      BY <1>2 DEF ConfirmsAfter
    <2> HIDE DEF conf
    <2> QED BY <1>3, <2>1
  <1> HIDE DEF conf
  <1> QED BY <1>3, <1>4 DEF conf

\* A producer that passes the check of next() has confirmed none of the blocks before.
LEMMA NotConfirmedYet ==
    ASSUME IInv, NEW n \in Nat, n <= hs.num + 1,
           NEW p \in ProducersOf(hs.schedule), ConfirmOk(hs, p, n),
           NEW b \in BaseNum + 1 .. hs.num + 1, b >= hs.num + 1 - n
    PROVE  p \notin ByOf(b)
  <1>1. /\ hs.num \in Nat /\ BaseNum \in Nat /\ hs.lastProduced \in Numbers
        /\ p \in DOMAIN hs.lastProduced
        /\ confirms \in [BaseNum + 1 .. hs.num -> Confirmations]
    BY ChainAssumption DEF IInv, TypeOK, Headers, Members
  <1>2. hs.lastProduced[p] \in Nat /\ hs.lastProduced[p] < hs.num + 1 - n
    BY <1>1, NumbersType DEF ConfirmOk
  <1> SUFFICES ASSUME p \in ByOf(b) PROVE FALSE
    OBVIOUS
  <1>3. b \in DOMAIN confirms /\ p \in confirms[b].by
    BY <1>1 DEF ByOf
  <1>4. b <= hs.lastProduced[p]
    BY <1>1, <1>3 DEF IInv, Confirmers
  <1> QED BY <1>1, <1>2, <1>4

\* The counters of generate_next, before the block confirms anything
LEMMA GeneratedCounters ==
    ASSUME IInv, NEW g \in Headers, g.confirmCount = grow_confirm_count(hs), g.num = hs.num + 1
    PROVE  /\ Len(g.confirmCount) \in Nat /\ Len(g.confirmCount) > 0
           /\ Len(g.confirmCount) <= MaxTracked
           /\ Len(g.confirmCount) <= g.num - hs.proposed
           /\ Len(g.confirmCount) < MaxTracked => Len(g.confirmCount) = g.num - hs.proposed
           /\ \A i \in 1 .. Len(g.confirmCount) :
                 /\ g.num - Len(g.confirmCount) + i \in BaseNum + 1 .. hs.num + 1
                 /\ g.confirmCount[i] \in Nat /\ g.confirmCount[i] > 0 /\ g.confirmCount[i] <= 255
                 /\ g.confirmCount[i] + Cardinality(ByOf(g.num - Len(g.confirmCount) + i))
                      = required_confs(SizeOf(g.num - Len(g.confirmCount) + i))
  <1> DEFINE cc == g.confirmCount
             L == Len(cc)
             old == hs.confirmCount
             H == Len(old)
             k == IF H < MaxTracked THEN 0 ELSE 1
             b(i) == g.num - L + i
  <1>1. /\ hs \in Headers /\ Window(hs) /\ hs.num \in Nat /\ hs.proposed \in Nat
        /\ hs.schedule \in Schedules /\ BaseNum \in Nat
        /\ MaxTracked \in Nat /\ MaxTracked > 0 /\ H \in Nat /\ old \in Seq(Nat)
    BY ChainAssumption, MaxTrackedAssumption DEF IInv, TypeOK, Headers
  <1>2. /\ cc \in Seq(Nat) /\ L = H + 1 - k
        /\ \A i \in 1 .. L - 1 : cc[i] = old[i + k]
        /\ cc[L] = required_confs(Len(hs.schedule))
    BY <1>1, GrownWindow
  <1>3. /\ BaseNum <= hs.proposed /\ hs.proposed <= hs.num /\ H <= MaxTracked
        /\ H <= hs.num - hs.proposed
        /\ H < MaxTracked => H = hs.num - hs.proposed
    BY <1>1 DEF Window
  <1>4. \A i \in 1 .. H : /\ old[i] \in Nat /\ old[i] > 0 /\ old[i] <= 255
                          /\ old[i] + Cardinality(confirms[hs.num - H + i].by)
                                = required_confs(confirms[hs.num - H + i].size)
    BY <1>1, SMTT(20) DEF IInv, Counters
  <1>5. k \in {0, 1} /\ (k = 0 <=> H < MaxTracked)
    OBVIOUS
  <1>6. L \in Nat /\ cc \in Seq(Nat)
    BY <1>1, <1>2, <1>5
  <1> HIDE DEF cc, L, old, H, k
  <1>7. /\ L > 0 /\ L <= MaxTracked /\ L <= g.num - hs.proposed
        /\ L < MaxTracked => L = g.num - hs.proposed
    BY <1>1, <1>2, <1>3, <1>5, SMTT(20)
  <1>8. ASSUME NEW i \in 1 .. L
        PROVE  /\ b(i) \in BaseNum + 1 .. hs.num + 1
               /\ cc[i] \in Nat /\ cc[i] > 0 /\ cc[i] <= 255
               /\ cc[i] + Cardinality(ByOf(b(i))) = required_confs(SizeOf(b(i)))
    <2>1. b(i) \in BaseNum + 1 .. hs.num + 1
      <3>1. L \in Nat /\ hs.num \in Nat /\ hs.proposed \in Nat /\ BaseNum \in Nat
        BY <1>1, <1>6
      <3>2. L <= (hs.num + 1) - hs.proposed /\ BaseNum <= hs.proposed
        BY <1>3, <1>7
      <3>3. (hs.num + 1) - L + i \in BaseNum + 1 .. hs.num + 1
        BY <3>1, <3>2
      <3> QED BY <3>3
    <2>2. CASE i = L
      <3>1. b(i) = hs.num + 1
        BY <1>1, <1>6, <2>2
      <3>2. ByOf(b(i)) = {} /\ SizeOf(b(i)) = Len(hs.schedule)
        BY <3>1 DEF ByOf, SizeOf
      <3>3. Len(hs.schedule) \in Nat /\ Len(hs.schedule) <= 125
        BY <1>1, ScheduleFacts
      <3>4. /\ required_confs(Len(hs.schedule)) \in Nat /\ required_confs(Len(hs.schedule)) > 0
            /\ required_confs(Len(hs.schedule)) <= 255
        BY <3>3, RequiredConfs
      <3>5. cc[i] = required_confs(Len(hs.schedule))
        BY <1>2, <2>2
      <3>6. Cardinality(ByOf(b(i))) = 0
        BY <3>2, FS_EmptySet
      <3> HIDE DEF b
      <3> QED BY <2>1, <3>2, <3>4, <3>5, <3>6
    <2>3. CASE i # L
      <3>1. i \in 1 .. L - 1 /\ k \in Int /\ H \in Nat /\ L = H + 1 - k /\ hs.num \in Nat /\ k >= 0
        BY <1>1, <1>2, <1>5, <1>6, <2>3
      <3>2. i \in 1 .. L - 1 /\ i + k \in 1 .. H /\ b(i) = hs.num - H + (i + k) /\ b(i) # hs.num + 1
        BY <3>1
      <3>3. ByOf(b(i)) = confirms[b(i)].by /\ SizeOf(b(i)) = confirms[b(i)].size
        BY <3>2 DEF ByOf, SizeOf
      <3>4. cc[i] = old[i + k]
        BY <1>2, <3>2
      <3> HIDE DEF b
      <3> QED BY <1>4, <2>1, <3>2, <3>3, <3>4
    <2> QED BY <2>2, <2>3
  <1> QED BY <1>6, <1>7, <1>8 DEF cc, L

\* After set_confirmed the counters are again what is missing, and the proposed block has
\* all it needs.
LEMMA CountersStep ==
    ASSUME IInv, NEW n \in Nat, n <= hs.num + 1,
           NEW p \in ProducersOf(hs.schedule), ConfirmOk(hs, p, n),
           NEW g \in Headers, g.confirmCount = grow_confirm_count(hs), g.num = hs.num + 1,
           g.proposed = hs.proposed,
           NEW c \in Headers, c.num = g.num,
           NEW z \in 0 .. Len(g.confirmCount), ConfirmedWindow(g, n, c, z)
    PROVE  /\ Window(c) /\ Counters(c, ConfirmsAfter(n, p))
           /\ c.proposed >= hs.proposed
  <1> DEFINE cc == g.confirmCount
             L == Len(cc)
             new == c.confirmCount
             conf == ConfirmsAfter(n, p)
             b(i) == g.num - L + i
  <1>1. /\ hs.num \in Nat /\ hs.proposed \in Nat /\ BaseNum \in Nat /\ MaxTracked \in Nat
        /\ BaseNum <= hs.proposed /\ hs.proposed <= hs.num /\ c.proposed \in Nat
        /\ p \in Producers
    <2>1. hs \in Headers /\ Window(hs)
      BY DEF IInv, TypeOK
    <2>2. p \in Producers
      BY <2>1, ScheduleFacts DEF Headers
    <2> QED BY <2>1, <2>2, ChainAssumption, MaxTrackedAssumption DEF Headers, Window
  <1>2. /\ L \in Nat /\ L > 0 /\ L <= MaxTracked /\ L <= g.num - hs.proposed
        /\ L < MaxTracked => L = g.num - hs.proposed
    BY GeneratedCounters
  <1>3. \A i \in 1 .. L : /\ b(i) \in BaseNum + 1 .. hs.num + 1
                          /\ cc[i] \in Nat /\ cc[i] > 0 /\ cc[i] <= 255
                          /\ cc[i] + Cardinality(ByOf(b(i))) = required_confs(SizeOf(b(i)))
    BY GeneratedCounters
  <1>4. /\ Len(new) = L - z
        /\ \A i \in 1 .. L - z : /\ new[i] = IF i + z >= L - n THEN cc[i + z] - 1 ELSE cc[i + z]
                                 /\ new[i] > 0
        /\ z = 0 => c.proposed = hs.proposed
        /\ z > 0 => c.proposed = g.num - (L - z) /\ cc[z] = 1 /\ z >= L - n
    BY DEF ConfirmedWindow
  <1>5. z \in 0 .. L
    OBVIOUS
  <1>6. DOMAIN conf = BaseNum + 1 .. hs.num + 1
    BY <1>1, ConfirmsAfterFacts
  <1>7. \A a \in BaseNum + 1 .. hs.num + 1 :
           /\ conf[a].size = SizeOf(a) /\ SizeOf(a) \in Nat
           /\ conf[a].by = IF a >= hs.num + 1 - n THEN ByOf(a) \cup {p} ELSE ByOf(a)
           /\ IsFiniteSet(ByOf(a)) /\ IsFiniteSet(conf[a].by)
    BY <1>1, ConfirmsAfterFacts, ZenonT(40)
  <1>8. \A a \in BaseNum + 1 .. hs.num + 1 :
           /\ Cardinality(ByOf(a)) \in Nat
           /\ Cardinality(conf[a].by) =
                 IF a >= hs.num + 1 - n THEN Cardinality(ByOf(a)) + 1 ELSE Cardinality(ByOf(a))
    <2> SUFFICES ASSUME NEW a \in BaseNum + 1 .. hs.num + 1
                 PROVE  /\ Cardinality(ByOf(a)) \in Nat
                        /\ Cardinality(conf[a].by) =
                              IF a >= hs.num + 1 - n THEN Cardinality(ByOf(a)) + 1 ELSE Cardinality(ByOf(a))
      OBVIOUS
    <2> HIDE DEF conf
    <2>1. Cardinality(ByOf(a)) \in Nat
      BY <1>7, FS_CardinalityType
    <2>2. CASE a >= hs.num + 1 - n
      <3>1. p \notin ByOf(a)
        BY <2>2, NotConfirmedYet
      <3>2. Cardinality(ByOf(a) \cup {p}) = Cardinality(ByOf(a)) + 1
        BY <1>7, <3>1, FS_AddElement
      <3> QED BY <1>7, <2>1, <2>2, <3>2
    <2>3. CASE ~(a >= hs.num + 1 - n)
      BY <1>7, <2>1, <2>3
    <2> QED BY <2>2, <2>3
  <1> HIDE DEF cc, L, new, conf
  <1>9. c.proposed >= hs.proposed /\ c.proposed <= c.num
    BY <1>1, <1>2, <1>4
  <1>10. Window(c)
    BY <1>1, <1>2, <1>4, <1>9, SMTT(20) DEF Window, new
  <1>11. ASSUME NEW i \in 1 .. L - z
         PROVE  /\ new[i] > 0 /\ new[i] <= 255
                /\ c.num - (L - z) + i = b(i + z)
                /\ new[i] + Cardinality(conf[b(i + z)].by) = required_confs(conf[b(i + z)].size)
    <2>1. i + z \in 1 .. L /\ c.num - (L - z) + i = b(i + z)
      BY <1>1, <1>2
    <2>2. i + z >= L - n <=> b(i + z) >= hs.num + 1 - n
      BY <1>1, <1>2, SMTT(20)
    <2>3. /\ b(i + z) \in BaseNum + 1 .. hs.num + 1
          /\ cc[i + z] \in Nat /\ cc[i + z] > 0 /\ cc[i + z] <= 255
          /\ cc[i + z] + Cardinality(ByOf(b(i + z))) = required_confs(SizeOf(b(i + z)))
      BY <1>3, <2>1
    <2> DEFINE a == b(i + z)
    <2>4. /\ Cardinality(ByOf(a)) \in Nat /\ conf[a].size = SizeOf(a)
          /\ Cardinality(conf[a].by) =
                IF a >= hs.num + 1 - n THEN Cardinality(ByOf(a)) + 1 ELSE Cardinality(ByOf(a))
      BY <1>7, <1>8, <2>3
    <2>5. new[i] = (IF i + z >= L - n THEN cc[i + z] - 1 ELSE cc[i + z]) /\ new[i] > 0
      BY <1>4
    <2> HIDE DEF b
    <2> QED BY <2>1, <2>2, <2>3, <2>4, <2>5
  <1>12. c.proposed > BaseNum =>
            Cardinality(conf[c.proposed].by) >= required_confs(conf[c.proposed].size)
    <2>1. CASE z = 0
      <3> SUFFICES ASSUME hs.proposed > BaseNum
                   PROVE  Cardinality(conf[hs.proposed].by) >= required_confs(conf[hs.proposed].size)
        BY <1>4, <2>1
      <3> DEFINE a == hs.proposed
      <3>1. a \in BaseNum + 1 .. hs.num + 1 /\ a # hs.num + 1
        BY <1>1
      <3>2. ByOf(a) = confirms[a].by /\ SizeOf(a) = confirms[a].size
        BY <3>1 DEF ByOf, SizeOf
      <3>3. Cardinality(confirms[a].by) >= required_confs(confirms[a].size)
        BY DEF IInv, Counters
      <3>4. /\ Cardinality(ByOf(a)) \in Nat /\ conf[a].size = SizeOf(a) /\ SizeOf(a) \in Nat
            /\ Cardinality(conf[a].by) =
                IF a >= hs.num + 1 - n THEN Cardinality(ByOf(a)) + 1 ELSE Cardinality(ByOf(a))
        BY <1>7, <1>8, <3>1
      <3>5. required_confs(SizeOf(a)) \in Nat
        BY <3>4, RequiredConfs
      <3> HIDE DEF a
      <3> QED BY <3>2, <3>3, <3>4, <3>5 DEF a
    <2>2. CASE z > 0
      <3> DEFINE a == b(z)
      <3>1. z \in 1 .. L /\ c.proposed = a /\ cc[z] = 1 /\ a >= hs.num + 1 - n
        <4>1. z \in 1 .. L
          BY <1>2, <1>5, <2>2
        <4>2. c.proposed = g.num - (L - z) /\ cc[z] = 1 /\ z >= L - n /\ g.num = hs.num + 1
          BY <1>4, <2>2
        <4>3. g.num - (L - z) = a
          BY <1>1, <1>2, <4>1, <4>2
        <4>4. a >= hs.num + 1 - n
          BY <1>1, <1>2, <4>1, <4>2, SMTT(20)
        <4> QED BY <4>1, <4>2, <4>3, <4>4
      <3>2. a \in BaseNum + 1 .. hs.num + 1 /\ 1 + Cardinality(ByOf(a)) = required_confs(SizeOf(a))
        BY <1>3, <3>1
      <3>3. /\ Cardinality(ByOf(a)) \in Nat /\ conf[a].size = SizeOf(a)
            /\ Cardinality(conf[a].by) = Cardinality(ByOf(a)) + 1
        BY <1>7, <1>8, <3>1, <3>2
      <3> HIDE DEF a
      <3> QED BY <3>1, <3>2, <3>3
    <2> QED BY <1>2, <2>1, <2>2
  <1>13. Counters(c, conf)
    <2>1. \A a \in DOMAIN conf : IsFiniteSet(conf[a].by)
      BY <1>6, <1>7
    <2> HIDE DEF b
    <2> QED BY <1>4, <1>11, <1>12, <2>1 DEF Counters, new
  <1> QED BY <1>9, <1>10, <1>13 DEF conf

-----------------------------------------------------------------------------
\* update_active_schedule and set_new_producers

\* What the activation of a schedule does to numbers of the producers
LEMMA RenewedFacts ==
    ASSUME NEW c \in Headers, c.pending \in Schedules, NEW m \in Numbers
    PROVE  /\ Renewed(m, c) \in Numbers
           /\ DOMAIN Renewed(m, c) = ProducersOf(c.pending)
           /\ \A p \in ProducersOf(c.pending) :
                 Renewed(m, c)[p] = IF p \in DOMAIN m THEN m[p] ELSE c.lib
  <1>1. ProducersOf(c.pending) \in SUBSET Producers /\ c.lib \in Nat
    BY ScheduleFacts DEF Headers
  <1>2. \A p \in DOMAIN m : m[p] \in Nat
    BY NumbersType
  <1> DEFINE P == ProducersOf(c.pending)
             r == [p \in P |-> IF p \in DOMAIN m THEN m[p] ELSE c.lib]
  <1>3. Renewed(m, c) = r
    BY DEF Renewed
  <1> HIDE DEF P
  <1>4. r \in [P -> Nat] /\ DOMAIN r = P
    BY <1>1, <1>2
  <1>5. r \in Numbers
    BY <1>1, <1>4 DEF Numbers, P
  <1> QED BY <1>3, <1>4, <1>5 DEF P

\* How far a round that follows missed slots is displaced
LEMMA Displacement ==
    ASSUME NEW c \in Headers, RoundEnded(c)
    PROVE  LET L == Len(c.schedule)
               d == ShuffleDisplacement(c)
           IN  /\ d \in Nat /\ d < L /\ d <= c.slot - (c.shuffled + L)
               /\ \E k \in Nat : c.slot = c.shuffled + L + (k * L) + d
  <1> DEFINE L == Len(c.schedule)
             x == c.slot - (c.shuffled + L)
  <1>1. c.slot \in Nat /\ c.shuffled \in Nat /\ L \in Nat /\ L > 0
    BY ScheduleFacts DEF Headers
  <1>2. x \in Nat
    BY <1>1 DEF RoundEnded
  <1>3. ShuffleDisplacement(c) = x % L
    BY DEF ShuffleDisplacement
  <1>4. c.slot = c.shuffled + L + x
    BY <1>1, <1>2
  <1> HIDE DEF x, L
  <1>5. x % L \in Nat /\ x % L < L /\ x \div L \in Nat /\ x = (x \div L) * L + (x % L)
    BY <1>1, <1>2
  <1>6. x % L <= x
    <2> DEFINE q == x \div L
               r == x % L
    <2>1. q \in Nat /\ r \in Nat /\ x = (q * L) + r /\ q * L \in Nat
      BY <1>1, <1>5
    <2> HIDE DEF q, r
    <2>2. r <= x
      BY <2>1
    <2> QED BY <2>2 DEF r
  <1>7. c.slot = c.shuffled + L + ((x \div L) * L) + (x % L)
    <2> DEFINE y == (x \div L) * L
               r == x % L
    <2>1. y \in Nat /\ x = y + r /\ r \in Nat
      <3>1. x \div L \in Nat /\ L \in Nat
        BY <1>1, <1>5
      <3> QED BY <1>5, <3>1
    <2> HIDE DEF y, r
    <2>2. c.slot = c.shuffled + L + y + r
      BY <1>1, <1>4, <2>1
    <2> QED BY <2>2 DEF y, r
  <1> QED BY <1>3, <1>5, <1>6, <1>7 DEF x, L

\* How the schedule and its round change
NewRound(c, u) ==
    \/ Promotes(c) /\ u.shuffled = c.slot /\ u.pending = <<>>
    \/ /\ ~Promotes(c) /\ RoundEnded(c) /\ u.pending = c.pending
       /\ u.shuffled = c.slot - ShuffleDisplacement(c)
       /\ IsShuffle(u.schedule, c.schedule, ShuffleDisplacement(c))
    \/ /\ ~Promotes(c) /\ ~RoundEnded(c) /\ u.pending = c.pending
       /\ u.shuffled = c.shuffled /\ u.schedule = c.schedule

\* update_active_schedule keeps the finality and who confirmed what, also when it replaces the
\* schedule and forgets producers.
LEMMA UpdateActive ==
    ASSUME NEW c \in Headers, Members(c), Finality(c), c.pendingNum <= c.num,
           NEW order \in ShuffleOrders(c, Schedules),
           NEW conf, Confirmers(c, conf), \A b \in DOMAIN conf : b \in Nat /\ b <= c.num
    PROVE  LET u == update_active_schedule(c, order)
           IN  /\ u \in Headers /\ Members(u) /\ Finality(u) /\ Confirmers(u, conf)
               /\ u.num = c.num /\ u.slot = c.slot /\ u.lib = c.lib
               /\ u.proposed = c.proposed /\ u.confirmCount = c.confirmCount
               /\ u.pendingNum = c.pendingNum
               /\ NewRound(c, u)
  <1> DEFINE u == update_active_schedule(c, order)
  <1>1. /\ c.schedule \in Schedules /\ c.slot \in Nat /\ c.shuffled \in Nat /\ c.num \in Nat
        /\ c.lib \in Nat /\ c.proposed \in Nat /\ c.pendingNum \in Nat
        /\ c.lastProduced \in Numbers /\ c.impliedIrb \in Numbers /\ c.producer \in Producers
        /\ c.pending \in Schedules \cup {<<>>}
    BY DEF Headers
  <1>2. CASE Promotes(c)
    <2>1. c.pending \in Schedules /\ c.pending # <<>> /\ c.lib >= c.pendingNum
      BY <1>1, <1>2 DEF Promotes
    <2>2. order \in Schedules /\ ProducersOf(order) = ProducersOf(c.pending)
      BY <1>2 DEF ShuffleOrders, IsShuffle
    <2> DEFINE P == ProducersOf(c.pending)
               irb == Renewed(c.impliedIrb, c)
    <2>3. /\ irb \in Numbers /\ DOMAIN irb = P
          /\ \A p \in P : irb[p] = IF p \in DOMAIN c.impliedIrb THEN c.impliedIrb[p] ELSE c.lib
      BY <1>1, <2>1, RenewedFacts
    <2> DEFINE r == Renewed(c.lastProduced, c)
               last == With(r, c.producer, c.num)
    <2>4. /\ r \in Numbers /\ DOMAIN r = P
          /\ \A p \in P : r[p] = IF p \in DOMAIN c.lastProduced THEN c.lastProduced[p] ELSE c.lib
      BY <1>1, <2>1, RenewedFacts
    <2> HIDE DEF r, irb, P
    <2>5. last \in Numbers /\ DOMAIN last = P \cup {c.producer}
      <3>1. c.producer \in Producers /\ c.num \in Nat
        BY <1>1
      <3> DEFINE k == c.producer
                 v == c.num
      <3> HIDE DEF k, v
      <3>2. With(r, k, v) \in Numbers
        BY <2>4, <3>1, WithType DEF k, v
      <3> QED BY <2>4, <3>2 DEF With, k, v
    <2>6. last[c.producer] = c.num /\ \A x \in P \ {c.producer} : last[x] = r[x]
      BY <2>4 DEF With
    <2>7. u = [c EXCEPT !.schedule = order, !.pending = <<>>, !.shuffled = c.slot,
                        !.lastProduced = last, !.impliedIrb = irb]
      BY <1>2 DEF update_active_schedule, irb, r
    <2> HIDE DEF last, u
    <2>8. /\ u \in Headers
          /\ u.schedule = order /\ u.pending = <<>> /\ u.shuffled = c.slot
          /\ u.lastProduced = last /\ u.impliedIrb = irb
          /\ u.num = c.num /\ u.slot = c.slot /\ u.lib = c.lib
          /\ u.proposed = c.proposed /\ u.confirmCount = c.confirmCount
          /\ u.pendingNum = c.pendingNum
      BY <1>1, <2>2, <2>3, <2>5, <2>7 DEF Headers
    <2>9. Members(u)
      BY <2>2, <2>3, <2>5, <2>8 DEF Members, P
    <2>10. Finality(u)
      <3>1. \A p \in P : irb[p] <= c.proposed
        BY <1>1, <2>3 DEF Finality
      <3>2. ASSUME ~MayShrink PROVE 3 * Cardinality(Lagging(u)) < Cardinality(DOMAIN irb)
        <4>1. Lagging(u) \in SUBSET Lagging(c)
          BY <1>1, <2>3, <2>8 DEF Lagging
        <4>2. Lagging(c) \in SUBSET DOMAIN c.impliedIrb
          BY DEF Lagging
        <4>3. /\ IsFiniteSet(DOMAIN c.impliedIrb)
              /\ Cardinality(DOMAIN c.impliedIrb) = Len(c.schedule) /\ Len(c.schedule) \in Nat
          BY <1>1, ScheduleFacts DEF Members
        <4>4. Cardinality(DOMAIN irb) = Len(c.pending) /\ Len(c.pending) \in Nat
          BY <2>1, <2>3, ScheduleFacts DEF P
        <4>5. IsFiniteSet(Lagging(c)) /\ Cardinality(Lagging(c)) \in Nat
          BY <4>2, <4>3, FS_Subset, FS_CardinalityType
        <4>6. IsFiniteSet(Lagging(u)) /\ Cardinality(Lagging(u)) <= Cardinality(Lagging(c))
          BY <4>1, <4>5, FS_Subset
        <4>7. Cardinality(Lagging(u)) \in Nat
          BY <4>6, FS_CardinalityType
        <4>8. 3 * Cardinality(Lagging(c)) < Len(c.schedule) /\ Len(c.pending) >= Len(c.schedule)
          BY <2>1, <3>2, <4>3 DEF Finality
        <4> QED BY <4>3, <4>4, <4>5, <4>6, <4>7, <4>8
      <3> QED BY <2>3, <2>8, <3>1, <3>2 DEF Finality
    <2>11. Confirmers(u, conf)
      <3> SUFFICES ASSUME NEW b \in DOMAIN conf, NEW p \in conf[b].by, p \in DOMAIN last
                   PROVE  b <= last[p]
        BY <2>8 DEF Confirmers
      <3>1. CASE p = c.producer
        BY <2>6, <3>1
      <3>2. CASE p # c.producer /\ p \in DOMAIN c.lastProduced
        <4>1. last[p] = c.lastProduced[p]
          BY <2>4, <2>5, <2>6, <3>2
        <4> QED BY <3>2, <4>1 DEF Confirmers
      <3>3. CASE p # c.producer /\ p \notin DOMAIN c.lastProduced
        <4>1. last[p] = c.lib
          BY <2>4, <2>5, <2>6, <3>3
        <4>2. b <= c.pendingNum
          BY <2>1, <3>3 DEF Confirmers
        <4> QED BY <1>1, <2>1, <4>1, <4>2
      <3> QED BY <3>1, <3>2, <3>3
    <2>12. NewRound(c, u)
      BY <1>2, <2>8 DEF NewRound
    <2> QED BY <2>8, <2>9, <2>10, <2>11, <2>12 DEF u
  <1>3. CASE ~Promotes(c) /\ RoundEnded(c)
    <2> DEFINE d == ShuffleDisplacement(c)
    <2>1. order \in Schedules /\ IsShuffle(order, c.schedule, d)
      BY <1>3 DEF ShuffleOrders
    <2>2. ProducersOf(order) = ProducersOf(c.schedule) /\ Len(order) = Len(c.schedule)
      BY <2>1 DEF IsShuffle
    <2>3. u = [c EXCEPT !.schedule = order, !.shuffled = c.slot - d]
      BY <1>3 DEF update_active_schedule
    <2>4. c.slot - d \in Nat
      <3>1. d \in Nat /\ d <= c.slot - (c.shuffled + Len(c.schedule))
        BY <1>3, Displacement
      <3>2. Len(c.schedule) \in Nat
        BY <1>1, ScheduleFacts
      <3> HIDE DEF d
      <3> QED BY <1>1, <3>1, <3>2
    <2> HIDE DEF d, u
    <2>5. /\ u \in Headers
          /\ u.schedule = order /\ u.pending = c.pending /\ u.shuffled = c.slot - d
          /\ u.lastProduced = c.lastProduced /\ u.impliedIrb = c.impliedIrb
          /\ u.num = c.num /\ u.slot = c.slot /\ u.lib = c.lib
          /\ u.proposed = c.proposed /\ u.confirmCount = c.confirmCount
          /\ u.pendingNum = c.pendingNum
      BY <2>1, <2>3, <2>4 DEF Headers
    <2>6. Members(u)
      BY <2>2, <2>5 DEF Members
    <2>7. Finality(u)
      BY <2>2, <2>5 DEF Finality, Lagging
    <2>8. Confirmers(u, conf)
      BY <2>5 DEF Confirmers
    <2>9. NewRound(c, u)
      BY <1>3, <2>1, <2>5 DEF NewRound, d
    <2> QED BY <2>5, <2>6, <2>7, <2>8, <2>9 DEF u
  <1>4. CASE ~Promotes(c) /\ ~RoundEnded(c)
    BY <1>4 DEF update_active_schedule, NewRound
  <1> QED BY <1>2, <1>3, <1>4

-----------------------------------------------------------------------------
\* Rounds

\* The remainder of a multiple of L and less than L
LEMMA ModUnique ==
    ASSUME NEW L \in Nat, L > 0, NEW m \in Nat, NEW r \in Nat, r < L
    PROVE  ((m * L) + r) % L = r
  <1> DEFINE x == (m * L) + r
             q == x \div L
             e == x % L
  <1>1. x \in Nat /\ m * L \in Nat
    BY SMT
  <1>2. x = (m * L) + r
    OBVIOUS
  <1> HIDE DEF x
  <1>3. q \in Nat /\ e \in Nat /\ e < L /\ x = (q * L) + e /\ q * L \in Nat
    BY <1>1
  <1> HIDE DEF q, e
  <1>4. CASE q = m
    BY <1>1, <1>2, <1>3, <1>4 DEF e, x
  <1>5. CASE q > m
    <2>1. PICK t \in Nat : q = m + 1 + t
      <3>1. q - m - 1 \in Nat /\ q = m + 1 + (q - m - 1)
        BY <1>3, <1>5
      <3> QED BY <3>1
    <2>2. q * L = (m * L) + L + (t * L) /\ t * L \in Nat
      BY <2>1
    <2> QED BY <1>1, <1>2, <1>3, <2>2
  <1>6. CASE q < m
    <2>1. PICK t \in Nat : m = q + 1 + t
      <3>1. m - q - 1 \in Nat /\ m = q + 1 + (m - q - 1)
        BY <1>3, <1>6
      <3> QED BY <3>1
    <2>2. m * L = (q * L) + L + (t * L) /\ t * L \in Nat
      BY <1>3, <2>1
    <2> QED BY <1>1, <1>2, <1>3, <2>2
  <1> QED BY <1>3, <1>4, <1>5, <1>6

\* A block stays in its slot of the round, whether the round goes on, is over, or begins
\* with a new schedule.
LEMMA RoundsStep ==
    ASSUME IInv, NEW slot \in Nat, slot > hs.slot,
           NEW c \in Headers, c.slot = slot, c.schedule = hs.schedule, c.shuffled = hs.shuffled,
           NEW u \in Headers, u.slot = slot, NewRound(c, u)
    PROVE  Rounds(u, With(lastSlot, get_scheduled_producer(hs, slot), slot))
  <1> DEFINE p == get_scheduled_producer(hs, slot)
             last == With(lastSlot, p, slot)
             L == Len(hs.schedule)
             sh == hs.shuffled
  <1>1. /\ hs \in Headers /\ hs.slot \in Nat /\ sh \in Nat /\ hs.schedule \in Schedules
        /\ L \in Nat /\ L > 0 /\ lastSlot \in Numbers
        /\ sh <= hs.slot /\ hs.slot < sh + L
    <2>1. hs \in Headers /\ Rounds(hs, lastSlot) /\ lastSlot \in Numbers
      BY DEF IInv, TypeOK
    <2>2. hs.slot \in Nat /\ sh \in Nat /\ hs.schedule \in Schedules
      BY <2>1 DEF Headers
    <2> QED BY <2>1, <2>2, ScheduleFacts DEF Rounds
  <1>2. \A q \in DOMAIN lastSlot :
           /\ lastSlot[q] \in Nat /\ lastSlot[q] <= hs.slot
           /\ lastSlot[q] > sh => hs.schedule[lastSlot[q] - sh] = q
    BY <1>1, NumbersType DEF IInv, Rounds
  <1>3. /\ DOMAIN last = DOMAIN lastSlot \cup {p}
        /\ last[p] = slot /\ \A q \in DOMAIN lastSlot \ {p} : last[q] = lastSlot[q]
    BY DEF With
  <1>4. p = hs.schedule[((slot - (sh + 1)) % L) + 1]
    BY DEF get_scheduled_producer
  <1> HIDE DEF p, last, L, sh
  <1> SUFFICES Rounds(u, last)
    BY DEF p, last
  <1>5. /\ u.schedule \in Schedules /\ Len(u.schedule) \in Nat /\ Len(u.schedule) > 0
    BY ScheduleFacts DEF Headers
  <1>6. \A q \in DOMAIN last : last[q] \in Nat /\ last[q] <= slot
    BY <1>1, <1>2, <1>3
  <1>7. CASE u.shuffled = slot
    BY <1>5, <1>6, <1>7 DEF Rounds
  <1>8. CASE /\ RoundEnded(c) /\ u.shuffled = c.slot - ShuffleDisplacement(c)
             /\ IsShuffle(u.schedule, c.schedule, ShuffleDisplacement(c))
    <2> DEFINE d == ShuffleDisplacement(c)
    <2>1. d \in Nat /\ d < L /\ \E k \in Nat : slot = sh + L + (k * L) + d
      BY <1>8, Displacement DEF L, sh
    <2> HIDE DEF d
    <2>2. PICK k \in Nat : slot = sh + L + (k * L) + d
      BY <2>1
    <2>3. k * L \in Nat
      BY <1>1, <2>2
    <2>4. u.shuffled = slot - d /\ slot - d = sh + L + (k * L)
      BY <1>1, <1>8, <2>1, <2>2, <2>3 DEF d
    <2>5. Len(u.schedule) = L /\ SubSeq(u.schedule, 1, d) = SubSeq(hs.schedule, 1, d)
      BY <1>8 DEF IsShuffle, d, L
    <2>6. \A q \in DOMAIN last : last[q] > u.shuffled => q = p /\ d > 0
      BY <1>1, <1>2, <1>3, <2>1, <2>3, <2>4
    <2>7. ASSUME d > 0 PROVE u.schedule[d] = p
      <3>1. slot - (sh + 1) = ((k + 1) * L) + (d - 1)
        <4>1. (k + 1) * L = (k * L) + L
          BY <1>1, <2>2
        <4> DEFINE m == k * L
        <4> HIDE DEF m
        <4>2. slot = sh + L + m + d /\ m \in Nat
          BY <2>2, <2>3 DEF m
        <4>3. slot - (sh + 1) = (m + L) + (d - 1)
          BY <1>1, <2>1, <4>2
        <4> QED BY <4>1, <4>3 DEF m
      <3>2. (((k + 1) * L) + (d - 1)) % L = d - 1
        <4>1. k + 1 \in Nat /\ d - 1 \in Nat /\ d - 1 < L
          BY <1>1, <2>1, <2>2, <2>7
        <4> QED BY <1>1, <4>1, ModUnique
      <3>3. p = hs.schedule[d]
        <4>1. (d - 1) + 1 = d
          BY <2>1
        <4> QED BY <1>4, <3>1, <3>2, <4>1
      <3>4. hs.schedule \in Seq(ProducersOf(hs.schedule)) /\ u.schedule \in Seq(ProducersOf(u.schedule))
        BY <1>1, <1>5, SchedulesAssumption
      <3>5. ASSUME NEW S, NEW s \in Seq(S), Len(s) = L PROVE SubSeq(s, 1, d)[d] = s[d]
        BY <1>1, <2>1, <2>7, <3>5
      <3>6. SubSeq(u.schedule, 1, d)[d] = u.schedule[d] /\ SubSeq(hs.schedule, 1, d)[d] = hs.schedule[d]
        <4>1. Len(hs.schedule) = L
          BY DEF L
        <4>2. SubSeq(u.schedule, 1, d)[d] = u.schedule[d]
          BY <2>5, <3>4, <3>5, Zenon
        <4>3. SubSeq(hs.schedule, 1, d)[d] = hs.schedule[d]
          BY <4>1, <3>4, <3>5, Zenon
        <4> QED BY <4>2, <4>3
      <3> QED BY <2>5, <3>3, <3>6
    <2>8. slot - u.shuffled = d
      BY <1>1, <2>1, <2>4
    <2>9. u.shuffled <= slot /\ slot < u.shuffled + Len(u.schedule)
      BY <1>1, <2>1, <2>4, <2>5
    <2>10. ASSUME NEW q \in DOMAIN last, last[q] > u.shuffled
           PROVE  u.schedule[last[q] - u.shuffled] = q
      <3>1. q = p /\ d > 0 /\ last[q] = slot
        BY <1>3, <2>6, <2>10
      <3> QED BY <2>7, <2>8, <3>1
    <2> QED BY <1>6, <2>9, <2>10 DEF Rounds
  <1>9. CASE ~RoundEnded(c) /\ u.shuffled = c.shuffled /\ u.schedule = c.schedule
    <2>1. slot < sh + L
      BY <1>1, <1>9 DEF RoundEnded, L, sh
    <2>2. p = hs.schedule[slot - sh]
      <3> DEFINE x == slot - (sh + 1)
      <3>1. x \in Nat /\ x < L /\ x + 1 = slot - sh
        BY <1>1, <2>1
      <3> HIDE DEF x
      <3>2. x % L = x
        BY <1>1, <3>1
      <3> QED BY <1>4, <3>1, <3>2 DEF x
    <2>3. u.shuffled = sh /\ u.schedule = hs.schedule /\ Len(u.schedule) = L
      BY <1>9 DEF sh, L
    <2>4. \A q \in DOMAIN last : last[q] > sh => hs.schedule[last[q] - sh] = q
      BY <1>2, <1>3, <2>2
    <2>5. u.shuffled <= slot /\ slot < u.shuffled + Len(u.schedule)
      BY <1>1, <2>1, <2>3
    <2> QED BY <1>6, <2>3, <2>4, <2>5 DEF Rounds
  <1> QED BY <1>7, <1>8, <1>9 DEF NewRound

-----------------------------------------------------------------------------
\* The invariant is inductive

\* The state after the promotion of the first schedule satisfies the invariant.
LEMMA InitIInv == Init => IInv
  <1> SUFFICES ASSUME Init PROVE IInv
    OBVIOUS
  <1>1. PICK s \in FirstSchedules : hs = Bootstrapped(s, System, BaseNum)
    BY DEF Init
  <1>2. s \in Schedules /\ BaseNum \in Nat /\ BaseNum > 0 /\ BaseNum - 1 \in Nat
    BY SchedulesAssumption, ChainAssumption
  <1> DEFINE P == ProducersOf(s)
             irb == [p \in P |-> BaseNum - 1]
             last == With(irb, System, BaseNum)
  <1>3. P \in SUBSET Producers /\ IsFiniteSet(P) /\ Cardinality(P) = Len(s) /\ Len(s) \in Nat /\ Len(s) > 0
    BY <1>2, ScheduleFacts
  <1>4. System \in Producers
    BY DEF Producers
  <1>5. hs = [num |-> BaseNum, slot |-> BaseNum, producer |-> System,
              schedule |-> s, shuffled |-> BaseNum, pending |-> <<>>, pendingNum |-> 0,
              lastProduced |-> last, impliedIrb |-> irb,
              confirmCount |-> <<>>, proposed |-> BaseNum, lib |-> BaseNum - 1]
    BY <1>1 DEF Bootstrapped
  <1> HIDE DEF P
  <1>6. irb \in Numbers /\ DOMAIN irb = P /\ \A p \in P : irb[p] = BaseNum - 1
    <2>1. irb \in [P -> Nat]
      BY <1>2
    <2> QED BY <1>3, <2>1 DEF Numbers
  <1> HIDE DEF irb
  <1>7. last \in Numbers /\ DOMAIN last = P \cup {System}
    BY <1>2, <1>4, <1>6, WithType, Zenon
  <1> HIDE DEF last
  <1>8. confirms = [n \in {} |-> [size |-> 1, by |-> {}]] /\ DOMAIN confirms = {}
    BY DEF Init
  <1>9. /\ lastSlot = [p \in {} |-> 0] /\ DOMAIN lastSlot = {}
        /\ builtOn = [p \in {} |-> 0]
    BY DEF Init
  <1>10. hs \in Headers
    <2>1. <<>> \in Seq(Nat)
      OBVIOUS
    <2> QED BY <1>2, <1>4, <1>5, <1>6, <1>7, <2>1 DEF Headers
  <1>11. TypeOK
    <2>1. BaseNum + 1 .. hs.num = {}
      BY <1>2, <1>5
    <2>2. confirms \in [{} -> Confirmations]
      BY <1>8
    <2>3. lastSlot \in [{} -> Nat] /\ builtOn \in [{} -> Nat] /\ {} \in SUBSET Producers
      BY <1>9
    <2>4. lastSlot \in Numbers /\ builtOn \in Numbers
      BY <2>3 DEF Numbers
    <2> QED BY <1>10, <2>1, <2>2, <2>4 DEF TypeOK
  <1>12. Members(hs)
    BY <1>5, <1>6, <1>7 DEF Members, P
  <1>13. Finality(hs)
    <2>1. Lagging(hs) = {}
      BY <1>2, <1>5, <1>6 DEF Lagging
    <2>2. Cardinality(Lagging(hs)) = 0
      BY <2>1, FS_EmptySet
    <2>3. \A p \in DOMAIN hs.impliedIrb : hs.impliedIrb[p] <= hs.proposed
      BY <1>2, <1>5, <1>6
    <2>4. 3 * Cardinality(Lagging(hs)) < Cardinality(DOMAIN hs.impliedIrb)
      BY <1>3, <1>5, <1>6, <2>2
    <2> QED BY <1>2, <1>5, <2>3, <2>4 DEF Finality
  <1>14. hs.pendingNum <= hs.num
    BY <1>2, <1>5
  <1>15. Len(hs.confirmCount) = 0
    BY <1>5
  <1>16. Window(hs)
    BY <1>2, <1>5, <1>15, MaxTrackedAssumption DEF Window
  <1>17. Counters(hs, confirms)
    BY <1>2, <1>5, <1>8, <1>15 DEF Counters
  <1>18. Confirmers(hs, confirms)
    BY <1>8 DEF Confirmers
  <1>19. Rounds(hs, lastSlot)
    BY <1>2, <1>3, <1>5, <1>9 DEF Rounds
  <1>20. Backed(hs, builtOn, hs.lib)
    BY <1>2, <1>5, <1>6 DEF Backed
  <1> QED BY <1>11, <1>12, <1>13, <1>14, <1>16, <1>17, <1>18, <1>19, <1>20 DEF IInv

\* The head after set_confirmed: whatever depends on the confirmations holds again, and the
\* rest is as generate_next left it.
LEMMA ConfirmedHead ==
    ASSUME IInv, NEW slot \in Nat, slot > hs.slot, NEW n \in Nat, n <= hs.num + 1,
           ConfirmOk(hs, get_scheduled_producer(hs, slot), n)
    PROVE  LET p == get_scheduled_producer(hs, slot)
               c == set_confirmed(generate_next(hs, slot), n)
           IN  /\ c \in Headers /\ Members(c) /\ Finality(c) /\ Window(c)
               /\ Counters(c, ConfirmsAfter(n, p)) /\ Confirmers(c, ConfirmsAfter(n, p))
               /\ c.num = hs.num + 1 /\ c.slot = slot
               /\ c.schedule = hs.schedule /\ c.shuffled = hs.shuffled
               /\ c.pendingNum = hs.pendingNum
               /\ c.impliedIrb = With(hs.impliedIrb, p, hs.proposed)
               /\ ~MayShrink => c.lib >= hs.lib
  <1> DEFINE p == get_scheduled_producer(hs, slot)
             g == generate_next(hs, slot)
             c == set_confirmed(g, n)
             conf == ConfirmsAfter(n, p)
  <1>1. /\ hs \in Headers /\ hs.num \in Nat /\ hs.slot \in Nat /\ hs.shuffled \in Nat
        /\ hs.proposed \in Nat /\ hs.lastProduced \in Numbers /\ hs.shuffled < slot
        /\ hs.pending \in Schedules \cup {<<>>} /\ hs.pendingNum \in Nat /\ hs.pendingNum <= hs.num
    <2>1. hs \in Headers /\ Rounds(hs, lastSlot) /\ hs.pendingNum <= hs.num
      BY DEF IInv, TypeOK
    <2> QED BY <2>1 DEF Headers, Rounds
  <1>2. p \in ProducersOf(hs.schedule) /\ p \in Producers
    BY <1>1, ScheduledProducer
  <1>3. g \in Headers /\ Members(g) /\ Finality(g) /\ (~MayShrink => g.lib >= hs.lib)
    BY <1>1, GenerateNext DEF IInv
  <1>4. /\ g.num = hs.num + 1 /\ g.slot = slot /\ g.schedule = hs.schedule /\ g.shuffled = hs.shuffled
        /\ g.pending = hs.pending /\ g.pendingNum = hs.pendingNum /\ g.proposed = hs.proposed
        /\ g.lastProduced = With(hs.lastProduced, p, hs.num + 1)
        /\ g.confirmCount = grow_confirm_count(hs)
        /\ g.impliedIrb = With(hs.impliedIrb, p, hs.proposed)
    BY DEF generate_next
  <1> HIDE DEF g
  <1>5. /\ Len(g.confirmCount) \in Nat /\ Len(g.confirmCount) <= g.num
        /\ \A i \in 1 .. Len(g.confirmCount) : g.confirmCount[i] > 0
    <2>1. Len(g.confirmCount) \in Nat /\ Len(g.confirmCount) <= g.num - hs.proposed
      BY <1>3, <1>4, GeneratedCounters
    <2>2. \A i \in 1 .. Len(g.confirmCount) : g.confirmCount[i] > 0
      BY <1>3, <1>4, GeneratedCounters
    <2> QED BY <1>1, <1>4, <2>1, <2>2
  <1>6. /\ c \in Headers
        /\ c = [g EXCEPT !.proposed = c.proposed, !.confirmCount = c.confirmCount]
        /\ \E z \in 0 .. Len(g.confirmCount) : ConfirmedWindow(g, n, c, z)
    BY <1>3, <1>5, SetConfirmed
  <1> HIDE DEF c
  <1>7. /\ c.num = g.num /\ c.slot = g.slot /\ c.schedule = g.schedule /\ c.shuffled = g.shuffled
        /\ c.pending = g.pending /\ c.pendingNum = g.pendingNum
        /\ c.lastProduced = g.lastProduced /\ c.impliedIrb = g.impliedIrb /\ c.lib = g.lib
    BY <1>3, <1>6 DEF Headers
  <1>8. Window(c) /\ Counters(c, conf) /\ c.proposed >= hs.proposed
    <2>1. PICK z \in 0 .. Len(g.confirmCount) : ConfirmedWindow(g, n, c, z)
      BY <1>6
    <2> HIDE DEF p
    <2> QED BY <1>2, <1>3, <1>4, <1>6, <1>7, <2>1, CountersStep DEF p
  <1>9. Members(c)
    BY <1>3, <1>7 DEF Members
  <1>10. Finality(c)
    <2>1. c.proposed \in Nat /\ c.lib \in Nat /\ g.lib <= hs.proposed
      BY <1>3, <1>4, <1>6, <1>7 DEF Headers, Finality
    <2>2. \A q \in DOMAIN g.impliedIrb : g.impliedIrb[q] \in Nat /\ g.impliedIrb[q] <= hs.proposed
      BY <1>3, <1>4, NumbersType DEF Headers, Finality
    <2>3. c.lib <= c.proposed
      BY <1>1, <1>7, <1>8, <2>1
    <2>4. \A q \in DOMAIN c.impliedIrb : c.impliedIrb[q] <= c.proposed
      BY <1>1, <1>7, <1>8, <2>1, <2>2
    <2>5. Lagging(c) = Lagging(g)
      BY <1>7 DEF Lagging
    <2> QED BY <1>3, <1>7, <2>3, <2>4, <2>5 DEF Finality
  <1>11. Confirmers(c, conf)
    <2>1. conf \in [BaseNum + 1 .. hs.num + 1 -> Confirmations]
      BY <1>2, ConfirmsAfterFacts
    <2>2. \A b \in BaseNum + 1 .. hs.num + 1 :
             conf[b].by = IF b >= hs.num + 1 - n THEN ByOf(b) \cup {p} ELSE ByOf(b)
      BY <1>2, ConfirmsAfterFacts
    <2>3. /\ DOMAIN c.lastProduced = DOMAIN hs.lastProduced \cup {p}
          /\ c.lastProduced[p] = hs.num + 1
          /\ \A q \in DOMAIN hs.lastProduced \ {p} : c.lastProduced[q] = hs.lastProduced[q]
      BY <1>4, <1>7 DEF With
    <2> HIDE DEF conf, p
    <2> SUFFICES ASSUME NEW b \in DOMAIN conf, NEW q \in conf[b].by
                 PROVE  IF q \in DOMAIN c.lastProduced THEN b <= c.lastProduced[q]
                        ELSE c.pending # <<>> => b <= c.pendingNum
      BY DEF Confirmers
    <2>4. b \in BaseNum + 1 .. hs.num + 1 /\ BaseNum \in Nat /\ b \in Int /\ b <= hs.num + 1
      BY <1>1, <2>1, ChainAssumption
    <2>5. CASE q = p
      BY <2>3, <2>4, <2>5
    <2>6. CASE q # p
      <3>1. q \in ByOf(b)
        BY <2>2, <2>4, <2>6
      <3>2. b # hs.num + 1 /\ q \in confirms[b].by
        BY <3>1 DEF ByOf
      <3>3. b \in DOMAIN confirms
        BY <1>1, <2>4, <3>2 DEF IInv, TypeOK
      <3>4. IF q \in DOMAIN hs.lastProduced THEN b <= hs.lastProduced[q]
            ELSE hs.pending # <<>> => b <= hs.pendingNum
        BY <3>2, <3>3 DEF IInv, Confirmers
      <3> QED BY <1>4, <1>7, <2>3, <2>6, <3>4
    <2> QED BY <2>5, <2>6
  <1> QED BY <1>3, <1>4, <1>6, <1>7, <1>8, <1>9, <1>10, <1>11 DEF p, g, c, conf

\* More than two thirds of the scheduled producers made a block that had l, or a later block,
\* proposed.
MadeByTwoThirds(built, l) ==
    3 * Cardinality({p \in ProducersOf(hs.schedule) \cap DOMAIN built : built[p] >= l})
        > 2 * Len(hs.schedule)

\* If the irreversible block of c is above l and who is ahead of l made its blocks, then more
\* than two thirds of the producers made theirs.
LEMMA LibIsMade ==
    ASSUME ~MayShrink, hs \in Headers,
           NEW c \in Headers, Members(c), Finality(c), c.schedule = hs.schedule,
           NEW built \in Numbers, NEW l \in Nat, c.lib > l, Backed(c, built, l)
    PROVE  MadeByTwoThirds(built, c.lib)
  <1> DEFINE D == ProducersOf(hs.schedule)
             A == {p \in D \cap DOMAIN built : built[p] >= c.lib}
             B == Lagging(c)
             n == Len(hs.schedule)
  <1>1. /\ c.lib \in Nat /\ c.impliedIrb \in Numbers /\ hs.schedule \in Schedules
        /\ D = DOMAIN c.impliedIrb
    BY DEF Headers, Members
  <1>2. \A p \in D : c.impliedIrb[p] \in Nat
    BY <1>1, NumbersType
  <1>3. IsFiniteSet(D) /\ Cardinality(D) = n /\ n \in Nat
    BY <1>1, ScheduleFacts
  <1>4. 3 * Cardinality(B) < n /\ B \subseteq D
    BY <1>1, <1>3 DEF Finality, Lagging
  <1>5. D \ B \subseteq A
    <2> SUFFICES ASSUME NEW p \in D, p \notin B PROVE p \in A
      OBVIOUS
    <2>1. c.impliedIrb[p] >= c.lib
      BY <1>1, <1>2 DEF Lagging
    <2>2. p \in DOMAIN built /\ built[p] >= c.impliedIrb[p]
      BY <1>1, <1>2, <2>1 DEF Backed
    <2>3. built[p] \in Nat
      BY <2>2, NumbersType
    <2> QED BY <1>1, <1>2, <2>1, <2>2, <2>3
  <1>6. A \subseteq D
    OBVIOUS
  <1> HIDE DEF A, B, D, n
  <1>7. /\ IsFiniteSet(A) /\ IsFiniteSet(B) /\ IsFiniteSet(D \ B)
        /\ Cardinality(A) \in Nat /\ Cardinality(B) \in Nat
    BY <1>3, <1>4, <1>6, FS_Subset, FS_Difference, FS_CardinalityType
  <1>8. Cardinality(D \ B) = n - Cardinality(B)
    <2>1. D \cap B = B
      BY <1>4
    <2> QED BY <1>3, <2>1, FS_Difference
  <1>9. Cardinality(D \ B) <= Cardinality(A)
    BY <1>5, <1>7, FS_Subset
  <1>10. 3 * Cardinality(A) > 2 * n
    BY <1>3, <1>4, <1>7, <1>8, <1>9
  <1> QED BY <1>10 DEF MadeByTwoThirds, A, D, n

\* A block of a producer backs the entry it gets, and an activated schedule enters the others
\* at the irreversible block.
LEMMA BackedHead ==
    ASSUME IInv, ~MayShrink, NEW p \in Producers, NEW c \in Headers, Members(c), Finality(c),
           c.schedule = hs.schedule, c.impliedIrb = With(hs.impliedIrb, p, hs.proposed),
           c.lib >= hs.lib, NEW order, NEW u, u = update_active_schedule(c, order)
    PROVE  /\ Backed(u, With(builtOn, p, hs.proposed), c.lib)
           /\ c.lib > hs.lib => MadeByTwoThirds(With(builtOn, p, hs.proposed), c.lib)
  <1> DEFINE built == With(builtOn, p, hs.proposed)
  <1>1. /\ hs \in Headers /\ hs.lib \in Nat /\ hs.proposed \in Nat /\ hs.impliedIrb \in Numbers
        /\ builtOn \in Numbers /\ Backed(hs, builtOn, hs.lib)
    BY DEF IInv, TypeOK, Headers
  <1>2. c.lib \in Nat /\ c.impliedIrb \in Numbers /\ c.pending \in Schedules \cup {<<>>}
    BY DEF Headers
  <1>3. /\ built \in Numbers /\ DOMAIN built = DOMAIN builtOn \cup {p}
        /\ built[p] = hs.proposed /\ \A x \in DOMAIN builtOn \ {p} : built[x] = builtOn[x]
    BY <1>1, WithType, ZenonT(40)
  <1>4. /\ DOMAIN c.impliedIrb = DOMAIN hs.impliedIrb \cup {p}
        /\ c.impliedIrb[p] = hs.proposed
        /\ \A x \in DOMAIN hs.impliedIrb \ {p} : c.impliedIrb[x] = hs.impliedIrb[x]
    <2> DEFINE m == hs.impliedIrb
               v == hs.proposed
    <2>1. m \in Numbers /\ v \in Nat
      BY <1>1
    <2>2. c.impliedIrb = With(m, p, v)
      OBVIOUS
    <2> HIDE DEF m, v
    <2>3. /\ DOMAIN With(m, p, v) = DOMAIN m \cup {p} /\ With(m, p, v)[p] = v
          /\ \A x \in DOMAIN m \ {p} : With(m, p, v)[x] = m[x]
      BY <2>1, WithType, ZenonT(40)
    <2> QED BY <2>2, <2>3 DEF m, v
  <1> HIDE DEF built
  <1>5. Backed(c, built, hs.lib)
    BY <1>1, <1>3, <1>4 DEF Backed
  <1>6. c.lib > hs.lib => MadeByTwoThirds(built, c.lib)
    BY <1>1, <1>3, <1>5, LibIsMade
  <1>7. Backed(c, built, c.lib)
    <2>1. \A x \in DOMAIN c.impliedIrb : c.impliedIrb[x] \in Nat
      BY <1>2, NumbersType
    <2> QED BY <1>1, <1>2, <1>5, <2>1 DEF Backed
  <1>8. Backed(u, built, c.lib)
    <2>1. CASE Promotes(c)
      <3>1. c.pending \in Schedules
        BY <1>2, <2>1 DEF Promotes
      <3>2. u.impliedIrb = Renewed(c.impliedIrb, c)
        BY <2>1 DEF update_active_schedule, Headers
      <3>3. /\ DOMAIN u.impliedIrb = ProducersOf(c.pending)
            /\ \A q \in ProducersOf(c.pending) :
                  u.impliedIrb[q] = IF q \in DOMAIN c.impliedIrb THEN c.impliedIrb[q] ELSE c.lib
        BY <1>2, <3>1, <3>2, RenewedFacts
      <3> QED BY <1>2, <1>7, <3>3 DEF Backed
    <2>2. CASE ~Promotes(c)
      <3>1. u.impliedIrb = c.impliedIrb
        BY <2>2 DEF update_active_schedule, Headers
      <3> QED BY <1>7, <3>1 DEF Backed
    <2> QED BY <2>1, <2>2
  <1> QED BY <1>6, <1>8 DEF built

\* The invariant after the block, for a new head u
LEMMA NewHead ==
    ASSUME IInv, NEW slot \in Nat, slot > hs.slot, NEW n \in Nat, n <= hs.num + 1,
           ConfirmOk(hs, get_scheduled_producer(hs, slot), n),
           NEW order \in ShuffleOrders(set_confirmed(generate_next(hs, slot), n), Schedules)
    PROVE  LET p    == get_scheduled_producer(hs, slot)
               conf == ConfirmsAfter(n, p)
               u    == update_active_schedule(set_confirmed(generate_next(hs, slot), n), order)
           IN  /\ u \in Headers /\ Members(u) /\ u.pendingNum <= u.num /\ Finality(u) /\ Window(u)
               /\ Counters(u, conf) /\ Confirmers(u, conf) /\ Rounds(u, With(lastSlot, p, slot))
               /\ u.num = hs.num + 1
               /\ ~MayShrink => u.lib >= hs.lib
               /\ ~MayShrink => Backed(u, With(builtOn, p, hs.proposed), u.lib)
               /\ ~MayShrink /\ u.lib > hs.lib => MadeByTwoThirds(With(builtOn, p, hs.proposed), u.lib)
  <1> DEFINE p == get_scheduled_producer(hs, slot)
             c == set_confirmed(generate_next(hs, slot), n)
             conf == ConfirmsAfter(n, p)
             u == update_active_schedule(c, order)
  <1>1. /\ hs \in Headers /\ hs.num \in Nat /\ hs.pendingNum \in Nat /\ hs.pendingNum <= hs.num
        /\ hs.shuffled \in Nat /\ hs.slot \in Nat /\ hs.shuffled < slot
    <2>1. hs \in Headers /\ Rounds(hs, lastSlot) /\ hs.pendingNum <= hs.num
      BY DEF IInv, TypeOK
    <2> QED BY <2>1 DEF Headers, Rounds
  <1>2. p \in Producers
    BY <1>1, ScheduledProducer
  <1>3. /\ c \in Headers /\ Members(c) /\ Finality(c) /\ Window(c)
        /\ Counters(c, conf) /\ Confirmers(c, conf)
        /\ c.num = hs.num + 1 /\ c.slot = slot
        /\ c.schedule = hs.schedule /\ c.shuffled = hs.shuffled
        /\ c.pendingNum = hs.pendingNum
        /\ c.impliedIrb = With(hs.impliedIrb, p, hs.proposed)
        /\ ~MayShrink => c.lib >= hs.lib
    BY ConfirmedHead, Zenon
  <1>4. conf \in [BaseNum + 1 .. hs.num + 1 -> Confirmations]
    BY <1>2, ConfirmsAfterFacts
  <1>5. order \in ShuffleOrders(c, Schedules)
    OBVIOUS
  <1> HIDE DEF c, conf
  <1>6. \A b \in DOMAIN conf : b \in Nat /\ b <= c.num
    BY <1>1, <1>3, <1>4, ChainAssumption
  <1>7. c.pendingNum <= c.num
    BY <1>1, <1>3
  <1>8. /\ u \in Headers /\ Members(u) /\ Finality(u) /\ Confirmers(u, conf)
        /\ u.num = c.num /\ u.slot = c.slot /\ u.lib = c.lib
        /\ u.proposed = c.proposed /\ u.confirmCount = c.confirmCount
        /\ u.pendingNum = c.pendingNum
        /\ NewRound(c, u)
    BY <1>3, <1>5, <1>6, <1>7, UpdateActive
  <1>9. ASSUME ~MayShrink
         PROVE  /\ Backed(u, With(builtOn, p, hs.proposed), c.lib)
                /\ c.lib > hs.lib => MadeByTwoThirds(With(builtOn, p, hs.proposed), c.lib)
    <2>1. u = update_active_schedule(c, order) /\ c.lib >= hs.lib
      BY <1>3, <1>9
    <2> HIDE DEF u, p
    <2> QED BY <1>2, <1>3, <1>9, <2>1, BackedHead
  <1> HIDE DEF u
  <1>10. Window(u)
    BY <1>3, <1>8 DEF Window
  <1>11. Counters(u, conf)
    BY <1>3, <1>8 DEF Counters
  <1>12. Rounds(u, With(lastSlot, p, slot))
    BY <1>3, <1>8, RoundsStep
  <1> QED BY <1>3, <1>7, <1>8, <1>10, <1>11, <1>12, <1>9 DEF c, conf, u

\* A step is a block whose new head is as UpdateActive leaves it, but for a schedule that
\* becomes pending.
LEMMA NextFacts ==
    ASSUME IInv, Next
    PROVE  /\ IInv'
           /\ ~MayShrink => hs'.lib >= hs.lib
           /\ ~MayShrink /\ hs'.lib > hs.lib => MadeByTwoThirds(builtOn', hs'.lib)
  <1>1. /\ hs \in Headers /\ hs.num \in Nat /\ hs.slot \in Nat /\ hs.schedule \in Schedules
        /\ lastSlot \in Numbers /\ hs.shuffled \in Nat /\ hs.shuffled <= hs.slot
        /\ builtOn \in Numbers /\ hs.proposed \in Nat
    <2>1. hs \in Headers /\ Rounds(hs, lastSlot) /\ lastSlot \in Numbers /\ builtOn \in Numbers
      BY DEF IInv, TypeOK
    <2> QED BY <2>1 DEF Headers, Rounds
  <1>2. Bound.skip \in Nat /\ Bound.confirmed \in Nat
    BY <1>1, ChainAssumption DEF Bound
  <1>3. PICK slot \in hs.slot + 1 .. hs.slot + Bound.skip, n \in 0 .. Min({hs.num + 1, Bound.confirmed}) :
           NextBlock(slot, n)
    BY DEF Next
  <1>4. slot \in Nat /\ slot > hs.slot /\ n \in Nat /\ n <= hs.num + 1
    <2>1. Min({hs.num + 1, Bound.confirmed}) =
             IF hs.num + 1 <= Bound.confirmed THEN hs.num + 1 ELSE Bound.confirmed
      BY <1>1, <1>2, MinPair
    <2> QED BY <1>1, <1>2, <1>3, <2>1
  <1> DEFINE p == get_scheduled_producer(hs, slot)
             c == set_confirmed(generate_next(hs, slot), n)
             conf == ConfirmsAfter(n, p)
  <1>5. /\ ConfirmOk(hs, p, n)
        /\ \E u \in {update_active_schedule(c, order) : order \in ShuffleOrders(c, Schedules)} :
              \/ hs' = u
              \/ \E new \in NewSchedules :
                    /\ ~Promotes(c) /\ u.pending = <<>>
                    /\ MayShrink \/ Len(new) >= Len(u.schedule)
                    /\ hs' = set_new_producers(u, new)
        /\ confirms' = conf
        /\ lastSlot' = With(lastSlot, p, slot)
        /\ builtOn' = With(builtOn, p, hs.proposed)
    BY <1>3 DEF NextBlock, ConfirmsAfter
  <1>6. PICK order \in ShuffleOrders(c, Schedules) :
           LET u == update_active_schedule(c, order)
           IN  \/ hs' = u
               \/ \E new \in NewSchedules :
                     /\ ~Promotes(c) /\ u.pending = <<>>
                     /\ MayShrink \/ Len(new) >= Len(u.schedule)
                     /\ hs' = set_new_producers(u, new)
    BY <1>5
  <1> DEFINE u == update_active_schedule(c, order)
  <1>7. /\ u \in Headers /\ Members(u) /\ u.pendingNum <= u.num /\ Finality(u) /\ Window(u)
        /\ Counters(u, conf) /\ Confirmers(u, conf) /\ Rounds(u, With(lastSlot, p, slot))
        /\ u.num = hs.num + 1
        /\ ~MayShrink => u.lib >= hs.lib
        /\ ~MayShrink => Backed(u, With(builtOn, p, hs.proposed), u.lib)
        /\ ~MayShrink /\ u.lib > hs.lib => MadeByTwoThirds(With(builtOn, p, hs.proposed), u.lib)
    BY <1>4, <1>5, <1>6, NewHead
  <1>8. p \in Producers
    BY <1>1, <1>4, ScheduledProducer
  <1>9. conf \in [BaseNum + 1 .. hs.num + 1 -> Confirmations]
    BY <1>4, <1>8, ConfirmsAfterFacts
  <1>10. With(lastSlot, p, slot) \in Numbers /\ With(builtOn, p, hs.proposed) \in Numbers
    BY <1>1, <1>4, <1>8, WithType
  <1>11. \/ hs' = u
         \/ \E new \in NewSchedules :
               /\ u.pending = <<>>
               /\ MayShrink \/ Len(new) >= Len(u.schedule)
               /\ hs' = set_new_producers(u, new)
    BY <1>6
  <1> HIDE DEF c, conf, u, p
  <1>12. CASE hs' = u
    <2>1. TypeOK'
      BY <1>5, <1>7, <1>9, <1>10, <1>12 DEF TypeOK
    <2>2. Members(hs') /\ Finality(hs') /\ Window(hs') /\ hs'.pendingNum <= hs'.num
      BY <1>7, <1>12
    <2>3. ~MayShrink => Backed(hs', builtOn', hs'.lib)
      BY <1>5, <1>7, <1>12, Zenon
    <2>4. ~MayShrink /\ hs'.lib > hs.lib => MadeByTwoThirds(builtOn', hs'.lib)
      BY <1>5, <1>7, <1>12, Zenon
    <2>5. Counters(hs', confirms') /\ Confirmers(hs', confirms') /\ Rounds(hs', lastSlot')
      BY <1>5, <1>7, <1>12
    <2> QED BY <1>7, <1>12, <2>1, <2>2, <2>5, <2>3, <2>4 DEF IInv
  <1>13. ASSUME NEW new \in NewSchedules, u.pending = <<>>,
                MayShrink \/ Len(new) >= Len(u.schedule), hs' = set_new_producers(u, new)
         PROVE  /\ IInv'
                /\ ~MayShrink => hs'.lib >= hs.lib
                /\ ~MayShrink /\ hs'.lib > hs.lib => MadeByTwoThirds(builtOn', hs'.lib)
    <2>1. new \in Schedules
      BY SchedulesAssumption
    <2>2. /\ hs' \in Headers
          /\ hs'.num = u.num /\ hs'.slot = u.slot /\ hs'.schedule = u.schedule
          /\ hs'.shuffled = u.shuffled /\ hs'.pending = new /\ hs'.pendingNum = u.num
          /\ hs'.lastProduced = u.lastProduced /\ hs'.impliedIrb = u.impliedIrb
          /\ hs'.confirmCount = u.confirmCount /\ hs'.proposed = u.proposed /\ hs'.lib = u.lib
      BY <1>7, <1>13, <2>1 DEF set_new_producers, Headers
    <2>3. TypeOK'
      BY <1>5, <1>7, <1>9, <1>10, <2>2 DEF TypeOK
    <2>4. Members(hs') /\ Window(hs') /\ hs'.pendingNum <= hs'.num
      BY <1>1, <1>7, <2>2 DEF Members, Window
    <2>5. Finality(hs')
      <3>1. Lagging(hs') = Lagging(u)
        BY <2>2 DEF Lagging
      <3> QED BY <1>7, <1>13, <2>2, <3>1 DEF Finality
    <2>6. Counters(hs', confirms')
      BY <1>5, <1>7, <2>2 DEF Counters
    <2>7. Confirmers(hs', confirms')
      <3>1. \A b \in DOMAIN conf : b <= u.num
        BY <1>1, <1>7, <1>9, ChainAssumption
      <3> QED BY <1>5, <1>7, <2>2, <3>1 DEF Confirmers
    <2>8. Rounds(hs', lastSlot')
      BY <1>5, <1>7, <2>2 DEF Rounds
    <2>9. ~MayShrink => Backed(hs', builtOn', hs'.lib)
      <3> SUFFICES ASSUME ~MayShrink PROVE Backed(hs', builtOn', hs'.lib)
        OBVIOUS
      <3>1. Backed(u, With(builtOn, p, hs.proposed), u.lib)
        BY <1>7, Zenon
      <3> QED BY <1>5, <2>2, <3>1 DEF Backed
    <2>10. ~MayShrink /\ hs'.lib > hs.lib => MadeByTwoThirds(builtOn', hs'.lib)
      BY <1>5, <1>7, <2>2, Zenon
    <2> QED BY <1>7, <2>2, <2>3, <2>4, <2>5, <2>6, <2>7, <2>8, <2>9, <2>10 DEF IInv
  <1> QED BY <1>11, <1>12, <1>13

\* Every reachable head satisfies the invariant.
THEOREM HeaderInvariant == Spec => []IInv
  <1>1. IInv /\ UNCHANGED vars => IInv'
    BY DEF vars, IInv, TypeOK
  <1>2. IInv /\ [Next]_vars => IInv'
    BY <1>1, NextFacts
  <1> QED BY InitIInv, <1>2, PTL DEF Spec

-----------------------------------------------------------------------------
\* What the invariant is for

\* A block is proposed irreversible only after more than two thirds of the producers scheduled
\* when it was made confirmed it, and the counters of set_confirmed never wrap.
THEOREM ProposedNeedsTwoThirds == Spec => []ProposedByTwoThirds
  <1>1. ASSUME IInv PROVE ProposedByTwoThirds
    <2>1. /\ hs \in Headers /\ hs.num \in Nat /\ hs.proposed \in Nat /\ hs.confirmCount \in Seq(Nat)
          /\ confirms \in [BaseNum + 1 .. hs.num -> Confirmations]
          /\ Window(hs) /\ Counters(hs, confirms) /\ BaseNum \in Nat /\ MaxTracked \in Nat
      BY <1>1, ChainAssumption, MaxTrackedAssumption DEF IInv, TypeOK, Headers
    <2>2. hs.proposed > BaseNum =>
             3 * Cardinality(confirms[hs.proposed].by) > 2 * confirms[hs.proposed].size
      <3> SUFFICES ASSUME hs.proposed > BaseNum
                   PROVE  3 * Cardinality(confirms[hs.proposed].by) > 2 * confirms[hs.proposed].size
        OBVIOUS
      <3> DEFINE k == Cardinality(confirms[hs.proposed].by)
                 m == confirms[hs.proposed].size
                 r == required_confs(m)
      <3>1. hs.proposed \in DOMAIN confirms
        BY <2>1 DEF Window
      <3>2. m \in Nat /\ IsFiniteSet(confirms[hs.proposed].by) /\ k >= r
        BY <2>1, <3>1 DEF Confirmations, Counters
      <3>3. k \in Nat
        BY <3>2, FS_CardinalityType
      <3>4. r \in Nat /\ 3 * r > 2 * m
        BY <3>2, RequiredConfs
      <3> HIDE DEF k, m, r
      <3>5. 3 * k > 2 * m
        BY <3>2, <3>3, <3>4
      <3> QED BY <3>5 DEF k, m
    <2>3. Len(hs.confirmCount) = Min({MaxTracked, hs.num - hs.proposed})
      <3> DEFINE L == Len(hs.confirmCount)
                 d == hs.num - hs.proposed
      <3>1. L \in Nat /\ d \in Int /\ L <= MaxTracked /\ L <= d /\ (L < MaxTracked => L = d)
        BY <2>1 DEF Window
      <3> HIDE DEF L, d
      <3>2. Min({MaxTracked, d}) = IF MaxTracked <= d THEN MaxTracked ELSE d
        BY <2>1, <3>1, MinPair
      <3>3. L = Min({MaxTracked, d})
        BY <2>1, <3>1, <3>2
      <3> QED BY <3>3 DEF L, d
    <2>4. ASSUME NEW i \in 1 .. Len(hs.confirmCount) PROVE hs.confirmCount[i] \in 1 .. 255
      <3> DEFINE v == hs.confirmCount[i]
      <3>1. v \in Nat /\ v > 0 /\ v <= 255
        BY <2>1, <2>4 DEF Counters
      <3> HIDE DEF v
      <3>2. v \in 1 .. 255
        BY <3>1
      <3> QED BY <3>2 DEF v
    <2> QED BY <2>2, <2>3, <2>4 DEF ProposedByTwoThirds
  <1> QED BY HeaderInvariant, <1>1, PTL

\* While schedules do not shrink, a block becomes irreversible only when more than two thirds
\* of the scheduled producers themselves made a block after it was proposed, whatever entries
\* update_active_schedule gave to producers of a new schedule.
THEOREM IrreversibleNeedsTwoThirds ==
    ASSUME ~MayShrink
    PROVE  Spec => IrreversibleByTwoThirds
  <1>1. ASSUME IInv, Next
        PROVE  hs'.lib > hs.lib => MadeByTwoThirds(builtOn', hs'.lib)
    BY <1>1, NextFacts
  <1>2. ASSUME IInv, [Next]_vars
        PROVE  [hs'.lib > hs.lib =>
                  3 * Cardinality({p \in ProducersOf(hs.schedule) \cap DOMAIN builtOn' : builtOn'[p] >= hs'.lib})
                    > 2 * Len(hs.schedule)]_vars
    BY <1>1, <1>2 DEF MadeByTwoThirds
  <1> QED BY HeaderInvariant, <1>2, PTL DEF Spec, IrreversibleByTwoThirds

\* While schedules do not shrink, the irreversible block of calc_dpos_last_irreversible never
\* moves back.
THEOREM IrreversibleNeverMovesBack ==
    ASSUME ~MayShrink
    PROVE  Spec => IrreversibleAdvances
  <1>1. ASSUME IInv, [Next]_vars PROVE [hs'.lib >= hs.lib]_vars
    BY <1>1, NextFacts
  <1> QED BY HeaderInvariant, <1>1, PTL DEF Spec, IrreversibleAdvances

\* Every producer has one slot per round: who made a block in this round is scheduled at the
\* slot it used and at no other, although update_active_schedule shuffles in its middle.
THEOREM OneSlotEach == Spec => []OneSlotPerRound
  <1>1. ASSUME IInv PROVE OneSlotPerRound
    <2> DEFINE L == Len(hs.schedule)
               sh == hs.shuffled
    <2>1. /\ hs.slot \in Nat /\ sh \in Nat /\ hs.schedule \in Schedules
          /\ L \in Nat /\ L > 0 /\ lastSlot \in Numbers /\ Rounds(hs, lastSlot)
      <3>1. hs \in Headers /\ Rounds(hs, lastSlot) /\ lastSlot \in Numbers
        BY <1>1 DEF IInv, TypeOK
      <3> QED BY <3>1, ScheduleFacts DEF Headers
    <2>2. /\ sh <= hs.slot /\ hs.slot < sh + L
          /\ \A p \in DOMAIN lastSlot :
                /\ lastSlot[p] \in Nat /\ lastSlot[p] <= hs.slot
                /\ lastSlot[p] > sh => hs.schedule[lastSlot[p] - sh] = p
      BY <2>1, NumbersType DEF Rounds
    <2>3. \A i, j \in 1 .. L : hs.schedule[i] = hs.schedule[j] => i = j
      BY <2>1, SchedulesAssumption
    <2>4. \A s : get_scheduled_producer(hs, s) = hs.schedule[((s - (sh + 1)) % L) + 1]
      BY DEF get_scheduled_producer
    <2> HIDE DEF L, sh
    <2>5. ASSUME NEW s \in sh + 1 .. sh + L
          PROVE  get_scheduled_producer(hs, s) = hs.schedule[s - sh]
      <3> DEFINE x == s - (sh + 1)
      <3>1. x \in Nat /\ x < L /\ x + 1 = s - sh
        BY <2>1
      <3> HIDE DEF x
      <3>2. x % L = x
        BY <2>1, <3>1
      <3> QED BY <2>4, <3>1, <3>2 DEF x
    <2>6. ASSUME NEW p \in DOMAIN lastSlot, lastSlot[p] > sh
          PROVE  {s \in sh + 1 .. sh + L : get_scheduled_producer(hs, s) = p} = {lastSlot[p]}
      <3>1. lastSlot[p] \in sh + 1 .. sh + L /\ hs.schedule[lastSlot[p] - sh] = p
        BY <2>1, <2>2, <2>6
      <3>2. ASSUME NEW s \in sh + 1 .. sh + L, hs.schedule[s - sh] = p
            PROVE  s = lastSlot[p]
        <4>1. s - sh \in 1 .. L /\ lastSlot[p] - sh \in 1 .. L
          BY <2>1, <3>1
        <4>2. s - sh = lastSlot[p] - sh
          BY <2>3, <3>1, <3>2, <4>1
        <4> QED BY <2>1, <2>2, <4>2
      <3> QED BY <2>5, <3>1, <3>2
    <2>7. hs.slot - sh \in 0 .. L - 1
      BY <2>1, <2>2
    <2> QED BY <2>6, <2>7 DEF OneSlotPerRound, L, sh
  <1> QED BY HeaderInvariant, <1>1, PTL

=============================================================================
