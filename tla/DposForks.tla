----------------------------- MODULE DposForks ------------------------------
(***************************************************************************)
(* A network that was split: the node of module ForkDatabase, which        *)
(* produces for Me, and the other producers, which see each other, each    *)
(* build on what they know.  Then the node receives the blocks of the      *)
(* others, oldest first, and once it follows their chain all of them       *)
(* produce on it again.  All producers follow the rules of                 *)
(* producer_plugin.cpp for their watermarks, and the last irreversible     *)
(* block of every block is the one block_header_state.cpp computes.        *)
(*                                                                         *)
(* Before the split all producers were restarted and made one block each.  *)
(* A restarted producer has lost its watermark and confirms nothing with   *)
(* its first block.  Slots may be missed, so any producer may be next.     *)
(***************************************************************************)
EXTENDS ForkDatabase, BlockHeaderState

CONSTANTS
    Schedule,       \* the producers, in the order of their first blocks
    Me,             \* the producer of the node
    System,         \* the producer of the genesis schedule
    MaxApart        \* bound: the last block number the two sides reach apart

VARIABLES
    split,          \* the two sides do not see each other
    far,            \* the chain of the other producers
    headers,        \* block_header_state of every block
    watermarks      \* _producer_watermarks of each producer's own node

vars == <<node, split, far, headers, watermarks>>

\* The next slot of producer p
SlotOf(hs, p) == CHOOSE s \in hs.slot + 1 .. hs.slot + Len(hs.schedule) :
                    get_scheduled_producer(hs, s) = p

\* A block of p that confirms n blocks.  The schedule does not change, and slots that are
\* missed make up for its shuffles.
HeaderOf(hs, p, n) ==
    update_active_schedule(set_confirmed(generate_next(hs, SlotOf(hs, p)), n), hs.schedule)

\* The chain before the split
FirstHeaders[i \in 0 .. Len(Schedule)] ==
    IF i = 0 THEN Bootstrapped(Schedule, System, RootNum)
    ELSE HeaderOf(FirstHeaders[i - 1], Schedule[i], 0)

Trunk == [i \in 1 .. Len(Schedule) |-> Label(Schedule[i], FirstHeaders[i].lib, TRUE)]

Init ==
    /\ \E t \in Trials : node = Started(Trunk, t)
    /\ split = TRUE
    /\ far = Trunk
    /\ headers = [b \in Ancestors(Trunk) |-> FirstHeaders[Len(b)]]
    /\ watermarks = [p \in ProducersOf(Schedule) |->
                        RootNum + (CHOOSE i \in 1 .. Len(Schedule) : Schedule[i] = p)]

\* producer_plugin_impl::start_block: the watermark lets p produce on hs ...
MayProduce(hs, p) == watermarks[p] < hs.num + 1

\* ... and this many blocks are confirmed.
blocks_to_confirm(hs, p) == IF watermarks[p] < hs.num THEN hs.num - watermarks[p] ELSE 0

\* Block b is the next block of p on h; produce_block sets the watermark.
Made(p, h, b) ==
    LET hs == HeaderOf(headers[h], p, blocks_to_confirm(headers[h], p))
    IN  /\ MayProduce(headers[h], p)
        /\ b = Append(h, Label(p, hs.lib, TRUE))
        /\ headers' = With(headers, b, hs)
        /\ watermarks' = [watermarks EXCEPT ![p] = hs.num]

NextOf(p, h) ==
    Append(h, Label(p, HeaderOf(headers[h], p, blocks_to_confirm(headers[h], p)).lib, TRUE))

\* The chain h of a side grows while the sides are apart and after the node has joined.
MayGrow(h) == IF split THEN Num(h) < MaxApart ELSE node.head = far /\ Num(h) < MaxNum

OtherProduces(p) ==
    /\ MayGrow(far)
    /\ Made(p, far, NextOf(p, far))
    /\ far' = NextOf(p, far)
    /\ UNCHANGED <<node, split>>

\* After the split the others have the block at once.
NodeProduces ==
    /\ MayGrow(node.head)
    /\ Made(Me, node.head, NextOf(Me, node.head))
    /\ Room(node.head) /\ Produce(NextOf(Me, node.head))
    /\ far' = IF split THEN far ELSE NextOf(Me, node.head)
    /\ UNCHANGED split

Deliver ==
    /\ split' = FALSE
    /\ \E i \in 1 .. Len(far) : Room(SubSeq(far, 1, i - 1)) /\ PushBlock(SubSeq(far, 1, i))
    /\ UNCHANGED <<far, headers, watermarks>>

NextStep ==
    \/ \E p \in ProducersOf(Schedule) \ {Me} : OtherProduces(p)
    \/ NodeProduces
    \/ Deliver

DposSpec == Init /\ [][NextStep]_vars

-----------------------------------------------------------------------------
\* Once the node has been sent every block of the others that links to what it knows, it
\* is on a chain at least as good as theirs and has every block that is irreversible for them:
\* pruning, which gives up the rivals of what became irreversible, has given up the node's own
\* blocks and none it needs to link theirs.
Converged ==
    ~split /\ (\A i \in 1 .. Len(far) : Has(node, SubSeq(far, 1, i - 1)) => Has(node, SubSeq(far, 1, i)))
        => /\ ~Better(far, node.head)
           /\ IsPrefix(SubSeq(far, 1, Lib(far) - RootNum), node.head)
=============================================================================
