------------------------------- MODULE NetSync -------------------------------
(***************************************************************************)
(* How nodes catch up with one another over net_plugin.cpp: connections    *)
(* with their two write queues, handshakes, the sync_manager that fetches  *)
(* irreversible blocks in chunks and then the head, and the broadcast of   *)
(* blocks by the dispatch_manager.                                         *)
(*                                                                         *)
(* Every node runs the same code.  A handler runs to its end in one step   *)
(* of its node; between two handlers messages travel, writes complete,     *)
(* timers expire, sockets break and are dialled again.  A socket delivers  *)
(* in order and without loss until it is closed.                           *)
(*                                                                         *)
(* A block is its number and its branch; branches part after ForkPoint,    *)
(* and a block makes the one lag before it irreversible.  No node starts   *)
(* on a branch that another node's irreversible block excludes.  All speak *)
(* the present version of the protocol, are on one chain and accept one    *)
(* another: the refusals of a handshake, gray and duplicate connections,   *)
(* the exchange of addresses, transactions and the requests for single     *)
(* blocks of older peers are left out.                                     *)
(***************************************************************************)
EXTENDS Integers, Sequences, FiniteSets, SequencesExt

CONSTANTS
    Node,
    Order,          \* all nodes, in the order of the std::set of connections
    Worlds,         \* who dials whom, the head of each node, how far the irreversible
                    \* block is behind it, who produces, and the faults to come
    ForkPoint,      \* the last block common to all branches
    Span,           \* sync_req_span
    MaxNum          \* bound on block numbers

ASSUME NumbersAssumption == ForkPoint \in Nat \ {0} /\ Span \in Nat \ {0} /\ MaxNum \in Nat
ASSUME NodesAssumption   == Range(Order) = Node /\ IsInjective(Order)
ASSUME WorldsAssumption  ==
    \A w \in Worlds :
        /\ \A d \in w.dials : d \in Node \X Node /\ d[1] # d[2] /\ <<d[2], d[1]>> \notin w.dials
        /\ DOMAIN w.start = Node /\ w.producers \subseteq Node
        /\ w.lag \in Nat /\ w.faults \in [{"breaks", "late", "refusals"} -> Nat]

VARIABLES
    node,           \* the state of each node
    faults          \* how many sockets will still break, answers come after their timer,
                    \* and blocks be refused by the chain though they link

vars == <<node, faults>>

Nobody == "nobody"
Gone   == "gone"    \* a connection that connection_monitor has erased

NoBlock   == [num |-> 0, branch |-> 0]
NoRequest == [first |-> 0, end |-> 0, last |-> 0]

Smaller(a, b) == IF a < b THEN a ELSE b
Larger(a, b)  == IF a > b THEN a ELSE b

-----------------------------------------------------------------------------
\* The chain: what the plugin asks of the controller

Block(num, branch) == [num |-> num, branch |-> IF num <= ForkPoint THEN 0 ELSE branch]
Ancestor(b, num) == Block(num, b.branch)
Chain(b) == {Ancestor(b, i) : i \in 1 .. b.num}
Lib(s) == Larger(1, s.head.num - s.lag)     \* last_irreversible_block_num

fetch_block_by_id(s, b) == b \in s.have
fetch_block_by_number(s, num) == num \in 1 .. s.head.num

\* The block before it is in the fork database.
Linkable(s, b) == b.num > Lib(s) /\ Ancestor(b, b.num - 1) \in s.have

\* The longer branch wins, the first one seen among equals; what the
\* irreversible block leaves behind is pruned.
AddBlock(s, b) ==
    LET s1 == [s EXCEPT !.head = IF b.num > @.num THEN b ELSE @]
    IN  [s1 EXCEPT !.have = {x \in @ \union {b} : x.num > Lib(s1) \/ x = Ancestor(s1.head, x.num)}]

\* The blocks applied, oldest first, when the head moves from h to b.
Applied(h, b) == SelectSeq([i \in 1 .. b.num |-> Ancestor(b, i)], LAMBDA x : x \notin Chain(h))

-----------------------------------------------------------------------------
\* Connections

FreshConnection ==
    [persistent |-> FALSE,      \* dialled by this node, and dialled again
     listed |-> FALSE,          \* whether it is in connections
     open |-> FALSE,            \* the socket
     state |-> "none",
     wq |-> <<>>, sq |-> <<>>,  \* _write_queue, _sync_write_queue
     out |-> "empty",           \* _out_queue, or what has become of the write it is part of
     wire |-> <<>>,             \* what was written and the peer has not read
     sent |-> FALSE,            \* sent_handshake_count > 0
     lib |-> 0, libId |-> 0,    \* of last_handshake_recv: the number, and the number of the id
     requested |-> NoRequest,   \* peer_requested
     fork |-> NoBlock,          \* fork_head, fork_head_num
     armed |-> FALSE,           \* response_expected
     expired |-> FALSE,         \* its handler is in the queue of the application
     blocks |-> {}]             \* blk_state

Connected(c) == c.open /\ c.state # "connecting"
Current(c)   == Connected(c) /\ c.state # "syncing"

\* The connections of a node, in the order of the set.
Connections(s) == SelectSeq(Order, LAMBDA m : m \in DOMAIN s.conn /\ s.conn[m].listed)

\* _out_queue is empty, its write is under way ("writing"), the socket was
\* closed under the write and its handler is still to run ("cut"), or the
\* handler has run with an error ("left").  Nothing is written but on an empty one.
do_queue_write(c) ==
    IF c.out # "empty" \/ (c.sq = <<>> /\ c.wq = <<>>) THEN c
    ELSE IF c.sq # <<>>
    THEN [c EXCEPT !.wire = @ \o c.sq, !.sq = <<>>, !.out = "writing"]
    ELSE [c EXCEPT !.wire = @ \o c.wq, !.wq = <<>>, !.out = "writing"]

enqueue(c, msg) == do_queue_write([c EXCEPT !.wq = Append(@, msg)])

BlockMessage(b) == [type |-> "block", block |-> b]

\* The next block the peer has asked for.  Only the first one starts a write;
\* the others follow when a write completes.
enqueue_sync_block(c, s) ==
    IF c.requested = NoRequest THEN c
    ELSE LET num   == c.requested.last + 1
             first == num = c.requested.first
             c1 == [c EXCEPT !.requested = IF num = @.end THEN NoRequest ELSE [@ EXCEPT !.last = num]]
             c2 == [c1 EXCEPT !.sq = Append(@, BlockMessage(Ancestor(s.head, num)))]
         IN  IF ~fetch_block_by_number(s, num) THEN c1
             ELSE IF first THEN do_queue_write(c2) ELSE c2

Handshake(s, c) ==
    [type |-> "handshake", first |-> ~c.sent, head |-> s.head, lib |-> Lib(s)]

send_handshake(s, c) == enqueue([c EXCEPT !.sent = TRUE], Handshake(s, c))

\* Requests of blk_send_branch: the irreversible block of the peer's last
\* handshake up to our head, or further back if a former request was not met.
blk_send_branch(c, s) ==
    LET first == IF c.requested = NoRequest THEN c.libId + 1
                 ELSE Smaller(c.requested.last + 1, c.libId + 1)
        end   == IF c.requested = NoRequest THEN s.head.num
                 ELSE Larger(c.requested.end, s.head.num)
        c1    == [c EXCEPT !.requested = [first |-> first, end |-> end, last |-> first - 1]]
    IN  [enqueue_sync_block(c1, s) EXCEPT !.state = "connected"]

cancel_sync(c) ==
    enqueue([c EXCEPT !.armed = FALSE, !.wq = <<>>, !.sq = <<>>],
            [type |-> "sync_request", first |-> 0, end |-> 0])

\* Mutant: the answer is waited for without a timer.
request_sync_blocks_untimed(c, first, end) ==
    enqueue(c, [type |-> "sync_request", first |-> first, end |-> end])

request_sync_blocks(c, first, end) ==
    [enqueue(c, [type |-> "sync_request", first |-> first, end |-> end]) EXCEPT !.armed = TRUE]
-----------------------------------------------------------------------------
\* sync_manager

set_connection(s, m, c) == [s EXCEPT !.conn[m] = c]

\* The first current connection, beginning after the present source and
\* going around; the source stays as it is if there is none.
NextInRing(s) ==
    LET ring  == Connections(s)
        at    == {i \in DOMAIN ring : ring[i] = s.source}
        first == IF at = {} THEN 0 ELSE CHOOSE i \in at : TRUE
        turn  == [k \in DOMAIN ring |-> ring[((first + k - 1) % Len(ring)) + 1]]
        able  == SelectSeq(turn, LAMBDA m : Current(s.conn[m]))
    IN  IF able # <<>> THEN able[1] ELSE IF at = {} THEN Nobody ELSE s.source

ChunkSource(s, m) ==
    IF m # Nobody /\ Current(s.conn[m]) THEN m
    ELSE IF Len(Connections(s)) = 1
    THEN IF s.source = Nobody THEN Connections(s)[1] ELSE s.source
    ELSE NextInRing(s)

SourceCurrent(s) == s.source \in DOMAIN s.conn /\ Current(s.conn[s.source])

RequestChunk(s) ==
    LET end == Smaller(s.next_expected + Span - 1, s.known_lib)
    IN  IF s.last_requested # s.known_lib /\ end > 0 /\ end >= s.next_expected
        THEN [s EXCEPT !.conn[s.source] = request_sync_blocks(@, s.next_expected, end),
                       !.last_requested = end]
        ELSE s

RequestFrom(s) ==
    IF SourceCurrent(s) THEN RequestChunk(s)
    ELSE [s EXCEPT !.known_lib = Lib(s), !.last_requested = 0, !.stage = "in_sync"]

request_next_chunk(s, m) ==
    IF s.head.num < s.last_requested /\ SourceCurrent(s) THEN s
    ELSE RequestFrom([s EXCEPT !.source = ChunkSource(s, m)])

reset_lib_num(s, m) ==
    LET s1 == IF s.stage = "in_sync" THEN [s EXCEPT !.source = Nobody] ELSE s
    IN  IF Current(s.conn[m])
        THEN [s1 EXCEPT !.known_lib = Larger(@, s.conn[m].lib)]
        ELSE IF m = s1.source THEN request_next_chunk([s1 EXCEPT !.last_requested = 0], Nobody)
        ELSE s1

End == [type |-> "eof"]

\* connection::close: the peer reads what is on the wire and then the end.
\* flush_queues does not touch _out_queue.
Shut(c) ==
    [FreshConnection EXCEPT !.persistent = c.persistent, !.listed = c.listed, !.fork = c.fork, !.expired = c.expired,
                            !.armed = c.armed,
                            !.out = IF c.out = "writing" THEN "cut" ELSE c.out,
                            !.wire = IF c.open /\ End \notin Range(c.wire)
                                     THEN Append(c.wire, End) ELSE c.wire]

close(s, m) ==
    LET s1 == reset_lib_num(set_connection(s, m, Shut(s.conn[m])), m)
    IN  [s1 EXCEPT !.conn[m].armed = FALSE]

send_handshakes(s) ==
    [s EXCEPT !.conn = [m \in DOMAIN s.conn |->
        IF s.conn[m].listed /\ Current(s.conn[m]) THEN send_handshake(s, s.conn[m]) ELSE s.conn[m]]]

sync_required(s) == s.last_requested < s.known_lib \/ s.head.num < s.last_requested

\* Mutant: off by one.
start_sync_skips(s, m, target) ==
    LET s1 == [s EXCEPT !.known_lib = Larger(@, target)]
        s2 == IF s1.stage = "in_sync"
              THEN [s1 EXCEPT !.stage = "lib_catchup", !.next_expected = Lib(s1) + 2]
              ELSE s1
    IN  IF sync_required(s1) THEN request_next_chunk(s2, m) ELSE s1

start_sync(s, m, target) ==
    LET s1 == [s EXCEPT !.known_lib = Larger(@, target)]
        s2 == IF s1.stage = "in_sync"
              THEN [s1 EXCEPT !.stage = "lib_catchup", !.next_expected = Lib(s1) + 1]
              ELSE s1
    IN  IF sync_required(s1) THEN request_next_chunk(s2, m) ELSE s1

reassign_fetch(s, m) ==
    LET s1 == IF s.conn[m].open THEN [s EXCEPT !.conn[m] = cancel_sync(@)] ELSE close(s, m)
    IN  IF m # s.source THEN s
        ELSE request_next_chunk([s1 EXCEPT !.last_requested = 0], Nobody)

Request(mode) == [type |-> "request", mode |-> mode]

\* Somebody has been asked for this head, or for a higher one, already.
Asked(s, b) == \E i \in DOMAIN s.conn :
    s.conn[i].listed /\ (s.conn[i].fork = b \/ s.conn[i].fork.num > b.num)

verify_catchup(s, m, b) ==
    IF Asked(s, b) THEN [s EXCEPT !.conn[m] = enqueue([@ EXCEPT !.fork = NoBlock], Request("none"))]
    ELSE IF s.stage = "lib_catchup" THEN [s EXCEPT !.conn[m].fork = b]
    ELSE [s EXCEPT !.conn[m] = enqueue([@ EXCEPT !.fork = b], Request("catch_up")),
                   !.stage = "head_catchup"]

UpToDateNotice == [type |-> "notice", mode |-> "none"]
LibNotice(s)   == [type |-> "notice", mode |-> "last_irr_catch_up", lib |-> Lib(s)]
HeadNotice(s)  == [type |-> "notice", mode |-> "catch_up", head |-> s.head]

\* We are ahead: tell the peer, and send it no news until it answers.
TellPeer(s, m, notice) ==
    [s EXCEPT !.conn[m] = [enqueue(@, notice) EXCEPT !.state = "syncing"]]

\* The sync checks 0 to 5, in their order.
SyncCheck(s, m, msg) ==
    IF s.head = msg.head THEN [s EXCEPT !.conn[m] = enqueue(@, UpToDateNotice)]
    ELSE IF s.head.num < msg.lib THEN s
    ELSE IF Lib(s) > msg.head.num THEN TellPeer(s, m, LibNotice(s))
    ELSE IF Lib(s) < msg.lib /\ s.head.num > msg.head.num THEN verify_catchup(s, m, msg.head)
    ELSE IF s.head.num < msg.head.num THEN verify_catchup(s, m, msg.head)
    ELSE TellPeer(s, m, HeadNotice(s))

recv_handshake(s, m, msg) == SyncCheck(reset_lib_num(s, m), m, msg)

recv_notice(s, m, msg) ==
    IF msg.mode = "catch_up" THEN verify_catchup(s, m, msg.head)
    ELSE start_sync(reset_lib_num([s EXCEPT !.conn[m].lib = msg.lib], m), m, msg.lib)

rejected_block(s, m) ==
    IF s.stage = "in_sync" THEN s
    ELSE send_handshakes([close([s EXCEPT !.last_requested = 0, !.source = Nobody], m)
                            EXCEPT !.stage = "in_sync"])

\* A block during head_catchup.  Whoever promised it, or less, has delivered,
\* but the promise that is forgotten is that of the sender of the block.
Delivered(s, m, b) ==
    LET step(s1, i) ==
            IF s1.conn[i].fork = NoBlock THEN s1
            ELSE IF s1.conn[i].fork = b \/ s1.conn[i].fork.num < b.num
            THEN [s1 EXCEPT !.conn[m].fork = NoBlock]
            ELSE [s1 EXCEPT !.stage = "head_catchup"]
    IN  FoldLeft(step, [s EXCEPT !.stage = "in_sync", !.source = Nobody], Connections(s))

HandshakesIfInSync(s) == IF s.stage = "in_sync" THEN send_handshakes(s) ELSE s

\* Mutant: nobody is told that the irreversible blocks have come.
LibBlock_silent(s, m, b) ==
    IF b.num = s.known_lib THEN [s EXCEPT !.stage = "in_sync"]
    ELSE IF b.num = s.last_requested THEN request_next_chunk(s, Nobody)
    ELSE [s EXCEPT !.conn[m].armed = TRUE]

LibBlock(s, m, b) ==
    IF b.num = s.known_lib THEN send_handshakes([s EXCEPT !.stage = "in_sync"])
    ELSE IF b.num = s.last_requested THEN request_next_chunk(s, Nobody)
    ELSE [s EXCEPT !.conn[m].armed = TRUE]

recv_block(s, m, b) ==
    CASE s.stage = "in_sync" -> s
      [] s.stage = "head_catchup" -> HandshakesIfInSync(Delivered(s, m, b))
      [] s.stage = "lib_catchup" /\ b.num # s.next_expected -> close(s, m)
      [] OTHER -> LibBlock([s EXCEPT !.next_expected = b.num + 1], m, b)

-----------------------------------------------------------------------------
\* dispatch_manager

bcast_block(s, b) ==
    LET skips == {r[2] : r \in {x \in s.received : x[1] = b}}
        fresh(m, c) == /\ c.listed /\ m \notin skips /\ Current(c)
                       /\ c.lib < b.num /\ b \notin c.blocks
    IN  [s EXCEPT !.received = {r \in @ : r[1] # b},
                  !.conn = [m \in DOMAIN s.conn |->
                      IF fresh(m, s.conn[m])
                      THEN enqueue([s.conn[m] EXCEPT !.blocks = @ \union {b}], BlockMessage(b))
                      ELSE s.conn[m]]]

\* controller::push_block; accepted_block is emitted for every block applied.
accept_block(s, b) ==
    LET s1 == [AddBlock(s, b) EXCEPT !.refused = @ \ {b}]
    IN  IF s1.head = b THEN FoldLeft(bcast_block, s1, Applied(s.head, b)) ELSE s1

-----------------------------------------------------------------------------
\* net_plugin_impl: one handler for each message

\* Mutant: a peer that is marked as syncing stays so.
handle_handshake_keeps(s, m, msg) ==
    LET c  == s.conn[m]
        c1 == IF msg.first /\ ~c.sent THEN send_handshake(s, c) ELSE c
        c2 == [c1 EXCEPT !.lib = msg.lib, !.libId = msg.lib,
                         !.state = IF @ = "syncing" THEN @ ELSE "connected"]
    IN  recv_handshake(set_connection(s, m, c2), m, msg)

handle_handshake(s, m, msg) ==
    LET c  == s.conn[m]
        c1 == IF msg.first /\ ~c.sent THEN send_handshake(s, c) ELSE c
        c2 == [c1 EXCEPT !.lib = msg.lib, !.libId = msg.lib, !.state = "connected"]
    IN  recv_handshake(set_connection(s, m, c2), m, msg)

handle_notice(s, m, msg) ==
    LET s1 == [s EXCEPT !.conn[m].state = "connected"]
    IN  IF msg.mode = "none" THEN s1 ELSE recv_notice(s1, m, msg)

handle_request(s, m, msg) ==
    IF msg.mode = "catch_up" THEN [s EXCEPT !.conn[m] = blk_send_branch(@, s)]
    ELSE [s EXCEPT !.conn[m].state = "connected"]

handle_sync_request(s, m, msg) ==
    IF msg.end = 0
    THEN [s EXCEPT !.conn[m] = [@ EXCEPT !.requested = NoRequest, !.wq = <<>>, !.sq = <<>>]]
    ELSE LET r == [first |-> msg.first, end |-> msg.end, last |-> msg.first - 1]
         IN  [s EXCEPT !.conn[m] = enqueue_sync_block([@ EXCEPT !.requested = r], s)]

\* An unlinkable block or one from the future is rejected.  What push_block
\* throws ("failed") the producer plugin logs and drops, and what is neither a
\* block_validate_exception nor an assertion is no reason to reject either:
\* such a block counts as received.
handle_block(s, m, b, outcome) ==
    LET s1 == [s EXCEPT !.conn[m].armed = FALSE, !.received = @ \union {<<b, m>>}]
    IN  IF ~Linkable(s, b) \/ outcome = "from_the_future"
        THEN [rejected_block(s1, m) EXCEPT !.received = {r \in @ : r[1] # b}]
        ELSE IF outcome = "failed"
        THEN recv_block([s1 EXCEPT !.refused = @ \union {b}], m, b)
        ELSE recv_block(accept_block(s1, b), m, b)

\* A block we already have never gets as far as handle_block.
process_block(s, m, b, outcome) ==
    IF fetch_block_by_id(s, b) THEN recv_block(s, m, b) ELSE handle_block(s, m, b, outcome)

-----------------------------------------------------------------------------
\* Steps

Read(n, m, type) ==
    /\ m \in DOMAIN node[n].conn /\ node[n].conn[m].open
    /\ node[m].conn[n].wire # <<>> /\ Head(node[m].conn[n].wire).type = type

\* The message is taken off the wire and its handler leaves node n as s.
Handled(n, m, s) == node' = [node EXCEPT ![m].conn[n].wire = Tail(@), ![n] = s]

Message(n, m) == Head(node[m].conn[n].wire)

ReadHandshake(n, m) ==
    /\ Read(n, m, "handshake") /\ UNCHANGED faults
    /\ Handled(n, m, handle_handshake(node[n], m, Message(n, m)))
ReadNotice(n, m) ==
    /\ Read(n, m, "notice") /\ UNCHANGED faults
    /\ Handled(n, m, handle_notice(node[n], m, Message(n, m)))
ReadRequest(n, m) ==
    /\ Read(n, m, "request") /\ UNCHANGED faults
    /\ Handled(n, m, handle_request(node[n], m, Message(n, m)))
ReadSyncRequest(n, m) ==
    /\ Read(n, m, "sync_request") /\ UNCHANGED faults
    /\ Handled(n, m, handle_sync_request(node[n], m, Message(n, m)))
ReadBlock(n, m) ==
    /\ Read(n, m, "block") /\ UNCHANGED faults
    /\ Handled(n, m, process_block(node[n], m, Message(n, m).block, "accepted"))
RefuseBlock(n, m, outcome) ==
    /\ Read(n, m, "block") /\ faults.refusals > 0
    /\ ~fetch_block_by_id(node[n], Message(n, m).block) /\ Linkable(node[n], Message(n, m).block)
    /\ Handled(n, m, process_block(node[n], m, Message(n, m).block, outcome))
    /\ faults' = [faults EXCEPT !.refusals = @ - 1]
ReadEnd(n, m) ==
    /\ Read(n, m, "eof") /\ UNCHANGED faults
    /\ Handled(n, m, close(node[n], m))

\* async_write has completed, perhaps before the socket was closed.
WriteDone(n, m) ==
    /\ m \in DOMAIN node[n].conn /\ node[n].conn[m].out \in {"writing", "cut"}
    /\ node' = [node EXCEPT ![n].conn[m] =
                   do_queue_write(enqueue_sync_block([@ EXCEPT !.out = "empty"], node[n]))]
    /\ UNCHANGED faults

\* The peer has closed its end, or the network has broken the connection.
Broken(n, m) == ~node[m].conn[n].open \/ End \in Range(node[n].conn[m].wire)

\* async_write has failed: its handler closes and leaves _out_queue as it is.
WriteFails(n, m) ==
    /\ m \in DOMAIN node[n].conn
    /\ node[n].conn[m].out = "cut" \/ (node[n].conn[m].out = "writing" /\ Broken(n, m))
    /\ node' = [node EXCEPT ![n] = close([@ EXCEPT !.conn[m].out = "left"], m)]
    /\ UNCHANGED faults

\* Nothing is under way between n and m.
Quiet(n, m) ==
    \A c \in {node[n].conn[m], node[m].conn[n]} :
        c.wire = <<>> /\ (c.out = "left" \/ (c.out = "empty" /\ c.wq = <<>> /\ c.sq = <<>>))

\* response_expected expires: with good cause, or because the answer is slow.
TimerExpires(n, m) ==
    /\ m \in DOMAIN node[n].conn /\ node[n].conn[m].armed
    /\ IF Quiet(n, m) THEN UNCHANGED faults
       ELSE faults.late > 0 /\ faults' = [faults EXCEPT !.late = @ - 1]
    /\ node' = [node EXCEPT ![n].conn[m] = [@ EXCEPT !.armed = FALSE, !.expired = TRUE]]

\* An expired handler can no longer be cancelled.
SyncTimeout(n, m) ==
    /\ m \in DOMAIN node[n].conn /\ node[n].conn[m].expired
    /\ node' = [node EXCEPT ![n] = reassign_fetch([@ EXCEPT !.conn[m].expired = FALSE], m)]
    /\ UNCHANGED faults

\* connection_monitor of the node that dials; the peer accepts.  Resolving the name, dialling
\* and accepting are one step, taken once the peer has erased the former connection.
Connect(n, m) ==
    /\ m \in DOMAIN node[n].conn /\ node[n].conn[m].persistent
    /\ ~node[n].conn[m].open /\ ~node[m].conn[n].listed
    /\ LET c == [node[n].conn[m] EXCEPT !.open = TRUE, !.state = "connecting", !.wire = <<>>]
           a == [FreshConnection EXCEPT !.listed = TRUE, !.open = TRUE, !.state = "connecting"]
       IN  node' = [node EXCEPT ![n].conn[m] = send_handshake(node[n], c), ![m].conn[n] = a]
    /\ UNCHANGED faults

\* connection_monitor of the node that was dialled.
EraseConnection(n, m) ==
    /\ m \in DOMAIN node[n].conn /\ ~node[n].conn[m].persistent
    /\ node[n].conn[m].listed /\ ~node[n].conn[m].open
    /\ node' = [node EXCEPT ![n].conn[m] = [FreshConnection EXCEPT !.wire = node[n].conn[m].wire],
                            ![n].source = IF @ = m THEN Gone ELSE @]
    /\ UNCHANGED faults

\* The network breaks a connection, with everything under way.
Break(n, m) ==
    /\ m \in DOMAIN node[n].conn /\ node[n].conn[m].persistent /\ faults.breaks > 0
    /\ node[n].conn[m].open /\ node[m].conn[n].open
    /\ node' = [node EXCEPT ![n].conn[m].wire = <<End>>,
                            ![m].conn[n].wire = <<End>>]
    /\ faults' = [faults EXCEPT !.breaks = @ - 1]

Produce(n) ==
    /\ node[n].produces /\ node[n].head.num < MaxNum
    /\ node' = [node EXCEPT ![n] = accept_block(@, Block(@.head.num + 1, @.head.branch))]
    /\ UNCHANGED faults

Linked(w, n) == {m \in Node : <<n, m>> \in w.dials \/ <<m, n>> \in w.dials}

Init ==
    \E w \in Worlds :
        /\ faults = w.faults
        /\ node = [n \in Node |->
               [head |-> w.start[n], have |-> Chain(w.start[n]), lag |-> w.lag,
                produces |-> n \in w.producers,
                stage |-> "in_sync", known_lib |-> 0, last_requested |-> 0, next_expected |-> 1,
                source |-> Nobody, received |-> {}, refused |-> {},
                conn |-> [m \in Linked(w, n) |->
                             [FreshConnection EXCEPT !.persistent = <<n, m>> \in w.dials,
                                                     !.listed = <<n, m>> \in w.dials]]]]

Step(n, m) ==
    \/ ReadHandshake(n, m) \/ ReadNotice(n, m) \/ ReadRequest(n, m)
    \/ ReadSyncRequest(n, m) \/ ReadBlock(n, m) \/ ReadEnd(n, m)
    \/ WriteDone(n, m) \/ WriteFails(n, m) \/ TimerExpires(n, m) \/ SyncTimeout(n, m)
    \/ Connect(n, m) \/ EraseConnection(n, m)

Next ==
    \/ \E n, m \in Node :
          \/ Step(n, m) \/ Break(n, m)
          \/ \E outcome \in {"failed", "from_the_future"} : RefuseBlock(n, m, outcome)
    \/ \E n \in Node : Produce(n)

Fairness == WF_vars(\E n, m \in Node : Step(n, m))

Spec == Init /\ [][Next]_vars
FairSpec == Spec /\ Fairness

-----------------------------------------------------------------------------
\* Properties

\* sync_next_expected_num never runs ahead of the chain: every block before the
\* one that is waited for has been accepted, whatever was reassigned, broken off
\* or asked for again, or it is one that push_block refused and handle_message
\* counted as received all the same; and no more is asked for than the peers have as irreversible.
NoHole ==
    \A n \in Node :
        /\ node[n].stage = "lib_catchup" =>
              \A i \in 1 .. node[n].next_expected - 1 :
                  \E x \in node[n].have \union node[n].refused : x.num = i
        /\ node[n].last_requested <= node[n].known_lib

\* A node that counts on the last block it asked for, which push_block refused
\* and handle_message counted as received.
Stalled(n) ==
    /\ node[n].stage = "lib_catchup"
    /\ \E x \in node[n].refused : x.num = node[n].last_requested

\* "ensure that there is a constant queue of requests in flight": a node in
\* lib_catchup has asked somebody, or a timer will make it ask somebody else,
\* unless the last block of a chunk was refused.  Nothing but blocks and timers
\* moves a node in lib_catchup.
SyncPending ==
    \A n \in Node : node[n].stage = "lib_catchup" =>
        \/ Stalled(n)
        \/ \E m \in DOMAIN node[n].conn :
              \/ node[n].conn[m].armed
              \/ node[n].conn[m].expired
              \/ node[n].conn[m].open /\ ~Quiet(n, m)

\* A connection that is dialled again and never written to: its _out_queue is
\* full and no write is in progress.
Muted == \E n \in Node : \E m \in DOMAIN node[n].conn :
             node[n].conn[m].persistent /\ node[n].conn[m].out = "left"

\* Once sockets stop breaking, the nodes of a connection end up with heads of
\* one height, for good: lib_catchup, the handshakes that follow it and
\* head_catchup fit together, and a block that was refused is fetched again.
\* The two ways out are a failed write of the dialling side and the refusal of
\* the last block of a chunk.
CatchesUp ==
    \/ <>Muted
    \/ <>[](\E n \in Node : Stalled(n))
    \/ <>[](\A n \in Node : \A m \in DOMAIN node[n].conn : node[n].head.num = node[m].head.num)

\* A peer that recv_handshake has marked as syncing is sent neither blocks nor
\* transactions; it does not stay so, unless it is stalled.  "Once you have caught up to all peers,
\* notify all peers of your head block so they ... will start sending you real
\* time transactions".
NewsResumes ==
    \A n, m \in Node :
        \/ <>[]Stalled(m)
        \/ []<>(m \in DOMAIN node[n].conn => node[n].conn[m].state # "syncing")

=============================================================================
