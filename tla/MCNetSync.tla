----------------------------- MODULE MCNetSync ------------------------------
(***************************************************************************)
(* Instances of NetSync for TLC: a node that comes back with an old head,  *)
(* and one or two peers to catch up with.                                  *)
(***************************************************************************)
EXTENDS NetSync, TLC

CONSTANTS here, one, two

Ring == <<one, here, two>>

\* here dials its peers; sockets break as often as said.
World(peers, lag, mine, theirs, producers_, breaks_) ==
    [dials |-> {here} \X peers,
     start |-> (here :> mine) @@ (one :> theirs) @@ (two :> theirs),
     lag |-> lag, producers |-> producers_,
     faults |-> [breaks |-> breaks_, late |-> 0, refusals |-> 0]]

Main(num) == Block(num, 0)
Fork(num) == Block(num, 1)

Quiescent ==
    {World({one}, 2, Main(5), Main(5), {one}, 1),   \* caught up, and new blocks
     World({one}, 2, Main(1), Main(6), {}, 2),      \* irreversible blocks, then the head
     World({one}, 2, Main(3), Main(5), {}, 2),      \* the head only
     World({one}, 2, Fork(5), Main(5), {}, 1),      \* equally long branches
     World({one}, 2, Fork(4), Main(5), {}, 1),      \* a shorter branch of our own
     \* one peer lacks what the other one has
     [World({one, two}, 0, Main(1), Main(3), {}, 0) EXCEPT !.start[two] = Main(4)]}

\* Blocks are refused, once or twice, on the way to the head of the peer.
Refuse(w, times) == [w EXCEPT !.faults.refusals = times]

Refusing ==
    {Refuse(World({one}, 2, Main(1), Main(6), {}, 0), 2),
     Refuse(World({one}, 1, Main(1), Main(6), {}, 1), 1),
     Refuse(World({one}, 2, Fork(4), Main(6), {}, 0), 2)}

CatchingUp == Quiescent \union Refusing

\* The peer produces while we catch up.
Growing == {World({one}, 1, Main(1), Main(4), {one}, 1)}
=============================================================================
