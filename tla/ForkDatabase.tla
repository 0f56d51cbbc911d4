---------------------------- MODULE ForkDatabase ----------------------------
(***************************************************************************)
(* The fork database of a node (fork_database.cpp) and the part of the     *)
(* chain controller that follows it (controller.cpp): blocks arrive in any *)
(* order that links, the database picks the head, emits old blocks as      *)
(* irreversible and forgets their rivals, and the controller applies,      *)
(* pops and re-applies blocks until its own head is that of the database.  *)
(*                                                                         *)
(* A block is the sequence of labels on the path from the root to it, so   *)
(* that its parent is its Front, its ancestors are its prefixes and a      *)
(* block id is a block.  The label of a block says what its header and the *)
(* state make of it: its last irreversible block number (lib) and whether  *)
(* it applies (valid).                                                     *)
(*                                                                         *)
(* Each handler runs to its end in one step, as the node handles blocks in *)
(* one thread; node.thrown is the exception that escaped from it.          *)
(***************************************************************************)
EXTENDS Integers, FiniteSets, SequencesExt

CONSTANTS
    Tags,           \* tell the children of a block apart
    RootNum,        \* number and last irreversible block of the oldest block
    RootLib,
    PruneLimit,     \* blocks pruned by one add(): 10 in the code
    LateFinality,   \* TRUE: a rival branch may finalise behind the node's back
    Trials,         \* what the node is put to: "bad blocks" of others, or "restarts"
    MaxNum,         \* bounds: the greatest block number and the size of the index
    MaxIndex

ASSUME RootAssumption == RootNum \in Nat /\ RootLib \in Nat /\ RootLib <= RootNum
ASSUME PruneLimitAssumption == PruneLimit \in Nat

VARIABLES
    node            \* the node, see Started

Label(tag, lib, valid) == [tag |-> tag, lib |-> lib, valid |-> valid]

Root == <<>>
Num(b) == RootNum + Len(b)
Lib(b) == IF b = Root THEN RootLib ELSE Last(b).lib
Valid(b) == b = Root \/ Last(b).valid
Ancestors(b) == {SubSeq(b, 1, i) : i \in 0 .. Len(b)}

\* The key of by_lib_block_num, and blocks that are equal for it
Better(b, c) == Lib(b) > Lib(c) \/ (Lib(b) = Lib(c) /\ Num(b) > Num(c))
Ties(S) == {p \in S \X S : p[1] # p[2] /\ Lib(p[1]) = Lib(p[2]) /\ Num(p[1]) = Num(p[2])}

\* r puts the equal blocks of S in some order.
IsOrder(r, S) ==
    /\ \A p \in Ties(S) : p \in r <=> <<p[2], p[1]>> \notin r
    /\ \A p, q \in r : p[2] = q[1] => <<p[1], q[2]>> \in r

-----------------------------------------------------------------------------
\* fork_database
Has(n, b) == b \in n.index

Threw(n) == n.thrown # "none"
Throw(n, what) == [n EXCEPT !.thrown = what]

\* Equal blocks keep the order of arrival in by_lib_block_num: the pairs of them, the
\* older one first.
Insert(n, b) ==
    [n EXCEPT !.index = @ \cup {b},
              !.older = @ \cup {p \in Ties(n.index \cup {b}) : p[2] = b}]

Erase(n, S) ==
    [n EXCEPT !.index = @ \ S, !.current = @ \ S,
              !.older = {p \in @ : p[1] \notin S /\ p[2] \notin S}]

\* The first block of by_lib_block_num; there is none in an empty index.
First(n) == CHOOSE b \in n.index : \A c \in n.index \ {b} : Better(b, c) \/ <<b, c>> \in n.older

ForkHead(n) ==
    IF n.index = {} THEN Throw(n, "no_head") ELSE [n EXCEPT !.fhead = First(n)]

\* mutant of remove: only the block itself is removed
remove_one(n, b) == ForkHead(Erase(n, {b}))

\* b and every block built on it
remove(n, b) == ForkHead(Erase(n, {c \in n.index : IsPrefix(b, c)}))

\* Every caller has found b in the index just before, so that it is there.
mark_in_current_chain(n, b, on) ==
    [n EXCEPT !.current = IF on THEN @ \cup {b} ELSE @ \ {b}]

Lowest(n) == {b \in n.index : \A c \in n.index : Num(b) <= Num(c)}

\* mutant of oldest: the flags are compared the other way round
oldest_rival(n) == CHOOSE b \in Lowest(n) : Lowest(n) \ n.current # {} => b \notin n.current

\* The first block of by_block_num: of the lowest number, one in the current chain if
\* there is one.
oldest(n) == CHOOSE b \in Lowest(n) : Lowest(n) \cap n.current # {} => b \in n.current

\* controller_impl::on_irreversible, the slot of the irreversible signal: append to the
\* block log, commit the revision, forget the reversible copies.
on_irreversible(n, b) ==
    IF Num(b) > Num(n.log) /\ (b = Root \/ Front(b) # n.log)
    THEN Throw(n, "irreversible_unlinkable")
    ELSE [n EXCEPT !.log = IF Num(b) > Num(@) THEN b ELSE @,
                   !.tail = Max({@, Num(b)}),
                   !.reversible = {c \in @ : Num(c) > Num(b)}]

\* The oldest block h becomes irreversible, the other blocks of its number and
\* everything built on them are removed.
prune(n, h) ==
    LET irr == on_irreversible(n, h)
        erased == Erase(irr, {h})
        rivals == {b \in erased.index : Num(b) = Num(h)}
        gone == {c \in erased.index : \E b \in rivals : IsPrefix(b, c)}
    IN  IF Threw(irr) THEN irr
        ELSE IF rivals = {} THEN erased
        ELSE ForkHead(Erase(erased, gone))

\* mutant of prune_older: the block that is last irreversible is pruned too
prune_older_and_lib(n, lib) ==
    LET step[i \in 0 .. PruneLimit] ==
            IF i = 0 THEN n
            ELSE LET m == step[i - 1]
                 IN  IF ~Threw(m) /\ Num(oldest(m)) <= lib THEN prune(m, oldest(m)) ELSE m
    IN  step[PruneLimit]

prune_older(n, lib) ==
    LET step[i \in 0 .. PruneLimit] ==
            IF i = 0 THEN n
            ELSE LET m == step[i - 1]
                 IN  IF ~Threw(m) /\ Num(oldest(m)) < lib THEN prune(m, oldest(m)) ELSE m
    IN  step[PruneLimit]

\* add() of a block that links and is not known
add(n, b) ==
    LET m == ForkHead(Insert(n, b))
    IN  prune_older(m, Lib(m.fhead))

-----------------------------------------------------------------------------
\* controller_impl

\* apply_block, with commit_block(false), on the controller's head
apply_block(n, b) ==
    IF n.rev # Num(n.head) THEN Throw(n, "revision_not_on_par")
    ELSE IF b = Root \/ Front(b) # n.head \/ ~Valid(b) THEN Throw(n, "invalid")
    ELSE IF \E c \in n.reversible : Num(c) = Num(b) THEN Throw(n, "reversible_duplicate")
    ELSE [n EXCEPT !.rev = @ + 1, !.reversible = @ \cup {b}]

\* mutant of pop_block: the state is not undone
pop_block_keeps(n) ==
    IF n.head = Root \/ ~Has(n, Front(n.head)) THEN Throw(n, "pop_beyond_irreversible")
    ELSE [n EXCEPT !.head = Front(@), !.reversible = {c \in @ : Num(c) # Num(n.head)}]

pop_block(n) ==
    IF n.head = Root \/ ~Has(n, Front(n.head)) THEN Throw(n, "pop_beyond_irreversible")
    ELSE [n EXCEPT !.head = Front(@), !.rev = @ - 1,
                   !.reversible = {c \in @ : Num(c) # Num(n.head)}]

\* The k topmost blocks of the controller's chain leave the current chain.
PopBlocks(n, k) ==
    LET step[i \in 0 .. k] ==
            IF i = 0 THEN n
            ELSE LET m == step[i - 1]
                 IN  IF Threw(m) THEN m
                     ELSE pop_block(mark_in_current_chain(m, m.head, FALSE))
    IN  step[k]

\* mutant of ApplyBlock: the block is not marked
ApplyBlock_unmarked(n, b) ==
    LET m == apply_block(n, b)
    IN  IF Threw(m) THEN m ELSE [m EXCEPT !.head = b]

ApplyBlock(n, b) ==
    LET m == apply_block(n, b)
    IN  IF Threw(m) THEN m ELSE mark_in_current_chain([m EXCEPT !.head = b], b, TRUE)

\* Apply the blocks of branch from its block of length i on; stop at the first that throws.
ApplyBranch(n, branch, from) ==
    LET step[i \in from - 1 .. Len(branch)] ==
            IF i = from - 1 THEN n
            ELSE LET m == step[i - 1]
                 IN  IF Threw(m) THEN m ELSE ApplyBlock(m, SubSeq(branch, 1, i))
    IN  step[Len(branch)]

\* fetch_branch_from ends at the first pair of blocks with the same prior block: the
\* length of that prior block, -1 for that of the root.
PriorLen(b, c) ==
    Max({-1} \cup {i \in 0 .. Min({Len(b), Len(c)}) - 1 : SubSeq(b, 1, i) = SubSeq(c, 1, i)})

\* All the blocks fetch_branch_from visits are known.
BranchKnown(n, b, from) == \A i \in from .. Len(b) : Has(n, SubSeq(b, 1, i))

\* mutant of SwitchBack: the old branch is not applied again
SwitchBack_not(n, bad, from, old) ==
    PopBlocks(remove([n EXCEPT !.thrown = "none"], bad), Len(n.head) - from + 1)

\* Block bad of the new branch threw: forget it and what was built on it, pop what was
\* applied of its branch, apply the old branch again.
SwitchBack(n, bad, from, old) ==
    LET popped == PopBlocks(remove([n EXCEPT !.thrown = "none"], bad), Len(n.head) - from + 1)
        back == ApplyBranch(popped, old, from)
    IN  IF Threw(back) THEN back ELSE Throw(back, n.thrown)

SwitchForks(n) ==
    LET from == PriorLen(n.fhead, n.head) + 1
        popped == PopBlocks(n, Len(n.head) - from + 1)
        applied == ApplyBranch(popped, n.fhead, from)
    IN  IF ~BranchKnown(n, n.fhead, from) \/ ~BranchKnown(n, n.head, from)
        THEN Throw(n, "fork_db_block_not_found")
        ELSE IF Threw(popped) THEN popped
        ELSE IF Threw(applied)
        THEN SwitchBack(applied, SubSeq(n.fhead, 1, Len(applied.head) + 1), from, n.head)
        ELSE applied

maybe_switch_forks(n) ==
    IF n.fhead # Root /\ Front(n.fhead) = n.head
    THEN LET m == ApplyBlock(n, n.fhead)
         IN  IF Threw(m) THEN Throw(remove(n, n.fhead), m.thrown) ELSE m
    ELSE IF n.fhead # n.head THEN SwitchForks(n)
    ELSE n

-----------------------------------------------------------------------------
\* A node that runs on the chain up to block h; the root is the head of its block log.
Started(h, t) ==
    [index |-> Ancestors(h),
     older |-> {},                              \* among equal blocks of the index
     fhead |-> h,                               \* fork_database::head
     current |-> Ancestors(h) \ {Root},         \* block_state::in_current_chain
     head |-> h,                                \* controller_impl::head
     rev |-> Num(h), tail |-> RootNum,          \* of the undo stack of chaindb
     log |-> Root,                              \* the head of the block log
     reversible |-> Ancestors(h) \ {Root},      \* reversible_blocks
     thrown |-> "none",
     trial |-> t]                               \* what the run puts the node to

InitNode == \E t \in Trials : node = Started(Root, t)

\* The block that b makes irreversible is one the node has on its own chain, unless b
\* follows the node's head.
Timely(b) ==
    \/ LateFinality
    \/ IsPrefix(node.head, b)
    \/ IsPrefix(SubSeq(b, 1, Lib(b) - RootNum), node.head)

Calm == [node EXCEPT !.thrown = "none"]

\* The bounds leave room for a block on p.
Room(p) == Num(p) < MaxNum /\ Cardinality(node.index) < MaxIndex

\* controller::push_block: a block arrives whose previous block is known.
PushBlock(b) ==
    /\ Has(node, Front(b)) /\ ~Has(node, b)
    /\ Timely(b)
    /\ \E m \in {add(Calm, b)} : node' = IF Threw(m) THEN m ELSE maybe_switch_forks(m)

\* start_block .. commit_block(true): the node's own block on its head.
Produce(b) ==
    /\ Valid(b) /\ Front(b) = node.head /\ ~Has(node, b)
    /\ node.rev = Num(node.head)
    /\ LET m == mark_in_current_chain(add(Calm, b), b, TRUE)
           h == [m EXCEPT !.head = m.fhead]
       IN  node' = IF Threw(m) THEN m
                   ELSE IF m.fhead # b THEN Throw(h, "committed_not_head")
                   ELSE IF \E c \in m.reversible : Num(c) = Num(b) THEN Throw(h, "reversible_duplicate")
                   ELSE [h EXCEPT !.rev = @ + 1, !.reversible = @ \cup {b}]

\* The index read back from a file that has it in the order of hashes: blocks that are
\* equal for by_lib_block_num come in any order.
Orders(S) == {r \in SUBSET Ties(S) : IsOrder(r, S)}

\* close(): the index is written, then its oldest block is pruned if it is irreversible,
\* for the sake of the block log.
Closed ==
    LET h == oldest(node)
    IN  IF Num(h) <= Lib(node.fhead) THEN on_irreversible(Calm, h) ELSE Calm

\* init(): the reversible blocks, or else the block log, end at the head.
ReversibleOk(n) ==
    IF n.reversible # {} THEN Max({Num(c) : c \in n.reversible}) = Num(n.head)
    ELSE Num(n.log) = Num(n.head)

\* The node shuts down and starts again.  ~fork_database, fork_database::fork_database and
\* controller_impl::init; the state database restores its revision.
Restart ==
    /\ node.trial = "restarts"
    /\ \E order \in Orders(node.index) :
        LET n == [Closed EXCEPT !.older = order, !.head = node.fhead]
        IN  node' = IF Threw(n) THEN n
                    ELSE IF ReversibleOk(n) /\ n.rev >= Num(n.head)
                    THEN [n EXCEPT !.rev = Num(n.head)]
                    ELSE Throw(n, "inconsistent")

Validity == IF node.trial = "bad blocks" THEN BOOLEAN ELSE {TRUE}

\* The blocks the world may build on p.  A chain with a bad block gains no finality:
\* the producers that follow the rules do not build on it.
NextBlock(p) ==
    LET libs == IF \A c \in Ancestors(p) : Valid(c) THEN Lib(p) .. Num(p) ELSE {Lib(p)}
        labels == {Label(tag, lib, valid) : tag \in Tags, lib \in libs, valid \in Validity}
    IN  {Append(p, l) : l \in {x \in labels : x.valid \/ x.lib = Lib(p)}}

Next ==
    \/ \E p \in node.index : Room(p) /\ \E b \in NextBlock(p) : PushBlock(b)
    \/ Room(node.head) /\ \E b \in NextBlock(node.head) : Produce(b)
    \/ Restart

Spec == InitNode /\ [][Next]_node

-----------------------------------------------------------------------------
\* Properties

\* The node has no block in its fork database that is better than its head, and its head
\* is as good as the one the database picked: every switch is carried out, and one that
\* meets a bad block leaves the node on the best of the rest.
HeadIsBest ==
    /\ Has(node, node.head)
    /\ \A b \in node.index \cup {node.fhead} : ~Better(b, node.head)
    /\ ~Better(node.head, node.fhead)

\* The in_current_chain flags, on which pruning relies, mark exactly the chain of the head,
\* also after a switch that failed half-way.
CurrentIsHeadChain ==
    node.current = (Ancestors(node.head) \ {Root}) \cap node.index

\* What is in the block log stays under every later head: nothing irreversible is popped,
\* nothing of a rival branch is emitted, whatever is pushed, produced or restarted.
FinalForever == [][IsPrefix(node.log, node'.head)]_node

\* The state database has one undo session per reversible block, and the reversible block
\* database exactly the blocks between the log and the head: what a restart relies on.
StateInSync ==
    /\ node.rev = Num(node.head)
    /\ node.tail = Num(node.log)
    /\ node.reversible = Ancestors(node.head) \ Ancestors(node.log)

\* Only a bad block makes a handler throw: the assertions of pop_block, on_irreversible,
\* commit_block, start_block, init and fetch_branch_from never fail, and the index always has
\* a head.
OnlyBadBlocksThrow == node.thrown \in {"none", "invalid"}

\* The index is ordered for the choice of the head, and every block of it is built on a block
\* of the index, down to the blocks of one number: the walks of fetch_branch_from find every
\* block they ask for.
IndexConnected ==
    /\ node.older \subseteq Ties(node.index) /\ IsOrder(node.older, node.index)
    /\ \A b \in node.index :
        \/ b # Root /\ Has(node, Front(b))
        \/ \A c \in node.index : Num(b) <= Num(c)
=============================================================================
