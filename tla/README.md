# CyberWay: formal models of the chain state, finality, fork choice, block production, transactions and synchronisation

CyberWay is a blockchain node derived from EOSIO.  It keeps the state of the chain in
MongoDB behind its own layer (*ChainDB*), shuffles the schedule of block producers once
per round, and decides with delegated proof of stake (DPoS) which block is irreversible.
This directory holds TLA+ modules translated from the C++ sources, TLC configurations that
check them on small instances, and proofs checked by TLAPS.  `PROJECT.json` lists the
components, runs, mutants, hazards and theorems, and for every definition the source lines
it stands for.

    tlc -workers 2 -config UndoJournal.cfg MCUndoJournal     # one run
    tlapm UndoStackProofs.tla                                # the proofs of a module

## 1. Inventory

Paths are relative to `libraries/chain/` unless they name a plugin.

| Component | State it keeps | Operations | Talks to |
|---|---|---|---|
| Undo stack, `chaindb/undo_state.cpp` | revision, tail revision, stage; per table a deque of undo states (new, old, removed values) | start session, insert, update, remove, undo, squash, commit, set_revision, restore | called by the ChainDB controller for each row write and by the chain controller for sessions; writes undo documents into the journal |
| Journal, `chaindb/journal.cpp` | pending write per document | write data, undo, revision; apply to a driver | merged writes go to the driver |
| MongoDB driver, `chaindb/mongo_driver.cpp` | cursors, connection; the documents are in the database | bulk writes, reads | MongoDB |
| Cache, `chaindb/cache_map.cpp` | objects of rows in pending, LRU and system cells, failed lookups, sizes, next primary keys | find, emplace, create, remove, set_object, start, push, squash and undo of a session, eviction | ChainDB controller for reads and writes; undo stack, which puts back old rows |
| ChainDB controller, ABI, storage, `chaindb/controller.cpp`, ... | table definitions of accounts | find, insert, update, remove, undo | everything above |
| Header state, `block_header_state.cpp` | per block: schedule, pending schedule, confirmation counters, irreversible block | generate_next, next, set_confirmed, update_active_schedule | fork database, chain controller |
| Fork database, `fork_database.cpp` | multi-index of block states, head, file `forkdb.dat` | add, remove, prune, mark_in_current_chain, fetch_branch_from, close | calls the `irreversible` slot of the controller from inside `add()` |
| Chain controller, `controller.cpp` | head, pending block, reversible blocks, block log | push_block, start/finalize/commit/abort block, switch of forks, pop_block, push_transaction, init | all of the above; signals to plugins |
| Producer plugin, `plugins/producer_plugin` | mode, one timer and its correlation id, watermarks per producer, switches of the operator, transaction queues | start_block, schedule_production_loop, produce_block, on_incoming_block, pause, resume, update_runtime_options, create_snapshot | chain controller, timer and queue of the application |
| Block log, `block_log.cpp` | append-only file and index | append, read, repair | chain controller |
| Net plugin, `plugins/net_plugin` | per connection: socket, two write queues, last handshake, requested blocks, timer; the sync manager's stage, range and source; known blocks and transactions | handlers of each message, sync timeout, connect, close, broadcast | peers; chain and producer plugins |
| Transactions, `transaction_context.cpp`, `apply_context.cpp` | sessions and limits of one transaction | exec, schedule, retire deferred | chain controller, wasm, resource limits |
| Resource limits and stake, `resource_limits.cpp`, `stake.cpp` | averages and the stake tree | add usage, recall, update proxied | transactions, system contracts |
| Authorization, `authorization_manager.cpp` | permission trees | create, modify, check | transactions |
| ABI serializer, wasm, snapshots, genesis, merkle, APIs, history, events, wallet, tools | - | see `PROJECT.json` for why each is left out | - |

The node handles blocks and transactions in one thread: a handler runs to its end before
the next one starts.  What makes it hard is therefore not threads but

* **nested sessions**: block, transaction and action sessions are started, squashed, undone
  and committed in any order, and each operation touches three copies of the same fact
  (maps in memory, undo document, row);
* **restarts**: everything in memory is rebuilt from documents and files that were written
  piecemeal, while flushes to the database happen at moments nobody chose;
* **forks**: blocks of several branches arrive in any order, some are bad, and pruning
  happens before the switch;
* **transactions on the move**: a transaction passes between the queue, the pending block, the
  chain and the list of unapplied ones with each block that is aborted, popped or re-applied;
* **one timer**: the production loop is driven by a timer whose expired handler cannot be
  cancelled, while blocks and requests of the operator restart the loop at any moment;
* **peers**: a node catches up over connections that break with requests under way, while
  timers expire, peers produce and each side keeps its own idea of who is catching up;
* **a cache in front of the state**: objects move between cells with every session, and some
  readers take a row that is not cached for a row that does not exist;
* **distributed finality**: counters do not say who confirmed, schedules change and are
  shuffled in the middle of a round, producers lose their watermarks.

Correctness of each modelled component, in a sentence:

* the undo stack: every open session can be undone exactly, and nothing it asserts fails;
* journal and driver: the database plus the pending writes is what the cache holds, each
  pending write finds its document, and a restored stack undoes what the lost one would;
* cache: a cached row is the row of the database, a remembered failed lookup is still right,
  rows of the node's own bookkeeping are always cached, and sizes add up;
* net plugin: no block is passed over but one that was refused, a request or a timer is always
  under way, and the nodes of a connection end at one height and send each other news again;
* header state: more than two thirds of the producers confirmed a proposed block and built on the
  proposal of an irreversible one, irreversibility advances, each producer has one slot per round;
* production loop: it does not stop while production is possible, ships only the block it
  started, signs no number and no slot twice, and uses each slot it can;
* transactions: none takes effect twice, a scheduled one is retired once, a block made by the
  rules is accepted everywhere, and what the node accepted it keeps;
* fork database and controller: the node is on the best good chain it knows, nothing
  irreversible is ever popped, and all the places that record the chain agree.

## 2. Plan

Order of work, the most important behaviour first.  Items of the first group are done.

1. Done: `SessionStore`, `UndoStack`, `UndoJournal`, `BlockHeaderState`, `HeaderChain`,
   `ForkDatabase`, `DposForks`, `ProductionLoop`, `BlockTransactions`, `TransactionFlow`,
   `NetSync`, `ChainCache`.
2. Modules that are left, should the project grow:
   1. unique secondary indices of the cache, with the order in which undo restores rows;
   2. several nodes: `ProductionLoop` composed with the fork choice of `ForkDatabase`;
   3. block log and replay: append, index, repair after a crash, crash of the node between
      the writes of the fork database, the block log and the state;
   4. resource limits and stake as checked integer arithmetic with their widths;
   5. the authority check as a recursive algorithm against a reference definition;
   6. merkle roots: incremental against whole-tree.
3. Theorems: done for `UndoStack`, `UndoJournal`, `ChainCache`, `HeaderChain`, `ForkDatabase`,
   `ProductionLoop` and `TransactionFlow` (section 5).  Next: the blocks held by a node of `NetSync`.

## 3. Modules

### SessionStore, UndoStack, MCUndoStack, UndoStackProofs

`UndoStack` models `undo_stack_impl`: the variables `revision`, `tail` and `stage` are
`revision_`, `tail_revision_` and `stage_`; `tables[t]` is the `table_undo_stack` of a table
with its own stage, revision and the deque of undo states as a function from revisions.
`rows` is what a read of the tables returns.  One action per operation: `SetRevision`,
`StartSession`, `Insert`, `Update`, `Remove`, `Undo`, `Squash`, `Commit`; the merge of two
undo states keeps the four-by-four matrix of the code.  `snaps`, the contents at the start of
each open session, is a history variable.

`SessionStore` is the abstract promise, taken from the comments of `undo_state.hpp`: a stack
of whole-table snapshots.  `UndoStack` refines it: `Store == INSTANCE SessionStore WITH ...`
maps its variables to those of the promise, and no operation of `UndoStack` reads `snaps`.

### UndoJournal, MCUndoJournal, UndoJournalProofs

The same operations for one row, with what each writes to the journal, how the journal
merges writes of one document, what the driver does with them (`Flush`, possible at any
moment) and what `restore()` makes of the undo documents (`Restart`).  The entry of a row in
memory (`undo[r]`, with the map it is in) and its document (`docs[u]`) are separate, as in
the code.  MongoDB is external: a write to a document that is not there changes nothing.  A pair
of writes that the journal refuses is marked `Throw` and stays marked through whatever follows, an
undo too.
`trial`, chosen by `Init` from `Trials`, says which operations and payers a behaviour has.

### ChainCache, MCChainCache, ChainCacheProofs, CacheRamProofs

`cache_map_impl` for one table, driven by the ChainDB controller and the undo stack.  `cache.obj`
holds the object of each primary key: its stage, its row, the cell it is in and the LRU cell it
came from (`prev_state`).  Cells are numbered: LRU cells from the oldest, then one pending cell
per open session; `SystemCell` holds rows nobody pays for.  `unsuccess` is `unsuccess_pk_tree`,
`service` whether the table has a `cache_service_info` and whether it stays.  `db` is what the
driver reads, `undo` the stack of `SessionStore` with the keys each session wrote and the first
key it used.  A row is its size, which stands for its value.  The operators above the actions are
the methods of the cache; the actions are calls of the controller: `lower_bound`,
`get_cache_object`, `insert`, `update`, `remove` (with the undo stack's part, `Write`),
`emplace_row` and `emplace_fails` (`multi_index::emplace`, with the next primary key),
`start_undo_session`, `squash_revision`, `push_revision`, `undo_revision` (also `pop_block`, when
nothing is pending), `undo_commit` and `restart`, at any moment: the revisions of a block that was
not finished are undone before `initialize_caches` loads the rows of system objects.  `table`, chosen
by `Init` from `Tables`, is the kind of table with its bounds.

### BlockHeaderState, HeaderChain, MCHeaderChain, HeaderChainProofs

`BlockHeaderState` holds the operators of `block_header_state.cpp` on records with its fields
(`num`, `slot`, `schedule`, `shuffled`, `pending`, `lastProduced`, `impliedIrb`,
`confirmCount`, `proposed`, `lib`); a schedule is a sequence of producers, `slot` the block
timestamp.  The seeded shuffle is any permutation that leaves the protected prefix alone.
`HeaderChain` grows a chain by `next()`: any later slot, any number of confirmed blocks the
code accepts, a new schedule in any block.  `confirms`, `lastSlot` and `builtOn` are history
variables: who confirmed a block, the slot of each producer's last block and what was proposed
irreversible when it made it.  `impliedIrb` is the map the code counts, in which a promoted schedule
enters producers that made no block yet; `builtOn` is about blocks really made.

### ForkDatabase, MCForkDatabase, ForkDatabaseProofs

The node is one record `node`: `index`, `older`, `fhead` and `current` of the fork database; `head`,
`rev`, `tail`, `log` and `reversible` of the controller, its undo stack, its block log and
its database of reversible blocks; `thrown` is the exception that left the last handler.  A
block is the sequence of labels on its path from the root, so ids and links need no extra
state.  Every handler is one action: `PushBlock` (add, prune, signal, switch and switch
back), `Produce` (commit_block) and `Restart` (close, load, init).  The index is a
set of blocks; `older` has the pairs of blocks that are equal for `by_lib_block_num`, the one that
comes first in the multi-index first: the order of insertion, and after a restart any order, as
the file is written in the order of hashes.

### DposForks, MCDposForks

Composes `ForkDatabase` with `BlockHeaderState`: labels get the irreversible block the header
arithmetic computes, and producers follow the watermark rules of `producer_plugin.cpp`.  A
node that produces alone and the other producers are cut off from each other, then the node
receives their blocks, and once its head is theirs all of them produce on it together, so that the
irreversible block passes the numbers at which the chains were forked and the node's own blocks are
pruned.  The bound of the time apart is `MaxApart`, that of the whole `MaxNum`.

### ProductionLoop, MCProductionLoop, ProductionLoopProofs

The loop of `producer_plugin.cpp` on one node.  `n` is the plugin with its chain: `head`,
`pending`, the mode, the `timer`, the `queue` of handlers whose timer has expired, the switches
`enabled`, `paused` and `old` (the irreversible block is too old) and the watermarks.  A handler
in the queue is `current` while its correlation id is that of the plugin.  `start_block` and
`schedule_production_loop` are operators that return what they may leave; each handler is an
action: `RunLoopHandler`, `RunProduceHandler`, `SkipHandler`, `OnIncomingBlock`,
`OnRejectedBlock`, `pause`, `resume`, `update_runtime_options`, `create_snapshot` (also for
`get_integrity_hash`, which restarts the loop in the same way).  `Tick` moves the clock,
`Expire` is the timer, `IrreversibleAges` the passing of time without a new irreversible block.
`Faults` says what may throw: `chain.start_block`, a transaction that `start_block` applies, the
signature provider.  Only the start of a block of this node is in a `try` block; any other exception
of `start_block` leaves `schedule_production_loop` after its timer was cancelled.  `n.threw` is set
then, and what called the loop drops the exception, but for a handler of the loop's own timer, where
it ends the process.
A handler takes no time.  `OnIncomingBlock` leads to any head that other producers and the
blocks of this node allow, which stands for the fork choice.  `signed`, `excused` and `missed`
are history variables.

### NetSync, MCNetSync

`node[n]` is the plugin of a node: its chain as far as the plugin sees it (`head`, `have`), the
sync manager (`stage`, `known_lib`, `last_requested`, `next_expected`, `source`, `received`) and
its connections.  `refused` (history) has the blocks that linked and that the chain did not take.
A connection has the two write queues, `out` for `_out_queue` (empty, being written, the socket
closed under the write, or left full by a write that failed, for ever), `wire` for what the peer has not read, the range the peer asked for (`requested`), the
promised head (`fork`) and the timer of a response (`armed`, and `expired` when its handler is
queued).  Each handler is one step of its node: `ReadHandshake`, `ReadNotice`, `ReadRequest`,
`ReadSyncRequest`, `ReadBlock`, `RefuseBlock` (the chain throws, or the block is from the future),
`ReadEnd` (the read that ends with an error), `WriteDone`, `WriteFails`, `TimerExpires`, `SyncTimeout`, `Connect` (dial and accept) and `EraseConnection`
(`connection_monitor`); `Break` is the network and `Produce` the producer plugin.  A socket keeps
the order of messages and loses them only by breaking.  Of the chain the module has what the plugin
sees: blocks are numbers on two branches, the longer branch wins, each block makes the one `lag`
before it irreversible, and a rival of an irreversible block does not link.  `Init` picks a world
from `Worlds`: who dials whom, the heads, who produces, and the `faults` to come (breaks, late
answers, refusals).

### BlockTransactions, TransactionFlow, MCTransactionFlow, TransactionFlowProofs

`BlockTransactions` holds the operators of `controller.cpp` on a pending block: `db` is what the
tables hold (`dedup` the known transactions, `gtos` the scheduled ones, `ran` the programs that
have run), `receipts` and `trxs` are the fields of the block.  A transaction is taken from
`MaxLifetime` slots before it expires.  What a transaction does is a
program that sends, replaces or cancels a deferred transaction or starts a nested one, and that
fails once a program which spoils it has run.  A failed session leaves `db` as it was, which is
what `UndoStackProofs` proves.  `apply_block` makes a block again from its receipts, one
`ApplyReceipt` for each, with the nested receipt it waits for.  Each loop of the code over
transactions or receipts is a recursive function from the number of rounds to what they leave
(`ApplyReceipts`, `ApplyUnapplied`, `ApplyScheduled`, `ProcessPending`, `OtherBlock`).

`TransactionFlow` is a node that produces: `chain`, the `pending` block, `unapplied`
(`unapplied_transactions`) and `incoming` (`_pending_incoming_transactions`).  Actions are
`StartOwn` and `StartSpeculative` (the plugin's `start_block`, with the loops over unapplied,
scheduled and queued transactions), `Incoming` (`process_incoming_transaction_async`), `Commit`
(`produce_block`), `ReceiveBlock` and `SwitchForks` (`on_incoming_block` with a block on the head,
or with a better one on the block before).  A deadline may end any loop after any transaction.
Other producers make blocks with the same operators; a bad block has one more receipt.  `told`,
`gone` and `refused` are history variables.

## 4. Runs

All runs but the three marked *violation* pass; `PROJECT.json` names a mutant for each property
of a passing run that makes TLC report it.

| Run | Checks | Bounds |
|---|---|---|
| `undo_stack` | `TypeOK`, `NoSessionException`, `StageMachine`, `UndoLinks`, refinement of `SessionStore` | two tables with one key each, two rows, three nested sessions: each pair of undo states, all cells of the merge matrix, a merge of merged states |
| `undo_journal` | the journal accepts all writes (`JournalNeverThrows`), flushes find their documents, database = cache (`RowInSync`), documents = maps, commit discards, undo restores | one row, two values, three nested sessions; all operations with one payer, then restarts with two payers and without squashes and re-inserts (see below) |
| `restart_loses_row` *violation* | `UndoRestores` | an update squashed with a remove, and a restart |
| `chain_cache` | `CacheCoherent`, `SystemRowsCached`, `FailedLookupsRight`, `RamAccounted`, `NextPkFresh` | a contract's table with one row of two sizes or with two rows, a paid table and a system table with two rows; a session of a transaction in one of a block, restarts in the middle of it, up to two reversible blocks and three LRU cells; the limit of the cache is less than what the rows take, so that cells are evicted |
| `header_chain` | `ProposedByTwoThirds`, `IrreversibleByTwoThirds`, `IrreversibleAdvances`, `OneSlotPerRound` | six blocks of four producers, or eight of two while schedules that share a producer replace each other, enough for two promotions; a window of four counters (1024 in the code), so that it overflows; each block confirms up to three others; three producers in all orders, up to five slots between blocks, more than a round |
| `fork_switch` | `HeadIsBest`, `CurrentIsHeadChain`, `StateInSync`, `OnlyBadBlocksThrow`, `IndexConnected`, `FinalForever` | two children per block and kind, five numbers, five blocks in the index: two branches of two blocks with a bad one in any place, or, instead of bad blocks, restarts; prune limit 2 (10 in the code), so that it is reached |
| `dpos_heal` | `Converged` | four producers, five blocks on each side of the split, then two more on the common chain: the irreversible block passes the fork point and rivals at forked numbers are pruned |
| `dpos_late` *violation* | `HeadIsBest` | six blocks on each side |
| `production_loop` | `LoopStaysArmed`, `ShipsWhatWasStarted`, `NoDoubleConfirm`, `OneBlockPerSlot`, `OwnSlotsProduced` | two of three producers in turn are local; five slots of five ticks, more than a round; the shortest block and the retry take two ticks, the start window three, so that each comes before, at and after each tick of a slot; `chain.start_block` and the signature provider may fail at any time |
| `transactions` | `OneReceipt`, `DelayedUntilRetired`, `BlocksAccepted`, `NothingLost` | two inputs (one delayed, one with a nested transaction that sends a deferred one), three blocks in four slots, `MaxLifetime` 1: each input comes when its expiration is too far ahead, before, at and after its expiration, the delayed one expires after it was delayed, and scheduled ones are executed, fail, are cancelled, replaced and expire; one transaction in the queue and one in a block of others |
| `net_sync` | `NoHole`, `SyncPending`, and under fairness `CatchesUp`, `NewsResumes` | a node and one peer, caught up, behind the irreversible block, behind the head only, or on another branch of the same or a smaller length, with up to two breaks at any moment, under a write too; up to two blocks refused on the way from block 1, or from a shorter branch, to block 6; a node and two peers of different heights; chunks of two blocks, so that a sync takes several |
| `net_stall` *violation* | `SyncPending` | the peer produces up to two blocks while the node catches up, one break |

What the violations show is told in `findings` of `PROJECT.json`, with the line of code, the
comment, assertion or test it disagrees with, and the steps.  In short: an update squashed with
a remove leaves an undo document that is out of date, so that an undo after a restart does not
restore the row; a block that makes a part of another branch irreversible beyond the fork point
has the common ancestor pruned before the node switches to it; and a notice about an
irreversible block that the node has reached meanwhile puts it into `lib_catchup` with nothing
to ask for and no timer.

More disagreements of the same kind were met; a passing run leaves out the combination that
shows each of them, or its property names the state as an exception:

* a row removed and inserted again in one session loses the value of its undo document
  (`UndoRestores` with `reinsert` and `restart` among the `ops` of a trial);
* a remove squashed with an insert for another payer keeps the old payer, which the next squash
  writes over the row (`RowInSync` with `insert`, `reinsert`, `squash` and two payers);
* an insert squashed with a remove leaves an undo document behind that commit never discards
  (`CommitDiscards` when it does not leave out trials with `squash`);
* after a restart `next_pk` is unset: a session that removes the greatest row and creates another
  one uses a key below it, and its undo keeps that key as the next one although the row is back,
  so that a later `emplace` meets an existing key (`NextPkFresh` when it does not leave out tables
  with `restarts`, for a paid table);
* undo restores old values before it removes new ones; a session that freed a unique key and gave
  it to another row should make the cache throw `driver_duplicate_exception` in the middle of the
  undo (`build_cache_indicies`; read in the code, as secondary indices are not modelled);
* a restart after a bad block can start the node on a head whose state it does not have
  (`StateInSync` with bad blocks and restarts in one trial);
* a schedule of two that follows one of four can move the last irreversible block back, since
  the calculation takes the lowest of two producers, one of which lagged behind, and
  `commit_block` then fails its assertion (`IrreversibleAdvances` with `MayShrink = TRUE`,
  four producers at first, then `<<pa, pb>>`, and two slots between blocks at most;
  `IrreversibleByTwoThirds` fails on the way, as the counts of the larger schedule remain);
* the transactions of a popped block of another producer do not become unapplied, as `trxs` of a
  received block is empty (`NothingLost` when `SwitchForks` does not add them to `gone`);
* a transaction that fails in a bad block is erased from the unapplied ones (`NothingLost` when
  `v.failed` is not added to `gone`);
* `cancel_sync` empties the write queues: when an answer comes just before the handler of its
  timer runs, the handshake that the end of the sync queued is deleted and the peer keeps the node
  as syncing (`NewsResumes` with `late = 1` in a world);
* a node that is in sync and misses one broadcast block rejects all that follow as unlinkable, and
  `rejected_block` does nothing in that state (`CatchesUp` with a producer and a refusal in one world);
* a block that `push_block` refuses counts as received: `on_incoming_block` logs and drops what was
  thrown, and the `catch` of `fc::exception` in `handle_message` sets `no_reason`.  If it is the last
  one of a chunk, `request_next_chunk` waits for it, and no request and no timer is left, although
  `protocol.hpp` promises "a constant queue of requests in flight" (`SyncPending`, `CatchesUp` and
  `NewsResumes` without `Stalled`);
* a write that fails leaves `_out_queue` full, since its handler returns before `clear_out_queue` and
  `close` flushes the other two queues only.  A persistent connection is the same object when it is
  dialled again and never writes, not even its handshake, although the comment of `queue_write` says
  "if out_queue is not empty then async_write is in progress" (`CatchesUp` without `Muted`);
* an exception of `chain.start_block` for a speculative block, or while the loop waits for the block
  before, is outside the `try` block of `start_block` and leaves `schedule_production_loop` after it
  has cancelled its timer.  `on_incoming_block`, which restarts the loop because "exceptions throw
  out, make sure we restart our loop", drops it in `fc::scoped_exit`; the node then produces nothing
  until another block or request runs the loop (`LoopStaysArmed` without `n.threw`).

Four limits of the production loop were met in the same way:

* production disabled while a produce handler is queued leaves the handler current, so that
  `produce_block` is stopped only by its assertion (`ShipsWhatWasStarted` without its condition);
* a start window no longer than the retry lets a slot pass after a missing block
  (`OwnSlotsProduced` with `StartWindow = 2`);
* an exception of a transaction that `start_block` applies leaves the started block behind and, when a
  produce handler is queued, has it shipped before its time; after a switch of forks a second block is
  signed for the slot (`OneBlockPerSlot` with `"apply"` among `Faults`);
* a negative `produce-time-offset-us` lets a producer sign two blocks of one slot on two branches
  (`OneBlockPerSlot` with an `Offset` of -2).

Types are stated where they say something: as `TypeOK` of `UndoStack`, which ties the undo
states to the uncommitted revisions, and inside the invariants of the other modules (the window
of counters in `ProposedByTwoThirds`, sizes in `RamAccounted`).  Symmetry is used only over block tags, values and payers, which no formula
names.  `VIEW View` identifies header chains that differ by a shift of all slots, and leaves out
`lastSlot` where the slots are not shuffled.
`CHECK_DEADLOCK FALSE` is set where a model ends at its bounds.

### Bounds and assumptions on the environment

* `MaxRevision`, `MaxUndoPk`, `MaxNum`, `MaxApart`, `MaxSlot` and `MaxIndex` cap the models and appear in
  guards only.  `Bounds` of `HeaderChain` caps the number of the head, the slots skipped and the
  blocks confirmed by the size of the schedule, since chains of fewer producers are cheaper.
* `HeaderChain` with `MayShrink = FALSE` never sets a schedule smaller than the active one.
* `TransactionFlow`: `MaxBlocks`, `MaxQueue` and `MaxOps` bound the chain, the queue and the
  blocks of others.  Blocks may be started and received in any order of slots after the head, as
  the plugin's timing is the matter of `ProductionLoop`.  A fork switch replaces one block.
* `ProductionLoop` has one active schedule.  `Offset` is 0, the default of the option.  A slot of
  the node may pass without a block when the node was busy past a due handler, when starting or
  signing failed, or when a block, a snapshot or a resume restarts the loop too late in the slot
  for a block of at least 50 ms: `excused` records each of these and `OwnSlotsProduced` is about
  the other slots.
* `Trials` of `UndoJournal` selects the operations.  Restart is not combined with both
  insert and squash, which can leave two undo documents of one row and revision behind
  (the third item above); what `restore()` does with them is not modelled.
* `ForkDatabase` with `LateFinality = FALSE` assumes that a branch the node is not on does not
  make a block irreversible which the node's chain lacks.  `DposForks` drops the assumption and
  derives finality from the header arithmetic: `dpos_late` shows what happens then.
* `DposForks`: after the split the chain grows only when the node's head is that of the others.  A
  node that stays on an equally good branch of its own until the sixth block of the others comes is
  the case of `dpos_late`.
* `NextBlock` of `ForkDatabase`: a chain with a bad block gains no finality, as producers that
  follow the rules do not build on it.
* `Tables` of `ChainCache`: `max_pk`, `sizes` and `max_blocks` bound the rows and the reversible
  blocks.  A restart in the middle of a block leaves in the cache of the node what the undo at its
  start has restored of other tables, and their next keys; these are left out.  `max_cells` bounds the LRU cells, because a popped block leaves its cell behind, empty,
  in the middle of the list until it is evicted.  Nodes with the table of system objects or of a
  contract restart; the paid table, for which `NextPkFresh` is checked, is left out for the reason
  given above.
* `Worlds` of `NetSync`: finitely many breaks (`breaks`), no answer between the expiry of a timer
  and its handler (`late = 0`), one producer at most, and two peers only without breaks.  Blocks are
  refused (`refusals`) while nobody produces.
  `net_sync` lets a peer produce only when the node starts at its height; `net_stall` shows what
  can happen otherwise.

### Fairness

`FairSpec` of `NetSync` assumes weak fairness of the nodes' steps taken together: as long as some
handler, write, timer or reconnection is due, one of them happens.  The code justifies it: the
application's loop runs every posted handler, a write that was begun completes or fails (a fair
behaviour may choose either, where both are possible), a timer
expires, and `connection_monitor` re-arms itself and dials closed connections again.  Nothing is
assumed of `Break`, `RefuseBlock` and `Produce`, which are bounded and may not happen.  All other runs check
safety; that a node on one side of a split catches up is stated there for the moment when all
blocks that link have been delivered (`Converged`).

## 5. Proofs

A theorem holds for every value of the constants that meets the named assumptions; the bounds
of the runs (`MaxNum`, `MaxRevision`, `Bounds`, ...) are constants too, so no theorem depends on
them.  Each invariant named `IInv` was first checked by TLC on the instance of the run.

| Module | Theorem | States |
|---|---|---|
| `UndoStackProofs` | `TypeCorrect`, `SessionsUndoable`, `StagesFollow`, `NoExceptions` | `TypeOK`, `UndoLinks`, `StageMachine`, `NoSessionException` are invariants |
| | `Refinement` | `UndoStack` implements `SessionStore` |
| `UndoJournalProofs` | `NeverThrows`, `FlushesMatch`, `DocumentsMatch`, `CommitsDiscard`, `RowsInSync` | `JournalNeverThrows`, `FlushMatches`, `DocsMatch`, `CommitDiscards`, `RowInSync` |
| | `UndoRestoresRow` | the action property `UndoRestores` |
| `ChainCacheProofs` | `CachedRowsRight`, `SystemRowsFound`, `LookupsRight`, `FreshKeys` | `CacheCoherent`, `SystemRowsCached`, `FailedLookupsRight`, `NextPkFresh` |
| `CacheRamProofs` | `RamAdds` | `RamAccounted` |
| `HeaderChainProofs` | `ProposedNeedsTwoThirds`, `IrreversibleNeedsTwoThirds`, `OneSlotEach` | `ProposedByTwoThirds`, `IrreversibleByTwoThirds`, `OneSlotPerRound` |
| | `IrreversibleNeverMovesBack` | the action property `IrreversibleAdvances` |
| `ForkDatabaseProofs` | `BestHead`, `CurrentMarksHeadChain`, `StateFollows`, `OthersNeverThrow`, `IndexStaysConnected` | `HeadIsBest`, `CurrentIsHeadChain`, `StateInSync`, `OnlyBadBlocksThrow`, `IndexConnected` |
| | `LogIsFinal` | the action property `FinalForever` |
| `TransactionFlowProofs` | `MadeBlocksAccepted`, `AcceptedNotLost`, `DelayedRetiredOnce`, `OneReceiptEach` | `BlocksAccepted`, `NothingLost`, `DelayedUntilRetired`, `OneReceipt` |
| | `NoneTwice` | `OneReceiptOfOthers`: `OneReceipt` without a hypothesis, for the ids it is true of |
| `ProductionLoopProofs` | `StaysArmed`, `ShipsStarted`, `ConfirmsOnce`, `SignsOncePerSlot`, `SlotsUsed` | `LoopStaysArmed`, `ShipsWhatWasStarted`, `NoDoubleConfirm`, `OneBlockPerSlot`, `OwnSlotsProduced` |

### UndoStack

For any tables, keys and rows; `None` is not a row.  `IInv` is `TypeOK /\ StageMachine /\
UndoLinks`.  `UndoLinks` says that each undo state is exactly the difference between the contents
at the starts of two consecutive sessions.  It needs `StageMachine`: the undo state that a write
gets is the one of the current session only because each table's stage and revision follow the
global ones.  The lemmas about operators (`InsertLinks`, `UpdateLinks`, `RemoveLinks`,
`MergeLinks`, `UndoRowsRestore`) carry the matrix of cases; one lemma per action shows that
`IInv` is kept; `NoSessionException` and the refinement step follow from `IInv`.

### UndoJournal

For any values, payers and revisions.  Everything is said of `View`, a document with its pending
write applied: `InSync` (the view of the row is what the cache holds), `Chain` (each entry in
memory leads from the contents at the start of the next session to those of its own),
`Documented` (the view of an entry's document describes the entry) and `NoStrays` (without
squashes no other document is left).  `Merged` and `Written` describe what any merge of two
writes and any list of undo writes does to the views, so that each operation is argued once, for
any state of the journal.

Two conditions on `Trials` are hypotheses because the code is wrong without them.
`ReloadsExactly` (no squash and no re-insert in a trial with restarts): `restart_loses_row` shows
the squash, and the document of a re-inserted row has no value to restore.  `OnePayer` (one payer
where sessions are squashed), for `RowsInSync` only: a remove squashed with an insert keeps the
payer of the old row.  The trials of the run `undo_journal` meet both.  `NoValAssumption` and
`ServiceAssumption` say that the marks of a missing value are not values.

### ChainCache

For tables of any size, any limit of the cache, any depth of sessions and any number of LRU
cells.  `IInv` adds to the types: `Placement` (where an object in the tree may be), `Right` (what
the cache says of a set of rows), `Untouched` (a session changed only the keys it recorded) and
`Keys`.  `Right` ties a remembered failed lookup to a row that is *cached*, which is what makes
removal find and forget it; `Untouched` is what makes undo put all rows back; `Keys` bounds the
next primary key by the rows of every snapshot, since an undo restores the rows of one snapshot
and the key of another.  `EnterAll` and `LeaveAll` say what the loops over keys do as a whole.

`RamAccounted` speaks of the objects that are in an LRU cell now, and is not inductive: an object
read in a session leaves its cell, which goes on counting it, and an undo brings it back.
`CacheRamProofs` therefore counts for each cell its `Homes`, the objects in it and those that came
from it, with the rows they had at the beginning of the block (`Covered`).  `Returns` is what makes
that enough: an object that came from a cell and comes back has its old row again, since the session
that is undone began with this row, and a removed one is known to a session that can be undone.
`Shaped` says where an object may be, and `Summed` that `ram_used` is the sum of the cells.  Together
they are `RamInv`, which rests on `IInv` (a cached row is that of the database).  The sums are
recursive functions; `SumAdd`, `SizeSplit` and `CellSizes` say how they split over sets of objects and
over cells, so that a loop over keys (`EmplaceAll`, `RemoveAll`, `ReleaseAll`) changes each cell by the
sum of its own objects.  TLC checked `RamInv` on the instance of the run.

### HeaderChain

For chains of any length and schedules of up to 125 distinct producers: a one-byte counter holds
at most 255, and `SchedulesAssumption` takes the limit from `config::max_producers`.  `Counters`
ties each counter to the number of producers that confirmed its block, `Window` says which block a
counter is for when the oldest were dropped, `Confirmers` that no producer confirms a block twice
(also one that left the schedule and comes back), `Finality` that fewer than a third of the
producers are behind the irreversible block, `Backed` that a producer whose entry in the map is
above the irreversible block made a block of its own that far ahead, `Rounds` where in its round
the head is.  `Backed` is what `IrreversibleNeedsTwoThirds` rests on: a promoted schedule enters
producers without a block with the present irreversible block, never above it, so that they do not
count for the next one.
`IrreversibleNeedsTwoThirds` and `IrreversibleNeverMovesBack` have the hypothesis `~MayShrink`:
with schedules that shrink, TLC shows both properties fail (section 4).

### ForkDatabase

For trees of blocks of any shape, any prune limit and any tags, under `~LateFinality`: without it
`dpos_late` shows the failure.  `RootAssumption` says that the oldest block is not behind the block
it makes irreversible.  Between two handlers `Rests` holds:

* `Rooted`: the index has every ancestor of its blocks down to its lowest number, so that walks
  back find their blocks, and the irreversible block of a chain never moves back along it;
* `Ordered`: equal blocks are in a total order, so that the index has a first block;
* `Agreed`: whatever a block of the index makes irreversible is on the chain of the head; this is
  why pruning removes no ancestor a switch needs and why no switch pops an irreversible block;
* `Logged`, `InStep`, `Applies`: the log ends on the chain of the head where the index begins, and
  flags, revisions and reversible blocks are those of that chain, which has no bad block;
* no block but the head goes before the head.

Inside a handler `Mid` holds between `add` and the switch, and `Moved(n, g)` is the node whose
controller stands on block `g`: popping and applying lead from `Moved` to `Moved` (`PopAll`,
`ApplyAll`).  If the new branch has a bad block, the node is back on its old head and removes the
bad block with what is built on it; the old head is the best of the rest because a chain with a
bad block gains no finality (`BadChain`, `RemoveRests`).  The order of equal blocks is kept by
arrival, which excludes a switch between equal heads; a restart loses the order, so there the
invariant keeps only that no block is better.

### ProductionLoop

For any schedule, any producers of the node and any lengths of slots, windows and retries.
`LoopInv` says that, unless an exception has left the loop, a current handler is to come while
production is possible or the mode is producing, and that one that ships a block finds the block it
was set for (`Ships`), which in turn is above the watermark of its producer, or no block at all when
an exception has left the loop; `BelowWatermark` and `SlotInv` relate what was signed to
watermarks, to the clock and to the block to be shipped.  `SignsOncePerSlot` has the hypothesis
`NotEarly`, an `Offset` of at least 0 and no `"apply"` among `Faults`: with blocks shipped early it
fails (section 4).  The other theorems hold for all `Faults`.  `LoopStaysArmed` and
`ShipsWhatWasStarted` say nothing of a node whose loop an exception has left, until the loop runs
again; section 4 tells how it gets there.  `LoopStaysArmed` is about nodes
whose producers are in the schedule: for others `schedule_delayed_production_loop` finds no slot
and the code waits for the next block.

`SlotsUsed` has an invariant of its own on top of that one, `CourseInv`.  `Course` says that a node
that owes a block for the present slot is about to ship it, or runs the loop again while there is
time to start it.  At the beginning of a slot this has to come from somewhere: `Wakes` bounds
every timer by a slot that `calculate_pending_block_slot` had computed when it was set, which is
never later than what it computes now (`Near`), so that a timer set in any slot expires in time for
the next; and a node that only speculates waits for the end of a slot in which it may not produce,
which stays true as long as no handler runs.  The hypothesis `InGoodTime` has two parts:
`Offset <= 0`, since with a positive offset blocks are shipped after the time of their slot, which
the property counts as missed, and `2 * Shortest <= StartWindow + 1`, since a node that waits for the
block of the previous slot tries again only after `Shortest` and must still find `Shortest` left
(without it a slot is missed, section 4).
In the code `Shortest` is 50 ms and `StartWindow` is 110% of `max_block_usage[CPU]`, by default
1540 ms; the latter is a parameter of the chain that the producers can change.

### TransactionFlow

For any programs, delays, expirations, lifetime and window, any number of blocks and of transactions in
them.  A node that applies a block and the one that made it run the same operators in different
order: the producer tries, fails and undoes, the other follows the receipts.  `IInv` says

* `Books(db, L, slot)`: what the receipts `L` of a chain say about the database it left.  An input
  with a receipt is known or expired (`InputsKnown`); a row of the scheduled transactions is found by
  its id, which belongs to one key (`RowsUnique`); an input has its row from the receipt that delays
  it to the one that retires it (`DelayedRows`); an id made in this block that has a receipt is of a
  nested transaction and is known (`MadeReceipts`), and a row that was made has no receipt yet, unless
  its program is made in both ways (`MadeRows`);
* `Once(L, rs)`: each receipt of `rs` may follow those before it;
* `Match`: the input transactions kept with a block are those of its receipts, so that what is
  returned to the unapplied transactions is what was taken from them;
* `Reproduces(db, slot, b)`: *every* list that begins with the receipts of `b` leads `apply_block` to
  `b` after that many receipts.  The list is longer than the block so far because a nested receipt is
  looked for in the whole block and because a bad block has one more; with this form one more
  transaction extends what is known (`ReproduceOne`, `ReproduceTwo`);
* `ChainOk`, `LastOk` and `PendingOk` say this of the chain, of its last block, which a failed fork
  switch applies again, and of the pending block; `refused = {}` and `NothingLost`.

`PushSound`, `ScheduledSound` and their like show that one transaction, with its nested one, adds
its receipts and what they stand for, or nothing; `FlowOk` carries the block with the lists of the
node through the loops, and there is one lemma per action.  `ProgramsAssumption` says that
programs of inputs and of made transactions are different, as an input carries signatures.

`OneReceiptEach` has a hypothesis: no program is both started as a nested transaction and sent as
a deferred one (`Shared = {}`).  `schedule_deferred_transaction` and `execute_nested_transaction`
give both the same expiration and reference block, hence one id if they have the same contents and
are made in one block.  The programs of the run meet it, and `NoneTwice` needs no hypothesis: it is
about all other ids, those of input transactions among them.

### Technique

Facts that are said of recursive functions for all arguments (`prune_older`, `PopBlocks`,
`ApplyBranch`, the folds over producers and keys, the loops over receipts) are proved from the least
counterexample: the numbers for which a fact fails have a least element (`NatMin` and `Climb` in
`ForkDatabaseProofs` and `TransactionFlowProofs`), and the step before it gives the contradiction.
Maxima, minima and CHOOSE are handled in the same way, and the existence of a first block or a free
key by counting finite sets.

### Only model-checked

* `NetSync` (`NoHole`, `SyncPending`): they rest on what both ends of a connection know of each
  other, and they are results about the worlds of the runs, not about every world.  `SyncPending`
  fails where `net_stall` shows it.
* `Converged` of `DposForks`: the arithmetic of five blocks on each side of a split and two after it.
* Liveness (`CatchesUp`, `NewsResumes`) and ENABLED, which are out of the prover's reach.

## 6. Not modelled

* Of the undo stack: `clear()` of a dropped database and the primary key counters.
* Of the driver: cursors, BSON conversion, indexes; bulk writes that fail half-way.
* Of the cache: unique secondary indices, the RAM billed for loading an object by its distance
  in the LRU list, rows with `in_ram` off (`change_ram_state` has no caller), tables emplaced with a
  chosen key, replay without sessions, and `clear()`, which keeps `ram_used_`.
* Of the net plugin: refusals of a handshake, gray and duplicate connections, the exchange of
  addresses, transactions, the limit of the write queue, and requests of older protocol versions.
  Resolving, dialling and accepting are one step, after the peer has erased the former connection;
  an attempt that fails, or that meets the old connection, is not modelled.  `accept_block`
  has three outcomes: the block is taken, it is refused and counts as received, or it is rejected, for
  which `unlinkable`, `validation` and an assertion are one case.
* Of the fork database: `fork_db_block_not_found` of `mark_in_current_chain`, whose callers have the
  block from the index in the same handler (`fetch_branch_from`, `add`, the head), and
  `bft_irreversible_blocknum`, which stays 0 without BFT confirmations.
* Of the header state: signatures, hashes, BFT confirmations (nothing in the program sends
  one).
* Of transactions: the `onblock` transaction of each block, resource billing and its limits,
  authorizations (a nested transaction that comes back as an input lacks signatures, others have
  them), the five blocks with a soft failure that the code lists by id, the mixing of queued and
  scheduled transactions by `_incoming_defer_ratio`, the check of `start_block` that the pending block
  has the signing key that was looked up before (otherwise the plugin falls back to speculation), the blacklist (any ready row may be passed
  over), persisted transactions, the part of the head in the id of a made transaction, and skipped
  checks during a replay.
* Of the controller: the IRREVERSIBLE read mode
  (`chain_plugin.cpp` refuses it: "irreversible mode not currently supported"), the rejection of
  a block again by its receipts, a `guard_exception` in the middle of a switch, replay, and a crash
  that leaves no `forkdb.dat`.
* Of the producer plugin: the confirmations `on_block` signs (nothing
  reads them), the watermarks it gives to producers of a new schedule, a restart of the node, and
  a `guard_exception`, which shuts the node down.
* The components marked `not_modelled` in `PROJECT.json`, with the reasons given there.
