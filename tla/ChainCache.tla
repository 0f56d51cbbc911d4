------------------------------ MODULE ChainCache ------------------------------
(***************************************************************************)
(* The row cache of ChainDB, libraries/chain/chaindb/cache_map.cpp, as the *)
(* chaindb controller and the undo stack drive it.                         *)
(*                                                                         *)
(* The module follows one table.  Its rows are in the database; the cache  *)
(* holds an object for some of them.  An object belongs to a cell: each    *)
(* open session has a pending cell, push turns the cell of a block into an *)
(* LRU cell, and the oldest LRU cells go when the cache is over its limit. *)
(* An object read again moves to the innermost pending cell and remembers  *)
(* the LRU cell it came from.  Rows nobody pays for (the transactions seen *)
(* so far, the block summaries) are system objects: they stay in a cell of *)
(* their own, because the search for duplicate transactions looks at the   *)
(* cache alone.  The cache also remembers failed lookups and the next      *)
(* primary key.                                                            *)
(*                                                                         *)
(* A row is its size, which stands for its value.  The undo stack is the   *)
(* one of module SessionStore: contents at the start of each session,      *)
(* together with the keys the session wrote.  Left out: unique secondary   *)
(* indices, RAM billed for loading (pos, ram_bytes), rows with in_ram off  *)
(* (change_ram_state has no caller) and replay without sessions.           *)
(***************************************************************************)
EXTENDS Integers, Sequences, FiniteSets, SequencesExt

CONSTANTS
    Tables          \* the tables to follow: who writes them, sizes of their rows, the
                    \* limit of the cache, whether the node restarts, and the bounds on
                    \* primary keys, LRU cells and blocks that are not irreversible

ASSUME TablesAssumption ==
    \A t \in Tables :
        /\ t.kind \in {"contract", "paid", "system"} /\ t.restarts \in BOOLEAN
        /\ t.ram_limit \in Nat /\ t.max_pk \in Nat /\ t.max_cells \in Nat
        /\ t.max_blocks \in Nat
        /\ t.sizes \subseteq Nat \ {0}

VARIABLES
    table,          \* the table followed
    db,             \* its rows: what a read of the driver returns
    undo,           \* the sessions of the undo stack, oldest first
    cache           \* cache_map_impl

vars == <<table, db, undo, cache>>

Pk == 0 .. table.max_pk

NoRow      == 0     \* no row in the database, a cache object without a value
NoCell     == 0
SystemCell == -1
Unset      == -1
End        == table.max_pk + 1

\* A primary key without an object in object_tree or deleted_object_tree
Released == [stage |-> "Released", row |-> NoRow, cell |-> NoCell, prev |-> NoCell]

EmptyCache ==
    [obj       |-> [pk \in Pk |-> Released],
     lru       |-> <<>>,                        \* size of each LRU cell, oldest first
     pending   |-> 0,                           \* pending cells, after the LRU cells
     ram_used  |-> 0,
     unsuccess |-> [pk \in Pk |-> Unset],       \* unsuccess_pk_tree
     service   |-> IF table.kind = "contract" THEN "none" ELSE "kept",
     next_pk   |-> Unset]

-----------------------------------------------------------------------------
\* Objects and cells

IsSystem == table.kind = "system"           \* is_system_object
AutoKeys == table.kind # "contract"         \* primary keys come from next_pk

has_pending_cell(c) == c.pending > 0
Cached(c, pk) == c.obj[pk].stage = "Active"

InCell(c, cells) == {pk \in Pk : c.obj[pk].cell \in cells}

\* The cell of the object is now n places nearer to the oldest one.
Moved(o, n) == [o EXCEPT !.cell = @ - n]

add_ram_usage(c, cell, delta) ==
    IF cell \in DOMAIN c.lru
    THEN [c EXCEPT !.lru[cell] = @ + delta, !.ram_used = @ + delta]
    ELSE c

\* An object moves to the innermost pending cell from an LRU cell, or from nowhere.
add_pending_object(c, pk) ==
    IF has_pending_cell(c) /\ c.obj[pk].cell \in {NoCell} \union DOMAIN c.lru
    THEN [c EXCEPT !.obj[pk].cell = Len(c.lru) + c.pending, !.obj[pk].prev = c.obj[pk].cell]
    ELSE c

find(c, pk) == IF Cached(c, pk) THEN add_pending_object(c, pk) ELSE c

set_object(c, pk, row) ==
    [add_ram_usage(c, c.obj[pk].cell, row - c.obj[pk].row) EXCEPT !.obj[pk].row = row]

clear_unsuccess(c) == [c EXCEPT !.unsuccess = [pk \in Pk |-> Unset]]

\* The info of a contract's table goes with its last object; the object that
\* stands for the end of a table is never released.
EraseService(c) ==
    IF c.service = "made" /\ \A pk \in Pk : c.obj[pk].stage = "Released"
    THEN [c EXCEPT !.service = "none"] ELSE c

release_cache_object(c, pk) ==
    IF c.obj[pk].stage # "Active" THEN [c EXCEPT !.obj[pk].stage = "Released"]
    ELSE [add_ram_usage(c, c.obj[pk].cell, - c.obj[pk].row) EXCEPT
            !.obj[pk].stage = "Released",
            !.unsuccess = [p \in Pk |-> IF @[p] = pk THEN Unset ELSE @[p]]]

Reset(c, pk) == EraseService([c EXCEPT !.obj[pk] = Released])

\* A removed object keeps its place among the cells until the session ends.
remove_cache_object(c, pk) ==
    IF ~ Cached(c, pk) THEN c
    ELSE IF ~ has_pending_cell(c) \/ c.obj[pk].cell = SystemCell
    THEN Reset(release_cache_object(c, pk), pk)
    ELSE add_pending_object([release_cache_object(c, pk) EXCEPT !.obj[pk].stage = "Deleted"], pk)

\* mutant of Placed: a system object is like any other
Placed_pending(c, pk) == add_pending_object(c, pk)

\* The object of the row, found, revived or new, enters a cell ...
Placed(c, pk) ==
    IF ~ IsSystem THEN add_pending_object(c, pk)
    ELSE IF c.obj[pk].stage = "Released" THEN [c EXCEPT !.obj[pk].cell = SystemCell] ELSE c

\* ... and without a cell it is not kept.
emplace(c, pk, row) ==
    LET c1 == Placed([c EXCEPT !.service = IF @ = "none" THEN "made" ELSE @], pk)
    IN  IF c1.obj[pk].cell = NoCell THEN c1
        ELSE LET c2 == [c1 EXCEPT !.obj[pk].stage = "Active"]
             IN  IF row = NoRow THEN c2 ELSE set_object(c2, pk, row)

\* f[1] + ... + f[n]
SumTo(f, n) ==
    LET sum[k \in 0 .. n] == IF k = 0 THEN 0 ELSE sum[k - 1] + f[k]
    IN  sum[n]

\* The rows of the objects pks take this much.
Size(c, pks) == SumTo([k \in 1 .. End |-> IF k - 1 \in pks THEN c.obj[k - 1].row ELSE 0], End)

\* emplace of the rows of pks, which do not affect each other
EmplaceAll(c, rows, pks) ==
    LET c1 == [c EXCEPT !.obj = [pk \in Pk |-> IF pk \in pks THEN emplace(c, pk, rows[pk]).obj[pk]
                                               ELSE @[pk]],
                        !.service = IF @ = "none" /\ pks # {} THEN "made" ELSE @]
        Delta(cells) == Size(c1, pks \intersect InCell(c1, cells)) - Size(c, pks \intersect InCell(c1, cells))
    IN  [c1 EXCEPT !.lru = [i \in DOMAIN @ |-> @[i] + Delta({i})],
                   !.ram_used = @ + Delta(DOMAIN c.lru)]

\* remove_cache_object of the objects among pks
RemoveAll(c, pks) ==
    LET gone == {pk \in pks : Cached(c, pk)}
    IN  IF gone = {} THEN c
        ELSE EraseService([c EXCEPT
                !.obj = [pk \in Pk |-> IF pk \in gone THEN remove_cache_object(c, pk).obj[pk] ELSE @[pk]],
                !.lru = [i \in DOMAIN @ |-> @[i] - Size(c, gone \intersect InCell(c, {i}))],
                !.ram_used = @ - Size(c, gone \intersect InCell(c, DOMAIN c.lru)),
                !.unsuccess = [pk \in Pk |-> IF @[pk] \in gone THEN Unset ELSE @[pk]]])

\* The lookup of pk ended at the row rpk.
emplace_unsuccess(c, pk, rpk) ==
    IF ~ has_pending_cell(c) \/ c.service = "none" THEN c
    ELSE IF rpk = End THEN [c EXCEPT !.unsuccess[pk] = End, !.service = "kept"]
    ELSE IF Cached(c, rpk) THEN [find(c, rpk) EXCEPT !.unsuccess[pk] = rpk]
    ELSE c

-----------------------------------------------------------------------------
\* Sessions of the cache

start_session(c) == [c EXCEPT !.pending = @ + 1]

\* mutant of ReleaseAll: failed lookups that lead to the objects stay
ReleaseAll_alone(c, pks) ==
    IF pks = {} THEN c
    ELSE EraseService([c EXCEPT !.obj = [pk \in Pk |-> IF pk \in pks THEN Released ELSE @[pk]]])

\* The states of the objects pks are destroyed.
ReleaseAll(c, pks) ==
    IF pks = {} THEN c
    ELSE EraseService([c EXCEPT
            !.obj = [pk \in Pk |-> IF pk \in pks THEN Released ELSE @[pk]],
            !.unsuccess = [pk \in Pk |-> IF @[pk] \in pks THEN Unset ELSE @[pk]]])

\* What came from an LRU cell returns there, the rest is released.
undo_session(c) ==
    IF ~ has_pending_cell(c) THEN c         \* pop_block
    ELSE LET mine == InCell(c, {Len(c.lru) + c.pending})
             Back(o) == [o EXCEPT !.cell = o.prev, !.prev = NoCell]
             kept == {pk \in mine : c.obj[pk].prev # NoCell}
             c1   == [c EXCEPT !.pending = @ - 1,
                               !.obj = [pk \in Pk |-> IF pk \in kept THEN Back(@[pk]) ELSE @[pk]]]
         IN  ReleaseAll(c1, mine \ kept)

\* What the inner session made and removed goes, the rest moves outwards.
squash_session(c) ==
    LET mine == InCell(c, {Len(c.lru) + c.pending})
        gone == {pk \in mine : c.obj[pk].stage = "Deleted" /\ c.obj[pk].prev = NoCell}
        c1   == [c EXCEPT !.pending = @ - 1,
                          !.obj = [pk \in Pk |-> IF pk \in mine THEN Moved(@[pk], 1) ELSE @[pk]]]
    IN  ReleaseAll(c1, gone)

\* The pending cell becomes an LRU cell: removed objects go, and their size counts.
commit_revision(c) ==
    LET mine == InCell(c, {Len(c.lru) + 1})
        size == Size(c, mine)
        c1   == [c EXCEPT !.pending = 0,
                          !.lru = Append(@, size),
                          !.ram_used = @ + size,
                          !.obj = [pk \in Pk |-> [@[pk] EXCEPT !.prev = NoCell]]]
    IN  ReleaseAll(c1, {pk \in mine : c.obj[pk].stage = "Deleted"})

\* Cells without a size at the end go at once.
PopEmpty(c) ==
    LET n == CHOOSE i \in 0 .. Len(c.lru) :
                /\ i > 0 => c.lru[i] # 0
                /\ \A j \in i + 1 .. Len(c.lru) : c.lru[j] = 0
    IN  [ReleaseAll(c, InCell(c, n + 1 .. Len(c.lru))) EXCEPT !.lru = SubSeq(@, 1, n)]

SumSeq(s) == SumTo(s, Len(s))

\* The oldest cells go until the rest is within the limit.  The code asserts that there
\* is a cell as long as it is not (RamAccounted).
clear_overused_ram(c) ==
    LET Left(i) == c.ram_used - SumSeq(SubSeq(c.lru, 1, i))
        n == Min({i \in 0 .. Len(c.lru) : Left(i) <= table.ram_limit \/ i = Len(c.lru)})
        c1 == ReleaseAll(c, InCell(c, 1 .. n))
    IN  [c1 EXCEPT !.lru = SubSeq(@, n + 1, Len(@)),
                   !.ram_used = Left(n),
                   !.obj = [pk \in Pk |-> IF @[pk].cell > n THEN Moved(@[pk], n) ELSE @[pk]]]

push_session(c) == clear_overused_ram(PopEmpty(commit_revision(c)))

-----------------------------------------------------------------------------
\* The chaindb controller: reads

lower(pk) == CHOOSE rpk \in pk .. End : /\ rpk = End \/ db[rpk] # NoRow
                                        /\ \A q \in pk .. rpk - 1 : db[q] = NoRow

\* The driver is asked only when neither the row nor a failed lookup is cached.
lower_bound(pk) ==
    /\ cache' = IF Cached(cache, pk) THEN find(cache, pk)
                ELSE IF cache.unsuccess[pk] # Unset \/ lower(pk) = pk THEN cache
                ELSE emplace_unsuccess(cache, pk, lower(pk))
    /\ UNCHANGED <<table, db, undo>>

\* get_cache_object, object_by_pk: the row is loaded.
Load(c, pk) == IF Cached(c, pk) THEN find(c, pk) ELSE emplace(c, pk, db[pk])

get_cache_object(pk) ==
    /\ db[pk] # NoRow
    /\ cache' = Load(cache, pk)
    /\ UNCHANGED <<table, db, undo>>

-----------------------------------------------------------------------------
\* The chaindb controller: writes, inside a session

\* mutant of Write: an update counts as a new key too
Write_any(pk, row) ==
    LET u == Last(undo)
    IN  /\ has_pending_cell(cache)
        /\ db' = [db EXCEPT ![pk] = row]
        /\ undo' = [undo EXCEPT ![Len(undo)] =
                     [u EXCEPT !.touched = @ \union {pk}, !.next_pk = IF @ = Unset THEN pk ELSE @]]
        /\ UNCHANGED table

\* undo_state insert, update, remove: the undo stack learns of the write, and
\* of the first primary key the session used.
Write(pk, row) ==
    LET u == Last(undo)
    IN  /\ has_pending_cell(cache)
        /\ db' = [db EXCEPT ![pk] = row]
        /\ undo' = [undo EXCEPT ![Len(undo)] =
                     [u EXCEPT !.touched = @ \union {pk},
                               !.next_pk = IF @ = Unset /\ db[pk] = NoRow /\ u.snap[pk] = NoRow
                                           THEN pk ELSE @]]
        /\ UNCHANGED table

\* A contract's row is not cached when it is inserted.
insert(pk, row) ==
    /\ ~ AutoKeys
    /\ db[pk] = NoRow
    /\ Write(pk, row)
    /\ cache' = clear_unsuccess(cache)

available_pk == IF \A pk \in Pk : db[pk] = NoRow THEN 0
                ELSE 1 + CHOOSE pk \in Pk : db[pk] # NoRow /\ \A q \in pk + 1 .. table.max_pk : db[q] = NoRow

NewPk(c) == IF c.next_pk = Unset THEN available_pk ELSE c.next_pk

create(c) == emplace([c EXCEPT !.next_pk = NewPk(c) + 1], NewPk(c), NoRow)

\* A table of the node itself: an object is made, filled in, and written.
emplace_row(row) ==
    /\ AutoKeys
    /\ NewPk(cache) \in Pk
    /\ ~ Cached(cache, NewPk(cache)) /\ db[NewPk(cache)] = NoRow
    /\ Write(NewPk(cache), row)
    /\ cache' = set_object(clear_unsuccess(create(cache)), NewPk(cache), row)

\* The key is that of a cached row, or the constructor throws and the object
\* is destroyed; the key stays used.
emplace_fails ==
    /\ AutoKeys
    /\ has_pending_cell(cache)
    /\ NewPk(cache) \in Pk
    /\ cache' = IF Cached(cache, NewPk(cache))
                THEN [find(cache, NewPk(cache)) EXCEPT !.next_pk = NewPk(cache) + 1]
                ELSE remove_cache_object(create(cache), NewPk(cache))
    /\ UNCHANGED <<table, db, undo>>

update(pk, row) ==
    /\ db[pk] # NoRow
    /\ Write(pk, row)
    /\ cache' = emplace(clear_unsuccess(Load(cache, pk)), pk, row)

\* mutant of remove: the row is not loaded before it is removed
remove_unloaded(pk) ==
    /\ db[pk] # NoRow
    /\ Write(pk, NoRow)
    /\ cache' = remove_cache_object(clear_unsuccess(cache), pk)

remove(pk) ==
    /\ db[pk] # NoRow
    /\ Write(pk, NoRow)
    /\ cache' = remove_cache_object(clear_unsuccess(Load(cache, pk)), pk)

-----------------------------------------------------------------------------
\* Blocks and transactions: nested sessions

\* The session of a block, and inside it the one of a transaction
start_undo_session ==
    /\ cache.pending < 2
    /\ cache.pending = 0 => Len(undo) < table.max_blocks /\ Len(cache.lru) < table.max_cells
    /\ undo' = Append(undo, [snap |-> db, touched |-> {}, next_pk |-> Unset])
    /\ cache' = start_session(cache)
    /\ UNCHANGED <<table, db>>

\* A transaction becomes a part of its block.
squash_revision ==
    /\ cache.pending = 2
    /\ LET inner == Last(undo)
           outer == undo[Len(undo) - 1]
       IN  undo' = Append(SubSeq(undo, 1, Len(undo) - 2),
                      [outer EXCEPT !.touched = @ \union inner.touched,
                                    !.next_pk = IF @ = Unset THEN inner.next_pk ELSE @])
    /\ cache' = squash_session(cache)
    /\ UNCHANGED <<table, db>>

\* A block is complete; its revision can still be undone.
push_revision ==
    /\ cache.pending = 1
    /\ cache' = push_session(cache)
    /\ UNCHANGED <<table, db, undo>>

\* mutant of Restored: a cached row is left alone
Restored_missing(c, u, pks) == EmplaceAll(c, u.snap, {pk \in pks : ~ Cached(c, pk)})

Restored(c, u, pks) == EmplaceAll(c, u.snap, pks)

\* undo of one table: changed rows get their old value, new ones are removed,
\* removed ones return, and next_pk is what the session first used.
UndoTable(c, u) ==
    IF u.touched = {} THEN c
    ELSE LET old     == {pk \in u.touched : u.snap[pk] # NoRow /\ db[pk] # NoRow}
             new     == {pk \in u.touched : u.snap[pk] = NoRow /\ db[pk] # NoRow}
             removed == {pk \in u.touched : u.snap[pk] # NoRow /\ db[pk] = NoRow}
             c1 == Restored(clear_unsuccess(c), u, old)
             c2 == RemoveAll(c1, new)
             c3 == Restored(c2, u, removed)
         IN  IF u.next_pk # Unset /\ AutoKeys THEN [c3 EXCEPT !.next_pk = u.next_pk] ELSE c3

\* A transaction fails, a block is aborted, or (nothing pending) a block is popped.
undo_revision ==
    /\ undo # <<>>
    /\ cache' = undo_session(UndoTable(cache, Last(undo)))
    /\ db' = Last(undo).snap
    /\ undo' = Front(undo)
    /\ UNCHANGED table

\* The oldest block becomes irreversible.
undo_commit ==
    /\ cache.pending = 0
    /\ undo # <<>>
    /\ undo' = Tail(undo)
    /\ UNCHANGED <<table, db, cache>>

\* The number of the finished revisions, and the rows they left
Finished     == Len(undo) - cache.pending
FinishedRows == IF cache.pending = 0 THEN db ELSE undo[Finished + 1].snap

\* The node restarts: the revisions of an unfinished block are undone, and
\* initialize_caches reads every transaction and block summary.  What the undo
\* itself leaves in the cache (rows of other tables, next_pk) is left out.
restart ==
    /\ table.restarts
    /\ db' = FinishedRows
    /\ undo' = SubSeq(undo, 1, Finished)
    /\ cache' = EmplaceAll(EmptyCache, FinishedRows, {pk \in Pk : IsSystem /\ FinishedRows[pk] # NoRow})
    /\ UNCHANGED table

-----------------------------------------------------------------------------
Init ==
    /\ table \in Tables
    /\ db = [pk \in Pk |-> NoRow]
    /\ undo = <<>>
    /\ cache = EmptyCache

Next ==
    \/ \E pk \in Pk : lower_bound(pk) \/ get_cache_object(pk) \/ remove(pk)
    \/ \E pk \in Pk, row \in table.sizes : insert(pk, row) \/ update(pk, row)
    \/ \E row \in table.sizes : emplace_row(row)
    \/ emplace_fails
    \/ start_undo_session \/ squash_revision \/ push_revision \/ undo_revision
    \/ undo_commit \/ restart

Spec == Init /\ [][Next]_vars

-----------------------------------------------------------------------------
\* Properties

\* What the cache says of a row is what the database holds, after any mixture
\* of writes, undone, squashed and pushed sessions, popped blocks and evictions:
\* a OneRecord lookup never asks the driver (cache_map.cpp emplace, undo_session).
CacheCoherent ==
    \A pk \in Pk : Cached(cache, pk) => db[pk] # NoRow /\ cache.obj[pk].row = db[pk]

\* Every row of a system table is in the cache, also after popped blocks and a
\* restart: record_transaction looks for a duplicate with cursor_kind::InRAM,
\* which takes a row that is not cached for a row that does not exist.
SystemRowsCached ==
    IsSystem => \A pk \in Pk : db[pk] # NoRow => Cached(cache, pk)

\* A remembered failed lookup is still right: the row (or the end) it gives is
\* what the driver would find, and that row is cached (emplace_unsuccess).
FailedLookupsRight ==
    \A pk \in Pk : cache.unsuccess[pk] # Unset =>
        /\ ~ Cached(cache, pk)
        /\ cache.unsuccess[pk] = lower(pk)
        /\ cache.unsuccess[pk] # End => Cached(cache, cache.unsuccess[pk])

\* The size of an LRU cell covers its objects, so that no release underflows
\* it; ram_used_ is the sum of the cells, so that eviction ends within the
\* limit; no removed object outlives the sessions (release_cache_object).
RamAccounted ==
    /\ \A i \in DOMAIN cache.lru :
          cache.lru[i] >= Size(cache, InCell(cache, {i}))
    /\ cache.ram_used = SumSeq(cache.lru)
    /\ \A pk \in Pk : cache.obj[pk].stage = "Deleted" => cache.obj[pk].cell > Len(cache.lru)

\* The next key of a table is above all its rows, so that create never meets
\* an existing row, although undo puts next_pk back to the first key of the
\* session.  Only while the node runs: after a restart available_pk may give
\* a key below that of a row the same session removed, and undo keeps that key
\* as next_pk although the row returns (cache_map::create, undo_state undo).
NextPkFresh ==
    AutoKeys /\ ~ table.restarts => \A pk \in Pk : db[pk] # NoRow => NewPk(cache) > pk
=============================================================================
