---------------------------- MODULE MCChainCache ----------------------------
(***************************************************************************)
(* An instance of ChainCache for TLC: one table of each kind.  The limit   *)
(* of the cache is below what the rows of a table can take, so that cells  *)
(* are evicted.                                                            *)
(***************************************************************************)
EXTENDS ChainCache

Table(kind_, max_pk_, sizes_, limit, blocks, cells, restarts_) ==
    [kind |-> kind_, max_pk |-> max_pk_, sizes |-> sizes_, ram_limit |-> limit,
     max_blocks |-> blocks, max_cells |-> cells, restarts |-> restarts_]

AllTables ==
    {Table("contract", 0, {1, 2}, 3, 2, 3, TRUE),   \* one row, two reversible blocks
     Table("contract", 1, {1}, 2, 1, 3, FALSE),     \* failed lookups beside a row
     Table("paid", 1, {1}, 2, 2, 3, FALSE),         \* keys from next_pk
     Table("system", 1, {1}, 2, 2, 1, TRUE)}        \* transactions, block summaries
=============================================================================
