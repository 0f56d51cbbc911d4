-------------------------- MODULE ChainCacheProofs --------------------------
(***************************************************************************)
(* Proofs about the row cache, for tables of any size, any limit of the    *)
(* cache, any depth of the undo stack and any number of LRU cells: what    *)
(* the cache says of a row is what the database holds, the rows of system  *)
(* tables are always cached, remembered failed lookups are right, and new  *)
(* keys are above all rows.                                                *)
(***************************************************************************)
EXTENDS ChainCache, FiniteSetTheorems, TLAPS

-----------------------------------------------------------------------------
\* Types

Objects == [stage : {"Active", "Deleted", "Released"}, row : Nat, cell : Int, prev : Int]

\* Sizes of cells are sums, which no proof here looks into.
IsSeq(s) == \E R : s \in Seq(R)

CacheType(c) ==
    /\ c = [obj |-> c.obj, lru |-> c.lru, pending |-> c.pending, ram_used |-> c.ram_used,
            unsuccess |-> c.unsuccess, service |-> c.service, next_pk |-> c.next_pk]
    /\ c.obj \in [Pk -> Objects]
    /\ IsSeq(c.lru)
    /\ c.pending \in Nat
    /\ c.unsuccess \in [Pk -> Int]
    /\ c.next_pk \in Nat \cup {Unset}

Sessions == [snap : [Pk -> Nat], touched : SUBSET Pk, next_pk : Nat \cup {Unset}]

TypeOK ==
    /\ table \in Tables
    /\ db \in [Pk -> Nat]
    /\ undo \in Seq(Sessions)
    /\ CacheType(cache)

-----------------------------------------------------------------------------
\* The invariant

\* An object in the tree has a cell; those of a system table have the cell of their own.
Placement(c) ==
    /\ \A pk \in Pk : Cached(c, pk) => c.obj[pk].cell # NoCell
    /\ IsSystem => \A pk \in Pk :
          \/ c.obj[pk].stage = "Released"
          \/ c.obj[pk].stage = "Active" /\ c.obj[pk].cell = SystemCell

\* r is the first of rows from pk, or the end.
FirstFrom(rows, pk, r) ==
    /\ r \in pk .. End
    /\ r # End => rows[r] # NoRow
    /\ \A q \in pk .. r - 1 : rows[q] = NoRow

\* The cache c is right about rows.
Right(c, rows) ==
    /\ \A pk \in Pk : Cached(c, pk) => rows[pk] # NoRow /\ c.obj[pk].row = rows[pk]
    /\ IsSystem => \A pk \in Pk : rows[pk] # NoRow => Cached(c, pk)
    /\ \A pk \in Pk : c.unsuccess[pk] # Unset =>
          /\ FirstFrom(rows, pk, c.unsuccess[pk]) /\ rows[pk] = NoRow
          /\ c.unsuccess[pk] # End => c.unsuccess[pk] \in Pk /\ Cached(c, c.unsuccess[pk])

\* A session did not change what it did not touch.
Untouched ==
    \A i \in 1 .. Len(undo) : \A pk \in Pk : pk \notin undo[i].touched =>
        undo[i].snap[pk] = IF i = Len(undo) THEN db[pk] ELSE undo[i + 1].snap[pk]

KeysBelow(rows, k) == \A pk \in Pk : rows[pk] # NoRow => pk < k

NextKey == IF cache.next_pk = Unset THEN 0 ELSE cache.next_pk

\* The next key is above the rows there are and all that an undo may bring back, and so is
\* the key a session returns to.
Keys ==
    AutoKeys /\ ~ table.restarts =>
        /\ KeysBelow(db, NextKey)
        /\ \A i \in 1 .. Len(undo) : KeysBelow(undo[i].snap, NextKey)
        /\ \A i \in 1 .. Len(undo) : undo[i].next_pk # Unset =>
              \A j \in 1 .. i : KeysBelow(undo[j].snap, undo[i].next_pk)

IInv ==
    /\ TypeOK
    /\ Placement(cache)
    /\ Right(cache, db)
    /\ cache.pending <= Len(undo)
    /\ Untouched
    /\ Keys

-----------------------------------------------------------------------------
\* Sequences

\* The length of a sequence
LEMMA SeqFacts ==
    ASSUME NEW s, IsSeq(s)
    PROVE  Len(s) \in Nat /\ DOMAIN s = 1 .. Len(s)
  <1>1. PICK R : s \in Seq(R)
    BY DEF IsSeq
  <1> QED BY <1>1

\* A sequence with other elements is a sequence.
LEMMA SeqMap ==
    ASSUME NEW s, IsSeq(s), NEW t, DOMAIN t = DOMAIN s, t = [i \in DOMAIN t |-> t[i]]
    PROVE  IsSeq(t) /\ Len(t) = Len(s)
  <1> DEFINE R == {t[i] : i \in DOMAIN t}
             n == Len(s)
  <1>1. n \in Nat /\ DOMAIN t = 1 .. n
    BY SeqFacts
  <1>2. t \in [1 .. n -> R]
    BY <1>1
  <1> HIDE DEF R, n
  <1>3. t \in Seq(R) /\ Len(t) = n
    BY <1>1, <1>2
  <1> QED BY <1>3 DEF IsSeq, n

\* A part of a sequence, and a sequence with one more element
LEMMA SeqParts ==
    ASSUME NEW s, IsSeq(s)
    PROVE  /\ \A e : IsSeq(Append(s, e))
           /\ \A m, n \in Nat : m > 0 /\ n <= Len(s) => IsSeq(SubSeq(s, m, n))
  <1>1. PICK R : s \in Seq(R)
    BY DEF IsSeq
  <1>2. ASSUME NEW e PROVE IsSeq(Append(s, e))
    <2>1. s \in Seq(R \cup {e})
      BY <1>1
    <2>2. Append(s, e) \in Seq(R \cup {e})
      BY <2>1
    <2> QED BY <2>2 DEF IsSeq
  <1>3. ASSUME NEW m \in Nat, NEW n \in Nat, m > 0, n <= Len(s) PROVE IsSeq(SubSeq(s, m, n))
    <2>1. SubSeq(s, m, n) \in Seq(R)
      BY <1>1, <1>3
    <2> QED BY <2>1 DEF IsSeq
  <1> QED BY <1>2, <1>3

-----------------------------------------------------------------------------
\* Objects and cells

\* d holds the same rows as c, or fewer, but no fewer of a system table; what is left of the
\* failed lookups still leads to cached rows.
Keeps(c, d) ==
    /\ \A pk \in Pk : Cached(d, pk) => Cached(c, pk) /\ d.obj[pk].row = c.obj[pk].row
    /\ IsSystem => \A pk \in Pk : Cached(c, pk) => Cached(d, pk)
    /\ \A pk \in Pk : d.unsuccess[pk] # Unset =>
          /\ d.unsuccess[pk] = c.unsuccess[pk]
          /\ c.unsuccess[pk] \in Pk /\ Cached(c, c.unsuccess[pk]) => Cached(d, c.unsuccess[pk])

\* A cache with the same rows or fewer is right about the same rows.
LEMMA KeepsRight ==
    ASSUME NEW c, NEW d, NEW rows, Right(c, rows), Keeps(c, d)
    PROVE  Right(d, rows)
  BY DEF Right, Keeps

\* Keeps is transitive.
LEMMA KeepsTrans ==
    ASSUME NEW c, NEW d, NEW e, Keeps(c, d), Keeps(d, e)
    PROVE  Keeps(c, e)
  BY DEF Keeps

\* An object changes cells and nothing else.
LEMMA AddPending ==
    ASSUME NEW c, CacheType(c), NEW pk \in Pk
    PROVE  LET d == add_pending_object(c, pk)
           IN  /\ CacheType(d)
               /\ d.obj[pk].stage = c.obj[pk].stage /\ d.obj[pk].row = c.obj[pk].row
               /\ \A q \in Pk \ {pk} : d.obj[q] = c.obj[q]
               /\ c.obj[pk].cell # NoCell => d.obj[pk].cell # NoCell
               /\ has_pending_cell(c) => d.obj[pk].cell # NoCell
               /\ c.obj[pk].cell = SystemCell => d.obj[pk] = c.obj[pk]
               /\ d.lru = c.lru /\ d.pending = c.pending /\ d.unsuccess = c.unsuccess
               /\ d.next_pk = c.next_pk
  <1> DEFINE d == add_pending_object(c, pk)
             L == Len(c.lru)
             o == c.obj[pk]
             n == [o EXCEPT !.cell = L + c.pending, !.prev = o.cell]
  <1>1. L \in Nat /\ DOMAIN c.lru = 1 .. L /\ c.pending \in Nat /\ o \in Objects
    BY SeqFacts DEF CacheType
  <1>2. CASE has_pending_cell(c) /\ o.cell \in {NoCell} \union DOMAIN c.lru
    <2>1. d = [c EXCEPT !.obj = [c.obj EXCEPT ![pk] = n]]
      BY <1>2 DEF add_pending_object, CacheType
    <2>2. /\ n \in Objects /\ n.stage = o.stage /\ n.row = o.row
          /\ n.cell = L + c.pending /\ n.cell # NoCell
      <3> DEFINE k == L + c.pending
      <3>1. k \in Int /\ k # NoCell
        BY <1>1, <1>2 DEF has_pending_cell, NoCell
      <3> HIDE DEF k, o
      <3>2. n = [o EXCEPT !.cell = k, !.prev = o.cell]
        BY DEF k
      <3> QED BY <1>1, <3>1, <3>2 DEF Objects, k
    <2>3. o.cell # SystemCell
      BY <1>1, <1>2 DEF SystemCell, NoCell
    <2> HIDE DEF n
    <2> QED BY <1>1, <2>1, <2>2, <2>3, ZenonT(40) DEF CacheType
  <1>3. CASE ~ (has_pending_cell(c) /\ o.cell \in {NoCell} \union DOMAIN c.lru)
    BY <1>3 DEF add_pending_object
  <1> QED BY <1>2, <1>3

\* Sizes of cells change.
LEMMA AddRam ==
    ASSUME NEW c, CacheType(c), NEW cell, NEW delta
    PROVE  LET d == add_ram_usage(c, cell, delta)
           IN  /\ CacheType(d) /\ d.obj = c.obj /\ d.pending = c.pending
               /\ d.unsuccess = c.unsuccess /\ d.next_pk = c.next_pk
  <1> DEFINE d == add_ram_usage(c, cell, delta)
             t == [c.lru EXCEPT ![cell] = c.lru[cell] + delta]
  <1>1. CASE cell \in DOMAIN c.lru
    <2>1. d = [c EXCEPT !.lru = t, !.ram_used = c.ram_used + delta]
      BY <1>1 DEF add_ram_usage
    <2>2. IsSeq(t)
      <3>1. IsSeq(c.lru) /\ DOMAIN t = DOMAIN c.lru /\ t = [i \in DOMAIN t |-> t[i]]
        BY DEF CacheType
      <3> HIDE DEF t
      <3> QED BY <3>1, SeqMap
    <2> HIDE DEF t
    <2> QED BY <2>1, <2>2 DEF CacheType
  <1>2. CASE cell \notin DOMAIN c.lru
    BY <1>2 DEF add_ram_usage
  <1> QED BY <1>1, <1>2

\* find keeps what is cached.
LEMMA FindFacts ==
    ASSUME NEW c, CacheType(c), Placement(c), NEW pk \in Pk
    PROVE  LET d == find(c, pk)
           IN  /\ CacheType(d) /\ Placement(d) /\ Keeps(c, d)
               /\ \A q \in Pk : Cached(d, q) <=> Cached(c, q)
               /\ d.pending = c.pending /\ d.unsuccess = c.unsuccess /\ d.next_pk = c.next_pk
  <1>1. CASE ~ Cached(c, pk)
    BY <1>1 DEF find, Keeps
  <1>2. CASE Cached(c, pk)
    <2> DEFINE d == find(c, pk)
    <2>1. d = add_pending_object(c, pk)
      BY <1>2 DEF find
    <2>2. /\ CacheType(d)
          /\ d.obj[pk].stage = c.obj[pk].stage /\ d.obj[pk].row = c.obj[pk].row
          /\ \A q \in Pk \ {pk} : d.obj[q] = c.obj[q]
          /\ c.obj[pk].cell # NoCell => d.obj[pk].cell # NoCell
          /\ c.obj[pk].cell = SystemCell => d.obj[pk] = c.obj[pk]
          /\ d.pending = c.pending /\ d.unsuccess = c.unsuccess /\ d.next_pk = c.next_pk
      BY <2>1, AddPending
    <2> HIDE DEF d
    <2>3. \A q \in Pk : Cached(d, q) <=> Cached(c, q)
      BY <2>2 DEF Cached
    <2>4. Placement(d)
      BY <1>2, <2>2 DEF Placement, Cached
    <2>5. Keeps(c, d)
      BY <2>2, <2>3 DEF Keeps
    <2> QED BY <2>2, <2>3, <2>4, <2>5 DEF d
  <1> QED BY <1>1, <1>2

\* set_object gives an object another row.
LEMMA SetObject ==
    ASSUME NEW c, CacheType(c), NEW pk \in Pk, NEW row \in Nat
    PROVE  LET d == set_object(c, pk, row)
           IN  /\ CacheType(d)
               /\ d.obj[pk].stage = c.obj[pk].stage /\ d.obj[pk].cell = c.obj[pk].cell
               /\ d.obj[pk].row = row
               /\ \A q \in Pk \ {pk} : d.obj[q] = c.obj[q]
               /\ d.pending = c.pending /\ d.unsuccess = c.unsuccess /\ d.next_pk = c.next_pk
  <1> DEFINE d == set_object(c, pk, row)
             e == add_ram_usage(c, c.obj[pk].cell, row - c.obj[pk].row)
             n == [c.obj[pk] EXCEPT !.row = row]
  <1>1. /\ CacheType(e) /\ e.obj = c.obj /\ e.pending = c.pending
        /\ e.unsuccess = c.unsuccess /\ e.next_pk = c.next_pk
    BY AddRam
  <1>2. d = [e EXCEPT !.obj[pk].row = row]
    BY DEF set_object
  <1> HIDE DEF e, d
  <1>3. /\ n \in Objects /\ n.stage = c.obj[pk].stage /\ n.cell = c.obj[pk].cell /\ n.row = row
    BY DEF CacheType, Objects
  <1>4. d = [e EXCEPT !.obj = [c.obj EXCEPT ![pk] = n]]
    BY <1>1, <1>2
  <1> HIDE DEF n
  <1>5. /\ CacheType(d)
        /\ d.obj = [c.obj EXCEPT ![pk] = n]
        /\ d.pending = c.pending /\ d.unsuccess = c.unsuccess /\ d.next_pk = c.next_pk
    BY <1>1, <1>3, <1>4 DEF CacheType
  <1>6. pk \in DOMAIN c.obj /\ DOMAIN c.obj = Pk
    BY DEF CacheType
  <1>7. d.obj[pk] = n /\ \A q \in Pk \ {pk} : d.obj[q] = c.obj[q]
    BY <1>5, <1>6
  <1> QED BY <1>3, <1>5, <1>7 DEF d

\* What changes when a row enters the cache: d is c, but for the object of pk
Enters(c, d, pk, row) ==
    /\ CacheType(d) /\ Placement(d)
    /\ \A q \in Pk \ {pk} : d.obj[q] = c.obj[q]
    /\ Cached(c, pk) \/ IsSystem \/ has_pending_cell(c) => Cached(d, pk)
    /\ row # NoRow /\ Cached(d, pk) => d.obj[pk].row = row
    /\ d.pending = c.pending /\ d.unsuccess = c.unsuccess /\ d.next_pk = c.next_pk

\* emplace puts a row into the cache, unless there is no cell for it.
LEMMA EmplaceFacts ==
    ASSUME NEW c, CacheType(c), Placement(c), NEW pk \in Pk, NEW row \in Nat
    PROVE  Enters(c, emplace(c, pk, row), pk, row)
  <1> DEFINE c0 == [c EXCEPT !.service = IF @ = "none" THEN "made" ELSE @]
             c1 == Placed(c0, pk)
             c2 == [c1 EXCEPT !.obj[pk].stage = "Active"]
             d == emplace(c, pk, row)
  <1>1. /\ CacheType(c0) /\ c0.obj = c.obj /\ c0.lru = c.lru /\ c0.pending = c.pending
        /\ c0.unsuccess = c.unsuccess /\ c0.next_pk = c.next_pk
    BY DEF CacheType
  <1>2. has_pending_cell(c0) <=> has_pending_cell(c)
    BY <1>1 DEF has_pending_cell
  <1> HIDE DEF c0
  <1>3. /\ CacheType(c1)
        /\ c1.obj[pk].stage = c.obj[pk].stage /\ c1.obj[pk].row = c.obj[pk].row
        /\ \A q \in Pk \ {pk} : c1.obj[q] = c.obj[q]
        /\ c1.pending = c.pending /\ c1.unsuccess = c.unsuccess /\ c1.next_pk = c.next_pk
        /\ Cached(c, pk) \/ IsSystem \/ has_pending_cell(c) => c1.obj[pk].cell # NoCell
        /\ IsSystem => c1.obj[pk].cell = SystemCell
    <2>1. CASE ~ IsSystem
      <3>1. c1 = add_pending_object(c0, pk)
        BY <2>1 DEF Placed
      <3>2. Cached(c, pk) => c0.obj[pk].cell # NoCell
        BY <1>1 DEF Placement
      <3> HIDE DEF c1
      <3> QED BY <1>1, <1>2, <2>1, <3>1, <3>2, AddPending, SMTT(40)
    <2>2. CASE IsSystem /\ c.obj[pk].stage = "Released"
      <3> DEFINE n == [c.obj[pk] EXCEPT !.cell = SystemCell]
      <3>1. c1 = [c0 EXCEPT !.obj = [c.obj EXCEPT ![pk] = n]]
        BY <1>1, <2>2 DEF Placed
      <3>2. n \in Objects /\ n.stage = c.obj[pk].stage /\ n.row = c.obj[pk].row /\ n.cell = SystemCell
        BY DEF CacheType, Objects, SystemCell
      <3> HIDE DEF n, c1
      <3>3. SystemCell # NoCell
        BY DEF SystemCell, NoCell
      <3>4. /\ CacheType(c1) /\ c1.obj = [c.obj EXCEPT ![pk] = n]
            /\ c1.pending = c.pending /\ c1.unsuccess = c.unsuccess /\ c1.next_pk = c.next_pk
        BY <1>1, <3>1, <3>2 DEF CacheType
      <3>5. c1.obj[pk] = n /\ \A q \in Pk \ {pk} : c1.obj[q] = c.obj[q]
        BY <3>4 DEF CacheType
      <3> QED BY <3>2, <3>3, <3>4, <3>5
    <2>3. CASE IsSystem /\ c.obj[pk].stage # "Released"
      <3>1. c1 = c0
        BY <1>1, <2>3 DEF Placed
      <3>2. c.obj[pk].cell = SystemCell /\ SystemCell # NoCell
        BY <2>3 DEF Placement, SystemCell, NoCell
      <3> QED BY <1>1, <3>1, <3>2
    <2> QED BY <2>1, <2>2, <2>3
  <1> HIDE DEF c1
  <1>4. CASE c1.obj[pk].cell = NoCell
    <2>1. d = c1
      BY <1>4 DEF emplace, c1, c0
    <2>2. ~ Cached(c, pk) /\ ~ IsSystem /\ ~ has_pending_cell(c)
      BY <1>3, <1>4
    <2>3. ~ Cached(c1, pk)
      BY <1>3, <2>2 DEF Cached
    <2>4. Placement(c1)
      BY <1>3, <2>2, <2>3 DEF Placement, Cached
    <2> QED BY <1>3, <2>1, <2>2, <2>3, <2>4 DEF Enters
  <1>5. CASE c1.obj[pk].cell # NoCell
    <2> DEFINE n == [c1.obj[pk] EXCEPT !.stage = "Active"]
    <2>1. n \in Objects /\ n.stage = "Active" /\ n.row = c1.obj[pk].row /\ n.cell = c1.obj[pk].cell
      BY <1>3 DEF CacheType, Objects
    <2>2. c2 = [c1 EXCEPT !.obj = [c1.obj EXCEPT ![pk] = n]]
      OBVIOUS
    <2> HIDE DEF n, c2
    <2>3. /\ CacheType(c2) /\ c2.obj = [c1.obj EXCEPT ![pk] = n]
          /\ c2.pending = c.pending /\ c2.unsuccess = c.unsuccess /\ c2.next_pk = c.next_pk
      BY <1>3, <2>1, <2>2 DEF CacheType
    <2>4. c2.obj[pk] = n /\ \A q \in Pk \ {pk} : c2.obj[q] = c.obj[q]
      BY <1>3, <2>3 DEF CacheType
    <2>5. d = IF row = NoRow THEN c2 ELSE set_object(c2, pk, row)
      BY <1>5 DEF emplace, c2, c1, c0
    <2> HIDE DEF d
    <2>6. /\ CacheType(d)
          /\ d.obj[pk].stage = "Active" /\ d.obj[pk].cell = c1.obj[pk].cell
          /\ row # NoRow => d.obj[pk].row = row
          /\ \A q \in Pk \ {pk} : d.obj[q] = c.obj[q]
          /\ d.pending = c.pending /\ d.unsuccess = c.unsuccess /\ d.next_pk = c.next_pk
      <3>1. CASE row = NoRow
        BY <2>1, <2>3, <2>4, <2>5, <3>1
      <3>2. CASE row # NoRow
        <4>1. d = set_object(c2, pk, row)
          BY <2>5, <3>2
        <4>2. /\ CacheType(d)
              /\ d.obj[pk].stage = c2.obj[pk].stage /\ d.obj[pk].cell = c2.obj[pk].cell
              /\ d.obj[pk].row = row
              /\ \A q \in Pk \ {pk} : d.obj[q] = c2.obj[q]
              /\ d.pending = c2.pending /\ d.unsuccess = c2.unsuccess /\ d.next_pk = c2.next_pk
          <5>1. CacheType(c2)
            BY <2>3
          <5> QED BY <5>1, <4>1, SetObject
        <4> QED BY <2>1, <2>3, <2>4, <4>2
      <3> QED BY <3>1, <3>2
    <2>7. Placement(d)
      BY <1>3, <1>5, <2>6 DEF Placement, Cached
    <2>8. Cached(d, pk)
      BY <2>6 DEF Cached
    <2> QED BY <2>6, <2>7, <2>8 DEF Enters, d
  <1> QED BY <1>4, <1>5

\* A row that is already there enters the cache.
LEMMA EntersSame ==
    ASSUME NEW c, CacheType(c), NEW d, NEW pk \in Pk, NEW rows, Right(c, rows),
           rows[pk] # NoRow, Enters(c, d, pk, rows[pk])
    PROVE  Right(d, rows)
  <1>1. \A q \in Pk \ {pk} : Cached(d, q) <=> Cached(c, q)
    BY DEF Enters, Cached
  <1>2. Cached(c, pk) => Cached(d, pk)
    BY DEF Enters
  <1>3. \A q \in Pk : Cached(d, q) => rows[q] # NoRow /\ d.obj[q].row = rows[q]
    BY <1>1 DEF Enters, Right
  <1>4. IsSystem => \A q \in Pk : rows[q] # NoRow => Cached(d, q)
    BY <1>1 DEF Enters, Right
  <1>5. d.unsuccess = c.unsuccess
    BY DEF Enters
  <1> QED BY <1>1, <1>2, <1>3, <1>4, <1>5 DEF Right

\* The failed lookups are forgotten, the rest stays.
LEMMA ClearUnsuccess ==
    ASSUME NEW c, CacheType(c)
    PROVE  LET d == clear_unsuccess(c)
           IN  /\ CacheType(d) /\ d.obj = c.obj /\ d.lru = c.lru /\ d.pending = c.pending
               /\ d.unsuccess = [pk \in Pk |-> Unset] /\ d.next_pk = c.next_pk
  <1>1. [pk \in Pk |-> Unset] \in [Pk -> Int]
    BY DEF Unset
  <1> QED BY <1>1 DEF clear_unsuccess, CacheType

-----------------------------------------------------------------------------
\* Objects go

\* EraseService changes the service of the table only.
LEMMA EraseServiceFacts ==
    ASSUME NEW c, CacheType(c)
    PROVE  LET d == EraseService(c)
           IN  /\ CacheType(d) /\ d.obj = c.obj /\ d.lru = c.lru /\ d.pending = c.pending
               /\ d.unsuccess = c.unsuccess /\ d.next_pk = c.next_pk
  BY DEF EraseService, CacheType

\* What changes when the row of pk leaves the cache
Leaves(c, d, pk) ==
    /\ CacheType(d) /\ Placement(d)
    /\ \A q \in Pk \ {pk} : d.obj[q] = c.obj[q]
    /\ ~ Cached(d, pk)
    /\ \A q \in Pk : d.unsuccess[q] = IF c.unsuccess[q] = pk THEN Unset ELSE c.unsuccess[q]
    /\ d.pending = c.pending /\ d.next_pk = c.next_pk

\* remove_cache_object takes the row of a cached object out of the cache.
LEMMA RemoveFacts ==
    ASSUME NEW c, CacheType(c), Placement(c), NEW pk \in Pk, Cached(c, pk)
    PROVE  Leaves(c, remove_cache_object(c, pk), pk)
  <1> DEFINE e == add_ram_usage(c, c.obj[pk].cell, - c.obj[pk].row)
             r == release_cache_object(c, pk)
             d == remove_cache_object(c, pk)
             gone == [c.obj[pk] EXCEPT !.stage = "Released"]
             lookups == [p \in Pk |-> IF c.unsuccess[p] = pk THEN Unset ELSE c.unsuccess[p]]
  <1>1. /\ CacheType(e) /\ e.obj = c.obj /\ e.pending = c.pending
        /\ e.unsuccess = c.unsuccess /\ e.next_pk = c.next_pk
    BY AddRam
  <1>2. gone \in Objects /\ gone.stage = "Released" /\ gone.cell = c.obj[pk].cell
    BY DEF CacheType, Objects
  <1>3. lookups \in [Pk -> Int]
    BY DEF CacheType, Unset
  <1>4. r = [e EXCEPT !.obj = [c.obj EXCEPT ![pk] = gone], !.unsuccess = lookups]
    BY <1>1 DEF release_cache_object, Cached
  <1> HIDE DEF e, r, gone, lookups
  <1>5. /\ CacheType(r) /\ r.obj = [c.obj EXCEPT ![pk] = gone] /\ r.unsuccess = lookups
        /\ r.pending = c.pending /\ r.next_pk = c.next_pk
    BY <1>1, <1>2, <1>3, <1>4 DEF CacheType
  <1>6. r.obj[pk] = gone /\ \A q \in Pk \ {pk} : r.obj[q] = c.obj[q]
    BY <1>5 DEF CacheType
  <1>7. \A q \in Pk : lookups[q] = IF c.unsuccess[q] = pk THEN Unset ELSE c.unsuccess[q]
    BY DEF lookups
  <1>8. CASE ~ has_pending_cell(c) \/ c.obj[pk].cell = SystemCell
    <2> DEFINE f == [r EXCEPT !.obj[pk] = Released]
    <2>1. d = EraseService(f)
      BY <1>8 DEF remove_cache_object, Reset, r
    <2>2. Released \in Objects /\ Released.stage = "Released"
      BY DEF Released, Objects, NoRow, NoCell
    <2>3. f = [r EXCEPT !.obj = [r.obj EXCEPT ![pk] = Released]]
      OBVIOUS
    <2> HIDE DEF f, d
    <2>4. /\ CacheType(f) /\ f.obj = [r.obj EXCEPT ![pk] = Released] /\ f.unsuccess = lookups
          /\ f.pending = c.pending /\ f.next_pk = c.next_pk
      BY <1>5, <2>2, <2>3 DEF CacheType
    <2>5. f.obj[pk] = Released /\ \A q \in Pk \ {pk} : f.obj[q] = c.obj[q]
      BY <1>5, <1>6, <2>4 DEF CacheType
    <2>6. /\ CacheType(d) /\ d.obj = f.obj /\ d.unsuccess = lookups
          /\ d.pending = c.pending /\ d.next_pk = c.next_pk
      BY <2>1, <2>4, EraseServiceFacts
    <2>7. ~ Cached(d, pk)
      BY <2>2, <2>5, <2>6 DEF Cached
    <2>8. Placement(d)
      BY <2>2, <2>5, <2>6 DEF Placement, Cached
    <2> QED BY <1>7, <2>5, <2>6, <2>7, <2>8 DEF Leaves, d
  <1>9. CASE has_pending_cell(c) /\ c.obj[pk].cell # SystemCell
    <2> DEFINE n == [gone EXCEPT !.stage = "Deleted"]
               f == [r EXCEPT !.obj[pk].stage = "Deleted"]
    <2>1. d = add_pending_object(f, pk)
      BY <1>9 DEF remove_cache_object, r
    <2>2. n \in Objects /\ n.stage = "Deleted"
      BY <1>2 DEF Objects
    <2>3. f = [r EXCEPT !.obj = [r.obj EXCEPT ![pk] = n]]
      BY <1>6
    <2> HIDE DEF f, d, n
    <2>4. /\ CacheType(f) /\ f.obj = [r.obj EXCEPT ![pk] = n] /\ f.unsuccess = lookups
          /\ f.pending = c.pending /\ f.next_pk = c.next_pk
      BY <1>5, <2>2, <2>3 DEF CacheType
    <2>5. f.obj[pk] = n /\ \A q \in Pk \ {pk} : f.obj[q] = c.obj[q]
      BY <1>5, <1>6, <2>4 DEF CacheType
    <2>6. /\ CacheType(d) /\ d.obj[pk].stage = f.obj[pk].stage
          /\ \A q \in Pk \ {pk} : d.obj[q] = f.obj[q]
          /\ d.unsuccess = f.unsuccess
          /\ d.pending = f.pending /\ d.next_pk = f.next_pk
      <3>1. CacheType(f)
        BY <2>4
      <3> QED BY <2>1, <3>1, AddPending
    <2>7. ~ Cached(d, pk)
      BY <2>2, <2>5, <2>6 DEF Cached
    <2>8. ~ IsSystem
      BY <1>9 DEF Placement, Cached
    <2>9. Placement(d)
      BY <2>5, <2>6, <2>7, <2>8 DEF Placement, Cached
    <2> QED BY <1>7, <2>4, <2>5, <2>6, <2>7, <2>9 DEF Leaves, d
  <1> QED BY <1>8, <1>9

\* The states of objects pks that are not those of a system table are destroyed.
LEMMA ReleaseAllFacts ==
    ASSUME NEW c, CacheType(c), Placement(c), NEW pks,
           \A pk \in pks : pk \in Pk /\ c.obj[pk].cell # SystemCell
    PROVE  LET d == ReleaseAll(c, pks)
           IN  /\ CacheType(d) /\ Placement(d) /\ Keeps(c, d)
               /\ d.obj = [pk \in Pk |-> IF pk \in pks THEN Released ELSE c.obj[pk]]
               /\ d.lru = c.lru /\ d.pending = c.pending /\ d.next_pk = c.next_pk
  <1> DEFINE d == ReleaseAll(c, pks)
             objs == [pk \in Pk |-> IF pk \in pks THEN Released ELSE c.obj[pk]]
             lookups == [pk \in Pk |-> IF c.unsuccess[pk] \in pks THEN Unset ELSE c.unsuccess[pk]]
             e == [c EXCEPT !.obj = objs, !.unsuccess = lookups]
  <1>1. CASE pks = {}
    <2>1. d = c
      BY <1>1 DEF ReleaseAll
    <2>2. c.obj = objs
      BY <1>1 DEF CacheType
    <2> QED BY <2>1, <2>2 DEF Keeps
  <1>2. CASE pks # {}
    <2>1. d = EraseService(e)
      BY <1>2 DEF ReleaseAll
    <2>2. Released \in Objects /\ Released.stage = "Released"
      BY DEF Released, Objects, NoRow, NoCell
    <2>3. objs \in [Pk -> Objects] /\ \A pk \in Pk : objs[pk] = IF pk \in pks THEN Released ELSE c.obj[pk]
      BY <2>2 DEF CacheType
    <2>4. /\ lookups \in [Pk -> Int]
          /\ \A pk \in Pk : lookups[pk] = IF c.unsuccess[pk] \in pks THEN Unset ELSE c.unsuccess[pk]
      BY DEF CacheType, Unset
    <2>5. e = [c EXCEPT !.obj = objs, !.unsuccess = lookups]
      OBVIOUS
    <2> HIDE DEF objs, lookups, d, e
    <2>6. /\ CacheType(e) /\ e.obj = objs /\ e.unsuccess = lookups /\ e.lru = c.lru
          /\ e.pending = c.pending /\ e.next_pk = c.next_pk
      BY <2>3, <2>4, <2>5 DEF CacheType
    <2>7. /\ CacheType(d) /\ d.obj = objs /\ d.unsuccess = lookups /\ d.lru = c.lru
          /\ d.pending = c.pending /\ d.next_pk = c.next_pk
      BY <2>1, <2>6, EraseServiceFacts
    <2>8. \A pk \in Pk : Cached(d, pk) <=> Cached(c, pk) /\ pk \notin pks
      BY <2>2, <2>3, <2>7 DEF Cached
    <2>9. Placement(d)
      BY <2>2, <2>3, <2>7, <2>8 DEF Placement
    <2>10. IsSystem => \A pk \in Pk : Cached(c, pk) => pk \notin pks
      BY DEF Placement, Cached
    <2>11. Keeps(c, d)
      BY <2>3, <2>4, <2>7, <2>8, <2>10 DEF Keeps
    <2> QED BY <2>7, <2>9, <2>11 DEF d, objs
  <1> QED BY <1>1, <1>2

-----------------------------------------------------------------------------
\* Sessions

\* What a session operation leaves: at most the same rows, as they were
Ends(c, d) == CacheType(d) /\ Placement(d) /\ Keeps(c, d) /\ d.next_pk = c.next_pk

\* Objects move between cells other than the one of the system, and to one of these.
LEMMA MoveFacts ==
    ASSUME NEW c, CacheType(c), Placement(c), NEW d, CacheType(d),
           \A pk \in Pk : /\ d.obj[pk].stage = c.obj[pk].stage /\ d.obj[pk].row = c.obj[pk].row
                          /\ c.obj[pk].cell # NoCell => d.obj[pk].cell # NoCell
                          /\ c.obj[pk].cell = SystemCell => d.obj[pk].cell = SystemCell,
           d.unsuccess = c.unsuccess, d.next_pk = c.next_pk
    PROVE  Ends(c, d)
  <1>1. \A pk \in Pk : Cached(d, pk) <=> Cached(c, pk)
    BY DEF Cached
  <1>2. Placement(d)
    BY <1>1 DEF Placement
  <1>3. Keeps(c, d)
    BY <1>1 DEF Keeps
  <1> QED BY <1>2, <1>3 DEF Ends

\* Ends of the parts of an operation
LEMMA EndsTrans ==
    ASSUME NEW c, NEW d, NEW e, Ends(c, d), Ends(d, e)
    PROVE  Ends(c, e)
  BY KeepsTrans DEF Ends

\* undo_session returns objects to their LRU cells and releases the others.
LEMMA UndoSession ==
    ASSUME NEW c, CacheType(c), Placement(c)
    PROVE  LET d == undo_session(c)
           IN  /\ Ends(c, d)
               /\ d.pending = IF c.pending > 0 THEN c.pending - 1 ELSE 0
  <1> DEFINE L == Len(c.lru)
             d == undo_session(c)
             mine == InCell(c, {L + c.pending})
             kept == {pk \in mine : c.obj[pk].prev # NoCell}
             Back(o) == [o EXCEPT !.cell = o.prev, !.prev = NoCell]
             objs == [pk \in Pk |-> IF pk \in kept THEN Back(c.obj[pk]) ELSE c.obj[pk]]
             c1 == [c EXCEPT !.pending = @ - 1, !.obj = objs]
  <1>1. CASE ~ has_pending_cell(c)
    <2>1. d = c /\ c.pending = 0
      BY <1>1 DEF undo_session, has_pending_cell, CacheType
    <2> QED BY <2>1 DEF Ends, Keeps
  <1>2. CASE has_pending_cell(c)
    <2>1. L \in Nat /\ c.pending \in Nat /\ c.pending > 0
      BY <1>2, SeqFacts DEF CacheType, has_pending_cell
    <2>2. \A pk \in mine : pk \in Pk /\ c.obj[pk].cell = L + c.pending /\ c.obj[pk].cell # SystemCell
      BY <2>1 DEF InCell, SystemCell
    <2>3. d = ReleaseAll(c1, mine \ kept)
      BY <1>2 DEF undo_session
    <2>4. ASSUME NEW pk \in Pk
          PROVE  /\ objs[pk] \in Objects
                 /\ objs[pk].stage = c.obj[pk].stage /\ objs[pk].row = c.obj[pk].row
                 /\ c.obj[pk].cell # NoCell => objs[pk].cell # NoCell
                 /\ c.obj[pk].cell = SystemCell => objs[pk].cell = SystemCell
                 /\ pk \notin kept => objs[pk] = c.obj[pk]
      <3>1. c.obj[pk] \in Objects
        BY DEF CacheType
      <3>2. CASE pk \in kept
        <4>1. objs[pk] = Back(c.obj[pk]) /\ c.obj[pk].prev # NoCell /\ c.obj[pk].cell # SystemCell
          BY <2>2, <3>2
        <4> DEFINE o == c.obj[pk]
                   n == [o EXCEPT !.cell = o.prev, !.prev = NoCell]
        <4>2. o \in Objects /\ objs[pk] = n
          BY <3>1, <4>1
        <4> HIDE DEF objs, kept, mine, o
        <4>3. n \in Objects /\ n.stage = o.stage /\ n.row = o.row /\ n.cell = o.prev
          <5>1. o.prev \in Int /\ NoCell \in Int
            BY <4>2 DEF Objects, NoCell
          <5>2. n = [o EXCEPT !.cell = o.prev, !.prev = NoCell]
            OBVIOUS
          <5> HIDE DEF n
          <5> QED BY <4>2, <5>1, <5>2 DEF Objects
        <4> QED BY <3>2, <4>1, <4>2, <4>3 DEF o
      <3>3. CASE pk \notin kept
        <4>1. objs[pk] = c.obj[pk]
          BY <3>3
        <4> HIDE DEF objs
        <4> QED BY <3>1, <4>1
      <3> QED BY <3>2, <3>3
    <2>5. objs \in [Pk -> Objects]
      <3>1. objs = [pk \in Pk |-> objs[pk]]
        OBVIOUS
      <3> HIDE DEF objs
      <3> QED BY <2>4, <3>1
    <2>6. c1 = [c EXCEPT !.pending = c.pending - 1, !.obj = objs]
      OBVIOUS
    <2> HIDE DEF objs, c1, d, kept, mine
    <2>7. /\ CacheType(c1) /\ c1.obj = objs /\ c1.pending = c.pending - 1
          /\ c1.unsuccess = c.unsuccess /\ c1.next_pk = c.next_pk
      <3> DEFINE k == c.pending - 1
      <3>1. k \in Nat /\ c1 = [c EXCEPT !.pending = k, !.obj = objs]
        BY <2>1, <2>6
      <3> HIDE DEF k
      <3>2. CacheType(c1) /\ c1.pending = k
        BY <2>5, <3>1 DEF CacheType
      <3>3. c1.obj = objs /\ c1.unsuccess = c.unsuccess /\ c1.next_pk = c.next_pk
        BY <3>1 DEF CacheType
      <3> QED BY <3>2, <3>3 DEF k
    <2>8. Ends(c, c1)
      <3>1. \A pk \in Pk : /\ c1.obj[pk].stage = c.obj[pk].stage /\ c1.obj[pk].row = c.obj[pk].row
                           /\ c.obj[pk].cell # NoCell => c1.obj[pk].cell # NoCell
                           /\ c.obj[pk].cell = SystemCell => c1.obj[pk].cell = SystemCell
        BY <2>4, <2>7
      <3> QED BY <2>7, <3>1, MoveFacts
    <2>9. \A pk \in mine \ kept : pk \in Pk /\ c1.obj[pk].cell # SystemCell
      BY <2>2, <2>4, <2>7
    <2>10. Ends(c1, d) /\ d.pending = c1.pending
      <3>1. CacheType(c1) /\ Placement(c1)
        BY <2>8 DEF Ends
      <3> QED BY <2>3, <2>9, <3>1, ReleaseAllFacts DEF Ends
    <2> QED BY <2>1, <2>7, <2>8, <2>10, EndsTrans DEF d
  <1> QED BY <1>1, <1>2

\* squash_session moves the objects of the inner session outwards.
LEMMA SquashSession ==
    ASSUME NEW c, CacheType(c), Placement(c), c.pending = 2
    PROVE  LET d == squash_session(c) IN Ends(c, d) /\ d.pending = 1
  <1> DEFINE L == Len(c.lru)
             d == squash_session(c)
             mine == InCell(c, {L + c.pending})
             gone == {pk \in mine : c.obj[pk].stage = "Deleted" /\ c.obj[pk].prev = NoCell}
             objs == [pk \in Pk |-> IF pk \in mine THEN Moved(c.obj[pk], 1) ELSE c.obj[pk]]
             c1 == [c EXCEPT !.pending = @ - 1, !.obj = objs]
  <1>1. L \in Nat
    BY SeqFacts DEF CacheType
  <1>2. \A pk \in mine : pk \in Pk /\ c.obj[pk].cell = L + 2
    BY <1>1 DEF InCell
  <1>3. d = ReleaseAll(c1, gone)
    BY DEF squash_session
  <1>4. ASSUME NEW pk \in Pk
        PROVE  /\ objs[pk] \in Objects
               /\ objs[pk].stage = c.obj[pk].stage /\ objs[pk].row = c.obj[pk].row
               /\ c.obj[pk].cell # NoCell => objs[pk].cell # NoCell
               /\ c.obj[pk].cell = SystemCell => objs[pk].cell = SystemCell
               /\ pk \in mine => objs[pk].cell # SystemCell
    <2> DEFINE o == c.obj[pk]
               k == o.cell - 1
               n == [o EXCEPT !.cell = k]
    <2>1. o \in Objects
      BY DEF CacheType
    <2>2. k \in Int
      BY <2>1 DEF Objects
    <2>3. objs[pk] = IF pk \in mine THEN n ELSE o
      BY DEF Moved
    <2>4. pk \in mine => o.cell = L + 2 /\ k = L + 1
      BY <1>1, <1>2
    <2> HIDE DEF objs, mine, o, k
    <2>5. n = [o EXCEPT !.cell = k]
      OBVIOUS
    <2> HIDE DEF n
    <2>6. n \in Objects /\ n.stage = o.stage /\ n.row = o.row /\ n.cell = k
      BY <2>1, <2>2, <2>5 DEF Objects
    <2>7. pk \in mine => n.cell # NoCell /\ n.cell # SystemCell /\ o.cell # SystemCell
      BY <1>1, <2>4, <2>6 DEF NoCell, SystemCell
    <2> QED BY <2>1, <2>3, <2>6, <2>7 DEF o
  <1>5. objs \in [Pk -> Objects]
    <2>1. objs = [pk \in Pk |-> objs[pk]]
      OBVIOUS
    <2> HIDE DEF objs
    <2> QED BY <1>4, <2>1
  <1>6. c1 = [c EXCEPT !.pending = 1, !.obj = objs]
    OBVIOUS
  <1>7. \A pk \in gone : pk \in Pk /\ pk \in mine
    BY <1>2
  <1> HIDE DEF objs, c1, d, gone, mine
  <1>8. /\ CacheType(c1) /\ c1.obj = objs /\ c1.pending = 1
        /\ c1.unsuccess = c.unsuccess /\ c1.next_pk = c.next_pk
    BY <1>5, <1>6 DEF CacheType
  <1>9. Ends(c, c1)
    <2>1. \A pk \in Pk : /\ c1.obj[pk].stage = c.obj[pk].stage /\ c1.obj[pk].row = c.obj[pk].row
                         /\ c.obj[pk].cell # NoCell => c1.obj[pk].cell # NoCell
                         /\ c.obj[pk].cell = SystemCell => c1.obj[pk].cell = SystemCell
      BY <1>4, <1>8
    <2> QED BY <1>8, <2>1, MoveFacts
  <1>10. \A pk \in gone : pk \in Pk /\ c1.obj[pk].cell # SystemCell
    BY <1>4, <1>7, <1>8
  <1>11. Ends(c1, d) /\ d.pending = c1.pending
    <2>1. CacheType(c1) /\ Placement(c1)
      BY <1>9 DEF Ends
    <2> QED BY <1>3, <1>10, <2>1, ReleaseAllFacts DEF Ends
  <1> QED BY <1>8, <1>9, <1>11, EndsTrans DEF d

\* commit_revision turns the pending cell into an LRU cell and releases removed objects.
LEMMA CommitRevision ==
    ASSUME NEW c, CacheType(c), Placement(c)
    PROVE  LET d == commit_revision(c) IN Ends(c, d) /\ d.pending = 0
  <1> DEFINE L == Len(c.lru)
             d == commit_revision(c)
             mine == InCell(c, {L + 1})
             gone == {pk \in mine : c.obj[pk].stage = "Deleted"}
             size == Size(c, mine)
             ram == c.ram_used + size
             lru == Append(c.lru, size)
             objs == [pk \in Pk |-> [c.obj[pk] EXCEPT !.prev = NoCell]]
             c1 == [c EXCEPT !.pending = 0, !.lru = lru, !.ram_used = ram, !.obj = objs]
  <1>1. L \in Nat /\ IsSeq(c.lru)
    BY SeqFacts DEF CacheType
  <1>2. d = ReleaseAll(c1, gone)
    BY DEF commit_revision
  <1>3. ASSUME NEW pk \in Pk
        PROVE  /\ objs[pk] \in Objects
               /\ objs[pk].stage = c.obj[pk].stage /\ objs[pk].row = c.obj[pk].row
               /\ objs[pk].cell = c.obj[pk].cell
    <2> DEFINE o == c.obj[pk]
               n == [o EXCEPT !.prev = NoCell]
    <2>1. o \in Objects /\ NoCell \in Int
      BY DEF CacheType, NoCell
    <2>2. objs[pk] = n
      OBVIOUS
    <2> HIDE DEF objs, o
    <2>3. n = [o EXCEPT !.prev = NoCell]
      OBVIOUS
    <2> HIDE DEF n
    <2>4. n \in Objects /\ n.stage = o.stage /\ n.row = o.row /\ n.cell = o.cell
      BY <2>1, <2>3 DEF Objects
    <2> QED BY <2>2, <2>4 DEF o
  <1>4. objs \in [Pk -> Objects]
    <2>1. objs = [pk \in Pk |-> objs[pk]]
      OBVIOUS
    <2> HIDE DEF objs
    <2> QED BY <1>3, <2>1
  <1>5. c1 = [c EXCEPT !.pending = 0, !.lru = lru, !.ram_used = ram, !.obj = objs]
    OBVIOUS
  <1>6. IsSeq(lru)
    BY <1>1, SeqParts
  <1>7. \A pk \in gone : pk \in Pk /\ c.obj[pk].cell # SystemCell
    BY <1>1 DEF InCell, SystemCell
  <1> HIDE DEF objs, c1, d, gone, mine, lru, size, ram
  <1>8. /\ CacheType(c1) /\ c1.obj = objs /\ c1.pending = 0
        /\ c1.unsuccess = c.unsuccess /\ c1.next_pk = c.next_pk
    BY <1>4, <1>5, <1>6 DEF CacheType
  <1>9. Ends(c, c1)
    <2>1. \A pk \in Pk : /\ c1.obj[pk].stage = c.obj[pk].stage /\ c1.obj[pk].row = c.obj[pk].row
                         /\ c.obj[pk].cell # NoCell => c1.obj[pk].cell # NoCell
                         /\ c.obj[pk].cell = SystemCell => c1.obj[pk].cell = SystemCell
      BY <1>3, <1>8
    <2> QED BY <1>8, <2>1, MoveFacts
  <1>10. \A pk \in gone : pk \in Pk /\ c1.obj[pk].cell # SystemCell
    BY <1>3, <1>7, <1>8
  <1>11. Ends(c1, d) /\ d.pending = c1.pending
    <2>1. CacheType(c1) /\ Placement(c1)
      BY <1>9 DEF Ends
    <2> QED BY <1>2, <1>10, <2>1, ReleaseAllFacts DEF Ends
  <1> QED BY <1>8, <1>9, <1>11, EndsTrans DEF d

\* Every set of natural numbers that is not empty has a least element.
LEMMA NatMin ==
    ASSUME NEW S, S \subseteq Nat, S # {}
    PROVE  \E x \in S : \A y \in S : x <= y
  <1> DEFINE R == OpToRel(<, Nat)
  <1>1. PICK x \in S : \A y \in S : ~ (<<y, x>> \in R)
    <2> HIDE DEF R
    <2>1. IsWellFoundedOn(R, Nat)
      BY NatLessThanWellFounded DEF R
    <2> QED BY <2>1, WFMin
  <1>2. \A y \in S : x <= y
    <2> SUFFICES ASSUME NEW y \in S, y < x PROVE FALSE
      BY SMT
    <2>1. <<y, x>> \in R
      BY DEF OpToRel
    <2> QED BY <1>1, <2>1
  <1> QED BY <1>2

\* PopEmpty drops the newest cells that have no size.
LEMMA PopEmptyFacts ==
    ASSUME NEW c, CacheType(c), Placement(c)
    PROVE  LET d == PopEmpty(c) IN Ends(c, d) /\ d.pending = c.pending
  <1> DEFINE L == Len(c.lru)
             Empty(i) == (i > 0 => c.lru[i] # 0) /\ \A j \in i + 1 .. L : c.lru[j] = 0
             n == CHOOSE i \in 0 .. L : Empty(i)
             gone == InCell(c, n + 1 .. L)
             e == ReleaseAll(c, gone)
             lru == SubSeq(c.lru, 1, n)
             d == PopEmpty(c)
  <1>1. L \in Nat /\ IsSeq(c.lru)
    BY SeqFacts DEF CacheType
  <1>2. n \in 0 .. L
    <2> DEFINE S == {i \in 0 .. L : \A j \in i + 1 .. L : c.lru[j] = 0}
    <2>1. L \in S /\ S \subseteq Nat
      BY <1>1
    <2>2. PICK i \in S : \A k \in S : i <= k
      <3> HIDE DEF S
      <3> QED BY <2>1, NatMin
    <2>3. i > 0 => c.lru[i] # 0
      <3> SUFFICES ASSUME i > 0, c.lru[i] = 0 PROVE FALSE
        OBVIOUS
      <3>1. i - 1 \in 0 .. L /\ i \in 0 .. L
        BY <1>1, <2>2
      <3>2. \A j \in (i - 1) + 1 .. L : c.lru[j] = 0
        <4>1. \A j \in (i - 1) + 1 .. L : j = i \/ j \in i + 1 .. L
          BY <1>1, <3>1
        <4> QED BY <2>2, <4>1
      <3>3. i - 1 \in S
        BY <3>1, <3>2
      <3> HIDE DEF S
      <3>4. i <= i - 1
        BY <2>2, <3>3
      <3> QED BY <3>1, <3>4
    <2>4. Empty(i) /\ i \in 0 .. L
      BY <2>2, <2>3
    <2> HIDE DEF Empty
    <2> QED BY <2>4
  <1>3. d = [e EXCEPT !.lru = SubSeq(@, 1, n)]
    BY DEF PopEmpty
  <1>4. \A pk \in gone : pk \in Pk /\ c.obj[pk].cell # SystemCell
    BY <1>1, <1>2 DEF InCell, SystemCell
  <1> HIDE DEF n, gone, d
  <1>5. Ends(c, e) /\ CacheType(e) /\ e.lru = c.lru /\ e.pending = c.pending
    BY <1>4, ReleaseAllFacts DEF Ends
  <1> HIDE DEF e
  <1>6. IsSeq(lru)
    BY <1>1, <1>2, SeqParts
  <1>7. d = [e EXCEPT !.lru = lru]
    BY <1>3, <1>5
  <1> HIDE DEF lru
  <1>8. /\ CacheType(d) /\ d.obj = e.obj /\ d.unsuccess = e.unsuccess /\ d.next_pk = e.next_pk
        /\ d.pending = e.pending
    BY <1>5, <1>6, <1>7 DEF CacheType
  <1>9. Ends(e, d)
    <2>1. Placement(e)
      BY <1>5 DEF Ends
    <2> QED BY <1>5, <1>8, <2>1, MoveFacts
  <1> QED BY <1>5, <1>8, <1>9, EndsTrans DEF d

\* clear_overused_ram drops the oldest cells, and the others move up.
LEMMA ClearOverusedRam ==
    ASSUME NEW c, CacheType(c), Placement(c)
    PROVE  LET d == clear_overused_ram(c) IN Ends(c, d) /\ d.pending = c.pending
  <1> DEFINE L == Len(c.lru)
             Left(i) == c.ram_used - SumSeq(SubSeq(c.lru, 1, i))
             S == {i \in 0 .. L : Left(i) <= table.ram_limit \/ i = L}
             n == Min(S)
             gone == InCell(c, 1 .. n)
             e == ReleaseAll(c, gone)
             objs == [pk \in Pk |-> IF e.obj[pk].cell > n THEN Moved(e.obj[pk], n) ELSE e.obj[pk]]
             lru == SubSeq(c.lru, n + 1, L)
             ram == Left(n)
             d == clear_overused_ram(c)
  <1>1. L \in Nat /\ IsSeq(c.lru)
    BY SeqFacts DEF CacheType
  <1>2. n \in 0 .. L
    <2>1. L \in S /\ S \subseteq 0 .. L /\ S \subseteq Nat
      BY <1>1
    <2> HIDE DEF S
    <2>2. \E x \in S : \A y \in S : x <= y
      BY <2>1, NatMin
    <2>3. n \in S
      BY <2>2 DEF Min
    <2> QED BY <2>1, <2>3
  <1>3. d = [e EXCEPT !.lru = SubSeq(@, n + 1, Len(@)), !.ram_used = Left(n),
                      !.obj = [pk \in Pk |-> IF @[pk].cell > n THEN Moved(@[pk], n) ELSE @[pk]]]
    BY DEF clear_overused_ram
  <1>4. \A pk \in gone : pk \in Pk /\ c.obj[pk].cell # SystemCell
    BY <1>1, <1>2 DEF InCell, SystemCell
  <1> HIDE DEF n, gone
  <1>5. Ends(c, e) /\ CacheType(e) /\ e.lru = c.lru /\ e.pending = c.pending
    BY <1>4, ReleaseAllFacts DEF Ends
  <1> HIDE DEF e, d
  <1>6. IsSeq(lru)
    BY <1>1, <1>2, SeqParts
  <1>7. d = [e EXCEPT !.lru = lru, !.ram_used = ram, !.obj = objs]
    BY <1>3, <1>5
  <1>8. ASSUME NEW pk \in Pk
        PROVE  /\ objs[pk] \in Objects
               /\ objs[pk].stage = e.obj[pk].stage /\ objs[pk].row = e.obj[pk].row
               /\ e.obj[pk].cell # NoCell => objs[pk].cell # NoCell
               /\ e.obj[pk].cell = SystemCell => objs[pk].cell = SystemCell
    <2> DEFINE o == e.obj[pk]
               k == o.cell - n
               m == [o EXCEPT !.cell = k]
    <2>1. o \in Objects
      BY <1>5 DEF CacheType
    <2>2. n \in Nat /\ o.cell \in Int /\ k \in Int /\ (o.cell > n => k > 0)
      BY <1>1, <1>2, <2>1 DEF Objects
    <2>3. objs[pk] = IF o.cell > n THEN m ELSE o
      BY DEF Moved
    <2> HIDE DEF objs, o, k
    <2>4. m = [o EXCEPT !.cell = k]
      OBVIOUS
    <2> HIDE DEF m
    <2>5. m \in Objects /\ m.stage = o.stage /\ m.row = o.row /\ m.cell = k
      BY <2>1, <2>2, <2>4 DEF Objects
    <2>6. o.cell > n => m.cell # NoCell /\ o.cell # SystemCell
      BY <2>2, <2>5 DEF NoCell, SystemCell
    <2> QED BY <2>1, <2>3, <2>5, <2>6 DEF o
  <1>9. objs \in [Pk -> Objects]
    <2>1. objs = [pk \in Pk |-> objs[pk]]
      OBVIOUS
    <2> HIDE DEF objs
    <2> QED BY <1>8, <2>1
  <1> HIDE DEF lru, ram, objs
  <1>10. /\ CacheType(d) /\ d.obj = objs /\ d.unsuccess = e.unsuccess /\ d.next_pk = e.next_pk
         /\ d.pending = e.pending
    BY <1>5, <1>6, <1>7, <1>9 DEF CacheType
  <1>11. Ends(e, d)
    <2>1. Placement(e)
      BY <1>5 DEF Ends
    <2>2. \A pk \in Pk : /\ d.obj[pk].stage = e.obj[pk].stage /\ d.obj[pk].row = e.obj[pk].row
                         /\ e.obj[pk].cell # NoCell => d.obj[pk].cell # NoCell
                         /\ e.obj[pk].cell = SystemCell => d.obj[pk].cell = SystemCell
      BY <1>8, <1>10
    <2> QED BY <1>5, <1>10, <2>1, <2>2, MoveFacts
  <1> QED BY <1>5, <1>10, <1>11, EndsTrans DEF d

\* push_session keeps what is cached, or less.
LEMMA PushSession ==
    ASSUME NEW c, CacheType(c), Placement(c)
    PROVE  LET d == push_session(c) IN Ends(c, d) /\ d.pending = 0
  <1> DEFINE c1 == commit_revision(c)
             c2 == PopEmpty(c1)
             d == push_session(c)
  <1>1. Ends(c, c1) /\ c1.pending = 0
    BY CommitRevision
  <1>2. CacheType(c1) /\ Placement(c1)
    BY <1>1 DEF Ends
  <1>3. d = clear_overused_ram(c2)
    BY DEF push_session
  <1> HIDE DEF c1, d
  <1>4. Ends(c1, c2) /\ c2.pending = 0
    BY <1>1, <1>2, PopEmptyFacts
  <1>5. CacheType(c2) /\ Placement(c2)
    BY <1>4 DEF Ends
  <1> HIDE DEF c2
  <1>6. Ends(c2, d) /\ d.pending = 0
    BY <1>3, <1>4, <1>5, ClearOverusedRam
  <1> QED BY <1>1, <1>4, <1>6, EndsTrans DEF d

-----------------------------------------------------------------------------
\* Undo

\* What changes when the rows of pks enter the cache together
EnterAll(c, d, rows, pks) ==
    /\ CacheType(d) /\ Placement(d)
    /\ \A q \in Pk \ pks : d.obj[q] = c.obj[q]
    /\ \A q \in pks : Cached(d, q) => d.obj[q].row = rows[q]
    /\ IsSystem => \A q \in pks : Cached(d, q)
    /\ d.pending = c.pending /\ d.unsuccess = c.unsuccess /\ d.next_pk = c.next_pk

\* EmplaceAll puts rows into the cache, each as emplace does.
LEMMA EmplaceAllFacts ==
    ASSUME NEW c, CacheType(c), Placement(c), NEW rows \in [Pk -> Nat], NEW pks \in SUBSET Pk,
           \A pk \in pks : rows[pk] # NoRow
    PROVE  EnterAll(c, EmplaceAll(c, rows, pks), rows, pks)
  <1> DEFINE d == EmplaceAll(c, rows, pks)
             objs == [pk \in Pk |-> IF pk \in pks THEN emplace(c, pk, rows[pk]).obj[pk] ELSE c.obj[pk]]
             serv == IF c.service = "none" /\ pks # {} THEN "made" ELSE c.service
             c1 == [c EXCEPT !.obj = objs, !.service = serv]
             Delta(cells) == Size(c1, pks \intersect InCell(c1, cells))
                                - Size(c, pks \intersect InCell(c1, cells))
             lru == [i \in DOMAIN c.lru |-> c.lru[i] + Delta({i})]
             ram == c.ram_used + Delta(DOMAIN c.lru)
  <1>1. ASSUME NEW pk \in pks
        PROVE  /\ objs[pk] \in Objects
               /\ objs[pk].stage = "Active" => objs[pk].row = rows[pk] /\ objs[pk].cell # NoCell
               /\ IsSystem => objs[pk].stage = "Active" /\ objs[pk].cell = SystemCell
    <2> DEFINE e == emplace(c, pk, rows[pk])
    <2>1. pk \in Pk /\ rows[pk] \in Nat /\ rows[pk] # NoRow
      OBVIOUS
    <2>2. Enters(c, e, pk, rows[pk])
      BY <2>1, EmplaceFacts
    <2>3. objs[pk] = e.obj[pk]
      BY <2>1
    <2> HIDE DEF e, objs
    <2>4. objs[pk] \in Objects
      BY <2>1, <2>2, <2>3 DEF Enters, CacheType
    <2> QED BY <2>1, <2>2, <2>3, <2>4 DEF Enters, Placement, Cached
  <1>2. \A pk \in Pk \ pks : objs[pk] = c.obj[pk]
    OBVIOUS
  <1>3. objs \in [Pk -> Objects]
    <2>1. objs = [pk \in Pk |-> objs[pk]] /\ \A pk \in Pk : c.obj[pk] \in Objects
      BY DEF CacheType
    <2> HIDE DEF objs
    <2> QED BY <1>1, <1>2, <2>1
  <1>4. c1 = [c EXCEPT !.obj = objs, !.service = serv]
    OBVIOUS
  <1>5. c1 = [c EXCEPT !.obj = [pk \in Pk |-> IF pk \in pks THEN emplace(c, pk, rows[pk]).obj[pk] ELSE @[pk]],
                       !.service = IF @ = "none" /\ pks # {} THEN "made" ELSE @]
    OBVIOUS
  <1>6. d = [c1 EXCEPT !.lru = [i \in DOMAIN @ |-> @[i] + Delta({i})],
                       !.ram_used = @ + Delta(DOMAIN c.lru)]
    BY DEF EmplaceAll
  <1> HIDE DEF c1, objs, serv
  <1>7. CacheType(c1) /\ c1.obj = objs /\ c1.lru = c.lru /\ c1.ram_used = c.ram_used
    BY <1>3, <1>4 DEF CacheType
  <1>8. c1.pending = c.pending /\ c1.unsuccess = c.unsuccess /\ c1.next_pk = c.next_pk
    BY <1>4 DEF CacheType
  <1>9. IsSeq(lru)
    <2>1. DOMAIN lru = DOMAIN c.lru /\ lru = [i \in DOMAIN lru |-> lru[i]] /\ IsSeq(c.lru)
      BY DEF CacheType
    <2> HIDE DEF lru
    <2> QED BY <2>1, SeqMap
  <1>10. d = [c1 EXCEPT !.lru = lru, !.ram_used = ram]
    BY <1>6, <1>7
  <1> HIDE DEF lru, ram, d
  <1>11. /\ CacheType(d) /\ d.obj = objs /\ d.pending = c.pending
         /\ d.unsuccess = c.unsuccess /\ d.next_pk = c.next_pk
    BY <1>7, <1>8, <1>9, <1>10 DEF CacheType
  <1>12. Placement(d)
    BY <1>1, <1>2, <1>11 DEF Placement, Cached
  <1> QED BY <1>1, <1>2, <1>11, <1>12 DEF EnterAll, Cached, d

\* What changes when the rows of pks leave the cache together
LeaveAll(c, d, pks) ==
    /\ CacheType(d) /\ Placement(d)
    /\ \A q \in Pk \ pks : d.obj[q] = c.obj[q]
    /\ \A q \in pks : ~ Cached(d, q)
    /\ \A q \in Pk : d.unsuccess[q] \in {Unset, c.unsuccess[q]}
    /\ d.pending = c.pending /\ d.next_pk = c.next_pk

\* RemoveAll takes rows out of the cache, each as remove_cache_object does.
LEMMA RemoveAllFacts ==
    ASSUME NEW c, CacheType(c), Placement(c), NEW pks \in SUBSET Pk
    PROVE  LeaveAll(c, RemoveAll(c, pks), pks)
  <1> DEFINE d == RemoveAll(c, pks)
             gone == {pk \in pks : Cached(c, pk)}
             objs == [pk \in Pk |-> IF pk \in gone THEN remove_cache_object(c, pk).obj[pk] ELSE c.obj[pk]]
             lru == [i \in DOMAIN c.lru |-> c.lru[i] - Size(c, gone \intersect InCell(c, {i}))]
             ram == c.ram_used - Size(c, gone \intersect InCell(c, DOMAIN c.lru))
             lookups == [pk \in Pk |-> IF c.unsuccess[pk] \in gone THEN Unset ELSE c.unsuccess[pk]]
             e == [c EXCEPT !.obj = objs, !.lru = lru, !.ram_used = ram, !.unsuccess = lookups]
  <1>1. CASE gone = {}
    <2>1. d = c
      BY <1>1 DEF RemoveAll
    <2> QED BY <1>1, <2>1 DEF LeaveAll
  <1>2. CASE gone # {}
    <2>1. d = EraseService(e)
      BY <1>2 DEF RemoveAll
    <2>2. ASSUME NEW pk \in gone
          PROVE  objs[pk] \in Objects /\ objs[pk].stage # "Active"
                 /\ (IsSystem => objs[pk].stage = "Released")
      <3> DEFINE r == remove_cache_object(c, pk)
      <3>1. pk \in Pk /\ Cached(c, pk) /\ objs[pk] = r.obj[pk]
        OBVIOUS
      <3>2. Leaves(c, r, pk)
        BY <3>1, RemoveFacts
      <3> HIDE DEF r, objs
      <3> QED BY <3>1, <3>2 DEF Leaves, CacheType, Placement, Cached
    <2>3. \A pk \in Pk \ gone : objs[pk] = c.obj[pk]
      OBVIOUS
    <2>4. objs \in [Pk -> Objects]
      <3>1. objs = [pk \in Pk |-> objs[pk]] /\ \A pk \in Pk : c.obj[pk] \in Objects
        BY DEF CacheType
      <3> HIDE DEF objs
      <3> QED BY <2>2, <2>3, <3>1
    <2>5. lookups \in [Pk -> Int] /\ \A q \in Pk : lookups[q] \in {Unset, c.unsuccess[q]}
      BY DEF CacheType, Unset
    <2>6. IsSeq(lru)
      <3>1. DOMAIN lru = DOMAIN c.lru /\ lru = [i \in DOMAIN lru |-> lru[i]] /\ IsSeq(c.lru)
        BY DEF CacheType
      <3> HIDE DEF lru
      <3> QED BY <3>1, SeqMap
    <2>7. e = [c EXCEPT !.obj = objs, !.lru = lru, !.ram_used = ram, !.unsuccess = lookups]
      OBVIOUS
    <2>8. \A q \in pks \ gone : ~ Cached(c, q)
      OBVIOUS
    <2>9. gone \subseteq pks /\ gone \subseteq Pk
      OBVIOUS
    <2> HIDE DEF objs, lookups, lru, ram, gone, e, d
    <2>10. /\ CacheType(e) /\ e.obj = objs /\ e.pending = c.pending
           /\ e.unsuccess = lookups /\ e.next_pk = c.next_pk
      BY <2>4, <2>5, <2>6, <2>7 DEF CacheType
    <2>11. /\ CacheType(d) /\ d.obj = objs /\ d.pending = c.pending
           /\ d.unsuccess = lookups /\ d.next_pk = c.next_pk
      BY <2>1, <2>10, EraseServiceFacts
    <2>12. Placement(d)
      BY <2>2, <2>3, <2>11 DEF Placement, Cached
    <2>13. \A q \in pks : ~ Cached(d, q)
      BY <2>2, <2>3, <2>8, <2>11 DEF Cached
    <2> QED BY <2>3, <2>5, <2>9, <2>11, <2>12, <2>13 DEF LeaveAll, d
  <1> QED BY <1>1, <1>2

\* After the undo of a session in the cache, the cache is right about the rows before it.
LEMMA UndoTableFacts ==
    ASSUME TypeOK, NEW c, CacheType(c), Placement(c), Right(c, db), NEW u \in Sessions,
           \A pk \in Pk : pk \notin u.touched => u.snap[pk] = db[pk]
    PROVE  LET d == UndoTable(c, u)
           IN  /\ CacheType(d) /\ Placement(d) /\ Right(d, u.snap) /\ d.pending = c.pending
               /\ d.next_pk = c.next_pk \/ (u.next_pk # Unset /\ d.next_pk = u.next_pk)
  <1> DEFINE d == UndoTable(c, u)
             old == {pk \in u.touched : u.snap[pk] # NoRow /\ db[pk] # NoRow}
             new == {pk \in u.touched : u.snap[pk] = NoRow /\ db[pk] # NoRow}
             removed == {pk \in u.touched : u.snap[pk] # NoRow /\ db[pk] = NoRow}
             c0 == clear_unsuccess(c)
             c1 == EmplaceAll(c0, u.snap, old)
             c2 == RemoveAll(c1, new)
             c3 == EmplaceAll(c2, u.snap, removed)
  <1>1. /\ u.snap \in [Pk -> Nat] /\ u.touched \in SUBSET Pk /\ u.next_pk \in Nat \cup {Unset}
        /\ db \in [Pk -> Nat]
    BY DEF Sessions, TypeOK
  <1>2. CASE u.touched = {}
    <2>1. d = c
      BY <1>2 DEF UndoTable
    <2>2. u.snap = db
      BY <1>1, <1>2
    <2> QED BY <2>1, <2>2
  <1>3. CASE u.touched # {}
    <2>1. d = IF u.next_pk # Unset /\ AutoKeys THEN [c3 EXCEPT !.next_pk = u.next_pk] ELSE c3
      BY <1>3 DEF UndoTable, Restored
    <2>2. /\ old \in SUBSET Pk /\ new \in SUBSET Pk /\ removed \in SUBSET Pk
          /\ (\A pk \in old \cup removed : u.snap[pk] # NoRow)
          /\ \A pk \in new : u.snap[pk] = NoRow
      BY <1>1
    <2>3. \A pk \in Pk : /\ pk \in old => pk \notin new /\ pk \notin removed
                         /\ pk \in new => pk \notin removed
      OBVIOUS
    <2>4. \A pk \in Pk : pk \notin old /\ pk \notin new /\ pk \notin removed => u.snap[pk] = db[pk]
      BY <1>1
    <2> HIDE DEF old, new, removed, d
    <2>5. /\ CacheType(c0) /\ c0.obj = c.obj /\ c0.pending = c.pending
          /\ c0.unsuccess = [pk \in Pk |-> Unset] /\ c0.next_pk = c.next_pk
      BY ClearUnsuccess
    <2>6. Placement(c0)
      BY <2>5 DEF Placement, Cached
    <2> HIDE DEF c0
    <2>7. EnterAll(c0, c1, u.snap, old)
      BY <1>1, <2>2, <2>5, <2>6, EmplaceAllFacts
    <2>8. CacheType(c1) /\ Placement(c1)
      BY <2>7 DEF EnterAll
    <2> HIDE DEF c1
    <2>9. LeaveAll(c1, c2, new)
      BY <2>2, <2>8, RemoveAllFacts
    <2>10. CacheType(c2) /\ Placement(c2)
      BY <2>9 DEF LeaveAll
    <2> HIDE DEF c2
    <2>11. EnterAll(c2, c3, u.snap, removed)
      BY <1>1, <2>2, <2>10, EmplaceAllFacts
    <2> HIDE DEF c3
    <2>12. \A pk \in Pk : c3.unsuccess[pk] = Unset
      BY <2>5, <2>7, <2>9, <2>11 DEF EnterAll, LeaveAll
    <2>13. \A pk \in Pk : Cached(c3, pk) => u.snap[pk] # NoRow /\ c3.obj[pk].row = u.snap[pk]
      <3> SUFFICES ASSUME NEW pk \in Pk, Cached(c3, pk)
                   PROVE  u.snap[pk] # NoRow /\ c3.obj[pk].row = u.snap[pk]
        OBVIOUS
      <3>1. CASE pk \in removed
        BY <2>2, <2>11, <3>1 DEF EnterAll
      <3>2. CASE pk \in new
        <4>1. c3.obj[pk] = c2.obj[pk]
          BY <2>3, <2>11, <3>2 DEF EnterAll
        <4> QED BY <2>9, <3>2, <4>1 DEF LeaveAll, Cached
      <3>3. CASE pk \in old
        <4>1. c3.obj[pk] = c1.obj[pk]
          BY <2>3, <2>9, <2>11, <3>3 DEF EnterAll, LeaveAll
        <4> QED BY <2>2, <2>7, <3>3, <4>1 DEF EnterAll, Cached
      <3>4. CASE pk \notin old /\ pk \notin new /\ pk \notin removed
        <4>1. c3.obj[pk] = c.obj[pk]
          BY <2>5, <2>7, <2>9, <2>11, <3>4 DEF EnterAll, LeaveAll
        <4> QED BY <2>4, <3>4, <4>1 DEF Right, Cached
      <3> QED BY <3>1, <3>2, <3>3, <3>4
    <2>14. ASSUME IsSystem, NEW pk \in Pk, u.snap[pk] # NoRow PROVE Cached(c3, pk)
      <3>1. CASE pk \in removed
        BY <2>11, <2>14, <3>1 DEF EnterAll
      <3>2. CASE pk \in new
        BY <2>2, <2>14, <3>2
      <3>3. CASE pk \in old
        <4>1. c3.obj[pk] = c1.obj[pk]
          BY <2>3, <2>9, <2>11, <3>3 DEF EnterAll, LeaveAll
        <4> QED BY <2>7, <2>14, <3>3, <4>1 DEF EnterAll, Cached
      <3>4. CASE pk \notin old /\ pk \notin new /\ pk \notin removed
        <4>1. c3.obj[pk] = c.obj[pk]
          BY <2>5, <2>7, <2>9, <2>11, <3>4 DEF EnterAll, LeaveAll
        <4> QED BY <2>4, <2>14, <3>4, <4>1 DEF Right, Cached
      <3> QED BY <3>1, <3>2, <3>3, <3>4
    <2>15. Right(c3, u.snap)
      BY <2>12, <2>13, <2>14 DEF Right
    <2>16. CacheType(c3) /\ Placement(c3) /\ c3.pending = c.pending /\ c3.next_pk = c.next_pk
      BY <2>5, <2>7, <2>9, <2>11 DEF EnterAll, LeaveAll
    <2>17. CASE u.next_pk # Unset /\ AutoKeys
      <3>1. d = [c3 EXCEPT !.next_pk = u.next_pk]
        BY <2>1, <2>17
      <3>2. /\ CacheType(d) /\ d.obj = c3.obj /\ d.pending = c3.pending
            /\ d.unsuccess = c3.unsuccess /\ d.next_pk = u.next_pk
        BY <1>1, <2>16, <3>1 DEF CacheType
      <3>3. Placement(d) /\ Right(d, u.snap)
        BY <2>15, <2>16, <3>2 DEF Placement, Right, Cached
      <3> QED BY <2>16, <2>17, <3>2, <3>3 DEF d
    <2>18. CASE ~ (u.next_pk # Unset /\ AutoKeys)
      BY <2>1, <2>15, <2>16, <2>18 DEF d
    <2> QED BY <2>17, <2>18
  <1> QED BY <1>2, <1>3

-----------------------------------------------------------------------------
\* The initial state

\* The empty cache
LEMMA EmptyCacheFacts ==
    ASSUME TRUE
    PROVE  /\ CacheType(EmptyCache) /\ Placement(EmptyCache)
           /\ \A pk \in Pk : ~ Cached(EmptyCache, pk) /\ EmptyCache.unsuccess[pk] = Unset
           /\ EmptyCache.pending = 0 /\ EmptyCache.next_pk = Unset
  <1> DEFINE objs == [pk \in Pk |-> Released]
             lookups == [pk \in Pk |-> Unset]
             c == EmptyCache
             serv == IF table.kind = "contract" THEN "none" ELSE "kept"
  <1>1. Released \in Objects /\ Released.stage = "Released"
    BY DEF Released, Objects, NoRow, NoCell
  <1>2. objs \in [Pk -> Objects] /\ \A pk \in Pk : objs[pk] = Released
    BY <1>1
  <1>3. lookups \in [Pk -> Int] /\ \A pk \in Pk : lookups[pk] = Unset
    BY DEF Unset
  <1>4. IsSeq(<<>>)
    <2>1. <<>> \in Seq(Nat)
      OBVIOUS
    <2> QED BY <2>1 DEF IsSeq
  <1>5. c = [obj |-> objs, lru |-> <<>>, pending |-> 0, ram_used |-> 0, unsuccess |-> lookups,
             service |-> serv, next_pk |-> Unset]
    BY DEF EmptyCache
  <1> HIDE DEF objs, lookups, c, serv
  <1>6. CacheType(c)
    BY <1>2, <1>3, <1>4, <1>5 DEF CacheType
  <1>7. \A pk \in Pk : c.obj[pk] = Released
    BY <1>2, <1>5
  <1>8. \A pk \in Pk : ~ Cached(c, pk)
    BY <1>1, <1>7 DEF Cached
  <1>9. Placement(c)
    BY <1>1, <1>7, <1>8 DEF Placement
  <1> QED BY <1>3, <1>5, <1>6, <1>8, <1>9 DEF c

\* The initial state satisfies the invariant.
LEMMA InitIInv == Init => IInv
  <1> SUFFICES ASSUME Init PROVE IInv
    OBVIOUS
  <1>1. cache = EmptyCache /\ undo = <<>> /\ table \in Tables /\ db = [pk \in Pk |-> NoRow]
    BY DEF Init
  <1>2. /\ CacheType(cache) /\ Placement(cache)
        /\ \A pk \in Pk : ~ Cached(cache, pk) /\ cache.unsuccess[pk] = Unset
        /\ cache.pending = 0
    BY <1>1, EmptyCacheFacts
  <1>3. db \in [Pk -> Nat] /\ \A pk \in Pk : db[pk] = NoRow
    BY <1>1 DEF NoRow
  <1>4. undo \in Seq(Sessions) /\ Len(undo) = 0
    BY <1>1
  <1>5. TypeOK
    BY <1>1, <1>2, <1>3, <1>4 DEF TypeOK
  <1>6. Right(cache, db)
    BY <1>2, <1>3 DEF Right
  <1>7. Untouched
    BY <1>4 DEF Untouched
  <1>8. Keys
    BY <1>3, <1>4 DEF Keys, KeysBelow
  <1> QED BY <1>2, <1>4, <1>5, <1>6, <1>7, <1>8 DEF IInv

-----------------------------------------------------------------------------
\* Reads

\* The table of the invariant
LEMMA TableFacts ==
    ASSUME TypeOK
    PROVE  /\ table.max_pk \in Nat /\ End \in Nat /\ End \notin Pk
           /\ \A pk \in Pk : pk \in Nat /\ pk < End
           /\ \A r \in Nat : r <= End /\ r # End => r \in Pk
           /\ table.sizes \subseteq Nat \ {0}
  BY TablesAssumption DEF TypeOK, Pk, End

\* lower is the first row from pk, or the end.
LEMMA LowerFacts ==
    ASSUME TypeOK, NEW pk \in Pk
    PROVE  FirstFrom(db, pk, lower(pk))
  <1> DEFINE S == {r \in pk .. End : r # End => db[r] # NoRow}
  <1>1. pk \in Nat /\ End \in Nat /\ pk < End
    BY TableFacts
  <1>2. End \in S /\ S \subseteq Nat
    BY <1>1
  <1>3. PICK r \in S : \A y \in S : r <= y
    <2> HIDE DEF S
    <2> QED BY <1>2, NatMin
  <1>4. \A q \in pk .. r - 1 : db[q] = NoRow
    <2> SUFFICES ASSUME NEW q \in pk .. r - 1, db[q] # NoRow PROVE FALSE
      OBVIOUS
    <2>1. q \in pk .. End /\ ~ (r <= q)
      BY <1>1, <1>3
    <2>2. q \in S
      BY <2>1
    <2> HIDE DEF S
    <2> QED BY <1>3, <2>1, <2>2
  <1>5. r \in pk .. End /\ (r = End \/ db[r] # NoRow)
    BY <1>3
  <1>6. \E x \in pk .. End : /\ x = End \/ db[x] # NoRow
                             /\ \A q \in pk .. x - 1 : db[q] = NoRow
    BY <1>4, <1>5
  <1> HIDE DEF End
  <1>7. /\ lower(pk) \in pk .. End /\ (lower(pk) = End \/ db[lower(pk)] # NoRow)
        /\ \A q \in pk .. lower(pk) - 1 : db[q] = NoRow
    BY <1>6 DEF lower
  <1> QED BY <1>7 DEF FirstFrom

\* There is one first row.
LEMMA FirstUnique ==
    ASSUME TypeOK, NEW rows, NEW pk \in Pk, NEW r, NEW t, FirstFrom(rows, pk, r), FirstFrom(rows, pk, t)
    PROVE  r = t
  <1>1. pk \in Nat /\ End \in Nat
    BY TableFacts
  <1>2. r \in pk .. End /\ t \in pk .. End
    BY DEF FirstFrom
  <1>3. ~ (r < t)
    <2> SUFFICES ASSUME r < t PROVE FALSE
      OBVIOUS
    <2>1. r \in pk .. t - 1 /\ r # End
      BY <1>1, <1>2
    <2> QED BY <2>1 DEF FirstFrom
  <1>4. ~ (t < r)
    <2> SUFFICES ASSUME t < r PROVE FALSE
      OBVIOUS
    <2>1. t \in pk .. r - 1 /\ t # End
      BY <1>1, <1>2
    <2> QED BY <2>1 DEF FirstFrom
  <1> QED BY <1>1, <1>2, <1>3, <1>4

\* emplace_unsuccess remembers a lookup that failed.
LEMMA EmplaceUnsuccess ==
    ASSUME TypeOK, NEW c, CacheType(c), Placement(c), Right(c, db),
           NEW pk \in Pk, NEW r, FirstFrom(db, pk, r), db[pk] = NoRow
    PROVE  LET d == emplace_unsuccess(c, pk, r)
           IN  /\ CacheType(d) /\ Placement(d) /\ Right(d, db)
               /\ d.pending = c.pending /\ d.next_pk = c.next_pk
  <1> DEFINE d == emplace_unsuccess(c, pk, r)
  <1>1. pk \in Nat /\ End \in Nat /\ r \in Nat /\ r <= End /\ (r # End => r \in Pk)
    <2>1. r \in pk .. End /\ pk \in Nat /\ End \in Nat
      BY TableFacts DEF FirstFrom
    <2>2. r \in Nat /\ r <= End
      BY <2>1
    <2> QED BY <2>1, <2>2, TableFacts
  <1>2. ASSUME NEW e, CacheType(e), Placement(e), Right(e, db), r # End => Cached(e, r),
               NEW f, CacheType(f), f.obj = e.obj, f.unsuccess = [e.unsuccess EXCEPT ![pk] = r]
        PROVE  Placement(f) /\ Right(f, db)
    <2>1. Placement(f) /\ \A q : Cached(f, q) <=> Cached(e, q)
      BY <1>2 DEF Placement, Cached
    <2>2. \A q \in Pk : f.unsuccess[q] = IF q = pk THEN r ELSE e.unsuccess[q]
      BY <1>2 DEF CacheType
    <2>3. \A q \in Pk : f.unsuccess[q] # Unset =>
             /\ FirstFrom(db, q, f.unsuccess[q]) /\ db[q] = NoRow
             /\ f.unsuccess[q] # End => f.unsuccess[q] \in Pk /\ Cached(f, f.unsuccess[q])
      BY <1>1, <1>2, <2>1, <2>2 DEF Right
    <2> QED BY <1>2, <2>1, <2>3 DEF Right
  <1>3. CASE ~ has_pending_cell(c) \/ c.service = "none"
    BY <1>3 DEF emplace_unsuccess
  <1>4. CASE ~ (~ has_pending_cell(c) \/ c.service = "none") /\ r = End
    <2> DEFINE lookups == [c.unsuccess EXCEPT ![pk] = End]
    <2>1. d = [c EXCEPT !.unsuccess = lookups, !.service = "kept"]
      BY <1>4 DEF emplace_unsuccess
    <2>2. lookups \in [Pk -> Int]
      BY <1>1 DEF CacheType
    <2> HIDE DEF lookups, d
    <2>3. /\ CacheType(d) /\ d.obj = c.obj /\ d.unsuccess = lookups
          /\ d.pending = c.pending /\ d.next_pk = c.next_pk
      BY <2>1, <2>2 DEF CacheType
    <2> QED BY <1>2, <1>4, <2>3 DEF d, lookups
  <1>5. CASE ~ (~ has_pending_cell(c) \/ c.service = "none") /\ r # End /\ Cached(c, r)
    <2> DEFINE e == find(c, r)
               lookups == [e.unsuccess EXCEPT ![pk] = r]
    <2>1. d = [e EXCEPT !.unsuccess = lookups]
      BY <1>5 DEF emplace_unsuccess
    <2>2. /\ CacheType(e) /\ Placement(e) /\ Keeps(c, e)
          /\ \A q \in Pk : Cached(e, q) <=> Cached(c, q)
          /\ e.pending = c.pending /\ e.next_pk = c.next_pk
      BY <1>1, <1>5, FindFacts
    <2> HIDE DEF e
    <2>3. lookups \in [Pk -> Int]
      BY <1>1, <2>2 DEF CacheType
    <2> HIDE DEF lookups, d
    <2>4. /\ CacheType(d) /\ d.obj = e.obj /\ d.unsuccess = lookups
          /\ d.pending = c.pending /\ d.next_pk = c.next_pk
      BY <2>1, <2>2, <2>3 DEF CacheType
    <2>5. Right(e, db) /\ Cached(e, r)
      BY <1>1, <1>5, <2>2, KeepsRight
    <2> QED BY <1>2, <2>2, <2>4, <2>5 DEF d, lookups
  <1>6. CASE ~ (~ has_pending_cell(c) \/ c.service = "none") /\ r # End /\ ~ Cached(c, r)
    BY <1>6 DEF emplace_unsuccess
  <1> QED BY <1>3, <1>4, <1>5, <1>6

\* What is left to show of a step that changes the cache alone
LEMMA CacheStep ==
    ASSUME IInv, UNCHANGED <<table, db, undo>>, CacheType(cache'), Placement(cache'),
           Right(cache', db), cache'.pending = cache.pending,
           \/ cache'.next_pk = cache.next_pk
           \/ AutoKeys /\ ~ table.restarts => NextKey' >= NextKey
    PROVE  IInv'
  <1>1. TypeOK'
    BY DEF IInv, TypeOK, CacheType, IsSeq, Pk, Sessions
  <1>2. Placement(cache)'
    BY DEF Placement, IsSystem, Pk, Cached
  <1>3. Right(cache, db)'
    BY DEF Right, IsSystem, Pk, Cached, FirstFrom, End
  <1>4. Untouched'
    BY DEF IInv, Untouched, Pk
  <1>5. Keys'
    <2> SUFFICES ASSUME AutoKeys, ~ table.restarts
                 PROVE  /\ KeysBelow(db, NextKey')
                        /\ \A i \in 1 .. Len(undo) : KeysBelow(undo[i].snap, NextKey')
                        /\ \A i \in 1 .. Len(undo) : undo[i].next_pk # Unset =>
                              \A j \in 1 .. i : KeysBelow(undo[j].snap, undo[i].next_pk)
      BY DEF Keys, AutoKeys, KeysBelow, Pk
    <2>1. /\ KeysBelow(db, NextKey)
          /\ \A i \in 1 .. Len(undo) : KeysBelow(undo[i].snap, NextKey)
          /\ \A i \in 1 .. Len(undo) : undo[i].next_pk # Unset =>
                \A j \in 1 .. i : KeysBelow(undo[j].snap, undo[i].next_pk)
      BY DEF IInv, Keys
    <2>2. NextKey \in Nat /\ NextKey' \in Nat /\ \A q \in Pk : q \in Nat
      BY TableFacts DEF IInv, TypeOK, CacheType, NextKey, Unset
    <2>3. NextKey' >= NextKey
      <3>1. CASE cache'.next_pk = cache.next_pk
        <4>1. NextKey' = NextKey
          BY <3>1 DEF NextKey
        <4> QED BY <2>2, <4>1
      <3> QED BY <3>1
    <2>4. ASSUME NEW rows, KeysBelow(rows, NextKey) PROVE KeysBelow(rows, NextKey')
      BY <2>2, <2>3, <2>4 DEF KeysBelow
    <2> QED BY <2>1, <2>4
  <1> QED BY <1>1, <1>2, <1>3, <1>4, <1>5 DEF IInv

\* A lookup, with or without the driver
LEMMA LowerBoundStep ==
    ASSUME IInv, NEW pk \in Pk, lower_bound(pk)
    PROVE  IInv'
  <1>1. TypeOK /\ CacheType(cache) /\ Placement(cache) /\ Right(cache, db)
    BY DEF IInv, TypeOK
  <1>2. UNCHANGED <<table, db, undo>>
    BY DEF lower_bound
  <1>3. CASE Cached(cache, pk)
    <2>1. cache' = find(cache, pk)
      BY <1>3 DEF lower_bound
    <2>2. /\ CacheType(cache') /\ Placement(cache') /\ Keeps(cache, cache')
          /\ cache'.pending = cache.pending /\ cache'.next_pk = cache.next_pk
      BY <1>1, <2>1, FindFacts
    <2>3. Right(cache', db)
      BY <1>1, <2>2, KeepsRight
    <2> QED BY <1>2, <2>2, <2>3, CacheStep
  <1>4. CASE ~ Cached(cache, pk) /\ (cache.unsuccess[pk] # Unset \/ lower(pk) = pk)
    <2>1. cache' = cache
      BY <1>4 DEF lower_bound
    <2> QED BY <1>1, <1>2, <2>1, CacheStep
  <1>5. CASE ~ Cached(cache, pk) /\ ~ (cache.unsuccess[pk] # Unset \/ lower(pk) = pk)
    <2>1. cache' = emplace_unsuccess(cache, pk, lower(pk))
      BY <1>5 DEF lower_bound
    <2>2. FirstFrom(db, pk, lower(pk))
      BY <1>1, LowerFacts
    <2>3. db[pk] = NoRow
      <3>1. pk \in Nat /\ End \in Nat /\ lower(pk) \in pk .. End
        BY <1>1, <2>2, TableFacts DEF FirstFrom
      <3>2. pk \in pk .. lower(pk) - 1
        BY <1>5, <3>1
      <3> QED BY <2>2, <3>2 DEF FirstFrom
    <2>4. /\ CacheType(cache') /\ Placement(cache') /\ Right(cache', db)
          /\ cache'.pending = cache.pending /\ cache'.next_pk = cache.next_pk
      BY <1>1, <2>1, <2>2, <2>3, EmplaceUnsuccess
    <2> QED BY <1>2, <2>4, CacheStep
  <1> QED BY <1>3, <1>4, <1>5

\* A row that exists is loaded.
LEMMA LoadFacts ==
    ASSUME TypeOK, NEW c, CacheType(c), Placement(c), Right(c, db), NEW pk \in Pk, db[pk] # NoRow
    PROVE  LET d == Load(c, pk)
           IN  /\ CacheType(d) /\ Placement(d) /\ Right(d, db)
               /\ has_pending_cell(c) => Cached(d, pk)
               /\ d.pending = c.pending /\ d.next_pk = c.next_pk
  <1> DEFINE d == Load(c, pk)
  <1>1. CASE Cached(c, pk)
    <2>1. d = find(c, pk)
      BY <1>1 DEF Load
    <2>2. /\ CacheType(d) /\ Placement(d) /\ Keeps(c, d)
          /\ \A q \in Pk : Cached(d, q) <=> Cached(c, q)
          /\ d.pending = c.pending /\ d.next_pk = c.next_pk
      BY <2>1, FindFacts
    <2> HIDE DEF d
    <2> QED BY <1>1, <2>2, KeepsRight DEF d
  <1>2. CASE ~ Cached(c, pk)
    <2>1. d = emplace(c, pk, db[pk])
      BY <1>2 DEF Load
    <2>2. db[pk] \in Nat
      BY DEF TypeOK
    <2>3. Enters(c, d, pk, db[pk])
      BY <2>1, <2>2, EmplaceFacts
    <2> HIDE DEF d
    <2>4. Right(d, db)
      BY <2>3, EntersSame
    <2> QED BY <2>3, <2>4 DEF Enters, d
  <1> QED BY <1>1, <1>2

\* A read of a row
LEMMA GetStep ==
    ASSUME IInv, NEW pk \in Pk, get_cache_object(pk)
    PROVE  IInv'
  <1>1. TypeOK /\ CacheType(cache) /\ Placement(cache) /\ Right(cache, db)
    BY DEF IInv, TypeOK
  <1>2. UNCHANGED <<table, db, undo>> /\ db[pk] # NoRow /\ cache' = Load(cache, pk)
    BY DEF get_cache_object
  <1>3. /\ CacheType(cache') /\ Placement(cache') /\ Right(cache', db)
        /\ cache'.pending = cache.pending /\ cache'.next_pk = cache.next_pk
    BY <1>1, <1>2, LoadFacts
  <1> QED BY <1>2, <1>3, CacheStep

-----------------------------------------------------------------------------
\* Writes

\* What Write does to the undo stack
LEMMA WriteFacts ==
    ASSUME IInv, NEW pk \in Pk, NEW row \in Nat, Write(pk, row)
    PROVE  /\ table' = table /\ has_pending_cell(cache)
           /\ db' \in [Pk -> Nat] /\ db'[pk] = row /\ \A q \in Pk \ {pk} : db'[q] = db[q]
           /\ undo' \in Seq(Sessions) /\ Len(undo') = Len(undo) /\ Len(undo) \in Nat /\ Len(undo) > 0
           /\ \A i \in 1 .. Len(undo) : undo'[i].snap = undo[i].snap
           /\ \A i \in 1 .. Len(undo) - 1 : undo'[i] = undo[i]
           /\ undo'[Len(undo)].touched = undo[Len(undo)].touched \cup {pk}
           /\ \/ undo'[Len(undo)].next_pk = undo[Len(undo)].next_pk
              \/ undo'[Len(undo)].next_pk = pk /\ db[pk] = NoRow
  <1> DEFINE n == Len(undo)
             u == undo[n]
             t == u.touched \cup {pk}
             k == IF u.next_pk = Unset /\ db[pk] = NoRow /\ u.snap[pk] = NoRow THEN pk ELSE u.next_pk
             v == [u EXCEPT !.touched = t, !.next_pk = k]
  <1>1. /\ undo \in Seq(Sessions) /\ cache.pending \in Nat /\ cache.pending <= n /\ cache.pending > 0
        /\ has_pending_cell(cache) /\ table' = table /\ db \in [Pk -> Nat] /\ pk \in Nat
    BY TableFacts DEF IInv, TypeOK, CacheType, Write, has_pending_cell
  <1>2. n \in Nat /\ n > 0 /\ u \in Sessions
    BY <1>1
  <1>3. undo' = [undo EXCEPT ![n] = v]
    BY DEF Write, Last
  <1>4. t \in SUBSET Pk /\ k \in Nat \cup {Unset}
    BY <1>1, <1>2 DEF Sessions
  <1>5. k = u.next_pk \/ (k = pk /\ db[pk] = NoRow)
    OBVIOUS
  <1>6. v = [u EXCEPT !.touched = t, !.next_pk = k]
    OBVIOUS
  <1> HIDE DEF u, t, k, v
  <1>7. v \in Sessions /\ v.snap = u.snap /\ v.touched = t /\ v.next_pk = k
    BY <1>2, <1>4, <1>6 DEF Sessions
  <1>8. db' = [db EXCEPT ![pk] = row]
    BY DEF Write
  <1>9. db' \in [Pk -> Nat] /\ db'[pk] = row /\ \A q \in Pk \ {pk} : db'[q] = db[q]
    BY <1>1, <1>8
  <1> HIDE DEF n
  <1>10. DOMAIN undo = 1 .. n /\ n \in DOMAIN undo
    BY <1>1, <1>2 DEF n
  <1>11. undo' \in Seq(Sessions) /\ Len(undo') = n
    BY <1>1, <1>2, <1>3, <1>7, <1>10 DEF n
  <1>12. undo'[n] = v /\ \A i \in 1 .. n - 1 : undo'[i] = undo[i]
    BY <1>2, <1>3, <1>10
  <1>13. \A i \in 1 .. n : undo'[i].snap = undo[i].snap
    <2>1. \A i \in 1 .. n : i = n \/ i \in 1 .. n - 1
      BY <1>2
    <2> QED BY <1>7, <1>12, <2>1 DEF u
  <1> QED BY <1>1, <1>2, <1>5, <1>7, <1>9, <1>11, <1>12, <1>13 DEF n, u, t

\* Keys below a number are below a greater one.
LEMMA KeysBelowMore ==
    ASSUME NEW rows, NEW j \in Nat, NEW k \in Nat, j <= k, KeysBelow(rows, j),
           \A q \in Pk : q \in Nat
    PROVE  KeysBelow(rows, k)
  BY DEF KeysBelow

\* What is left to show of a write: the cache is right about the new rows, and the key was
\* there or is the next one.
LEMMA WriteStep ==
    ASSUME IInv, NEW pk \in Pk, NEW row \in Nat, Write(pk, row),
           CacheType(cache'), Placement(cache'), Right(cache', db'), cache'.pending = cache.pending,
           AutoKeys /\ ~ table.restarts =>
               \/ cache'.next_pk = cache.next_pk /\ db[pk] # NoRow
               \/ cache'.next_pk = pk + 1 /\ pk = NextKey
    PROVE  IInv'
  <1> DEFINE n == Len(undo)
  <1>1. /\ table' = table
        /\ db' \in [Pk -> Nat] /\ db'[pk] = row /\ \A q \in Pk \ {pk} : db'[q] = db[q]
        /\ undo' \in Seq(Sessions) /\ Len(undo') = n /\ n \in Nat /\ n > 0
        /\ \A i \in 1 .. n : undo'[i].snap = undo[i].snap
        /\ \A i \in 1 .. n - 1 : undo'[i] = undo[i]
        /\ undo'[n].touched = undo[n].touched \cup {pk}
        /\ \/ undo'[n].next_pk = undo[n].next_pk
           \/ undo'[n].next_pk = pk /\ db[pk] = NoRow
    BY WriteFacts
  <1>2. Pk' = Pk /\ Sessions' = Sessions /\ IsSystem' = IsSystem /\ End' = End /\ AutoKeys' = AutoKeys
    BY <1>1 DEF Pk, Sessions, IsSystem, End, AutoKeys
  <1>3. TypeOK'
    BY <1>1, <1>2 DEF IInv, TypeOK, CacheType, IsSeq
  <1>4. Placement(cache)'
    BY <1>2 DEF Placement, Cached
  <1>5. Right(cache, db)'
    BY <1>2 DEF Right, Cached, FirstFrom
  <1>6. cache'.pending <= Len(undo')
    BY <1>1 DEF IInv
  <1> HIDE DEF n
  <1>7. \A i \in 1 .. n : \A q \in Pk : q \notin undo[i].touched =>
           undo[i].snap[q] = IF i = n THEN db[q] ELSE undo[i + 1].snap[q]
    BY DEF IInv, Untouched, n
  <1>8. Untouched'
    <2> SUFFICES ASSUME NEW i \in 1 .. n, NEW q \in Pk, q \notin undo'[i].touched
                 PROVE  undo'[i].snap[q] = IF i = n THEN db'[q] ELSE undo'[i + 1].snap[q]
      BY <1>1, <1>2 DEF Untouched
    <2>1. CASE i = n
      BY <1>1, <1>7, <2>1
    <2>2. CASE i # n
      <3>1. i \in 1 .. n - 1 /\ i + 1 \in 1 .. n
        BY <1>1, <2>2
      <3> QED BY <1>1, <1>7, <2>2, <3>1
    <2> QED BY <2>1, <2>2
  <1>9. Keys'
    <2> SUFFICES ASSUME AutoKeys, ~ table.restarts
                 PROVE  /\ KeysBelow(db', NextKey')
                        /\ \A i \in 1 .. n : KeysBelow(undo'[i].snap, NextKey')
                        /\ \A i \in 1 .. n : undo'[i].next_pk # Unset =>
                              \A j \in 1 .. i : KeysBelow(undo'[j].snap, undo'[i].next_pk)
      BY <1>1, <1>2 DEF Keys, KeysBelow
    <2>1. /\ KeysBelow(db, NextKey)
          /\ \A i \in 1 .. n : KeysBelow(undo[i].snap, NextKey)
          /\ \A i \in 1 .. n : undo[i].next_pk # Unset =>
                \A j \in 1 .. i : KeysBelow(undo[j].snap, undo[i].next_pk)
      BY DEF IInv, Keys, n
    <2>2. NextKey \in Nat /\ NextKey' \in Nat /\ pk \in Nat /\ \A q \in Pk : q \in Nat
      BY TableFacts DEF IInv, TypeOK, CacheType, NextKey, Unset
    <2>3. /\ NextKey' >= NextKey /\ pk < NextKey'
          /\ db[pk] = NoRow => pk = NextKey
      <3>1. CASE cache'.next_pk = cache.next_pk /\ db[pk] # NoRow
        <4>1. NextKey' = NextKey
          BY <3>1 DEF NextKey
        <4> QED BY <2>1, <2>2, <3>1, <4>1 DEF KeysBelow
      <3>2. CASE cache'.next_pk = pk + 1 /\ pk = NextKey
        <4>1. NextKey' = pk + 1
          BY <2>2, <3>2 DEF NextKey, Unset
        <4> QED BY <2>2, <3>2, <4>1
      <3> QED BY <3>1, <3>2
    <2>4. KeysBelow(db', NextKey')
      BY <1>1, <2>1, <2>2, <2>3 DEF KeysBelow
    <2>5. ASSUME NEW i \in 1 .. n PROVE KeysBelow(undo'[i].snap, NextKey')
      <3>1. undo'[i].snap = undo[i].snap /\ KeysBelow(undo[i].snap, NextKey)
        BY <1>1, <2>1
      <3> QED BY <2>2, <2>3, <3>1, KeysBelowMore
    <2>6. ASSUME NEW i \in 1 .. n, undo'[i].next_pk # Unset, NEW j \in 1 .. i
          PROVE  KeysBelow(undo'[j].snap, undo'[i].next_pk)
      <3>1. j \in 1 .. n /\ undo'[j].snap = undo[j].snap
        BY <1>1
      <3>2. CASE undo'[i].next_pk = undo[i].next_pk
        BY <2>1, <2>6, <3>1, <3>2
      <3>3. CASE undo'[i].next_pk # undo[i].next_pk
        <4>1. i = n
          BY <1>1, <3>3, SMTT(20)
        <4>2. undo'[i].next_pk = NextKey
          BY <1>1, <2>3, <3>3, <4>1
        <4> QED BY <2>1, <3>1, <4>2
      <3> QED BY <3>2, <3>3
    <2> QED BY <2>4, <2>5, <2>6
  <1> QED BY <1>3, <1>4, <1>5, <1>6, <1>8, <1>9 DEF IInv

\* A contract inserts a row.
LEMMA InsertStep ==
    ASSUME IInv, NEW pk \in Pk, NEW row \in table.sizes, insert(pk, row)
    PROVE  IInv'
  <1>1. TypeOK /\ CacheType(cache) /\ Placement(cache) /\ Right(cache, db)
    BY DEF IInv, TypeOK
  <1>2. row \in Nat /\ row # NoRow
    BY <1>1, TableFacts DEF NoRow
  <1>3. ~ AutoKeys /\ db[pk] = NoRow /\ Write(pk, row) /\ cache' = clear_unsuccess(cache)
    BY DEF insert
  <1>4. ~ IsSystem
    BY <1>3 DEF AutoKeys, IsSystem
  <1>5. /\ CacheType(cache') /\ cache'.obj = cache.obj /\ cache'.pending = cache.pending
        /\ cache'.unsuccess = [q \in Pk |-> Unset]
    BY <1>1, <1>3, ClearUnsuccess
  <1>6. db'[pk] = row /\ \A q \in Pk \ {pk} : db'[q] = db[q]
    BY <1>2, <1>3, WriteFacts
  <1>7. \A q \in Pk : Cached(cache', q) <=> Cached(cache, q)
    BY <1>5 DEF Cached
  <1>8. Placement(cache')
    BY <1>1, <1>5, <1>7 DEF Placement
  <1>9. Right(cache', db')
    <2>1. ~ Cached(cache, pk)
      BY <1>1, <1>3 DEF Right
    <2> QED BY <1>1, <1>4, <1>5, <1>6, <1>7, <2>1 DEF Right
  <1> QED BY <1>2, <1>3, <1>5, <1>8, <1>9, WriteStep

\* A row is updated: loaded, if it was not cached, and replaced.
LEMMA UpdateStep ==
    ASSUME IInv, NEW pk \in Pk, NEW row \in table.sizes, update(pk, row)
    PROVE  IInv'
  <1> DEFINE c1 == Load(cache, pk)
             c2 == clear_unsuccess(c1)
  <1>1. TypeOK /\ CacheType(cache) /\ Placement(cache) /\ Right(cache, db)
    BY DEF IInv, TypeOK
  <1>2. row \in Nat /\ row # NoRow
    BY <1>1, TableFacts DEF NoRow
  <1>3. db[pk] # NoRow /\ Write(pk, row) /\ cache' = emplace(c2, pk, row)
    BY DEF update
  <1>4. /\ db'[pk] = row /\ \A q \in Pk \ {pk} : db'[q] = db[q]
    BY <1>2, <1>3, WriteFacts
  <1>5. /\ CacheType(c1) /\ Placement(c1) /\ Right(c1, db)
        /\ c1.pending = cache.pending /\ c1.next_pk = cache.next_pk
    BY <1>1, <1>3, LoadFacts
  <1> HIDE DEF c1
  <1>6. /\ CacheType(c2) /\ c2.obj = c1.obj /\ c2.pending = c1.pending
        /\ c2.unsuccess = [q \in Pk |-> Unset] /\ c2.next_pk = c1.next_pk
    BY <1>5, ClearUnsuccess
  <1> HIDE DEF c2
  <1>7. Placement(c2)
    BY <1>5, <1>6 DEF Placement, Cached
  <1>8. Enters(c2, cache', pk, row)
    BY <1>2, <1>3, <1>6, <1>7, EmplaceFacts
  <1>9. Right(cache', db')
    <2>1. \A q \in Pk \ {pk} : (Cached(cache', q) <=> Cached(c1, q)) /\ cache'.obj[q] = c1.obj[q]
      BY <1>6, <1>8 DEF Enters, Cached
    <2>2. \A q \in Pk : cache'.unsuccess[q] = Unset
      BY <1>6, <1>8 DEF Enters
    <2>3. \A q \in Pk : Cached(cache', q) => db'[q] # NoRow /\ cache'.obj[q].row = db'[q]
      BY <1>2, <1>4, <1>5, <1>8, <2>1 DEF Right, Enters
    <2>4. IsSystem => \A q \in Pk : db'[q] # NoRow => Cached(cache', q)
      BY <1>4, <1>5, <1>8, <2>1 DEF Right, Enters
    <2> QED BY <2>2, <2>3, <2>4 DEF Right
  <1>10. /\ CacheType(cache') /\ Placement(cache') /\ cache'.pending = cache.pending
         /\ cache'.next_pk = cache.next_pk
    BY <1>5, <1>6, <1>8 DEF Enters
  <1> QED BY <1>2, <1>3, <1>9, <1>10, WriteStep

\* A row is removed.
LEMMA RemoveStep ==
    ASSUME IInv, NEW pk \in Pk, remove(pk)
    PROVE  IInv'
  <1> DEFINE c1 == Load(cache, pk)
             c2 == clear_unsuccess(c1)
  <1>1. TypeOK /\ CacheType(cache) /\ Placement(cache) /\ Right(cache, db)
    BY DEF IInv, TypeOK
  <1>2. db[pk] # NoRow /\ Write(pk, NoRow) /\ cache' = remove_cache_object(c2, pk) /\ NoRow \in Nat
    BY DEF remove, NoRow
  <1>3. db'[pk] = NoRow /\ (\A q \in Pk \ {pk} : db'[q] = db[q]) /\ has_pending_cell(cache)
    BY <1>2, WriteFacts
  <1>4. /\ CacheType(c1) /\ Placement(c1) /\ Right(c1, db) /\ Cached(c1, pk)
        /\ c1.pending = cache.pending /\ c1.next_pk = cache.next_pk
    BY <1>1, <1>2, <1>3, LoadFacts
  <1> HIDE DEF c1
  <1>5. /\ CacheType(c2) /\ c2.obj = c1.obj /\ c2.pending = c1.pending
        /\ c2.unsuccess = [q \in Pk |-> Unset] /\ c2.next_pk = c1.next_pk
    BY <1>4, ClearUnsuccess
  <1> HIDE DEF c2
  <1>6. Placement(c2) /\ Cached(c2, pk)
    BY <1>4, <1>5 DEF Placement, Cached
  <1>7. Leaves(c2, cache', pk)
    BY <1>2, <1>5, <1>6, RemoveFacts
  <1>8. Right(cache', db')
    <2>1. \A q \in Pk \ {pk} : (Cached(cache', q) <=> Cached(c1, q)) /\ cache'.obj[q] = c1.obj[q]
      BY <1>5, <1>7 DEF Leaves, Cached
    <2>2. \A q \in Pk : cache'.unsuccess[q] = Unset
      BY <1>5, <1>7 DEF Leaves
    <2>3. \A q \in Pk : Cached(cache', q) => db'[q] # NoRow /\ cache'.obj[q].row = db'[q]
      BY <1>3, <1>4, <1>7, <2>1 DEF Right, Leaves
    <2>4. IsSystem => \A q \in Pk : db'[q] # NoRow => Cached(cache', q)
      BY <1>3, <1>4, <2>1 DEF Right
    <2> QED BY <2>2, <2>3, <2>4 DEF Right
  <1>9. /\ CacheType(cache') /\ Placement(cache') /\ cache'.pending = cache.pending
        /\ cache'.next_pk = cache.next_pk
    BY <1>4, <1>5, <1>7 DEF Leaves
  <1> QED BY <1>2, <1>8, <1>9, WriteStep

\* The key of a new row
LEMMA NewKey ==
    ASSUME IInv, AutoKeys, ~ table.restarts
    PROVE  NewPk(cache) = NextKey
  <1>1. CASE cache.next_pk # Unset
    BY <1>1 DEF NewPk, NextKey
  <1>2. CASE cache.next_pk = Unset
    <2>1. KeysBelow(db, 0)
      BY <1>2 DEF IInv, Keys, NextKey
    <2>2. \A pk \in Pk : pk \in Nat
      BY TableFacts DEF IInv
    <2>3. \A pk \in Pk : db[pk] = NoRow
      BY <2>1, <2>2 DEF KeysBelow
    <2> QED BY <1>2, <2>3 DEF NewPk, NextKey, available_pk
  <1> QED BY <1>1, <1>2

\* create makes an object without a row for the next key.
LEMMA CreateFacts ==
    ASSUME TypeOK, NEW c, CacheType(c), Placement(c), has_pending_cell(c), NewPk(c) \in Pk
    PROVE  LET d == create(c)
               k == NewPk(c)
           IN  /\ CacheType(d) /\ Placement(d) /\ Cached(d, k)
               /\ \A q \in Pk \ {k} : d.obj[q] = c.obj[q]
               /\ d.pending = c.pending /\ d.unsuccess = c.unsuccess /\ d.next_pk = k + 1
  <1> DEFINE k == NewPk(c)
             n == k + 1
             e == [c EXCEPT !.next_pk = n]
             d == create(c)
  <1>1. k \in Pk /\ n \in Nat
    BY TableFacts
  <1>2. d = emplace(e, k, NoRow) /\ NoRow \in Nat
    BY DEF create, NoRow
  <1>3. e = [c EXCEPT !.next_pk = n]
    OBVIOUS
  <1> HIDE DEF k, n, e, d
  <1>4. /\ CacheType(e) /\ e.obj = c.obj /\ e.pending = c.pending /\ e.unsuccess = c.unsuccess
        /\ e.next_pk = n
    BY <1>1, <1>3 DEF CacheType
  <1>5. Placement(e) /\ has_pending_cell(e)
    BY <1>4 DEF Placement, Cached, has_pending_cell
  <1>6. Enters(e, d, k, NoRow)
    BY <1>1, <1>2, <1>4, <1>5, EmplaceFacts
  <1> QED BY <1>4, <1>5, <1>6 DEF Enters, d, k, n

\* A table of the node gets a row with a new key.
LEMMA EmplaceRowStep ==
    ASSUME IInv, NEW row \in table.sizes, emplace_row(row)
    PROVE  IInv'
  <1> DEFINE k == NewPk(cache)
             c1 == create(cache)
             c2 == clear_unsuccess(c1)
  <1>1. TypeOK /\ CacheType(cache) /\ Placement(cache) /\ Right(cache, db)
    BY DEF IInv, TypeOK
  <1>2. row \in Nat /\ row # NoRow
    BY <1>1, TableFacts DEF NoRow
  <1>3. /\ k \in Pk /\ db[k] = NoRow /\ Write(k, row) /\ AutoKeys
        /\ cache' = set_object(c2, k, row)
    BY DEF emplace_row
  <1>4. k \in Nat /\ (~ table.restarts => k = NextKey)
    BY <1>1, <1>3, TableFacts, NewKey
  <1>5. db'[k] = row /\ (\A q \in Pk \ {k} : db'[q] = db[q]) /\ has_pending_cell(cache)
    BY <1>2, <1>3, WriteFacts
  <1>6. /\ CacheType(c1) /\ Placement(c1) /\ Cached(c1, k)
        /\ \A q \in Pk \ {k} : c1.obj[q] = cache.obj[q]
        /\ c1.pending = cache.pending /\ c1.next_pk = k + 1
    BY <1>1, <1>3, <1>5, CreateFacts
  <1> HIDE DEF c1, k
  <1>7. /\ CacheType(c2) /\ c2.obj = c1.obj /\ c2.pending = c1.pending
        /\ c2.unsuccess = [q \in Pk |-> Unset] /\ c2.next_pk = c1.next_pk
    BY <1>6, ClearUnsuccess
  <1> HIDE DEF c2
  <1>8. /\ CacheType(cache')
        /\ cache'.obj[k].stage = c2.obj[k].stage /\ cache'.obj[k].cell = c2.obj[k].cell
        /\ cache'.obj[k].row = row
        /\ \A q \in Pk \ {k} : cache'.obj[q] = c2.obj[q]
        /\ cache'.pending = c2.pending /\ cache'.unsuccess = c2.unsuccess
        /\ cache'.next_pk = c2.next_pk
    <2>1. CacheType(c2)
      BY <1>7
    <2> QED BY <1>2, <1>3, <2>1, SetObject
  <1>9. \A q \in Pk : Cached(cache', q) <=> Cached(c1, q)
    BY <1>7, <1>8 DEF Cached
  <1>10. Placement(cache')
    BY <1>6, <1>7, <1>8, <1>9 DEF Placement
  <1>11. Right(cache', db')
    <2>1. \A q \in Pk \ {k} : (Cached(cache', q) <=> Cached(cache, q)) /\ cache'.obj[q] = cache.obj[q]
      BY <1>6, <1>7, <1>8 DEF Cached
    <2>2. \A q \in Pk : cache'.unsuccess[q] = Unset
      BY <1>7, <1>8
    <2>3. \A q \in Pk : Cached(cache', q) => db'[q] # NoRow /\ cache'.obj[q].row = db'[q]
      BY <1>1, <1>2, <1>5, <1>8, <2>1 DEF Right
    <2>4. IsSystem => \A q \in Pk : db'[q] # NoRow => Cached(cache', q)
      BY <1>1, <1>3, <1>5, <1>6, <1>9, <2>1 DEF Right
    <2> QED BY <2>2, <2>3, <2>4 DEF Right
  <1>12. cache'.pending = cache.pending /\ cache'.next_pk = k + 1
    BY <1>6, <1>7, <1>8
  <1> QED BY <1>2, <1>3, <1>4, <1>8, <1>10, <1>11, <1>12, WriteStep

\* A row is not made, but its key is used.
LEMMA EmplaceFailsStep ==
    ASSUME IInv, emplace_fails
    PROVE  IInv'
  <1> DEFINE k == NewPk(cache)
             n == k + 1
  <1>1. TypeOK /\ CacheType(cache) /\ Placement(cache) /\ Right(cache, db)
    BY DEF IInv, TypeOK
  <1>2. AutoKeys /\ has_pending_cell(cache) /\ k \in Pk /\ UNCHANGED <<table, db, undo>>
    BY DEF emplace_fails
  <1>3. k \in Nat /\ n \in Nat /\ (~ table.restarts => k = NextKey)
    BY <1>1, <1>2, TableFacts, NewKey
  <1>4. ASSUME cache'.next_pk = n, ~ table.restarts PROVE NextKey' >= NextKey
    BY <1>3, <1>4 DEF NextKey, Unset
  <1>5. CASE Cached(cache, k)
    <2> DEFINE c == find(cache, k)
    <2>1. cache' = [c EXCEPT !.next_pk = n]
      BY <1>5 DEF emplace_fails
    <2>2. /\ CacheType(c) /\ Placement(c) /\ Keeps(cache, c) /\ c.pending = cache.pending
      BY <1>1, <1>2, FindFacts
    <2> HIDE DEF c, n, k
    <2>3. /\ CacheType(cache') /\ cache'.obj = c.obj /\ cache'.pending = c.pending
          /\ cache'.unsuccess = c.unsuccess /\ cache'.next_pk = n
      BY <1>3, <2>1, <2>2 DEF CacheType
    <2>4. Right(c, db)
      BY <1>1, <2>2, KeepsRight
    <2>5. Placement(cache') /\ Right(cache', db)
      BY <2>2, <2>3, <2>4 DEF Placement, Right, Cached
    <2> QED BY <1>2, <1>4, <2>2, <2>3, <2>5, CacheStep
  <1>6. CASE ~ Cached(cache, k)
    <2> DEFINE c == create(cache)
    <2>1. cache' = remove_cache_object(c, k)
      BY <1>6 DEF emplace_fails
    <2>2. /\ CacheType(c) /\ Placement(c) /\ Cached(c, k)
          /\ \A q \in Pk \ {k} : c.obj[q] = cache.obj[q]
          /\ c.pending = cache.pending /\ c.unsuccess = cache.unsuccess /\ c.next_pk = n
      BY <1>1, <1>2, CreateFacts
    <2> HIDE DEF c, n, k
    <2>3. Leaves(c, cache', k)
      BY <1>2, <2>1, <2>2, RemoveFacts
    <2>4. /\ CacheType(cache') /\ Placement(cache') /\ cache'.pending = cache.pending
          /\ cache'.next_pk = n
      BY <2>2, <2>3 DEF Leaves
    <2>5. \A q \in Pk : Cached(cache', q) <=> Cached(cache, q)
      BY <1>6, <2>2, <2>3 DEF Leaves, Cached
    <2>6. \A q \in Pk : Cached(cache', q) => cache'.obj[q].row = cache.obj[q].row
      BY <1>6, <2>2, <2>3, <2>5 DEF Leaves
    <2>7. \A q \in Pk : cache'.unsuccess[q] # Unset => cache'.unsuccess[q] = cache.unsuccess[q]
      BY <2>2, <2>3 DEF Leaves
    <2>8. Keeps(cache, cache')
      BY <2>5, <2>6, <2>7 DEF Keeps
    <2>9. Right(cache', db)
      BY <1>1, <2>8, KeepsRight
    <2> QED BY <1>2, <1>4, <2>4, <2>9, CacheStep
  <1> QED BY <1>5, <1>6

-----------------------------------------------------------------------------
\* Blocks and transactions

\* What is left to show of a step that starts or ends sessions
LEMMA SessionStep ==
    ASSUME IInv, table' = table, db' \in [Pk -> Nat], undo' \in Seq(Sessions),
           CacheType(cache'), Placement(cache'), Right(cache', db'),
           cache'.pending <= Len(undo'), NEW n \in Nat, n = Len(undo'),
           \A i \in 1 .. n : \A q \in Pk : q \notin undo'[i].touched =>
               undo'[i].snap[q] = IF i = n THEN db'[q] ELSE undo'[i + 1].snap[q],
           AutoKeys /\ ~ table.restarts =>
               /\ KeysBelow(db', NextKey')
               /\ \A i \in 1 .. n : KeysBelow(undo'[i].snap, NextKey')
               /\ \A i \in 1 .. n : undo'[i].next_pk # Unset =>
                     \A j \in 1 .. i : KeysBelow(undo'[j].snap, undo'[i].next_pk)
    PROVE  IInv'
  <1>1. Pk' = Pk /\ Sessions' = Sessions /\ IsSystem' = IsSystem /\ End' = End /\ AutoKeys' = AutoKeys
    BY DEF Pk, Sessions, IsSystem, End, AutoKeys
  <1>2. TypeOK'
    BY <1>1 DEF IInv, TypeOK, CacheType, IsSeq
  <1>3. Placement(cache)'
    BY <1>1 DEF Placement, Cached
  <1>4. Right(cache, db)'
    BY <1>1 DEF Right, Cached, FirstFrom
  <1>5. Untouched'
    BY <1>1 DEF Untouched
  <1>6. Keys'
    BY <1>1 DEF Keys, KeysBelow
  <1> QED BY <1>2, <1>3, <1>4, <1>5, <1>6 DEF IInv

\* The parts of the invariant about the undo stack
LEMMA StackFacts ==
    ASSUME IInv, NEW n, n = Len(undo)
    PROVE  /\ n \in Nat /\ undo \in Seq(Sessions) /\ db \in [Pk -> Nat]
           /\ CacheType(cache) /\ Placement(cache) /\ Right(cache, db)
           /\ cache.pending \in Nat /\ cache.pending <= n
           /\ \A i \in 1 .. n : undo[i] \in Sessions
           /\ \A i \in 1 .. n : \A q \in Pk : q \notin undo[i].touched =>
                 undo[i].snap[q] = IF i = n THEN db[q] ELSE undo[i + 1].snap[q]
           /\ AutoKeys /\ ~ table.restarts =>
                 /\ KeysBelow(db, NextKey)
                 /\ \A i \in 1 .. n : KeysBelow(undo[i].snap, NextKey)
                 /\ \A i \in 1 .. n : undo[i].next_pk # Unset =>
                       \A j \in 1 .. i : KeysBelow(undo[j].snap, undo[i].next_pk)
  <1>1. /\ undo \in Seq(Sessions) /\ db \in [Pk -> Nat]
        /\ CacheType(cache) /\ Placement(cache) /\ Right(cache, db)
        /\ cache.pending \in Nat /\ cache.pending <= n
    BY DEF IInv, TypeOK, CacheType
  <1>2. n \in Nat /\ \A i \in 1 .. n : undo[i] \in Sessions
    BY <1>1
  <1>3. \A i \in 1 .. n : \A q \in Pk : q \notin undo[i].touched =>
           undo[i].snap[q] = IF i = n THEN db[q] ELSE undo[i + 1].snap[q]
    BY DEF IInv, Untouched
  <1>4. AutoKeys /\ ~ table.restarts =>
           /\ KeysBelow(db, NextKey)
           /\ \A i \in 1 .. n : KeysBelow(undo[i].snap, NextKey)
           /\ \A i \in 1 .. n : undo[i].next_pk # Unset =>
                 \A j \in 1 .. i : KeysBelow(undo[j].snap, undo[i].next_pk)
    BY DEF IInv, Keys
  <1> QED BY <1>1, <1>2, <1>3, <1>4

\* A session starts.
LEMMA StartStep ==
    ASSUME IInv, start_undo_session
    PROVE  IInv'
  <1> DEFINE n == Len(undo)
             u == [snap |-> db, touched |-> {}, next_pk |-> Unset]
             p == cache.pending + 1
  <1>1. /\ n \in Nat /\ undo \in Seq(Sessions) /\ db \in [Pk -> Nat]
        /\ CacheType(cache) /\ Placement(cache) /\ Right(cache, db)
        /\ cache.pending \in Nat /\ cache.pending <= n
        /\ \A i \in 1 .. n : undo[i] \in Sessions
        /\ \A i \in 1 .. n : \A q \in Pk : q \notin undo[i].touched =>
              undo[i].snap[q] = IF i = n THEN db[q] ELSE undo[i + 1].snap[q]
        /\ AutoKeys /\ ~ table.restarts =>
              /\ KeysBelow(db, NextKey)
              /\ \A i \in 1 .. n : KeysBelow(undo[i].snap, NextKey)
              /\ \A i \in 1 .. n : undo[i].next_pk # Unset =>
                    \A j \in 1 .. i : KeysBelow(undo[j].snap, undo[i].next_pk)
    BY StackFacts
  <1>2. u \in Sessions /\ u.snap = db /\ u.next_pk = Unset
    BY <1>1 DEF Sessions
  <1>3. undo' = Append(undo, u) /\ cache' = [cache EXCEPT !.pending = p] /\ UNCHANGED <<table, db>>
    BY DEF start_undo_session, start_session
  <1> HIDE DEF u
  <1>4. /\ undo' \in Seq(Sessions) /\ Len(undo') = n + 1 /\ undo'[n + 1] = u
        /\ \A i \in 1 .. n : undo'[i] = undo[i]
    BY <1>1, <1>2, <1>3
  <1>5. p \in Nat /\ p <= n + 1
    BY <1>1
  <1> HIDE DEF p, n
  <1>6. /\ CacheType(cache') /\ cache'.obj = cache.obj /\ cache'.unsuccess = cache.unsuccess
        /\ cache'.pending = p /\ cache'.next_pk = cache.next_pk
    BY <1>1, <1>3, <1>5 DEF CacheType
  <1>7. Placement(cache') /\ Right(cache', db')
    BY <1>1, <1>3, <1>6 DEF Placement, Right, Cached
  <1>8. NextKey' = NextKey
    BY <1>6 DEF NextKey
  <1>9. \A i \in 1 .. n + 1 : i = n + 1 \/ (i \in 1 .. n /\ i # n + 1)
    BY <1>1
  <1>10. ASSUME NEW i \in 1 .. n + 1, NEW q \in Pk, q \notin undo'[i].touched
         PROVE  undo'[i].snap[q] = IF i = n + 1 THEN db'[q] ELSE undo'[i + 1].snap[q]
    <2>1. CASE i = n + 1
      BY <1>2, <1>3, <1>4, <2>1
    <2>2. CASE i \in 1 .. n /\ i # n + 1 /\ i = n
      BY <1>1, <1>2, <1>3, <1>4, <1>10, <2>2
    <2>3. CASE i \in 1 .. n /\ i # n + 1 /\ i # n
      <3>1. i + 1 \in 1 .. n
        BY <1>1, <2>3
      <3> QED BY <1>1, <1>4, <1>10, <2>3, <3>1
    <2> QED BY <1>9, <2>1, <2>2, <2>3
  <1>11. ASSUME AutoKeys, ~ table.restarts
         PROVE  /\ KeysBelow(db', NextKey')
                /\ \A i \in 1 .. n + 1 : KeysBelow(undo'[i].snap, NextKey')
                /\ \A i \in 1 .. n + 1 : undo'[i].next_pk # Unset =>
                      \A j \in 1 .. i : KeysBelow(undo'[j].snap, undo'[i].next_pk)
    <2>1. KeysBelow(db', NextKey')
      BY <1>1, <1>3, <1>8, <1>11
    <2>2. ASSUME NEW i \in 1 .. n + 1 PROVE KeysBelow(undo'[i].snap, NextKey')
      BY <1>1, <1>2, <1>4, <1>8, <1>9, <1>11
    <2>3. ASSUME NEW i \in 1 .. n + 1, undo'[i].next_pk # Unset, NEW j \in 1 .. i
          PROVE  KeysBelow(undo'[j].snap, undo'[i].next_pk)
      <3>1. i \in 1 .. n
        BY <1>2, <1>4, <1>9, <2>3
      <3>2. j \in 1 .. n
        BY <1>1, <3>1
      <3> QED BY <1>1, <1>4, <1>11, <2>3, <3>1, <3>2
    <2> QED BY <2>1, <2>2, <2>3
  <1>12. n + 1 \in Nat /\ cache'.pending <= Len(undo')
    BY <1>1, <1>4, <1>5, <1>6
  <1> QED BY <1>1, <1>3, <1>4, <1>6, <1>7, <1>10, <1>11, <1>12, SessionStep

\* A transaction becomes part of its block.
LEMMA SquashStep ==
    ASSUME IInv, squash_revision
    PROVE  IInv'
  <1> DEFINE n == Len(undo)
             inner == undo[n]
             outer == undo[n - 1]
             t == outer.touched \cup inner.touched
             k == IF outer.next_pk = Unset THEN inner.next_pk ELSE outer.next_pk
             u == [outer EXCEPT !.touched = t, !.next_pk = k]
             m == n - 1
             l == n - 2
             s == SubSeq(undo, 1, l)
  <1>1. /\ n \in Nat /\ undo \in Seq(Sessions) /\ db \in [Pk -> Nat]
        /\ CacheType(cache) /\ Placement(cache) /\ Right(cache, db)
        /\ cache.pending \in Nat /\ cache.pending <= n
        /\ \A i \in 1 .. n : undo[i] \in Sessions
        /\ \A i \in 1 .. n : \A q \in Pk : q \notin undo[i].touched =>
              undo[i].snap[q] = IF i = n THEN db[q] ELSE undo[i + 1].snap[q]
        /\ AutoKeys /\ ~ table.restarts =>
              /\ KeysBelow(db, NextKey)
              /\ \A i \in 1 .. n : KeysBelow(undo[i].snap, NextKey)
              /\ \A i \in 1 .. n : undo[i].next_pk # Unset =>
                    \A j \in 1 .. i : KeysBelow(undo[j].snap, undo[i].next_pk)
    BY StackFacts
  <1>2. cache.pending = 2 /\ cache' = squash_session(cache) /\ UNCHANGED <<table, db>>
    BY DEF squash_revision
  <1>3. undo' = Append(s, u)
    BY DEF squash_revision, Last
  <1>4. /\ n \in Nat /\ m \in Nat /\ l \in Nat /\ m = n - 1 /\ m = l + 1 /\ n = m + 1 /\ l <= n
        /\ n = Len(undo) /\ n \in 1 .. n /\ n - 1 \in 1 .. n /\ m # n
    BY <1>1, <1>2
  <1> HIDE DEF n, m, l
  <1>5. inner \in Sessions /\ outer \in Sessions
    BY <1>1, <1>4
  <1>6. t \in SUBSET Pk /\ k \in Nat \cup {Unset}
    BY <1>5 DEF Sessions
  <1>7. u = [outer EXCEPT !.touched = t, !.next_pk = k] /\ (k = inner.next_pk \/ k = outer.next_pk)
    OBVIOUS
  <1>8. t = outer.touched \cup inner.touched
    OBVIOUS
  <1> HIDE DEF u, t, k
  <1>9. u \in Sessions /\ u.snap = outer.snap /\ u.touched = t /\ u.next_pk = k
    BY <1>5, <1>6, <1>7 DEF Sessions
  <1>10. s \in Seq(Sessions) /\ Len(s) = l /\ \A i \in 1 .. l : s[i] = undo[i]
    <2>1. undo \in Seq(Sessions) /\ l \in Nat /\ l <= Len(undo)
      BY <1>1, <1>4
    <2> QED BY <2>1
  <1> HIDE DEF s
  <1>11. /\ undo' \in Seq(Sessions) /\ Len(undo') = m /\ undo'[m] = u
         /\ \A i \in 1 .. l : undo'[i] = undo[i]
    BY <1>3, <1>4, <1>9, <1>10
  <1>12. Ends(cache, cache') /\ cache'.pending = 1
    BY <1>1, <1>2, SquashSession
  <1>13. /\ CacheType(cache') /\ Placement(cache') /\ Right(cache', db')
         /\ NextKey' = NextKey
    BY <1>1, <1>2, <1>12, KeepsRight DEF Ends, NextKey
  <1>14. \A i \in 1 .. m : (i = m \/ (i \in 1 .. l /\ i # m /\ i # n)) /\ i \in 1 .. n
    BY <1>4
  <1>15. \A i \in 1 .. m : undo'[i].snap = undo[i].snap
    BY <1>4, <1>9, <1>11, <1>14
  <1>16. n \in 1 .. n /\ m \in 1 .. n /\ m # n
    BY <1>1, <1>4
  <1>17. outer = undo[m]
    BY DEF m
  <1> HIDE DEF inner, outer
  <1>18. ASSUME NEW i \in 1 .. m, NEW q \in Pk, q \notin undo'[i].touched
         PROVE  undo'[i].snap[q] = IF i = m THEN db'[q] ELSE undo'[i + 1].snap[q]
    <2>1. CASE i = m
      <3>1. q \notin outer.touched /\ q \notin inner.touched
        BY <1>8, <1>9, <1>11, <1>18, <2>1
      <3>2. outer.snap[q] = undo[n].snap[q]
        BY <1>1, <1>4, <1>16, <1>17, <3>1
      <3>3. undo[n].snap[q] = db[q]
        BY <1>1, <1>16, <3>1 DEF inner
      <3> QED BY <1>2, <1>9, <1>11, <2>1, <3>2, <3>3
    <2>2. CASE i \in 1 .. l /\ i # m /\ i # n
      <3>1. i + 1 \in 1 .. m
        BY <1>4, <2>2
      <3> QED BY <1>1, <1>11, <1>14, <1>15, <1>18, <2>2, <3>1
    <2> QED BY <1>14, <2>1, <2>2
  <1>19. ASSUME AutoKeys, ~ table.restarts
         PROVE  /\ KeysBelow(db', NextKey')
                /\ \A i \in 1 .. m : KeysBelow(undo'[i].snap, NextKey')
                /\ \A i \in 1 .. m : undo'[i].next_pk # Unset =>
                      \A j \in 1 .. i : KeysBelow(undo'[j].snap, undo'[i].next_pk)
    <2>1. KeysBelow(db', NextKey')
      BY <1>1, <1>2, <1>13, <1>19
    <2>2. ASSUME NEW i \in 1 .. m PROVE KeysBelow(undo'[i].snap, NextKey')
      BY <1>1, <1>13, <1>14, <1>15, <1>19
    <2>3. ASSUME NEW i \in 1 .. m, undo'[i].next_pk # Unset, NEW j \in 1 .. i
          PROVE  KeysBelow(undo'[j].snap, undo'[i].next_pk)
      <3>1. j \in 1 .. m /\ j \in 1 .. n /\ undo'[j].snap = undo[j].snap
        BY <1>4, <1>14, <1>15
      <3>2. CASE i = m
        <4>1. undo'[i].next_pk = undo[n].next_pk \/ undo'[i].next_pk = undo[m].next_pk
          BY <1>7, <1>9, <1>11, <1>17, <3>2 DEF inner
        <4>2. j \in 1 .. m
          BY <3>1
        <4> QED BY <1>1, <1>16, <1>19, <2>3, <3>1, <4>1, <4>2
      <3>3. CASE i \in 1 .. l /\ i # m /\ i # n
        BY <1>1, <1>11, <1>14, <1>19, <2>3, <3>1, <3>3
      <3> QED BY <1>14, <3>2, <3>3
    <2> QED BY <2>1, <2>2, <2>3
  <1>20. m \in Nat /\ cache'.pending <= Len(undo')
    BY <1>4, <1>11, <1>12
  <1> QED BY <1>1, <1>2, <1>11, <1>13, <1>18, <1>19, <1>20, SessionStep

\* The session of a block ends, and its revision stays.
LEMMA PushStep ==
    ASSUME IInv, push_revision
    PROVE  IInv'
  <1>1. CacheType(cache) /\ Placement(cache) /\ Right(cache, db) /\ cache.pending = 1
    BY DEF IInv, TypeOK, push_revision
  <1>2. cache' = push_session(cache) /\ UNCHANGED <<table, db, undo>>
    BY DEF push_revision
  <1> DEFINE n == Len(undo)
  <1>3. /\ n \in Nat /\ undo \in Seq(Sessions) /\ db \in [Pk -> Nat]
        /\ \A i \in 1 .. n : \A q \in Pk : q \notin undo[i].touched =>
              undo[i].snap[q] = IF i = n THEN db[q] ELSE undo[i + 1].snap[q]
        /\ AutoKeys /\ ~ table.restarts =>
              /\ KeysBelow(db, NextKey)
              /\ \A i \in 1 .. n : KeysBelow(undo[i].snap, NextKey)
              /\ \A i \in 1 .. n : undo[i].next_pk # Unset =>
                    \A j \in 1 .. i : KeysBelow(undo[j].snap, undo[i].next_pk)
    BY StackFacts
  <1>4. Ends(cache, cache') /\ cache'.pending = 0
    BY <1>1, <1>2, PushSession
  <1>5. /\ CacheType(cache') /\ Placement(cache') /\ Right(cache', db)
        /\ NextKey' = NextKey
    BY <1>1, <1>4, KeepsRight DEF Ends, NextKey
  <1>6. n = Len(undo') /\ cache'.pending <= Len(undo')
    BY <1>2, <1>3, <1>4
  <1>7. undo' = undo /\ db' = db /\ table' = table
    BY <1>2
  <1> HIDE DEF n
  <1> QED BY <1>3, <1>5, <1>6, <1>7, SessionStep

\* A session is undone, or a block is popped.
LEMMA UndoStep ==
    ASSUME IInv, undo_revision
    PROVE  IInv'
  <1> DEFINE n == Len(undo)
             m == n - 1
             u == undo[n]
             c == UndoTable(cache, u)
  <1>1. /\ n \in Nat /\ undo \in Seq(Sessions) /\ db \in [Pk -> Nat] /\ TypeOK
        /\ CacheType(cache) /\ Placement(cache) /\ Right(cache, db)
        /\ cache.pending \in Nat /\ cache.pending <= n
        /\ \A i \in 1 .. n : undo[i] \in Sessions
        /\ \A i \in 1 .. n : \A q \in Pk : q \notin undo[i].touched =>
              undo[i].snap[q] = IF i = n THEN db[q] ELSE undo[i + 1].snap[q]
        /\ AutoKeys /\ ~ table.restarts =>
              /\ KeysBelow(db, NextKey)
              /\ \A i \in 1 .. n : KeysBelow(undo[i].snap, NextKey)
              /\ \A i \in 1 .. n : undo[i].next_pk # Unset =>
                    \A j \in 1 .. i : KeysBelow(undo[j].snap, undo[i].next_pk)
    BY StackFacts DEF IInv
  <1>2. cache' = undo_session(c) /\ db' = u.snap /\ table' = table
    BY DEF undo_revision, Last
  <1>3. /\ m \in Nat /\ n = m + 1 /\ m <= n /\ n = Len(undo) /\ n \in 1 .. n
        /\ undo' = SubSeq(undo, 1, m)
    BY <1>1 DEF undo_revision, Front
  <1> HIDE DEF n, m
  <1>4. undo' \in Seq(Sessions) /\ Len(undo') = m /\ \A i \in 1 .. m : undo'[i] = undo[i]
    <2>1. undo \in Seq(Sessions) /\ m \in Nat /\ m <= Len(undo)
      BY <1>1, <1>3
    <2> QED BY <1>3, <2>1
  <1>5. u \in Sessions /\ \A pk \in Pk : pk \notin u.touched => u.snap[pk] = db[pk]
    BY <1>1, <1>3
  <1> HIDE DEF u
  <1>6. /\ CacheType(c) /\ Placement(c) /\ Right(c, u.snap) /\ c.pending = cache.pending
        /\ c.next_pk = cache.next_pk \/ (u.next_pk # Unset /\ c.next_pk = u.next_pk)
    BY <1>1, <1>5, UndoTableFacts
  <1> HIDE DEF c
  <1>7. Ends(c, cache') /\ cache'.pending = IF c.pending > 0 THEN c.pending - 1 ELSE 0
    BY <1>2, <1>6, UndoSession
  <1>8. /\ CacheType(cache') /\ Placement(cache') /\ Right(cache', db')
        /\ cache'.next_pk = c.next_pk
    BY <1>2, <1>6, <1>7, KeepsRight DEF Ends
  <1>9. cache'.pending <= Len(undo')
    BY <1>1, <1>3, <1>4, <1>6, <1>7
  <1>10. db' \in [Pk -> Nat]
    BY <1>2, <1>5 DEF Sessions
  <1>11. \A i \in 1 .. m : i \in 1 .. n /\ i # n /\ (i = m \/ i + 1 \in 1 .. m)
    BY <1>3
  <1>12. ASSUME NEW i \in 1 .. m, NEW q \in Pk, q \notin undo'[i].touched
         PROVE  undo'[i].snap[q] = IF i = m THEN db'[q] ELSE undo'[i + 1].snap[q]
    <2>1. undo[i].snap[q] = undo[i + 1].snap[q]
      BY <1>1, <1>4, <1>11, <1>12
    <2>2. CASE i = m
      <3>1. i + 1 = n
        BY <1>3, <2>2
      <3> QED BY <1>2, <1>4, <2>1, <2>2, <3>1 DEF u
    <2>3. CASE i # m
      BY <1>4, <1>11, <2>1, <2>3
    <2> QED BY <2>2, <2>3
  <1>13. ASSUME AutoKeys, ~ table.restarts
         PROVE  /\ KeysBelow(db', NextKey')
                /\ \A i \in 1 .. m : KeysBelow(undo'[i].snap, NextKey')
                /\ \A i \in 1 .. m : undo'[i].next_pk # Unset =>
                      \A j \in 1 .. i : KeysBelow(undo'[j].snap, undo'[i].next_pk)
    <2>1. \A i \in 1 .. n : KeysBelow(undo[i].snap, NextKey')
      <3>1. CASE c.next_pk = cache.next_pk
        <4>1. NextKey' = NextKey
          BY <1>8, <3>1 DEF NextKey
        <4> QED BY <1>1, <1>13, <4>1
      <3>2. CASE u.next_pk # Unset /\ c.next_pk = u.next_pk
        <4>1. NextKey' = undo[n].next_pk
          BY <1>8, <3>2 DEF NextKey, u
        <4> QED BY <1>1, <1>3, <1>13, <3>2, <4>1 DEF u
      <3> QED BY <1>6, <3>1, <3>2
    <2>2. KeysBelow(db', NextKey')
      BY <1>2, <1>3, <2>1 DEF u
    <2>3. \A i \in 1 .. m : KeysBelow(undo'[i].snap, NextKey')
      BY <1>4, <1>11, <2>1
    <2>4. ASSUME NEW i \in 1 .. m, undo'[i].next_pk # Unset, NEW j \in 1 .. i
          PROVE  KeysBelow(undo'[j].snap, undo'[i].next_pk)
      <3>1. j \in 1 .. m
        BY <1>3
      <3> QED BY <1>1, <1>4, <1>11, <1>13, <2>4, <3>1
    <2> QED BY <2>2, <2>3, <2>4
  <1> QED BY <1>2, <1>3, <1>4, <1>8, <1>9, <1>10, <1>12, <1>13, SessionStep

\* The oldest revision is forgotten.
LEMMA CommitStep ==
    ASSUME IInv, undo_commit
    PROVE  IInv'
  <1> DEFINE n == Len(undo)
             m == n - 1
  <1>1. /\ n \in Nat /\ undo \in Seq(Sessions) /\ db \in [Pk -> Nat]
        /\ CacheType(cache) /\ Placement(cache) /\ Right(cache, db)
        /\ \A i \in 1 .. n : undo[i] \in Sessions
        /\ \A i \in 1 .. n : \A q \in Pk : q \notin undo[i].touched =>
              undo[i].snap[q] = IF i = n THEN db[q] ELSE undo[i + 1].snap[q]
        /\ AutoKeys /\ ~ table.restarts =>
              /\ KeysBelow(db, NextKey)
              /\ \A i \in 1 .. n : KeysBelow(undo[i].snap, NextKey)
              /\ \A i \in 1 .. n : undo[i].next_pk # Unset =>
                    \A j \in 1 .. i : KeysBelow(undo[j].snap, undo[i].next_pk)
    BY StackFacts
  <1>2. cache.pending = 0 /\ cache' = cache /\ db' = db /\ table' = table
    BY DEF undo_commit
  <1>3. /\ m \in Nat /\ n = m + 1 /\ undo' \in Seq(Sessions) /\ Len(undo') = m
        /\ \A i \in 1 .. m : undo'[i] = undo[i + 1]
    BY <1>1 DEF undo_commit
  <1>4. NextKey' = NextKey
    BY <1>2 DEF NextKey
  <1> HIDE DEF n, m
  <1>5. \A i \in 1 .. m : i + 1 \in 1 .. n /\ (i = m <=> i + 1 = n) /\ (i # m => i + 1 \in 1 .. m)
    BY <1>3
  <1>6. ASSUME NEW i \in 1 .. m, NEW q \in Pk, q \notin undo'[i].touched
        PROVE  undo'[i].snap[q] = IF i = m THEN db'[q] ELSE undo'[i + 1].snap[q]
    BY <1>1, <1>2, <1>3, <1>5, <1>6, SMTT(20)
  <1>7. ASSUME AutoKeys, ~ table.restarts
        PROVE  /\ KeysBelow(db', NextKey')
               /\ \A i \in 1 .. m : KeysBelow(undo'[i].snap, NextKey')
               /\ \A i \in 1 .. m : undo'[i].next_pk # Unset =>
                     \A j \in 1 .. i : KeysBelow(undo'[j].snap, undo'[i].next_pk)
    <2>1. KeysBelow(db', NextKey')
      BY <1>1, <1>2, <1>4, <1>7
    <2>2. \A i \in 1 .. m : KeysBelow(undo'[i].snap, NextKey')
      BY <1>1, <1>3, <1>4, <1>5, <1>7
    <2>3. ASSUME NEW i \in 1 .. m, undo'[i].next_pk # Unset, NEW j \in 1 .. i
          PROVE  KeysBelow(undo'[j].snap, undo'[i].next_pk)
      <3>1. j \in 1 .. m /\ j + 1 \in 1 .. i + 1
        BY <1>3
      <3> QED BY <1>1, <1>3, <1>5, <1>7, <2>3, <3>1
    <2> QED BY <2>1, <2>2, <2>3
  <1>8. cache'.pending <= Len(undo')
    BY <1>2, <1>3
  <1> QED BY <1>1, <1>2, <1>3, <1>6, <1>7, <1>8, SessionStep

\* The finished revisions, and the rows they left
LEMMA FinishedFacts ==
    ASSUME IInv
    PROVE  LET k == Finished
               s == SubSeq(undo, 1, k)
           IN  /\ k \in Nat /\ s \in Seq(Sessions) /\ Len(s) = k
               /\ FinishedRows \in [Pk -> Nat]
               /\ \A i \in 1 .. k : \A q \in Pk : q \notin s[i].touched =>
                     s[i].snap[q] = IF i = k THEN FinishedRows[q] ELSE s[i + 1].snap[q]
  <1> DEFINE n == Len(undo)
             k == Finished
             s == SubSeq(undo, 1, k)
             d == FinishedRows
  <1>1. /\ n \in Nat /\ undo \in Seq(Sessions) /\ db \in [Pk -> Nat]
        /\ cache.pending \in Nat /\ cache.pending <= n
        /\ \A i \in 1 .. n : undo[i] \in Sessions
        /\ \A i \in 1 .. n : \A q \in Pk : q \notin undo[i].touched =>
              undo[i].snap[q] = IF i = n THEN db[q] ELSE undo[i + 1].snap[q]
    BY StackFacts
  <1>2. k = n - cache.pending /\ d = IF cache.pending = 0 THEN db ELSE undo[k + 1].snap
    BY DEF Finished, FinishedRows
  <1> HIDE DEF n, k, d
  <1>3. k \in 0 .. n /\ k \in Nat /\ (cache.pending = 0 <=> k = n) /\ (k # n => k + 1 \in 1 .. n)
    BY <1>1, <1>2
  <1>4. s \in Seq(Sessions) /\ Len(s) = k /\ \A i \in 1 .. k : s[i] = undo[i]
    <2>1. Len(undo) = n /\ k <= n
      BY <1>1, <1>3 DEF n
    <2>2. s = [i \in 1 .. k |-> undo[i]]
      BY <1>3
    <2>3. \A i \in 1 .. k : undo[i] \in Sessions
      BY <1>1, <1>3, <2>1
    <2> HIDE DEF s
    <2> QED BY <1>3, <2>2, <2>3
  <1>5. d \in [Pk -> Nat]
    BY <1>1, <1>2, <1>3 DEF Sessions
  <1> HIDE DEF s
  <1>6. ASSUME NEW i \in 1 .. k, NEW q \in Pk, q \notin s[i].touched
        PROVE  s[i].snap[q] = IF i = k THEN d[q] ELSE s[i + 1].snap[q]
    <2>1. i \in 1 .. n /\ (i # k => i + 1 \in 1 .. k /\ i # n)
      <3>1. n \in Nat /\ k \in Nat /\ k <= n
        BY <1>1, <1>3
      <3> QED BY <3>1
    <2>2. undo[i].snap[q] = IF i = n THEN db[q] ELSE undo[i + 1].snap[q]
      BY <1>1, <1>4, <1>6, <2>1
    <2>3. CASE i = k
      BY <1>2, <1>3, <1>4, <2>2, <2>3
    <2>4. CASE i # k
      BY <1>4, <2>1, <2>2, <2>4
    <2> QED BY <2>3, <2>4
  <1> QED BY <1>3, <1>4, <1>5, <1>6 DEF k, s, d

\* The node restarts with the rows of the system in its cache.
LEMMA RestartStep ==
    ASSUME IInv, restart
    PROVE  IInv'
  <1> DEFINE k == Finished
             d == FinishedRows
             pks == {pk \in Pk : IsSystem /\ d[pk] # NoRow}
             c == EmptyCache
  <1>1. /\ table.restarts /\ cache' = EmplaceAll(c, d, pks) /\ undo' = SubSeq(undo, 1, k)
        /\ db' = d /\ table' = table
    BY DEF restart
  <1> HIDE DEF c, d, k
  <1>2. /\ k \in Nat /\ undo' \in Seq(Sessions) /\ Len(undo') = k /\ d \in [Pk -> Nat]
        /\ \A i \in 1 .. k : \A q \in Pk : q \notin undo'[i].touched =>
              undo'[i].snap[q] = IF i = k THEN d[q] ELSE undo'[i + 1].snap[q]
    BY <1>1, FinishedFacts DEF d, k
  <1>3. /\ CacheType(c) /\ Placement(c) /\ c.pending = 0
        /\ \A pk \in Pk : ~ Cached(c, pk) /\ c.unsuccess[pk] = Unset
    BY EmptyCacheFacts DEF c
  <1>4. pks \in SUBSET Pk /\ \A pk \in pks : d[pk] # NoRow
    OBVIOUS
  <1>5. IsSystem => \A pk \in Pk : d[pk] # NoRow => pk \in pks
    OBVIOUS
  <1> HIDE DEF pks
  <1>6. EnterAll(c, cache', d, pks)
    BY <1>1, <1>2, <1>3, <1>4, EmplaceAllFacts
  <1>7. \A pk \in Pk : Cached(cache', pk) => d[pk] # NoRow /\ cache'.obj[pk].row = d[pk]
    <2> SUFFICES ASSUME NEW pk \in Pk, Cached(cache', pk)
                 PROVE  d[pk] # NoRow /\ cache'.obj[pk].row = d[pk]
      OBVIOUS
    <2>1. CASE pk \in pks
      BY <1>4, <1>6, <2>1 DEF EnterAll
    <2>2. CASE pk \notin pks
      BY <1>3, <1>6, <2>2 DEF EnterAll, Cached
    <2> QED BY <2>1, <2>2
  <1>8. Right(cache', d)
    BY <1>3, <1>5, <1>6, <1>7 DEF Right, EnterAll
  <1>9. CacheType(cache') /\ Placement(cache') /\ cache'.pending = 0
    BY <1>3, <1>6 DEF EnterAll
  <1>10. cache'.pending <= Len(undo')
    BY <1>2, <1>9
  <1> QED BY <1>1, <1>2, <1>8, <1>9, <1>10, SessionStep

-----------------------------------------------------------------------------
\* The theorems

\* Every step keeps the invariant.
LEMMA NextIInv ==
    ASSUME IInv, [Next]_vars
    PROVE  IInv'
  <1>1. CASE UNCHANGED vars
    <2>1. table' = table /\ db' = db /\ undo' = undo /\ cache' = cache
      BY <1>1 DEF vars
    <2>2. /\ CacheType(cache) /\ Placement(cache) /\ Right(cache, db)
      BY DEF IInv, TypeOK
    <2> QED BY <2>1, <2>2, CacheStep
  <1>2. ASSUME NEW pk \in Pk, lower_bound(pk) \/ get_cache_object(pk) \/ remove(pk) PROVE IInv'
    BY <1>2, LowerBoundStep, GetStep, RemoveStep
  <1>3. ASSUME NEW pk \in Pk, NEW row \in table.sizes, insert(pk, row) \/ update(pk, row) PROVE IInv'
    BY <1>3, InsertStep, UpdateStep
  <1>4. ASSUME NEW row \in table.sizes, emplace_row(row) PROVE IInv'
    BY <1>4, EmplaceRowStep
  <1>5. CASE emplace_fails
    BY <1>5, EmplaceFailsStep
  <1>6. CASE start_undo_session \/ squash_revision \/ push_revision
    BY <1>6, StartStep, SquashStep, PushStep
  <1>7. CASE undo_revision \/ undo_commit \/ restart
    BY <1>7, UndoStep, CommitStep, RestartStep
  <1> QED BY <1>1, <1>2, <1>3, <1>4, <1>5, <1>6, <1>7 DEF Next

\* The invariant holds in every state: the cache is right about the rows of the database
\* through reads, writes, nested sessions, evictions, popped blocks and restarts.
THEOREM CacheInvariant == Spec => []IInv
  BY InitIInv, NextIInv, PTL DEF Spec

\* A cached row is what the database holds, for tables of any size and caches of any limit,
\* after any mixture of writes, undone, squashed and pushed sessions, popped blocks and
\* evictions (cache_map.cpp emplace, undo_session).
THEOREM CachedRowsRight == Spec => []CacheCoherent
  <1>1. IInv => CacheCoherent
    BY DEF IInv, Right, CacheCoherent
  <1> QED BY <1>1, CacheInvariant, PTL

\* Every row of a system table is in the cache, so that a search for a duplicate transaction
\* that looks at the cache alone finds it (record_transaction, cursor_kind::InRAM).
THEOREM SystemRowsFound == Spec => []SystemRowsCached
  <1>1. IInv => SystemRowsCached
    BY DEF IInv, Right, SystemRowsCached
  <1> QED BY <1>1, CacheInvariant, PTL

\* A remembered failed lookup leads to the row the driver would find, and to a cached one
\* (emplace_unsuccess, release_cache_object).
THEOREM LookupsRight == Spec => []FailedLookupsRight
  <1>1. ASSUME IInv PROVE FailedLookupsRight
    <2> SUFFICES ASSUME NEW pk \in Pk, cache.unsuccess[pk] # Unset
                 PROVE  /\ ~ Cached(cache, pk)
                        /\ cache.unsuccess[pk] = lower(pk)
                        /\ cache.unsuccess[pk] # End => Cached(cache, cache.unsuccess[pk])
      BY DEF FailedLookupsRight
    <2>1. TypeOK /\ Right(cache, db)
      BY <1>1 DEF IInv
    <2>2. FirstFrom(db, pk, cache.unsuccess[pk]) /\ FirstFrom(db, pk, lower(pk))
      BY <2>1, LowerFacts DEF Right
    <2>3. cache.unsuccess[pk] = lower(pk)
      BY <2>1, <2>2, FirstUnique
    <2> QED BY <2>1, <2>3 DEF Right
  <1> QED BY <1>1, CacheInvariant, PTL

\* While the node runs, the next key of a table is above all its rows, although undo puts
\* it back to the first key of the session (cache_map::create, undo_state undo).
THEOREM FreshKeys == Spec => []NextPkFresh
  <1>1. ASSUME IInv PROVE NextPkFresh
    <2> SUFFICES ASSUME AutoKeys, ~ table.restarts, NEW pk \in Pk, db[pk] # NoRow
                 PROVE  NewPk(cache) > pk
      BY DEF NextPkFresh
    <2>1. NewPk(cache) = NextKey /\ pk < NextKey
      BY <1>1, NewKey DEF IInv, Keys, KeysBelow
    <2>2. pk \in Nat /\ NextKey \in Nat
      BY <1>1, TableFacts DEF IInv, TypeOK, CacheType, NextKey, Unset
    <2> QED BY <2>1, <2>2
  <1> QED BY <1>1, CacheInvariant, PTL
=============================================================================
