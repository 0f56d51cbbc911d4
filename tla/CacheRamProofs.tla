--------------------------- MODULE CacheRamProofs ---------------------------
(***************************************************************************)
(* The sizes of the cache add up, for tables of any size, any limit of the *)
(* cache and any number of LRU cells: a cell counts at least the objects   *)
(* in it, and ram_used is the sum of the cells.  This rests on the         *)
(* invariant of ChainCacheProofs, by which a cached row is that of the     *)
(* database.                                                               *)
(***************************************************************************)
EXTENDS ChainCacheProofs

-----------------------------------------------------------------------------
\* The invariant

\* These rows take this much.
Total(rows, pks) == SumTo([k \in 1 .. End |-> IF k - 1 \in pks THEN rows[k - 1] ELSE 0], End)

\* The LRU cell that counts an object: the one it is in, or came from
HomeOf(o, L) == IF o.cell > L THEN o.prev ELSE IF o.cell > 0 THEN o.cell ELSE NoCell

Home(c, pk) == HomeOf(c.obj[pk], Len(c.lru))

Homes(c, i) == {pk \in Pk : Home(c, pk) = i}

\* Where an object may be, with L LRU cells and p pending ones
ShapeOf(o, L, p) ==
    /\ - 1 <= o.cell /\ o.cell <= L + p
    /\ 0 <= o.prev /\ o.prev <= L
    /\ o.cell <= L => o.prev = NoCell
    /\ o.stage = "Deleted" => o.cell > L
    /\ o.stage = "Released" => o.cell = NoCell

Shaped(c) ==
    /\ c.lru \in Seq(Int) /\ c.ram_used \in Int
    /\ \A pk \in Pk : ShapeOf(c.obj[pk], Len(c.lru), c.pending)

\* The rows at the beginning of the block, with the present rows and the sessions of the stack
BaseOf(c, rows, stack) == IF c.pending = 0 THEN rows ELSE stack[Len(stack) - c.pending + 1].snap

\* A cell counts what is in it and what came from it, with the rows it had then.
Covered(c, base) == \A i \in 1 .. Len(c.lru) : Total(base, Homes(c, i)) <= c.lru[i]

Summed(c) == c.ram_used = SumSeq(c.lru)

\* What came from an LRU cell can return there with its old row: the session of the cell it is
\* in now began with that row, and if it was removed, a session that can be undone knows it.
Returns(c, base, rows, stack, pk) ==
    Home(c, pk) # NoCell =>
        /\ base[pk] # NoRow
        /\ c.obj[pk].cell <= Len(c.lru) => rows[pk] = base[pk]
        /\ c.pending = 2 /\ c.obj[pk].cell # Len(c.lru) + 1 => stack[Len(stack)].snap[pk] = base[pk]
        /\ c.obj[pk].stage = "Deleted" =>
              \/ pk \in stack[Len(stack)].touched
              \/ c.obj[pk].cell = Len(c.lru) + 1 /\ pk \in stack[Len(stack) - c.pending + 1].touched

RamOf(c, rows, stack) ==
    /\ c.pending <= 2
    /\ Shaped(c)
    /\ Covered(c, BaseOf(c, rows, stack))
    /\ Summed(c)
    /\ \A pk \in Pk : Returns(c, BaseOf(c, rows, stack), rows, stack, pk)

RamInv == RamOf(cache, db, undo)

-----------------------------------------------------------------------------
\* Sums

\* A set that has 0 and with each number the next one has all up to k.
LEMMA Climb ==
    ASSUME NEW k \in Nat, NEW S, 0 \in S, \A i \in 1 .. k : i - 1 \in S => i \in S
    PROVE  \A i \in 0 .. k : i \in S
  <1> SUFFICES ASSUME NEW j \in 0 .. k, j \notin S PROVE FALSE
    OBVIOUS
  <1> DEFINE T == {i \in Nat : i <= k /\ i \notin S}
  <1>1. T # {} /\ T \subseteq Nat
    OBVIOUS
  <1>2. PICK x \in T : \A y \in T : x <= y
    <2> HIDE DEF T
    <2> QED BY <1>1, NatMin
  <1>3. x \in Nat /\ x <= k /\ x \notin S /\ x # 0
    OBVIOUS
  <1>4. x - 1 \in Nat /\ x - 1 < x /\ x \in 1 .. k
    BY <1>3
  <1>5. x - 1 \in S
    BY <1>2, <1>4
  <1> QED BY <1>3, <1>4, <1>5

\* s has the partial sums of f.
Sums(s, f, n) == s[0] = 0 /\ \A i \in 1 .. n : s[i] = s[i - 1] + f[i]

\* The recursive function of SumTo has the partial sums.
LEMMA PartialSums ==
    ASSUME NEW f, NEW n \in Nat
    PROVE  \E s : Sums(s, f, n) /\ SumTo(f, n) = s[n]
  <1> DEFINE R(k, s) == [i \in 0 .. k |-> IF i = 0 THEN 0 ELSE s[i - 1] + f[i]]
             sum == CHOOSE s : s = R(n, s)
             S == {k \in 0 .. n : \E s : s = R(k, s)}
  <1>1. SumTo(f, n) = sum[n]
    BY DEF SumTo
  <1>2. 0 \in S
    <2>1. [i \in 0 .. 0 |-> 0] = R(0, [i \in 0 .. 0 |-> 0])
      OBVIOUS
    <2> HIDE DEF R
    <2>2. \E s : s = R(0, s)
      BY <2>1, Zenon
    <2> QED BY <2>2
  <1>3. ASSUME NEW k \in 1 .. n, k - 1 \in S PROVE k \in S
    <2>1. PICK s : s = R(k - 1, s)
      BY <1>3
    <2> DEFINE h == [i \in 0 .. k |-> IF i = k THEN s[k - 1] + f[k] ELSE s[i]]
    <2>2. h = R(k, h)
      BY <2>1
    <2> HIDE DEF R, h
    <2>3. \E z : z = R(k, z)
      BY <2>2, Zenon
    <2> QED BY <2>3
  <1>4. n \in S
    <2> HIDE DEF S
    <2>1. \A k \in 0 .. n : k \in S
      BY <1>2, <1>3, Climb
    <2> QED BY <2>1
  <1>5. sum = R(n, sum)
    BY <1>4
  <1> HIDE DEF sum
  <1>6. Sums(sum, f, n)
    BY <1>5 DEF Sums
  <1> HIDE DEF R, S
  <1> QED BY <1>1, <1>6, Zenon

\* Partial sums are unique.
LEMMA SumsSame ==
    ASSUME NEW f, NEW n \in Nat, NEW s, NEW t, Sums(s, f, n), Sums(t, f, n)
    PROVE  \A i \in 0 .. n : s[i] = t[i]
  <1> DEFINE S == {k \in 0 .. n : s[k] = t[k]}
  <1>1. 0 \in S
    BY DEF Sums
  <1>2. ASSUME NEW k \in 1 .. n, k - 1 \in S PROVE k \in S
    BY <1>2 DEF Sums
  <1> HIDE DEF S
  <1>3. \A i \in 0 .. n : i \in S
    BY <1>1, <1>2, Climb
  <1> QED BY <1>3 DEF S

\* The first summands make the same sums.
LEMMA SumsPrefix ==
    ASSUME NEW f, NEW n \in Nat, NEW s, Sums(s, f, n)
    PROVE  \A k \in 0 .. n : s[k] = SumTo(f, k)
  <1> SUFFICES ASSUME NEW k \in 0 .. n PROVE s[k] = SumTo(f, k)
    OBVIOUS
  <1>1. PICK t : Sums(t, f, k) /\ SumTo(f, k) = t[k]
    BY PartialSums
  <1>2. Sums(s, f, k)
    BY DEF Sums
  <1>3. s[k] = t[k]
    BY <1>1, <1>2, SumsSame
  <1> QED BY <1>1, <1>3

\* SumTo by its equations
LEMMA SumUnfold ==
    ASSUME NEW f
    PROVE  SumTo(f, 0) = 0 /\ \A k \in Nat \ {0} : SumTo(f, k) = SumTo(f, k - 1) + f[k]
  <1>1. SumTo(f, 0) = 0
    <2>1. PICK s : Sums(s, f, 0) /\ SumTo(f, 0) = s[0]
      BY PartialSums
    <2> QED BY <2>1 DEF Sums
  <1>2. ASSUME NEW k \in Nat \ {0} PROVE SumTo(f, k) = SumTo(f, k - 1) + f[k]
    <2>1. PICK s : Sums(s, f, k) /\ SumTo(f, k) = s[k]
      BY PartialSums
    <2>2. k - 1 \in 0 .. k /\ k \in 1 .. k
      OBVIOUS
    <2>3. s[k - 1] = SumTo(f, k - 1)
      BY <2>1, <2>2, SumsPrefix
    <2> QED BY <2>1, <2>2, <2>3 DEF Sums
  <1> QED BY <1>1, <1>2

\* Equal summands make equal sums.
LEMMA SumSame ==
    ASSUME NEW f, NEW g, NEW n \in Nat, \A i \in 1 .. n : f[i] = g[i]
    PROVE  SumTo(f, n) = SumTo(g, n)
  <1> DEFINE S == {k \in 0 .. n : SumTo(f, k) = SumTo(g, k)}
  <1>1. 0 \in S
    BY SumUnfold
  <1>2. ASSUME NEW k \in 1 .. n, k - 1 \in S PROVE k \in S
    BY <1>2, SumUnfold
  <1> HIDE DEF S
  <1>3. \A i \in 0 .. n : i \in S
    BY <1>1, <1>2, Climb
  <1> QED BY <1>3 DEF S

\* Sums of integers are integers.
LEMMA SumInt ==
    ASSUME NEW f, NEW n \in Nat, \A i \in 1 .. n : f[i] \in Int
    PROVE  \A k \in 0 .. n : SumTo(f, k) \in Int
  <1> DEFINE S == {k \in 0 .. n : SumTo(f, k) \in Int}
  <1>1. 0 \in S
    BY SumUnfold
  <1>2. ASSUME NEW k \in 1 .. n, k - 1 \in S PROVE k \in S
    BY <1>2, SumUnfold
  <1> HIDE DEF S
  <1>3. \A i \in 0 .. n : i \in S
    BY <1>1, <1>2, Climb
  <1> QED BY <1>3 DEF S

\* A sequence is the function of its elements.
LEMMA IntSeq ==
    ASSUME NEW s \in Seq(Int)
    PROVE  s = [i \in 1 .. Len(s) |-> s[i]] /\ \A i \in 1 .. Len(s) : s[i] \in Int
  OBVIOUS

\* Sums add.
LEMMA SumAdd ==
    ASSUME NEW f, NEW g, NEW h, NEW n \in Nat,
           \A i \in 1 .. n : f[i] \in Int /\ g[i] \in Int /\ h[i] = f[i] + g[i]
    PROVE  SumTo(h, n) = SumTo(f, n) + SumTo(g, n)
  <1> DEFINE S == {k \in 0 .. n : SumTo(h, k) = SumTo(f, k) + SumTo(g, k)}
  <1>1. 0 \in S
    BY SumUnfold
  <1>2. ASSUME NEW k \in 1 .. n, k - 1 \in S PROVE k \in S
    <2>1. SumTo(f, k - 1) \in Int /\ SumTo(g, k - 1) \in Int
      BY SumInt
    <2>2. /\ SumTo(f, k) = SumTo(f, k - 1) + f[k] /\ SumTo(g, k) = SumTo(g, k - 1) + g[k]
          /\ SumTo(h, k) = SumTo(h, k - 1) + h[k]
      BY SumUnfold
    <2> QED BY <1>2, <2>1, <2>2
  <1> HIDE DEF S
  <1>3. \A i \in 0 .. n : i \in S
    BY <1>1, <1>2, Climb
  <1> QED BY <1>3 DEF S

\* Sums of greater summands are greater.
LEMMA SumLe ==
    ASSUME NEW f, NEW g, NEW n \in Nat,
           \A i \in 1 .. n : f[i] \in Int /\ g[i] \in Int /\ f[i] <= g[i]
    PROVE  SumTo(f, n) <= SumTo(g, n)
  <1> DEFINE S == {k \in 0 .. n : SumTo(f, k) <= SumTo(g, k)}
  <1>1. 0 \in S
    BY SumUnfold
  <1>2. ASSUME NEW k \in 1 .. n, k - 1 \in S PROVE k \in S
    <2>1. SumTo(f, k - 1) \in Int /\ SumTo(g, k - 1) \in Int
      BY SumInt
    <2>2. SumTo(f, k) = SumTo(f, k - 1) + f[k] /\ SumTo(g, k) = SumTo(g, k - 1) + g[k]
      BY SumUnfold
    <2> QED BY <1>2, <2>1, <2>2
  <1> HIDE DEF S
  <1>3. \A i \in 0 .. n : i \in S
    BY <1>1, <1>2, Climb
  <1> QED BY <1>3 DEF S

\* The summands after the first m
LEMMA SumAfter ==
    ASSUME NEW f, NEW g, NEW m \in Nat, NEW n \in Nat, \A i \in 1 .. m + n : f[i] \in Int,
           \A i \in 1 .. n : g[i] = f[m + i]
    PROVE  SumTo(f, m + n) = SumTo(f, m) + SumTo(g, n)
  <1> DEFINE S == {k \in 0 .. n : SumTo(f, m + k) = SumTo(f, m) + SumTo(g, k)}
  <1>1. SumTo(f, m) \in Int
    <2>1. \A i \in 1 .. m : f[i] \in Int
      OBVIOUS
    <2> QED BY <2>1, SumInt
  <1>2. 0 \in S
    BY <1>1, SumUnfold
  <1>3. \A i \in 1 .. n : g[i] \in Int
    OBVIOUS
  <1>4. ASSUME NEW k \in 1 .. n, k - 1 \in S PROVE k \in S
    <2>1. SumTo(g, k - 1) \in Int
      BY <1>3, SumInt
    <2>2. m + k \in Nat \ {0} /\ (m + k) - 1 = m + (k - 1)
      OBVIOUS
    <2>3. SumTo(f, m + k) = SumTo(f, m + (k - 1)) + f[m + k] /\ SumTo(g, k) = SumTo(g, k - 1) + g[k]
      BY <2>2, SumUnfold
    <2> QED BY <1>1, <1>3, <1>4, <2>1, <2>3
  <1> HIDE DEF S
  <1>5. \A i \in 0 .. n : i \in S
    BY <1>2, <1>4, Climb
  <1> QED BY <1>5 DEF S

-----------------------------------------------------------------------------
\* Sums over keys

\* Summands of Total
Part(rows, pks) == [k \in 1 .. End |-> IF k - 1 \in pks THEN rows[k - 1] ELSE 0]

LEMMA PartFacts ==
    ASSUME TypeOK, NEW rows, NEW pks \in SUBSET Pk, \A pk \in pks : rows[pk] \in Nat
    PROVE  /\ End \in Nat /\ Total(rows, pks) = SumTo(Part(rows, pks), End)
           /\ \A k \in 1 .. End : /\ k - 1 \in Pk /\ Part(rows, pks)[k] \in Nat
                                  /\ k - 1 \in pks => Part(rows, pks)[k] = rows[k - 1]
                                  /\ k - 1 \notin pks => Part(rows, pks)[k] = 0
  <1>1. End \in Nat /\ Pk = 0 .. End - 1
    BY TableFacts DEF Pk, End
  <1>2. Total(rows, pks) = SumTo(Part(rows, pks), End)
    BY DEF Total, Part
  <1>3. \A k \in 1 .. End : k - 1 \in Pk
    BY <1>1
  <1>4. \A k \in 1 .. End : Part(rows, pks)[k] = IF k - 1 \in pks THEN rows[k - 1] ELSE 0
    BY DEF Part
  <1> QED BY <1>1, <1>2, <1>3, <1>4

\* Fewer and smaller rows take less.
LEMMA TotalLe ==
    ASSUME TypeOK, NEW rows, NEW more, NEW A \in SUBSET Pk, NEW B \in SUBSET Pk, A \subseteq B,
           \A pk \in B : more[pk] \in Nat, \A pk \in A : rows[pk] \in Nat /\ rows[pk] <= more[pk]
    PROVE  Total(rows, A) <= Total(more, B)
  <1> DEFINE f == Part(rows, A)
             g == Part(more, B)
  <1>1. \A k \in 1 .. End : /\ k - 1 \in Pk /\ f[k] \in Nat
                            /\ k - 1 \in A => f[k] = rows[k - 1]
                            /\ k - 1 \notin A => f[k] = 0
    BY PartFacts
  <1>2. \A k \in 1 .. End : g[k] \in Nat /\ (k - 1 \in B => g[k] = more[k - 1])
    BY PartFacts
  <1>3. /\ End \in Nat /\ Total(rows, A) = SumTo(f, End) /\ Total(more, B) = SumTo(g, End)
    BY PartFacts
  <1> HIDE DEF f, g
  <1>4. \A k \in 1 .. End : f[k] \in Int /\ g[k] \in Int /\ f[k] <= g[k]
    BY <1>1, <1>2
  <1>5. SumTo(f, End) <= SumTo(g, End)
    BY <1>3, <1>4, SumLe
  <1> QED BY <1>3, <1>5

\* The same rows take the same.
LEMMA TotalSame ==
    ASSUME TypeOK, NEW rows, NEW others, NEW A \in SUBSET Pk,
           \A pk \in A : rows[pk] \in Nat /\ rows[pk] = others[pk]
    PROVE  Total(rows, A) = Total(others, A)
  <1> DEFINE f == Part(rows, A)
             g == Part(others, A)
  <1>1. /\ End \in Nat /\ Total(rows, A) = SumTo(f, End) /\ Total(others, A) = SumTo(g, End)
    BY PartFacts
  <1>2. \A k \in 1 .. End : f[k] = g[k]
    BY DEF Part
  <1> HIDE DEF f, g
  <1>3. SumTo(f, End) = SumTo(g, End)
    BY <1>1, <1>2, SumSame
  <1> QED BY <1>1, <1>3

\* What is in two parts takes what they take.
LEMMA TotalSplit ==
    ASSUME TypeOK, NEW rows, NEW A \in SUBSET Pk, NEW B \in SUBSET Pk, A \cap B = {},
           \A pk \in A \cup B : rows[pk] \in Nat
    PROVE  Total(rows, A \cup B) = Total(rows, A) + Total(rows, B)
  <1> DEFINE f == Part(rows, A)
             g == Part(rows, B)
             h == Part(rows, A \cup B)
  <1>1. \A k \in 1 .. End : /\ f[k] \in Nat
                            /\ k - 1 \in A => f[k] = rows[k - 1]
                            /\ k - 1 \notin A => f[k] = 0
    BY PartFacts
  <1>2. \A k \in 1 .. End : /\ g[k] \in Nat
                            /\ k - 1 \in B => g[k] = rows[k - 1]
                            /\ k - 1 \notin B => g[k] = 0
    BY PartFacts
  <1>3. \A k \in 1 .. End : /\ k - 1 \in A \cup B => h[k] = rows[k - 1]
                            /\ k - 1 \notin A \cup B => h[k] = 0
    <2>1. A \cup B \in SUBSET Pk
      OBVIOUS
    <2> QED BY <2>1, PartFacts
  <1>4. /\ End \in Nat /\ Total(rows, A) = SumTo(f, End) /\ Total(rows, B) = SumTo(g, End)
        /\ Total(rows, A \cup B) = SumTo(h, End)
    BY PartFacts
  <1> HIDE DEF f, g, h
  <1>5. \A k \in 1 .. End : f[k] \in Int /\ g[k] \in Int /\ h[k] = f[k] + g[k]
    BY <1>1, <1>2, <1>3
  <1>6. SumTo(h, End) = SumTo(f, End) + SumTo(g, End)
    BY <1>4, <1>5, SumAdd
  <1> QED BY <1>4, <1>6

\* Nothing takes nothing, and anything something.
LEMMA TotalNat ==
    ASSUME TypeOK, NEW rows, NEW A \in SUBSET Pk, \A pk \in A : rows[pk] \in Nat
    PROVE  Total(rows, A) \in Nat /\ Total(rows, {}) = 0
  <1>1. Total(rows, A) \in Int
    <2>1. \A k \in 1 .. End : Part(rows, A)[k] \in Int
      BY PartFacts
    <2>2. End \in Nat /\ Total(rows, A) = SumTo(Part(rows, A), End) /\ End \in 0 .. End
      BY PartFacts
    <2> QED BY <2>1, <2>2, SumInt
  <1> DEFINE E == {}
  <1>2. E \in SUBSET Pk /\ E \cup E = E /\ E \cap E = {} /\ \A pk \in E : rows[pk] \in Nat
    OBVIOUS
  <1> HIDE DEF E
  <1>3. Total(rows, E) = 0
    <2>1. \A k \in 1 .. End : Part(rows, E)[k] \in Int
      BY <1>2, PartFacts
    <2>2. End \in Nat /\ Total(rows, E) = SumTo(Part(rows, E), End) /\ End \in 0 .. End
      BY <1>2, PartFacts
    <2>3. Total(rows, E) \in Int
      BY <2>1, <2>2, SumInt
    <2>4. Total(rows, E) = Total(rows, E) + Total(rows, E)
      BY <1>2, TotalSplit
    <2>5. \A x \in Int : x = x + x => x = 0
      OBVIOUS
    <2> QED BY <2>3, <2>4, <2>5
  <1>4. Total(rows, E) <= Total(rows, A)
    BY <1>2, TotalLe DEF E
  <1> QED BY <1>1, <1>3, <1>4 DEF E

\* Sizes are those of the rows.
Rows(c) == [pk \in Pk |-> c.obj[pk].row]

LEMMA SizeTotal ==
    ASSUME TypeOK, NEW c, CacheType(c), NEW A \in SUBSET Pk
    PROVE  /\ Size(c, A) = Total(Rows(c), A) /\ Size(c, A) \in Nat
           /\ \A pk \in Pk : Rows(c)[pk] = c.obj[pk].row /\ Rows(c)[pk] \in Nat
  <1>1. \A pk \in Pk : Rows(c)[pk] = c.obj[pk].row /\ Rows(c)[pk] \in Nat
    BY DEF Rows, CacheType, Objects
  <1> DEFINE f == [k \in 1 .. End |-> IF k - 1 \in A THEN c.obj[k - 1].row ELSE 0]
  <1>2. End \in Nat /\ Total(Rows(c), A) = SumTo(Part(Rows(c), A), End)
    BY <1>1, PartFacts
  <1>3. \A k \in 1 .. End : f[k] = Part(Rows(c), A)[k]
    BY <1>1 DEF Part
  <1>4. Size(c, A) = SumTo(f, End)
    BY DEF Size
  <1> HIDE DEF f
  <1>5. SumTo(f, End) = SumTo(Part(Rows(c), A), End)
    BY <1>2, <1>3, SumSame
  <1>6. Total(Rows(c), A) \in Nat
    BY <1>1, TotalNat
  <1> QED BY <1>1, <1>2, <1>4, <1>5, <1>6

-----------------------------------------------------------------------------
\* Sums over cells

\* One more cell
LEMMA SumSeqAppend ==
    ASSUME NEW s \in Seq(Int), NEW e \in Int
    PROVE  Append(s, e) \in Seq(Int) /\ SumSeq(Append(s, e)) = SumSeq(s) + e
  <1> DEFINE t == Append(s, e)
             n == Len(s)
  <1>1. /\ n \in Nat /\ t \in Seq(Int) /\ Len(t) = n + 1 /\ t[n + 1] = e
        /\ \A i \in 1 .. n : s[i] = t[i]
    OBVIOUS
  <1> HIDE DEF t
  <1>2. n + 1 \in Nat \ {0} /\ (n + 1) - 1 = n
    BY <1>1
  <1>3. SumTo(t, n + 1) = SumTo(t, n) + t[n + 1]
    BY <1>2, SumUnfold
  <1> HIDE DEF n
  <1>4. SumTo(s, n) = SumTo(t, n)
    BY <1>1, SumSame
  <1> QED BY <1>1, <1>3, <1>4 DEF SumSeq, t, n

\* The first n cells and the others
LEMMA SumSeqCut ==
    ASSUME NEW s \in Seq(Int), NEW n \in Nat, n <= Len(s)
    PROVE  LET t == SubSeq(s, 1, n)
               u == SubSeq(s, n + 1, Len(s))
           IN  /\ t \in Seq(Int) /\ Len(t) = n /\ \A i \in 1 .. n : t[i] = s[i]
               /\ u \in Seq(Int) /\ Len(u) = Len(s) - n /\ \A i \in 1 .. Len(s) - n : u[i] = s[n + i]
               /\ SumSeq(t) \in Int /\ SumSeq(u) \in Int /\ SumSeq(s) = SumSeq(t) + SumSeq(u)
  <1> DEFINE t == SubSeq(s, 1, n)
             u == SubSeq(s, n + 1, Len(s))
             m == Len(s) - n
  <1>1. m \in Nat /\ n + m = Len(s) /\ \A i \in 1 .. Len(s) : s[i] \in Int
    OBVIOUS
  <1>2. t \in Seq(Int) /\ Len(t) = n /\ \A i \in 1 .. n : t[i] = s[i]
    OBVIOUS
  <1>3. u \in Seq(Int) /\ Len(u) = m /\ \A i \in 1 .. m : u[i] = s[n + i]
    OBVIOUS
  <1> HIDE DEF t, u, m
  <1>4. SumTo(t, n) = SumTo(s, n)
    BY <1>2, SumSame
  <1>5. SumTo(s, n + m) = SumTo(s, n) + SumTo(u, m)
    <2>1. \A i \in 1 .. n + m : s[i] \in Int
      BY <1>1
    <2>2. m \in Nat /\ \A i \in 1 .. m : u[i] = s[n + i]
      BY <1>1, <1>3
    <2> QED BY <2>1, <2>2, SumAfter
  <1>6. SumTo(t, n) \in Int
    <2>1. \A i \in 1 .. n : t[i] \in Int
      BY <1>2
    <2>2. n \in 0 .. n
      OBVIOUS
    <2> QED BY <2>1, <2>2, SumInt
  <1>7. SumTo(u, m) \in Int
    <2>1. \A i \in 1 .. m : u[i] \in Int
      BY <1>3
    <2>2. m \in 0 .. m
      BY <1>1
    <2> QED BY <1>1, <2>1, <2>2, SumInt
  <1>8. SumSeq(t) = SumTo(t, n) /\ SumSeq(u) = SumTo(u, m) /\ SumSeq(s) = SumTo(s, n + m)
    BY <1>1, <1>2, <1>3 DEF SumSeq
  <1> QED BY <1>2, <1>3, <1>4, <1>5, <1>6, <1>7, <1>8 DEF t, u, m

\* Those of X in a cell, and in the first L cells
OfCell(c, X, i)  == X \cap InCell(c, {i})
OfCells(c, X, L) == X \cap InCell(c, 1 .. L)

\* What is in the first L cells takes the sum of what is in each.
LEMMA CellsSum ==
    ASSUME TypeOK, NEW c, CacheType(c), NEW rows, NEW X \in SUBSET Pk, \A pk \in X : rows[pk] \in Nat,
           NEW L \in Nat, NEW f, \A i \in 1 .. L : f[i] = Total(rows, OfCell(c, X, i))
    PROVE  SumTo(f, L) = Total(rows, OfCells(c, X, L))
  <1> DEFINE In(k) == X \cap InCell(c, 1 .. k)
             S == {k \in 0 .. L : SumTo(f, k) = Total(rows, In(k))}
  <1>1. 0 \in S
    <2>1. In(0) = {}
      BY DEF InCell
    <2>2. SumTo(f, 0) = 0 /\ Total(rows, {}) = 0
      BY SumUnfold, TotalNat
    <2> HIDE DEF In
    <2> QED BY <2>1, <2>2
  <1>2. ASSUME NEW k \in 1 .. L, k - 1 \in S PROVE k \in S
    <2> DEFINE A == In(k - 1)
               B == X \cap InCell(c, {k})
    <2>1. A \in SUBSET Pk /\ B \in SUBSET Pk /\ A \cup B = In(k) /\ A \cap B = {}
      <3>1. 1 .. k = (1 .. k - 1) \cup {k} /\ k \notin 1 .. k - 1
        OBVIOUS
      <3> QED BY <3>1 DEF InCell
    <2>2. \A pk \in A \cup B : rows[pk] \in Nat
      OBVIOUS
    <2>3. f[k] = Total(rows, B) /\ SumTo(f, k - 1) = Total(rows, A)
      BY <1>2 DEF OfCell
    <2>4. SumTo(f, k) = SumTo(f, k - 1) + f[k]
      BY SumUnfold
    <2> HIDE DEF A, B, In
    <2>5. Total(rows, A \cup B) = Total(rows, A) + Total(rows, B)
      BY <2>1, <2>2, TotalSplit
    <2>6. SumTo(f, k) = Total(rows, In(k))
      <3> HIDE DEF S
      <3> QED BY <2>1, <2>3, <2>4, <2>5
    <2> QED BY <2>6
  <1> HIDE DEF S
  <1>3. \A i \in 0 .. L : i \in S
    BY <1>1, <1>2, Climb
  <1>4. In(L) = OfCells(c, X, L)
    BY DEF OfCells
  <1> HIDE DEF In
  <1> QED BY <1>3, <1>4 DEF S

-----------------------------------------------------------------------------
\* Objects that keep their home

\* The object o becomes p, with L LRU cells and n pending ones: it stays where it is, it moves
\* from an LRU cell to the innermost pending one, or no LRU cell counts it before and after.
Stays(o, p, L, n) ==
    \/ p.cell = o.cell /\ p.prev = o.prev
    \/ n > 0 /\ 1 <= o.cell /\ o.cell <= L /\ p.cell = L + n /\ p.prev = o.cell
    \/ /\ HomeOf(o, L) = NoCell /\ p.prev = NoCell
       /\ p.cell = NoCell \/ p.cell = SystemCell \/ (L < p.cell /\ p.cell <= L + n)

Staged(p, L) ==
    /\ p.stage = "Deleted" => p.cell > L
    /\ p.stage = "Released" => p.cell = NoCell

\* The place of an object that stays
LEMMA StaysHome ==
    ASSUME NEW o \in Objects, NEW p \in Objects, NEW L \in Nat, NEW n \in Nat,
           ShapeOf(o, L, n), Stays(o, p, L, n), Staged(p, L)
    PROVE  ShapeOf(p, L, n) /\ HomeOf(p, L) = HomeOf(o, L)
  <1>1. o.cell \in Int /\ p.cell \in Int /\ o.prev \in Int /\ p.prev \in Int
    BY DEF Objects
  <1>2. CASE p.cell = o.cell /\ p.prev = o.prev
    BY <1>1, <1>2 DEF ShapeOf, Staged, HomeOf, NoCell
  <1>3. CASE n > 0 /\ 1 <= o.cell /\ o.cell <= L /\ p.cell = L + n /\ p.prev = o.cell
    BY <1>1, <1>3 DEF ShapeOf, Staged, HomeOf, NoCell
  <1>4. CASE /\ HomeOf(o, L) = NoCell /\ p.prev = NoCell
             /\ p.cell = NoCell \/ p.cell = SystemCell \/ (L < p.cell /\ p.cell <= L + n)
    BY <1>1, <1>4 DEF ShapeOf, Staged, HomeOf, NoCell, SystemCell
  <1> QED BY <1>2, <1>3, <1>4 DEF Stays

\* Two moves make one.
LEMMA StaysTrans ==
    ASSUME NEW o \in Objects, NEW p \in Objects, NEW q \in Objects, NEW L \in Nat, NEW n \in Nat,
           ShapeOf(o, L, n), Stays(o, p, L, n), Stays(p, q, L, n)
    PROVE  Stays(o, q, L, n)
  <1>1. /\ o.cell \in Int /\ p.cell \in Int /\ q.cell \in Int
        /\ o.prev \in Int /\ p.prev \in Int /\ q.prev \in Int
    BY DEF Objects
  <1>2. CASE p.cell = o.cell /\ p.prev = o.prev
    BY <1>1, <1>2 DEF Stays, HomeOf
  <1>3. CASE n > 0 /\ 1 <= o.cell /\ o.cell <= L /\ p.cell = L + n /\ p.prev = o.cell
    BY <1>1, <1>3 DEF Stays, HomeOf, NoCell
  <1>4. CASE /\ HomeOf(o, L) = NoCell /\ p.prev = NoCell
             /\ p.cell = NoCell \/ p.cell = SystemCell \/ (L < p.cell /\ p.cell <= L + n)
    BY <1>1, <1>4 DEF Stays, HomeOf, NoCell, SystemCell
  <1> QED BY <1>2, <1>3, <1>4 DEF Stays

\* Nothing of the sizes changes, and each object stays; those removed are among X.
Slides(c, d, X) ==
    /\ d.lru = c.lru /\ d.ram_used = c.ram_used /\ d.pending = c.pending
    /\ \A q \in Pk : Stays(c.obj[q], d.obj[q], Len(c.lru), c.pending) /\ Staged(d.obj[q], Len(c.lru))
    /\ \A q \in Pk \ X : d.obj[q].stage = "Deleted" /\ Home(d, q) # NoCell => c.obj[q].stage = "Deleted"

\* Types of the parts of a cache
LEMMA CacheParts ==
    ASSUME NEW c, CacheType(c)
    PROVE  /\ Len(c.lru) \in Nat /\ DOMAIN c.lru = 1 .. Len(c.lru) /\ c.pending \in Nat
           /\ c.obj \in [Pk -> Objects]
           /\ \A q \in Pk : c.obj[q] \in Objects /\ c.obj[q].cell \in Int /\ c.obj[q].prev \in Int
                            /\ c.obj[q].row \in Nat
  <1>1. Len(c.lru) \in Nat /\ DOMAIN c.lru = 1 .. Len(c.lru)
    BY SeqFacts DEF CacheType
  <1>2. c.pending \in Nat /\ c.obj \in [Pk -> Objects]
    BY DEF CacheType
  <1>3. \A q \in Pk : c.obj[q] \in Objects
    BY <1>2
  <1> QED BY <1>1, <1>2, <1>3 DEF Objects

\* Sliding keeps shapes and homes.
LEMMA SlidesShaped ==
    ASSUME NEW c, CacheType(c), Shaped(c), NEW d, CacheType(d), NEW X, Slides(c, d, X)
    PROVE  Shaped(d) /\ \A q \in Pk : Home(d, q) = Home(c, q)
  <1>1. ASSUME NEW q \in Pk
        PROVE  /\ ShapeOf(d.obj[q], Len(d.lru), d.pending)
               /\ HomeOf(d.obj[q], Len(d.lru)) = HomeOf(c.obj[q], Len(c.lru))
    <2>1. /\ c.obj[q] \in Objects /\ d.obj[q] \in Objects /\ Len(c.lru) \in Nat /\ c.pending \in Nat
      BY CacheParts
    <2>2. /\ ShapeOf(c.obj[q], Len(c.lru), c.pending)
          /\ Stays(c.obj[q], d.obj[q], Len(c.lru), c.pending) /\ Staged(d.obj[q], Len(c.lru))
      BY DEF Shaped, Slides
    <2>3. Len(d.lru) = Len(c.lru) /\ d.pending = c.pending
      BY DEF Slides
    <2> QED BY <2>1, <2>2, <2>3, StaysHome
  <1>2. d.lru \in Seq(Int) /\ d.ram_used \in Int
    BY DEF Shaped, Slides
  <1> QED BY <1>1, <1>2 DEF Shaped, Home

\* Sliding twice
LEMMA SlidesTrans ==
    ASSUME NEW c, CacheType(c), Shaped(c), NEW d, CacheType(d), NEW X, Slides(c, d, X),
           NEW e, CacheType(e), NEW Y, Slides(d, e, Y)
    PROVE  Slides(c, e, X \cup Y)
  <1>1. Shaped(d) /\ \A q \in Pk : Home(d, q) = Home(c, q)
    BY SlidesShaped
  <1>2. \A q \in Pk : Home(e, q) = Home(d, q)
    BY <1>1, SlidesShaped
  <1>3. /\ d.lru = c.lru /\ d.ram_used = c.ram_used /\ d.pending = c.pending
        /\ e.lru = c.lru /\ e.ram_used = c.ram_used /\ e.pending = c.pending
    BY DEF Slides
  <1>4. ASSUME NEW q \in Pk
        PROVE  Stays(c.obj[q], e.obj[q], Len(c.lru), c.pending) /\ Staged(e.obj[q], Len(c.lru))
    <2>1. c.obj[q] \in Objects /\ d.obj[q] \in Objects /\ e.obj[q] \in Objects
      BY CacheParts
    <2>2. Len(c.lru) \in Nat /\ c.pending \in Nat /\ ShapeOf(c.obj[q], Len(c.lru), c.pending)
      BY CacheParts DEF Shaped
    <2>3. /\ Stays(c.obj[q], d.obj[q], Len(c.lru), c.pending)
          /\ Stays(d.obj[q], e.obj[q], Len(c.lru), c.pending) /\ Staged(e.obj[q], Len(c.lru))
      BY <1>3 DEF Slides
    <2> QED BY <2>1, <2>2, <2>3, StaysTrans
  <1>5. ASSUME NEW q \in Pk, q \notin X \cup Y, e.obj[q].stage = "Deleted", Home(e, q) # NoCell
        PROVE  c.obj[q].stage = "Deleted"
    BY <1>2, <1>5 DEF Slides
  <1> QED BY <1>3, <1>4, <1>5 DEF Slides

\* Objects, cells and sizes are the same.
Alike(c, d) == d.obj = c.obj /\ d.lru = c.lru /\ d.ram_used = c.ram_used /\ d.pending = c.pending

LEMMA AlikeSlides ==
    ASSUME NEW c, Shaped(c), NEW d, Alike(c, d)
    PROVE  Slides(c, d, {})
  BY DEF Alike, Slides, Stays, Staged, Shaped, ShapeOf

-----------------------------------------------------------------------------
\* Objects in pending cells change without a size

\* The object is in an LRU cell.
InLru(o, L) == 1 <= o.cell /\ o.cell <= L

\* Sizes do not change.
SameSizes(c, d) == d.lru = c.lru /\ d.ram_used = c.ram_used /\ d.pending = c.pending

\* Where an object goes
LEMMA AddPendingAt ==
    ASSUME NEW c, CacheType(c), NEW pk \in Pk
    PROVE  LET d == add_pending_object(c, pk)
               o == c.obj[pk]
               L == Len(c.lru)
           IN  /\ SameSizes(c, d)
               /\ c.pending > 0 /\ 0 <= o.cell /\ o.cell <= L =>
                     d.obj[pk].cell = L + c.pending /\ d.obj[pk].prev = o.cell
               /\ ~ (c.pending > 0 /\ 0 <= o.cell /\ o.cell <= L) => d.obj[pk] = o
  <1> DEFINE d == add_pending_object(c, pk)
             L == Len(c.lru)
             o == c.obj[pk]
             k == L + c.pending
             n == [o EXCEPT !.cell = k, !.prev = o.cell]
  <1>1. L \in Nat /\ DOMAIN c.lru = 1 .. L /\ c.pending \in Nat /\ o \in Objects /\ k \in Int
    BY SeqFacts DEF CacheType
  <1>2. o.cell \in Int
    BY <1>1 DEF Objects
  <1>3. (has_pending_cell(c) /\ o.cell \in {NoCell} \union DOMAIN c.lru)
            <=> (c.pending > 0 /\ 0 <= o.cell /\ o.cell <= L)
    BY <1>1, <1>2 DEF has_pending_cell, NoCell
  <1>4. CASE c.pending > 0 /\ 0 <= o.cell /\ o.cell <= L
    <2>1. d = [c EXCEPT !.obj = [c.obj EXCEPT ![pk] = n]]
      BY <1>3, <1>4 DEF add_pending_object, CacheType
    <2> HIDE DEF k, d
    <2>2. n.cell = k /\ n.prev = o.cell
      <3>1. n = [o EXCEPT !.cell = k, !.prev = o.cell]
        OBVIOUS
      <3> HIDE DEF n, o
      <3> QED BY <1>1, <3>1 DEF Objects
    <2> HIDE DEF n
    <2>3. d.obj[pk] = n /\ SameSizes(c, d)
      BY <2>1 DEF CacheType, SameSizes
    <2> QED BY <1>4, <2>2, <2>3 DEF d, k
  <1>5. CASE ~ (c.pending > 0 /\ 0 <= o.cell /\ o.cell <= L)
    <2>1. d = c
      BY <1>3, <1>5 DEF add_pending_object
    <2> QED BY <1>5, <2>1 DEF SameSizes
  <1> QED BY <1>4, <1>5

\* An object moves to a pending cell, or stays.
LEMMA PendingStays ==
    ASSUME NEW c, CacheType(c), Shaped(c), NEW pk \in Pk
    PROVE  LET p == add_pending_object(c, pk).obj[pk]
               L == Len(c.lru)
           IN  /\ Stays(c.obj[pk], p, L, c.pending)
               /\ c.obj[pk].stage = "Deleted" => p.cell > L
               /\ c.pending > 0 => ~ InLru(p, L) /\ p.cell # NoCell
  <1> DEFINE p == add_pending_object(c, pk).obj[pk]
             L == Len(c.lru)
             o == c.obj[pk]
  <1>1. L \in Nat /\ c.pending \in Nat /\ o.cell \in Int /\ o.prev \in Int
    BY CacheParts
  <1>2. /\ c.pending > 0 /\ 0 <= o.cell /\ o.cell <= L => p.cell = L + c.pending /\ p.prev = o.cell
        /\ ~ (c.pending > 0 /\ 0 <= o.cell /\ o.cell <= L) => p = o
    BY AddPendingAt
  <1>3. ShapeOf(o, L, c.pending)
    BY DEF Shaped
  <1> HIDE DEF p, o, L
  <1>4. Stays(o, p, L, c.pending)
    BY <1>1, <1>2, <1>3 DEF Stays, HomeOf, ShapeOf, NoCell
  <1>5. o.stage = "Deleted" => p.cell > L
    BY <1>1, <1>2, <1>3 DEF ShapeOf
  <1>6. c.pending > 0 => ~ InLru(p, L) /\ p.cell # NoCell
    BY <1>1, <1>2 DEF InLru, NoCell
  <1> QED BY <1>4, <1>5, <1>6 DEF p, o, L

\* set_object of an object that is in no LRU cell changes no size.
LEMMA SetObjectAt ==
    ASSUME NEW c, CacheType(c), NEW pk \in Pk, NEW row \in Nat
    PROVE  LET d == set_object(c, pk, row)
           IN  /\ ~ InLru(c.obj[pk], Len(c.lru)) => SameSizes(c, d)
               /\ d.obj[pk].prev = c.obj[pk].prev
  <1> DEFINE e == add_ram_usage(c, c.obj[pk].cell, row - c.obj[pk].row)
             n == [c.obj[pk] EXCEPT !.row = row]
             d == set_object(c, pk, row)
  <1>1. CacheType(e) /\ e.obj = c.obj /\ e.pending = c.pending
    BY AddRam
  <1>2. ~ InLru(c.obj[pk], Len(c.lru)) => e = c
    <2>1. c.obj[pk].cell \in Int /\ DOMAIN c.lru = 1 .. Len(c.lru) /\ Len(c.lru) \in Nat
      BY CacheParts
    <2> QED BY <2>1 DEF add_ram_usage, InLru
  <1>3. d = [e EXCEPT !.obj[pk].row = row]
    BY DEF set_object
  <1> HIDE DEF e, d
  <1>4. n.prev = c.obj[pk].prev
    BY DEF CacheType, Objects
  <1>5. d = [e EXCEPT !.obj = [c.obj EXCEPT ![pk] = n]]
    BY <1>1, <1>3
  <1> HIDE DEF n
  <1>6. d.obj[pk] = n /\ d.lru = e.lru /\ d.ram_used = e.ram_used /\ d.pending = e.pending
    BY <1>1, <1>5 DEF CacheType
  <1> QED BY <1>2, <1>4, <1>6 DEF SameSizes, d

\* One object changes and stays.
LEMMA OneSlides ==
    ASSUME NEW c, CacheType(c), Shaped(c), NEW d, NEW pk \in Pk, SameSizes(c, d),
           \A q \in Pk \ {pk} : d.obj[q] = c.obj[q],
           Stays(c.obj[pk], d.obj[pk], Len(c.lru), c.pending), Staged(d.obj[pk], Len(c.lru)),
           NEW X, d.obj[pk].stage = "Deleted" => pk \in X \/ c.obj[pk].stage = "Deleted"
    PROVE  Slides(c, d, X)
  <1>1. \A q \in Pk : Staged(c.obj[q], Len(c.lru))
    BY DEF Shaped, ShapeOf, Staged
  <1>2. \A q \in Pk \ {pk} : Stays(c.obj[q], d.obj[q], Len(c.lru), c.pending) /\ Staged(d.obj[q], Len(c.lru))
    BY <1>1 DEF Stays
  <1>3. \A q \in Pk \ X : d.obj[q].stage = "Deleted" => c.obj[q].stage = "Deleted"
    OBVIOUS
  <1> QED BY <1>2, <1>3 DEF Slides, SameSizes

\* A read of a cached object
LEMMA FindSlides ==
    ASSUME NEW c, CacheType(c), Shaped(c), NEW pk \in Pk
    PROVE  LET d == find(c, pk)
           IN  /\ Slides(c, d, {})
               /\ Cached(c, pk) /\ c.pending > 0 => ~ InLru(d.obj[pk], Len(c.lru))
  <1> DEFINE d == find(c, pk)
  <1>1. CASE ~ Cached(c, pk)
    <2>1. d = c
      BY <1>1 DEF find
    <2> QED BY <1>1, <2>1, AlikeSlides DEF Alike
  <1>2. CASE Cached(c, pk)
    <2>1. d = add_pending_object(c, pk)
      BY <1>2 DEF find
    <2> HIDE DEF d
    <2>2. SameSizes(c, d) /\ \A q \in Pk \ {pk} : d.obj[q] = c.obj[q]
      BY <2>1, AddPendingAt, AddPending
    <2>3. d.obj[pk].stage = "Active"
      BY <1>2, <2>1, AddPending DEF Cached
    <2>4. /\ Stays(c.obj[pk], d.obj[pk], Len(c.lru), c.pending)
          /\ c.pending > 0 => ~ InLru(d.obj[pk], Len(c.lru))
      BY <2>1, PendingStays
    <2>5. Staged(d.obj[pk], Len(c.lru))
      BY <2>3 DEF Staged
    <2>6. Slides(c, d, {})
      BY <2>2, <2>3, <2>4, <2>5, OneSlides
    <2> QED BY <2>4, <2>6 DEF d
  <1> QED BY <1>1, <1>2

\* The row enters a cell.
LEMMA PlacedAt ==
    ASSUME NEW c, CacheType(c), Placement(c), Shaped(c), NEW pk \in Pk
    PROVE  LET d == Placed(c, pk)
               p == d.obj[pk]
               L == Len(c.lru)
           IN  /\ CacheType(d) /\ SameSizes(c, d)
               /\ Stays(c.obj[pk], p, L, c.pending) /\ p.stage = c.obj[pk].stage
               /\ p.stage = "Deleted" => p.cell > L
               /\ p.stage = "Released" \/ p.stage = "Active" \/ p.stage = "Deleted"
               /\ c.pending > 0 \/ ~ Cached(c, pk) => ~ InLru(p, L)
  <1> DEFINE d == Placed(c, pk)
             L == Len(c.lru)
             o == c.obj[pk]
  <1>1. L \in Nat /\ c.pending \in Nat /\ o \in Objects /\ o.cell \in Int
    BY CacheParts
  <1>2. ShapeOf(o, L, c.pending)
    BY DEF Shaped
  <1>3. o.stage = "Released" \/ o.stage = "Active" \/ o.stage = "Deleted"
    BY <1>1 DEF Objects
  <1>4. CASE ~ IsSystem
    <2>1. d = add_pending_object(c, pk)
      BY <1>4 DEF Placed
    <2> HIDE DEF d
    <2>2. CacheType(d) /\ d.obj[pk].stage = o.stage
      BY <2>1, AddPending
    <2>3. /\ SameSizes(c, d)
          /\ ~ (c.pending > 0 /\ 0 <= o.cell /\ o.cell <= L) => d.obj[pk] = o
      BY <2>1, AddPendingAt
    <2>4. /\ Stays(o, d.obj[pk], L, c.pending)
          /\ o.stage = "Deleted" => d.obj[pk].cell > L
          /\ c.pending > 0 => ~ InLru(d.obj[pk], L)
      BY <2>1, PendingStays
    <2>5. ASSUME ~ (c.pending > 0), ~ Cached(c, pk) PROVE ~ InLru(d.obj[pk], L)
      <3>1. d.obj[pk] = o
        BY <2>3, <2>5
      <3>2. o.cell = NoCell \/ o.cell > L
        BY <1>2, <1>3, <2>5 DEF ShapeOf, Cached
      <3> HIDE DEF o
      <3> QED BY <1>1, <3>1, <3>2 DEF InLru, NoCell
    <2> QED BY <1>3, <2>2, <2>3, <2>4, <2>5 DEF d
  <1>5. CASE IsSystem /\ o.stage = "Released"
    <2> DEFINE n == [o EXCEPT !.cell = SystemCell]
    <2>1. d = [c EXCEPT !.obj = [c.obj EXCEPT ![pk] = n]]
      BY <1>5 DEF Placed
    <2>2. n \in Objects /\ n.stage = o.stage /\ n.cell = SystemCell /\ n.prev = o.prev
      BY <1>1 DEF Objects, SystemCell
    <2>3. o.cell = NoCell /\ o.prev = NoCell
      BY <1>1, <1>2, <1>5 DEF ShapeOf, NoCell
    <2> HIDE DEF n, d
    <2>4. CacheType(d) /\ SameSizes(c, d) /\ d.obj = [c.obj EXCEPT ![pk] = n]
      BY <2>1, <2>2 DEF CacheType, SameSizes
    <2>5. d.obj[pk] = n
      BY <2>4 DEF CacheType
    <2> HIDE DEF o
    <2>6. Stays(o, n, L, c.pending)
      BY <1>1, <2>2, <2>3 DEF Stays, HomeOf, NoCell
    <2>7. ~ InLru(n, L)
      BY <2>2 DEF InLru, SystemCell
    <2> QED BY <1>5, <2>2, <2>4, <2>5, <2>6, <2>7 DEF d, o
  <1>6. CASE IsSystem /\ o.stage # "Released"
    <2>1. d = c
      BY <1>6 DEF Placed
    <2>2. o.cell = SystemCell /\ o.stage = "Active"
      BY <1>6 DEF Placement
    <2> HIDE DEF d
    <2>3. ~ InLru(o, L)
      BY <2>2 DEF InLru, SystemCell
    <2> QED BY <2>1, <2>2, <2>3 DEF d, SameSizes, Stays
  <1> QED BY <1>4, <1>5, <1>6

\* What emplace does to the place of an object
EmplacedAt(c, d, pk) ==
    /\ Stays(c.obj[pk], d.obj[pk], Len(c.lru), c.pending)
    /\ Staged(d.obj[pk], Len(c.lru)) /\ d.obj[pk].stage # "Deleted"
    /\ c.pending > 0 \/ ~ Cached(c, pk) => SameSizes(c, d) /\ ~ InLru(d.obj[pk], Len(c.lru))

LEMMA EmplaceAt ==
    ASSUME NEW c, CacheType(c), Placement(c), Shaped(c), NEW pk \in Pk, NEW row \in Nat
    PROVE  EmplacedAt(c, emplace(c, pk, row), pk)
  <1> DEFINE c0 == [c EXCEPT !.service = IF @ = "none" THEN "made" ELSE @]
             c1 == Placed(c0, pk)
             c2 == [c1 EXCEPT !.obj[pk].stage = "Active"]
             d == emplace(c, pk, row)
             L == Len(c.lru)
             p == c1.obj[pk]
  <1>1. CacheType(c0) /\ Alike(c, c0)
    BY DEF CacheType, Alike
  <1> HIDE DEF c0
  <1>2. Placement(c0) /\ Shaped(c0) /\ (Cached(c0, pk) <=> Cached(c, pk))
    BY <1>1 DEF Placement, Shaped, Cached, Alike
  <1>3. /\ CacheType(c1) /\ SameSizes(c, c1)
        /\ Stays(c.obj[pk], p, L, c.pending) /\ p.stage = c.obj[pk].stage
        /\ p.stage = "Deleted" => p.cell > L
        /\ p.stage = "Released" \/ p.stage = "Active" \/ p.stage = "Deleted"
        /\ c.pending > 0 \/ ~ Cached(c, pk) => ~ InLru(p, L)
    <2>1. c0.obj = c.obj /\ c0.lru = c.lru /\ c0.ram_used = c.ram_used /\ c0.pending = c.pending
      BY <1>1 DEF Alike
    <2>2. /\ CacheType(c1) /\ SameSizes(c0, c1)
          /\ Stays(c0.obj[pk], p, Len(c0.lru), c0.pending) /\ p.stage = c0.obj[pk].stage
          /\ p.stage = "Deleted" => p.cell > Len(c0.lru)
          /\ p.stage = "Released" \/ p.stage = "Active" \/ p.stage = "Deleted"
          /\ c0.pending > 0 \/ ~ Cached(c0, pk) => ~ InLru(p, Len(c0.lru))
      BY <1>1, <1>2, PlacedAt
    <2> HIDE DEF c1
    <2> QED BY <1>2, <2>1, <2>2 DEF SameSizes
  <1> HIDE DEF c1
  <1>4. L \in Nat /\ p \in Objects
    BY <1>3, CacheParts
  <1>5. CASE p.cell = NoCell
    <2>1. d = c1
      BY <1>5 DEF emplace, c1, c0
    <2>2. p.stage # "Deleted"
      BY <1>3, <1>4, <1>5 DEF NoCell
    <2> HIDE DEF d
    <2> QED BY <1>3, <1>5, <2>1, <2>2 DEF EmplacedAt, Staged, d
  <1>6. CASE p.cell # NoCell
    <2> DEFINE n == [p EXCEPT !.stage = "Active"]
    <2>1. n \in Objects /\ n.stage = "Active" /\ n.cell = p.cell /\ n.prev = p.prev
      BY <1>4 DEF Objects
    <2>2. c2 = [c1 EXCEPT !.obj = [c1.obj EXCEPT ![pk] = n]]
      OBVIOUS
    <2>3. d = IF row = NoRow THEN c2 ELSE set_object(c2, pk, row)
      BY <1>6 DEF emplace, c1, c0
    <2> HIDE DEF n, c2, d
    <2>4. CacheType(c2) /\ SameSizes(c, c2) /\ c2.obj[pk] = n
      <3>1. CacheType(c2) /\ SameSizes(c1, c2) /\ c2.obj = [c1.obj EXCEPT ![pk] = n]
        BY <1>3, <2>1, <2>2 DEF CacheType, SameSizes
      <3>2. c2.obj[pk] = n
        BY <1>3, <3>1 DEF CacheType
      <3> QED BY <1>3, <3>1, <3>2 DEF SameSizes
    <2>5. /\ d.obj[pk].stage = "Active" /\ d.obj[pk].cell = p.cell /\ d.obj[pk].prev = p.prev
          /\ ~ InLru(p, L) => SameSizes(c, d)
      <3>1. CASE row = NoRow
        BY <2>1, <2>3, <2>4, <3>1
      <3>2. CASE row # NoRow
        <4>1. d = set_object(c2, pk, row)
          BY <2>3, <3>2
        <4>2. /\ d.obj[pk].stage = c2.obj[pk].stage /\ d.obj[pk].cell = c2.obj[pk].cell
          BY <2>4, <4>1, SetObject
        <4>3. /\ ~ InLru(c2.obj[pk], Len(c2.lru)) => SameSizes(c2, d)
              /\ d.obj[pk].prev = c2.obj[pk].prev
          BY <2>4, <4>1, SetObjectAt
        <4>4. InLru(c2.obj[pk], Len(c2.lru)) <=> InLru(p, L)
          BY <2>1, <2>4 DEF InLru, SameSizes
        <4> QED BY <2>1, <2>4, <4>2, <4>3, <4>4 DEF SameSizes
      <3> QED BY <3>1, <3>2
    <2> DEFINE e == d.obj[pk]
    <2>6. e.stage = "Active" /\ e.cell = p.cell /\ e.prev = p.prev
      BY <2>5
    <2> HIDE DEF e, p
    <2>7. Stays(c.obj[pk], e, L, c.pending)
      BY <1>3, <2>6 DEF Stays
    <2>8. InLru(e, L) <=> InLru(p, L)
      BY <2>6 DEF InLru
    <2>9. Staged(e, L)
      BY <2>6 DEF Staged
    <2> QED BY <1>3, <2>5, <2>6, <2>7, <2>8, <2>9 DEF EmplacedAt, e, d
  <1> QED BY <1>5, <1>6

\* A row enters the cache, and no size changes.
LEMMA EmplaceSlides ==
    ASSUME NEW c, CacheType(c), Placement(c), Shaped(c), NEW pk \in Pk, NEW row \in Nat,
           c.pending > 0 \/ ~ Cached(c, pk)
    PROVE  LET d == emplace(c, pk, row)
           IN  Slides(c, d, {}) /\ ~ InLru(d.obj[pk], Len(c.lru))
  <1> DEFINE d == emplace(c, pk, row)
  <1>1. EmplacedAt(c, d, pk)
    BY EmplaceAt
  <1>2. \A q \in Pk \ {pk} : d.obj[q] = c.obj[q]
    BY EmplaceFacts DEF Enters
  <1> HIDE DEF d
  <1>3. /\ Stays(c.obj[pk], d.obj[pk], Len(c.lru), c.pending)
        /\ Staged(d.obj[pk], Len(c.lru)) /\ d.obj[pk].stage # "Deleted"
        /\ SameSizes(c, d) /\ ~ InLru(d.obj[pk], Len(c.lru))
    BY <1>1 DEF EmplacedAt
  <1>4. Slides(c, d, {})
    BY <1>2, <1>3, OneSlides
  <1> QED BY <1>3, <1>4 DEF d

\* Forgotten lookups and services are not about objects or sizes.
LEMMA ServiceAlike ==
    ASSUME NEW c, CacheType(c)
    PROVE  Alike(c, EraseService(c)) /\ Alike(c, clear_unsuccess(c))
  BY DEF EraseService, clear_unsuccess, Alike, CacheType

\* What remove_cache_object does to the place of an object
RemovedAt(c, d, pk) ==
    /\ Staged(d.obj[pk], Len(c.lru))
    /\ c.pending > 0 => Stays(c.obj[pk], d.obj[pk], Len(c.lru), c.pending)
    /\ ~ (c.pending > 0) => d.obj[pk] = Released
    /\ ~ InLru(c.obj[pk], Len(c.lru)) => SameSizes(c, d) /\ ~ InLru(d.obj[pk], Len(c.lru))

LEMMA RemoveCacheAt ==
    ASSUME NEW c, CacheType(c), Placement(c), Shaped(c), NEW pk \in Pk, Cached(c, pk)
    PROVE  RemovedAt(c, remove_cache_object(c, pk), pk)
  <1> DEFINE o == c.obj[pk]
             L == Len(c.lru)
             e == add_ram_usage(c, o.cell, - o.row)
             r == release_cache_object(c, pk)
             d == remove_cache_object(c, pk)
             gone == [o EXCEPT !.stage = "Released"]
             lookups == [p \in Pk |-> IF c.unsuccess[p] = pk THEN Unset ELSE c.unsuccess[p]]
  <1>1. CacheType(e) /\ e.obj = c.obj /\ e.pending = c.pending /\ e.unsuccess = c.unsuccess
    BY AddRam
  <1>2. L \in Nat /\ c.pending \in Nat /\ o \in Objects /\ o.cell \in Int /\ DOMAIN c.lru = 1 .. L
    BY CacheParts
  <1>3. ~ InLru(o, L) => e = c
    BY <1>2 DEF add_ram_usage, InLru
  <1>4. Len(e.lru) = L
    <2>1. DOMAIN e.lru = DOMAIN c.lru
      BY DEF add_ram_usage, CacheType
    <2>2. Len(e.lru) \in Nat /\ 1 .. Len(e.lru) = 1 .. L
      BY <1>1, <1>2, <2>1, CacheParts
    <2> HIDE DEF e, L
    <2> QED BY <1>2, <2>2
  <1>5. /\ gone \in Objects /\ gone.stage = "Released" /\ gone.cell = o.cell /\ gone.prev = o.prev
    BY <1>2 DEF Objects
  <1>6. lookups \in [Pk -> Int]
    BY DEF CacheType, Unset
  <1>7. r = [e EXCEPT !.obj = [c.obj EXCEPT ![pk] = gone], !.unsuccess = lookups]
    BY <1>1 DEF release_cache_object, Cached
  <1> HIDE DEF e, r, gone, lookups
  <1>8. CacheType(r) /\ r.obj = [c.obj EXCEPT ![pk] = gone] /\ SameSizes(e, r)
    BY <1>1, <1>5, <1>6, <1>7 DEF CacheType, SameSizes
  <1>9. r.obj[pk] = gone
    BY <1>8 DEF CacheType
  <1>10. ShapeOf(o, L, c.pending)
    BY DEF Shaped
  <1>11. Len(r.lru) = L /\ r.pending = c.pending
    BY <1>1, <1>4, <1>8 DEF SameSizes
  <1>12. CASE ~ has_pending_cell(c) \/ o.cell = SystemCell
    <2> DEFINE f == [r EXCEPT !.obj[pk] = Released]
    <2>1. d = EraseService(f)
      BY <1>12 DEF remove_cache_object, Reset, r
    <2>2. Released \in Objects /\ Released.stage = "Released" /\ Released.cell = NoCell /\ Released.prev = NoCell
      BY DEF Released, Objects, NoRow, NoCell
    <2>3. f = [r EXCEPT !.obj = [r.obj EXCEPT ![pk] = Released]]
      OBVIOUS
    <2> HIDE DEF f, d
    <2>4. CacheType(f) /\ f.obj = [r.obj EXCEPT ![pk] = Released] /\ SameSizes(r, f)
      BY <1>8, <2>2, <2>3 DEF CacheType, SameSizes
    <2>5. f.obj[pk] = Released
      BY <1>8, <2>4 DEF CacheType
    <2>6. Alike(f, d)
      BY <2>1, <2>4, ServiceAlike
    <2>7. d.obj[pk] = Released /\ SameSizes(e, d)
      BY <1>8, <2>4, <2>5, <2>6 DEF Alike, SameSizes
    <2> DEFINE p == Released
    <2>8. p.cell = NoCell /\ p.prev = NoCell /\ p.stage = "Released" /\ d.obj[pk] = p
      BY <2>2, <2>7
    <2> HIDE DEF p, o
    <2>9. c.pending > 0 => Stays(o, p, L, c.pending)
      <3>1. c.pending > 0 => o.cell = SystemCell
        BY <1>12 DEF has_pending_cell
      <3> QED BY <1>2, <2>8, <3>1 DEF Stays, HomeOf, NoCell, SystemCell
    <2>10. Staged(p, L) /\ ~ InLru(p, L)
      BY <1>2, <2>8 DEF Staged, InLru, NoCell
    <2> QED BY <1>3, <2>7, <2>8, <2>9, <2>10 DEF RemovedAt, d, o
  <1>13. CASE has_pending_cell(c) /\ o.cell # SystemCell
    <2> DEFINE n == [gone EXCEPT !.stage = "Deleted"]
               f == [r EXCEPT !.obj[pk].stage = "Deleted"]
               p == d.obj[pk]
    <2>1. d = add_pending_object(f, pk)
      BY <1>13 DEF remove_cache_object, r
    <2>2. n \in Objects /\ n.stage = "Deleted" /\ n.cell = o.cell /\ n.prev = o.prev
      BY <1>5 DEF Objects
    <2>3. f = [r EXCEPT !.obj = [r.obj EXCEPT ![pk] = n]]
      BY <1>9
    <2> HIDE DEF f, d, n
    <2>4. CacheType(f) /\ f.obj = [r.obj EXCEPT ![pk] = n] /\ SameSizes(r, f)
      BY <1>8, <2>2, <2>3 DEF CacheType, SameSizes
    <2>5. f.obj[pk] = n /\ Len(f.lru) = L /\ f.pending = c.pending
      BY <1>8, <1>11, <2>4 DEF CacheType, SameSizes
    <2>6. /\ SameSizes(f, d) /\ p.stage = n.stage
          /\ c.pending > 0 /\ 0 <= n.cell /\ n.cell <= L => p.cell = L + c.pending /\ p.prev = n.cell
          /\ ~ (c.pending > 0 /\ 0 <= n.cell /\ n.cell <= L) => p = n
      <3>1. CacheType(f)
        BY <2>4
      <3> QED BY <2>1, <2>5, <3>1, AddPendingAt, AddPending
    <2>7. SameSizes(e, d)
      BY <1>8, <2>4, <2>6 DEF SameSizes
    <2>8. c.pending > 0 /\ o.cell # NoCell /\ o.cell # SystemCell
      BY <1>13 DEF has_pending_cell, Placement
    <2>9. 1 <= o.cell /\ o.cell <= L + c.pending
      BY <1>2, <1>10, <2>8 DEF ShapeOf, NoCell, SystemCell
    <2> HIDE DEF p, o
    <2>10. Stays(o, p, L, c.pending) /\ p.cell > L
      BY <1>2, <2>2, <2>6, <2>8, <2>9 DEF Stays
    <2>11. Staged(p, L)
      BY <2>2, <2>6, <2>10 DEF Staged
    <2>12. p.cell \in Int
      <3>1. CacheType(f)
        BY <2>4
      <3>2. CacheType(d)
        BY <2>1, <3>1, AddPending
      <3> QED BY <3>2, CacheParts DEF p
    <2>13. ~ InLru(p, L)
      BY <1>2, <2>10, <2>12 DEF InLru
    <2> QED BY <1>3, <2>7, <2>8, <2>10, <2>11, <2>13 DEF RemovedAt, p, o, d
  <1> QED BY <1>12, <1>13

\* A row of a pending cell leaves the cache, and no size changes.
LEMMA RemoveSlides ==
    ASSUME NEW c, CacheType(c), Placement(c), Shaped(c), NEW pk \in Pk, Cached(c, pk), c.pending > 0,
           ~ InLru(c.obj[pk], Len(c.lru))
    PROVE  LET d == remove_cache_object(c, pk)
           IN  Slides(c, d, {pk}) /\ ~ InLru(d.obj[pk], Len(c.lru))
  <1> DEFINE d == remove_cache_object(c, pk)
  <1>1. RemovedAt(c, d, pk)
    BY RemoveCacheAt
  <1>2. \A q \in Pk \ {pk} : d.obj[q] = c.obj[q]
    BY RemoveFacts DEF Leaves
  <1> HIDE DEF d
  <1>3. /\ Stays(c.obj[pk], d.obj[pk], Len(c.lru), c.pending) /\ Staged(d.obj[pk], Len(c.lru))
        /\ SameSizes(c, d) /\ ~ InLru(d.obj[pk], Len(c.lru))
    BY <1>1 DEF RemovedAt
  <1>4. pk \in {pk}
    OBVIOUS
  <1>5. Slides(c, d, {pk})
    BY <1>2, <1>3, <1>4, OneSlides
  <1> QED BY <1>3, <1>5 DEF d

\* A failed lookup is remembered.
LEMMA UnsuccessSlides ==
    ASSUME TypeOK, NEW c, CacheType(c), Placement(c), Shaped(c), NEW pk \in Pk, NEW r,
           r # End => r \in Pk
    PROVE  Slides(c, emplace_unsuccess(c, pk, r), {})
  <1> DEFINE d == emplace_unsuccess(c, pk, r)
  <1>1. CASE ~ has_pending_cell(c) \/ c.service = "none"
    <2>1. d = c
      BY <1>1 DEF emplace_unsuccess
    <2> QED BY <2>1, AlikeSlides DEF Alike
  <1>2. CASE ~ (~ has_pending_cell(c) \/ c.service = "none") /\ r = End
    <2>1. d = [c EXCEPT !.unsuccess = [c.unsuccess EXCEPT ![pk] = End], !.service = "kept"]
      BY <1>2 DEF emplace_unsuccess
    <2>2. Alike(c, d)
      BY <2>1 DEF CacheType, Alike
    <2> QED BY <2>2, AlikeSlides
  <1>3. CASE ~ (~ has_pending_cell(c) \/ c.service = "none") /\ r # End /\ Cached(c, r)
    <2> DEFINE e == find(c, r)
    <2>1. d = [e EXCEPT !.unsuccess = [e.unsuccess EXCEPT ![pk] = r]]
      BY <1>3 DEF emplace_unsuccess
    <2>2. CacheType(e) /\ Slides(c, e, {})
      BY <1>3, FindFacts, FindSlides
    <2> HIDE DEF e, d
    <2>3. Alike(e, d)
      BY <2>1, <2>2 DEF CacheType, Alike
    <2>4. Slides(c, d, {})
      BY <2>2, <2>3 DEF Alike, Slides, Home
    <2> QED BY <2>4 DEF d
  <1>4. CASE ~ (~ has_pending_cell(c) \/ c.service = "none") /\ r # End /\ ~ Cached(c, r)
    <2>1. d = c
      BY <1>4 DEF emplace_unsuccess
    <2> QED BY <2>1, AlikeSlides DEF Alike
  <1> QED BY <1>1, <1>2, <1>3, <1>4

-----------------------------------------------------------------------------
\* Steps that change no size

\* The invariant of the next state, in terms of the next values
LEMMA RamPrimed ==
    ASSUME table' = table, RamOf(cache', db', undo')
    PROVE  RamInv'
  <1>1. Pk' = Pk /\ End' = End
    BY DEF Pk, End
  <1>2. \A i : Homes(cache, i)' = Homes(cache', i)
    BY <1>1 DEF Homes, Home
  <1> QED BY <1>1, <1>2, SMTT(40) DEF RamInv, RamOf, Shaped, Covered, Total, Returns, BaseOf, Summed, Home

\* Objects slide, and the stack learns of those removed.
LEMMA SlidesInv ==
    ASSUME TypeOK, NEW c, CacheType(c), NEW rows, NEW stack, RamOf(c, rows, stack),
           NEW d, CacheType(d), NEW X, Slides(c, d, X), NEW rows2, NEW stack2,
           BaseOf(d, rows2, stack2) = BaseOf(c, rows, stack),
           \A q \in Pk : InLru(d.obj[q], Len(c.lru)) => rows2[q] = rows[q],
           stack2[Len(stack2)].snap = stack[Len(stack)].snap,
           stack[Len(stack)].touched \cup X \subseteq stack2[Len(stack2)].touched,
           stack[Len(stack) - c.pending + 1].touched \subseteq stack2[Len(stack2) - c.pending + 1].touched
    PROVE  RamOf(d, rows2, stack2)
  <1> DEFINE L == Len(c.lru)
             base == BaseOf(c, rows, stack)
  <1>1. Shaped(c) /\ c.pending <= 2 /\ Covered(c, base) /\ Summed(c)
        /\ \A q \in Pk : Returns(c, base, rows, stack, q)
    BY DEF RamOf
  <1>2. Shaped(d) /\ \A q \in Pk : Home(d, q) = Home(c, q)
    BY <1>1, SlidesShaped
  <1>3. d.lru = c.lru /\ d.ram_used = c.ram_used /\ d.pending = c.pending
    BY DEF Slides
  <1>4. Covered(d, base)
    <2>1. \A i : Homes(d, i) = Homes(c, i)
      BY <1>2 DEF Homes
    <2> QED BY <1>1, <1>3, <2>1 DEF Covered
  <1>5. Summed(d)
    BY <1>1, <1>3 DEF Summed
  <1> HIDE DEF base
  <1>6. ASSUME NEW q \in Pk PROVE Returns(d, base, rows2, stack2, q)
    <2> DEFINE o == c.obj[q]
               p == d.obj[q]
    <2> SUFFICES ASSUME Home(c, q) # NoCell
                 PROVE  /\ base[q] # NoRow
                        /\ p.cell <= L => rows2[q] = base[q]
                        /\ c.pending = 2 /\ p.cell # L + 1 => stack2[Len(stack2)].snap[q] = base[q]
                        /\ p.stage = "Deleted" =>
                              \/ q \in stack2[Len(stack2)].touched
                              \/ p.cell = L + 1 /\ q \in stack2[Len(stack2) - c.pending + 1].touched
      BY <1>2, <1>3 DEF Returns
    <2>1. /\ base[q] # NoRow
          /\ o.cell <= L => rows[q] = base[q]
          /\ c.pending = 2 /\ o.cell # L + 1 => stack[Len(stack)].snap[q] = base[q]
          /\ o.stage = "Deleted" =>
                \/ q \in stack[Len(stack)].touched
                \/ o.cell = L + 1 /\ q \in stack[Len(stack) - c.pending + 1].touched
      BY <1>1 DEF Returns
    <2>2. /\ L \in Nat /\ c.pending \in Nat /\ o.cell \in Int /\ p.cell \in Int /\ o.prev \in Int
          /\ p.prev \in Int
      BY CacheParts
    <2>3. Stays(o, p, L, c.pending) /\ HomeOf(o, L) # NoCell /\ HomeOf(p, L) # NoCell
      BY <1>2, <1>3 DEF Slides, Home
    <2>4. q \notin X /\ p.stage = "Deleted" => o.stage = "Deleted"
      BY <1>2 DEF Slides
    <2>5. ShapeOf(o, L, c.pending)
      BY <1>1 DEF Shaped
    <2>6. InLru(p, L) => rows2[q] = rows[q]
      OBVIOUS
    <2> HIDE DEF o, p, L
    <2>7. \/ p.cell = o.cell /\ p.prev = o.prev
          \/ 1 <= o.cell /\ o.cell <= L /\ p.cell > L
      BY <2>2, <2>3 DEF Stays
    <2>8. p.cell <= L => rows2[q] = base[q]
      <3> SUFFICES ASSUME p.cell <= L PROVE rows2[q] = base[q]
        OBVIOUS
      <3>1. InLru(p, L)
        BY <2>2, <2>3 DEF InLru, HomeOf, NoCell
      <3> QED BY <2>1, <2>2, <2>6, <2>7, <3>1
    <2>9. c.pending = 2 /\ p.cell # L + 1 => stack2[Len(stack2)].snap[q] = base[q]
      BY <2>1, <2>2, <2>7
    <2>10. p.stage = "Deleted" =>
              \/ q \in stack2[Len(stack2)].touched
              \/ p.cell = L + 1 /\ q \in stack2[Len(stack2) - c.pending + 1].touched
      <3>1. CASE q \in X
        BY <3>1
      <3>2. CASE q \notin X
        <4>1. p.stage = "Deleted" => o.stage = "Deleted" /\ o.cell > L
          BY <2>4, <2>5, <3>2 DEF ShapeOf
        <4>2. p.stage = "Deleted" => p.cell = o.cell
          BY <2>2, <2>7, <4>1
        <4> QED BY <2>1, <4>1, <4>2
      <3> QED BY <3>1, <3>2
    <2> QED BY <2>1, <2>8, <2>9, <2>10
  <1> QED BY <1>1, <1>2, <1>3, <1>4, <1>5, <1>6 DEF RamOf, base

\* A step that changes the cache alone
LEMMA RamCacheStep ==
    ASSUME IInv, RamInv, UNCHANGED <<table, db, undo>>, CacheType(cache'), Slides(cache, cache', {})
    PROVE  RamInv'
  <1>1. TypeOK /\ CacheType(cache) /\ RamOf(cache, db, undo) /\ db' = db /\ undo' = undo /\ table' = table
    BY DEF IInv, TypeOK, RamInv
  <1>2. BaseOf(cache', db, undo) = BaseOf(cache, db, undo)
    BY DEF BaseOf, Slides
  <1>3. RamOf(cache', db, undo)
    BY <1>1, <1>2, SlidesInv
  <1> QED BY <1>1, <1>3, RamPrimed

\* A step that writes a row, whose object is in no LRU cell after it
LEMMA RamWriteStep ==
    ASSUME IInv, RamInv, NEW pk \in Pk, NEW row \in Nat, Write(pk, row), CacheType(cache'),
           Slides(cache, cache', {pk}), ~ InLru(cache'.obj[pk], Len(cache.lru))
    PROVE  RamInv'
  <1> DEFINE n == Len(undo)
  <1>1. TypeOK /\ CacheType(cache) /\ RamOf(cache, db, undo)
    BY DEF IInv, TypeOK, RamInv
  <1>2. /\ table' = table /\ has_pending_cell(cache)
        /\ \A q \in Pk \ {pk} : db'[q] = db[q]
        /\ Len(undo') = n /\ n \in Nat /\ n > 0
        /\ \A i \in 1 .. n : undo'[i].snap = undo[i].snap
        /\ \A i \in 1 .. n - 1 : undo'[i] = undo[i]
        /\ undo'[n].touched = undo[n].touched \cup {pk}
    BY WriteFacts
  <1>3. cache.pending \in Nat /\ cache.pending > 0 /\ cache.pending <= n
    BY <1>2 DEF IInv, TypeOK, CacheType, has_pending_cell
  <1> HIDE DEF n
  <1> DEFINE m == n - cache.pending + 1
  <1>4. n = Len(undo) /\ n \in 1 .. n /\ m \in 1 .. n /\ (m = n \/ m \in 1 .. n - 1)
    BY <1>2, <1>3 DEF n
  <1> HIDE DEF m
  <1>5. cache'.pending = cache.pending
    BY DEF Slides
  <1>6. BaseOf(cache', db', undo') = BaseOf(cache, db, undo)
    <2>1. BaseOf(cache, db, undo) = undo[m].snap
      BY <1>3, <1>4 DEF BaseOf, m
    <2>2. BaseOf(cache', db', undo') = undo'[m].snap
      BY <1>2, <1>3, <1>5 DEF BaseOf, m
    <2> QED BY <1>2, <1>4, <2>1, <2>2
  <1>7. \A q \in Pk : InLru(cache'.obj[q], Len(cache.lru)) => db'[q] = db[q]
    BY <1>2
  <1>8. /\ undo'[Len(undo')].snap = undo[Len(undo)].snap
        /\ undo[Len(undo)].touched \cup {pk} \subseteq undo'[Len(undo')].touched
    BY <1>2, <1>4
  <1>9. undo[Len(undo) - cache.pending + 1].touched \subseteq undo'[Len(undo') - cache.pending + 1].touched
    <2>1. undo[m].touched \subseteq undo'[m].touched
      BY <1>2, <1>4
    <2> QED BY <1>2, <1>4, <2>1 DEF m
  <1>10. RamOf(cache', db', undo')
    BY <1>1, <1>6, <1>7, <1>8, <1>9, SlidesInv
  <1> QED BY <1>2, <1>10, RamPrimed

-----------------------------------------------------------------------------
\* Reads and writes

\* Sliding between caches that are alike, and with more objects removed
LEMMA SlidesAlike ==
    ASSUME NEW c, NEW d, NEW e, NEW X, NEW Y, X \subseteq Y
    PROVE  /\ Alike(c, d) /\ Slides(d, e, X) => Slides(c, e, Y)
           /\ Slides(c, d, X) /\ Alike(d, e) => Slides(c, e, Y)
  BY DEF Slides, Alike, Home

\* The parts of the invariant about the cache
LEMMA CacheFacts ==
    ASSUME IInv, RamInv
    PROVE  /\ TypeOK /\ CacheType(cache) /\ Placement(cache) /\ Right(cache, db) /\ Shaped(cache)
  BY DEF IInv, TypeOK, RamInv, RamOf

\* A row that exists is loaded.
LEMMA LoadSlides ==
    ASSUME TypeOK, NEW c, CacheType(c), Placement(c), Shaped(c), NEW pk \in Pk, db[pk] # NoRow
    PROVE  LET d == Load(c, pk)
           IN  Slides(c, d, {}) /\ (c.pending > 0 => ~ InLru(d.obj[pk], Len(c.lru)))
  <1> DEFINE d == Load(c, pk)
  <1>1. CASE Cached(c, pk)
    <2>1. d = find(c, pk)
      BY <1>1 DEF Load
    <2> HIDE DEF d
    <2> QED BY <1>1, <2>1, FindSlides DEF d
  <1>2. CASE ~ Cached(c, pk)
    <2>1. d = emplace(c, pk, db[pk]) /\ db[pk] \in Nat
      BY <1>2 DEF Load, TypeOK
    <2> HIDE DEF d
    <2> QED BY <1>2, <2>1, EmplaceSlides DEF d
  <1> QED BY <1>1, <1>2

\* A lookup
LEMMA LowerBoundRam ==
    ASSUME IInv, RamInv, NEW pk \in Pk, lower_bound(pk)
    PROVE  RamInv'
  <1>1. TypeOK /\ CacheType(cache) /\ Placement(cache) /\ Right(cache, db) /\ Shaped(cache)
    BY CacheFacts
  <1>2. UNCHANGED <<table, db, undo>>
    BY DEF lower_bound
  <1>3. CASE Cached(cache, pk)
    <2>1. cache' = find(cache, pk)
      BY <1>3 DEF lower_bound
    <2>2. CacheType(cache') /\ Slides(cache, cache', {})
      BY <1>1, <2>1, FindFacts, FindSlides
    <2> QED BY <1>2, <2>2, RamCacheStep
  <1>4. CASE ~ Cached(cache, pk) /\ (cache.unsuccess[pk] # Unset \/ lower(pk) = pk)
    <2>1. cache' = cache
      BY <1>4 DEF lower_bound
    <2>2. Slides(cache, cache', {})
      BY <1>1, <2>1, AlikeSlides DEF Alike
    <2> QED BY <1>1, <1>2, <2>1, <2>2, RamCacheStep
  <1>5. CASE ~ Cached(cache, pk) /\ ~ (cache.unsuccess[pk] # Unset \/ lower(pk) = pk)
    <2>1. cache' = emplace_unsuccess(cache, pk, lower(pk))
      BY <1>5 DEF lower_bound
    <2>2. FirstFrom(db, pk, lower(pk))
      BY <1>1, LowerFacts
    <2>3. pk \in Nat /\ End \in Nat /\ lower(pk) \in pk .. End
      BY <1>1, <2>2, TableFacts DEF FirstFrom
    <2>4. db[pk] = NoRow
      <3>1. pk \in pk .. lower(pk) - 1
        BY <1>5, <2>3
      <3> QED BY <2>2, <3>1 DEF FirstFrom
    <2>5. lower(pk) # End => lower(pk) \in Pk
      <3>1. lower(pk) \in Nat /\ lower(pk) <= End
        BY <2>3
      <3> QED BY <1>1, <3>1, TableFacts
    <2>6. CacheType(cache')
      BY <1>1, <2>1, <2>2, <2>4, EmplaceUnsuccess
    <2>7. Slides(cache, cache', {})
      BY <1>1, <2>1, <2>5, UnsuccessSlides
    <2> QED BY <1>2, <2>6, <2>7, RamCacheStep
  <1> QED BY <1>3, <1>4, <1>5

\* A read of a row
LEMMA GetRam ==
    ASSUME IInv, RamInv, NEW pk \in Pk, get_cache_object(pk)
    PROVE  RamInv'
  <1>1. TypeOK /\ CacheType(cache) /\ Placement(cache) /\ Right(cache, db) /\ Shaped(cache)
    BY CacheFacts
  <1>2. UNCHANGED <<table, db, undo>> /\ db[pk] # NoRow /\ cache' = Load(cache, pk)
    BY DEF get_cache_object
  <1>3. CacheType(cache') /\ Slides(cache, cache', {})
    BY <1>1, <1>2, LoadFacts, LoadSlides
  <1> QED BY <1>2, <1>3, RamCacheStep

\* A contract inserts a row.
LEMMA InsertRam ==
    ASSUME IInv, RamInv, NEW pk \in Pk, NEW row \in table.sizes, insert(pk, row)
    PROVE  RamInv'
  <1>1. TypeOK /\ CacheType(cache) /\ Placement(cache) /\ Right(cache, db) /\ Shaped(cache)
    BY CacheFacts
  <1>2. row \in Nat /\ db[pk] = NoRow /\ Write(pk, row) /\ cache' = clear_unsuccess(cache)
    BY <1>1, TableFacts DEF insert
  <1>3. CacheType(cache') /\ Alike(cache, cache')
    BY <1>1, <1>2, ClearUnsuccess, ServiceAlike
  <1>4. Slides(cache, cache', {})
    BY <1>1, <1>3, AlikeSlides
  <1>5. Slides(cache, cache', {pk})
    BY <1>4 DEF Slides
  <1>6. ~ InLru(cache'.obj[pk], Len(cache.lru))
    <2>1. Len(cache.lru) \in Nat /\ cache.obj[pk] \in Objects /\ ~ Cached(cache, pk)
      BY <1>1, <1>2, CacheParts DEF Right
    <2>2. cache.obj[pk].stage = "Released" \/ cache.obj[pk].stage = "Deleted"
      BY <2>1 DEF Cached, Objects
    <2>3. cache.obj[pk].cell = NoCell \/ cache.obj[pk].cell > Len(cache.lru)
      BY <1>1, <2>2 DEF Shaped, ShapeOf
    <2>4. ~ InLru(cache.obj[pk], Len(cache.lru))
      <3>1. cache.obj[pk].cell \in Int
        BY <1>1, CacheParts
      <3> QED BY <2>1, <2>3, <3>1 DEF InLru, NoCell
    <2> QED BY <1>3, <2>4 DEF Alike
  <1> QED BY <1>2, <1>3, <1>5, <1>6, RamWriteStep

\* What a write does before it changes the object: the row is loaded.
LEMMA LoadedFacts ==
    ASSUME IInv, RamInv, NEW pk \in Pk, db[pk] # NoRow, has_pending_cell(cache)
    PROVE  LET c == clear_unsuccess(Load(cache, pk))
           IN  /\ CacheType(c) /\ Placement(c) /\ Shaped(c) /\ Cached(c, pk) /\ c.pending > 0
               /\ Slides(cache, c, {}) /\ ~ InLru(c.obj[pk], Len(c.lru)) /\ c.lru = cache.lru
  <1> DEFINE c1 == Load(cache, pk)
             c == clear_unsuccess(c1)
  <1>1. TypeOK /\ CacheType(cache) /\ Placement(cache) /\ Right(cache, db) /\ Shaped(cache)
    BY CacheFacts
  <1>2. CacheType(c1) /\ Placement(c1) /\ Cached(c1, pk) /\ c1.pending = cache.pending
    BY <1>1, LoadFacts
  <1>3. cache.pending > 0
    BY DEF has_pending_cell
  <1>4. Slides(cache, c1, {}) /\ ~ InLru(c1.obj[pk], Len(cache.lru))
    BY <1>1, <1>3, LoadSlides
  <1> HIDE DEF c1
  <1>5. CacheType(c) /\ Alike(c1, c)
    BY <1>2, ClearUnsuccess, ServiceAlike
  <1> HIDE DEF c
  <1>6. Slides(cache, c, {})
    BY <1>4, <1>5, SlidesAlike
  <1>7. Shaped(c)
    BY <1>1, <1>5, <1>6, SlidesShaped
  <1>8. Placement(c) /\ Cached(c, pk)
    BY <1>2, <1>5 DEF Placement, Cached, Alike
  <1>9. c.lru = cache.lru /\ c.pending > 0 /\ ~ InLru(c.obj[pk], Len(c.lru))
    BY <1>2, <1>3, <1>4, <1>5, <1>6 DEF Slides, Alike
  <1> QED BY <1>5, <1>6, <1>7, <1>8, <1>9 DEF c, c1

\* A row is updated.
LEMMA UpdateRam ==
    ASSUME IInv, RamInv, NEW pk \in Pk, NEW row \in table.sizes, update(pk, row)
    PROVE  RamInv'
  <1> DEFINE c == clear_unsuccess(Load(cache, pk))
  <1>1. TypeOK /\ CacheType(cache) /\ Shaped(cache)
    BY CacheFacts
  <1>2. row \in Nat /\ db[pk] # NoRow /\ Write(pk, row) /\ cache' = emplace(c, pk, row)
    BY <1>1, TableFacts DEF update
  <1>3. has_pending_cell(cache)
    BY <1>2 DEF Write
  <1>4. /\ CacheType(c) /\ Placement(c) /\ Shaped(c) /\ Cached(c, pk) /\ c.pending > 0
        /\ Slides(cache, c, {}) /\ c.lru = cache.lru
    BY <1>2, <1>3, LoadedFacts
  <1> HIDE DEF c
  <1>5. CacheType(cache')
    BY <1>2, <1>4, EmplaceFacts DEF Enters
  <1>6. Slides(c, cache', {}) /\ ~ InLru(cache'.obj[pk], Len(cache.lru))
    BY <1>2, <1>4, EmplaceSlides
  <1>7. Slides(cache, cache', {} \cup {})
    BY <1>1, <1>4, <1>5, <1>6, SlidesTrans
  <1>8. Slides(cache, cache', {pk})
    BY <1>7 DEF Slides
  <1> QED BY <1>2, <1>5, <1>6, <1>8, RamWriteStep

\* A row is removed.
LEMMA RemoveRam ==
    ASSUME IInv, RamInv, NEW pk \in Pk, remove(pk)
    PROVE  RamInv'
  <1> DEFINE c == clear_unsuccess(Load(cache, pk))
  <1>1. TypeOK /\ CacheType(cache) /\ Shaped(cache)
    BY CacheFacts
  <1>2. db[pk] # NoRow /\ Write(pk, NoRow) /\ cache' = remove_cache_object(c, pk) /\ NoRow \in Nat
    BY DEF remove, NoRow
  <1>3. has_pending_cell(cache)
    BY <1>2 DEF Write
  <1>4. /\ CacheType(c) /\ Placement(c) /\ Shaped(c) /\ Cached(c, pk) /\ c.pending > 0
        /\ Slides(cache, c, {}) /\ ~ InLru(c.obj[pk], Len(c.lru)) /\ c.lru = cache.lru
    BY <1>2, <1>3, LoadedFacts
  <1> HIDE DEF c
  <1>5. CacheType(cache')
    BY <1>2, <1>4, RemoveFacts DEF Leaves
  <1>6. Slides(c, cache', {pk}) /\ ~ InLru(cache'.obj[pk], Len(cache.lru))
    BY <1>2, <1>4, RemoveSlides
  <1>7. Slides(cache, cache', {} \cup {pk})
    BY <1>1, <1>4, <1>5, <1>6, SlidesTrans
  <1>8. Slides(cache, cache', {pk})
    BY <1>7 DEF Slides
  <1> QED BY <1>2, <1>5, <1>6, <1>8, RamWriteStep

\* create makes an object in a pending cell.
LEMMA CreateSlides ==
    ASSUME TypeOK, NEW c, CacheType(c), Placement(c), Shaped(c), has_pending_cell(c), NewPk(c) \in Pk
    PROVE  LET d == create(c)
           IN  /\ Slides(c, d, {}) /\ Shaped(d) /\ d.lru = c.lru /\ d.pending > 0
               /\ ~ InLru(d.obj[NewPk(c)], Len(c.lru))
  <1> DEFINE k == NewPk(c)
             n == k + 1
             e == [c EXCEPT !.next_pk = n]
             d == create(c)
  <1>1. k \in Pk /\ n \in Nat
    BY TableFacts
  <1>2. d = emplace(e, k, NoRow) /\ NoRow \in Nat
    BY DEF create, NoRow
  <1>3. e = [c EXCEPT !.next_pk = n]
    OBVIOUS
  <1>4. CacheType(d)
    BY CreateFacts
  <1> HIDE DEF k, n, e, d
  <1>5. CacheType(e) /\ Alike(c, e)
    BY <1>1, <1>3 DEF CacheType, Alike
  <1>6. Placement(e) /\ Shaped(e) /\ e.pending > 0
    BY <1>5 DEF Placement, Shaped, Alike, Cached, has_pending_cell
  <1>7. Slides(e, d, {}) /\ ~ InLru(d.obj[k], Len(e.lru))
    BY <1>1, <1>2, <1>5, <1>6, EmplaceSlides
  <1>8. Slides(c, d, {})
    BY <1>5, <1>7, SlidesAlike
  <1>9. Shaped(d)
    BY <1>4, <1>8, SlidesShaped
  <1>10. d.lru = c.lru /\ d.pending > 0 /\ e.lru = c.lru
    BY <1>5, <1>6, <1>7 DEF Slides, Alike
  <1> QED BY <1>7, <1>8, <1>9, <1>10 DEF d, k

\* A table of the node gets a row with a new key.
LEMMA EmplaceRowRam ==
    ASSUME IInv, RamInv, NEW row \in table.sizes, emplace_row(row)
    PROVE  RamInv'
  <1> DEFINE k == NewPk(cache)
             c1 == create(cache)
             c2 == clear_unsuccess(c1)
  <1>1. TypeOK /\ CacheType(cache) /\ Placement(cache) /\ Shaped(cache)
    BY CacheFacts
  <1>2. /\ row \in Nat /\ k \in Pk /\ Write(k, row) /\ cache' = set_object(c2, k, row)
    BY <1>1, TableFacts DEF emplace_row
  <1>3. has_pending_cell(cache)
    BY <1>2 DEF Write
  <1>4. CacheType(c1) /\ Cached(c1, k)
    BY <1>1, <1>2, <1>3, CreateFacts
  <1>5. Slides(cache, c1, {}) /\ ~ InLru(c1.obj[k], Len(cache.lru)) /\ c1.lru = cache.lru
    BY <1>1, <1>2, <1>3, CreateSlides
  <1> HIDE DEF c1, k
  <1>6. CacheType(c2) /\ Alike(c1, c2)
    BY <1>4, ClearUnsuccess, ServiceAlike
  <1> HIDE DEF c2
  <1>7. Slides(cache, c2, {}) /\ ~ InLru(c2.obj[k], Len(c2.lru)) /\ c2.lru = cache.lru
        /\ c2.obj[k].stage = "Active"
    <2>1. Slides(cache, c2, {})
      BY <1>5, <1>6, SlidesAlike
    <2> QED BY <1>4, <1>5, <1>6, <2>1 DEF Alike, Cached
  <1>8. Shaped(c2)
    BY <1>1, <1>6, <1>7, SlidesShaped
  <1>9. /\ CacheType(cache')
        /\ cache'.obj[k].stage = c2.obj[k].stage /\ cache'.obj[k].cell = c2.obj[k].cell
        /\ \A q \in Pk \ {k} : cache'.obj[q] = c2.obj[q]
    <2>1. CacheType(c2)
      BY <1>6
    <2> QED BY <1>2, <2>1, SetObject
  <1>10. SameSizes(c2, cache') /\ cache'.obj[k].prev = c2.obj[k].prev
    BY <1>2, <1>6, <1>7, SetObjectAt
  <1>11. Slides(c2, cache', {})
    <2>1. Stays(c2.obj[k], cache'.obj[k], Len(c2.lru), c2.pending)
      BY <1>9, <1>10 DEF Stays
    <2>2. Staged(cache'.obj[k], Len(c2.lru)) /\ cache'.obj[k].stage # "Deleted"
      BY <1>7, <1>9 DEF Staged
    <2> QED BY <1>2, <1>6, <1>8, <1>9, <1>10, <2>1, <2>2, OneSlides
  <1>12. Slides(cache, cache', {} \cup {})
    BY <1>1, <1>6, <1>7, <1>9, <1>11, SlidesTrans
  <1>13. Slides(cache, cache', {k})
    BY <1>12 DEF Slides
  <1>14. ~ InLru(cache'.obj[k], Len(cache.lru))
    BY <1>7, <1>9 DEF InLru
  <1> QED BY <1>2, <1>9, <1>13, <1>14, RamWriteStep

\* A row is not made, but its key is used.
LEMMA EmplaceFailsRam ==
    ASSUME IInv, RamInv, emplace_fails
    PROVE  RamInv'
  <1> DEFINE k == NewPk(cache)
             n == k + 1
  <1>1. TypeOK /\ CacheType(cache) /\ Placement(cache) /\ Shaped(cache)
    BY CacheFacts
  <1>2. has_pending_cell(cache) /\ k \in Pk /\ UNCHANGED <<table, db, undo>>
    BY DEF emplace_fails
  <1>3. n \in Nat
    BY <1>1, <1>2, TableFacts
  <1>4. CASE Cached(cache, k)
    <2> DEFINE c == find(cache, k)
    <2>1. cache' = [c EXCEPT !.next_pk = n]
      BY <1>4 DEF emplace_fails
    <2>2. CacheType(c) /\ Slides(cache, c, {})
      BY <1>1, <1>2, FindFacts, FindSlides
    <2> HIDE DEF c, n, k
    <2>3. CacheType(cache') /\ Alike(c, cache')
      BY <1>3, <2>1, <2>2 DEF CacheType, Alike
    <2>4. Slides(cache, cache', {})
      BY <2>2, <2>3, SlidesAlike
    <2> QED BY <1>2, <2>3, <2>4, RamCacheStep
  <1>5. CASE ~ Cached(cache, k)
    <2> DEFINE c == create(cache)
    <2>1. cache' = remove_cache_object(c, k)
      BY <1>5 DEF emplace_fails
    <2>2. CacheType(c) /\ Placement(c) /\ Cached(c, k)
      BY <1>1, <1>2, CreateFacts
    <2>3. /\ Slides(cache, c, {}) /\ Shaped(c) /\ c.lru = cache.lru /\ c.pending > 0
          /\ ~ InLru(c.obj[k], Len(c.lru))
      BY <1>1, <1>2, CreateSlides
    <2> HIDE DEF c, n, k
    <2>4. CacheType(cache')
      BY <1>2, <2>1, <2>2, RemoveFacts DEF Leaves
    <2>5. Slides(c, cache', {k})
      BY <1>2, <2>1, <2>2, <2>3, RemoveSlides
    <2>6. Slides(cache, cache', {} \cup {k})
      BY <1>1, <2>2, <2>3, <2>4, <2>5, SlidesTrans
    <2>7. \A q \in Pk : Home(cache', q) = Home(cache, q)
      BY <1>1, <2>4, <2>6, SlidesShaped
    <2>8. Home(cache, k) # NoCell => cache.obj[k].stage = "Deleted"
      <3>1. cache.obj[k] \in Objects /\ Len(cache.lru) \in Nat
        BY <1>1, <1>2, CacheParts
      <3>2. cache.obj[k].stage = "Released" \/ cache.obj[k].stage = "Deleted"
        BY <1>5, <3>1 DEF Cached, Objects
      <3>3. cache.obj[k].stage = "Released" => cache.obj[k].cell = NoCell
        BY <1>1, <1>2 DEF Shaped, ShapeOf
      <3>4. cache.obj[k].cell = NoCell => Home(cache, k) = NoCell
        BY <3>1 DEF Home, HomeOf, NoCell
      <3> QED BY <3>2, <3>3, <3>4
    <2>9. Slides(cache, cache', {})
      BY <1>2, <2>6, <2>7, <2>8 DEF Slides
    <2> QED BY <1>2, <2>4, <2>9, RamCacheStep
  <1> QED BY <1>4, <1>5

-----------------------------------------------------------------------------
\* Many objects change

\* Sizes and cells depend on the objects alone.
LEMMA SizeOfObjects ==
    ASSUME NEW c, NEW d, d.obj = c.obj
    PROVE  (\A A : Size(d, A) = Size(c, A)) /\ \A B : InCell(d, B) = InCell(c, B)
  BY DEF Size, InCell

\* What EmplaceAll does to places and sizes
EmplacedAll(c, d, pks) ==
    /\ \A q \in pks : /\ Stays(c.obj[q], d.obj[q], Len(c.lru), c.pending)
                      /\ Staged(d.obj[q], Len(c.lru)) /\ d.obj[q].stage # "Deleted"
                      /\ c.pending > 0 => ~ InLru(d.obj[q], Len(c.lru)) /\ d.obj[q].stage = "Active"
    /\ d.lru = [i \in 1 .. Len(c.lru) |->
                  c.lru[i] + (Size(d, pks \cap InCell(d, {i})) - Size(c, pks \cap InCell(d, {i})))]
    /\ d.ram_used = c.ram_used + (Size(d, pks \cap InCell(d, 1 .. Len(c.lru)))
                                    - Size(c, pks \cap InCell(d, 1 .. Len(c.lru))))

LEMMA EmplaceAllAt ==
    ASSUME NEW c, CacheType(c), Placement(c), Shaped(c), NEW rows \in [Pk -> Nat], NEW pks \in SUBSET Pk
    PROVE  EmplacedAll(c, EmplaceAll(c, rows, pks), pks)
  <1> DEFINE d == EmplaceAll(c, rows, pks)
             objs == [pk \in Pk |-> IF pk \in pks THEN emplace(c, pk, rows[pk]).obj[pk] ELSE c.obj[pk]]
             serv == IF c.service = "none" /\ pks # {} THEN "made" ELSE c.service
             c1 == [c EXCEPT !.obj = objs, !.service = serv]
             Delta(cells) == Size(c1, pks \intersect InCell(c1, cells))
                                - Size(c, pks \intersect InCell(c1, cells))
             lru == [i \in DOMAIN c.lru |-> c.lru[i] + Delta({i})]
             ram == c.ram_used + Delta(DOMAIN c.lru)
             L == Len(c.lru)
  <1>1. ASSUME NEW q \in pks
        PROVE  /\ Stays(c.obj[q], objs[q], L, c.pending)
               /\ Staged(objs[q], L) /\ objs[q].stage # "Deleted"
               /\ c.pending > 0 => ~ InLru(objs[q], L) /\ objs[q].stage = "Active"
    <2> DEFINE e == emplace(c, q, rows[q])
    <2>1. q \in Pk /\ rows[q] \in Nat
      OBVIOUS
    <2>2. EmplacedAt(c, e, q)
      BY <2>1, EmplaceAt
    <2>3. Enters(c, e, q, rows[q])
      BY <2>1, EmplaceFacts
    <2>4. objs[q] = e.obj[q]
      BY <2>1
    <2> HIDE DEF e, objs
    <2>5. c.pending > 0 => objs[q].stage = "Active"
      BY <2>3, <2>4 DEF Enters, Cached, has_pending_cell
    <2> QED BY <2>2, <2>4, <2>5 DEF EmplacedAt
  <1>2. c1 = [c EXCEPT !.obj = objs, !.service = serv]
    OBVIOUS
  <1>3. c1 = [c EXCEPT !.obj = [pk \in Pk |-> IF pk \in pks THEN emplace(c, pk, rows[pk]).obj[pk] ELSE @[pk]],
                       !.service = IF @ = "none" /\ pks # {} THEN "made" ELSE @]
    OBVIOUS
  <1>4. d = [c1 EXCEPT !.lru = [i \in DOMAIN @ |-> @[i] + Delta({i})],
                       !.ram_used = @ + Delta(DOMAIN c.lru)]
    BY DEF EmplaceAll
  <1> HIDE DEF c1, objs, serv
  <1>5. /\ c1.obj = objs /\ c1.lru = c.lru /\ c1.ram_used = c.ram_used
        /\ c1 = [obj |-> c1.obj, lru |-> c1.lru, pending |-> c1.pending, ram_used |-> c1.ram_used,
                 unsuccess |-> c1.unsuccess, service |-> c1.service, next_pk |-> c1.next_pk]
    BY <1>2 DEF CacheType
  <1>6. d = [c1 EXCEPT !.lru = lru, !.ram_used = ram]
    BY <1>4, <1>5
  <1>7. lru = [i \in 1 .. L |-> c.lru[i] + Delta({i})] /\ ram = c.ram_used + Delta(1 .. L)
    BY CacheParts
  <1> HIDE DEF lru, ram, d
  <1>8. d.obj = c1.obj /\ d.lru = lru /\ d.ram_used = ram
    BY <1>5, <1>6
  <1>9. (\A A : Size(d, A) = Size(c1, A)) /\ \A B : InCell(d, B) = InCell(c1, B)
    BY <1>8, SizeOfObjects
  <1>10. \A B : Delta(B) = Size(d, pks \cap InCell(d, B)) - Size(c, pks \cap InCell(d, B))
    BY <1>9
  <1> HIDE DEF Delta
  <1>11. /\ d.lru = [i \in 1 .. L |->
                       c.lru[i] + (Size(d, pks \cap InCell(d, {i})) - Size(c, pks \cap InCell(d, {i})))]
         /\ d.ram_used = c.ram_used + (Size(d, pks \cap InCell(d, 1 .. L)) - Size(c, pks \cap InCell(d, 1 .. L)))
    BY <1>7, <1>8, <1>10
  <1>12. \A q \in pks : d.obj[q] = objs[q]
    BY <1>5, <1>8
  <1> QED BY <1>1, <1>11, <1>12 DEF EmplacedAll, d

\* Objects that are cached
Gone(c, pks) == {pk \in pks : Cached(c, pk)}

\* What RemoveAll does to places and sizes
RemovedAll(c, d, gone) ==
    /\ \A q \in gone : /\ Staged(d.obj[q], Len(c.lru))
                       /\ c.pending > 0 => Stays(c.obj[q], d.obj[q], Len(c.lru), c.pending)
                       /\ ~ (c.pending > 0) => d.obj[q] = Released
    /\ \A q \in Pk \ gone : d.obj[q] = c.obj[q]
    /\ d.lru = [i \in 1 .. Len(c.lru) |-> c.lru[i] - Size(c, gone \cap InCell(c, {i}))]
    /\ d.ram_used = c.ram_used - Size(c, gone \cap InCell(c, 1 .. Len(c.lru)))

LEMMA RemoveAllAt ==
    ASSUME TypeOK, NEW c, CacheType(c), Placement(c), Shaped(c), NEW pks \in SUBSET Pk
    PROVE  RemovedAll(c, RemoveAll(c, pks), Gone(c, pks))
  <1> DEFINE d == RemoveAll(c, pks)
             L == Len(c.lru)
             gone == {pk \in pks : Cached(c, pk)}
             objs == [pk \in Pk |-> IF pk \in gone THEN remove_cache_object(c, pk).obj[pk] ELSE c.obj[pk]]
             lru == [i \in DOMAIN c.lru |-> c.lru[i] - Size(c, gone \intersect InCell(c, {i}))]
             ram == c.ram_used - Size(c, gone \intersect InCell(c, DOMAIN c.lru))
             lookups == [pk \in Pk |-> IF c.unsuccess[pk] \in gone THEN Unset ELSE c.unsuccess[pk]]
             e == [c EXCEPT !.obj = objs, !.lru = lru, !.ram_used = ram, !.unsuccess = lookups]
  <1>1. gone = Gone(c, pks) /\ DOMAIN c.lru = 1 .. L /\ L \in Nat
    BY CacheParts DEF Gone
  <1>2. CASE gone = {}
    <2>1. d = c
      BY <1>2 DEF RemoveAll
    <2> DEFINE E == {}
    <2>2. Size(c, E) = 0
      <3>1. E \in SUBSET Pk /\ \A pk \in E : Rows(c)[pk] \in Nat
        OBVIOUS
      <3> HIDE DEF E
      <3>2. Size(c, E) = Total(Rows(c), E)
        BY <3>1, SizeTotal
      <3>3. Total(Rows(c), {}) = 0
        BY <3>1, TotalNat
      <3> QED BY <3>2, <3>3 DEF E
    <2>3. gone \cap InCell(c, 1 .. L) = E /\ \A i : gone \cap InCell(c, {i}) = E
      BY <1>2
    <2> HIDE DEF E, gone, d, L
    <2>4. c.lru \in Seq(Int) /\ c.ram_used \in Int /\ L = Len(c.lru)
      BY DEF Shaped, L
    <2> DEFINE S(i) == Size(c, gone \cap InCell(c, {i}))
               T == Size(c, gone \cap InCell(c, 1 .. L))
    <2>5. (\A i : S(i) = 0) /\ T = 0
      BY <2>2, <2>3, Zenon
    <2>6. c.lru = [i \in 1 .. L |-> c.lru[i] - Size(c, gone \cap InCell(c, {i}))]
      <3>1. \A i \in 1 .. L : c.lru[i] - Size(c, gone \cap InCell(c, {i})) = c.lru[i]
        <4>1. \A i \in 1 .. L : c.lru[i] \in Int
          BY <2>4
        <4>2. \A i \in 1 .. L : S(i) = Size(c, gone \cap InCell(c, {i}))
          OBVIOUS
        <4> HIDE DEF S
        <4>3. \A i \in 1 .. L : c.lru[i] - S(i) = c.lru[i]
          BY <2>5, <4>1
        <4> QED BY <4>2, <4>3
      <3>2. c.lru = [i \in 1 .. L |-> c.lru[i]]
        BY <2>4, SMTT(40)
      <3> QED BY <3>1, <3>2
    <2>7. c.ram_used = c.ram_used - Size(c, gone \cap InCell(c, 1 .. L))
      <3>1. c.ram_used - T = c.ram_used
        <4> HIDE DEF T
        <4> QED BY <2>4, <2>5
      <3> QED BY <3>1
    <2> QED BY <1>1, <1>2, <2>1, <2>6, <2>7 DEF RemovedAll, d, L
  <1>3. CASE gone # {}
    <2>1. d = EraseService(e)
      BY <1>3 DEF RemoveAll
    <2>2. ASSUME NEW q \in gone
          PROVE  /\ Staged(objs[q], L) /\ (c.pending > 0 => Stays(c.obj[q], objs[q], L, c.pending))
                 /\ ~ (c.pending > 0) => objs[q] = Released
      <3> DEFINE r == remove_cache_object(c, q)
      <3>1. q \in Pk /\ Cached(c, q) /\ objs[q] = r.obj[q]
        OBVIOUS
      <3>2. RemovedAt(c, r, q)
        BY <3>1, RemoveCacheAt
      <3> HIDE DEF r, objs
      <3> QED BY <3>1, <3>2 DEF RemovedAt
    <2>3. \A q \in Pk \ gone : objs[q] = c.obj[q]
      OBVIOUS
    <2>4. e = [c EXCEPT !.obj = objs, !.lru = lru, !.ram_used = ram, !.unsuccess = lookups]
      OBVIOUS
    <2>5. /\ lru = [i \in 1 .. L |-> c.lru[i] - Size(c, gone \cap InCell(c, {i}))]
          /\ ram = c.ram_used - Size(c, gone \cap InCell(c, 1 .. L))
      BY <1>1
    <2> HIDE DEF objs, lookups, lru, ram, gone, e, d
    <2>6. e.obj = objs /\ e.lru = lru /\ e.ram_used = ram
      BY <2>4 DEF CacheType
    <2>7. d.obj = e.obj /\ d.lru = e.lru /\ d.ram_used = e.ram_used
      <3>1. e = [obj |-> e.obj, lru |-> e.lru, pending |-> e.pending, ram_used |-> e.ram_used,
                 unsuccess |-> e.unsuccess, service |-> e.service, next_pk |-> e.next_pk]
        BY <2>4 DEF CacheType
      <3> QED BY <2>1, <3>1 DEF EraseService
    <2> QED BY <1>1, <2>2, <2>3, <2>5, <2>6, <2>7 DEF RemovedAll, d
  <1> QED BY <1>2, <1>3

\* Nothing takes nothing.
LEMMA SizeEmpty ==
    ASSUME TypeOK, NEW c, CacheType(c), NEW A, A = {}
    PROVE  Size(c, A) = 0
  <1>1. A \in SUBSET Pk /\ \A pk \in A : Rows(c)[pk] \in Nat
    OBVIOUS
  <1>2. Size(c, A) = Total(Rows(c), A) /\ Total(Rows(c), {}) = 0
    BY <1>1, SizeTotal, TotalNat
  <1> QED BY <1>2, Zenon

\* Objects of A change and stay.
LEMMA ManySlides ==
    ASSUME NEW c, CacheType(c), Shaped(c), NEW d, NEW A, SameSizes(c, d),
           \A q \in Pk \ A : d.obj[q] = c.obj[q],
           \A q \in A : Stays(c.obj[q], d.obj[q], Len(c.lru), c.pending) /\ Staged(d.obj[q], Len(c.lru)),
           NEW X, \A q \in A \ X : d.obj[q].stage # "Deleted"
    PROVE  Slides(c, d, X)
  <1>1. \A q \in Pk : Staged(c.obj[q], Len(c.lru))
    BY DEF Shaped, ShapeOf, Staged
  <1>2. \A q \in Pk \ A : Stays(c.obj[q], d.obj[q], Len(c.lru), c.pending) /\ Staged(d.obj[q], Len(c.lru))
    BY <1>1 DEF Stays
  <1>3. \A q \in Pk \ X : d.obj[q].stage = "Deleted" => c.obj[q].stage = "Deleted"
    OBVIOUS
  <1> QED BY <1>2, <1>3 DEF Slides, SameSizes

\* Rows enter pending cells.
LEMMA EmplaceAllSlides ==
    ASSUME TypeOK, NEW c, CacheType(c), Placement(c), Shaped(c), c.pending > 0,
           NEW rows \in [Pk -> Nat], NEW pks \in SUBSET Pk, \A pk \in pks : rows[pk] # NoRow
    PROVE  LET d == EmplaceAll(c, rows, pks)
           IN  Slides(c, d, {}) /\ \A q \in pks : d.obj[q].stage = "Active"
  <1> DEFINE d == EmplaceAll(c, rows, pks)
             L == Len(c.lru)
             S(B) == Size(d, pks \cap InCell(d, B)) - Size(c, pks \cap InCell(d, B))
  <1>1. EmplacedAll(c, d, pks)
    BY EmplaceAllAt
  <1>2. /\ CacheType(d) /\ d.pending = c.pending /\ \A q \in Pk \ pks : d.obj[q] = c.obj[q]
    BY EmplaceAllFacts DEF EnterAll
  <1>3. L \in Nat /\ c.lru \in Seq(Int) /\ c.ram_used \in Int /\ L = Len(c.lru)
    BY CacheParts DEF Shaped
  <1> HIDE DEF d
  <1>4. \A q \in pks : /\ Stays(c.obj[q], d.obj[q], L, c.pending) /\ Staged(d.obj[q], L)
                       /\ ~ InLru(d.obj[q], L) /\ d.obj[q].stage = "Active"
    BY <1>1 DEF EmplacedAll
  <1>5. d.lru = [i \in 1 .. L |-> c.lru[i] + S({i})] /\ d.ram_used = c.ram_used + S(1 .. L)
    BY <1>1 DEF EmplacedAll
  <1>6. ASSUME NEW B, B \subseteq 1 .. L PROVE S(B) = 0
    <2>1. pks \cap InCell(d, B) = {}
      <3> HIDE DEF L
      <3>1. \A x \in B : 1 <= x /\ x <= L
        BY <1>3, <1>6
      <3>2. \A q \in pks : d.obj[q].cell \in B => InLru(d.obj[q], L)
        BY <3>1 DEF InLru
      <3> QED BY <1>4, <3>2 DEF InCell
    <2>2. Size(d, pks \cap InCell(d, B)) = 0 /\ Size(c, pks \cap InCell(d, B)) = 0
      BY <1>2, <2>1, SizeEmpty
    <2> QED BY <2>2
  <1> HIDE DEF S
  <1>7. S(1 .. L) = 0 /\ \A i \in 1 .. L : S({i}) = 0
    BY <1>6
  <1> HIDE DEF L
  <1>8. d.lru = c.lru
    <2>1. c.lru = [i \in 1 .. L |-> c.lru[i]] /\ \A i \in 1 .. L : c.lru[i] \in Int
      <3>1. c.lru \in Seq(Int)
        BY <1>3
      <3> QED BY <3>1, IntSeq DEF L
    <2>2. \A i \in 1 .. L : c.lru[i] + S({i}) = c.lru[i]
      BY <1>7, <2>1
    <2> QED BY <1>5, <2>1, <2>2
  <1>9. d.ram_used = c.ram_used
    BY <1>3, <1>5, <1>7
  <1>10. SameSizes(c, d)
    BY <1>2, <1>8, <1>9 DEF SameSizes
  <1>11. Slides(c, d, {})
    BY <1>2, <1>3, <1>4, <1>10, ManySlides
  <1> QED BY <1>4, <1>11 DEF d

\* Rows leave pending cells.
LEMMA RemoveAllSlides ==
    ASSUME TypeOK, NEW c, CacheType(c), Placement(c), Shaped(c), c.pending > 0, NEW pks \in SUBSET Pk,
           \A q \in pks : Cached(c, q) => ~ InLru(c.obj[q], Len(c.lru))
    PROVE  Slides(c, RemoveAll(c, pks), pks)
  <1> DEFINE d == RemoveAll(c, pks)
             L == Len(c.lru)
             gone == Gone(c, pks)
             S(B) == Size(c, gone \cap InCell(c, B))
  <1>1. RemovedAll(c, d, gone)
    BY RemoveAllAt
  <1>2. d.pending = c.pending
    BY RemoveAllFacts DEF LeaveAll
  <1>3. L \in Nat /\ c.lru \in Seq(Int) /\ c.ram_used \in Int /\ L = Len(c.lru)
    BY CacheParts DEF Shaped
  <1>4. gone \in SUBSET pks /\ \A q \in gone : ~ InLru(c.obj[q], L)
    BY DEF Gone
  <1> HIDE DEF d, gone
  <1>5. /\ \A q \in gone : Stays(c.obj[q], d.obj[q], L, c.pending) /\ Staged(d.obj[q], L)
        /\ \A q \in Pk \ gone : d.obj[q] = c.obj[q]
    BY <1>1 DEF RemovedAll
  <1>6. d.lru = [i \in 1 .. L |-> c.lru[i] - S({i})] /\ d.ram_used = c.ram_used - S(1 .. L)
    BY <1>1 DEF RemovedAll
  <1>7. ASSUME NEW B, B \subseteq 1 .. L PROVE S(B) = 0
    <2>1. gone \cap InCell(c, B) = {}
      <3> HIDE DEF L
      <3>1. \A x \in B : 1 <= x /\ x <= L
        BY <1>3, <1>7
      <3>2. \A q \in gone : c.obj[q].cell \in B => InLru(c.obj[q], L)
        BY <3>1 DEF InLru
      <3> QED BY <1>4, <3>2 DEF InCell
    <2> QED BY <2>1, SizeEmpty
  <1> HIDE DEF S
  <1>8. S(1 .. L) = 0 /\ \A i \in 1 .. L : S({i}) = 0
    BY <1>7
  <1> HIDE DEF L
  <1>9. d.lru = c.lru
    <2>1. c.lru = [i \in 1 .. L |-> c.lru[i]] /\ \A i \in 1 .. L : c.lru[i] \in Int
      <3>1. c.lru \in Seq(Int)
        BY <1>3
      <3> QED BY <3>1 DEF L
    <2>2. \A i \in 1 .. L : c.lru[i] - S({i}) = c.lru[i]
      BY <1>8, <2>1
    <2> QED BY <1>6, <2>1, <2>2
  <1>10. d.ram_used = c.ram_used
    BY <1>3, <1>6, <1>8
  <1>11. SameSizes(c, d)
    BY <1>2, <1>9, <1>10 DEF SameSizes
  <1>12. Slides(c, d, pks)
    BY <1>3, <1>4, <1>5, <1>11, ManySlides
  <1> QED BY <1>12 DEF d

\* A session is undone in the cache while it is pending: objects of rows it had removed return.
LEMMA UndoTableSlides ==
    ASSUME TypeOK, NEW c, CacheType(c), Placement(c), Shaped(c), c.pending > 0, NEW u \in Sessions,
           \A q \in Pk : u.snap[q] = NoRow => ~ InLru(c.obj[q], Len(c.lru))
    PROVE  LET d == UndoTable(c, u)
           IN  /\ Slides(c, d, {q \in u.touched : u.snap[q] = NoRow})
               /\ \A q \in u.touched : u.snap[q] # NoRow => d.obj[q].stage = "Active"
  <1> DEFINE d == UndoTable(c, u)
             old == {pk \in u.touched : u.snap[pk] # NoRow /\ db[pk] # NoRow}
             new == {pk \in u.touched : u.snap[pk] = NoRow /\ db[pk] # NoRow}
             removed == {pk \in u.touched : u.snap[pk] # NoRow /\ db[pk] = NoRow}
             X == {q \in u.touched : u.snap[q] = NoRow}
             c0 == clear_unsuccess(c)
             c1 == EmplaceAll(c0, u.snap, old)
             c2 == RemoveAll(c1, new)
             c3 == EmplaceAll(c2, u.snap, removed)
  <1>1. u.snap \in [Pk -> Nat] /\ u.touched \in SUBSET Pk
    BY DEF Sessions
  <1>2. CASE u.touched = {}
    <2>1. d = c
      BY <1>2 DEF UndoTable
    <2>2. Slides(c, c, {})
      BY AlikeSlides DEF Alike
    <2>3. {} \subseteq X /\ Alike(c, c)
      BY DEF Alike
    <2> HIDE DEF X
    <2>4. Slides(c, c, X)
      BY <2>2, <2>3, SlidesAlike
    <2> QED BY <1>2, <2>1, <2>4 DEF X
  <1>3. CASE u.touched # {}
    <2>1. d = IF u.next_pk # Unset /\ AutoKeys THEN [c3 EXCEPT !.next_pk = u.next_pk] ELSE c3
      BY <1>3 DEF UndoTable, Restored
    <2>2. /\ old \in SUBSET Pk /\ new \in SUBSET Pk /\ removed \in SUBSET Pk /\ new \subseteq X
          /\ (\A pk \in old : u.snap[pk] # NoRow) /\ (\A pk \in removed : u.snap[pk] # NoRow)
          /\ \A pk \in new : u.snap[pk] = NoRow
      BY <1>1
    <2>3. \A pk \in Pk : /\ pk \in old => pk \notin new /\ pk \notin removed
                         /\ pk \in new => pk \notin removed
      OBVIOUS
    <2>4. \A pk \in u.touched : u.snap[pk] # NoRow => pk \in old \/ pk \in removed
      OBVIOUS
    <2> HIDE DEF old, new, removed, d, X
    <2>5. CacheType(c0) /\ Alike(c, c0)
      BY ClearUnsuccess, ServiceAlike
    <2> HIDE DEF c0
    <2>6. Placement(c0) /\ Shaped(c0) /\ c0.pending > 0
      BY <2>5 DEF Placement, Cached, Shaped, Alike
    <2>7. Slides(c0, c1, {}) /\ \A q \in old : c1.obj[q].stage = "Active"
      BY <1>1, <2>2, <2>5, <2>6, EmplaceAllSlides
    <2>8. EnterAll(c0, c1, u.snap, old)
      BY <1>1, <2>2, <2>5, <2>6, EmplaceAllFacts
    <2> HIDE DEF c1
    <2>9. CacheType(c1) /\ Placement(c1) /\ \A q \in Pk \ old : c1.obj[q] = c.obj[q]
      BY <2>5, <2>8 DEF EnterAll, Alike
    <2>10. Shaped(c1) /\ c1.pending > 0 /\ c1.lru = c.lru
      <3>1. Shaped(c1)
        BY <2>5, <2>6, <2>7, <2>9, SlidesShaped
      <3> QED BY <2>5, <2>6, <2>7, <3>1 DEF Slides, Alike
    <2>11. \A q \in new : ~ InLru(c1.obj[q], Len(c1.lru))
      BY <2>2, <2>3, <2>9, <2>10
    <2>12. Slides(c1, c2, new)
      BY <2>2, <2>9, <2>10, <2>11, RemoveAllSlides
    <2>13. LeaveAll(c1, c2, new)
      BY <2>2, <2>9, RemoveAllFacts
    <2> HIDE DEF c2
    <2>14. CacheType(c2) /\ Placement(c2) /\ \A q \in Pk \ new : c2.obj[q] = c1.obj[q]
      BY <2>13 DEF LeaveAll
    <2>15. Shaped(c2) /\ c2.pending > 0
      <3>1. Shaped(c2)
        BY <2>9, <2>10, <2>12, <2>14, SlidesShaped
      <3> QED BY <2>10, <2>12, <3>1 DEF Slides
    <2>16. Slides(c2, c3, {}) /\ \A q \in removed : c3.obj[q].stage = "Active"
      BY <1>1, <2>2, <2>14, <2>15, EmplaceAllSlides
    <2>17. EnterAll(c2, c3, u.snap, removed)
      BY <1>1, <2>2, <2>14, EmplaceAllFacts
    <2> HIDE DEF c3
    <2>18. CacheType(c3) /\ \A q \in Pk \ removed : c3.obj[q] = c2.obj[q]
      BY <2>17 DEF EnterAll
    <2>19. Slides(c0, c2, {} \cup new)
      BY <2>5, <2>6, <2>7, <2>9, <2>12, <2>14, SlidesTrans
    <2>20. Slides(c0, c3, ({} \cup new) \cup {})
      BY <2>5, <2>6, <2>14, <2>16, <2>18, <2>19, SlidesTrans
    <2>21. ({} \cup new) \cup {} \subseteq X
      BY <2>2
    <2>22. Slides(c, c3, X)
      BY <2>5, <2>20, <2>21, SlidesAlike
    <2>23. \A q \in u.touched : u.snap[q] # NoRow => c3.obj[q].stage = "Active"
      BY <1>1, <2>2, <2>3, <2>4, <2>7, <2>14, <2>16, <2>18
    <2>24. Alike(c3, d)
      <3>1. CASE u.next_pk # Unset /\ AutoKeys
        BY <2>1, <2>18, <3>1 DEF Alike, CacheType
      <3>2. CASE ~ (u.next_pk # Unset /\ AutoKeys)
        BY <2>1, <3>2 DEF Alike
      <3> QED BY <3>1, <3>2
    <2>25. Slides(c, d, X)
      BY <2>22, <2>24, SlidesAlike
    <2>26. \A q \in u.touched : u.snap[q] # NoRow => d.obj[q].stage = "Active"
      BY <2>23, <2>24 DEF Alike
    <2> QED BY <2>25, <2>26 DEF d, X
  <1> QED BY <1>2, <1>3

-----------------------------------------------------------------------------
\* Sessions

\* Released objects change no size by themselves.
LEMMA ReleaseAllRam ==
    ASSUME NEW c, CacheType(c), NEW pks
    PROVE  ReleaseAll(c, pks).ram_used = c.ram_used
  <1> DEFINE objs == [pk \in Pk |-> IF pk \in pks THEN Released ELSE c.obj[pk]]
             lookups == [pk \in Pk |-> IF c.unsuccess[pk] \in pks THEN Unset ELSE c.unsuccess[pk]]
             e == [c EXCEPT !.obj = objs, !.unsuccess = lookups]
             d == ReleaseAll(c, pks)
  <1>1. CASE pks = {}
    BY <1>1 DEF ReleaseAll
  <1>2. CASE pks # {}
    <2>1. d = EraseService(e)
      BY <1>2 DEF ReleaseAll
    <2>2. e = [c EXCEPT !.obj = objs, !.unsuccess = lookups]
      OBVIOUS
    <2> HIDE DEF objs, lookups, e, d
    <2>3. /\ e = [obj |-> e.obj, lru |-> e.lru, pending |-> e.pending, ram_used |-> e.ram_used,
                  unsuccess |-> e.unsuccess, service |-> e.service, next_pk |-> e.next_pk]
          /\ e.ram_used = c.ram_used
      BY <2>2 DEF CacheType
    <2>4. d.ram_used = e.ram_used
      BY <2>1, <2>3 DEF EraseService
    <2> QED BY <2>3, <2>4 DEF d
  <1> QED BY <1>1, <1>2

\* The released object
LEMMA ReleasedFacts ==
    /\ Released \in Objects /\ Released.stage = "Released" /\ Released.cell = NoCell
    /\ Released.prev = NoCell /\ Released.row = NoRow
  BY DEF Released, Objects, NoRow, NoCell

\* What undo_session does to an object, with L LRU cells and n pending ones
UndoneAt(o, p, L, n) ==
    /\ o.cell = L + n /\ o.prev # NoCell => p.cell = o.prev /\ p.prev = NoCell /\ p.stage = o.stage
    /\ o.cell = L + n /\ o.prev = NoCell => p = Released
    /\ o.cell # L + n => p = o

LEMMA UndoSessionAt ==
    ASSUME NEW c, CacheType(c), Placement(c), c.pending > 0
    PROVE  LET d == undo_session(c)
           IN  /\ d.lru = c.lru /\ d.ram_used = c.ram_used /\ d.pending = c.pending - 1
               /\ \A q \in Pk : UndoneAt(c.obj[q], d.obj[q], Len(c.lru), c.pending)
  <1> DEFINE L == Len(c.lru)
             d == undo_session(c)
             mine == InCell(c, {L + c.pending})
             kept == {pk \in mine : c.obj[pk].prev # NoCell}
             Back(o) == [o EXCEPT !.cell = o.prev, !.prev = NoCell]
             objs == [pk \in Pk |-> IF pk \in kept THEN Back(c.obj[pk]) ELSE c.obj[pk]]
             c1 == [c EXCEPT !.pending = @ - 1, !.obj = objs]
             k == c.pending - 1
  <1>1. L \in Nat /\ c.pending \in Nat /\ k \in Nat
    BY CacheParts
  <1>2. \A pk \in Pk : /\ pk \in mine <=> c.obj[pk].cell = L + c.pending
                       /\ pk \in kept <=> pk \in mine /\ c.obj[pk].prev # NoCell
    BY DEF InCell
  <1>3. mine \subseteq Pk /\ \A pk \in mine : c.obj[pk].cell # SystemCell
    BY <1>1, SMTT(40) DEF InCell, SystemCell
  <1>4. d = ReleaseAll(c1, mine \ kept)
    BY DEF undo_session, has_pending_cell
  <1>5. ASSUME NEW pk \in Pk
        PROVE  /\ objs[pk] \in Objects
               /\ pk \notin kept => objs[pk] = c.obj[pk]
               /\ pk \in kept => /\ objs[pk].cell = c.obj[pk].prev /\ objs[pk].prev = NoCell
                                 /\ objs[pk].stage = c.obj[pk].stage
    <2> DEFINE o == c.obj[pk]
               n == [o EXCEPT !.cell = o.prev, !.prev = NoCell]
    <2>1. o \in Objects /\ objs[pk] = IF pk \in kept THEN n ELSE o
      BY CacheParts
    <2> HIDE DEF objs, kept, mine, o
    <2>2. o.prev \in Int /\ NoCell \in Int
      BY <2>1 DEF Objects, NoCell
    <2>3. n = [o EXCEPT !.cell = o.prev, !.prev = NoCell]
      OBVIOUS
    <2> HIDE DEF n
    <2>4. n \in Objects /\ n.stage = o.stage /\ n.cell = o.prev /\ n.prev = NoCell
      BY <2>1, <2>2, <2>3 DEF Objects
    <2> QED BY <2>1, <2>4 DEF o
  <1>6. objs \in [Pk -> Objects]
    <2>1. objs = [pk \in Pk |-> objs[pk]]
      OBVIOUS
    <2> HIDE DEF objs
    <2> QED BY <1>5, <2>1
  <1>7. c1 = [c EXCEPT !.pending = k, !.obj = objs]
    OBVIOUS
  <1> HIDE DEF objs, c1, d, kept, mine, k
  <1>8. /\ CacheType(c1) /\ c1.obj = objs /\ c1.pending = k /\ c1.lru = c.lru
        /\ c1.ram_used = c.ram_used
    BY <1>1, <1>6, <1>7 DEF CacheType
  <1>9. Placement(c1)
    <2>1. \A pk \in Pk : c1.obj[pk].stage = c.obj[pk].stage
      BY <1>5, <1>8
    <2>2. \A pk \in Pk : c.obj[pk].cell # NoCell => c1.obj[pk].cell # NoCell
      BY <1>2, <1>5, <1>8
    <2>3. \A pk \in Pk : c.obj[pk].cell = SystemCell => c1.obj[pk].cell = SystemCell
      BY <1>2, <1>3, <1>5, <1>8
    <2> QED BY <2>1, <2>2, <2>3 DEF Placement, Cached
  <1>10. \A pk \in mine \ kept : pk \in Pk /\ c1.obj[pk].cell # SystemCell
    BY <1>3, <1>5, <1>8
  <1>11. /\ d.obj = [pk \in Pk |-> IF pk \in mine \ kept THEN Released ELSE c1.obj[pk]]
         /\ d.lru = c1.lru /\ d.pending = c1.pending /\ d.ram_used = c1.ram_used
    BY <1>4, <1>8, <1>9, <1>10, ReleaseAllFacts, ReleaseAllRam
  <1>12. ASSUME NEW q \in Pk PROVE UndoneAt(c.obj[q], d.obj[q], L, c.pending)
    <2>1. d.obj[q] = IF q \in mine \ kept THEN Released ELSE objs[q]
      BY <1>8, <1>11
    <2> QED BY <1>2, <1>5, <2>1 DEF UndoneAt
  <1> QED BY <1>8, <1>11, <1>12 DEF d, k

\* The place of an object whose session is undone
LEMMA UndoneHome ==
    ASSUME NEW o \in Objects, NEW p \in Objects, NEW L \in Nat, NEW n \in Nat, n > 0,
           ShapeOf(o, L, n), UndoneAt(o, p, L, n),
           o.cell = L + n /\ o.prev # NoCell => o.stage # "Deleted"
    PROVE  /\ ShapeOf(p, L, n - 1) /\ HomeOf(p, L) = HomeOf(o, L)
           /\ p.cell <= L => o.cell <= L \/ o.cell = L + n
           /\ p.stage = "Deleted" => o.stage = "Deleted" /\ p.cell = o.cell /\ o.cell < L + n
  <1>1. o.cell \in Int /\ p.cell \in Int /\ o.prev \in Int /\ p.prev \in Int
    BY DEF Objects
  <1>2. CASE o.cell = L + n /\ o.prev # NoCell
    <2>1. p.cell = o.prev /\ p.prev = NoCell /\ p.stage = o.stage
      BY <1>2 DEF UndoneAt
    <2>2. o.stage # "Released"
      BY <1>2 DEF ShapeOf, NoCell
    <2> QED BY <1>1, <1>2, <2>1, <2>2 DEF ShapeOf, HomeOf, NoCell
  <1>3. CASE o.cell = L + n /\ o.prev = NoCell
    <2>1. p = Released
      BY <1>3 DEF UndoneAt
    <2>2. p.cell = NoCell /\ p.prev = NoCell /\ p.stage = "Released"
      BY <2>1, ReleasedFacts
    <2> QED BY <1>1, <1>3, <2>2 DEF ShapeOf, HomeOf, NoCell
  <1>4. CASE o.cell # L + n
    <2>1. p = o
      BY <1>4 DEF UndoneAt
    <2>2. o.cell < L + n
      BY <1>1, <1>4 DEF ShapeOf
    <2> QED BY <1>1, <1>4, <2>1, <2>2 DEF ShapeOf
  <1> QED BY <1>2, <1>3, <1>4


\* Where an object came from while its session is undone
LEMMA StaysFrom ==
    ASSUME NEW o \in Objects, NEW x \in Objects, NEW L \in Nat, NEW n \in Nat, n > 0,
           Stays(o, x, L, n), HomeOf(o, L) # NoCell
    PROVE  /\ x.cell <= L => o.cell <= L
           /\ x.cell = L + n => o.cell <= L \/ o.cell = L + n
           /\ x.cell > L /\ x.cell # L + n => o.cell = x.cell
           /\ o.cell > L => o.cell = x.cell
  <1>1. o.cell \in Int /\ x.cell \in Int
    BY DEF Objects
  <1> QED BY <1>1 DEF Stays

\* The session of a transaction, or of a block that is not complete, is undone.
LEMMA UndoRam ==
    ASSUME IInv, RamInv, undo_revision, cache.pending > 0
    PROVE  RamInv'
  <1> DEFINE n == Len(undo)
             m == n - 1
             u == undo[n]
             L == Len(cache.lru)
             p == cache.pending
             b == n - p + 1
             base == undo[b].snap
             d == UndoTable(cache, u)
             X == {q \in u.touched : u.snap[q] = NoRow}
  <1>1. /\ n \in Nat /\ undo \in Seq(Sessions) /\ db \in [Pk -> Nat] /\ TypeOK
        /\ CacheType(cache) /\ Placement(cache) /\ Right(cache, db)
        /\ p \in Nat /\ p <= n
        /\ \A i \in 1 .. n : undo[i] \in Sessions
        /\ \A i \in 1 .. n : \A q \in Pk : q \notin undo[i].touched =>
              undo[i].snap[q] = IF i = n THEN db[q] ELSE undo[i + 1].snap[q]
    BY StackFacts DEF IInv
  <1>2. cache' = undo_session(d) /\ db' = u.snap /\ table' = table
    BY DEF undo_revision, Last
  <1>3. /\ m \in Nat /\ n = m + 1 /\ m <= n /\ n = Len(undo) /\ n \in 1 .. n /\ b \in 1 .. n
        /\ undo' = SubSeq(undo, 1, m)
    BY <1>1 DEF undo_revision, Front
  <1>4. /\ p <= 2 /\ Shaped(cache) /\ Covered(cache, base) /\ Summed(cache)
        /\ \A q \in Pk : Returns(cache, base, db, undo, q)
    BY <1>1 DEF RamInv, RamOf, BaseOf
  <1>5. L \in Nat /\ \A q \in Pk : cache.obj[q] \in Objects /\ cache.obj[q].cell \in Int
    BY <1>1, CacheParts
  <1>6. (p = 1 /\ b = n) \/ (p = 2 /\ b = m /\ m \in 1 .. n /\ m \in 1 .. m /\ m # n)
    <2>1. b = (n - p) + 1 /\ m = n - 1 /\ p > 0 /\ p \in Nat /\ p <= 2 /\ n \in Nat /\ p <= n /\ b \in 1 .. n
      BY <1>1, <1>3, <1>4
    <2> HIDE DEF b, n, m, p
    <2>2. p = 1 \/ p = 2
      BY <2>1
    <2>3. CASE p = 1
      BY <2>1, <2>3
    <2>4. CASE p = 2
      <3>1. b = n - 1 /\ n >= 2
        BY <2>1, <2>4
      <3> QED BY <2>1, <2>4, <3>1
    <2> QED BY <2>2, <2>3, <2>4
  <1>7. \A q \in Pk : Home(cache, q) # NoCell =>
           /\ base[q] # NoRow
           /\ p = 2 /\ cache.obj[q].cell # L + 1 => u.snap[q] = base[q]
           /\ cache.obj[q].stage = "Deleted" =>
                 q \in u.touched \/ (cache.obj[q].cell = L + 1 /\ q \in undo[b].touched)
    BY <1>4 DEF Returns
  <1>8. /\ u \in Sessions /\ (\A q \in Pk : q \notin u.touched => u.snap[q] = db[q])
        /\ p = 2 => \A q \in Pk : q \notin undo[b].touched => base[q] = u.snap[q]
    <2>1. p = 2 => n = b + 1 /\ b # n
      <3> HIDE DEF n, b, m, p
      <3> QED BY <1>3, <1>6
    <2>2. base = undo[b].snap /\ u = undo[n]
      OBVIOUS
    <2> HIDE DEF n, b, u, base, p
    <2>3. u \in Sessions /\ \A q \in Pk : q \notin u.touched => u.snap[q] = db[q]
      BY <1>1, <1>3, <2>2
    <2>4. p = 2 => \A q \in Pk : q \notin undo[b].touched => base[q] = u.snap[q]
      <3> SUFFICES ASSUME p = 2, NEW q \in Pk, q \notin undo[b].touched PROVE base[q] = u.snap[q]
        OBVIOUS
      <3>1. b \in 1 .. n /\ b # n /\ b + 1 = n
        BY <1>3, <2>1
      <3>2. undo[b].snap[q] = undo[b + 1].snap[q]
        BY <1>1, <3>1
      <3> QED BY <2>2, <3>1, <3>2
    <2> QED BY <2>3, <2>4
  <1>9. p = 1 => u = undo[b] /\ u.snap = base
    BY <1>6
  <1>10. undo' \in Seq(Sessions) /\ Len(undo') = m /\ \A i \in 1 .. m : undo'[i] = undo[i]
    <2> HIDE DEF n, m
    <2>1. undo \in Seq(Sessions) /\ m \in Nat /\ m <= Len(undo)
      BY <1>1, <1>3
    <2> QED BY <1>3, <2>1
  <1>11. BaseOf(cache', db', undo') = IF cache'.pending = 0 THEN u.snap
                                     ELSE undo'[m - cache'.pending + 1].snap
    BY <1>2, <1>10 DEF BaseOf
  <1>12. p = cache.pending /\ L = Len(cache.lru)
    OBVIOUS
  <1> HIDE DEF n, m, u, b, base, L, p
  <1>13. \A q \in Pk : u.snap[q] = NoRow => ~ InLru(cache.obj[q], Len(cache.lru))
    <2> SUFFICES ASSUME NEW q \in Pk, u.snap[q] = NoRow, InLru(cache.obj[q], L) PROVE FALSE
      BY <1>12
    <2>1. Home(cache, q) # NoCell /\ cache.obj[q].cell # L + 1
      BY <1>5, <1>12 DEF Home, HomeOf, InLru, NoCell
    <2> QED BY <1>6, <1>7, <1>9, <2>1
  <1>14. /\ Slides(cache, d, X)
         /\ \A q \in u.touched : u.snap[q] # NoRow => d.obj[q].stage = "Active"
    BY <1>1, <1>4, <1>8, <1>13, UndoTableSlides
  <1>15. CacheType(d) /\ Placement(d) /\ d.pending = cache.pending
    BY <1>1, <1>8, UndoTableFacts
  <1> HIDE DEF d
  <1>16. Shaped(d) /\ \A q \in Pk : Home(d, q) = Home(cache, q)
    BY <1>1, <1>4, <1>14, <1>15, SlidesShaped
  <1>17. d.lru = cache.lru /\ d.ram_used = cache.ram_used /\ p > 0
    BY <1>12, <1>14 DEF Slides
  <1>18. /\ cache'.lru = cache.lru /\ cache'.ram_used = cache.ram_used /\ cache'.pending = p - 1
         /\ \A q \in Pk : UndoneAt(d.obj[q], cache'.obj[q], L, p)
    BY <1>2, <1>12, <1>15, <1>17, UndoSessionAt
  <1>19. CacheType(cache')
    BY <1>2, <1>15, UndoSession DEF Ends
  <1>20. \A q \in Pk : cache'.obj[q] \in Objects /\ d.obj[q] \in Objects
    BY <1>15, <1>19, CacheParts
  <1>21. ASSUME NEW q \in Pk, Home(cache, q) # NoCell
         PROVE  /\ base[q] # NoRow
                /\ d.obj[q].cell <= L \/ d.obj[q].cell = L + p => u.snap[q] = base[q]
                /\ d.obj[q].stage = "Deleted" => d.obj[q].cell = L + 1 /\ p = 2 /\ q \in undo[b].touched
    <2> DEFINE o == cache.obj[q]
               x == d.obj[q]
    <2>1. o \in Objects /\ x \in Objects /\ o.cell \in Int /\ x.cell \in Int
      BY <1>5, <1>20 DEF Objects
    <2>2. Stays(o, x, L, p) /\ HomeOf(o, L) # NoCell
      BY <1>12, <1>14, <1>21 DEF Slides, Home
    <2>3. /\ x.stage = "Deleted" => x.cell > L
          /\ x.cell <= L + p
          /\ o.stage = "Deleted" => o.cell > L
      BY <1>4, <1>12, <1>15, <1>16, <1>17 DEF Shaped, ShapeOf
    <2>4. x.stage = "Deleted" => o.stage = "Deleted" \/ (q \in u.touched /\ u.snap[q] = NoRow)
      BY <1>14, <1>16, <1>21 DEF Slides
    <2>5. q \in u.touched /\ u.snap[q] # NoRow => x.stage = "Active"
      BY <1>14
    <2>6. /\ base[q] # NoRow
          /\ p = 2 /\ o.cell # L + 1 => u.snap[q] = base[q]
          /\ o.stage = "Deleted" => q \in u.touched \/ (o.cell = L + 1 /\ q \in undo[b].touched)
      BY <1>7, <1>21
    <2> HIDE DEF o, x
    <2>7. /\ x.cell <= L => o.cell <= L
          /\ x.cell = L + p => o.cell <= L \/ o.cell = L + p
          /\ x.cell > L /\ x.cell # L + p => o.cell = x.cell
          /\ o.cell > L => o.cell = x.cell
      BY <1>1, <1>5, <1>17, <2>1, <2>2, StaysFrom
    <2>8. x.cell <= L \/ x.cell = L + p => u.snap[q] = base[q]
      <3>1. CASE p = 1
        BY <1>9, <3>1
      <3>2. CASE p = 2
        BY <1>5, <2>1, <2>6, <2>7, <3>2
      <3> QED BY <1>6, <3>1, <3>2
    <2>9. ASSUME x.stage = "Deleted" PROVE x.cell = L + 1 /\ p = 2 /\ q \in undo[b].touched
      <3>1. x.cell # L + p
        <4> SUFFICES ASSUME x.cell = L + p PROVE FALSE
          OBVIOUS
        <4>1. u.snap[q] # NoRow
          BY <2>6, <2>8
        <4>2. o.stage = "Deleted" /\ q \notin u.touched
          BY <2>4, <2>5, <2>9, <4>1
        <4>3. o.cell = L + 1 /\ q \in undo[b].touched /\ o.cell = L + p
          BY <2>3, <2>6, <2>7, <4>2
        <4> QED BY <1>5, <1>6, <1>9, <4>2, <4>3
      <3>2. p = 2 /\ x.cell = L + 1 /\ o.cell = L + 1
        BY <1>5, <1>6, <2>1, <2>3, <2>7, <2>9, <3>1
      <3>3. q \in undo[b].touched
        BY <1>8, <2>4, <2>5, <2>6, <2>9, <3>2
      <3> QED BY <3>2, <3>3
    <2> QED BY <2>6, <2>8, <2>9 DEF x
  <1>22. ASSUME NEW q \in Pk
         PROVE  /\ ShapeOf(cache'.obj[q], L, p - 1) /\ HomeOf(cache'.obj[q], L) = HomeOf(d.obj[q], L)
                /\ cache'.obj[q].cell <= L => d.obj[q].cell <= L \/ d.obj[q].cell = L + p
                /\ cache'.obj[q].stage = "Deleted" =>
                      d.obj[q].stage = "Deleted" /\ cache'.obj[q].cell = d.obj[q].cell
    <2>1. ShapeOf(d.obj[q], L, p) /\ UndoneAt(d.obj[q], cache'.obj[q], L, p)
      BY <1>12, <1>15, <1>16, <1>17, <1>18 DEF Shaped
    <2>2. d.obj[q].cell = L + p /\ d.obj[q].prev # NoCell => d.obj[q].stage # "Deleted"
      <3> SUFFICES ASSUME d.obj[q].cell = L + p, d.obj[q].prev # NoCell, d.obj[q].stage = "Deleted"
                   PROVE  FALSE
        OBVIOUS
      <3>1. Home(cache, q) # NoCell
        BY <1>1, <1>5, <1>12, <1>16, <1>17 DEF Home, HomeOf
      <3>2. L + p = L + 1 /\ p = 2
        BY <1>21, <3>1
      <3> QED BY <1>5, <3>2
    <2> QED BY <1>1, <1>5, <1>17, <1>20, <2>1, <2>2, UndoneHome, SMTT(40)
  <1>23. Shaped(cache')
    BY <1>4, <1>12, <1>18, <1>22 DEF Shaped
  <1>24. \A q \in Pk : Home(cache', q) = Home(cache, q)
    BY <1>12, <1>16, <1>17, <1>18, <1>22 DEF Home
  <1>25. Covered(cache', base) /\ Summed(cache')
    <2>1. \A i : Homes(cache', i) = Homes(cache, i)
      BY <1>24 DEF Homes
    <2> QED BY <1>4, <1>18, <2>1 DEF Covered, Summed
  <1>26. BaseOf(cache', db', undo') = base
    <2>1. CASE p = 1
      BY <1>9, <1>11, <1>18, <2>1
    <2>2. CASE p = 2
      <3>1. cache'.pending = 1 /\ m - 1 + 1 = m /\ b = m /\ m \in 1 .. m
        BY <1>3, <1>6, <1>18, <2>2
      <3> QED BY <1>10, <1>11, <3>1 DEF base
    <2> QED BY <1>6, <2>1, <2>2
  <1>27. ASSUME NEW q \in Pk PROVE Returns(cache', base, db', undo', q)
    <2> SUFFICES ASSUME Home(cache, q) # NoCell
                 PROVE  /\ base[q] # NoRow
                        /\ cache'.obj[q].cell <= L => u.snap[q] = base[q]
                        /\ cache'.pending # 2
                        /\ cache'.obj[q].stage = "Deleted" => q \in undo'[Len(undo')].touched
      BY <1>2, <1>12, <1>18, <1>24 DEF Returns
    <2>1. cache'.pending # 2
      BY <1>6, <1>18
    <2>2. cache'.obj[q].stage = "Deleted" => p = 2 /\ q \in undo[b].touched
      BY <1>21, <1>22
    <2>3. p = 2 => undo'[Len(undo')] = undo[b]
      BY <1>6, <1>10
    <2> QED BY <1>21, <1>22, <2>1, <2>2, <2>3
  <1>28. RamOf(cache', db', undo')
    <2>1. cache'.pending <= 2
      BY <1>6, <1>18
    <2> QED BY <1>23, <1>25, <1>26, <1>27, <2>1 DEF RamOf
  <1> QED BY <1>2, <1>28, RamPrimed

\* A session starts: nothing moves, and the rows at the beginning of the block are the same.
LEMMA StartRam ==
    ASSUME IInv, RamInv, start_undo_session
    PROVE  RamInv'
  <1> DEFINE n == Len(undo)
             u == [snap |-> db, touched |-> {}, next_pk |-> Unset]
             L == Len(cache.lru)
             p == cache.pending
             k == p + 1
             base == BaseOf(cache, db, undo)
  <1>1. /\ n \in Nat /\ undo \in Seq(Sessions) /\ db \in [Pk -> Nat] /\ CacheType(cache)
        /\ p \in Nat /\ p <= n
    BY StackFacts
  <1>2. u \in Sessions /\ u.snap = db
    BY <1>1 DEF Sessions, Unset
  <1>3. /\ undo' = Append(undo, u) /\ cache' = [cache EXCEPT !.pending = k] /\ db' = db /\ table' = table
        /\ p < 2
    BY DEF start_undo_session, start_session
  <1> HIDE DEF u
  <1>4. /\ Len(undo') = n + 1 /\ undo'[n + 1] = u
        /\ \A i \in 1 .. n : undo'[i] = undo[i]
    BY <1>1, <1>2, <1>3
  <1>5. k \in Nat /\ (p = 0 \/ p = 1)
    BY <1>1, <1>3
  <1>6. /\ Shaped(cache) /\ Covered(cache, base) /\ Summed(cache)
        /\ \A q \in Pk : Returns(cache, base, db, undo, q)
    BY DEF RamInv, RamOf
  <1>7. /\ base = IF p = 0 THEN db ELSE undo[n - p + 1].snap
        /\ BaseOf(cache', db', undo') = IF cache'.pending = 0 THEN db ELSE undo'[(n + 1) - cache'.pending + 1].snap
    BY <1>3, <1>4 DEF BaseOf
  <1>8. p = cache.pending /\ L = Len(cache.lru) /\ k = p + 1
    OBVIOUS
  <1>9. \A q \in Pk : Home(cache, q) # NoCell =>
           /\ base[q] # NoRow
           /\ cache.obj[q].cell <= L => db[q] = base[q]
           /\ cache.obj[q].stage = "Deleted" =>
                 \/ q \in undo[n].touched
                 \/ cache.obj[q].cell = L + 1 /\ q \in undo[n - p + 1].touched
    BY <1>6 DEF Returns
  <1> HIDE DEF n, base, p, k, L
  <1>10. cache'.obj = cache.obj /\ cache'.lru = cache.lru /\ cache'.ram_used = cache.ram_used /\ cache'.pending = k
    BY <1>1, <1>3 DEF CacheType
  <1>11. L \in Nat /\ \A q \in Pk : cache.obj[q].cell \in Int
    BY <1>1, <1>8, CacheParts
  <1>12. Shaped(cache')
    <2>1. ASSUME NEW q \in Pk PROVE ShapeOf(cache.obj[q], L, k)
      <3>1. ShapeOf(cache.obj[q], L, p)
        BY <1>6, <1>8 DEF Shaped
      <3>2. k = p + 1 /\ k > p /\ p \in Nat /\ k \in Nat
        BY <1>1, <1>5, <1>8
      <3>3. L + p <= L + k
        BY <1>11, <3>2
      <3>4. cache.obj[q].cell <= L + k
        BY <1>11, <3>1, <3>2, <3>3 DEF ShapeOf
      <3> QED BY <3>1, <3>4 DEF ShapeOf
    <2> QED BY <1>6, <1>8, <1>10, <2>1 DEF Shaped
  <1>13. BaseOf(cache', db', undo') = base
    <2>1. CASE p = 0
      <3>1. k = 1 /\ (n + 1) - k + 1 = n + 1
        BY <1>1, <1>8, <2>1
      <3> QED BY <1>2, <1>4, <1>7, <1>10, <2>1, <3>1
    <2>2. CASE p = 1
      <3>1. k = 2 /\ (n + 1) - k + 1 = n /\ n - p + 1 = n /\ n \in 1 .. n
        BY <1>1, <1>8, <2>2
      <3> QED BY <1>4, <1>7, <1>10, <2>2, <3>1
    <2> QED BY <1>5, <2>1, <2>2
  <1>14. \A q \in Pk : Home(cache', q) = Home(cache, q)
    BY <1>10 DEF Home
  <1>15. Covered(cache', base) /\ Summed(cache')
    <2>1. \A i : Homes(cache', i) = Homes(cache, i)
      BY <1>14 DEF Homes
    <2> QED BY <1>6, <1>10, <2>1 DEF Covered, Summed
  <1>16. ASSUME NEW q \in Pk PROVE Returns(cache', base, db', undo', q)
    <2> SUFFICES ASSUME Home(cache, q) # NoCell
                 PROVE  /\ base[q] # NoRow
                        /\ cache.obj[q].cell <= L => db[q] = base[q]
                        /\ k = 2 /\ cache.obj[q].cell # L + 1 => undo'[Len(undo')].snap[q] = base[q]
                        /\ cache.obj[q].stage = "Deleted" =>
                              cache.obj[q].cell = L + 1 /\ q \in undo'[Len(undo') - k + 1].touched
      BY <1>3, <1>8, <1>10, <1>14 DEF Returns
    <2>1. ShapeOf(cache.obj[q], L, p)
      BY <1>6, <1>8 DEF Shaped
    <2>2. k = 2 /\ cache.obj[q].cell # L + 1 => cache.obj[q].cell <= L
      BY <1>5, <1>8, <1>11, <2>1 DEF ShapeOf
    <2>3. cache.obj[q].stage = "Deleted" => p = 1 /\ cache.obj[q].cell = L + 1
      BY <1>5, <1>11, <2>1 DEF ShapeOf
    <2>4. p = 1 => Len(undo') - k + 1 = n /\ n - p + 1 = n /\ n \in 1 .. n
      BY <1>1, <1>4, <1>8
    <2>5. cache.obj[q].stage = "Deleted" => q \in undo'[Len(undo') - k + 1].touched
      <3> SUFFICES ASSUME cache.obj[q].stage = "Deleted" PROVE q \in undo'[Len(undo') - k + 1].touched
        OBVIOUS
      <3>1. Len(undo') - k + 1 = n /\ n - p + 1 = n /\ n \in 1 .. n
        BY <2>3, <2>4
      <3>2. q \in undo[n].touched
        BY <1>9, <3>1
      <3> QED BY <1>4, <3>1, <3>2
    <2>6. undo'[Len(undo')].snap = db
      BY <1>2, <1>4
    <2> QED BY <1>9, <2>2, <2>3, <2>5, <2>6
  <1>17. RamOf(cache', db', undo')
    <2>1. cache'.pending <= 2
      BY <1>5, <1>8, <1>10
    <2> QED BY <1>12, <1>13, <1>15, <1>16, <2>1 DEF RamOf
  <1> QED BY <1>3, <1>17, RamPrimed

\* What squash_session does to an object
SquashedAt(o, p, L) ==
    /\ o.cell = L + 2 /\ o.stage = "Deleted" /\ o.prev = NoCell => p = Released
    /\ o.cell = L + 2 /\ ~ (o.stage = "Deleted" /\ o.prev = NoCell) =>
          p.cell = L + 1 /\ p.prev = o.prev /\ p.stage = o.stage
    /\ o.cell # L + 2 => p = o

LEMMA SquashSessionAt ==
    ASSUME NEW c, CacheType(c), Placement(c), c.pending = 2
    PROVE  LET d == squash_session(c)
           IN  /\ d.lru = c.lru /\ d.ram_used = c.ram_used
               /\ \A q \in Pk : SquashedAt(c.obj[q], d.obj[q], Len(c.lru))
  <1> DEFINE L == Len(c.lru)
             d == squash_session(c)
             mine == InCell(c, {L + c.pending})
             gone == {pk \in mine : c.obj[pk].stage = "Deleted" /\ c.obj[pk].prev = NoCell}
             objs == [pk \in Pk |-> IF pk \in mine THEN Moved(c.obj[pk], 1) ELSE c.obj[pk]]
             c1 == [c EXCEPT !.pending = @ - 1, !.obj = objs]
  <1>1. L \in Nat
    BY CacheParts
  <1>2. \A pk \in Pk : /\ pk \in mine <=> c.obj[pk].cell = L + 2
                       /\ pk \in gone <=> pk \in mine /\ c.obj[pk].stage = "Deleted" /\ c.obj[pk].prev = NoCell
    BY <1>1 DEF InCell
  <1>3. mine \subseteq Pk /\ gone \subseteq mine
    BY DEF InCell
  <1>4. d = ReleaseAll(c1, gone)
    BY DEF squash_session
  <1>5. ASSUME NEW pk \in Pk
        PROVE  /\ objs[pk] \in Objects
               /\ pk \notin mine => objs[pk] = c.obj[pk]
               /\ pk \in mine => /\ objs[pk].cell = L + 1 /\ objs[pk].prev = c.obj[pk].prev
                                 /\ objs[pk].stage = c.obj[pk].stage
    <2> DEFINE o == c.obj[pk]
               k == o.cell - 1
               n == [o EXCEPT !.cell = k]
    <2>1. o \in Objects
      BY CacheParts
    <2>2. k \in Int /\ (pk \in mine => k = L + 1)
      <3>1. o.cell \in Int /\ (pk \in mine => o.cell = L + 2)
        BY <1>2, <2>1 DEF Objects
      <3> HIDE DEF o, mine, L
      <3> QED BY <1>1, <3>1
    <2>3. objs[pk] = IF pk \in mine THEN n ELSE o
      BY DEF Moved
    <2> HIDE DEF objs, mine, o, k
    <2>4. n = [o EXCEPT !.cell = k]
      OBVIOUS
    <2> HIDE DEF n
    <2>5. n \in Objects /\ n.stage = o.stage /\ n.prev = o.prev /\ n.cell = k
      BY <2>1, <2>2, <2>4 DEF Objects
    <2> QED BY <2>1, <2>2, <2>3, <2>5 DEF o
  <1>6. objs \in [Pk -> Objects]
    <2>1. objs = [pk \in Pk |-> objs[pk]]
      OBVIOUS
    <2> HIDE DEF objs
    <2> QED BY <1>5, <2>1
  <1>7. c1 = [c EXCEPT !.pending = 1, !.obj = objs]
    OBVIOUS
  <1> HIDE DEF objs, c1, d, gone, mine
  <1>8. CacheType(c1) /\ c1.obj = objs /\ c1.lru = c.lru /\ c1.ram_used = c.ram_used
    BY <1>6, <1>7 DEF CacheType
  <1>9. Placement(c1)
    <2>1. \A pk \in Pk : c1.obj[pk].stage = c.obj[pk].stage
      BY <1>5, <1>8
    <2>2. \A pk \in Pk : c.obj[pk].cell # NoCell => c1.obj[pk].cell # NoCell
      BY <1>1, <1>5, <1>8 DEF NoCell
    <2>3. \A pk \in Pk : c.obj[pk].cell = SystemCell => c1.obj[pk].cell = SystemCell
      BY <1>1, <1>2, <1>5, <1>8 DEF SystemCell
    <2> QED BY <2>1, <2>2, <2>3 DEF Placement, Cached
  <1>10. \A pk \in gone : pk \in Pk /\ c1.obj[pk].cell # SystemCell
    BY <1>1, <1>3, <1>5, <1>8 DEF SystemCell
  <1>11. /\ d.obj = [pk \in Pk |-> IF pk \in gone THEN Released ELSE c1.obj[pk]]
         /\ d.lru = c1.lru /\ d.ram_used = c1.ram_used
    BY <1>4, <1>8, <1>9, <1>10, ReleaseAllFacts, ReleaseAllRam
  <1>12. ASSUME NEW q \in Pk PROVE SquashedAt(c.obj[q], d.obj[q], L)
    <2>1. d.obj[q] = IF q \in gone THEN Released ELSE objs[q]
      BY <1>8, <1>11
    <2> QED BY <1>2, <1>5, <2>1 DEF SquashedAt
  <1> QED BY <1>8, <1>11, <1>12 DEF d

\* The place of an object of a squashed session
LEMMA SquashedHome ==
    ASSUME NEW o \in Objects, NEW p \in Objects, NEW L \in Nat, ShapeOf(o, L, 2), SquashedAt(o, p, L)
    PROVE  /\ ShapeOf(p, L, 1) /\ HomeOf(p, L) = HomeOf(o, L)
           /\ HomeOf(p, L) # NoCell /\ p.cell <= L => o.cell <= L
           /\ p.stage = "Deleted" => o.stage = "Deleted"
  <1>1. o.cell \in Int /\ p.cell \in Int /\ o.prev \in Int /\ p.prev \in Int
    BY DEF Objects
  <1>2. CASE o.cell = L + 2 /\ o.stage = "Deleted" /\ o.prev = NoCell
    <2>1. p = Released
      BY <1>2 DEF SquashedAt
    <2>2. p.cell = NoCell /\ p.prev = NoCell /\ p.stage = "Released"
      BY <2>1, ReleasedFacts
    <2> QED BY <1>1, <1>2, <2>2 DEF ShapeOf, HomeOf, NoCell
  <1>3. CASE o.cell = L + 2 /\ ~ (o.stage = "Deleted" /\ o.prev = NoCell)
    <2>1. p.cell = L + 1 /\ p.prev = o.prev /\ p.stage = o.stage
      BY <1>3 DEF SquashedAt
    <2> QED BY <1>1, <1>3, <2>1 DEF ShapeOf, HomeOf, NoCell
  <1>4. CASE o.cell # L + 2
    <2>1. p = o
      BY <1>4 DEF SquashedAt
    <2> QED BY <1>1, <1>4, <2>1 DEF ShapeOf
  <1> QED BY <1>2, <1>3, <1>4

\* A transaction becomes part of its block: what it removed the block removed.
LEMMA SquashRam ==
    ASSUME IInv, RamInv, squash_revision
    PROVE  RamInv'
  <1> DEFINE n == Len(undo)
             inner == undo[n]
             outer == undo[n - 1]
             t == outer.touched \cup inner.touched
             k == IF outer.next_pk = Unset THEN inner.next_pk ELSE outer.next_pk
             u == [outer EXCEPT !.touched = t, !.next_pk = k]
             m == n - 1
             l == n - 2
             s == SubSeq(undo, 1, l)
             L == Len(cache.lru)
             base == BaseOf(cache, db, undo)
  <1>1. /\ n \in Nat /\ undo \in Seq(Sessions) /\ CacheType(cache) /\ Placement(cache)
        /\ cache.pending \in Nat /\ cache.pending <= n /\ \A i \in 1 .. n : undo[i] \in Sessions
    BY StackFacts
  <1>2. cache.pending = 2 /\ cache' = squash_session(cache) /\ db' = db /\ table' = table
    BY DEF squash_revision
  <1>3. undo' = Append(s, u)
    BY DEF squash_revision, Last
  <1>4. /\ Shaped(cache) /\ Covered(cache, base) /\ Summed(cache)
        /\ \A q \in Pk : Returns(cache, base, db, undo, q)
    BY DEF RamInv, RamOf
  <1>5. /\ n \in Nat /\ m \in Nat /\ l \in Nat /\ m = l + 1 /\ l <= n /\ n - 2 + 1 = m
        /\ n = Len(undo) /\ n \in 1 .. n /\ m \in 1 .. n
    BY <1>1, <1>2
  <1>6. /\ base = undo[m].snap
        /\ \A q \in Pk : Home(cache, q) # NoCell =>
              /\ base[q] # NoRow
              /\ cache.obj[q].cell <= L => db[q] = base[q]
              /\ cache.obj[q].stage = "Deleted" => q \in undo[n].touched \/ q \in undo[m].touched
    <2>1. base = undo[n - 2 + 1].snap
      BY <1>2 DEF BaseOf
    <2>2. \A q \in Pk : Home(cache, q) # NoCell =>
              /\ base[q] # NoRow
              /\ cache.obj[q].cell <= L => db[q] = base[q]
              /\ cache.obj[q].stage = "Deleted" => q \in undo[n].touched \/ q \in undo[n - 2 + 1].touched
      BY <1>2, <1>4 DEF Returns
    <2> HIDE DEF n, m, base, L
    <2> QED BY <1>5, <2>1, <2>2
  <1>7. outer = undo[m] /\ inner = undo[n]
    OBVIOUS
  <1> HIDE DEF n, m, l
  <1>8. inner \in Sessions /\ outer \in Sessions
    BY <1>1, <1>5, <1>7
  <1>9. t \in SUBSET Pk /\ k \in Nat \cup {Unset} /\ t = outer.touched \cup inner.touched
    BY <1>8 DEF Sessions
  <1>10. u = [outer EXCEPT !.touched = t, !.next_pk = k]
    OBVIOUS
  <1> HIDE DEF u, t, k, inner, outer
  <1>11. u \in Sessions /\ u.snap = outer.snap /\ u.touched = t
    BY <1>8, <1>9, <1>10 DEF Sessions
  <1>12. s \in Seq(Sessions) /\ Len(s) = l
    <2>1. undo \in Seq(Sessions) /\ l \in Nat /\ l <= Len(undo)
      BY <1>1, <1>5
    <2> QED BY <2>1
  <1> HIDE DEF s
  <1>13. Len(undo') = m /\ undo'[m] = u
    BY <1>3, <1>5, <1>11, <1>12
  <1>14. Ends(cache, cache') /\ cache'.pending = 1
    BY <1>1, <1>2, SquashSession
  <1>15. /\ cache'.lru = cache.lru /\ cache'.ram_used = cache.ram_used
         /\ \A q \in Pk : SquashedAt(cache.obj[q], cache'.obj[q], L)
    BY <1>1, <1>2, SquashSessionAt
  <1>16. BaseOf(cache', db', undo') = base
    <2>1. BaseOf(cache', db', undo') = undo'[m - 1 + 1].snap /\ m - 1 + 1 = m
      BY <1>5, <1>13, <1>14 DEF BaseOf
    <2> QED BY <1>6, <1>7, <1>11, <1>13, <2>1
  <1> HIDE DEF base
  <1>17. ASSUME NEW q \in Pk
         PROVE  /\ ShapeOf(cache'.obj[q], L, 1) /\ HomeOf(cache'.obj[q], L) = HomeOf(cache.obj[q], L)
                /\ HomeOf(cache'.obj[q], L) # NoCell /\ cache'.obj[q].cell <= L => cache.obj[q].cell <= L
                /\ cache'.obj[q].stage = "Deleted" => cache.obj[q].stage = "Deleted"
    <2>1. CacheType(cache')
      BY <1>14 DEF Ends
    <2>2. cache.obj[q] \in Objects /\ cache'.obj[q] \in Objects /\ L \in Nat
      BY <1>1, <2>1, CacheParts
    <2>3. ShapeOf(cache.obj[q], L, 2) /\ SquashedAt(cache.obj[q], cache'.obj[q], L)
      BY <1>2, <1>4, <1>15 DEF Shaped
    <2> QED BY <2>2, <2>3, SquashedHome
  <1>18. Shaped(cache')
    BY <1>4, <1>14, <1>15, <1>17 DEF Shaped
  <1>19. \A q \in Pk : Home(cache', q) = Home(cache, q)
    BY <1>15, <1>17 DEF Home
  <1>20. Covered(cache', base) /\ Summed(cache')
    <2>1. \A i : Homes(cache', i) = Homes(cache, i)
      BY <1>19 DEF Homes
    <2> QED BY <1>4, <1>15, <2>1 DEF Covered, Summed
  <1>21. ASSUME NEW q \in Pk PROVE Returns(cache', base, db', undo', q)
    <2> SUFFICES ASSUME Home(cache, q) # NoCell
                 PROVE  /\ base[q] # NoRow
                        /\ cache'.obj[q].cell <= L => db[q] = base[q]
                        /\ cache'.obj[q].stage = "Deleted" => q \in undo'[Len(undo')].touched
      BY <1>2, <1>14, <1>15, <1>19 DEF Returns
    <2>1. HomeOf(cache'.obj[q], L) # NoCell
      BY <1>15, <1>19 DEF Home
    <2>2. cache'.obj[q].stage = "Deleted" => q \in undo[n].touched \/ q \in undo[m].touched
      BY <1>6, <1>17
    <2>3. undo'[Len(undo')].touched = undo[m].touched \cup undo[n].touched
      BY <1>7, <1>9, <1>11, <1>13
    <2> QED BY <1>6, <1>17, <2>1, <2>2, <2>3
  <1>22. RamOf(cache', db', undo')
    BY <1>14, <1>16, <1>18, <1>20, <1>21 DEF RamOf
  <1> QED BY <1>2, <1>22, RamPrimed

-----------------------------------------------------------------------------
\* Between blocks

\* No session is open: a cell counts at least what is in it, and ram_used is the sum of the cells.
Counts(c) ==
    /\ c.pending = 0 /\ Shaped(c) /\ Summed(c)
    /\ \A i \in 1 .. Len(c.lru) : Size(c, InCell(c, {i})) <= c.lru[i]

\* Fewer objects with smaller rows take less.
LEMMA SizeLe ==
    ASSUME TypeOK, NEW c, CacheType(c), NEW d, CacheType(d), NEW A \in SUBSET Pk, NEW B \in SUBSET Pk,
           A \subseteq B, \A pk \in A : d.obj[pk].row <= c.obj[pk].row
    PROVE  Size(d, A) <= Size(c, B)
  <1>1. /\ Size(d, A) = Total(Rows(d), A)
        /\ \A pk \in Pk : Rows(d)[pk] = d.obj[pk].row /\ Rows(d)[pk] \in Nat
    BY SizeTotal
  <1>2. /\ Size(c, B) = Total(Rows(c), B)
        /\ \A pk \in Pk : Rows(c)[pk] = c.obj[pk].row /\ Rows(c)[pk] \in Nat
    BY SizeTotal
  <1>3. /\ \A pk \in B : Rows(c)[pk] \in Nat
        /\ \A pk \in A : Rows(d)[pk] \in Nat /\ Rows(d)[pk] <= Rows(c)[pk]
    BY <1>1, <1>2
  <1>4. Total(Rows(d), A) <= Total(Rows(c), B)
    BY <1>3, TotalLe
  <1> QED BY <1>1, <1>2, <1>4

\* Objects with the same rows take the same.
LEMMA SizeSame ==
    ASSUME TypeOK, NEW c, CacheType(c), NEW d, CacheType(d), NEW A \in SUBSET Pk,
           \A pk \in A : d.obj[pk].row = c.obj[pk].row
    PROVE  Size(d, A) = Size(c, A)
  <1>1. /\ Size(d, A) = Total(Rows(d), A)
        /\ \A pk \in Pk : Rows(d)[pk] = d.obj[pk].row /\ Rows(d)[pk] \in Nat
    BY SizeTotal
  <1>2. /\ Size(c, A) = Total(Rows(c), A)
        /\ \A pk \in Pk : Rows(c)[pk] = c.obj[pk].row /\ Rows(c)[pk] \in Nat
    BY SizeTotal
  <1>3. \A pk \in A : Rows(d)[pk] \in Nat /\ Rows(d)[pk] = Rows(c)[pk]
    BY <1>1, <1>2
  <1>4. Total(Rows(d), A) = Total(Rows(c), A)
    BY <1>3, TotalSame
  <1> QED BY <1>1, <1>2, <1>4

\* Objects in two parts
LEMMA SizeSplit ==
    ASSUME TypeOK, NEW c, CacheType(c), NEW A \in SUBSET Pk, NEW B
    PROVE  /\ Size(c, A) = Size(c, B \cap A) + Size(c, A \ B)
           /\ Size(c, A) \in Nat /\ Size(c, B \cap A) \in Nat /\ Size(c, A \ B) \in Nat
  <1> DEFINE P == B \cap A
             Q == A \ B
  <1>1. P \in SUBSET Pk /\ Q \in SUBSET Pk /\ P \cap Q = {} /\ P \cup Q = A
    OBVIOUS
  <1> HIDE DEF P, Q
  <1>2. /\ Size(c, A) = Total(Rows(c), A) /\ Size(c, P) = Total(Rows(c), P)
        /\ Size(c, Q) = Total(Rows(c), Q) /\ \A pk \in P \cup Q : Rows(c)[pk] \in Nat
        /\ Size(c, A) \in Nat /\ Size(c, P) \in Nat /\ Size(c, Q) \in Nat
    BY <1>1, SizeTotal
  <1>3. Total(Rows(c), P \cup Q) = Total(Rows(c), P) + Total(Rows(c), Q)
    BY <1>1, <1>2, TotalSplit
  <1> QED BY <1>1, <1>2, <1>3 DEF P, Q

\* Objects of LRU cells are active.
LEMMA ShapedLru ==
    ASSUME NEW c, CacheType(c), Shaped(c), NEW q \in Pk, InLru(c.obj[q], Len(c.lru))
    PROVE  /\ Cached(c, q) /\ Home(c, q) = c.obj[q].cell
           /\ c.obj[q].prev = NoCell
  <1>1. ShapeOf(c.obj[q], Len(c.lru), c.pending)
    BY DEF Shaped
  <1>2. c.obj[q] \in Objects /\ c.obj[q].cell \in Int /\ Len(c.lru) \in Nat
    BY CacheParts
  <1> DEFINE L == Len(c.lru)
             o == c.obj[q]
  <1>3. 1 <= o.cell /\ o.cell <= L
    BY DEF InLru
  <1>4. o.stage \in {"Active", "Deleted", "Released"}
    BY <1>2 DEF Objects
  <1> HIDE DEF L, o
  <1>5. o.stage = "Active" /\ o.prev = NoCell /\ HomeOf(o, L) = o.cell
    BY <1>1, <1>2, <1>3, <1>4 DEF ShapeOf, HomeOf, NoCell, L, o
  <1> QED BY <1>5 DEF Cached, Home, L, o

\* Between blocks the invariant is that cells count.
LEMMA CountsRam ==
    ASSUME TypeOK, NEW c, CacheType(c), NEW rows \in [Pk -> Nat], Right(c, rows), NEW stack, c.pending = 0
    PROVE  RamOf(c, rows, stack) <=> Counts(c)
  <1> SUFFICES ASSUME Shaped(c) PROVE RamOf(c, rows, stack) <=> Counts(c)
    BY DEF RamOf, Counts
  <1> DEFINE L == Len(c.lru)
  <1>1. L \in Nat /\ \A q \in Pk : c.obj[q].cell \in Int /\ c.obj[q] \in Objects
    BY CacheParts
  <1>2. \A q \in Pk : ShapeOf(c.obj[q], L, 0)
    BY DEF Shaped
  <1>3. ASSUME NEW q \in Pk, InLru(c.obj[q], L)
        PROVE  /\ Home(c, q) = c.obj[q].cell /\ rows[q] # NoRow
               /\ c.obj[q].row = rows[q] /\ c.obj[q].stage # "Deleted"
    <2>1. Cached(c, q) /\ Home(c, q) = c.obj[q].cell
      BY <1>3, ShapedLru
    <2> QED BY <2>1 DEF Right, Cached
  <1>4. ASSUME NEW q \in Pk, ~ InLru(c.obj[q], L) PROVE Home(c, q) = NoCell
    <2> HIDE DEF L
    <2>1. HomeOf(c.obj[q], L) = NoCell
      BY <1>1, <1>2, <1>4 DEF HomeOf, InLru, ShapeOf, NoCell
    <2> QED BY <2>1 DEF Home, L
  <1>5. ASSUME NEW i \in 1 .. L PROVE Total(rows, Homes(c, i)) = Size(c, InCell(c, {i}))
    <2> DEFINE A == InCell(c, {i})
    <2>1. 1 <= i /\ i <= L /\ i # NoCell
      BY <1>1 DEF NoCell
    <2>2. \A q \in Pk : q \in A <=> c.obj[q].cell = i
      BY DEF InCell
    <2>3. A \in SUBSET Pk
      BY DEF InCell
    <2>4. \A q \in A : InLru(c.obj[q], L)
      BY <2>1, <2>2, <2>3 DEF InLru
    <2>5. Homes(c, i) = A
      <3>1. \A q \in Pk : Home(c, q) = i <=> q \in A
        BY <1>3, <1>4, <2>1, <2>2, <2>4
      <3> QED BY <2>3, <3>1 DEF Homes
    <2> HIDE DEF A
    <2>6. Size(c, A) = Total(Rows(c), A) /\ \A q \in A : Rows(c)[q] = c.obj[q].row /\ Rows(c)[q] \in Nat
      BY <2>3, SizeTotal
    <2>7. \A q \in A : rows[q] \in Nat /\ rows[q] = Rows(c)[q]
      BY <1>3, <2>3, <2>4, <2>6
    <2>8. Total(rows, A) = Total(Rows(c), A)
      BY <2>3, <2>7, TotalSame
    <2> QED BY <2>5, <2>6, <2>8 DEF A
  <1>6. BaseOf(c, rows, stack) = rows
    BY DEF BaseOf
  <1>7. Covered(c, rows) <=> \A i \in 1 .. L : Size(c, InCell(c, {i})) <= c.lru[i]
    BY <1>5 DEF Covered
  <1>8. \A q \in Pk : Returns(c, rows, rows, stack, q)
    <2>1. \A q \in Pk : Home(c, q) # NoCell => rows[q] # NoRow /\ c.obj[q].stage # "Deleted"
      BY <1>3, <1>4
    <2> QED BY <2>1 DEF Returns
  <1> QED BY <1>6, <1>7, <1>8 DEF RamOf, Counts

\* What has the same objects and sizes counts the same.
LEMMA AlikeCounts ==
    ASSUME NEW c, NEW d, Alike(c, d), Counts(c)
    PROVE  Counts(d)
  <1>1. (\A A : Size(d, A) = Size(c, A)) /\ \A B : InCell(d, B) = InCell(c, B)
    BY SizeOfObjects DEF Alike
  <1>2. Shaped(d) /\ Summed(d)
    BY DEF Alike, Counts, Shaped, Summed
  <1> QED BY <1>1, <1>2 DEF Alike, Counts

\* The cells of d are those of c after the first k, with at most their objects.
LEMMA CellsKept ==
    ASSUME TypeOK, NEW c, CacheType(c), Counts(c), NEW d, CacheType(d), d.pending = 0, Shaped(d), Summed(d),
           NEW k \in Nat,
           \A i \in 1 .. Len(d.lru) : k + i \in 1 .. Len(c.lru) /\ d.lru[i] = c.lru[k + i],
           \A q \in Pk : InLru(d.obj[q], Len(d.lru)) =>
               c.obj[q].cell = k + d.obj[q].cell /\ d.obj[q].row = c.obj[q].row
    PROVE  Counts(d)
  <1>1. ASSUME NEW i \in 1 .. Len(d.lru) PROVE Size(d, InCell(d, {i})) <= d.lru[i]
    <2> DEFINE A == InCell(d, {i})
               B == InCell(c, {k + i})
    <2>1. A \in SUBSET Pk /\ B \in SUBSET Pk
      BY DEF InCell
    <2>2. (\A q \in A : d.obj[q].cell = i) /\ \A q \in Pk : c.obj[q].cell = k + i => q \in B
      BY DEF InCell
    <2>3. k + i \in 1 .. Len(c.lru) /\ d.lru[i] = c.lru[k + i]
      OBVIOUS
    <2>4. Len(d.lru) \in Nat
      BY CacheParts
    <2> HIDE DEF A
    <2>5. \A q \in A : InLru(d.obj[q], Len(d.lru))
      BY <2>1, <2>2, <2>4 DEF InLru
    <2>6. \A q \in A : c.obj[q].cell = k + i /\ d.obj[q].row = c.obj[q].row
      BY <2>1, <2>2, <2>5
    <2>7. Size(c, B) <= c.lru[k + i]
      BY <2>3 DEF Counts
    <2> HIDE DEF B
    <2>8. A \subseteq B
      BY <2>1, <2>2, <2>6
    <2>9. \A q \in A : d.obj[q].row <= c.obj[q].row
      <3>1. \A q \in A : c.obj[q].row \in Nat
        BY <2>1, CacheParts
      <3> QED BY <2>6, <3>1
    <2>10. Size(d, A) <= Size(c, B)
      BY <2>1, <2>8, <2>9, SizeLe
    <2>11. Size(d, A) \in Nat /\ Size(c, B) \in Nat /\ c.lru[k + i] \in Int
      <3>1. Size(d, A) \in Nat /\ Size(c, B) \in Nat
        BY <2>1, SizeTotal
      <3>2. c.lru \in Seq(Int)
        BY DEF Counts, Shaped
      <3> QED BY <2>3, <3>1, <3>2
    <2> QED BY <2>3, <2>7, <2>10, <2>11 DEF A
  <1> QED BY <1>1 DEF Counts

-----------------------------------------------------------------------------
\* A block is complete

\* What commit_revision does to an object, with L LRU cells
CommittedAt(o, p, L) ==
    /\ o.cell = L + 1 /\ o.stage = "Deleted" => p = Released
    /\ ~ (o.cell = L + 1 /\ o.stage = "Deleted") =>
          p.cell = o.cell /\ p.prev = NoCell /\ p.stage = o.stage /\ p.row = o.row

LEMMA CommitRevisionAt ==
    ASSUME TypeOK, NEW c, CacheType(c), Placement(c)
    PROVE  LET d == commit_revision(c)
               size == Size(c, InCell(c, {Len(c.lru) + 1}))
           IN  /\ d.lru = Append(c.lru, size) /\ d.ram_used = c.ram_used + size
               /\ \A q \in Pk : CommittedAt(c.obj[q], d.obj[q], Len(c.lru))
  <1> DEFINE L == Len(c.lru)
             d == commit_revision(c)
             mine == InCell(c, {L + 1})
             gone == {pk \in mine : c.obj[pk].stage = "Deleted"}
             size == Size(c, mine)
             ram == c.ram_used + size
             lru == Append(c.lru, size)
             objs == [pk \in Pk |-> [c.obj[pk] EXCEPT !.prev = NoCell]]
             c1 == [c EXCEPT !.pending = 0, !.lru = lru, !.ram_used = ram, !.obj = objs]
  <1>1. L \in Nat /\ IsSeq(c.lru)
    BY CacheParts DEF CacheType
  <1>2. d = ReleaseAll(c1, gone)
    BY DEF commit_revision
  <1>3. ASSUME NEW pk \in Pk
        PROVE  /\ objs[pk] \in Objects /\ objs[pk].prev = NoCell
               /\ objs[pk].stage = c.obj[pk].stage /\ objs[pk].row = c.obj[pk].row
               /\ objs[pk].cell = c.obj[pk].cell
    <2> DEFINE o == c.obj[pk]
               n == [o EXCEPT !.prev = NoCell]
    <2>1. o \in Objects /\ NoCell \in Int
      BY DEF CacheType, NoCell
    <2>2. objs[pk] = n
      OBVIOUS
    <2> HIDE DEF objs, o
    <2>3. n = [o EXCEPT !.prev = NoCell]
      OBVIOUS
    <2> HIDE DEF n
    <2>4. n \in Objects /\ n.stage = o.stage /\ n.row = o.row /\ n.cell = o.cell /\ n.prev = NoCell
      BY <2>1, <2>3 DEF Objects
    <2> QED BY <2>2, <2>4 DEF o
  <1>4. objs \in [Pk -> Objects]
    <2>1. objs = [pk \in Pk |-> objs[pk]]
      OBVIOUS
    <2> HIDE DEF objs
    <2> QED BY <1>3, <2>1
  <1>5. c1 = [c EXCEPT !.pending = 0, !.lru = lru, !.ram_used = ram, !.obj = objs]
    OBVIOUS
  <1>6. IsSeq(lru)
    BY <1>1, SeqParts
  <1>7. \A pk \in gone : pk \in Pk /\ c.obj[pk].cell # SystemCell
    BY <1>1 DEF InCell, SystemCell
  <1>8. \A pk \in Pk : pk \in gone <=> c.obj[pk].cell = L + 1 /\ c.obj[pk].stage = "Deleted"
    BY DEF InCell
  <1> HIDE DEF objs, c1, d, gone, mine, lru, size, ram
  <1>9. CacheType(c1) /\ c1.obj = objs /\ c1.lru = lru /\ c1.ram_used = ram
    BY <1>4, <1>5, <1>6 DEF CacheType
  <1>10. Placement(c1)
    BY <1>3, <1>9 DEF Placement, Cached
  <1>11. \A pk \in gone : pk \in Pk /\ c1.obj[pk].cell # SystemCell
    BY <1>3, <1>7, <1>9
  <1>12. /\ d.obj = [pk \in Pk |-> IF pk \in gone THEN Released ELSE c1.obj[pk]]
         /\ d.lru = c1.lru /\ d.ram_used = c1.ram_used
    BY <1>2, <1>9, <1>10, <1>11, ReleaseAllFacts, ReleaseAllRam
  <1>13. ASSUME NEW q \in Pk PROVE CommittedAt(c.obj[q], d.obj[q], L)
    <2>1. d.obj[q] = IF q \in gone THEN Released ELSE objs[q]
      BY <1>9, <1>12
    <2> QED BY <1>3, <1>8, <2>1 DEF CommittedAt
  <1> QED BY <1>9, <1>12, <1>13 DEF d, lru, ram, size, mine

\* The cell of the block counts what is in it, the others what did not leave them.
LEMMA CommitCounts ==
    ASSUME TypeOK, NEW c, CacheType(c), Placement(c), NEW rows, Right(c, rows), NEW stack,
           RamOf(c, rows, stack), c.pending = 1, BaseOf(c, rows, stack) \in [Pk -> Nat]
    PROVE  Counts(commit_revision(c))
  <1> DEFINE L == Len(c.lru)
             d == commit_revision(c)
             mine == InCell(c, {L + 1})
             size == Size(c, mine)
             base == BaseOf(c, rows, stack)
  <1>1. Shaped(c) /\ Covered(c, base) /\ Summed(c) /\ \A q \in Pk : Returns(c, base, rows, stack, q)
    BY DEF RamOf
  <1>2. L \in Nat /\ c.lru \in Seq(Int) /\ c.ram_used \in Int /\ L = Len(c.lru)
    BY <1>1, CacheParts DEF Shaped
  <1>3. mine \in SUBSET Pk /\ \A q \in Pk : q \in mine <=> c.obj[q].cell = L + 1
    BY DEF InCell
  <1>4. size \in Nat
    <2> HIDE DEF mine
    <2> QED BY <1>3, SizeTotal
  <1>5. /\ d.lru = Append(c.lru, size) /\ d.ram_used = c.ram_used + size
        /\ \A q \in Pk : CommittedAt(c.obj[q], d.obj[q], L)
    BY CommitRevisionAt
  <1>6. CacheType(d) /\ d.pending = 0
    BY CommitRevision DEF Ends
  <1>7. \A q \in Pk : /\ c.obj[q].cell <= L /\ Home(c, q) # NoCell => rows[q] = base[q]
    BY <1>1 DEF Returns
  <1>8. \A i \in 1 .. L : Total(base, Homes(c, i)) <= c.lru[i]
    BY <1>1 DEF Covered
  <1>9. \A q \in Pk : base[q] \in Nat
    OBVIOUS
  <1> HIDE DEF d, mine, base
  <1>10. d.lru \in Seq(Int) /\ SumSeq(d.lru) = SumSeq(c.lru) + size /\ d.ram_used \in Int
    BY <1>2, <1>4, <1>5, SumSeqAppend
  <1>11. Len(d.lru) = L + 1 /\ d.lru[L + 1] = size /\ \A i \in 1 .. L : d.lru[i] = c.lru[i]
    <2> HIDE DEF size, L
    <2>1. c.lru \in Seq(Int) /\ size \in Int /\ d.lru = Append(c.lru, size)
      BY <1>2, <1>4, <1>5
    <2> QED BY <2>1 DEF L
  <1>12. Summed(d)
    BY <1>1, <1>5, <1>10 DEF Summed
  <1> HIDE DEF L, size
  <1>13. \A q \in Pk : /\ c.obj[q] \in Objects /\ d.obj[q] \in Objects
                       /\ c.obj[q].cell \in Int /\ d.obj[q].cell \in Int /\ d.obj[q].row \in Nat
    BY <1>6, CacheParts
  <1>14. ASSUME NEW q \in Pk PROVE ShapeOf(d.obj[q], L + 1, 0)
    <2> DEFINE o == c.obj[q]
               x == d.obj[q]
    <2>1. ShapeOf(o, L, 1)
      BY <1>1, <1>2 DEF Shaped
    <2>2. CommittedAt(o, x, L) /\ o.cell \in Int /\ x.cell \in Int
      BY <1>5, <1>13
    <2> HIDE DEF o, x
    <2>3. ASSUME o.cell = L + 1, o.stage = "Deleted" PROVE ShapeOf(x, L + 1, 0)
      <3>1. x.cell = NoCell /\ x.prev = NoCell /\ x.stage = "Released"
        BY <2>2, <2>3, ReleasedFacts DEF CommittedAt
      <3> QED BY <1>2, <3>1 DEF ShapeOf, NoCell
    <2>4. ASSUME ~ (o.cell = L + 1 /\ o.stage = "Deleted") PROVE ShapeOf(x, L + 1, 0)
      <3>1. x.cell = o.cell /\ x.prev = NoCell /\ x.stage = o.stage
        BY <2>2, <2>4 DEF CommittedAt
      <3>2. x.stage # "Deleted"
        BY <1>2, <2>1, <2>2, <2>4, <3>1 DEF ShapeOf
      <3> QED BY <1>2, <2>1, <2>2, <3>1, <3>2 DEF ShapeOf, NoCell
    <2> QED BY <2>3, <2>4 DEF x
  <1>15. Shaped(d)
    BY <1>6, <1>10, <1>11, <1>14 DEF Shaped
  <1>16. ASSUME NEW i \in 1 .. L + 1 PROVE Size(d, InCell(d, {i})) <= d.lru[i]
    <2> DEFINE A == InCell(d, {i})
    <2>1. A \in SUBSET Pk /\ \A q \in A : d.obj[q].cell = i
      BY DEF InCell
    <2> HIDE DEF A
    <2>2. i # NoCell /\ (i = L + 1 \/ i \in 1 .. L)
      BY <1>2 DEF NoCell
    <2>3. ASSUME NEW q \in A PROVE c.obj[q].cell = i /\ d.obj[q].row = c.obj[q].row
      <3>1. d.obj[q] # Released
        BY <2>1, <2>2, ReleasedFacts
      <3> QED BY <1>5, <2>1, <3>1 DEF CommittedAt
    <2>4. CASE i = L + 1
      <3>1. A \subseteq mine
        BY <1>3, <2>1, <2>3, <2>4
      <3>2. \A q \in A : d.obj[q].row <= c.obj[q].row
        BY <1>13, <2>1, <2>3
      <3>3. Size(d, A) <= Size(c, mine)
        BY <1>3, <1>6, <2>1, <3>1, <3>2, SizeLe
      <3> QED BY <1>11, <2>4, <3>3 DEF size, A
    <2>5. CASE i \in 1 .. L
      <3> DEFINE B == Homes(c, i)
      <3>1. B \in SUBSET Pk /\ \A q \in Pk : Home(c, q) = i => q \in B
        BY DEF Homes
      <3> HIDE DEF B
      <3>2. ASSUME NEW q \in A PROVE q \in B /\ Rows(d)[q] = base[q]
        <4>1. q \in Pk /\ c.obj[q].cell = i /\ d.obj[q].row = c.obj[q].row
          BY <2>1, <2>3
        <4>2. InLru(c.obj[q], Len(c.lru)) /\ i <= L
          BY <1>2, <2>5, <4>1 DEF InLru
        <4>3. Cached(c, q) /\ Home(c, q) = i
          BY <1>1, <4>1, <4>2, ShapedLru
        <4>4. c.obj[q].row = rows[q] /\ rows[q] = base[q]
          BY <1>7, <2>2, <4>1, <4>2, <4>3 DEF Right
        <4>5. Rows(d)[q] = d.obj[q].row
          BY <4>1 DEF Rows
        <4> QED BY <3>1, <4>1, <4>3, <4>4, <4>5
      <3>3. Size(d, A) = Total(Rows(d), A) /\ \A q \in A : Rows(d)[q] \in Nat
        BY <1>6, <2>1, SizeTotal
      <3>4. Total(Rows(d), A) <= Total(base, B)
        <4>1. \A q \in B : base[q] \in Nat
          BY <1>9, <3>1
        <4>2. \A q \in A : Rows(d)[q] \in Nat /\ Rows(d)[q] <= base[q]
          BY <3>2, <3>3
        <4>3. A \subseteq B
          BY <3>2
        <4> QED BY <2>1, <3>1, <4>1, <4>2, <4>3, TotalLe
      <3>5. Total(base, B) <= d.lru[i] /\ Total(base, B) \in Nat /\ Total(Rows(d), A) \in Nat /\ d.lru[i] \in Int
        <4>1. Total(base, B) <= d.lru[i]
          BY <1>8, <1>11, <2>5 DEF B
        <4>2. Total(base, B) \in Nat
          BY <1>9, <3>1, TotalNat
        <4>3. Total(Rows(d), A) \in Nat
          BY <2>1, <3>3, TotalNat
        <4>4. d.lru[i] \in Int
          <5>1. c.lru[i] \in Int
            BY <1>2, <2>5
          <5> QED BY <1>11, <2>5, <5>1
        <4> QED BY <4>1, <4>2, <4>3, <4>4
      <3> QED BY <3>3, <3>4, <3>5 DEF A
    <2> QED BY <2>2, <2>4, <2>5
  <1> QED BY <1>6, <1>11, <1>12, <1>15, <1>16 DEF Counts, d

\* Cells without a size go, and their objects with them.
LEMMA PopEmptyCounts ==
    ASSUME TypeOK, NEW c, CacheType(c), Placement(c), Counts(c)
    PROVE  Counts(PopEmpty(c))
  <1> DEFINE L == Len(c.lru)
             Empty(i) == (i > 0 => c.lru[i] # 0) /\ \A j \in i + 1 .. L : c.lru[j] = 0
             n == CHOOSE i \in 0 .. L : Empty(i)
             gone == InCell(c, n + 1 .. L)
             e == ReleaseAll(c, gone)
             lru == SubSeq(c.lru, 1, n)
             rest == SubSeq(c.lru, n + 1, L)
             d == PopEmpty(c)
  <1>1. /\ L \in Nat /\ c.lru \in Seq(Int) /\ c.ram_used \in Int /\ c.ram_used = SumSeq(c.lru)
        /\ c.pending = 0 /\ \A q \in Pk : ShapeOf(c.obj[q], L, 0)
    BY CacheParts DEF Counts, Shaped, Summed
  <1>2. n \in 0 .. L /\ \A j \in n + 1 .. L : c.lru[j] = 0
    <2> DEFINE S == {i \in 0 .. L : \A j \in i + 1 .. L : c.lru[j] = 0}
    <2>1. L \in S /\ S \subseteq Nat
      BY <1>1
    <2>2. PICK i \in S : \A k \in S : i <= k
      <3> HIDE DEF S
      <3> QED BY <2>1, NatMin
    <2>3. i > 0 => c.lru[i] # 0
      <3> SUFFICES ASSUME i > 0, c.lru[i] = 0 PROVE FALSE
        OBVIOUS
      <3>1. i - 1 \in 0 .. L /\ i \in 0 .. L
        BY <1>1, <2>2
      <3>2. \A j \in (i - 1) + 1 .. L : c.lru[j] = 0
        <4>1. \A j \in (i - 1) + 1 .. L : j = i \/ j \in i + 1 .. L
          BY <1>1, <3>1
        <4> QED BY <2>2, <4>1
      <3>3. i - 1 \in S
        BY <3>1, <3>2
      <3> HIDE DEF S
      <3>4. i <= i - 1
        BY <2>2, <3>3
      <3> QED BY <3>1, <3>4
    <2>4. Empty(i) /\ i \in 0 .. L
      BY <2>2, <2>3
    <2> HIDE DEF Empty
    <2>5. n \in 0 .. L /\ Empty(n)
      BY <2>4
    <2> HIDE DEF n
    <2> QED BY <2>5 DEF Empty
  <1>3. d = [e EXCEPT !.lru = SubSeq(@, 1, n)]
    BY DEF PopEmpty
  <1>4. \A pk \in gone : pk \in Pk /\ c.obj[pk].cell # SystemCell
    BY <1>1, <1>2 DEF InCell, SystemCell
  <1>5. \A pk \in Pk : pk \in gone <=> c.obj[pk].cell \in n + 1 .. L
    BY DEF InCell
  <1>6. n \in Nat /\ n <= L /\ L = Len(c.lru)
    BY <1>1, <1>2
  <1> HIDE DEF n, gone, d
  <1>7. /\ CacheType(e) /\ e.lru = c.lru /\ e.pending = c.pending /\ e.ram_used = c.ram_used
        /\ e.obj = [pk \in Pk |-> IF pk \in gone THEN Released ELSE c.obj[pk]]
    BY <1>4, ReleaseAllFacts, ReleaseAllRam
  <1> HIDE DEF e
  <1>8. d = [e EXCEPT !.lru = lru]
    BY <1>3, <1>7
  <1>9. /\ lru \in Seq(Int) /\ Len(lru) = n /\ (\A i \in 1 .. n : lru[i] = c.lru[i])
        /\ rest \in Seq(Int) /\ Len(rest) = L - n /\ (\A i \in 1 .. L - n : rest[i] = c.lru[n + i])
        /\ SumSeq(lru) \in Int /\ SumSeq(rest) \in Int /\ SumSeq(c.lru) = SumSeq(lru) + SumSeq(rest)
    BY <1>1, <1>6, SumSeqCut
  <1> HIDE DEF lru, rest, L
  <1>10. d.obj = e.obj /\ d.lru = lru /\ d.pending = e.pending /\ d.ram_used = e.ram_used
    BY <1>7, <1>8 DEF CacheType
  <1>11. CacheType(d)
    BY PopEmptyFacts DEF Ends, d
  <1>12. SumSeq(rest) = 0
    <2> DEFINE m == L - n
    <2>1. m \in Nat /\ Len(rest) = m /\ \A i \in 1 .. m : n + i \in n + 1 .. L
      BY <1>1, <1>6, <1>9
    <2>2. \A i \in 1 .. m : rest[i] \in Int /\ rest[i] = rest[i] + rest[i]
      <3>1. \A i \in 1 .. m : rest[i] = c.lru[n + i]
        BY <1>9
      <3>2. \A i \in 1 .. m : rest[i] = 0
        BY <1>2, <2>1, <3>1
      <3> QED BY <3>2
    <2> HIDE DEF m
    <2>3. SumTo(rest, m) = SumTo(rest, m) + SumTo(rest, m)
      BY <2>1, <2>2, SumAdd, ZenonT(40)
    <2>4. SumSeq(rest) = SumTo(rest, m)
      BY <2>1 DEF SumSeq
    <2> QED BY <1>9, <2>3, <2>4
  <1>13. Summed(d) /\ d.ram_used \in Int
    BY <1>1, <1>7, <1>9, <1>10, <1>12 DEF Summed
  <1>14. ASSUME NEW q \in Pk
         PROVE  /\ ShapeOf(d.obj[q], n, 0)
                /\ d.obj[q].cell > 0 => d.obj[q] = c.obj[q]
    <2>1. d.obj[q] = IF q \in gone THEN Released ELSE c.obj[q]
      BY <1>7, <1>10
    <2>2. CASE q \in gone
      <3>1. d.obj[q].cell = NoCell /\ d.obj[q].prev = NoCell /\ d.obj[q].stage = "Released"
        BY <2>1, <2>2, ReleasedFacts
      <3> QED BY <1>6, <3>1 DEF ShapeOf, NoCell
    <2>3. CASE q \notin gone
      <3>1. d.obj[q] = c.obj[q] /\ c.obj[q].cell \in Int /\ ShapeOf(c.obj[q], L, 0)
        BY <1>1, <2>1, <2>3, CacheParts
      <3>2. ~ (c.obj[q].cell > n)
        BY <1>1, <1>5, <1>6, <2>3, <3>1 DEF ShapeOf
      <3>3. c.obj[q].cell <= n /\ n + 0 = n /\ n <= L
        BY <1>6, <3>1, <3>2
      <3> DEFINE o == c.obj[q]
      <3>4. ShapeOf(o, L, 0) /\ o.cell <= n /\ o.cell \in Int
        BY <3>1, <3>3
      <3> HIDE DEF o
      <3>5. /\ - 1 <= o.cell /\ 0 <= o.prev /\ o.prev <= L /\ (o.cell <= L => o.prev = NoCell)
            /\ (o.stage = "Deleted" => o.cell > L) /\ (o.stage = "Released" => o.cell = NoCell)
        BY <3>4 DEF ShapeOf
      <3>6. o.cell <= L /\ L \in Nat /\ n \in Nat
        BY <1>1, <1>6, <3>4
      <3>7. o.prev = NoCell /\ o.stage # "Deleted"
        BY <3>4, <3>5, <3>6
      <3>8. ShapeOf(o, n, 0)
        BY <3>3, <3>4, <3>5, <3>6, <3>7 DEF ShapeOf, NoCell
      <3> QED BY <3>1, <3>8 DEF o
    <2> QED BY <2>2, <2>3
  <1>15. Shaped(d) /\ d.pending = 0
    BY <1>1, <1>7, <1>9, <1>10, <1>13, <1>14 DEF Shaped
  <1>16. \A i \in 1 .. Len(d.lru) : 0 + i \in 1 .. Len(c.lru) /\ d.lru[i] = c.lru[0 + i]
    <2>1. \A i \in 1 .. n : 0 + i = i /\ i \in 1 .. L
      BY <1>1, <1>6
    <2> QED BY <1>6, <1>9, <1>10, <2>1
  <1>17. \A q \in Pk : InLru(d.obj[q], Len(d.lru)) =>
               c.obj[q].cell = 0 + d.obj[q].cell /\ d.obj[q].row = c.obj[q].row
    <2> SUFFICES ASSUME NEW q \in Pk, InLru(d.obj[q], Len(d.lru))
                 PROVE  c.obj[q].cell = 0 + d.obj[q].cell /\ d.obj[q].row = c.obj[q].row
      OBVIOUS
    <2>1. d.obj[q].cell \in Int
      BY <1>11, CacheParts
    <2>2. d.obj[q].cell > 0
      BY <2>1 DEF InLru
    <2> QED BY <1>14, <2>1, <2>2
  <1>18. 0 \in Nat
    OBVIOUS
  <1>19. Counts(d)
    BY <1>11, <1>13, <1>15, <1>16, <1>17, <1>18, CellsKept
  <1> QED BY <1>19 DEF d

\* What clear_overused_ram does to an object, if the first n cells go
ClearedAt(o, p, n) ==
    /\ 1 <= o.cell /\ o.cell <= n => p = Released
    /\ o.cell > n => p.cell = o.cell - n /\ p.prev = o.prev /\ p.stage = o.stage /\ p.row = o.row
    /\ o.cell < 1 => p = o

\* The place of an object when the first n cells go
LEMMA ClearedHome ==
    ASSUME NEW o \in Objects, NEW p \in Objects, NEW L \in Nat, NEW n \in Nat, n <= L,
           ShapeOf(o, L, 0), ClearedAt(o, p, n)
    PROVE  ShapeOf(p, L - n, 0) /\ (p.cell > 0 => o.cell = n + p.cell /\ p.row = o.row)
  <1>1. /\ o.cell \in Int /\ p.cell \in Int /\ o.prev \in Int /\ p.prev \in Int
        /\ o.cell <= L /\ o.prev = NoCell /\ o.stage # "Deleted" /\ - 1 <= o.cell
        /\ o.stage = "Released" => o.cell = NoCell
    BY DEF Objects, ShapeOf
  <1> DEFINE m == L - n
  <1>2. m \in Nat /\ m + 0 = m
    OBVIOUS
  <1>3. CASE 1 <= o.cell /\ o.cell <= n
    <2>1. p.cell = 0 /\ p.prev = 0 /\ p.stage = "Released"
      BY <1>3, ReleasedFacts DEF ClearedAt, NoCell
    <2> HIDE DEF m
    <2>2. ShapeOf(p, m, 0)
      BY <1>2, <2>1 DEF ShapeOf, NoCell
    <2> QED BY <2>1, <2>2 DEF m
  <1>4. CASE o.cell > n
    <2>1. p.cell = o.cell - n /\ p.prev = o.prev /\ p.stage = o.stage /\ p.row = o.row
      BY <1>4 DEF ClearedAt
    <2>2. p.cell <= m /\ 1 <= p.cell /\ o.cell = n + p.cell /\ o.stage # "Released"
      BY <1>1, <1>4, <2>1 DEF NoCell
    <2> HIDE DEF m
    <2>3. ShapeOf(p, m, 0)
      BY <1>1, <1>2, <2>1, <2>2 DEF ShapeOf, NoCell
    <2> QED BY <2>1, <2>2, <2>3 DEF m
  <1>5. CASE o.cell < 1
    <2>1. p = o
      BY <1>5 DEF ClearedAt
    <2>2. o.cell <= 0
      BY <1>1, <1>5
    <2> HIDE DEF m
    <2>3. ShapeOf(o, m, 0)
      BY <1>1, <1>2, <2>2 DEF ShapeOf, NoCell
    <2> QED BY <1>1, <2>1, <2>2, <2>3 DEF m
  <1> QED BY <1>1, <1>3, <1>4, <1>5

\* The oldest cells go with their objects and their sizes.
LEMMA ClearCounts ==
    ASSUME TypeOK, NEW c, CacheType(c), Placement(c), Counts(c)
    PROVE  Counts(clear_overused_ram(c))
  <1> DEFINE L == Len(c.lru)
             Left(i) == c.ram_used - SumSeq(SubSeq(c.lru, 1, i))
             S == {i \in 0 .. L : Left(i) <= table.ram_limit \/ i = L}
             n == Min(S)
             gone == InCell(c, 1 .. n)
             e == ReleaseAll(c, gone)
             objs == [pk \in Pk |-> IF e.obj[pk].cell > n THEN Moved(e.obj[pk], n) ELSE e.obj[pk]]
             lru == SubSeq(c.lru, n + 1, L)
             ram == Left(n)
             d == clear_overused_ram(c)
  <1>1. /\ L \in Nat /\ c.lru \in Seq(Int) /\ c.ram_used \in Int /\ c.ram_used = SumSeq(c.lru)
        /\ c.pending = 0 /\ \A q \in Pk : ShapeOf(c.obj[q], L, 0)
    BY CacheParts DEF Counts, Shaped, Summed
  <1>2. n \in 0 .. L
    <2>1. L \in S /\ S \subseteq 0 .. L /\ S \subseteq Nat
      BY <1>1
    <2> HIDE DEF S
    <2>2. \E x \in S : \A y \in S : x <= y
      BY <2>1, NatMin
    <2>3. n \in S
      BY <2>2 DEF Min
    <2> QED BY <2>1, <2>3
  <1>3. d = [e EXCEPT !.lru = SubSeq(@, n + 1, Len(@)), !.ram_used = Left(n),
                      !.obj = [pk \in Pk |-> IF @[pk].cell > n THEN Moved(@[pk], n) ELSE @[pk]]]
    BY DEF clear_overused_ram
  <1>4. \A pk \in gone : pk \in Pk /\ c.obj[pk].cell # SystemCell
    BY <1>1, <1>2 DEF InCell, SystemCell
  <1>5. \A pk \in Pk : pk \in gone <=> c.obj[pk].cell \in 1 .. n
    BY DEF InCell
  <1>6. n \in Nat /\ n <= L /\ L = Len(c.lru)
    BY <1>1, <1>2
  <1> HIDE DEF n, gone
  <1>7. /\ CacheType(e) /\ e.lru = c.lru /\ e.pending = c.pending /\ e.ram_used = c.ram_used
        /\ e.obj = [pk \in Pk |-> IF pk \in gone THEN Released ELSE c.obj[pk]]
    BY <1>4, ReleaseAllFacts, ReleaseAllRam
  <1> HIDE DEF e, d
  <1>8. d = [e EXCEPT !.lru = lru, !.ram_used = ram, !.obj = objs]
    BY <1>3, <1>7
  <1>9. /\ lru \in Seq(Int) /\ Len(lru) = L - n /\ (\A i \in 1 .. L - n : lru[i] = c.lru[n + i])
        /\ ram = SumSeq(lru) /\ ram \in Int
    <2>1. /\ SumSeq(SubSeq(c.lru, 1, n)) \in Int /\ SumSeq(lru) \in Int
          /\ SumSeq(c.lru) = SumSeq(SubSeq(c.lru, 1, n)) + SumSeq(lru)
          /\ lru \in Seq(Int) /\ Len(lru) = L - n /\ (\A i \in 1 .. L - n : lru[i] = c.lru[n + i])
      BY <1>1, <1>6, SumSeqCut
    <2>2. ram = SumSeq(c.lru) - SumSeq(SubSeq(c.lru, 1, n))
      BY <1>1
    <2> HIDE DEF lru, ram, L
    <2> QED BY <2>1, <2>2
  <1>10. ASSUME NEW pk \in Pk
         PROVE  ClearedAt(c.obj[pk], objs[pk], n)
    <2> DEFINE o == e.obj[pk]
               k == o.cell - n
               m == [o EXCEPT !.cell = k]
               x == objs[pk]
    <2>1. o \in Objects /\ c.obj[pk].cell \in Int
      BY <1>7, CacheParts
    <2>2. o.cell \in Int /\ k \in Int
      BY <1>6, <2>1 DEF Objects
    <2>3. x = IF o.cell > n THEN m ELSE o
      BY DEF Moved
    <2>4. o = IF pk \in gone THEN Released ELSE c.obj[pk]
      BY <1>7
    <2>5. k = o.cell - n
      OBVIOUS
    <2> HIDE DEF objs, o, k, x
    <2>6. m = [o EXCEPT !.cell = k]
      OBVIOUS
    <2> HIDE DEF m
    <2>7. m.stage = o.stage /\ m.row = o.row /\ m.cell = k /\ m.prev = o.prev
      BY <2>1, <2>6 DEF Objects
    <2>8. CASE pk \in gone
      <3>1. o = Released /\ o.cell = 0 /\ c.obj[pk].cell \in 1 .. n
        BY <1>5, <2>4, <2>8, ReleasedFacts DEF NoCell
      <3>2. ~ (o.cell > n)
        BY <1>6, <3>1
      <3>3. x = Released
        BY <2>3, <3>1, <3>2
      <3>4. ~ (c.obj[pk].cell > n) /\ ~ (c.obj[pk].cell < 1)
        BY <1>6, <2>1, <3>1
      <3> QED BY <3>3, <3>4 DEF ClearedAt, x
    <2>9. CASE pk \notin gone
      <3>1. o = c.obj[pk] /\ ~ (c.obj[pk].cell \in 1 .. n)
        BY <1>5, <2>4, <2>9
      <3>2. ~ (1 <= o.cell /\ o.cell <= n)
        BY <1>6, <2>2, <3>1
      <3>3. o.cell > n => x.cell = o.cell - n /\ x.prev = o.prev /\ x.stage = o.stage /\ x.row = o.row
        BY <2>3, <2>5, <2>7
      <3>4. o.cell < 1 => x = o
        BY <1>6, <2>2, <2>3
      <3> QED BY <3>1, <3>2, <3>3, <3>4 DEF ClearedAt, x
    <2> QED BY <2>8, <2>9
  <1> HIDE DEF lru, ram, objs
  <1>11. d.obj = objs /\ d.lru = lru /\ d.pending = e.pending /\ d.ram_used = ram
    BY <1>7, <1>8 DEF CacheType
  <1>12. CacheType(d)
    BY ClearOverusedRam DEF Ends, d
  <1>13. Summed(d)
    BY <1>9, <1>11 DEF Summed
  <1> DEFINE m == L - n
  <1>14. m \in Nat /\ Len(d.lru) = m /\ \A i \in 1 .. m : n + i \in 1 .. L /\ d.lru[i] = c.lru[n + i]
    BY <1>1, <1>6, <1>9, <1>11
  <1> HIDE DEF L
  <1>15. ASSUME NEW q \in Pk
         PROVE  /\ ShapeOf(d.obj[q], m, 0)
                /\ d.obj[q].cell > 0 => c.obj[q].cell = n + d.obj[q].cell /\ d.obj[q].row = c.obj[q].row
    <2>1. c.obj[q] \in Objects /\ d.obj[q] \in Objects
      BY <1>12, CacheParts
    <2>2. ShapeOf(c.obj[q], L, 0) /\ ClearedAt(c.obj[q], d.obj[q], n)
      BY <1>1, <1>10, <1>11
    <2> QED BY <1>1, <1>6, <2>1, <2>2, ClearedHome
  <1> HIDE DEF m
  <1>16. Shaped(d) /\ d.pending = 0
    BY <1>1, <1>7, <1>9, <1>11, <1>14, <1>15 DEF Shaped
  <1>17. \A i \in 1 .. Len(d.lru) : n + i \in 1 .. Len(c.lru) /\ d.lru[i] = c.lru[n + i]
    BY <1>6, <1>14
  <1>18. \A q \in Pk : InLru(d.obj[q], Len(d.lru)) =>
               c.obj[q].cell = n + d.obj[q].cell /\ d.obj[q].row = c.obj[q].row
    <2> SUFFICES ASSUME NEW q \in Pk, InLru(d.obj[q], Len(d.lru))
                 PROVE  c.obj[q].cell = n + d.obj[q].cell /\ d.obj[q].row = c.obj[q].row
      OBVIOUS
    <2>1. d.obj[q].cell \in Int
      BY <1>12, CacheParts
    <2>2. d.obj[q].cell > 0
      BY <2>1 DEF InLru
    <2> QED BY <1>15, <2>2
  <1>19. Counts(d)
    BY <1>6, <1>12, <1>13, <1>16, <1>17, <1>18, CellsKept
  <1> QED BY <1>19 DEF d

\* A block is complete, and the cells that remain count their objects.
LEMMA PushRam ==
    ASSUME IInv, RamInv, push_revision
    PROVE  RamInv'
  <1> DEFINE c1 == commit_revision(cache)
             c2 == PopEmpty(c1)
             n == Len(undo)
  <1>1. /\ n \in Nat /\ db \in [Pk -> Nat] /\ CacheType(cache) /\ Placement(cache) /\ Right(cache, db)
        /\ cache.pending <= n /\ (\A i \in 1 .. n : undo[i] \in Sessions) /\ TypeOK
    BY StackFacts DEF IInv
  <1>2. /\ cache.pending = 1 /\ cache' = push_session(cache)
        /\ table' = table /\ db' = db /\ undo' = undo
    BY DEF push_revision
  <1>3. BaseOf(cache, db, undo) \in [Pk -> Nat]
    <2>1. n - 1 + 1 = n /\ n \in 1 .. n
      BY <1>1, <1>2
    <2>2. BaseOf(cache, db, undo) = undo[n - 1 + 1].snap
      BY <1>2 DEF BaseOf
    <2> HIDE DEF n
    <2>3. undo[n] \in Sessions
      BY <1>1, <2>1
    <2> QED BY <2>1, <2>2, <2>3 DEF Sessions
  <1>4. Counts(c1)
    BY <1>1, <1>2, <1>3, CommitCounts DEF RamInv
  <1>5. CacheType(c1) /\ Placement(c1)
    BY <1>1, CommitRevision DEF Ends
  <1> HIDE DEF c1
  <1>6. Counts(c2)
    BY <1>1, <1>4, <1>5, PopEmptyCounts
  <1>7. CacheType(c2) /\ Placement(c2)
    BY <1>5, PopEmptyFacts DEF Ends
  <1>8. cache' = clear_overused_ram(c2)
    BY <1>2 DEF push_session, c1
  <1> HIDE DEF c2
  <1>9. Counts(cache')
    BY <1>1, <1>6, <1>7, <1>8, ClearCounts
  <1>10. Ends(cache, cache') /\ cache'.pending = 0
    BY <1>1, <1>2, PushSession
  <1>11. CacheType(cache') /\ Right(cache', db)
    BY <1>1, <1>10, KeepsRight DEF Ends
  <1>12. RamOf(cache', db, undo)
    BY <1>1, <1>9, <1>10, <1>11, CountsRam
  <1> QED BY <1>2, <1>12, RamPrimed

-----------------------------------------------------------------------------
\* A block is popped, the node restarts

\* An object without a pending cell to go to stays in its LRU cell.
LEMMA StaysCell ==
    ASSUME NEW o \in Objects, NEW p \in Objects, NEW L \in Nat, ShapeOf(o, L, 0), Stays(o, p, L, 0)
    PROVE  \A i \in 1 .. L : p.cell = i <=> o.cell = i
  <1> SUFFICES ASSUME NEW i \in 1 .. L PROVE p.cell = i <=> o.cell = i
    OBVIOUS
  <1>1. o.cell \in Int /\ p.cell \in Int /\ o.cell <= L
    BY DEF Objects, ShapeOf
  <1>2. 1 <= i /\ i <= L
    OBVIOUS
  <1>3. CASE p.cell = o.cell
    BY <1>3
  <1>4. CASE HomeOf(o, L) = NoCell /\ (p.cell = NoCell \/ p.cell = SystemCell)
    BY <1>1, <1>2, <1>4 DEF HomeOf, NoCell, SystemCell
  <1>5. p.cell = o.cell \/ (HomeOf(o, L) = NoCell /\ (p.cell = NoCell \/ p.cell = SystemCell))
    BY <1>1 DEF Stays
  <1> QED BY <1>3, <1>4, <1>5

\* The sizes of a part of the objects of each cell
LEMMA CellSizes ==
    ASSUME TypeOK, NEW c, CacheType(c), NEW d, CacheType(d), NEW X \in SUBSET Pk, NEW L \in Nat,
           NEW f, \A i \in 1 .. L : f[i] = Size(c, OfCell(d, X, i))
    PROVE  /\ SumTo(f, L) = Size(c, OfCells(d, X, L)) /\ SumTo(f, L) \in Int
           /\ \A i \in 1 .. L : f[i] \in Nat
  <1> DEFINE R == Rows(c)
  <1>1. OfCells(d, X, L) \in SUBSET Pk /\ \A i : OfCell(d, X, i) \in SUBSET Pk
    BY DEF OfCell, OfCells
  <1>2. Size(c, OfCells(d, X, L)) = Total(R, OfCells(d, X, L)) /\ Size(c, OfCells(d, X, L)) \in Nat
    BY <1>1, SizeTotal
  <1>3. \A i : Size(c, OfCell(d, X, i)) = Total(R, OfCell(d, X, i)) /\ Size(c, OfCell(d, X, i)) \in Nat
    BY <1>1, SizeTotal
  <1>4. {} \in SUBSET Pk
    OBVIOUS
  <1>5. \A pk \in X : R[pk] \in Nat
    BY <1>4, SizeTotal
  <1>6. \A i \in 1 .. L : f[i] = Total(R, OfCell(d, X, i)) /\ f[i] \in Nat
    BY <1>3
  <1> HIDE DEF R
  <1>7. SumTo(f, L) = Total(R, OfCells(d, X, L))
    BY <1>5, <1>6, CellsSum
  <1> QED BY <1>2, <1>6, <1>7

\* Rows enter the cache when no session is open: a cell counts what its objects gain.
LEMMA EmplaceAllCounts ==
    ASSUME TypeOK, NEW c, CacheType(c), Placement(c), Counts(c),
           NEW rows \in [Pk -> Nat], NEW pks \in SUBSET Pk, \A pk \in pks : rows[pk] # NoRow
    PROVE  Counts(EmplaceAll(c, rows, pks))
  <1> DEFINE d == EmplaceAll(c, rows, pks)
             L == Len(c.lru)
             After(i) == Size(d, OfCell(d, pks, i))
             Before(i) == Size(c, OfCell(d, pks, i))
             g == [i \in 1 .. L |-> After(i) - Before(i)]
             after == [i \in 1 .. L |-> After(i)]
             before == [i \in 1 .. L |-> Before(i)]
             T == Size(d, OfCells(d, pks, L))
             U == Size(c, OfCells(d, pks, L))
  <1>1. /\ L \in Nat /\ c.lru \in Seq(Int) /\ c.ram_used \in Int /\ c.ram_used = SumSeq(c.lru)
        /\ c.pending = 0 /\ Shaped(c) /\ L = Len(c.lru)
        /\ \A i \in 1 .. L : Size(c, InCell(c, {i})) <= c.lru[i]
    BY CacheParts DEF Counts, Shaped, Summed
  <1>2. EmplacedAll(c, d, pks)
    BY <1>1, EmplaceAllAt
  <1>3. CacheType(d) /\ d.pending = 0 /\ \A q \in Pk \ pks : d.obj[q] = c.obj[q]
    BY <1>1, EmplaceAllFacts DEF EnterAll
  <1> HIDE DEF d
  <1>4. /\ \A q \in pks : Stays(c.obj[q], d.obj[q], L, 0) /\ Staged(d.obj[q], L)
        /\ d.lru = [i \in 1 .. L |-> c.lru[i] + (After(i) - Before(i))]
        /\ d.ram_used = c.ram_used + (T - U)
    BY <1>1, <1>2 DEF EmplacedAll, OfCell, OfCells
  <1>5. SumTo(after, L) = T /\ T \in Int /\ \A i \in 1 .. L : After(i) \in Nat
    <2>1. L \in Nat /\ \A i \in 1 .. L : after[i] = After(i)
      BY <1>1
    <2> HIDE DEF after, L
    <2>2. SumTo(after, L) = T /\ SumTo(after, L) \in Int /\ \A i \in 1 .. L : after[i] \in Nat
      BY <1>3, <2>1, CellSizes, SMTT(40)
    <2> QED BY <2>1, <2>2
  <1>6. SumTo(before, L) = U /\ U \in Int /\ \A i \in 1 .. L : Before(i) \in Nat
    <2>1. L \in Nat /\ \A i \in 1 .. L : before[i] = Before(i)
      BY <1>1
    <2> HIDE DEF before, L
    <2>2. SumTo(before, L) = U /\ SumTo(before, L) \in Int /\ \A i \in 1 .. L : before[i] \in Nat
      BY <1>3, <2>1, CellSizes, SMTT(40)
    <2> QED BY <2>1, <2>2
  <1> HIDE DEF L, T, U
  <1>7. \A i \in 1 .. L : g[i] = After(i) - Before(i) /\ after[i] = After(i) /\ before[i] = Before(i)
    OBVIOUS
  <1> HIDE DEF g, after, before, After, Before
  <1>8. \A i \in 1 .. L : c.lru[i] \in Int
    <2>1. c.lru \in Seq(Int)
      BY <1>1
    <2> QED BY <2>1 DEF L
  <1>9. \A i \in 1 .. L : g[i] \in Int /\ before[i] \in Int /\ after[i] = g[i] + before[i]
    BY <1>5, <1>6, <1>7
  <1>10. SumTo(after, L) = SumTo(g, L) + SumTo(before, L)
    <2>1. L \in Nat
      BY <1>1
    <2> QED BY <1>9, <2>1, SumAdd, ZenonT(40)
  <1>11. SumTo(g, L) \in Int
    <2>1. \A k \in 0 .. L : SumTo(g, k) \in Int
      BY <1>1, <1>9, SumInt
    <2> QED BY <1>1, <2>1
  <1>12. /\ d.lru \in Seq(Int) /\ Len(d.lru) = L
         /\ \A i \in 1 .. L : d.lru[i] = c.lru[i] + g[i]
    <2> DEFINE E(i) == c.lru[i] + (After(i) - Before(i))
    <2>1. \A i \in 1 .. L : E(i) \in Int /\ E(i) = c.lru[i] + g[i]
      BY <1>7, <1>8, <1>9
    <2>2. d.lru = [i \in 1 .. L |-> E(i)]
      BY <1>4
    <2> HIDE DEF E
    <2>3. d.lru \in [1 .. L -> Int]
      BY <2>1, <2>2
    <2>4. d.lru \in Seq(Int) /\ Len(d.lru) = L
      <3>1. L \in Nat
        BY <1>1
      <3> QED BY <2>3, <3>1
    <2> QED BY <2>1, <2>2, <2>4
  <1>13. SumTo(d.lru, L) = SumTo(c.lru, L) + SumTo(g, L)
    <2> DEFINE f == c.lru
               h == d.lru
    <2>1. L \in Nat /\ \A i \in 1 .. L : f[i] \in Int /\ g[i] \in Int /\ h[i] = f[i] + g[i]
      BY <1>1, <1>8, <1>9, <1>12
    <2> HIDE DEF f, h
    <2>2. SumTo(h, L) = SumTo(f, L) + SumTo(g, L)
      BY <2>1, SumAdd
    <2> QED BY <2>2 DEF f, h
  <1>14. d.ram_used \in Int /\ Summed(d)
    <2>1. SumSeq(d.lru) = SumTo(d.lru, L) /\ SumSeq(c.lru) = SumTo(c.lru, L)
      BY <1>1, <1>12 DEF SumSeq
    <2>2. SumTo(g, L) = T - U /\ T - U \in Int
      BY <1>5, <1>6, <1>10, <1>11
    <2>3. d.ram_used = SumSeq(d.lru) /\ d.ram_used \in Int
      BY <1>1, <1>4, <1>13, <2>1, <2>2
    <2> QED BY <2>3 DEF Summed
  <1>15. ASSUME NEW q \in Pk
         PROVE  ShapeOf(d.obj[q], L, 0) /\ \A i \in 1 .. L : d.obj[q].cell = i <=> c.obj[q].cell = i
    <2>1. c.obj[q] \in Objects /\ d.obj[q] \in Objects /\ ShapeOf(c.obj[q], L, 0)
      BY <1>1, <1>3, CacheParts DEF Shaped
    <2>2. CASE q \in pks
      <3>1. Stays(c.obj[q], d.obj[q], L, 0) /\ Staged(d.obj[q], L) /\ 0 \in Nat
        BY <1>4, <2>2
      <3>2. ShapeOf(d.obj[q], L, 0)
        BY <1>1, <2>1, <3>1, StaysHome
      <3>3. \A i \in 1 .. L : d.obj[q].cell = i <=> c.obj[q].cell = i
        BY <1>1, <2>1, <3>1, StaysCell
      <3> QED BY <3>2, <3>3
    <2>3. CASE q \notin pks
      BY <1>3, <2>1, <2>3
    <2> QED BY <2>2, <2>3
  <1>16. Shaped(d)
    BY <1>3, <1>12, <1>14, <1>15 DEF Shaped
  <1>17. ASSUME NEW i \in 1 .. L PROVE Size(d, InCell(d, {i})) <= d.lru[i]
    <2> DEFINE A == InCell(d, {i})
               B == A \ pks
    <2>1. A \in SUBSET Pk /\ B \in SUBSET Pk
      BY DEF InCell
    <2>2. A = InCell(c, {i})
      BY <1>15 DEF InCell
    <2>3. \A q \in B : d.obj[q].row = c.obj[q].row
      BY <1>3, <2>1
    <2>4. Size(d, A) = Size(d, pks \cap A) + Size(d, B) /\ Size(d, A) \in Nat /\ Size(d, B) \in Nat
      BY <1>3, <2>1, SizeSplit
    <2>5. Size(c, A) = Size(c, pks \cap A) + Size(c, B) /\ Size(c, A) \in Nat /\ Size(c, B) \in Nat
      BY <2>1, SizeSplit, ZenonT(40)
    <2>6. After(i) = Size(d, pks \cap A) /\ Before(i) = Size(c, pks \cap A)
      BY DEF After, Before, OfCell
    <2>7. Size(c, A) <= c.lru[i]
      BY <1>1, <2>2
    <2> HIDE DEF A, B
    <2>8. Size(d, B) = Size(c, B)
      BY <1>3, <2>1, <2>3, SizeSame
    <2>9. /\ d.lru[i] = c.lru[i] + (After(i) - Before(i))
          /\ c.lru[i] \in Int /\ After(i) \in Nat /\ Before(i) \in Nat
      BY <1>5, <1>6, <1>7, <1>8, <1>12
    <2>10. Size(d, A) = After(i) + Size(c, B) /\ Size(c, A) = Before(i) + Size(c, B)
      BY <2>4, <2>5, <2>6, <2>8
    <2>11. Size(d, A) <= d.lru[i]
      BY <2>5, <2>7, <2>9, <2>10
    <2> QED BY <2>11 DEF A
  <1> QED BY <1>3, <1>12, <1>14, <1>16, <1>17 DEF Counts, d

\* Rows leave the cache when no session is open: a cell no longer counts them.
LEMMA RemoveAllCounts ==
    ASSUME TypeOK, NEW c, CacheType(c), Placement(c), Counts(c), NEW pks \in SUBSET Pk
    PROVE  Counts(RemoveAll(c, pks))
  <1> DEFINE d == RemoveAll(c, pks)
             gone == Gone(c, pks)
             L == Len(c.lru)
             Out(i) == Size(c, OfCell(c, gone, i))
             out == [i \in 1 .. L |-> Out(i)]
             T == Size(c, OfCells(c, gone, L))
  <1>1. /\ L \in Nat /\ c.lru \in Seq(Int) /\ c.ram_used \in Int /\ c.ram_used = SumSeq(c.lru)
        /\ c.pending = 0 /\ Shaped(c) /\ L = Len(c.lru)
        /\ \A i \in 1 .. L : Size(c, InCell(c, {i})) <= c.lru[i]
    BY CacheParts DEF Counts, Shaped, Summed
  <1>2. RemovedAll(c, d, gone)
    BY <1>1, RemoveAllAt
  <1>3. CacheType(d) /\ d.pending = 0
    BY <1>1, RemoveAllFacts DEF LeaveAll
  <1>4. gone \in SUBSET Pk
    BY DEF Gone
  <1> HIDE DEF d, gone
  <1>5. /\ \A q \in gone : d.obj[q] = Released
        /\ \A q \in Pk \ gone : d.obj[q] = c.obj[q]
        /\ d.lru = [i \in 1 .. L |-> c.lru[i] - Out(i)]
        /\ d.ram_used = c.ram_used - T
    BY <1>1, <1>2 DEF RemovedAll, OfCell, OfCells
  <1>6. SumTo(out, L) = T /\ T \in Int /\ \A i \in 1 .. L : Out(i) \in Nat
    <2>1. L \in Nat /\ \A i \in 1 .. L : out[i] = Out(i)
      BY <1>1
    <2> HIDE DEF out, L
    <2>2. SumTo(out, L) = T /\ SumTo(out, L) \in Int /\ \A i \in 1 .. L : out[i] \in Nat
      BY <1>4, <2>1, CellSizes, SMTT(40)
    <2> QED BY <2>1, <2>2
  <1> HIDE DEF L, T
  <1>7. \A i \in 1 .. L : out[i] = Out(i)
    OBVIOUS
  <1> HIDE DEF out, Out
  <1>8. \A i \in 1 .. L : c.lru[i] \in Int
    <2>1. c.lru \in Seq(Int)
      BY <1>1
    <2> QED BY <2>1 DEF L
  <1>9. /\ d.lru \in Seq(Int) /\ Len(d.lru) = L
        /\ \A i \in 1 .. L : d.lru[i] \in Int /\ out[i] \in Int /\ c.lru[i] = d.lru[i] + out[i]
    <2> DEFINE E(i) == c.lru[i] - Out(i)
    <2>1. \A i \in 1 .. L : E(i) \in Int /\ out[i] \in Int /\ c.lru[i] = E(i) + out[i]
      BY <1>6, <1>7, <1>8
    <2>2. d.lru = [i \in 1 .. L |-> E(i)]
      BY <1>5
    <2> HIDE DEF E
    <2>3. d.lru \in [1 .. L -> Int]
      BY <2>1, <2>2
    <2>4. d.lru \in Seq(Int) /\ Len(d.lru) = L
      <3>1. L \in Nat
        BY <1>1
      <3> QED BY <2>3, <3>1
    <2> QED BY <2>1, <2>2, <2>4
  <1>10. SumTo(c.lru, L) = SumTo(d.lru, L) + SumTo(out, L)
    <2>1. L \in Nat /\ \A i \in 1 .. L : d.lru[i] \in Int /\ out[i] \in Int /\ c.lru[i] = d.lru[i] + out[i]
      BY <1>1, <1>9
    <2> QED BY <2>1, SumAdd, ZenonT(40)
  <1>11. d.ram_used \in Int /\ Summed(d)
    <2>1. SumSeq(d.lru) = SumTo(d.lru, L) /\ SumSeq(c.lru) = SumTo(c.lru, L)
      BY <1>1, <1>9 DEF SumSeq
    <2>2. SumTo(d.lru, L) \in Int
      <3>1. \A k \in 0 .. L : SumTo(d.lru, k) \in Int
        BY <1>1, <1>9, SumInt
      <3> QED BY <1>1, <3>1
    <2>3. d.ram_used = SumSeq(d.lru) /\ d.ram_used \in Int
      BY <1>1, <1>5, <1>6, <1>10, <2>1, <2>2
    <2> QED BY <2>3 DEF Summed
  <1>12. ASSUME NEW q \in Pk PROVE ShapeOf(d.obj[q], L, 0)
    <2>1. ShapeOf(c.obj[q], L, 0)
      BY <1>1 DEF Shaped
    <2>2. CASE q \in gone
      <3>1. d.obj[q].cell = NoCell /\ d.obj[q].prev = NoCell /\ d.obj[q].stage = "Released"
        BY <1>5, <2>2, ReleasedFacts
      <3> QED BY <1>1, <3>1 DEF ShapeOf, NoCell
    <2>3. CASE q \notin gone
      BY <1>5, <2>1, <2>3
    <2> QED BY <2>2, <2>3
  <1>13. Shaped(d)
    BY <1>3, <1>9, <1>11, <1>12 DEF Shaped
  <1>14. ASSUME NEW i \in 1 .. L PROVE Size(d, InCell(d, {i})) <= d.lru[i]
    <2> DEFINE A == InCell(c, {i})
               B == A \ gone
    <2>1. A \in SUBSET Pk /\ B \in SUBSET Pk
      BY DEF InCell
    <2>2. InCell(d, {i}) = B
      <3>1. i # NoCell
        BY <1>1 DEF NoCell
      <3>2. \A q \in Pk : d.obj[q].cell = i <=> q \notin gone /\ c.obj[q].cell = i
        BY <1>5, <3>1, ReleasedFacts
      <3> QED BY <3>2 DEF InCell
    <2>3. \A q \in B : d.obj[q].row = c.obj[q].row
      BY <1>5, <2>1
    <2>4. /\ Size(c, A) = Size(c, gone \cap A) + Size(c, B)
          /\ Size(c, A) \in Nat /\ Size(c, gone \cap A) \in Nat /\ Size(c, B) \in Nat
      BY <2>1, SizeSplit
    <2>5. Out(i) = Size(c, gone \cap A)
      BY DEF Out, OfCell
    <2>6. Size(c, A) <= c.lru[i]
      BY <1>1
    <2> HIDE DEF A, B
    <2>7. Size(d, B) = Size(c, B)
      BY <1>3, <2>1, <2>3, SizeSame
    <2>8. d.lru[i] \in Int /\ c.lru[i] \in Int /\ c.lru[i] = d.lru[i] + Out(i)
      BY <1>7, <1>8, <1>9
    <2>9. Size(c, B) <= d.lru[i]
      BY <2>4, <2>5, <2>6, <2>8
    <2> QED BY <2>2, <2>7, <2>9
  <1> QED BY <1>3, <1>9, <1>11, <1>13, <1>14 DEF Counts, d

\* A block is popped in the cache.
LEMMA UndoTableCounts ==
    ASSUME TypeOK, NEW c, CacheType(c), Placement(c), Counts(c), NEW u \in Sessions
    PROVE  Counts(UndoTable(c, u))
  <1> DEFINE d == UndoTable(c, u)
             old == {pk \in u.touched : u.snap[pk] # NoRow /\ db[pk] # NoRow}
             new == {pk \in u.touched : u.snap[pk] = NoRow /\ db[pk] # NoRow}
             removed == {pk \in u.touched : u.snap[pk] # NoRow /\ db[pk] = NoRow}
             c0 == clear_unsuccess(c)
             c1 == EmplaceAll(c0, u.snap, old)
             c2 == RemoveAll(c1, new)
             c3 == EmplaceAll(c2, u.snap, removed)
  <1>1. u.snap \in [Pk -> Nat] /\ u.touched \in SUBSET Pk
    BY DEF Sessions
  <1>2. CASE u.touched = {}
    <2>1. d = c
      BY <1>2 DEF UndoTable
    <2> QED BY <2>1
  <1>3. CASE u.touched # {}
    <2>1. d = IF u.next_pk # Unset /\ AutoKeys THEN [c3 EXCEPT !.next_pk = u.next_pk] ELSE c3
      BY <1>3 DEF UndoTable, Restored
    <2>2. /\ old \in SUBSET Pk /\ new \in SUBSET Pk /\ removed \in SUBSET Pk
          /\ (\A pk \in old : u.snap[pk] # NoRow) /\ (\A pk \in removed : u.snap[pk] # NoRow)
      BY <1>1
    <2> HIDE DEF old, new, removed, d
    <2>3. CacheType(c0) /\ Alike(c, c0)
      BY ClearUnsuccess, ServiceAlike
    <2> HIDE DEF c0
    <2>4. Placement(c0) /\ Counts(c0)
      BY <2>3, AlikeCounts DEF Placement, Cached, Alike
    <2>5. Counts(c1)
      BY <1>1, <2>2, <2>3, <2>4, EmplaceAllCounts
    <2>6. CacheType(c1) /\ Placement(c1)
      BY <1>1, <2>2, <2>3, <2>4, EmplaceAllFacts DEF EnterAll
    <2> HIDE DEF c1
    <2>7. Counts(c2)
      BY <2>2, <2>5, <2>6, RemoveAllCounts
    <2>8. CacheType(c2) /\ Placement(c2)
      BY <2>2, <2>6, RemoveAllFacts DEF LeaveAll
    <2> HIDE DEF c2
    <2>9. Counts(c3)
      BY <1>1, <2>2, <2>7, <2>8, EmplaceAllCounts
    <2>10. CacheType(c3)
      BY <1>1, <2>2, <2>8, EmplaceAllFacts DEF EnterAll
    <2> HIDE DEF c3
    <2>11. Alike(c3, d)
      <3>1. CASE u.next_pk # Unset /\ AutoKeys
        BY <2>1, <2>10, <3>1 DEF Alike, CacheType
      <3>2. CASE ~ (u.next_pk # Unset /\ AutoKeys)
        BY <2>1, <3>2 DEF Alike
      <3> QED BY <3>1, <3>2
    <2> QED BY <2>9, <2>11, AlikeCounts DEF d
  <1> QED BY <1>2, <1>3

\* A block is popped.
LEMMA PopRam ==
    ASSUME IInv, RamInv, undo_revision, cache.pending = 0
    PROVE  RamInv'
  <1> DEFINE n == Len(undo)
             u == undo[n]
             c == UndoTable(cache, u)
  <1>1. /\ n \in Nat /\ undo \in Seq(Sessions) /\ db \in [Pk -> Nat] /\ TypeOK
        /\ CacheType(cache) /\ Placement(cache) /\ Right(cache, db)
        /\ \A i \in 1 .. n : undo[i] \in Sessions
        /\ \A i \in 1 .. n : \A q \in Pk : q \notin undo[i].touched =>
              undo[i].snap[q] = IF i = n THEN db[q] ELSE undo[i + 1].snap[q]
    BY StackFacts DEF IInv
  <1>2. cache' = undo_session(c) /\ db' = u.snap /\ table' = table
    BY DEF undo_revision, Last
  <1>3. n \in 1 .. n
    BY <1>1 DEF undo_revision
  <1> HIDE DEF n
  <1>4. u \in Sessions /\ \A q \in Pk : q \notin u.touched => u.snap[q] = db[q]
    BY <1>1, <1>3
  <1> HIDE DEF u
  <1>5. Counts(cache)
    BY <1>1, CountsRam DEF RamInv
  <1>6. Counts(c)
    BY <1>1, <1>4, <1>5, UndoTableCounts
  <1>7. CacheType(c) /\ Right(c, u.snap) /\ c.pending = 0
    BY <1>1, <1>4, UndoTableFacts
  <1> HIDE DEF c
  <1>8. cache' = c
    BY <1>2, <1>7 DEF undo_session, has_pending_cell
  <1>9. u.snap \in [Pk -> Nat]
    BY <1>4 DEF Sessions
  <1>10. RamOf(c, u.snap, undo')
    BY <1>1, <1>6, <1>7, <1>9, CountsRam
  <1> QED BY <1>2, <1>8, <1>10, RamPrimed

\* The oldest revision is forgotten: no session is open.
LEMMA CommitRam ==
    ASSUME IInv, RamInv, undo_commit
    PROVE  RamInv'
  <1>1. TypeOK /\ CacheType(cache) /\ Right(cache, db) /\ db \in [Pk -> Nat]
    BY DEF IInv, TypeOK
  <1>2. cache.pending = 0 /\ cache' = cache /\ db' = db /\ table' = table
    BY DEF undo_commit
  <1>3. Counts(cache)
    BY <1>1, <1>2, CountsRam DEF RamInv
  <1>4. RamOf(cache, db, undo')
    BY <1>1, <1>2, <1>3, CountsRam
  <1> QED BY <1>2, <1>4, RamPrimed

\* The empty cache has no cells.
LEMMA EmptyCounts == Counts(EmptyCache)
  <1> DEFINE c == EmptyCache
             objs == [pk \in Pk |-> Released]
  <1>1. c.obj = objs /\ c.lru = <<>> /\ c.pending = 0 /\ c.ram_used = 0
    BY DEF EmptyCache
  <1>2. \A pk \in Pk : c.obj[pk] = Released
    BY <1>1
  <1> HIDE DEF c, objs
  <1>3. c.lru \in Seq(Int) /\ Len(c.lru) = 0 /\ c.ram_used \in Int
    BY <1>1
  <1>4. ASSUME NEW q \in Pk PROVE ShapeOf(c.obj[q], 0, 0)
    <2>1. c.obj[q].cell = 0 /\ c.obj[q].prev = 0 /\ c.obj[q].stage = "Released"
      BY <1>2, ReleasedFacts DEF NoCell
    <2> QED BY <2>1 DEF ShapeOf, NoCell
  <1>5. Shaped(c)
    BY <1>1, <1>3, <1>4 DEF Shaped
  <1>6. Summed(c)
    <2>1. SumSeq(c.lru) = 0
      BY <1>3, SumUnfold DEF SumSeq
    <2> QED BY <1>1, <2>1 DEF Summed
  <1> QED BY <1>1, <1>3, <1>5, <1>6 DEF Counts, c

\* The node restarts.
LEMMA RestartRam ==
    ASSUME IInv, restart
    PROVE  RamInv'
  <1> DEFINE d == FinishedRows
             pks == {pk \in Pk : IsSystem /\ d[pk] # NoRow}
             c == EmptyCache
  <1>1. TypeOK /\ d \in [Pk -> Nat]
    BY FinishedFacts DEF IInv
  <1>2. cache' = EmplaceAll(c, d, pks) /\ db' = d /\ table' = table
    BY DEF restart
  <1>3. CacheType(c) /\ Placement(c) /\ Counts(c)
    BY EmptyCacheFacts, EmptyCounts
  <1>4. pks \in SUBSET Pk /\ \A pk \in pks : d[pk] # NoRow
    OBVIOUS
  <1> HIDE DEF c, d, pks
  <1>5. Counts(cache')
    BY <1>1, <1>2, <1>3, <1>4, EmplaceAllCounts
  <1>6. IInv'
    BY RestartStep
  <1>7. CacheType(cache') /\ Right(cache', d)
    <2>1. Pk' = Pk /\ IsSystem' = IsSystem /\ End' = End
      BY <1>2 DEF Pk, IsSystem, End
    <2>2. CacheType(cache')
      BY <1>1, <1>2, <1>3, <1>4, EmplaceAllFacts DEF EnterAll
    <2>3. Right(cache, db)'
      BY <1>6 DEF IInv
    <2>4. Right(cache', db')
      BY <2>1, <2>3 DEF Right, Cached, FirstFrom
    <2> QED BY <1>2, <2>2, <2>4
  <1>8. cache'.pending = 0
    BY <1>5 DEF Counts
  <1>9. RamOf(cache', d, undo')
    BY <1>1, <1>5, <1>7, <1>8, CountsRam
  <1> QED BY <1>2, <1>9, RamPrimed

-----------------------------------------------------------------------------
\* The theorem

\* The initial state satisfies the invariant.
LEMMA InitRam == Init => RamInv
  <1> SUFFICES ASSUME Init PROVE RamInv
    OBVIOUS
  <1>1. IInv /\ cache = EmptyCache
    BY InitIInv DEF Init
  <1>2. TypeOK /\ CacheType(cache) /\ Right(cache, db) /\ db \in [Pk -> Nat]
    BY <1>1 DEF IInv, TypeOK
  <1>3. Counts(cache)
    BY <1>1, EmptyCounts
  <1>4. cache.pending = 0
    BY <1>3 DEF Counts
  <1>5. RamOf(cache, db, undo)
    BY <1>2, <1>3, <1>4, CountsRam
  <1> QED BY <1>5 DEF RamInv

\* Every step keeps the invariant.
LEMMA NextRam ==
    ASSUME IInv, RamInv, [Next]_vars
    PROVE  RamInv'
  <1>1. CASE UNCHANGED vars
    <2>1. table' = table /\ db' = db /\ undo' = undo /\ cache' = cache
      BY <1>1 DEF vars
    <2>2. RamOf(cache', db', undo')
      BY <2>1 DEF RamInv
    <2> QED BY <2>1, <2>2, RamPrimed
  <1>2. ASSUME NEW pk \in Pk, lower_bound(pk) \/ get_cache_object(pk) \/ remove(pk) PROVE RamInv'
    BY <1>2, LowerBoundRam, GetRam, RemoveRam
  <1>3. ASSUME NEW pk \in Pk, NEW row \in table.sizes, insert(pk, row) \/ update(pk, row) PROVE RamInv'
    BY <1>3, InsertRam, UpdateRam
  <1>4. ASSUME NEW row \in table.sizes, emplace_row(row) PROVE RamInv'
    BY <1>4, EmplaceRowRam
  <1>5. CASE emplace_fails
    BY <1>5, EmplaceFailsRam
  <1>6. CASE start_undo_session \/ squash_revision \/ push_revision
    BY <1>6, StartRam, SquashRam, PushRam
  <1>7. CASE undo_revision
    <2>1. cache.pending > 0 \/ cache.pending = 0
      BY DEF IInv, TypeOK, CacheType
    <2> QED BY <1>7, <2>1, UndoRam, PopRam
  <1>8. CASE undo_commit \/ restart
    BY <1>8, CommitRam, RestartRam
  <1> QED BY <1>1, <1>2, <1>3, <1>4, <1>5, <1>6, <1>7, <1>8 DEF Next

\* What the cells count covers the objects in them now.
LEMMA RamCovers ==
    ASSUME IInv, RamInv
    PROVE  RamAccounted
  <1> DEFINE L == Len(cache.lru)
             base == BaseOf(cache, db, undo)
  <1>1. /\ TypeOK /\ CacheType(cache) /\ Right(cache, db) /\ db \in [Pk -> Nat]
    BY DEF IInv, TypeOK
  <1>2. /\ Shaped(cache) /\ Covered(cache, base) /\ Summed(cache)
        /\ \A q \in Pk : Returns(cache, base, db, undo, q)
    BY DEF RamInv, RamOf
  <1>3. L \in Nat /\ DOMAIN cache.lru = 1 .. L /\ cache.lru \in Seq(Int) /\ L = Len(cache.lru)
    BY <1>1, <1>2, CacheParts DEF Shaped
  <1>4. \A q \in Pk : base[q] \in Nat
    <2> DEFINE n == Len(undo)
               b == n - cache.pending + 1
    <2>1. /\ n \in Nat /\ cache.pending \in Nat /\ cache.pending <= n
          /\ \A i \in 1 .. n : undo[i] \in Sessions
      BY StackFacts
    <2>2. CASE cache.pending = 0
      BY <1>1, <2>2 DEF BaseOf
    <2>3. CASE cache.pending # 0
      <3>1. b \in 1 .. n
        BY <2>1, <2>3
      <3>2. base = undo[b].snap
        BY <2>3 DEF BaseOf
      <3> HIDE DEF b, n, base
      <3>3. undo[b] \in Sessions
        BY <2>1, <3>1
      <3> QED BY <3>2, <3>3 DEF Sessions
    <2> QED BY <2>2, <2>3
  <1>5. \A i \in 1 .. L : Total(base, Homes(cache, i)) <= cache.lru[i]
    BY <1>2 DEF Covered
  <1>6. \A q \in Pk : Home(cache, q) # NoCell /\ cache.obj[q].cell <= L => db[q] = base[q]
    BY <1>2 DEF Returns
  <1> HIDE DEF L, base
  <1>7. ASSUME NEW i \in 1 .. L PROVE cache.lru[i] >= Size(cache, InCell(cache, {i}))
    <2> DEFINE A == InCell(cache, {i})
               B == Homes(cache, i)
               R == Rows(cache)
    <2>1. A \in SUBSET Pk /\ \A q \in A : cache.obj[q].cell = i
      BY DEF InCell
    <2>2. B \in SUBSET Pk /\ \A q \in Pk : Home(cache, q) = i => q \in B
      BY DEF Homes
    <2>3. Size(cache, A) = Total(R, A) /\ Size(cache, A) \in Nat /\ \A q \in Pk : R[q] = cache.obj[q].row /\ R[q] \in Nat
      BY <1>1, <2>1, SizeTotal
    <2>4. Total(base, B) <= cache.lru[i]
      BY <1>5
    <2> HIDE DEF A, B, R
    <2>5. i # NoCell /\ i <= L
      BY <1>3 DEF NoCell
    <2>6. ASSUME NEW q \in A PROVE q \in B /\ R[q] = base[q]
      <3>1. q \in Pk /\ cache.obj[q].cell = i
        BY <2>1
      <3>2. InLru(cache.obj[q], Len(cache.lru))
        BY <1>3, <3>1 DEF InLru
      <3>3. Cached(cache, q) /\ Home(cache, q) = i
        BY <1>1, <1>2, <3>1, <3>2, ShapedLru
      <3>4. cache.obj[q].row = db[q] /\ db[q] = base[q]
        BY <1>1, <1>6, <2>5, <3>1, <3>3 DEF Right
      <3> QED BY <2>2, <2>3, <3>1, <3>3, <3>4
    <2>7. Total(R, A) <= Total(base, B)
      <3>1. A \subseteq B /\ \A q \in A : R[q] \in Nat /\ R[q] <= base[q]
        BY <2>1, <2>3, <2>6
      <3>2. \A q \in B : base[q] \in Nat
        BY <1>4, <2>2
      <3> QED BY <1>1, <2>1, <2>2, <3>1, <3>2, TotalLe
    <2>8. Total(base, B) \in Nat
      <3>1. \A q \in B : base[q] \in Nat
        BY <1>4, <2>2
      <3> QED BY <1>1, <2>2, <3>1, TotalNat
    <2>9. cache.lru[i] \in Int
      BY <1>3
    <2>10. cache.lru[i] >= Size(cache, A)
      BY <2>3, <2>4, <2>7, <2>8, <2>9
    <2> QED BY <2>10 DEF A
  <1>8. cache.ram_used = SumSeq(cache.lru)
    BY <1>2 DEF Summed
  <1>9. \A pk \in Pk : cache.obj[pk].stage = "Deleted" => cache.obj[pk].cell > Len(cache.lru)
    BY <1>2 DEF Shaped, ShapeOf
  <1> QED BY <1>3, <1>7, <1>8, <1>9 DEF RamAccounted

\* An LRU cell counts at least its objects, ram_used is the sum of the cells and no removed
\* object is in an LRU cell, for tables of any size, any limit of the cache and any number of
\* cells: through loads, writes, undone, squashed and pushed sessions, popped blocks and
\* evictions no size of a cell goes below zero, and eviction ends (cache_map.cpp
\* add_ram_usage, release_cache_object, clear_overused_ram).
THEOREM RamAdds == Spec => []RamAccounted
  <1>1. IInv /\ RamInv /\ [Next]_vars => RamInv'
    BY NextRam
  <1>2. IInv /\ RamInv => RamAccounted
    BY RamCovers
  <1>3. Spec => []RamInv
    BY InitRam, <1>1, CacheInvariant, PTL DEF Spec
  <1> QED BY <1>2, <1>3, CacheInvariant, PTL
=============================================================================
