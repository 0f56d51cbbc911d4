------------------------- MODULE ForkDatabaseProofs -------------------------
(***************************************************************************)
(* Proofs about ForkDatabase, for trees of blocks of any shape and any     *)
(* limit of pruning: the node is on the best good chain it knows, nothing  *)
(* that is irreversible is popped, and what records the chain agrees.      *)
(***************************************************************************)
EXTENDS ForkDatabase, FiniteSetTheorems, TLAPS

Labels == [tag : Tags, lib : Nat, valid : BOOLEAN]
Blocks == Seq(Labels)

Nodes ==
    [index : SUBSET Blocks, older : SUBSET (Blocks \X Blocks), fhead : Blocks,
     current : SUBSET Blocks, head : Blocks, rev : Int, tail : Int, log : Blocks,
     reversible : SUBSET Blocks, thrown : {"none", "invalid"}, trial : Trials]

-----------------------------------------------------------------------------
\* Blocks

\* Ancestors of a block are blocks, and found by their length.
LEMMA Cut ==
    ASSUME NEW b \in Blocks, NEW i \in 0 .. Len(b)
    PROVE  /\ SubSeq(b, 1, i) \in Blocks
           /\ Len(SubSeq(b, 1, i)) = i
           /\ \A j \in 1 .. i : SubSeq(b, 1, i)[j] = b[j]
  BY DEF Blocks

\* Blocks are equal if they have the same labels.
LEMMA SameBlock ==
    ASSUME NEW b \in Blocks, NEW c \in Blocks, Len(b) = Len(c), \A j \in 1 .. Len(b) : b[j] = c[j]
    PROVE  b = c
  BY DEF Blocks

\* A block cut nowhere
LEMMA CutWhole ==
    ASSUME NEW b \in Blocks
    PROVE  SubSeq(b, 1, Len(b)) = b
  <1> DEFINE x == SubSeq(b, 1, Len(b))
  <1>1. Len(b) \in 0 .. Len(b)
    BY DEF Blocks
  <1>2. x \in Blocks /\ Len(x) = Len(b) /\ \A j \in 1 .. Len(b) : x[j] = b[j]
    BY <1>1, Cut
  <1> HIDE DEF x
  <1>3. x = b
    BY <1>2, SameBlock
  <1> QED BY <1>3 DEF x

\* Ancestors, by length
LEMMA AncestorLen ==
    ASSUME NEW b \in Blocks, NEW c
    PROVE  c \in Ancestors(b) <=>
             c \in Blocks /\ Len(c) <= Len(b) /\ c = SubSeq(b, 1, Len(c))
  <1>1. Len(b) \in Nat
    BY DEF Blocks
  <1>2. ASSUME c \in Ancestors(b) PROVE c \in Blocks /\ Len(c) <= Len(b) /\ c = SubSeq(b, 1, Len(c))
    <2>1. PICK i \in 0 .. Len(b) : c = SubSeq(b, 1, i)
      BY <1>2 DEF Ancestors
    <2> QED BY <1>1, <2>1, Cut
  <1>3. ASSUME c \in Blocks, Len(c) <= Len(b), c = SubSeq(b, 1, Len(c)) PROVE c \in Ancestors(b)
    <2>1. Len(c) \in 0 .. Len(b)
      BY <1>1, <1>3 DEF Blocks
    <2> QED BY <1>3, <2>1 DEF Ancestors
  <1> QED BY <1>2, <1>3

\* Cutting twice
LEMMA CutCut ==
    ASSUME NEW b \in Blocks, NEW i \in 0 .. Len(b), NEW j \in 0 .. i
    PROVE  SubSeq(SubSeq(b, 1, i), 1, j) = SubSeq(b, 1, j)
  <1>1. Len(b) \in Nat /\ j \in 0 .. Len(b)
    BY DEF Blocks
  <1> DEFINE x == SubSeq(b, 1, i)
             y == SubSeq(x, 1, j)
             z == SubSeq(b, 1, j)
  <1>2. x \in Blocks /\ Len(x) = i /\ \A k \in 1 .. i : x[k] = b[k]
    BY Cut
  <1>3. z \in Blocks /\ Len(z) = j /\ \A k \in 1 .. j : z[k] = b[k]
    BY <1>1, Cut
  <1> HIDE DEF x
  <1>4. y \in Blocks /\ Len(y) = j /\ \A k \in 1 .. j : y[k] = x[k]
    BY <1>2, Cut
  <1> HIDE DEF y, z
  <1>5. y = z
    BY <1>2, <1>3, <1>4, SameBlock
  <1> QED BY <1>5 DEF x, y, z

\* The order of ancestry
LEMMA Ancestry ==
    ASSUME NEW b \in Blocks
    PROVE  /\ b \in Ancestors(b) /\ Root \in Ancestors(b) /\ Root \in Blocks
           /\ \A c \in Ancestors(b) : c \in Blocks /\ Ancestors(c) \subseteq Ancestors(b)
           /\ \A c, d \in Ancestors(b) : Num(c) <= Num(d) => c \in Ancestors(d)
           /\ \A c, d \in Ancestors(b) : Num(c) = Num(d) => c = d
           /\ \A c \in Ancestors(b) : Num(c) <= Num(b) /\ RootNum <= Num(c)
           /\ \A k \in Nat : RootNum <= k /\ k <= Num(b) => \E c \in Ancestors(b) : Num(c) = k
  <1>1. Len(b) \in Nat /\ \A c \in Blocks : Len(c) \in Nat
    BY DEF Blocks
  <1>2. b = SubSeq(b, 1, Len(b))
    BY CutWhole
  <1>3. Root \in Blocks /\ Len(Root) = 0 /\ Root = SubSeq(b, 1, 0)
    BY <1>1 DEF Blocks, Root
  <1>4. b \in Ancestors(b) /\ Root \in Ancestors(b)
    <2>1. Len(b) <= Len(b) /\ Len(Root) <= Len(b) /\ Root = SubSeq(b, 1, Len(Root))
      BY <1>1, <1>3
    <2> QED BY <1>2, <1>3, <2>1, AncestorLen
  <1>5. ASSUME NEW c \in Ancestors(b) PROVE c \in Blocks /\ Ancestors(c) \subseteq Ancestors(b)
    <2>1. c \in Blocks /\ Len(c) <= Len(b) /\ c = SubSeq(b, 1, Len(c)) /\ Len(c) \in 0 .. Len(b)
      BY <1>1, AncestorLen
    <2>2. ASSUME NEW d \in Ancestors(c) PROVE d \in Ancestors(b)
      <3>1. d \in Blocks /\ Len(d) <= Len(c) /\ d = SubSeq(c, 1, Len(d)) /\ Len(d) \in 0 .. Len(c)
        BY <1>1, <2>1, AncestorLen
      <3>2. SubSeq(c, 1, Len(d)) = SubSeq(b, 1, Len(d))
        BY <2>1, <3>1, CutCut
      <3> QED BY <1>1, <2>1, <3>1, <3>2, AncestorLen
    <2> QED BY <2>1, <2>2
  <1>6. ASSUME NEW c \in Ancestors(b), NEW d \in Ancestors(b), Len(c) <= Len(d) PROVE c \in Ancestors(d)
    <2>1. c \in Blocks /\ Len(c) <= Len(b) /\ c = SubSeq(b, 1, Len(c)) /\ Len(c) \in 0 .. Len(d)
      BY <1>1, <1>6, AncestorLen
    <2>2. d \in Blocks /\ Len(d) <= Len(b) /\ d = SubSeq(b, 1, Len(d)) /\ Len(d) \in 0 .. Len(b)
      BY <1>1, <1>6, AncestorLen
    <2>3. SubSeq(d, 1, Len(c)) = SubSeq(b, 1, Len(c))
      BY <2>1, <2>2, CutCut
    <2> QED BY <1>6, <2>1, <2>2, <2>3, AncestorLen
  <1>7. \A c, d \in Ancestors(b) : Len(c) = Len(d) => c = d
    BY AncestorLen
  <1>8. \A c \in Ancestors(b) : Len(c) \in Nat /\ Len(c) <= Len(b)
    BY <1>1, AncestorLen
  <1>9. ASSUME NEW k \in Nat, RootNum <= k, k <= Num(b) PROVE \E c \in Ancestors(b) : Num(c) = k
    <2>1. k - RootNum \in 0 .. Len(b)
      BY <1>1, <1>9, RootAssumption DEF Num
    <2>2. Len(SubSeq(b, 1, k - RootNum)) = k - RootNum /\ SubSeq(b, 1, k - RootNum) \in Ancestors(b)
      BY <2>1, Cut DEF Ancestors
    <2>3. Num(SubSeq(b, 1, k - RootNum)) = k
      BY <2>1, <2>2, RootAssumption DEF Num
    <2> QED BY <2>2, <2>3
  <1>10. /\ \A c, d \in Ancestors(b) : Num(c) <= Num(d) => c \in Ancestors(d)
         /\ \A c, d \in Ancestors(b) : Num(c) = Num(d) => c = d
    BY <1>6, <1>7, <1>8, RootAssumption DEF Num
  <1>11. \A c \in Ancestors(b) : Num(c) <= Num(b) /\ RootNum <= Num(c)
    BY <1>1, <1>8, RootAssumption DEF Num
  <1> QED BY <1>3, <1>4, <1>5, <1>9, <1>10, <1>11

\* The parent of a block
LEMMA Parent ==
    ASSUME NEW b \in Blocks, b # Root
    PROVE  /\ Front(b) \in Ancestors(b) /\ Num(Front(b)) = Num(b) - 1 /\ Front(b) # b
           /\ Ancestors(b) = Ancestors(Front(b)) \cup {b} /\ b \notin Ancestors(Front(b))
  <1>1. Len(b) \in Nat /\ Len(b) # 0
    <2>1. Root \in Blocks /\ Len(Root) = 0
      BY DEF Blocks, Root
    <2>2. Len(b) \in Nat
      BY DEF Blocks
    <2>3. Len(b) = 0 => b = Root
      BY <2>1, SameBlock
    <2> QED BY <2>2, <2>3
  <1>2. Front(b) = SubSeq(b, 1, Len(b) - 1) /\ Len(b) - 1 \in 0 .. Len(b)
    BY <1>1 DEF Front
  <1>3. Front(b) \in Ancestors(b) /\ Len(Front(b)) = Len(b) - 1
    BY <1>2, Cut DEF Ancestors
  <1>4. Num(Front(b)) = Num(b) - 1 /\ Front(b) # b
    BY <1>1, <1>3, RootAssumption DEF Num
  <1>5. Num(b) \in Nat
    BY <1>1, RootAssumption DEF Num
  <1>6. b \in Ancestors(b) /\ Ancestors(Front(b)) \subseteq Ancestors(b) /\ Front(b) \in Blocks
    BY <1>3, Ancestry
  <1>7. ASSUME NEW c \in Ancestors(b), c # b PROVE c \in Ancestors(Front(b))
    <2>1. Num(c) <= Num(b) /\ Num(c) # Num(b) /\ Num(c) \in Nat
      <3>1. Len(c) \in Nat
        BY <1>7, Ancestry DEF Blocks
      <3> QED BY <1>6, <1>7, <3>1, Ancestry, RootAssumption DEF Num
    <2>2. Num(c) <= Num(Front(b))
      BY <1>4, <1>5, <2>1
    <2> QED BY <1>3, <1>7, <2>2, Ancestry
  <1>8. b \notin Ancestors(Front(b))
    <2>1. \A c \in Ancestors(Front(b)) : Num(c) <= Num(Front(b))
      BY <1>6, Ancestry
    <2> QED BY <1>4, <1>5, <2>1
  <1> QED BY <1>3, <1>4, <1>6, <1>7, <1>8

\* IsPrefix is ancestry.
LEMMA Prefix ==
    ASSUME NEW b \in Blocks, NEW c \in Blocks
    PROVE  IsPrefix(c, b) <=> c \in Ancestors(b)
  <1>1. Len(b) \in Nat /\ Len(c) \in Nat
    BY DEF Blocks
  <1>2. SubSeq(c, 1, Len(c)) = c
    BY CutWhole
  <1> QED BY <1>1, <1>2, AncestorLen DEF IsPrefix

\* Numbers of blocks
LEMMA Numbers ==
    ASSUME NEW b \in Blocks
    PROVE  Num(b) \in Nat /\ Lib(b) \in Nat /\ RootNum <= Num(b) /\ (Num(b) = RootNum <=> b = Root)
  <1>1. Len(b) \in Nat /\ (Len(b) = 0 <=> b = Root)
    <2>1. Root \in Blocks /\ Len(Root) = 0
      BY DEF Blocks, Root
    <2>2. Len(b) \in Nat
      BY DEF Blocks
    <2>3. Len(b) = 0 => b = Root
      BY <2>1, SameBlock
    <2> QED BY <2>1, <2>2, <2>3
  <1>2. Num(b) \in Nat /\ RootNum <= Num(b) /\ (Num(b) = RootNum <=> b = Root)
    BY <1>1, RootAssumption DEF Num
  <1>3. Lib(b) \in Nat
    <2>1. CASE b = Root
      BY <2>1, RootAssumption DEF Lib
    <2>2. CASE b # Root
      <3>1. Last(b) \in Labels
        BY <1>1, <2>2 DEF Last, Blocks
      <3> QED BY <2>2, <3>1 DEF Lib, Labels
    <2> QED BY <2>1, <2>2
  <1> QED BY <1>2, <1>3

-----------------------------------------------------------------------------
\* Induction over the numbers up to k, and extreme numbers

\* A set of natural numbers has a least one.
LEMMA NatMin ==
    ASSUME NEW S, S \subseteq Nat, S # {}
    PROVE  \E x \in S : \A y \in S : x <= y
  <1> DEFINE R == OpToRel(<, Nat)
  <1>1. PICK x \in S : \A y \in S : ~ (<<y, x>> \in R)
    <2> HIDE DEF R
    <2>1. IsWellFoundedOn(R, Nat)
      BY NatLessThanWellFounded DEF R
    <2> QED BY <2>1, WFMin
  <1>2. \A y \in S : x <= y
    <2> SUFFICES ASSUME NEW y \in S, y < x PROVE FALSE
      BY SMT
    <2>1. <<y, x>> \in R
      BY DEF OpToRel
    <2> QED BY <1>1, <2>1
  <1> QED BY <1>2

\* A set that has 0 and with each number the next one has all up to k.
LEMMA Climb ==
    ASSUME NEW k \in Nat, NEW S, 0 \in S, \A i \in 1 .. k : i - 1 \in S => i \in S
    PROVE  \A i \in 0 .. k : i \in S
  <1> SUFFICES ASSUME NEW j \in 0 .. k, j \notin S PROVE FALSE
    OBVIOUS
  <1> DEFINE T == {i \in Nat : i <= k /\ i \notin S}
  <1>1. T # {} /\ T \subseteq Nat
    OBVIOUS
  <1>2. PICK x \in T : \A y \in T : x <= y
    <2> HIDE DEF T
    <2> QED BY <1>1, NatMin
  <1>3. x \in Nat /\ x <= k /\ x \notin S /\ x # 0
    OBVIOUS
  <1>4. x - 1 \in Nat /\ x - 1 < x /\ x \in 1 .. k
    BY <1>3
  <1>5. x - 1 \in S
    BY <1>2, <1>4
  <1> QED BY <1>3, <1>4, <1>5

\* A bounded set of natural numbers has a greatest one.
LEMMA NatMax ==
    ASSUME NEW S, S \subseteq Nat, S # {}, NEW k \in Nat, \A x \in S : x <= k
    PROVE  \E x \in S : \A y \in S : y <= x
  <1> DEFINE T == {k - x : x \in S}
  <1>1. T \subseteq Nat
    <2>1. \A x \in S : k - x \in Nat
      OBVIOUS
    <2> QED BY <2>1
  <1>2. T # {}
    OBVIOUS
  <1>3. PICK t \in T : \A u \in T : t <= u
    <2> HIDE DEF T
    <2> QED BY <1>1, <1>2, NatMin
  <1>4. PICK x \in S : t = k - x
    OBVIOUS
  <1>5. \A y \in S : k - x <= k - y
    BY <1>3, <1>4
  <1>6. \A y \in S : y <= x
    BY <1>5
  <1> QED BY <1>6

-----------------------------------------------------------------------------
\* The order of the index

Tied(b, c) == b # c /\ Lib(b) = Lib(c) /\ Num(b) = Num(c)

Before(n, b, c) == Better(b, c) \/ <<b, c>> \in n.older

\* older puts the tied blocks of the index in some order.
Ordered(n) ==
    /\ \A b, c : <<b, c>> \in n.older => b \in n.index /\ c \in n.index /\ Tied(b, c)
    /\ \A b, c \in n.index : Tied(b, c) => (<<b, c>> \in n.older <=> <<c, b>> \notin n.older)
    /\ \A b, c, d \in n.index : <<b, c>> \in n.older /\ <<c, d>> \in n.older => <<b, d>> \in n.older

IsFirst(n, b) == b \in n.index /\ \A c \in n.index \ {b} : Before(n, b, c)

\* That is what IndexConnected says and Restart chooses.
LEMMA OrderedIs ==
    ASSUME NEW n, n.index \subseteq Blocks, n.older \subseteq Blocks \X Blocks
    PROVE  Ordered(n) <=> n.older \subseteq Ties(n.index) /\ IsOrder(n.older, n.index)
  <1>1. \A b, c : <<b, c>> \in Ties(n.index) <=> b \in n.index /\ c \in n.index /\ Tied(b, c)
    BY DEF Ties, Tied
  <1>2. \A p \in n.older : p = <<p[1], p[2]>>
    OBVIOUS
  <1>3. \A p \in Ties(n.index) : p = <<p[1], p[2]>> /\ p[1] \in n.index /\ p[2] \in n.index
    BY DEF Ties
  <1>4. ASSUME Ordered(n) PROVE n.older \subseteq Ties(n.index) /\ IsOrder(n.older, n.index)
    <2>1. n.older \subseteq Ties(n.index)
      BY <1>1, <1>2, <1>4 DEF Ordered
    <2>2. ASSUME NEW p \in Ties(n.index) PROVE p \in n.older <=> <<p[2], p[1]>> \notin n.older
      <3> DEFINE x == p[1]
                 y == p[2]
      <3>1. p = <<x, y>> /\ x \in n.index /\ y \in n.index /\ Tied(x, y)
        BY <1>1, <1>3
      <3> HIDE DEF x, y
      <3>2. p \in n.older <=> <<y, x>> \notin n.older
        BY <1>4, <3>1 DEF Ordered
      <3> QED BY <3>2 DEF x, y
    <2>3. ASSUME NEW p \in n.older, NEW q \in n.older, p[2] = q[1] PROVE <<p[1], q[2]>> \in n.older
      <3> DEFINE x == p[1]
                 y == p[2]
                 z == q[2]
      <3>1. p = <<x, y>> /\ q = <<y, z>> /\ x \in n.index /\ y \in n.index /\ z \in n.index
        BY <1>2, <1>3, <2>1, <2>3
      <3> HIDE DEF x, y, z
      <3>2. <<x, z>> \in n.older
        BY <1>4, <3>1 DEF Ordered
      <3> QED BY <3>2 DEF x, z
    <2> QED BY <2>1, <2>2, <2>3 DEF IsOrder
  <1>5. ASSUME n.older \subseteq Ties(n.index), IsOrder(n.older, n.index) PROVE Ordered(n)
    <2>1. \A b, c : <<b, c>> \in n.older => b \in n.index /\ c \in n.index /\ Tied(b, c)
      BY <1>1, <1>5
    <2>2. ASSUME NEW b \in n.index, NEW c \in n.index, Tied(b, c)
          PROVE  <<b, c>> \in n.older <=> <<c, b>> \notin n.older
      <3> DEFINE p == <<b, c>>
      <3>1. p \in Ties(n.index)
        BY <1>1, <2>2
      <3>2. p \in n.older <=> <<p[2], p[1]>> \notin n.older
        BY <1>5, <3>1 DEF IsOrder
      <3> QED BY <3>2
    <2>3. ASSUME NEW b, NEW c, NEW d, <<b, c>> \in n.older, <<c, d>> \in n.older PROVE <<b, d>> \in n.older
      <3> DEFINE p == <<b, c>>
                 q == <<c, d>>
      <3>1. p[2] = q[1] => <<p[1], q[2]>> \in n.older
        BY <1>5, <2>3 DEF IsOrder
      <3> QED BY <3>1
    <2> QED BY <2>1, <2>2, <2>3 DEF Ordered
  <1> QED BY <1>4, <1>5

\* The index is in a strict and total order.
LEMMA TotalOrder ==
    ASSUME NEW n, n.index \subseteq Blocks, Ordered(n)
    PROVE  /\ \A b \in n.index : ~Before(n, b, b)
           /\ \A b, c \in n.index : b # c => (Before(n, b, c) <=> ~Before(n, c, b))
           /\ \A b, c, d \in n.index : Before(n, b, c) /\ Before(n, c, d) => Before(n, b, d)
  <1>1. \A b \in n.index : Num(b) \in Nat /\ Lib(b) \in Nat
    BY Numbers
  <1>2. \A b \in n.index : ~Before(n, b, b)
    BY <1>1 DEF Before, Better, Ordered, Tied
  <1>3. ASSUME NEW b \in n.index, NEW c \in n.index, b # c PROVE Before(n, b, c) <=> ~Before(n, c, b)
    <2>1. CASE Tied(b, c)
      <3>1. ~Better(b, c) /\ ~Better(c, b)
        BY <1>1, <2>1 DEF Better, Tied
      <3>2. <<b, c>> \in n.older <=> <<c, b>> \notin n.older
        BY <2>1 DEF Ordered
      <3> QED BY <3>1, <3>2 DEF Before
    <2>2. CASE ~Tied(b, c)
      <3>1. <<b, c>> \notin n.older /\ <<c, b>> \notin n.older
        BY <2>2 DEF Ordered, Tied
      <3>2. Better(b, c) <=> ~Better(c, b)
        BY <1>1, <1>3, <2>2 DEF Better, Tied
      <3> QED BY <3>1, <3>2 DEF Before
    <2> QED BY <2>1, <2>2
  <1>4. ASSUME NEW b \in n.index, NEW c \in n.index, NEW d \in n.index, Before(n, b, c), Before(n, c, d)
        PROVE  Before(n, b, d)
    <2>1. CASE Better(b, c)
      BY <1>1, <1>4, <2>1 DEF Before, Better, Ordered, Tied
    <2>2. CASE <<b, c>> \in n.older /\ Better(c, d)
      BY <1>1, <2>2 DEF Before, Better, Ordered, Tied
    <2>3. CASE <<b, c>> \in n.older /\ <<c, d>> \in n.older
      BY <2>3 DEF Before, Ordered
    <2> QED BY <1>4, <2>1, <2>2, <2>3 DEF Before
  <1> QED BY <1>2, <1>3, <1>4

\* An index that is not empty has one first block: the one with the fewest before it.
LEMMA FirstFacts ==
    ASSUME NEW n, n.index \subseteq Blocks, Ordered(n), IsFiniteSet(n.index), n.index # {}
    PROVE  /\ IsFirst(n, First(n))
           /\ \A b : IsFirst(n, b) => First(n) = b
  <1> DEFINE Pre(b) == {c \in n.index : Before(n, c, b)}
             Counts == {Cardinality(Pre(b)) : b \in n.index}
  <1>1. \A b \in n.index : IsFiniteSet(Pre(b)) /\ Cardinality(Pre(b)) \in Nat
    <2> SUFFICES ASSUME NEW b \in n.index PROVE IsFiniteSet(Pre(b)) /\ Cardinality(Pre(b)) \in Nat
      OBVIOUS
    <2>1. Pre(b) \subseteq n.index
      OBVIOUS
    <2> HIDE DEF Pre
    <2> QED BY <2>1, FS_Subset, FS_CardinalityType
  <1>2. PICK b \in n.index : \A c \in n.index : Cardinality(Pre(b)) <= Cardinality(Pre(c))
    <2>1. Counts \in SUBSET Nat /\ Counts # {}
      <3> HIDE DEF Pre
      <3> QED BY <1>1
    <2>2. PICK k \in Counts : \A j \in Counts : k <= j
      <3> HIDE DEF Counts
      <3> QED BY <2>1, NatMin
    <2> HIDE DEF Pre
    <2> QED BY <2>2
  <1>3. ASSUME NEW c \in n.index, Before(n, c, b) PROVE FALSE
    <2>1. Pre(c) \subseteq Pre(b) /\ c \in Pre(b) /\ c \notin Pre(c)
      BY <1>3, TotalOrder
    <2> HIDE DEF Pre
    <2>2. Cardinality(Pre(c)) < Cardinality(Pre(b))
      <3>1. Cardinality(Pre(c)) <= Cardinality(Pre(b)) /\ (Cardinality(Pre(c)) = Cardinality(Pre(b)) => Pre(c) = Pre(b))
        BY <1>1, <2>1, FS_Subset
      <3> QED BY <1>1, <2>1, <3>1
    <2> QED BY <1>1, <1>2, <2>2
  <1>4. IsFirst(n, b)
    BY <1>3, TotalOrder DEF IsFirst
  <1>5. IsFirst(n, First(n))
    BY <1>4 DEF First, IsFirst, Before
  <1>6. \A c, d : IsFirst(n, c) /\ IsFirst(n, d) => c = d
    BY TotalOrder DEF IsFirst
  <1> QED BY <1>5, <1>6

-----------------------------------------------------------------------------
\* The inductive invariant

\* The irreversible block of b is not behind that of an ancestor, and is before b.
WellMade(b) ==
    /\ \A c \in Ancestors(b) : Lib(c) <= Lib(b)
    /\ b # Root => Lib(b) < Num(b)

\* Every block of the index has its ancestors in the index, down to the lowest number.
Rooted(n) ==
    /\ IsFiniteSet(n.index) /\ n.head \in n.index /\ n.fhead \in n.index
    /\ \A b \in n.index : WellMade(b)
    /\ \A b, d \in n.index : \A c \in Ancestors(b) : Num(d) <= Num(c) => c \in n.index

\* What any block of the index makes irreversible is on the chain of the head.
Agreed(n) ==
    \A b \in n.index : \A c \in Ancestors(b) : Num(c) <= Lib(b) => c \in Ancestors(n.head)

\* The log ends on the chain of the head, where the index begins.
Logged(n) ==
    /\ n.log \in Ancestors(n.head)
    /\ n.log = Root \/ Num(n.log) <= Lib(n.fhead)
    /\ n.log \in n.index \/ Num(n.log) < Lib(n.fhead)
    /\ \A b \in n.index : Num(n.log) <= Num(b)
    /\ \A c \in Ancestors(n.head) : Num(n.log) < Num(c) => c \in n.index

\* Whatever follows the head is in step with it.
InStep(n) ==
    /\ n.rev = Num(n.head) /\ n.tail = Num(n.log)
    /\ n.current = (Ancestors(n.head) \ {Root}) \cap n.index
    /\ n.reversible = Ancestors(n.head) \ Ancestors(n.log)

\* The chain of the head has been applied; bad blocks are part of one trial only.
Applies(n) ==
    /\ \A c \in Ancestors(n.head) : Valid(c)
    /\ n.trial # "bad blocks" => \A b \in n.index : Valid(b)

Core(n) ==
    n \in Nodes /\ Rooted(n) /\ Ordered(n) /\ Agreed(n) /\ Logged(n) /\ InStep(n) /\ Applies(n)

\* No block but x goes before the head; the order of equal blocks is lost with a restart.
OnlyBefore(n, x) ==
    \A c \in n.index \ {x, n.head} :
        /\ ~Better(c, n.head)
        /\ n.trial # "restarts" => Before(n, n.head, c)

\* Between two handlers
Rests(n) == Core(n) /\ n.fhead = n.head /\ OnlyBefore(n, n.head)

IInv == Rests(node) /\ node.thrown \in {"none", "invalid"}

\* Between add and the switch: the fork database has picked a head, which only finalises
\* more than the head of the controller if its chain applies.
Mid(n) ==
    /\ Core(n) /\ IsFirst(n, n.fhead) /\ OnlyBefore(n, n.fhead) /\ n.thrown = "none"
    /\ (\E c \in Ancestors(n.fhead) : ~Valid(c)) => Lib(n.fhead) <= Lib(n.head)

\* What a handler does not change
Follows(m, n) == m.trial = n.trial /\ n.log \in Ancestors(m.log)

-----------------------------------------------------------------------------
\* add

\* A block that may join the index
Joins(n, b) ==
    /\ b \in Blocks /\ b # Root /\ b \notin n.index /\ Front(b) \in n.index /\ WellMade(b)
    /\ \A c \in Ancestors(b) : Num(c) <= Lib(b) => c \in Ancestors(n.head)
    /\ n.trial # "bad blocks" => Valid(b)
    /\ (\E c \in Ancestors(b) : ~Valid(c)) => Lib(b) = Lib(Front(b))

\* The order of the index is kept when blocks leave it.
LEMMA EraseOrdered ==
    ASSUME NEW n \in Nodes, NEW S, Ordered(n)
    PROVE  LET m == Erase(n, S) IN
           /\ m \in Nodes /\ Ordered(m) /\ m.index = n.index \ S /\ m.current = n.current \ S
           /\ m.older = {p \in n.older : p[1] \notin S /\ p[2] \notin S}
           /\ \A b, c \in m.index : Before(m, b, c) <=> Before(n, b, c)
           /\ m.fhead = n.fhead /\ m.head = n.head /\ m.rev = n.rev /\ m.tail = n.tail
           /\ m.log = n.log /\ m.reversible = n.reversible /\ m.thrown = n.thrown /\ m.trial = n.trial
  <1> DEFINE m == Erase(n, S)
  <1>1. m.older = {p \in n.older : p[1] \notin S /\ p[2] \notin S} /\ m.index = n.index \ S
    BY DEF Erase, Nodes
  <1>2. m \in Nodes
    BY DEF Erase, Nodes
  <1>3. /\ m.current = n.current \ S /\ m.fhead = n.fhead /\ m.head = n.head /\ m.rev = n.rev
        /\ m.tail = n.tail /\ m.log = n.log /\ m.reversible = n.reversible /\ m.thrown = n.thrown
        /\ m.trial = n.trial
    BY DEF Erase, Nodes
  <1> HIDE DEF m
  <1>4. \A b, c : <<b, c>> \in m.older <=> <<b, c>> \in n.older /\ b \notin S /\ c \notin S
    BY <1>1
  <1>5. Ordered(m)
    BY <1>1, <1>4 DEF Ordered
  <1>6. \A b, c \in m.index : Before(m, b, c) <=> Before(n, b, c)
    BY <1>1, <1>4 DEF Before
  <1> QED BY <1>1, <1>2, <1>3, <1>5, <1>6 DEF m

\* A new block goes after the blocks it is equal to.
LEMMA InsertOrdered ==
    ASSUME NEW n \in Nodes, NEW b \in Blocks, b \notin n.index, Ordered(n)
    PROVE  LET m == Insert(n, b) IN
           /\ m \in Nodes /\ Ordered(m) /\ m.index = n.index \cup {b} /\ m.current = n.current
           /\ \A c, d \in n.index : Before(m, c, d) <=> Before(n, c, d)
           /\ m.fhead = n.fhead /\ m.head = n.head /\ m.rev = n.rev /\ m.tail = n.tail
           /\ m.log = n.log /\ m.reversible = n.reversible /\ m.thrown = n.thrown /\ m.trial = n.trial
  <1> DEFINE m == Insert(n, b)
             more == {p \in Ties(n.index \cup {b}) : p[2] = b}
  <1>1. n.index \cup {b} \subseteq Blocks
    BY DEF Nodes
  <1>2. more \subseteq Blocks \X Blocks
    BY <1>1 DEF Ties
  <1>3. \A c, d : <<c, d>> \in more <=> c \in n.index /\ d = b /\ Tied(c, b)
    BY DEF Ties, Tied
  <1>4. m = [n EXCEPT !.index = n.index \cup {b}, !.older = n.older \cup more]
    BY DEF Insert, Nodes
  <1> HIDE DEF m, more
  <1>5. m \in Nodes /\ m.index = n.index \cup {b} /\ m.older = n.older \cup more
    BY <1>1, <1>2, <1>4 DEF Nodes
  <1>6. /\ m.current = n.current /\ m.fhead = n.fhead /\ m.head = n.head /\ m.rev = n.rev
        /\ m.tail = n.tail /\ m.log = n.log /\ m.reversible = n.reversible /\ m.thrown = n.thrown
        /\ m.trial = n.trial
    BY <1>4 DEF Nodes
  <1>7. Ordered(m)
    <2>1. \A c, d : <<c, d>> \in m.older <=> <<c, d>> \in n.older \/ (c \in n.index /\ d = b /\ Tied(c, b))
      BY <1>3, <1>5
    <2>2. \A c, d : <<c, d>> \in n.older => c # b /\ d # b /\ c \in n.index /\ d \in n.index /\ Tied(c, d)
      BY DEF Ordered
    <2>3. \A c, d : <<c, d>> \in m.older => c \in m.index /\ d \in m.index /\ Tied(c, d)
      BY <1>5, <2>1, <2>2
    <2>4. ASSUME NEW c \in m.index, NEW d \in m.index, Tied(c, d)
          PROVE  <<c, d>> \in m.older <=> <<d, c>> \notin m.older
      <3>1. CASE c # b /\ d # b
        BY <1>5, <2>1, <2>4, <3>1 DEF Ordered
      <3>2. CASE c = b
        BY <1>5, <2>1, <2>2, <2>4, <3>2 DEF Tied
      <3>3. CASE d = b
        BY <1>5, <2>1, <2>2, <2>4, <3>3 DEF Tied
      <3> QED BY <3>1, <3>2, <3>3
    <2>5. ASSUME NEW c, NEW d, NEW e, <<c, d>> \in m.older, <<d, e>> \in m.older PROVE <<c, e>> \in m.older
      <3>1. <<c, d>> \in n.older
        BY <2>1, <2>2, <2>5
      <3>2. CASE <<d, e>> \in n.older
        BY <2>1, <2>2, <3>1, <3>2 DEF Ordered
      <3>3. CASE e = b /\ Tied(d, b)
        BY <2>1, <2>2, <3>1, <3>3 DEF Tied
      <3> QED BY <2>1, <2>5, <3>2, <3>3
    <2> QED BY <2>3, <2>4, <2>5 DEF Ordered
  <1>8. \A c, d \in n.index : Before(m, c, d) <=> Before(n, c, d)
    BY <1>3, <1>5 DEF Before
  <1> QED BY <1>5, <1>6, <1>7, <1>8 DEF m

\* The fork database picks the first block of the index.
LEMMA ForkHeadFacts ==
    ASSUME NEW n \in Nodes, Ordered(n), IsFiniteSet(n.index), n.index # {}
    PROVE  LET m == ForkHead(n) IN
           /\ m \in Nodes /\ Ordered(m) /\ m.index = n.index /\ m.older = n.older /\ m.current = n.current
           /\ IsFirst(m, m.fhead) /\ \A b : IsFirst(n, b) => m.fhead = b
           /\ \A c, d : Before(m, c, d) <=> Before(n, c, d)
           /\ m.head = n.head /\ m.rev = n.rev /\ m.tail = n.tail
           /\ m.log = n.log /\ m.reversible = n.reversible /\ m.thrown = n.thrown /\ m.trial = n.trial
  <1> DEFINE m == ForkHead(n)
  <1>1. n.index \subseteq Blocks
    BY DEF Nodes
  <1>2. IsFirst(n, First(n)) /\ \A b : IsFirst(n, b) => First(n) = b
    BY <1>1, FirstFacts
  <1>3. First(n) \in Blocks
    BY <1>1, <1>2 DEF IsFirst
  <1>4. m = [n EXCEPT !.fhead = First(n)]
    BY DEF ForkHead
  <1> HIDE DEF m
  <1>5. /\ m \in Nodes /\ m.index = n.index /\ m.older = n.older /\ m.current = n.current
        /\ m.fhead = First(n) /\ m.head = n.head /\ m.rev = n.rev /\ m.tail = n.tail
        /\ m.log = n.log /\ m.reversible = n.reversible /\ m.thrown = n.thrown /\ m.trial = n.trial
    BY <1>3, <1>4 DEF Nodes
  <1>6. Ordered(m) /\ \A c, d : Before(m, c, d) <=> Before(n, c, d)
    BY <1>5 DEF Ordered, Before
  <1>7. IsFirst(m, m.fhead) /\ \A b : IsFirst(n, b) => m.fhead = b
    BY <1>2, <1>5, <1>6 DEF IsFirst
  <1> QED BY <1>5, <1>6, <1>7 DEF m

\* The first block has the greatest irreversible block.
LEMMA FirstIsBest ==
    ASSUME NEW n \in Nodes, Ordered(n), NEW b, IsFirst(n, b)
    PROVE  \A c \in n.index : ~Better(c, b) /\ Lib(c) <= Lib(b)
  <1>1. \A c \in n.index : Num(c) \in Nat /\ Lib(c) \in Nat
    BY Numbers DEF Nodes
  <1>2. \A c \in n.index : c = b \/ Better(b, c) \/ Tied(b, c)
    BY DEF IsFirst, Before, Ordered
  <1>3. b \in n.index
    BY DEF IsFirst
  <1> QED BY <1>1, <1>2, <1>3 DEF Better, Tied

\* The index with a new block, and the head that the fork database picks
LEMMA AddStarts ==
    ASSUME NEW n, Rests(n), n.thrown = "none", NEW b, Joins(n, b)
    PROVE  LET m == ForkHead(Insert(n, b)) IN
           Mid(m) /\ Follows(m, n) /\ m.head = n.head /\ m.index = n.index \cup {b}
  <1> DEFINE i == Insert(n, b)
             m == ForkHead(i)
             p == Front(b)
  <1>1. n \in Nodes /\ b \in Blocks /\ b # Root /\ b \notin n.index /\ p \in n.index /\ Ordered(n)
    BY DEF Rests, Core, Joins
  <1>2. /\ i \in Nodes /\ Ordered(i) /\ i.index = n.index \cup {b} /\ i.current = n.current
        /\ \A c, d \in n.index : Before(i, c, d) <=> Before(n, c, d)
        /\ i.head = n.head /\ i.rev = n.rev /\ i.tail = n.tail
        /\ i.log = n.log /\ i.reversible = n.reversible /\ i.thrown = n.thrown /\ i.trial = n.trial
    BY <1>1, InsertOrdered
  <1>3. IsFiniteSet(i.index) /\ i.index # {}
    <2>1. IsFiniteSet(n.index)
      BY DEF Rests, Core, Rooted
    <2> QED BY <1>2, <2>1, FS_AddElement
  <1> HIDE DEF i
  <1>4. /\ m \in Nodes /\ Ordered(m) /\ m.index = i.index /\ m.current = i.current
        /\ IsFirst(m, m.fhead)
        /\ \A c, d : Before(m, c, d) <=> Before(i, c, d)
        /\ m.head = i.head /\ m.rev = i.rev /\ m.tail = i.tail
        /\ m.log = i.log /\ m.reversible = i.reversible /\ m.thrown = i.thrown /\ m.trial = i.trial
    BY <1>2, <1>3, ForkHeadFacts
  <1> HIDE DEF m
  <1>5. /\ m.index = n.index \cup {b} /\ m.current = n.current /\ m.head = n.head /\ m.rev = n.rev
        /\ m.tail = n.tail /\ m.log = n.log /\ m.reversible = n.reversible /\ m.thrown = "none"
        /\ m.trial = n.trial /\ \A c, d \in n.index : Before(m, c, d) <=> Before(n, c, d)
    BY <1>2, <1>4
  <1>6. Num(p) = Num(b) - 1 /\ Ancestors(b) = Ancestors(p) \cup {b} /\ p \in Blocks
    BY <1>1, Parent DEF Nodes
  <1>7. /\ \A c \in n.index \cup {b} : c \in Blocks /\ Num(c) \in Nat /\ Lib(c) \in Nat
        /\ \A c \in n.index : \A d \in Ancestors(c) : d \in Blocks /\ Num(d) \in Nat /\ Num(d) <= Num(c)
    BY <1>1, Numbers, Ancestry DEF Nodes
  <1>8. m.fhead \in m.index /\ \A c \in m.index : Lib(c) <= Lib(m.fhead)
    BY <1>4, FirstIsBest DEF IsFirst
  <1>9. n.fhead = n.head /\ n.head \in n.index /\ OnlyBefore(n, n.head)
    BY DEF Rests, Core, Rooted
  <1>10. Rooted(m)
    <2>1. IsFiniteSet(m.index) /\ m.head \in m.index
      BY <1>3, <1>4, <1>5, <1>9
    <2>2. \A c \in m.index : WellMade(c)
      BY <1>5 DEF Rests, Core, Rooted, Joins
    <2>3. ASSUME NEW c \in m.index, NEW d \in m.index, NEW x \in Ancestors(c), Num(d) <= Num(x)
          PROVE  x \in m.index
      <3>1. CASE x = b
        BY <1>5, <3>1
      <3>2. CASE x # b
        <4>1. PICK y \in n.index : x \in Ancestors(y)
          BY <1>1, <1>5, <1>6, <3>2
        <4>2. CASE d = b
          <5>1. c # b
            BY <1>1, <1>6, <1>7, <2>3, <3>2, <4>2
          <5>2. Num(p) <= Num(x) /\ c \in n.index
            BY <1>1, <1>5, <1>6, <1>7, <2>3, <4>2, <5>1
          <5> QED BY <1>1, <1>5, <5>2 DEF Rests, Core, Rooted
        <4>3. CASE d # b
          BY <1>5, <2>3, <4>1, <4>3 DEF Rests, Core, Rooted
        <4> QED BY <4>2, <4>3
      <3> QED BY <3>1, <3>2
    <2> QED BY <1>8, <2>1, <2>2, <2>3 DEF Rooted
  <1>11. Agreed(m)
    BY <1>5 DEF Agreed, Joins, Rests, Core
  <1>12. Logged(m)
    <2>1. n.log \in Ancestors(n.head) /\ n.log \in Blocks /\ Num(n.log) \in Nat
      BY <1>7, <1>9 DEF Rests, Core, Logged
    <2>2. Lib(n.head) <= Lib(m.fhead) /\ Lib(m.fhead) \in Nat /\ Lib(n.head) \in Nat
      BY <1>5, <1>7, <1>8, <1>9
    <2>3. n.log = Root \/ Num(n.log) <= Lib(m.fhead)
      BY <1>9, <2>1, <2>2 DEF Rests, Core, Logged
    <2>4. n.log \in m.index \/ Num(n.log) < Lib(m.fhead)
      BY <1>5, <1>9, <2>1, <2>2 DEF Rests, Core, Logged
    <2>5. \A c \in m.index : Num(n.log) <= Num(c)
      <3>1. \A c \in n.index : Num(n.log) <= Num(c)
        BY DEF Rests, Core, Logged
      <3> QED BY <1>1, <1>5, <1>6, <1>7, <2>1, <3>1
    <2>6. \A c \in Ancestors(n.head) : Num(n.log) < Num(c) => c \in m.index
      BY <1>5 DEF Rests, Core, Logged
    <2> QED BY <1>5, <2>1, <2>3, <2>4, <2>5, <2>6 DEF Logged
  <1>13. b \notin Ancestors(n.head)
    <2>1. \A c \in n.index : Num(n.log) <= Num(c)
      BY DEF Rests, Core, Logged
    <2>2. Num(n.log) < Num(b)
      <3>1. Num(n.log) \in Nat
        BY <1>7, <1>9 DEF Rests, Core, Logged
      <3> QED BY <1>1, <1>6, <1>7, <2>1, <3>1
    <2> QED BY <1>1, <2>2 DEF Rests, Core, Logged
  <1>14. InStep(m)
    BY <1>5, <1>13 DEF InStep, Rests, Core
  <1>15. Applies(m)
    BY <1>5 DEF Applies, Joins, Rests, Core
  <1>16. \A c \in n.index : ~Better(c, n.head) /\ Lib(c) <= Lib(n.head)
    <2>1. \A c \in n.index : ~Better(c, n.head)
      BY <1>7, <1>9 DEF OnlyBefore, Better
    <2> QED BY <1>7, <1>9, <2>1 DEF Better
  <1>17. OnlyBefore(m, m.fhead)
    <2> SUFFICES ASSUME NEW c \in m.index, c # m.fhead, c # n.head
                 PROVE  ~Better(c, n.head) /\ (n.trial # "restarts" => Before(m, n.head, c))
      BY <1>5 DEF OnlyBefore
    <2>1. CASE c \in n.index
      BY <1>5, <1>9, <2>1 DEF OnlyBefore
    <2>2. CASE c = b
      <3>1. m.fhead \in n.index /\ Before(m, m.fhead, b) /\ ~Better(b, m.fhead)
        BY <1>4, <1>5, <1>8, <2>2, FirstIsBest DEF IsFirst
      <3>2. ~Better(b, n.head)
        BY <1>7, <1>9, <1>16, <3>1 DEF Better
      <3>3. ASSUME n.trial # "restarts" PROVE m.fhead = n.head
        <4> SUFFICES ASSUME m.fhead # n.head PROVE FALSE
          OBVIOUS
        <4>1. Before(m, m.fhead, n.head) /\ Before(m, n.head, m.fhead)
          BY <1>4, <1>5, <1>9, <3>1, <3>3 DEF IsFirst, OnlyBefore
        <4>2. m.index \subseteq Blocks /\ n.head \in m.index
          BY <1>4, <1>5, <1>9 DEF Nodes
        <4> QED BY <1>4, <1>8, <4>1, <4>2, TotalOrder
      <3> QED BY <2>2, <3>1, <3>2, <3>3
    <2> QED BY <1>5, <2>1, <2>2
  <1>18. (\E c \in Ancestors(m.fhead) : ~Valid(c)) => Lib(m.fhead) <= Lib(m.head)
    <2>1. CASE m.fhead = b
      BY <1>1, <1>5, <1>16, <2>1 DEF Joins
    <2>2. CASE m.fhead \in n.index
      BY <1>5, <1>16, <2>2
    <2> QED BY <1>5, <1>8, <2>1, <2>2
  <1>19. Follows(m, n)
    <2>1. n.log \in Ancestors(n.log)
      BY <1>1, Ancestry DEF Nodes
    <2> QED BY <1>5, <2>1 DEF Follows
  <1>20. Core(m)
    BY <1>4, <1>10, <1>11, <1>12, <1>14, <1>15 DEF Core
  <1>21. Mid(m)
    BY <1>4, <1>5, <1>17, <1>18, <1>20 DEF Mid
  <1> QED BY <1>5, <1>19, <1>21 DEF m, i

-----------------------------------------------------------------------------
\* Pruning

\* Numbers along the chain of a block of the index
LEMMA Chain ==
    ASSUME NEW n \in Nodes, NEW b \in n.index
    PROVE  /\ b \in Blocks /\ Num(b) \in Nat /\ Lib(b) \in Nat /\ b \in Ancestors(b)
           /\ \A c \in Ancestors(b) : c \in Blocks /\ Num(c) \in Nat /\ RootNum <= Num(c) /\ Num(c) <= Num(b)
           /\ \A c, d \in Ancestors(b) : Num(c) = Num(d) => c = d
           /\ \A c, d \in Ancestors(b) : c \in Ancestors(d) <=> Num(c) <= Num(d)
           /\ \A c \in Ancestors(b) : Ancestors(c) \subseteq Ancestors(b)
           /\ \A k \in Nat : RootNum <= k /\ k <= Num(b) => \E c \in Ancestors(b) : Num(c) = k
  <1>1. b \in Blocks
    BY DEF Nodes
  <1>2. \A c \in Ancestors(b) : c \in Blocks
    BY <1>1, Ancestry
  <1>3. \A c \in Ancestors(b) : Num(c) \in Nat
    BY <1>2, Numbers
  <1>4. ASSUME NEW c \in Ancestors(b), NEW d \in Ancestors(b), c \in Ancestors(d) PROVE Num(c) <= Num(d)
    BY <1>2, <1>4, Ancestry
  <1>5. \A c, d \in Ancestors(b) : Num(c) <= Num(d) => c \in Ancestors(d)
    BY <1>1, Ancestry
  <1> QED BY <1>1, <1>2, <1>3, <1>4, <1>5, Ancestry, Numbers

\* The oldest block is the lowest of the chain of the head that is in the index.
LEMMA OldestFacts ==
    ASSUME NEW n, Core(n)
    PROVE  LET o == oldest(n) IN
           /\ o \in n.index /\ o \in Ancestors(n.head) /\ \A b \in n.index : Num(o) <= Num(b)
           /\ n.log \in Ancestors(o) /\ (n.log = o \/ (o # Root /\ Front(o) = n.log))
  <1> DEFINE o == oldest(n)
             S == {Num(b) : b \in n.index}
  <1>1. n \in Nodes /\ n.head \in n.index
    BY DEF Core, Rooted
  <1>2. \A b \in n.index : Num(b) \in Nat
    BY <1>1, Chain
  <1>3. PICK x \in n.index : \A b \in n.index : Num(x) <= Num(b)
    <2>1. S \subseteq Nat /\ S # {}
      BY <1>1, <1>2
    <2>2. PICK k \in S : \A j \in S : k <= j
      <3> HIDE DEF S
      <3> QED BY <2>1, NatMin
    <2> QED BY <2>2
  <1>4. \A b : b \in Lowest(n) <=> b \in n.index /\ Num(b) = Num(x)
    BY <1>2, <1>3 DEF Lowest
  <1>5. PICK c \in Ancestors(n.head) : Num(c) = Num(x)
    <2>1. Num(x) <= Num(n.head) /\ RootNum <= Num(x)
      BY <1>1, <1>3, Chain
    <2> QED BY <1>1, <1>2, <2>1, Chain
  <1>6. c \in n.index /\ c \in Lowest(n)
    BY <1>1, <1>2, <1>4, <1>5 DEF Core, Rooted
  <1>7. o \in Lowest(n) /\ (Lowest(n) \cap n.current # {} => o \in n.current)
    <2>1. \E b \in Lowest(n) : Lowest(n) \cap n.current # {} => b \in n.current
      BY <1>6
    <2> QED BY <2>1 DEF oldest
  <1> HIDE DEF o
  <1>8. o \in n.index /\ Num(o) = Num(x) /\ \A b \in n.index : Num(o) <= Num(b)
    BY <1>3, <1>4, <1>7
  <1>9. o \in Ancestors(n.head)
    <2>1. CASE c = Root
      <3>1. c \in Blocks
        BY <1>1, Chain
      <3>2. Num(o) = RootNum
        BY <1>5, <1>8, <2>1, <3>1, Numbers
      <3>3. o = Root
        BY <1>1, <1>8, <3>2, Numbers DEF Nodes
      <3> QED BY <1>5, <2>1, <3>3
    <2>2. CASE c # Root
      <3>1. c \in n.current
        BY <1>5, <1>6, <2>2 DEF Core, InStep
      <3>2. o \in n.current
        BY <1>6, <1>7, <3>1
      <3> QED BY <3>2 DEF Core, InStep
    <2> QED BY <2>1, <2>2
  <1>10. /\ n.log \in Ancestors(n.head) /\ n.log \in Blocks /\ Num(n.log) \in Nat /\ RootNum <= Num(n.log)
         /\ o \in Blocks /\ Num(o) \in Nat
    BY <1>1, <1>9, Chain DEF Core, Logged
  <1>11. Num(n.log) <= Num(o)
    BY <1>8 DEF Core, Logged
  <1>12. n.log \in Ancestors(o)
    BY <1>1, <1>9, <1>10, <1>11, Chain
  <1>13. ASSUME n.log # o PROVE o # Root /\ Front(o) = n.log
    <2>1. Num(n.log) < Num(o)
      BY <1>1, <1>9, <1>10, <1>11, <1>13, Chain
    <2>2. o # Root
      BY <1>10, <2>1, Numbers, RootAssumption
    <2>3. Front(o) \in Ancestors(o) /\ Num(Front(o)) = Num(o) - 1
      BY <1>10, <2>2, Parent
    <2>4. Front(o) \in Ancestors(n.head)
      BY <1>1, <1>9, <2>3, Chain
    <2>5. Num(Front(o)) \notin Nat \/ ~(Num(n.log) < Num(Front(o)))
      <3> SUFFICES ASSUME Num(n.log) < Num(Front(o)) PROVE FALSE
        OBVIOUS
      <3>1. Front(o) \in n.index
        BY <2>4 DEF Core, Logged
      <3>2. Num(o) <= Num(o) - 1
        BY <1>8, <2>3, <3>1
      <3> QED BY <1>10, <3>2
    <2>6. Num(Front(o)) = Num(n.log)
      BY <1>10, <2>1, <2>3, <2>5
    <2> QED BY <1>1, <1>10, <2>2, <2>4, <2>6, Chain
  <1> QED BY <1>8, <1>9, <1>12, <1>13 DEF o

\* The slot of the irreversible signal accepts the oldest block, which becomes the log's head.
LEMMA OnIrreversible ==
    ASSUME NEW n, Core(n), NEW o \in n.index, o \in Ancestors(n.head), n.log \in Ancestors(o),
           n.log = o \/ (o # Root /\ Front(o) = n.log)
    PROVE  on_irreversible(n, o) = [n EXCEPT !.log = o, !.tail = Num(o),
                                             !.reversible = Ancestors(n.head) \ Ancestors(o)]
  <1>1. n.log = o \/ (o # Root /\ Front(o) = n.log)
    OBVIOUS
  <1>2. n \in Nodes /\ n.head \in n.index /\ InStep(n) /\ n.log \in Ancestors(n.head)
    BY DEF Core, Rooted, Logged
  <1>3. Num(o) \in Nat /\ Num(n.log) \in Nat /\ Num(n.log) <= Num(o)
    BY <1>1, <1>2, Chain
  <1>4. Num(o) > Num(n.log) => o # Root /\ Front(o) = n.log
    BY <1>1, <1>3
  <1>5. (IF Num(o) > Num(n.log) THEN o ELSE n.log) = o
    BY <1>1, <1>2, <1>3, Chain
  <1>6. Max({n.tail, Num(o)}) = Num(o)
    <2>1. n.tail = Num(n.log)
      BY <1>2 DEF InStep
    <2> QED BY <1>3, <2>1 DEF Max
  <1>7. {c \in n.reversible : Num(c) > Num(o)} = Ancestors(n.head) \ Ancestors(o)
    <2>1. n.reversible = Ancestors(n.head) \ Ancestors(n.log)
      BY <1>2 DEF InStep
    <2>2. \A c \in Ancestors(n.head) : /\ Num(c) \in Nat
                                       /\ c \in Ancestors(o) <=> Num(c) <= Num(o)
                                       /\ c \in Ancestors(n.log) <=> Num(c) <= Num(n.log)
      BY <1>1, <1>2, Chain
    <2>3. \A c \in Ancestors(n.head) : Num(c) > Num(o) <=> c \notin Ancestors(o)
      BY <1>3, <2>2
    <2>4. \A c \in Ancestors(n.head) : c \notin Ancestors(o) => c \notin Ancestors(n.log)
      BY <1>3, <2>2
    <2> QED BY <2>1, <2>3, <2>4
  <1>8. on_irreversible(n, o) = [n EXCEPT !.log = IF Num(o) > Num(n.log) THEN o ELSE n.log,
                                          !.tail = Max({n.tail, Num(o)}),
                                          !.reversible = {c \in n.reversible : Num(c) > Num(o)}]
    BY <1>2, <1>4 DEF on_irreversible, Nodes
  <1>9. on_irreversible(n, o) = [n EXCEPT !.log = o, !.tail = Num(o),
                                          !.reversible = Ancestors(n.head) \ Ancestors(o)]
    BY <1>5, <1>6, <1>7, <1>8
  <1> QED BY <1>9

\* The last irreversible block is not after the block.
LEMMA LibBehind ==
    ASSUME NEW b \in Blocks, WellMade(b)
    PROVE  Lib(b) <= Num(b)
  <1>1. Num(b) \in Nat /\ Lib(b) \in Nat
    BY Numbers
  <1>2. CASE b = Root
    <2>1. Num(b) = RootNum /\ Lib(b) = RootLib
      BY <1>2, Numbers DEF Lib
    <2> QED BY <2>1, RootAssumption
  <1>3. CASE b # Root
    BY <1>1, <1>3 DEF WellMade
  <1> QED BY <1>2, <1>3

\* Below the last irreversible block of a block, its chain is that of the head.
LEMMA Common ==
    ASSUME NEW n, Core(n), NEW b \in n.index, NEW c \in Ancestors(n.head), Num(c) <= Lib(b)
    PROVE  c \in Ancestors(b)
  <1>1. n \in Nodes /\ n.head \in n.index /\ WellMade(b)
    BY DEF Core, Rooted
  <1>2. Num(c) \in Nat /\ RootNum <= Num(c) /\ Num(b) \in Nat /\ Lib(b) \in Nat
    BY <1>1, Chain
  <1>3. Lib(b) <= Num(b)
    BY <1>1, LibBehind DEF Nodes
  <1>4. PICK d \in Ancestors(b) : Num(d) = Num(c)
    BY <1>1, <1>2, <1>3, Chain
  <1>5. d \in Ancestors(n.head)
    BY <1>4 DEF Core, Agreed
  <1>6. d = c
    BY <1>1, <1>4, <1>5, Chain
  <1> QED BY <1>4, <1>6

\* The oldest block is not the head of the database or of the controller, and is on both chains,
\* when it is older than the last irreversible block.
LEMMA OldestLeft ==
    ASSUME NEW n, Core(n), Num(oldest(n)) < Lib(n.fhead)
    PROVE  LET o == oldest(n) IN
           o # n.head /\ o # n.fhead /\ o \in Ancestors(n.head) /\ o \in Ancestors(n.fhead)
  <1> DEFINE o == oldest(n)
  <1>1. o \in n.index /\ o \in Ancestors(n.head)
    BY OldestFacts
  <1>2. Num(o) < Lib(n.fhead)
    OBVIOUS
  <1> HIDE DEF o
  <1>3. n \in Nodes /\ n.head \in n.index /\ n.fhead \in n.index /\ WellMade(n.fhead)
    BY DEF Core, Rooted
  <1>4. /\ Num(o) \in Nat /\ RootNum <= Num(o) /\ Num(n.fhead) \in Nat /\ Lib(n.fhead) \in Nat
        /\ Num(n.head) \in Nat
    BY <1>1, <1>3, Chain
  <1>5. Lib(n.fhead) <= Num(n.fhead) /\ RootNum <= Lib(n.fhead)
    <2>1. Lib(n.fhead) <= Num(n.fhead)
      BY <1>3, LibBehind DEF Nodes
    <2> QED BY <1>2, <1>4, <2>1, RootAssumption
  <1>6. o \in Ancestors(n.fhead)
    BY <1>1, <1>2, <1>3, <1>4, Common
  <1>7. PICK d \in Ancestors(n.fhead) : Num(d) = Lib(n.fhead)
    BY <1>3, <1>4, <1>5, Chain
  <1>8. d \in Ancestors(n.head)
    BY <1>3, <1>4, <1>7 DEF Core, Agreed
  <1>9. Num(d) <= Num(n.head)
    BY <1>3, <1>8, Chain
  <1>10. o # n.head /\ o # n.fhead
    BY <1>2, <1>4, <1>5, <1>7, <1>9
  <1> QED BY <1>1, <1>6, <1>10 DEF o

\* What leaves the index when o is pruned: o, and the blocks that are not built on it
Leaves(n, o) == {o} \cup {c \in n.index : o \notin Ancestors(c)}

\* The node without what pruning removes
LEMMA PruneFields ==
    ASSUME NEW n, Core(n), IsFirst(n, n.fhead), n.thrown = "none", Num(oldest(n)) < Lib(n.fhead)
    PROVE  LET o == oldest(n)
               r == prune(n, o) IN
           /\ r \in Nodes /\ Ordered(r) /\ r.index = n.index \ Leaves(n, o)
           /\ r.current = n.current \ Leaves(n, o) /\ r.fhead = n.fhead /\ r.head = n.head
           /\ \A b, c \in r.index : Before(r, b, c) <=> Before(n, b, c)
           /\ r.rev = n.rev /\ r.tail = Num(o) /\ r.log = o /\ r.trial = n.trial /\ r.thrown = "none"
           /\ r.reversible = Ancestors(n.head) \ Ancestors(o)
  <1> DEFINE o == oldest(n)
             irr == on_irreversible(n, o)
             e == Erase(irr, {o})
             rivals == {b \in e.index : Num(b) = Num(o)}
             gone == {c \in e.index : \E b \in rivals : IsPrefix(b, c)}
             f == Erase(e, gone)
             r == prune(n, o)
  <1>1. /\ o \in n.index /\ o \in Ancestors(n.head) /\ n.log \in Ancestors(o)
        /\ n.log = o \/ (o # Root /\ Front(o) = n.log)
        /\ \A b \in n.index : Num(o) <= Num(b)
    BY OldestFacts
  <1>2. o # n.head /\ o # n.fhead /\ o \in Ancestors(n.fhead)
    BY OldestLeft
  <1>3. irr = [n EXCEPT !.log = o, !.tail = Num(o), !.reversible = Ancestors(n.head) \ Ancestors(o)]
    <2> HIDE DEF o
    <2> QED BY <1>1, OnIrreversible
  <1>4. r = IF Threw(irr) THEN irr ELSE IF rivals = {} THEN e ELSE ForkHead(f)
    BY DEF prune
  <1> HIDE DEF o, irr, r
  <1>5. /\ n \in Nodes /\ n.head \in n.index /\ n.fhead \in n.index /\ Ordered(n) /\ IsFiniteSet(n.index)
        /\ \A b \in n.index : WellMade(b)
    BY DEF Core, Rooted
  <1>6. o \in Blocks /\ Num(o) \in Nat /\ Ancestors(n.head) \subseteq Blocks
    BY <1>1, <1>5, Chain
  <1>7. /\ irr \in Nodes /\ irr.index = n.index /\ irr.older = n.older /\ irr.fhead = n.fhead
        /\ irr.current = n.current /\ irr.head = n.head /\ irr.rev = n.rev /\ irr.tail = Num(o)
        /\ irr.log = o /\ irr.reversible = Ancestors(n.head) \ Ancestors(o) /\ irr.thrown = "none"
        /\ irr.trial = n.trial
    <2> DEFINE left == Ancestors(n.head) \ Ancestors(o)
    <2>1. left \in SUBSET Blocks /\ irr = [n EXCEPT !.log = o, !.tail = Num(o), !.reversible = left]
      BY <1>3, <1>6
    <2> HIDE DEF left
    <2> DEFINE k == Num(o)
    <2>2. irr \in Nodes
      <3>1. k \in Int /\ o \in Blocks /\ n \in Nodes
        BY <1>5, <1>6
      <3>2. irr = [n EXCEPT !.log = o, !.tail = k, !.reversible = left]
        BY <2>1
      <3> HIDE DEF k
      <3> QED BY <2>1, <3>1, <3>2, ZenonT(60) DEF Nodes
    <2>3. /\ irr.index = n.index /\ irr.older = n.older /\ irr.fhead = n.fhead
          /\ irr.current = n.current /\ irr.head = n.head /\ irr.rev = n.rev /\ irr.tail = Num(o)
          /\ irr.log = o /\ irr.reversible = left /\ irr.thrown = "none" /\ irr.trial = n.trial
      BY <1>5, <2>1 DEF Nodes
    <2> QED BY <2>2, <2>3 DEF left
  <1>8. Ordered(irr) /\ \A b, c : Before(irr, b, c) <=> Before(n, b, c)
    BY <1>5, <1>7 DEF Ordered, Before
  <1>9. /\ e \in Nodes /\ Ordered(e) /\ e.index = irr.index \ {o} /\ e.current = irr.current \ {o}
        /\ \A b, c \in e.index : Before(e, b, c) <=> Before(irr, b, c)
        /\ e.fhead = irr.fhead /\ e.head = irr.head /\ e.rev = irr.rev /\ e.tail = irr.tail
        /\ e.log = irr.log /\ e.reversible = irr.reversible /\ e.thrown = irr.thrown /\ e.trial = irr.trial
    BY <1>7, <1>8, EraseOrdered
  <1> HIDE DEF e
  <1>10. /\ f \in Nodes /\ Ordered(f) /\ f.index = e.index \ gone /\ f.current = e.current \ gone
         /\ \A b, c \in f.index : Before(f, b, c) <=> Before(e, b, c)
         /\ f.fhead = e.fhead /\ f.head = e.head /\ f.rev = e.rev /\ f.tail = e.tail
         /\ f.log = e.log /\ f.reversible = e.reversible /\ f.thrown = e.thrown /\ f.trial = e.trial
    <2> HIDE DEF gone
    <2> QED BY <1>9, EraseOrdered
  <1>11. rivals = {b \in n.index : b # o /\ Num(b) = Num(o)}
    BY <1>7, <1>9
  <1>12. ASSUME NEW c \in n.index PROVE (c \in gone \/ c = o) <=> c \in Leaves(n, o)
    <2>1. c # o => c \in e.index
      BY <1>7, <1>9
    <2>2. c \in Blocks /\ \A b \in n.index : b \in Blocks
      BY <1>5 DEF Nodes
    <2>3. PICK d \in Ancestors(c) : Num(d) = Num(o)
      BY <1>1, <1>5, <1>6, Chain
    <2>4. d \in n.index
      BY <1>1, <1>6, <2>3 DEF Core, Rooted
    <2>5. o \in Ancestors(c) <=> d = o
      BY <1>5, <2>3, Chain
    <2>6. ASSUME c \in gone PROVE o \notin Ancestors(c)
      <3>1. PICK b \in rivals : IsPrefix(b, c)
        BY <2>6
      <3>2. b \in n.index /\ b # o /\ Num(b) = Num(o)
        BY <1>11
      <3>3. b \in Ancestors(c)
        BY <2>2, <3>1, <3>2, Prefix
      <3> QED BY <1>5, <3>2, <3>3, Chain
    <2>7. ASSUME c # o, o \notin Ancestors(c) PROVE c \in gone
      <3>1. d \in rivals /\ IsPrefix(d, c)
        BY <1>11, <2>2, <2>3, <2>4, <2>5, <2>7, Prefix
      <3> QED BY <2>1, <2>7, <3>1
    <2> QED BY <2>6, <2>7 DEF Leaves
  <1>13. gone \subseteq n.index /\ \A c \in rivals : c \in gone
    <2>1. \A c \in e.index : c \in Blocks /\ c \in n.index
      BY <1>5, <1>7, <1>9 DEF Nodes
    <2>2. \A c \in e.index : IsPrefix(c, c)
      BY <2>1, Prefix, Ancestry
    <2> QED BY <2>1, <2>2
  <1>14. /\ f.index = n.index \ Leaves(n, o) /\ f.current = n.current \ Leaves(n, o)
         /\ f.fhead = n.fhead /\ f.head = n.head
         /\ \A b, c \in f.index : Before(f, b, c) <=> Before(n, b, c)
         /\ f.rev = n.rev /\ f.tail = Num(o) /\ f.log = o /\ f.trial = n.trial /\ f.thrown = "none"
         /\ f.reversible = Ancestors(n.head) \ Ancestors(o)
    <2>1. n.current \subseteq n.index
      BY DEF Core, InStep
    <2> HIDE DEF gone, rivals, f
    <2> QED BY <1>7, <1>8, <1>9, <1>10, <1>12, <2>1
  <1>15. CASE rivals = {}
    <2>1. gone = {}
      BY <1>15
    <2>2. r = e
      BY <1>4, <1>7, <1>15 DEF Threw
    <2>3. /\ e.index = f.index /\ e.current = f.current
      <3> HIDE DEF gone, f
      <3> QED BY <1>10, <2>1
    <2> HIDE DEF gone, rivals, f
    <2>4. \A b, c \in e.index : Before(e, b, c) <=> Before(n, b, c)
      BY <1>8, <1>9
    <2> QED BY <1>9, <1>10, <1>14, <2>2, <2>3, <2>4 DEF o, r
  <1>16. CASE rivals # {}
    <2> DEFINE g == ForkHead(f)
    <2>1. r = g
      BY <1>4, <1>7, <1>16 DEF Threw
    <2> HIDE DEF gone, rivals, f
    <2>2. n.fhead \in f.index
      BY <1>2, <1>5, <1>14 DEF Leaves
    <2>3. IsFirst(f, n.fhead)
      BY <1>14, <2>2 DEF IsFirst
    <2>4. IsFiniteSet(f.index) /\ f.index # {}
      BY <1>5, <1>14, <2>2, FS_Subset
    <2>5. /\ g \in Nodes /\ Ordered(g) /\ g.index = f.index /\ g.current = f.current
          /\ g.fhead = n.fhead /\ \A c, d : Before(g, c, d) <=> Before(f, c, d)
          /\ g.head = f.head /\ g.rev = f.rev /\ g.tail = f.tail
          /\ g.log = f.log /\ g.reversible = f.reversible /\ g.thrown = f.thrown /\ g.trial = f.trial
      BY <1>10, <2>3, <2>4, ForkHeadFacts
    <2> HIDE DEF g
    <2> QED BY <1>14, <2>1, <2>5 DEF o, r
  <1> QED BY <1>15, <1>16

\* Pruning the oldest block leaves everything in step.
LEMMA PruneStep ==
    ASSUME NEW n, Mid(n), Num(oldest(n)) < Lib(n.fhead)
    PROVE  LET r == prune(n, oldest(n)) IN
           Mid(r) /\ Follows(r, n) /\ r.head = n.head /\ r.fhead = n.fhead
  <1> DEFINE o == oldest(n)
             r == prune(n, o)
  <1>1. Core(n) /\ IsFirst(n, n.fhead) /\ n.thrown = "none" /\ OnlyBefore(n, n.fhead)
    BY DEF Mid
  <1>2. /\ o \in n.index /\ o \in Ancestors(n.head) /\ n.log \in Ancestors(o)
        /\ \A b \in n.index : Num(o) <= Num(b)
    BY <1>1, OldestFacts
  <1>3. o # n.head /\ o # n.fhead /\ o \in Ancestors(n.fhead) /\ Num(o) < Lib(n.fhead)
    BY <1>1, OldestLeft
  <1>4. /\ r \in Nodes /\ Ordered(r) /\ r.index = n.index \ Leaves(n, o)
        /\ r.current = n.current \ Leaves(n, o) /\ r.fhead = n.fhead /\ r.head = n.head
        /\ \A b, c \in r.index : Before(r, b, c) <=> Before(n, b, c)
        /\ r.rev = n.rev /\ r.tail = Num(o) /\ r.log = o /\ r.trial = n.trial /\ r.thrown = "none"
        /\ r.reversible = Ancestors(n.head) \ Ancestors(o)
    BY <1>1, PruneFields
  <1> HIDE DEF o, r
  <1>5. n \in Nodes /\ n.head \in n.index /\ n.fhead \in n.index /\ IsFiniteSet(n.index)
    BY <1>1 DEF Core, Rooted
  <1>6. /\ \A b \in n.index : b \in Blocks /\ Num(b) \in Nat /\ Lib(b) \in Nat
        /\ \A b \in n.index : \A c \in Ancestors(b) : Num(c) \in Nat
        /\ \A b \in n.index : \A c \in Ancestors(b) : Ancestors(c) \subseteq Ancestors(b)
        /\ \A b \in n.index : \A c, d \in Ancestors(b) : Num(d) <= Num(c) => d \in Ancestors(c)
        /\ \A b \in n.index : \A c, d \in Ancestors(b) : Num(d) = Num(c) => d = c
    BY <1>5, Chain
  <1>7. \A b \in r.index : b \in n.index /\ o \in Ancestors(b) /\ b # o
    BY <1>4 DEF Leaves
  <1>8. \A b \in r.index : Num(o) < Num(b)
    BY <1>2, <1>5, <1>6, <1>7, Chain
  <1>9. n.head \in r.index /\ n.fhead \in r.index
    BY <1>2, <1>3, <1>4, <1>5 DEF Leaves
  <1>10. ASSUME NEW b \in n.index, o \in Ancestors(b), NEW c \in Ancestors(b), Num(o) < Num(c), c \in n.index
         PROVE  c \in r.index
    <2>1. Num(o) <= Num(c) /\ c # o
      BY <1>2, <1>6, <1>10
    <2>2. o \in Ancestors(c)
      BY <1>6, <1>10, <2>1
    <2> QED BY <1>4, <1>10, <2>1, <2>2 DEF Leaves
  <1>11. Rooted(r)
    <2>1. IsFiniteSet(r.index)
      BY <1>4, <1>5, FS_Subset
    <2>2. \A b \in r.index : WellMade(b)
      BY <1>1, <1>7 DEF Core, Rooted
    <2>3. ASSUME NEW b \in r.index, NEW d \in r.index, NEW c \in Ancestors(b), Num(d) <= Num(c) PROVE c \in r.index
      <3>1. c \in n.index
        BY <1>1, <1>7, <2>3 DEF Core, Rooted
      <3>2. Num(o) < Num(c)
        BY <1>2, <1>6, <1>7, <1>8, <2>3
      <3> QED BY <1>7, <1>10, <3>1, <3>2
    <2> QED BY <1>4, <1>9, <2>1, <2>2, <2>3 DEF Rooted
  <1>12. Agreed(r)
    BY <1>1, <1>4, <1>7 DEF Agreed, Core
  <1>13. Logged(r)
    <2>1. \A b \in r.index : Num(o) <= Num(b)
      BY <1>2, <1>7
    <2>2. Num(n.log) \in Nat /\ Num(n.log) <= Num(o) /\ Num(o) \in Nat
      BY <1>2, <1>5, Chain
    <2>3. \A c \in Ancestors(n.head) : Num(o) < Num(c) => c \in n.index
      <3>1. \A c \in Ancestors(n.head) : Num(n.log) < Num(c) => c \in n.index
        BY <1>1 DEF Core, Logged
      <3> QED BY <1>5, <1>6, <2>2, <3>1
    <2>4. \A c \in Ancestors(n.head) : Num(o) < Num(c) => c \in r.index
      BY <1>2, <1>5, <1>10, <2>3
    <2>5. Num(o) <= Lib(n.fhead)
      BY <1>3, <1>5, <1>6, <2>2
    <2> QED BY <1>2, <1>3, <1>4, <2>1, <2>4, <2>5 DEF Logged
  <1>14. InStep(r)
    <2>1. n.rev = Num(n.head) /\ n.current = (Ancestors(n.head) \ {Root}) \cap n.index
      BY <1>1 DEF Core, InStep
    <2> QED BY <1>4, <2>1 DEF InStep
  <1>15. Applies(r)
    BY <1>1, <1>4 DEF Applies, Core
  <1>16. IsFirst(r, r.fhead) /\ OnlyBefore(r, r.fhead)
    BY <1>1, <1>4, <1>7, <1>9 DEF IsFirst, OnlyBefore
  <1>17. Follows(r, n)
    BY <1>2, <1>4 DEF Follows
  <1>18. Mid(r)
    BY <1>4, <1>11, <1>12, <1>13, <1>14, <1>15, <1>16 DEF Mid, Core
  <1> QED BY <1>4, <1>17, <1>18 DEF o, r

Repeats(f, F, S, a, k) == f \in [0 .. k -> S] /\ f[0] = a /\ \A i \in 1 .. k : f[i] = F[f[i - 1]]

\* A step from S to S can be repeated k times.
LEMMA Iterates ==
    ASSUME NEW S, NEW F \in [S -> S], NEW a \in S, NEW k \in Nat
    PROVE  \E f : Repeats(f, F, S, a, k)
  <1> DEFINE Runs(f, j) == f \in [0 .. j -> S] /\ f[0] = a /\ \A i \in 1 .. j : f[i] = F[f[i - 1]]
             T == {j \in Nat : \E f : Runs(f, j)}
  <1>1. 0 \in T
    <2> DEFINE f == [i \in 0 .. 0 |-> a]
    <2>1. Runs(f, 0)
      OBVIOUS
    <2> QED BY <2>1
  <1>2. ASSUME NEW j \in 1 .. k, j - 1 \in T PROVE j \in T
    <2>1. PICK f : Runs(f, j - 1)
      BY <1>2
    <2> DEFINE g == [i \in 0 .. j |-> IF i < j THEN f[i] ELSE F[f[j - 1]]]
    <2>2. f[j - 1] \in S /\ F[f[j - 1]] \in S
      BY <2>1
    <2>3. g \in [0 .. j -> S]
      BY <2>1, <2>2
    <2>4. g[0] = a
      BY <2>1
    <2>5. ASSUME NEW i \in 1 .. j PROVE g[i] = F[g[i - 1]]
      <3>1. CASE i < j
        <4>1. i \in 1 .. j - 1 /\ g[i] = f[i] /\ g[i - 1] = f[i - 1]
          BY <3>1
        <4> HIDE DEF g
        <4> QED BY <2>1, <4>1
      <3>2. CASE i = j
        <4>1. g[i] = F[f[j - 1]] /\ g[i - 1] = f[j - 1]
          BY <3>2
        <4> HIDE DEF g
        <4> QED BY <4>1
      <3> QED BY <3>1, <3>2
    <2> HIDE DEF g
    <2>6. Runs(g, j)
      BY <2>3, <2>4, <2>5
    <2> QED BY <2>6
  <1>3. k \in T
    <2> HIDE DEF T
    <2>1. \A i \in 0 .. k : i \in T
      BY <1>1, <1>2, Climb
    <2> QED BY <2>1
  <1>4. PICK f : Runs(f, k)
    BY <1>3
  <1> QED BY <1>4 DEF Repeats

LEMMA FollowsOn ==
    ASSUME NEW a, NEW b, NEW c, a.log \in Blocks, Follows(a, b), Follows(b, c)
    PROVE  Follows(a, c)
  <1>1. b.log \in Ancestors(a.log) /\ c.log \in Ancestors(b.log)
    BY DEF Follows
  <1>2. Ancestors(b.log) \subseteq Ancestors(a.log)
    BY <1>1, Ancestry
  <1> QED BY <1>1, <1>2 DEF Follows

\* However many blocks are pruned, everything stays in step.
LEMMA PruneOlder ==
    ASSUME NEW n, Mid(n)
    PROVE  LET m == prune_older(n, Lib(n.fhead)) IN
           Mid(m) /\ Follows(m, n) /\ m.head = n.head /\ m.fhead = n.fhead
  <1> DEFINE lib == Lib(n.fhead)
             Fine(m) == Mid(m) /\ Follows(m, n) /\ m.head = n.head /\ m.fhead = n.fhead
             S == {m \in Nodes : Fine(m)}
             G(m) == IF ~Threw(m) /\ Num(oldest(m)) < lib THEN prune(m, oldest(m)) ELSE m
             F == [m \in S |-> G(m)]
             R(f) == [i \in 0 .. PruneLimit |-> IF i = 0 THEN n ELSE G(f[i - 1])]
             step == CHOOSE f : f = R(f)
  <1>1. n \in S
    <2>1. n \in Nodes
      BY DEF Mid, Core
    <2>2. n.log \in Ancestors(n.log)
      BY <2>1, Ancestry DEF Nodes
    <2> QED BY <2>1, <2>2 DEF Follows
  <1>2. ASSUME NEW m \in S PROVE G(m) \in S
    <2>1. CASE ~Threw(m) /\ Num(oldest(m)) < lib
      <3> DEFINE r == prune(m, oldest(m))
      <3>1. Fine(m) /\ Num(oldest(m)) < Lib(m.fhead)
        BY <2>1
      <3>2. Mid(r) /\ Follows(r, m) /\ r.head = m.head /\ r.fhead = m.fhead
        BY <3>1, PruneStep
      <3> HIDE DEF r
      <3>3. r \in Nodes /\ r.log \in Blocks
        BY <3>2 DEF Mid, Core, Nodes
      <3>4. Follows(r, n)
        BY <3>1, <3>2, <3>3, FollowsOn
      <3>5. r \in S
        BY <3>1, <3>2, <3>3, <3>4
      <3>6. G(m) = r
        BY <2>1 DEF r
      <3> QED BY <3>5, <3>6
    <2>2. CASE ~(~Threw(m) /\ Num(oldest(m)) < lib)
      <3>1. G(m) = m
        BY <2>2
      <3> QED BY <1>2, <3>1
    <2> QED BY <2>1, <2>2
  <1> HIDE DEF Fine, S, G
  <1>3. F \in [S -> S] /\ \A m \in S : F[m] = G(m)
    BY <1>2
  <1>4. \E f : f = R(f)
    <2> HIDE DEF F
    <2>1. PICK f : Repeats(f, F, S, n, PruneLimit)
      BY <1>1, <1>3, Iterates, PruneLimitAssumption
    <2>2. \A i \in 0 .. PruneLimit : i # 0 => F[f[i - 1]] = G(f[i - 1])
      <3>1. \A i \in 0 .. PruneLimit : i # 0 => i - 1 \in 0 .. PruneLimit
        BY PruneLimitAssumption
      <3> QED BY <1>3, <2>1, <3>1 DEF Repeats
    <2>3. f = R(f)
      <3>1. f \in [0 .. PruneLimit -> S]
        BY <2>1 DEF Repeats
      <3>2. \A i \in 0 .. PruneLimit : f[i] = IF i = 0 THEN n ELSE G(f[i - 1])
        BY <2>1, <2>2 DEF Repeats
      <3> QED BY <3>1, <3>2
    <2> QED BY <2>3
  <1>5. step = R(step)
    <2> HIDE DEF R
    <2> QED BY <1>4
  <1>6. prune_older(n, lib) = step[PruneLimit]
    BY DEF prune_older, G
  <1> HIDE DEF step
  <1>7. step[0] = n /\ \A i \in 1 .. PruneLimit : step[i] = G(step[i - 1])
    <2>1. \A i \in 0 .. PruneLimit : step[i] = IF i = 0 THEN n ELSE G(step[i - 1])
      BY <1>5
    <2> QED BY <2>1, PruneLimitAssumption
  <1> DEFINE T == {i \in Nat : step[i] \in S}
  <1>8. 0 \in T /\ \A i \in 1 .. PruneLimit : i - 1 \in T => i \in T
    BY <1>1, <1>2, <1>7
  <1>9. PruneLimit \in T
    <2> HIDE DEF T
    <2>1. \A i \in 0 .. PruneLimit : i \in T
      BY <1>8, Climb, PruneLimitAssumption
    <2> QED BY <2>1, PruneLimitAssumption
  <1>10. prune_older(n, lib) \in S
    BY <1>6, <1>9
  <1> QED BY <1>10 DEF S, Fine

\* add, as a whole
LEMMA AddFacts ==
    ASSUME NEW n, Rests(n), n.thrown = "none", NEW b, Joins(n, b)
    PROVE  LET m == add(n, b) IN
           /\ Mid(m) /\ Follows(m, n) /\ m.head = n.head
           /\ m.fhead = ForkHead(Insert(n, b)).fhead
  <1> DEFINE a == ForkHead(Insert(n, b))
             m == prune_older(a, Lib(a.fhead))
  <1>1. Mid(a) /\ Follows(a, n) /\ a.head = n.head
    BY AddStarts
  <1>2. add(n, b) = m
    BY DEF add
  <1> HIDE DEF a
  <1>3. Mid(m) /\ Follows(m, a) /\ m.head = a.head /\ m.fhead = a.fhead
    BY <1>1, PruneOlder
  <1> HIDE DEF m
  <1>4. m.log \in Blocks
    BY <1>3 DEF Mid, Core, Nodes
  <1>5. Follows(m, n)
    BY <1>1, <1>3, <1>4, FollowsOn
  <1> QED BY <1>1, <1>2, <1>3, <1>5 DEF a

-----------------------------------------------------------------------------
\* Popping and applying blocks

\* The node with g as the head of the controller, and everything in step with it
Moved(n, g) ==
    [n EXCEPT !.head = g, !.rev = Num(g),
              !.current = (Ancestors(g) \ {Root}) \cap n.index,
              !.reversible = Ancestors(g) \ Ancestors(n.log)]

\* A node is its fields.
LEMMA SameNode ==
    ASSUME NEW a \in Nodes, NEW b \in Nodes,
           a.index = b.index, a.older = b.older, a.fhead = b.fhead, a.current = b.current,
           a.head = b.head, a.rev = b.rev, a.tail = b.tail, a.log = b.log,
           a.reversible = b.reversible, a.thrown = b.thrown, a.trial = b.trial
    PROVE  a = b
  BY DEF Nodes

LEMMA MovedFields ==
    ASSUME NEW n \in Nodes, NEW g \in Blocks
    PROVE  LET m == Moved(n, g) IN
           /\ m \in Nodes /\ m.index = n.index /\ m.older = n.older /\ m.fhead = n.fhead
           /\ m.current = (Ancestors(g) \ {Root}) \cap n.index /\ m.head = g /\ m.rev = Num(g)
           /\ m.tail = n.tail /\ m.log = n.log /\ m.reversible = Ancestors(g) \ Ancestors(n.log)
           /\ m.thrown = n.thrown /\ m.trial = n.trial
  <1> DEFINE cur == (Ancestors(g) \ {Root}) \cap n.index
             left == Ancestors(g) \ Ancestors(n.log)
             k == Num(g)
             m == Moved(n, g)
  <1>1. cur \in SUBSET Blocks /\ left \in SUBSET Blocks /\ k \in Int
    BY Ancestry, Numbers
  <1>2. m = [n EXCEPT !.head = g, !.rev = k, !.current = cur, !.reversible = left]
    BY DEF Moved
  <1> HIDE DEF cur, left, k, m
  <1>3. m \in Nodes
    BY <1>1, <1>2 DEF Nodes
  <1>4. /\ m.index = n.index /\ m.older = n.older /\ m.fhead = n.fhead /\ m.current = cur /\ m.head = g
        /\ m.rev = k /\ m.tail = n.tail /\ m.log = n.log /\ m.reversible = left
        /\ m.thrown = n.thrown /\ m.trial = n.trial
    BY <1>2 DEF Nodes
  <1> QED BY <1>3, <1>4 DEF cur, left, k, m

\* A node in step has moved to its head.
LEMMA MovedNowhere ==
    ASSUME NEW n, Core(n)
    PROVE  Moved(n, n.head) = n
  <1>1. n \in Nodes /\ n.head \in Blocks
    BY DEF Core, Nodes
  <1>2. n.rev = Num(n.head) /\ n.current = (Ancestors(n.head) \ {Root}) \cap n.index
        /\ n.reversible = Ancestors(n.head) \ Ancestors(n.log)
    BY DEF Core, InStep
  <1> DEFINE m == Moved(n, n.head)
  <1>3. /\ m \in Nodes /\ m.index = n.index /\ m.older = n.older /\ m.fhead = n.fhead
        /\ m.current = n.current /\ m.head = n.head /\ m.rev = n.rev
        /\ m.tail = n.tail /\ m.log = n.log /\ m.reversible = n.reversible
        /\ m.thrown = n.thrown /\ m.trial = n.trial
    BY <1>1, <1>2, MovedFields
  <1> HIDE DEF m
  <1>4. m = n
    BY <1>1, <1>3, SameNode
  <1> QED BY <1>4 DEF m

\* Popping the head g moves the node to the block before it.
LEMMA PopOne ==
    ASSUME NEW n \in Nodes, NEW g \in Blocks, g # Root, Front(g) \in n.index
    PROVE  LET m == Moved(n, g) IN
           pop_block(mark_in_current_chain(m, m.head, FALSE)) = Moved(n, Front(g))
  <1> DEFINE m == Moved(n, g)
             p == Front(g)
             x == mark_in_current_chain(m, m.head, FALSE)
             y == pop_block(x)
             z == Moved(n, p)
  <1>1. p \in Blocks /\ Num(p) = Num(g) - 1 /\ Ancestors(g) = Ancestors(p) \cup {g} /\ g \notin Ancestors(p)
    BY Parent, Ancestry
  <1>2. Num(g) \in Nat /\ \A c \in Ancestors(p) : Num(c) \in Nat /\ Num(c) <= Num(p)
    BY <1>1, Ancestry, Numbers
  <1>3. /\ m \in Nodes /\ m.index = n.index /\ m.older = n.older /\ m.fhead = n.fhead
        /\ m.current = (Ancestors(g) \ {Root}) \cap n.index /\ m.head = g /\ m.rev = Num(g)
        /\ m.tail = n.tail /\ m.log = n.log /\ m.reversible = Ancestors(g) \ Ancestors(n.log)
        /\ m.thrown = n.thrown /\ m.trial = n.trial
    BY MovedFields
  <1>4. /\ z \in Nodes /\ z.index = n.index /\ z.older = n.older /\ z.fhead = n.fhead
        /\ z.current = (Ancestors(p) \ {Root}) \cap n.index /\ z.head = p /\ z.rev = Num(p)
        /\ z.tail = n.tail /\ z.log = n.log /\ z.reversible = Ancestors(p) \ Ancestors(n.log)
        /\ z.thrown = n.thrown /\ z.trial = n.trial
    BY <1>1, MovedFields
  <1> HIDE DEF m, z
  <1>5. /\ x \in Nodes /\ x.index = n.index /\ x.older = n.older /\ x.fhead = n.fhead
        /\ x.current = m.current \ {g} /\ x.head = g /\ x.rev = Num(g)
        /\ x.tail = n.tail /\ x.log = n.log /\ x.reversible = m.reversible
        /\ x.thrown = n.thrown /\ x.trial = n.trial
    <2>1. x = [m EXCEPT !.current = m.current \ {g}]
      BY <1>3 DEF mark_in_current_chain, Nodes
    <2> QED BY <1>3, <2>1, ZenonT(60) DEF Nodes
  <1>6. y = [x EXCEPT !.head = p, !.rev = Num(g) - 1, !.reversible = {c \in x.reversible : Num(c) # Num(g)}]
    <2> HIDE DEF x
    <2> QED BY <1>3, <1>5 DEF pop_block, Has, Nodes
  <1> HIDE DEF x, y
  <1>7. /\ y \in Nodes /\ y.index = n.index /\ y.older = n.older /\ y.fhead = n.fhead
        /\ y.current = x.current /\ y.head = p /\ y.rev = Num(g) - 1
        /\ y.tail = n.tail /\ y.log = n.log /\ y.reversible = {c \in x.reversible : Num(c) # Num(g)}
        /\ y.thrown = n.thrown /\ y.trial = n.trial
    <2> DEFINE left == {c \in x.reversible : Num(c) # Num(g)}
               k == Num(g) - 1
    <2>1. left \in SUBSET Blocks /\ k \in Int
      BY <1>2, <1>5 DEF Nodes
    <2>2. y = [x EXCEPT !.head = p, !.rev = k, !.reversible = left]
      BY <1>6
    <2> HIDE DEF left, k
    <2>3. /\ y \in Nodes /\ y.index = n.index /\ y.older = n.older /\ y.fhead = n.fhead
          /\ y.current = x.current /\ y.head = p /\ y.rev = k
          /\ y.tail = n.tail /\ y.log = n.log /\ y.reversible = left
          /\ y.thrown = n.thrown /\ y.trial = n.trial
      BY <1>1, <1>5, <2>1, <2>2 DEF Nodes
    <2> QED BY <2>3 DEF left, k
  <1>8. y.current = z.current
    BY <1>1, <1>3, <1>4, <1>5, <1>7
  <1>9. y.reversible = z.reversible
    <2>1. x.reversible = (Ancestors(p) \cup {g}) \ Ancestors(n.log)
      BY <1>1, <1>3, <1>5
    <2>2. \A c \in Ancestors(p) : Num(c) # Num(g)
      BY <1>1, <1>2
    <2> QED BY <1>4, <1>7, <2>1, <2>2
  <1>10. y = z
    <2>1. /\ y \in Nodes /\ z \in Nodes /\ y.index = z.index /\ y.older = z.older /\ y.fhead = z.fhead
          /\ y.current = z.current /\ y.head = z.head /\ y.rev = z.rev /\ y.tail = z.tail
          /\ y.log = z.log /\ y.reversible = z.reversible /\ y.thrown = z.thrown /\ y.trial = z.trial
      BY <1>1, <1>4, <1>7, <1>8, <1>9
    <2> QED BY <2>1, SameNode
  <1> QED BY <1>10 DEF x, y, z, m

\* Applying a good block g on the block before it moves the node to g; a bad one throws.
LEMMA ApplyOne ==
    ASSUME NEW n \in Nodes, n.thrown = "none", NEW g \in Blocks, g # Root, g \in n.index,
           g \notin Ancestors(n.log)
    PROVE  ApplyBlock(Moved(n, Front(g)), g) =
             IF Valid(g) THEN Moved(n, g) ELSE Throw(Moved(n, Front(g)), "invalid")
  <1> DEFINE p == Front(g)
             m == Moved(n, p)
             z == Moved(n, g)
             x == apply_block(m, g)
  <1>1. p \in Blocks /\ Num(p) = Num(g) - 1 /\ Ancestors(g) = Ancestors(p) \cup {g}
    BY Parent, Ancestry
  <1>2. Num(g) \in Nat /\ \A c \in Ancestors(p) : Num(c) \in Nat /\ Num(c) <= Num(p)
    BY <1>1, Ancestry, Numbers
  <1>3. /\ z \in Nodes /\ z.index = n.index /\ z.older = n.older /\ z.fhead = n.fhead
        /\ z.current = (Ancestors(g) \ {Root}) \cap n.index /\ z.head = g /\ z.rev = Num(g)
        /\ z.tail = n.tail /\ z.log = n.log /\ z.reversible = Ancestors(g) \ Ancestors(n.log)
        /\ z.thrown = n.thrown /\ z.trial = n.trial
    BY MovedFields
  <1>4. /\ m \in Nodes /\ m.index = n.index /\ m.older = n.older /\ m.fhead = n.fhead
        /\ m.current = (Ancestors(p) \ {Root}) \cap n.index /\ m.head = p /\ m.rev = Num(p)
        /\ m.tail = n.tail /\ m.log = n.log /\ m.reversible = Ancestors(p) \ Ancestors(n.log)
        /\ m.thrown = n.thrown /\ m.trial = n.trial
    BY <1>1, MovedFields
  <1> HIDE DEF m, z
  <1>5. CASE ~Valid(g)
    <2>1. x = Throw(m, "invalid")
      BY <1>4, <1>5 DEF apply_block
    <2>2. Threw(x)
      BY <1>4, <2>1 DEF Threw, Throw, Nodes
    <2>3. ApplyBlock(m, g) = x
      BY <2>2 DEF ApplyBlock
    <2> QED BY <1>5, <2>1, <2>3 DEF m
  <1>6. CASE Valid(g)
    <2> DEFINE k == Num(p) + 1
               left == m.reversible \cup {g}
               cur == m.current \cup {g}
               y == ApplyBlock(m, g)
    <2>1. ~(\E c \in m.reversible : Num(c) = Num(g))
      BY <1>1, <1>2, <1>4
    <2>2. x = [m EXCEPT !.rev = k, !.reversible = left]
      BY <1>4, <1>6, <2>1 DEF apply_block, Nodes
    <2>3. k \in Int /\ left \in SUBSET Blocks /\ cur \in SUBSET Blocks
      BY <1>1, <1>2, <1>4 DEF Nodes
    <2> HIDE DEF k, left, x
    <2>4. x \in Nodes /\ x.thrown = "none" /\ x.current = m.current
      BY <1>4, <2>2, <2>3 DEF Nodes
    <2>5. y = mark_in_current_chain([x EXCEPT !.head = g], g, TRUE)
      BY <2>4 DEF ApplyBlock, x, Threw
    <2>6. y = [m EXCEPT !.rev = k, !.reversible = left, !.head = g, !.current = cur]
      BY <1>4, <2>2, <2>4, <2>5 DEF mark_in_current_chain, Nodes
    <2> HIDE DEF cur, y
    <2>7. /\ y \in Nodes /\ y.index = m.index /\ y.older = m.older /\ y.fhead = m.fhead
          /\ y.current = cur /\ y.head = g /\ y.rev = k
          /\ y.tail = m.tail /\ y.log = m.log /\ y.reversible = left
          /\ y.thrown = m.thrown /\ y.trial = m.trial
      BY <1>4, <2>3, <2>6 DEF Nodes
    <2>8. cur = z.current /\ left = z.reversible /\ k = z.rev
      BY <1>1, <1>2, <1>3, <1>4 DEF cur, left, k
    <2>9. y = z
      <3>1. /\ y \in Nodes /\ z \in Nodes /\ y.index = z.index /\ y.older = z.older /\ y.fhead = z.fhead
            /\ y.current = z.current /\ y.head = z.head /\ y.rev = z.rev /\ y.tail = z.tail
            /\ y.log = z.log /\ y.reversible = z.reversible /\ y.thrown = z.thrown /\ y.trial = z.trial
        BY <1>3, <1>4, <2>7, <2>8
      <3> QED BY <3>1, SameNode
    <2> QED BY <1>6, <2>9 DEF y, z, m
  <1> QED BY <1>5, <1>6

\* The block before an ancestor
LEMMA CutFront ==
    ASSUME NEW b \in Blocks, NEW i \in 1 .. Len(b)
    PROVE  /\ SubSeq(b, 1, i) \in Blocks /\ SubSeq(b, 1, i) # Root
           /\ Front(SubSeq(b, 1, i)) = SubSeq(b, 1, i - 1)
  <1> DEFINE x == SubSeq(b, 1, i)
  <1>1. Len(b) \in Nat /\ i \in 0 .. Len(b) /\ i - 1 \in 0 .. i /\ i \in Nat /\ i # 0
    BY DEF Blocks
  <1>2. x \in Blocks /\ Len(x) = i
    BY <1>1, Cut
  <1>3. SubSeq(x, 1, i - 1) = SubSeq(b, 1, i - 1)
    BY <1>1, CutCut
  <1> HIDE DEF x
  <1>4. x # Root
    BY <1>1, <1>2 DEF Root
  <1>5. Front(x) = SubSeq(x, 1, i - 1)
    BY <1>2 DEF Front
  <1> QED BY <1>2, <1>3, <1>4, <1>5 DEF x

\* Popping moves the node down the chain, as long as the index has it.
LEMMA PopAll ==
    ASSUME NEW n \in Nodes, n.thrown = "none", NEW g \in Blocks, NEW q \in 0 .. Len(g),
           \A i \in 0 .. Len(g) : q <= i /\ i < Len(g) => SubSeq(g, 1, i) \in n.index
    PROVE  PopBlocks(Moved(n, g), Len(g) - q) = Moved(n, SubSeq(g, 1, q))
  <1> DEFINE L == Len(g)
             k == L - q
             At(i) == Moved(n, SubSeq(g, 1, L - i))
             G(m) == IF Threw(m) THEN m ELSE pop_block(mark_in_current_chain(m, m.head, FALSE))
             R(f) == [i \in 0 .. k |-> IF i = 0 THEN Moved(n, g) ELSE G(f[i - 1])]
             step == CHOOSE f : f = R(f)
             w == [i \in 0 .. k |-> At(i)]
  <1>1. L \in Nat /\ q \in Nat /\ q <= L /\ k \in Nat
    BY DEF Blocks
  <1>2. At(0) = Moved(n, g)
    <2>1. L - 0 = Len(g)
      BY <1>1
    <2> QED BY <2>1, CutWhole
  <1>3. ASSUME NEW i \in 1 .. k PROVE At(i) = G(At(i - 1))
    <2> DEFINE j == L - (i - 1)
               x == SubSeq(g, 1, j)
    <2>1. j \in 1 .. Len(g) /\ j - 1 = L - i /\ q <= j - 1 /\ j - 1 < Len(g) /\ j - 1 \in 0 .. Len(g)
      BY <1>1
    <2> HIDE DEF j
    <2>2. x \in Blocks /\ x # Root /\ Front(x) = SubSeq(g, 1, j - 1)
      BY <2>1, CutFront
    <2>3. Front(x) \in n.index
      BY <2>1, <2>2
    <2> HIDE DEF x
    <2> DEFINE m == Moved(n, x)
    <2>4. ~Threw(m)
      BY <2>2, MovedFields DEF Threw
    <2>5. pop_block(mark_in_current_chain(m, m.head, FALSE)) = Moved(n, Front(x))
      BY <2>2, <2>3, PopOne
    <2>6. At(i - 1) = m
      BY DEF x, j
    <2>7. At(i) = Moved(n, Front(x))
      BY <2>1, <2>2
    <2> HIDE DEF m, At
    <2> QED BY <2>4, <2>5, <2>6, <2>7
  <1>4. PopBlocks(Moved(n, g), k) = step[k]
    BY DEF PopBlocks
  <1>5. At(k) = Moved(n, SubSeq(g, 1, q))
    <2>1. L - k = q
      BY <1>1
    <2> QED BY <2>1
  <1> HIDE DEF At, G, k
  <1>6. w = R(w)
    <2>1. \A i \in 0 .. k : w[i] = IF i = 0 THEN Moved(n, g) ELSE G(w[i - 1])
      <3>1. \A i \in 0 .. k : i = 0 \/ (i \in 1 .. k /\ i - 1 \in 0 .. k)
        BY <1>1
      <3> QED BY <1>2, <1>3, <3>1
    <2> HIDE DEF w
    <2>2. w = [i \in 0 .. k |-> w[i]]
      BY DEF w
    <2> QED BY <2>1, <2>2
  <1>7. step = R(step)
    <2> HIDE DEF R, w
    <2> QED BY <1>6
  <1> HIDE DEF step
  <1>8. \A i \in 0 .. k : step[i] = IF i = 0 THEN Moved(n, g) ELSE G(step[i - 1])
    BY <1>7
  <1> HIDE DEF R
  <1> DEFINE T == {i \in Nat : step[i] = At(i)}
  <1>9. 0 \in T
    BY <1>1, <1>2, <1>8
  <1>10. ASSUME NEW i \in 1 .. k, i - 1 \in T PROVE i \in T
    <2>1. i \in 0 .. k /\ i # 0 /\ i \in Nat
      BY <1>1
    <2>2. step[i] = G(step[i - 1])
      BY <1>8, <2>1
    <2>3. step[i - 1] = At(i - 1)
      BY <1>10
    <2> QED BY <1>3, <2>1, <2>2, <2>3
  <1>11. k \in T
    <2> HIDE DEF T
    <2>1. \A i \in 0 .. k : i \in T
      BY <1>1, <1>9, <1>10, Climb
    <2> QED BY <1>1, <2>1
  <1> QED BY <1>4, <1>5, <1>11 DEF k

\* The same climb, from a number a on
LEMMA ClimbFrom ==
    ASSUME NEW a \in Nat, NEW k \in Nat, a <= k, NEW S, a \in S, \A i \in a + 1 .. k : i - 1 \in S => i \in S
    PROVE  k \in S
  <1> DEFINE T == {j \in Nat : a + j \in S}
  <1>1. 0 \in T
    OBVIOUS
  <1>2. ASSUME NEW j \in 1 .. k - a, j - 1 \in T PROVE j \in T
    <2>1. a + j \in a + 1 .. k /\ (a + j) - 1 = a + (j - 1)
      OBVIOUS
    <2> QED BY <1>2, <2>1
  <1>3. k - a \in Nat /\ a + (k - a) = k /\ k - a \in 0 .. k - a
    OBVIOUS
  <1>4. k - a \in T
    <2> HIDE DEF T
    <2> QED BY <1>1, <1>2, <1>3, Climb
  <1> QED BY <1>3, <1>4

\* Applying moves the node up the chain to the last block before the first bad one, x.
LEMMA ApplyAll ==
    ASSUME NEW n \in Nodes, n.thrown = "none", NEW f \in Blocks, NEW q \in 0 .. Len(f), NEW from, from = q + 1,
           \A i \in 1 .. Len(f) : q < i => SubSeq(f, 1, i) \in n.index /\ SubSeq(f, 1, i) \notin Ancestors(n.log),
           NEW x \in 1 .. Len(f) + 1, q < x,
           \A i \in 1 .. Len(f) : q < i /\ i < x => Valid(SubSeq(f, 1, i)),
           x <= Len(f) => ~Valid(SubSeq(f, 1, x))
    PROVE  ApplyBranch(Moved(n, SubSeq(f, 1, q)), f, from) =
             IF x = Len(f) + 1 THEN Moved(n, f) ELSE Throw(Moved(n, SubSeq(f, 1, x - 1)), "invalid")
  <1> DEFINE L == Len(f)
             start == Moved(n, SubSeq(f, 1, q))
             bad == Throw(Moved(n, SubSeq(f, 1, x - 1)), "invalid")
             At(i) == IF i < x THEN Moved(n, SubSeq(f, 1, i)) ELSE bad
             G(m, i) == IF Threw(m) THEN m ELSE ApplyBlock(m, SubSeq(f, 1, i))
             R(h) == [i \in from - 1 .. L |-> IF i = from - 1 THEN start ELSE G(h[i - 1], i)]
             step == CHOOSE h : h = R(h)
             w == [i \in from - 1 .. L |-> At(i)]
  <1>1. L \in Nat /\ q \in Nat /\ q <= L /\ from - 1 = q /\ x \in Nat /\ x <= L + 1 /\ 1 <= x
    BY DEF Blocks
  <1>2. At(q) = start
    BY <1>1
  <1>3. Threw(bad)
    <2>1. x - 1 \in 0 .. Len(f)
      BY <1>1
    <2>2. SubSeq(f, 1, x - 1) \in Blocks
      BY <2>1, Cut
    <2>3. Moved(n, SubSeq(f, 1, x - 1)) \in Nodes
      BY <2>2, MovedFields
    <2> QED BY <2>3 DEF Threw, Throw, Nodes
  <1>4. ASSUME NEW i \in 1 .. L, q < i PROVE At(i) = G(At(i - 1), i)
    <2> DEFINE g == SubSeq(f, 1, i)
               m == Moved(n, Front(g))
    <2>1. g \in Blocks /\ g # Root /\ Front(g) = SubSeq(f, 1, i - 1)
      BY CutFront
    <2>2. g \in n.index /\ g \notin Ancestors(n.log)
      BY <1>4
    <2>3. ~Threw(m)
      <3>1. i - 1 \in 0 .. Len(f)
        BY <1>1
      <3>2. Front(g) \in Blocks
        BY <2>1, <3>1, Cut
      <3> HIDE DEF g
      <3> QED BY <3>2, MovedFields DEF Threw
    <2>4. ApplyBlock(m, g) = IF Valid(g) THEN Moved(n, g) ELSE Throw(m, "invalid")
      BY <2>1, <2>2, ApplyOne
    <2>5. CASE i < x
      <3>1. Valid(g) /\ i - 1 < x
        BY <1>1, <1>4, <2>5
      <3>2. At(i - 1) = m /\ At(i) = Moved(n, g)
        BY <2>1, <2>5, <3>1
      <3> HIDE DEF At, m, g
      <3>3. G(At(i - 1), i) = ApplyBlock(m, g)
        BY <2>3, <3>2 DEF g
      <3> QED BY <2>4, <3>1, <3>2, <3>3
    <2>6. CASE i = x
      <3>1. ~Valid(g) /\ i - 1 < x /\ ~(i < x)
        BY <1>1, <1>4, <2>6
      <3>2. At(i - 1) = m /\ At(i) = Throw(m, "invalid")
        BY <2>1, <2>6, <3>1
      <3> HIDE DEF At, m, g
      <3>3. G(At(i - 1), i) = ApplyBlock(m, g)
        BY <2>3, <3>2 DEF g
      <3> QED BY <2>4, <3>1, <3>2, <3>3
    <2>7. CASE i > x
      <3>1. ~(i < x) /\ ~(i - 1 < x)
        BY <1>1, <2>7
      <3>2. At(i - 1) = bad /\ At(i) = bad
        BY <3>1
      <3> HIDE DEF At, bad
      <3> QED BY <1>3, <3>2
    <2> QED BY <1>1, <2>5, <2>6, <2>7
  <1>5. ApplyBranch(start, f, from) = step[L]
    BY DEF ApplyBranch
  <1>6. At(L) = IF x = L + 1 THEN Moved(n, f) ELSE bad
    <2>1. L < x <=> x = L + 1
      BY <1>1
    <2>2. SubSeq(f, 1, L) = f
      BY CutWhole
    <2> QED BY <2>1, <2>2
  <1> HIDE DEF At, G, start, bad
  <1>7. \A i \in from - 1 .. L : i = q \/ (i \in 1 .. L /\ q < i /\ i # from - 1 /\ i - 1 \in from - 1 .. L)
    BY <1>1
  <1>8. w = R(w)
    <2>1. \A i \in from - 1 .. L : w[i] = IF i = from - 1 THEN start ELSE G(w[i - 1], i)
      <3> SUFFICES ASSUME NEW i \in from - 1 .. L
                   PROVE  w[i] = IF i = from - 1 THEN start ELSE G(w[i - 1], i)
        OBVIOUS
      <3>1. CASE i = q
        BY <1>1, <1>2, <3>1
      <3>2. CASE i # q
        <4>1. i \in 1 .. L /\ q < i /\ i # from - 1 /\ i - 1 \in from - 1 .. L
          BY <1>7, <3>2
        <4>2. w[i] = At(i) /\ w[i - 1] = At(i - 1)
          BY <4>1
        <4> QED BY <1>4, <4>1, <4>2
      <3> QED BY <3>1, <3>2
    <2> HIDE DEF w
    <2>2. w = [i \in from - 1 .. L |-> w[i]]
      BY DEF w
    <2> QED BY <2>1, <2>2
  <1>9. step = R(step)
    <2> HIDE DEF R, w
    <2> QED BY <1>8
  <1> HIDE DEF step
  <1>10. \A i \in from - 1 .. L : step[i] = IF i = from - 1 THEN start ELSE G(step[i - 1], i)
    BY <1>9
  <1> HIDE DEF R
  <1> DEFINE T == {i \in Nat : step[i] = At(i)}
  <1>11. q \in T
    BY <1>1, <1>2, <1>10
  <1>12. ASSUME NEW i \in q + 1 .. L, i - 1 \in T PROVE i \in T
    <2>1. i \in from - 1 .. L /\ i \in 1 .. L /\ q < i /\ i # from - 1 /\ i \in Nat
      BY <1>1
    <2>2. step[i] = G(step[i - 1], i)
      BY <1>10, <2>1
    <2>3. step[i - 1] = At(i - 1)
      BY <1>12
    <2> QED BY <1>4, <2>1, <2>2, <2>3
  <1>13. L \in T
    <2> HIDE DEF T
    <2> QED BY <1>1, <1>11, <1>12, ClimbFrom
  <1> QED BY <1>5, <1>6, <1>13 DEF start, bad

-----------------------------------------------------------------------------
\* The switch of forks

\* fetch_branch_from ends at the last common ancestor of two blocks on different branches.
LEMMA PriorFacts ==
    ASSUME NEW f \in Blocks, NEW h \in Blocks, h \notin Ancestors(f), f \notin Ancestors(h)
    PROVE  LET q == PriorLen(f, h) IN
           /\ q \in Nat /\ q < Len(f) /\ q < Len(h) /\ SubSeq(f, 1, q) = SubSeq(h, 1, q)
           /\ \A e \in Ancestors(f) : e \in Ancestors(h) => Len(e) <= q
  <1> DEFINE m == Min({Len(f), Len(h)})
             E == {i \in 0 .. m - 1 : SubSeq(f, 1, i) = SubSeq(h, 1, i)}
             q == PriorLen(f, h)
  <1>1. Len(f) \in Nat /\ Len(h) \in Nat
    BY DEF Blocks
  <1>2. m \in Nat /\ m <= Len(f) /\ m <= Len(h) /\ (m = Len(f) \/ m = Len(h))
    <2>1. CASE Len(f) <= Len(h)
      <3>1. \E x \in {Len(f), Len(h)} : \A y \in {Len(f), Len(h)} : x <= y
        BY <1>1, <2>1
      <3>2. m \in {Len(f), Len(h)} /\ \A y \in {Len(f), Len(h)} : m <= y
        BY <3>1 DEF Min
      <3> HIDE DEF m
      <3> QED BY <1>1, <3>2
    <2>2. CASE Len(h) <= Len(f)
      <3>1. \E x \in {Len(f), Len(h)} : \A y \in {Len(f), Len(h)} : x <= y
        BY <1>1, <2>2
      <3>2. m \in {Len(f), Len(h)} /\ \A y \in {Len(f), Len(h)} : m <= y
        BY <3>1 DEF Min
      <3> HIDE DEF m
      <3> QED BY <1>1, <3>2
    <2> QED BY <1>1, <2>1, <2>2
  <1>3. q = Max({-1} \cup E)
    BY DEF PriorLen
  <1> HIDE DEF m, q
  <1>4. Len(f) # 0 /\ Len(h) # 0
    <2>1. f # Root /\ h # Root
      BY Ancestry
    <2> QED BY <2>1, Numbers, RootAssumption DEF Num
  <1>5. 0 \in E
    <2>1. SubSeq(f, 1, 0) = Root /\ SubSeq(h, 1, 0) = Root
      BY <1>1 DEF Root, Blocks
    <2> QED BY <1>1, <1>2, <1>4, <2>1
  <1>6. PICK x \in E : \A y \in E : y <= x
    <2>1. \A i \in E : i \in Nat /\ i <= m
      BY <1>2
    <2> HIDE DEF E
    <2>2. E \subseteq Nat /\ E # {} /\ \A i \in E : i <= m
      BY <1>5, <2>1
    <2> QED BY <1>2, <2>2, NatMax
  <1>7. q \in E /\ \A y \in E : y <= q
    <2>1. x \in Nat /\ E \subseteq Nat
      BY <1>2
    <2> HIDE DEF E
    <2>2. x \in {-1} \cup E /\ \A y \in {-1} \cup E : x >= y
      BY <1>6, <2>1
    <2>3. q \in {-1} \cup E /\ \A y \in {-1} \cup E : q >= y
      BY <1>3, <2>2 DEF Max
    <2>4. q # -1
      BY <1>5, <2>1, <2>3
    <2> QED BY <2>1, <2>3, <2>4
  <1>8. ASSUME NEW e \in Ancestors(f), e \in Ancestors(h) PROVE Len(e) <= q
    <2>1. /\ e \in Blocks /\ Len(e) \in Nat /\ Len(e) <= Len(f) /\ Len(e) <= Len(h)
          /\ e = SubSeq(f, 1, Len(e)) /\ e = SubSeq(h, 1, Len(e))
      BY <1>8, AncestorLen DEF Blocks
    <2>2. Len(e) # m
      <3>1. SubSeq(f, 1, Len(f)) = f /\ SubSeq(h, 1, Len(h)) = h
        BY CutWhole
      <3> QED BY <1>2, <1>8, <2>1, <3>1
    <2>3. Len(e) \in E
      <3>1. Len(e) \in 0 .. m - 1
        <4> DEFINE k == Len(e)
        <4>1. k \in Nat /\ k <= Len(f) /\ k <= Len(h) /\ k # m
          BY <2>1, <2>2
        <4> HIDE DEF k
        <4>2. k \in 0 .. m - 1
          BY <1>1, <1>2, <4>1
        <4> QED BY <4>2 DEF k
      <3>2. SubSeq(f, 1, Len(e)) = SubSeq(h, 1, Len(e))
        BY <2>1
      <3> QED BY <3>1, <3>2
    <2> QED BY <1>7, <2>3
  <1>9. q \in Nat /\ q < Len(f) /\ q < Len(h) /\ SubSeq(f, 1, q) = SubSeq(h, 1, q)
    BY <1>1, <1>2, <1>7
  <1> QED BY <1>8, <1>9 DEF q

\* The log, and a block of the index next to it, are on the chain of the fork database's head.
LEMMA Meeting ==
    ASSUME NEW n, Core(n)
    PROVE  /\ n.log \in Ancestors(n.fhead)
           /\ \E e \in n.index : /\ e \in Ancestors(n.head) /\ e \in Ancestors(n.fhead)
                                 /\ Num(n.log) <= Num(e) /\ Num(e) <= Num(n.log) + 1
                                 /\ n.log \in n.index => e = n.log
  <1>1. n \in Nodes /\ n.head \in n.index /\ n.fhead \in n.index /\ WellMade(n.fhead)
    BY DEF Core, Rooted
  <1>2. n.log \in Ancestors(n.head) /\ Num(n.log) \in Nat /\ RootNum <= Num(n.log) /\ n.fhead \in Blocks
    BY <1>1, Chain DEF Core, Logged
  <1>3. n.log \in Ancestors(n.fhead)
    <2>1. CASE n.log = Root
      BY <1>2, <2>1, Ancestry
    <2>2. CASE Num(n.log) <= Lib(n.fhead)
      BY <1>1, <1>2, <2>2, Common
    <2> QED BY <2>1, <2>2 DEF Core, Logged
  <1>4. CASE n.log \in n.index
    BY <1>2, <1>3, <1>4
  <1>5. CASE n.log \notin n.index
    <2>1. Num(n.log) < Lib(n.fhead) /\ Lib(n.fhead) <= Num(n.fhead)
      BY <1>1, <1>2, <1>5, LibBehind DEF Core, Logged
    <2>2. Num(n.log) + 1 \in Nat /\ RootNum <= Num(n.log) + 1 /\ Num(n.log) + 1 <= Lib(n.fhead)
          /\ Num(n.log) + 1 <= Num(n.fhead)
      <3>1. Lib(n.fhead) \in Nat /\ Num(n.fhead) \in Nat
        BY <1>1, Chain
      <3> QED BY <1>2, <2>1, <3>1, RootAssumption
    <2>3. PICK e \in Ancestors(n.fhead) : Num(e) = Num(n.log) + 1
      BY <1>1, <2>2, Chain
    <2>4. e \in Ancestors(n.head)
      BY <1>1, <2>2, <2>3 DEF Core, Agreed
    <2>5. Num(n.log) < Num(e)
      BY <1>2, <2>3
    <2>6. e \in n.index
      BY <2>4, <2>5 DEF Core, Logged
    <2>7. Num(n.log) <= Num(e) /\ Num(e) <= Num(n.log) + 1
      BY <1>2, <2>3
    <2> QED BY <1>3, <1>5, <2>3, <2>4, <2>6, <2>7
  <1> QED BY <1>4, <1>5

\* A node that has moved to the head of the fork database is in step.
LEMMA MovedRests ==
    ASSUME NEW n, Mid(n), \A c \in Ancestors(n.fhead) : Valid(c)
    PROVE  LET m == Moved(n, n.fhead) IN Rests(m) /\ Follows(m, n) /\ m.thrown = "none"
  <1> DEFINE f == n.fhead
             m == Moved(n, f)
  <1>1. Core(n) /\ n \in Nodes /\ n.head \in n.index /\ f \in n.index /\ f \in Blocks
    BY DEF Mid, Core, Rooted, Nodes
  <1>2. /\ m \in Nodes /\ m.index = n.index /\ m.older = n.older /\ m.fhead = f
        /\ m.current = (Ancestors(f) \ {Root}) \cap n.index /\ m.head = f /\ m.rev = Num(f)
        /\ m.tail = n.tail /\ m.log = n.log /\ m.reversible = Ancestors(f) \ Ancestors(n.log)
        /\ m.thrown = n.thrown /\ m.trial = n.trial
    BY <1>1, MovedFields
  <1> HIDE DEF m
  <1>3. Rooted(m)
    BY <1>1, <1>2 DEF Core, Rooted
  <1>4. Ordered(m) /\ \A b, c : Before(m, b, c) <=> Before(n, b, c)
    BY <1>1, <1>2 DEF Core, Ordered, Before
  <1>5. \A b \in n.index : Lib(b) <= Lib(f) /\ ~Better(b, f) /\ Lib(b) \in Nat
    <2>1. Ordered(n) /\ IsFirst(n, f)
      BY DEF Mid, Core
    <2> QED BY <1>1, <2>1, FirstIsBest, Chain
  <1>6. Agreed(m)
    <2> SUFFICES ASSUME NEW b \in n.index, NEW c \in Ancestors(b), Num(c) <= Lib(b) PROVE c \in Ancestors(f)
      BY <1>2 DEF Agreed
    <2>1. c \in Ancestors(n.head)
      BY <1>1 DEF Core, Agreed
    <2>2. Num(c) <= Lib(f)
      <3>1. Num(c) \in Nat
        BY <1>1, Chain
      <3> QED BY <1>1, <1>5, <3>1
    <2> QED BY <1>1, <2>1, <2>2, Common
  <1>7. Logged(m)
    <2>1. PICK e \in n.index : /\ e \in Ancestors(f) /\ Num(e) <= Num(n.log) + 1
                               /\ n.log \in n.index => e = n.log
      BY <1>1, Meeting
    <2>2. n.log \in Ancestors(f)
      BY <1>1, Meeting
    <2>3. ASSUME NEW c \in Ancestors(f), Num(n.log) < Num(c) PROVE c \in n.index
      <3>1. Num(e) <= Num(c)
        <4>1. Num(c) \in Nat /\ Num(n.log) \in Nat /\ Num(e) \in Nat
          BY <1>1, <2>2, Chain
        <4> QED BY <2>1, <2>3, <4>1
      <3> QED BY <1>1, <3>1 DEF Core, Rooted
    <2> QED BY <1>1, <1>2, <2>2, <2>3 DEF Core, Logged
  <1>8. InStep(m)
    BY <1>1, <1>2 DEF Core, InStep
  <1>9. Applies(m)
    BY <1>1, <1>2 DEF Core, Applies
  <1>10. Core(m)
    BY <1>2, <1>3, <1>4, <1>6, <1>7, <1>8, <1>9 DEF Core
  <1>11. OnlyBefore(m, m.head)
    <2>1. \A c \in n.index \ {f} : Before(n, f, c)
      BY DEF Mid, IsFirst
    <2> QED BY <1>2, <1>4, <1>5, <2>1 DEF OnlyBefore
  <1>12. Follows(m, n)
    <2>1. n.log \in Ancestors(n.log)
      BY <1>1, Ancestry DEF Nodes
    <2> QED BY <1>2, <2>1 DEF Follows
  <1> QED BY <1>2, <1>10, <1>11, <1>12 DEF Rests, Mid, m

\* The node without bad and what is built on it, when h is the first of the rest
LEMMA RemoveFields ==
    ASSUME NEW n \in Nodes, Ordered(n), IsFiniteSet(n.index), NEW bad \in Blocks, NEW h \in n.index,
           bad \notin Ancestors(h), \A c \in n.index : bad \in Ancestors(c) \/ c = h \/ Before(n, h, c)
    PROVE  LET m == remove(n, bad)
               S == {c \in n.index : bad \in Ancestors(c)} IN
           /\ m \in Nodes /\ Ordered(m) /\ m.index = n.index \ S /\ m.current = n.current \ S
           /\ m.older = {p \in n.older : p[1] \notin S /\ p[2] \notin S}
           /\ \A b, c \in m.index : Before(m, b, c) <=> Before(n, b, c)
           /\ m.fhead = h /\ m.head = n.head /\ m.rev = n.rev /\ m.tail = n.tail
           /\ m.log = n.log /\ m.reversible = n.reversible /\ m.thrown = n.thrown /\ m.trial = n.trial
  <1> DEFINE S == {c \in n.index : bad \in Ancestors(c)}
             e == Erase(n, S)
             m == ForkHead(e)
  <1>1. \A c \in n.index : IsPrefix(bad, c) <=> bad \in Ancestors(c)
    BY Prefix DEF Nodes
  <1>2. remove(n, bad) = m
    <2>1. {c \in n.index : IsPrefix(bad, c)} = S
      BY <1>1
    <2> QED BY <2>1 DEF remove
  <1>3. h \notin S /\ \A c \in n.index \ S : c = h \/ Before(n, h, c)
    OBVIOUS
  <1> HIDE DEF S
  <1>4. /\ e \in Nodes /\ Ordered(e) /\ e.index = n.index \ S /\ e.current = n.current \ S
        /\ e.older = {p \in n.older : p[1] \notin S /\ p[2] \notin S}
        /\ \A b, c \in e.index : Before(e, b, c) <=> Before(n, b, c)
        /\ e.head = n.head /\ e.rev = n.rev /\ e.tail = n.tail
        /\ e.log = n.log /\ e.reversible = n.reversible /\ e.thrown = n.thrown /\ e.trial = n.trial
    BY EraseOrdered
  <1> HIDE DEF e
  <1>5. IsFirst(e, h)
    BY <1>3, <1>4 DEF IsFirst
  <1>6. IsFiniteSet(e.index) /\ e.index # {}
    BY <1>3, <1>4, FS_Subset
  <1>7. /\ m \in Nodes /\ Ordered(m) /\ m.index = e.index /\ m.older = e.older /\ m.current = e.current
        /\ m.fhead = h /\ \A c, d : Before(m, c, d) <=> Before(e, c, d)
        /\ m.head = e.head /\ m.rev = e.rev /\ m.tail = e.tail
        /\ m.log = e.log /\ m.reversible = e.reversible /\ m.thrown = e.thrown /\ m.trial = e.trial
    BY <1>4, <1>5, <1>6, ForkHeadFacts
  <1> HIDE DEF m
  <1> QED BY <1>2, <1>4, <1>7 DEF S

\* Only bad blocks go before the head: what Mid says of a chain with a bad block
LEMMA BadChain ==
    ASSUME NEW n, Mid(n), NEW bad \in Ancestors(n.fhead), bad \in n.index, ~Valid(bad)
    PROVE  /\ n.trial = "bad blocks" /\ bad \in Blocks /\ n.head \in n.index /\ bad \notin Ancestors(n.head)
           /\ \A c \in n.index : bad \in Ancestors(c) \/ c = n.head \/ Before(n, n.head, c)
           /\ Lib(n.fhead) <= Lib(n.head)
  <1>1. Core(n) /\ n \in Nodes /\ n.head \in n.index /\ bad \in Blocks
    BY DEF Mid, Core, Rooted, Nodes
  <1>2. n.trial = "bad blocks"
    BY <1>1 DEF Core, Applies
  <1>3. bad \notin Ancestors(n.head)
    BY <1>1 DEF Core, Applies
  <1>4. OnlyBefore(n, n.fhead) /\ n.trial # "restarts"
    BY <1>2 DEF Mid
  <1> QED BY <1>1, <1>2, <1>3, <1>4 DEF OnlyBefore, Mid

\* A node that has removed the bad block is on the best of the rest.
LEMMA RemoveRests ==
    ASSUME NEW n, Mid(n), NEW bad \in Ancestors(n.fhead), bad \in n.index, ~Valid(bad)
    PROVE  LET m == remove(n, bad) IN
           /\ Rests(m) /\ Follows(m, n) /\ m.thrown = "none" /\ m.head = n.head /\ m.log = n.log
           /\ m.index = {c \in n.index : bad \notin Ancestors(c)}
  <1> DEFINE m == remove(n, bad)
             S == {c \in n.index : bad \in Ancestors(c)}
             h == n.head
  <1>1. /\ n.trial = "bad blocks" /\ bad \in Blocks /\ h \in n.index /\ bad \notin Ancestors(h)
        /\ \A c \in n.index : bad \in Ancestors(c) \/ c = h \/ Before(n, h, c)
        /\ Lib(n.fhead) <= Lib(h)
    BY BadChain
  <1>2. Core(n) /\ n \in Nodes /\ Ordered(n) /\ IsFiniteSet(n.index) /\ n.fhead \in n.index
    BY DEF Mid, Core, Rooted
  <1>3. /\ m \in Nodes /\ Ordered(m) /\ m.index = n.index \ S /\ m.current = n.current \ S
        /\ \A b, c \in m.index : Before(m, b, c) <=> Before(n, b, c)
        /\ m.fhead = h /\ m.head = h /\ m.rev = n.rev /\ m.tail = n.tail
        /\ m.log = n.log /\ m.reversible = n.reversible /\ m.thrown = n.thrown /\ m.trial = n.trial
    <2>1. /\ n \in Nodes /\ Ordered(n) /\ IsFiniteSet(n.index) /\ bad \in Blocks /\ n.head \in n.index
          /\ bad \notin Ancestors(n.head)
          /\ \A c \in n.index : bad \in Ancestors(c) \/ c = n.head \/ Before(n, n.head, c)
      BY <1>1, <1>2
    <2> QED BY <2>1, RemoveFields
  <1> HIDE DEF m
  <1>4. \A c : c \in m.index <=> c \in n.index /\ bad \notin Ancestors(c)
    BY <1>3
  <1>5. Rooted(m)
    <2>1. IsFiniteSet(m.index)
      BY <1>2, <1>3, FS_Subset
    <2>2. h \in m.index /\ m.head \in m.index /\ m.fhead \in m.index
      BY <1>1, <1>3
    <2>3. \A b \in m.index : WellMade(b)
      BY <1>2, <1>4 DEF Core, Rooted
    <2>4. ASSUME NEW b \in m.index, NEW d \in m.index, NEW c \in Ancestors(b), Num(d) <= Num(c) PROVE c \in m.index
      <3>1. c \in n.index
        BY <1>2, <1>4, <2>4 DEF Core, Rooted
      <3>2. Ancestors(c) \subseteq Ancestors(b)
        BY <1>2, <1>4, Chain
      <3> QED BY <1>4, <3>1, <3>2
    <2> QED BY <2>1, <2>2, <2>3, <2>4 DEF Rooted
  <1>6. Agreed(m)
    BY <1>2, <1>3, <1>4 DEF Core, Agreed
  <1>7. Logged(m)
    <2>1. Lib(n.fhead) \in Nat /\ Lib(h) \in Nat /\ n.log \in Ancestors(h) /\ Num(n.log) \in Nat
      BY <1>1, <1>2, Chain DEF Core, Logged
    <2>2. n.log = Root \/ Num(n.log) <= Lib(h)
      <3>1. n.log = Root \/ Num(n.log) <= Lib(n.fhead)
        BY <1>2 DEF Core, Logged
      <3>2. Lib(n.fhead) <= Lib(h)
        BY <1>1
      <3> QED BY <2>1, <3>1, <3>2
    <2>3. ASSUME NEW c \in Ancestors(h), c \in n.index PROVE c \in m.index
      <3>1. h \in n.index /\ n \in Nodes
        BY <1>1, <1>2
      <3>2. Ancestors(c) \subseteq Ancestors(h)
        BY <3>1, Chain
      <3> QED BY <1>1, <1>4, <2>3, <3>2
    <2>4. n.log \in m.index \/ Num(n.log) < Lib(h)
      <3>1. n.log \in n.index \/ Num(n.log) < Lib(n.fhead)
        BY <1>2 DEF Core, Logged
      <3>2. Lib(n.fhead) <= Lib(h)
        BY <1>1
      <3> QED BY <2>1, <2>3, <3>1, <3>2
    <2>5. \A b \in m.index : Num(n.log) <= Num(b)
      BY <1>2, <1>4 DEF Core, Logged
    <2>6. \A c \in Ancestors(h) : Num(n.log) < Num(c) => c \in m.index
      BY <1>2, <2>3 DEF Core, Logged
    <2> QED BY <1>3, <2>1, <2>2, <2>4, <2>5, <2>6 DEF Logged
  <1>8. InStep(m)
    <2>1. n.rev = Num(h) /\ n.tail = Num(n.log) /\ n.current = (Ancestors(h) \ {Root}) \cap n.index
          /\ n.reversible = Ancestors(h) \ Ancestors(n.log)
      BY <1>2 DEF Core, InStep
    <2> QED BY <1>3, <2>1 DEF InStep
  <1>9. Applies(m)
    BY <1>2, <1>3 DEF Core, Applies
  <1>10. Core(m)
    BY <1>3, <1>5, <1>6, <1>7, <1>8, <1>9 DEF Core
  <1>11. OnlyBefore(m, m.head)
    <2>1. \A c \in m.index \ {h} : Before(n, h, c) /\ c # n.fhead
      BY <1>1, <1>4
    <2>2. \A c \in m.index \ {h} : ~Better(c, h)
      BY <1>4, <2>1 DEF Mid, OnlyBefore
    <2>3. h \in m.index
      BY <1>1, <1>4
    <2> QED BY <1>3, <2>1, <2>2, <2>3 DEF OnlyBefore
  <1>12. Follows(m, n)
    <2>1. n.log \in Ancestors(n.log)
      BY <1>2, Ancestry DEF Nodes
    <2> QED BY <1>3, <2>1 DEF Follows
  <1>13. m.index = {c \in n.index : bad \notin Ancestors(c)} /\ m.thrown = "none"
    BY <1>3, <1>4 DEF Mid
  <1> QED BY <1>3, <1>10, <1>11, <1>12, <1>13 DEF Rests, m

\* The bad block is removed in the same way while the node is on its branch.
LEMMA RemoveMoved ==
    ASSUME NEW n, Mid(n), NEW bad \in Ancestors(n.fhead), bad \in n.index, ~Valid(bad), NEW g \in Blocks
    PROVE  remove(Moved(n, g), bad) = Moved(remove(n, bad), g)
  <1> DEFINE S == {c \in n.index : bad \in Ancestors(c)}
             a == Moved(n, g)
             m == remove(n, bad)
             y == remove(a, bad)
             z == Moved(m, g)
             h == n.head
  <1>1. /\ bad \in Blocks /\ h \in n.index /\ bad \notin Ancestors(h)
        /\ \A c \in n.index : bad \in Ancestors(c) \/ c = h \/ Before(n, h, c)
    BY BadChain
  <1>2. n \in Nodes /\ Ordered(n) /\ IsFiniteSet(n.index)
    BY DEF Mid, Core, Rooted
  <1>3. /\ m \in Nodes /\ m.index = n.index \ S /\ m.older = {p \in n.older : p[1] \notin S /\ p[2] \notin S}
        /\ m.fhead = h /\ m.tail = n.tail /\ m.log = n.log /\ m.thrown = n.thrown /\ m.trial = n.trial
    BY <1>1, <1>2, RemoveFields
  <1>4. /\ a \in Nodes /\ a.index = n.index /\ a.older = n.older
        /\ a.current = (Ancestors(g) \ {Root}) \cap n.index /\ a.head = g /\ a.rev = Num(g)
        /\ a.tail = n.tail /\ a.log = n.log /\ a.reversible = Ancestors(g) \ Ancestors(n.log)
        /\ a.thrown = n.thrown /\ a.trial = n.trial
    BY <1>2, MovedFields
  <1> HIDE DEF a, m
  <1>5. Ordered(a) /\ \A b, c : Before(a, b, c) <=> Before(n, b, c)
    BY <1>2, <1>4 DEF Ordered, Before
  <1>6. {c \in a.index : bad \in Ancestors(c)} = S
    BY <1>4
  <1>7. /\ y \in Nodes /\ y.index = a.index \ S /\ y.current = a.current \ S
        /\ y.older = {p \in a.older : p[1] \notin S /\ p[2] \notin S}
        /\ y.fhead = h /\ y.head = a.head /\ y.rev = a.rev /\ y.tail = a.tail
        /\ y.log = a.log /\ y.reversible = a.reversible /\ y.thrown = a.thrown /\ y.trial = a.trial
    <2>1. /\ a \in Nodes /\ Ordered(a) /\ IsFiniteSet(a.index) /\ h \in a.index
          /\ \A c \in a.index : bad \in Ancestors(c) \/ c = h \/ Before(a, h, c)
      BY <1>1, <1>2, <1>4, <1>5
    <2> HIDE DEF S
    <2> QED BY <1>1, <1>6, <2>1, RemoveFields
  <1>8. /\ z \in Nodes /\ z.index = m.index /\ z.older = m.older /\ z.fhead = m.fhead
        /\ z.current = (Ancestors(g) \ {Root}) \cap m.index /\ z.head = g /\ z.rev = Num(g)
        /\ z.tail = m.tail /\ z.log = m.log /\ z.reversible = Ancestors(g) \ Ancestors(m.log)
        /\ z.thrown = m.thrown /\ z.trial = m.trial
    BY <1>3, MovedFields
  <1> HIDE DEF y, z, S
  <1>9. /\ y \in Nodes /\ z \in Nodes /\ y.index = z.index /\ y.older = z.older /\ y.fhead = z.fhead
        /\ y.current = z.current /\ y.head = z.head /\ y.rev = z.rev /\ y.tail = z.tail
        /\ y.log = z.log /\ y.reversible = z.reversible /\ y.thrown = z.thrown /\ y.trial = z.trial
    BY <1>3, <1>4, <1>7, <1>8
  <1>10. y = z
    BY <1>9, SameNode
  <1> QED BY <1>10 DEF y, z, a, m

\* What rests does not depend on the exception.
LEMMA RestsThrow ==
    ASSUME NEW n, Rests(n), NEW what \in {"none", "invalid"}
    PROVE  LET m == Throw(n, what) IN Rests(m) /\ m.thrown = what /\ m.log = n.log /\ m.trial = n.trial
  <1> DEFINE m == Throw(n, what)
  <1>1. n \in Nodes
    BY DEF Rests, Core
  <1>2. /\ m \in Nodes /\ m.index = n.index /\ m.older = n.older /\ m.fhead = n.fhead
        /\ m.current = n.current /\ m.head = n.head /\ m.rev = n.rev /\ m.tail = n.tail
        /\ m.log = n.log /\ m.reversible = n.reversible /\ m.thrown = what /\ m.trial = n.trial
    BY <1>1 DEF Throw, Nodes
  <1> HIDE DEF m
  <1>3. Rooted(m) /\ Ordered(m) /\ Agreed(m) /\ Logged(m) /\ InStep(m) /\ Applies(m)
    <2>1. Rooted(m)
      BY <1>2 DEF Rests, Core, Rooted
    <2>2. Ordered(m)
      BY <1>2 DEF Rests, Core, Ordered
    <2>3. Agreed(m)
      BY <1>2 DEF Rests, Core, Agreed
    <2>4. Logged(m)
      BY <1>2 DEF Rests, Core, Logged
    <2>5. InStep(m) /\ Applies(m)
      BY <1>2 DEF Rests, Core, InStep, Applies
    <2> QED BY <2>1, <2>2, <2>3, <2>4, <2>5
  <1>4. OnlyBefore(m, m.head)
    BY <1>2 DEF Rests, OnlyBefore, Before
  <1> QED BY <1>2, <1>3, <1>4 DEF Rests, Core, m

\* A head that the database picked elsewhere is on another branch.
LEMMA Apart ==
    ASSUME NEW n, Mid(n), n.fhead # n.head, ~(n.fhead # Root /\ Front(n.fhead) = n.head)
    PROVE  n.head \notin Ancestors(n.fhead) /\ n.fhead \notin Ancestors(n.head)
  <1> DEFINE f == n.fhead
             h == n.head
  <1>1. /\ Core(n) /\ n \in Nodes /\ f \in n.index /\ h \in n.index /\ Ordered(n) /\ IsFirst(n, f)
        /\ f \in Blocks /\ h \in Blocks
    BY DEF Mid, Core, Rooted, Nodes
  <1>2. \A b \in n.index : Num(b) \in Nat /\ Lib(b) \in Nat
    BY <1>1, Chain
  <1>3. ASSUME f \in Ancestors(h) PROVE FALSE
    <2>1. Lib(f) <= Lib(h)
      BY <1>1, <1>3 DEF Core, Rooted, WellMade
    <2>2. Num(f) <= Num(h) /\ Num(f) # Num(h)
      BY <1>1, <1>3, Chain
    <2>3. Better(h, f)
      BY <1>1, <1>2, <2>1, <2>2 DEF Better
    <2> QED BY <1>1, <2>3, FirstIsBest
  <1>4. ASSUME h \in Ancestors(f) PROVE FALSE
    <2> DEFINE p == Front(f)
    <2>1. f # Root
      <3> SUFFICES ASSUME f = Root PROVE FALSE
        OBVIOUS
      <3>1. Root \in Ancestors(h)
        BY <1>1, Ancestry
      <3> QED BY <1>3, <3>1
    <2>2. p \in Ancestors(f) /\ Ancestors(f) = Ancestors(p) \cup {f} /\ p # f /\ p # h
      BY <1>1, <2>1, Parent
    <2>3. h \in Ancestors(p) /\ p \in Blocks
      BY <1>1, <1>4, <2>2, Chain
    <2>4. Num(h) <= Num(p) /\ Num(h) # Num(p)
      <3>1. \A c, d \in Ancestors(f) : Num(c) = Num(d) => c = d
        BY <1>1, Chain
      <3>2. Num(h) <= Num(p)
        BY <2>3, Ancestry
      <3> QED BY <1>4, <2>2, <3>1, <3>2
    <2>5. p \in n.index
      BY <1>1, <2>2, <2>4 DEF Core, Rooted
    <2>6. Lib(h) <= Lib(p)
      BY <1>1, <2>3, <2>5 DEF Core, Rooted, WellMade
    <2>7. Better(p, h)
      BY <1>1, <1>2, <2>4, <2>5, <2>6 DEF Better
    <2> QED BY <2>2, <2>5, <2>7 DEF Mid, OnlyBefore
  <1> QED BY <1>3, <1>4

\* The index has both branches from the last common ancestor on, and they are above the log.
LEMMA Branches ==
    ASSUME NEW n, Core(n), n.head \notin Ancestors(n.fhead), n.fhead \notin Ancestors(n.head)
    PROVE  LET q == PriorLen(n.fhead, n.head) IN
           /\ q \in Nat /\ q < Len(n.fhead) /\ q < Len(n.head)
           /\ SubSeq(n.fhead, 1, q) = SubSeq(n.head, 1, q)
           /\ \A b \in {n.fhead, n.head} : \A i \in 0 .. Len(b) :
                /\ q <= i => SubSeq(b, 1, i) \in n.index
                /\ q < i => SubSeq(b, 1, i) \notin Ancestors(n.log)
  <1> DEFINE f == n.fhead
             h == n.head
             q == PriorLen(f, h)
  <1>1. n \in Nodes /\ f \in n.index /\ h \in n.index /\ f \in Blocks /\ h \in Blocks
    BY DEF Core, Rooted, Nodes
  <1>2. /\ q \in Nat /\ q < Len(f) /\ q < Len(h) /\ SubSeq(f, 1, q) = SubSeq(h, 1, q)
        /\ \A e \in Ancestors(f) : e \in Ancestors(h) => Len(e) <= q
    BY <1>1, PriorFacts
  <1> HIDE DEF q
  <1>3. PICK e \in n.index : e \in Ancestors(h) /\ e \in Ancestors(f)
    BY Meeting
  <1>4. n.log \in Ancestors(h) /\ n.log \in Ancestors(f) /\ n.log \in Blocks
    BY <1>1, Meeting DEF Core, Logged, Nodes
  <1>5. Len(e) <= q /\ Len(e) \in Nat /\ Len(n.log) <= q /\ Len(n.log) \in Nat
    BY <1>1, <1>2, <1>3, <1>4 DEF Nodes, Blocks
  <1>6. ASSUME NEW b \in {f, h}, NEW i \in 0 .. Len(b)
        PROVE  /\ q <= i => SubSeq(b, 1, i) \in n.index
               /\ q < i => SubSeq(b, 1, i) \notin Ancestors(n.log)
    <2> DEFINE c == SubSeq(b, 1, i)
    <2>1. b \in Blocks /\ b \in n.index
      BY <1>1
    <2>2. c \in Blocks /\ Len(c) = i /\ c \in Ancestors(b) /\ i \in Nat
      BY <2>1, Cut DEF Ancestors, Blocks
    <2> HIDE DEF c
    <2>3. ASSUME q <= i PROVE c \in n.index
      <3>1. Num(e) <= Num(c)
        BY <1>2, <1>5, <2>2, <2>3, RootAssumption DEF Num
      <3> QED BY <2>1, <2>2, <3>1 DEF Core, Rooted
    <2>4. ASSUME q < i PROVE c \notin Ancestors(n.log)
      <3>1. \A d \in Ancestors(n.log) : Len(d) <= Len(n.log)
        BY <1>4, AncestorLen
      <3> QED BY <1>2, <1>5, <2>2, <2>4, <3>1
    <2> QED BY <2>3, <2>4 DEF c
  <1> QED BY <1>2, <1>6 DEF q

\* A switch that meets the bad block of length x goes back to the head, without the bad block.
LEMMA SwitchBackFacts ==
    ASSUME NEW n, Mid(n), n.head \notin Ancestors(n.fhead), n.fhead \notin Ancestors(n.head),
           NEW x \in 1 .. Len(n.fhead), PriorLen(n.fhead, n.head) < x, ~Valid(SubSeq(n.fhead, 1, x))
    PROVE  LET bad == SubSeq(n.fhead, 1, x)
               applied == Throw(Moved(n, SubSeq(n.fhead, 1, x - 1)), "invalid") IN
           SwitchBack(applied, bad, PriorLen(n.fhead, n.head) + 1, n.head) = Throw(remove(n, bad), "invalid")
  <1> DEFINE f == n.fhead
             h == n.head
             q == PriorLen(f, h)
             from == q + 1
             g == SubSeq(f, 1, x - 1)
             bad == SubSeq(f, 1, x)
             moved == Moved(n, g)
             applied == Throw(moved, "invalid")
             m == remove(n, bad)
             p == SubSeq(h, 1, q)
             popped == PopBlocks(remove([applied EXCEPT !.thrown = "none"], bad), Len(applied.head) - from + 1)
             back == ApplyBranch(popped, h, from)
  <1>1. Core(n) /\ n \in Nodes /\ f \in Blocks /\ h \in Blocks /\ h \in n.index /\ n.thrown = "none"
    BY DEF Mid, Core, Nodes, Rooted
  <1>2. /\ q \in Nat /\ q < Len(f) /\ q < Len(h) /\ SubSeq(f, 1, q) = p
        /\ \A i \in 0 .. Len(f) : q <= i => SubSeq(f, 1, i) \in n.index
        /\ \A i \in 0 .. Len(h) : q <= i => SubSeq(h, 1, i) \in n.index
        /\ \A i \in 0 .. Len(h) : q < i => SubSeq(h, 1, i) \notin Ancestors(n.log)
    BY <1>1, Branches
  <1>3. Len(f) \in Nat /\ Len(h) \in Nat /\ x \in Nat /\ x <= Len(f) /\ 1 <= x /\ q < x
    BY <1>1 DEF Blocks
  <1> HIDE DEF q
  <1>4. g \in Blocks /\ Len(g) = x - 1
    <2>1. x - 1 \in 0 .. Len(f)
      BY <1>3
    <2> QED BY <1>1, <2>1, Cut
  <1>5. bad \in Blocks /\ Len(bad) = x /\ bad \in Ancestors(f) /\ bad \in n.index /\ ~Valid(bad)
    <2>1. x \in 0 .. Len(f) /\ q <= x
      BY <1>2, <1>3
    <2> QED BY <1>1, <1>2, <2>1, Cut DEF Ancestors
  <1>6. \A i \in 0 .. x - 1 : SubSeq(g, 1, i) = SubSeq(f, 1, i)
    <2>1. x - 1 \in 0 .. Len(f)
      BY <1>3
    <2> QED BY <1>1, <2>1, CutCut
  <1>7. \A c \in Blocks : Len(c) < x => bad \notin Ancestors(c)
    <2> HIDE DEF bad
    <2> SUFFICES ASSUME NEW c \in Blocks, Len(c) < x, bad \in Ancestors(c) PROVE FALSE
      OBVIOUS
    <2>1. Len(c) \in Nat
      BY DEF Blocks
    <2>2. Len(bad) <= Len(c)
      BY AncestorLen
    <2> QED BY <1>3, <1>5, <2>1, <2>2
  <1> HIDE DEF g, bad
  <1>8. /\ Rests(m) /\ m.thrown = "none" /\ m.head = h /\ m.log = n.log
        /\ m.index = {c \in n.index : bad \notin Ancestors(c)}
    BY <1>5, RemoveRests
  <1>9. remove(moved, bad) = Moved(m, g)
    BY <1>4, <1>5, RemoveMoved
  <1>10. /\ [applied EXCEPT !.thrown = "none"] = moved /\ applied.head = g /\ applied.thrown = "invalid"
    <2>1. moved \in Nodes /\ moved.thrown = "none" /\ moved.head = g
      BY <1>1, <1>4, MovedFields
    <2> HIDE DEF moved
    <2> QED BY <2>1 DEF Throw, Nodes
  <1>11. Core(m) /\ m \in Nodes
    BY <1>8 DEF Rests, Core
  <1> HIDE DEF m, applied, moved
  <1>12. Len(applied.head) - from + 1 = Len(g) - q
    BY <1>2, <1>3, <1>4, <1>10
  <1>13. popped = Moved(m, p)
    <2>1. q \in 0 .. Len(g)
      BY <1>2, <1>3, <1>4
    <2>2. ASSUME NEW i \in 0 .. Len(g), q <= i, i < Len(g) PROVE SubSeq(g, 1, i) \in m.index
      <3>1. i \in 0 .. Len(f) /\ i \in 0 .. x - 1 /\ i < x
        BY <1>3, <1>4
      <3>2. SubSeq(f, 1, i) \in Blocks /\ Len(SubSeq(f, 1, i)) = i
        BY <1>1, <3>1, Cut
      <3>3. SubSeq(f, 1, i) \in n.index
        BY <1>2, <2>2, <3>1
      <3>4. bad \notin Ancestors(SubSeq(f, 1, i))
        BY <1>7, <3>1, <3>2
      <3> QED BY <1>6, <1>8, <3>1, <3>3, <3>4
    <2>3. PopBlocks(Moved(m, g), Len(g) - q) = Moved(m, SubSeq(g, 1, q))
      BY <1>4, <1>8, <1>11, <2>1, <2>2, PopAll
    <2>4. SubSeq(g, 1, q) = p
      BY <1>2, <1>3, <1>4, <1>6, <2>1
    <2> QED BY <1>9, <1>10, <1>12, <2>3, <2>4
  <1>14. back = Moved(m, h)
    <2> DEFINE y == Len(h) + 1
    <2>1. q \in 0 .. Len(h) /\ y \in 1 .. Len(h) + 1 /\ q < y /\ from = q + 1 /\ ~(y <= Len(h))
      BY <1>2, <1>3
    <2>2. ASSUME NEW i \in 1 .. Len(h), q < i
          PROVE  SubSeq(h, 1, i) \in m.index /\ SubSeq(h, 1, i) \notin Ancestors(m.log)
      <3> DEFINE c == SubSeq(h, 1, i)
      <3>1. i \in 0 .. Len(h) /\ q <= i
        BY <1>2, <1>3, <2>2
      <3>2. c \in n.index /\ c \notin Ancestors(n.log) /\ c \in Ancestors(h)
        BY <1>2, <2>2, <3>1 DEF Ancestors
      <3> HIDE DEF c
      <3>3. Ancestors(c) \subseteq Ancestors(h)
        BY <1>1, <3>2, Chain
      <3>4. bad \notin Ancestors(h)
        BY <1>5, BadChain
      <3>5. c \in m.index /\ c \notin Ancestors(m.log)
        BY <1>8, <3>2, <3>3, <3>4
      <3> QED BY <3>5 DEF c
    <2>3. \A i \in 1 .. Len(h) : q < i /\ i < y => Valid(SubSeq(h, 1, i))
      <3>1. \A i \in 1 .. Len(h) : SubSeq(h, 1, i) \in Ancestors(h)
        BY <1>3 DEF Ancestors
      <3> QED BY <1>1, <3>1 DEF Core, Applies
    <2> HIDE DEF from, y
    <2>4. ApplyBranch(Moved(m, SubSeq(h, 1, q)), h, from) =
            IF y = Len(h) + 1 THEN Moved(m, h) ELSE Throw(Moved(m, SubSeq(h, 1, y - 1)), "invalid")
      <3>1. m \in Nodes /\ m.thrown = "none" /\ h \in Blocks
        BY <1>1, <1>8, <1>11
      <3> HIDE DEF h
      <3> QED BY <2>1, <2>2, <2>3, <3>1, ApplyAll
    <2> QED BY <1>13, <2>4 DEF y
  <1>15. back = m
    BY <1>8, <1>11, <1>14, MovedNowhere
  <1>16. SwitchBack(applied, bad, from, h) = IF Threw(back) THEN back ELSE Throw(back, applied.thrown)
    BY DEF SwitchBack
  <1> HIDE DEF back
  <1>17. SwitchBack(applied, bad, from, h) = Throw(m, "invalid")
    BY <1>8, <1>10, <1>15, <1>16 DEF Threw
  <1> QED BY <1>17 DEF applied, bad, m, moved, g, q

\* A switch leaves the node on the head of the database, or where it was without the bad block.
LEMMA SwitchFacts ==
    ASSUME NEW n, Mid(n), n.fhead # n.head, ~(n.fhead # Root /\ Front(n.fhead) = n.head)
    PROVE  LET m == SwitchForks(n) IN Rests(m) /\ Follows(m, n) /\ m.thrown \in {"none", "invalid"}
  <1> DEFINE f == n.fhead
             h == n.head
             q == PriorLen(f, h)
             from == q + 1
             p == SubSeq(f, 1, q)
             popped == PopBlocks(n, Len(h) - from + 1)
             applied == ApplyBranch(popped, f, from)
  <1>1. /\ Core(n) /\ n \in Nodes /\ f \in Blocks /\ h \in Blocks /\ h \in n.index /\ f \in n.index
        /\ n.thrown = "none"
    BY DEF Mid, Core, Nodes, Rooted
  <1>2. h \notin Ancestors(f) /\ f \notin Ancestors(h)
    BY Apart
  <1>3. /\ q \in Nat /\ q < Len(f) /\ q < Len(h) /\ p = SubSeq(h, 1, q)
        /\ \A i \in 0 .. Len(f) : q <= i => SubSeq(f, 1, i) \in n.index
        /\ \A i \in 0 .. Len(f) : q < i => SubSeq(f, 1, i) \notin Ancestors(n.log)
        /\ \A i \in 0 .. Len(h) : q <= i => SubSeq(h, 1, i) \in n.index
    BY <1>1, <1>2, Branches
  <1>4. Len(f) \in Nat /\ Len(h) \in Nat
    BY <1>1 DEF Blocks
  <1>5. SwitchForks(n) =
            IF ~BranchKnown(n, f, from) \/ ~BranchKnown(n, h, from)
            THEN Throw(n, "fork_db_block_not_found")
            ELSE IF Threw(popped) THEN popped
            ELSE IF Threw(applied)
            THEN SwitchBack(applied, SubSeq(f, 1, Len(applied.head) + 1), from, h)
            ELSE applied
    BY DEF SwitchForks
  <1> HIDE DEF q
  <1>6. BranchKnown(n, f, from) /\ BranchKnown(n, h, from)
    BY <1>3, <1>4 DEF BranchKnown, Has
  <1>7. popped = Moved(n, p)
    <2>1. q \in 0 .. Len(h) /\ Len(h) - from + 1 = Len(h) - q
      BY <1>3, <1>4
    <2>2. Moved(n, h) = n
      BY <1>1, MovedNowhere
    <2>3. \A i \in 0 .. Len(h) : q <= i /\ i < Len(h) => SubSeq(h, 1, i) \in n.index
      BY <1>3
    <2>4. PopBlocks(Moved(n, h), Len(h) - q) = Moved(n, SubSeq(h, 1, q))
      BY <1>1, <2>1, <2>3, PopAll
    <2> QED BY <1>3, <2>1, <2>2, <2>4
  <1>8. ~Threw(popped)
    <2>1. q \in 0 .. Len(f)
      BY <1>3, <1>4
    <2>2. p \in Blocks
      BY <1>1, <2>1, Cut
    <2>3. Moved(n, p).thrown = "none"
      BY <1>1, <2>2, MovedFields
    <2> QED BY <1>7, <2>3 DEF Threw
  <1> HIDE DEF popped
  <1> DEFINE X == {i \in 1 .. Len(f) + 1 : q < i /\ (i <= Len(f) => ~Valid(SubSeq(f, 1, i)))}
  <1>9. PICK x \in X : \A i \in X : x <= i
    <2>1. Len(f) + 1 \in X
      BY <1>3, <1>4
    <2>2. X \subseteq Nat
      BY <1>4
    <2> HIDE DEF X
    <2> QED BY <2>1, <2>2, NatMin
  <1>10. x \in 1 .. Len(f) + 1 /\ q < x /\ (x <= Len(f) => ~Valid(SubSeq(f, 1, x)))
    OBVIOUS
  <1>11. \A i \in 1 .. Len(f) : q < i /\ i < x => Valid(SubSeq(f, 1, i))
    <2> SUFFICES ASSUME NEW i \in 1 .. Len(f), q < i, i < x, ~Valid(SubSeq(f, 1, i)) PROVE FALSE
      OBVIOUS
    <2>1. i \in X
      BY <1>4
    <2>2. x <= i
      BY <1>9, <2>1
    <2> QED BY <1>10, <2>2
  <1> HIDE DEF X
  <1>12. applied = IF x = Len(f) + 1 THEN Moved(n, f) ELSE Throw(Moved(n, SubSeq(f, 1, x - 1)), "invalid")
    <2>1. q \in 0 .. Len(f) /\ from = q + 1
      BY <1>3, <1>4
    <2>2. \A i \in 1 .. Len(f) : q < i => SubSeq(f, 1, i) \in n.index /\ SubSeq(f, 1, i) \notin Ancestors(n.log)
      <3>1. \A i \in 1 .. Len(f) : q < i => i \in 0 .. Len(f) /\ q <= i
        BY <1>3, <1>4
      <3> QED BY <1>3, <3>1
    <2> HIDE DEF from
    <2>3. ApplyBranch(Moved(n, SubSeq(f, 1, q)), f, from) =
             IF x = Len(f) + 1 THEN Moved(n, f) ELSE Throw(Moved(n, SubSeq(f, 1, x - 1)), "invalid")
      BY <1>1, <1>10, <1>11, <2>1, <2>2, ApplyAll, ZenonT(60)
    <2> QED BY <1>7, <2>3
  <1> HIDE DEF applied
  <1>13. CASE x = Len(f) + 1
    <2>1. applied = Moved(n, f)
      BY <1>12, <1>13
    <2>2. \A c \in Ancestors(f) : Valid(c)
      <3> SUFFICES ASSUME NEW c \in Ancestors(f) PROVE Valid(c)
        OBVIOUS
      <3> DEFINE i == Len(c)
      <3>1. c = SubSeq(f, 1, i) /\ i \in 0 .. Len(f) /\ i \in Nat
        BY <1>1, <1>4, AncestorLen DEF Blocks
      <3> HIDE DEF i
      <3>2. CASE q < i
        <4>1. i \in 1 .. Len(f) /\ i < x
          BY <1>3, <1>4, <1>13, <3>1, <3>2
        <4> QED BY <1>11, <3>1, <3>2, <4>1
      <3>3. CASE i <= q
        <4>1. i \in 0 .. q /\ q \in 0 .. Len(f) /\ q \in 0 .. Len(h) /\ i \in 0 .. Len(h)
          BY <1>3, <1>4, <3>1, <3>3
        <4>2. SubSeq(p, 1, i) = SubSeq(f, 1, i)
          BY <1>1, <4>1, CutCut
        <4>3. SubSeq(SubSeq(h, 1, q), 1, i) = SubSeq(h, 1, i)
          BY <1>1, <4>1, CutCut
        <4>4. c = SubSeq(h, 1, i)
          BY <1>3, <3>1, <4>2, <4>3
        <4>5. c \in Ancestors(h)
          BY <4>1, <4>4 DEF Ancestors
        <4> QED BY <1>1, <4>5 DEF Core, Applies
      <3> QED BY <1>3, <3>1, <3>2, <3>3
    <2>3. Rests(applied) /\ Follows(applied, n) /\ applied.thrown = "none"
      BY <2>1, <2>2, MovedRests
    <2>4. SwitchForks(n) = applied
      BY <1>5, <1>6, <1>8, <2>3 DEF Threw
    <2> QED BY <2>3, <2>4
  <1>14. CASE x # Len(f) + 1
    <2> DEFINE g == SubSeq(f, 1, x - 1)
               bad == SubSeq(f, 1, x)
               m == remove(n, bad)
    <2>1. x \in 1 .. Len(f) /\ x \in 0 .. Len(f) /\ x - 1 \in 0 .. Len(f) /\ q <= x /\ (x - 1) + 1 = x
      <3>1. q \in Nat
        BY <1>3
      <3>2. x \in 1 .. Len(f) + 1 /\ q < x
        BY <1>10
      <3> HIDE DEF f, bad, g
      <3> QED BY <1>4, <1>14, <3>1, <3>2
    <2>2. ~Valid(bad) /\ bad \in n.index /\ bad \in Ancestors(f)
      BY <1>3, <1>10, <2>1 DEF Ancestors
    <2>3. g \in Blocks /\ Len(g) = x - 1
      BY <1>1, <2>1, Cut
    <2>4. applied = Throw(Moved(n, g), "invalid")
      BY <1>12, <1>14
    <2>5. SwitchBack(applied, bad, from, h) = Throw(m, "invalid")
      BY <1>2, <1>10, <2>1, <2>2, <2>4, SwitchBackFacts DEF q
    <2>6. applied.head = g /\ Threw(applied)
      <3>1. Moved(n, g) \in Nodes /\ Moved(n, g).head = g
        BY <1>1, <2>3, MovedFields
      <3> QED BY <2>4, <3>1 DEF Throw, Threw, Nodes
    <2>7. SubSeq(f, 1, Len(applied.head) + 1) = bad
      BY <2>1, <2>3, <2>6
    <2>8. SwitchForks(n) = Throw(m, "invalid")
      BY <1>5, <1>6, <1>8, <2>5, <2>6, <2>7
    <2>9. Rests(m) /\ Follows(m, n)
      BY <2>2, RemoveRests
    <2> HIDE DEF m
    <2> DEFINE t == Throw(m, "invalid")
    <2>10. Rests(t) /\ t.thrown = "invalid" /\ t.log = m.log /\ t.trial = m.trial
      BY <2>9, RestsThrow
    <2> HIDE DEF t
    <2>11. Follows(t, n)
      BY <2>9, <2>10 DEF Follows
    <2> QED BY <2>8, <2>10, <2>11 DEF t
  <1> QED BY <1>13, <1>14

\* Whatever head the database picked, the node ends in step with the database.
LEMMA MaybeSwitch ==
    ASSUME NEW n, Mid(n)
    PROVE  LET m == maybe_switch_forks(n) IN Rests(m) /\ Follows(m, n) /\ m.thrown \in {"none", "invalid"}
  <1> DEFINE f == n.fhead
             h == n.head
  <1>1. /\ Core(n) /\ n \in Nodes /\ f \in Blocks /\ h \in Blocks /\ h \in n.index /\ f \in n.index
        /\ n.thrown = "none"
    BY DEF Mid, Core, Nodes, Rooted
  <1>2. CASE f # Root /\ Front(f) = h
    <2> DEFINE m == ApplyBlock(n, f)
    <2>1. maybe_switch_forks(n) = IF Threw(m) THEN Throw(remove(n, f), m.thrown) ELSE m
      BY <1>2 DEF maybe_switch_forks
    <2>2. Moved(n, h) = n
      BY <1>1, MovedNowhere
    <2>3. Ancestors(f) = Ancestors(h) \cup {f} /\ f \notin Ancestors(h)
      BY <1>1, <1>2, Parent
    <2>4. f \notin Ancestors(n.log)
      <3>1. Ancestors(n.log) \subseteq Ancestors(h)
        BY <1>1, Chain DEF Core, Logged
      <3> QED BY <2>3, <3>1
    <2>5. m = IF Valid(f) THEN Moved(n, f) ELSE Throw(n, "invalid")
      BY <1>1, <1>2, <2>2, <2>4, ApplyOne
    <2> HIDE DEF m
    <2>6. CASE Valid(f)
      <3>1. \A c \in Ancestors(f) : Valid(c)
        BY <1>1, <2>3, <2>6 DEF Core, Applies
      <3>2. Rests(m) /\ Follows(m, n) /\ m.thrown = "none"
        BY <2>5, <2>6, <3>1, MovedRests
      <3> QED BY <2>1, <3>2 DEF Threw
    <2>7. CASE ~Valid(f)
      <3> DEFINE r == remove(n, f)
                 t == Throw(r, "invalid")
      <3>1. Threw(m) /\ m.thrown = "invalid"
        BY <1>1, <2>5, <2>7 DEF Threw, Throw, Nodes
      <3>2. f \in Ancestors(f)
        BY <1>1, Ancestry
      <3>3. Rests(r) /\ Follows(r, n)
        BY <1>1, <2>7, <3>2, RemoveRests
      <3>4. maybe_switch_forks(n) = t
        BY <2>1, <3>1
      <3> HIDE DEF r
      <3>5. Rests(t) /\ t.thrown = "invalid" /\ t.log = r.log /\ t.trial = r.trial
        BY <3>3, RestsThrow
      <3> HIDE DEF t
      <3> QED BY <3>3, <3>4, <3>5 DEF Follows
    <2> QED BY <2>6, <2>7
  <1>3. CASE ~(f # Root /\ Front(f) = h) /\ f # h
    <2>1. maybe_switch_forks(n) = SwitchForks(n)
      BY <1>3 DEF maybe_switch_forks
    <2> QED BY <1>3, <2>1, SwitchFacts
  <1>4. CASE ~(f # Root /\ Front(f) = h) /\ f = h
    <2>1. maybe_switch_forks(n) = n
      BY <1>4 DEF maybe_switch_forks
    <2>2. n.log \in Ancestors(n.log)
      BY <1>1, Ancestry DEF Nodes
    <2>3. OnlyBefore(n, h)
      BY <1>4 DEF Mid
    <2> QED BY <1>1, <1>4, <2>1, <2>2, <2>3 DEF Rests, Follows
  <1> QED BY <1>2, <1>3, <1>4

-----------------------------------------------------------------------------
\* The handlers

\* Bad blocks are part of one trial only.
LEMMA ValidityFacts ==
    (\A v \in Validity : v \in BOOLEAN) /\ (node.trial # "bad blocks" => Validity = {TRUE})
  <1>1. node.trial = "bad blocks" => Validity = BOOLEAN
    BY DEF Validity
  <1>2. node.trial # "bad blocks" => Validity = {TRUE}
    BY DEF Validity
  <1>3. TRUE \in BOOLEAN
    OBVIOUS
  <1> QED BY <1>1, <1>2, <1>3, Zenon

\* A block of the world follows the rules for its finality.
LEMMA NextBlockFacts ==
    ASSUME NEW p \in Blocks, NEW b \in NextBlock(p)
    PROVE  /\ b \in Blocks /\ b # Root /\ Front(b) = p
           /\ Lib(p) <= Lib(b) /\ (Lib(b) <= Num(p) \/ Lib(b) = Lib(p))
           /\ node.trial # "bad blocks" => Valid(b)
           /\ (\E c \in Ancestors(b) : ~Valid(c)) => Lib(b) = Lib(p)
  <1> DEFINE libs == IF \A c \in Ancestors(p) : Valid(c) THEN Lib(p) .. Num(p) ELSE {Lib(p)}
             labels == {Label(tag, lib, valid) : tag \in Tags, lib \in libs, valid \in Validity}
  <1>1. Lib(p) \in Nat /\ Num(p) \in Nat
    BY Numbers
  <1>2. PICK l \in {y \in labels : y.valid \/ y.lib = Lib(p)} : b = Append(p, l)
    BY DEF NextBlock
  <1>3. libs \subseteq Nat
    BY <1>1
  <1>4. (\A v \in Validity : v \in BOOLEAN) /\ (node.trial # "bad blocks" => Validity = {TRUE})
    <2> HIDE DEF libs, labels
    <2> QED BY ValidityFacts, Zenon
  <1>5. PICK tag \in Tags, lib \in libs, valid \in Validity : l = Label(tag, lib, valid)
    BY <1>2
  <1>6. l \in Labels /\ l.lib = lib /\ l.valid = valid
    <2>1. lib \in Nat
      BY <1>3
    <2>2. valid \in BOOLEAN
      <3> HIDE DEF libs, labels
      <3> QED BY <1>4, Zenon
    <2>3. l = [tag |-> tag, lib |-> lib, valid |-> valid]
      BY <1>5 DEF Label
    <2> HIDE DEF libs
    <2> QED BY <1>5, <2>1, <2>2, <2>3 DEF Labels
  <1>7. l.valid \/ l.lib = Lib(p)
    BY <1>2
  <1>8. ASSUME ~(\A c \in Ancestors(p) : Valid(c)) PROVE lib = Lib(p)
    BY <1>5, <1>8
  <1>9. Lib(p) <= lib /\ (lib = Lib(p) \/ lib <= Num(p))
    BY <1>1, <1>5
  <1> HIDE DEF libs, labels
  <1>10. b \in Blocks /\ Len(b) = Len(p) + 1 /\ b[Len(b)] = l /\ Len(p) \in Nat
    BY <1>2, <1>6 DEF Blocks
  <1>11. b # Root /\ Last(b) = l
    <2>1. b # Root
      BY <1>10 DEF Root
    <2> QED BY <1>10, <2>1 DEF Last
  <1>12. Front(b) = p
    <2>1. Len(p) \in 0 .. Len(b) /\ Len(b) - 1 = Len(p)
      BY <1>10
    <2>2. SubSeq(b, 1, Len(p)) \in Blocks /\ Len(SubSeq(b, 1, Len(p))) = Len(p)
          /\ \A j \in 1 .. Len(p) : SubSeq(b, 1, Len(p))[j] = b[j]
      BY <1>10, <2>1, Cut
    <2>3. \A j \in 1 .. Len(p) : b[j] = p[j]
      BY <1>2, <1>6 DEF Blocks
    <2>4. SubSeq(b, 1, Len(p)) = p
      BY <2>2, <2>3, SameBlock
    <2> QED BY <2>1, <2>4 DEF Front
  <1>13. Lib(b) = lib /\ (Valid(b) <=> valid)
    BY <1>6, <1>11 DEF Lib, Valid
  <1>14. Ancestors(b) = Ancestors(p) \cup {b}
    BY <1>10, <1>11, <1>12, Parent
  <1>15. (\E c \in Ancestors(b) : ~Valid(c)) => Lib(b) = Lib(p)
    BY <1>6, <1>7, <1>8, <1>13, <1>14
  <1>16. node.trial # "bad blocks" => Valid(b)
    BY <1>4, <1>13
  <1> QED BY <1>1, <1>9, <1>10, <1>11, <1>12, <1>13, <1>15, <1>16

\* It may join an index that has the block before it, if it finalises nothing of another branch.
LEMMA MayJoin ==
    ASSUME NEW n, Core(n), n.trial = node.trial, NEW p \in n.index, NEW b \in NextBlock(p), b \notin n.index,
           \A c \in Ancestors(b) : Num(c) <= Lib(b) => c \in Ancestors(n.head)
    PROVE  Joins(n, b) /\ Front(b) = p /\ b \in Blocks /\ b # Root /\ WellMade(b)
  <1>1. n \in Nodes /\ p \in Blocks /\ WellMade(p)
    BY DEF Core, Rooted, Nodes
  <1>2. /\ b \in Blocks /\ b # Root /\ Front(b) = p
        /\ Lib(p) <= Lib(b) /\ (Lib(b) <= Num(p) \/ Lib(b) = Lib(p))
        /\ node.trial # "bad blocks" => Valid(b)
        /\ (\E c \in Ancestors(b) : ~Valid(c)) => Lib(b) = Lib(p)
    BY <1>1, NextBlockFacts
  <1>3. Ancestors(b) = Ancestors(p) \cup {b} /\ Num(p) = Num(b) - 1
    BY <1>2, Parent
  <1>4. Num(b) \in Nat /\ Lib(b) \in Nat /\ Lib(p) \in Nat /\ Num(p) \in Nat /\ Lib(p) <= Num(p)
    BY <1>1, <1>2, Numbers, LibBehind
  <1>5. WellMade(b)
    <2>1. \A c \in Ancestors(p) : Lib(c) <= Lib(p) /\ Lib(c) \in Nat
      BY <1>1, Ancestry, Numbers DEF WellMade
    <2>2. Lib(p) <= Lib(b) /\ Lib(b) < Num(b)
      <3>1. Lib(p) <= Lib(b) /\ (Lib(b) <= Num(p) \/ Lib(b) = Lib(p))
        BY <1>2
      <3>2. Num(p) = Num(b) - 1
        BY <1>3
      <3> QED BY <1>4, <3>1, <3>2
    <2>3. \A c \in Ancestors(b) : Lib(c) <= Lib(b)
      BY <1>3, <1>4, <2>1, <2>2
    <2> QED BY <2>2, <2>3 DEF WellMade
  <1> QED BY <1>2, <1>5 DEF Joins

\* The node before a handler, without the exception of the last one
LEMMA CalmRests ==
    ASSUME IInv
    PROVE  /\ Rests(Calm) /\ Calm.thrown = "none" /\ Calm.log = node.log /\ Calm.trial = node.trial
           /\ Calm.index = node.index /\ Calm.head = node.head /\ Calm.fhead = node.fhead
           /\ node \in Nodes /\ Rests(node)
  <1>1. Rests(node) /\ node \in Nodes
    BY DEF IInv, Rests, Core
  <1>2. Calm = Throw(node, "none")
    BY DEF Calm, Throw
  <1>3. Rests(Calm) /\ Calm.thrown = "none" /\ Calm.log = node.log /\ Calm.trial = node.trial
    BY <1>1, <1>2, RestsThrow
  <1>4. Calm.index = node.index /\ Calm.head = node.head /\ Calm.fhead = node.fhead
    BY <1>1 DEF Calm, Nodes
  <1> QED BY <1>1, <1>3, <1>4

\* A timely block finalises nothing of another branch.
LEMMA TimelyAgrees ==
    ASSUME ~LateFinality, IInv, NEW p \in node.index, NEW b \in NextBlock(p), b \notin node.index, Timely(b)
    PROVE  \A c \in Ancestors(b) : Num(c) <= Lib(b) => c \in Ancestors(node.head)
  <1> SUFFICES ASSUME NEW c \in Ancestors(b), Num(c) <= Lib(b) PROVE c \in Ancestors(node.head)
    OBVIOUS
  <1> DEFINE h == node.head
  <1>1. /\ Core(node) /\ node \in Nodes /\ h \in node.index /\ h \in Blocks /\ p \in Blocks /\ WellMade(p)
        /\ OnlyBefore(node, h)
    BY DEF IInv, Rests, Core, Rooted, Nodes
  <1>2. /\ b \in Blocks /\ b # Root /\ Front(b) = p
        /\ Lib(p) <= Lib(b) /\ (Lib(b) <= Num(p) \/ Lib(b) = Lib(p))
    BY <1>1, NextBlockFacts
  <1>3. /\ Num(c) \in Nat /\ RootNum <= Num(c) /\ c \in Blocks /\ Num(b) \in Nat /\ Lib(b) \in Nat /\ Lib(p) \in Nat
        /\ Num(p) \in Nat /\ Lib(p) <= Num(p) /\ Num(h) \in Nat /\ Lib(h) \in Nat
    BY <1>1, <1>2, Ancestry, Numbers, LibBehind
  <1>4. Num(c) <= Num(p)
    <2>1. Lib(b) <= Num(p) \/ Lib(b) = Lib(p)
      BY <1>2
    <2> QED BY <1>3, <2>1
  <1>5. Ancestors(b) = Ancestors(p) \cup {b} /\ Num(p) = Num(b) - 1
    BY <1>2, Parent
  <1>6. c \in Ancestors(p)
    BY <1>3, <1>4, <1>5
  <1>7. CASE IsPrefix(h, b)
    <2>1. h \in Ancestors(b)
      BY <1>1, <1>2, <1>7, Prefix
    <2>2. h \in Ancestors(p)
      BY <1>1, <1>5, <2>1
    <2>3. h = p
      <3> SUFFICES ASSUME h # p PROVE FALSE
        OBVIOUS
      <3>1. p \in Ancestors(p) /\ Num(h) <= Num(p) /\ Num(h) # Num(p)
        BY <1>1, <2>2, Ancestry
      <3>2. Lib(h) <= Lib(p)
        BY <1>1, <2>2 DEF WellMade
      <3>3. Better(p, h)
        BY <1>3, <3>1, <3>2 DEF Better
      <3> QED BY <1>1, <3>3 DEF OnlyBefore
    <2> QED BY <1>6, <2>3
  <1>8. CASE IsPrefix(SubSeq(b, 1, Lib(b) - RootNum), h)
    <2> DEFINE k == Lib(b) - RootNum
               d == SubSeq(b, 1, k)
    <2>1. Len(b) \in Nat /\ Num(b) = RootNum + Len(b) /\ Lib(b) <= Num(b)
      <3>1. Lib(b) <= Num(p) \/ Lib(b) = Lib(p)
        BY <1>2
      <3> QED BY <1>2, <1>3, <1>5, <3>1 DEF Num, Blocks
    <2>2. k \in 0 .. Len(b)
      BY <1>3, <2>1, RootAssumption
    <2> HIDE DEF k
    <2>3. d \in Blocks /\ Len(d) = k /\ d \in Ancestors(b)
      BY <1>2, <2>2, Cut DEF Ancestors
    <2>4. IsPrefix(d, h)
      BY <1>8 DEF k
    <2> HIDE DEF d
    <2>5. d \in Ancestors(h)
      BY <1>1, <2>3, <2>4, Prefix
    <2>6. Num(d) = Lib(b)
      BY <1>3, <2>2, <2>3, RootAssumption DEF Num, k
    <2>7. c \in Ancestors(d)
      BY <1>2, <2>3, <2>6, Ancestry
    <2> QED BY <1>1, <2>5, <2>7, Ancestry
  <1> QED BY <1>7, <1>8 DEF Timely

LEMMA PushBlockKeeps ==
    ASSUME ~LateFinality, IInv, NEW p \in node.index, NEW b \in NextBlock(p), PushBlock(b)
    PROVE  IInv' /\ Follows(node', node)
  <1>1. /\ Rests(Calm) /\ Calm.thrown = "none" /\ Calm.log = node.log /\ Calm.trial = node.trial
        /\ Calm.index = node.index /\ Calm.head = node.head /\ node \in Nodes
    BY CalmRests
  <1>2. b \notin node.index /\ Timely(b)
    BY DEF PushBlock, Has
  <1>3. \A c \in Ancestors(b) : Num(c) <= Lib(b) => c \in Ancestors(node.head)
    BY <1>2, TimelyAgrees
  <1>4. Joins(Calm, b)
    BY <1>1, <1>2, <1>3, MayJoin DEF Rests
  <1> DEFINE m == add(Calm, b)
             z == maybe_switch_forks(m)
  <1>5. Mid(m) /\ Follows(m, Calm)
    BY <1>1, <1>4, AddFacts
  <1>6. node' = IF Threw(m) THEN m ELSE z
    BY DEF PushBlock
  <1> HIDE DEF m
  <1>7. Rests(z) /\ Follows(z, m) /\ z.thrown \in {"none", "invalid"}
    BY <1>5, MaybeSwitch
  <1>8. node' = z
    BY <1>5, <1>6 DEF Mid, Threw
  <1> HIDE DEF z
  <1>9. z.log \in Blocks
    BY <1>7 DEF Rests, Core, Nodes
  <1>10. Follows(z, Calm)
    BY <1>5, <1>7, <1>9, FollowsOn
  <1>11. Follows(z, node)
    BY <1>1, <1>10 DEF Follows
  <1>12. Rests(node') /\ node'.thrown \in {"none", "invalid"}
    BY <1>7, <1>8
  <1> QED BY <1>8, <1>11, <1>12 DEF IInv

\* The node's own block is the head that the database picks.
LEMMA OwnIsHead ==
    ASSUME NEW n, Rests(n), n.thrown = "none", NEW b, Joins(n, b), Front(b) = n.head
    PROVE  ForkHead(Insert(n, b)).fhead = b
  <1> DEFINE m == ForkHead(Insert(n, b))
             h == n.head
  <1>1. Mid(m) /\ m.head = h /\ m.index = n.index \cup {b}
    BY AddStarts
  <1> HIDE DEF m
  <1>2. /\ n \in Nodes /\ h \in n.index /\ b \in Blocks /\ b # Root /\ WellMade(b) /\ OnlyBefore(n, h)
        /\ m \in Nodes /\ Ordered(m) /\ IsFirst(m, m.fhead)
    BY <1>1 DEF Rests, Core, Rooted, Joins, Mid
  <1>3. \A c \in n.index \cup {b} : Num(c) \in Nat /\ Lib(c) \in Nat
    BY <1>1, <1>2, Chain
  <1>4. Num(h) = Num(b) - 1 /\ h \in Ancestors(b)
    BY <1>2, Parent
  <1>5. Lib(h) <= Lib(b)
    BY <1>2, <1>4 DEF WellMade
  <1>6. ~Better(b, m.fhead) /\ m.fhead \in n.index \cup {b}
    BY <1>1, <1>2, FirstIsBest DEF IsFirst
  <1>7. \A c \in n.index : ~Better(c, h)
    BY <1>2, <1>3 DEF OnlyBefore, Better
  <1>8. m.fhead \notin n.index
    <2> SUFFICES ASSUME m.fhead \in n.index PROVE FALSE
      OBVIOUS
    <2>1. ~Better(m.fhead, h)
      BY <1>7
    <2>2. Better(b, m.fhead)
      BY <1>2, <1>3, <1>4, <1>5, <2>1 DEF Better
    <2> QED BY <1>6, <2>2
  <1>9. m.fhead = b
    BY <1>6, <1>8
  <1> QED BY <1>9 DEF m

LEMMA ProduceKeeps ==
    ASSUME IInv, NEW b \in NextBlock(node.head), Produce(b)
    PROVE  IInv' /\ Follows(node', node)
  <1> DEFINE h == node.head
  <1>1. /\ Rests(Calm) /\ Calm.thrown = "none" /\ Calm.log = node.log /\ Calm.trial = node.trial
        /\ Calm.index = node.index /\ Calm.head = h /\ node \in Nodes
    BY CalmRests
  <1>2. b \notin node.index /\ Valid(b) /\ Front(b) = h
    BY DEF Produce, Has
  <1>3. h \in node.index /\ h \in Blocks /\ WellMade(h) /\ \A c \in Ancestors(h) : Valid(c)
    BY <1>1 DEF IInv, Rests, Core, Rooted, Applies, Nodes
  <1>4. /\ b \in Blocks /\ b # Root /\ (Lib(b) <= Num(h) \/ Lib(b) = Lib(h))
    BY <1>3, NextBlockFacts
  <1>5. Ancestors(b) = Ancestors(h) \cup {b} /\ Num(h) = Num(b) - 1 /\ b \notin Ancestors(h)
    BY <1>2, <1>4, Parent
  <1>6. \A c \in Ancestors(b) : Num(c) <= Lib(b) => c \in Ancestors(h)
    <2>1. Num(b) \in Nat /\ Lib(b) \in Nat /\ Num(h) \in Nat /\ Lib(h) <= Num(h) /\ Lib(h) \in Nat
      BY <1>3, <1>4, Numbers, LibBehind
    <2>2. Num(h) = Num(b) - 1
      BY <1>5
    <2>3. Lib(b) < Num(b)
      BY <1>4, <2>1, <2>2
    <2>4. ~(Num(b) <= Lib(b))
      BY <2>1, <2>3
    <2> QED BY <1>5, <2>4
  <1>7. Joins(Calm, b)
    BY <1>1, <1>2, <1>3, <1>6, MayJoin DEF Rests
  <1> DEFINE a == add(Calm, b)
             m == mark_in_current_chain(a, b, TRUE)
             y == [m EXCEPT !.head = m.fhead]
             e == [y EXCEPT !.rev = @ + 1, !.reversible = @ \cup {b}]
             z == Moved(a, b)
  <1>8. Mid(a) /\ Follows(a, Calm) /\ a.head = h /\ a.fhead = b
    <2>1. /\ Mid(a) /\ Follows(a, Calm) /\ a.head = Calm.head
          /\ a.fhead = ForkHead(Insert(Calm, b)).fhead
      BY <1>1, <1>7, AddFacts
    <2>2. ForkHead(Insert(Calm, b)).fhead = b
      BY <1>1, <1>2, <1>7, OwnIsHead
    <2> QED BY <1>1, <2>1, <2>2
  <1>9. node' = IF Threw(m) THEN m
                ELSE IF m.fhead # b THEN Throw(y, "committed_not_head")
                ELSE IF \E c \in m.reversible : Num(c) = Num(b) THEN Throw(y, "reversible_duplicate")
                ELSE e
    BY DEF Produce
  <1> HIDE DEF a
  <1>10. /\ a \in Nodes /\ a.thrown = "none" /\ b \in a.index /\ a.log \in Ancestors(h)
         /\ a.rev = Num(h) /\ a.current = (Ancestors(h) \ {Root}) \cap a.index
         /\ a.reversible = Ancestors(h) \ Ancestors(a.log)
    BY <1>8 DEF Mid, Core, Rooted, Logged, InStep
  <1>11. \A c \in Ancestors(b) : Valid(c)
    BY <1>2, <1>3, <1>5
  <1>12. Rests(z) /\ Follows(z, a) /\ z.thrown = "none"
    BY <1>8, <1>11, MovedRests
  <1> DEFINE cur == a.current \cup {b}
             left == a.reversible \cup {b}
             k == Num(h) + 1
  <1>13. m = [a EXCEPT !.current = cur] /\ m.thrown = "none" /\ m.fhead = b /\ m.reversible = a.reversible
         /\ m.rev = Num(h)
    BY <1>8, <1>10 DEF mark_in_current_chain, Nodes
  <1> HIDE DEF m
  <1>14. e = [a EXCEPT !.current = cur, !.head = b, !.rev = k, !.reversible = left]
    BY <1>10, <1>13 DEF Nodes
  <1>15. cur \in SUBSET Blocks /\ left \in SUBSET Blocks /\ k \in Int
    <2>1. Num(h) \in Nat
      BY <1>3, Numbers
    <2> QED BY <1>4, <1>10, <2>1 DEF Nodes
  <1>16. node' = e
    <2>1. \A c \in Ancestors(h) : Num(c) \in Nat /\ Num(c) <= Num(h)
      BY <1>3, Ancestry, Numbers
    <2>2. Num(b) \in Nat /\ Num(h) = Num(b) - 1
      BY <1>4, <1>5, Numbers
    <2>3. ~(\E c \in m.reversible : Num(c) = Num(b))
      BY <1>10, <1>13, <2>1, <2>2
    <2> HIDE DEF e, y
    <2> QED BY <1>9, <1>13, <2>3 DEF Threw
  <1>17. /\ z \in Nodes /\ z.index = a.index /\ z.older = a.older /\ z.fhead = a.fhead
         /\ z.current = (Ancestors(b) \ {Root}) \cap a.index /\ z.head = b /\ z.rev = Num(b)
         /\ z.tail = a.tail /\ z.log = a.log /\ z.reversible = Ancestors(b) \ Ancestors(a.log)
         /\ z.thrown = a.thrown /\ z.trial = a.trial
    BY <1>4, <1>10, MovedFields
  <1>18. cur = z.current /\ left = z.reversible /\ k = z.rev
    <2>1. Ancestors(a.log) \subseteq Ancestors(h)
      BY <1>3, <1>10, Ancestry
    <2>2. Num(b) \in Nat /\ Num(h) = Num(b) - 1
      BY <1>4, <1>5, Numbers
    <2> HIDE DEF z
    <2> QED BY <1>4, <1>5, <1>10, <1>17, <2>1, <2>2
  <1> HIDE DEF e, cur, left, k, z
  <1>19. /\ e \in Nodes /\ z \in Nodes /\ e.index = z.index /\ e.older = z.older /\ e.fhead = z.fhead
         /\ e.current = z.current /\ e.head = z.head /\ e.rev = z.rev /\ e.tail = z.tail
         /\ e.log = z.log /\ e.reversible = z.reversible /\ e.thrown = z.thrown /\ e.trial = z.trial
    BY <1>4, <1>10, <1>14, <1>15, <1>17, <1>18, ZenonT(60) DEF Nodes
  <1>20. node' = z
    BY <1>16, <1>19, SameNode
  <1>21. z.log \in Blocks
    BY <1>17 DEF Nodes
  <1>22. Follows(z, Calm)
    BY <1>8, <1>12, <1>21, FollowsOn
  <1>23. Follows(node', node)
    BY <1>1, <1>20, <1>22 DEF Follows
  <1>24. Rests(node') /\ node'.thrown \in {"none", "invalid"}
    BY <1>12, <1>20
  <1> QED BY <1>23, <1>24 DEF IInv

\* The oldest block may be logged when the node shuts down.
LEMMA ClosedFacts ==
    ASSUME IInv
    PROVE  \E l \in Ancestors(node.head) :
             /\ Closed = [Calm EXCEPT !.log = l, !.tail = Num(l),
                                      !.reversible = Ancestors(node.head) \ Ancestors(l)]
             /\ node.log \in Ancestors(l)
             /\ l = Root \/ Num(l) <= Lib(node.fhead)
             /\ l \in node.index \/ Num(l) < Lib(node.fhead)
             /\ \A b \in node.index : Num(l) <= Num(b)
             /\ \A c \in Ancestors(node.head) : Num(l) < Num(c) => c \in node.index
  <1> DEFINE h == node.head
             o == oldest(node)
  <1>1. /\ Rests(Calm) /\ Calm.log = node.log /\ Calm.index = node.index /\ Calm.head = h
        /\ node \in Nodes /\ Core(node) /\ h \in node.index
    BY CalmRests DEF Rests, Core, Rooted
  <1>2. Core(Calm) /\ Calm \in Nodes
    BY <1>1 DEF Rests, Core
  <1>3. /\ o \in node.index /\ o \in Ancestors(h) /\ \A b \in node.index : Num(o) <= Num(b)
        /\ node.log \in Ancestors(o) /\ (node.log = o \/ (o # Root /\ Front(o) = node.log))
    BY <1>1, OldestFacts
  <1>4. Closed = IF Num(o) <= Lib(node.fhead) THEN on_irreversible(Calm, o) ELSE Calm
    BY DEF Closed
  <1> HIDE DEF o
  <1>5. CASE Num(o) <= Lib(node.fhead)
    <2>1. on_irreversible(Calm, o) =
            [Calm EXCEPT !.log = o, !.tail = Num(o), !.reversible = Ancestors(Calm.head) \ Ancestors(o)]
      <3>1. /\ o \in Calm.index /\ o \in Ancestors(Calm.head) /\ Calm.log \in Ancestors(o)
            /\ Calm.log = o \/ (o # Root /\ Front(o) = Calm.log)
        BY <1>1, <1>3
      <3> QED BY <1>2, <3>1, OnIrreversible
    <2>2. Closed = [Calm EXCEPT !.log = o, !.tail = Num(o), !.reversible = Ancestors(h) \ Ancestors(o)]
      BY <1>1, <1>4, <1>5, <2>1
    <2>3. Num(node.log) \in Nat /\ Num(node.log) <= Num(o) /\ Num(o) \in Nat
      BY <1>1, <1>3, Chain
    <2>4. \A c \in Ancestors(h) : Num(o) < Num(c) => c \in node.index
      <3>1. \A c \in Ancestors(h) : Num(node.log) < Num(c) => c \in node.index
        BY <1>1 DEF Core, Logged
      <3>2. \A c \in Ancestors(h) : Num(c) \in Nat
        BY <1>1, Chain
      <3> QED BY <2>3, <3>1, <3>2
    <2> QED BY <1>3, <1>5, <2>2, <2>4
  <1>6. CASE ~(Num(o) <= Lib(node.fhead))
    <2>1. Closed = Calm
      BY <1>4, <1>6
    <2>2. Calm.tail = Num(node.log) /\ Calm.reversible = Ancestors(h) \ Ancestors(node.log)
      BY <1>1, <1>2 DEF Core, InStep
    <2>3. Calm = [Calm EXCEPT !.log = node.log, !.tail = Num(node.log),
                              !.reversible = Ancestors(h) \ Ancestors(node.log)]
      <3> DEFINE left == Ancestors(h) \ Ancestors(node.log)
                 k == Num(node.log)
      <3>1. Calm.tail = k /\ Calm.reversible = left
        BY <2>2
      <3> HIDE DEF left, k
      <3>2. Calm = [Calm EXCEPT !.log = node.log, !.tail = k, !.reversible = left]
        BY <1>1, <1>2, <3>1 DEF Nodes
      <3> QED BY <3>2 DEF left, k
    <2>4. node.log \in Ancestors(node.log)
      BY <1>1, Ancestry DEF Nodes
    <2>5. /\ node.log \in Ancestors(h)
          /\ node.log = Root \/ Num(node.log) <= Lib(node.fhead)
          /\ node.log \in node.index \/ Num(node.log) < Lib(node.fhead)
          /\ \A b \in node.index : Num(node.log) <= Num(b)
          /\ \A c \in Ancestors(h) : Num(node.log) < Num(c) => c \in node.index
      BY <1>1 DEF Core, Logged
    <2> HIDE DEF Calm
    <2> QED BY <2>1, <2>3, <2>4, <2>5
  <1> QED BY <1>5, <1>6

LEMMA RestartKeeps ==
    ASSUME IInv, Restart
    PROVE  IInv' /\ Follows(node', node)
  <1> DEFINE h == node.head
  <1>1. /\ node \in Nodes /\ Rests(node) /\ Core(node) /\ Rests(Calm) /\ Calm \in Nodes /\ node.fhead = h
        /\ h \in Blocks /\ h \in node.index /\ node.trial = "restarts"
    BY CalmRests DEF Rests, Core, Rooted, Restart, Nodes
  <1>2. PICK l \in Ancestors(h) :
             /\ Closed = [Calm EXCEPT !.log = l, !.tail = Num(l), !.reversible = Ancestors(h) \ Ancestors(l)]
             /\ node.log \in Ancestors(l)
             /\ l = Root \/ Num(l) <= Lib(node.fhead)
             /\ l \in node.index \/ Num(l) < Lib(node.fhead)
             /\ \A b \in node.index : Num(l) <= Num(b)
             /\ \A c \in Ancestors(h) : Num(l) < Num(c) => c \in node.index
    BY ClosedFacts
  <1>3. PICK order \in Orders(node.index) :
             LET n == [Closed EXCEPT !.older = order, !.head = node.fhead] IN
             node' = IF Threw(n) THEN n
                     ELSE IF ReversibleOk(n) /\ n.rev >= Num(n.head)
                     THEN [n EXCEPT !.rev = Num(n.head)]
                     ELSE Throw(n, "inconsistent")
    BY DEF Restart
  <1> DEFINE n == [Closed EXCEPT !.older = order, !.head = node.fhead]
             left == Ancestors(h) \ Ancestors(l)
             k == Num(l)
  <1>4. l \in Blocks /\ left \in SUBSET Blocks /\ k \in Int /\ Num(l) \in Nat /\ Num(h) \in Nat
    BY <1>1, Chain
  <1>5. order \subseteq Ties(node.index) /\ IsOrder(order, node.index) /\ order \in SUBSET (Blocks \X Blocks)
    BY <1>1 DEF Orders, Ties, Nodes
  <1>6. Calm = [node EXCEPT !.thrown = "none"]
    BY DEF Calm
  <1>7. node.rev = Num(h)
    BY <1>1 DEF Core, InStep
  <1>8. /\ n \in Nodes /\ n.index = node.index /\ n.older = order /\ n.fhead = h /\ n.current = node.current
        /\ n.head = h /\ n.rev = Num(h) /\ n.tail = k /\ n.log = l /\ n.reversible = left
        /\ n.thrown = "none" /\ n.trial = node.trial
    <2>1. Closed = [Calm EXCEPT !.log = l, !.tail = k, !.reversible = left]
      BY <1>2
    <2> HIDE DEF left, k
    <2>2. n = [node EXCEPT !.thrown = "none", !.log = l, !.tail = k, !.reversible = left, !.older = order, !.head = h]
      BY <1>1, <1>6, <2>1 DEF Nodes
    <2> HIDE DEF n
    <2> QED BY <1>1, <1>4, <1>5, <1>7, <2>2 DEF Nodes
  <1>9. node' = IF Threw(n) THEN n
                ELSE IF ReversibleOk(n) /\ n.rev >= Num(n.head)
                THEN [n EXCEPT !.rev = Num(n.head)]
                ELSE Throw(n, "inconsistent")
    BY <1>3
  <1> HIDE DEF n
  <1>10. ReversibleOk(n)
    <2>1. h \in Ancestors(h) /\ \A c \in Ancestors(h) : Num(c) \in Nat /\ Num(c) <= Num(h)
      BY <1>1, Chain
    <2>2. CASE h \in Ancestors(l)
      <3>1. Ancestors(h) \subseteq Ancestors(l)
        BY <1>4, <2>2, Ancestry
      <3>2. n.reversible = {}
        BY <1>8, <3>1
      <3>3. Num(l) = Num(h)
        BY <1>4, <2>1, <2>2, Ancestry
      <3> QED BY <1>8, <3>2, <3>3 DEF ReversibleOk
    <2>3. CASE h \notin Ancestors(l)
      <3> DEFINE S == {Num(c) : c \in n.reversible}
      <3>1. h \in n.reversible /\ n.reversible \subseteq Ancestors(h)
        BY <1>8, <2>1, <2>3
      <3>2. Num(h) \in S /\ \A y \in S : y \in Nat /\ Num(h) >= y
        BY <2>1, <3>1
      <3> HIDE DEF S
      <3>3. Max(S) \in S /\ \A y \in S : Max(S) >= y
        BY <3>2 DEF Max
      <3>4. Max(S) = Num(h)
        BY <3>2, <3>3
      <3>5. n.reversible # {}
        BY <3>1
      <3> QED BY <1>8, <3>4, <3>5 DEF ReversibleOk, S
    <2> QED BY <2>2, <2>3
  <1>11. node' = n
    <2>1. ~Threw(n) /\ n.rev >= Num(n.head)
      BY <1>4, <1>8 DEF Threw
    <2>2. [n EXCEPT !.rev = Num(n.head)] = n
      BY <1>8 DEF Nodes
    <2> QED BY <1>9, <1>10, <2>1, <2>2
  <1>12. Rooted(n)
    BY <1>1, <1>8 DEF Core, Rooted
  <1>13. Ordered(n)
    <2>1. n.index \subseteq Blocks /\ n.older \subseteq Blocks \X Blocks
      BY <1>8 DEF Nodes
    <2> QED BY <1>5, <1>8, <2>1, OrderedIs
  <1>14. Agreed(n) /\ Applies(n)
    BY <1>1, <1>8 DEF Core, Agreed, Applies
  <1>15. Logged(n)
    BY <1>1, <1>2, <1>8 DEF Logged
  <1>16. InStep(n)
    BY <1>1, <1>8 DEF Core, InStep
  <1>17. OnlyBefore(n, h)
    BY <1>1, <1>8 DEF Rests, OnlyBefore
  <1>18. Rests(n) /\ n.thrown \in {"none", "invalid"}
    BY <1>8, <1>12, <1>13, <1>14, <1>15, <1>16, <1>17 DEF Rests, Core
  <1>19. Follows(n, node)
    BY <1>2, <1>8 DEF Follows
  <1> QED BY <1>11, <1>18, <1>19 DEF IInv

LEMMA StartsWell == InitNode => IInv
  <1> SUFFICES ASSUME NEW t \in Trials, node = Started(Root, t) PROVE IInv
    BY DEF InitNode
  <1>1. Root \in Blocks /\ Num(Root) = RootNum /\ Lib(Root) = RootLib /\ Valid(Root)
    <2>1. Root \in Blocks
      BY DEF Root, Blocks
    <2> QED BY <2>1, Numbers DEF Lib, Valid
  <1>2. Ancestors(Root) = {Root}
    <2>1. \A c \in Ancestors(Root) : c \in Blocks /\ Num(c) \in Nat /\ Num(c) <= RootNum /\ RootNum <= Num(c)
      BY <1>1, Ancestry, Numbers
    <2>2. \A c \in Ancestors(Root) : c = Root
      BY <2>1, Numbers, RootAssumption
    <2> QED BY <1>1, <2>2, Ancestry
  <1>3. /\ node.index = {Root} /\ node.older = {} /\ node.fhead = Root /\ node.current = {} /\ node.head = Root
        /\ node.rev = RootNum /\ node.tail = RootNum /\ node.log = Root /\ node.reversible = {}
        /\ node.thrown = "none" /\ node.trial = t
    BY <1>1, <1>2 DEF Started
  <1>4. node \in Nodes
    <2>1. node = [index |-> {Root}, older |-> {}, fhead |-> Root, current |-> {}, head |-> Root,
                  rev |-> RootNum, tail |-> RootNum, log |-> Root, reversible |-> {},
                  thrown |-> "none", trial |-> t]
      BY <1>1, <1>2 DEF Started
    <2> QED BY <1>1, <2>1, RootAssumption DEF Nodes
  <1>5. Rooted(node)
    <2>1. IsFiniteSet({Root})
      BY FS_Singleton
    <2>2. WellMade(Root)
      BY <1>1, <1>2, RootAssumption DEF WellMade
    <2> QED BY <1>2, <1>3, <2>1, <2>2 DEF Rooted
  <1>6. Ordered(node)
    BY <1>3 DEF Ordered, Tied
  <1>7. Agreed(node) /\ Applies(node)
    BY <1>1, <1>2, <1>3 DEF Agreed, Applies
  <1>8. Logged(node)
    BY <1>1, <1>2, <1>3, RootAssumption DEF Logged
  <1>9. InStep(node)
    BY <1>1, <1>2, <1>3 DEF InStep
  <1>10. OnlyBefore(node, node.head)
    BY <1>3 DEF OnlyBefore
  <1> QED BY <1>3, <1>4, <1>5, <1>6, <1>7, <1>8, <1>9, <1>10 DEF IInv, Rests, Core

-----------------------------------------------------------------------------
\* The theorems.  Without LateFinality, a block that a rival branch makes irreversible is on
\* the node's own chain; DposForks shows what a node does otherwise.

LEMMA NextKeeps ==
    ASSUME ~LateFinality, IInv, Next
    PROVE  IInv' /\ Follows(node', node)
  <1>1. ASSUME NEW p \in node.index, NEW b \in NextBlock(p), PushBlock(b)
        PROVE  IInv' /\ Follows(node', node)
    BY <1>1, PushBlockKeeps
  <1>2. ASSUME NEW b \in NextBlock(node.head), Produce(b)
        PROVE  IInv' /\ Follows(node', node)
    BY <1>2, ProduceKeeps
  <1>3. ASSUME Restart PROVE IInv' /\ Follows(node', node)
    BY <1>3, RestartKeeps
  <1> QED BY <1>1, <1>2, <1>3 DEF Next

LEMMA IInvStutters ==
    ASSUME IInv, UNCHANGED node
    PROVE  IInv'
  BY DEF IInv

\* The inductive invariant: after every handler the blocks of the fork database hang
\* together, what they finalise is on the chain of the head, and the block log, the flags of
\* the current chain, the reversible blocks and the revisions of the state follow that chain.
THEOREM ForkInvariant ==
    ASSUME ~LateFinality
    PROVE  Spec => []IInv
  <1>1. ASSUME IInv, [Next]_node PROVE IInv'
    <2>1. CASE Next
      BY <1>1, <2>1, NextKeeps
    <2>2. CASE UNCHANGED node
      BY <1>1, <2>2, IInvStutters
    <2> QED BY <1>1, <2>1, <2>2
  <1> QED BY StartsWell, <1>1, PTL DEF Spec

\* The fork database has no block better than the head of the controller: maybe_switch_forks
\* carries every switch out, or removes the bad block that stopped it and goes back.
THEOREM BestHead ==
    ASSUME ~LateFinality
    PROVE  Spec => []HeadIsBest
  <1>1. ASSUME IInv PROVE HeadIsBest
    <2>1. /\ node.head \in node.index /\ node.fhead = node.head /\ node.head \in Blocks
          /\ OnlyBefore(node, node.head)
      BY <1>1 DEF IInv, Rests, Core, Rooted, Nodes
    <2>2. ~Better(node.head, node.head)
      BY <2>1, Numbers DEF Better
    <2> QED BY <2>1, <2>2 DEF HeadIsBest, Has, OnlyBefore
  <1> QED BY ForkInvariant, <1>1, PTL

\* mark_in_current_chain has marked exactly the chain of the head, after a switch, a switch
\* back and a restart too.
THEOREM CurrentMarksHeadChain ==
    ASSUME ~LateFinality
    PROVE  Spec => []CurrentIsHeadChain
  <1>1. ASSUME IInv PROVE CurrentIsHeadChain
    BY <1>1 DEF IInv, Rests, Core, InStep, CurrentIsHeadChain
  <1> QED BY ForkInvariant, <1>1, PTL

\* The revision and the oldest undo session of the state database, and the reversible blocks,
\* agree with the head and the block log whenever a handler is done.
THEOREM StateFollows ==
    ASSUME ~LateFinality
    PROVE  Spec => []StateInSync
  <1>1. ASSUME IInv PROVE StateInSync
    BY <1>1 DEF IInv, Rests, Core, InStep, StateInSync
  <1> QED BY ForkInvariant, <1>1, PTL

\* The assertions of pop_block, on_irreversible, commit_block, init and fetch_branch_from do
\* not fail: push_block throws for a bad block only.
THEOREM OthersNeverThrow ==
    ASSUME ~LateFinality
    PROVE  Spec => []OnlyBadBlocksThrow
  <1>1. ASSUME IInv PROVE OnlyBadBlocksThrow
    BY <1>1 DEF IInv, OnlyBadBlocksThrow
  <1> QED BY ForkInvariant, <1>1, PTL

\* add, prune and remove leave an index in which every block but the lowest ones has its
\* previous block, and by_lib_block_num is an order.
THEOREM IndexStaysConnected ==
    ASSUME ~LateFinality
    PROVE  Spec => []IndexConnected
  <1>1. ASSUME IInv PROVE IndexConnected
    <2>1. /\ node.index \subseteq Blocks /\ node.older \subseteq Blocks \X Blocks
          /\ Ordered(node) /\ Rooted(node)
      BY <1>1 DEF IInv, Rests, Core, Nodes
    <2>2. node.older \subseteq Ties(node.index) /\ IsOrder(node.older, node.index)
      BY <2>1, OrderedIs
    <2>3. ASSUME NEW b \in node.index, NEW d \in node.index, Num(d) < Num(b)
          PROVE  b # Root /\ Front(b) \in node.index
      <3>1. b \in Blocks /\ d \in Blocks
        BY <2>1
      <3>2. Num(b) \in Nat /\ Num(d) \in Nat /\ RootNum <= Num(d) /\ (Num(b) = RootNum <=> b = Root)
        BY <3>1, Numbers
      <3>3. b # Root
        BY <2>3, <3>2, RootAssumption
      <3>4. Front(b) \in Ancestors(b) /\ Num(Front(b)) = Num(b) - 1
        BY <3>1, <3>3, Parent
      <3>5. Num(d) <= Num(Front(b))
        BY <2>3, <3>2, <3>4
      <3> QED BY <2>1, <3>3, <3>4, <3>5 DEF Rooted
    <2>4. \A b, c \in node.index : Num(b) <= Num(c) \/ Num(c) < Num(b)
      <3>1. \A b \in node.index : Num(b) \in Nat
        BY <2>1, Numbers
      <3> QED BY <3>1
    <2> QED BY <2>2, <2>3, <2>4 DEF IndexConnected, Has
  <1> QED BY ForkInvariant, <1>1, PTL

\* What on_irreversible has written to the block log is under the head after every later
\* step: no switch pops it and no rival of it becomes irreversible.
THEOREM LogIsFinal ==
    ASSUME ~LateFinality
    PROVE  Spec => FinalForever
  <1>1. ASSUME IInv PROVE node.log \in Blocks /\ node.head \in Blocks /\ node.log \in Ancestors(node.head)
    BY <1>1 DEF IInv, Rests, Core, Nodes, Logged
  <1>2. ASSUME IInv, IInv', [Next]_node PROVE [IsPrefix(node.log, node'.head)]_node
    <2>1. CASE Next
      <3>1. node.log \in Ancestors(node'.log)
        BY <1>2, <2>1, NextKeeps DEF Follows
      <3>2. node'.log \in Blocks /\ node'.head \in Blocks /\ node'.log \in Ancestors(node'.head)
        BY <1>2 DEF IInv, Rests, Core, Nodes, Logged
      <3>3. node.log \in Blocks
        BY <1>1, <1>2
      <3>4. node.log \in Ancestors(node'.head)
        BY <3>1, <3>2, Ancestry
      <3> QED BY <3>2, <3>3, <3>4, Prefix
    <2> QED BY <1>2, <2>1
  <1> QED BY ForkInvariant, <1>2, PTL DEF Spec, FinalForever
=============================================================================
