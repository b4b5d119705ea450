-------------------------- MODULE SaveMemoryProofs --------------------------
(***************************************************************************)
(* Save memory: the file system of the NVM BIOS (NvmBios), the save buffer *)
(* with the memories behind it (SaveRam) and the serial interface of the   *)
(* cartridge EEPROM (Eeprom), three components without shared state.       *)
(*                                                                         *)
(* The NVM BIOS keeps its file system sound, its handles on their files,   *)
(* its writes inside them and its searches complete, for every number of   *)
(* blocks, directory slots, handles, applications and names.               *)
(* The save buffer agrees with the machine outside frames, a save file     *)
(* reaches the machine and a title finds nothing of the one before, for    *)
(* every size of the memories and every number of titles and sessions, but *)
(* for a CD title that is mistaken for the Memory Track cartridge.         *)
(* The state machine of eeprom.c implements the chip (EepromChip), for     *)
(* every width of address and data that its fields can hold.               *)
(*                                                                         *)
(* In NvmBios a chain is described by the blocks at its positions (Walk).  *)
(* The invariant says of every entry that the positions 0 .. num - 1 hold  *)
(* different data blocks and the next one FAT_END, that no two entries     *)
(* share a block, and that the allocated blocks are the ones in chains;    *)
(* everything else is a consequence.  In SaveRam the invariant is about    *)
(* when: what waits to be unpacked, what is marked dirty, and what agrees. *)
(* In Eeprom it is about how much: a field that has counted k bits holds a *)
(* number below 2^k, so that the next bit loses none, and the frame the    *)
(* fields stand for determines the command; a number of n bits is          *)
(* determined by them, which is shown by a least length that fails.        *)
(***************************************************************************)
EXTENDS NvmBios, SaveRam, Eeprom, FiniteSetTheorems, SequenceTheorems,
        WellFoundedInduction, TLAPS

-----------------------------------------------------------------------------
(* Sets of naturals, and the place of a member among them.                 *)

\* Least returns the least member.
LEMMA LeastIs ==
    ASSUME NEW S \in SUBSET Nat, S # {}
    PROVE  Least(S) \in S /\ \A j \in S : Least(S) <= j
<1>1. \E i \in S : \A j \in S : ~(<<j, i>> \in OpToRel(<, Nat))
  BY NatLessThanWellFounded, WFMin, Zenon
<1>2. \E i \in S : \A j \in S : ~(j < i)
  BY <1>1, Zenon DEF OpToRel
<1>3. \E i \in S : \A j \in S : i <= j
  BY <1>2
<1> QED
  BY <1>3 DEF Least

\* How many members of S are below b.
Rank(S, b) == Cardinality({c \in S : c < b})

\* A rank is a natural smaller than the number of members, and grows with them.
LEMMA RankGrows ==
    ASSUME NEW S \in SUBSET Nat, IsFiniteSet(S), NEW b \in S
    PROVE  /\ Rank(S, b) \in Nat /\ Rank(S, b) < Cardinality(S) /\ Cardinality(S) \in Nat
           /\ \A a \in S : a < b => Rank(S, a) < Rank(S, b)
<1>0. \A c \in S : c \in Nat
  OBVIOUS
<1>1. ASSUME NEW a \in S
      PROVE  /\ IsFiniteSet({c \in S : c < a}) /\ Rank(S, a) \in Nat
             /\ IsFiniteSet({c \in S : c < a} \cup {a})
             /\ Cardinality({c \in S : c < a} \cup {a}) = Rank(S, a) + 1
  <2> DEFINE B == {c \in S : c < a}
  <2>1. IsFiniteSet(B) /\ Cardinality(B) \in Nat /\ a \notin B
    BY FS_Subset, FS_CardinalityType
  <2> HIDE DEF B
  <2>2. IsFiniteSet(B \cup {a}) /\ Cardinality(B \cup {a}) = Cardinality(B) + 1
    BY <2>1, FS_AddElement
  <2> QED
    BY <2>1, <2>2 DEF Rank, B
<1>2. Cardinality({c \in S : c < b} \cup {b}) <= Cardinality(S) /\ Cardinality(S) \in Nat
  BY FS_Subset, FS_CardinalityType
<1>3. ASSUME NEW a \in S, a < b PROVE Rank(S, a) + 1 <= Rank(S, b)
  <2>1. {c \in S : c < a} \cup {a} \in SUBSET {c \in S : c < b}
    <3>1. \A c \in S : c < a => c < b
      BY <1>0, <1>3
    <3>2. {c \in S : c < a} \cup {a} \subseteq {c \in S : c < b}
      BY <1>3, <3>1
    <3> QED
      BY <3>2
  <2>2. Cardinality({c \in S : c < a} \cup {a}) <= Cardinality({c \in S : c < b})
    BY <1>1, <2>1, FS_Subset
  <2> QED
    BY <1>1, <2>2 DEF Rank
<1>4. \A a \in S : Rank(S, a) \in Nat
  BY <1>1
<1>5. Rank(S, b) + 1 <= Cardinality(S)
  BY <1>1, <1>2
<1> QED
  BY <1>2, <1>3, <1>4, <1>5

\* The next member above b has the next rank; the last one has the last.
LEMMA RankNext ==
    ASSUME NEW S \in SUBSET Nat, IsFiniteSet(S), NEW b \in S
    PROVE  LET above == {c \in S : c > b}
           IN  /\ above # {} => Least(above) \in S /\ Rank(S, Least(above)) = Rank(S, b) + 1
               /\ above = {} => Cardinality(S) = Rank(S, b) + 1
<1> DEFINE above == {c \in S : c > b}
           B == {c \in S : c < b}
<1>0. \A c \in S : c \in Nat
  OBVIOUS
<1>1. IsFiniteSet(B) /\ b \notin B /\ Cardinality(B) \in Nat
  BY FS_Subset, FS_CardinalityType
<1>2. Cardinality(B \cup {b}) = Rank(S, b) + 1
  <2> HIDE DEF B
  <2>1. Cardinality(B \cup {b}) = Cardinality(B) + 1
    BY <1>1, FS_AddElement
  <2> QED
    BY <2>1 DEF B, Rank
<1>3. ASSUME above # {} PROVE Least(above) \in S /\ {c \in S : c < Least(above)} = B \cup {b}
  <2>1. Least(above) \in above /\ \A c \in above : Least(above) <= c
    BY <1>3, LeastIs
  <2> DEFINE m == Least(above)
  <2>2. m \in S /\ m > b /\ \A c \in S : c > b => m <= c
    BY <2>1
  <2> HIDE DEF m
  <2>3. {c \in S : c < m} = B \cup {b}
    <3>1. \A c \in S : c < m <=> (c < b \/ c = b)
      BY <1>0, <2>2
    <3> QED
      BY <3>1
  <2> QED
    BY <2>2, <2>3 DEF m
<1>4. ASSUME above = {} PROVE S = B \cup {b}
  <2>1. \A c \in S : c < b \/ c = b
    BY <1>0, <1>4
  <2> QED
    BY <2>1
<1> QED
  BY <1>2, <1>3, <1>4 DEF Rank

\* alloc_blocks finds as many free blocks as it looks for when there are enough.
LEMMA LowestMany ==
    ASSUME NEW S \in SUBSET Nat, IsFiniteSet(S), NEW n \in Nat, n <= Cardinality(S)
    PROVE  Lowest(S, n) \in SUBSET S /\ IsFiniteSet(Lowest(S, n)) /\ Cardinality(Lowest(S, n)) = n
<1> DEFINE Right(k) == Cardinality(Lowest(S, k)) = k
           Bad == {k \in 0 .. Cardinality(S) : ~Right(k)}
<1>0. /\ Cardinality(S) \in Nat
      /\ \A k : Lowest(S, k) \in SUBSET S /\ IsFiniteSet(Lowest(S, k))
      /\ \A b \in S : Rank(S, b) \in Nat
      /\ \A b \in S : b \in Nat
  BY FS_CardinalityType, FS_Subset, RankGrows DEF Lowest
<1>1. Right(0)
  <2>1. Lowest(S, 0) = {}
    <3>1. \A b \in S : ~(Rank(S, b) < 0)
      BY <1>0
    <3> QED
      BY <3>1 DEF Lowest, Rank
  <2> QED
    BY <2>1, FS_EmptySet
<1>2. ASSUME NEW k \in Nat, k < Cardinality(S), Right(k) PROVE Right(k + 1)
  <2> DEFINE low == Lowest(S, k)
             b == Least(S \ low)
  <2>1. S \ low # {}
    BY <1>0, <1>2
  <2>2. b \in S /\ b \notin low /\ \A c \in S \ low : b <= c
    BY <2>1, LeastIs
  <2> HIDE DEF b
  <2>3. \A c \in S : c \in low <=> Rank(S, c) < k
    BY DEF Lowest, Rank
  <2>4. {c \in S : c < b} = low
    <3>1. ASSUME NEW c \in S, c < b PROVE c \in low
      BY <2>2, <3>1
    <3>2. ASSUME NEW c \in low PROVE c \in S /\ c < b
      <4>1. c \in S /\ Rank(S, c) < k /\ ~(Rank(S, b) < k)
        BY <1>0, <2>2, <2>3
      <4>2. ~(b < c)
        BY <1>0, <2>2, <4>1, RankGrows
      <4> QED
        BY <2>2, <4>1, <4>2
    <3> QED
      BY <1>0, <3>1, <3>2
  <2>5. Rank(S, b) = k
    BY <1>2, <2>4 DEF Rank
  <2>6. Lowest(S, k + 1) = low \cup {b}
    <3>1. \A c \in S : c \in Lowest(S, k + 1) <=> Rank(S, c) < k + 1
      BY DEF Lowest, Rank
    <3>2. ASSUME NEW c \in S, Rank(S, c) < k + 1, c \notin low PROVE c = b
      <4>1. ~(b < c)
        BY <1>0, <2>2, <2>5, <3>2, RankGrows
      <4>2. b <= c
        BY <2>2, <3>2
      <4> QED
        BY <2>2, <4>1, <4>2
    <3>3. ASSUME NEW c \in low PROVE c \in S /\ Rank(S, c) < k + 1
      <4>1. c \in S /\ Rank(S, c) < k
        BY <1>0, <2>3
      <4> QED
        BY <1>0, <4>1
    <3>4. b \in S /\ Rank(S, b) < k + 1
      BY <2>2, <2>5
    <3>5. Lowest(S, k + 1) \subseteq S
      BY <1>0
    <3> QED
      BY <3>1, <3>2, <3>3, <3>4, <3>5
  <2> HIDE DEF low
  <2>7. Cardinality(low \cup {b}) = k + 1
    <3>1. IsFiniteSet(low) /\ Cardinality(low) = k
      BY <1>0, <1>2 DEF low
    <3> QED
      BY <2>2, <3>1, FS_AddElement
  <2> QED
    BY <2>6, <2>7
<1> HIDE DEF Right
<1>3. Bad = {}
  <2>1. SUFFICES ASSUME Bad # {} PROVE FALSE
    OBVIOUS
  <2>2. Least(Bad) \in Bad /\ \A k \in Bad : Least(Bad) <= k
    BY <1>0, <2>1, LeastIs
  <2>3. PICK k \in Bad : \A j \in Bad : k <= j
    BY <2>2
  <2>4. k # 0 /\ k - 1 \in Nat /\ k - 1 < Cardinality(S) /\ k - 1 \notin Bad
    BY <1>0, <1>1, <2>3
  <2>5. Right(k - 1 + 1)
    BY <1>0, <1>2, <2>4
  <2> QED
    BY <2>3, <2>5
<1>4. Right(n)
  BY <1>0, <1>3
<1> QED
  BY <1>0, <1>4 DEF Right

-----------------------------------------------------------------------------
(* Walking a chain. *)

LastHop == TotalBlocks + MaxSize

\* The data blocks are finitely many naturals, as many as NVM_DATABLOCKS.
LEMMA BlockCount ==
    /\ IsFiniteSet(DataBlocks) /\ DataBlocks \in SUBSET Nat
    /\ Cardinality(DataBlocks) = TotalBlocks - 3 /\ Cardinality(DataBlocks) \in Nat
    /\ LastHop \in Nat /\ Cardinality(DataBlocks) < LastHop
    /\ \A b \in DataBlocks : b > FAT_EMPTYFILE
<1>1. TotalBlocks \in Nat /\ TotalBlocks > 3 /\ MaxSize \in Nat
  BY GeometryAssumption
<1>2. IsFiniteSet(3 .. TotalBlocks - 1) /\ Cardinality(3 .. TotalBlocks - 1) = TotalBlocks - 3
  BY <1>1, FS_Interval
<1> QED
  BY <1>1, <1>2 DEF DataBlocks, LastHop, FAT_EMPTYFILE

\* The block after b in a chain.
After1(f, b) == IF b < FAT_EMPTYFILE THEN FAT_FREE ELSE Link(f, b)

\* g is the function Walk defines, for the first N blocks.
Hops(g, f, start, N) == g = [k \in 0 .. N |-> IF k = 0 THEN start ELSE After1(f, g[k - 1])]

LEMMA HopsExist ==
    ASSUME NEW f, NEW start, NEW N \in Nat
    PROVE  \E g : Hops(g, f, start, N)
<1> DEFINE Has(n) == \E g : Hops(g, f, start, n)
           Bad == {n \in Nat : ~Has(n)}
<1>1. Has(0)
  <2> DEFINE g == [k \in 0 .. 0 |-> start]
  <2>1. g = [k \in 0 .. 0 |-> IF k = 0 THEN start ELSE After1(f, g[k - 1])]
    OBVIOUS
  <2> QED
    BY <2>1 DEF Hops
<1>2. ASSUME NEW n \in Nat, Has(n) PROVE Has(n + 1)
  <2>1. PICK g : g = [k \in 0 .. n |-> IF k = 0 THEN start ELSE After1(f, g[k - 1])]
    BY <1>2 DEF Hops
  <2> DEFINE h == [k \in 0 .. n + 1 |-> IF k <= n THEN g[k] ELSE After1(f, g[n])]
  <2>2. ASSUME NEW k \in 0 .. n + 1 PROVE h[k] = IF k = 0 THEN start ELSE After1(f, h[k - 1])
    <3>1. CASE k \in 0 .. n
      <4>1. h[k] = g[k] /\ (k # 0 => h[k - 1] = g[k - 1])
        BY <3>1
      <4>2. g[k] = IF k = 0 THEN start ELSE After1(f, g[k - 1])
        BY <2>1, <3>1
      <4> QED
        BY <4>1, <4>2
    <3>2. CASE k = n + 1
      BY <3>2
    <3> QED
      BY <3>1, <3>2
  <2>3. h = [k \in 0 .. n + 1 |-> h[k]]
    OBVIOUS
  <2> HIDE DEF h
  <2>4. h = [k \in 0 .. n + 1 |-> IF k = 0 THEN start ELSE After1(f, h[k - 1])]
    BY <2>2, <2>3
  <2> QED
    BY <2>4 DEF Hops
<1> HIDE DEF Has
<1>3. Bad = {}
  <2>1. SUFFICES ASSUME Bad # {} PROVE FALSE
    OBVIOUS
  <2>2. PICK n \in Bad : \A k \in Bad : n <= k
    BY <2>1, LeastIs
  <2>3. n # 0 /\ n - 1 \in Nat /\ n - 1 \notin Bad
    BY <1>1, <2>2
  <2>4. Has(n - 1 + 1)
    BY <1>2, <2>3
  <2> QED
    BY <2>2, <2>4
<1> QED
  BY <1>3 DEF Has

\* Walk starts at the start and follows the links, for as far as it is defined.
LEMMA WalkIs ==
    ASSUME NEW f, NEW start
    PROVE  /\ Walk(f, start)[0] = start
           /\ \A k \in 1 .. LastHop : Walk(f, start)[k] = After1(f, Walk(f, start)[k - 1])
<1> DEFINE w == CHOOSE g : g = [k \in 0 .. LastHop |-> IF k = 0 THEN start ELSE After1(f, g[k - 1])]
<1>1. Walk(f, start) = w
  BY DEF Walk, LastHop, After1
<1>2. w = [k \in 0 .. LastHop |-> IF k = 0 THEN start ELSE After1(f, w[k - 1])]
  <2>1. \E g : Hops(g, f, start, LastHop)
    BY BlockCount, HopsExist
  <2> QED
    BY <2>1, Zenon DEF Hops
<1> HIDE DEF w
<1>3. \A k \in 0 .. LastHop : w[k] = IF k = 0 THEN start ELSE After1(f, w[k - 1])
  BY <1>2
<1> QED
  BY <1>1, <1>3, BlockCount

\* Two FATs that agree on the blocks of a chain have that chain in common.
LEMMA SameWalk ==
    ASSUME NEW f, NEW g, NEW start, NEW n \in 0 .. LastHop,
           \A k \in 0 .. n - 1 : After1(f, Walk(f, start)[k]) = After1(g, Walk(f, start)[k])
    PROVE  \A k \in 0 .. n : Walk(g, start)[k] = Walk(f, start)[k]
<1> DEFINE Bad == {k \in 0 .. n : Walk(g, start)[k] # Walk(f, start)[k]}
<1>1. SUFFICES ASSUME Bad # {} PROVE FALSE
  OBVIOUS
<1>2. LastHop \in Nat /\ n \in Nat
  BY BlockCount
<1>3. PICK k \in Bad : \A j \in Bad : k <= j
  <2>1. Bad \in SUBSET Nat
    BY <1>2
  <2> QED
    BY <1>1, <2>1, LeastIs
<1>4. k # 0
  BY <1>3, WalkIs
<1>5. k \in 1 .. LastHop /\ k - 1 \in 0 .. n - 1 /\ k - 1 \notin Bad
  BY <1>2, <1>3, <1>4
<1>6. Walk(g, start)[k - 1] = Walk(f, start)[k - 1]
  BY <1>2, <1>5
<1>7. Walk(g, start)[k] = After1(g, Walk(g, start)[k - 1]) /\ Walk(f, start)[k] = After1(f, Walk(f, start)[k - 1])
  BY <1>5, WalkIs
<1> QED
  BY <1>3, <1>5, <1>6, <1>7

\* The blocks of a chain of n blocks.
Blocks(f, start, n) == {Walk(f, start)[k] : k \in 0 .. n - 1}

\* The chain from start has n blocks, all different, and ends there; an empty file
\* has none.
Path(f, start, n) ==
    /\ \A k \in 0 .. n - 1 : Walk(f, start)[k] \in DataBlocks
    /\ \A j, k \in 0 .. n - 1 : Walk(f, start)[j] = Walk(f, start)[k] => j = k
    /\ IF n = 0 THEN start = FAT_EMPTYFILE ELSE Walk(f, start)[n] = FAT_END

LEMMA BlocksMany ==
    ASSUME NEW f, NEW start, NEW n \in Nat, Path(f, start, n)
    PROVE  /\ Blocks(f, start, n) \in SUBSET DataBlocks
           /\ IsFiniteSet(Blocks(f, start, n))
           /\ Cardinality(Blocks(f, start, n)) = n
<1> DEFINE g == [k \in 0 .. n - 1 |-> Walk(f, start)[k]]
           B == Blocks(f, start, n)
<1>1. g \in Bijection(0 .. n - 1, B)
  BY DEF Bijection, Injection, Surjection, IsInjective, Blocks, Path
<1>2. IsFiniteSet(0 .. n - 1) /\ Cardinality(0 .. n - 1) = n
  BY FS_Interval
<1>3. IsFiniteSet(B) /\ Cardinality(B) = Cardinality(0 .. n - 1)
  <2>1. ExistsBijection(0 .. n - 1, B)
    BY <1>1 DEF ExistsBijection
  <2> HIDE DEF B
  <2> QED
    BY <1>2, <2>1, FS_Bijection
<1>4. B \in SUBSET DataBlocks
  BY DEF Path, Blocks
<1> QED
  BY <1>2, <1>3, <1>4

\* free_blocks frees exactly that chain, if the used count does not stop it before.
LEMMA ChainIs ==
    ASSUME NEW f, NEW start, NEW n \in Nat, Path(f, start, n), NEW u \in 0 .. Cardinality(DataBlocks), n <= u
    PROVE  Chain(f, u, start) = Blocks(f, start, n)
<1> DEFINE w == Walk(f, start)
           K == {k \in 0 .. u - 1 : \A j \in 0 .. k : w[j] > FAT_EMPTYFILE}
<1>1. \A k \in 0 .. n - 1 : w[k] > FAT_EMPTYFILE
  BY BlockCount DEF Path
<1>2. ~(w[n] > FAT_EMPTYFILE)
  BY WalkIs DEF Path, FAT_END, FAT_EMPTYFILE
<1>3. u \in Nat
  BY BlockCount
<1>4. K = 0 .. n - 1
  <2>1. ASSUME NEW k \in K PROVE k \in 0 .. n - 1
    <3>1. k \in Nat /\ \A j \in 0 .. k : w[j] > FAT_EMPTYFILE
      BY <1>3
    <3>2. ~(n \in 0 .. k)
      BY <1>2, <3>1
    <3> QED
      BY <3>1, <3>2
  <2>2. ASSUME NEW k \in 0 .. n - 1 PROVE k \in K
    BY <1>1, <1>3
  <2> QED
    BY <2>1, <2>2
<1>5. Chain(f, u, start) = {w[k] : k \in K}
  BY DEF Chain
<1> QED
  BY <1>4, <1>5 DEF Blocks

\* A FAT that agrees with f on a chain of f has the same chain.
LEMMA SamePath ==
    ASSUME NEW f, NEW g, NEW start, NEW n \in 0 .. Cardinality(DataBlocks), Path(f, start, n),
           \A b \in Blocks(f, start, n) : g[b] = f[b]
    PROVE  Path(g, start, n) /\ Blocks(g, start, n) = Blocks(f, start, n)
<1>1. n \in Nat /\ n \in 0 .. LastHop
  BY BlockCount
<1>2. \A k \in 0 .. n - 1 : After1(f, Walk(f, start)[k]) = After1(g, Walk(f, start)[k])
  <2> TAKE k \in 0 .. n - 1
  <2>1. Walk(f, start)[k] \in Blocks(f, start, n)
    BY DEF Blocks
  <2> QED
    BY <2>1 DEF After1, Link
<1>3. \A k \in 0 .. n : Walk(g, start)[k] = Walk(f, start)[k]
  BY <1>1, <1>2, SameWalk
<1>4. /\ \A k \in 0 .. n - 1 : Walk(g, start)[k] = Walk(f, start)[k]
      /\ Walk(g, start)[n] = Walk(f, start)[n]
  BY <1>1, <1>3
<1>5. Path(g, start, n)
  BY <1>4 DEF Path
<1>6. Blocks(g, start, n) = Blocks(f, start, n)
  BY <1>4 DEF Blocks
<1> QED
  BY <1>5, <1>6

-----------------------------------------------------------------------------
(* A sound file system, and the calls that change it. *)

Busy(d) == {s \in Slots : d[s].start # 0}

Taken(f) == {b \in DataBlocks : f[b] # FAT_FREE}

BlocksOf(f, e) == Blocks(f, e.start, e.num)

FatValues == {FAT_FREE, FAT_END} \cup DataBlocks

\* Every file's chain is a path of its length over blocks of its own, every
\* allocated block is in one, and used counts them.
Sound(f, u, d) ==
    /\ f \in [DataBlocks -> FatValues] /\ d \in [Slots -> Entries]
    /\ \A s \in Busy(d) : /\ Path(f, d[s].start, d[s].num)
                          /\ BlocksOf(f, d[s]) \subseteq Taken(f)
                          /\ d[s].file \in Files
    /\ \A s, t \in Busy(d) : s # t => /\ BlocksOf(f, d[s]) \cap BlocksOf(f, d[t]) = {}
                                     /\ d[s].file # d[t].file
    /\ \A b \in Taken(f) : \E s \in Busy(d) : b \in BlocksOf(f, d[s])
    /\ u = Cardinality(Taken(f))

\* The allocated blocks are finitely many, and no file has more than all of them.
LEMMA TakenMany ==
    ASSUME NEW f, NEW u, NEW d, Sound(f, u, d)
    PROVE  /\ IsFiniteSet(Taken(f)) /\ Taken(f) \in SUBSET DataBlocks
           /\ u \in 0 .. Cardinality(DataBlocks)
           /\ \A s \in Busy(d) : /\ d[s].num \in 0 .. Cardinality(DataBlocks) /\ d[s].num <= u
                                 /\ d[s].start \in {FAT_EMPTYFILE} \cup DataBlocks
                                 /\ IsFiniteSet(BlocksOf(f, d[s]))
                                 /\ Cardinality(BlocksOf(f, d[s])) = d[s].num
<1>1. /\ IsFiniteSet(Taken(f)) /\ Taken(f) \in SUBSET DataBlocks
      /\ Cardinality(Taken(f)) <= Cardinality(DataBlocks) /\ Cardinality(Taken(f)) \in Nat
  <2>1. Taken(f) \in SUBSET DataBlocks
    BY DEF Taken
  <2> QED
    BY <2>1, BlockCount, FS_Subset, FS_CardinalityType
<1>2. u = Cardinality(Taken(f))
  BY DEF Sound
<1>3. ASSUME NEW s \in Busy(d)
      PROVE  /\ d[s].num \in 0 .. Cardinality(DataBlocks) /\ d[s].num <= u
             /\ d[s].start \in {FAT_EMPTYFILE} \cup DataBlocks
             /\ IsFiniteSet(BlocksOf(f, d[s]))
             /\ Cardinality(BlocksOf(f, d[s])) = d[s].num
  <2>1. d[s] \in Entries /\ d[s].start # 0
    BY <1>3 DEF Sound, Busy
  <2>2. /\ d[s].num \in 0 .. Cardinality(DataBlocks) /\ d[s].num \in Nat
        /\ d[s].start \in {FAT_EMPTYFILE} \cup DataBlocks
    BY <2>1, BlockCount DEF Entries
  <2>3. IsFiniteSet(BlocksOf(f, d[s])) /\ Cardinality(BlocksOf(f, d[s])) = d[s].num
    BY <1>3, <2>2, BlocksMany DEF Sound, BlocksOf
  <2>4. Cardinality(BlocksOf(f, d[s])) <= Cardinality(Taken(f))
    BY <1>1, <1>3, FS_Subset DEF Sound
  <2> QED
    BY <1>2, <2>2, <2>3, <2>4
<1> QED
  BY <1>1, <1>2, <1>3, BlockCount

\* delete_file leaves the file system sound and the name without an entry.
LEMMA DeletedSound ==
    ASSUME Sound(fat, used, dir), NEW named
    PROVE  /\ Sound(Deleted(named).fat, Deleted(named).used, Deleted(named).dir)
           /\ FindFile(Deleted(named).dir, named) = {}
           /\ \A t \in Busy(dir) : dir[t].file # named =>
                 t \in Busy(Deleted(named).dir) /\ Deleted(named).dir[t] = dir[t]
           /\ Deleted(named).dir = dir => Deleted(named).fat = fat /\ Deleted(named).used = used
           /\ \A t \in Busy(Deleted(named).dir) : t \in Busy(dir) /\ Deleted(named).dir[t] = dir[t]
<1>1. CASE FindFile(dir, named) = {}
  BY <1>1 DEF Deleted, Busy
<1>2. CASE FindFile(dir, named) # {}
  <2> DEFINE s == Least(FindFile(dir, named))
             gone == Blocks(fat, dir[s].start, dir[s].num)
             f == [b \in DataBlocks |-> IF b \in gone THEN FAT_FREE ELSE fat[b]]
             d == [dir EXCEPT ![s] = Free]
             u == used - Cardinality(gone)
  <2>1. s \in FindFile(dir, named)
    <3>1. FindFile(dir, named) \in SUBSET Nat
      BY GeometryAssumption, FS_CardinalityType DEF FindFile
    <3> QED
      BY <1>2, <3>1, LeastIs
  <2> HIDE DEF s
  <2>2. s \in Busy(dir) /\ s \in Slots /\ dir[s].file = named
    BY <2>1 DEF FindFile, Busy
  <2>3. gone \in SUBSET Taken(fat) /\ IsFiniteSet(gone) /\ Cardinality(gone) = dir[s].num /\ dir[s].num \in Nat
    <3>1. BlocksOf(fat, dir[s]) \subseteq Taken(fat)
      BY <2>2 DEF Sound
    <3>2. /\ IsFiniteSet(BlocksOf(fat, dir[s])) /\ Cardinality(BlocksOf(fat, dir[s])) = dir[s].num
          /\ dir[s].num \in 0 .. Cardinality(DataBlocks)
      BY <2>2, TakenMany
    <3>3. dir[s].num \in Nat
      BY <3>2, BlockCount
    <3> QED
      BY <3>1, <3>2, <3>3 DEF BlocksOf
  <2>4. Chain(fat, used, dir[s].start) = gone
    <3>1. dir[s].num \in Nat /\ dir[s].num <= used /\ used \in 0 .. Cardinality(DataBlocks)
      BY <2>2, TakenMany
    <3>2. Path(fat, dir[s].start, dir[s].num)
      BY <2>2 DEF Sound
    <3> QED
      BY <3>1, <3>2, ChainIs
  <2> HIDE DEF gone
  <2>5. Deleted(named) = [dir |-> d, fat |-> f, used |-> u]
    BY <1>2, <2>4 DEF Deleted, s
  <2>6. /\ fat \in [DataBlocks -> FatValues] /\ dir \in [Slots -> Entries] /\ used = Cardinality(Taken(fat))
        /\ IsFiniteSet(Taken(fat)) /\ used \in Nat
    BY TakenMany, FS_CardinalityType DEF Sound
  <2>7. Free \in Entries /\ Free.start = 0
    BY BlockCount DEF Free, Entries, NoFile
  <2>8. /\ d \in [Slots -> Entries] /\ d[s] = Free
        /\ \A t \in Slots : t # s => d[t] = dir[t]
    BY <2>2, <2>6, <2>7
  <2>9. /\ f \in [DataBlocks -> FatValues]
        /\ \A b \in DataBlocks : b \notin gone => f[b] = fat[b]
        /\ Taken(f) = Taken(fat) \ gone
    BY <2>6 DEF Taken, FatValues
  <2> HIDE DEF d, f
  <2>10. Busy(d) = Busy(dir) \ {s}
    BY <2>2, <2>7, <2>8 DEF Busy
  <2>11. ASSUME NEW t \in Busy(d)
         PROVE  /\ t \in Busy(dir) /\ t # s /\ d[t] = dir[t]
                /\ Path(f, d[t].start, d[t].num) /\ BlocksOf(f, d[t]) = BlocksOf(fat, dir[t])
                /\ BlocksOf(fat, dir[t]) \cap gone = {}
    <3>1. t \in Busy(dir) /\ t # s /\ d[t] = dir[t]
      BY <2>8, <2>10, <2>11 DEF Busy
    <3>2. /\ Path(fat, dir[t].start, dir[t].num) /\ BlocksOf(fat, dir[t]) \cap gone = {}
          /\ BlocksOf(fat, dir[t]) \subseteq DataBlocks
      BY <2>2, <3>1, TakenMany DEF Sound, BlocksOf, gone
    <3>3. dir[t].num \in 0 .. Cardinality(DataBlocks)
      BY <3>1, TakenMany
    <3>4. Path(f, dir[t].start, dir[t].num) /\ BlocksOf(f, dir[t]) = BlocksOf(fat, dir[t])
      BY <2>9, <3>2, <3>3, SamePath DEF BlocksOf
    <3> QED
      BY <3>1, <3>2, <3>4
  <2>12. ASSUME NEW t \in Busy(d)
         PROVE  /\ Path(f, d[t].start, d[t].num) /\ BlocksOf(f, d[t]) \subseteq Taken(f)
                /\ d[t].file \in Files /\ d[t].file # named
    BY <2>2, <2>9, <2>11 DEF Sound
  <2>13. ASSUME NEW t \in Busy(d), NEW v \in Busy(d), t # v
         PROVE  BlocksOf(f, d[t]) \cap BlocksOf(f, d[v]) = {} /\ d[t].file # d[v].file
    BY <2>11, <2>13 DEF Sound
  <2>14. ASSUME NEW b \in Taken(f) PROVE \E t \in Busy(d) : b \in BlocksOf(f, d[t])
    <3>1. b \in Taken(fat) /\ b \notin gone
      BY <2>9, <2>14
    <3>2. PICK t \in Busy(dir) : b \in BlocksOf(fat, dir[t])
      BY <3>1 DEF Sound
    <3>3. t # s
      BY <3>1, <3>2 DEF gone, BlocksOf
    <3> QED
      BY <2>10, <2>11, <3>2, <3>3
  <2>15. u = Cardinality(Taken(f))
    <3>1. Cardinality(Taken(fat)) = Cardinality(Taken(f)) + Cardinality(gone) /\ Cardinality(Taken(f)) \in Nat
      <4>1. IsFiniteSet(Taken(f)) /\ Taken(f) \cap gone = {} /\ Taken(fat) = Taken(f) \cup gone
        BY <2>3, <2>6, <2>9, FS_Subset
      <4>2. Cardinality(Taken(f) \cup gone) = Cardinality(Taken(f)) + Cardinality(gone) - Cardinality({})
        BY <2>3, <4>1, FS_Union
      <4> QED
        BY <2>3, <4>1, <4>2, FS_EmptySet, FS_CardinalityType
    <3> QED
      BY <2>3, <2>6, <3>1
  <2> HIDE DEF u
  <2>16. Sound(f, u, d)
    BY <2>8, <2>9, <2>12, <2>13, <2>14, <2>15 DEF Sound
  <2>17. FindFile(d, named) = {}
    BY <2>12 DEF FindFile, Busy
  <2>18. \A t \in Busy(dir) : dir[t].file # named => t \in Busy(d) /\ d[t] = dir[t]
    BY <2>2, <2>8, <2>10 DEF Busy
  <2>19. d # dir
    BY <2>2, <2>10
  <2> QED
    BY <2>5, <2>11, <2>16, <2>17, <2>18, <2>19
<1> QED
  BY <1>1, <1>2

\* alloc_blocks makes a chain of n blocks out of the lowest n free ones and leaves
\* every other block alone.
LEMMA AllocatedPath ==
    ASSUME NEW f \in [DataBlocks -> FatValues], NEW n \in Nat \ {0},
           n <= Cardinality({b \in DataBlocks : f[b] = FAT_FREE})
    PROVE  LET A == Allocated(f, n)
               T == Lowest({b \in DataBlocks : f[b] = FAT_FREE}, n)
           IN  /\ A.first \in DataBlocks /\ A.f \in [DataBlocks -> FatValues]
               /\ Path(A.f, A.first, n) /\ Blocks(A.f, A.first, n) = T
               /\ \A b \in DataBlocks \ T : A.f[b] = f[b]
               /\ \A b \in T : A.f[b] # FAT_FREE /\ f[b] = FAT_FREE /\ b \in DataBlocks
               /\ IsFiniteSet(T) /\ Cardinality(T) = n
<1> DEFINE free == {b \in DataBlocks : f[b] = FAT_FREE}
           T == Lowest(free, n)
           above(b) == {c \in T : c > b}
           g == [b \in DataBlocks |-> IF b \notin T THEN f[b]
                                       ELSE IF above(b) # {} THEN Least(above(b)) ELSE FAT_END]
           w == Walk(g, Least(T))
<1>1. free \in SUBSET Nat /\ free \in SUBSET DataBlocks /\ IsFiniteSet(free) /\ Cardinality(free) <= Cardinality(DataBlocks)
  <2>1. free \in SUBSET DataBlocks
    OBVIOUS
  <2>2. free \in SUBSET Nat
    BY <2>1, BlockCount
  <2> QED
    BY <2>1, <2>2, BlockCount, FS_Subset
<1>2. T \in SUBSET free /\ IsFiniteSet(T) /\ Cardinality(T) = n
  BY <1>1, LowestMany
<1>3. Allocated(f, n) = [f |-> g, first |-> Least(T)]
  BY <1>2 DEF Allocated
<1>f. \A b \in T : f[b] = FAT_FREE
  BY <1>2
<1> HIDE DEF free, T
<1>4. T \in SUBSET Nat /\ T \in SUBSET DataBlocks /\ T # {}
  BY <1>1, <1>2, FS_EmptySet
<1>5. Least(T) \in T /\ \A c \in T : Least(T) <= c
  BY <1>4, LeastIs
<1>6. ASSUME NEW b \in T
      PROVE  /\ Rank(T, b) \in Nat /\ Rank(T, b) < n
             /\ Rank(T, b) < n - 1 => g[b] \in T /\ Rank(T, g[b]) = Rank(T, b) + 1
             /\ Rank(T, b) = n - 1 => g[b] = FAT_END
             /\ After1(g, b) = g[b]
             /\ g[b] \in FatValues /\ g[b] # FAT_FREE
  <2>1. b \in DataBlocks /\ ~(b < FAT_EMPTYFILE)
    BY <1>4, BlockCount DEF FAT_EMPTYFILE
  <2>2. g[b] = IF above(b) # {} THEN Least(above(b)) ELSE FAT_END
    BY <2>1
  <2>3. Rank(T, b) \in Nat /\ Rank(T, b) < n /\ \A c \in T : Rank(T, c) < n
    BY <1>2, <1>4, RankGrows
  <2>4. After1(g, b) = g[b]
    BY <2>1 DEF After1, Link
  <2>5. CASE above(b) # {}
    <3>1. Least(above(b)) \in T /\ Rank(T, Least(above(b))) = Rank(T, b) + 1
      BY <1>2, <1>4, <2>5, RankNext
    <3>2. g[b] \in T /\ Rank(T, g[b]) = Rank(T, b) + 1
      BY <2>2, <2>5, <3>1
    <3>3. g[b] \in DataBlocks /\ g[b] > FAT_EMPTYFILE
      BY <1>4, <3>2, BlockCount
    <3> HIDE DEF g
    <3>4. Rank(T, b) # n - 1
      BY <2>3, <3>2
    <3>5. g[b] # FAT_FREE
      BY <3>3 DEF FAT_FREE, FAT_EMPTYFILE
    <3> QED
      BY <2>3, <2>4, <3>2, <3>3, <3>4, <3>5 DEF FatValues
  <2>6. CASE above(b) = {}
    <3>1. n = Rank(T, b) + 1
      BY <1>2, <1>4, <2>6, RankNext
    <3>2. g[b] = FAT_END
      BY <2>2, <2>6
    <3> HIDE DEF g
    <3> QED
      BY <2>3, <2>4, <3>1, <3>2 DEF FatValues, FAT_END, FAT_FREE
  <2> QED
    BY <2>5, <2>6
<1>7. g \in [DataBlocks -> FatValues] /\ \A b \in T : g[b] # FAT_FREE
  <2>1. \A b \in DataBlocks : g[b] = IF b \notin T THEN f[b] ELSE g[b]
    OBVIOUS
  <2>2. \A b \in DataBlocks : g[b] \in FatValues
    BY <1>6, <2>1
  <2> QED
    BY <1>6, <2>2
<1>8. \A b \in DataBlocks \ T : g[b] = f[b]
  OBVIOUS
<1> HIDE DEF g
<1>9. w[0] = Least(T) /\ \A k \in 1 .. n : w[k] = After1(g, w[k - 1])
  <2>1. \A k \in 1 .. n : k \in 1 .. LastHop
    BY <1>1, BlockCount, FS_CardinalityType DEF free
  <2> QED
    BY <2>1, WalkIs
<1> HIDE DEF w
<1>10. \A k \in 0 .. n - 1 : w[k] \in T /\ Rank(T, w[k]) = k
  <2> DEFINE Bad == {k \in 0 .. n - 1 : ~(w[k] \in T /\ Rank(T, w[k]) = k)}
  <2>1. SUFFICES ASSUME Bad # {} PROVE FALSE
    OBVIOUS
  <2>2. PICK k \in Bad : \A j \in Bad : k <= j
    <3>1. Bad \in SUBSET Nat
      OBVIOUS
    <3> QED
      BY <2>1, <3>1, LeastIs
  <2>3. k # 0
    <3>1. {c \in T : c < Least(T)} = {}
      <4>1. ASSUME NEW c \in T, c < Least(T) PROVE FALSE
        <5>1. c \in Nat /\ Least(T) \in Nat /\ Least(T) <= c
          BY <1>4, <1>5
        <5> QED
          BY <4>1, <5>1
      <4> QED
        BY <4>1
    <3>2. Rank(T, Least(T)) = 0
      BY <3>1, FS_EmptySet DEF Rank
    <3> QED
      BY <1>5, <1>9, <2>2, <3>2
  <2>4. k \in 1 .. n /\ k - 1 \in 0 .. n - 1 /\ k - 1 \notin Bad /\ k < n
    BY <2>2, <2>3
  <2>5. w[k - 1] \in T /\ Rank(T, w[k - 1]) = k - 1
    BY <2>4
  <2>6. w[k] = g[w[k - 1]]
    BY <1>6, <1>9, <2>4, <2>5
  <2>7. g[w[k - 1]] \in T /\ Rank(T, g[w[k - 1]]) = k - 1 + 1
    BY <1>6, <2>4, <2>5
  <2>8. w[k] \in T /\ Rank(T, w[k]) = k
    BY <2>4, <2>6, <2>7
  <2> QED
    BY <2>2, <2>8
<1>11. w[n] = FAT_END
  <2>1. n - 1 \in 0 .. n - 1 /\ n \in 1 .. n
    OBVIOUS
  <2>2. w[n - 1] \in T /\ Rank(T, w[n - 1]) = n - 1
    BY <1>10, <2>1
  <2>3. w[n] = g[w[n - 1]]
    BY <1>6, <1>9, <2>1, <2>2
  <2> QED
    BY <1>6, <2>2, <2>3
<1>12. Path(g, Least(T), n)
  BY <1>4, <1>10, <1>11 DEF Path, w
<1>13. Blocks(g, Least(T), n) = T
  <2>1. Blocks(g, Least(T), n) \in SUBSET T
    BY <1>10 DEF Blocks, w
  <2>2. Cardinality(Blocks(g, Least(T), n)) = Cardinality(T)
    BY <1>2, <1>12, BlocksMany
  <2> QED
    BY <1>2, <2>1, <2>2, FS_Subset
<1>14. Least(T) \in DataBlocks
  BY <1>4, <1>5
<1> DEFINE A == Allocated(f, n)
<1>15. A.f = g /\ A.first = Least(T)
  BY <1>3
<1> HIDE DEF A
<1>16. /\ A.first \in DataBlocks /\ A.f \in [DataBlocks -> FatValues]
       /\ Path(A.f, A.first, n) /\ Blocks(A.f, A.first, n) = T
       /\ \A b \in DataBlocks \ T : A.f[b] = f[b]
       /\ \A b \in T : A.f[b] # FAT_FREE /\ f[b] = FAT_FREE /\ b \in DataBlocks
       /\ IsFiniteSet(T) /\ Cardinality(T) = n
  BY <1>2, <1>4, <1>7, <1>8, <1>f, <1>12, <1>13, <1>14, <1>15
<1> QED
  BY <1>16 DEF A, T, free

\* What NVMCreate asks of alloc_blocks for n blocks, none included.
NewBlocks(f, n) ==
    IF n = 0 THEN [f |-> f, first |-> FAT_EMPTYFILE] ELSE Allocated(f, n)

\* NVMCreate's entry for a new name, when the blocks fit and there is a slot: the
\* scan of alloc_blocks finds them, and the file system stays sound.
LEMMA CreatedSound ==
    ASSUME NEW f, NEW u, NEW d, Sound(f, u, d), NEW n \in Nat, Fits(u, n),
           NEW s \in FreeSlots(d), NEW named \in Files, \A t \in Busy(d) : d[t].file # named
    PROVE  LET new == NewBlocks(f, n)
               e == [d EXCEPT ![s] = [start |-> new.first, num |-> n, file |-> named]]
           IN  /\ new.first \in {FAT_EMPTYFILE} \cup DataBlocks /\ new.first # 0
               /\ Sound(new.f, u + n, e)
               /\ Busy(e) = Busy(d) \cup {s} /\ s \notin Busy(d)
               /\ e[s] = [start |-> new.first, num |-> n, file |-> named]
               /\ \A t \in Busy(d) : e[t] = d[t]
<1> DEFINE free == {b \in DataBlocks : f[b] = FAT_FREE}
           g == NewBlocks(f, n).f
           first == NewBlocks(f, n).first
           entry == [start |-> first, num |-> n, file |-> named]
           e == [d EXCEPT ![s] = entry]
           T == Blocks(g, first, n)
<1>1. /\ f \in [DataBlocks -> FatValues] /\ d \in [Slots -> Entries] /\ u = Cardinality(Taken(f))
      /\ IsFiniteSet(Taken(f)) /\ Taken(f) \in SUBSET DataBlocks
      /\ u \in Nat /\ Cardinality(DataBlocks) \in Nat /\ u + n <= Cardinality(DataBlocks)
  BY TakenMany, BlockCount, FS_CardinalityType DEF Sound, Fits
<1>2. n <= Cardinality(free)
  <2>1. free = DataBlocks \ Taken(f) /\ DataBlocks \cap Taken(f) = Taken(f)
    BY <1>1 DEF Taken
  <2>2. Cardinality(DataBlocks \ Taken(f)) = Cardinality(DataBlocks) - Cardinality(DataBlocks \cap Taken(f))
    BY BlockCount, FS_Difference
  <2>3. Cardinality(free) = Cardinality(DataBlocks) - u
    BY <1>1, <2>1, <2>2
  <2> QED
    BY <1>1, <2>3
<1>3. /\ first \in {FAT_EMPTYFILE} \cup DataBlocks /\ g \in [DataBlocks -> FatValues]
      /\ Path(g, first, n) /\ IsFiniteSet(T) /\ Cardinality(T) = n
      /\ \A b \in DataBlocks \ T : g[b] = f[b]
      /\ \A b \in T : g[b] # FAT_FREE /\ f[b] = FAT_FREE /\ b \in DataBlocks
  <2>1. CASE n = 0
    <3>1. g = f /\ first = FAT_EMPTYFILE
      BY <2>1 DEF NewBlocks
    <3> HIDE DEF g, first
    <3>2. T = {}
      BY <2>1 DEF Blocks
    <3>3. Path(g, first, n)
      BY <2>1, <3>1 DEF Path
    <3> QED
      BY <1>1, <2>1, <3>1, <3>2, <3>3, FS_EmptySet
  <2>2. CASE n # 0
    <3> DEFINE A == Allocated(f, n)
               L == Lowest(free, n)
    <3>1. g = A.f /\ first = A.first
      BY <2>2 DEF NewBlocks
    <3>2. /\ A.first \in DataBlocks /\ A.f \in [DataBlocks -> FatValues]
          /\ Path(A.f, A.first, n) /\ Blocks(A.f, A.first, n) = L
          /\ \A b \in DataBlocks \ L : A.f[b] = f[b]
          /\ \A b \in L : A.f[b] # FAT_FREE /\ f[b] = FAT_FREE /\ b \in DataBlocks
          /\ IsFiniteSet(L) /\ Cardinality(L) = n
      BY <1>1, <1>2, <2>2, AllocatedPath
    <3> HIDE DEF A, L, g, first
    <3> QED
      BY <3>1, <3>2
  <2> QED
    BY <2>1, <2>2
<1> HIDE DEF free, g, first, T
<1>4. first # 0
  BY <1>3, BlockCount DEF FAT_EMPTYFILE
<1>5. s \in Slots /\ d[s].start = 0 /\ s \notin Busy(d)
  BY DEF FreeSlots, Busy
<1>6. entry \in Entries
  <2>1. n \in 0 .. Cardinality(DataBlocks)
    BY <1>1
  <2> QED
    BY <1>3, <2>1 DEF Entries
<1>7. /\ e \in [Slots -> Entries] /\ e[s] = entry /\ entry.start = first /\ entry.num = n /\ entry.file = named
      /\ \A t \in Slots : t # s => e[t] = d[t]
  BY <1>1, <1>5, <1>6
<1> HIDE DEF entry, e
<1>8. Busy(e) = Busy(d) \cup {s} /\ \A t \in Busy(d) : t # s /\ e[t] = d[t]
  BY <1>4, <1>5, <1>7 DEF Busy
<1>9. Taken(g) = Taken(f) \cup T /\ Taken(f) \cap T = {} /\ T \subseteq DataBlocks
  BY <1>3 DEF Taken
<1>10. ASSUME NEW t \in Busy(d)
       PROVE  /\ Path(g, d[t].start, d[t].num) /\ BlocksOf(g, d[t]) = BlocksOf(f, d[t])
              /\ BlocksOf(f, d[t]) \subseteq Taken(f)
  <2>1. Path(f, d[t].start, d[t].num) /\ BlocksOf(f, d[t]) \subseteq Taken(f)
    BY DEF Sound
  <2>2. \A b \in BlocksOf(f, d[t]) : g[b] = f[b]
    BY <1>1, <1>3, <1>9, <2>1
  <2>3. d[t].num \in 0 .. Cardinality(DataBlocks)
    BY TakenMany
  <2> QED
    BY <2>1, <2>2, <2>3, SamePath DEF BlocksOf
<1>11. BlocksOf(g, e[s]) = T
  BY <1>7 DEF BlocksOf, T
<1>12. ASSUME NEW t \in Busy(e)
       PROVE  /\ Path(g, e[t].start, e[t].num) /\ BlocksOf(g, e[t]) \subseteq Taken(g)
              /\ e[t].file \in Files
  <2>1. CASE t = s
    BY <1>3, <1>7, <1>9, <1>11, <2>1
  <2>2. CASE t \in Busy(d)
    <3>1. d[t].file \in Files
      BY <2>2 DEF Sound
    <3> QED
      BY <1>8, <1>9, <1>10, <2>2, <3>1
  <2> QED
    BY <1>8, <2>1, <2>2
<1>13. ASSUME NEW t \in Busy(e), NEW v \in Busy(e), t # v
       PROVE  BlocksOf(g, e[t]) \cap BlocksOf(g, e[v]) = {} /\ e[t].file # e[v].file
  <2>1. ASSUME NEW x \in Busy(d)
        PROVE  BlocksOf(g, e[x]) \cap T = {} /\ e[x].file # named
    BY <1>8, <1>9, <1>10, <2>1
  <2>2. CASE t \in Busy(d) /\ v \in Busy(d)
    <3>1. BlocksOf(f, d[t]) \cap BlocksOf(f, d[v]) = {} /\ d[t].file # d[v].file
      BY <1>13, <2>2 DEF Sound
    <3> QED
      BY <1>8, <1>10, <2>2, <3>1
  <2>3. CASE t = s /\ v \in Busy(d)
    <3>1. BlocksOf(g, e[v]) \cap T = {} /\ e[v].file # named
      BY <2>1, <2>3
    <3> QED
      BY <1>7, <1>11, <2>3, <3>1
  <2>4. CASE v = s /\ t \in Busy(d)
    <3>1. BlocksOf(g, e[t]) \cap T = {} /\ e[t].file # named
      BY <2>1, <2>4
    <3> QED
      BY <1>7, <1>11, <2>4, <3>1
  <2> QED
    BY <1>8, <1>13, <2>2, <2>3, <2>4
<1>14. ASSUME NEW b \in Taken(g) PROVE \E t \in Busy(e) : b \in BlocksOf(g, e[t])
  <2>1. CASE b \in T
    BY <1>8, <1>11, <2>1
  <2>2. CASE b \in Taken(f)
    <3>1. PICK t \in Busy(d) : b \in BlocksOf(f, d[t])
      BY <2>2 DEF Sound
    <3> QED
      BY <1>8, <1>10, <3>1
  <2> QED
    BY <1>9, <2>1, <2>2
<1>15. u + n = Cardinality(Taken(g))
  <2>1. Cardinality(Taken(f) \cup T) = Cardinality(Taken(f)) + Cardinality(T) - Cardinality(Taken(f) \cap T)
    BY <1>1, <1>3, FS_Union
  <2>2. Cardinality(Taken(f) \cap T) = 0
    BY <1>9, FS_EmptySet
  <2>3. Cardinality(Taken(f) \cup T) = u + n
    BY <1>1, <1>3, <2>1, <2>2
  <2> QED
    BY <1>9, <2>3
<1>16. Sound(g, u + n, e)
  BY <1>3, <1>7, <1>12, <1>13, <1>14, <1>15 DEF Sound
<1> QED
  BY <1>3, <1>4, <1>5, <1>7, <1>8, <1>16 DEF e, entry, g, first

\* A formatted cartridge is sound, and its checksum is the zero that is stored.
LEMMA FormattedSound ==
    LET f == [b \in DataBlocks |-> FAT_FREE]
        d == [s \in Slots |-> Free]
    IN  Sound(f, 0, d) /\ Busy(d) = {} /\ Sum(f, 0) = 0
<1> DEFINE f == [b \in DataBlocks |-> FAT_FREE]
           d == [s \in Slots |-> Free]
<1>1. Free \in Entries /\ Free.start = 0
  BY BlockCount DEF Free, Entries, NoFile
<1>2. Busy(d) = {} /\ Taken(f) = {}
  BY <1>1 DEF Busy, Taken
<1>3. f \in [DataBlocks -> FatValues] /\ d \in [Slots -> Entries]
  BY <1>1 DEF FatValues
<1>4. Sound(f, 0, d)
  <2> HIDE DEF f, d
  <2> QED
    BY <1>2, <1>3, FS_EmptySet DEF Sound
<1>5. Sum(f, 0) = 0
  <2> DEFINE N == TotalBlocks - 1
             sum == CHOOSE g : g = [b \in 2 .. N |-> IF b = 2 THEN 0 ELSE g[b - 1] + f[b]]
  <2>1. N \in Nat /\ 2 < N + 1
    BY GeometryAssumption
  <2>2. Sum(f, 0) = sum[N]
    BY DEF Sum
  <2>3. \A b \in 2 .. N : b # 2 => f[b] = 0
    BY <2>1 DEF DataBlocks, FAT_FREE
  <2>4. sum = [b \in 2 .. N |-> IF b = 2 THEN 0 ELSE sum[b - 1] + f[b]]
    <3> DEFINE z == [b \in 2 .. N |-> 0]
    <3>1. \A b \in 2 .. N : z[b] = IF b = 2 THEN 0 ELSE z[b - 1] + f[b]
      <4> TAKE b \in 2 .. N
      <4>1. b # 2 => b - 1 \in 2 .. N
        BY <2>1
      <4> HIDE DEF f
      <4> QED
        BY <2>3, <4>1
    <3>2. z = [b \in 2 .. N |-> z[b]]
      OBVIOUS
    <3> HIDE DEF z, f
    <3>3. z = [b \in 2 .. N |-> IF b = 2 THEN 0 ELSE z[b - 1] + f[b]]
      BY <3>1, <3>2
    <3>4. \E g : g = [b \in 2 .. N |-> IF b = 2 THEN 0 ELSE g[b - 1] + f[b]]
      BY <3>3
    <3> QED
      BY <3>4, Zenon
  <2> HIDE DEF sum, f
  <2>5. \A b \in 2 .. N : sum[b] = IF b = 2 THEN 0 ELSE sum[b - 1] + f[b]
    BY <2>4
  <2> DEFINE Bad == {b \in 2 .. N : sum[b] # 0}
  <2>6. Bad = {}
    <3>1. SUFFICES ASSUME Bad # {} PROVE FALSE
      OBVIOUS
    <3>2. PICK b \in Bad : \A c \in Bad : b <= c
      <4>1. Bad \in SUBSET Nat
        BY <2>1
      <4> QED
        BY <3>1, <4>1, LeastIs
    <3>3. b # 2 /\ b - 1 \in 2 .. N /\ b - 1 \notin Bad
      BY <2>1, <2>5, <3>2
    <3> QED
      BY <2>3, <2>5, <3>2, <3>3
  <2> QED
    BY <2>1, <2>2, <2>6
<1> QED
  BY <1>2, <1>4, <1>5

\* What the walks say in the words of the property.
LEMMA SoundIsFatSound ==
    ASSUME Sound(fat, used, dir)
    PROVE  FatSound /\ InUse = Busy(dir) /\ \A s \in InUse : ChainOf(s) = BlocksOf(fat, dir[s])
<1>1. InUse = Busy(dir)
  BY DEF InUse, Busy
<1>2. ASSUME NEW s \in Busy(dir)
      PROVE  /\ ChainOf(s) = BlocksOf(fat, dir[s]) /\ Cardinality(ChainOf(s)) = dir[s].num
             /\ dir[s].num = 0 <=> dir[s].start = FAT_EMPTYFILE
             /\ dir[s].num > 0 => Walk(fat, dir[s].start)[dir[s].num] = FAT_END
  <2>0. dir[s].num \in 0 .. Cardinality(DataBlocks) /\ Cardinality(BlocksOf(fat, dir[s])) = dir[s].num
    BY <1>2, TakenMany
  <2>1. /\ Path(fat, dir[s].start, dir[s].num) /\ dir[s].num \in 0 .. Cardinality(DataBlocks)
        /\ Cardinality(BlocksOf(fat, dir[s])) = dir[s].num
    BY <1>2, <2>0 DEF Sound
  <2>2. dir[s].num \in Nat /\ dir[s].num <= Cardinality(DataBlocks)
        /\ Cardinality(DataBlocks) \in 0 .. Cardinality(DataBlocks)
    BY <2>1, BlockCount
  <2>3. ChainOf(s) = BlocksOf(fat, dir[s])
    BY <2>1, <2>2, ChainIs DEF ChainOf, BlocksOf
  <2>4. dir[s].num # 0 => dir[s].start # FAT_EMPTYFILE
    <3>1. dir[s].num # 0 => Walk(fat, dir[s].start)[0] \in DataBlocks
      BY <2>1, <2>2 DEF Path
    <3> QED
      BY <3>1, WalkIs, BlockCount DEF FAT_EMPTYFILE
  <2> QED
    BY <2>1, <2>2, <2>3, <2>4 DEF Path
<1>3. ASSUME NEW s \in Busy(dir), NEW t \in Busy(dir), s # t
      PROVE  ChainOf(s) \cap ChainOf(t) = {} /\ dir[s].file # dir[t].file
  BY <1>2, <1>3 DEF Sound
<1>4. Taken(fat) = UNION {ChainOf(s) : s \in Busy(dir)}
  <2>1. \A b \in Taken(fat) : \E s \in Busy(dir) : b \in ChainOf(s)
    BY <1>2 DEF Sound
  <2>2. \A s \in Busy(dir) : ChainOf(s) \subseteq Taken(fat)
    BY <1>2 DEF Sound
  <2> QED
    BY <2>1, <2>2
<1>5. used = Cardinality(Taken(fat))
  BY DEF Sound
<1> QED
  BY <1>1, <1>2, <1>3, <1>4, <1>5 DEF FatSound, Taken

-----------------------------------------------------------------------------
(* Transfers. *)

\* Past its last block a chain has nothing file_offset would accept.
LEMMA OnPath ==
    ASSUME NEW f, NEW start, NEW n \in 0 .. LastHop, Path(f, start, n), start # FAT_EMPTYFILE,
           NEW k \in 0 .. LastHop, Walk(f, start)[k] >= FAT_EMPTYFILE
    PROVE  k \in 0 .. n - 1
<1> DEFINE w == Walk(f, start)
           Bad == {j \in n .. LastHop : ~(w[j] = FAT_END \/ w[j] = FAT_FREE)}
<1>1. LastHop \in Nat /\ n \in Nat /\ n # 0 /\ w[n] = FAT_END
  BY BlockCount DEF Path
<1>2. Bad = {}
  <2>1. SUFFICES ASSUME Bad # {} PROVE FALSE
    OBVIOUS
  <2>2. PICK j \in Bad : \A i \in Bad : j <= i
    <3>1. Bad \in SUBSET Nat
      BY <1>1
    <3> QED
      BY <2>1, <3>1, LeastIs
  <2>3. j \in 1 .. LastHop /\ j - 1 \in n .. LastHop /\ j - 1 \notin Bad
    BY <1>1, <2>2
  <2>4. w[j - 1] = FAT_END \/ w[j - 1] = FAT_FREE
    BY <2>3
  <2>5. w[j] = FAT_FREE
    BY <2>3, <2>4, WalkIs DEF After1, FAT_END, FAT_FREE, FAT_EMPTYFILE
  <2> QED
    BY <2>2, <2>5
<1>3. k \notin n .. LastHop
  BY <1>2 DEF FAT_END, FAT_FREE, FAT_EMPTYFILE
<1> QED
  BY <1>1, <1>3

\* nvm_io moves at most what was asked for, all of it in range.
LEMMA TransferIs ==
    ASSUME NEW h, NEW count \in Nat
    PROVE  /\ Transferred(h, count) \in 0 .. count
           /\ \A i \in 0 .. Transferred(h, count) - 1 : InRange(h, handles[h].offset + i)
<1> DEFINE reach == {d \in 0 .. count : \A i \in 0 .. d - 1 : InRange(h, handles[h].offset + i)}
           rest == {c \in 0 .. count : count - c \in reach}
<1>1. 0 \in reach
  OBVIOUS
<1> HIDE DEF reach
<1>2. PICK c \in rest : \A e \in rest : c <= e
  <2>1. rest \in SUBSET Nat /\ count \in rest
    BY <1>1
  <2> QED
    BY <2>1, LeastIs
<1>3. \A e \in reach : e \in 0 .. count
  BY DEF reach
<1>4. count - c \in reach /\ \A e \in reach : e <= count - c
  <2>1. ASSUME NEW e \in reach PROVE e <= count - c
    <3>1. e \in 0 .. count /\ count - e \in 0 .. count /\ count - (count - e) = e
      BY <1>3
    <3>2. count - e \in rest
      BY <3>1
    <3>3. c \in 0 .. count /\ c <= count - e
      BY <1>2, <3>2
    <3> QED
      BY <3>1, <3>3
  <2> QED
    BY <1>2, <2>1
<1>5. Transferred(h, count) = CHOOSE d \in reach : \A e \in reach : e <= d
  BY DEF Transferred, reach
<1>6. Transferred(h, count) \in reach
  BY <1>4, <1>5
<1> QED
  BY <1>6 DEF reach

\* An offset of at most MaxSize lies in one of the first MaxSize + 1 blocks.
LEMMA OffsetBlock ==
    ASSUME NEW m \in 0 .. MaxSize
    PROVE  m \div BlockSize \in 0 .. LastHop
<1>1. MaxSize \in Nat /\ BlockSize \in Nat \ {0} /\ TotalBlocks \in Nat /\ m \in Nat
  BY GeometryAssumption
<1>2. m \div BlockSize \in Int /\ 0 <= m \div BlockSize /\ m \div BlockSize <= m
  BY <1>1
<1> QED
  BY <1>1, <1>2 DEF LastHop
----------------------------------------------------------------------------
(* The invariant. *)

\* What a running search has still to report lies ahead of its location, and a
\* search for one application's files is still that application's.
DueAhead ==
    \A f \in due : \E s \in Busy(dir) :
        s >= search.at /\ dir[s].file = f /\ (search.own => f[1] = app)

IInv ==
    /\ TypeOK
    /\ failed \in BOOLEAN
    /\ Sound(fat, used, dir)
    /\ HandlesFollowFiles
    /\ DueAhead
    /\ ChecksumRightUnlessFull

\* The state outside the disk has its type.
GuestTypes ==
    /\ app \in Apps \cup {NoApp}
    /\ handles \in [Handles -> [start : {0, FAT_EMPTYFILE} \cup DataBlocks, offset : 0 .. MaxSize]]
    /\ search \in [at : 0 .. Cardinality(Slots), own : BOOLEAN]
    /\ opened \in [Handles -> Files \cup {NoFile}]
    /\ due \subseteq Files
    /\ failed \in BOOLEAN

\* A sound disk has its type, so only the rest of the state's is left to show.
LEMMA SoundTypes ==
    ASSUME GuestTypes, Sound(fat, used, dir)
    PROVE  TypeOK
<1>1. used \in 0 .. Cardinality(DataBlocks)
  BY TakenMany
<1>2. fat \in [DataBlocks -> FatValues] /\ dir \in [Slots -> Entries]
  BY DEF Sound
<1> QED
  BY <1>1, <1>2 DEF TypeOK, GuestTypes, FatValues

\* What every step needs of the types: a file is not NoFile, handles and slots are
\* naturals.
LEMMA Indices ==
    /\ Handles \in SUBSET Nat /\ Slots \in SUBSET Nat
    /\ Cardinality(Slots) \in Nat /\ Slots = 0 .. Cardinality(Slots) - 1
    /\ NoFile \notin Files
    /\ \A a \in Apps, n \in Names : File(a, n) \in Files /\ File(a, n)[1] = a
<1>1. Cardinality(Slots) \in Nat /\ Slots = 0 .. Cardinality(Slots) - 1
  BY GeometryAssumption, FS_CardinalityType
<1>2. NoFile \notin Files
  BY DEF NoFile, Files
<1> QED
  BY <1>1, <1>2, GeometryAssumption DEF Handles, File, Files

\* The cartridge as it leaves the factory, and before Initialize.
LEMMA InitIs ==
    Init => IInv
<1> SUFFICES ASSUME Init PROVE IInv
  OBVIOUS
<1>1. Sound(fat, used, dir) /\ Sum(fat, used) = 0
  BY FormattedSound DEF Init
<1>2. GuestTypes
  <2>1. app \in Apps \cup {NoApp} /\ due \subseteq Files /\ failed \in BOOLEAN
        /\ opened \in [Handles -> Files \cup {NoFile}]
    BY DEF Init
  <2>2. handles \in [Handles -> [start : {0, FAT_EMPTYFILE} \cup DataBlocks, offset : 0 .. MaxSize]]
    BY GeometryAssumption DEF Init, Closed
  <2>3. search \in [at : 0 .. Cardinality(Slots), own : BOOLEAN]
    BY Indices DEF Init
  <2> QED
    BY <2>1, <2>2, <2>3 DEF GuestTypes
<1>3. TypeOK /\ failed \in BOOLEAN
  BY <1>1, <1>2, SoundTypes DEF GuestTypes
<1>4. HandlesFollowFiles /\ DueAhead /\ ChecksumRightUnlessFull
  BY <1>1 DEF Init, HandlesFollowFiles, DueAhead, ChecksumRightUnlessFull
<1> QED
  BY <1>1, <1>3, <1>4 DEF IInv

\* Any step after which the parts hold keeps the invariant.
LEMMA Parts ==
    ASSUME GuestTypes', Sound(fat', used', dir'), HandlesFollowFiles', DueAhead', ChecksumRightUnlessFull'
    PROVE  IInv'
<1>1. used' \in 0 .. Cardinality(DataBlocks)
  BY TakenMany
<1>2. fat' \in [DataBlocks -> FatValues] /\ dir' \in [Slots -> Entries]
  BY DEF Sound
<1>3. TypeOK' /\ failed' \in BOOLEAN
  BY <1>1, <1>2 DEF TypeOK, GuestTypes, FatValues
<1> QED
  BY <1>3 DEF IInv

\* What the invariant says now, for the steps to use.
LEMMA Now ==
    ASSUME IInv
    PROVE  GuestTypes /\ Sound(fat, used, dir)
  BY DEF IInv, TypeOK, GuestTypes

\* A step that leaves the disk alone keeps it sound and its checksum right.
LEMMA DiskKept ==
    ASSUME IInv, UNCHANGED <<disk, failed>>
    PROVE  /\ Sound(fat', used', dir') /\ ChecksumRightUnlessFull'
           /\ fat' = fat /\ used' = used /\ dir' = dir /\ failed' = failed
<1>1. fat' = fat /\ used' = used /\ dir' = dir /\ chksum' = chksum /\ failed' = failed
  BY DEF disk
<1> QED
  BY <1>1 DEF IInv, ChecksumRightUnlessFull
\* A slot or handle found by a scan from the lowest is one of those looked for.
LEMMA FirstOf ==
    ASSUME NEW S \in SUBSET Nat, NEW T \in SUBSET S, T # {}
    PROVE  Least(T) \in T /\ Least(T) \in Nat /\ \A t \in T : Least(T) <= t
<1>1. T \in SUBSET Nat
  OBVIOUS
<1> QED
  BY <1>1, LeastIs

\* A step that leaves the directory and the search alone keeps what is due ahead.
LEMMA DueKept ==
    ASSUME IInv, dir' = dir, search' = search, app' = app, due' \subseteq due
    PROVE  DueAhead'
  BY DEF IInv, DueAhead, Busy

LEMMA InitializeStep ==
    ASSUME IInv, NEW a \in Apps, Initialize(a)
    PROVE  IInv'
<1>1. /\ app' = a /\ handles' = [h \in Handles |-> Closed] /\ search' = search
      /\ opened' = [h \in Handles |-> NoFile]
  BY DEF Initialize
<1>2. HandlesFollowFiles'
  BY <1>1 DEF HandlesFollowFiles
<1>3. handles' \in [Handles -> [start : {0, FAT_EMPTYFILE} \cup DataBlocks, offset : 0 .. MaxSize]]
  BY <1>1, GeometryAssumption DEF Closed
<1>4. search' \in [at : 0 .. Cardinality(Slots), own : BOOLEAN] /\ due \subseteq Files
      /\ failed \in BOOLEAN
  BY <1>1, Now DEF GuestTypes
<1>5. CASE chksum = Sum(fat, used)
  <2>1. UNCHANGED <<disk, failed>> /\ due' = {f \in due : search.own => f[1] = a}
    BY <1>5 DEF Initialize
  <2>2. GuestTypes'
    BY <1>1, <1>3, <1>4, <2>1 DEF GuestTypes
  <2>3. Sound(fat', used', dir') /\ ChecksumRightUnlessFull' /\ dir' = dir
    BY <2>1, DiskKept
  <2>4. DueAhead'
    BY <1>1, <2>1, <2>3 DEF IInv, DueAhead, Busy
  <2> QED
    BY <1>2, <2>2, <2>3, <2>4, Parts
<1>6. CASE chksum # Sum(fat, used)
  <2>1. /\ fat' = [b \in DataBlocks |-> FAT_FREE] /\ used' = 0 /\ dir' = [s \in Slots |-> Free]
        /\ chksum' = 0 /\ failed' = FALSE /\ due' = {}
    BY <1>6 DEF Initialize
  <2>2. GuestTypes'
    BY <1>1, <1>3, <1>4, <2>1 DEF GuestTypes
  <2>3. Sound(fat', used', dir') /\ chksum' = Sum(fat', used')
    BY <2>1, FormattedSound
  <2>4. ChecksumRightUnlessFull' /\ DueAhead'
    BY <2>1, <2>3 DEF ChecksumRightUnlessFull, DueAhead
  <2> QED
    BY <1>2, <2>2, <2>3, <2>4, Parts
<1> QED
  BY <1>5, <1>6

LEMMA NVMBiosResetStep ==
    ASSUME IInv, NVMBiosReset
    PROVE  IInv'
<1>1. /\ app' = NoApp /\ handles' = [h \in Handles |-> Closed] /\ due' = {}
      /\ search' = [at |-> 0, own |-> FALSE] /\ opened' = [h \in Handles |-> NoFile]
      /\ UNCHANGED <<disk, failed>>
  BY DEF NVMBiosReset
<1>2. handles' \in [Handles -> [start : {0, FAT_EMPTYFILE} \cup DataBlocks, offset : 0 .. MaxSize]]
  BY <1>1, GeometryAssumption DEF Closed
<1>3. search' \in [at : 0 .. Cardinality(Slots), own : BOOLEAN]
  BY <1>1, Indices
<1>4. failed' \in BOOLEAN
  BY <1>1, Now DEF GuestTypes
<1>5. GuestTypes'
  BY <1>1, <1>2, <1>3, <1>4 DEF GuestTypes
<1>6. HandlesFollowFiles' /\ DueAhead'
  BY <1>1 DEF HandlesFollowFiles, DueAhead
<1> QED
  BY <1>1, <1>5, <1>6, DiskKept, Parts

\* The handle gets the start block the entry has.
LEMMA OpenStep ==
    ASSUME IInv, NEW n \in Names, Open(n)
    PROVE  IInv'
<1> DEFINE named == File(app, n)
           s == Least(FindFile(dir, named))
           h == Least(FreeHandles)
<1>1. /\ handles' = [handles EXCEPT ![h] = [start |-> dir[s].start, offset |-> 0]]
      /\ opened' = [opened EXCEPT ![h] = named]
      /\ UNCHANGED <<disk, failed>> /\ UNCHANGED <<app, search, due>>
      /\ app # NoApp /\ FreeHandles # {} /\ FindFile(dir, named) # {}
  BY DEF Open, Serving
<1>2. GuestTypes /\ Sound(fat, used, dir)
  BY Now
<1>3. h \in Handles
  BY <1>1, FirstOf, Indices DEF FreeHandles
<1>4. s \in Busy(dir) /\ dir[s].file = named /\ named \in Files
  <2>1. s \in FindFile(dir, named)
    BY <1>1, FirstOf, Indices DEF FindFile
  <2>2. app \in Apps
    BY <1>1, <1>2 DEF GuestTypes
  <2> QED
    BY <2>1, <2>2, Indices DEF FindFile, Busy
<1>5. dir[s].start \in {FAT_EMPTYFILE} \cup DataBlocks
  BY <1>2, <1>4, TakenMany
<1> HIDE DEF s, h, named
<1>6. GuestTypes'
  <2>1. handles' \in [Handles -> [start : {0, FAT_EMPTYFILE} \cup DataBlocks, offset : 0 .. MaxSize]]
    BY <1>1, <1>2, <1>3, <1>5, GeometryAssumption DEF GuestTypes
  <2>2. opened' \in [Handles -> Files \cup {NoFile}]
    BY <1>1, <1>2, <1>3, <1>4 DEF GuestTypes
  <2> QED
    BY <1>1, <1>2, <2>1, <2>2 DEF GuestTypes
<1>7. Sound(fat', used', dir') /\ ChecksumRightUnlessFull' /\ dir' = dir
  BY <1>1, DiskKept
<1>8. HandlesFollowFiles'
  <2>1. ASSUME NEW i \in Handles, opened'[i] # NoFile
        PROVE  \E t \in Busy(dir) : dir[t].file = opened'[i] /\ dir[t].start = handles'[i].start
    <3>1. CASE i = h
      BY <1>1, <1>2, <1>3, <1>4, <3>1 DEF GuestTypes
    <3>2. CASE i # h
      <4>1. opened'[i] = opened[i] /\ handles'[i] = handles[i]
        BY <1>1, <1>2, <3>2 DEF GuestTypes
      <4> QED
        BY <2>1, <4>1 DEF IInv, HandlesFollowFiles, InUse, Busy
    <3> QED
      BY <3>1, <3>2
  <2> QED
    BY <1>7, <2>1 DEF HandlesFollowFiles, InUse, Busy
<1>9. DueAhead'
  BY <1>1, <1>7, DueKept
<1> QED
  BY <1>6, <1>7, <1>8, <1>9, Parts

LEMMA CloseStep ==
    ASSUME IInv, NEW h \in Handles, Close(h)
    PROVE  IInv'
<1>1. /\ handles' = [handles EXCEPT ![h] = Closed] /\ opened' = [opened EXCEPT ![h] = NoFile]
      /\ UNCHANGED <<disk, failed>> /\ UNCHANGED <<app, search, due>>
  BY DEF Close
<1>2. GuestTypes
  BY Now
<1>3. GuestTypes'
  <2>1. handles' \in [Handles -> [start : {0, FAT_EMPTYFILE} \cup DataBlocks, offset : 0 .. MaxSize]]
    BY <1>1, <1>2, GeometryAssumption DEF GuestTypes, Closed
  <2>2. opened' \in [Handles -> Files \cup {NoFile}]
    BY <1>1, <1>2 DEF GuestTypes
  <2> QED
    BY <1>1, <1>2, <2>1, <2>2 DEF GuestTypes
<1>4. Sound(fat', used', dir') /\ ChecksumRightUnlessFull' /\ dir' = dir
  BY <1>1, DiskKept
<1>5. HandlesFollowFiles'
  <2>1. ASSUME NEW i \in Handles, opened'[i] # NoFile
        PROVE  opened'[i] = opened[i] /\ handles'[i] = handles[i]
    BY <1>1, <1>2, <2>1 DEF GuestTypes
  <2> QED
    BY <1>4, <2>1 DEF IInv, HandlesFollowFiles, InUse
<1>6. DueAhead'
  BY <1>1, <1>4, DueKept
<1> QED
  BY <1>3, <1>4, <1>5, <1>6, Parts
\* A step that only moves an offset.
LEMMA OffsetStep ==
    ASSUME IInv, NEW h \in Handles, NEW m \in 0 .. MaxSize,
           handles' = [handles EXCEPT ![h].offset = m],
           UNCHANGED <<disk, app, search, opened, failed, due>>
    PROVE  IInv'
<1>1. UNCHANGED <<disk, failed>> /\ UNCHANGED <<app, search, opened, due>>
  OBVIOUS
<1>2. GuestTypes
  BY Now
<1>3. handles' \in [Handles -> [start : {0, FAT_EMPTYFILE} \cup DataBlocks, offset : 0 .. MaxSize]]
      /\ \A i \in Handles : handles'[i].start = handles[i].start
  BY <1>2 DEF GuestTypes
<1>4. GuestTypes'
  BY <1>1, <1>2, <1>3 DEF GuestTypes
<1>5. Sound(fat', used', dir') /\ ChecksumRightUnlessFull' /\ dir' = dir
  BY <1>1, DiskKept
<1>6. HandlesFollowFiles'
  BY <1>1, <1>3, <1>5 DEF IInv, HandlesFollowFiles, InUse
<1>7. DueAhead'
  BY <1>1, <1>5, DueKept
<1> QED
  BY <1>4, <1>5, <1>6, <1>7, Parts

LEMMA MovedStep ==
    ASSUME IInv, NEW h \in Handles, NEW count \in 1 .. MaxSize, Moved(h, count)
    PROVE  IInv'
<1>1. handles[h].offset \in Nat /\ MaxSize \in Nat /\ count \in Nat
  BY Now, GeometryAssumption DEF GuestTypes
<1>2. Transferred(h, count) \in 0 .. count
  BY <1>1, TransferIs
<1>3. handles[h].offset + count <= MaxSize
  BY DEF Moved
<1>4. handles[h].offset + Transferred(h, count) \in 0 .. MaxSize
  BY <1>1, <1>2, <1>3
<1> QED
  BY <1>4, OffsetStep DEF Moved

LEMMA SeekStep ==
    ASSUME IInv, NEW h \in Handles, NEW offset \in -1 .. MaxSize, NEW relative \in BOOLEAN,
           Seek(h, offset, relative)
    PROVE  IInv'
<1> DEFINE target == IF relative THEN handles[h].offset + offset ELSE offset
<1>1. handles[h].offset \in Nat /\ MaxSize \in Nat
  BY Now, GeometryAssumption DEF GuestTypes
<1>2. target \in Int
  BY <1>1
<1>3. target <= MaxSize /\ target >= 0
  BY DEF Seek, InRange
<1>4. target \in 0 .. MaxSize
  BY <1>1, <1>2, <1>3
<1> QED
  BY <1>4, OffsetStep DEF Seek

\* Where a search goes next: past the lowest match, which is what it reports.
LEMMA SearchIs ==
    ASSUME IInv, NEW at \in 0 .. Cardinality(Slots), NEW own \in BOOLEAN
    PROVE  /\ After(at, own) \in 0 .. Cardinality(Slots)
           /\ \A s \in Found(at, own) :
                 dir[s].file \notin Reported(at, own) => s >= After(at, own)
<1>0. Cardinality(Slots) \in Nat /\ Slots = 0 .. Cardinality(Slots) - 1 /\ Slots \in SUBSET Nat
  BY Indices
<1>1. CASE Found(at, own) = {}
  BY <1>0, <1>1 DEF After
<1>2. CASE Found(at, own) # {}
  <2>1. Found(at, own) \in SUBSET Slots
    BY DEF Found
  <2>2. /\ Least(Found(at, own)) \in Found(at, own)
        /\ \A s \in Found(at, own) : Least(Found(at, own)) <= s
    BY <1>0, <1>2, <2>1, FirstOf
  <2>3. After(at, own) = Least(Found(at, own)) + 1
    BY <1>2 DEF After
  <2>4. ASSUME NEW s \in Found(at, own), dir[s].file \notin Reported(at, own)
        PROVE  s # Least(Found(at, own))
    BY <2>4 DEF Reported
  <2>5. Least(Found(at, own)) \in 0 .. Cardinality(Slots) - 1
    BY <1>0, <2>1, <2>2
  <2>6. \A s \in Found(at, own) : s \in Nat
    BY <1>0, <2>1
  <2>7. ASSUME NEW s \in Found(at, own), dir[s].file \notin Reported(at, own)
        PROVE  s >= After(at, own)
    <3>1. s # Least(Found(at, own)) /\ Least(Found(at, own)) <= s /\ s \in Nat
      BY <2>2, <2>4, <2>6, <2>7
    <3> QED
      BY <2>3, <2>5, <3>1
  <2>8. After(at, own) \in 0 .. Cardinality(Slots)
    BY <1>0, <2>3, <2>5
  <2> QED
    BY <2>7, <2>8
<1> QED
  BY <1>1, <1>2

\* A search step: the location moves past what it reports.
LEMMA SearchStep ==
    ASSUME IInv, NEW at \in 0 .. Cardinality(Slots), NEW own \in BOOLEAN,
           search' = [at |-> After(at, own), own |-> own],
           \A f \in due' : /\ f \notin Reported(at, own) /\ f \in Files
                           /\ \E s \in Found(at, own) : dir[s].file = f,
           UNCHANGED <<disk, app, handles, opened, failed>>
    PROVE  IInv'
<1>1. UNCHANGED <<disk, failed>> /\ UNCHANGED <<app, handles, opened>>
  OBVIOUS
<1>2. /\ After(at, own) \in 0 .. Cardinality(Slots)
      /\ \A s \in Found(at, own) : dir[s].file \notin Reported(at, own) => s >= After(at, own)
  BY SearchIs
<1>3. search'.at = After(at, own) /\ search'.own = own
      /\ search' \in [at : 0 .. Cardinality(Slots), own : BOOLEAN]
  BY <1>2
<1>4. GuestTypes'
  BY <1>1, <1>3, Now DEF GuestTypes
<1>5. Sound(fat', used', dir') /\ ChecksumRightUnlessFull' /\ dir' = dir
  BY <1>1, DiskKept
<1>6. HandlesFollowFiles'
  BY <1>1, <1>5 DEF IInv, HandlesFollowFiles, InUse
<1>7. DueAhead'
  <2>1. ASSUME NEW f \in due'
        PROVE  \E s \in Busy(dir) :
                  s >= search'.at /\ dir[s].file = f /\ (search'.own => f[1] = app)
    <3>1. PICK s \in Found(at, own) : dir[s].file = f
      OBVIOUS
    <3>2. s >= After(at, own)
      BY <1>2, <3>1
    <3>3. s \in Busy(dir) /\ (own => f[1] = app)
      BY <3>1 DEF Found, Busy
    <3> QED
      BY <1>3, <3>1, <3>2, <3>3
  <2> QED
    BY <1>1, <1>5, <2>1 DEF DueAhead, Busy
<1> QED
  BY <1>4, <1>5, <1>6, <1>7, Parts

LEMMA SearchFirstStep ==
    ASSUME IInv, NEW own \in BOOLEAN, SearchFirst(own)
    PROVE  IInv'
<1>1. /\ search' = [at |-> After(0, own), own |-> own]
      /\ due' = {f \in Present(dir) : own => f[1] = app} \ Reported(0, own)
      /\ UNCHANGED <<disk, app, handles, opened, failed>>
  BY DEF SearchFirst
<1>2. 0 \in 0 .. Cardinality(Slots) /\ Slots \in SUBSET Nat
  BY Indices
<1>3. ASSUME NEW f \in due'
      PROVE  /\ f \notin Reported(0, own) /\ f \in Files
             /\ \E s \in Found(0, own) : dir[s].file = f
  <2>1. PICK s \in Slots : dir[s].start # 0 /\ dir[s].file = f
    BY <1>1 DEF Present
  <2>2. (own => f[1] = app) /\ f \notin Reported(0, own)
    BY <1>1
  <2>3. s \in Found(0, own)
    BY <1>2, <2>1, <2>2 DEF Found
  <2>4. f \in Files
    BY <2>1 DEF IInv, Sound, Busy
  <2> QED
    BY <2>1, <2>2, <2>3, <2>4
<1> QED
  BY <1>1, <1>2, <1>3, SearchStep

LEMMA SearchNextStep ==
    ASSUME IInv, SearchNext
    PROVE  IInv'
<1>1. /\ search' = [search EXCEPT !.at = After(search.at, search.own)]
      /\ due' = due \ Reported(search.at, search.own)
      /\ UNCHANGED <<disk, app, handles, opened, failed>>
  BY DEF SearchNext
<1>2. search \in [at : 0 .. Cardinality(Slots), own : BOOLEAN] /\ due \subseteq Files
  BY Now DEF GuestTypes
<1>3. /\ search' = [at |-> After(search.at, search.own), own |-> search.own]
      /\ search.at \in 0 .. Cardinality(Slots) /\ search.own \in BOOLEAN
  BY <1>1, <1>2
<1>4. ASSUME NEW f \in due'
      PROVE  /\ f \notin Reported(search.at, search.own) /\ f \in Files
             /\ \E s \in Found(search.at, search.own) : dir[s].file = f
  <2>1. f \in due /\ f \notin Reported(search.at, search.own)
    BY <1>1
  <2>2. PICK s \in Busy(dir) : s >= search.at /\ dir[s].file = f /\ (search.own => f[1] = app)
    BY <2>1 DEF IInv, DueAhead
  <2>3. s \in Found(search.at, search.own)
    BY <2>2 DEF Found, Busy
  <2> QED
    BY <1>2, <2>1, <2>2, <2>3
<1>5. UNCHANGED <<disk, app, handles, opened, failed>>
  BY <1>1
<1> QED
  BY <1>3, <1>4, <1>5, SearchStep

\* A handle of another file keeps it, and a search still has it to report, in any
\* directory that keeps the entries of the other files where they are.
LEMMA OthersKept ==
    ASSUME IInv, NEW named,
           \A t \in Busy(dir) : dir[t].file # named => t \in Busy(dir') /\ dir'[t] = dir[t]
    PROVE  /\ \A i \in Handles : opened[i] # NoFile /\ opened[i] # named =>
                 \E t \in Busy(dir') : dir'[t].file = opened[i] /\ dir'[t].start = handles[i].start
           /\ \A f \in due : f # named =>
                 \E t \in Busy(dir') :
                     t >= search.at /\ dir'[t].file = f /\ (search.own => f[1] = app)
<1>1. ASSUME NEW i \in Handles, opened[i] # NoFile, opened[i] # named
      PROVE  \E t \in Busy(dir') : dir'[t].file = opened[i] /\ dir'[t].start = handles[i].start
  <2>1. PICK t \in Busy(dir) : dir[t].file = opened[i] /\ dir[t].start = handles[i].start
    BY <1>1 DEF IInv, HandlesFollowFiles, InUse, Busy
  <2> QED
    BY <1>1, <2>1
<1>2. ASSUME NEW f \in due, f # named
      PROVE  \E t \in Busy(dir') : t >= search.at /\ dir'[t].file = f /\ (search.own => f[1] = app)
  <2>1. PICK t \in Busy(dir) : t >= search.at /\ dir[t].file = f /\ (search.own => f[1] = app)
    BY DEF IInv, DueAhead
  <2> QED
    BY <1>2, <2>1
<1> QED
  BY <1>1, <1>2

LEMMA DeleteStep ==
    ASSUME IInv, NEW a \in Apps, NEW n \in Names, Delete(a, n)
    PROVE  IInv'
<1> DEFINE named == File(a, n)
           left == Deleted(named)
<1>1. /\ dir' = left.dir /\ fat' = left.fat /\ used' = left.used
      /\ chksum' = Sum(left.fat, left.used) /\ failed' = FALSE
      /\ opened' = Forget(named) /\ due' = due \ {named}
      /\ UNCHANGED <<app, handles, search>>
  BY DEF Delete
<1>2. GuestTypes /\ Sound(fat, used, dir)
  BY Now
<1>3. /\ Sound(left.fat, left.used, left.dir)
      /\ \A t \in Busy(dir) : dir[t].file # named => t \in Busy(left.dir) /\ left.dir[t] = dir[t]
  BY <1>2, DeletedSound
<1> HIDE DEF left
<1>4. Sound(fat', used', dir') /\ chksum' = Sum(fat', used')
  BY <1>1, <1>3
<1>5. \A t \in Busy(dir) : dir[t].file # named => t \in Busy(dir') /\ dir'[t] = dir[t]
  BY <1>1, <1>3
<1>6. \A i \in Handles : opened'[i] # NoFile => opened'[i] = opened[i] /\ opened[i] # named
  BY <1>1 DEF Forget
<1>7. GuestTypes'
  <2>1. opened' \in [Handles -> Files \cup {NoFile}]
    BY <1>1, <1>2 DEF GuestTypes, Forget
  <2> QED
    BY <1>1, <1>2, <2>1 DEF GuestTypes
<1>8. HandlesFollowFiles'
  BY <1>1, <1>5, <1>6, OthersKept DEF HandlesFollowFiles, InUse, Busy
<1>9. DueAhead'
  BY <1>1, <1>5, OthersKept DEF DueAhead
<1>10. ChecksumRightUnlessFull'
  BY <1>4 DEF ChecksumRightUnlessFull
<1> QED
  BY <1>4, <1>7, <1>8, <1>9, <1>10, Parts

\* The new file has an entry and blocks of its own, or nothing was stored for it;
\* either way the file it replaces is gone and every other one is where it was.
LEMMA CreateStep ==
    ASSUME IInv, NEW n \in Names, NEW size \in 0 .. MaxSize, Create(n, size)
    PROVE  IInv'
<1> DEFINE named == File(app, n)
           left == Deleted(named)
           h == Least(FreeHandles)
           m == BlocksFor(size)
           fits == Fits(left.used, m)
           new == NewBlocks(left.fat, m)
           s == Least(FreeSlots(left.dir))
           entry == [start |-> new.first, num |-> m, file |-> named]
           slot == FreeSlots(left.dir) # {}
           made == slot /\ fits /\ new.first # 0
<1>1. /\ fat' = IF slot /\ fits THEN new.f ELSE left.fat
      /\ used' = IF slot /\ fits THEN left.used + m ELSE left.used
      /\ dir' = IF made THEN [left.dir EXCEPT ![s] = entry] ELSE left.dir
      /\ chksum' = IF made THEN Sum(fat', used') ELSE chksum
      /\ failed' = (~made /\ (failed \/ left.dir # dir))
      /\ handles' = IF made THEN [handles EXCEPT ![h] = [start |-> new.first, offset |-> 0]]
                    ELSE handles
      /\ opened' = IF made THEN [Forget(named) EXCEPT ![h] = named] ELSE Forget(named)
      /\ due' = due \ {named}
      /\ UNCHANGED <<app, search>>
      /\ app # NoApp /\ FreeHandles # {}
  BY DEF Create, NewBlocks, Serving
<1>2. GuestTypes /\ Sound(fat, used, dir)
  BY Now
<1>3. h \in Handles
  BY <1>1, FirstOf, Indices DEF FreeHandles
<1>4. named \in Files
  BY <1>1, <1>2, Indices DEF GuestTypes
<1>5. m \in Nat
  <2>1. BlockSize \in Nat \ {0} /\ size \in Nat
    BY GeometryAssumption
  <2> QED
    BY <2>1 DEF BlocksFor
<1>6. /\ Sound(left.fat, left.used, left.dir) /\ FindFile(left.dir, named) = {}
      /\ \A t \in Busy(dir) : dir[t].file # named => t \in Busy(left.dir) /\ left.dir[t] = dir[t]
      /\ left.dir = dir => left.fat = fat /\ left.used = used
  BY <1>2, DeletedSound
<1>7. slot => s \in FreeSlots(left.dir)
  BY FirstOf, Indices DEF FreeSlots
<1>8. \A t \in Busy(left.dir) : left.dir[t].file # named
  BY <1>6 DEF FindFile, Busy
<1> HIDE DEF left, h, m, named
<1>9. slot /\ fits =>
        /\ new.first \in {FAT_EMPTYFILE} \cup DataBlocks /\ new.first # 0
        /\ Sound(new.f, left.used + m, [left.dir EXCEPT ![s] = entry])
        /\ Busy([left.dir EXCEPT ![s] = entry]) = Busy(left.dir) \cup {s} /\ s \notin Busy(left.dir)
        /\ [left.dir EXCEPT ![s] = entry][s] = entry
        /\ \A t \in Busy(left.dir) : [left.dir EXCEPT ![s] = entry][t] = left.dir[t]
  <2>1. SUFFICES ASSUME slot, fits
        PROVE  /\ new.first \in {FAT_EMPTYFILE} \cup DataBlocks /\ new.first # 0
               /\ Sound(new.f, left.used + m, [left.dir EXCEPT ![s] = entry])
               /\ Busy([left.dir EXCEPT ![s] = entry]) = Busy(left.dir) \cup {s} /\ s \notin Busy(left.dir)
               /\ [left.dir EXCEPT ![s] = entry][s] = entry
               /\ \A t \in Busy(left.dir) : [left.dir EXCEPT ![s] = entry][t] = left.dir[t]
    OBVIOUS
  <2>2. s \in FreeSlots(left.dir) /\ Fits(left.used, m) /\ m \in Nat /\ named \in Files
        /\ Sound(left.fat, left.used, left.dir) /\ \A t \in Busy(left.dir) : left.dir[t].file # named
    BY <1>4, <1>5, <1>6, <1>7, <1>8, <2>1
  <2> HIDE DEF s
  <2> QED
    BY <2>2, CreatedSound
<1> HIDE DEF new, s, entry
<1>10. made <=> slot /\ fits
  BY <1>9
<1>11. \A i \in Handles : Forget(named)[i] # NoFile => Forget(named)[i] = opened[i] /\ opened[i] # named
  BY DEF Forget
<1>12. Forget(named) \in [Handles -> Files \cup {NoFile}]
  BY <1>2 DEF GuestTypes, Forget
<1>13. due' \subseteq Files /\ app' \in Apps \cup {NoApp}
       /\ search' \in [at : 0 .. Cardinality(Slots), own : BOOLEAN]
  BY <1>1, <1>2 DEF GuestTypes
<1>14. failed' \in BOOLEAN
  BY <1>1, Zenon
<1>15. \A t \in Busy(dir) : dir[t].file # named => t \in Busy(dir') /\ dir'[t] = dir[t]
  <2>1. CASE made
    BY <1>1, <1>6, <1>9, <2>1
  <2>2. CASE ~made
    BY <1>1, <1>6, <2>2
  <2> QED
    BY <2>1, <2>2
<1>16. DueAhead'
  <2>1. due' = due \ {named} /\ app' = app /\ search' = search
    BY <1>1
  <2> QED
    BY <1>15, <2>1, OthersKept DEF DueAhead
<1>17. CASE made
  <2>1. /\ fat' = new.f /\ used' = left.used + m /\ dir' = [left.dir EXCEPT ![s] = entry]
        /\ chksum' = Sum(fat', used')
        /\ handles' = [handles EXCEPT ![h] = [start |-> new.first, offset |-> 0]]
        /\ opened' = [Forget(named) EXCEPT ![h] = named]
    BY <1>1, <1>17
  <2>2. Sound(fat', used', dir') /\ s \in Busy(dir') /\ dir'[s] = entry
        /\ new.first \in {FAT_EMPTYFILE} \cup DataBlocks
    BY <1>9, <1>17, <2>1
  <2>3. entry.start = new.first /\ entry.file = named
    BY DEF entry
  <2>4. HandlesFollowFiles'
    <3>1. ASSUME NEW i \in Handles, opened'[i] # NoFile
          PROVE  \E t \in Busy(dir') : dir'[t].file = opened'[i] /\ dir'[t].start = handles'[i].start
      <4>1. CASE i = h
        <5>1. opened'[i] = named /\ handles'[i].start = new.first
          BY <1>2, <1>12, <2>1, <4>1 DEF GuestTypes
        <5>2. s \in Busy(dir') /\ dir'[s].file = named /\ dir'[s].start = new.first
          BY <2>2, <2>3
        <5> QED
          BY <5>1, <5>2
      <4>2. CASE i # h
        <5>1. opened'[i] = Forget(named)[i] /\ handles'[i] = handles[i]
          BY <1>2, <1>12, <2>1, <4>2 DEF GuestTypes
        <5>2. opened'[i] = opened[i] /\ opened[i] # named /\ opened[i] # NoFile
          BY <1>11, <3>1, <5>1
        <5>3. \E t \in Busy(dir') : dir'[t].file = opened[i] /\ dir'[t].start = handles[i].start
          BY <1>15, <5>2, OthersKept
        <5> QED
          BY <5>1, <5>2, <5>3
      <4> QED
        BY <4>1, <4>2
    <3> QED
      BY <3>1 DEF HandlesFollowFiles, InUse, Busy
  <2>5. GuestTypes'
    <3>1. handles' \in [Handles -> [start : {0, FAT_EMPTYFILE} \cup DataBlocks, offset : 0 .. MaxSize]]
      BY <1>2, <1>3, <2>1, <2>2, GeometryAssumption DEF GuestTypes
    <3>2. opened' \in [Handles -> Files \cup {NoFile}]
      BY <1>3, <1>4, <1>12, <2>1
    <3> QED
      BY <1>13, <1>14, <3>1, <3>2 DEF GuestTypes
  <2>6. ChecksumRightUnlessFull'
    BY <2>1 DEF ChecksumRightUnlessFull
  <2> QED
    BY <1>16, <2>2, <2>4, <2>5, <2>6, Parts
<1>18. CASE ~made
  <2>1. /\ fat' = left.fat /\ used' = left.used /\ dir' = left.dir /\ chksum' = chksum
        /\ handles' = handles /\ opened' = Forget(named)
    BY <1>1, <1>10, <1>18
  <2>2. Sound(fat', used', dir')
    BY <1>6, <2>1
  <2>3. HandlesFollowFiles'
    <3>1. ASSUME NEW i \in Handles, opened'[i] # NoFile
          PROVE  \E t \in Busy(dir') : dir'[t].file = opened'[i] /\ dir'[t].start = handles'[i].start
      <4>1. opened'[i] = opened[i] /\ opened[i] # named /\ opened[i] # NoFile /\ handles'[i] = handles[i]
        BY <1>11, <2>1, <3>1
      <4>2. \E t \in Busy(dir') : dir'[t].file = opened[i] /\ dir'[t].start = handles[i].start
        BY <1>15, <4>1, OthersKept
      <4> QED
        BY <4>1, <4>2
    <3> QED
      BY <3>1 DEF HandlesFollowFiles, InUse, Busy
  <2>4. GuestTypes'
    BY <1>2, <1>12, <1>13, <1>14, <2>1 DEF GuestTypes
  <2>5. ChecksumRightUnlessFull'
    <3>1. CASE left.dir = dir /\ ~failed
      <4>1. fat' = fat /\ used' = used /\ chksum' = chksum
        BY <1>6, <2>1, <3>1
      <4> QED
        BY <3>1, <4>1 DEF IInv, ChecksumRightUnlessFull
    <3>2. CASE left.dir # dir \/ failed
      BY <1>1, <1>18, <3>2 DEF ChecksumRightUnlessFull
    <3> QED
      BY <3>1, <3>2
  <2> QED
    BY <1>16, <2>2, <2>3, <2>4, <2>5, Parts
<1> QED
  BY <1>17, <1>18

----------------------------------------------------------------------------
(* What holds of every execution. *)

\* Every call keeps the invariant.
LEMMA StepIs ==
    ASSUME IInv, [Next]_vars
    PROVE  IInv'
<1>1. CASE \E a \in Apps : Initialize(a)
  BY <1>1, InitializeStep
<1>2. CASE \E n \in Names, size \in 0 .. MaxSize : Create(n, size)
  BY <1>2, CreateStep
<1>3. CASE \E n \in Names : Open(n)
  BY <1>3, OpenStep
<1>4. CASE \E h \in Handles : Close(h)
  BY <1>4, CloseStep
<1>5. CASE \E a \in Apps, n \in Names : Delete(a, n)
  BY <1>5, DeleteStep
<1>6. CASE \E h \in Handles, count \in 1 .. MaxSize : Read(h, count)
  BY <1>6, MovedStep DEF Read
<1>7. CASE \E h \in Handles, count \in 1 .. MaxSize : Write(h, count)
  BY <1>7, MovedStep DEF Write
<1>8. CASE \E h \in Handles, offset \in -1 .. MaxSize, relative \in BOOLEAN :
               Seek(h, offset, relative)
  BY <1>8, SeekStep
<1>9. CASE \E own \in BOOLEAN : SearchFirst(own)
  BY <1>9, SearchFirstStep
<1>10. CASE SearchNext
  BY <1>10, SearchNextStep
<1>11. CASE NVMBiosReset
  BY <1>11, NVMBiosResetStep
<1>12. CASE UNCHANGED vars
  <2>1. /\ UNCHANGED <<disk, failed>> /\ UNCHANGED <<app, handles, search, opened, due>>
    BY <1>12 DEF vars
  <2>2. GuestTypes'
    BY <2>1, Now DEF GuestTypes
  <2>3. Sound(fat', used', dir') /\ ChecksumRightUnlessFull' /\ dir' = dir
    BY <2>1, DiskKept
  <2>4. HandlesFollowFiles'
    BY <2>1, <2>3 DEF IInv, HandlesFollowFiles, InUse
  <2>5. DueAhead'
    BY <2>1, <2>3, DueKept
  <2> QED
    BY <2>2, <2>3, <2>4, <2>5, Parts
<1> QED
  BY <1>1, <1>2, <1>3, <1>4, <1>5, <1>6, <1>7, <1>8, <1>9, <1>10, <1>11, <1>12 DEF Next

\* The invariant of the file system and of the guest's handles and search.
THEOREM NvmInvariant ==
    Spec => []IInv
<1>1. Init => IInv
  BY InitIs
<1>2. IInv /\ [Next]_vars => IInv'
  BY StepIs
<1> QED
  BY <1>1, <1>2, PTL DEF Spec

\* The type of the state.
THEOREM NvmTypeOK ==
    Spec => []TypeOK
<1>1. IInv => TypeOK
  BY DEF IInv
<1> QED
  BY <1>1, NvmInvariant, PTL

\* After every call, failed ones included, the FAT, the directory and the used count
\* agree: for any size of cartridge, of directory and of file.
THEOREM FatSoundAlways ==
    Spec => []FatSound
<1>1. IInv => FatSound
  BY SoundIsFatSound DEF IInv
<1> QED
  BY <1>1, NvmInvariant, PTL

\* A handle follows its file while that exists.
THEOREM HandlesFollowFilesAlways ==
    Spec => []HandlesFollowFiles
<1>1. IInv => HandlesFollowFiles
  BY DEF IInv
<1> QED
  BY <1>1, NvmInvariant, PTL

\* A search that has come to the end of the directory has missed nothing.
THEOREM SearchReportsAllAlways ==
    Spec => []SearchReportsAll
<1>1. ASSUME IInv, search.at >= Cardinality(Slots), NEW f \in due
      PROVE  FALSE
  <2>1. PICK s \in Busy(dir) : s >= search.at
    BY <1>1 DEF IInv, DueAhead
  <2>2. s \in 0 .. Cardinality(Slots) - 1 /\ Cardinality(Slots) \in Nat
    BY Indices DEF Busy
  <2>3. search.at \in 0 .. Cardinality(Slots)
    BY <1>1, Now DEF GuestTypes
  <2> QED
    BY <1>1, <2>1, <2>2, <2>3
<1>2. IInv => SearchReportsAll
  BY <1>1 DEF SearchReportsAll
<1> QED
  BY <1>2, NvmInvariant, PTL

\* The stored checksum is right but after a Create that replaced a file and ran out.
THEOREM ChecksumRightUnlessFullAlways ==
    Spec => []ChecksumRightUnlessFull
<1>1. IInv => ChecksumRightUnlessFull
  BY DEF IInv
<1> QED
  BY <1>1, NvmInvariant, PTL

\* The blocks a Write through a followed handle touches are in its file's chain.
LEMMA TouchedInFile ==
    ASSUME IInv, NEW h \in Handles, NEW count \in 1 .. MaxSize, Write(h, count),
           opened[h] # NoFile, handles[h].start # FAT_EMPTYFILE
    PROVE  wrote' \subseteq UNION {ChainOf(s) : s \in FindFile(dir, opened[h])}
<1> DEFINE w == Walk(fat, handles[h].start)
<1>0. Sound(fat, used, dir) /\ handles[h].offset \in Nat
  BY Now DEF GuestTypes
<1>1. PICK s \in InUse : dir[s].file = opened[h] /\ dir[s].start = handles[h].start
  BY DEF IInv, HandlesFollowFiles
<1>2. s \in Busy(dir) /\ s \in FindFile(dir, opened[h])
  BY <1>1 DEF InUse, Busy, FindFile
<1>3. ChainOf(s) = Blocks(fat, handles[h].start, dir[s].num)
  BY <1>0, <1>1, SoundIsFatSound DEF BlocksOf
<1>4. dir[s].num \in 0 .. Cardinality(DataBlocks)
  BY <1>0, <1>2, TakenMany
<1>5. dir[s].num \in 0 .. LastHop
  BY <1>4, BlockCount
<1>6. Path(fat, handles[h].start, dir[s].num)
  BY <1>0, <1>1, <1>2 DEF Sound
<1>7. count \in Nat /\ MaxSize \in Nat /\ handles[h].offset + count <= MaxSize
  BY GeometryAssumption DEF Write, Moved
<1>8. /\ Transferred(h, count) \in 0 .. count
      /\ \A i \in 0 .. Transferred(h, count) - 1 : InRange(h, handles[h].offset + i)
  BY <1>7, TransferIs
<1>9. ASSUME NEW i \in 0 .. Transferred(h, count) - 1
      PROVE  BlockAt(h, handles[h].offset + i) \in ChainOf(s)
  <2>1. handles[h].offset + i \in 0 .. MaxSize
    BY <1>0, <1>7, <1>8
  <2> DEFINE k == (handles[h].offset + i) \div BlockSize
  <2>2. k \in 0 .. LastHop
    BY <2>1, OffsetBlock
  <2>3. w[k] >= FAT_EMPTYFILE /\ BlockAt(h, handles[h].offset + i) = w[k]
    BY <1>8 DEF InRange, BlockAt
  <2> HIDE DEF k
  <2>4. k \in 0 .. dir[s].num - 1
    BY <1>5, <1>6, <2>2, <2>3, OnPath
  <2> QED
    BY <1>3, <2>3, <2>4 DEF Blocks
<1>10. wrote' = {BlockAt(h, handles[h].offset + i) : i \in 0 .. Transferred(h, count) - 1}
  BY DEF Write, Touched
<1> QED
  BY <1>2, <1>9, <1>10

\* A Write through a handle whose file still exists stays within that file, for any
\* block size and however fragmented the file is.
THEOREM WritesAlwaysStayInFile ==
    Spec => WritesStayInFile
<1>1. ASSUME IInv, Next, NEW h \in Handles, wrote' # {}, handles'[h].offset # handles[h].offset,
             opened[h] # NoFile, handles[h].start # FAT_EMPTYFILE
      PROVE  wrote' \subseteq UNION {ChainOf(s) : s \in FindFile(dir, opened[h])}
  <2>1. PICK i \in Handles, count \in 1 .. MaxSize : Write(i, count)
    <3> HIDE DEF IInv
    <3>1. ASSUME NEW a \in Apps, NEW n \in Names, Delete(a, n)
          PROVE  wrote' = {}
      BY <3>1 DEF Delete
    <3>2. ASSUME NEW n, NEW i, NEW count, Open(n) \/ Close(i) \/ Read(i, count)
          PROVE  wrote' = {}
      BY <3>2 DEF Open, Close, Read
    <3>3. ASSUME NEW i, NEW offset, NEW relative, NEW own,
                 Seek(i, offset, relative) \/ SearchFirst(own) \/ SearchNext \/ NVMBiosReset
          PROVE  wrote' = {}
      BY <3>3 DEF Seek, SearchFirst, SearchNext, NVMBiosReset
    <3>4. ASSUME NEW a \in Apps, Initialize(a)
          PROVE  wrote' = {}
      BY <3>4 DEF Initialize
    <3>5. ASSUME NEW n \in Names, NEW size, Create(n, size)
          PROVE  wrote' = {}
      BY <3>5 DEF Create
    <3> QED
      BY <1>1, <3>1, <3>2, <3>3, <3>4, <3>5 DEF Next
  <2>2. i = h
    <3>1. handles' = [handles EXCEPT ![i].offset = @ + Transferred(i, count)]
      BY <2>1 DEF Write, Moved
    <3>2. handles \in [Handles -> [start : {0, FAT_EMPTYFILE} \cup DataBlocks, offset : 0 .. MaxSize]]
      BY <1>1, Now DEF GuestTypes
    <3>3. h # i => handles'[h] = handles[h]
      BY <3>1, <3>2
    <3> QED
      BY <1>1, <3>3
  <2> QED
    BY <1>1, <2>1, <2>2, TouchedInFile
<1>2. IInv /\ [Next]_vars =>
        [\A h \in Handles :
           /\ wrote' # {}
           /\ handles'[h].offset # handles[h].offset
           /\ opened[h] # NoFile
           /\ handles[h].start # FAT_EMPTYFILE
           => wrote' \subseteq UNION {ChainOf(s) : s \in FindFile(dir, opened[h])}]_vars
  BY <1>1
<1> QED
  BY <1>2, NvmInvariant, PTL DEF Spec, WritesStayInFile

-----------------------------------------------------------------------------
(* SaveRam: the save buffer and what is behind it.                         *)

Eeproms == [ram : Bank, enabled : BOOLEAN]
Flash  == [mem : Bank, state : {"IDLE", "PHASE1", "PHASE2"},
           cmd : {"NONE", "PROD_ID", "WRITE_ENABLE"}, override : BOOLEAN]
FileOf(c) == CASE c = "cart"   -> [ee : Bank]
               [] c = "cd"     -> Buffer \cup [mt : Bank]
               [] c = "mtcart" -> [mt : Bank]

\* The state machine of the flash is never further than the command writes are.
Unlocking(m, k) == (m.state = "PHASE1" => k = 1) /\ (m.state = "PHASE2" => k = 2)

\* A savestate is one of the content it names; a cartridge never wrote the flash.
ImageSound(i) ==
    /\ i.content \in Contents
    /\ i.eeprom \in Eeproms /\ i.cdRam \in Bank /\ i.mt \in Flash
    /\ i.content = "cart" => i.mt.mem = Filled(Blank)
    /\ Unlocking(i.mt, i.matched)

Typed ==
    /\ content \in Contents \cup {"none"} /\ inFrame \in BOOLEAN /\ mtRom \in BOOLEAN
    /\ eeprom \in Eeproms /\ cdRam \in Bank /\ mt \in Flash
    /\ buf \in Buffer /\ mtDirty \in BOOLEAN /\ unpack \in BOOLEAN
    /\ file = [c \in Contents |-> file[c]]
    /\ \A c \in Contents : file[c] \in {NoSave} \cup FileOf(c)
    /\ image # NoImage => ImageSound(image)

\* Frames and sessions: the flash is marked inside a frame only, the buffer waits to be
\* unpacked before the first frame only, and between titles everything is as new but
\* the checksum, which any cartridge sets right.
Phases ==
    /\ inFrame => content # "none" /\ ~unpack
    /\ ~inFrame => ~mtDirty
    /\ content = "none" =>
          ~unpack /\ strays = {} /\ buf = EmptyBuffer /\ fresh.ee /\ fresh.mt
    /\ content = "cart" => mt.mem = Filled(Blank) /\ ~mtRom
    /\ content = "mtcart" => mtRom

\* The buffer and the machine, once unpacked.
InSync ==
    content \in {"cart", "cd"} /\ ~mtRom /\ ~unpack /\ strays = {} =>
        /\ buf.ee = eeprom.ram
        /\ content = "cd" => buf.cd = cdRam /\ (mtDirty \/ buf.mt = mt.mem)

\* Before the first frame: what it will find.
Blanked ==
    IF mtRom
    THEN "load" \in strays \/ /\ content = "mtcart" => eeprom.ram = Filled(Blank)
                              /\ cdRam = Factory
                              /\ mt.mem = Filled(Blank)
    ELSE buf = EmptyBuffer
Filed ==
    CASE content = "cart"   -> buf.ee = file[content].ee
      [] content = "cd"     -> mtRom \/ buf = file[content]
      [] content = "mtcart" -> "load" \in strays \/ mt.mem = file[content].mt
Waiting ==
    unpack => /\ file[content] = NoSave => Blanked
              /\ file[content] \in Given(content, mtRom) => Filed

RamInv == Typed /\ Phases /\ InSync /\ Waiting /\ Unlocking(mt, matched)

\* The assumption on the constants, by part.
LEMMA RamConstants ==
    /\ Contents \subseteq {"cart", "cd", "mtcart"} /\ "none" \notin Contents
    /\ Factory \in Bank /\ Filled(Zero) \in Bank /\ Filled(Blank) \in Bank
    /\ EmptyBuffer \in Buffer
    /\ \A c \in Contents : NoSave \notin FileOf(c)
    /\ NoSave \notin [ee : Bank] /\ NoSave \notin [mt : Bank] /\ NoSave \notin Buffer
BY SaveRamAssumption DEF Bank, Filled, EmptyBuffer, Buffer, FileOf

\* A file is given whole exactly when it has the size of the memory; which the files of
\* cartridges always have.
LEMMA GivenIs ==
    ASSUME NEW c \in {"cart", "cd", "mtcart"}, NEW rom \in BOOLEAN,
           c = "cart" => ~rom, c = "mtcart" => rom
    PROVE  /\ c = "cart" => Given(c, rom) = [ee : Bank]
           /\ c = "cd" /\ ~rom => Given(c, rom) = Buffer
           /\ c = "mtcart" => Given(c, rom) = [mt : Bank]
           /\ c # "cd" => Given(c, rom) = FileOf(c)
           /\ rom => Given(c, rom) = [mt : Bank]
BY DEF Given, FileOf

LEMMA RamInvInit == SaveInit => RamInv
<1> SUFFICES ASSUME SaveInit PROVE RamInv
  OBVIOUS
<1>1. Typed
  BY RamConstants DEF SaveInit, Typed, Eeproms, Flash
<1>2. Phases
  BY RamConstants DEF SaveInit, Phases
<1> QED
  BY <1>1, <1>2, RamConstants DEF SaveInit, RamInv, InSync, Waiting, Unlocking

\* The steps, one lemma each.
LEMMA LoadGameStep ==
    ASSUME RamInv, NEW c \in Contents, NEW misfit \in Buffer, LoadGame(c, misfit)
    PROVE  RamInv'
<1> DEFINE rom  == RomAfter(c)
           read == IF file[c] \in Given(c, rom) THEN file[c] ELSE misfit
<1>0. /\ content = "none" /\ content' = c /\ c \in Contents /\ c \in {"cart", "cd", "mtcart"}
      /\ ~inFrame /\ ~inFrame' /\ ~mtDirty /\ ~mtDirty' /\ unpack' /\ strays = {} /\ strays' = {}
      /\ buf = EmptyBuffer /\ fresh.ee /\ fresh.mt /\ file' = file /\ image' = image
      /\ c # "none" /\ matched' = 0
  BY RamConstants DEF RamInv, Phases, Typed, LoadGame, outside
<1>1. rom \in BOOLEAN /\ (c = "cart" => ~rom) /\ (c = "mtcart" => rom) /\ mtRom' = rom
  BY <1>0 DEF RamInv, Typed, RomAfter, LoadGame
<1>2. file[c] # NoSave => file[c] \in FileOf(c)
  BY DEF RamInv, Typed
<1>3. /\ mt' = [mem |-> IF file[c] # NoSave /\ rom THEN read.mt ELSE Filled(Blank),
                state |-> "IDLE", cmd |-> "NONE", override |-> FALSE]
      /\ cdRam' = Factory
      /\ eeprom' = [ram |-> IF c # "cd" THEN Filled(Blank) ELSE eeprom.ram, enabled |-> FALSE]
      /\ buf' = CASE ~(file[c] # NoSave) \/ rom               -> buf
                  [] file[c] # NoSave /\ ~rom /\ c = "cd"   -> read
                  [] file[c] # NoSave /\ ~rom /\ c # "cd"   -> [buf EXCEPT !.ee = read.ee]
  BY <1>0 DEF LoadGame, MTReset
<1> HIDE DEF rom
<1>4. /\ read \in Buffer \/ read \in Given(c, rom)
      /\ c # "cd" /\ file[c] # NoSave => read = file[c]
  BY <1>0, <1>1, <1>2, GivenIs
<1> HIDE DEF read
<1>5. /\ rom => read.mt \in Bank
      /\ ~rom /\ c = "cd" => read \in Buffer
      /\ c = "cart" => read.ee \in Bank
  <2>1. CASE read \in Buffer
    BY <2>1 DEF Buffer
  <2>2. CASE read \in Given(c, rom)
    <3>1. CASE rom
      BY <1>0, <1>1, <2>2, <3>1 DEF Given
    <3>2. CASE ~rom
      BY <1>0, <1>1, <2>2, <3>2 DEF Given, Buffer
    <3> QED BY <3>1, <3>2
  <2> QED BY <1>4, <2>1, <2>2
<1>6. mt' \in Flash
  BY <1>3, <1>5, RamConstants DEF Flash
<1>7. eeprom' \in Eeproms
  BY <1>3, RamConstants DEF RamInv, Typed, Eeproms
<1>8. buf' \in Buffer
  BY <1>0, <1>1, <1>3, <1>5, RamConstants DEF Buffer
<1>9. Typed'
  <2>1. cdRam' \in Bank /\ mtRom' \in BOOLEAN /\ content' \in Contents
    BY <1>0, <1>1, <1>3, RamConstants
  <2>2. file' = [k \in Contents |-> file'[k]] /\ \A k \in Contents : file'[k] \in {NoSave} \cup FileOf(k)
    BY <1>0 DEF RamInv, Typed
  <2>3. image' # NoImage => ImageSound(image')
    BY <1>0 DEF RamInv, Typed
  <2>4. unpack' \in BOOLEAN /\ inFrame' \in BOOLEAN /\ mtDirty' \in BOOLEAN
    BY DEF LoadGame, RamInv, Typed
  <2> QED BY <1>6, <1>7, <1>8, <2>1, <2>2, <2>3, <2>4 DEF Typed
<1>10. Phases'
  BY <1>0, <1>1, <1>3 DEF Phases
<1>11. ASSUME file[c] = NoSave PROVE Blanked'
  <2>1. CASE rom
    BY <1>0, <1>1, <1>3, <1>11, <2>1 DEF Blanked
  <2>2. CASE ~rom
    BY <1>0, <1>1, <1>3, <1>11, <2>2 DEF Blanked
  <2> QED BY <1>1, <2>1, <2>2
<1>12. ASSUME file[c] # NoSave, file[c] \in Given(c, rom) PROVE Filed'
  <2>1. read = file[c]
    BY <1>12 DEF read
  <2>2. CASE c = "cart"
    BY <1>0, <1>1, <1>3, <1>12, <2>1, <2>2 DEF Filed, EmptyBuffer
  <2>3. CASE c = "cd"
    BY <1>0, <1>1, <1>3, <1>12, <2>1, <2>3 DEF Filed
  <2>4. CASE c = "mtcart"
    BY <1>0, <1>1, <1>3, <1>12, <2>1, <2>4 DEF Filed
  <2> QED BY <1>0, <2>2, <2>3, <2>4
<1>13. file[c] \in Given(c, rom) => file[c] # NoSave
  <2>1. CASE rom
    BY <2>1, RamConstants DEF Given
  <2>2. CASE ~rom
    BY <2>2, RamConstants DEF Given
  <2> QED BY <2>1, <2>2
<1>14. Waiting'
  <2>1. file'[content'] = file[c] /\ Given(content', mtRom') = Given(c, rom)
    BY <1>0, <1>1
  <2> QED BY <1>11, <1>12, <1>13, <2>1 DEF Waiting
<1>15. InSync' /\ Unlocking(mt, matched)'
  BY <1>0, <1>3 DEF InSync, Unlocking
<1> QED
  BY <1>9, <1>10, <1>14, <1>15 DEF RamInv

LEMMA FrontendSavesStep ==
    ASSUME RamInv, FrontendSaves
    PROVE  RamInv'
<1> USE DEF FrontendSaves, machine, session
<1>0. /\ content \in Contents /\ content # "none" /\ ~inFrame /\ ~mtDirty /\ ~mtDirty' /\ ~inFrame'
      /\ content \in {"cart", "cd", "mtcart"} /\ mtRom \in BOOLEAN
      /\ (content = "cart" => ~mtRom) /\ (content = "mtcart" => mtRom)
  BY RamConstants DEF RamInv, Phases, Typed
<1>1. buf' = buf
  BY <1>0 DEF Flush
<1>2. /\ eeprom' = eeprom /\ cdRam' = cdRam /\ mt' = mt /\ matched' = matched /\ unpack' = unpack
      /\ content' = content /\ fresh' = fresh /\ image' = image /\ strays' = strays /\ inFrame' = inFrame
      /\ mtRom' = mtRom
  OBVIOUS
<1>3. /\ file' = [file EXCEPT ![content] = Exposed(buf)]
      /\ DOMAIN file = Contents
  BY <1>1 DEF RamInv, Typed
<1>4. Exposed(buf) \in FileOf(content)
  BY <1>0 DEF Exposed, FileOf, RamInv, Typed, Buffer, Flash
<1>5. /\ file'[content] = Exposed(buf) /\ file'[content] # NoSave
      /\ \A c \in Contents \ {content} : file'[c] = file[c]
  BY <1>0, <1>3, <1>4, RamConstants
<1>6. Typed'
  BY <1>0, <1>1, <1>2, <1>3, <1>4, <1>5 DEF RamInv, Typed
<1>7. Phases'
  BY <1>0, <1>1, <1>2 DEF RamInv, Phases
<1>8. InSync'
  BY <1>0, <1>1, <1>2 DEF RamInv, InSync
<1>9. Waiting'
  <2> HIDE DEF FrontendSaves
  <2>1. content = "cart" => file'[content].ee = buf.ee
    BY <1>0, <1>5 DEF Exposed
  <2>2. content = "cd" => mtRom \/ file'[content] = buf
    BY <1>5 DEF Exposed
  <2>3. content = "mtcart" => file'[content].mt = mt.mem
    BY <1>0, <1>5 DEF Exposed
  <2> QED BY <1>0, <1>1, <1>2, <1>5, <2>1, <2>2, <2>3 DEF Waiting, Filed
<1> QED
  BY <1>2, <1>6, <1>7, <1>8, <1>9 DEF RamInv, Unlocking

LEMMA UnloadGameStep ==
    ASSUME RamInv, UnloadGame
    PROVE  RamInv'
<1> USE DEF UnloadGame, machine, outside
<1>1. Typed'
  BY RamConstants DEF RamInv, Typed
<1>2. Phases'
  BY DEF Phases
<1> QED
  BY <1>1, <1>2 DEF RamInv, InSync, Waiting, Unlocking

LEMMA BeginFrameStep ==
    ASSUME RamInv, BeginFrame
    PROVE  RamInv'
<1> USE DEF BeginFrame, outside, session
<1>0. /\ content \in {"cart", "cd", "mtcart"} /\ content \in Contents /\ content # "none"
      /\ ~inFrame /\ inFrame' /\ ~unpack'
      /\ content' = content /\ buf' = buf /\ mtDirty' = mtDirty /\ file' = file /\ image' = image
      /\ matched' = matched /\ fresh' = fresh /\ ~mtDirty /\ mtRom' = mtRom
  BY RamConstants DEF RamInv, Typed, Phases
<1>1. CASE unpack /\ ~mtRom
  <2>1. /\ eeprom' = [eeprom EXCEPT !.ram = buf.ee] /\ cdRam' = buf.cd
        /\ mt' = [mt EXCEPT !.mem = IF content = "cd" THEN buf.mt ELSE mt.mem] /\ strays' = {}
    BY <1>1 DEF Unpacked
  <2>2. /\ eeprom' \in Eeproms /\ eeprom'.ram = buf.ee /\ cdRam' \in Bank /\ mt' \in Flash
        /\ mt'.mem = (IF content = "cd" THEN buf.mt ELSE mt.mem)
        /\ mt'.state = mt.state
    BY <2>1 DEF RamInv, Typed, Buffer, Eeproms, Flash
  <2>3. Typed'
    BY <1>0, <2>1, <2>2 DEF RamInv, Typed
  <2>4. Phases'
    BY <1>0, <1>1, <2>1, <2>2 DEF RamInv, Phases
  <2>5. InSync'
    BY <1>0, <1>1, <2>1, <2>2 DEF InSync
  <2>6. Waiting' /\ Unlocking(mt, matched)'
    BY <1>0, <2>2 DEF RamInv, Waiting, Unlocking
  <2> QED BY <2>3, <2>4, <2>5, <2>6 DEF RamInv
<1>2. CASE ~(unpack /\ ~mtRom)
  <2>1. eeprom' = eeprom /\ cdRam' = cdRam /\ mt' = mt /\ strays' = strays
    BY <1>2 DEF RamInv, Typed, Eeproms, Flash
  <2>2. Typed'
    BY <1>0, <2>1 DEF RamInv, Typed
  <2>3. Phases' /\ InSync'
    BY <1>0, <1>2, <2>1 DEF RamInv, Phases, InSync
  <2>4. Waiting' /\ Unlocking(mt, matched)'
    BY <1>0, <2>1 DEF RamInv, Waiting, Unlocking
  <2> QED BY <2>2, <2>3, <2>4 DEF RamInv
<1> QED BY <1>1, <1>2

LEMMA EndFrameStep ==
    ASSUME RamInv, EndFrame
    PROVE  RamInv'
<1> USE DEF EndFrame, machine, session, outside
<1>1. buf' \in Buffer /\ buf'.ee = buf.ee /\ buf'.cd = buf.cd
      /\ (buf'.mt = IF mtDirty THEN mt.mem ELSE buf.mt)
  BY DEF Flush, RamInv, Typed, Buffer, Flash
<1>2. Typed'
  BY <1>1 DEF RamInv, Typed
<1>3. Phases' /\ InSync' /\ Waiting'
  BY <1>1 DEF RamInv, Phases, InSync, Waiting
<1> QED BY <1>2, <1>3 DEF RamInv, Unlocking

LEMMA ResetStep ==
    ASSUME RamInv, Reset
    PROVE  RamInv'
<1> USE DEF Reset, buffer, session, outside
<1>1. eeprom' \in Eeproms /\ eeprom'.ram = eeprom.ram /\ cdRam' = Factory /\ cdRam' \in Bank
      /\ mt' \in Flash /\ mt'.mem = mt.mem /\ mt'.state = "IDLE"
  BY RamConstants DEF RamInv, Typed, Eeproms, Flash, MTReset
<1>2. Typed'
  BY <1>1 DEF RamInv, Typed
<1>3. Phases' /\ InSync'
  BY <1>1 DEF RamInv, Phases, InSync
<1>4. Waiting'
  <2> SUFFICES ASSUME unpack
               PROVE  /\ file[content] = NoSave => Blanked'
                      /\ file[content] \in Given(content, mtRom) => Filed'
    BY DEF Waiting
  <2>1. content \in {"cart", "cd", "mtcart"}
    BY RamConstants DEF RamInv, Typed
  <2>2. ASSUME file[content] = NoSave PROVE Blanked'
    BY <1>1, <2>1, <2>2 DEF RamInv, Waiting, Blanked
  <2>3. ASSUME file[content] \in Given(content, mtRom) PROVE Filed'
    BY <1>1, <2>1, <2>3 DEF RamInv, Waiting, Filed
  <2> QED BY <2>2, <2>3
<1> QED BY <1>1, <1>2, <1>3, <1>4 DEF RamInv, Unlocking

LEMMA SerializeStep ==
    ASSUME RamInv, Serialize
    PROVE  RamInv'
<1> USE DEF Serialize, machine, buffer, session
<1>1. ImageSound(image')
  BY DEF RamInv, Typed, Phases, ImageSound
<1>2. Typed'
  BY <1>1 DEF RamInv, Typed
<1> QED BY <1>2 DEF RamInv, Phases, InSync, Waiting, Blanked, Filed, Unlocking

LEMMA UnserializeStep ==
    ASSUME RamInv, Unserialize
    PROVE  RamInv'
<1> USE DEF Unserialize, buffer, session, outside
<1>1. ImageSound(image) /\ image.content = content /\ strays' = strays \cup {"load"} /\ "load" \in strays'
  BY DEF RamInv, Typed
<1>2. Typed'
  BY <1>1 DEF RamInv, Typed, ImageSound
<1>3. Phases' /\ InSync' /\ Unlocking(mt, matched)'
  BY <1>1 DEF RamInv, Phases, InSync, ImageSound
<1>4. Waiting'
  <2> SUFFICES ASSUME unpack
               PROVE  /\ file[content] = NoSave => Blanked'
                      /\ file[content] \in Given(content, mtRom) => Filed'
    BY DEF Waiting
  <2>1. content \in {"cart", "cd", "mtcart"}
    BY RamConstants DEF RamInv, Typed
  <2>2. ASSUME file[content] = NoSave PROVE Blanked'
    BY <1>1, <2>1, <2>2 DEF RamInv, Waiting, Blanked
  <2>3. ASSUME file[content] \in Given(content, mtRom) PROVE Filed'
    BY <1>1, <2>1, <2>3 DEF RamInv, Waiting, Filed
  <2> QED BY <2>2, <2>3
<1> QED BY <1>2, <1>3, <1>4 DEF RamInv

LEMMA EepromStep ==
    ASSUME RamInv, EepromSelect \/ \E cmd \in Commands : EepromCommand(cmd)
    PROVE  RamInv'
<1>1. CASE EepromSelect
  <2> USE <1>1 DEF EepromSelect, buffer, session, outside
  <2>1. eeprom' \in Eeproms /\ eeprom'.ram = eeprom.ram
    BY DEF RamInv, Typed, Eeproms
  <2>2. Typed'
    BY <2>1 DEF RamInv, Typed
  <2> QED BY <2>1, <2>2 DEF RamInv, Phases, InSync, Waiting, Unlocking
<1>2. ASSUME NEW cmd \in Commands, EepromCommand(cmd) PROVE RamInv'
  <2> DEFINE words == Programmed(eeprom.ram, eeprom.enabled, cmd)
             packs == Notifies(eeprom.enabled, cmd)
  <2> USE <1>2 DEF EepromCommand, session, outside
  <2>0. /\ inFrame /\ inFrame' = inFrame /\ ~unpack /\ unpack' = unpack
        /\ content' = content /\ content \in {"cart", "cd", "mtcart"} /\ mtRom' = mtRom
        /\ cdRam' = cdRam /\ mt' = mt /\ matched' = matched /\ fresh' = fresh
        /\ file' = file /\ image' = image
    BY RamConstants DEF RamInv, Phases, Typed
  <2>1. words \in Bank
    <3>1. eeprom.ram \in [Addr -> Word] /\ Blank \in Word
      BY SaveRamAssumption DEF RamInv, Typed, Eeproms, Bank
    <3> QED BY <3>1 DEF Programmed, Commands, Bank
  <2>2. packs \in BOOLEAN /\ EnabledAfter(eeprom.enabled, cmd) \in BOOLEAN
    BY DEF RamInv, Typed, Eeproms, Notifies, EnabledAfter
  <2>3. ~packs => words = eeprom.ram \/ "erase" \in strays'
    <3>1. ~packs /\ words # eeprom.ram => eeprom.enabled /\ cmd.op \in {"ERASE", "ERAL"}
      BY DEF Programmed, Notifies, Commands
    <3> QED BY <3>1
  <2>4. /\ eeprom' = [ram |-> words, enabled |-> EnabledAfter(eeprom.enabled, cmd)]
        /\ buf' = (IF packs THEN Packed(buf, words, cdRam, mt.mem) ELSE buf)
        /\ mtDirty' = (mtDirty /\ ~(packs /\ content = "cd"))
        /\ ~packs => strays \subseteq strays'
    OBVIOUS
  <2> HIDE <1>2 DEF words, packs
  <2>5. eeprom' \in Eeproms /\ eeprom'.ram = words
    BY <2>1, <2>2, <2>4 DEF Eeproms
  <2>6. buf' \in Buffer
    BY <2>1, <2>2, <2>4 DEF RamInv, Typed, Buffer, Packed, Flash
  <2>7. Typed'
    <3>1. mtDirty' \in BOOLEAN
      BY <2>4
    <3> QED BY <2>0, <2>5, <2>6, <3>1 DEF RamInv, Typed
  <2>8. Phases' /\ Waiting' /\ Unlocking(mt, matched)'
    BY <2>0 DEF RamInv, Phases, Waiting, Unlocking
  <2>9. InSync'
    <3>1. CASE packs
      <4>1. buf'.ee = words /\ buf'.cd = cdRam /\ (content = "cd" => buf'.mt = mt.mem)
        BY <2>4, <3>1 DEF Packed
      <4> QED BY <2>0, <2>5, <4>1 DEF InSync
    <3>2. CASE ~packs
      <4> SUFFICES ASSUME content \in {"cart", "cd"}, ~mtRom, strays' = {}
                   PROVE  buf.ee = words /\ (content = "cd" => buf.cd = cdRam /\ (mtDirty \/ buf.mt = mt.mem))
        BY <2>0, <2>4, <2>5, <3>2 DEF InSync
      <4>1. strays = {} /\ words = eeprom.ram
        BY <2>3, <2>4, <3>2
      <4> QED BY <2>0, <4>1 DEF RamInv, InSync
    <3> QED BY <3>1, <3>2
  <2> QED BY <2>7, <2>8, <2>9 DEF RamInv
<1> QED BY <1>1, <1>2

LEMMA GuestStep ==
    ASSUME RamInv,
           \/ \E a \in Addr : CDErase(a)
           \/ \E reg \in Registers, data \in CommandData : MTCommandWrite(reg, data)
           \/ \E a \in Addr, w \in Word : MTDataWrite(a, w) \/ NVMBiosWrite(a, w)
    PROVE  RamInv'
<1>1. ASSUME NEW a \in Addr, CDErase(a) PROVE RamInv'
  <2> USE <1>1 DEF CDErase, buffer, session, outside
  <2>1. cdRam' \in Bank /\ strays' # {}
    <3>1. Blank \in Word /\ cdRam \in [Addr -> Word]
      BY SaveRamAssumption DEF RamInv, Typed, Bank
    <3> QED BY <3>1 DEF Bank
  <2>2. Typed'
    BY <2>1 DEF RamInv, Typed
  <2> QED BY <2>1, <2>2 DEF RamInv, Phases, InSync, Waiting, Unlocking
<1>2. ASSUME NEW reg \in Registers, NEW data \in CommandData, MTCommandWrite(reg, data) PROVE RamInv'
  <2> USE <1>2 DEF MTCommandWrite, buffer, session, outside
  <2> DEFINE m == MTStateMachine(mt, reg, data)
  <2>1. m \in Flash /\ m.mem = mt.mem
    BY DEF MTStateMachine, RamInv, Typed, Flash, Registers
  <2>2. /\ m.state = "PHASE1" => reg = 1 /\ data = "AA"
        /\ m.state = "PHASE2" => mt.state = "PHASE1" /\ reg = 2 /\ data = "55"
    BY DEF MTStateMachine, RamInv, Typed, Flash, Registers
  <2>3. mt' = [m EXCEPT !.override = @ \/ (reg = 2 /\ data = "55")]
    BY DEF m, MTStateMachine, RamInv, Typed, Flash
  <2> HIDE DEF m
  <2>4. mt' \in Flash /\ mt'.mem = mt.mem /\ mt'.state = m.state
    BY <2>1, <2>3 DEF Flash
  <2>5. Unlocking(mt, matched)'
    BY <2>2, <2>4 DEF RamInv, Unlocking
  <2>6. Typed'
    BY <2>4 DEF RamInv, Typed
  <2> QED BY <2>4, <2>5, <2>6 DEF RamInv, Phases, InSync, Waiting
<1>3. ASSUME NEW a \in Addr, NEW w \in Word, MTDataWrite(a, w) \/ NVMBiosWrite(a, w) PROVE RamInv'
  <2>0. /\ inFrame /\ inFrame' /\ content' = content /\ mtRom' = mtRom /\ (content = "cd" \/ mtRom)
        /\ mt' = [mt EXCEPT !.mem = [mt.mem EXCEPT ![a] = w]] /\ mtDirty'
        /\ eeprom' = eeprom /\ cdRam' = cdRam /\ matched' = matched /\ buf' = buf /\ unpack' = unpack
        /\ fresh' = fresh /\ file' = file /\ image' = image /\ strays' = strays
    BY <1>3 DEF MTDataWrite, NVMBiosWrite, MemTrackPresent, session, outside
  <2>1. mt' \in Flash /\ mt'.state = mt.state
    BY <2>0 DEF RamInv, Typed, Flash, Bank
  <2>2. Typed'
    BY <2>0, <2>1 DEF RamInv, Typed
  <2> QED BY <2>0, <2>1, <2>2 DEF RamInv, Phases, InSync, Waiting, Unlocking
<1> QED BY <1>1, <1>2, <1>3

\* Every step keeps the invariant.
LEMMA RamInvNext == RamInv /\ [SaveNext]_saveVars => RamInv'
<1> SUFFICES ASSUME RamInv, [SaveNext]_saveVars PROVE RamInv'
  OBVIOUS
<1>1. CASE UNCHANGED saveVars
  BY <1>1 DEF saveVars, machine, buffer, session, outside, RamInv, Typed, Phases, InSync,
              Waiting, Blanked, Filed, Given, Unlocking, ImageSound
<1> QED
  BY <1>1, LoadGameStep, FrontendSavesStep, UnloadGameStep, BeginFrameStep, EndFrameStep,
     ResetStep, SerializeStep, UnserializeStep, EepromStep, GuestStep DEF SaveNext

\* The save buffer, the memories behind it, the save files and the savestate hold what
\* the code can put there, for every size of the memories and every factory image.
THEOREM SaveRamTypeOK == SaveSpec => []SaveTypeOK
<1>1. RamInv => SaveTypeOK
  BY DEF RamInv, Typed, Phases, SaveTypeOK, Eeproms, Flash, FileOf
<1> QED BY <1>1, RamInvInit, RamInvNext, PTL DEF SaveSpec

\* retro_get_memory_data: outside a frame the frontend reads what the machine holds, for
\* any number of titles, resets, commands and states, unless something moved a memory
\* that the code does not follow (strays).
THEOREM BufferAgreesAlways == SaveSpec => []BufferAgrees
<1>1. RamInv => BufferAgrees
  <2> SUFFICES ASSUME RamInv, content # "none", ~inFrame, ~unpack, strays = {}, ~Mistaken
               PROVE  Exposed(buf) = Machine
    BY DEF BufferAgrees
  <2>1. content \in {"cart", "cd", "mtcart"} /\ buf \in Buffer /\ ~mtDirty
    BY RamConstants DEF RamInv, Typed, Phases
  <2>2. mtRom <=> content = "mtcart"
    BY <2>1 DEF RamInv, Typed, Phases, Mistaken
  <2> QED BY <2>1, <2>2 DEF RamInv, InSync, Exposed, Machine, Buffer
<1> QED BY <1>1, RamInvInit, RamInvNext, PTL DEF SaveSpec

\* A first frame is a BeginFrame that moves the buffer into the machine.
LEMMA FirstFrameIs ==
    ASSUME RamInv, [SaveNext]_saveVars, FirstFrame
    PROVE  /\ BeginFrame /\ content \in {"cart", "cd", "mtcart"} /\ content \in Contents
           /\ content' = content /\ mtRom \in BOOLEAN
           /\ mtRom => eeprom'.ram = eeprom.ram /\ cdRam' = cdRam /\ mt'.mem = mt.mem
           /\ ~mtRom =>
                 /\ eeprom'.ram = buf.ee /\ cdRam' = buf.cd
                 /\ mt'.mem = IF content = "cd" THEN buf.mt ELSE mt.mem
<1>1. BeginFrame
  BY DEF FirstFrame, SaveNext, saveVars, LoadGame, FrontendSaves, UnloadGame, EndFrame, Reset, Serialize,
         Unserialize, EepromSelect, EepromCommand, CDErase, MTCommandWrite, MTDataWrite, NVMBiosWrite
<1>2. /\ content \in {"cart", "cd", "mtcart"} /\ content \in Contents /\ content' = content
      /\ mtRom \in BOOLEAN
  BY <1>1, RamConstants DEF BeginFrame, session, RamInv, Typed
<1> QED
  BY <1>1, <1>2 DEF BeginFrame, FirstFrame, Unpacked, RamInv, Typed, Eeproms, Flash

\* retro_run, the first frame: the machine gets the whole save file, whatever was reset
\* or loaded before it.
THEOREM FileReachesMachineAlways == SaveSpec => FileReachesMachine
<1>1. ASSUME RamInv, [SaveNext]_saveVars, FirstFrame, ~Mistaken, file[content] \in Given(content, mtRom)
      PROVE  Machine' = file[content] \/ (content = "mtcart" /\ "load" \in strays)
  <2>1. Filed /\ content \in {"cart", "cd", "mtcart"} /\ (mtRom <=> content = "mtcart")
    BY <1>1, FirstFrameIs DEF FirstFrame, RamInv, Waiting, Phases, Mistaken
  <2>2. CASE content = "cart"
    BY <1>1, <2>1, <2>2, FirstFrameIs DEF Filed, Given, Machine
  <2>3. CASE content = "cd"
    BY <1>1, <2>1, <2>3, FirstFrameIs DEF Filed, Given, Machine, Buffer
  <2>4. CASE content = "mtcart"
    BY <1>1, <2>1, <2>4, FirstFrameIs DEF Filed, Given, Machine
  <2> QED BY <2>1, <2>2, <2>3, <2>4
<1>2. RamInv /\ [SaveNext]_saveVars =>
         [FirstFrame /\ ~Mistaken /\ file[content] \in Given(content, mtRom)
            => Machine' = file[content] \/ (content = "mtcart" /\ "load" \in strays)]_saveVars
  BY <1>1
<1> QED BY <1>2, RamInvInit, RamInvNext, PTL DEF SaveSpec, FileReachesMachine

\* retro_unload_game and the next title: without a save file the first frame finds the
\* memories new, whatever the titles before left.
THEOREM NothingLeaksAlways == SaveSpec => NothingLeaks
<1> DEFINE Clean == \/ /\ eeprom'.ram \in {Filled(Blank), Filled(Zero)} \/ Mistaken
                       /\ cdRam' \in {Factory, Filled(Zero)}
                       /\ mt'.mem \in {Filled(Blank), Filled(Zero)}
                    \/ mtRom /\ "load" \in strays
<1>1. ASSUME RamInv, [SaveNext]_saveVars, FirstFrame, file[content] = NoSave PROVE Clean
  <2>1. Blanked
    BY <1>1 DEF FirstFrame, RamInv, Waiting
  <2>2. content = "cart" => mt.mem = Filled(Blank)
    BY <1>1 DEF RamInv, Phases
  <2>3. CASE mtRom
    <3>1. content = "mtcart" \/ Mistaken
      BY <1>1, <2>3, FirstFrameIs DEF RamInv, Phases, Mistaken
    <3> QED BY <1>1, <2>1, <2>3, <3>1, FirstFrameIs DEF Blanked
  <2>4. CASE ~mtRom
    <3>1. content \in {"cart", "cd"} /\ buf = EmptyBuffer
      BY <1>1, <2>1, <2>4, FirstFrameIs DEF RamInv, Phases, Blanked
    <3> QED BY <1>1, <2>2, <2>4, <3>1, FirstFrameIs DEF EmptyBuffer
  <2> QED BY <1>1, <2>3, <2>4
<1>2. RamInv /\ [SaveNext]_saveVars => [FirstFrame /\ file[content] = NoSave => Clean]_saveVars
  BY <1>1
<1> QED BY <1>2, RamInvInit, RamInvNext, PTL DEF SaveSpec, NothingLeaks

\* memtrack.c: the flash takes a command only behind both unlock writes, whatever else
\* is written in between.
THEOREM CommandNeedsUnlockAlways == SaveSpec => CommandNeedsUnlock
<1>1. ASSUME RamInv, [SaveNext]_saveVars, inFrame, inFrame', mt'.cmd # mt.cmd PROVE matched = 2
  <2>1. PICK reg \in Registers, data \in CommandData : MTCommandWrite(reg, data)
    <3>1. ASSUME NEW a \in Addr, NEW w \in Word, MTDataWrite(a, w) \/ NVMBiosWrite(a, w)
          PROVE  mt'.cmd = mt.cmd
      <4>1. mt \in Flash /\ mt' = [mt EXCEPT !.mem = [mt.mem EXCEPT ![a] = w]]
        BY <3>1, <1>1 DEF MTDataWrite, NVMBiosWrite, RamInv, Typed
      <4> QED BY <4>1 DEF Flash
    <3>2. ~(UNCHANGED saveVars) /\ ~EepromSelect /\ ~(\E cmd \in Commands : EepromCommand(cmd))
          /\ ~(\E a \in Addr : CDErase(a))
      BY <1>1 DEF saveVars, machine, EepromSelect, EepromCommand, CDErase
    <3>3. ~(\E c \in Contents, misfit \in Buffer : LoadGame(c, misfit)) /\ ~FrontendSaves /\ ~UnloadGame /\ ~BeginFrame /\ ~EndFrame
          /\ ~Reset /\ ~Serialize /\ ~Unserialize
      <4>1. ~(\E c \in Contents, misfit \in Buffer : LoadGame(c, misfit))
        BY <1>1 DEF LoadGame, RamInv, Phases
      <4> QED
        BY <1>1, <4>1 DEF FrontendSaves, UnloadGame, BeginFrame, EndFrame, Reset, Serialize, Unserialize
    <3> QED BY <1>1, <3>1, <3>2, <3>3 DEF SaveNext
  <2>2. mt.state = "PHASE2"
    BY <1>1, <2>1 DEF MTCommandWrite, MTStateMachine, RamInv, Typed, Flash
  <2> QED BY <1>1, <2>2 DEF RamInv, Unlocking
<1>2. RamInv /\ [SaveNext]_saveVars => [inFrame /\ inFrame' /\ mt'.cmd # mt.cmd => matched = 2]_saveVars
  BY <1>1
<1> QED BY <1>2, RamInvInit, RamInvNext, PTL DEF SaveSpec, CommandNeedsUnlock

------------------------------------------------------------------------------
(* Eeprom: powers of two, as the numbers of subsets.                       *)

\* 2^n is the number of subsets of n elements.
LEMMA PowerIs ==
    ASSUME NEW n \in Nat
    PROVE  /\ IsFiniteSet(SUBSET (1 .. n))
           /\ 2^n = Cardinality(SUBSET (1 .. n))
           /\ 2^n \in Nat /\ 2^n >= 1
<1>1. IsFiniteSet(1 .. n) /\ Cardinality(1 .. n) = n
  BY FS_Interval
<1>2. IsFiniteSet(SUBSET (1 .. n)) /\ Cardinality(SUBSET (1 .. n)) = 2^n
  <2>1. /\ IsFiniteSet(SUBSET (1 .. n))
        /\ Cardinality(SUBSET (1 .. n)) = 2^Cardinality(1 .. n)
    BY <1>1, FS_SUBSET
  <2> QED BY <1>1, <2>1
<1>3. Cardinality(SUBSET (1 .. n)) \in Nat
  BY <1>2, FS_CardinalityType
<1>4. Cardinality(SUBSET (1 .. n)) # 0
  <2>1. {} \in SUBSET (1 .. n)
    OBVIOUS
  <2> QED BY <1>2, <2>1, FS_EmptySet
<1> QED BY <1>2, <1>3, <1>4

\* The empty set has one subset.
LEMMA PowerZero == 2^0 = 1
<1>1. 2^0 = Cardinality(SUBSET (1 .. 0))
  BY PowerIs
<1>2. SUBSET (1 .. 0) = {{}}
  OBVIOUS
<1>3. Cardinality({{}}) = 1
  BY FS_Singleton
<1> QED BY <1>1, <1>2, <1>3

\* More elements have no fewer subsets.
LEMMA PowerMonotone ==
    ASSUME NEW m \in Nat, NEW n \in Nat, m <= n
    PROVE  2^m <= 2^n
<1>1. SUBSET (1 .. m) \in SUBSET (SUBSET (1 .. n))
  OBVIOUS
<1>2. IsFiniteSet(SUBSET (1 .. n))
  BY PowerIs
<1>3. Cardinality(SUBSET (1 .. m)) <= Cardinality(SUBSET (1 .. n))
  BY <1>1, <1>2, FS_Subset
<1>4. 2^m = Cardinality(SUBSET (1 .. m)) /\ 2^n = Cardinality(SUBSET (1 .. n))
  BY PowerIs
<1> QED BY <1>3, <1>4

\* Half of the subsets have the last element, and leaving it out maps them to the rest.
LEMMA PowerDoubles ==
    ASSUME NEW n \in Nat
    PROVE  2^(n + 1) = 2 * 2^n
<1> DEFINE Without == SUBSET (1 .. n)
           With    == {S \cup {n + 1} : S \in Without}
<1>1. SUBSET (1 .. n + 1) = Without \cup With
  <2>1. ASSUME NEW T \in SUBSET (1 .. n + 1)
        PROVE  T \in Without \cup With
    <3>1. CASE n + 1 \in T
      <4>1. T \ {n + 1} \in Without /\ T = (T \ {n + 1}) \cup {n + 1}
        BY <3>1
      <4> QED BY <4>1
    <3>2. CASE n + 1 \notin T
      BY <3>2
    <3> QED BY <3>1, <3>2
  <2>2. ASSUME NEW T \in Without \cup With
        PROVE  T \in SUBSET (1 .. n + 1)
    OBVIOUS
  <2> QED BY <2>1, <2>2
<1>2. Without \cap With = {}
  OBVIOUS
<1>3. IsFiniteSet(Without) /\ Cardinality(Without) = 2^n /\ 2^n \in Nat
  BY PowerIs
<1>4. IsFiniteSet(With) /\ Cardinality(With) = Cardinality(Without)
  <2> DEFINE f == [S \in Without |-> S \cup {n + 1}]
  <2>1. f \in Bijection(Without, With)
    <3>1. f \in [Without -> With]
      OBVIOUS
    <3>2. ASSUME NEW S \in Without, NEW T \in Without, f[S] = f[T]
          PROVE  S = T
      <4>1. S \cup {n + 1} = T \cup {n + 1}
        BY <3>2
      <4>2. n + 1 \notin S /\ n + 1 \notin T
        OBVIOUS
      <4> QED BY <4>1, <4>2
    <3>3. ASSUME NEW T \in With
          PROVE  \E S \in Without : f[S] = T
      OBVIOUS
    <3> HIDE DEF f, With, Without
    <3> QED BY <3>1, <3>2, <3>3 DEF Bijection, Injection, Surjection, IsInjective
  <2>2. ExistsBijection(Without, With)
    BY <2>1 DEF ExistsBijection
  <2> HIDE DEF With, Without
  <2> QED BY <1>3, <2>2, FS_Bijection
<1>5. Cardinality(Without \cup With)
        = Cardinality(Without) + Cardinality(With) - Cardinality(Without \cap With)
  <2> HIDE DEF With, Without
  <2> QED BY <1>3, <1>4, FS_Union
<1>6. Cardinality(Without \cap With) = 0
  BY <1>2, FS_EmptySet
<1>7. 2^(n + 1) = Cardinality(SUBSET (1 .. n + 1))
  BY PowerIs
<1>8. Cardinality(SUBSET (1 .. n + 1)) = Cardinality(Without \cup With)
  BY <1>1
<1> HIDE DEF With, Without
<1> QED BY <1>3, <1>4, <1>5, <1>6, <1>7, <1>8

\* In the form the steps below need: down from a positive exponent.
LEMMA PowerSteps ==
    ASSUME NEW n \in Nat, n # 0
    PROVE  2^n = 2 * 2^(n - 1) /\ 2^(n - 1) \in Nat /\ 2^(n - 1) >= 1
<1>1. n - 1 \in Nat /\ (n - 1) + 1 = n
  OBVIOUS
<1>2. 2^((n - 1) + 1) = 2 * 2^(n - 1)
  BY <1>1, PowerDoubles
<1> QED BY <1>1, <1>2, PowerIs

------------------------------------------------------------------------------
(* Division by powers of two.                                              *)

\* The quotient and the remainder of naturals.
LEMMA Division ==
    ASSUME NEW v \in Nat, NEW a \in Nat, a >= 1
    PROVE  v \div a \in Nat /\ \E r \in Nat : r < a /\ v = a * (v \div a) + r
<1>1. \E q \in Int, r \in 0 .. a - 1 : q = v \div a /\ v = a * q + r
  OBVIOUS
<1>2. PICK q \in Int, r \in 0 .. a - 1 : q = v \div a /\ v = a * q + r
  BY <1>1
<1>3. q <= -1 => a * q <= -a
  OBVIOUS
<1>4. v = a * q + r
  BY <1>2
<1>5. ~(q <= -1)
  BY <1>3, <1>4
<1>6. q \in Nat /\ r \in Nat /\ r < a
  BY <1>5
<1>7. q = v \div a
  BY <1>2
<1> QED BY <1>4, <1>6, <1>7, Zenon

\* A quotient is known by a remainder that is smaller than the divisor.
LEMMA Quotient ==
    ASSUME NEW v \in Nat, NEW a \in Nat, a >= 1, NEW q \in Nat, NEW r \in Nat, r < a,
           v = a * q + r
    PROVE  v \div a = q
<1> DEFINE p == v \div a
<1>a. p \in Nat /\ \E s \in Nat : s < a /\ v = a * p + s
  BY Division
<1> HIDE DEF p
<1>1. PICK s \in Nat : s < a /\ v = a * p + s
  BY <1>a
<1>2. a * (p - q) = r - s
  BY <1>a, <1>1
<1>3. p - q \in Int /\ -a < r - s /\ r - s < a
  BY <1>a, <1>1
<1>4. ~(p - q >= 1)
  <2>1. p - q >= 1 => a * (p - q) >= a
    BY <1>3
  <2> QED BY <1>2, <1>3, <2>1
<1>5. ~(p - q <= -1)
  <2>1. p - q <= -1 => a * (p - q) <= -a
    BY <1>3
  <2> QED BY <1>2, <1>3, <2>1
<1>6. p = q
  BY <1>a, <1>3, <1>4, <1>5
<1> QED BY <1>6 DEF p

\* Dividing by twice a number is dividing by it and halving.
LEMMA Halves ==
    ASSUME NEW v \in Nat, NEW a \in Nat, a >= 1
    PROVE  v \div (2 * a) = (v \div a) \div 2
<1> DEFINE q == v \div a
           p == q \div 2
           s == q % 2
<1>a. q \in Nat /\ \E r \in Nat : r < a /\ v = a * q + r
  BY Division
<1>1. PICK r \in Nat : r < a /\ v = a * q + r
  BY <1>a
<1>2. p \in Nat /\ s \in {0, 1} /\ q = 2 * p + s
  BY <1>a
<1> HIDE DEF q, p, s
<1>3. v = (2 * a) * p + (a * s + r)
  BY <1>1, <1>2
<1>4. a * s + r \in Nat /\ a * s + r < 2 * a
  BY <1>1, <1>2
<1>5. 2 * a \in Nat /\ 2 * a >= 1
  OBVIOUS
<1>6. v \div (2 * a) = p
  BY <1>2, <1>3, <1>4, <1>5, Quotient
<1> QED BY <1>6 DEF p, q

\* A bit appended below does not disturb those above.
LEMMA BitBelow ==
    ASSUME NEW v \in Nat, NEW b \in Bit, NEW a \in Nat, a >= 1
    PROVE  (2 * v + b) \div (2 * a) = v \div a
<1> DEFINE q == v \div a
<1>a. q \in Nat /\ \E r \in Nat : r < a /\ v = a * q + r
  BY Division
<1> HIDE DEF q
<1>1. PICK r \in Nat : r < a /\ v = a * q + r
  BY <1>a
<1>2. 2 * v + b = (2 * a) * q + (2 * r + b)
  BY <1>a, <1>1 DEF Bit
<1>3. 2 * r + b \in Nat /\ 2 * r + b < 2 * a
  BY <1>a, <1>1 DEF Bit
<1>4. 2 * a \in Nat /\ 2 * a >= 1 /\ 2 * v + b \in Nat
  BY DEF Bit
<1>5. (2 * v + b) \div (2 * a) = q
  BY <1>a, <1>1, <1>2, <1>3, <1>4, Quotient
<1> QED BY <1>5 DEF q

------------------------------------------------------------------------------
(* The digits of a number.                                                 *)

\* Each binary digit is a bit.
LEMMA Digit ==
    ASSUME NEW v \in Nat, NEW k \in Nat
    PROVE  v \div 2^k \in Nat /\ (v \div 2^k) % 2 \in Bit
<1>1. 2^k \in Nat /\ 2^k >= 1
  BY PowerIs
<1>2. v \div 2^k \in Nat
  BY <1>1, Division
<1> QED BY <1>2 DEF Bit

\* The low n bits of a number are n bits.
LEMMA BitsType ==
    ASSUME NEW v \in Nat, NEW n \in Nat
    PROVE  Bits(v, n) \in Seq(Bit) /\ Len(Bits(v, n)) = n
<1>1. \A i \in 1 .. n : n - i \in Nat
  OBVIOUS
<1>2. \A i \in 1 .. n : (v \div 2^(n - i)) % 2 \in Bit
  BY <1>1, Digit
<1>3. Bits(v, n) \in [1 .. n -> Bit]
  BY <1>2 DEF Bits
<1> HIDE DEF Bits
<1> QED BY <1>3

\* No bits.
LEMMA NoBits ==
    ASSUME NEW v \in Nat
    PROVE  Bits(v, 0) = <<>>
<1>1. Bits(v, 0) \in Seq(Bit) /\ Len(Bits(v, 0)) = 0
  BY BitsType
<1> QED BY <1>1

\* Shifting a bit in appends it.
LEMMA BitsAppend ==
    ASSUME NEW v \in Nat, NEW b \in Bit, NEW n \in Nat
    PROVE  Bits(2 * v + b, n + 1) = Append(Bits(v, n), b)
<1> DEFINE w == 2 * v + b
<1>1. w \in Nat
  BY DEF Bit
<1>2. ASSUME NEW i \in 1 .. n
      PROVE  w \div 2^((n + 1) - i) = v \div 2^(n - i)
  <2>1. /\ n - i \in Nat /\ (n + 1) - i \in Nat /\ (n + 1) - i # 0
        /\ ((n + 1) - i) - 1 = n - i
    OBVIOUS
  <2>2. 2^((n + 1) - i) = 2 * 2^(n - i) /\ 2^(n - i) \in Nat /\ 2^(n - i) >= 1
    BY <2>1, PowerSteps
  <2>3. w \div (2 * 2^(n - i)) = v \div 2^(n - i)
    BY <2>2, BitBelow
  <2> QED BY <2>2, <2>3, Zenon
<1>3. (w \div 2^((n + 1) - (n + 1))) % 2 = b
  <2>1. 2^((n + 1) - (n + 1)) = 1
    BY PowerZero
  <2>2. w \div 1 = w /\ w % 2 = b
    BY DEF Bit
  <2> QED BY <2>1, <2>2
<1> DEFINE long == Bits(w, n + 1)
           short == Bits(v, n)
<1>4. long = [i \in 1 .. n + 1 |-> (w \div 2^((n + 1) - i)) % 2]
  BY DEF Bits
<1>5. short = [i \in 1 .. n |-> (v \div 2^(n - i)) % 2]
  BY DEF Bits
<1>6. \A i \in 1 .. n : long[i] = short[i]
  <2> SUFFICES ASSUME NEW i \in 1 .. n PROVE long[i] = short[i]
    OBVIOUS
  <2>1. i \in 1 .. n + 1
    OBVIOUS
  <2>2. long[i] = (w \div 2^((n + 1) - i)) % 2
    BY <1>4, <2>1, Zenon
  <2>3. short[i] = (v \div 2^(n - i)) % 2
    BY <1>5, Zenon
  <2> QED BY <1>2, <2>2, <2>3, Zenon
<1>7. long[n + 1] = b
  <2>1. n + 1 \in 1 .. n + 1
    OBVIOUS
  <2>2. long[n + 1] = (w \div 2^((n + 1) - (n + 1))) % 2
    BY <1>4, <2>1, Zenon
  <2> QED BY <1>3, <2>2, Zenon
<1>8. long \in Seq(Bit) /\ Len(long) = n + 1 /\ short \in Seq(Bit) /\ Len(short) = n
  <2>1. n + 1 \in Nat
    OBVIOUS
  <2> QED BY <1>1, <2>1, BitsType
<1> HIDE DEF long, short
<1>9. long = Append(short, b)
  BY <1>6, <1>7, <1>8
<1> QED BY <1>9 DEF long, short, w

\* A number of n bits is given by them: otherwise the least length that fails has a
\* last bit, and without it a shorter one fails.
LEMMA BitsDetermine ==
    ASSUME NEW n \in Nat, NEW v \in 0 .. 2^n - 1, NEW w \in 0 .. 2^n - 1,
           Bits(v, n) = Bits(w, n)
    PROVE  v = w
<1> DEFINE Two(k) == \E x, y \in 0 .. 2^k - 1 : x # y /\ Bits(x, k) = Bits(y, k)
           Failing == {k \in Nat : Two(k)}
<1>1. SUFFICES ASSUME v # w PROVE FALSE
  OBVIOUS
<1>2. n \in Failing
  BY <1>1
<1>3. PICK k \in Failing : \A j \in Failing : k <= j
  <2>1. Failing \in SUBSET Nat /\ Failing # {}
    BY <1>2
  <2> HIDE DEF Failing
  <2> QED BY <2>1, LeastIs
<1>4. PICK x \in 0 .. 2^k - 1, y \in 0 .. 2^k - 1 : x # y /\ Bits(x, k) = Bits(y, k)
  BY <1>3
<1>5. k \in Nat /\ 2^k \in Nat
  BY <1>3, PowerIs
<1>6. CASE k = 0
  <2>1. 2^k = 1
    BY <1>6, PowerZero
  <2> QED BY <1>4, <2>1
<1>7. CASE k # 0
  <2> DEFINE x1 == x \div 2
             y1 == y \div 2
             x0 == x % 2
             y0 == y % 2
  <2>1. 2^k = 2 * 2^(k - 1) /\ 2^(k - 1) \in Nat /\ 2^(k - 1) >= 1
    BY <1>5, <1>7, PowerSteps
  <2>2. /\ x1 \in 0 .. 2^(k - 1) - 1 /\ y1 \in 0 .. 2^(k - 1) - 1
        /\ x0 \in Bit /\ y0 \in Bit
        /\ x = 2 * x1 + x0 /\ y = 2 * y1 + y0
    BY <2>1 DEF Bit
  <2> HIDE DEF x1, y1, x0, y0
  <2>3. k - 1 \in Nat /\ (k - 1) + 1 = k /\ x1 \in Nat /\ y1 \in Nat
    BY <1>5, <1>7, <2>1, <2>2
  <2>4. /\ Bits(x, k) = Append(Bits(x1, k - 1), x0)
        /\ Bits(y, k) = Append(Bits(y1, k - 1), y0)
    <3>1. /\ Bits(2 * x1 + x0, (k - 1) + 1) = Append(Bits(x1, k - 1), x0)
          /\ Bits(2 * y1 + y0, (k - 1) + 1) = Append(Bits(y1, k - 1), y0)
      BY <2>2, <2>3, BitsAppend
    <3>2. x = 2 * x1 + x0 /\ y = 2 * y1 + y0 /\ (k - 1) + 1 = k
      BY <2>2, <2>3
    <3> QED BY <3>1, <3>2, Zenon
  <2>5. /\ Bits(x1, k - 1) \in Seq(Bit) /\ Len(Bits(x1, k - 1)) = k - 1
        /\ Bits(y1, k - 1) \in Seq(Bit) /\ Len(Bits(y1, k - 1)) = k - 1
    BY <2>3, BitsType
  <2>6. Bits(x1, k - 1) = Bits(y1, k - 1) /\ x0 = y0
    <3> DEFINE p == Bits(x1, k - 1)
               q == Bits(y1, k - 1)
    <3>1. /\ Append(p, x0) = Append(q, y0)
          /\ p \in Seq(Bit) /\ q \in Seq(Bit) /\ Len(p) = Len(q)
      BY <1>4, <2>4, <2>5
    <3> HIDE DEF p, q
    <3>2. x0 = Append(p, x0)[Len(p) + 1] /\ y0 = Append(q, y0)[Len(q) + 1]
      BY <3>1
    <3>3. \A i \in 1 .. Len(p) : p[i] = Append(p, x0)[i] /\ q[i] = Append(q, y0)[i]
      BY <3>1
    <3>4. x0 = y0
      BY <3>1, <3>2
    <3>5. \A i \in 1 .. Len(p) : p[i] = q[i]
      BY <3>1, <3>3
    <3>6. p = q
      BY <3>1, <3>5
    <3> QED BY <3>4, <3>6 DEF p, q
  <2>7. x1 # y1
    BY <1>4, <2>2, <2>6
  <2>8. Two(k - 1)
    BY <2>2, <2>6, <2>7
  <2>9. k - 1 \in Failing
    BY <2>3, <2>8
  <2> HIDE DEF Failing
  <2> QED BY <1>3, <1>5, <2>9
<1> QED BY <1>6, <1>7

\* What the chip reads from the bits of a number is the number.
LEMMA ValueOfBits ==
    ASSUME NEW n \in Nat, NEW v \in 0 .. 2^n - 1
    PROVE  Chip!Value(Bits(v, n)) = v
<1> DEFINE f == Bits(v, n)
<1>1. 2^n \in Nat
  BY PowerIs
<1>2. Len(f) = n
  <2>1. v \in Nat
    BY <1>1
  <2> QED BY <2>1, BitsType
<1>3. Chip!Value(f) = CHOOSE x \in 0 .. 2^n - 1 : Bits(x, n) = f
  BY <1>2 DEF Chip!Value, Chip!LowBits, Bits
<1>4. \A x \in 0 .. 2^n - 1 : Bits(x, n) = f => x = v
  BY BitsDetermine
<1>5. v \in 0 .. 2^n - 1 /\ Bits(v, n) = f
  OBVIOUS
<1> HIDE DEF f
<1> DEFINE c == CHOOSE x \in 0 .. 2^n - 1 : Bits(x, n) = f
<1>6. c \in 0 .. 2^n - 1 /\ Bits(c, n) = f
  BY <1>5
<1> HIDE DEF c
<1>7. c = v
  BY <1>4, <1>6
<1> QED BY <1>3, <1>7 DEF c, f

\* The top two bits of an address, which choose among the extended commands.
Top(a) == a \div 2^(AddrBits - 2)

\* What the widths of the address and of the data make of the constants.
LEMMA Widths ==
    /\ AddrBits \in Nat /\ AddrBits - 2 \in Nat /\ DataBits \in Nat /\ DataBits # 0
    /\ 2^AddrBits = 4 * 2^(AddrBits - 2)
    /\ 2^(AddrBits - 1) = 2 * 2^(AddrBits - 2)
    /\ 2^(AddrBits - 2) \in Nat /\ 2^(AddrBits - 2) >= 1
    /\ 2^DataBits \in Nat /\ 2^DataBits >= 1
    /\ Addresses \subseteq Nat /\ Words \subseteq Nat
    /\ 0 \in Addresses /\ 0 \in Words /\ Erased \in Words
    /\ 2^0 = 1 /\ 2^1 = 2 /\ 2^2 = 4
<1>1. /\ AddrBits \in Nat /\ AddrBits - 2 \in Nat /\ DataBits \in Nat /\ DataBits # 0
      /\ AddrBits # 0 /\ AddrBits - 1 \in Nat /\ AddrBits - 1 # 0 /\ (AddrBits - 1) - 1 = AddrBits - 2
  BY WidthAssumption
<1>2. 2^AddrBits = 2 * 2^(AddrBits - 1)
  BY <1>1, PowerSteps
<1>3. 2^(AddrBits - 1) = 2 * 2^(AddrBits - 2)
  <2>1. 2^(AddrBits - 1) = 2 * 2^((AddrBits - 1) - 1)
    BY <1>1, PowerSteps
  <2> QED BY <1>1, <2>1, Zenon
<1>4. 2^(AddrBits - 2) \in Nat /\ 2^(AddrBits - 2) >= 1 /\ 2^DataBits \in Nat /\ 2^DataBits >= 1
  BY <1>1, PowerIs
<1>5. 2^0 = 1 /\ 2^1 = 2 /\ 2^2 = 4
  <2>1. 2^1 = 2 * 2^(1 - 1) /\ 2^2 = 2 * 2^(2 - 1)
    BY PowerSteps
  <2>2. 1 - 1 = 0 /\ 2 - 1 = 1
    OBVIOUS
  <2>3. 2^1 = 2 * 2^0 /\ 2^2 = 2 * 2^1
    BY <2>1, <2>2, Zenon
  <2> QED BY <2>3, PowerZero
<1> DEFINE p == 2^(AddrBits - 2)
           q == 2^DataBits
<1>6. 2^AddrBits = 4 * p /\ p \in Nat /\ p >= 1 /\ q \in Nat /\ q >= 1
  BY <1>2, <1>3, <1>4
<1>7. /\ Addresses = 0 .. 4 * p - 1
      /\ Words = 0 .. q - 1 /\ Erased = q - 1
  BY <1>6 DEF Addresses, Words, Erased
<1> HIDE DEF p, q
<1>8. /\ Addresses \subseteq Nat /\ Words \subseteq Nat
      /\ 0 \in Addresses /\ 0 \in Words /\ Erased \in Words
  BY <1>6, <1>7
<1> QED BY <1>1, <1>3, <1>4, <1>5, <1>6, <1>8 DEF p

\* The top two bits of an address are the bits of Top of it.
LEMMA TopIs ==
    ASSUME NEW a \in Addresses
    PROVE  Top(a) \in 0 .. 3 /\ SubSeq(Bits(a, AddrBits), 1, 2) = Bits(Top(a), 2)
<1> DEFINE p == 2^(AddrBits - 2)
           t == a \div p
<1>1. p \in Nat /\ p >= 1 /\ a \in 0 .. 4 * p - 1 /\ 2^(AddrBits - 1) = 2 * p /\ a \in Nat
  BY Widths DEF Addresses
<1>2. PICK r \in Nat : t \in Nat /\ r < p /\ a = p * t + r
  BY <1>1, Division
<1>3. t \in 0 .. 3
  <2> HIDE DEF t, p
  <2>1. t >= 4 => p * t >= 4 * p
    BY <1>1, <1>2
  <2> QED BY <1>1, <1>2, <2>1
<1>4. Top(a) = t
  BY DEF Top
<1>5. a \div 2^(AddrBits - 1) = t \div 2
  <2>1. a \div (2 * p) = (a \div p) \div 2
    BY <1>1, Halves
  <2> QED BY <1>1, <2>1, Zenon
<1> DEFINE f == Bits(a, AddrBits)
           g == Bits(t, 2)
<1>6. f \in Seq(Bit) /\ Len(f) = AddrBits /\ g \in Seq(Bit) /\ Len(g) = 2
  BY <1>1, <1>2, Widths, BitsType
<1>7. f[1] = g[1]
  <2>1. f[1] = (a \div 2^(AddrBits - 1)) % 2
    BY WidthAssumption DEF Bits
  <2>2. g[1] = (t \div 2^(2 - 1)) % 2
    BY DEF Bits
  <2>3. 2^(2 - 1) = 2
    BY Widths
  <2>4. g[1] = (t \div 2) % 2
    BY <2>2, <2>3, Zenon
  <2> QED BY <1>5, <2>1, <2>4, Zenon
<1>8. f[2] = g[2]
  <2>1. f[2] = (a \div 2^(AddrBits - 2)) % 2
    BY WidthAssumption DEF Bits
  <2>2. g[2] = (t \div 2^(2 - 2)) % 2
    BY DEF Bits
  <2>3. 2^(2 - 2) = 1
    BY Widths
  <2>4. t \div 1 = t
    BY <1>3
  <2>5. g[2] = t % 2
    BY <2>2, <2>3, <2>4, Zenon
  <2> QED BY <2>1, <2>5, Zenon
<1> HIDE DEF f, g, t
<1>9. SubSeq(f, 1, 2) = g
  BY <1>6, <1>7, <1>8, WidthAssumption
<1> QED BY <1>3, <1>4, <1>9 DEF f, g

------------------------------------------------------------------------------
(* Frames.                                                                 *)

\* A frame with n bits of data.
Framed(p, q, r) == << 1 >> \o p \o q \o r
Sent(op, a, d, n) == Framed(Bits(op, 2), Bits(a, AddrBits), Bits(d, n))

\* Two sequences of bits joined, position by position.
LEMMA Joined ==
    ASSUME NEW p \in Seq(Bit), NEW q \in Seq(Bit)
    PROVE  /\ p \o q \in Seq(Bit) /\ Len(p \o q) = Len(p) + Len(q)
           /\ \A i \in 1 .. Len(p) : (p \o q)[i] = p[i]
           /\ \A i \in 1 .. Len(q) : (p \o q)[i + Len(p)] = q[i]
<1> DEFINE f == p \o q
           m == Len(p)
           n == Len(q)
<1>1. /\ f \in Seq(Bit) /\ Len(f) = m + n
      /\ \A i \in 1 .. m + n : f[i] = IF i <= m THEN p[i] ELSE q[i - m]
  BY ConcatProperties
<1>2. m \in Nat /\ n \in Nat
  OBVIOUS
<1> HIDE DEF f, m, n
<1>3. \A i \in 1 .. m : f[i] = p[i]
  BY <1>1, <1>2
<1>4. \A i \in 1 .. n : f[i + m] = q[i]
  BY <1>1, <1>2
<1> QED BY <1>1, <1>3, <1>4, Zenon DEF f, m, n

\* The part of a sequence that another gives.
LEMMA Slice ==
    ASSUME NEW f \in Seq(Bit), NEW r \in Seq(Bit), NEW m \in Nat, m + Len(r) <= Len(f),
           \A i \in 1 .. Len(r) : f[i + m] = r[i]
    PROVE  SubSeq(f, m + 1, m + Len(r)) = r
<1> DEFINE n == Len(r)
           g == SubSeq(f, m + 1, m + n)
<1>1. n \in Nat /\ m + n <= Len(f) /\ Len(f) \in Nat /\ \A i \in 1 .. n : f[i + m] = r[i]
  OBVIOUS
<1> HIDE DEF n
<1>2. g \in Seq(Bit) /\ Len(g) = n
  BY <1>1
<1>3. ASSUME NEW i \in 1 .. n PROVE g[i] = r[i]
  <2>1. g[i] = f[(m + 1) + i - 1]
    BY <1>1
  <2>2. (m + 1) + i - 1 = i + m
    BY <1>1
  <2> QED BY <1>1, <2>1, <2>2
<1> HIDE DEF g
<1>4. r \in Seq(Bit) /\ Len(r) = n
  BY DEF n
<1>5. g = r
  BY <1>2, <1>3, <1>4
<1> QED BY <1>5 DEF g, n

\* The fields of a frame are the pieces it was put together from.
LEMMA Cuts ==
    ASSUME NEW p \in Seq(Bit), NEW q \in Seq(Bit), NEW r \in Seq(Bit), Len(p) = 2
    PROVE  /\ Len(Framed(p, q, r)) = (3 + Len(q)) + Len(r)
           /\ SubSeq(Framed(p, q, r), 2, 3) = p
           /\ SubSeq(Framed(p, q, r), 4, 3 + Len(q)) = q
           /\ SubSeq(Framed(p, q, r), (3 + Len(q)) + 1, (3 + Len(q)) + Len(r)) = r
           /\ Len(q) >= 2 => SubSeq(Framed(p, q, r), 4, 5) = SubSeq(q, 1, 2)
<1> DEFINE s == << 1 >> \o p
           t == s \o q
           f == t \o r
           h == 3 + Len(q)
<1>1. s \in Seq(Bit) /\ Len(s) = 3 /\ s[2] = p[1] /\ s[3] = p[2]
  <2>1. << 1 >> \in Seq(Bit) /\ Len(<< 1 >>) = 1
    BY DEF Bit
  <2> DEFINE o == << 1 >>
  <2> HIDE DEF o
  <2>2. /\ s \in Seq(Bit) /\ Len(s) = Len(o) + Len(p)
        /\ \A i \in 1 .. Len(p) : s[i + Len(o)] = p[i]
    BY <2>1, Joined, Zenon DEF o
  <2>3. Len(o) = 1
    BY <2>1 DEF o
  <2> HIDE DEF s
  <2>4. s[1 + 1] = p[1] /\ s[2 + 1] = p[2]
    BY <2>2, <2>3
  <2> QED BY <2>2, <2>3, <2>4
<1> HIDE DEF s
<1>2. /\ t \in Seq(Bit) /\ Len(t) = h
      /\ \A i \in 1 .. 3 : t[i] = s[i]
      /\ \A i \in 1 .. Len(q) : t[i + 3] = q[i]
  <2>1. /\ t \in Seq(Bit) /\ Len(t) = Len(s) + Len(q)
        /\ \A i \in 1 .. Len(s) : t[i] = s[i]
        /\ \A i \in 1 .. Len(q) : t[i + Len(s)] = q[i]
    BY <1>1, Joined, Zenon
  <2> HIDE DEF t
  <2> QED BY <1>1, <2>1
<1> HIDE DEF t
<1>3. /\ f \in Seq(Bit) /\ Len(f) = h + Len(r)
      /\ \A i \in 1 .. h : f[i] = t[i]
      /\ \A i \in 1 .. Len(r) : f[i + h] = r[i]
  <2>1. /\ f \in Seq(Bit) /\ Len(f) = Len(t) + Len(r)
        /\ \A i \in 1 .. Len(t) : f[i] = t[i]
        /\ \A i \in 1 .. Len(r) : f[i + Len(t)] = r[i]
    BY <1>2, Joined, Zenon
  <2> HIDE DEF f
  <2> QED BY <1>2, <2>1
<1> HIDE DEF f
<1> DEFINE m == Len(q)
           n == Len(r)
<1>10. m \in Nat /\ n \in Nat /\ h = 3 + m /\ Len(q) = m /\ Len(r) = n
  OBVIOUS
<1> HIDE DEF h, m, n
<1>4. SubSeq(f, 2, 3) = p
  <2>1. \A i \in 1 .. 2 : f[i + 1] = p[i]
    <3>1. f[2] = s[2] /\ f[3] = s[3]
      BY <1>2, <1>3, <1>10
    <3> QED BY <1>1, <3>1
  <2>2. 1 + 2 <= Len(f) /\ 1 \in Nat
    BY <1>3, <1>10
  <2>3. SubSeq(f, 1 + 1, 1 + Len(p)) = p
    BY <1>3, <2>1, <2>2, Slice
  <2> QED BY <2>3
<1>5. SubSeq(f, 4, h) = q
  <2>1. \A i \in 1 .. Len(q) : f[i + 3] = q[i]
    BY <1>2, <1>3, <1>10
  <2>2. 3 + Len(q) <= Len(f) /\ 3 \in Nat
    BY <1>3, <1>10
  <2>3. SubSeq(f, 3 + 1, 3 + Len(q)) = q
    BY <1>3, <2>1, <2>2, Slice
  <2> QED BY <1>10, <2>3
<1>6. SubSeq(f, h + 1, h + Len(r)) = r
  <2>1. h + Len(r) <= Len(f) /\ h \in Nat
    BY <1>3, <1>10
  <2> QED BY <1>3, <2>1, Slice
<1>7. Len(q) >= 2 => SubSeq(f, 4, 5) = SubSeq(q, 1, 2)
  <2>1. Len(q) >= 2 => f[4] = q[1] /\ f[5] = q[2]
    BY <1>2, <1>3, <1>10
  <2> QED BY <1>3, <2>1
<1>8. Framed(p, q, r) = f
  BY DEF Framed, f, t, s
<1>9. /\ Len(f) = (3 + Len(q)) + Len(r)
      /\ SubSeq(f, 2, 3) = p /\ SubSeq(f, 4, 3 + Len(q)) = q
      /\ SubSeq(f, (3 + Len(q)) + 1, (3 + Len(q)) + Len(r)) = r
      /\ Len(q) >= 2 => SubSeq(f, 4, 5) = SubSeq(q, 1, 2)
  BY <1>3, <1>4, <1>5, <1>6, <1>7 DEF h
<1> QED BY <1>8, <1>9, Zenon

\* What the chip decodes from a frame is what was sent.
LEMMA Fields ==
    ASSUME NEW op \in 0 .. 3, NEW a \in Addresses, NEW n \in 0 .. DataBits,
           NEW d \in 0 .. 2^n - 1
    PROVE  LET f == Sent(op, a, d, n)
           IN  /\ Len(f) = Chip!Header + n /\ Chip!Header = 3 + AddrBits
               /\ Chip!Opcode(f) = op /\ Chip!Address(f) = a /\ Chip!Special(f) = Top(a)
               /\ n = DataBits => Chip!Data(f) = d
<1> DEFINE f == Sent(op, a, d, n)
           p == Bits(op, 2)
           q == Bits(a, AddrBits)
           r == Bits(d, n)
<1>1. n \in Nat /\ 2^n \in Nat /\ op \in Nat /\ d \in Nat /\ a \in Nat
  <2>1. n \in Nat
    BY Widths
  <2>2. 2^n \in Nat
    BY <2>1, PowerIs
  <2> QED BY <2>1, <2>2, Widths
<1>2. /\ p \in Seq(Bit) /\ Len(p) = 2 /\ q \in Seq(Bit) /\ Len(q) = AddrBits
      /\ r \in Seq(Bit) /\ Len(r) = n
  BY <1>1, Widths, BitsType
<1>3. /\ Chip!Value(p) = op /\ Chip!Value(q) = a /\ Chip!Value(r) = d
      /\ Chip!Value(Bits(Top(a), 2)) = Top(a)
  <2>1. op \in 0 .. 2^2 - 1 /\ Top(a) \in 0 .. 2^2 - 1
    BY Widths, TopIs
  <2>2. a \in 0 .. 2^AddrBits - 1
    BY DEF Addresses
  <2> QED BY <1>1, <2>1, <2>2, Widths, ValueOfBits
<1>4. f = Framed(p, q, r)
  BY DEF Sent
<1>5. SubSeq(q, 1, 2) = Bits(Top(a), 2)
  BY TopIs
<1> HIDE DEF f, p, q, r
<1>6. /\ Len(f) = (3 + AddrBits) + n
      /\ SubSeq(f, 2, 3) = p /\ SubSeq(f, 4, 3 + AddrBits) = q
      /\ SubSeq(f, (3 + AddrBits) + 1, (3 + AddrBits) + n) = r
      /\ SubSeq(f, 4, 5) = SubSeq(q, 1, 2)
  <2>1. AddrBits >= 2
    BY WidthAssumption
  <2>2. p \in Seq(Bit) /\ q \in Seq(Bit) /\ r \in Seq(Bit) /\ Len(p) = 2
    BY <1>2
  <2>3. Len(f) = (3 + Len(q)) + Len(r)
    BY <1>4, <2>2, Cuts
  <2>4. SubSeq(f, 2, 3) = p
    BY <1>4, <2>2, Cuts
  <2>5. SubSeq(f, 4, 3 + Len(q)) = q
    BY <1>4, <2>2, Cuts
  <2>6. SubSeq(f, (3 + Len(q)) + 1, (3 + Len(q)) + Len(r)) = r
    BY <1>4, <2>2, Cuts
  <2>7. Len(q) >= 2 => SubSeq(f, 4, 5) = SubSeq(q, 1, 2)
    BY <1>4, <2>2, Cuts
  <2>8. Len(q) = AddrBits /\ Len(r) = n
    BY <1>2
  <2> QED BY <2>1, <2>3, <2>4, <2>5, <2>6, <2>7, <2>8
<1>7. Chip!Header = 3 + AddrBits
  BY DEF Chip!Header
<1>8. Chip!Opcode(f) = op
  BY <1>3, <1>6 DEF Chip!Opcode
<1>9. Chip!Address(f) = a
  BY <1>3, <1>6, <1>7 DEF Chip!Address
<1>10. Chip!Special(f) = Top(a)
  BY <1>3, <1>5, <1>6 DEF Chip!Special
<1>11. n = DataBits => Chip!Data(f) = d
  BY <1>3, <1>6, <1>7 DEF Chip!Data
<1> QED BY <1>6, <1>7, <1>8, <1>9, <1>10, <1>11 DEF f

\* A bit appended to the last field of a frame that has begun.
LEMMA Grows ==
    ASSUME NEW s \in Seq(Bit), s # <<>>, NEW v \in Nat, NEW k \in Nat, NEW b \in Bit
    PROVE  Chip!Shifted(s \o Bits(v, k), b) = s \o Bits(2 * v + b, k + 1)
<1> DEFINE t == Bits(v, k)
<1>1. t \in Seq(Bit)
  BY BitsType
<1>2. Bits(2 * v + b, k + 1) = Append(t, b)
  BY BitsAppend
<1> HIDE DEF t
<1>3. s \o t # <<>>
  BY <1>1, ConcatEqualIffEmpty
<1>4. Append(s \o t, b) = s \o Append(t, b)
  <2>1. s \o t \in Seq(Bit) /\ <<b>> \in Seq(Bit)
    BY <1>1, ConcatProperties
  <2>2. Append(s \o t, b) = (s \o t) \o <<b>> /\ Append(t, b) = t \o <<b>>
    BY <1>1, <2>1, AppendIsConcat
  <2>3. (s \o t) \o <<b>> = s \o (t \o <<b>>)
    BY <1>1, <2>1, ConcatAssociative
  <2> QED BY <2>2, <2>3
<1>5. Chip!Shifted(s \o t, b) = Append(s \o t, b)
  BY <1>3 DEF Chip!Shifted
<1> QED BY <1>2, <1>4, <1>5 DEF t

\* A field that has room for a bit takes it without losing one (uint16_t).
LEMMA BitFits ==
    ASSUME NEW k \in Nat, k < 16, NEW v \in Nat, v < 2^k, NEW b \in Bit
    PROVE  /\ (2 * v + b) % 2^16 = 2 * v + b
           /\ 2 * v + b \in Nat /\ 2 * v + b < 2^(k + 1)
<1> DEFINE w == 2 * v + b
           m == 2^16
<1>1. 2^k \in Nat /\ 2^(k + 1) = 2 * 2^k /\ 2^(k + 1) \in Nat
  BY PowerIs, PowerDoubles
<1>2. w \in Nat /\ w < 2^(k + 1)
  BY <1>1 DEF Bit
<1>3. 2^(k + 1) <= m /\ m \in Nat /\ m >= 1
  <2>1. k + 1 \in Nat /\ k + 1 <= 16 /\ 16 \in Nat
    OBVIOUS
  <2> QED BY <2>1, PowerMonotone, PowerIs
<1>4. w < m
  BY <1>1, <1>2, <1>3
<1> HIDE DEF w, m
<1>5. w % m = w
  BY <1>2, <1>3, <1>4
<1> QED BY <1>2, <1>5 DEF w, m

------------------------------------------------------------------------------
(* The invariant.                                                          *)

\* The state that the address of each opcode leads to.
Entered(op) == <<"EXTENDED", "WRITE", "READ_OUT", "ERASE">>[op + 1]

\* What each field has collected fits in the bits it has counted, and the state to be
\* entered is that of the opcode.
Serial ==
    /\ EepromTypeOK
    /\ ee.state = "OP_B" => ee.op \in {0, 2}
    /\ ee.state = "READ_ADDRESS" =>
          /\ ee.addrCnt # 0 /\ ee.addr < 2^(AddrBits - ee.addrCnt)
          /\ ee.rstate = Entered(ee.op) /\ ee.jump = (ee.op # 2)
          /\ ee.op = 2 => ee.dataCnt = DataBits
    /\ ee.state = "READ_DATA" =>
          /\ ee.dataCnt # 0 /\ ee.data < 2^(DataBits - ee.dataCnt) /\ ee.jump
          /\ \/ ee.op = 1 /\ ee.rstate = "WRITE_DATA"
             \/ ee.op = 0 /\ ee.rstate = "WRAL" /\ Top(ee.addr) = 1

Chips == [state : {"START", "OP_A", "OP_B", "READ_ADDRESS", "READ_DATA",
                   "READ_OUT", "BUSY"},
          op : 0 .. 3,
          rstate : {"none", "EXTENDED", "WRITE", "WRITE_DATA", "WRAL",
                    "READ_OUT", "ERASE"},
          addr : Addresses, addrCnt : 0 .. AddrBits,
          data : Words, dataCnt : 0 .. DataBits,
          enabled : BOOLEAN, jump : BOOLEAN]

\* A bit that completes nothing.
LEMMA Collects ==
    ASSUME NEW bit \in Bit, OutOf = <<>>, OutOf' = <<>>,
           ~Chip!Complete(Chip!Shifted(FrameOf, bit)),
           FrameOf' = Chip!Shifted(FrameOf, bit), ee'.state # "BUSY",
           ram' = ram, ee'.enabled = ee.enabled, do' = do
    PROVE  Chip!Next
BY DEF Chip!Next, Chip!Collect, Chip!Bit, Bit

\* A bit that completes a command.
LEMMA Executes ==
    ASSUME NEW bit \in Bit, NEW cmd, OutOf = <<>>,
           Chip!Complete(Chip!Shifted(FrameOf, bit)),
           Chip!Decoded(Chip!Shifted(FrameOf, bit)) = cmd,
           ram' = Chip!Programmed(ram, ee.enabled, cmd),
           ee'.enabled = Chip!EnabledAfter(ee.enabled, cmd),
           (ee'.state = "BUSY") = Chip!BusyAfter(cmd),
           OutOf' = IF cmd.op = "READ"
                    THEN << 0 >> \o Chip!LowBits(ram[cmd.a], DataBits) ELSE <<>>,
           FrameOf' = <<>>, do' = do
    PROVE  Chip!Next
BY DEF Chip!Next, Chip!Execute, Chip!Bit, Bit

\* A sequence of two bits.
LEMMA TwoBits ==
    ASSUME NEW s \in Seq(Bit), Len(s) = 2, NEW x \in Bit, NEW y \in Bit, s[1] = x, s[2] = y
    PROVE  s = <<x, y>>
<1> DEFINE t == <<x, y>>
<1>1. t \in Seq(Bit) /\ Len(t) = 2 /\ t[1] = x /\ t[2] = y
  OBVIOUS
<1> HIDE DEF t
<1>2. s = t
  BY <1>1
<1> QED BY <1>2 DEF t

\* A sequence of three bits.
LEMMA ThreeBits ==
    ASSUME NEW s \in Seq(Bit), Len(s) = 3, NEW x \in Bit, NEW y \in Bit, NEW z \in Bit,
           s[1] = x, s[2] = y, s[3] = z
    PROVE  s = <<x, y, z>>
<1> DEFINE t == <<x, y, z>>
<1>1. t \in Seq(Bit) /\ Len(t) = 3 /\ t[1] = x /\ t[2] = y /\ t[3] = z
  OBVIOUS
<1> HIDE DEF t
<1>2. s = t
  BY <1>1
<1> QED BY <1>2 DEF t

\* A bit appended, position by position.
LEMMA Appended ==
    ASSUME NEW p \in Seq(Bit), NEW b \in Bit
    PROVE  /\ Append(p, b) \in Seq(Bit) /\ Len(Append(p, b)) = Len(p) + 1
           /\ Append(p, b)[Len(p) + 1] = b
           /\ \A i \in 1 .. Len(p) : Append(p, b)[i] = p[i]
<1>1. Append(p, b) \in Seq(Bit)
  OBVIOUS
<1>2. Len(Append(p, b)) = Len(p) + 1
  OBVIOUS
<1>3. Append(p, b)[Len(p) + 1] = b
  OBVIOUS
<1>4. \A i \in 1 .. Len(p) : Append(p, b)[i] = p[i]
  OBVIOUS
<1> QED BY <1>1, <1>2, <1>3, <1>4, Zenon

\* A frame of one or two bits takes another.
LEMMA ShortFrames ==
    ASSUME NEW x \in Bit, NEW b \in Bit
    PROVE  /\ Chip!Shifted(<< 1 >>, b) = <<1, b>>
           /\ Chip!Shifted(<<1, x>>, b) = <<1, x, b>>
<1>1. 1 \in Bit /\ << 1 >> \in Seq(Bit) /\ Len(<< 1 >>) = 1 /\ << 1 >>[1] = 1
  BY DEF Bit
<1>2. <<1, x>> \in Seq(Bit) /\ Len(<<1, x>>) = 2 /\ <<1, x>>[1] = 1 /\ <<1, x>>[2] = x
  BY <1>1
<1> DEFINE p == << 1 >>
           q == <<1, x>>
<1>3. p # <<>> /\ q # <<>>
  BY <1>1, <1>2
<1>4. Chip!Shifted(p, b) = Append(p, b) /\ Chip!Shifted(q, b) = Append(q, b)
  BY <1>3, Zenon DEF Chip!Shifted
<1>5. p \in Seq(Bit) /\ Len(p) = 1 /\ p[1] = 1 /\ q \in Seq(Bit) /\ Len(q) = 2 /\ q[1] = 1 /\ q[2] = x
  BY <1>1, <1>2
<1> HIDE DEF p, q
<1>6. Append(p, b) = <<1, b>>
  <2> DEFINE f == Append(p, b)
  <2>0. /\ f \in Seq(Bit) /\ Len(f) = Len(p) + 1 /\ f[Len(p) + 1] = b
        /\ \A i \in 1 .. Len(p) : f[i] = p[i]
    BY <1>5, Appended, Zenon
  <2> HIDE DEF f
  <2>1. f \in Seq(Bit) /\ Len(f) = 2 /\ f[1] = 1 /\ f[2] = b
    BY <1>5, <2>0
  <2>2. f = <<1, b>>
    BY <1>1, <2>1, TwoBits
  <2> QED BY <2>2 DEF f
<1>7. Append(q, b) = <<1, x, b>>
  <2> DEFINE f == Append(q, b)
  <2>0. /\ f \in Seq(Bit) /\ Len(f) = Len(q) + 1 /\ f[Len(q) + 1] = b
        /\ \A i \in 1 .. Len(q) : f[i] = q[i]
    BY <1>5, Appended, Zenon
  <2> HIDE DEF f
  <2>1. f \in Seq(Bit) /\ Len(f) = 3 /\ f[1] = 1 /\ f[2] = x /\ f[3] = b
    BY <1>5, <2>0
  <2>2. f = <<1, x, b>>
    BY <1>1, <2>1, ThreeBits
  <2> QED BY <2>2 DEF f
<1> QED BY <1>4, <1>6, <1>7 DEF p, q

\* The first three bits.
LEMMA StartStep ==
    ASSUME Serial, NEW bit \in Bit, WriteDi(bit), ee.state \in {"START", "BUSY"}
    PROVE  Serial' /\ Chip!Next
<1>1. /\ ee' = [ee EXCEPT !.state = "OP_A"] /\ ram' = ram /\ do' = do
      /\ locked' = locked
  BY DEF WriteDi, SetDi, Left
<1>2. ee \in Chips /\ ram \in [Addresses -> Words] /\ do \in Bit /\ locked \in BOOLEAN
  BY DEF Serial, EepromTypeOK, Chips
<1>3. ee' \in Chips /\ ee'.state = "OP_A" /\ ee'.enabled = ee.enabled
  BY <1>1, <1>2 DEF Chips
<1>4. Serial'
  BY <1>1, <1>2, <1>3 DEF Serial, EepromTypeOK, Chips
<1>5. FrameOf = <<>> /\ OutOf = <<>> /\ FrameOf' = << 1 >> /\ OutOf' = <<>>
  BY <1>3 DEF FrameOf, OutOf
<1>6. Chip!Shifted(FrameOf, bit) = << 1 >>
  BY <1>5 DEF Chip!Shifted
<1>7. ~Chip!Complete(<< 1 >>)
  BY WidthAssumption DEF Chip!Complete, Chip!Header
<1>8. Chip!Next
  BY <1>1, <1>3, <1>5, <1>6, <1>7, Collects
<1> QED BY <1>4, <1>8

\* The first bit of the opcode.
LEMMA OpAStep ==
    ASSUME Serial, NEW bit \in Bit, WriteDi(bit), ee.state = "OP_A"
    PROVE  Serial' /\ Chip!Next
<1>1. /\ ee' = [ee EXCEPT !.op = 2 * bit, !.state = "OP_B"] /\ ram' = ram /\ do' = do
      /\ locked' = locked
  BY DEF WriteDi, SetDi, Left
<1>2. ee \in Chips /\ ram \in [Addresses -> Words] /\ do \in Bit /\ locked \in BOOLEAN
  BY DEF Serial, EepromTypeOK, Chips
<1>3. 2 * bit \in {0, 2} /\ (2 * bit) \div 2 = bit
  BY DEF Bit
<1>4. ee' \in Chips /\ ee'.state = "OP_B" /\ ee'.op = 2 * bit /\ ee'.enabled = ee.enabled
  <2> DEFINE op == 2 * bit
  <2>1. op \in 0 .. 3
    BY <1>3
  <2> HIDE DEF op
  <2>2. ee' = [ee EXCEPT !.op = op, !.state = "OP_B"]
    BY <1>1 DEF op
  <2>3. ee' \in Chips /\ ee'.state = "OP_B" /\ ee'.op = op /\ ee'.enabled = ee.enabled
    BY <1>2, <2>1, <2>2 DEF Chips
  <2> QED BY <2>3 DEF op
<1>5. Serial'
  BY <1>1, <1>2, <1>3, <1>4 DEF Serial, EepromTypeOK, Chips
<1>6. FrameOf = << 1 >> /\ OutOf = <<>> /\ FrameOf' = <<1, bit>> /\ OutOf' = <<>>
  BY <1>3, <1>4 DEF FrameOf, OutOf
<1>7. Chip!Shifted(FrameOf, bit) = <<1, bit>>
  <2>1. Chip!Shifted(<< 1 >>, bit) = <<1, bit>>
    BY ShortFrames
  <2> QED BY <1>6, <2>1
<1>8. ~Chip!Complete(<<1, bit>>)
  BY WidthAssumption DEF Chip!Complete, Chip!Header
<1>9. Chip!Next
  BY <1>1, <1>4, <1>6, <1>7, <1>8, Collects
<1> QED BY <1>5, <1>9

\* The second bit of the opcode.
LEMMA OpBStep ==
    ASSUME Serial, NEW bit \in Bit, WriteDi(bit), ee.state = "OP_B"
    PROVE  Serial' /\ Chip!Next
<1> DEFINE op == ee.op + bit
<1>1. /\ ee' = Opcode(ee, bit) /\ ram' = ram /\ do' = do /\ locked' = locked
  BY DEF WriteDi, SetDi, Left
<1>2. ee \in Chips /\ ram \in [Addresses -> Words] /\ do \in Bit /\ locked \in BOOLEAN
  BY DEF Serial, EepromTypeOK, Chips
<1>3. ee.op \in {0, 2} /\ op \in 0 .. 3
  BY DEF Bit, Serial
<1>4. /\ ee'.state = "READ_ADDRESS" /\ ee'.op = op /\ ee'.rstate = Entered(op)
      /\ ee'.addr = 0 /\ ee'.addrCnt = AddrBits /\ ee'.jump = (op # 2)
      /\ op = 2 => ee'.dataCnt = DataBits
      /\ ee'.enabled = ee.enabled
  BY <1>1, <1>2 DEF Opcode, Chips, Entered
<1>5. ee' \in Chips
  <2>1. Entered(op) \in {"EXTENDED", "WRITE", "READ_OUT", "ERASE"}
    BY <1>3 DEF Entered
  <2>2. 0 \in Addresses /\ 0 \in Words /\ AddrBits \in 0 .. AddrBits /\ DataBits \in 0 .. DataBits
    BY Widths
  <2>3. /\ ee'.dataCnt = IF op = 2 THEN DataBits ELSE ee.dataCnt
        /\ ee'.data = IF op = 2 THEN 0 ELSE ee.data
        /\ ee' = [ee EXCEPT !.op = ee'.op, !.state = ee'.state, !.rstate = ee'.rstate,
                            !.addrCnt = ee'.addrCnt, !.addr = ee'.addr, !.jump = ee'.jump,
                            !.dataCnt = ee'.dataCnt, !.data = ee'.data]
    BY <1>1, <1>2 DEF Opcode, Chips
  <2>4. /\ ee'.dataCnt \in 0 .. DataBits /\ ee'.data \in Words
        /\ ee'.rstate \in {"EXTENDED", "WRITE", "READ_OUT", "ERASE"}
    BY <1>2, <1>4, <2>1, <2>2, <2>3 DEF Chips
  <2> HIDE DEF op
  <2> QED BY <1>2, <1>3, <1>4, <2>2, <2>3, <2>4 DEF Chips
<1>6. AddrBits # 0 /\ AddrBits - AddrBits = 0 /\ 0 < 2^0
  BY Widths
<1>7. Serial'
  <2> HIDE DEF op
  <2>1. EepromTypeOK'
    BY <1>1, <1>2, <1>5 DEF EepromTypeOK, Chips
  <2>2. ee'.addr < 2^(AddrBits - ee'.addrCnt)
    BY <1>4, <1>6
  <2> QED BY <1>4, <1>6, <2>1, <2>2 DEF Serial
<1>8. FrameOf = <<1, ee.op \div 2>> /\ OutOf = <<>> /\ OutOf' = <<>>
  BY <1>4 DEF FrameOf, OutOf
<1>9. FrameOf' = <<1, ee.op \div 2, bit>>
  <2>1. FrameOf' = << 1 >> \o Bits(op, 2) \o Bits(0, 0)
    BY <1>4, <1>6 DEF FrameOf
  <2>2. Bits(op, 2) = <<ee.op \div 2, bit>>
    <3>1. Bits(op, 2) = [i \in 1 .. 2 |-> (op \div 2^(2 - i)) % 2]
      BY DEF Bits
    <3>2. 2^(2 - 1) = 2 /\ 2^(2 - 2) = 1
      BY Widths
    <3>3. (op \div 2) % 2 = ee.op \div 2 /\ (op \div 1) % 2 = bit
      BY <1>3 DEF Bit
    <3>4. Bits(op, 2)[1] = ee.op \div 2 /\ Bits(op, 2)[2] = bit
      BY <3>1, <3>2, <3>3
    <3>5. Bits(op, 2) \in Seq(Bit) /\ Len(Bits(op, 2)) = 2
      <4>1. op \in Nat /\ 2 \in Nat
        BY <1>3
      <4> HIDE DEF op
      <4> QED BY <4>1, BitsType
    <3>6. ee.op \div 2 \in Bit
      BY <1>3 DEF Bit
    <3> QED BY <3>4, <3>5, <3>6, TwoBits
  <2>3. Bits(0, 0) = <<>>
    BY NoBits
  <2> DEFINE x == ee.op \div 2
  <2>4. x \in Bit
    BY <1>3 DEF Bit
  <2> HIDE DEF x
  <2>5. << 1 >> \o <<x, bit>> = <<1, x, bit>>
    <3> DEFINE p == << 1 >>
               q == <<x, bit>>
    <3>1. /\ 1 \in Bit /\ p \in Seq(Bit) /\ Len(p) = 1 /\ p[1] = 1
          /\ q \in Seq(Bit) /\ Len(q) = 2 /\ q[1] = x /\ q[2] = bit
      BY <2>4 DEF Bit
    <3> HIDE DEF p, q
    <3>2. /\ p \o q \in Seq(Bit) /\ Len(p \o q) = Len(p) + Len(q)
          /\ \A i \in 1 .. Len(p) : (p \o q)[i] = p[i]
          /\ \A i \in 1 .. Len(q) : (p \o q)[i + Len(p)] = q[i]
      BY <3>1, Joined, Zenon
    <3> DEFINE f == p \o q
    <3> HIDE DEF f
    <3>3. f \in Seq(Bit) /\ Len(f) = 3 /\ f[1] = 1 /\ f[1 + 1] = x /\ f[2 + 1] = bit
      BY <3>1, <3>2 DEF f
    <3>4. f = <<1, x, bit>>
      BY <2>4, <3>1, <3>3, ThreeBits
    <3> QED BY <3>4 DEF f, p, q
  <2>6. <<1, x, bit>> \o <<>> = <<1, x, bit>>
    <3>1. <<1, x, bit>> \in Seq(Bit)
      BY <2>4 DEF Bit
    <3> QED BY <3>1, ConcatEmptySeq
  <2> QED BY <2>1, <2>2, <2>3, <2>5, <2>6 DEF x
<1>10. Chip!Shifted(FrameOf, bit) = <<1, ee.op \div 2, bit>>
  <2>1. ee.op \div 2 \in Bit
    BY <1>3 DEF Bit
  <2>2. Chip!Shifted(<<1, ee.op \div 2>>, bit) = <<1, ee.op \div 2, bit>>
    BY <2>1, ShortFrames
  <2> QED BY <1>8, <2>2
<1>11. ~Chip!Complete(<<1, ee.op \div 2, bit>>)
  BY WidthAssumption DEF Chip!Complete, Chip!Header
<1>12. Chip!Next
  BY <1>1, <1>4, <1>8, <1>9, <1>10, <1>11, Collects
<1> QED BY <1>7, <1>12

------------------------------------------------------------------------------
(* The address.                                                            *)

\* What the state is made of, for the steps below.
LEMMA EepromParts ==
    ASSUME Serial
    PROVE  /\ ee \in Chips /\ ram \in [Addresses -> Words] /\ do \in Bit /\ locked \in BOOLEAN
           /\ ee.op \in 0 .. 3 /\ ee.op \in Nat /\ ee.addr \in Nat /\ ee.addr \in Addresses
           /\ ee.data \in Nat /\ ee.data \in Words
           /\ ee.addrCnt \in 0 .. AddrBits /\ ee.addrCnt \in Nat
           /\ ee.dataCnt \in 0 .. DataBits /\ ee.dataCnt \in Nat
           /\ AddrBits - ee.addrCnt \in Nat /\ DataBits - ee.dataCnt \in Nat
<1>1. ee \in Chips /\ ram \in [Addresses -> Words] /\ do \in Bit /\ locked \in BOOLEAN
  BY DEF Serial, EepromTypeOK, Chips
<1>2. /\ ee.op \in 0 .. 3 /\ ee.addr \in Addresses /\ ee.data \in Words
      /\ ee.addrCnt \in 0 .. AddrBits /\ ee.dataCnt \in 0 .. DataBits
  BY <1>1 DEF Chips
<1>3. /\ Addresses \subseteq Nat /\ Words \subseteq Nat /\ AddrBits \in Nat /\ DataBits \in Nat
  BY Widths
<1>4. ee.addr \in Nat /\ ee.data \in Nat /\ ee.op \in Nat
  <2>1. ee.addr \in Nat
    BY <1>2, <1>3, Zenon
  <2>2. ee.data \in Nat
    BY <1>2, <1>3, Zenon
  <2>3. ee.op \in Nat
    <3> DEFINE o == ee.op
    <3>1. o \in 0 .. 3
      BY <1>2
    <3> HIDE DEF o
    <3>2. o \in Nat
      BY <3>1
    <3> QED BY <3>2 DEF o
  <2> QED BY <2>1, <2>2, <2>3
<1>5. /\ ee.addrCnt \in Nat /\ AddrBits - ee.addrCnt \in Nat
      /\ ee.dataCnt \in Nat /\ DataBits - ee.dataCnt \in Nat
  <2> DEFINE m == ee.addrCnt
             n == ee.dataCnt
  <2>1. m \in 0 .. AddrBits /\ n \in 0 .. DataBits /\ AddrBits \in Nat /\ DataBits \in Nat
    BY <1>2, <1>3
  <2> HIDE DEF m, n
  <2>2. m \in Nat /\ AddrBits - m \in Nat
    BY <2>1
  <2>3. n \in Nat /\ DataBits - n \in Nat
    BY <2>1
  <2> QED BY <2>2, <2>3 DEF m, n
<1> QED BY <1>1, <1>2, <1>4, <1>5, Zenon

\* The bits of a header, and that a frame with it has begun.
LEMMA Headers ==
    ASSUME NEW op \in 0 .. 3
    PROVE  /\ << 1 >> \o Bits(op, 2) \in Seq(Bit) /\ Len(<< 1 >> \o Bits(op, 2)) = 3
           /\ << 1 >> \o Bits(op, 2) # <<>>
<1> DEFINE p == << 1 >>
           q == Bits(op, 2)
           s == p \o q
<1>1. p \in Seq(Bit) /\ Len(p) = 1
  BY DEF Bit
<1>2. q \in Seq(Bit) /\ Len(q) = 2
  <2>1. op \in Nat /\ 2 \in Nat
    OBVIOUS
  <2> QED BY <2>1, BitsType
<1> HIDE DEF p, q
<1>3. s \in Seq(Bit) /\ Len(s) = Len(p) + Len(q)
  BY <1>1, <1>2, Joined, Zenon
<1> HIDE DEF s
<1>4. s \in Seq(Bit) /\ Len(s) = 3 /\ s # <<>>
  BY <1>1, <1>2, <1>3
<1> QED BY <1>4 DEF s, p, q

\* The next bit of the address is the next bit of the frame, and loses none before it.
LEMMA AddressGrows ==
    ASSUME Serial, NEW bit \in Bit, ee.state = "READ_ADDRESS",
           NEW a, a = 2 * ee.addr + bit, NEW k, k = AddrBits - ee.addrCnt
    PROVE  /\ a % 2^16 = a /\ a \in Nat /\ a \in Addresses /\ a < 2^(k + 1)
           /\ k \in Nat /\ k + 1 <= AddrBits
           /\ Chip!Shifted(FrameOf, bit) = << 1 >> \o Bits(ee.op, 2) \o Bits(a, k + 1)
           /\ Len(Chip!Shifted(FrameOf, bit)) = 4 + k
<1>1. /\ ee.op \in 0 .. 3 /\ ee.addr \in Nat /\ ee.addrCnt \in 0 .. AddrBits /\ AddrBits \in Nat
      /\ ee.addrCnt # 0 /\ ee.addr < 2^k /\ k \in Nat
  BY EepromParts, Widths DEF Serial
<1>2. k + 1 <= AddrBits /\ k < 16
  BY <1>1, WidthAssumption
<1>3. a % 2^16 = a /\ a \in Nat /\ a < 2^(k + 1)
  BY <1>1, <1>2, BitFits
<1>4. a \in Addresses
  <2>1. 2^(k + 1) <= 2^AddrBits /\ 2^(k + 1) \in Nat /\ 2^AddrBits \in Nat
    BY <1>1, <1>2, PowerMonotone, PowerIs
  <2> QED BY <1>3, <2>1 DEF Addresses
<1> DEFINE s == << 1 >> \o Bits(ee.op, 2)
<1>5. FrameOf = s \o Bits(ee.addr, k)
  BY DEF FrameOf
<1>6. s \in Seq(Bit) /\ s # <<>> /\ Len(s) = 3
  BY <1>1, Headers
<1> HIDE DEF s
<1>7. Chip!Shifted(s \o Bits(ee.addr, k), bit) = s \o Bits(2 * ee.addr + bit, k + 1)
  BY <1>1, <1>6, Grows
<1>8. Chip!Shifted(FrameOf, bit) = s \o Bits(a, k + 1)
  BY <1>5, <1>7
<1>9. Len(s \o Bits(a, k + 1)) = 4 + k
  <2> DEFINE t == Bits(a, k + 1)
  <2>1. t \in Seq(Bit) /\ Len(t) = k + 1
    <3>1. k + 1 \in Nat
      BY <1>1
    <3> QED BY <1>3, <3>1, BitsType
  <2> HIDE DEF t
  <2>2. Len(s \o t) = Len(s) + Len(t)
    BY <1>6, <2>1, Joined, Zenon
  <2>3. Len(s \o t) = 4 + k
    BY <1>1, <1>6, <2>1, <2>2
  <2> QED BY <2>3 DEF t
<1> QED BY <1>1, <1>2, <1>3, <1>4, <1>8, <1>9 DEF s

\* A bit of the address that is not its last.
LEMMA AddressStep ==
    ASSUME Serial, NEW bit \in Bit, WriteDi(bit), ee.state = "READ_ADDRESS", ee.addrCnt # 1
    PROVE  Serial' /\ Chip!Next
<1> DEFINE a == 2 * ee.addr + bit
           k == AddrBits - ee.addrCnt
<1>1. /\ a % 2^16 = a /\ a \in Nat /\ a \in Addresses /\ a < 2^(k + 1)
      /\ k \in Nat /\ k + 1 <= AddrBits
      /\ Chip!Shifted(FrameOf, bit) = << 1 >> \o Bits(ee.op, 2) \o Bits(a, k + 1)
      /\ Len(Chip!Shifted(FrameOf, bit)) = 4 + k
  BY AddressGrows, Zenon
<1>2. /\ ee \in Chips /\ ram \in [Addresses -> Words] /\ do \in Bit /\ locked \in BOOLEAN
      /\ ee.addrCnt \in 1 .. AddrBits /\ AddrBits \in Nat
      /\ ee.rstate = Entered(ee.op) /\ ee.jump = (ee.op # 2)
      /\ ee.op = 2 => ee.dataCnt = DataBits
  BY EepromParts, Widths DEF Serial
<1>3. ee.addrCnt - 1 # 0 /\ ee.addrCnt - 1 \in 0 .. AddrBits
      /\ AddrBits - (ee.addrCnt - 1) = k + 1
  BY <1>2
<1>4. /\ ee' = [ee EXCEPT !.addr = a, !.addrCnt = ee.addrCnt - 1] /\ ram' = ram /\ do' = do
      /\ locked' = locked
  <2> DEFINE f == [ee EXCEPT !.addr = a % 2^16, !.addrCnt = ee.addrCnt - 1]
  <2>1. f.addrCnt = ee.addrCnt - 1 /\ f.state = "READ_ADDRESS"
    BY <1>2 DEF Chips
  <2>2. SetDi(ee, ram, bit) = Left(f, ram)
    <3>1. SetDi(ee, ram, bit) = AddressBit(ee, ram, bit)
      BY DEF SetDi
    <3>2. AddressBit(ee, ram, bit) = IF f.addrCnt = 0 THEN Enter(f, ram) ELSE Left(f, ram)
      BY DEF AddressBit
    <3> QED BY <1>3, <2>1, <3>1, <3>2
  <2>3. ee' = f /\ ram' = ram /\ do' = do /\ locked' = locked
    <3> HIDE DEF f
    <3>1. SetDi(ee, ram, bit).ee = f /\ SetDi(ee, ram, bit).ram = ram
      BY <2>2 DEF Left
    <3> QED BY <2>1, <3>1 DEF WriteDi
  <2>4. f = [ee EXCEPT !.addr = a, !.addrCnt = ee.addrCnt - 1]
    BY <1>1
  <2> QED BY <2>3, <2>4
<1> HIDE DEF a, k
<1>5. /\ ee'.state = "READ_ADDRESS" /\ ee'.op = ee.op /\ ee'.addr = a
      /\ ee'.addrCnt = ee.addrCnt - 1 /\ ee'.enabled = ee.enabled
      /\ ee'.rstate = ee.rstate /\ ee'.jump = ee.jump /\ ee'.dataCnt = ee.dataCnt
      /\ ee' \in Chips
  BY <1>1, <1>2, <1>3, <1>4 DEF Chips
<1>6. Serial'
  <2>1. EepromTypeOK'
    BY <1>2, <1>4, <1>5 DEF EepromTypeOK, Chips
  <2>2. ee'.addr < 2^(AddrBits - ee'.addrCnt)
    BY <1>1, <1>3, <1>5
  <2> QED BY <1>2, <1>3, <1>5, <2>1, <2>2 DEF Serial
<1>7. /\ FrameOf' = << 1 >> \o Bits(ee.op, 2) \o Bits(a, k + 1)
      /\ OutOf = <<>> /\ OutOf' = <<>>
  BY <1>3, <1>5 DEF FrameOf, OutOf
<1>8. ~Chip!Complete(Chip!Shifted(FrameOf, bit))
  <2>1. Chip!Header = 3 + AddrBits
    BY DEF Chip!Header
  <2>2. k + 1 < AddrBits
    BY <1>2, <1>3 DEF k
  <2> QED BY <1>1, <1>2, <2>1, <2>2 DEF Chip!Complete
<1>9. Chip!Next
  BY <1>1, <1>4, <1>5, <1>7, <1>8, Collects
<1> QED BY <1>6, <1>9

\* A frame that ends with its address.
Headed(op, a) == << 1 >> \o Bits(op, 2) \o Bits(a, AddrBits)

\* A frame that ends with its address is complete unless a word follows.
LEMMA HeaderFrame ==
    ASSUME NEW op \in 0 .. 3, NEW a \in Addresses
    PROVE  /\ Chip!Opcode(Headed(op, a)) = op /\ Chip!Address(Headed(op, a)) = a
           /\ Chip!Special(Headed(op, a)) = Top(a)
           /\ Chip!Complete(Headed(op, a)) <=> ~(op = 1 \/ (op = 0 /\ Top(a) = 1))
           /\ Headed(op, a) = Sent(op, a, 0, 0)
<1> DEFINE f == Headed(op, a)
           s == << 1 >> \o Bits(op, 2)
           t == Bits(a, AddrBits)
<1>1. s \in Seq(Bit)
  BY Headers
<1>2. t \in Seq(Bit)
  <2>1. a \in Nat /\ AddrBits \in Nat
    BY Widths
  <2> QED BY <2>1, BitsType
<1>3. s \o t \in Seq(Bit)
  <2> HIDE DEF s, t
  <2> QED BY <1>1, <1>2, Joined
<1>4. f = Sent(op, a, 0, 0)
  <2>1. Bits(0, 0) = <<>>
    BY NoBits
  <2>2. Sent(op, a, 0, 0) = (s \o t) \o <<>>
    BY <2>1, Zenon DEF Sent, Framed
  <2>3. f = s \o t
    BY DEF Headed
  <2> HIDE DEF s, t, f
  <2>4. (s \o t) \o <<>> = s \o t
    BY <1>3, ConcatEmptySeq
  <2> QED BY <2>2, <2>3, <2>4
<1>5. /\ Len(f) = Chip!Header + 0 /\ Chip!Header = 3 + AddrBits
      /\ Chip!Opcode(f) = op /\ Chip!Address(f) = a /\ Chip!Special(f) = Top(a)
  <2>1. 0 \in 0 .. DataBits /\ 0 \in 0 .. 2^0 - 1
    BY Widths
  <2> DEFINE g == Sent(op, a, 0, 0)
  <2>2. /\ Len(g) = Chip!Header + 0 /\ Chip!Header = 3 + AddrBits
        /\ Chip!Opcode(g) = op /\ Chip!Address(g) = a /\ Chip!Special(g) = Top(a)
    BY <2>1, Fields
  <2> HIDE DEF g
  <2>3. f = g
    BY <1>4 DEF g
  <2> QED BY <2>2, <2>3
<1>6. Chip!TakesData(f) <=> (op = 1 \/ (op = 0 /\ Top(a) = 1))
  BY <1>5 DEF Chip!TakesData
<1>7. Len(f) = 3 + AddrBits /\ AddrBits \in Nat /\ DataBits \in Nat /\ DataBits # 0
  BY <1>5, Widths
<1>8. Chip!Complete(f) <=> ~Chip!TakesData(f)
  <2> DEFINE takes == op = 1 \/ (op = 0 /\ Top(a) = 1)
  <2>1. Chip!Complete(f) <=> (Len(f) >= Chip!Header /\ (takes => Len(f) = Chip!Header + DataBits))
    BY <1>6 DEF Chip!Complete
  <2> HIDE DEF takes
  <2>2. Len(f) >= Chip!Header /\ Len(f) # Chip!Header + DataBits
    BY <1>5, <1>7
  <2>3. Chip!Complete(f) <=> ~takes
    BY <2>1, <2>2
  <2> QED BY <1>6, <2>3 DEF takes
<1> QED BY <1>4, <1>5, <1>6, <1>8

\* A frame with its whole word is complete.
LEMMA DataFrame ==
    ASSUME NEW op \in 0 .. 3, NEW a \in Addresses, NEW d \in Words
    PROVE  LET f == Sent(op, a, d, DataBits)
           IN  /\ Chip!Opcode(f) = op /\ Chip!Address(f) = a /\ Chip!Special(f) = Top(a)
               /\ Chip!Data(f) = d /\ Chip!Complete(f)
<1> DEFINE f == Sent(op, a, d, DataBits)
<1>1. DataBits \in 0 .. DataBits /\ d \in 0 .. 2^DataBits - 1 /\ DataBits \in Nat
  BY Widths DEF Words
<1>2. /\ Len(f) = Chip!Header + DataBits /\ Chip!Header = 3 + AddrBits
      /\ Chip!Opcode(f) = op /\ Chip!Address(f) = a /\ Chip!Special(f) = Top(a)
      /\ Chip!Data(f) = d
  BY <1>1, Fields
<1>3. Chip!Complete(f)
  BY <1>1, <1>2, Widths DEF Chip!Complete
<1> QED BY <1>2, <1>3

\* The last bit of the address: a is the address and g the chip that enters the state
\* of the opcode.
FullAddress(bit, a, g) ==
    /\ ee' = Enter(g, ram).ee /\ ram' = Enter(g, ram).ram /\ do' = do
    /\ locked' \in BOOLEAN
    /\ a \in Addresses /\ OutOf = <<>>
    /\ Chip!Shifted(FrameOf, bit) = Headed(ee.op, a)
    /\ g \in Chips /\ g.addr = a /\ g.op = ee.op /\ g.rstate = Entered(ee.op)
    /\ (g.jump <=> ee.op # 2) /\ g.enabled = ee.enabled
    /\ ee.op = 2 => g.dataCnt = DataBits

\* What the last bit of the address does before the state of the opcode is entered.
LEMMA AddressFull ==
    ASSUME Serial, NEW bit \in Bit, WriteDi(bit), ee.state = "READ_ADDRESS", ee.addrCnt = 1,
           NEW a, a = 2 * ee.addr + bit, NEW g, g = [ee EXCEPT !.addr = a, !.addrCnt = 0]
    PROVE  FullAddress(bit, a, g)
<1> DEFINE k == AddrBits - ee.addrCnt
<1>1. /\ a % 2^16 = a /\ a \in Addresses
      /\ Chip!Shifted(FrameOf, bit) = << 1 >> \o Bits(ee.op, 2) \o Bits(a, k + 1)
  BY AddressGrows
<1>2. k + 1 = AddrBits
  BY Widths
<1>3. /\ ee \in Chips /\ locked \in BOOLEAN
      /\ ee.rstate = Entered(ee.op) /\ ee.jump = (ee.op # 2)
      /\ ee.op = 2 => ee.dataCnt = DataBits
  BY EepromParts DEF Serial
<1>4. 0 \in 0 .. AddrBits
  BY Widths
<1>5. /\ g \in Chips /\ g.addr = a /\ g.op = ee.op /\ g.rstate = ee.rstate
      /\ g.jump = ee.jump /\ g.enabled = ee.enabled /\ g.dataCnt = ee.dataCnt /\ g.addrCnt = 0
  BY <1>1, <1>3, <1>4 DEF Chips
<1>6. SetDi(ee, ram, bit) = Enter(g, ram)
  <2> DEFINE f == [ee EXCEPT !.addr = a % 2^16, !.addrCnt = ee.addrCnt - 1]
  <2>1. f = g
    <3>1. ee.addrCnt - 1 = 0
      OBVIOUS
    <3> QED BY <1>1, <3>1, Zenon
  <2>2. SetDi(ee, ram, bit) = AddressBit(ee, ram, bit)
    BY DEF SetDi
  <2>3. AddressBit(ee, ram, bit) = IF f.addrCnt = 0 THEN Enter(f, ram) ELSE Left(f, ram)
    BY DEF AddressBit
  <2> QED BY <1>5, <2>1, <2>2, <2>3
<1> DEFINE to == Enter(g, ram)
<1>7. SetDi(ee, ram, bit) = to
  BY <1>6
<1> HIDE DEF to
<1>8. /\ ee' = to.ee /\ ram' = to.ram /\ do' = do
      /\ locked' = IF ee.state = "READ_ADDRESS" /\ to.ee.state = "START"
                   THEN ~to.ee.enabled ELSE locked
  BY <1>7 DEF WriteDi
<1>9. locked' \in BOOLEAN
  BY <1>3, <1>8
<1>10. OutOf = <<>>
  BY DEF OutOf
<1>11. Chip!Shifted(FrameOf, bit) = Headed(ee.op, a)
  BY <1>1, <1>2, Zenon DEF Headed
<1> QED BY <1>1, <1>3, <1>5, <1>8, <1>9, <1>10, <1>11 DEF to, FullAddress

\* A chip that is through with a frame: what is left of the invariant and the output.
LEMMA Through ==
    ASSUME ee' \in Chips, ee'.state \in {"START", "BUSY"},
           ram' \in [Addresses -> Words], do' \in Bit, locked' \in BOOLEAN
    PROVE  Serial' /\ FrameOf' = <<>> /\ OutOf' = <<>>
<1>1. EepromTypeOK'
  BY DEF EepromTypeOK, Chips
<1>2. Serial'
  BY <1>1 DEF Serial
<1>3. FrameOf' = <<>> /\ OutOf' = <<>>
  BY DEF FrameOf, OutOf
<1> QED BY <1>2, <1>3

\* A programming command: what it leaves, whether it was enabled or not.
LEMMA Programs ==
    ASSUME NEW g \in Chips, NEW to \in [Addresses -> Words], ram \in [Addresses -> Words],
           ee' = Program(g, ram, to).ee, ram' = Program(g, ram, to).ram
    PROVE  /\ ee' \in Chips /\ ee'.state = "BUSY" /\ ee'.enabled = g.enabled
           /\ ram' \in [Addresses -> Words]
           /\ ram' = IF g.enabled THEN to ELSE ram
<1>1. /\ ee' = [g EXCEPT !.state = "BUSY"]
      /\ ram' = IF g.enabled THEN to ELSE ram
  BY DEF Program, Left
<1> QED BY <1>1 DEF Chips

\* EWDS, EWEN: the write enable alone.
LEMMA Enables ==
    ASSUME NEW g \in Chips, NEW b \in BOOLEAN,
           ee' = [g EXCEPT !.enabled = b, !.state = "START"]
    PROVE  ee' \in Chips /\ ee'.state = "START" /\ ee'.enabled = b
BY DEF Chips

\* The address of a command that a word follows.
LEMMA DataFollows ==
    ASSUME NEW bit \in Bit, NEW g \in Chips, NEW then \in {"WRITE_DATA", "WRAL"},
           ee' = ReadData(g, ram, then).ee, ram' = ReadData(g, ram, then).ram, do' = do,
           ram \in [Addresses -> Words], do \in Bit, locked' \in BOOLEAN, OutOf = <<>>,
           Chip!Shifted(FrameOf, bit) = Headed(g.op, g.addr),
           g.enabled = ee.enabled,
           \/ g.op = 1 /\ then = "WRITE_DATA"
           \/ g.op = 0 /\ then = "WRAL" /\ Top(g.addr) = 1
    PROVE  Serial' /\ Chip!Next
<1>1. /\ ee' = [g EXCEPT !.rstate = then, !.state = "READ_DATA",
                         !.dataCnt = DataBits, !.data = 0, !.jump = TRUE]
      /\ ram' = ram
  BY DEF ReadData, Left
<1>2. 0 \in Words /\ DataBits \in 0 .. DataBits /\ DataBits # 0 /\ DataBits - DataBits = 0 /\ 0 < 2^0
  BY Widths
<1>3. g.op \in 0 .. 3 /\ g.addr \in Addresses
  BY DEF Chips
<1>4. /\ ee'.state = "READ_DATA" /\ ee'.dataCnt = DataBits /\ ee'.data = 0 /\ ee'.jump
      /\ ee'.rstate = then /\ ee'.op = g.op /\ ee'.addr = g.addr /\ ee'.enabled = ee.enabled
      /\ ee' \in Chips
  BY <1>1, <1>2 DEF Chips
<1>5. Serial'
  <2>1. EepromTypeOK'
    BY <1>1, <1>4 DEF EepromTypeOK, Chips
  <2>2. ee'.data < 2^(DataBits - ee'.dataCnt)
    BY <1>2, <1>4
  <2> QED BY <1>2, <1>4, <2>1, <2>2 DEF Serial
<1> DEFINE f == Headed(g.op, g.addr)
<1>6. /\ ~Chip!Complete(f) /\ f = Sent(g.op, g.addr, 0, 0)
  <2>1. /\ Chip!Complete(f) <=> ~(g.op = 1 \/ (g.op = 0 /\ Top(g.addr) = 1))
        /\ f = Sent(g.op, g.addr, 0, 0)
    BY <1>3, HeaderFrame
  <2> HIDE DEF f
  <2> QED BY <2>1
<1>7. FrameOf' = Sent(g.op, g.addr, 0, 0)
  <2>1. FrameOf' = << 1 >> \o Bits(g.op, 2) \o Bits(g.addr, AddrBits)
                        \o Bits(0, DataBits - DataBits)
    BY <1>4 DEF FrameOf
  <2>2. FrameOf' = << 1 >> \o Bits(g.op, 2) \o Bits(g.addr, AddrBits) \o Bits(0, 0)
    BY <1>2, <2>1, Zenon
  <2> QED BY <2>2, Zenon DEF Sent, Framed
<1>8. OutOf' = <<>>
  BY <1>4 DEF OutOf
<1>9. Chip!Shifted(FrameOf, bit) = f
  OBVIOUS
<1> HIDE DEF f
<1>10. Chip!Next
  BY <1>1, <1>4, <1>6, <1>7, <1>8, <1>9, Collects
<1> QED BY <1>5, <1>10

\* What a command does to the write enable and to the busy report.
LEMMA KeepsEnable ==
    ASSUME NEW e \in BOOLEAN, NEW cmd, cmd.op \notin {"EWEN", "EWDS"}
    PROVE  Chip!EnabledAfter(e, cmd) = e
BY Zenon DEF Chip!EnabledAfter

\* READ: its address is all it needs.
LEMMA ReadStep ==
    ASSUME Serial, NEW bit \in Bit, NEW a, NEW g, FullAddress(bit, a, g), ee.op = 2
    PROVE  Serial' /\ Chip!Next
<1> DEFINE f == Headed(2, a)
           cmd == [op |-> "READ", a |-> a]
<1>1. /\ ee' = Enter(g, ram).ee /\ ram' = Enter(g, ram).ram /\ do' = do
      /\ locked' \in BOOLEAN
      /\ a \in Addresses /\ OutOf = <<>>
      /\ Chip!Shifted(FrameOf, bit) = f
      /\ g \in Chips /\ g.addr = a /\ g.rstate = "READ_OUT"
      /\ ~g.jump /\ g.enabled = ee.enabled /\ g.dataCnt = DataBits
  <2>1. Entered(2) = "READ_OUT"
    BY DEF Entered
  <2> HIDE DEF f
  <2>2. f = Headed(2, a)
    BY DEF f
  <2> QED BY <2>1, <2>2 DEF FullAddress
<1>2. ram \in [Addresses -> Words] /\ do \in Bit /\ ee.enabled \in BOOLEAN
  BY EepromParts DEF Chips
<1>3. Chip!Opcode(f) = 2 /\ Chip!Address(f) = a /\ Chip!Complete(f)
  <2>1. 2 \in 0 .. 3 /\ a \in Addresses
    BY <1>1
  <2>2. /\ Chip!Opcode(f) = 2 /\ Chip!Address(f) = a
        /\ Chip!Complete(f) <=> ~(2 = 1 \/ (2 = 0 /\ Top(a) = 1))
    BY <2>1, HeaderFrame
  <2> HIDE DEF f
  <2> QED BY <2>2
<1> HIDE DEF f
<1>4. ee' = [g EXCEPT !.state = "READ_OUT"] /\ ram' = ram
  BY <1>1 DEF Enter, Left
<1>5. /\ ee' \in Chips /\ ee'.state = "READ_OUT" /\ ee'.addr = a /\ ee'.dataCnt = DataBits
      /\ ee'.enabled = ee.enabled
  BY <1>1, <1>4 DEF Chips
<1>6. Serial'
  <2>1. EepromTypeOK'
    BY <1>1, <1>2, <1>4, <1>5 DEF EepromTypeOK, Chips
  <2> QED BY <1>5, <2>1 DEF Serial
<1>7. FrameOf' = <<>> /\ OutOf' = << 0 >> \o Bits(ram[a], DataBits)
  BY <1>4, <1>5 DEF FrameOf, OutOf
<1>8. Chip!Decoded(f) = cmd
  BY <1>3 DEF Chip!Decoded
<1>9. cmd.op = "READ" /\ cmd.a = a
  OBVIOUS
<1>10. OutOf' = IF cmd.op = "READ" THEN << 0 >> \o Chip!LowBits(ram[cmd.a], DataBits) ELSE <<>>
  BY <1>7, <1>9 DEF Chip!LowBits, Bits
<1> HIDE DEF cmd
<1>11. ram' = Chip!Programmed(ram, ee.enabled, cmd)
  BY <1>4, <1>9 DEF Chip!Programmed
<1>12. ee'.enabled = Chip!EnabledAfter(ee.enabled, cmd)
  BY <1>2, <1>5, <1>9, KeepsEnable
<1>13. (ee'.state = "BUSY") = Chip!BusyAfter(cmd)
  BY <1>5, <1>9 DEF Chip!BusyAfter
<1>14. Chip!Next
  BY <1>1, <1>3, <1>7, <1>8, <1>10, <1>11, <1>12, <1>13, Executes
<1> QED BY <1>6, <1>14

\* The bit that completes a programming command.
LEMMA ProgramStep ==
    ASSUME Serial, NEW bit \in Bit, NEW g \in Chips, NEW to \in [Addresses -> Words],
           ee' = Program(g, ram, to).ee, ram' = Program(g, ram, to).ram, do' = do,
           locked' \in BOOLEAN, OutOf = <<>>, g.enabled = ee.enabled,
           NEW cmd, Chip!BusyAfter(cmd),
           Chip!Complete(Chip!Shifted(FrameOf, bit)),
           Chip!Decoded(Chip!Shifted(FrameOf, bit)) = cmd,
           Chip!Programmed(ram, ee.enabled, cmd) = IF ee.enabled THEN to ELSE ram
    PROVE  Serial' /\ Chip!Next
<1>1. ram \in [Addresses -> Words] /\ do \in Bit /\ ee.enabled \in BOOLEAN
  BY EepromParts DEF Chips
<1>2. /\ ee' \in Chips /\ ee'.state = "BUSY" /\ ee'.enabled = g.enabled
      /\ ram' \in [Addresses -> Words]
      /\ ram' = IF g.enabled THEN to ELSE ram
  BY <1>1, Programs
<1>3. Serial' /\ FrameOf' = <<>> /\ OutOf' = <<>>
  BY <1>1, <1>2, Through
<1>4. ram' = Chip!Programmed(ram, ee.enabled, cmd)
  BY <1>2
<1>9. cmd.op \in {"WRITE", "WRAL", "ERASE", "ERAL"}
  BY DEF Chip!BusyAfter
<1>5. ee'.enabled = Chip!EnabledAfter(ee.enabled, cmd)
  BY <1>1, <1>2, <1>9, KeepsEnable
<1>6. (ee'.state = "BUSY") = Chip!BusyAfter(cmd)
  BY <1>2, <1>9 DEF Chip!BusyAfter
<1>7. OutOf' = IF cmd.op = "READ" THEN << 0 >> \o Chip!LowBits(ram[cmd.a], DataBits) ELSE <<>>
  BY <1>3, <1>9
<1>8. Chip!Next
  BY <1>3, <1>4, <1>5, <1>6, <1>7, Executes
<1> QED BY <1>3, <1>8

\* ERASE.
LEMMA EraseStep ==
    ASSUME Serial, NEW bit \in Bit, NEW a, NEW g, FullAddress(bit, a, g), ee.op = 3
    PROVE  Serial' /\ Chip!Next
<1> DEFINE f == Headed(3, a)
           cmd == [op |-> "ERASE", a |-> a]
           to == [ram EXCEPT ![a] = Erased]
<1>1. /\ ee' = Enter(g, ram).ee /\ ram' = Enter(g, ram).ram /\ do' = do
      /\ locked' \in BOOLEAN
      /\ a \in Addresses /\ OutOf = <<>>
      /\ Chip!Shifted(FrameOf, bit) = f
      /\ g \in Chips /\ g.addr = a /\ g.rstate = "ERASE"
      /\ g.jump /\ g.enabled = ee.enabled
  <2>1. Entered(3) = "ERASE"
    BY DEF Entered
  <2> HIDE DEF f
  <2>2. f = Headed(3, a)
    BY DEF f
  <2> QED BY <2>1, <2>2 DEF FullAddress
<1>2. ram \in [Addresses -> Words] /\ Erased \in Words
  BY EepromParts, Widths
<1>3. Chip!Opcode(f) = 3 /\ Chip!Address(f) = a /\ Chip!Complete(f)
  <2>1. 3 \in 0 .. 3 /\ a \in Addresses
    BY <1>1
  <2>2. /\ Chip!Opcode(f) = 3 /\ Chip!Address(f) = a
        /\ Chip!Complete(f) <=> ~(3 = 1 \/ (3 = 0 /\ Top(a) = 1))
    BY <2>1, HeaderFrame
  <2> HIDE DEF f
  <2> QED BY <2>2
<1> HIDE DEF f
<1>4. Enter(g, ram) = Program(g, ram, to)
  BY <1>1 DEF Enter
<1>5. to \in [Addresses -> Words]
  BY <1>2
<1>6. Chip!Decoded(f) = cmd
  BY <1>3 DEF Chip!Decoded
<1>7. cmd.op = "ERASE" /\ cmd.a = a
  OBVIOUS
<1> HIDE DEF cmd
<1>8. Chip!Programmed(ram, ee.enabled, cmd) = IF ee.enabled THEN to ELSE ram
  BY <1>7 DEF Chip!Programmed, Erased
<1> HIDE DEF to
<1>9. ee' = Program(g, ram, to).ee /\ ram' = Program(g, ram, to).ram
  BY <1>1, <1>4
<1>10. /\ Chip!Complete(Chip!Shifted(FrameOf, bit))
       /\ Chip!Decoded(Chip!Shifted(FrameOf, bit)) = cmd
       /\ Chip!BusyAfter(cmd)
  BY <1>1, <1>3, <1>6, <1>7 DEF Chip!BusyAfter
<1> QED BY <1>1, <1>5, <1>8, <1>9, <1>10, ProgramStep, Zenon

\* WRITE: a word follows.
LEMMA WriteStep ==
    ASSUME Serial, NEW bit \in Bit, NEW a, NEW g, FullAddress(bit, a, g), ee.op = 1
    PROVE  Serial' /\ Chip!Next
<1>1. /\ ee' = Enter(g, ram).ee /\ ram' = Enter(g, ram).ram /\ do' = do
      /\ locked' \in BOOLEAN /\ OutOf = <<>>
      /\ Chip!Shifted(FrameOf, bit) = Headed(g.op, g.addr)
      /\ g \in Chips /\ g.op = 1 /\ g.rstate = "WRITE"
      /\ g.jump /\ g.enabled = ee.enabled
  <2>1. Entered(1) = "WRITE"
    BY DEF Entered
  <2> QED BY <2>1 DEF FullAddress
<1>2. ram \in [Addresses -> Words] /\ do \in Bit
  BY EepromParts
<1>3. Enter(g, ram) = ReadData(g, ram, "WRITE_DATA")
  BY <1>1 DEF Enter
<1> QED BY <1>1, <1>2, <1>3, DataFollows

\* EWDS, EWEN and ERAL are carried out; a word follows WRAL.
LEMMA ExtendedStep ==
    ASSUME Serial, NEW bit \in Bit, NEW a, NEW g, FullAddress(bit, a, g), ee.op = 0
    PROVE  Serial' /\ Chip!Next
<1> DEFINE f == Headed(0, a)
<1>1. /\ ee' = Enter(g, ram).ee /\ ram' = Enter(g, ram).ram /\ do' = do
      /\ locked' \in BOOLEAN
      /\ a \in Addresses /\ OutOf = <<>>
      /\ Chip!Shifted(FrameOf, bit) = f /\ Chip!Shifted(FrameOf, bit) = Headed(g.op, g.addr)
      /\ g \in Chips /\ g.addr = a /\ g.op = 0 /\ g.rstate = "EXTENDED"
      /\ g.jump /\ g.enabled = ee.enabled
  <2>1. Entered(0) = "EXTENDED"
    BY DEF Entered
  <2> HIDE DEF f
  <2>2. f = Headed(0, a)
    BY DEF f
  <2> QED BY <2>1, <2>2 DEF FullAddress
<1>2. ram \in [Addresses -> Words] /\ do \in Bit /\ ee.enabled \in BOOLEAN /\ Erased \in Words
  BY EepromParts, Widths DEF Chips
<1>3. /\ Chip!Opcode(f) = 0 /\ Chip!Special(f) = Top(a)
      /\ Top(a) # 1 => Chip!Complete(f)
  <2>1. 0 \in 0 .. 3 /\ a \in Addresses
    BY <1>1
  <2>2. /\ Chip!Opcode(f) = 0 /\ Chip!Special(f) = Top(a)
        /\ Chip!Complete(f) <=> ~(0 = 1 \/ (0 = 0 /\ Top(a) = 1))
    BY <2>1, HeaderFrame
  <2> HIDE DEF f
  <2> QED BY <2>2
<1> HIDE DEF f
<1> DEFINE which == (g.addr \div 2^(AddrBits - 2)) % 4
<1>4. Top(a) \in 0 .. 3 /\ which = Top(a)
  <2>1. Top(a) \in 0 .. 3
    BY <1>1, TopIs
  <2>2. which = Top(a) % 4
    BY <1>1, Zenon DEF Top
  <2> QED BY <2>1, <2>2
<1>5. Enter(g, ram) = Extended(g, ram)
  BY <1>1 DEF Enter
<1> HIDE DEF which
<1>6. Extended(g, ram) =
        CASE which = 0 -> Left([g EXCEPT !.enabled = FALSE, !.state = "START"], ram)
          [] which = 1 -> ReadData(g, ram, "WRAL")
          [] which = 2 -> Program(g, ram, [x \in Addresses |-> Erased])
          [] which = 3 -> Left([g EXCEPT !.enabled = TRUE, !.state = "START"], ram)
  BY DEF Extended, which
<1>7. CASE Top(a) \in {0, 3}
  <2> DEFINE b == Top(a) = 3
             cmd == [op |-> IF b THEN "EWEN" ELSE "EWDS"]
  <2>1. ee' = [g EXCEPT !.enabled = b, !.state = "START"] /\ ram' = ram
    <3>1. CASE Top(a) = 0
      <4>1. Extended(g, ram) = Left([g EXCEPT !.enabled = FALSE, !.state = "START"], ram)
        BY <1>4, <1>6, <3>1
      <4>2. ee' = [g EXCEPT !.enabled = FALSE, !.state = "START"] /\ ram' = ram
        BY <1>1, <1>5, <4>1 DEF Left
      <4>3. b = FALSE
        BY <3>1
      <4> HIDE DEF b
      <4> QED BY <4>2, <4>3, Zenon
    <3>2. CASE Top(a) = 3
      <4>1. Extended(g, ram) = Left([g EXCEPT !.enabled = TRUE, !.state = "START"], ram)
        BY <1>4, <1>6, <3>2
      <4>2. ee' = [g EXCEPT !.enabled = TRUE, !.state = "START"] /\ ram' = ram
        BY <1>1, <1>5, <4>1 DEF Left
      <4>3. b = TRUE
        BY <3>2
      <4> HIDE DEF b
      <4> QED BY <4>2, <4>3, Zenon
    <3> QED BY <1>7, <3>1, <3>2
  <2>2. ee' \in Chips /\ ee'.state = "START" /\ ee'.enabled = b
    BY <1>1, <2>1, Enables
  <2>3. Serial' /\ FrameOf' = <<>> /\ OutOf' = <<>>
    BY <1>1, <1>2, <2>1, <2>2, Through
  <2>4. Chip!Decoded(f) = cmd
    BY <1>3, <1>7 DEF Chip!Decoded
  <2>5. cmd.op = IF b THEN "EWEN" ELSE "EWDS"
    OBVIOUS
  <2>6. b \in BOOLEAN
    OBVIOUS
  <2> HIDE DEF cmd, b
  <2>7. ram' = Chip!Programmed(ram, ee.enabled, cmd)
    BY <2>1, <2>5 DEF Chip!Programmed
  <2>8. ee'.enabled = Chip!EnabledAfter(ee.enabled, cmd)
    <3>1. CASE b
      BY <1>2, <2>2, <2>5, <2>6, <3>1 DEF Chip!EnabledAfter
    <3>2. CASE ~b
      BY <1>2, <2>2, <2>5, <2>6, <3>2 DEF Chip!EnabledAfter
    <3> QED BY <3>1, <3>2
  <2>9. (ee'.state = "BUSY") = Chip!BusyAfter(cmd)
    BY <2>2, <2>5 DEF Chip!BusyAfter
  <2>10. OutOf' = IF cmd.op = "READ" THEN << 0 >> \o Chip!LowBits(ram[cmd.a], DataBits) ELSE <<>>
    BY <2>3, <2>5
  <2>11. Chip!Next
    BY <1>1, <1>3, <1>7, <2>3, <2>4, <2>7, <2>8, <2>9, <2>10, Executes
  <2> QED BY <2>3, <2>11
<1>8. CASE Top(a) = 1
  <2>1. Enter(g, ram) = ReadData(g, ram, "WRAL")
    BY <1>4, <1>5, <1>6, <1>8
  <2> QED BY <1>1, <1>2, <1>8, <2>1, DataFollows
<1>9. CASE Top(a) = 2
  <2> DEFINE cmd == [op |-> "ERAL"]
             to == [x \in Addresses |-> Erased]
  <2>1. Enter(g, ram) = Program(g, ram, to)
    BY <1>4, <1>5, <1>6, <1>9
  <2>2. to \in [Addresses -> Words]
    BY <1>2
  <2>3. Chip!Decoded(f) = cmd
    BY <1>3, <1>9 DEF Chip!Decoded
  <2>4. cmd.op = "ERAL"
    OBVIOUS
  <2> HIDE DEF cmd
  <2>5. Chip!Programmed(ram, ee.enabled, cmd) = IF ee.enabled THEN to ELSE ram
    BY <2>4 DEF Chip!Programmed, Chip!Addr, Addresses, Erased
  <2> HIDE DEF to
  <2>6. ee' = Program(g, ram, to).ee /\ ram' = Program(g, ram, to).ram
    BY <1>1, <2>1
  <2>7. /\ Chip!Complete(Chip!Shifted(FrameOf, bit))
        /\ Chip!Decoded(Chip!Shifted(FrameOf, bit)) = cmd
        /\ Chip!BusyAfter(cmd)
    BY <1>1, <1>3, <1>9, <2>3, <2>4 DEF Chip!BusyAfter
  <2> QED BY <1>1, <2>2, <2>5, <2>6, <2>7, ProgramStep, Zenon
<1> QED BY <1>4, <1>7, <1>8, <1>9

\* The last bit of the address, whatever the opcode.
LEMMA AddressLast ==
    ASSUME Serial, NEW bit \in Bit, WriteDi(bit), ee.state = "READ_ADDRESS", ee.addrCnt = 1
    PROVE  Serial' /\ Chip!Next
<1> DEFINE a == 2 * ee.addr + bit
           g == [ee EXCEPT !.addr = a, !.addrCnt = 0]
<1>1. FullAddress(bit, a, g)
  BY AddressFull
<1>2. ee.op \in {0, 1, 2, 3}
  <2>1. ee.op \in 0 .. 3
    BY EepromParts
  <2> QED BY <2>1
<1> HIDE DEF a, g
<1>3. CASE ee.op = 0
  BY <1>1, <1>3, ExtendedStep
<1>4. CASE ee.op = 1
  BY <1>1, <1>4, WriteStep
<1>5. CASE ee.op = 2
  BY <1>1, <1>5, ReadStep
<1>6. CASE ee.op = 3
  BY <1>1, <1>6, EraseStep
<1> QED BY <1>2, <1>3, <1>4, <1>5, <1>6

------------------------------------------------------------------------------
(* The data.                                                               *)

\* The next bit of the data is the next bit of the frame, and loses none before it.
LEMMA DataGrows ==
    ASSUME Serial, NEW bit \in Bit, ee.state = "READ_DATA",
           NEW d, d = 2 * ee.data + bit, NEW k, k = DataBits - ee.dataCnt
    PROVE  /\ d % 2^16 = d /\ d \in Nat /\ d \in Words /\ d < 2^(k + 1)
           /\ k \in Nat /\ k + 1 \in 0 .. DataBits
           /\ Chip!Shifted(FrameOf, bit) = Sent(ee.op, ee.addr, d, k + 1)
<1>1. /\ ee.op \in 0 .. 3 /\ ee.addr \in Addresses /\ ee.data \in Nat
      /\ ee.dataCnt \in 0 .. DataBits /\ DataBits \in Nat
      /\ ee.dataCnt # 0 /\ ee.data < 2^k /\ k \in Nat
  BY EepromParts, Widths DEF Serial
<1>2. k + 1 <= DataBits /\ k < 16
  BY <1>1, WidthAssumption
<1>3. d % 2^16 = d /\ d \in Nat /\ d < 2^(k + 1)
  BY <1>1, <1>2, BitFits
<1>4. d \in Words
  <2>1. 2^(k + 1) <= 2^DataBits /\ 2^(k + 1) \in Nat /\ 2^DataBits \in Nat
    BY <1>1, <1>2, PowerMonotone, PowerIs
  <2> QED BY <1>3, <2>1 DEF Words
<1> DEFINE p == << 1 >> \o Bits(ee.op, 2)
           q == Bits(ee.addr, AddrBits)
           s == p \o q
<1>5. FrameOf = s \o Bits(ee.data, k)
  BY DEF FrameOf
<1>6. s \in Seq(Bit) /\ s # <<>>
  <2>1. p \in Seq(Bit) /\ Len(p) = 3
    BY <1>1, Headers
  <2>2. q \in Seq(Bit)
    BY <1>1, Widths, BitsType
  <2> HIDE DEF p, q
  <2>3. s \in Seq(Bit) /\ Len(s) = Len(p) + Len(q)
    BY <2>1, <2>2, Joined, Zenon
  <2>4. Len(q) \in Nat
    BY <2>2
  <2> HIDE DEF s
  <2> QED BY <2>1, <2>3, <2>4
<1>7. s \o Bits(d, k + 1) = Sent(ee.op, ee.addr, d, k + 1)
  BY Zenon DEF Sent, Framed
<1> HIDE DEF s
<1>8. Chip!Shifted(s \o Bits(ee.data, k), bit) = s \o Bits(2 * ee.data + bit, k + 1)
  BY <1>1, <1>6, Grows
<1>9. Chip!Shifted(FrameOf, bit) = Sent(ee.op, ee.addr, d, k + 1)
  BY <1>5, <1>7, <1>8
<1>10. k + 1 \in 0 .. DataBits
  BY <1>1, <1>2
<1> QED BY <1>1, <1>3, <1>4, <1>9, <1>10

\* A bit of the data that is not its last.
LEMMA DataStep ==
    ASSUME Serial, NEW bit \in Bit, WriteDi(bit), ee.state = "READ_DATA", ee.dataCnt # 1
    PROVE  Serial' /\ Chip!Next
<1> DEFINE d == 2 * ee.data + bit
           k == DataBits - ee.dataCnt
<1>1. /\ d % 2^16 = d /\ d \in Nat /\ d \in Words /\ d < 2^(k + 1)
      /\ k \in Nat /\ k + 1 \in 0 .. DataBits
      /\ Chip!Shifted(FrameOf, bit) = Sent(ee.op, ee.addr, d, k + 1)
  BY DataGrows, Zenon
<1>2. /\ ee \in Chips /\ ram \in [Addresses -> Words] /\ do \in Bit /\ locked \in BOOLEAN
      /\ ee.dataCnt \in 1 .. DataBits /\ DataBits \in Nat /\ ee.jump
      /\ ee.op \in 0 .. 3 /\ ee.addr \in Addresses
      /\ \/ ee.op = 1 /\ ee.rstate = "WRITE_DATA"
         \/ ee.op = 0 /\ ee.rstate = "WRAL" /\ Top(ee.addr) = 1
  BY EepromParts, Widths DEF Serial
<1>3. ee.dataCnt - 1 # 0 /\ ee.dataCnt - 1 \in 0 .. DataBits
      /\ DataBits - (ee.dataCnt - 1) = k + 1 /\ k + 1 # DataBits
  BY <1>2
<1>4. /\ ee' = [ee EXCEPT !.data = d, !.dataCnt = ee.dataCnt - 1] /\ ram' = ram /\ do' = do
      /\ locked' = locked
  <2> DEFINE f == [ee EXCEPT !.data = d % 2^16, !.dataCnt = ee.dataCnt - 1]
  <2>1. f.dataCnt = ee.dataCnt - 1 /\ f.state = "READ_DATA"
    BY <1>2 DEF Chips
  <2>2. SetDi(ee, ram, bit) = Left(f, ram)
    <3>1. SetDi(ee, ram, bit) = DataBit(ee, ram, bit)
      BY DEF SetDi
    <3>2. DataBit(ee, ram, bit) = IF f.dataCnt = 0 THEN Enter(f, ram) ELSE Left(f, ram)
      BY DEF DataBit
    <3> QED BY <1>3, <2>1, <3>1, <3>2
  <2>3. ee' = f /\ ram' = ram /\ do' = do /\ locked' = locked
    <3> HIDE DEF f
    <3>1. SetDi(ee, ram, bit).ee = f /\ SetDi(ee, ram, bit).ram = ram
      BY <2>2 DEF Left
    <3> QED BY <2>1, <3>1 DEF WriteDi
  <2>4. f = [ee EXCEPT !.data = d, !.dataCnt = ee.dataCnt - 1]
    BY <1>1
  <2> QED BY <2>3, <2>4
<1> HIDE DEF d, k
<1>5. /\ ee'.state = "READ_DATA" /\ ee'.op = ee.op /\ ee'.addr = ee.addr /\ ee'.data = d
      /\ ee'.dataCnt = ee.dataCnt - 1 /\ ee'.enabled = ee.enabled
      /\ ee'.rstate = ee.rstate /\ ee'.jump = ee.jump
      /\ ee' \in Chips
  BY <1>1, <1>2, <1>3, <1>4 DEF Chips
<1>6. Serial'
  <2>1. EepromTypeOK'
    BY <1>2, <1>4, <1>5 DEF EepromTypeOK, Chips
  <2>2. ee'.data < 2^(DataBits - ee'.dataCnt)
    BY <1>1, <1>3, <1>5
  <2> QED BY <1>2, <1>3, <1>5, <2>1, <2>2 DEF Serial
<1>7. /\ FrameOf' = Sent(ee.op, ee.addr, d, k + 1)
      /\ OutOf = <<>> /\ OutOf' = <<>>
  <2>1. FrameOf' = << 1 >> \o Bits(ee.op, 2) \o Bits(ee.addr, AddrBits) \o Bits(d, k + 1)
    <3>1. FrameOf' = << 1 >> \o Bits(ee'.op, 2) \o Bits(ee'.addr, AddrBits)
                          \o Bits(ee'.data, DataBits - ee'.dataCnt)
      BY <1>5 DEF FrameOf
    <3> QED BY <1>3, <1>5, <3>1, Zenon
  <2>2. OutOf = <<>> /\ OutOf' = <<>>
    BY <1>5 DEF OutOf
  <2> QED BY <2>1, <2>2, Zenon DEF Sent, Framed
<1>8. ~Chip!Complete(Chip!Shifted(FrameOf, bit))
  <2> DEFINE f == Sent(ee.op, ee.addr, d, k + 1)
  <2>1. d \in 0 .. 2^(k + 1) - 1
    <3>1. 2^(k + 1) \in Nat
      BY <1>1, PowerIs
    <3> QED BY <1>1, <3>1
  <2>2. /\ Len(f) = Chip!Header + (k + 1) /\ Chip!Header = 3 + AddrBits
        /\ Chip!Opcode(f) = ee.op /\ Chip!Special(f) = Top(ee.addr)
    BY <1>1, <1>2, <2>1, Fields
  <2> HIDE DEF f
  <2>3. Chip!TakesData(f)
    BY <1>2, <2>2 DEF Chip!TakesData
  <2>4. Len(f) # Chip!Header + DataBits
    BY <1>1, <1>2, <1>3, <2>2, Widths
  <2>5. ~Chip!Complete(f)
    BY <2>3, <2>4 DEF Chip!Complete
  <2> QED BY <1>1, <2>5 DEF f
<1>9. Chip!Next
  BY <1>1, <1>4, <1>5, <1>7, <1>8, Collects
<1> QED BY <1>6, <1>9

\* The last bit of the data.
LEMMA DataLast ==
    ASSUME Serial, NEW bit \in Bit, WriteDi(bit), ee.state = "READ_DATA", ee.dataCnt = 1
    PROVE  Serial' /\ Chip!Next
<1> DEFINE d == 2 * ee.data + bit
           k == DataBits - ee.dataCnt
           g == [ee EXCEPT !.data = d, !.dataCnt = 0]
           a == ee.addr
           f == Sent(ee.op, a, d, DataBits)
<1>1. /\ d % 2^16 = d /\ d \in Words
      /\ Chip!Shifted(FrameOf, bit) = Sent(ee.op, a, d, k + 1)
  BY DataGrows, Zenon
<1>2. k + 1 = DataBits
  BY Widths
<1>3. /\ ee \in Chips /\ ram \in [Addresses -> Words] /\ do' = do /\ locked \in BOOLEAN
      /\ ee.jump /\ ee.op \in 0 .. 3 /\ a \in Addresses
      /\ \/ ee.op = 1 /\ ee.rstate = "WRITE_DATA"
         \/ ee.op = 0 /\ ee.rstate = "WRAL" /\ Top(a) = 1
  BY EepromParts DEF Serial, WriteDi
<1>4. /\ g \in Chips /\ g.addr = a /\ g.data = d /\ g.rstate = ee.rstate /\ (g.jump <=> ee.jump)
      /\ g.enabled = ee.enabled /\ g.dataCnt = 0
  <2>1. 0 \in 0 .. DataBits
    BY Widths
  <2> HIDE DEF d, a
  <2>2. g \in Chips
    BY <1>1, <1>3, <2>1 DEF Chips
  <2> QED BY <1>3, <2>2 DEF Chips, a
<1>5. SetDi(ee, ram, bit) = Enter(g, ram)
  <2> DEFINE e == [ee EXCEPT !.data = d % 2^16, !.dataCnt = ee.dataCnt - 1]
  <2>1. e = g
    <3>1. ee.dataCnt - 1 = 0
      OBVIOUS
    <3> QED BY <1>1, <3>1, Zenon
  <2>2. SetDi(ee, ram, bit) = DataBit(ee, ram, bit)
    BY DEF SetDi
  <2>3. DataBit(ee, ram, bit) = IF e.dataCnt = 0 THEN Enter(e, ram) ELSE Left(e, ram)
    BY DEF DataBit
  <2> QED BY <1>4, <2>1, <2>2, <2>3
<1> DEFINE to == Enter(g, ram)
<1>6. ee' = to.ee /\ ram' = to.ram /\ locked' = locked
  <2>1. SetDi(ee, ram, bit) = to
    BY <1>5
  <2> HIDE DEF to
  <2> QED BY <2>1 DEF WriteDi
<1>7. OutOf = <<>>
  BY DEF OutOf
<1>8. Chip!Shifted(FrameOf, bit) = f
  BY <1>1, <1>2, Zenon
<1>9. /\ Chip!Opcode(f) = ee.op /\ Chip!Address(f) = a /\ Chip!Special(f) = Top(a)
      /\ Chip!Data(f) = d /\ Chip!Complete(f)
  BY <1>1, <1>3, DataFrame
<1> HIDE DEF f, d, a, g
<1>10. CASE ee.op = 1 /\ ee.rstate = "WRITE_DATA"
  <2> DEFINE cmd == [op |-> "WRITE", a |-> a, d |-> d]
             new == [ram EXCEPT ![a] = d]
  <2>1. to = Program(g, ram, new)
    BY <1>3, <1>4, <1>10 DEF Enter
  <2>2. new \in [Addresses -> Words]
    BY <1>1, <1>3
  <2>3. Chip!Decoded(f) = cmd
    BY <1>9, <1>10 DEF Chip!Decoded
  <2>4. cmd.op = "WRITE" /\ cmd.a = a /\ cmd.d = d
    OBVIOUS
  <2> HIDE DEF cmd
  <2>5. Chip!Programmed(ram, ee.enabled, cmd) = IF ee.enabled THEN new ELSE ram
    BY <2>4 DEF Chip!Programmed
  <2> HIDE DEF new, to
  <2>6. ee' = Program(g, ram, new).ee /\ ram' = Program(g, ram, new).ram
    BY <1>6, <2>1
  <2>7. /\ Chip!Complete(Chip!Shifted(FrameOf, bit))
        /\ Chip!Decoded(Chip!Shifted(FrameOf, bit)) = cmd
        /\ Chip!BusyAfter(cmd)
    BY <1>8, <1>9, <2>3, <2>4 DEF Chip!BusyAfter
  <2>8. locked' \in BOOLEAN
    BY <1>3, <1>6
  <2> QED BY <1>3, <1>4, <1>7, <2>2, <2>5, <2>6, <2>7, <2>8, ProgramStep, Zenon
<1>11. CASE ee.op = 0 /\ ee.rstate = "WRAL" /\ Top(a) = 1
  <2> DEFINE cmd == [op |-> "WRAL", d |-> d]
             new == [x \in Addresses |-> d]
  <2>1. to = Program(g, ram, new)
    BY <1>3, <1>4, <1>11 DEF Enter
  <2>2. new \in [Addresses -> Words]
    BY <1>1
  <2>3. Chip!Decoded(f) = cmd
    BY <1>9, <1>11 DEF Chip!Decoded
  <2>4. cmd.op = "WRAL" /\ cmd.d = d
    OBVIOUS
  <2> HIDE DEF cmd
  <2>5. Chip!Programmed(ram, ee.enabled, cmd) = IF ee.enabled THEN new ELSE ram
    BY <2>4 DEF Chip!Programmed, Chip!Addr, Addresses
  <2> HIDE DEF new, to
  <2>6. ee' = Program(g, ram, new).ee /\ ram' = Program(g, ram, new).ram
    BY <1>6, <2>1
  <2>7. /\ Chip!Complete(Chip!Shifted(FrameOf, bit))
        /\ Chip!Decoded(Chip!Shifted(FrameOf, bit)) = cmd
        /\ Chip!BusyAfter(cmd)
    BY <1>8, <1>9, <2>3, <2>4 DEF Chip!BusyAfter
  <2>8. locked' \in BOOLEAN
    BY <1>3, <1>6
  <2> QED BY <1>3, <1>4, <1>7, <2>2, <2>5, <2>6, <2>7, <2>8, ProgramStep, Zenon
<1> QED BY <1>3, <1>10, <1>11

------------------------------------------------------------------------------
(* The output.                                                             *)

\* The zero in front of a word.
LEMMA Zeroed ==
    ASSUME NEW s \in Seq(Bit)
    PROVE  LET t == << 0 >> \o s IN t # <<>> /\ Head(t) = 0 /\ Tail(t) = s
<1> DEFINE p == << 0 >>
           t == p \o s
<1>1. p \in Seq(Bit) /\ Len(p) = 1 /\ p[1] = 0
  BY DEF Bit
<1> HIDE DEF p
<1>2. /\ t \in Seq(Bit) /\ Len(t) = Len(p) + Len(s)
      /\ \A i \in 1 .. Len(p) : t[i] = p[i]
      /\ \A i \in 1 .. Len(s) : t[i + Len(p)] = s[i]
  BY <1>1, Joined, Zenon
<1> HIDE DEF t
<1>3. t # <<>> /\ t[1] = 0 /\ Len(t) = 1 + Len(s) /\ Len(s) \in Nat
  BY <1>1, <1>2
<1>4. Head(t) = 0
  BY <1>2, <1>3
<1>5. Tail(t) = s
  <2>1. Tail(t) \in Seq(Bit) /\ Len(Tail(t)) = Len(s)
    BY <1>2, <1>3
  <2>2. \A i \in 1 .. Len(s) : Tail(t)[i] = s[i]
    BY <1>1, <1>2, <1>3
  <2> QED BY <2>1, <2>2
<1> QED BY <1>3, <1>4, <1>5 DEF t, p

\* A word's bits from the jth on.
LEMMA Shifts ==
    ASSUME NEW s \in Seq(Bit), NEW j \in 1 .. Len(s)
    PROVE  LET t == SubSeq(s, j, Len(s))
           IN  /\ t # <<>> /\ Head(t) = s[j] /\ Tail(t) = SubSeq(s, j + 1, Len(s))
               /\ j = 1 => t = s
               /\ j = Len(s) => Tail(t) = <<>>
<1> DEFINE n == Len(s)
           t == SubSeq(s, j, n)
           u == SubSeq(s, j + 1, n)
<1>1. n \in Nat /\ j \in 1 .. n /\ s \in Seq(Bit) /\ Len(s) = n
  OBVIOUS
<1> HIDE DEF n
<1>2. t \in Seq(Bit) /\ Len(t) = n - j + 1 /\ \A i \in 1 .. n - j + 1 : t[i] = s[j + i - 1]
  BY <1>1
<1>3. u \in Seq(Bit) /\ Len(u) = n - j /\ \A i \in 1 .. n - j : u[i] = s[j + i]
  BY <1>1
<1> HIDE DEF t, u
<1>4. t # <<>> /\ Head(t) = s[j]
  BY <1>1, <1>2
<1>5. Tail(t) = u
  <2>1. Tail(t) \in Seq(Bit) /\ Len(Tail(t)) = n - j
    BY <1>1, <1>2
  <2>2. \A i \in 1 .. n - j : Tail(t)[i] = u[i]
    BY <1>1, <1>2, <1>3
  <2> QED BY <1>3, <2>1, <2>2
<1>6. j = 1 => t = s
  BY <1>1, <1>2
<1>7. j = n => u = <<>>
  BY <1>1, <1>3
<1> QED BY <1>4, <1>5, <1>6, <1>7 DEF n, t, u

\* What a chip that is reading a word out presents.
LEMMA Presents ==
    ASSUME Serial, ee.state = "READ_OUT", NEW s, s = Bits(ram[ee.addr], DataBits)
    PROVE  /\ s \in Seq(Bit) /\ Len(s) = DataBits /\ OutOf # <<>>
           /\ Head(OutOf) = GetDo(ee, ram)
           /\ ee.dataCnt = DataBits => OutOf = << 0 >> \o s
           /\ ee.dataCnt # DataBits =>
                 /\ OutOf = SubSeq(s, DataBits - ee.dataCnt, DataBits)
                 /\ DataBits - ee.dataCnt \in 1 .. DataBits
<1> DEFINE v == ram[ee.addr]
           k == ee.dataCnt
<1>1. /\ k \in 0 .. DataBits /\ DataBits \in Nat /\ v \in Words /\ Words \subseteq Nat
  BY EepromParts, Widths
<1>2. s = Bits(v, DataBits)
  OBVIOUS
<1>3. OutOf = IF k = DataBits THEN << 0 >> \o s ELSE SubSeq(s, DataBits - k, DataBits)
  BY DEF OutOf
<1>4. GetDo(ee, ram) = IF k >= DataBits THEN 0 ELSE (v \div 2^k) % 2
  BY DEF GetDo
<1> HIDE DEF v, k
<1>5. s \in Seq(Bit) /\ Len(s) = DataBits
  BY <1>1, <1>2, BitsType
<1>6. CASE k = DataBits
  <2>1. OutOf = << 0 >> \o s /\ GetDo(ee, ram) = 0
    BY <1>1, <1>3, <1>4, <1>6
  <2>2. OutOf # <<>> /\ Head(OutOf) = 0
    BY <1>5, <2>1, Zeroed
  <2> QED BY <1>5, <1>6, <2>1, <2>2 DEF k
<1>7. CASE k # DataBits
  <2> DEFINE j == DataBits - k
  <2>1. j \in 1 .. DataBits /\ DataBits - j = k
    BY <1>1, <1>7
  <2>2. OutOf = SubSeq(s, j, DataBits)
    BY <1>3, <1>7
  <2>3. GetDo(ee, ram) = (v \div 2^k) % 2
    BY <1>1, <1>4, <1>7
  <2> HIDE DEF j
  <2>4. s[j] = (v \div 2^k) % 2
    <3>1. s[j] = (v \div 2^(DataBits - j)) % 2
      BY <1>2, <2>1 DEF Bits
    <3> QED BY <2>1, <3>1, Zenon
  <2>5. OutOf # <<>> /\ Head(OutOf) = s[j]
    BY <1>5, <2>1, <2>2, Shifts
  <2> QED BY <1>5, <1>7, <2>1, <2>2, <2>3, <2>4, <2>5 DEF k, j
<1> QED BY <1>6, <1>7

\* A clock, by a read of $F14800 or a write of it.
LEMMA ClockStep ==
    ASSUME Serial, ee.state = "READ_OUT", ee' = Clocked(ee), ram' = ram, do' = do,
           locked' = locked
    PROVE  Serial' /\ Chip!Next
<1> DEFINE s == Bits(ram[ee.addr], DataBits)
           k == ee.dataCnt
<1>1. /\ s \in Seq(Bit) /\ Len(s) = DataBits /\ OutOf # <<>>
      /\ k = DataBits => OutOf = << 0 >> \o s
      /\ k # DataBits => /\ OutOf = SubSeq(s, DataBits - k, DataBits)
                         /\ DataBits - k \in 1 .. DataBits
  BY Presents
<1>2. /\ ee \in Chips /\ ram \in [Addresses -> Words] /\ do \in Bit /\ locked \in BOOLEAN
      /\ k \in 0 .. DataBits /\ DataBits \in Nat /\ DataBits # 0
  BY EepromParts, Widths
<1>3. /\ ee' = IF k > 0 THEN [ee EXCEPT !.dataCnt = k - 1] ELSE [ee EXCEPT !.state = "START"]
  BY DEF Clocked
<1>4. k > 0 => k - 1 \in 0 .. DataBits
  <2> HIDE DEF k
  <2> QED BY <1>2
<1>5. /\ ee' \in Chips /\ ee'.enabled = ee.enabled /\ ee'.addr = ee.addr
      /\ ee'.state = IF k > 0 THEN "READ_OUT" ELSE "START"
      /\ k > 0 => ee'.dataCnt = k - 1
  <2>1. CASE k > 0
    BY <1>2, <1>3, <1>4, <2>1 DEF Chips
  <2>2. CASE ~(k > 0)
    BY <1>2, <1>3, <2>2 DEF Chips
  <2> QED BY <2>1, <2>2
<1>6. Serial'
  <2>1. EepromTypeOK'
    BY <1>2, <1>5 DEF EepromTypeOK, Chips
  <2>2. ee'.state \in {"READ_OUT", "START"}
    BY <1>5
  <2> QED BY <2>1, <2>2 DEF Serial
<1>7. FrameOf = <<>> /\ FrameOf' = <<>>
  <2>1. ee'.state \in {"READ_OUT", "START"}
    BY <1>5
  <2> QED BY <2>1 DEF FrameOf
<1>8. OutOf' = IF k > 0 THEN IF k - 1 = DataBits THEN << 0 >> \o s
                             ELSE SubSeq(s, DataBits - (k - 1), DataBits)
               ELSE <<>>
  BY <1>5 DEF OutOf
<1> HIDE DEF s, k
<1>9. OutOf' = Tail(OutOf)
  <2>1. CASE k = DataBits
    <3>1. k > 0 /\ k - 1 # DataBits /\ DataBits - (k - 1) = 1 /\ 1 \in 1 .. Len(s)
      BY <1>1, <1>2, <2>1
    <3>2. OutOf' = SubSeq(s, 1, DataBits)
      BY <1>8, <3>1
    <3>3. SubSeq(s, 1, Len(s)) = s
      BY <1>1, <3>1, Shifts
    <3>4. Tail(<< 0 >> \o s) = s
      BY <1>1, Zeroed
    <3> QED BY <1>1, <2>1, <3>2, <3>3, <3>4
  <2>2. CASE k # DataBits /\ k > 0
    <3> DEFINE j == DataBits - k
    <3>1. j \in 1 .. Len(s) /\ k - 1 # DataBits /\ DataBits - (k - 1) = j + 1
      BY <1>1, <1>2, <2>2
    <3>2. OutOf = SubSeq(s, j, DataBits)
      BY <1>1, <2>2
    <3> HIDE DEF j
    <3>3. OutOf' = SubSeq(s, j + 1, DataBits)
      BY <1>8, <2>2, <3>1
    <3>4. Tail(SubSeq(s, j, Len(s))) = SubSeq(s, j + 1, Len(s))
      BY <1>1, <3>1, Shifts
    <3> QED BY <1>1, <3>2, <3>3, <3>4
  <2>3. CASE k = 0
    <3>1. OutOf = SubSeq(s, DataBits, DataBits) /\ DataBits \in 1 .. Len(s)
      BY <1>1, <1>2, <2>3
    <3>2. OutOf' = <<>>
      BY <1>8, <2>3
    <3>3. Tail(SubSeq(s, DataBits, Len(s))) = <<>>
      BY <1>1, <3>1, Shifts
    <3> QED BY <1>1, <3>1, <3>2, <3>3
  <2> QED BY <1>2, <2>1, <2>2, <2>3
<1>10. ee'.state # "BUSY"
  BY <1>5
<1>11. Chip!Next
  BY <1>1, <1>5, <1>7, <1>9, <1>10 DEF Chip!Next, Chip!Clock
<1> QED BY <1>6, <1>11

\* A sample of DO.
LEMMA SampleStep ==
    ASSUME Serial, ReadDo
    PROVE  Serial' /\ Chip!Next
<1>1. /\ ee \in Chips /\ ram \in [Addresses -> Words] /\ locked \in BOOLEAN
  BY EepromParts
<1>2. do' = GetDo(ee, ram) /\ ee' = Sampled(ee) /\ ram' = ram /\ locked' = locked
  BY DEF ReadDo
<1>3. do' = IF ee.state = "BUSY" THEN 0 ELSE IF OutOf # <<>> THEN Head(OutOf) ELSE 1
  <2>1. CASE ee.state = "BUSY"
    BY <1>2, <2>1 DEF GetDo
  <2>2. CASE ee.state = "READ_OUT"
    <3>1. OutOf # <<>> /\ Head(OutOf) = GetDo(ee, ram)
      BY <2>2, Presents
    <3> QED BY <1>2, <2>2, <3>1
  <2>3. CASE ee.state \notin {"BUSY", "READ_OUT"}
    BY <1>2, <2>3 DEF GetDo, OutOf
  <2> QED BY <2>1, <2>2, <2>3
<1>4. do' \in Bit
  <2>1. CASE ee.state = "READ_OUT"
    <3> DEFINE s == Bits(ram[ee.addr], DataBits)
    <3>1. s \in Seq(Bit) /\ OutOf # <<>> /\ do' = IF ee.dataCnt >= DataBits THEN 0 ELSE (ram[ee.addr] \div 2^ee.dataCnt) % 2
      BY <1>2, <2>1, Presents DEF GetDo
    <3>2. ram[ee.addr] \div 2^ee.dataCnt \in Nat
      <4>1. ram[ee.addr] \in Nat /\ ee.dataCnt \in Nat
        BY EepromParts, Widths
      <4>2. 2^ee.dataCnt \in Nat /\ 2^ee.dataCnt >= 1
        BY <4>1, PowerIs
      <4> QED BY <4>1, <4>2, Division
    <3> DEFINE q == ram[ee.addr] \div 2^ee.dataCnt
    <3> HIDE DEF q
    <3>3. q \in Nat /\ (do' = 0 \/ do' = q % 2)
      BY <3>1, <3>2 DEF q
    <3> QED BY <3>3 DEF Bit
  <2>2. CASE ee.state # "READ_OUT"
    BY <1>2, <2>2 DEF GetDo, Bit
  <2> QED BY <2>1, <2>2
<1>5. CASE ee.state = "BUSY"
  <2>1. ee' = [ee EXCEPT !.state = "START"]
    BY <1>2, <1>5 DEF Sampled
  <2>2. ee' \in Chips /\ ee'.state = "START" /\ ee'.enabled = ee.enabled
    BY <1>1, <2>1 DEF Chips
  <2>3. Serial' /\ FrameOf' = <<>> /\ OutOf' = <<>>
    BY <1>1, <1>2, <1>4, <2>2, Through
  <2>4. FrameOf = <<>> /\ OutOf = <<>>
    BY <1>5 DEF FrameOf, OutOf
  <2> QED BY <1>2, <1>3, <2>2, <2>3, <2>4 DEF Chip!Next, Chip!Sample
<1>6. CASE ee.state # "BUSY"
  <2>1. ee' = ee
    BY <1>2, <1>6 DEF Sampled
  <2>2. Serial'
    BY <1>2, <1>4, <2>1 DEF Serial, EepromTypeOK
  <2>3. FrameOf' = FrameOf /\ OutOf' = OutOf
    BY <1>2, <2>1 DEF FrameOf, OutOf
  <2> QED BY <1>2, <1>3, <1>6, <2>1, <2>2, <2>3 DEF Chip!Next, Chip!Sample
<1> QED BY <1>5, <1>6

\* The chip select and the reset.
LEMMA IdleStep ==
    ASSUME Serial, NEW b \in BOOLEAN, NEW j \in BOOLEAN, ee' = Idle(b, j), ram' = ram,
           do' = do, locked' \in BOOLEAN
    PROVE  Serial' /\ Chip!Deselected(b)
<1>1. /\ ram \in [Addresses -> Words] /\ do \in Bit
  BY EepromParts
<1>2. ee' \in Chips /\ ee'.state = "START" /\ ee'.enabled = b
  <2>1. 0 \in Addresses /\ 0 \in Words /\ AddrBits \in 0 .. AddrBits /\ DataBits \in 0 .. DataBits
    BY Widths
  <2> QED BY <2>1 DEF Idle, Chips
<1>3. Serial' /\ FrameOf' = <<>> /\ OutOf' = <<>>
  BY <1>1, <1>2, Through
<1> QED BY <1>2, <1>3 DEF Chip!Deselected

\* Nothing happens: also to what the chip is seen as.
LEMMA StillStep ==
    ASSUME Serial, UNCHANGED eepromVars
    PROVE  Serial' /\ UNCHANGED Chip!vars
<1>1. ram' = ram /\ ee' = ee /\ do' = do /\ locked' = locked
  BY DEF eepromVars
<1>2. Serial'
  BY <1>1 DEF Serial, EepromTypeOK
<1>3. FrameOf' = FrameOf /\ OutOf' = OutOf
  BY <1>1 DEF FrameOf, OutOf
<1> QED BY <1>1, <1>2, <1>3 DEF Chip!vars

------------------------------------------------------------------------------
(* The theorems.                                                           *)

\* A fresh machine.
LEMMA SerialInit == EepromInit => Serial /\ Chip!Init
<1> SUFFICES ASSUME EepromInit PROVE Serial /\ Chip!Init
  OBVIOUS
<1>1. /\ ram = [a \in Addresses |-> Erased] /\ ee = Idle(FALSE, FALSE) /\ do = 1
      /\ locked = FALSE
  BY DEF EepromInit
<1>2. 0 \in Addresses /\ 0 \in Words /\ AddrBits \in 0 .. AddrBits /\ DataBits \in 0 .. DataBits
      /\ Erased \in Words
  BY Widths
<1>3. ee \in Chips /\ ee.state = "START" /\ ee.enabled = FALSE
  BY <1>1, <1>2 DEF Idle, Chips
<1>4. Serial
  BY <1>1, <1>2, <1>3 DEF Serial, EepromTypeOK, Chips, Bit
<1>5. FrameOf = <<>> /\ OutOf = <<>>
  BY <1>3 DEF FrameOf, OutOf
<1>6. Chip!Init
  BY <1>1, <1>3, <1>5 DEF Chip!Init, Chip!Addr, Addresses, Erased
<1> QED BY <1>4, <1>6

\* Each access of the guest keeps the invariant, and is a step of the chip or none.
LEMMA SerialStep ==
    ASSUME Serial, [EepromNext]_eepromVars
    PROVE  Serial' /\ [Chip!Next]_(Chip!vars)
<1>1. ASSUME NEW bit \in Bit, WriteDi(bit) PROVE Serial' /\ Chip!Next
  <2>1. CASE ee.state \in {"START", "BUSY"}
    BY <1>1, <2>1, StartStep
  <2>2. CASE ee.state = "OP_A"
    BY <1>1, <2>2, OpAStep
  <2>3. CASE ee.state = "OP_B"
    BY <1>1, <2>3, OpBStep
  <2>4. CASE ee.state = "READ_ADDRESS"
    BY <1>1, <2>4, AddressStep, AddressLast
  <2>5. CASE ee.state = "READ_DATA"
    BY <1>1, <2>5, DataStep, DataLast
  <2>6. CASE ee.state = "READ_OUT"
    <3>1. SetDi(ee, ram, bit) = Left(Clocked(ee), ram)
      BY <2>6 DEF SetDi
    <3>2. ee' = Clocked(ee) /\ ram' = ram /\ do' = do /\ locked' = locked
      <4> DEFINE f == Clocked(ee)
      <4> HIDE DEF f
      <4>1. SetDi(ee, ram, bit).ee = f /\ SetDi(ee, ram, bit).ram = ram
        BY <3>1 DEF Left, f
      <4> QED BY <1>1, <2>6, <4>1 DEF WriteDi, f
    <3> QED BY <2>6, <3>2, ClockStep
  <2>7. ee.state \in {"START", "OP_A", "OP_B", "READ_ADDRESS", "READ_DATA",
                      "READ_OUT", "BUSY"}
    BY EepromParts DEF Chips
  <2> QED BY <2>1, <2>2, <2>3, <2>4, <2>5, <2>6, <2>7
<1>2. CASE ReadClock
  <2>1. ee' = Clocked(ee) /\ ram' = ram /\ do' = do /\ locked' = locked
    BY <1>2 DEF ReadClock
  <2>2. CASE ee.state = "READ_OUT"
    BY <2>1, <2>2, ClockStep
  <2>3. CASE ee.state # "READ_OUT"
    <3>1. UNCHANGED eepromVars
      BY <2>1, <2>3 DEF Clocked, eepromVars
    <3> QED BY <3>1, StillStep
  <2> QED BY <2>2, <2>3
<1>3. CASE ReadDo
  BY <1>3, SampleStep
<1>4. CASE SetCs
  <2>1. ee' = Idle(TRUE, ee.jump) /\ ram' = ram /\ do' = do /\ locked' \in BOOLEAN
        /\ ee.jump \in BOOLEAN
    BY <1>4, EepromParts DEF SetCs, Chips
  <2>2. Serial' /\ Chip!Deselected(TRUE)
    BY <2>1, IdleStep
  <2> QED BY <2>1, <2>2 DEF Chip!Next, Chip!Select
<1>5. CASE EepromReset
  <2>1. ee' = Idle(FALSE, FALSE) /\ ram' = ram /\ do' = do /\ locked' \in BOOLEAN
    BY <1>5 DEF EepromReset
  <2>2. Serial' /\ Chip!Deselected(FALSE)
    BY <2>1, IdleStep
  <2> QED BY <2>1, <2>2 DEF Chip!Next, Chip!Reset
<1>6. CASE UNCHANGED eepromVars
  BY <1>6, StillStep
<1> QED BY <1>1, <1>2, <1>3, <1>4, <1>5, <1>6 DEF EepromNext

\* eeprom_set_di indexes eeprom_ram with jerry_ee_address_data unchecked: the address
\* never leaves the array, nor a counter or a word its width.
THEOREM EepromTypeOKAlways == EepromSpec => []EepromTypeOK
<1>1. EepromInit => Serial
  BY SerialInit
<1>2. Serial /\ [EepromNext]_eepromVars => Serial'
  BY SerialStep
<1>3. Serial => EepromTypeOK
  BY DEF Serial
<1> QED BY <1>1, <1>2, <1>3, PTL DEF EepromSpec

\* The state machine of eeprom.c implements the chip: for every width of address and
\* data, and however writes of DI, clocks, samples of DO, chip selects and resets
\* interleave.
THEOREM EepromImplementsChip == EepromSpec => ImplementsChip
<1>1. EepromInit => Serial /\ Chip!Init
  BY SerialInit
<1>2. Serial /\ [EepromNext]_eepromVars => Serial' /\ [Chip!Next]_(Chip!vars)
  BY SerialStep
<1> QED BY <1>1, <1>2, PTL DEF EepromSpec, ImplementsChip, Chip!Spec
=============================================================================
