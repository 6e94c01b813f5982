--------------------------- MODULE SlabMallocProofs --------------------------
(***************************************************************************)
(* For any slabs, size classes and sizes: the headers and bins of packed,  *)
(* medium and large slabs tell the truth in slabs that pass from one kind  *)
(* to another, every pointer leads back to its block, and malloc, free and *)
(* realloc together keep BlockPool's promise.  What concerns the medium    *)
(* and large blocks alone is taken from MediumSlabsProofs.                 *)
(***************************************************************************)
EXTENDS SlabMalloc, FiniteSetTheorems, SequenceTheorems, TLAPS

BigLemmas == INSTANCE MediumSlabsProofs WITH
  MaxSlabs <- NumSlabs, Header <- LargeHeader, WordBits <- BinsOfWord,
  Requests <- {size \in Sizes : size >= MinMedium}, held <- large_held, given <- 0

-----------------------------------------------------------------------------
(* What the slabs are.                                                      *)
LEMMA SlabsAre ==
  /\ NumSlabs \in Nat \ {0} /\ Slabs = 0..(NumSlabs - 1) /\ IsFiniteSet(Slabs)
  /\ SlabSize \in Nat \ {0} /\ LargeHeader \in Nat \ {0}
<1>1. NumSlabs \in Nat \ {0} /\ Slabs = 0..(NumSlabs - 1)
  BY SlabMallocAssumption
<1>2. IsFiniteSet(0..(NumSlabs - 1))
  BY <1>1, FS_Interval
<1> QED BY <1>1, <1>2, SlabMallocAssumption

LEMMA BigAssumption == BigLemmas!MediumSlabsAssumption
<1> DEFINE max == SlabSize - LargeHeader
           large == {size \in Sizes : size >= MinMedium}
<1>1. /\ {NumSlabs, SlabSize, LargeHeader, MinMedium, BinsOfWord} \subseteq Nat \ {0}
      /\ MaxDeadweight \in 0..(MinMedium - 1) /\ BinsOfWord <= MinMedium
      /\ max >= MinMedium
  BY SlabMallocAssumption DEF Big!MaxMedium
<1>2. large \subseteq (MinMedium..max) \cup {n \in Nat : n >= SlabSize}
  <2> SUFFICES ASSUME NEW size \in Sizes, size >= MinMedium
               PROVE  size \in MinMedium..max \/ (size >= SlabSize /\ size \in Nat)
    OBVIOUS
  <2>1. /\ size \in Nat /\ MinMedium \in Nat /\ SlabSize \in Nat /\ LargeHeader \in Nat
        /\ size < MinMedium \/ size <= max \/ size >= SlabSize
    BY SlabMallocAssumption DEF Big!MaxMedium
  <2> QED BY <2>1
<1> QED BY <1>1, <1>2 DEF BigLemmas!MediumSlabsAssumption, BigLemmas!MaxMedium

(* The same operators, named through the instance.                          *)
LEMMA SameSets ==
  ASSUME NEW S
  PROVE  /\ BigLemmas!Cardinality(S) = Cardinality(S)
         /\ BigLemmas!IsFiniteSet(S) <=> IsFiniteSet(S)
         /\ BigLemmas!Min(S) = Min(S)
<1>1. BigLemmas!Cardinality(S) = Cardinality(S)
  BY DEF BigLemmas!Cardinality, Cardinality
<1>2. BigLemmas!IsFiniteSet(S) <=> IsFiniteSet(S)
  BY DEF BigLemmas!IsFiniteSet, IsFiniteSet
<1>3. BigLemmas!Min(S) = Min(S)
  BY DEF BigLemmas!Min, Min
<1> QED BY <1>1, <1>2, <1>3

LEMMA MinOfSet ==
  ASSUME NEW S \in SUBSET Nat, S # {}
  PROVE  Min(S) \in S /\ \A m \in S : Min(S) <= m
BY BigAssumption, BigLemmas!MinOfSet, SameSets

(* Lists of slabs.                                                          *)
Members(list) == {list[k] : k \in DOMAIN list}
NoRepeats(list) == \A j, k \in DOMAIN list : list[j] = list[k] => j = k

LEMMA Unlinked ==
  ASSUME NEW T, NEW list \in Seq(T), NEW s, NoRepeats(list)
  PROVE  /\ Unlink(list, s) \in Seq(T)
         /\ Members(Unlink(list, s)) = Members(list) \ {s}
         /\ NoRepeats(Unlink(list, s))
<1>1. Unlink(list, s) = BigLemmas!Without(list, s)
  BY DEF Unlink, BigLemmas!Without
<1>2. /\ BigLemmas!Without(list, s) \in Seq(T)
      /\ BigLemmas!Members(BigLemmas!Without(list, s)) = BigLemmas!Members(list) \ {s}
      /\ BigLemmas!NoRepeats(BigLemmas!Without(list, s))
  <2>1. BigLemmas!NoRepeats(list)
    BY DEF NoRepeats, BigLemmas!NoRepeats
  <2> QED BY <2>1, BigAssumption, BigLemmas!WithoutOne
<1> QED BY <1>1, <1>2 DEF Members, BigLemmas!Members, NoRepeats, BigLemmas!NoRepeats

LEMMA Linked ==
  ASSUME NEW T, NEW list \in Seq(T), NEW s \in T, s \notin Members(list), NoRepeats(list)
  PROVE  /\ <<s>> \o list \in Seq(T)
         /\ Members(<<s>> \o list) = Members(list) \cup {s}
         /\ NoRepeats(<<s>> \o list)
<1>1. BigLemmas!NoRepeats(list) /\ s \notin BigLemmas!Members(list)
  BY DEF NoRepeats, BigLemmas!NoRepeats, Members, BigLemmas!Members
<1>2. /\ <<s>> \o list \in Seq(T)
      /\ BigLemmas!Members(<<s>> \o list) = BigLemmas!Members(list) \cup {s}
      /\ BigLemmas!NoRepeats(<<s>> \o list)
  BY <1>1, BigAssumption, BigLemmas!PrependOne
<1> QED BY <1>2 DEF Members, BigLemmas!Members, NoRepeats, BigLemmas!NoRepeats

-----------------------------------------------------------------------------
(* The blocks of a packed slab are in a row.                                *)
LEMMA Division ==
  ASSUME NEW m \in Int, NEW d \in Nat \ {0}
  PROVE  /\ m \div d \in Int /\ m % d \in 0..(d - 1)
         /\ m = (m \div d) * d + (m % d)
OBVIOUS

LEMMA Quotient ==
  ASSUME NEW k \in Int, NEW d \in Nat \ {0}, NEW m \in Int, k * d <= m, m < (k + 1) * d
  PROVE  m \div d = k
<1> DEFINE q == m \div d
           r == m % d
<1>1. q \in Int /\ r \in 0..(d - 1) /\ m = q * d + r
  BY Division
<1> HIDE DEF q, r
<1>2. ASSUME q < k PROVE FALSE
  <2>1. (k - (q + 1)) * d >= 0
    <3>1. k - (q + 1) \in Nat
      BY <1>1, <1>2
    <3> QED BY <3>1
  <2>2. (k - (q + 1)) * d = k * d - q * d - d
    BY <1>1
  <2> QED BY <2>1, <2>2, <1>1
<1>3. ASSUME q > k PROVE FALSE
  <2>1. (q - (k + 1)) * d >= 0
    <3>1. q - (k + 1) \in Nat
      BY <1>1, <1>3
    <3> QED BY <3>1
  <2>2. (q - (k + 1)) * d = q * d - (k + 1) * d
    BY <1>1
  <2> QED BY <2>1, <2>2, <1>1
<1>4. q = k
  BY <1>1, <1>2, <1>3
<1> QED BY <1>4 DEF q

LEMMA SizesOfClass ==
  ASSUME NEW c \in Classes
  PROVE  /\ Size[c] \in Nat \ {0} /\ Header[c] \in Nat \ {0}
         /\ NumBlocks(c) \in Nat /\ NumBlocks(c) >= 2
         /\ Header[c] + NumBlocks(c) * Size[c] <= SlabSize
         /\ Indexes(c) \subseteq Nat /\ IsFiniteSet(Indexes(c))
<1>1. Size[c] \in Nat \ {0} /\ Header[c] \in Nat \ {0} /\ SlabSize \in Nat
  BY PackedSlabsAssumption, SlabMallocAssumption
<1> DEFINE n == NumBlocks(c)
           room == SlabSize - Header[c]
<1>2. n \in Int /\ room % Size[c] \in 0..(Size[c] - 1) /\ room = n * Size[c] + (room % Size[c])
  <2>1. room \in Int /\ n = room \div Size[c]
    BY <1>1 DEF NumBlocks
  <2> HIDE DEF room, n
  <2> QED BY <1>1, <2>1, Division
<1>3. n >= 2
  BY PackedSlabsAssumption
<1>4. Header[c] + n * Size[c] <= SlabSize
  BY <1>1, <1>2
<1>5. Indexes(c) = 0..(n - 1)
  BY DEF Indexes
<1> HIDE DEF n
<1>6. Indexes(c) \subseteq Nat /\ IsFiniteSet(Indexes(c))
  BY <1>2, <1>3, <1>5, FS_Interval
<1> QED BY <1>1, <1>2, <1>3, <1>4, <1>6 DEF n

LEMMA BlocksInRow ==
  ASSUME NEW s, NEW c \in Classes, NEW i \in Indexes(c)
  PROVE  /\ Block(s, c, i).slab = s /\ Block(s, c, i).size = Size[c]
         /\ Block(s, c, i).at \in 1..SlabSize
         /\ Block(s, c, i).at + Size[c] <= SlabSize
         /\ IndexOf(Block(s, c, i), c) = i
<1> DEFINE h == Header[c]
           d == Size[c]
           n == NumBlocks(c)
           at == h + i * d
<1>1. /\ d \in Nat \ {0} /\ h \in Nat \ {0} /\ n \in Nat /\ i \in Nat /\ i + 1 <= n
      /\ h + n * d <= SlabSize /\ SlabSize \in Nat
  BY SizesOfClass, SlabsAre DEF Indexes
<1>2. Block(s, c, i) = [slab |-> s, at |-> at, size |-> d] /\ IndexOf(Block(s, c, i), c) = (at - h) \div d
  BY DEF Block, IndexOf
<1> HIDE DEF h, d, n
<1>3. i * d \in Nat /\ n * d \in Nat /\ (i + 1) * d = i * d + d
  BY <1>1
<1>4. (i + 1) * d <= n * d
  <2>1. n - (i + 1) \in Nat
    BY <1>1
  <2>2. (n - (i + 1)) * d >= 0
    BY <1>1, <2>1
  <2>3. (n - (i + 1)) * d = n * d - (i + 1) * d
    BY <1>1
  <2> QED BY <2>2, <2>3, <1>1, <1>3
<1>5. at \in Nat /\ at >= 1 /\ at + d <= SlabSize
  BY <1>1, <1>3, <1>4
<1>6. at - h = i * d
  BY <1>1, <1>3
<1>7. (i * d) \div d = i
  BY <1>1, <1>3, Quotient
<1> QED BY <1>1, <1>2, <1>5, <1>6, <1>7 DEF d

LEMMA BlocksApart ==
  ASSUME NEW s, NEW c \in Classes, NEW i \in Indexes(c), NEW j \in Indexes(c), i < j
  PROVE  Block(s, c, i).at + Size[c] <= Block(s, c, j).at
<1> DEFINE h == Header[c]
           d == Size[c]
<1>1. d \in Nat \ {0} /\ h \in Nat \ {0} /\ i \in Nat /\ j \in Nat
  BY SizesOfClass
<1>2. Block(s, c, i).at = h + i * d /\ Block(s, c, j).at = h + j * d
  BY DEF Block
<1> HIDE DEF h, d
<1>3. (j - (i + 1)) * d >= 0
  <2>1. j - (i + 1) \in Nat
    BY <1>1
  <2> QED BY <2>1, <1>1
<1>4. (j - (i + 1)) * d = j * d - i * d - d /\ j * d \in Nat /\ i * d \in Nat
  BY <1>1
<1>5. h + i * d + d <= h + j * d
  BY <1>1, <1>3, <1>4
<1> QED BY <1>2, <1>5 DEF d

(* Blocks are told apart by their slabs and indexes.                        *)
LEMMA BlocksDiffer ==
  /\ \A s \in Slabs, r \in Slabs : \A c, d, i, j : s # r => Block(s, c, i) # Block(r, d, j)
  /\ \A s \in Slabs, c \in Classes : \A i, j \in Indexes(c) : Block(s, c, i) = Block(s, c, j) => i = j
<1>1. ASSUME NEW s, NEW r, NEW c, NEW d, NEW i, NEW j, s # r PROVE Block(s, c, i) # Block(r, d, j)
  BY <1>1 DEF Block
<1>2. ASSUME NEW s \in Slabs, NEW c \in Classes, NEW i \in Indexes(c), NEW j \in Indexes(c),
             Block(s, c, i) = Block(s, c, j)
      PROVE  i = j
  BY <1>2, BlocksInRow
<1> QED BY <1>1, <1>2

LEMMA WordsAre == \A i \in Nat : WordOf(i) \in Nat
<1> SUFFICES ASSUME NEW i \in Nat PROVE WordOf(i) \in Nat
  OBVIOUS
<1>1. WordBits \in Nat \ {0}
  BY PackedSlabsAssumption
<1> QED BY <1>1 DEF WordOf

-----------------------------------------------------------------------------
(* What a packed slab's header says, given the blocks that are held.        *)
MineOf(s, c, blocks) == {i \in Indexes(c) : Block(s, c, i) \in blocks}
Told(s, c, cnt, words, free, blocks) ==
  IF c = NoClass THEN cnt = 0
  ELSE /\ c \in Classes
       /\ free = Indexes(c) \ MineOf(s, c, blocks)
       /\ cnt = Cardinality(MineOf(s, c, blocks)) /\ MineOf(s, c, blocks) # {}
       /\ c \in TwoLevel => words = {WordOf(i) : i \in free}

(* A bin has just these slabs, each once.                                   *)
BinHas(list, slabs) == list \in Seq(Slabs) /\ Members(list) = slabs /\ NoRepeats(list)
WithRoom(c) == {s \in Slabs : class[s] = c /\ f2[s] # {}}

PackedTypes ==
  /\ class \in [Slabs -> Classes \cup {NoClass}]
  /\ alloc_cnt \in [Slabs -> Nat]
  /\ f1 \in [Slabs -> SUBSET Nat]
  /\ f2 \in [Slabs -> SUBSET Nat]
  /\ smallbins \in [Classes -> Seq(Slabs)]

PackedInv ==
  /\ PackedTypes
  /\ \A s \in Slabs : Told(s, class[s], alloc_cnt[s], f1[s], f2[s], held)
  /\ \A c \in Classes : BinHas(smallbins[c], WithRoom(c))
  /\ \A b \in held : b.slab \in Packed /\ \E i \in Indexes(class[b.slab]) : b = Block(b.slab, class[b.slab], i)

(* A block is taken: its bit is cleared, on the first level if it was the    *)
(* last of its word, and it is counted.                                     *)
LEMMA TakingTells ==
  ASSUME NEW s \in Slabs, NEW c \in Classes, NEW cnt, NEW words, NEW free, NEW blocks,
         Told(s, c, cnt, words, free, blocks), NEW i \in free
  PROVE  /\ Told(s, c, cnt + 1, WordsLeft(c, words, free, i), Taken(free, i), blocks \cup {Block(s, c, i)})
         /\ Block(s, c, i) \notin blocks /\ i \in Indexes(c)
<1> DEFINE mine == MineOf(s, c, blocks)
           now == MineOf(s, c, blocks \cup {Block(s, c, i)})
<1>1. /\ c # NoClass /\ IsFiniteSet(Indexes(c))
      /\ free = Indexes(c) \ mine /\ cnt = Cardinality(mine) /\ mine # {}
      /\ c \in TwoLevel => words = {WordOf(j) : j \in free}
  BY PackedSlabsAssumption, SizesOfClass DEF Told
<1>2. i \in Indexes(c) /\ i \notin mine /\ Block(s, c, i) \notin blocks
  BY <1>1 DEF MineOf
<1>3. now = mine \cup {i}
  BY <1>2, BlocksDiffer DEF MineOf
<1>4. Cardinality(now) = cnt + 1
  <2>1. mine \subseteq Indexes(c)
    BY DEF MineOf
  <2>2. IsFiniteSet(mine)
    BY <1>1, <2>1, FS_Subset
  <2> HIDE DEF mine, now
  <2> QED BY <1>1, <1>2, <1>3, <2>2, FS_AddElement
<1>5. Taken(free, i) = Indexes(c) \ now
  BY <1>1, <1>3 DEF Taken
<1>6. c \in TwoLevel => WordsLeft(c, words, free, i) = {WordOf(j) : j \in Taken(free, i)}
  <2> SUFFICES ASSUME c \in TwoLevel
               PROVE  WordsLeft(c, words, free, i) = {WordOf(j) : j \in free \ {i}}
    BY DEF Taken
  <2>1. words = {WordOf(j) : j \in free}
    BY <1>1
  <2>2. CASE \A j \in free \ {i} : WordOf(j) # WordOf(i)
    <3>1. WordsLeft(c, words, free, i) = words \ {WordOf(i)}
      BY <2>2 DEF WordsLeft
    <3> QED BY <3>1, <2>1, <2>2
  <2>3. CASE \E j \in free \ {i} : WordOf(j) = WordOf(i)
    <3>1. WordsLeft(c, words, free, i) = words
      BY <2>3 DEF WordsLeft
    <3> QED BY <3>1, <2>1, <2>3
  <2> QED BY <2>2, <2>3
<1> QED BY <1>1, <1>2, <1>3, <1>4, <1>5, <1>6 DEF Told

(* A block is given back; if it was the last, so is the slab.                *)
LEMMA GivingTells ==
  ASSUME NEW s \in Slabs, NEW c \in Classes, NEW cnt, NEW words, NEW free, NEW blocks,
         Told(s, c, cnt, words, free, blocks), NEW i \in MineOf(s, c, blocks)
  PROVE  /\ cnt \in Nat \ {0} /\ i \notin free
         /\ cnt = 1 => MineOf(s, c, blocks) = {i}
         /\ cnt # 1 => Told(s, c, cnt - 1, IF c \in TwoLevel THEN words \cup {WordOf(i)} ELSE words,
                            free \cup {i}, blocks \ {Block(s, c, i)})
<1> DEFINE mine == MineOf(s, c, blocks)
           now == MineOf(s, c, blocks \ {Block(s, c, i)})
<1>1. /\ c # NoClass /\ IsFiniteSet(Indexes(c))
      /\ free = Indexes(c) \ mine /\ cnt = Cardinality(mine) /\ mine # {}
      /\ c \in TwoLevel => words = {WordOf(j) : j \in free}
  BY PackedSlabsAssumption, SizesOfClass DEF Told
<1>2. i \in Indexes(c) /\ i \in mine /\ Block(s, c, i) \in blocks
  BY DEF MineOf
<1>3. now = mine \ {i}
  BY <1>2, BlocksDiffer DEF MineOf
<1>4. IsFiniteSet(mine) /\ IsFiniteSet(now)
  <2>1. mine \subseteq Indexes(c) /\ now \subseteq Indexes(c)
    BY DEF MineOf
  <2> QED BY <1>1, <2>1, FS_Subset
<1> HIDE DEF mine, now
<1>5. cnt \in Nat /\ Cardinality(now) = cnt - 1 /\ Cardinality(now) \in Nat
  BY <1>1, <1>2, <1>3, <1>4, FS_RemoveElement, FS_CardinalityType
<1>6. ASSUME cnt = 1 PROVE mine = {i}
  <2>1. now = {}
    BY <1>4, <1>5, <1>6, FS_EmptySet
  <2> QED BY <1>2, <1>3, <2>1
<1>7. ASSUME cnt # 1 PROVE now # {}
  <2>1. Cardinality(now) # 0
    BY <1>5, <1>7
  <2> QED BY <2>1, FS_EmptySet
<1>8. free \cup {i} = Indexes(c) \ now
  BY <1>1, <1>2, <1>3
<1>9. c \in TwoLevel => words \cup {WordOf(i)} = {WordOf(j) : j \in free \cup {i}}
  BY <1>1
<1>10. cnt \in Nat \ {0} /\ i \notin free
  <2>1. cnt - 1 \in Nat
    BY <1>5
  <2> QED BY <2>1, <1>1, <1>2, <1>5
<1>11. ASSUME cnt # 1
       PROVE  Told(s, c, cnt - 1, IF c \in TwoLevel THEN words \cup {WordOf(i)} ELSE words,
                   free \cup {i}, blocks \ {Block(s, c, i)})
  <2>1. now = MineOf(s, c, blocks \ {Block(s, c, i)})
    BY DEF now
  <2>2. /\ c # NoClass /\ free \cup {i} = Indexes(c) \ now
        /\ cnt - 1 = Cardinality(now) /\ now # {}
        /\ c \in TwoLevel => words \cup {WordOf(i)} = {WordOf(j) : j \in free \cup {i}}
    BY <1>1, <1>5, <1>7, <1>8, <1>9, <1>11
  <2> HIDE DEF now
  <2> QED BY <2>1, <2>2 DEF Told
<1> QED BY <1>6, <1>10, <1>11 DEF mine

(* The headers of other slabs do not see it.                                 *)
LEMMA OthersTell ==
  ASSUME NEW s \in Slabs, NEW r \in Slabs, r # s, NEW c, NEW d, NEW i, NEW cnt, NEW words, NEW free,
         NEW blocks, Told(r, d, cnt, words, free, blocks)
  PROVE  /\ Told(r, d, cnt, words, free, blocks \cup {Block(s, c, i)})
         /\ Told(r, d, cnt, words, free, blocks \ {Block(s, c, i)})
<1>1. /\ MineOf(r, d, blocks \cup {Block(s, c, i)}) = MineOf(r, d, blocks)
      /\ MineOf(r, d, blocks \ {Block(s, c, i)}) = MineOf(r, d, blocks)
  BY BlocksDiffer DEF MineOf
<1> QED BY <1>1 DEF Told

-----------------------------------------------------------------------------
(* What a step does to the blocks that are held and to the counts.           *)
OneGiven ==
  \E s \in Slabs : \E b : /\ b \notin held /\ held' = held \cup {b}
                         /\ alloc_cnt' = [alloc_cnt EXCEPT ![s] = alloc_cnt[s] + 1]
OneTaken ==
  \E s \in Slabs, b \in held : /\ held' = held \ {b}
                               /\ alloc_cnt[s] \in Nat \ {0}
                               /\ alloc_cnt' = [alloc_cnt EXCEPT ![s] = alloc_cnt[s] - 1]

(* Only slab s, of class c, is touched, and its bin with it.                 *)
OnlySlab(s, c) ==
  /\ \A r \in Slabs : r # s => /\ class'[r] = class[r] /\ alloc_cnt'[r] = alloc_cnt[r]
                               /\ f1'[r] = f1[r] /\ f2'[r] = f2[r]
  /\ \A d \in Classes : d # c => smallbins'[d] = smallbins[d]
  /\ class[s] \in {c, NoClass} /\ class'[s] \in {c, NoClass}

LEMMA OtherBins ==
  ASSUME PackedInv, NEW s \in Slabs, NEW c \in Classes, OnlySlab(s, c), PackedTypes'
  PROVE  \A d \in Classes : d # c => BinHas(smallbins'[d], WithRoom(d)')
<1> SUFFICES ASSUME NEW d \in Classes, d # c PROVE BinHas(smallbins'[d], WithRoom(d)')
  OBVIOUS
<1>1. BinHas(smallbins[d], WithRoom(d)) /\ smallbins'[d] = smallbins[d]
  BY DEF PackedInv, OnlySlab
<1>2. d # NoClass
  BY PackedSlabsAssumption
<1>3. WithRoom(d)' = WithRoom(d)
  BY <1>2 DEF WithRoom, OnlySlab
<1> QED BY <1>1, <1>3

LEMMA AllocFromBinRight ==
  ASSUME PackedInv, NEW c \in Classes, AllocFromBin(c)
  PROVE  PackedInv' /\ OneGiven /\ class' = class
<1> DEFINE s == Head(smallbins[c])
           chosen == IF c \in TwoLevel THEN {j \in f2[s] : WordOf(j) = Min(f1[s])} ELSE f2[s]
           i == Min(chosen)
           words == WordsLeft(c, f1[s], f2[s], i)
           free == Taken(f2[s], i)
           b == Block(s, c, i)
<1>1. /\ PackedTypes /\ BinHas(smallbins[c], WithRoom(c)) /\ smallbins[c] # <<>>
  BY DEF PackedInv, AllocFromBin
<1>2. /\ f1' = [f1 EXCEPT ![s] = words] /\ f2' = [f2 EXCEPT ![s] = free]
      /\ alloc_cnt' = [alloc_cnt EXCEPT ![s] = alloc_cnt[s] + 1]
      /\ smallbins' = IF Full(c, words, free)
                        THEN [smallbins EXCEPT ![c] = Unlink(smallbins[c], s)] ELSE smallbins
      /\ held' = held \cup {b} /\ class' = class
  BY DEF AllocFromBin
<1>3. s \in Slabs /\ class[s] = c /\ f2[s] # {} /\ f2[s] \in SUBSET Nat /\ f1[s] \in SUBSET Nat
  <2>1. s \in Members(smallbins[c])
    <3> DEFINE list == smallbins[c]
    <3>1. list \in Seq(Slabs) /\ list # <<>>
      BY <1>1 DEF BinHas
    <3> HIDE DEF list
    <3>2. 1 \in DOMAIN list /\ Head(list) = list[1]
      BY <3>1
    <3>3. Head(list) \in Members(list)
      BY <3>2 DEF Members
    <3> QED BY <3>3 DEF list
  <2>2. s \in WithRoom(c)
    BY <1>1, <2>1 DEF BinHas
  <2> HIDE DEF s
  <2> QED BY <1>1, <2>2 DEF WithRoom, PackedTypes
<1> HIDE DEF s
<1>4. Told(s, c, alloc_cnt[s], f1[s], f2[s], held)
  BY <1>3 DEF PackedInv
<1>5. i \in f2[s]
  <2>1. chosen \in SUBSET Nat /\ chosen # {}
    <3>1. CASE c \in TwoLevel
      <4>1. f1[s] = {WordOf(j) : j \in f2[s]}
        BY <1>3, <1>4, <3>1, PackedSlabsAssumption DEF Told
      <4>2. f1[s] # {}
        BY <1>3, <4>1
      <4>3. Min(f1[s]) \in f1[s]
        BY <1>3, <4>2, MinOfSet
      <4>4. \E j \in f2[s] : WordOf(j) = Min(f1[s])
        BY <4>1, <4>3
      <4> QED BY <1>3, <3>1, <4>4
    <3>2. CASE c \notin TwoLevel
      BY <1>3, <3>2
    <3> QED BY <3>1, <3>2
  <2>2. chosen \subseteq f2[s]
    BY <1>3
  <2> HIDE DEF chosen
  <2>3. Min(chosen) \in chosen
    BY <2>1, MinOfSet
  <2> QED BY <2>2, <2>3
<1> HIDE DEF chosen, i
<1>6. /\ Told(s, c, alloc_cnt[s] + 1, words, free, held \cup {b})
      /\ b \notin held /\ i \in Indexes(c)
  BY <1>3, <1>4, <1>5, TakingTells
<1>7. words \in SUBSET Nat /\ free \in SUBSET Nat
  BY <1>3 DEF WordsLeft, Taken
<1>8. Full(c, words, free) <=> free = {}
  <2>1. c \in TwoLevel => words = {WordOf(j) : j \in free}
    BY <1>6, PackedSlabsAssumption DEF Told
  <2> HIDE DEF words, free
  <2> QED BY <2>1 DEF Full
<1> HIDE DEF words, free, b
<1>9. BinHas(smallbins'[c], WithRoom(c)') /\ smallbins' \in [Classes -> Seq(Slabs)]
      /\ \A d \in Classes : d # c => smallbins'[d] = smallbins[d]
  <2>1. WithRoom(c)' = IF free = {} THEN WithRoom(c) \ {s} ELSE WithRoom(c)
    BY <1>1, <1>2, <1>3 DEF WithRoom, PackedTypes
  <2>2. CASE free = {}
    <3>1. BinHas(Unlink(smallbins[c], s), WithRoom(c) \ {s})
      BY <1>1, Unlinked DEF BinHas
    <3>2. smallbins' = [smallbins EXCEPT ![c] = Unlink(smallbins[c], s)]
      BY <1>2, <1>8, <2>2
    <3>3. Unlink(smallbins[c], s) \in Seq(Slabs)
      BY <3>1 DEF BinHas
    <3> QED BY <1>1, <2>1, <2>2, <3>1, <3>2, <3>3 DEF PackedTypes
  <2>3. CASE free # {}
    BY <1>1, <1>2, <1>8, <2>1, <2>3 DEF PackedTypes
  <2> QED BY <2>2, <2>3
<1>10. /\ alloc_cnt' \in [Slabs -> Nat] /\ f1' \in [Slabs -> SUBSET Nat] /\ f2' \in [Slabs -> SUBSET Nat]
       /\ alloc_cnt'[s] = alloc_cnt[s] + 1 /\ f1'[s] = words /\ f2'[s] = free
       /\ class' \in [Slabs -> Classes \cup {NoClass}]
       /\ \A r \in Slabs : r # s => /\ class'[r] = class[r] /\ alloc_cnt'[r] = alloc_cnt[r]
                                    /\ f1'[r] = f1[r] /\ f2'[r] = f2[r]
  BY <1>1, <1>2, <1>3, <1>7 DEF PackedTypes
<1>11. PackedTypes'
  BY <1>9, <1>10 DEF PackedTypes
<1>12. OnlySlab(s, c)
  BY <1>2, <1>3, <1>9, <1>10 DEF OnlySlab
<1>13. ASSUME NEW r \in Slabs PROVE Told(r, class'[r], alloc_cnt'[r], f1'[r], f2'[r], held')
  <2>1. CASE r = s
    BY <1>2, <1>3, <1>6, <1>10, <2>1
  <2>2. CASE r # s
    <3>1. Told(r, class[r], alloc_cnt[r], f1[r], f2[r], held)
      BY DEF PackedInv
    <3> QED BY <1>2, <1>3, <1>10, <2>2, <3>1, OthersTell DEF b
  <2> QED BY <2>1, <2>2
<1>14. ASSUME NEW d \in held'
       PROVE  d.slab \in Packed' /\ \E j \in Indexes(class'[d.slab]) : d = Block(d.slab, class'[d.slab], j)
  <2>1. CASE d \in held
    BY <1>2, <2>1 DEF PackedInv, Packed
  <2>2. CASE d = b
    <3>1. d.slab = s /\ d = Block(s, c, i)
      BY <1>3, <1>6, <2>2, BlocksInRow DEF b
    <3>2. s \in Packed'
      BY <1>2, <1>3, PackedSlabsAssumption DEF Packed
    <3> QED BY <1>2, <1>3, <1>6, <3>1, <3>2
  <2> QED BY <1>2, <2>1, <2>2
<1>15. \A d \in Classes : BinHas(smallbins'[d], WithRoom(d)')
  BY <1>3, <1>9, <1>11, <1>12, OtherBins
<1>16. OneGiven
  BY <1>2, <1>3, <1>6 DEF OneGiven
<1>17. PackedInv'
  BY <1>11, <1>13, <1>14, <1>15 DEF PackedInv
<1> QED BY <1>2, <1>16, <1>17

(* A slab that was none of the packed ones becomes one.                     *)
LEMMA AllocFromNewSlabRight ==
  ASSUME PackedInv, NEW c \in Classes, AllocFromNewSlab(c)
  PROVE  /\ PackedInv' /\ OneGiven
         /\ \E s \in Slabs : class[s] = NoClass /\ class' = [class EXCEPT ![s] = c]
<1> DEFINE first == {WordOf(i) : i \in Indexes(c)}
           free == Indexes(c) \ {0}
<1>1. /\ PackedTypes /\ BinHas(smallbins[c], WithRoom(c)) /\ smallbins[c] = <<>>
      /\ c # NoClass
  BY PackedSlabsAssumption DEF PackedInv, AllocFromNewSlab
<1>2. PICK s \in Slabs :
        /\ class[s] = NoClass
        /\ class' = [class EXCEPT ![s] = c]
        /\ alloc_cnt' = [alloc_cnt EXCEPT ![s] = 1]
        /\ f1' = [f1 EXCEPT ![s] = IF c \in TwoLevel THEN first ELSE {}]
        /\ f2' = [f2 EXCEPT ![s] = free]
        /\ smallbins' = [smallbins EXCEPT ![c] = <<s>> \o smallbins[c]]
        /\ held' = held \cup {Block(s, c, 0)}
  BY DEF AllocFromNewSlab
<1> DEFINE b == Block(s, c, 0)
<1>3. /\ Indexes(c) \subseteq Nat /\ 0 \in Indexes(c) /\ 1 \in free
      /\ IsFiniteSet(Indexes(c))
  BY SizesOfClass DEF Indexes
<1>4. alloc_cnt[s] = 0
  BY <1>2 DEF PackedInv, Told
<1>5. \A d \in held : d.slab # s
  BY <1>2 DEF PackedInv, Packed
<1>6. b.slab = s /\ b \notin held
  BY <1>5 DEF Block
<1>7. MineOf(s, c, held \cup {b}) = {0}
  <2>1. \A i \in Indexes(c) : Block(s, c, i) \notin held
    BY <1>5 DEF Block
  <2> QED BY <1>3, <2>1, BlocksDiffer DEF MineOf
<1>8. c \in TwoLevel => first = {WordOf(i) : i \in free}
  <2>1. WordOf(0) = WordOf(1)
    <3>1. WordBits \in Nat /\ WordBits > 1
      BY PackedSlabsAssumption
    <3>2. 0 * WordBits <= 0 /\ 0 < (0 + 1) * WordBits /\ 0 * WordBits <= 1 /\ 1 < (0 + 1) * WordBits
      BY <3>1
    <3> QED BY <3>1, <3>2, Quotient DEF WordOf
  <2> QED BY <1>3, <2>1
<1>9. Told(s, c, 1, IF c \in TwoLevel THEN first ELSE {}, free, held \cup {b})
  <2>1. Cardinality({0}) = 1
    BY FS_Singleton
  <2> QED BY <1>1, <1>7, <1>8, <2>1 DEF Told
<1>10. IF c \in TwoLevel THEN first \in SUBSET Nat ELSE TRUE
  BY <1>3, WordsAre
<1> HIDE DEF first, free, b
<1>11. /\ class' \in [Slabs -> Classes \cup {NoClass}] /\ alloc_cnt' \in [Slabs -> Nat]
       /\ f1' \in [Slabs -> SUBSET Nat] /\ f2' \in [Slabs -> SUBSET Nat]
       /\ class'[s] = c /\ alloc_cnt'[s] = 1 /\ f1'[s] = (IF c \in TwoLevel THEN first ELSE {}) /\ f2'[s] = free
       /\ \A r \in Slabs : r # s => /\ class'[r] = class[r] /\ alloc_cnt'[r] = alloc_cnt[r]
                                    /\ f1'[r] = f1[r] /\ f2'[r] = f2[r]
  <2>1. free \in SUBSET Nat
    BY <1>3 DEF free
  <2> QED BY <1>1, <1>2, <1>10, <2>1 DEF PackedTypes
<1>12. BinHas(smallbins'[c], WithRoom(c)') /\ smallbins' \in [Classes -> Seq(Slabs)]
       /\ \A d \in Classes : d # c => smallbins'[d] = smallbins[d]
  <2>1. WithRoom(c) = {}
    BY <1>1 DEF BinHas, Members
  <2>2. WithRoom(c)' = {s}
    <3>1. WithRoom(c)' = WithRoom(c) \cup {s}
      BY <1>1, <1>2, <1>3, <1>11 DEF WithRoom
    <3> QED BY <2>1, <3>1
  <2> DEFINE list == smallbins[c]
  <2>3. list \in Seq(Slabs) /\ Members(list) = {} /\ NoRepeats(list)
    BY <1>1, <2>1 DEF BinHas
  <2> HIDE DEF list
  <2>4. BinHas(<<s>> \o list, {s})
    BY <2>3, Linked DEF BinHas
  <2>5. <<s>> \o list \in Seq(Slabs) /\ smallbins' = [smallbins EXCEPT ![c] = <<s>> \o list]
    BY <1>2, <2>4 DEF BinHas, list
  <2> QED BY <1>1, <2>2, <2>4, <2>5 DEF PackedTypes
<1>13. PackedTypes'
  BY <1>11, <1>12 DEF PackedTypes
<1>14. OnlySlab(s, c)
  BY <1>2, <1>11, <1>12 DEF OnlySlab
<1>15. ASSUME NEW r \in Slabs PROVE Told(r, class'[r], alloc_cnt'[r], f1'[r], f2'[r], held')
  <2>1. CASE r = s
    BY <1>2, <1>9, <1>11, <2>1 DEF b
  <2>2. CASE r # s
    <3>1. Told(r, class[r], alloc_cnt[r], f1[r], f2[r], held)
      BY DEF PackedInv
    <3> QED BY <1>2, <1>11, <2>2, <3>1, OthersTell
  <2> QED BY <2>1, <2>2
<1>16. ASSUME NEW d \in held'
       PROVE  d.slab \in Packed' /\ \E j \in Indexes(class'[d.slab]) : d = Block(d.slab, class'[d.slab], j)
  <2>1. CASE d \in held
    <3>1. /\ d.slab \in Slabs /\ class[d.slab] # NoClass /\ d.slab # s
          /\ \E j \in Indexes(class[d.slab]) : d = Block(d.slab, class[d.slab], j)
      BY <1>5, <2>1 DEF PackedInv, Packed
    <3> QED BY <1>11, <3>1 DEF Packed
  <2>2. CASE d = b
    <3>1. d.slab = s /\ d = Block(s, c, 0)
      BY <1>6, <2>2 DEF b
    <3> QED BY <1>1, <1>3, <1>11, <3>1 DEF Packed
  <2> QED BY <1>2, <2>1, <2>2 DEF b
<1>17. \A d \in Classes : BinHas(smallbins'[d], WithRoom(d)')
  BY <1>12, <1>13, <1>14, OtherBins
<1>18. OneGiven
  <2>1. alloc_cnt' = [alloc_cnt EXCEPT ![s] = alloc_cnt[s] + 1]
    BY <1>2, <1>4
  <2>2. b \notin held /\ held' = held \cup {b}
    BY <1>2, <1>6 DEF b
  <2> QED BY <2>1, <2>2 DEF OneGiven
<1>19. PackedInv'
  BY <1>13, <1>15, <1>16, <1>17 DEF PackedInv
<1> QED BY <1>2, <1>18, <1>19

(* A slab that was full is linked again; one with no blocks left is not      *)
(* packed any more.                                                         *)
LEMMA FreeRight ==
  ASSUME PackedInv, NEW b \in held, Free(b)
  PROVE  /\ PackedInv' /\ OneTaken /\ held' = held \ {b}
         /\ \A s \in Slabs : class'[s] = NoClass \/ class'[s] = class[s]
<1>0. PackedTypes
  BY DEF PackedInv
<1>a. PICK s \in Slabs, c \in Classes :
        b.slab = s /\ class[s] = c /\ \E i \in Indexes(c) : b = Block(s, c, i)
  BY <1>0 DEF PackedInv, Packed, PackedTypes
<1>1. PICK i \in Indexes(c) : b.slab = s /\ class[s] = c /\ b = Block(s, c, i)
  BY <1>a
<1> DEFINE words == IF c \in TwoLevel THEN f1[s] \cup {WordOf(i)} ELSE f1[s]
           free == f2[s] \cup {i}
           linked == IF Full(c, f1[s], f2[s]) THEN <<s>> \o smallbins[c] ELSE smallbins[c]
           empty == alloc_cnt[s] = 1
<1>2. PackedTypes /\ s \in Slabs /\ c \in Classes /\ c # NoClass
  BY <1>0, PackedSlabsAssumption
<1>3. IndexOf(b, c) = i
  BY <1>1, BlocksInRow
<1>4. /\ alloc_cnt' = [alloc_cnt EXCEPT ![s] = alloc_cnt[s] - 1]
      /\ f1' = IF c \in TwoLevel THEN [f1 EXCEPT ![s] = f1[s] \cup {WordOf(i)}] ELSE f1
      /\ f2' = [f2 EXCEPT ![s] = free]
      /\ smallbins' = [smallbins EXCEPT ![c] = IF empty THEN Unlink(linked, s) ELSE linked]
      /\ class' = IF empty THEN [class EXCEPT ![s] = NoClass] ELSE class
      /\ held' = held \ {b}
  BY <1>1, <1>3 DEF Free
<1>5. /\ i \in Indexes(c) /\ i \in Nat /\ WordOf(i) \in Nat /\ b = Block(s, c, i)
      /\ i \in MineOf(s, c, held)
  BY <1>1, SizesOfClass, WordsAre DEF MineOf
<1>6. Told(s, c, alloc_cnt[s], f1[s], f2[s], held) /\ BinHas(smallbins[c], WithRoom(c))
  BY <1>1 DEF PackedInv
<1>7. /\ alloc_cnt[s] \in Nat \ {0} /\ i \notin f2[s]
      /\ empty => MineOf(s, c, held) = {i}
      /\ ~empty => Told(s, c, alloc_cnt[s] - 1, words, free, held \ {b})
  <2>1. /\ alloc_cnt[s] \in Nat \ {0} /\ i \notin f2[s]
        /\ alloc_cnt[s] = 1 => MineOf(s, c, held) = {i}
        /\ alloc_cnt[s] # 1 =>
             Told(s, c, alloc_cnt[s] - 1, IF c \in TwoLevel THEN f1[s] \cup {WordOf(i)} ELSE f1[s],
                  f2[s] \cup {i}, held \ {Block(s, c, i)})
    BY <1>2, <1>5, <1>6, GivingTells
  <2>2. held \ {Block(s, c, i)} = held \ {b}
    BY <1>5
  <2> QED BY <2>1, <2>2
<1>8. /\ f1' \in [Slabs -> SUBSET Nat] /\ f2' \in [Slabs -> SUBSET Nat]
      /\ alloc_cnt' \in [Slabs -> Nat] /\ class' \in [Slabs -> Classes \cup {NoClass}]
      /\ class'[s] = (IF empty THEN NoClass ELSE c)
      /\ alloc_cnt'[s] = alloc_cnt[s] - 1 /\ f1'[s] = words /\ f2'[s] = free
      /\ \A r \in Slabs : r # s => /\ class'[r] = class[r] /\ alloc_cnt'[r] = alloc_cnt[r]
                                   /\ f1'[r] = f1[r] /\ f2'[r] = f2[r]
  <2>1. f1[s] \in SUBSET Nat /\ f2[s] \in SUBSET Nat /\ class[s] = c
    BY <1>1, <1>2 DEF PackedTypes
  <2>2. words \in SUBSET Nat /\ free \in SUBSET Nat
    BY <1>5, <2>1
  <2>3. f1' \in [Slabs -> SUBSET Nat] /\ f1'[s] = words /\ \A r \in Slabs : r # s => f1'[r] = f1[r]
    BY <1>2, <1>4, <2>1, <2>2 DEF PackedTypes
  <2>4. f2' \in [Slabs -> SUBSET Nat] /\ f2'[s] = free /\ \A r \in Slabs : r # s => f2'[r] = f2[r]
    BY <1>2, <1>4, <2>1, <2>2 DEF PackedTypes
  <2>5. /\ alloc_cnt' \in [Slabs -> Nat] /\ alloc_cnt'[s] = alloc_cnt[s] - 1
        /\ \A r \in Slabs : r # s => alloc_cnt'[r] = alloc_cnt[r]
    BY <1>2, <1>4, <1>7 DEF PackedTypes
  <2>6. /\ class' \in [Slabs -> Classes \cup {NoClass}] /\ class'[s] = (IF empty THEN NoClass ELSE c)
        /\ \A r \in Slabs : r # s => class'[r] = class[r]
    BY <1>2, <1>4, <2>1 DEF PackedTypes
  <2> QED BY <2>3, <2>4, <2>5, <2>6
<1>9. Full(c, f1[s], f2[s]) <=> f2[s] = {}
  BY <1>2, <1>6 DEF Told, Full
<1>10. class[s] = c
  BY <1>1
<1>11. BinHas(linked, WithRoom(c) \cup {s})
  <2>1. s \in WithRoom(c) <=> f2[s] # {}
    BY <1>2, <1>10 DEF WithRoom
  <2>2. CASE f2[s] = {}
    <3> DEFINE list == smallbins[c]
    <3>1. list \in Seq(Slabs) /\ Members(list) = WithRoom(c) /\ NoRepeats(list) /\ s \notin Members(list)
      BY <1>6, <2>1, <2>2 DEF BinHas
    <3>2. linked = <<s>> \o list
      BY <1>9, <2>2
    <3> HIDE DEF list, linked
    <3> QED BY <1>2, <3>1, <3>2, Linked DEF BinHas
  <2>3. CASE f2[s] # {}
    <3>1. linked = smallbins[c] /\ WithRoom(c) \cup {s} = WithRoom(c)
      BY <1>9, <2>1, <2>3
    <3> QED BY <1>6, <3>1
  <2> QED BY <2>2, <2>3
<1> HIDE DEF linked
<1>12. BinHas(smallbins'[c], WithRoom(c)') /\ smallbins' \in [Classes -> Seq(Slabs)]
       /\ \A d \in Classes : d # c => smallbins'[d] = smallbins[d]
  <2>1. free # {}
    OBVIOUS
  <2>2. WithRoom(c)' = IF empty THEN (WithRoom(c) \cup {s}) \ {s} ELSE WithRoom(c) \cup {s}
    <3> HIDE DEF free, words, empty
    <3>1. \A r \in Slabs : r \in WithRoom(c)' <=> class'[r] = c /\ f2'[r] # {}
      BY DEF WithRoom
    <3>2. \A r \in Slabs : r # s => (r \in WithRoom(c)' <=> r \in WithRoom(c))
      BY <1>8, <3>1 DEF WithRoom
    <3>3. s \in WithRoom(c)' <=> ~empty
      BY <1>2, <1>8, <2>1, <3>1
    <3>4. WithRoom(c) \subseteq Slabs /\ WithRoom(c)' \subseteq Slabs
      BY DEF WithRoom
    <3> QED BY <1>2, <3>2, <3>3, <3>4
  <2> DEFINE new == IF empty THEN Unlink(linked, s) ELSE linked
  <2>3. BinHas(Unlink(linked, s), (WithRoom(c) \cup {s}) \ {s})
    BY <1>11, Unlinked DEF BinHas
  <2>4. BinHas(new, WithRoom(c)')
    BY <1>11, <2>2, <2>3
  <2>5. new \in Seq(Slabs) /\ smallbins' = [smallbins EXCEPT ![c] = new]
    BY <1>4, <2>4 DEF BinHas
  <2> HIDE DEF new
  <2> QED BY <1>2, <2>4, <2>5 DEF PackedTypes
<1>13. PackedTypes'
  BY <1>8, <1>12 DEF PackedTypes
<1>14. OnlySlab(s, c)
  BY <1>8, <1>10, <1>12 DEF OnlySlab
<1>15. ASSUME NEW r \in Slabs PROVE Told(r, class'[r], alloc_cnt'[r], f1'[r], f2'[r], held')
  <2>1. CASE r = s /\ empty
    BY <1>8, <1>7, <2>1 DEF Told
  <2>2. CASE r = s /\ ~empty
    BY <1>4, <1>7, <1>8, <2>2
  <2>3. CASE r # s
    <3>1. Told(r, class[r], alloc_cnt[r], f1[r], f2[r], held)
      BY DEF PackedInv
    <3>2. Told(r, class[r], alloc_cnt[r], f1[r], f2[r], held \ {Block(s, c, i)})
      BY <1>2, <2>3, <3>1, OthersTell
    <3> QED BY <1>4, <1>5, <1>8, <2>3, <3>2
  <2> QED BY <2>1, <2>2, <2>3
<1>16. ASSUME NEW d \in held'
       PROVE  d.slab \in Packed' /\ \E j \in Indexes(class'[d.slab]) : d = Block(d.slab, class'[d.slab], j)
  <2>1. /\ d \in held /\ d # b /\ d.slab \in Slabs /\ class[d.slab] # NoClass
        /\ \E j \in Indexes(class[d.slab]) : d = Block(d.slab, class[d.slab], j)
    BY <1>4 DEF PackedInv, Packed
  <2>2. CASE d.slab = s
    <3>1. PICK j \in Indexes(c) : d = Block(s, c, j)
      BY <1>10, <2>1, <2>2
    <3>2. j \in MineOf(s, c, held) /\ j # i
      BY <1>5, <2>1, <3>1 DEF MineOf
    <3>3. ~empty
      BY <1>7, <3>2
    <3> QED BY <1>2, <1>8, <2>2, <3>1, <3>3 DEF Packed
  <2>3. CASE d.slab # s
    BY <1>8, <2>1, <2>3 DEF Packed
  <2> QED BY <2>2, <2>3
<1>17. \A d \in Classes : BinHas(smallbins'[d], WithRoom(d)')
  BY <1>2, <1>12, <1>13, <1>14, OtherBins
<1>18. OneTaken
  BY <1>2, <1>4, <1>7 DEF OneTaken
<1>19. PackedInv'
  BY <1>13, <1>15, <1>16, <1>17 DEF PackedInv
<1> QED BY <1>2, <1>4, <1>8, <1>18, <1>19, <1>10

-----------------------------------------------------------------------------
(* What the invariant says of the headers and the bins.                      *)
LEMMA PackedStart ==
  ASSUME Init
  PROVE  PackedInv
<1>1. <<>> \in Seq(Slabs)
  OBVIOUS
<1>2. PackedTypes
  BY <1>1 DEF Init, PackedTypes
<1>3. \A c \in Classes : BinHas(smallbins[c], WithRoom(c))
  <2> SUFFICES ASSUME NEW c \in Classes PROVE BinHas(smallbins[c], WithRoom(c))
    OBVIOUS
  <2>1. smallbins[c] = <<>> /\ WithRoom(c) = {}
    BY DEF Init, WithRoom
  <2> QED BY <1>1, <2>1 DEF BinHas, Members, NoRepeats
<1> QED BY <1>2, <1>3 DEF Init, PackedInv, Told

LEMMA PackedTypesOK == PackedInv => TypeOK
<1> SUFFICES ASSUME PackedInv PROVE TypeOK
  OBVIOUS
<1>1. \A s \in Packed : f2[s] \subseteq Indexes(class[s])
  BY DEF PackedInv, Packed, Told
<1>2. ASSUME NEW b \in held PROVE b.slab \in Slabs /\ b.at \in Nat /\ b.size \in Nat
  <2>1. PICK s \in Slabs, c \in Classes :
          b.slab = s /\ \E i \in Indexes(c) : b = Block(s, c, i)
    BY DEF PackedInv, PackedTypes, Packed
  <2>2. PICK i \in Indexes(c) : b = Block(s, c, i)
    BY <2>1
  <2>3. SlabSize \in Nat /\ Size[c] \in Nat
    BY SlabsAre, SizesOfClass
  <2>4. b.at \in 1..SlabSize /\ b.size = Size[c]
    BY <2>2, BlocksInRow
  <2> QED BY <2>1, <2>3, <2>4
<1> QED BY <1>1, <1>2 DEF TypeOK, PackedInv, PackedTypes

LEMMA PackedTells == PackedInv => HeaderTellsWhatIsHeld /\ BinsHoldSlabsWithRoom
<1> SUFFICES ASSUME PackedInv PROVE HeaderTellsWhatIsHeld /\ BinsHoldSlabsWithRoom
  OBVIOUS
<1>1. ASSUME NEW s \in Packed
      PROVE  LET c    == class[s]
                 mine == {i \in Indexes(c) : Block(s, c, i) \in held}
             IN /\ f2[s] = Indexes(c) \ mine
                /\ alloc_cnt[s] = Cardinality(mine) /\ mine # {}
                /\ c \in TwoLevel => f1[s] = {WordOf(i) : i \in f2[s]}
  BY DEF PackedInv, Packed, Told, MineOf
<1>2. HeaderTellsWhatIsHeld
  BY <1>1, PackedTypesOK DEF HeaderTellsWhatIsHeld, PackedInv
<1>3. BinsHoldSlabsWithRoom
  BY DEF BinsHoldSlabsWithRoom, PackedInv, BinHas, Members, NoRepeats, WithRoom
<1> QED BY <1>2, <1>3

LEMMA PackedStands ==
  ASSUME PackedInv, UNCHANGED vars
  PROVE  PackedInv'
<1>1. /\ class' = class /\ alloc_cnt' = alloc_cnt /\ f1' = f1 /\ f2' = f2
      /\ smallbins' = smallbins /\ held' = held
  BY DEF vars, header
<1> QED BY <1>1 DEF PackedInv, PackedTypes, Packed, WithRoom

LEMMA PackedStep ==
  ASSUME PackedInv, [Next]_vars
  PROVE  PackedInv'
<1>1. CASE \E c \in Classes : AllocFromBin(c) \/ AllocFromNewSlab(c)
  BY <1>1, AllocFromBinRight, AllocFromNewSlabRight
<1>2. CASE \E b \in held : Free(b)
  BY <1>2, FreeRight
<1> QED BY <1>1, <1>2, PackedStands DEF Next

(* Packed slabs by themselves, given any slab that is not theirs: headers   *)
(* and bins tell the truth after every order of mallocs and frees, which    *)
(* update the bit vectors, the count and the bin separately.                *)
THEOREM PackedSlabsTellTheTruth == Spec => [](HeaderTellsWhatIsHeld /\ BinsHoldSlabsWithRoom)
<1>1. Init => PackedInv
  BY PackedStart
<1>2. PackedInv /\ [Next]_vars => PackedInv'
  BY PackedStep
<1> QED BY <1>1, <1>2, PackedTells, PTL DEF Spec

-----------------------------------------------------------------------------
(* The module's instance of MediumSlabs and that of the proofs about it have *)
(* the same actions and properties.                                         *)
LEMMA SameActions ==
  /\ Big!Init => BigLemmas!Init
  /\ \A size : Big!FindMedium(size) => BigLemmas!FindMedium(size)
  /\ \A size : Big!AllocFromNewSlabs(size) => BigLemmas!AllocFromNewSlabs(size)
  /\ \A b : Big!Free(b) => BigLemmas!Free(b)
  /\ \A b, size : Big!GrowLarge(b, size) => BigLemmas!GrowLarge(b, size)
  /\ \A b, size : Big!ShrinkToMedium(b, size) => BigLemmas!ShrinkToMedium(b, size)
  /\ \A b, size : Big!ShrinkLarge(b, size) => BigLemmas!ShrinkLarge(b, size)
  /\ \A b, size : Big!ShrinkMedium(b, size) => BigLemmas!ShrinkMedium(b, size)
  /\ \A b, size : Big!GrowMedium(b, size) => BigLemmas!GrowMedium(b, size)
<1> USE DEF
  Big!NoOffsets, BigLemmas!NoOffsets, Big!Indexes, BigLemmas!Indexes, Big!LastIdx, BigLemmas!LastIdx,
  Big!MaxMedium, BigLemmas!MaxMedium, Big!Fitting, BigLemmas!Fitting, Big!Min, BigLemmas!Min,
  Big!PosOf, BigLemmas!PosOf, Big!Byte, BigLemmas!Byte, Big!Unlink, BigLemmas!Unlink,
  Big!Without, BigLemmas!Without, Big!PushOffset, BigLemmas!PushOffset, Big!PushBit, BigLemmas!PushBit,
  Big!Block, BigLemmas!Block, Big!WrittenBack, BigLemmas!WrittenBack, Big!Word, BigLemmas!Word,
  Big!Holding, BigLemmas!Holding, Big!CeilDiv, BigLemmas!CeilDiv, Big!InitMedium, BigLemmas!InitMedium,
  Big!AppendOffset, BigLemmas!AppendOffset, Big!LinkIfFits, BigLemmas!LinkIfFits,
  Big!Link, BigLemmas!Link, Big!InitLarge, BigLemmas!InitLarge, Big!HangsOver, BigLemmas!HangsOver,
  Big!OffsetAt, BigLemmas!OffsetAt, Big!AdjOffset, BigLemmas!AdjOffset, Big!Linked, BigLemmas!Linked,
  Big!Abort, BigLemmas!Abort, Big!header, BigLemmas!header, Big!bins, BigLemmas!bins,
  Big!SizeOf, BigLemmas!SizeOf, Big!BlockSize, BigLemmas!BlockSize, Big!Resized, BigLemmas!Resized,
  Big!RoomAfter, BigLemmas!RoomAfter, Big!RemoveOffset, BigLemmas!RemoveOffset,
  Big!RemoveBit, BigLemmas!RemoveBit
<1>1. ASSUME Big!Init PROVE BigLemmas!Init
  BY <1>1, ZenonT(120) DEF Big!Init, BigLemmas!Init
<1>2. ASSUME NEW size, Big!FindMedium(size) PROVE BigLemmas!FindMedium(size)
  BY <1>2, ZenonT(120) DEF Big!FindMedium, BigLemmas!FindMedium
<1>3. ASSUME NEW size, Big!AllocFromNewSlabs(size) PROVE BigLemmas!AllocFromNewSlabs(size)
  BY <1>3, ZenonT(120) DEF Big!AllocFromNewSlabs, BigLemmas!AllocFromNewSlabs
<1>4. ASSUME NEW b, Big!Free(b) PROVE BigLemmas!Free(b)
  BY <1>4, ZenonT(120) DEF Big!Free, BigLemmas!Free
<1>5. ASSUME NEW b, NEW size, Big!GrowLarge(b, size) PROVE BigLemmas!GrowLarge(b, size)
  BY <1>5, ZenonT(120) DEF Big!GrowLarge, BigLemmas!GrowLarge
<1>6. ASSUME NEW b, NEW size, Big!ShrinkToMedium(b, size) PROVE BigLemmas!ShrinkToMedium(b, size)
  BY <1>6, ZenonT(120) DEF Big!ShrinkToMedium, BigLemmas!ShrinkToMedium
<1>7. ASSUME NEW b, NEW size, Big!ShrinkLarge(b, size) PROVE BigLemmas!ShrinkLarge(b, size)
  BY <1>7, ZenonT(120) DEF Big!ShrinkLarge, BigLemmas!ShrinkLarge
<1>8. ASSUME NEW b, NEW size, Big!ShrinkMedium(b, size) PROVE BigLemmas!ShrinkMedium(b, size)
  BY <1>8, ZenonT(120) DEF Big!ShrinkMedium, BigLemmas!ShrinkMedium
<1>9. ASSUME NEW b, NEW size, Big!GrowMedium(b, size) PROVE BigLemmas!GrowMedium(b, size)
  BY <1>9, ZenonT(120) DEF Big!GrowMedium, BigLemmas!GrowMedium
<1> QED BY <1>1, <1>2, <1>3, <1>4, <1>5, <1>6, <1>7, <1>8, <1>9

LEMMA SameProperties ==
  /\ BigLemmas!HeaderTellsBlocks => Big!HeaderTellsBlocks
  /\ BigLemmas!BinsHoldFreeBlocks => Big!BinsHoldFreeBlocks
<1> USE DEF
  Big!Indexes, BigLemmas!Indexes, Big!LastIdx, BigLemmas!LastIdx, Big!MaxMedium, BigLemmas!MaxMedium,
  Big!Ours, BigLemmas!Ours, Big!Entries, BigLemmas!Entries, Big!AdjOffset, BigLemmas!AdjOffset,
  Big!OffsetAt, BigLemmas!OffsetAt
<1>1. ASSUME BigLemmas!HeaderTellsBlocks PROVE Big!HeaderTellsBlocks
  BY <1>1 DEF Big!HeaderTellsBlocks, BigLemmas!HeaderTellsBlocks, Big!TypeOK, BigLemmas!TypeOK,
     Big!BlockSize, BigLemmas!BlockSize, Big!Cardinality, BigLemmas!Cardinality
<1>2. ASSUME BigLemmas!BinsHoldFreeBlocks PROVE Big!BinsHoldFreeBlocks
  BY <1>2 DEF Big!BinsHoldFreeBlocks, BigLemmas!BinsHoldFreeBlocks, Big!Block, BigLemmas!Block,
     Big!FreeSize, BigLemmas!FreeSize
<1> QED BY <1>1, <1>2

-----------------------------------------------------------------------------
(* The slabs change hands through the slab layer, which lends none twice:    *)
(* no slab is of both kinds.                                                *)
InPacked(s) == IF class[s] # NoClass THEN 1 ELSE 0
LentOnce ==
  \A s, t \in Slabs : s # t /\ owned[s] > 0 /\ owned[t] > 0 =>
    s + owned[s] <= t \/ t + owned[t] <= s
OwnInv ==
  /\ owned = [s \in Slabs |-> n_slabs[s] + InPacked(s)]
  /\ LentOnce
  /\ \A s \in Slabs : class[s] # NoClass => n_slabs[s] = 0

(* A block is in the region that its slab is the first of.                   *)
Placed(b) ==
  /\ b.slab \in Slabs /\ b.at \in 1..SlabSize /\ b.size \in Nat \ {0}
  /\ b = [slab |-> b.slab, at |-> b.at, size |-> b.size]
  /\ owned[b.slab] \in Nat \ {0} /\ b.at + b.size <= owned[b.slab] * SlabSize

AllHeld == held \cup large_held

LEMMA AllPlaced ==
  ASSUME PackedInv, BigLemmas!HeldPlaces, OwnInv
  PROVE  /\ \A b \in AllHeld : Placed(b)
         /\ \A b \in held : class[b.slab] # NoClass
         /\ \A b \in large_held : class[b.slab] = NoClass /\ n_slabs[b.slab] > 0
<1>1. n_slabs \in [Slabs -> Nat]
  BY DEF BigLemmas!HeldPlaces
<1>2. SlabSize \in Nat \ {0}
  BY SlabsAre
<1>3. ASSUME NEW b \in held PROVE Placed(b) /\ class[b.slab] # NoClass
  <2>1. PICK s \in Slabs, c \in Classes :
          b.slab = s /\ class[s] = c /\ \E i \in Indexes(c) : b = Block(s, c, i)
    BY DEF PackedInv, PackedTypes, Packed
  <2>2. PICK i \in Indexes(c) : b = Block(s, c, i)
    BY <2>1
  <2>3. /\ b.at \in 1..SlabSize /\ b.size = Size[c] /\ b.at + Size[c] <= SlabSize
        /\ Size[c] \in Nat \ {0}
    BY <2>2, BlocksInRow, SizesOfClass
  <2>4. c # NoClass
    BY PackedSlabsAssumption
  <2>5. n_slabs[s] = 0 /\ owned[s] = 1
    BY <1>1, <2>1, <2>4 DEF OwnInv, InPacked
  <2>6. b = [slab |-> b.slab, at |-> b.at, size |-> b.size]
    BY <2>2 DEF Block
  <2>7. b.at + b.size <= owned[b.slab] * SlabSize
    BY <1>2, <2>1, <2>3, <2>5
  <2> QED BY <2>1, <2>3, <2>4, <2>5, <2>6, <2>7 DEF Placed
<1>4. ASSUME NEW b \in large_held
      PROVE  Placed(b) /\ class[b.slab] = NoClass /\ n_slabs[b.slab] > 0
  <2>1. /\ b.slab \in Slabs /\ b.at \in 1..SlabSize /\ b.size \in Nat \ {0}
        /\ b = [slab |-> b.slab, at |-> b.at, size |-> b.size]
        /\ n_slabs[b.slab] > 0 /\ b.at + b.size <= n_slabs[b.slab] * SlabSize
    BY DEF BigLemmas!HeldPlaces, BigLemmas!HeldBlock
  <2>2. class[b.slab] = NoClass
    BY <1>1, <2>1 DEF OwnInv
  <2>3. owned[b.slab] = n_slabs[b.slab] /\ n_slabs[b.slab] \in Nat \ {0}
    BY <1>1, <2>1, <2>2 DEF OwnInv, InPacked
  <2> QED BY <2>1, <2>2, <2>3 DEF Placed
<1> QED BY <1>3, <1>4 DEF AllHeld

(* In the one row of addresses no two blocks overlap.                        *)
AddressesApart(b, c) == Address(b) + b.size <= Address(c) \/ Address(c) + c.size <= Address(b)

LEMMA RegionBefore ==
  ASSUME NEW b, NEW c, Placed(b), Placed(c), b.slab + owned[b.slab] <= c.slab
  PROVE  Address(b) + b.size <= Address(c)
<1> DEFINE s == b.slab
           t == c.slab
           n == owned[s]
<1>1. /\ s \in Nat /\ t \in Nat /\ n \in Nat /\ s + n <= t /\ SlabSize \in Nat
      /\ b.at \in Nat /\ b.size \in Nat /\ b.at + b.size <= n * SlabSize /\ c.at \in Nat
  BY SlabsAre DEF Placed
<1>2. Address(b) = s * SlabSize + b.at /\ Address(c) = t * SlabSize + c.at
  BY DEF Address
<1> HIDE DEF s, t, n
<1>3. (s + n) * SlabSize <= t * SlabSize
  <2>1. t - (s + n) \in Nat
    BY <1>1
  <2>2. (t - (s + n)) * SlabSize >= 0
    BY <1>1, <2>1
  <2>3. (t - (s + n)) * SlabSize = t * SlabSize - (s + n) * SlabSize
    BY <1>1
  <2>4. (s + n) * SlabSize \in Nat /\ t * SlabSize \in Nat
    BY <1>1
  <2> QED BY <2>2, <2>3, <2>4
<1>4. (s + n) * SlabSize = s * SlabSize + n * SlabSize
  BY <1>1
<1>5. s * SlabSize \in Nat /\ n * SlabSize \in Nat /\ t * SlabSize \in Nat
  BY <1>1
<1> QED BY <1>1, <1>2, <1>3, <1>4, <1>5

LEMMA BlocksAllApart ==
  ASSUME PackedInv, BigLemmas!HeldPlaces, OwnInv, NEW b \in AllHeld, NEW c \in AllHeld, b # c
  PROVE  AddressesApart(b, c)
<1>1. Placed(b) /\ Placed(c)
  BY AllPlaced
<1>2. CASE b.slab # c.slab
  <2>1. \/ b.slab + owned[b.slab] <= c.slab \/ c.slab + owned[c.slab] <= b.slab
    BY <1>1, <1>2 DEF Placed, OwnInv, LentOnce
  <2> QED BY <1>1, <2>1, RegionBefore DEF AddressesApart
<1>3. CASE b.slab = c.slab
  <2>1. /\ b.slab \in Nat /\ SlabSize \in Nat /\ b.at \in Nat /\ c.at \in Nat
        /\ b.size \in Nat /\ c.size \in Nat
    BY <1>1, SlabsAre DEF Placed
  <2>2. b.at + b.size <= c.at \/ c.at + c.size <= b.at
    <3>1. CASE b \in held /\ c \in held
      <4>0. /\ b.slab \in Slabs /\ class[b.slab] \in Classes
            /\ \E i \in Indexes(class[b.slab]) : b = Block(b.slab, class[b.slab], i)
            /\ \E j \in Indexes(class[c.slab]) : c = Block(c.slab, class[c.slab], j)
        BY <3>1 DEF PackedInv, PackedTypes, Packed
      <4>1. PICK s \in Slabs, d \in Classes :
              /\ b.slab = s /\ class[s] = d
              /\ \E i \in Indexes(d) : b = Block(s, d, i)
              /\ \E j \in Indexes(d) : c = Block(s, d, j)
        BY <1>3, <4>0
      <4>2. PICK i \in Indexes(d) : b = Block(s, d, i)
        BY <4>1
      <4>3. PICK j \in Indexes(d) : c = Block(s, d, j)
        BY <4>1
      <4>4. i \in Nat /\ j \in Nat /\ i # j /\ b.size = Size[d] /\ c.size = Size[d]
        BY <4>2, <4>3, SizesOfClass, BlocksInRow
      <4>5. CASE i < j
        BY <4>2, <4>3, <4>4, <4>5, BlocksApart
      <4>6. CASE j < i
        BY <4>2, <4>3, <4>4, <4>6, BlocksApart
      <4> QED BY <4>4, <4>5, <4>6
    <3>2. CASE b \in large_held /\ c \in large_held
      BY <1>3, <3>2 DEF BigLemmas!HeldPlaces
    <3>3. ~(b \in held /\ c \in large_held) /\ ~(c \in held /\ b \in large_held)
      BY <1>3, AllPlaced
    <3> QED BY <3>1, <3>2, <3>3 DEF AllHeld
  <2>3. Address(b) = b.slab * SlabSize + b.at /\ Address(c) = b.slab * SlabSize + c.at
    BY <1>3 DEF Address
  <2>4. b.slab * SlabSize \in Nat
    BY <2>1
  <2> QED BY <2>1, <2>2, <2>3, <2>4 DEF AddressesApart
<1> QED BY <1>2, <1>3

-----------------------------------------------------------------------------
(* A pointer leads to its slab, and to its block.                            *)
LEMMA SlabFound ==
  ASSUME NEW b, Placed(b)
  PROVE  PtrGetSlab(Address(b)) = b.slab /\ Address(b) \in Nat \ {0}
<1> DEFINE s == b.slab
<1>1. s \in Nat /\ b.at \in 1..SlabSize /\ SlabSize \in Nat \ {0}
  BY SlabsAre DEF Placed
<1>2. Address(b) = s * SlabSize + b.at
  BY DEF Address
<1> HIDE DEF s
<1>3. s * SlabSize \in Nat /\ (s + 1) * SlabSize = s * SlabSize + SlabSize
  BY <1>1
<1> DEFINE m == Address(b) - 1
<1>4. m \in Int /\ s * SlabSize <= m /\ m < (s + 1) * SlabSize
  BY <1>1, <1>2, <1>3
<1> HIDE DEF m
<1>5. m \div SlabSize = s
  <2>1. s \in Int /\ SlabSize \in Nat \ {0}
    BY <1>1
  <2> QED BY <2>1, <1>4, Quotient
<1>6. Address(b) \in Nat \ {0}
  BY <1>1, <1>2, <1>3
<1> QED BY <1>5, <1>6 DEF PtrGetSlab, m, s

LEMMA AddressesDiffer ==
  ASSUME PackedInv, BigLemmas!HeldPlaces, OwnInv, NEW b \in AllHeld, NEW c \in AllHeld,
         Address(b) = Address(c)
  PROVE  b = c
<1>1. Placed(b) /\ Placed(c)
  BY AllPlaced
<1>2. Address(b) \in Nat /\ Address(c) \in Nat /\ b.size \in Nat \ {0} /\ c.size \in Nat \ {0}
  BY <1>1, SlabFound DEF Placed
<1>3. ~AddressesApart(b, c)
  BY <1>2 DEF AddressesApart
<1> QED BY <1>3, BlocksAllApart

LEMMA PointersAre ==
  ASSUME PackedInv, BigLemmas!HeldPlaces, OwnInv
  PROVE  /\ \A b \in held : /\ PtrGetSlab(Address(b)) = b.slab
                            /\ IsPacked(b.slab) /\ TinyAt(Address(b)) = b
         /\ \A b \in large_held : /\ PtrGetSlab(Address(b)) = b.slab
                                  /\ ~IsPacked(b.slab) /\ LargeAt(Address(b)) = b
<1>1. ASSUME NEW b \in held
      PROVE  PtrGetSlab(Address(b)) = b.slab /\ IsPacked(b.slab) /\ TinyAt(Address(b)) = b
  <2>1. Placed(b) /\ IsPacked(b.slab)
    BY AllPlaced DEF AllHeld, IsPacked
  <2>2. PtrGetSlab(Address(b)) = b.slab
    BY <2>1, SlabFound
  <2>3. b.size = Size[class[b.slab]]
    <3>1. PICK s \in Slabs, c \in Classes :
            b.slab = s /\ class[s] = c /\ \E i \in Indexes(c) : b = Block(s, c, i)
      BY DEF PackedInv, PackedTypes, Packed
    <3> QED BY <3>1, BlocksInRow
  <2>4. Address(b) - b.slab * SlabSize = b.at
    <3>1. b.slab \in Nat /\ b.at \in Nat /\ SlabSize \in Nat
      BY <2>1, SlabsAre DEF Placed
    <3>2. b.slab * SlabSize \in Nat
      BY <3>1
    <3> QED BY <3>1, <3>2 DEF Address
  <2>5. b = [slab |-> b.slab, at |-> b.at, size |-> b.size]
    BY <2>1 DEF Placed
  <2>6. TinyAt(Address(b)) = [slab |-> b.slab, at |-> Address(b) - b.slab * SlabSize, size |-> Size[class[b.slab]]]
    BY <2>2 DEF TinyAt
  <2> QED BY <2>1, <2>2, <2>3, <2>4, <2>5, <2>6
<1>2. ASSUME NEW b \in large_held
      PROVE  PtrGetSlab(Address(b)) = b.slab /\ ~IsPacked(b.slab) /\ LargeAt(Address(b)) = b
  <2>1. Placed(b) /\ ~IsPacked(b.slab)
    BY AllPlaced DEF AllHeld, IsPacked
  <2>2. \A c \in large_held : Address(c) = Address(b) => c = b
    BY AddressesDiffer DEF AllHeld
  <2> QED BY <2>1, <2>2, SlabFound DEF LargeAt
<1> QED BY <1>1, <1>2

-----------------------------------------------------------------------------
(* A slab that is lent, cut short, extended or given back.                   *)
LEMMA LentApart ==
  ASSUME owned \in [Slabs -> Nat], LentOnce, owned' = owned \/ SlabLayer!Next
  PROVE  LentOnce'
<1>1. SlabLayer!PoolSlabs = Slabs /\ Slabs \subseteq Nat
  BY SlabsAre DEF SlabLayer!PoolSlabs
<1>2. CASE owned' = owned
  BY <1>2 DEF LentOnce
<1>3. ASSUME NEW s \in Slabs, NEW n \in Int, owned' = [owned EXCEPT ![s] = n],
             \A r \in Slabs : r # s /\ owned[r] > 0 => s + n <= r \/ r + owned[r] <= s
      PROVE  LentOnce'
  <2>1. owned'[s] = n /\ \A r \in Slabs : r # s => owned'[r] = owned[r]
    BY <1>3
  <2> SUFFICES ASSUME NEW q \in Slabs, NEW r \in Slabs, q # r, owned'[q] > 0, owned'[r] > 0
               PROVE  q + owned'[q] <= r \/ r + owned'[r] <= q
    BY DEF LentOnce
  <2>2. CASE q = s
    BY <1>3, <2>1, <2>2
  <2>3. CASE r = s
    BY <1>3, <2>1, <2>3
  <2>4. CASE q # s /\ r # s
    BY <2>1, <2>4 DEF LentOnce
  <2> QED BY <2>2, <2>3, <2>4
<1>4. ASSUME NEW s \in Slabs, NEW n \in Int, SlabLayer!Alloc(s, n) PROVE LentOnce'
  <2>1. /\ owned' = [owned EXCEPT ![s] = n]
        /\ \A r \in Slabs : owned[r] > 0 => s + n <= r \/ r + owned[r] <= s
    BY <1>1, <1>4 DEF SlabLayer!Alloc, SlabLayer!Apart
  <2> QED BY <1>3, <2>1
<1>5. ASSUME NEW s \in Slabs, NEW n \in Int, SlabLayer!Resize(s, n) PROVE LentOnce'
  <2>1. /\ owned' = [owned EXCEPT ![s] = n]
        /\ SlabLayer!Apart([owned EXCEPT ![s] = 0], s, n)
    BY <1>5 DEF SlabLayer!Resize
  <2>2. \A r \in Slabs : r # s => [owned EXCEPT ![s] = 0][r] = owned[r]
    OBVIOUS
  <2>3. \A r \in Slabs : r # s /\ owned[r] > 0 => s + n <= r \/ r + owned[r] <= s
    BY <1>1, <2>1, <2>2 DEF SlabLayer!Apart
  <2> QED BY <1>3, <2>1, <2>3
<1>6. 0..NumSlabs \subseteq Int /\ 1..NumSlabs \subseteq Int
  BY SlabsAre
<1> QED BY <1>1, <1>2, <1>4, <1>5, <1>6 DEF SlabLayer!Next

OwnTypes == class \in [Slabs -> Classes \cup {NoClass}] /\ n_slabs \in [Slabs -> Nat]

LEMMA OwnedIs ==
  ASSUME OwnTypes, owned = [s \in Slabs |-> n_slabs[s] + InPacked(s)]
  PROVE  owned \in [Slabs -> Nat]
BY DEF OwnTypes, InPacked

(* A malloc takes a slab for one kind of block or the other, and it is one   *)
(* that nobody had.                                                         *)
LEMMA LentRight ==
  ASSUME OwnTypes, OwnInv, n_slabs' \in [Slabs -> Nat], class' = class \/ n_slabs' = n_slabs, Lent
  PROVE  OwnInv'
<1>1. owned \in [Slabs -> Nat]
  BY OwnedIs DEF OwnInv
<1>2. /\ owned' = [s \in Slabs |-> n_slabs'[s] + (IF class'[s] # NoClass THEN 1 ELSE 0)]
      /\ owned' = owned \/ \E s \in Slabs, n \in 1..NumSlabs : SlabLayer!Alloc(s, n)
  BY DEF Lent, InUse
<1>3. LentOnce'
  <2>1. owned' = owned \/ SlabLayer!Next
    BY <1>2, SlabsAre DEF SlabLayer!Next, SlabLayer!PoolSlabs
  <2> QED BY <1>1, <2>1, LentApart DEF OwnInv
<1>4. ASSUME NEW s \in Slabs, class'[s] # NoClass PROVE n_slabs'[s] = 0
  <2>1. owned'[s] = n_slabs'[s] + 1 /\ owned[s] = n_slabs[s] + InPacked(s)
    BY <1>2, <1>4 DEF OwnInv
  <2>2. n_slabs[s] \in Nat /\ n_slabs'[s] \in Nat
    BY DEF OwnTypes
  <2>3. CASE owned'[s] = owned[s]
    <3>1. CASE class' = class
      BY <1>4, <2>1, <2>2, <2>3, <3>1 DEF InPacked, OwnInv
    <3>2. CASE n_slabs' = n_slabs
      BY <2>1, <2>2, <2>3, <3>2 DEF InPacked, OwnInv
    <3> QED BY <3>1, <3>2
  <2>4. CASE owned'[s] # owned[s]
    <3>1. PICK t \in Slabs, n \in 1..NumSlabs : SlabLayer!Alloc(t, n)
      BY <1>2, <2>4
    <3>2. t = s /\ owned[s] = 0
      BY <1>1, <2>4, <3>1 DEF SlabLayer!Alloc
    <3>3. n_slabs[s] = 0 /\ class[s] = NoClass
      BY <2>1, <2>2, <3>2 DEF InPacked
    <3> QED BY <1>4, <3>3
  <2> QED BY <2>3, <2>4
<1> QED BY <1>2, <1>3, <1>4 DEF OwnInv, InPacked

(* Nothing else does.                                                        *)
LEMMA GivenBackRight ==
  ASSUME OwnTypes, OwnInv, LentOrGivenBack,
         \A s \in Slabs : class'[s] = NoClass \/ class'[s] = class[s],
         \A s \in Slabs : n_slabs[s] = 0 => n_slabs'[s] = 0
  PROVE  OwnInv'
<1>1. owned \in [Slabs -> Nat]
  BY OwnedIs DEF OwnInv
<1>2. /\ owned' = [s \in Slabs |-> n_slabs'[s] + (IF class'[s] # NoClass THEN 1 ELSE 0)]
      /\ owned' = owned \/ SlabLayer!Next
  BY DEF LentOrGivenBack, InUse
<1>3. LentOnce'
  BY <1>1, <1>2, LentApart DEF OwnInv
<1>4. \A s \in Slabs : class'[s] # NoClass => n_slabs'[s] = 0
  BY DEF OwnInv
<1> QED BY <1>2, <1>3, <1>4 DEF OwnInv, InPacked

-----------------------------------------------------------------------------
(* The counts of the packed slabs are those of their blocks.                 *)
Counted(cnt) == UNION {{s} \X (1..cnt[s]) : s \in Slabs}

CountInv == /\ IsFiniteSet(held) /\ IsFiniteSet(Counted(alloc_cnt))
            /\ Cardinality(Counted(alloc_cnt)) = Cardinality(held)

LEMMA OneMore ==
  ASSUME NEW cnt \in [Slabs -> Nat], NEW s \in Slabs, NEW more, more = [cnt EXCEPT ![s] = cnt[s] + 1]
  PROVE  /\ Counted(more) = Counted(cnt) \cup {<<s, cnt[s] + 1>>}
         /\ <<s, cnt[s] + 1>> \notin Counted(cnt)
<1>1. \A p : p \in Counted(cnt) <=> \E r \in Slabs : \E k \in 1..cnt[r] : p = <<r, k>>
  BY DEF Counted
<1>2. \A p : p \in Counted(more) <=> \E r \in Slabs : \E k \in 1..more[r] : p = <<r, k>>
  BY DEF Counted
<1>3. more[s] = cnt[s] + 1 /\ \A r \in Slabs : r # s => more[r] = cnt[r]
  OBVIOUS
<1>4. cnt[s] \in Nat /\ 1..(cnt[s] + 1) = (1..cnt[s]) \cup {cnt[s] + 1} /\ cnt[s] + 1 \notin 1..cnt[s]
  OBVIOUS
<1>5. \A p : p \in Counted(more) <=> p \in Counted(cnt) \/ p = <<s, cnt[s] + 1>>
  <2>1. ASSUME NEW p, p \in Counted(more) PROVE p \in Counted(cnt) \/ p = <<s, cnt[s] + 1>>
    <3>1. PICK r \in Slabs : \E k \in 1..more[r] : p = <<r, k>>
      BY <1>2, <2>1
    <3>2. CASE r = s
      BY <1>1, <1>3, <1>4, <3>1, <3>2
    <3>3. CASE r # s
      BY <1>1, <1>3, <3>1, <3>3
    <3> QED BY <3>2, <3>3
  <2>2. ASSUME NEW p, p \in Counted(cnt) PROVE p \in Counted(more)
    <3>1. PICK r \in Slabs : \E k \in 1..cnt[r] : p = <<r, k>>
      BY <1>1, <2>2
    <3>2. 1..cnt[r] \subseteq 1..more[r]
      BY <1>3, <1>4
    <3> QED BY <1>2, <3>1, <3>2
  <2>3. <<s, cnt[s] + 1>> \in Counted(more)
    BY <1>2, <1>3, <1>4
  <2> QED BY <2>1, <2>2, <2>3
<1>6. <<s, cnt[s] + 1>> \notin Counted(cnt)
  BY <1>1, <1>4
<1> QED BY <1>5, <1>6

LEMMA CountRight ==
  ASSUME CountInv, alloc_cnt \in [Slabs -> Nat], alloc_cnt' \in [Slabs -> Nat],
         OneGiven \/ OneTaken \/ UNCHANGED <<held, alloc_cnt>>
  PROVE  CountInv'
<1>1. CASE OneGiven
  <2>a. PICK s \in Slabs :
               \E b : b \notin held /\ held' = held \cup {b}
                     /\ alloc_cnt' = [alloc_cnt EXCEPT ![s] = alloc_cnt[s] + 1]
    BY <1>1 DEF OneGiven
  <2>1. PICK b : /\ b \notin held /\ held' = held \cup {b}
                 /\ alloc_cnt' = [alloc_cnt EXCEPT ![s] = alloc_cnt[s] + 1]
    BY <2>a
  <2>2. /\ Counted(alloc_cnt') = Counted(alloc_cnt) \cup {<<s, alloc_cnt[s] + 1>>}
        /\ <<s, alloc_cnt[s] + 1>> \notin Counted(alloc_cnt)
    BY <2>1, OneMore
  <2>3. IsFiniteSet(held') /\ Cardinality(held') = Cardinality(held) + 1
    BY <2>1, FS_AddElement DEF CountInv
  <2>4. /\ IsFiniteSet(Counted(alloc_cnt'))
        /\ Cardinality(Counted(alloc_cnt')) = Cardinality(Counted(alloc_cnt)) + 1
    BY <2>2, FS_AddElement DEF CountInv
  <2>5. Counted(alloc_cnt)' = Counted(alloc_cnt')
    BY DEF Counted
  <2> QED BY <2>3, <2>4, <2>5 DEF CountInv
<1>2. CASE OneTaken
  <2>1. PICK s \in Slabs, b \in held : /\ held' = held \ {b}
                                       /\ alloc_cnt[s] \in Nat \ {0}
                                       /\ alloc_cnt' = [alloc_cnt EXCEPT ![s] = alloc_cnt[s] - 1]
    BY <1>2 DEF OneTaken
  <2>2. alloc_cnt = [alloc_cnt' EXCEPT ![s] = alloc_cnt'[s] + 1]
    <3>1. /\ alloc_cnt'[s] + 1 = alloc_cnt[s]
          /\ \A r \in Slabs : r # s => alloc_cnt'[r] = alloc_cnt[r]
      BY <2>1
    <3> QED BY <3>1
  <2>3. /\ Counted(alloc_cnt) = Counted(alloc_cnt') \cup {<<s, alloc_cnt'[s] + 1>>}
        /\ <<s, alloc_cnt'[s] + 1>> \notin Counted(alloc_cnt')
    BY <2>2, OneMore
  <2>4. IsFiniteSet(held') /\ Cardinality(held') = Cardinality(held) - 1
    BY <2>1, FS_RemoveElement DEF CountInv
  <2>5. Counted(alloc_cnt') = Counted(alloc_cnt) \ {<<s, alloc_cnt'[s] + 1>>}
    BY <2>3
  <2>6. /\ IsFiniteSet(Counted(alloc_cnt'))
        /\ Cardinality(Counted(alloc_cnt')) = Cardinality(Counted(alloc_cnt)) - 1
    <3> DEFINE p == <<s, alloc_cnt'[s] + 1>>
    <3>1. p \in Counted(alloc_cnt) /\ Counted(alloc_cnt') = Counted(alloc_cnt) \ {p}
      BY <2>3, <2>5
    <3> HIDE DEF p
    <3> QED BY <3>1, FS_RemoveElement DEF CountInv
  <2>7. Counted(alloc_cnt)' = Counted(alloc_cnt')
    BY DEF Counted
  <2> QED BY <2>4, <2>6, <2>7 DEF CountInv
<1>3. CASE UNCHANGED <<held, alloc_cnt>>
  BY <1>3 DEF CountInv, Counted
<1> QED BY <1>1, <1>2, <1>3

-----------------------------------------------------------------------------
(* The inductive invariant, but for the block a realloc has to free.         *)
MInv == PackedInv /\ BigLemmas!IInv /\ OwnInv /\ CountInv

(* What a step does to the blocks that callers hold, of either kind.         *)
AllChanges ==
  \/ AllHeld' = AllHeld
  \/ \E x : AllHeld' = AllHeld \cup {x}
  \/ \E b \in AllHeld : AllHeld' = AllHeld \ {b}
  \/ \E b \in AllHeld, r \in AllHeld' : /\ r.slab = b.slab /\ r.at = b.at
                                        /\ AllHeld' = (AllHeld \ {b}) \cup {r}

LEMMA TypesOfAll ==
  ASSUME MInv
  PROVE  /\ OwnTypes /\ BigLemmas!HeldPlaces /\ alloc_cnt \in [Slabs -> Nat]
         /\ \A b \in held : b \notin large_held
<1>1. BigLemmas!HeldPlaces
  BY BigAssumption, BigLemmas!HeldPlacesHold DEF MInv
<1>2. n_slabs \in [Slabs -> Nat]
  BY <1>1 DEF BigLemmas!HeldPlaces
<1>3. \A b \in held : b \notin large_held
  BY <1>1, AllPlaced DEF MInv
<1> QED BY <1>1, <1>2, <1>3 DEF MInv, PackedInv, PackedTypes, OwnTypes

LEMMA BigStep ==
  ASSUME BigLemmas!IInv, [BigLemmas!Next]_(BigLemmas!vars)
  PROVE  /\ BigLemmas!IInv' /\ BigLemmas!HeldChanges
         /\ n_slabs' \in [Slabs -> Nat]
<1>1. BigLemmas!IInv'
  BY BigAssumption, BigLemmas!NextRight
<1>2. BigLemmas!HeldChanges
  BY BigAssumption, BigLemmas!StepsChangeHeld
<1>3. BigLemmas!IInv => BigLemmas!HeldPlaces
  BY BigAssumption, BigLemmas!HeldPlacesHold
<1>4. BigLemmas!HeldPlaces'
  BY <1>1, <1>3, BigAssumption, BigLemmas!HeldPlacesHold, PTL
<1> QED BY <1>1, <1>2, <1>4 DEF BigLemmas!HeldPlaces

LEMMA BigStands ==
  ASSUME UNCHANGED bigVars
  PROVE  [BigLemmas!Next]_(BigLemmas!vars) /\ n_slabs' = n_slabs /\ large_held' = large_held
BY DEF bigVars, BigLemmas!vars, BigLemmas!header, BigLemmas!bins

LEMMA ClassOfSize ==
  ASSUME NEW size \in Sizes, size < MinMedium
  PROVE  ClassOf(size) \in Classes
<1> DEFINE large == {c \in Classes : size <= Size[c]}
           S == {Size[c] : c \in large}
<1>1. S \in SUBSET Nat
  BY SizesOfClass
<1>2. S # {}
  BY SlabMallocAssumption
<1>3. Min(S) \in S /\ \A m \in S : Min(S) <= m
  BY <1>1, <1>2, MinOfSet
<1>4. PICK c \in large : Size[c] = Min(S)
  BY <1>3
<1>5. \A d \in Classes : size <= Size[d] => Size[c] <= Size[d]
  BY <1>3, <1>4
<1> HIDE DEF S
<1>6. \E d \in Classes : size <= Size[d] /\ \A e \in Classes : size <= Size[e] => Size[d] <= Size[e]
  BY <1>4, <1>5
<1> QED BY <1>6 DEF ClassOf

-----------------------------------------------------------------------------
(* A malloc of a tiny block.                                                 *)
LEMMA MallocTinyRight ==
  ASSUME MInv, NEW c \in Classes, AllocFromBin(c) \/ AllocFromNewSlab(c), UNCHANGED bigVars, Lent
  PROVE  MInv' /\ AllChanges /\ AllHeld \subseteq AllHeld'
<1>1. PackedInv /\ OwnInv /\ CountInv /\ BigLemmas!IInv
  BY DEF MInv
<1>2. PackedInv' /\ OneGiven
  BY <1>1, AllocFromBinRight, AllocFromNewSlabRight
<1>3. BigLemmas!IInv' /\ n_slabs' = n_slabs /\ large_held' = large_held /\ n_slabs' \in [Slabs -> Nat]
  BY <1>1, BigStands, BigStep
<1>4. OwnInv'
  BY <1>1, <1>3, TypesOfAll, LentRight
<1>5. CountInv'
  <2>1. alloc_cnt \in [Slabs -> Nat] /\ alloc_cnt' \in [Slabs -> Nat]
    BY <1>1, <1>2 DEF PackedInv, PackedTypes
  <2> QED BY <1>1, <1>2, <2>1, CountRight
<1>6. PICK x : held' = held \cup {x}
  BY <1>2 DEF OneGiven
<1>7. AllHeld' = AllHeld \cup {x}
  BY <1>3, <1>6 DEF AllHeld
<1> QED BY <1>2, <1>3, <1>4, <1>5, <1>7 DEF MInv, AllChanges

(* A free of one.                                                            *)
LEMMA FreeTinyRight ==
  ASSUME MInv, NEW b \in held, Free(b), UNCHANGED bigVars, LentOrGivenBack
  PROVE  MInv' /\ AllChanges
<1>1. PackedInv /\ OwnInv /\ CountInv /\ BigLemmas!IInv
  BY DEF MInv
<1>2. /\ PackedInv' /\ OneTaken /\ held' = held \ {b}
      /\ \A s \in Slabs : class'[s] = NoClass \/ class'[s] = class[s]
  BY <1>1, FreeRight
<1>3. BigLemmas!IInv' /\ n_slabs' = n_slabs /\ large_held' = large_held
  BY <1>1, BigStands, BigStep
<1>4. OwnInv'
  BY <1>1, <1>2, <1>3, TypesOfAll, GivenBackRight
<1>5. CountInv'
  <2>1. alloc_cnt \in [Slabs -> Nat] /\ alloc_cnt' \in [Slabs -> Nat]
    BY <1>1, <1>2 DEF PackedInv, PackedTypes
  <2> QED BY <1>1, <1>2, <2>1, CountRight
<1>6. AllHeld' = AllHeld \ {b} /\ b \in AllHeld
  BY <1>2, <1>3, TypesOfAll DEF AllHeld
<1> QED BY <1>2, <1>3, <1>4, <1>5, <1>6 DEF MInv, AllChanges

(* What a step of the others leaves of the packed slabs, which is all.       *)
LEMMA BigAlone ==
  ASSUME MInv, [BigLemmas!Next]_(BigLemmas!vars), UNCHANGED vars
  PROVE  /\ PackedInv' /\ BigLemmas!IInv' /\ CountInv' /\ AllChanges
         /\ n_slabs' \in [Slabs -> Nat] /\ class' = class /\ held' = held
<1>1. PackedInv /\ CountInv /\ BigLemmas!IInv
  BY DEF MInv
<1>2. PackedInv'
  BY <1>1, PackedStands
<1>3. BigLemmas!IInv' /\ BigLemmas!HeldChanges /\ n_slabs' \in [Slabs -> Nat]
  BY <1>1, BigStep
<1>4. class' = class /\ held' = held /\ alloc_cnt' = alloc_cnt
  BY DEF vars, header
<1>5. CountInv'
  BY <1>1, <1>4, TypesOfAll, CountRight
<1>6. AllChanges
  <2>1. CASE large_held' = large_held
    BY <1>4, <2>1 DEF AllHeld, AllChanges
  <2>2. ASSUME NEW x, large_held' = large_held \cup {x} PROVE AllChanges
    <3>1. AllHeld' = AllHeld \cup {x}
      BY <1>4, <2>2 DEF AllHeld
    <3> QED BY <3>1 DEF AllChanges
  <2>3. ASSUME NEW b \in large_held, large_held' = large_held \ {b} PROVE AllChanges
    <3>1. AllHeld' = AllHeld \ {b} /\ b \in AllHeld
      BY <1>4, <2>3, TypesOfAll DEF AllHeld
    <3> QED BY <3>1 DEF AllChanges
  <2>4. ASSUME NEW b \in large_held, NEW r \in large_held', r.slab = b.slab, r.at = b.at,
               large_held' = (large_held \ {b}) \cup {r}
        PROVE  AllChanges
    <3>1. AllHeld' = (AllHeld \ {b}) \cup {r} /\ b \in AllHeld /\ r \in AllHeld'
      BY <1>4, <2>4, TypesOfAll DEF AllHeld
    <3> QED BY <2>4, <3>1 DEF AllChanges
  <2> QED BY <1>3, <2>1, <2>2, <2>3, <2>4 DEF BigLemmas!HeldChanges
<1> QED BY <1>2, <1>3, <1>4, <1>5, <1>6

(* A malloc of a medium or large block.                                      *)
LEMMA MallocBigRight ==
  ASSUME MInv, aborted = "no", NEW size \in Sizes, size >= MinMedium,
         Big!FindMedium(size) \/ Big!AllocFromNewSlabs(size), UNCHANGED vars, Lent
  PROVE  MInv' /\ AllChanges /\ AllHeld \subseteq AllHeld'
<1>1. BigLemmas!FindMedium(size) \/ BigLemmas!AllocFromNewSlabs(size)
  BY SameActions
<1>2. [BigLemmas!Next]_(BigLemmas!vars)
  BY <1>1 DEF BigLemmas!Next
<1>3. /\ PackedInv' /\ BigLemmas!IInv' /\ CountInv' /\ AllChanges
      /\ n_slabs' \in [Slabs -> Nat] /\ class' = class /\ held' = held
  BY <1>2, BigAlone
<1>4. OwnInv'
  BY <1>3, TypesOfAll, LentRight DEF MInv
<1>5. large_held \subseteq large_held'
  BY DEF Big!FindMedium, Big!AllocFromNewSlabs, Big!InitMedium, Big!InitLarge, Big!Holding
<1> QED BY <1>3, <1>4, <1>5 DEF MInv, AllHeld

(* A free of one, and what realloc does to one where it is.                  *)
LEMMA FreeBigRight ==
  ASSUME MInv, aborted = "no", NEW b \in large_held, Big!Free(b), UNCHANGED vars, LentOrGivenBack
  PROVE  MInv' /\ AllChanges
<1>1. BigLemmas!Free(b)
  BY SameActions
<1>2. [BigLemmas!Next]_(BigLemmas!vars)
  BY <1>1 DEF BigLemmas!Next
<1>3. /\ PackedInv' /\ BigLemmas!IInv' /\ CountInv' /\ AllChanges /\ class' = class
  BY <1>2, BigAlone
<1>4. BigLemmas!NoNewRegion
  BY <1>1, BigAssumption, BigLemmas!FreeMakesNoRegion DEF MInv
<1>5. OwnInv'
  BY <1>3, <1>4, TypesOfAll, GivenBackRight DEF MInv, BigLemmas!NoNewRegion
<1> QED BY <1>3, <1>5 DEF MInv

LEMMA ResizeBigRight ==
  ASSUME MInv, aborted = "no", NEW b \in large_held, NEW size \in Sizes, size >= MinMedium,
         \/ Big!GrowLarge(b, size) \/ Big!ShrinkToMedium(b, size) \/ Big!ShrinkLarge(b, size)
         \/ Big!ShrinkMedium(b, size) \/ Big!GrowMedium(b, size),
         UNCHANGED vars, LentOrGivenBack
  PROVE  MInv' /\ AllChanges
<1>1. \/ BigLemmas!GrowLarge(b, size) \/ BigLemmas!ShrinkToMedium(b, size)
      \/ BigLemmas!ShrinkLarge(b, size) \/ BigLemmas!ShrinkMedium(b, size)
      \/ BigLemmas!GrowMedium(b, size)
  BY SameActions
<1>2. [BigLemmas!Next]_(BigLemmas!vars)
  BY <1>1 DEF BigLemmas!Next
<1>3. /\ PackedInv' /\ BigLemmas!IInv' /\ CountInv' /\ AllChanges /\ class' = class
  BY <1>2, BigAlone
<1>4. BigLemmas!NoNewRegion
  BY <1>1, BigAssumption, BigLemmas!ResizeMakesNoRegion DEF MInv
<1>5. OwnInv'
  BY <1>3, <1>4, TypesOfAll, GivenBackRight DEF MInv, BigLemmas!NoNewRegion
<1> QED BY <1>3, <1>5 DEF MInv

(* The functions find the kind of a block by its pointer, and the block.     *)
LEMMA MallocBlockRight ==
  ASSUME MInv, aborted = "no", NEW size \in Sizes, MallocBlock(size)
  PROVE  MInv' /\ AllChanges /\ AllHeld \subseteq AllHeld'
<1>1. CASE size < MinMedium
  <2>1. /\ AllocFromBin(ClassOf(size)) \/ AllocFromNewSlab(ClassOf(size))
        /\ UNCHANGED bigVars /\ Lent
    <3>1. ~(size >= MinMedium)
      BY <1>1, SlabMallocAssumption
    <3> QED BY <3>1 DEF MallocBlock
  <2>2. ClassOf(size) \in Classes
    BY <1>1, ClassOfSize
  <2> QED BY <2>1, <2>2, MallocTinyRight
<1>2. CASE ~(size < MinMedium)
  <2>1. /\ size >= MinMedium /\ Lent
        /\ Big!FindMedium(size) \/ Big!AllocFromNewSlabs(size)
        /\ UNCHANGED vars
    BY <1>2 DEF MallocBlock
  <2> QED BY <2>1, MallocBigRight
<1> QED BY <1>1, <1>2

LEMMA PointerIs ==
  ASSUME MInv, NEW b \in AllHeld
  PROVE  /\ b \in held => IsPacked(PtrGetSlab(Address(b))) /\ TinyAt(Address(b)) = b
         /\ b \in large_held => ~IsPacked(PtrGetSlab(Address(b))) /\ LargeAt(Address(b)) = b
BY TypesOfAll, PointersAre DEF MInv

LEMMA FreeBlockRight ==
  ASSUME MInv, aborted = "no", NEW b \in AllHeld, FreeBlock(Address(b))
  PROVE  MInv' /\ AllChanges
<1> DEFINE ptr == Address(b)
<1>1. /\ b \in held => IsPacked(PtrGetSlab(ptr)) /\ TinyAt(ptr) = b
      /\ b \in large_held => ~IsPacked(PtrGetSlab(ptr)) /\ LargeAt(ptr) = b
  BY PointerIs
<1>2. /\ \/ IsPacked(PtrGetSlab(ptr)) /\ Free(TinyAt(ptr)) /\ UNCHANGED bigVars
         \/ ~IsPacked(PtrGetSlab(ptr)) /\ Big!Free(LargeAt(ptr)) /\ UNCHANGED vars
      /\ LentOrGivenBack
  BY DEF FreeBlock
<1> HIDE DEF ptr
<1>3. CASE b \in held
  BY <1>1, <1>2, <1>3, FreeTinyRight
<1>4. CASE b \in large_held
  BY <1>1, <1>2, <1>4, FreeBigRight
<1> QED BY <1>3, <1>4 DEF AllHeld

LEMMA ResizeInPlaceRight ==
  ASSUME MInv, aborted = "no", NEW b \in AllHeld, NEW size \in Sizes, ResizeInPlace(Address(b), size)
  PROVE  MInv' /\ AllChanges
<1> DEFINE ptr == Address(b)
<1>1. /\ b \in held => IsPacked(PtrGetSlab(ptr)) /\ TinyAt(ptr) = b
      /\ b \in large_held => ~IsPacked(PtrGetSlab(ptr)) /\ LargeAt(ptr) = b
  BY PointerIs
<1>2. /\ ~IsPacked(PtrGetSlab(ptr)) /\ size >= MinMedium
      /\ \/ Big!GrowLarge(LargeAt(ptr), size) \/ Big!ShrinkToMedium(LargeAt(ptr), size)
         \/ Big!ShrinkLarge(LargeAt(ptr), size) \/ Big!ShrinkMedium(LargeAt(ptr), size)
         \/ Big!GrowMedium(LargeAt(ptr), size)
      /\ UNCHANGED vars /\ LentOrGivenBack
  BY DEF ResizeInPlace
<1> HIDE DEF ptr
<1>3. b \in large_held /\ LargeAt(ptr) = b
  BY <1>1, <1>2 DEF AllHeld
<1> QED BY <1>2, <1>3, ResizeBigRight

-----------------------------------------------------------------------------
(* A block that a realloc has moved from is held until it is freed.          *)
MoveInv == moving = <<>> \/ \E b \in AllHeld : moving = <<Address(b)>>

FullInv == MInv /\ MoveInv

LEMMA PointersOfHeld == \A ptr \in Pointers : \E b \in AllHeld : ptr = Address(b)
BY DEF Pointers, AllHeld

LEMMA FullStart ==
  ASSUME MallocInit
  PROVE  FullInv /\ AllHeld = {}
<1>1. Init /\ Big!Init /\ SlabLayer!Init /\ moving = <<>>
  BY DEF MallocInit
<1>2. PackedInv /\ held = {}
  BY <1>1, PackedStart DEF Init
<1>3. BigLemmas!Init
  BY <1>1, SameActions
<1>4. BigLemmas!IInv /\ large_held = {}
  BY <1>3, BigAssumption, BigLemmas!InitRight DEF BigLemmas!Init
<1>5. OwnInv
  <2>1. owned = [s \in Slabs |-> 0]
    BY <1>1, SlabsAre DEF SlabLayer!Init, SlabLayer!PoolSlabs
  <2>2. \A s \in Slabs : n_slabs[s] = 0 /\ class[s] = NoClass
    BY <1>1 DEF Init, Big!Init
  <2> QED BY <2>1, <2>2 DEF OwnInv, LentOnce, InPacked
<1>6. CountInv
  <2>1. Counted(alloc_cnt) = {}
    BY <1>1 DEF Init, Counted
  <2> QED BY <1>2, <2>1, FS_EmptySet DEF CountInv
<1> QED BY <1>1, <1>2, <1>4, <1>5, <1>6 DEF FullInv, MInv, MoveInv, AllHeld

LEMMA AllStands ==
  ASSUME FullInv, UNCHANGED allVars
  PROVE  FullInv' /\ AllChanges
<1>1. UNCHANGED vars /\ UNCHANGED bigVars /\ owned' = owned /\ moving' = moving
  BY DEF allVars
<1>2. [BigLemmas!Next]_(BigLemmas!vars) /\ n_slabs' = n_slabs /\ large_held' = large_held
  BY <1>1, BigStands
<1>3. /\ PackedInv' /\ BigLemmas!IInv' /\ CountInv' /\ AllChanges /\ class' = class /\ held' = held
  BY <1>1, <1>2, BigAlone DEF FullInv
<1>4. OwnInv'
  BY <1>1, <1>2, <1>3 DEF FullInv, MInv, OwnInv, LentOnce, InPacked
<1>5. MoveInv'
  BY <1>1, <1>2, <1>3 DEF FullInv, MoveInv, AllHeld
<1> QED BY <1>3, <1>4, <1>5 DEF FullInv, MInv

LEMMA FullStep ==
  ASSUME FullInv, [MallocNext]_allVars
  PROVE  FullInv' /\ AllChanges
<1>1. MInv /\ MoveInv
  BY DEF FullInv
<1>2. ASSUME MInv', moving' = <<>> PROVE FullInv'
  BY <1>2 DEF FullInv, MoveInv
<1>3. ASSUME aborted = "no", moving = <<>>, NEW size \in Sizes, Malloc(size) PROVE FullInv' /\ AllChanges
  BY <1>1, <1>2, <1>3, MallocBlockRight DEF Malloc
<1>4. ASSUME aborted = "no", moving = <<>>, NEW b \in AllHeld, FreePtr(Address(b))
      PROVE  FullInv' /\ AllChanges
  BY <1>1, <1>2, <1>4, FreeBlockRight DEF FreePtr
<1>5. ASSUME aborted = "no", moving = <<>>, NEW b \in AllHeld, NEW size \in Sizes, Realloc(Address(b), size)
      PROVE  FullInv' /\ AllChanges
  <2>1. CASE FreePtr(Address(b))
    BY <1>4, <1>5, <2>1
  <2>2. CASE KeepTiny(Address(b), size)
    BY <2>2, AllStands DEF KeepTiny
  <2>3. CASE ResizeInPlace(Address(b), size)
    <3>1. moving' = <<>>
      BY <1>5, <2>3 DEF ResizeInPlace
    <3> QED BY <1>1, <1>2, <1>5, <2>3, <3>1, ResizeInPlaceRight
  <2>4. CASE Move(Address(b), size)
    <3>1. MallocBlock(size) /\ moving' = <<Address(b)>>
      BY <2>4 DEF Move
    <3>2. MInv' /\ AllChanges /\ AllHeld \subseteq AllHeld'
      BY <1>1, <1>5, <3>1, MallocBlockRight
    <3>3. MoveInv'
      BY <3>1, <3>2 DEF MoveInv, Address
    <3> QED BY <3>2, <3>3 DEF FullInv
  <2> QED BY <1>5, <2>1, <2>2, <2>3, <2>4 DEF Realloc
<1>6. ASSUME aborted = "no", Moved PROVE FullInv' /\ AllChanges
  <2>1. PICK b \in AllHeld : moving = <<Address(b)>>
    BY <1>1, <1>6 DEF Moved, MoveInv
  <2>2. FreeBlock(Address(b)) /\ moving' = <<>>
    <3>1. FreeBlock(moving[1]) /\ moving' = <<>>
      BY <1>6 DEF Moved
    <3>2. moving[1] = Address(b)
      BY <2>1
    <3> QED BY <3>1, <3>2
  <2> QED BY <1>1, <1>2, <1>6, <2>2, FreeBlockRight
<1>7. CASE UNCHANGED allVars
  BY <1>7, AllStands
<1> QED BY <1>3, <1>4, <1>5, <1>6, <1>7, PointersOfHeld DEF MallocNext

(* What malloc, free and realloc rely on at every call of theirs: packed and*)
(* medium headers and bins are right, each slab is lent to one of the two   *)
(* kinds only, and the slab layer's counts are those of the headers.        *)
THEOREM MallocInvariant == MallocSpec => []FullInv
<1>1. MallocInit => FullInv
  BY FullStart
<1>2. FullInv /\ [MallocNext]_allVars => FullInv'
  BY FullStep
<1> QED BY <1>1, <1>2, PTL DEF MallocSpec

-----------------------------------------------------------------------------
(* The headers of all slabs say what callers hold, whatever the slabs were   *)
(* before and whatever frees and reallocs were given of them.               *)
THEOREM HeadersAlwaysTellTheTruth == MallocSpec => []HeadersTellTheTruth
<1>1. FullInv => HeadersTellTheTruth
  <2>1. BigLemmas!IInv => BigLemmas!HeaderTellsBlocks
    BY BigAssumption, BigLemmas!HeadersAreTrue
  <2> QED BY <2>1, SameProperties, PackedTells DEF FullInv, MInv, HeadersTellTheTruth
<1> QED BY <1>1, MallocInvariant, PTL

(* The bins of both kinds hold the slabs with room and the free blocks, and  *)
(* nothing of what has changed hands.                                       *)
THEOREM BinsAlwaysTellTheTruth == MallocSpec => []BinsTellTheTruth
<1>1. FullInv => BinsTellTheTruth
  <2>1. BigLemmas!IInv => BigLemmas!BinsHoldFreeBlocks
    BY BigAssumption, BigLemmas!BinsAreTrue
  <2> QED BY <2>1, SameProperties, PackedTells DEF FullInv, MInv, BinsTellTheTruth
<1> QED BY <1>1, MallocInvariant, PTL

(* free and realloc, who are given an address and no more, find the slab     *)
(* the block is from, the kind of that slab and the block: ptr_get_slab.     *)
THEOREM PointersFindTheirBlocks == MallocSpec => []EveryPointerFindsItsBlock
<1>1. FullInv => EveryPointerFindsItsBlock
  <2> SUFFICES ASSUME FullInv PROVE EveryPointerFindsItsBlock
    OBVIOUS
  <2>1. MInv
    BY DEF FullInv
  <2>2. \A b \in large_held : n_slabs[b.slab] > 0
    BY <2>1, TypesOfAll DEF BigLemmas!HeldPlaces
  <2> QED BY <2>1, <2>2, TypesOfAll, PointersAre DEF MInv, EveryPointerFindsItsBlock
<1> QED BY <1>1, MallocInvariant, PTL

-----------------------------------------------------------------------------
(* What the callers see: addresses.                                          *)
FlatHeld == {Flat(b) : b \in AllHeld}
BitsSet == {e \in Slabs \X Big!Indexes : e[2] \in block_alloc[e[1]]}
CountOfAll == Cardinality(Counted(alloc_cnt)) + Cardinality(BitsSet)

MemoryFacts ==
  /\ IsFiniteSet(FlatHeld) /\ CountOfAll = Cardinality(FlatHeld)
  /\ FlatHeld \subseteq Memory!Blocks
  /\ \A b, c \in FlatHeld : b # c => Memory!Apart(b, c)
  /\ \A b, c \in FlatHeld : b.at = c.at => b = c

LEMMA FlatIsOneToOne ==
  ASSUME MInv, NEW b \in AllHeld, NEW c \in AllHeld, Flat(b).at = Flat(c).at
  PROVE  b = c
<1>1. Address(b) = Address(c)
  BY DEF Flat
<1> QED BY <1>1, TypesOfAll, AddressesDiffer DEF MInv

LEMMA MemoryFactsHold == MInv => MemoryFacts
<1> SUFFICES ASSUME MInv PROVE MemoryFacts
  OBVIOUS
<1>1. /\ IsFiniteSet(held) /\ Cardinality(Counted(alloc_cnt)) = Cardinality(held)
  BY DEF MInv, CountInv
<1>2. /\ IsFiniteSet(large_held) /\ Cardinality(BitsSet) = Cardinality(large_held)
  <2>1. BigLemmas!PoolFacts
    BY BigAssumption, BigLemmas!PoolFactsHold DEF MInv
  <2>2. BigLemmas!SetBits = BitsSet
    BY DEF BigLemmas!SetBits, BitsSet, Big!Indexes, BigLemmas!Indexes, Big!LastIdx,
      BigLemmas!LastIdx, Big!MaxMedium, BigLemmas!MaxMedium
  <2>3. /\ BigLemmas!IsFiniteSet(large_held)
        /\ BigLemmas!Cardinality(BigLemmas!SetBits) = BigLemmas!Cardinality(large_held)
    BY <2>1 DEF BigLemmas!PoolFacts
  <2> QED BY <2>2, <2>3, SameSets
<1>3. /\ IsFiniteSet(AllHeld)
      /\ Cardinality(AllHeld) = Cardinality(held) + Cardinality(large_held)
  <2>1. held \cap large_held = {}
    BY TypesOfAll
  <2>2. Cardinality({}) = 0 /\ Cardinality(held) \in Nat /\ Cardinality(large_held) \in Nat
    BY <1>1, <1>2, FS_EmptySet, FS_CardinalityType
  <2>3. /\ IsFiniteSet(held \cup large_held)
        /\ Cardinality(held \cup large_held)
             = Cardinality(held) + Cardinality(large_held) - Cardinality(held \cap large_held)
    BY <1>1, <1>2, FS_Union
  <2>4. Cardinality(held \cap large_held) = 0
    BY <2>1, <2>2
  <2> QED BY <2>2, <2>3, <2>4 DEF AllHeld
<1>4. /\ IsFiniteSet(FlatHeld) /\ Cardinality(FlatHeld) = Cardinality(AllHeld)
  <2> DEFINE f == [b \in AllHeld |-> Flat(b)]
  <2>1. f \in [AllHeld -> FlatHeld]
    BY DEF FlatHeld
  <2>2. \A b, c \in AllHeld : f[b] = f[c] => b = c
    BY FlatIsOneToOne
  <2>3. \A e \in FlatHeld : \E b \in AllHeld : f[b] = e
    BY DEF FlatHeld
  <2> HIDE DEF f
  <2>4. f \in Surjection(AllHeld, FlatHeld) /\ f \in Injection(AllHeld, FlatHeld)
    BY <2>1, <2>2, <2>3 DEF Surjection, Injection, IsInjective
  <2> QED BY <1>3, <2>4, FS_Surjection
<1>5. FlatHeld \subseteq Memory!Blocks
  <2> SUFFICES ASSUME NEW b \in AllHeld PROVE Flat(b) \in Memory!Blocks
    BY DEF FlatHeld
  <2>1. Placed(b)
    BY TypesOfAll, AllPlaced DEF MInv
  <2>2. Address(b) \in Nat /\ b.size \in Nat \ {0}
    BY <2>1, SlabFound DEF Placed
  <2> QED BY <2>2 DEF Flat, Memory!Blocks
<1>6. \A b, c \in FlatHeld : b # c => Memory!Apart(b, c)
  <2> SUFFICES ASSUME NEW b \in AllHeld, NEW c \in AllHeld, Flat(b) # Flat(c)
               PROVE  Memory!Apart(Flat(b), Flat(c))
    BY DEF FlatHeld
  <2>1. AddressesApart(b, c)
    BY TypesOfAll, BlocksAllApart DEF MInv
  <2> QED BY <2>1 DEF AddressesApart, Memory!Apart, Flat
<1>7. \A b, c \in FlatHeld : b.at = c.at => b = c
  BY FlatIsOneToOne DEF FlatHeld
<1> QED BY <1>1, <1>2, <1>3, <1>4, <1>5, <1>6, <1>7 DEF MemoryFacts, CountOfAll

(* A step seen so.                                                           *)
FlatChanges ==
  \/ FlatHeld' = FlatHeld
  \/ \E x : FlatHeld' = FlatHeld \cup {x}
  \/ \E b \in FlatHeld : FlatHeld' = FlatHeld \ {b}
  \/ \E b \in FlatHeld, r \in FlatHeld' : /\ r.slab = b.slab /\ r.at = b.at
                                          /\ FlatHeld' = (FlatHeld \ {b}) \cup {r}

LEMMA FlatChange ==
  ASSUME MInv, AllChanges
  PROVE  FlatChanges
<1>1. FlatHeld' = {Flat(b) : b \in AllHeld'}
  BY DEF FlatHeld, Flat, Address
<1>2. CASE AllHeld' = AllHeld
  BY <1>1, <1>2 DEF FlatHeld, FlatChanges
<1>3. ASSUME NEW x, AllHeld' = AllHeld \cup {x} PROVE FlatChanges
  <2>1. FlatHeld' = FlatHeld \cup {Flat(x)}
    BY <1>1, <1>3 DEF FlatHeld
  <2> QED BY <2>1 DEF FlatChanges
<1>4. ASSUME NEW b \in AllHeld PROVE {Flat(c) : c \in AllHeld \ {b}} = FlatHeld \ {Flat(b)}
  BY FlatIsOneToOne DEF FlatHeld
<1>5. ASSUME NEW b \in AllHeld, AllHeld' = AllHeld \ {b} PROVE FlatChanges
  <2>1. FlatHeld' = FlatHeld \ {Flat(b)} /\ Flat(b) \in FlatHeld
    BY <1>1, <1>4, <1>5 DEF FlatHeld
  <2> QED BY <2>1 DEF FlatChanges
<1>6. ASSUME NEW b \in AllHeld, NEW r \in AllHeld', r.slab = b.slab, r.at = b.at,
             AllHeld' = (AllHeld \ {b}) \cup {r}
      PROVE  FlatChanges
  <2>1. FlatHeld' = {Flat(c) : c \in AllHeld \ {b}} \cup {Flat(r)}
    BY <1>1, <1>6
  <2>2. FlatHeld' = (FlatHeld \ {Flat(b)}) \cup {Flat(r)} /\ Flat(b) \in FlatHeld
    BY <1>4, <2>1 DEF FlatHeld
  <2>3. Flat(r).slab = Flat(b).slab /\ Flat(r).at = Flat(b).at
    BY <1>6 DEF Flat, Address
  <2> QED BY <2>2, <2>3 DEF FlatChanges
<1> QED BY <1>2, <1>3, <1>5, <1>6 DEF AllChanges

LEMMA MemoryStep ==
  ASSUME MemoryFacts, MemoryFacts', FlatChanges
  PROVE  UNCHANGED <<FlatHeld, CountOfAll>> \/ Memory!Next
<1> DEFINE was == Cardinality(FlatHeld)
           now == Cardinality(FlatHeld')
<1>1. /\ CountOfAll = was /\ IsFiniteSet(FlatHeld) /\ FlatHeld \subseteq Memory!Blocks
      /\ \A b, c \in FlatHeld : b # c => Memory!Apart(b, c)
      /\ \A b, c \in FlatHeld : b.at = c.at => b = c
      /\ was \in Nat
  BY FS_CardinalityType DEF MemoryFacts
<1>2. /\ CountOfAll' = now /\ IsFiniteSet(FlatHeld') /\ FlatHeld' \subseteq Memory!Blocks
      /\ \A b, c \in FlatHeld' : b # c => Memory!Apart(b, c)
  BY DEF MemoryFacts, Memory!Blocks, Memory!Apart
<1>3. Memory!Next <=> \/ \E b \in FlatHeld' :
                           /\ b \in Memory!Blocks \ FlatHeld
                           /\ \A c \in FlatHeld : Memory!Apart(b, c)
                           /\ FlatHeld' = FlatHeld \cup {b}
                           /\ CountOfAll' = CountOfAll + 1
                      \/ \E b \in FlatHeld : FlatHeld' = FlatHeld \ {b} /\ CountOfAll' = CountOfAll - 1
                      \/ \E b \in FlatHeld, r \in FlatHeld' :
                           /\ r \in Memory!Blocks /\ r.slab = b.slab /\ r.at = b.at
                           /\ \A c \in FlatHeld \ {b} : Memory!Apart(r, c)
                           /\ FlatHeld' = (FlatHeld \ {b}) \cup {r}
                           /\ CountOfAll' = CountOfAll
  BY DEF Memory!Next, Memory!Give, Memory!TakeBack, Memory!Resize, FlatHeld, AllHeld,
    CountOfAll, Counted, BitsSet
<1>4. CASE FlatHeld' = FlatHeld
  BY <1>1, <1>2, <1>4
<1>5. ASSUME NEW x, FlatHeld' = FlatHeld \cup {x}, x \notin FlatHeld PROVE Memory!Next
  <2>1. CountOfAll' = CountOfAll + 1
    BY <1>1, <1>2, <1>5, FS_AddElement
  <2>2. x \in FlatHeld' /\ x \in Memory!Blocks \ FlatHeld /\ \A c \in FlatHeld : Memory!Apart(x, c)
    BY <1>2, <1>5
  <2> QED BY <1>3, <1>5, <2>1, <2>2
<1>6. ASSUME NEW b \in FlatHeld, FlatHeld' = FlatHeld \ {b} PROVE Memory!Next
  <2>1. CountOfAll' = CountOfAll - 1
    BY <1>1, <1>2, <1>6, FS_RemoveElement
  <2> QED BY <1>3, <1>6, <2>1
<1>7. ASSUME NEW b \in FlatHeld, NEW r \in FlatHeld', r.slab = b.slab, r.at = b.at,
             FlatHeld' = (FlatHeld \ {b}) \cup {r}
      PROVE  Memory!Next
  <2>1. r \notin FlatHeld \ {b}
    BY <1>1, <1>7
  <2>2. IsFiniteSet(FlatHeld \ {b}) /\ Cardinality(FlatHeld \ {b}) = was - 1
    BY <1>1, <1>7, FS_RemoveElement
  <2>3. Cardinality((FlatHeld \ {b}) \cup {r}) = (was - 1) + 1
    BY <2>1, <2>2, FS_AddElement
  <2>4. CountOfAll' = CountOfAll
    BY <1>1, <1>2, <1>7, <2>3
  <2>5. r \in Memory!Blocks /\ \A c \in FlatHeld \ {b} : Memory!Apart(r, c)
    BY <1>2, <1>7, <2>1
  <2> QED BY <1>3, <1>7, <2>4, <2>5
<1>8. ASSUME NEW x, FlatHeld' = FlatHeld \cup {x}, x \in FlatHeld PROVE FlatHeld' = FlatHeld
  BY <1>8
<1> QED BY <1>4, <1>5, <1>6, <1>7, <1>8 DEF FlatChanges

(* malloc, free and realloc keep BlockPool's promise in the one row of       *)
(* addresses their callers see, whatever kinds of slabs serve them and      *)
(* however those change hands; the headers of both kinds count the blocks.   *)
THEOREM MallocKeepsMemory == MallocSpec => KeepsMemory
<1>1. ASSUME MallocInit PROVE Memory!Init
  <2>1. MInv /\ AllHeld = {}
    BY <1>1, FullStart DEF FullInv
  <2>2. FlatHeld = {} /\ CountOfAll = 0
    BY <2>1, MemoryFactsHold, FS_EmptySet DEF FlatHeld, MemoryFacts
  <2> QED BY <2>2 DEF Memory!Init, FlatHeld, AllHeld, CountOfAll, Counted, BitsSet
<1>2. ASSUME FullInv, FullInv', [MallocNext]_allVars
      PROVE  UNCHANGED <<FlatHeld, CountOfAll>> \/ Memory!Next
  <2>1. MInv /\ AllChanges
    BY <1>2, FullStep DEF FullInv
  <2>2. MemoryFacts /\ FlatChanges
    BY <2>1, MemoryFactsHold, FlatChange
  <2>3. MInv'
    BY <1>2 DEF FullInv
  <2>4. MemoryFacts'
    BY <2>3, MemoryFactsHold, PTL
  <2> QED BY <2>2, <2>4, MemoryStep
<1>3. FullInv /\ FullInv' /\ [MallocNext]_allVars
        => [Memory!Next]_<<{Flat(b) : b \in held \cup large_held},
             Cardinality(UNION {{s} \X (1..alloc_cnt[s]) : s \in Slabs})
               + Cardinality({e \in Slabs \X Big!Indexes : e[2] \in block_alloc[e[1]]})>>
  BY <1>2 DEF FlatHeld, AllHeld, CountOfAll, Counted, BitsSet
<1> QED BY <1>1, <1>3, MallocInvariant, PTL DEF MallocSpec, KeepsMemory, Memory!Spec
=============================================================================
