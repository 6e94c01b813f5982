-------------------------- MODULE MediumSlabsProofs --------------------------
(***************************************************************************)
(* For any slabs, sizes and number of regions: what the header word of a   *)
(* region says of its medium and large blocks is true after any sequence   *)
(* of mallocs, merging frees and reallocs in place, its free blocks are in *)
(* the bins of their sizes, and the callers' blocks keep BlockPool's       *)
(* promise, which is that no two of them overlap.                          *)
(***************************************************************************)
EXTENDS MediumSlabs, FiniteSetTheorems, SequenceTheorems, NaturalsInduction, WellFoundedInduction, TLAPS

-----------------------------------------------------------------------------
(* A header.                                                                *)
Known(offs, bits, i) == OffsetAt(offs, i) # 0 \/ i \in bits
Vacant(offs, bits, i) == OffsetAt(offs, i) # 0 /\ i \notin bits

(* The offsets of blocks that follow each other, from the header on; only   *)
(* the last may be where the slab ends.  A free block is large enough to be *)
(* one and is not followed by another.                                      *)
Follows(offs, bits) ==
  \A i \in Indexes : Known(offs, bits, i + 1) =>
    OffsetAt(offs, i) # 0 /\ OffsetAt(offs, i) + MinMedium <= AdjOffset(offs, i + 1)

Merged(offs, bits) ==
  \A i \in Indexes : Vacant(offs, bits, i) =>
    /\ OffsetAt(offs, i) + MinMedium <= AdjOffset(offs, i + 1)
    /\ OffsetAt(offs, i + 1) # 0 => i + 1 \in bits

WellLaid(offs, bits) ==
  /\ offs \in [Indexes -> 0..(SlabSize - 1)] /\ bits \in SUBSET Indexes
  /\ OffsetAt(offs, 0) = Header
  /\ Follows(offs, bits) /\ Merged(offs, bits)

(* What a block has from its offset on: up to the next one, or to the end   *)
(* of the region.                                                           *)
Room(n, offs, bits, i) ==
  (IF Known(offs, bits, i + 1) THEN AdjOffset(offs, i + 1) ELSE n * SlabSize) - AdjOffset(offs, i)

(* The free blocks, as slab, offset and size.                               *)
FreeBlocks ==
  LET free == {e \in Ours \X Indexes : Vacant(block_offs[e[1]], block_alloc[e[1]], e[2])}
  IN {<<e[1], OffsetAt(block_offs[e[1]], e[2]),
        AdjOffset(block_offs[e[1]], e[2] + 1) - OffsetAt(block_offs[e[1]], e[2])>> : e \in free}

HeadersInv ==
  \A s \in Slabs : IF n_slabs[s] > 0 THEN WellLaid(block_offs[s], block_alloc[s]) /\ block_alloc[s] # {}
                   ELSE block_alloc[s] = {}

(* The bins hold a set of free blocks.                                      *)
BinHolds(list, z, free) ==
  /\ \A k \in DOMAIN list : <<list[k].slab, list[k].at, z>> \in free
  /\ \A f \in free : f[3] = z => \E k \in DOMAIN list : list[k] = Block(f[1], f[2])
  /\ \A j, k \in DOMAIN list : list[j] = list[k] => j = k

BinsHold(lists, marks, free) ==
  /\ lists \in [MinMedium..MaxMedium -> Seq([slab : Slabs, at : 0..(SlabSize - 1)])]
  /\ marks \in SUBSET (MinMedium..MaxMedium)
  /\ \A f \in free : f[3] \in MinMedium..MaxMedium
  /\ \A z \in MinMedium..MaxMedium :
       BinHolds(lists[z], z, free) /\ (lists[z] # <<>> => z \in marks)

BinsInv == BinsHold(mediumbins, marked, FreeBlocks)

(* The blocks that callers hold are those whose bits are set.               *)
HeldInv ==
  /\ held \in SUBSET [slab : Slabs, at : Header..SlabSize, size : Requests] /\ IsFiniteSet(held)
  /\ \A b \in held : \E i \in block_alloc[b.slab] :
       /\ b.at = AdjOffset(block_offs[b.slab], i)
       /\ b.size <= Room(n_slabs[b.slab], block_offs[b.slab], block_alloc[b.slab], i)
  /\ \A s \in Slabs : \A i \in block_alloc[s] :
       \E b \in held : b.slab = s /\ b.at = AdjOffset(block_offs[s], i)
  /\ \A b, c \in held : b.slab = c.slab /\ b.at = c.at => b = c

TypesInv ==
  /\ n_slabs \in [Slabs -> 0..MaxSlabs]
  /\ block_offs \in [Slabs -> [Indexes -> 0..(SlabSize - 1)]]
  /\ block_alloc \in [Slabs -> SUBSET Indexes]
  /\ aborted \in {"no", "assertion", "wild unlink"}

IInv == TypesInv /\ HeadersInv /\ BinsInv /\ HeldInv

-----------------------------------------------------------------------------
(* The arithmetic of the constants: as many blocks fit as a header has bits *)
(* for, and not one more.                                                   *)
LEMMA Sizes ==
  /\ SlabSize \in Nat \ {0} /\ Header \in Nat \ {0} /\ MinMedium \in Nat \ {0}
  /\ MaxSlabs \in Nat \ {0} /\ WordBits \in Nat \ {0} /\ WordBits <= MinMedium
  /\ MaxDeadweight \in 0..(MinMedium - 1)
  /\ MaxMedium \in Nat /\ MaxMedium = SlabSize - Header /\ MinMedium <= MaxMedium
  /\ Header + MinMedium <= SlabSize
BY MediumSlabsAssumption DEF MediumSlabsAssumption, MaxMedium

LEMMA Division ==
  ASSUME NEW m \in Nat, NEW d \in Nat \ {0}
  PROVE  /\ m \div d \in Nat /\ m % d \in 0..(d - 1)
         /\ m = (m \div d) * d + (m % d)
OBVIOUS

LEMMA TimesMonotone ==
  ASSUME NEW p \in Int, NEW q \in Int, NEW d \in Nat, p <= q
  PROVE  p * d \in Int /\ q * d \in Int /\ p * d <= q * d
OBVIOUS

LEMMA LastIdxBound ==
  /\ LastIdx \in Nat \ {0} /\ MaxMedium < (LastIdx + 1) * MinMedium
  /\ LastIdx * MinMedium <= MaxMedium
<1>1. /\ LastIdx \in Int /\ LastIdx >= 0 /\ MaxMedium % MinMedium \in 0..(MinMedium - 1)
      /\ MaxMedium = LastIdx * MinMedium + (MaxMedium % MinMedium)
  BY Sizes, Division DEF LastIdx
<1>2. LastIdx # 0
  BY <1>1, Sizes
<1>3. (LastIdx + 1) * MinMedium = LastIdx * MinMedium + MinMedium
  BY <1>1, Sizes
<1> QED BY <1>1, <1>2, <1>3, Sizes

(* A set of natural numbers has a least element, and what Min makes of it.   *)
LEMMA LeastExists ==
  ASSUME NEW S \in SUBSET Nat, S # {}
  PROVE  \E n \in S : \A m \in S : n <= m
<1> DEFINE before == {p \in Nat \X Nat : p[1] < p[2]}
<1>1. PICK n \in S : \A m \in S : <<m, n>> \notin before
  BY NatLessThanWellFounded, WFMin DEF OpToRel
<1>2. ASSUME NEW m \in S PROVE n <= m
  <2>1. m \in Nat /\ n \in Nat /\ <<m, n>> \in Nat \X Nat
    OBVIOUS
  <2>2. ~(m < n)
    BY <1>1, <2>1
  <2> QED BY <2>1, <2>2
<1> QED BY <1>2

LEMMA MinOfSet ==
  ASSUME NEW S \in SUBSET Nat, S # {}
  PROVE  Min(S) \in S /\ \A m \in S : Min(S) <= m
BY LeastExists DEF Min

-----------------------------------------------------------------------------
(* A header as a row of blocks.  Past its last bit there are none.           *)
LEMMA PastTheLast ==
  ASSUME NEW offs, NEW bits, WellLaid(offs, bits)
  PROVE  /\ \A i \in Nat : OffsetAt(offs, i) \in 0..(SlabSize - 1)
         /\ \A i \in Nat : i \notin Indexes => OffsetAt(offs, i) = 0 /\ i \notin bits
         /\ \A i \in Nat : i \in bits => i \in Indexes
         /\ \A i \in Nat : AdjOffset(offs, i) = IF OffsetAt(offs, i) = 0 THEN SlabSize ELSE OffsetAt(offs, i)
         /\ \A i \in Nat : i \in Indexes => OffsetAt(offs, i) = offs[i]
         /\ \A i \in Nat : AdjOffset(offs, i) \in 1..SlabSize
BY Sizes, LastIdxBound DEF WellLaid, OffsetAt, AdjOffset, Indexes

(* Each block is as far from one before it as the blocks in between are     *)
(* long, at least.                                                          *)
LEMMA Spaced ==
  ASSUME NEW offs, NEW bits, WellLaid(offs, bits), NEW i \in Nat, NEW j \in Nat,
         i <= j, Known(offs, bits, j)
  PROVE  /\ AdjOffset(offs, i) + (j - i) * MinMedium <= AdjOffset(offs, j)
         /\ i < j => OffsetAt(offs, i) # 0
<1> DEFINE P(k) == /\ AdjOffset(offs, i) + (k - i) * MinMedium <= AdjOffset(offs, k)
                   /\ i < k => OffsetAt(offs, i) # 0
           bad == {k \in Nat : i <= k /\ Known(offs, bits, k) /\ ~P(k)}
<1>1. SUFFICES ASSUME bad # {} PROVE FALSE
  OBVIOUS
<1>2. PICK k \in bad : \A m \in bad : k <= m
  BY <1>1, LeastExists
<1>3. k \in Nat /\ i <= k /\ Known(offs, bits, k)
  OBVIOUS
<1>4. \A m \in Nat : AdjOffset(offs, m) \in 1..SlabSize
  BY PastTheLast
<1>5. i # k
  <2> SUFFICES ASSUME i = k PROVE P(k)
    BY <1>2
  <2>1. (k - i) * MinMedium = 0
    BY <1>3, Sizes
  <2> QED BY <1>3, <1>4, <2>1, Sizes
<1>6. k - 1 \in Nat /\ i <= k - 1 /\ k - 1 + 1 = k
  BY <1>3, <1>5
<1>7. /\ OffsetAt(offs, k - 1) # 0 /\ AdjOffset(offs, k - 1) = OffsetAt(offs, k - 1)
      /\ OffsetAt(offs, k - 1) + MinMedium <= AdjOffset(offs, k)
  <2>1. k \in Indexes
    BY <1>3, PastTheLast DEF Known
  <2>2. k - 1 \in Indexes
    BY <2>1, <1>6, LastIdxBound DEF Indexes
  <2> QED BY <1>3, <1>6, <2>2, PastTheLast DEF WellLaid, Follows
<1>8. P(k - 1)
  <2>1. k - 1 \notin bad
    BY <1>2, <1>3, <1>6
  <2> QED BY <2>1, <1>6, <1>7 DEF Known
<1>9. P(k)
  <2>1. (k - i) * MinMedium = (k - 1 - i) * MinMedium + MinMedium
    <3> DEFINE d == k - 1 - i
    <3>1. d \in Int /\ k - i = d + 1
      BY <1>6
    <3> HIDE DEF d
    <3>2. (d + 1) * MinMedium = d * MinMedium + MinMedium
      BY <3>1, Sizes
    <3> QED BY <3>1, <3>2 DEF d
  <2> DEFINE before == (k - 1 - i) * MinMedium
  <2>2. before \in Int
    BY <1>6, Sizes
  <2>3. AdjOffset(offs, i) + before <= AdjOffset(offs, k - 1)
    BY <1>8
  <2> HIDE DEF before
  <2>4. AdjOffset(offs, i) + (before + MinMedium) <= AdjOffset(offs, k)
    BY <2>2, <2>3, <1>4, <1>6, <1>7, <1>3, Sizes
  <2>5. i < k => OffsetAt(offs, i) # 0
    <3>1. CASE i = k - 1
      BY <3>1, <1>7
    <3>2. CASE i < k - 1
      BY <3>2, <1>8
    <3> QED BY <3>1, <3>2, <1>6
  <2> QED BY <2>1, <2>4, <2>5 DEF before
<1> QED BY <1>2, <1>9

(* What the other lemmas use of it.                                          *)
InOrder(offs, bits) ==
  /\ \A j \in Nat : Known(offs, bits, j) =>
       /\ j \in Indexes /\ j <= LastIdx
       /\ Header <= AdjOffset(offs, j) /\ AdjOffset(offs, j) <= SlabSize
  /\ \A i, j \in Nat : Known(offs, bits, j) /\ i < j =>
       /\ OffsetAt(offs, i) # 0 /\ AdjOffset(offs, i) = OffsetAt(offs, i)
       /\ AdjOffset(offs, i) + MinMedium <= AdjOffset(offs, i + 1)
       /\ AdjOffset(offs, i + 1) <= AdjOffset(offs, j)
       /\ Known(offs, bits, i) /\ Known(offs, bits, i + 1)

LEMMA Ascending ==
  ASSUME NEW offs, NEW bits, WellLaid(offs, bits)
  PROVE  InOrder(offs, bits)
<1>1. \A m \in Nat : AdjOffset(offs, m) \in 1..SlabSize
  BY PastTheLast
<1>2. ASSUME NEW j \in Nat, Known(offs, bits, j)
      PROVE  /\ j \in Indexes /\ j <= LastIdx
             /\ Header <= AdjOffset(offs, j) /\ AdjOffset(offs, j) <= SlabSize
  <2>1. j \in Indexes
    BY <1>2, PastTheLast DEF Known
  <2>2. AdjOffset(offs, 0) = Header
    BY PastTheLast, Sizes DEF WellLaid
  <2>3. AdjOffset(offs, 0) + (j - 0) * MinMedium <= AdjOffset(offs, j)
    BY <1>2, Spaced
  <2>4. (j - 0) * MinMedium \in Nat
    BY Sizes
  <2> QED BY <2>1, <2>2, <2>3, <2>4, <1>1, Sizes, LastIdxBound DEF Indexes
<1>3. ASSUME NEW i \in Nat, NEW j \in Nat, Known(offs, bits, j), i < j
      PROVE  /\ OffsetAt(offs, i) # 0 /\ AdjOffset(offs, i) = OffsetAt(offs, i)
             /\ AdjOffset(offs, i) + MinMedium <= AdjOffset(offs, i + 1)
             /\ AdjOffset(offs, i + 1) <= AdjOffset(offs, j)
             /\ Known(offs, bits, i) /\ Known(offs, bits, i + 1)
  <2>1. OffsetAt(offs, i) # 0
    BY <1>3, Spaced
  <2>2. Known(offs, bits, i) /\ Known(offs, bits, i + 1)
    <3>1. CASE i + 1 = j
      BY <3>1, <2>1, <1>3 DEF Known
    <3>2. CASE i + 1 < j
      <4>1. OffsetAt(offs, i + 1) # 0
        BY <1>3, <3>2, Spaced
      <4> QED BY <4>1, <2>1 DEF Known
    <3> QED BY <3>1, <3>2, <1>3
  <2>3. AdjOffset(offs, i) + MinMedium <= AdjOffset(offs, i + 1)
    <3>1. AdjOffset(offs, i) + (i + 1 - i) * MinMedium <= AdjOffset(offs, i + 1)
      BY <2>2, Spaced
    <3>2. (i + 1 - i) * MinMedium = MinMedium
      BY Sizes
    <3> QED BY <3>1, <3>2
  <2>4. AdjOffset(offs, i + 1) <= AdjOffset(offs, j)
    <3>1. AdjOffset(offs, i + 1) + (j - (i + 1)) * MinMedium <= AdjOffset(offs, j)
      BY <1>3, Spaced
    <3>2. (j - (i + 1)) * MinMedium \in Nat
      BY <1>3, Sizes
    <3> QED BY <3>1, <3>2, <1>1
  <2> QED BY <2>1, <2>2, <2>3, <2>4, PastTheLast
<1> QED BY <1>2, <1>3 DEF InOrder

(* A block that is long enough for two leaves a header its last bit.         *)
LEMMA RoomForOneMore ==
  ASSUME NEW offs, NEW bits, WellLaid(offs, bits), NEW i \in Nat, Known(offs, bits, i),
         AdjOffset(offs, i) + MinMedium + MinMedium <= AdjOffset(offs, i + 1)
  PROVE  i < LastIdx /\ ~Known(offs, bits, LastIdx)
<1>1. /\ \A m \in Nat : AdjOffset(offs, m) \in 1..SlabSize
      /\ AdjOffset(offs, 0) = Header
  BY PastTheLast, Sizes DEF WellLaid
<1>2. ASSUME NEW j \in Nat, i <= j, Known(offs, bits, j), NEW up \in Nat, up <= SlabSize,
             AdjOffset(offs, i + 1) + (j - i) * MinMedium <= up + MinMedium
      PROVE  j < LastIdx
  <2>1. AdjOffset(offs, 0) + (i - 0) * MinMedium <= AdjOffset(offs, i)
    BY Spaced
  <2> DEFINE low == i * MinMedium
             high == (j - i) * MinMedium
             all == j * MinMedium
  <2>2. low \in Nat /\ high \in Nat /\ all \in Nat /\ all = low + high /\ i - 0 = i
    <3> DEFINE e == j - i
    <3>1. e \in Nat /\ j = i + e
      BY <1>2
    <3> HIDE DEF e
    <3>2. (i + e) * MinMedium = i * MinMedium + e * MinMedium /\ i * MinMedium \in Nat /\ e * MinMedium \in Nat
      BY <3>1, Sizes
    <3> QED BY <3>1, <3>2 DEF e
  <2>3. AdjOffset(offs, i + 1) + high <= up + MinMedium
    BY <1>2
  <2>4. Header + low <= AdjOffset(offs, i)
    BY <2>1, <2>2, <1>1
  <2> HIDE DEF low, high
  <2>5. Header + all + MinMedium <= SlabSize
    BY <2>2, <2>3, <2>4, <1>1, <1>2, Sizes
  <2>6. all + MinMedium = (j + 1) * MinMedium
    BY Sizes
  <2>7. (j + 1) * MinMedium <= MaxMedium
    BY <2>2, <2>5, <2>6, Sizes
  <2> HIDE DEF all
  <2>8. CASE LastIdx + 1 <= j + 1
    <3>1. (LastIdx + 1) * MinMedium <= (j + 1) * MinMedium
      BY <2>8, LastIdxBound, TimesMonotone, Sizes
    <3>2. (LastIdx + 1) * MinMedium \in Int /\ (j + 1) * MinMedium \in Int
      BY LastIdxBound, Sizes
    <3> QED BY <3>1, <3>2, <2>7, LastIdxBound, Sizes
  <2> QED BY <2>8, LastIdxBound
<1>3. i < LastIdx
  <2>1. (i - i) * MinMedium = 0
    BY Sizes
  <2>2. AdjOffset(offs, i + 1) \in 1..SlabSize
    BY <1>1
  <2>3. AdjOffset(offs, i + 1) + (i - i) * MinMedium <= SlabSize + MinMedium
    BY <2>1, <2>2, Sizes
  <2>4. SlabSize \in Nat /\ SlabSize <= SlabSize
    BY Sizes
  <2> QED BY <1>2, <2>3, <2>4
<1>4. ASSUME Known(offs, bits, LastIdx) PROVE FALSE
  <2>1. AdjOffset(offs, i + 1) + (LastIdx - (i + 1)) * MinMedium <= AdjOffset(offs, LastIdx)
    BY <1>3, <1>4, Spaced, LastIdxBound
  <2>2. (LastIdx - i) * MinMedium = (LastIdx - (i + 1)) * MinMedium + MinMedium
    <3> DEFINE e == LastIdx - (i + 1)
    <3>1. e \in Int /\ LastIdx - i = e + 1
      BY LastIdxBound
    <3> HIDE DEF e
    <3>2. (e + 1) * MinMedium = e * MinMedium + MinMedium
      BY <3>1, Sizes
    <3> QED BY <3>1, <3>2 DEF e
  <2>3. (LastIdx - (i + 1)) * MinMedium \in Int /\ LastIdx \in Nat
    BY LastIdxBound, Sizes
  <2>4. AdjOffset(offs, i + 1) + (LastIdx - i) * MinMedium <= AdjOffset(offs, LastIdx) + MinMedium
    BY <2>1, <2>2, <2>3, <1>1, Sizes
  <2>5. AdjOffset(offs, LastIdx) \in Nat /\ AdjOffset(offs, LastIdx) <= SlabSize
    BY <1>1, <2>3, Sizes
  <2> QED BY <1>2, <1>3, <1>4, <2>3, <2>4, <2>5
<1> QED BY <1>3, <1>4

-----------------------------------------------------------------------------
(* What an operation makes of a header: the blocks before p are the same,   *)
(* those from q on are d further on, and those in between are replaced by   *)
(* the ones from p to q + d.                                                *)
Shift(offs, bits, offs2, bits2, p, q, d) ==
  /\ p \in Nat /\ q \in Nat /\ d \in Int /\ p <= q /\ p <= q + d
  /\ offs2 \in [Indexes -> 0..(SlabSize - 1)] /\ bits2 \in SUBSET Indexes
  /\ \A j \in Nat : j < p =>
       /\ OffsetAt(offs2, j) = OffsetAt(offs, j)
       /\ j \in bits2 <=> j \in bits
  /\ \A j \in Nat : q <= j =>
       /\ OffsetAt(offs2, j + d) = OffsetAt(offs, j)
       /\ j + d \in bits2 <=> j \in bits

(* The block at i is as a header requires.                                   *)
Fits(offs, bits, i) ==
  /\ Known(offs, bits, i + 1) =>
       OffsetAt(offs, i) # 0 /\ OffsetAt(offs, i) + MinMedium <= AdjOffset(offs, i + 1)
  /\ Vacant(offs, bits, i) =>
       /\ OffsetAt(offs, i) + MinMedium <= AdjOffset(offs, i + 1)
       /\ OffsetAt(offs, i + 1) # 0 => i + 1 \in bits

LEMMA WellLaidFits ==
  ASSUME NEW offs, NEW bits, WellLaid(offs, bits)
  PROVE  \A i \in Nat : Fits(offs, bits, i)
<1> SUFFICES ASSUME NEW i \in Nat PROVE Fits(offs, bits, i)
  OBVIOUS
<1>1. CASE i \in Indexes
  BY <1>1 DEF WellLaid, Follows, Merged, Fits
<1>2. CASE i \notin Indexes
  <2>1. i + 1 \in Nat /\ i + 1 \notin Indexes
    BY <1>2, LastIdxBound DEF Indexes
  <2>2. ~Known(offs, bits, i) /\ ~Known(offs, bits, i + 1)
    BY <1>2, <2>1, PastTheLast DEF Known
  <2> QED BY <2>2 DEF Fits, Known, Vacant
<1> QED BY <1>1, <1>2

(* A number that a byte can hold is what it is; SlabSize is held as 0.       *)
LEMMA ByteOf ==
  ASSUME NEW off \in 0..SlabSize
  PROVE  Byte(off) = IF off = SlabSize THEN 0 ELSE off
BY Sizes DEF Byte

LEMMA OffsetOf ==
  ASSUME NEW offs \in [Indexes -> 0..(SlabSize - 1)], NEW i \in Nat
  PROVE  /\ OffsetAt(offs, i) \in 0..(SlabSize - 1)
         /\ i \in Indexes => OffsetAt(offs, i) = offs[i]
         /\ i \notin Indexes => OffsetAt(offs, i) = 0
         /\ AdjOffset(offs, i) = IF OffsetAt(offs, i) = 0 THEN SlabSize ELSE OffsetAt(offs, i)
BY Sizes, LastIdxBound DEF OffsetAt, AdjOffset, Indexes

LEMMA ShiftedOffsets ==
  ASSUME NEW offs, NEW bits, NEW offs2, NEW bits2, NEW p, NEW q, NEW d,
         WellLaid(offs, bits), Shift(offs, bits, offs2, bits2, p, q, d)
  PROVE  /\ \A j \in Nat : j < p =>
              /\ OffsetAt(offs2, j) = OffsetAt(offs, j)
              /\ AdjOffset(offs2, j) = AdjOffset(offs, j)
              /\ j \in bits2 <=> j \in bits
              /\ Known(offs2, bits2, j) <=> Known(offs, bits, j)
              /\ Vacant(offs2, bits2, j) <=> Vacant(offs, bits, j)
         /\ \A j \in Nat : q <= j =>
              /\ j + d \in Nat
              /\ OffsetAt(offs2, j + d) = OffsetAt(offs, j)
              /\ AdjOffset(offs2, j + d) = AdjOffset(offs, j)
              /\ j + d \in bits2 <=> j \in bits
              /\ Known(offs2, bits2, j + d) <=> Known(offs, bits, j)
              /\ Vacant(offs2, bits2, j + d) <=> Vacant(offs, bits, j)
         /\ \A k \in Nat : q + d <= k => k - d \in Nat /\ q <= k - d /\ (k - d) + d = k
<1>1. /\ p \in Nat /\ q \in Nat /\ d \in Int /\ p <= q /\ p <= q + d
      /\ offs2 \in [Indexes -> 0..(SlabSize - 1)] /\ offs \in [Indexes -> 0..(SlabSize - 1)]
  BY DEF Shift, WellLaid
<1>2. ASSUME NEW j \in Nat, j < p
      PROVE  /\ OffsetAt(offs2, j) = OffsetAt(offs, j)
             /\ AdjOffset(offs2, j) = AdjOffset(offs, j)
             /\ j \in bits2 <=> j \in bits
             /\ Known(offs2, bits2, j) <=> Known(offs, bits, j)
             /\ Vacant(offs2, bits2, j) <=> Vacant(offs, bits, j)
  <2>1. OffsetAt(offs2, j) = OffsetAt(offs, j) /\ (j \in bits2 <=> j \in bits)
    BY <1>2 DEF Shift
  <2> QED BY <1>1, <2>1, OffsetOf DEF Known, Vacant
<1>3. ASSUME NEW j \in Nat, q <= j
      PROVE  /\ j + d \in Nat
             /\ OffsetAt(offs2, j + d) = OffsetAt(offs, j)
             /\ AdjOffset(offs2, j + d) = AdjOffset(offs, j)
             /\ j + d \in bits2 <=> j \in bits
             /\ Known(offs2, bits2, j + d) <=> Known(offs, bits, j)
             /\ Vacant(offs2, bits2, j + d) <=> Vacant(offs, bits, j)
  <2>1. OffsetAt(offs2, j + d) = OffsetAt(offs, j) /\ (j + d \in bits2 <=> j \in bits)
    BY <1>3 DEF Shift
  <2>2. j + d \in Nat
    BY <1>1, <1>3
  <2> QED BY <1>1, <2>1, <2>2, OffsetOf DEF Known, Vacant
<1>4. \A k \in Nat : q + d <= k => k - d \in Nat /\ q <= k - d /\ (k - d) + d = k
  BY <1>1
<1> QED BY <1>2, <1>3, <1>4

(* If the new blocks and the one before them fit, so do all.                 *)
LEMMA ShiftedFits ==
  ASSUME NEW offs, NEW bits, NEW offs2, NEW bits2, NEW p, NEW q, NEW d,
         WellLaid(offs, bits), Shift(offs, bits, offs2, bits2, p, q, d),
         OffsetAt(offs2, 0) = Header,
         \A i \in Nat : p - 1 <= i /\ i < q + d => Fits(offs2, bits2, i)
  PROVE  WellLaid(offs2, bits2)
<1>1. /\ p \in Nat /\ q \in Nat /\ d \in Int /\ p <= q /\ p <= q + d
      /\ offs2 \in [Indexes -> 0..(SlabSize - 1)] /\ bits2 \in SUBSET Indexes
  BY DEF Shift
<1>2. ASSUME NEW i \in Nat PROVE Fits(offs2, bits2, i)
  <2>1. CASE i + 1 < p
    <3>1. /\ OffsetAt(offs2, i) = OffsetAt(offs, i)
          /\ OffsetAt(offs2, i + 1) = OffsetAt(offs, i + 1) /\ (i + 1 \in bits2 <=> i + 1 \in bits)
      BY <2>1, <1>1 DEF Shift
    <3>2. /\ AdjOffset(offs2, i + 1) = AdjOffset(offs, i + 1)
          /\ Known(offs2, bits2, i + 1) <=> Known(offs, bits, i + 1)
          /\ Vacant(offs2, bits2, i) <=> Vacant(offs, bits, i)
      BY <2>1, <1>1, ShiftedOffsets
    <3>3. Fits(offs, bits, i)
      BY WellLaidFits
    <3> QED BY <3>1, <3>2, <3>3 DEF Fits
  <2>2. CASE q + d <= i
    <3> DEFINE k == i - d
    <3>1. k \in Nat /\ q <= k /\ k + d = i /\ q <= k + 1 /\ k + 1 + d = i + 1 /\ k + 1 \in Nat
      BY <2>2, <1>1
    <3> HIDE DEF k
    <3>2. /\ OffsetAt(offs2, k + d) = OffsetAt(offs, k)
          /\ OffsetAt(offs2, k + 1 + d) = OffsetAt(offs, k + 1) /\ (k + 1 + d \in bits2 <=> k + 1 \in bits)
      BY <3>1, <1>1 DEF Shift
    <3>3. /\ AdjOffset(offs2, k + 1 + d) = AdjOffset(offs, k + 1)
          /\ Known(offs2, bits2, k + 1 + d) <=> Known(offs, bits, k + 1)
          /\ Vacant(offs2, bits2, k + d) <=> Vacant(offs, bits, k)
      BY <3>1, <1>1, ShiftedOffsets
    <3>4. Fits(offs, bits, k)
      BY <3>1, WellLaidFits
    <3> QED BY <3>1, <3>2, <3>3, <3>4 DEF Fits
  <2> QED BY <2>1, <2>2, <1>1
<1>3. Indexes \subseteq Nat
  BY LastIdxBound DEF Indexes
<1> QED BY <1>1, <1>2, <1>3 DEF WellLaid, Fits, Follows, Merged

(* The free blocks of a header; what a caller's block has become.            *)
VacantAt(offs, bits, at, size) ==
  \E i \in Indexes : /\ Vacant(offs, bits, i) /\ OffsetAt(offs, i) = at
                     /\ AdjOffset(offs, i + 1) - OffsetAt(offs, i) = size

VacantBut(offs, bits, p, q, at, size) ==
  \E i \in Nat : /\ i < p \/ q <= i
                 /\ Vacant(offs, bits, i) /\ OffsetAt(offs, i) = at
                 /\ AdjOffset(offs, i + 1) - OffsetAt(offs, i) = size

VacantIn(offs, bits, p, r, at, size) ==
  \E i \in Nat : /\ p <= i /\ i < r
                 /\ Vacant(offs, bits, i) /\ OffsetAt(offs, i) = at
                 /\ AdjOffset(offs, i + 1) - OffsetAt(offs, i) = size

Keeps(n, offs, bits, n2, offs2, bits2, at) ==
  /\ \A i \in bits : AdjOffset(offs, i) # at =>
       \E j \in bits2 : /\ AdjOffset(offs2, j) = AdjOffset(offs, i)
                        /\ Room(n, offs, bits, i) <= Room(n2, offs2, bits2, j)
  /\ \A j \in bits2 : AdjOffset(offs2, j) # at =>
       \E i \in bits : AdjOffset(offs, i) = AdjOffset(offs2, j)

Has(n, offs, bits, at, size) ==
  \E i \in bits : AdjOffset(offs, i) = at /\ size <= Room(n, offs, bits, i)

(* The free blocks are those that were, but for the ones that have been      *)
(* replaced, and the new ones.                                              *)
LEMMA ShiftedVacant ==
  ASSUME NEW offs, NEW bits, NEW offs2, NEW bits2, NEW p, NEW q, NEW d,
         WellLaid(offs, bits), WellLaid(offs2, bits2), Shift(offs, bits, offs2, bits2, p, q, d),
         p > 0 => AdjOffset(offs2, p) = AdjOffset(offs, p) \/ p - 1 \in bits,
         NEW at, NEW size
  PROVE  VacantAt(offs2, bits2, at, size) <=>
           \/ VacantBut(offs, bits, p, q, at, size)
           \/ VacantIn(offs2, bits2, p, q + d, at, size)
<1>1. /\ p \in Nat /\ q \in Nat /\ d \in Int /\ p <= q /\ p <= q + d
  BY DEF Shift
<1>2. ASSUME NEW i \in Nat, i < p, Vacant(offs, bits, i)
      PROVE  /\ Vacant(offs2, bits2, i) /\ OffsetAt(offs2, i) = OffsetAt(offs, i)
             /\ AdjOffset(offs2, i + 1) = AdjOffset(offs, i + 1)
  <2>1. Vacant(offs2, bits2, i) /\ OffsetAt(offs2, i) = OffsetAt(offs, i)
    BY <1>2, ShiftedOffsets
  <2>2. CASE i + 1 < p
    BY <2>1, <2>2, ShiftedOffsets
  <2>3. CASE i + 1 = p
    <3>1. i \notin bits /\ p > 0 /\ p - 1 = i
      BY <1>2, <2>3 DEF Vacant
    <3> QED BY <2>1, <3>1, <2>3
  <2> QED BY <2>2, <2>3, <1>1, <1>2
<1>3. ASSUME NEW i \in Nat, q <= i, Vacant(offs, bits, i)
      PROVE  /\ i + d \in Nat /\ Vacant(offs2, bits2, i + d) /\ OffsetAt(offs2, i + d) = OffsetAt(offs, i)
             /\ AdjOffset(offs2, i + d + 1) = AdjOffset(offs, i + 1)
  <2>1. /\ i + d \in Nat /\ Vacant(offs2, bits2, i + d)
        /\ OffsetAt(offs2, i + d) = OffsetAt(offs, i)
    BY <1>3, ShiftedOffsets
  <2>2. i + 1 \in Nat /\ q <= i + 1 /\ i + 1 + d = i + d + 1
    BY <1>1, <1>3
  <2>3. AdjOffset(offs2, i + 1 + d) = AdjOffset(offs, i + 1)
    BY <2>2, ShiftedOffsets
  <2> QED BY <2>1, <2>2, <2>3
<1>4. ASSUME NEW i \in Nat, i < p, Vacant(offs2, bits2, i)
      PROVE  /\ Vacant(offs, bits, i) /\ OffsetAt(offs2, i) = OffsetAt(offs, i)
             /\ AdjOffset(offs2, i + 1) = AdjOffset(offs, i + 1)
  <2>1. Vacant(offs, bits, i)
    BY <1>4, ShiftedOffsets
  <2> QED BY <2>1, <1>2, <1>4
<1>5. ASSUME NEW k \in Nat, q + d <= k, Vacant(offs2, bits2, k)
      PROVE  \E i \in Nat : /\ q <= i /\ Vacant(offs, bits, i) /\ OffsetAt(offs2, k) = OffsetAt(offs, i)
                            /\ AdjOffset(offs2, k + 1) = AdjOffset(offs, i + 1)
  <2>1. k - d \in Nat /\ q <= k - d /\ (k - d) + d = k
    BY <1>5, ShiftedOffsets
  <2> DEFINE i == k - d
  <2>2. i \in Nat /\ q <= i /\ i + d = k
    BY <2>1
  <2> HIDE DEF i
  <2>3. Vacant(offs, bits, i)
    BY <2>2, <1>5, ShiftedOffsets
  <2> QED BY <2>2, <2>3, <1>3
<1>6. /\ Indexes \subseteq Nat
      /\ \A i \in Nat : Vacant(offs, bits, i) => i \in Indexes
      /\ \A i \in Nat : Vacant(offs2, bits2, i) => i \in Indexes
  BY PastTheLast, LastIdxBound DEF Indexes, Vacant
<1>7. ASSUME VacantAt(offs2, bits2, at, size)
      PROVE  \/ \E i \in Nat : /\ i < p \/ q <= i
                               /\ Vacant(offs, bits, i) /\ OffsetAt(offs, i) = at
                               /\ AdjOffset(offs, i + 1) - OffsetAt(offs, i) = size
             \/ \E i \in Nat : /\ p <= i /\ i < q + d
                               /\ Vacant(offs2, bits2, i) /\ OffsetAt(offs2, i) = at
                               /\ AdjOffset(offs2, i + 1) - OffsetAt(offs2, i) = size
  <2>1. PICK k \in Nat : /\ Vacant(offs2, bits2, k) /\ OffsetAt(offs2, k) = at
                         /\ AdjOffset(offs2, k + 1) - OffsetAt(offs2, k) = size
    BY <1>6, <1>7 DEF VacantAt
  <2>2. CASE k < p
    BY <2>1, <2>2, <1>4
  <2>3. CASE p <= k /\ k < q + d
    BY <2>1, <2>3
  <2>4. CASE q + d <= k
    <3>1. PICK i \in Nat : /\ q <= i /\ Vacant(offs, bits, i) /\ OffsetAt(offs2, k) = OffsetAt(offs, i)
                            /\ AdjOffset(offs2, k + 1) = AdjOffset(offs, i + 1)
      BY <2>1, <2>4, <1>5
    <3> QED BY <2>1, <3>1
  <2> QED BY <2>2, <2>3, <2>4, <1>1
<1>8. ASSUME NEW i \in Nat, i < p \/ q <= i, Vacant(offs, bits, i), OffsetAt(offs, i) = at,
             AdjOffset(offs, i + 1) - OffsetAt(offs, i) = size
      PROVE  VacantAt(offs2, bits2, at, size)
  <2>1. CASE i < p
    BY <2>1, <1>8, <1>2, <1>6 DEF VacantAt
  <2>2. CASE q <= i
    <3>1. /\ i + d \in Nat /\ Vacant(offs2, bits2, i + d) /\ OffsetAt(offs2, i + d) = at
          /\ AdjOffset(offs2, i + d + 1) - OffsetAt(offs2, i + d) = size
      BY <2>2, <1>3, <1>8
    <3> QED BY <3>1, <1>6 DEF VacantAt
  <2> QED BY <2>1, <2>2, <1>8
<1>9. ASSUME NEW i \in Nat, Vacant(offs2, bits2, i), OffsetAt(offs2, i) = at,
             AdjOffset(offs2, i + 1) - OffsetAt(offs2, i) = size
      PROVE  VacantAt(offs2, bits2, at, size)
  BY <1>6, <1>9 DEF VacantAt
<1> QED BY <1>7, <1>8, <1>9 DEF VacantBut, VacantIn

(* A caller's block stays where it was, and has no less than it had.         *)
LEMMA ShiftedKeeps ==
  ASSUME NEW offs, NEW bits, NEW offs2, NEW bits2, NEW p, NEW q, NEW d,
         WellLaid(offs, bits), WellLaid(offs2, bits2), Shift(offs, bits, offs2, bits2, p, q, d),
         NEW n \in Nat \ {0}, NEW n2 \in Nat \ {0}, NEW at,
         n <= n2 \/ ~Known(offs, bits, q), Known(offs, bits, p),
         \/ p = 0
         \/ AdjOffset(offs, p - 1) = at
         \/ ~Known(offs2, bits2, p)
         \/ AdjOffset(offs, p) <= AdjOffset(offs2, p),
         \A i \in Nat : p <= i /\ i < q /\ i \in bits => AdjOffset(offs, i) = at,
         \A i \in Nat : p <= i /\ i < q + d /\ i \in bits2 => AdjOffset(offs2, i) = at
  PROVE  Keeps(n, offs, bits, n2, offs2, bits2, at)
<1>1. /\ p \in Nat /\ q \in Nat /\ d \in Int /\ p <= q /\ p <= q + d
      /\ bits \in SUBSET Indexes /\ bits2 \in SUBSET Indexes /\ Indexes \subseteq Nat
  BY LastIdxBound DEF Shift, WellLaid, Indexes
<1>2. /\ \A m \in Nat : AdjOffset(offs, m) \in 1..SlabSize
      /\ \A m \in Nat : AdjOffset(offs2, m) \in 1..SlabSize
  BY PastTheLast
<1>3. /\ n * SlabSize \in Nat /\ n2 * SlabSize \in Nat /\ SlabSize <= n2 * SlabSize
      /\ n <= n2 => n * SlabSize <= n2 * SlabSize
  <2>1. 1 * SlabSize <= n2 * SlabSize
    BY Sizes, TimesMonotone
  <2> QED BY <2>1, Sizes, TimesMonotone
<1>4. ASSUME NEW i \in bits, AdjOffset(offs, i) # at
      PROVE  \E j \in bits2 : /\ AdjOffset(offs2, j) = AdjOffset(offs, i)
                              /\ Room(n, offs, bits, i) <= Room(n2, offs2, bits2, j)
  <2>1. CASE i < p
    <3>1. i \in bits2 /\ AdjOffset(offs2, i) = AdjOffset(offs, i)
      BY <1>1, <2>1, ShiftedOffsets
    <3>2. Known(offs, bits, i + 1)
      <4>1. CASE i + 1 = p
        BY <4>1
      <4>2. CASE i + 1 < p
        BY <4>2, <1>1, Ascending DEF InOrder
      <4> QED BY <4>1, <4>2, <2>1, <1>1
    <3>3. CASE i + 1 < p
      <4>1. /\ AdjOffset(offs2, i + 1) = AdjOffset(offs, i + 1)
            /\ Known(offs2, bits2, i + 1)
        BY <1>1, <3>2, <3>3, ShiftedOffsets
      <4> QED BY <3>1, <3>2, <4>1, <1>1, <1>2 DEF Room
    <3>4. CASE i + 1 = p
      <4>1. p - 1 = i /\ p # 0
        BY <3>4, <1>1
      <4>2. CASE ~Known(offs2, bits2, p)
        <5>1. /\ Room(n, offs, bits, i) = AdjOffset(offs, p) - AdjOffset(offs, i)
              /\ Room(n2, offs2, bits2, i) = n2 * SlabSize - AdjOffset(offs2, i)
          BY <3>2, <3>4, <4>2 DEF Room
        <5>2. AdjOffset(offs, p) <= n2 * SlabSize
          BY <1>1, <1>2, <1>3, Sizes
        <5> QED BY <3>1, <5>1, <5>2, <1>1, <1>2, <1>3
      <4>3. CASE Known(offs2, bits2, p)
        <5>1. AdjOffset(offs, p) <= AdjOffset(offs2, p)
          BY <4>1, <4>3, <1>4
        <5>2. /\ Room(n, offs, bits, i) = AdjOffset(offs, p) - AdjOffset(offs, i)
              /\ Room(n2, offs2, bits2, i) = AdjOffset(offs2, p) - AdjOffset(offs2, i)
          BY <3>2, <3>4, <4>3 DEF Room
        <5> QED BY <3>1, <5>1, <5>2, <1>1, <1>2
      <4> QED BY <4>2, <4>3
    <3> QED BY <3>3, <3>4, <2>1, <1>1
  <2>2. CASE q <= i
    <3>1. i \in Nat /\ i + 1 \in Nat /\ q <= i + 1 /\ i + 1 + d = i + d + 1
      BY <1>1, <2>2
    <3>2. i + d \in bits2 /\ i + d \in Nat /\ AdjOffset(offs2, i + d) = AdjOffset(offs, i)
      BY <2>2, <3>1, ShiftedOffsets
    <3>3. /\ Known(offs2, bits2, i + d + 1) <=> Known(offs, bits, i + 1)
          /\ AdjOffset(offs2, i + d + 1) = AdjOffset(offs, i + 1)
      <4>1. /\ Known(offs2, bits2, i + 1 + d) <=> Known(offs, bits, i + 1)
            /\ AdjOffset(offs2, i + 1 + d) = AdjOffset(offs, i + 1)
        BY <3>1, ShiftedOffsets
      <4> QED BY <3>1, <4>1
    <3>4. n <= n2
      <4>1. Known(offs, bits, i)
        BY DEF Known
      <4>2. Known(offs, bits, q)
        <5>1. CASE q = i
          BY <4>1, <5>1
        <5>2. CASE q < i
          BY <4>1, <5>2, <3>1, <1>1, Ascending DEF InOrder
        <5> QED BY <5>1, <5>2, <2>2, <1>1
      <4> QED BY <4>2
    <3>5. Room(n, offs, bits, i) <= Room(n2, offs2, bits2, i + d)
      <4> USE DEF Room
      <4>1. CASE Known(offs, bits, i + 1)
        BY <4>1, <3>1, <3>2, <3>3, <1>2
      <4>2. CASE ~Known(offs, bits, i + 1)
        BY <4>2, <3>1, <3>2, <3>3, <3>4, <1>2, <1>3
      <4> QED BY <4>1, <4>2
    <3> QED BY <3>2, <3>5
  <2> QED BY <2>1, <2>2, <1>1, <1>4
<1>5. ASSUME NEW j \in bits2, AdjOffset(offs2, j) # at
      PROVE  \E i \in bits : AdjOffset(offs, i) = AdjOffset(offs2, j)
  <2>1. CASE j < p
    BY <2>1, <1>1, ShiftedOffsets
  <2>2. CASE q + d <= j
    <3>1. j - d \in Nat /\ q <= j - d /\ (j - d) + d = j
      BY <2>2, <1>1, ShiftedOffsets
    <3> DEFINE i == j - d
    <3>2. i \in Nat /\ q <= i /\ i + d = j
      BY <3>1
    <3> HIDE DEF i
    <3>3. i \in bits /\ AdjOffset(offs2, i + d) = AdjOffset(offs, i)
      BY <3>2, ShiftedOffsets
    <3> QED BY <3>2, <3>3
  <2> QED BY <2>1, <2>2, <1>1, <1>5
<1> QED BY <1>4, <1>5 DEF Keeps

LEMMA Distinct ==
  ASSUME NEW offs, NEW bits, WellLaid(offs, bits), NEW i \in Nat, NEW j \in Nat,
         Known(offs, bits, i), Known(offs, bits, j), AdjOffset(offs, i) = AdjOffset(offs, j)
  PROVE  i = j
<1>1. InOrder(offs, bits) /\ \A m \in Nat : AdjOffset(offs, m) \in 1..SlabSize
  BY Ascending, PastTheLast
<1>2. ASSUME NEW k \in Nat, NEW m \in Nat, Known(offs, bits, m), k < m
      PROVE  AdjOffset(offs, k) < AdjOffset(offs, m)
  BY <1>1, <1>2, Sizes DEF InOrder
<1>3. ~(i < j) /\ ~(j < i)
  BY <1>1, <1>2
<1> QED BY <1>3

(* A free block is where nothing else is.                                    *)
LEMMA VacantElsewhere ==
  ASSUME NEW offs, NEW bits, WellLaid(offs, bits), NEW p \in Nat, NEW q \in Nat, NEW at, NEW size,
         \A k \in Nat : p <= k /\ k < q => Known(offs, bits, k)
  PROVE  VacantBut(offs, bits, p, q, at, size)
         <=> /\ VacantAt(offs, bits, at, size)
             /\ \A k \in Nat : p <= k /\ k < q => AdjOffset(offs, k) # at
<1>1. /\ \A i \in Nat : Vacant(offs, bits, i) => /\ i \in Indexes /\ Known(offs, bits, i)
                                                  /\ OffsetAt(offs, i) = AdjOffset(offs, i)
      /\ Indexes \subseteq Nat
  BY PastTheLast, LastIdxBound DEF Vacant, Known, Indexes
<1>2. ASSUME NEW i \in Nat, i < p \/ q <= i, Vacant(offs, bits, i), OffsetAt(offs, i) = at,
             AdjOffset(offs, i + 1) - OffsetAt(offs, i) = size
      PROVE  /\ VacantAt(offs, bits, at, size)
             /\ \A k \in Nat : p <= k /\ k < q => AdjOffset(offs, k) # at
  <2>1. VacantAt(offs, bits, at, size)
    BY <1>1, <1>2 DEF VacantAt
  <2>2. ASSUME NEW k \in Nat, p <= k, k < q, AdjOffset(offs, k) = at PROVE FALSE
    <3>1. i = k
      BY <1>1, <1>2, <2>2, Distinct
    <3> QED BY <3>1, <2>2, <1>2
  <2> QED BY <2>1, <2>2
<1>3. ASSUME VacantAt(offs, bits, at, size), \A k \in Nat : p <= k /\ k < q => AdjOffset(offs, k) # at
      PROVE  \E i \in Nat : /\ i < p \/ q <= i
                            /\ Vacant(offs, bits, i) /\ OffsetAt(offs, i) = at
                            /\ AdjOffset(offs, i + 1) - OffsetAt(offs, i) = size
  <2>1. PICK i \in Indexes : /\ Vacant(offs, bits, i) /\ OffsetAt(offs, i) = at
                             /\ AdjOffset(offs, i + 1) - OffsetAt(offs, i) = size
    BY <1>3 DEF VacantAt
  <2>2. i \in Nat /\ ~(p <= i /\ i < q)
    BY <1>1, <1>3, <2>1
  <2> QED BY <2>1, <2>2
<1> QED BY <1>2, <1>3 DEF VacantBut

-----------------------------------------------------------------------------
(* The operations on a header.                                              *)

(* A free block is given to a caller.                                        *)
LEMMA TakingRight ==
  ASSUME NEW offs, NEW bits, WellLaid(offs, bits), NEW n \in Nat \ {0},
         NEW i \in Nat, Vacant(offs, bits, i), NEW bits2, bits2 = bits \cup {i}
  PROVE  /\ WellLaid(offs, bits2)
         /\ \A at, size : VacantAt(offs, bits2, at, size) <=>
              VacantAt(offs, bits, at, size) /\ at # OffsetAt(offs, i)
         /\ Keeps(n, offs, bits, n, offs, bits2, OffsetAt(offs, i))
         /\ Has(n, offs, bits2, OffsetAt(offs, i), AdjOffset(offs, i + 1) - OffsetAt(offs, i))
<1>1. /\ i \in Indexes /\ Known(offs, bits, i) /\ OffsetAt(offs, i) = AdjOffset(offs, i)
      /\ i + 1 \in Nat
  BY PastTheLast DEF Vacant, Known
<1>2. Shift(offs, bits, offs, bits2, i, i + 1, 0)
  BY <1>1 DEF Shift, WellLaid
<1>3. ASSUME NEW j \in Nat, i - 1 <= j, j < i + 1 + 0 PROVE Fits(offs, bits2, j)
  <2>1. Fits(offs, bits, j)
    BY WellLaidFits
  <2>2. CASE j = i
    BY <2>1, <2>2 DEF Fits, Known, Vacant
  <2>3. CASE j = i - 1
    BY <2>1, <2>3, <1>1 DEF Fits, Known, Vacant
  <2> QED BY <2>2, <2>3, <1>3
<1>4. WellLaid(offs, bits2)
  <2>1. OffsetAt(offs, 0) = Header
    BY DEF WellLaid
  <2> QED BY <1>2, <1>3, <2>1, ShiftedFits
<1>5. ASSUME NEW at, NEW size
      PROVE  VacantAt(offs, bits2, at, size) <=>
               VacantAt(offs, bits, at, size) /\ at # OffsetAt(offs, i)
  <2>1. VacantAt(offs, bits2, at, size) <=>
           VacantBut(offs, bits, i, i + 1, at, size) \/ VacantIn(offs, bits2, i, i + 1 + 0, at, size)
    BY <1>2, <1>4, ShiftedVacant
  <2>2. \A k \in Nat : i <= k /\ k < i + 1 <=> k = i
    OBVIOUS
  <2>3. ~VacantIn(offs, bits2, i, i + 1 + 0, at, size)
    BY <2>2 DEF VacantIn, Vacant
  <2>4. VacantBut(offs, bits, i, i + 1, at, size)
         <=> /\ VacantAt(offs, bits, at, size)
             /\ \A k \in Nat : i <= k /\ k < i + 1 => AdjOffset(offs, k) # at
    <3>1. \A k \in Nat : i <= k /\ k < i + 1 => Known(offs, bits, k)
      BY <1>1, <2>2
    <3> QED BY <1>1, <3>1, VacantElsewhere
  <2> QED BY <2>1, <2>2, <2>3, <2>4, <1>1
<1>6. Keeps(n, offs, bits, n, offs, bits2, OffsetAt(offs, i))
  <2>1. i = 0 \/ AdjOffset(offs, i) <= AdjOffset(offs, i)
    BY PastTheLast
  <2>2. \A k \in Nat : i <= k /\ k < i + 1 => k = i
    OBVIOUS
  <2> QED BY <1>1, <1>2, <1>4, <2>1, <2>2, ShiftedKeeps
<1>7. Has(n, offs, bits2, OffsetAt(offs, i), AdjOffset(offs, i + 1) - OffsetAt(offs, i))
  <2>1. AdjOffset(offs, i + 1) \in 1..SlabSize /\ OffsetAt(offs, i) \in 0..SlabSize
    BY <1>1, PastTheLast, Sizes
  <2>2. 1 * SlabSize <= n * SlabSize /\ n * SlabSize \in Int
    BY Sizes, TimesMonotone
  <2>3. AdjOffset(offs, i + 1) - OffsetAt(offs, i) <= Room(n, offs, bits2, i)
    BY <1>1, <2>1, <2>2, Sizes DEF Room
  <2> QED BY <1>1, <2>3 DEF Has
<1> QED BY <1>4, <1>5, <1>6, <1>7

(* A block is cut in two: the first part is a caller's, the second is free.  *)
LEMMA SplittingRight ==
  ASSUME NEW offs, NEW bits, WellLaid(offs, bits), NEW n \in Nat \ {0}, NEW n2 \in Nat \ {0},
         NEW i \in Nat, OffsetAt(offs, i) # 0, NEW at \in Nat,
         OffsetAt(offs, i) + MinMedium <= at, at + MinMedium <= AdjOffset(offs, i + 1),
         OffsetAt(offs, i + 1) # 0 => i + 1 \in bits,
         n = n2 \/ ~Known(offs, bits, i + 1),
         NEW offs2, offs2 = PushOffset(offs, i, at),
         NEW bits2, bits2 = {b \in bits : b < i} \cup {i} \cup {b + 1 : b \in {c \in bits : c > i}}
  PROVE  /\ WellLaid(offs2, bits2)
         /\ \A a, size : VacantAt(offs2, bits2, a, size) <=>
              \/ VacantAt(offs, bits, a, size) /\ a # OffsetAt(offs, i)
              \/ a = at /\ size = AdjOffset(offs, i + 1) - at
         /\ \A size : ~VacantAt(offs, bits, at, size)
         /\ Keeps(n, offs, bits, n2, offs2, bits2, OffsetAt(offs, i))
         /\ Has(n2, offs2, bits2, OffsetAt(offs, i), at - OffsetAt(offs, i))
<1>1. /\ i \in Indexes /\ Known(offs, bits, i) /\ OffsetAt(offs, i) = AdjOffset(offs, i)
      /\ OffsetAt(offs, i) \in 1..(SlabSize - 1) /\ AdjOffset(offs, i + 1) \in 1..SlabSize
      /\ i + 1 \in Nat /\ i \in Nat
      /\ offs \in [Indexes -> 0..(SlabSize - 1)] /\ bits \in SUBSET Indexes
  BY PastTheLast, Sizes DEF Known, WellLaid
<1>2. i < LastIdx /\ ~Known(offs, bits, LastIdx) /\ LastIdx \in Nat
  <2>1. AdjOffset(offs, i) + MinMedium + MinMedium <= AdjOffset(offs, i + 1)
    BY <1>1, Sizes
  <2> QED BY <1>1, <2>1, RoomForOneMore, LastIdxBound
<1>3. at \in 1..(SlabSize - 1) /\ Byte(at) = at
  BY <1>1, Sizes, ByteOf
<1>4. /\ offs2 \in [Indexes -> 0..(SlabSize - 1)]
      /\ \A j \in Indexes : j <= i => offs2[j] = offs[j]
      /\ offs2[i + 1] = at
      /\ \A j \in Indexes : j > i + 1 => j - 1 \in Indexes /\ offs2[j] = offs[j - 1]
  BY <1>1, <1>2, <1>3 DEF PushOffset, Indexes
<1>5. /\ bits2 \in SUBSET Indexes
      /\ \A j \in Nat : j < i => (j \in bits2 <=> j \in bits)
      /\ i \in bits2 /\ i + 1 \notin bits2
      /\ \A j \in Nat : j > i => (j + 1 \in bits2 <=> j \in bits)
  <2>1. LastIdx \notin bits
    BY <1>2 DEF Known
  <2>2. ASSUME NEW b \in bits, b > i PROVE b + 1 \in Indexes
    BY <2>1, <2>2, <1>1, <1>2 DEF Indexes
  <2>3. bits2 \in SUBSET Indexes
    BY <2>2, <1>1
  <2>4. \A b \in bits : b \in Nat
    BY <1>1, <1>2 DEF Indexes
  <2>5. ASSUME NEW j \in Nat, j < i PROVE j \in bits2 <=> j \in bits
    <3>1. j # i /\ \A b \in bits : b > i => b + 1 # j
      BY <2>4, <2>5, <1>1
    <3> QED BY <3>1, <2>5
  <2>6. i \in bits2 /\ i + 1 \notin bits2
    <3>1. i + 1 # i /\ ~(i + 1 < i) /\ \A b \in bits : b > i => b + 1 # i + 1
      BY <2>4, <1>1
    <3> QED BY <3>1
  <2>7. ASSUME NEW j \in Nat, j > i PROVE j + 1 \in bits2 <=> j \in bits
    <3>1. j + 1 # i /\ ~(j + 1 < i) /\ \A b \in bits : b + 1 = j + 1 => b = j
      BY <2>4, <2>7, <1>1
    <3> QED BY <3>1, <2>7
  <2> QED BY <2>3, <2>5, <2>6, <2>7
<1>6. Shift(offs, bits, offs2, bits2, i, i + 1, 1)
  <2>1. ASSUME NEW j \in Nat, j < i PROVE OffsetAt(offs2, j) = OffsetAt(offs, j)
    BY <2>1, <1>1, <1>2, <1>4 DEF OffsetAt, Indexes
  <2>2. ASSUME NEW j \in Nat, i + 1 <= j PROVE OffsetAt(offs2, j + 1) = OffsetAt(offs, j)
    <3>1. CASE j < LastIdx
      <4>1. j + 1 \in Indexes /\ j + 1 > i + 1 /\ (j + 1) - 1 = j /\ j \in Indexes
        BY <2>2, <3>1, <1>2 DEF Indexes
      <4>2. offs2[j + 1] = offs[j]
        BY <4>1, <1>4
      <4> QED BY <4>1, <4>2, <1>2 DEF OffsetAt, Indexes
    <3>2. CASE j = LastIdx
      BY <3>2, <1>2 DEF OffsetAt, Known
    <3>3. CASE j > LastIdx
      BY <3>3, <1>2 DEF OffsetAt
    <3> QED BY <3>1, <3>2, <3>3, <1>2
  <2>3. \A j \in Nat : i + 1 <= j => (j + 1 \in bits2 <=> j \in bits)
    BY <1>1, <1>5
  <2> QED BY <2>1, <2>2, <2>3, <1>1, <1>4, <1>5 DEF Shift
<1>7. /\ OffsetAt(offs2, i) = OffsetAt(offs, i) /\ AdjOffset(offs2, i) = AdjOffset(offs, i)
      /\ OffsetAt(offs2, i + 1) = at /\ AdjOffset(offs2, i + 1) = at
      /\ Known(offs2, bits2, i + 1) /\ Vacant(offs2, bits2, i + 1) /\ ~Vacant(offs2, bits2, i)
  <2>1. i + 1 \in Indexes
    BY <1>1, <1>2 DEF Indexes
  <2>2. /\ OffsetAt(offs2, i) = offs2[i] /\ OffsetAt(offs, i) = offs[i]
        /\ OffsetAt(offs2, i + 1) = offs2[i + 1]
    BY <1>1, <1>4, <2>1, OffsetOf
  <2>3. OffsetAt(offs2, i) = OffsetAt(offs, i) /\ OffsetAt(offs2, i + 1) = at
    BY <1>1, <1>4, <2>2
  <2>4. /\ AdjOffset(offs2, i) = OffsetAt(offs2, i)
        /\ AdjOffset(offs2, i + 1) = OffsetAt(offs2, i + 1)
    BY <1>1, <1>3, <1>4, <2>3, OffsetOf
  <2> QED BY <1>1, <1>3, <1>5, <2>3, <2>4 DEF Known, Vacant
<1>8. /\ OffsetAt(offs2, i + 2) = OffsetAt(offs, i + 1)
      /\ AdjOffset(offs2, i + 2) = AdjOffset(offs, i + 1)
      /\ i + 2 \in bits2 <=> i + 1 \in bits
      /\ Known(offs2, bits2, i + 2) <=> Known(offs, bits, i + 1)
  <2>1. i + 1 <= i + 1 /\ i + 1 + 1 = i + 2
    BY <1>1
  <2> QED BY <2>1, <1>1, <1>6, ShiftedOffsets
<1>9. ASSUME NEW j \in Nat, i - 1 <= j, j < i + 1 + 1 PROVE Fits(offs2, bits2, j)
  <2>1. CASE j = i - 1
    <3>1. /\ OffsetAt(offs2, j) = OffsetAt(offs, j)
          /\ Vacant(offs2, bits2, j) <=> Vacant(offs, bits, j)
          /\ j + 1 = i
      BY <2>1, <1>1, <1>6, ShiftedOffsets
    <3>2. Fits(offs, bits, j)
      BY WellLaidFits
    <3> QED BY <3>1, <3>2, <1>1, <1>5, <1>7 DEF Fits, Known
  <2>2. CASE j = i
    BY <2>2, <1>1, <1>7 DEF Fits
  <2>3. CASE j = i + 1
    <3>1. j + 1 = i + 2
      BY <2>3
    <3> QED BY <2>3, <3>1, <1>1, <1>3, <1>7, <1>8 DEF Fits
  <2> QED BY <2>1, <2>2, <2>3, <1>9
<1>10. WellLaid(offs2, bits2)
  <2>1. OffsetAt(offs2, 0) = Header
    <3>1. OffsetAt(offs, 0) = Header
      BY DEF WellLaid
    <3>2. OffsetAt(offs2, 0) = OffsetAt(offs, 0)
      <4>1. CASE i = 0
        BY <4>1, <1>7
      <4>2. CASE i > 0
        BY <4>2, <1>6, ShiftedOffsets
      <4> QED BY <4>1, <4>2
    <3> QED BY <3>1, <3>2
  <2> QED BY <2>1, <1>6, <1>9, ShiftedFits
<1>11. ASSUME NEW a, NEW size
       PROVE  VacantAt(offs2, bits2, a, size) <=>
                \/ VacantAt(offs, bits, a, size) /\ a # OffsetAt(offs, i)
                \/ a = at /\ size = AdjOffset(offs, i + 1) - at
  <2>1. VacantAt(offs2, bits2, a, size) <=>
           VacantBut(offs, bits, i, i + 1, a, size) \/ VacantIn(offs2, bits2, i, i + 1 + 1, a, size)
    BY <1>6, <1>7, <1>10, ShiftedVacant
  <2>2. \A k \in Nat : i <= k /\ k < i + 1 <=> k = i
    OBVIOUS
  <2>3. VacantIn(offs2, bits2, i, i + 1 + 1, a, size) <=> a = at /\ size = AdjOffset(offs, i + 1) - at
    <3>1. \A k \in Nat : i <= k /\ k < i + 1 + 1 <=> k = i \/ k = i + 1
      OBVIOUS
    <3>2. i + 1 + 1 = i + 2
      OBVIOUS
    <3> QED BY <3>1, <3>2, <1>1, <1>7, <1>8 DEF VacantIn
  <2>4. VacantBut(offs, bits, i, i + 1, a, size)
         <=> /\ VacantAt(offs, bits, a, size)
             /\ \A k \in Nat : i <= k /\ k < i + 1 => AdjOffset(offs, k) # a
    <3>1. \A k \in Nat : i <= k /\ k < i + 1 => Known(offs, bits, k)
      BY <1>1, <2>2
    <3> QED BY <1>1, <3>1, VacantElsewhere
  <2> QED BY <2>1, <2>2, <2>3, <2>4, <1>1
<1>12. ASSUME NEW size, VacantAt(offs, bits, at, size) PROVE FALSE
  <2>1. PICK k \in Indexes : Vacant(offs, bits, k) /\ OffsetAt(offs, k) = at
    BY <1>12 DEF VacantAt
  <2>2. k \in Nat /\ Known(offs, bits, k) /\ AdjOffset(offs, k) = at
    BY <2>1, <1>1, <1>2, <1>3, PastTheLast DEF Vacant, Known, Indexes
  <2>3. InOrder(offs, bits)
    BY Ascending
  <2>4. CASE k <= i
    <3>1. k = i \/ (k < i /\ AdjOffset(offs, k) + MinMedium <= AdjOffset(offs, k + 1)
                          /\ AdjOffset(offs, k + 1) <= AdjOffset(offs, i))
      BY <2>2, <2>3, <2>4, <1>1 DEF InOrder
    <3>2. AdjOffset(offs, k + 1) \in 1..SlabSize /\ AdjOffset(offs, k) \in 1..SlabSize
      BY <2>2, PastTheLast
    <3> QED BY <3>1, <3>2, <2>2, <1>1, Sizes
  <2>5. CASE i < k
    <3>1. AdjOffset(offs, i + 1) <= AdjOffset(offs, k)
      BY <2>2, <2>3, <2>5, <1>1 DEF InOrder
    <3> QED BY <3>1, <2>2, <1>1, Sizes
  <2> QED BY <2>4, <2>5, <2>2, <1>1
<1>13. Keeps(n, offs, bits, n2, offs2, bits2, OffsetAt(offs, i))
  <2>1. i = 0 \/ AdjOffset(offs, i) <= AdjOffset(offs2, i)
    BY <1>1, <1>7
  <2>2. \A k \in Nat : i <= k /\ k < i + 1 => k = i
    OBVIOUS
  <2>3. \A k \in Nat : i <= k /\ k < i + 1 + 1 /\ k \in bits2 => AdjOffset(offs2, k) = OffsetAt(offs, i)
    <3>1. \A k \in Nat : i <= k /\ k < i + 1 + 1 => k = i \/ k = i + 1
      OBVIOUS
    <3> QED BY <3>1, <1>1, <1>5, <1>7
  <2>4. \A k \in Nat : i <= k /\ k < i + 1 /\ k \in bits => AdjOffset(offs, k) = OffsetAt(offs, i)
    BY <2>2, <1>1
  <2>5. n <= n2 \/ ~Known(offs, bits, i + 1)
    OBVIOUS
  <2> QED BY <1>1, <1>6, <1>10, <2>1, <2>3, <2>4, <2>5, ShiftedKeeps
<1>14. Has(n2, offs2, bits2, OffsetAt(offs, i), at - OffsetAt(offs, i))
  <2>1. Room(n2, offs2, bits2, i) = at - OffsetAt(offs, i)
    BY <1>1, <1>7 DEF Room
  <2>2. at - OffsetAt(offs, i) <= Room(n2, offs2, bits2, i)
    BY <2>1, <1>1
  <2>3. i \in bits2 /\ AdjOffset(offs2, i) = OffsetAt(offs, i)
    BY <1>1, <1>5, <1>7
  <2> QED BY <2>2, <2>3 DEF Has
<1> QED BY <1>10, <1>11, <1>12, <1>13, <1>14

(* Neighbours become one block, free or a caller's.                          *)
JoinedOffsets(offs, first, last) ==
  [j \in Indexes |-> IF j <= first THEN offs[j] ELSE OffsetAt(offs, j + last - first)]
JoinedBits(bits, first, last, kept) ==
  {b \in bits : b < first} \cup kept
    \cup {b - (last - first) : b \in {c \in bits : c > last}}

(* Blocks first to last can become one: a caller's, the one at i, or, if no  *)
(* bit is kept, a free one.                                                 *)
Joins(n, offs, bits, n2, first, last, i, kept) ==
  /\ WellLaid(offs, bits) /\ n \in Nat \ {0} /\ n2 \in Nat \ {0}
  /\ first \in Nat /\ last \in Nat /\ first <= last
  /\ OffsetAt(offs, first) # 0 /\ Known(offs, bits, last)
  /\ n = n2 \/ ~Known(offs, bits, last + 1)
  /\ \/ /\ kept = {}
        /\ first > 0 => first - 1 \in bits
        /\ OffsetAt(offs, last + 1) # 0 => last + 1 \in bits
        /\ OffsetAt(offs, first) + MinMedium <= AdjOffset(offs, last + 1)
     \/ kept = {first} /\ i = first
  /\ i \in first..last /\ \A k \in first..last : k \in bits => k = i

LEMMA JoiningRight ==
  ASSUME NEW offs, NEW bits, NEW n, NEW n2, NEW first, NEW last, NEW i, NEW kept,
         Joins(n, offs, bits, n2, first, last, i, kept),
         NEW offs2, offs2 = JoinedOffsets(offs, first, last),
         NEW bits2, bits2 = JoinedBits(bits, first, last, kept)
  PROVE  /\ WellLaid(offs2, bits2)
         /\ \A a, size : VacantAt(offs2, bits2, a, size) <=>
              \/ /\ VacantAt(offs, bits, a, size)
                 /\ \A k \in first..last : AdjOffset(offs, k) # a
              \/ /\ kept = {} /\ a = OffsetAt(offs, first)
                 /\ size = AdjOffset(offs, last + 1) - OffsetAt(offs, first)
         /\ Keeps(n, offs, bits, n2, offs2, bits2, AdjOffset(offs, i))
         /\ kept = {} => \A j \in bits2 : AdjOffset(offs2, j) # AdjOffset(offs, i)
         /\ kept # {} => Has(n2, offs2, bits2, OffsetAt(offs, first),
                             AdjOffset(offs, last + 1) - OffsetAt(offs, first))
<1> DEFINE taken == kept # {}
<1>s. /\ WellLaid(offs, bits) /\ n \in Nat \ {0} /\ n2 \in Nat \ {0}
      /\ first \in Nat /\ last \in Nat /\ first <= last
      /\ OffsetAt(offs, first) # 0 /\ Known(offs, bits, last)
      /\ n = n2 \/ ~Known(offs, bits, last + 1)
      /\ taken \in BOOLEAN
      /\ ~taken => /\ first > 0 => first - 1 \in bits
                   /\ OffsetAt(offs, last + 1) # 0 => last + 1 \in bits
                   /\ OffsetAt(offs, first) + MinMedium <= AdjOffset(offs, last + 1)
      /\ i \in first..last /\ (\A k \in first..last : k \in bits => k = i) /\ (taken => i = first)
      /\ offs2 = [j \in Indexes |-> IF j <= first THEN offs[j] ELSE OffsetAt(offs, j + last - first)]
      /\ bits2 = {b \in bits : b < first} \cup (IF taken THEN {first} ELSE {})
                   \cup {b - (last - first) : b \in {c \in bits : c > last}}
  BY DEF Joins, JoinedOffsets, JoinedBits
<1> HIDE DEF taken
<1> USE <1>s
<1> DEFINE d == first - last
           q == last + 1
<1>0. /\ d \in Int /\ q \in Nat /\ q + d = first + 1 /\ first + 1 \in Nat /\ first < q
      /\ \A j \in Int : j + last - first = j - d
      /\ last - first \in Nat /\ \A b \in Int : b - (last - first) = b + d
      /\ d <= 0 /\ \A k \in Nat : k < q <=> k <= last
  OBVIOUS
<1> HIDE DEF d, q
<1>00. d \in Int /\ q \in Nat /\ q + d = first + 1 /\ first \in Nat
  BY <1>0
<1>1. /\ first \in Indexes /\ Known(offs, bits, first) /\ OffsetAt(offs, first) = AdjOffset(offs, first)
      /\ OffsetAt(offs, first) \in 1..(SlabSize - 1) /\ AdjOffset(offs, q) \in 1..SlabSize
      /\ AdjOffset(offs, i) \in 1..SlabSize
      /\ offs \in [Indexes -> 0..(SlabSize - 1)] /\ bits \in SUBSET Indexes
      /\ last \in Indexes /\ i \in Nat /\ first <= i /\ i <= last
  <2>1. /\ offs \in [Indexes -> 0..(SlabSize - 1)] /\ bits \in SUBSET Indexes
        /\ i \in Nat /\ first <= i /\ i <= last
    BY DEF WellLaid
  <2>2. /\ AdjOffset(offs, q) \in 1..SlabSize /\ AdjOffset(offs, i) \in 1..SlabSize
        /\ OffsetAt(offs, first) \in 0..(SlabSize - 1)
        /\ AdjOffset(offs, first) = IF OffsetAt(offs, first) = 0 THEN SlabSize ELSE OffsetAt(offs, first)
    BY <2>1, <1>0, PastTheLast
  <2>3. first \in Indexes /\ last \in Indexes
    BY PastTheLast DEF Known
  <2> QED BY <2>1, <2>2, <2>3, Sizes DEF Known
<1>2. Indexes = 0..LastIdx /\ LastIdx \in Nat
  BY LastIdxBound DEF Indexes
<1>3. ASSUME NEW k \in Nat, first <= k, k <= last PROVE Known(offs, bits, k)
  BY <1>3, Ascending DEF InOrder
<1>4. /\ offs2 \in [Indexes -> 0..(SlabSize - 1)]
      /\ \A j \in Indexes : j <= first => offs2[j] = offs[j]
      /\ \A j \in Indexes : j > first => offs2[j] = OffsetAt(offs, j - d)
  <2>1. ASSUME NEW j \in Indexes, j > first PROVE OffsetAt(offs, j + last - first) \in 0..(SlabSize - 1)
    <3>1. j + last - first \in Nat
      BY <1>2, <2>1
    <3> QED BY <3>1, PastTheLast
  <2>2. offs2 \in [Indexes -> 0..(SlabSize - 1)]
    <3>1. \A j \in Indexes : j <= first \/ j > first
      BY <1>2
    <3>2. \A j \in Indexes : offs[j] \in 0..(SlabSize - 1)
      BY <1>1
    <3> QED BY <2>1, <3>1, <3>2
  <2>3. ASSUME NEW j \in Indexes, j > first PROVE offs2[j] = OffsetAt(offs, j - d)
    <3>1. j \in Int /\ j + last - first = j - d
      BY <1>0, <1>2
    <3> QED BY <3>1, <2>3, <1>2
  <2> QED BY <2>2, <2>3, <1>2
<1>5. /\ bits2 \in SUBSET Indexes
      /\ \A j \in Nat : j < first => (j \in bits2 <=> j \in bits)
      /\ first \in bits2 <=> taken
      /\ \A j \in Nat : q <= j => (j + d \in bits2 <=> j \in bits)
  <2>1. \A b \in bits : b \in Nat /\ b <= LastIdx /\ b - (last - first) = b + d
    BY <1>0, <1>1, <1>2
  <2>2. bits2 \in SUBSET Indexes
    <3>1. ASSUME NEW b \in bits, b > last PROVE b - (last - first) \in Indexes
      BY <2>1, <3>1, <1>0, <1>2
    <3> QED BY <3>1, <1>1
  <2>3. ASSUME NEW j \in Nat, j < first PROVE j \in bits2 <=> j \in bits
    <3>1. j # first /\ \A b \in bits : b > last => b - (last - first) # j
      BY <2>1, <2>3, <1>0
    <3> QED BY <3>1, <2>3
  <2>4. first \in bits2 <=> taken
    <3>1. ~(first < first) /\ \A b \in bits : b > last => b - (last - first) # first
      BY <2>1, <1>0
    <3> QED BY <3>1
  <2>5. ASSUME NEW j \in Nat, q <= j PROVE j + d \in bits2 <=> j \in bits
    <3>1. /\ j + d # first /\ ~(j + d < first) /\ j > last /\ j - (last - first) = j + d
          /\ \A b \in bits : b - (last - first) = j + d => b = j
      BY <2>1, <2>5, <1>0
    <3> QED BY <3>1
  <2> QED BY <2>2, <2>3, <2>4, <2>5
<1>6. Shift(offs, bits, offs2, bits2, first, q, d)
  <2>1. ASSUME NEW j \in Nat, j <= first PROVE OffsetAt(offs2, j) = OffsetAt(offs, j)
    BY <2>1, <1>1, <1>2, <1>4 DEF OffsetAt
  <2>2. ASSUME NEW j \in Nat, q <= j PROVE OffsetAt(offs2, j + d) = OffsetAt(offs, j)
    <3>1. j + d > first /\ j + d \in Nat /\ (j + d) - d = j
      BY <2>2, <1>00
    <3>2. CASE j + d <= LastIdx
      <4>1. j + d \in Indexes
        BY <3>1, <3>2, <1>2
      <4>2. offs2[j + d] = OffsetAt(offs, j)
        BY <3>1, <4>1, <1>4
      <4> QED BY <4>1, <4>2, <3>1, <1>4, OffsetOf
    <3>3. CASE j + d > LastIdx
      <4>1. OffsetAt(offs2, j + d) = 0
        BY <3>1, <3>3, <1>2 DEF OffsetAt
      <4>2. j > LastIdx
        <5>1. d <= 0 /\ d \in Int
          BY <1>0
        <5>2. LastIdx \in Nat
          BY <1>2
        <5> QED BY <3>3, <5>1, <5>2
      <4> QED BY <4>1, <4>2, <1>2 DEF OffsetAt
    <3> QED BY <3>2, <3>3, <3>1, <1>2
  <2>3. \A j \in Nat : j < first => OffsetAt(offs2, j) = OffsetAt(offs, j)
    BY <2>1
  <2>4. first <= q /\ first <= q + d
    BY <1>0
  <2> QED BY <2>2, <2>3, <2>4, <1>0, <1>4, <1>5 DEF Shift
<1>7. /\ OffsetAt(offs2, first) = OffsetAt(offs, first) /\ AdjOffset(offs2, first) = AdjOffset(offs, first)
      /\ Known(offs2, bits2, first)
      /\ Vacant(offs2, bits2, first) <=> ~taken
  <2>1. OffsetAt(offs2, first) = offs2[first] /\ OffsetAt(offs, first) = offs[first]
    BY <1>1, <1>4, OffsetOf
  <2>2. OffsetAt(offs2, first) = OffsetAt(offs, first)
    <3>1. first <= first
      OBVIOUS
    <3> QED BY <2>1, <3>1, <1>1, <1>4
  <2>3. AdjOffset(offs2, first) = AdjOffset(offs, first)
    BY <2>2, <1>1, <1>4, OffsetOf
  <2> QED BY <2>2, <2>3, <1>5 DEF Known, Vacant
<1>8. /\ OffsetAt(offs2, first + 1) = OffsetAt(offs, q)
      /\ AdjOffset(offs2, first + 1) = AdjOffset(offs, q)
      /\ first + 1 \in bits2 <=> q \in bits
      /\ Known(offs2, bits2, first + 1) <=> Known(offs, bits, q)
  <2>1. q <= q /\ q \in Nat
    BY <1>0
  <2>2. /\ OffsetAt(offs2, q + d) = OffsetAt(offs, q)
        /\ AdjOffset(offs2, q + d) = AdjOffset(offs, q)
        /\ q + d \in bits2 <=> q \in bits
        /\ Known(offs2, bits2, q + d) <=> Known(offs, bits, q)
    BY <2>1, <1>6, ShiftedOffsets
  <2> QED BY <2>2, <1>0
<1>9. Known(offs, bits, q) => OffsetAt(offs, first) + MinMedium <= AdjOffset(offs, q)
  <2> SUFFICES ASSUME Known(offs, bits, q) PROVE OffsetAt(offs, first) + MinMedium <= AdjOffset(offs, q)
    OBVIOUS
  <2>1. /\ AdjOffset(offs, first) + MinMedium <= AdjOffset(offs, first + 1)
        /\ AdjOffset(offs, first + 1) <= AdjOffset(offs, q)
    BY <1>0, Ascending DEF InOrder
  <2>2. AdjOffset(offs, first + 1) \in 1..SlabSize
    BY <1>0, PastTheLast
  <2> QED BY <2>1, <2>2, <1>1, Sizes
<1>10. ASSUME NEW j \in Nat, first - 1 <= j, j < q + d PROVE Fits(offs2, bits2, j)
  <2>1. CASE j = first - 1
    <3>1. /\ OffsetAt(offs2, j) = OffsetAt(offs, j)
          /\ Vacant(offs2, bits2, j) <=> Vacant(offs, bits, j)
          /\ j + 1 = first
      <4>1. j < first /\ j + 1 = first
        BY <2>1
      <4> QED BY <4>1, <1>6, ShiftedOffsets
    <3>2. Fits(offs, bits, j)
      BY WellLaidFits
    <3>3. ~taken => ~Vacant(offs, bits, j)
      BY <2>1 DEF Vacant
    <3> QED BY <3>1, <3>2, <3>3, <1>1, <1>5, <1>7 DEF Fits
  <2>2. CASE j = first
    <3>1. OffsetAt(offs, q) # 0 => q \in bits \/ taken
      BY DEF q
    <3>2. ~taken => OffsetAt(offs, first) + MinMedium <= AdjOffset(offs, q)
      BY DEF q
    <3> QED BY <2>2, <3>1, <3>2, <1>7, <1>8, <1>9, <1>1 DEF Fits
  <2>3. j = first - 1 \/ j = first
    BY <1>10, <1>0
  <2> QED BY <2>1, <2>2, <2>3
<1>11. WellLaid(offs2, bits2)
  <2>1. OffsetAt(offs2, 0) = Header
    <3>1. OffsetAt(offs, 0) = Header
      BY DEF WellLaid
    <3>2. OffsetAt(offs2, 0) = OffsetAt(offs, 0)
      <4>1. CASE first = 0
        BY <4>1, <1>7
      <4>2. CASE first > 0
        BY <4>2, <1>6, ShiftedOffsets
      <4> QED BY <4>1, <4>2
    <3> QED BY <3>1, <3>2
  <2> QED BY <2>1, <1>6, <1>10, ShiftedFits
<1>12. ASSUME NEW a, NEW size
       PROVE  VacantAt(offs2, bits2, a, size) <=>
                \/ /\ VacantAt(offs, bits, a, size)
                   /\ \A k \in first..last : AdjOffset(offs, k) # a
                \/ /\ ~taken /\ a = OffsetAt(offs, first)
                   /\ size = AdjOffset(offs, q) - OffsetAt(offs, first)
  <2>1. VacantAt(offs2, bits2, a, size) <=>
           VacantBut(offs, bits, first, q, a, size) \/ VacantIn(offs2, bits2, first, q + d, a, size)
    BY <1>6, <1>7, <1>11, ShiftedVacant
  <2>2. VacantIn(offs2, bits2, first, q + d, a, size) <=>
          /\ ~taken /\ a = OffsetAt(offs, first)
          /\ size = AdjOffset(offs, q) - OffsetAt(offs, first)
    <3>1. \A k \in Nat : (first <= k /\ k < q + d) <=> k = first
      <4>1. q + d = first + 1
        BY <1>0
      <4> QED BY <4>1
    <3> QED BY <3>1, <1>7, <1>8 DEF VacantIn
  <2>3. VacantBut(offs, bits, first, q, a, size)
         <=> /\ VacantAt(offs, bits, a, size)
             /\ \A k \in Nat : first <= k /\ k < q => AdjOffset(offs, k) # a
    <3>1. \A k \in Nat : first <= k /\ k < q => Known(offs, bits, k)
      BY <1>0, <1>3
    <3> QED BY ZenonT(60), <1>0, <3>1, VacantElsewhere
  <2>4. \A k : k \in first..last <=> k \in Nat /\ first <= k /\ k < q
    BY <1>0
  <2> QED BY <2>1, <2>2, <2>3, <2>4
<1>13. Keeps(n, offs, bits, n2, offs2, bits2, AdjOffset(offs, i))
  <2>1. first = 0 \/ AdjOffset(offs, first) <= AdjOffset(offs2, first)
    BY <1>1, <1>7
  <2>2. \A k \in Nat : first <= k /\ k < q + d /\ k \in bits2 => AdjOffset(offs2, k) = AdjOffset(offs, i)
    <3>1. \A k \in Nat : first <= k /\ k < q + d => k = first
      BY <1>0
    <3> QED BY <3>1, <1>5, <1>7
  <2>3. \A k \in Nat : first <= k /\ k < q /\ k \in bits => AdjOffset(offs, k) = AdjOffset(offs, i)
    <3>1. \A k \in Nat : first <= k /\ k < q => k \in first..last
      BY <1>0
    <3> QED BY <3>1
  <2>4. n <= n2 \/ ~Known(offs, bits, q)
    BY DEF q
  <2> QED BY <1>1, <1>6, <1>11, <2>1, <2>2, <2>3, <2>4, ShiftedKeeps
<1>14. ASSUME ~taken, NEW j \in bits2 PROVE AdjOffset(offs2, j) # AdjOffset(offs, i)
  <2>1. j \in Nat /\ j # first
    BY <1>2, <1>5, <1>14
  <2>2. ASSUME NEW k \in Nat, k < first \/ q <= k, k \in bits PROVE AdjOffset(offs, k) # AdjOffset(offs, i)
    <3>1. Known(offs, bits, k) /\ Known(offs, bits, i) /\ k # i
      BY <2>2, <1>0, <1>1, <1>3 DEF Known
    <3> QED BY <3>1, <2>2, <1>1, Distinct
  <2>3. CASE j < first
    <3>1. j \in bits /\ AdjOffset(offs2, j) = AdjOffset(offs, j)
      BY <2>1, <2>3, <1>6, ShiftedOffsets
    <3> QED BY <3>1, <2>1, <2>2, <2>3
  <2>4. CASE q + d <= j
    <3>1. j - d \in Nat /\ q <= j - d /\ (j - d) + d = j
      BY <2>1, <2>4, <1>6, ShiftedOffsets
    <3> DEFINE k == j - d
    <3>2. k \in Nat /\ q <= k /\ k + d = j
      BY <3>1
    <3> HIDE DEF k
    <3>3. k \in bits /\ AdjOffset(offs2, k + d) = AdjOffset(offs, k)
      BY <3>2, <1>6, ShiftedOffsets
    <3> QED BY <3>2, <3>3, <2>2
  <2>5. j < first \/ q + d <= j
    BY <2>1, <1>00
  <2> QED BY <2>3, <2>4, <2>5
<1>15. ASSUME taken PROVE Has(n2, offs2, bits2, OffsetAt(offs, first), AdjOffset(offs, q) - OffsetAt(offs, first))
  <2>1. 1 * SlabSize <= n2 * SlabSize /\ n2 * SlabSize \in Int
    BY Sizes, TimesMonotone
  <2>2. AdjOffset(offs, q) - OffsetAt(offs, first) <= Room(n2, offs2, bits2, first)
    BY <1>1, <1>7, <1>8, <2>1, Sizes DEF Room
  <2> QED BY <2>2, <1>1, <1>5, <1>7, <1>15 DEF Has
<1> QED BY <1>11, <1>12, <1>13, <1>14, <1>15 DEF q, taken

(* A free block begins elsewhere: its neighbour, a caller's, has become       *)
(* shorter or longer.                                                       *)
MovedOffsets(offs, i, at) == [offs EXCEPT ![i + 1] = at]

LEMMA MovingRight ==
  ASSUME NEW offs, NEW bits, WellLaid(offs, bits), NEW n \in Nat \ {0},
         NEW i \in Nat, i \in bits, Vacant(offs, bits, i + 1), NEW at \in Nat,
         OffsetAt(offs, i) + MinMedium <= at, at + MinMedium <= AdjOffset(offs, i + 2),
         NEW offs2, offs2 = MovedOffsets(offs, i, at)
  PROVE  /\ WellLaid(offs2, bits)
         /\ \A a, size : VacantAt(offs2, bits, a, size) <=>
              \/ VacantAt(offs, bits, a, size) /\ a # OffsetAt(offs, i + 1)
              \/ a = at /\ size = AdjOffset(offs, i + 2) - at
         /\ \A size : VacantAt(offs, bits, at, size) => at = OffsetAt(offs, i + 1)
         /\ Keeps(n, offs, bits, n, offs2, bits, OffsetAt(offs, i))
         /\ Has(n, offs2, bits, OffsetAt(offs, i), at - OffsetAt(offs, i))
<1> USE DEF MovedOffsets
<1>1. /\ i \in Nat /\ i + 1 \in Nat /\ i + 2 \in Nat /\ i + 1 + 1 = i + 2 /\ i + 1 # i
      /\ i \in Indexes /\ i + 1 \in Indexes
      /\ Known(offs, bits, i) /\ Known(offs, bits, i + 1)
      /\ OffsetAt(offs, i) # 0 /\ AdjOffset(offs, i) = OffsetAt(offs, i)
      /\ AdjOffset(offs, i + 1) = OffsetAt(offs, i + 1) /\ i + 1 \notin bits
      /\ OffsetAt(offs, i) \in 1..(SlabSize - 1) /\ AdjOffset(offs, i + 2) \in 1..SlabSize
      /\ AdjOffset(offs, i + 1) \in 1..SlabSize
      /\ offs \in [Indexes -> 0..(SlabSize - 1)] /\ bits \in SUBSET Indexes
      /\ OffsetAt(offs, i + 2) # 0 => i + 2 \in bits
  <2>1. Known(offs, bits, i) /\ Known(offs, bits, i + 1) /\ i + 1 \notin bits
    BY DEF Known, Vacant
  <2>2. OffsetAt(offs, i) # 0
    BY <2>1, Ascending DEF InOrder
  <2>3. /\ offs \in [Indexes -> 0..(SlabSize - 1)] /\ bits \in SUBSET Indexes
    BY DEF WellLaid
  <2>4. i + 1 \in Nat /\ i + 2 \in Nat /\ i + 1 + 1 = i + 2 /\ i + 1 # i
    OBVIOUS
  <2>5. Fits(offs, bits, i + 1)
    BY <2>4, WellLaidFits
  <2> QED BY <2>1, <2>2, <2>3, <2>4, <2>5, PastTheLast, Sizes DEF Vacant, Known, Fits
<1>2. at \in 1..(SlabSize - 1)
  BY <1>1, Sizes
<1>3. /\ offs2 \in [Indexes -> 0..(SlabSize - 1)]
      /\ \A j \in Indexes : j # i + 1 => offs2[j] = offs[j]
      /\ offs2[i + 1] = at
  BY <1>1, <1>2
<1>4. /\ \A j \in Nat : j # i + 1 => OffsetAt(offs2, j) = OffsetAt(offs, j) /\ AdjOffset(offs2, j) = AdjOffset(offs, j)
      /\ OffsetAt(offs2, i + 1) = at /\ AdjOffset(offs2, i + 1) = at
  <2>1. ASSUME NEW j \in Nat, j # i + 1
        PROVE  OffsetAt(offs2, j) = OffsetAt(offs, j) /\ AdjOffset(offs2, j) = AdjOffset(offs, j)
    <3>1. /\ offs \in [Indexes -> 0..(SlabSize - 1)] /\ offs2 \in [Indexes -> 0..(SlabSize - 1)]
          /\ j \in Indexes => offs2[j] = offs[j]
      BY <1>1, <1>3, <2>1
    <3>2. OffsetAt(offs2, j) = OffsetAt(offs, j)
      BY ZenonT(60), <3>1, OffsetOf
    <3> QED BY <3>1, <3>2, OffsetOf
  <2>2. i + 1 \in Nat /\ i + 1 \in Indexes /\ offs2 \in [Indexes -> 0..(SlabSize - 1)] /\ offs2[i + 1] = at
    BY <1>1, <1>3
  <2>3. OffsetAt(offs2, i + 1) = at
    BY <2>2, OffsetOf
  <2>4. AdjOffset(offs2, i + 1) = at
    <3>1. AdjOffset(offs2, i + 1) = IF OffsetAt(offs2, i + 1) = 0 THEN SlabSize ELSE OffsetAt(offs2, i + 1)
      BY <2>2, OffsetOf
    <3>2. at # 0
      BY <1>2
    <3> QED BY <2>3, <3>1, <3>2
  <2> QED BY <2>1, <2>3, <2>4
<1>5. Shift(offs, bits, offs2, bits, i + 1, i + 2, 0)
  <2>1. \A j \in Nat : j < i + 1 => j # i + 1
    OBVIOUS
  <2>2. \A j \in Nat : i + 2 <= j => j # i + 1 /\ j + 0 = j
    OBVIOUS
  <2>3. i + 1 <= i + 2 /\ i + 1 <= i + 2 + 0 /\ 0 \in Int
    OBVIOUS
  <2> QED BY <2>1, <2>2, <2>3, <1>1, <1>3, <1>4 DEF Shift
<1>6. Vacant(offs2, bits, i + 1) /\ ~Vacant(offs2, bits, i)
  BY <1>1, <1>2, <1>4 DEF Vacant
<1>7. ASSUME NEW j \in Nat, i + 1 - 1 <= j, j < i + 2 + 0 PROVE Fits(offs2, bits, j)
  <2>1. CASE j = i
    BY <2>1, <1>1, <1>2, <1>4, <1>6 DEF Fits
  <2>2. CASE j = i + 1
    <3>1. j + 1 = i + 2 /\ j + 1 # i + 1
      BY <2>2
    <3>2. /\ OffsetAt(offs2, i + 2) = OffsetAt(offs, i + 2) /\ AdjOffset(offs2, i + 2) = AdjOffset(offs, i + 2)
      BY <1>1, <1>4, <3>1
    <3> QED BY <2>2, <3>1, <3>2, <1>1, <1>2, <1>4 DEF Fits
  <2> QED BY <2>1, <2>2, <1>7
<1>8. WellLaid(offs2, bits)
  <2>1. OffsetAt(offs2, 0) = Header
    <3>1. OffsetAt(offs, 0) = Header /\ 0 # i + 1
      BY <1>1 DEF WellLaid
    <3> QED BY <3>1, <1>4
  <2> DEFINE p == i + 1
             q == i + 2
  <2>2. \A j \in Nat : p - 1 <= j /\ j < q + 0 => Fits(offs2, bits, j)
    <3>1. p - 1 = i + 1 - 1 /\ q + 0 = i + 2 + 0
      OBVIOUS
    <3> HIDE DEF p, q
    <3> QED BY <3>1, <1>7
  <2>3. Shift(offs, bits, offs2, bits, p, q, 0)
    BY <1>5
  <2> HIDE DEF p, q
  <2> QED BY <2>1, <2>2, <2>3, ShiftedFits
<1>9. ASSUME NEW a, NEW size
      PROVE  VacantAt(offs2, bits, a, size) <=>
               \/ VacantAt(offs, bits, a, size) /\ a # OffsetAt(offs, i + 1)
               \/ a = at /\ size = AdjOffset(offs, i + 2) - at
  <2>1. VacantAt(offs2, bits, a, size) <=>
           VacantBut(offs, bits, i + 1, i + 2, a, size) \/ VacantIn(offs2, bits, i + 1, i + 2 + 0, a, size)
    <3>1. i + 1 - 1 \in bits
      BY <1>1
    <3> QED BY <3>1, <1>5, <1>8, ShiftedVacant
  <2>2. \A k \in Nat : i + 1 <= k /\ k < i + 2 <=> k = i + 1
    OBVIOUS
  <2>3. VacantIn(offs2, bits, i + 1, i + 2 + 0, a, size) <=> a = at /\ size = AdjOffset(offs, i + 2) - at
    <3>1. \A k \in Nat : i + 1 <= k /\ k < i + 2 + 0 <=> k = i + 1
      OBVIOUS
    <3>2. AdjOffset(offs2, i + 1 + 1) = AdjOffset(offs, i + 2)
      <4>1. i + 2 \in Nat /\ i + 2 # i + 1 /\ i + 1 + 1 = i + 2
        OBVIOUS
      <4> QED BY <4>1, <1>4
    <3> QED BY <3>1, <3>2, <1>1, <1>4, <1>6 DEF VacantIn
  <2>4. VacantBut(offs, bits, i + 1, i + 2, a, size)
         <=> /\ VacantAt(offs, bits, a, size)
             /\ \A k \in Nat : i + 1 <= k /\ k < i + 2 => AdjOffset(offs, k) # a
    <3>1. \A k \in Nat : i + 1 <= k /\ k < i + 2 => Known(offs, bits, k)
      BY <1>1, <2>2
    <3> QED BY <1>1, <3>1, VacantElsewhere
  <2> QED BY <2>1, <2>2, <2>3, <2>4, <1>1
<1>10. ASSUME NEW size, VacantAt(offs, bits, at, size), at # OffsetAt(offs, i + 1) PROVE FALSE
  <2>1. PICK k \in Indexes : Vacant(offs, bits, k) /\ OffsetAt(offs, k) = at
    BY <1>10 DEF VacantAt
  <2>2. k \in Nat /\ Known(offs, bits, k) /\ AdjOffset(offs, k) = at
    BY <2>1, <1>1, <1>2, PastTheLast, LastIdxBound DEF Vacant, Known, Indexes
  <2>3. InOrder(offs, bits)
    BY Ascending
  <2>4. CASE k <= i
    <3>1. k = i \/ (k < i /\ AdjOffset(offs, k) + MinMedium <= AdjOffset(offs, k + 1)
                          /\ AdjOffset(offs, k + 1) <= AdjOffset(offs, i))
      BY <2>2, <2>3, <2>4, <1>1 DEF InOrder
    <3>2. AdjOffset(offs, k + 1) \in 1..SlabSize /\ AdjOffset(offs, k) \in 1..SlabSize
      BY <2>2, PastTheLast
    <3> QED BY <3>1, <3>2, <2>2, <1>1, Sizes
  <2>5. CASE k = i + 1
    BY <2>5, <2>1, <1>10
  <2>6. CASE i + 1 < k
    <3>1. AdjOffset(offs, i + 2) <= AdjOffset(offs, k)
      BY <2>2, <2>3, <2>6, <1>1 DEF InOrder
    <3> QED BY <3>1, <2>2, <1>1, Sizes
  <2> QED BY <2>4, <2>5, <2>6, <2>2, <1>1
<1>11. Keeps(n, offs, bits, n, offs2, bits, OffsetAt(offs, i))
  <2>1. i + 1 - 1 = i /\ n <= n
    OBVIOUS
  <2>2. \A k \in Nat : i + 1 <= k /\ k < i + 2 => k \notin bits
    <3>1. \A k \in Nat : i + 1 <= k /\ k < i + 2 => k = i + 1
      OBVIOUS
    <3> QED BY <3>1, <1>1
  <2>3. \A k \in Nat : i + 1 <= k /\ k < i + 2 + 0 => k \notin bits
    <3>1. \A k \in Nat : i + 1 <= k /\ k < i + 2 + 0 => k = i + 1
      OBVIOUS
    <3> QED BY <3>1, <1>1
  <2> QED BY <1>1, <1>5, <1>8, <2>1, <2>2, <2>3, ShiftedKeeps
<1>12. Has(n, offs2, bits, OffsetAt(offs, i), at - OffsetAt(offs, i))
  <2>1. Known(offs2, bits, i + 1) /\ AdjOffset(offs2, i) = OffsetAt(offs, i)
    <3>1. at # 0 /\ i # i + 1 /\ AdjOffset(offs, i) = OffsetAt(offs, i)
      BY <1>1, <1>2
    <3> QED BY <3>1, <1>4 DEF Known
  <2>2. Room(n, offs2, bits, i) = at - OffsetAt(offs, i)
    BY <1>4, <2>1 DEF Room
  <2>3. at - OffsetAt(offs, i) <= Room(n, offs2, bits, i)
    BY <2>2, <1>1
  <2> QED BY <2>1, <2>3 DEF Has
<1> QED BY <1>8, <1>9, <1>10, <1>11, <1>12

(* The last block is too small to be a free one and goes to the one before.  *)
DroppedOffsets(offs, i) == [j \in Indexes |-> IF j <= i - 1 THEN offs[j] ELSE 0]
DroppedBits(bits, i) == {j \in bits : j < i}

LEMMA DroppingRight ==
  ASSUME NEW offs, NEW bits, WellLaid(offs, bits), NEW n \in Nat \ {0}, NEW n2 \in Nat \ {0},
         NEW i \in Nat \ {0}, i \in bits, i - 1 \in bits, ~Known(offs, bits, i + 1),
         NEW offs2, offs2 = DroppedOffsets(offs, i), NEW bits2, bits2 = DroppedBits(bits, i)
  PROVE  /\ WellLaid(offs2, bits2) /\ i - 1 \in bits2
         /\ \A a, size : VacantAt(offs2, bits2, a, size) <=> VacantAt(offs, bits, a, size)
         /\ Keeps(n, offs, bits, n2, offs2, bits2, AdjOffset(offs, i))
         /\ \A j \in bits2 : AdjOffset(offs2, j) # AdjOffset(offs, i)
<1> USE DEF DroppedOffsets, DroppedBits
<1>1. /\ i \in Nat /\ i - 1 \in Nat /\ i + 1 \in Nat /\ i - 1 + 1 = i /\ i \in Indexes
      /\ Known(offs, bits, i) /\ i - 1 < i
      /\ offs \in [Indexes -> 0..(SlabSize - 1)] /\ bits \in SUBSET Indexes
      /\ Indexes \subseteq Nat /\ 0 \in 0..(SlabSize - 1)
  BY Sizes, LastIdxBound DEF Known, WellLaid, Indexes
<1>2. /\ offs2 \in [Indexes -> 0..(SlabSize - 1)]
      /\ \A j \in Indexes : j < i => offs2[j] = offs[j]
      /\ \A j \in Indexes : ~(j < i) => offs2[j] = 0
  <2>1. \A j \in Indexes : j < i <=> j <= i - 1
    BY <1>1
  <2>2. offs2 \in [Indexes -> 0..(SlabSize - 1)]
    BY <1>1
  <2> QED BY <2>1, <2>2
<1>3. /\ \A j \in Nat : j < i => OffsetAt(offs2, j) = OffsetAt(offs, j)
      /\ \A j \in Nat : ~(j < i) => OffsetAt(offs2, j) = 0 /\ j \notin bits2
  <2>1. \A j \in Nat : j < i => j \in Indexes
    BY <1>1, LastIdxBound DEF Indexes
  <2> QED BY <2>1, <1>1, <1>2, OffsetOf
<1>4. \A j \in Nat : i < j => ~Known(offs, bits, j)
  <2> SUFFICES ASSUME NEW j \in Nat, i < j, Known(offs, bits, j) PROVE FALSE
    OBVIOUS
  <2>1. j = i + 1 \/ i + 1 < j
    BY <1>1
  <2>2. Known(offs, bits, i + 1)
    BY <2>1, <1>1, Ascending DEF InOrder
  <2> QED BY <2>2
<1>5. Shift(offs, bits, offs2, bits2, i, i + 1, -1)
  <2>1. ASSUME NEW j \in Nat, i + 1 <= j
        PROVE  OffsetAt(offs2, j + -1) = OffsetAt(offs, j) /\ (j + -1 \in bits2 <=> j \in bits)
    <3>1. j + -1 \in Nat /\ ~(j + -1 < i) /\ i < j
      BY <2>1, <1>1
    <3> QED BY <3>1, <1>3, <1>4 DEF Known
  <2>2. \A j \in Nat : j < i => OffsetAt(offs2, j) = OffsetAt(offs, j) /\ (j \in bits2 <=> j \in bits)
    BY <1>3
  <2>3. /\ i <= i + 1 /\ i <= i + 1 + -1 /\ -1 \in Int
        /\ bits2 \in SUBSET Indexes
    <3>1. i <= i + 1 /\ i <= i + 1 + -1 /\ -1 \in Int
      OBVIOUS
    <3> QED BY <3>1, <1>1
  <2> QED BY <2>1, <2>2, <2>3, <1>1, <1>2 DEF Shift
<1>6. ASSUME NEW j \in Nat, i - 1 <= j, j < i + 1 + -1 PROVE Fits(offs2, bits2, j)
  <2>1. j = i - 1
    BY <1>6, <1>1
  <2>2. ~Known(offs2, bits2, j + 1) /\ ~Vacant(offs2, bits2, j)
    BY <2>1, <1>1, <1>3 DEF Known, Vacant
  <2> QED BY <2>2 DEF Fits, Known
<1>7. WellLaid(offs2, bits2)
  <2>1. OffsetAt(offs2, 0) = Header
    BY <1>1, <1>3 DEF WellLaid
  <2> QED BY <2>1, <1>5, <1>6, ShiftedFits
<1>8. ASSUME NEW a, NEW size
      PROVE  VacantAt(offs2, bits2, a, size) <=> VacantAt(offs, bits, a, size)
  <2>1. VacantAt(offs2, bits2, a, size) <=>
           VacantBut(offs, bits, i, i + 1, a, size) \/ VacantIn(offs2, bits2, i, i + 1 + -1, a, size)
    BY <1>1, <1>5, <1>7, ShiftedVacant
  <2>2. ~VacantIn(offs2, bits2, i, i + 1 + -1, a, size)
    <3>1. \A k \in Nat : ~(i <= k /\ k < i + 1 + -1)
      OBVIOUS
    <3> QED BY <3>1 DEF VacantIn
  <2>3. ASSUME VacantBut(offs, bits, i, i + 1, a, size) PROVE VacantAt(offs, bits, a, size)
    BY <2>3, PastTheLast DEF VacantBut, VacantAt, Vacant
  <2>4. ASSUME VacantAt(offs, bits, a, size) PROVE VacantBut(offs, bits, i, i + 1, a, size)
    <3>1. PICK k \in Indexes : /\ Vacant(offs, bits, k) /\ OffsetAt(offs, k) = a
                               /\ AdjOffset(offs, k + 1) - OffsetAt(offs, k) = size
      BY <2>4 DEF VacantAt
    <3>2. k # i /\ k \in Nat
      BY <3>1, <1>1 DEF Vacant
    <3>3. k < i \/ i + 1 <= k
      BY <3>2, <1>1
    <3> QED BY <3>1, <3>2, <3>3 DEF VacantBut
  <2> QED BY <2>1, <2>2, <2>3, <2>4
<1>9. Keeps(n, offs, bits, n2, offs2, bits2, AdjOffset(offs, i))
  <2>1. ~Known(offs2, bits2, i)
    BY <1>1, <1>3 DEF Known
  <2>2. \A k \in Nat : i <= k /\ k < i + 1 => k = i
    OBVIOUS
  <2>3. \A k \in Nat : ~(i <= k /\ k < i + 1 + -1)
    OBVIOUS
  <2> QED BY <1>1, <1>5, <1>7, <2>1, <2>2, <2>3, ShiftedKeeps
<1>10. ASSUME NEW j \in bits2 PROVE AdjOffset(offs2, j) # AdjOffset(offs, i)
  <2>1. j \in Nat /\ j < i /\ j \in bits /\ Known(offs, bits, j)
    BY <1>1 DEF Known
  <2>2. AdjOffset(offs2, j) = AdjOffset(offs, j)
    BY <2>1, <1>5, ShiftedOffsets
  <2> QED BY <2>1, <2>2, <1>1, Distinct
<1>11. i - 1 \in bits2
  BY <1>1
<1> QED BY <1>7, <1>8, <1>9, <1>10, <1>11

-----------------------------------------------------------------------------
(* The bins.                                                                *)
Members(list) == {list[i] : i \in DOMAIN list}
NoRepeats(list) == \A i, j \in DOMAIN list : i # j => list[i] # list[j]

(* A list out of which a block is taken.                                    *)
LEMMA WithoutOne ==
  ASSUME NEW T, NEW list \in Seq(T), NEW b, NoRepeats(list)
  PROVE  /\ Without(list, b) \in Seq(T)
         /\ Members(Without(list, b)) = Members(list) \ {b}
         /\ NoRepeats(Without(list, b))
<1>1. CASE \A i \in DOMAIN list : list[i] # b
  <2>1. Without(list, b) = list
    BY <1>1 DEF Without
  <2> QED BY <1>1, <2>1 DEF Members
<1>2. CASE \E i \in DOMAIN list : list[i] = b
  <2> DEFINE at == CHOOSE i \in DOMAIN list : list[i] = b
             left == SubSeq(list, 1, at - 1)
             right == SubSeq(list, at + 1, Len(list))
  <2>1. at \in DOMAIN list /\ list[at] = b
    BY <1>2
  <2>2. Without(list, b) = left \o right
    BY <1>2 DEF Without
  <2> HIDE DEF at
  <2>3. Len(list) \in Nat /\ DOMAIN list = 1..Len(list) /\ at \in 1..Len(list)
    BY <2>1, LenProperties
  <2>4. /\ left \in Seq(T) /\ Len(left) = at - 1
        /\ \A i \in 1..(at - 1) : left[i] = list[i]
    <3>1. \A i \in 1..(at - 1) : list[i] \in T
      BY <2>3, ElementOfSeq
    <3>2. /\ left \in Seq(T) /\ Len(left) = (IF 1 <= at - 1 THEN at - 1 - 1 + 1 ELSE 0)
          /\ \A i \in 1..(at - 1 - 1 + 1) : left[i] = list[1 + i - 1]
      BY <2>3, <3>1, SubSeqProperties
    <3> QED BY <2>3, <3>2
  <2>5. /\ right \in Seq(T) /\ Len(right) = Len(list) - at
        /\ \A i \in 1..(Len(list) - at) : right[i] = list[at + i]
    <3>1. \A i \in (at + 1)..Len(list) : list[i] \in T
      BY <2>3, ElementOfSeq
    <3>2. /\ right \in Seq(T)
          /\ Len(right) = (IF at + 1 <= Len(list) THEN Len(list) - (at + 1) + 1 ELSE 0)
          /\ \A i \in 1..(Len(list) - (at + 1) + 1) : right[i] = list[(at + 1) + i - 1]
      BY <2>3, <3>1, SubSeqProperties
    <3>3. Len(list) - (at + 1) + 1 = Len(list) - at
      BY <2>3
    <3>4. \A i \in 1..(Len(list) - at) : (at + 1) + i - 1 = at + i
      BY <2>3
    <3>5. \A i \in 1..(Len(list) - at) : right[i] = list[at + i]
      BY <3>2, <3>3, <3>4
    <3>6. right \in Seq(T)
      BY <3>2
    <3>7. Len(right) = Len(list) - at
      <4>1. Len(right) = IF at + 1 <= Len(list) THEN Len(list) - (at + 1) + 1 ELSE 0
        BY <3>2
      <4>2. CASE at + 1 <= Len(list)
        BY <2>3, <3>3, <4>1, <4>2
      <4>3. CASE ~(at + 1 <= Len(list))
        <5>1. Len(list) \in Nat /\ at \in Nat /\ at <= Len(list)
          BY <2>3
        <5>2. Len(list) = at
          BY <4>3, <5>1
        <5> QED BY <4>1, <4>3, <5>1, <5>2
      <4> QED BY <4>2, <4>3
    <3> QED BY <3>5, <3>6, <3>7
  <2> HIDE DEF left, right
  <2> DEFINE cut == Without(list, b)
             from(i) == IF i < at THEN i ELSE i + 1
  <2>6. /\ cut \in Seq(T) /\ Len(cut) = Len(list) - 1 /\ DOMAIN cut = 1..(Len(list) - 1)
        /\ \A i \in DOMAIN cut : cut[i] = list[from(i)]
    <3>1. /\ left \o right \in Seq(T) /\ Len(left \o right) = Len(left) + Len(right)
          /\ \A i \in 1..(Len(left) + Len(right)) :
               (left \o right)[i] = IF i <= Len(left) THEN left[i] ELSE right[i - Len(left)]
      BY <2>4, <2>5, ConcatProperties
    <3>2. DOMAIN (left \o right) = 1..Len(left \o right)
      BY <3>1, LenProperties
    <3>3. Len(left) + Len(right) = Len(list) - 1
      BY <2>3, <2>4, <2>5
    <3>4. ASSUME NEW i \in 1..(Len(list) - 1) PROVE (left \o right)[i] = list[from(i)]
      <4>1. CASE i < at
        BY <2>3, <2>4, <3>1, <3>3, <4>1
      <4>2. CASE ~(i < at)
        <5>1. (left \o right)[i] = right[i - (at - 1)]
          BY SMTT(30), <2>3, <2>4, <3>1, <3>3, <4>2
        <5>2. i - (at - 1) \in 1..(Len(list) - at) /\ at + (i - (at - 1)) = i + 1
          BY <2>3, <4>2
        <5> QED BY <2>5, <4>2, <5>1, <5>2
      <4> QED BY <4>1, <4>2
    <3> QED BY <2>2, <3>1, <3>2, <3>3, <3>4
  <2> HIDE DEF cut
  <2>7. \A i \in DOMAIN cut : from(i) \in DOMAIN list /\ from(i) # at
    BY <2>3, <2>6
  <2>8. \A k \in DOMAIN list : k # at => \E i \in DOMAIN cut : from(i) = k
    <3> SUFFICES ASSUME NEW k \in DOMAIN list, k # at PROVE \E i \in DOMAIN cut : from(i) = k
      OBVIOUS
    <3>1. CASE k < at
      BY <2>3, <2>6, <3>1
    <3>2. CASE k > at
      <4>1. k - 1 \in DOMAIN cut /\ from(k - 1) = k
        BY <2>3, <2>6, <3>2
      <4> QED BY <4>1
    <3> QED BY <2>3, <3>1, <3>2
  <2>9. \A i, j \in DOMAIN cut : (i < j => from(i) < from(j)) /\ (i # j => from(i) # from(j))
    BY <2>3, <2>6
  <2> HIDE DEF from
  <2>10. Members(cut) = Members(list) \ {b}
    BY <2>1, <2>6, <2>7, <2>8 DEF Members, NoRepeats
  <2>11. NoRepeats(cut)
    BY <2>6, <2>7, <2>9 DEF NoRepeats
  <2> QED BY <2>6, <2>10, <2>11 DEF cut
<1> QED BY <1>1, <1>2

(* A block at the head of a list.                                           *)
LEMMA PrependOne ==
  ASSUME NEW T, NEW list \in Seq(T), NEW b \in T, b \notin Members(list), NoRepeats(list)
  PROVE  /\ <<b>> \o list \in Seq(T) /\ <<b>> \o list # <<>>
         /\ Members(<<b>> \o list) = Members(list) \cup {b}
         /\ NoRepeats(<<b>> \o list)
<1> DEFINE new == <<b>> \o list
<1>1. <<b>> \in Seq(T) /\ Len(<<b>>) = 1 /\ <<b>>[1] = b
  OBVIOUS
<1>2. Len(list) \in Nat /\ DOMAIN list = 1..Len(list)
  BY LenProperties
<1>3. /\ new \in Seq(T) /\ Len(new) = 1 + Len(list)
      /\ \A i \in 1..(1 + Len(list)) : new[i] = IF i <= 1 THEN <<b>>[i] ELSE list[i - 1]
  BY <1>1, ConcatProperties
<1>4. DOMAIN new = 1..(1 + Len(list)) /\ new # <<>>
  BY <1>2, <1>3, LenProperties
<1> HIDE DEF new
<1>5. /\ 1 \in DOMAIN new /\ new[1] = b
      /\ \A k \in DOMAIN list : k + 1 \in DOMAIN new /\ new[k + 1] = list[k]
      /\ \A i \in DOMAIN new : i = 1 \/ (i - 1 \in DOMAIN list /\ new[i] = list[i - 1])
  BY <1>1, <1>2, <1>3, <1>4
<1>6. Members(new) = Members(list) \cup {b}
  BY <1>5 DEF Members
<1>7. NoRepeats(new)
  <2> SUFFICES ASSUME NEW i \in DOMAIN new, NEW j \in DOMAIN new, i # j PROVE new[i] # new[j]
    BY DEF NoRepeats
  <2>1. \A k \in DOMAIN list : list[k] # b
    BY DEF Members
  <2>2. i \in Int /\ j \in Int
    BY <1>2, <1>4
  <2>3. CASE i = 1 \/ j = 1
    BY <2>1, <2>3, <1>5
  <2>4. CASE i # 1 /\ j # 1
    <3>1. /\ i - 1 \in DOMAIN list /\ new[i] = list[i - 1] /\ j - 1 \in DOMAIN list /\ new[j] = list[j - 1]
          /\ i - 1 # j - 1
      BY <2>2, <2>4, <1>5
    <3> QED BY <3>1 DEF NoRepeats
  <2> QED BY <2>3, <2>4
<1> QED BY <1>3, <1>4, <1>6, <1>7 DEF new

BinTypes == [slab : Slabs, at : 0..(SlabSize - 1)]

(* The same in terms of what is in a list.                                  *)
LEMMA BinIs ==
  ASSUME NEW list, NEW z, NEW free
  PROVE  BinHolds(list, z, free)
         <=> /\ \A b \in Members(list) : <<b.slab, b.at, z>> \in free
             /\ \A f \in free : f[3] = z => Block(f[1], f[2]) \in Members(list)
             /\ NoRepeats(list)
BY DEF BinHolds, Members, NoRepeats

(* What the lists hold once a block has been taken out of whichever it is in, *)
(* once a free one has been put in its own, and once bits that stand for    *)
(* empty lists have been cleared.                                           *)
LEMMA Unlinking ==
  ASSUME NEW lists, NEW marks, NEW free, BinsHold(lists, marks, free), NEW b
  PROVE  BinsHold(Unlink(lists, b), marks, {f \in free : Block(f[1], f[2]) # b})
<1> DEFINE rest == {f \in free : Block(f[1], f[2]) # b}
<1>1. /\ lists \in [MinMedium..MaxMedium -> Seq(BinTypes)] /\ marks \in SUBSET (MinMedium..MaxMedium)
      /\ \A f \in free : f[3] \in MinMedium..MaxMedium
      /\ \A z \in MinMedium..MaxMedium : BinHolds(lists[z], z, free) /\ (lists[z] # <<>> => z \in marks)
  BY DEF BinsHold, BinTypes
<1>2. ASSUME NEW z \in MinMedium..MaxMedium
      PROVE  /\ Without(lists[z], b) \in Seq(BinTypes) /\ BinHolds(Without(lists[z], b), z, rest)
             /\ Without(lists[z], b) # <<>> => z \in marks
  <2> DEFINE list == lists[z]
             cut == Without(list, b)
  <2>1. list \in Seq(BinTypes) /\ BinHolds(list, z, free)
    BY <1>1
  <2>2. /\ \A c \in Members(list) : <<c.slab, c.at, z>> \in free
        /\ \A f \in free : f[3] = z => Block(f[1], f[2]) \in Members(list)
        /\ NoRepeats(list)
    BY <2>1, BinIs
  <2>3. cut \in Seq(BinTypes) /\ Members(cut) = Members(list) \ {b} /\ NoRepeats(cut)
    BY <2>1, <2>2, WithoutOne
  <2>4. list = <<>> => cut = <<>>
    BY DEF Without
  <2>5. lists[z] # <<>> => z \in marks
    BY <1>1
  <2>6. Members(list) \subseteq BinTypes
    BY <2>1, ElementOfSeq, LenProperties DEF Members
  <2> HIDE DEF list, cut
  <2>7. ASSUME NEW c \in Members(cut) PROVE <<c.slab, c.at, z>> \in rest
    <3>1. c \in BinTypes /\ c # b /\ <<c.slab, c.at, z>> \in free
      BY <2>2, <2>3, <2>6
    <3>2. c = Block(c.slab, c.at)
      BY <3>1 DEF BinTypes, Block
    <3> QED BY <3>1, <3>2
  <2>8. ASSUME NEW f \in rest, f[3] = z PROVE Block(f[1], f[2]) \in Members(cut)
    BY <2>2, <2>3, <2>8
  <2>9. BinHolds(cut, z, rest)
    BY <2>3, <2>7, <2>8, BinIs
  <2> QED BY <2>3, <2>4, <2>5, <2>9 DEF list, cut
<1>3. /\ Unlink(lists, b) \in [MinMedium..MaxMedium -> Seq(BinTypes)]
      /\ \A z \in MinMedium..MaxMedium : Unlink(lists, b)[z] = Without(lists[z], b)
  BY <1>1, <1>2 DEF Unlink
<1>4. \A f \in rest : f[3] \in MinMedium..MaxMedium
  BY <1>1
<1> QED BY <1>1, <1>2, <1>3, <1>4 DEF BinsHold, BinTypes

LEMMA Linking ==
  ASSUME NEW lists, NEW marks, NEW free, BinsHold(lists, marks, free),
         NEW s \in Slabs, NEW at \in 0..(SlabSize - 1), NEW z \in MinMedium..MaxMedium,
         \A f \in free : Block(f[1], f[2]) # Block(s, at)
  PROVE  BinsHold([lists EXCEPT ![z] = <<Block(s, at)>> \o @], marks \cup {z}, free \cup {<<s, at, z>>})
<1> DEFINE b == Block(s, at)
           new == [lists EXCEPT ![z] = <<b>> \o @]
           all == free \cup {<<s, at, z>>}
<1>1. /\ lists \in [MinMedium..MaxMedium -> Seq(BinTypes)] /\ marks \in SUBSET (MinMedium..MaxMedium)
      /\ \A f \in free : f[3] \in MinMedium..MaxMedium
      /\ \A y \in MinMedium..MaxMedium : BinHolds(lists[y], y, free) /\ (lists[y] # <<>> => y \in marks)
  BY DEF BinsHold, BinTypes
<1>2. b \in BinTypes /\ b.slab = s /\ b.at = at
  BY DEF BinTypes, Block
<1>3. ASSUME NEW y \in MinMedium..MaxMedium, y # z
      PROVE  BinHolds(lists[y], y, all)
  <2>1. /\ \A c \in Members(lists[y]) : <<c.slab, c.at, y>> \in free
        /\ \A f \in free : f[3] = y => Block(f[1], f[2]) \in Members(lists[y])
        /\ NoRepeats(lists[y])
    BY <1>1, BinIs
  <2>2. ASSUME NEW f \in all, f[3] = y PROVE Block(f[1], f[2]) \in Members(lists[y])
    BY <2>1, <2>2, <1>3
  <2> QED BY <2>1, <2>2, BinIs
<1>4. <<b>> \o lists[z] \in Seq(BinTypes) /\ BinHolds(<<b>> \o lists[z], z, all)
  <2>1. lists[z] \in Seq(BinTypes)
    BY <1>1
  <2>2. /\ \A c \in Members(lists[z]) : <<c.slab, c.at, z>> \in free
        /\ \A f \in free : f[3] = z => Block(f[1], f[2]) \in Members(lists[z])
        /\ NoRepeats(lists[z])
    BY <1>1, BinIs
  <2>3. b \notin Members(lists[z])
    <3> SUFFICES ASSUME b \in Members(lists[z]) PROVE FALSE
      OBVIOUS
    <3>1. <<s, at, z>> \in free
      BY <2>2, <1>2
    <3> QED BY <3>1
  <2>4. /\ <<b>> \o lists[z] \in Seq(BinTypes)
        /\ Members(<<b>> \o lists[z]) = Members(lists[z]) \cup {b} /\ NoRepeats(<<b>> \o lists[z])
    BY <1>2, <2>1, <2>2, <2>3, PrependOne
  <2>5. ASSUME NEW c \in Members(<<b>> \o lists[z]) PROVE <<c.slab, c.at, z>> \in all
    BY <2>2, <2>4, <2>5, <1>2
  <2>6. ASSUME NEW f \in all, f[3] = z PROVE Block(f[1], f[2]) \in Members(<<b>> \o lists[z])
    <3>1. CASE f \in free
      BY <2>2, <2>4, <2>6, <3>1
    <3>2. CASE f = <<s, at, z>>
      BY <2>4, <3>2
    <3> QED BY <3>1, <3>2
  <2> QED BY <2>4, <2>5, <2>6, BinIs
<1>5. /\ new \in [MinMedium..MaxMedium -> Seq(BinTypes)]
      /\ new[z] = <<b>> \o lists[z]
      /\ \A y \in MinMedium..MaxMedium : y # z => new[y] = lists[y]
  BY <1>1, <1>4
<1>6. ASSUME NEW y \in MinMedium..MaxMedium
      PROVE  BinHolds(new[y], y, all) /\ (new[y] # <<>> => y \in marks \cup {z})
  <2>1. CASE y = z
    BY <2>1, <1>4, <1>5
  <2>2. CASE y # z
    BY <2>2, <1>1, <1>3, <1>5
  <2> QED BY <2>1, <2>2
<1>7. \A f \in all : f[3] \in MinMedium..MaxMedium
  BY <1>1
<1>8. marks \cup {z} \in SUBSET (MinMedium..MaxMedium)
  BY <1>1
<1> HIDE DEF new, all
<1>9. BinsHold(new, marks \cup {z}, all)
  BY <1>5, <1>6, <1>7, <1>8 DEF BinsHold, BinTypes
<1> QED BY <1>9 DEF new, all, b

LEMMA Marking ==
  ASSUME NEW lists, NEW marks, NEW free, BinsHold(lists, marks, free),
         NEW marks2 \in SUBSET (MinMedium..MaxMedium),
         \A z \in MinMedium..MaxMedium : lists[z] # <<>> => z \in marks2
  PROVE  BinsHold(lists, marks2, free)
BY DEF BinsHold

-----------------------------------------------------------------------------
(* What is to be known of the rest of the state when one region changes.     *)
OnlyAt(s) ==
  /\ n_slabs' \in [Slabs -> 0..MaxSlabs]
  /\ block_offs' \in [Slabs -> [Indexes -> 0..(SlabSize - 1)]]
  /\ block_alloc' \in [Slabs -> SUBSET Indexes]
  /\ \A t \in Slabs : t # s => /\ n_slabs'[t] = n_slabs[t] /\ block_offs'[t] = block_offs[t]
                               /\ block_alloc'[t] = block_alloc[t]

FreeBlocksTold ==
  /\ \A f \in FreeBlocks : f = <<f[1], f[2], f[3]>>
  /\ \A s, at, size : <<s, at, size>> \in FreeBlocks <=>
       s \in Slabs /\ n_slabs[s] > 0 /\ VacantAt(block_offs[s], block_alloc[s], at, size)

LEMMA FreeBlocksAre == FreeBlocksTold
<1> DEFINE free == {e \in Ours \X Indexes : Vacant(block_offs[e[1]], block_alloc[e[1]], e[2])}
           one(e) == <<e[1], OffsetAt(block_offs[e[1]], e[2]),
                       AdjOffset(block_offs[e[1]], e[2] + 1) - OffsetAt(block_offs[e[1]], e[2])>>
<1>1. FreeBlocks = {one(e) : e \in free}
  BY DEF FreeBlocks
<1>2. ASSUME NEW f \in FreeBlocks PROVE f = <<f[1], f[2], f[3]>>
  BY <1>1
<1>3. ASSUME NEW s, NEW at, NEW size, <<s, at, size>> \in FreeBlocks
      PROVE  s \in Slabs /\ n_slabs[s] > 0 /\ VacantAt(block_offs[s], block_alloc[s], at, size)
  <2>1. PICK e \in free : <<s, at, size>> = one(e)
    BY <1>1, <1>3
  <2>2. e[1] \in Ours /\ e[2] \in Indexes /\ Vacant(block_offs[e[1]], block_alloc[e[1]], e[2])
    OBVIOUS
  <2>3. /\ s = e[1] /\ at = OffsetAt(block_offs[e[1]], e[2])
        /\ size = AdjOffset(block_offs[e[1]], e[2] + 1) - OffsetAt(block_offs[e[1]], e[2])
    BY <2>1
  <2> HIDE DEF free, one
  <2> QED BY <2>2, <2>3 DEF Ours, VacantAt
<1>4. ASSUME NEW s \in Slabs, NEW at, NEW size, n_slabs[s] > 0,
             VacantAt(block_offs[s], block_alloc[s], at, size)
      PROVE  <<s, at, size>> \in FreeBlocks
  <2>1. PICK i \in Indexes : /\ Vacant(block_offs[s], block_alloc[s], i) /\ OffsetAt(block_offs[s], i) = at
                             /\ AdjOffset(block_offs[s], i + 1) - OffsetAt(block_offs[s], i) = size
    BY <1>4 DEF VacantAt
  <2>2. <<s, i>> \in free
    BY <2>1, <1>4 DEF Ours
  <2>3. one(<<s, i>>) = <<s, at, size>>
    BY <2>1
  <2> HIDE DEF free, one
  <2> QED BY <1>1, <2>2, <2>3
<1> QED BY <1>2, <1>3, <1>4 DEF FreeBlocksTold

(* The free blocks of one region are all that is different.                  *)
LEMMA FreeBlocksChange ==
  ASSUME NEW s \in Slabs, OnlyAt(s), NEW gone, NEW new,
         \A at, size : (n_slabs'[s] > 0 /\ VacantAt(block_offs'[s], block_alloc'[s], at, size))
           <=> \/ n_slabs[s] > 0 /\ VacantAt(block_offs[s], block_alloc[s], at, size) /\ at \notin gone
               \/ <<at, size>> \in new
  PROVE  FreeBlocks' = {f \in FreeBlocks : ~(f[1] = s /\ f[2] \in gone)}
                         \cup {<<s, e[1], e[2]>> : e \in {e \in new : e = <<e[1], e[2]>>}}
<1> DEFINE after == {f \in FreeBlocks : ~(f[1] = s /\ f[2] \in gone)}
                      \cup {<<s, e[1], e[2]>> : e \in {e \in new : e = <<e[1], e[2]>>}}
<1>1. /\ \A f \in FreeBlocks' : f = <<f[1], f[2], f[3]>>
      /\ \A t, at, size : <<t, at, size>> \in FreeBlocks' <=>
           t \in Slabs /\ n_slabs'[t] > 0 /\ VacantAt(block_offs'[t], block_alloc'[t], at, size)
  <2>1. FreeBlocksTold'
    BY FreeBlocksAre, PTL
  <2> QED BY <2>1 DEF FreeBlocksTold
<1>2. ASSUME NEW t, NEW at, NEW size PROVE <<t, at, size>> \in FreeBlocks' <=> <<t, at, size>> \in after
  <2>1. CASE t = s
    <3>1. <<s, at, size>> \in {<<s, e[1], e[2]>> : e \in {e \in new : e = <<e[1], e[2]>>}}
            <=> <<at, size>> \in new
      OBVIOUS
    <3>2. <<s, at, size>> \in {f \in FreeBlocks : ~(f[1] = s /\ f[2] \in gone)}
            <=> <<s, at, size>> \in FreeBlocks /\ at \notin gone
      OBVIOUS
    <3> QED BY <2>1, <3>1, <3>2, <1>1, FreeBlocksAre DEF FreeBlocksTold
  <2>2. CASE t # s
    <3>1. <<t, at, size>> \in after <=> <<t, at, size>> \in FreeBlocks
      BY <2>2
    <3> QED BY <2>2, <3>1, <1>1, FreeBlocksAre DEF OnlyAt, FreeBlocksTold
  <2> QED BY <2>1, <2>2
<1>3. \A f \in after : f = <<f[1], f[2], f[3]>>
  BY FreeBlocksAre DEF FreeBlocksTold
<1> HIDE DEF after
<1>4. FreeBlocks' = after
  BY <1>1, <1>2, <1>3
<1> QED BY <1>4 DEF after

(* What an operation changes of a region's free blocks: those at `gone` are   *)
(* free no more, and those in `new`, as offset and size, are.               *)
RegionChange(s, gone, new) ==
  /\ OnlyAt(s)
  /\ \A at, size : (n_slabs'[s] > 0 /\ VacantAt(block_offs'[s], block_alloc'[s], at, size))
       <=> \/ n_slabs[s] > 0 /\ VacantAt(block_offs[s], block_alloc[s], at, size) /\ at \notin gone
           \/ <<at, size>> \in new

Left(s, gone) == {f \in FreeBlocks : ~(f[1] = s /\ f[2] \in gone)}

(* The lists without the blocks at two offsets, or at one, or at none.       *)
LEMMA UnlinkTwo ==
  ASSUME BinsInv, NEW s, NEW a1, NEW a2
  PROVE  BinsHold(Unlink(Unlink(mediumbins, Block(s, a1)), Block(s, a2)), marked, Left(s, {a1, a2}))
<1> DEFINE one == {f \in FreeBlocks : Block(f[1], f[2]) # Block(s, a1)}
           two == {f \in one : Block(f[1], f[2]) # Block(s, a2)}
<1>1. BinsHold(Unlink(mediumbins, Block(s, a1)), marked, one)
  BY Unlinking DEF BinsInv
<1>2. BinsHold(Unlink(Unlink(mediumbins, Block(s, a1)), Block(s, a2)), marked, two)
  <2> HIDE DEF one
  <2> QED BY <1>1, Unlinking
<1>3. \A f : \A a : Block(f[1], f[2]) = Block(s, a) <=> f[1] = s /\ f[2] = a
  BY DEF Block
<1>4. two = Left(s, {a1, a2})
  BY <1>3 DEF Left
<1> QED BY <1>2, <1>4

LEMMA UnlinkOne ==
  ASSUME NEW marks, BinsHold(mediumbins, marks, FreeBlocks), NEW s, NEW a
  PROVE  BinsHold(Unlink(mediumbins, Block(s, a)), marks, Left(s, {a}))
<1> DEFINE one == {f \in FreeBlocks : Block(f[1], f[2]) # Block(s, a)}
<1>1. BinsHold(Unlink(mediumbins, Block(s, a)), marks, one)
  BY Unlinking
<1>2. \A f : Block(f[1], f[2]) = Block(s, a) <=> f[1] = s /\ f[2] = a
  BY DEF Block
<1>3. one = Left(s, {a})
  BY <1>2 DEF Left
<1> QED BY <1>1, <1>3

LEMMA UnlinkNone ==
  ASSUME NEW marks, BinsHold(mediumbins, marks, FreeBlocks), NEW s
  PROVE  BinsHold(mediumbins, marks, Left(s, {}))
<1>1. Left(s, {}) = FreeBlocks
  BY DEF Left
<1> QED BY <1>1

(* The bins after an operation that frees no block, and after one that does. *)
LEMMA BinsAfter ==
  ASSUME NEW s \in Slabs, NEW gone, RegionChange(s, gone, {}),
         BinsHold(mediumbins', marked', Left(s, gone))
  PROVE  BinsInv'
<1>1. FreeBlocks' = Left(s, gone) \cup {<<s, e[1], e[2]>> : e \in {e \in {} : e = <<e[1], e[2]>>}}
  BY FreeBlocksChange DEF RegionChange, Left
<1>2. FreeBlocks' = Left(s, gone)
  BY <1>1
<1> QED BY <1>2 DEF BinsInv

LEMMA BinsAfterLink ==
  ASSUME NEW s \in Slabs, NEW gone, NEW at \in 0..(SlabSize - 1), NEW size \in MinMedium..MaxMedium,
         RegionChange(s, gone, {<<at, size>>}),
         NEW lists, NEW marks, BinsHold(lists, marks, Left(s, gone)),
         \A z : n_slabs[s] > 0 /\ VacantAt(block_offs[s], block_alloc[s], at, z) => at \in gone
  PROVE  BinsHold([lists EXCEPT ![size] = <<Block(s, at)>> \o @], marks \cup {size}, FreeBlocks')
<1>1. FreeBlocks' = Left(s, gone) \cup {<<s, e[1], e[2]>> : e \in {e \in {<<at, size>>} : e = <<e[1], e[2]>>}}
  BY FreeBlocksChange DEF RegionChange, Left
<1>2. FreeBlocks' = Left(s, gone) \cup {<<s, at, size>>}
  <2>1. {<<s, e[1], e[2]>> : e \in {e \in {<<at, size>>} : e = <<e[1], e[2]>>}} = {<<s, at, size>>}
    <3>1. {e \in {<<at, size>>} : e = <<e[1], e[2]>>} = {<<at, size>>}
      OBVIOUS
    <3>2. {<<s, e[1], e[2]>> : e \in {<<at, size>>}} = {<<s, at, size>>}
      OBVIOUS
    <3> QED BY <3>1, <3>2
  <2> QED BY <1>1, <2>1
<1>3. ASSUME NEW f \in Left(s, gone), Block(f[1], f[2]) = Block(s, at) PROVE FALSE
  <2>1. f[1] = s /\ f[2] = at
    BY <1>3 DEF Block
  <2>2. f \in FreeBlocks /\ f = <<f[1], f[2], f[3]>> /\ at \notin gone
    BY <2>1, FreeBlocksAre DEF Left, FreeBlocksTold
  <2>3. n_slabs[s] > 0 /\ VacantAt(block_offs[s], block_alloc[s], at, f[3])
    BY <2>1, <2>2, FreeBlocksAre DEF FreeBlocksTold
  <2> QED BY <2>2, <2>3
<1> QED BY <1>2, <1>3, Linking

LEMMA HeadersAfter ==
  ASSUME HeadersInv, NEW s \in Slabs, OnlyAt(s),
         IF n_slabs'[s] > 0 THEN WellLaid(block_offs'[s], block_alloc'[s]) /\ block_alloc'[s] # {}
         ELSE block_alloc'[s] = {}
  PROVE  HeadersInv'
<1> SUFFICES ASSUME NEW t \in Slabs
             PROVE  IF n_slabs'[t] > 0 THEN WellLaid(block_offs'[t], block_alloc'[t]) /\ block_alloc'[t] # {}
                    ELSE block_alloc'[t] = {}
  BY DEF HeadersInv
<1>1. CASE t = s
  BY <1>1
<1>2. CASE t # s
  BY <1>2 DEF OnlyAt, HeadersInv
<1> QED BY <1>1, <1>2

-----------------------------------------------------------------------------
(* The callers' blocks.                                                     *)
ButAt(s, at) == {c \in held : ~(c.slab = s /\ c.at = at)}
HeldBlock(s, at, size) == [slab |-> s, at |-> at, size |-> size]

LEMMA HeldButOne ==
  ASSUME HeldInv, NEW b \in held
  PROVE  held \ {b} = ButAt(b.slab, b.at)
BY DEF HeldInv, ButAt

LEMMA RequestsAre ==
  /\ Requests \subseteq Nat
  /\ \A size \in Requests : MinMedium <= size /\ (size > MaxMedium => SlabSize <= size)
BY Sizes, MediumSlabsAssumption DEF MediumSlabsAssumption

LEMMA HeldAfter ==
  ASSUME TypesInv, HeldInv, NEW s \in Slabs, OnlyAt(s), NEW at \in Header..SlabSize,
         Keeps(n_slabs[s], block_offs[s], block_alloc[s],
               n_slabs'[s], block_offs'[s], block_alloc'[s], at),
         NEW new, held' = ButAt(s, at) \cup new,
         \/ new = {} /\ \A j \in block_alloc'[s] : AdjOffset(block_offs'[s], j) # at
         \/ \E size \in Requests :
              /\ new = {HeldBlock(s, at, size)}
              /\ Has(n_slabs'[s], block_offs'[s], block_alloc'[s], at, size)
  PROVE  HeldInv'
<1> DEFINE Types == [slab : Slabs, at : Header..SlabSize, size : Requests]
<1>1. /\ held \in SUBSET Types /\ IsFiniteSet(held)
      /\ \A b \in held : \E i \in block_alloc[b.slab] :
           /\ b.at = AdjOffset(block_offs[b.slab], i)
           /\ b.size <= Room(n_slabs[b.slab], block_offs[b.slab], block_alloc[b.slab], i)
      /\ \A t \in Slabs : \A i \in block_alloc[t] :
           \E b \in held : b.slab = t /\ b.at = AdjOffset(block_offs[t], i)
      /\ \A b, c \in held : b.slab = c.slab /\ b.at = c.at => b = c
  BY DEF HeldInv
<1>2. \A t \in Slabs : t # s => /\ n_slabs'[t] = n_slabs[t] /\ block_offs'[t] = block_offs[t]
                                /\ block_alloc'[t] = block_alloc[t]
  BY DEF OnlyAt
<1>3. /\ \A b \in new : b \in Types /\ b.slab = s /\ b.at = at
      /\ \A b, c \in new : b = c
      /\ \A b \in new : Has(n_slabs'[s], block_offs'[s], block_alloc'[s], at, b.size)
      /\ \A j \in block_alloc'[s] : AdjOffset(block_offs'[s], j) = at => \E b \in new : TRUE
  <2>1. CASE new = {} /\ \A j \in block_alloc'[s] : AdjOffset(block_offs'[s], j) # at
    BY <2>1
  <2>2. ASSUME NEW size \in Requests, new = {HeldBlock(s, at, size)},
               Has(n_slabs'[s], block_offs'[s], block_alloc'[s], at, size)
        PROVE  /\ \A b \in new : b \in Types /\ b.slab = s /\ b.at = at
               /\ \A b, c \in new : b = c
               /\ \A b \in new : Has(n_slabs'[s], block_offs'[s], block_alloc'[s], at, b.size)
               /\ \E b \in new : TRUE
    <3>1. /\ HeldBlock(s, at, size) \in Types /\ HeldBlock(s, at, size).slab = s
          /\ HeldBlock(s, at, size).at = at /\ HeldBlock(s, at, size).size = size
      BY DEF HeldBlock
    <3> QED BY <2>2, <3>1
  <2> QED BY <2>1, <2>2
<1>4. \A b \in ButAt(s, at) : b \in held /\ (b.slab # s \/ b.at # at)
  BY DEF ButAt
<1>5. held' \in SUBSET Types /\ IsFiniteSet(held')
  <2>1. IsFiniteSet(ButAt(s, at))
    <3>1. ButAt(s, at) \subseteq held
      BY <1>4
    <3> QED BY <3>1, <1>1, FS_Subset
  <2>2. IsFiniteSet(new)
    BY FS_EmptySet, FS_Singleton
  <2> QED BY <2>1, <2>2, <1>1, <1>3, <1>4, FS_Union
<1>6. ASSUME NEW b \in held'
      PROVE  \E i \in block_alloc'[b.slab] :
               /\ b.at = AdjOffset(block_offs'[b.slab], i)
               /\ b.size <= Room(n_slabs'[b.slab], block_offs'[b.slab], block_alloc'[b.slab], i)
  <2>1. CASE b \in new
    <3>1. Has(n_slabs'[s], block_offs'[s], block_alloc'[s], at, b.size) /\ b.slab = s /\ b.at = at
      BY <2>1, <1>3
    <3> QED BY <3>1 DEF Has
  <2>2. CASE b \in ButAt(s, at)
    <3>1. b \in held /\ b.slab \in Slabs /\ (b.slab # s \/ b.at # at)
      BY <2>2, <1>1, <1>4
    <3>2. PICK i \in block_alloc[b.slab] :
            /\ b.at = AdjOffset(block_offs[b.slab], i)
            /\ b.size <= Room(n_slabs[b.slab], block_offs[b.slab], block_alloc[b.slab], i)
      BY <3>1, <1>1
    <3>3. CASE b.slab # s
      <4>1. /\ n_slabs'[b.slab] = n_slabs[b.slab] /\ block_offs'[b.slab] = block_offs[b.slab]
            /\ block_alloc'[b.slab] = block_alloc[b.slab]
        BY <3>1, <3>3, <1>2
      <4> QED BY <3>2, <4>1
    <3>4. CASE b.slab = s
      <4>1. PICK j \in block_alloc'[s] :
              /\ AdjOffset(block_offs'[s], j) = AdjOffset(block_offs[s], i)
              /\ Room(n_slabs[s], block_offs[s], block_alloc[s], i)
                   <= Room(n_slabs'[s], block_offs'[s], block_alloc'[s], j)
        BY <3>1, <3>2, <3>4 DEF Keeps
      <4> DEFINE x == Room(n_slabs[s], block_offs[s], block_alloc[s], i)
                 y == Room(n_slabs'[s], block_offs'[s], block_alloc'[s], j)
      <4>2. b.size <= x /\ x <= y /\ b.size \in Nat
        BY <3>1, <3>2, <3>4, <4>1, <1>1, RequestsAre
      <4>3. x \in Int /\ y \in Int
        <5>0. /\ n_slabs[s] \in 0..MaxSlabs /\ n_slabs'[s] \in 0..MaxSlabs
              /\ block_offs[s] \in [Indexes -> 0..(SlabSize - 1)]
              /\ block_offs'[s] \in [Indexes -> 0..(SlabSize - 1)]
              /\ block_alloc[s] \in SUBSET Indexes /\ block_alloc'[s] \in SUBSET Indexes
          BY DEF OnlyAt, TypesInv
        <5>1. n_slabs[s] * SlabSize \in Int /\ n_slabs'[s] * SlabSize \in Int
          BY <5>0, Sizes
        <5>2. ASSUME NEW m \in Nat, NEW offs \in [Indexes -> 0..(SlabSize - 1)]
              PROVE  AdjOffset(offs, m) \in Int
          BY OffsetOf, Sizes
        <5>3. i \in Nat /\ j \in Nat /\ i + 1 \in Nat /\ j + 1 \in Nat
          <6>1. i \in block_alloc[s] /\ j \in block_alloc'[s]
            BY <3>4
          <6>2. i \in Indexes /\ j \in Indexes
            BY <6>1, <5>0
          <6> QED BY <6>2, LastIdxBound DEF Indexes
        <5>4. /\ AdjOffset(block_offs[s], i) \in Int /\ AdjOffset(block_offs[s], i + 1) \in Int
              /\ AdjOffset(block_offs'[s], j) \in Int /\ AdjOffset(block_offs'[s], j + 1) \in Int
          BY <5>0, <5>2, <5>3
        <5> QED BY <5>1, <5>4 DEF Room
      <4> HIDE DEF x, y
      <4>4. b.size <= y
        BY <4>2, <4>3
      <4> QED BY <3>2, <3>4, <4>1, <4>4 DEF y
    <3> QED BY <3>3, <3>4
  <2> QED BY <2>1, <2>2
<1>7. ASSUME NEW t \in Slabs, NEW i \in block_alloc'[t]
      PROVE  \E b \in held' : b.slab = t /\ b.at = AdjOffset(block_offs'[t], i)
  <2>1. CASE t # s
    <3>1. PICK b \in held : b.slab = t /\ b.at = AdjOffset(block_offs[t], i)
      BY <2>1, <1>1, <1>2
    <3>2. b \in ButAt(s, at)
      BY <2>1, <3>1 DEF ButAt
    <3> QED BY <2>1, <3>1, <3>2, <1>2
  <2>2. CASE t = s /\ AdjOffset(block_offs'[t], i) = at
    BY <2>2, <1>3
  <2>3. CASE t = s /\ AdjOffset(block_offs'[t], i) # at
    <3>1. PICK j \in block_alloc[s] : AdjOffset(block_offs[s], j) = AdjOffset(block_offs'[s], i)
      BY <2>3 DEF Keeps
    <3>2. PICK b \in held : b.slab = s /\ b.at = AdjOffset(block_offs[s], j)
      BY <3>1, <1>1
    <3>3. b \in ButAt(s, at)
      BY <2>3, <3>1, <3>2 DEF ButAt
    <3> QED BY <2>3, <3>1, <3>2, <3>3
  <2> QED BY <2>1, <2>2, <2>3
<1>8. ASSUME NEW b \in held', NEW c \in held', b.slab = c.slab, b.at = c.at PROVE b = c
  BY <1>1, <1>3, <1>4, <1>8
<1> QED BY <1>5, <1>6, <1>7, <1>8 DEF HeldInv

-----------------------------------------------------------------------------
(* Where a block is found, and how long.                                     *)
LEMMA Found ==
  ASSUME NEW s, WellLaid(block_offs[s], block_alloc[s]), NEW i \in Nat,
         Known(block_offs[s], block_alloc[s], i)
  PROVE  PosOf(s, AdjOffset(block_offs[s], i)) = i
<1> DEFINE offs == block_offs[s]
           bits == block_alloc[s]
           at == AdjOffset(offs, i)
           S == {j \in Indexes : offs[j] = Byte(at)}
<1>1. /\ i \in Indexes /\ Indexes \subseteq Nat /\ InOrder(offs, bits)
      /\ \A j \in Indexes : offs[j] = OffsetAt(offs, j) /\ offs[j] \in 0..(SlabSize - 1)
      /\ \A j \in Nat : AdjOffset(offs, j) = IF OffsetAt(offs, j) = 0 THEN SlabSize ELSE OffsetAt(offs, j)
  BY PastTheLast, Ascending, LastIdxBound DEF Known, Indexes
<1>2. Byte(at) = OffsetAt(offs, i) /\ OffsetAt(offs, i) = offs[i]
  <2>1. OffsetAt(offs, i) = offs[i] /\ offs[i] \in 0..(SlabSize - 1)
    BY <1>1
  <2>2. at = IF OffsetAt(offs, i) = 0 THEN SlabSize ELSE OffsetAt(offs, i)
    BY <1>1
  <2> HIDE DEF at, offs
  <2>3. at \in 0..SlabSize /\ (at = SlabSize <=> OffsetAt(offs, i) = 0)
    BY <2>1, <2>2, Sizes
  <2> QED BY <2>1, <2>2, <2>3, ByteOf
<1>3. i \in S /\ S \in SUBSET Nat
  BY <1>1, <1>2
<1>4. Min(S) \in S /\ Min(S) <= i
  BY <1>3, MinOfSet
<1>5. ASSUME NEW j \in S, j <= i PROVE j = i
  <2>1. j \in Nat /\ OffsetAt(offs, j) = OffsetAt(offs, i)
    BY <1>1, <1>2
  <2>2. CASE j < i
    <3>1. OffsetAt(offs, j) # 0 /\ Known(offs, bits, j)
      BY <2>1, <2>2, <1>1 DEF InOrder
    <3>2. AdjOffset(offs, j) = AdjOffset(offs, i)
      BY <2>1, <1>1
    <3> QED BY <2>1, <3>1, <3>2, Distinct
  <2> QED BY <2>1, <2>2, <1>5
<1>6. Min(S) = i
  BY <1>4, <1>5
<1>7. PosOf(s, at) = Min(S)
  BY DEF PosOf
<1> QED BY <1>6, <1>7

LEMMA SizeIs ==
  ASSUME NEW s, WellLaid(block_offs[s], block_alloc[s]), NEW i \in Nat
  PROVE  BlockSize(s, i) = Room(n_slabs[s], block_offs[s], block_alloc[s], i)
<1> DEFINE offs == block_offs[s]
           bits == block_alloc[s]
<1>1. AdjOffset(offs, i + 1) = IF OffsetAt(offs, i + 1) = 0 THEN SlabSize ELSE OffsetAt(offs, i + 1)
  BY PastTheLast
<1>2. i = LastIdx => i + 1 \notin bits
  <2>1. i = LastIdx => i + 1 \notin Indexes
    BY LastIdxBound DEF Indexes
  <2> QED BY <2>1, PastTheLast
<1>3. CASE OffsetAt(offs, i + 1) # 0
  BY <1>1, <1>3 DEF BlockSize, Room, Known
<1>4. CASE OffsetAt(offs, i + 1) = 0 /\ i + 1 \in bits
  BY <1>1, <1>2, <1>4 DEF BlockSize, Room, Known
<1>5. CASE OffsetAt(offs, i + 1) = 0 /\ i + 1 \notin bits
  BY <1>5 DEF BlockSize, Room, Known
<1> QED BY <1>3, <1>4, <1>5

(* A block that a caller holds, at i; a free one, at i.                      *)
TakenAt(s, at, i) ==
  /\ s \in Slabs /\ n_slabs[s] \in Nat \ {0} /\ n_slabs[s] <= MaxSlabs
  /\ WellLaid(block_offs[s], block_alloc[s])
  /\ i \in Nat /\ i \in Indexes /\ i \in block_alloc[s] /\ Known(block_offs[s], block_alloc[s], i)
  /\ AdjOffset(block_offs[s], i) = at /\ at \in Header..SlabSize
  /\ BlockSize(s, i) = Room(n_slabs[s], block_offs[s], block_alloc[s], i)

FreeAt(s, at, size, i) ==
  /\ s \in Slabs /\ n_slabs[s] \in Nat \ {0} /\ n_slabs[s] <= MaxSlabs
  /\ WellLaid(block_offs[s], block_alloc[s])
  /\ i \in Nat /\ Vacant(block_offs[s], block_alloc[s], i)
  /\ OffsetAt(block_offs[s], i) = at /\ at \in Header..(SlabSize - 1)
  /\ AdjOffset(block_offs[s], i + 1) - OffsetAt(block_offs[s], i) = size

LEMMA HeldFound ==
  ASSUME TypesInv, HeadersInv, HeldInv, NEW b \in held
  PROVE  /\ TakenAt(b.slab, b.at, PosOf(b.slab, b.at))
         /\ b.size <= BlockSize(b.slab, PosOf(b.slab, b.at))
         /\ b.size \in Requests /\ b.size \in Nat
<1>1. b.slab \in Slabs /\ b.at \in Header..SlabSize /\ b.size \in Requests /\ b.size \in Nat
  BY RequestsAre DEF HeldInv
<1>2. PICK i \in block_alloc[b.slab] :
        /\ b.at = AdjOffset(block_offs[b.slab], i)
        /\ b.size <= Room(n_slabs[b.slab], block_offs[b.slab], block_alloc[b.slab], i)
  BY DEF HeldInv
<1>3. n_slabs[b.slab] \in 0..MaxSlabs
  BY <1>1 DEF TypesInv
<1>4. n_slabs[b.slab] > 0 /\ WellLaid(block_offs[b.slab], block_alloc[b.slab])
  BY <1>1, <1>2 DEF HeadersInv
<1>5. n_slabs[b.slab] \in Nat \ {0} /\ n_slabs[b.slab] <= MaxSlabs
  BY <1>3, <1>4, Sizes
<1>6. i \in Indexes /\ i \in Nat /\ Known(block_offs[b.slab], block_alloc[b.slab], i)
  BY <1>4, LastIdxBound DEF WellLaid, Known, Indexes
<1>7. PosOf(b.slab, b.at) = i
  BY <1>2, <1>4, <1>6, Found
<1>8. BlockSize(b.slab, i) = Room(n_slabs[b.slab], block_offs[b.slab], block_alloc[b.slab], i)
  BY <1>4, <1>6, SizeIs
<1> QED BY <1>1, <1>2, <1>4, <1>5, <1>6, <1>7, <1>8 DEF TakenAt

LEMMA FreeFound ==
  ASSUME TypesInv, HeadersInv, NEW s, NEW at, NEW size, <<s, at, size>> \in FreeBlocks
  PROVE  FreeAt(s, at, size, PosOf(s, at))
<1>1. s \in Slabs /\ n_slabs[s] > 0 /\ VacantAt(block_offs[s], block_alloc[s], at, size)
  BY FreeBlocksAre DEF FreeBlocksTold
<1>2. WellLaid(block_offs[s], block_alloc[s]) /\ n_slabs[s] \in 0..MaxSlabs
  BY <1>1 DEF HeadersInv, TypesInv
<1>3. n_slabs[s] \in Nat \ {0} /\ n_slabs[s] <= MaxSlabs
  BY <1>1, <1>2, Sizes
<1>4. PICK i \in Indexes : /\ Vacant(block_offs[s], block_alloc[s], i) /\ OffsetAt(block_offs[s], i) = at
                           /\ AdjOffset(block_offs[s], i + 1) - OffsetAt(block_offs[s], i) = size
  BY <1>1 DEF VacantAt
<1>5. i \in Nat /\ Known(block_offs[s], block_alloc[s], i)
  BY <1>4, LastIdxBound DEF Vacant, Known, Indexes
<1>6. AdjOffset(block_offs[s], i) = at /\ at \in Header..(SlabSize - 1)
  <2>1. /\ OffsetAt(block_offs[s], i) \in 0..(SlabSize - 1) /\ OffsetAt(block_offs[s], i) # 0
        /\ AdjOffset(block_offs[s], i) = OffsetAt(block_offs[s], i)
    BY <1>2, <1>4, <1>5, PastTheLast DEF Vacant
  <2>2. Header <= AdjOffset(block_offs[s], i)
    BY <1>2, <1>5, Ascending DEF InOrder
  <2> QED BY <2>1, <2>2, <1>4, Sizes
<1>7. PosOf(s, at) = i
  BY <1>2, <1>5, <1>6, Found
<1> QED BY <1>1, <1>2, <1>3, <1>4, <1>5, <1>6, <1>7 DEF FreeAt

-----------------------------------------------------------------------------
(* A new region: one free block, or one before a large block.                *)
LEMMA EmptyRegion ==
  /\ WellLaid(NoOffsets, {}) /\ Vacant(NoOffsets, {}, 0)
  /\ OffsetAt(NoOffsets, 0) = Header /\ OffsetAt(NoOffsets, 1) = 0 /\ AdjOffset(NoOffsets, 1) = SlabSize
  /\ \A at, size : VacantAt(NoOffsets, {}, at, size) <=> at = Header /\ size = MaxMedium
<1>1. /\ NoOffsets \in [Indexes -> 0..(SlabSize - 1)]
      /\ NoOffsets[0] = Header /\ \A i \in Indexes : i # 0 => NoOffsets[i] = 0
      /\ 0 \in Indexes /\ Indexes \subseteq Nat
  BY Sizes, LastIdxBound DEF NoOffsets, Indexes
<1>2. OffsetAt(NoOffsets, 0) = Header /\ \A i \in Nat : i # 0 => OffsetAt(NoOffsets, i) = 0
  BY <1>1, OffsetOf
<1>3. AdjOffset(NoOffsets, 1) = SlabSize
  BY <1>1, <1>2, OffsetOf
<1>4. /\ \A i \in Nat : Vacant(NoOffsets, {}, i) <=> i = 0
      /\ \A i \in Nat : ~Known(NoOffsets, {}, i + 1)
  BY <1>2, Sizes DEF Vacant, Known
<1>5. WellLaid(NoOffsets, {})
  <2>1. Follows(NoOffsets, {})
    BY <1>1, <1>4 DEF Follows
  <2>2. Merged(NoOffsets, {})
    <3> SUFFICES ASSUME NEW i \in Indexes, Vacant(NoOffsets, {}, i)
                 PROVE  /\ OffsetAt(NoOffsets, i) + MinMedium <= AdjOffset(NoOffsets, i + 1)
                        /\ OffsetAt(NoOffsets, i + 1) = 0
      BY DEF Merged
    <3>1. i = 0 /\ i + 1 = 1 /\ 1 \in Nat /\ 1 # 0
      BY <1>1, <1>4
    <3> QED BY <3>1, <1>2, <1>3, Sizes
  <2> QED BY <2>1, <2>2, <1>1, <1>2 DEF WellLaid
<1>6. ASSUME NEW at, NEW size
      PROVE  VacantAt(NoOffsets, {}, at, size) <=> at = Header /\ size = MaxMedium
  <2>1. VacantAt(NoOffsets, {}, at, size)
          <=> OffsetAt(NoOffsets, 0) = at /\ AdjOffset(NoOffsets, 0 + 1) - OffsetAt(NoOffsets, 0) = size
    BY <1>1, <1>4 DEF VacantAt
  <2>2. AdjOffset(NoOffsets, 0 + 1) = SlabSize
    BY <1>3
  <2> QED BY <2>1, <2>2, <1>2, Sizes
<1> QED BY <1>2, <1>3, <1>4, <1>5, <1>6

LEMMA LargeRegion ==
  ASSUME NEW at \in Nat, Header + MinMedium <= at, at <= SlabSize, NEW n \in Nat \ {0},
         NEW offs, offs = AppendOffset(NoOffsets, 0, at)
  PROVE  /\ WellLaid(offs, {1})
         /\ \A a, size : VacantAt(offs, {1}, a, size) <=> a = Header /\ size = at - Header
         /\ AdjOffset(offs, 1) = at /\ Room(n, offs, {1}, 1) = n * SlabSize - at
<1>1. Indexes = 0..LastIdx /\ 0 \in Indexes /\ 1 \in Indexes /\ Indexes \subseteq Nat
  BY LastIdxBound DEF Indexes
<1>2. Byte(at) = (IF at = SlabSize THEN 0 ELSE at) /\ Byte(at) \in 0..(SlabSize - 1)
  BY ByteOf, Sizes
<1>3. /\ offs \in [Indexes -> 0..(SlabSize - 1)] /\ offs[0] = Header /\ offs[1] = Byte(at)
      /\ \A i \in Indexes : i # 0 /\ i # 1 => offs[i] = 0
  <2>1. NoOffsets[0] = Header /\ Header \in 0..(SlabSize - 1) /\ 0 \in 0..(SlabSize - 1)
    BY <1>1, Sizes DEF NoOffsets
  <2>2. \A i \in Indexes : offs[i] = IF i <= 0 THEN NoOffsets[i] ELSE IF i = 0 + 1 THEN Byte(at) ELSE 0
    BY DEF AppendOffset
  <2>3. \A i \in Indexes : i <= 0 <=> i = 0
    BY <1>1
  <2>4. \A i \in Indexes : offs[i] = IF i = 0 THEN Header ELSE IF i = 1 THEN Byte(at) ELSE 0
    BY <2>1, <2>2, <2>3
  <2>5. offs = [i \in Indexes |-> IF i <= 0 THEN NoOffsets[i] ELSE IF i = 0 + 1 THEN Byte(at) ELSE 0]
    BY DEF AppendOffset
  <2> QED BY <2>1, <2>4, <2>5, <1>1, <1>2
<1>4. /\ OffsetAt(offs, 0) = Header /\ OffsetAt(offs, 1) = Byte(at) /\ AdjOffset(offs, 1) = at
      /\ \A i \in Nat : i # 0 /\ i # 1 => OffsetAt(offs, i) = 0
  <2>1. /\ OffsetAt(offs, 0) = Header /\ OffsetAt(offs, 1) = Byte(at)
        /\ \A i \in Nat : i # 0 /\ i # 1 => OffsetAt(offs, i) = 0
    BY ZenonT(60), <1>1, <1>3, OffsetOf
  <2>2. AdjOffset(offs, 1) = IF OffsetAt(offs, 1) = 0 THEN SlabSize ELSE OffsetAt(offs, 1)
    BY <1>3, OffsetOf
  <2> QED BY <2>1, <2>2, <1>2, Sizes
<1>5. /\ \A i \in Nat : Vacant(offs, {1}, i) <=> i = 0
      /\ \A i \in Nat : Known(offs, {1}, i) <=> i = 0 \/ i = 1
  BY <1>4, Sizes DEF Vacant, Known
<1>6. WellLaid(offs, {1})
  <2>1. ASSUME NEW i \in Indexes, Known(offs, {1}, i + 1)
        PROVE  OffsetAt(offs, i) # 0 /\ OffsetAt(offs, i) + MinMedium <= AdjOffset(offs, i + 1)
    <3>1. i \in Nat /\ i + 1 \in Nat /\ (i + 1 = 0 \/ i + 1 = 1)
      BY <2>1, <1>1, <1>5
    <3>2. i = 0 /\ i + 1 = 1
      BY <3>1
    <3> QED BY <3>2, <1>4, Sizes
  <2>2. ASSUME NEW i \in Indexes, Vacant(offs, {1}, i)
        PROVE  /\ OffsetAt(offs, i) + MinMedium <= AdjOffset(offs, i + 1)
               /\ OffsetAt(offs, i + 1) # 0 => i + 1 \in {1}
    <3>1. i = 0 /\ i + 1 = 1
      BY <2>2, <1>1, <1>5
    <3> QED BY <3>1, <1>4
  <2> QED BY <2>1, <2>2, <1>1, <1>3, <1>4 DEF WellLaid, Follows, Merged
<1>7. ASSUME NEW a, NEW size
      PROVE  VacantAt(offs, {1}, a, size) <=> a = Header /\ size = at - Header
  <2>1. VacantAt(offs, {1}, a, size)
          <=> OffsetAt(offs, 0) = a /\ AdjOffset(offs, 0 + 1) - OffsetAt(offs, 0) = size
    BY <1>1, <1>5 DEF VacantAt
  <2>2. AdjOffset(offs, 0 + 1) = at
    BY <1>4
  <2> QED BY <2>1, <2>2, <1>4
<1>8. Room(n, offs, {1}, 1) = n * SlabSize - at
  <2>1. ~Known(offs, {1}, 1 + 1)
    <3>1. 1 + 1 \in Nat /\ 1 + 1 # 0 /\ 1 + 1 # 1
      OBVIOUS
    <3> QED BY <3>1, <1>5
  <2> QED BY <2>1, <1>4 DEF Room
<1> QED BY <1>4, <1>6, <1>7, <1>8

-----------------------------------------------------------------------------
(* The actions.                                                             *)
LEMMA RoomIsInt ==
  ASSUME NEW n \in Nat, NEW offs, NEW bits, WellLaid(offs, bits), NEW i \in Nat
  PROVE  Room(n, offs, bits, i) \in Int
<1>1. AdjOffset(offs, i) \in 1..SlabSize /\ AdjOffset(offs, i + 1) \in 1..SlabSize
  BY PastTheLast
<1>2. n * SlabSize \in Int
  BY Sizes
<1> QED BY <1>1, <1>2 DEF Room

LEMMA HasLess ==
  ASSUME NEW n \in Nat, NEW offs, NEW bits, WellLaid(offs, bits), NEW at, NEW z \in Int, NEW size \in Int,
         Has(n, offs, bits, at, z), size <= z
  PROVE  Has(n, offs, bits, at, size)
<1>1. PICK i \in bits : AdjOffset(offs, i) = at /\ z <= Room(n, offs, bits, i)
  BY DEF Has
<1>2. i \in Nat
  BY LastIdxBound DEF WellLaid, Indexes
<1>3. Room(n, offs, bits, i) \in Int
  BY <1>2, RoomIsInt
<1>4. size <= Room(n, offs, bits, i)
  BY <1>1, <1>3
<1> QED BY <1>1, <1>4 DEF Has

LEMMA OneChanged ==
  ASSUME TypesInv, NEW s \in Slabs, NEW n2 \in 0..MaxSlabs,
         NEW offs2 \in [Indexes -> 0..(SlabSize - 1)], NEW bits2 \in SUBSET Indexes,
         n_slabs' = [n_slabs EXCEPT ![s] = n2] \/ (n_slabs' = n_slabs /\ n2 = n_slabs[s]),
         block_offs' = [block_offs EXCEPT ![s] = offs2] \/ (block_offs' = block_offs /\ offs2 = block_offs[s]),
         block_alloc' = [block_alloc EXCEPT ![s] = bits2] \/ (block_alloc' = block_alloc /\ bits2 = block_alloc[s])
  PROVE  OnlyAt(s) /\ n_slabs'[s] = n2 /\ block_offs'[s] = offs2 /\ block_alloc'[s] = bits2
<1>1. /\ n_slabs' \in [Slabs -> 0..MaxSlabs] /\ n_slabs'[s] = n2
      /\ \A t \in Slabs : t # s => n_slabs'[t] = n_slabs[t]
  BY DEF TypesInv
<1>2. /\ block_offs' \in [Slabs -> [Indexes -> 0..(SlabSize - 1)]] /\ block_offs'[s] = offs2
      /\ \A t \in Slabs : t # s => block_offs'[t] = block_offs[t]
  BY DEF TypesInv
<1>3. /\ block_alloc' \in [Slabs -> SUBSET Indexes] /\ block_alloc'[s] = bits2
      /\ \A t \in Slabs : t # s => block_alloc'[t] = block_alloc[t]
  BY DEF TypesInv
<1> QED BY <1>1, <1>2, <1>3 DEF OnlyAt

(* The parts of a step that changes one region, put together.               *)
LEMMA OneRegion ==
  ASSUME IInv, NEW s \in Slabs, OnlyAt(s), aborted' = aborted,
         IF n_slabs'[s] > 0 THEN WellLaid(block_offs'[s], block_alloc'[s]) /\ block_alloc'[s] # {}
         ELSE block_alloc'[s] = {},
         BinsInv', HeldInv'
  PROVE  IInv'
<1>1. TypesInv'
  BY DEF IInv, TypesInv, OnlyAt
<1>2. HeadersInv'
  BY HeadersAfter DEF IInv
<1> QED BY <1>1, <1>2 DEF IInv

(* The search stops at the first bin with a block in it that is large        *)
(* enough, and the bits that it clears are of empty bins.                   *)
LEMMA SearchStops ==
  ASSUME BinsInv, NEW size \in Nat, Fitting(size) # {}, NEW z, z = Min(Fitting(size)),
         NEW marks, marks = {y \in marked : y < size \/ y >= z}
  PROVE  /\ z \in MinMedium..MaxMedium /\ size <= z /\ mediumbins[z] # <<>>
         /\ BinsHold(mediumbins, marks, FreeBlocks)
<1>1. /\ marked \in SUBSET (MinMedium..MaxMedium)
      /\ \A y \in MinMedium..MaxMedium : mediumbins[y] # <<>> => y \in marked
  BY DEF BinsInv, BinsHold
<1>2. Fitting(size) \in SUBSET Nat
  <2>1. \A y \in MinMedium..MaxMedium : y \in Nat
    BY Sizes
  <2> QED BY <1>1, <2>1 DEF Fitting
<1>3. z \in Fitting(size) /\ \A y \in Fitting(size) : z <= y
  BY <1>2, MinOfSet
<1>4. z \in MinMedium..MaxMedium /\ size <= z /\ mediumbins[z] # <<>>
  BY <1>1, <1>3 DEF Fitting
<1>5. ASSUME NEW y \in MinMedium..MaxMedium, mediumbins[y] # <<>> PROVE y \in marks
  <2>1. y \in marked
    BY <1>1, <1>5
  <2>2. CASE y >= size
    <3>1. z <= y
      BY <1>3, <1>5, <2>1, <2>2 DEF Fitting
    <3> QED BY <2>1, <3>1, <1>4, Sizes
  <2>3. CASE ~(y >= size)
    <3>1. y < size
      BY <2>3, Sizes
    <3> QED BY <2>1, <3>1
  <2> QED BY <2>2, <2>3
<1>6. marks \in SUBSET (MinMedium..MaxMedium)
  BY <1>1
<1> QED BY <1>4, <1>5, <1>6, Marking DEF BinsInv

(* The remainder's bit is not in the word that is written back.              *)
LEMMA WordsDiffer ==
  ASSUME NEW rest \in MinMedium..MaxMedium, NEW z \in MinMedium..MaxMedium, rest + MinMedium <= z
  PROVE  Word(rest) # Word(z)
<1> DEFINE x == rest - MinMedium
           y == z - MinMedium
           v == x \div WordBits
           w == y \div WordBits
<1>1. x \in Nat /\ y \in Nat /\ x + WordBits <= y /\ WordBits \in Nat \ {0}
  BY Sizes
<1> HIDE DEF x, y
<1>2. /\ v \in Nat /\ w \in Nat /\ x % WordBits \in 0..(WordBits - 1) /\ y % WordBits \in 0..(WordBits - 1)
      /\ x = v * WordBits + (x % WordBits) /\ y = w * WordBits + (y % WordBits)
  BY <1>1, Division
<1> HIDE DEF v, w
<1>3. v * WordBits # w * WordBits
  <2> DEFINE vb == v * WordBits
             wb == w * WordBits
  <2>1. vb \in Int /\ wb \in Int
    BY <1>1, <1>2
  <2>2. x = vb + (x % WordBits) /\ y = wb + (y % WordBits)
    BY <1>2
  <2> HIDE DEF vb, wb
  <2>3. vb # wb
    BY <1>1, <1>2, <2>1, <2>2
  <2> QED BY <2>3 DEF vb, wb
<1>4. v # w
  BY <1>3
<1> QED BY <1>4 DEF v, w, x, y, Word

LEMMA FindMediumRight ==
  ASSUME IInv, NEW size \in Requests, FindMedium(size)
  PROVE  IInv'
<1> DEFINE z == Min(Fitting(size))
           b == Head(mediumbins[z])
           s == b.slab
           a == b.at
           i == PosOf(s, a)
           n == n_slabs[s]
           offs == block_offs[s]
           bits == block_alloc[s]
           rest == z - size
           split == rest >= MinMedium
           marks == {y \in marked : y < size \/ y >= z}
           offs2 == IF split THEN PushOffset(offs, i, a + size) ELSE offs
           bits2 == (IF split THEN PushBit(bits, i) ELSE bits) \cup {i}
<1>1. /\ TypesInv /\ HeadersInv /\ BinsInv /\ HeldInv
      /\ size \in Nat /\ MinMedium <= size
  BY RequestsAre DEF IInv
<1>2. /\ z \in MinMedium..MaxMedium /\ size <= z /\ mediumbins[z] # <<>>
      /\ BinsHold(mediumbins, marks, FreeBlocks)
  BY <1>1, SearchStops DEF FindMedium
<1>3. b \in BinTypes /\ <<s, a, z>> \in FreeBlocks /\ b = Block(s, a)
  <2>1. mediumbins[z] \in Seq(BinTypes) /\ BinHolds(mediumbins[z], z, FreeBlocks)
    BY <1>1, <1>2 DEF BinsInv, BinsHold, BinTypes
  <2>2. b = mediumbins[z][1] /\ 1 \in DOMAIN mediumbins[z] /\ b \in BinTypes
    <3> HIDE DEF z
    <3> QED BY <2>1, <1>2
  <2>3. b = Block(s, a)
    <3> HIDE DEF b
    <3> QED BY <2>2 DEF BinTypes, Block
  <2> QED BY <2>1, <2>2, <2>3 DEF BinHolds
<1>4. FreeAt(s, a, z, i)
  BY <1>1, <1>3, FreeFound
<1>5. /\ block_offs' = [block_offs EXCEPT ![s] = offs2] \/ (block_offs' = block_offs /\ offs2 = offs)
      /\ block_alloc' = [block_alloc EXCEPT ![s] = bits2]
      /\ mediumbins' = IF split THEN [Unlink(mediumbins, b) EXCEPT ![rest] = <<Block(s, a + size)>> \o @]
                       ELSE Unlink(mediumbins, b)
      /\ marked' = WrittenBack(marks, IF split THEN {rest} ELSE {}, z)
      /\ held' = held \cup {HeldBlock(s, a, size)}
      /\ n_slabs' = n_slabs /\ aborted' = aborted
  BY DEF FindMedium, Holding, HeldBlock
<1> HIDE DEF z, b, s, a, i, n
<1>6. /\ s \in Slabs /\ n \in Nat \ {0} /\ n <= MaxSlabs /\ n \in 0..MaxSlabs /\ WellLaid(offs, bits)
      /\ i \in Nat /\ Vacant(offs, bits, i) /\ OffsetAt(offs, i) = a /\ a \in Header..(SlabSize - 1)
      /\ AdjOffset(offs, i + 1) - OffsetAt(offs, i) = z
  <2>1. FreeAt(s, a, z, i) /\ n = n_slabs[s]
    BY <1>4 DEF n
  <2> QED BY <2>1, Sizes DEF FreeAt
<1>7. a \in Nat /\ a # 0 /\ rest \in Int
  BY <1>1, <1>2, <1>6, Sizes
<1>8. BinsHold(Unlink(mediumbins, b), marks, Left(s, {a}))
  BY <1>2, <1>3, UnlinkOne
(* What is to be shown of the new header, with the free blocks it leaves.    *)
<1>9. ASSUME WellLaid(offs2, bits2), Keeps(n, offs, bits, n, offs2, bits2, a), Has(n, offs2, bits2, a, size),
             NEW new, \A at, sz : VacantAt(offs2, bits2, at, sz) <=>
                        \/ VacantAt(offs, bits, at, sz) /\ at # a
                        \/ <<at, sz>> \in new,
             RegionChange(s, {a}, new) => BinsInv'
      PROVE  IInv'
  <2>1. offs2 \in [Indexes -> 0..(SlabSize - 1)] /\ bits2 \in SUBSET Indexes
    BY <1>9 DEF WellLaid
  <2>2. OnlyAt(s) /\ n_slabs'[s] = n /\ block_offs'[s] = offs2 /\ block_alloc'[s] = bits2
    <3> HIDE DEF offs2, bits2
    <3> QED BY <1>1, <1>5, <1>6, <2>1, OneChanged DEF n
  <2>3. \A at : at \notin {a} <=> at # a
    OBVIOUS
  <2>4. RegionChange(s, {a}, new)
    <3> HIDE DEF offs2, bits2
    <3> QED BY <1>6, <1>9, <2>2, <2>3 DEF RegionChange, n
  <2>5. held = ButAt(s, a)
    <3> SUFFICES ASSUME NEW c \in held, c.slab = s, c.at = a PROVE FALSE
      BY DEF ButAt
    <3>1. TakenAt(s, a, PosOf(s, a))
      BY <1>1, HeldFound
    <3>2. i \in bits
      BY <3>1 DEF TakenAt, i
    <3> QED BY <3>2, <1>6 DEF Vacant
  <2>6. HeldInv'
    <3> HIDE DEF offs2, bits2
    <3>1. a \in Header..SlabSize
      BY <1>6, Sizes
    <3>2. /\ Keeps(n_slabs[s], block_offs[s], block_alloc[s], n_slabs'[s], block_offs'[s], block_alloc'[s], a)
          /\ Has(n_slabs'[s], block_offs'[s], block_alloc'[s], a, size)
      BY <1>9, <2>2 DEF n
    <3>3. held' = ButAt(s, a) \cup {HeldBlock(s, a, size)}
      BY <1>5, <2>5
    <3> QED BY <1>1, <1>6, <2>2, <3>1, <3>2, <3>3, HeldAfter
  <2>7. bits2 # {}
    OBVIOUS
  <2> HIDE DEF offs2, bits2
  <2> QED BY <1>5, <1>6, <1>9, <2>2, <2>4, <2>6, <2>7, OneRegion
<1>10. CASE split
  <2>1. rest \in MinMedium..MaxMedium /\ rest + MinMedium <= z
    BY <1>1, <1>2, <1>10, Sizes
  <2>2. marked' = marks \cup {rest}
    <3>1. Word(rest) # Word(z)
      BY <1>2, <2>1, WordsDiffer
    <3> HIDE DEF rest, marks
    <3> QED BY <1>5, <1>10, <3>1 DEF WrittenBack
  <2>3. bits2 = {c \in bits : c < i} \cup {i} \cup {c + 1 : c \in {d \in bits : d > i}}
    <3>1. i < LastIdx /\ ~Known(offs, bits, LastIdx)
      <4>1. Known(offs, bits, i) /\ AdjOffset(offs, i) = OffsetAt(offs, i)
        BY <1>6, PastTheLast DEF Vacant, Known
      <4>2. AdjOffset(offs, i + 1) \in 1..SlabSize
        BY <1>6, PastTheLast
      <4>3. AdjOffset(offs, i) + MinMedium + MinMedium <= AdjOffset(offs, i + 1)
        BY <4>1, <4>2, <2>1, <1>1, <1>2, <1>6, Sizes
      <4> HIDE DEF offs, bits
      <4> QED BY <1>6, <4>1, <4>3, RoomForOneMore
    <3>2. bits \in SUBSET Indexes /\ Indexes = 0..LastIdx /\ LastIdx \in Nat /\ LastIdx \notin bits /\ i \notin bits
      BY <1>6, <3>1, LastIdxBound DEF WellLaid, Indexes, Known, Vacant
    <3> HIDE DEF bits
    <3>3. \A c \in bits : c >= i <=> c > i
      BY <1>6, <3>2
    <3>4. \A c \in bits : c >= i => c + 1 \in Indexes
      BY <1>6, <3>2
    <3>5. {c + 1 : c \in {d \in bits : d >= i}} \cap Indexes = {c + 1 : c \in {d \in bits : d > i}}
      BY <3>3, <3>4
    <3> QED BY <1>10, <3>5 DEF PushBit
  <2>4. /\ WellLaid(offs2, bits2)
        /\ \A at, sz : VacantAt(offs2, bits2, at, sz) <=>
             \/ VacantAt(offs, bits, at, sz) /\ at # OffsetAt(offs, i)
             \/ at = a + size /\ sz = AdjOffset(offs, i + 1) - (a + size)
        /\ \A sz : ~VacantAt(offs, bits, a + size, sz)
        /\ Keeps(n, offs, bits, n, offs2, bits2, OffsetAt(offs, i))
        /\ Has(n, offs2, bits2, OffsetAt(offs, i), (a + size) - OffsetAt(offs, i))
    <3>1. AdjOffset(offs, i + 1) \in 1..SlabSize
      BY <1>6, PastTheLast
    <3>2. /\ a + size \in Nat /\ OffsetAt(offs, i) # 0 /\ OffsetAt(offs, i) + MinMedium <= a + size
          /\ a + size + MinMedium <= AdjOffset(offs, i + 1)
      BY <3>1, <1>1, <1>2, <1>6, <1>7, <2>1, Sizes
    <3>3. OffsetAt(offs, i + 1) # 0 => i + 1 \in bits
      BY <1>6, WellLaidFits DEF Fits
    <3>4. offs2 = PushOffset(offs, i, a + size)
      BY <1>10
    <3> DEFINE mid == a + size
    <3> HIDE DEF offs2, bits2, offs, bits, mid
    <3>5. /\ mid \in Nat /\ OffsetAt(offs, i) # 0 /\ OffsetAt(offs, i) + MinMedium <= mid
          /\ mid + MinMedium <= AdjOffset(offs, i + 1) /\ offs2 = PushOffset(offs, i, mid)
      BY <3>2, <3>4 DEF mid
    <3>6. /\ WellLaid(offs2, bits2)
          /\ \A at, sz : VacantAt(offs2, bits2, at, sz) <=>
               \/ VacantAt(offs, bits, at, sz) /\ at # OffsetAt(offs, i)
               \/ at = mid /\ sz = AdjOffset(offs, i + 1) - mid
          /\ \A sz : ~VacantAt(offs, bits, mid, sz)
          /\ Keeps(n, offs, bits, n, offs2, bits2, OffsetAt(offs, i))
          /\ Has(n, offs2, bits2, OffsetAt(offs, i), mid - OffsetAt(offs, i))
      BY SMTT(30), <1>6, <2>3, <3>3, <3>5, SplittingRight
    <3> QED BY <3>6 DEF mid
  <2>5. AdjOffset(offs, i + 1) \in 1..SlabSize
    BY <1>6, PastTheLast
  <2>6. AdjOffset(offs, i + 1) - (a + size) = rest /\ (a + size) - OffsetAt(offs, i) = size
    BY <1>1, <1>2, <1>6, <1>7, <2>5
  <2>7. ASSUME RegionChange(s, {a}, {<<a + size, rest>>}) PROVE BinsInv'
    <3>1. a + size \in 0..(SlabSize - 1)
      BY <1>1, <1>2, <1>6, <1>7, <2>1, <2>5, Sizes
    <3>2. BinsHold([Unlink(mediumbins, b) EXCEPT ![rest] = <<Block(s, a + size)>> \o @], marks \cup {rest}, FreeBlocks')
      <4> HIDE DEF rest, marks
      <4> QED BY <1>6, <1>8, <2>1, <2>4, <2>7, <3>1, BinsAfterLink
    <3> QED BY <1>5, <1>10, <2>2, <3>2 DEF BinsInv
  <2>8. \A at, sz : VacantAt(offs2, bits2, at, sz) <=>
             \/ VacantAt(offs, bits, at, sz) /\ at # a
             \/ <<at, sz>> \in {<<a + size, rest>>}
    <3> HIDE DEF offs2, bits2, offs, bits
    <3> QED BY <1>6, <2>4, <2>6
  <2>9. Keeps(n, offs, bits, n, offs2, bits2, a) /\ Has(n, offs2, bits2, a, size)
    BY <2>4, <2>6, <1>6
  <2> HIDE DEF offs2, bits2
  <2> QED BY <1>9, <2>4, <2>7, <2>8, <2>9
<1>11. CASE ~split
  <2>1. marked' = marks
    BY <1>5, <1>11 DEF WrittenBack
  <2>2. /\ WellLaid(offs2, bits2)
        /\ \A at, sz : VacantAt(offs2, bits2, at, sz) <=>
             VacantAt(offs, bits, at, sz) /\ at # OffsetAt(offs, i)
        /\ Keeps(n, offs, bits, n, offs2, bits2, OffsetAt(offs, i))
        /\ Has(n, offs2, bits2, OffsetAt(offs, i), AdjOffset(offs, i + 1) - OffsetAt(offs, i))
    <3>1. offs2 = offs /\ bits2 = bits \cup {i}
      BY <1>11
    <3> HIDE DEF offs2, bits2, offs, bits
    <3> QED BY <1>6, <3>1, TakingRight
  <2>3. Has(n, offs2, bits2, a, size)
    <3>1. Has(n, offs2, bits2, a, z)
      BY <2>2, <1>6
    <3> HIDE DEF offs2, bits2
    <3> QED BY <3>1, <1>1, <1>2, <1>6, <2>2, HasLess
  <2>4. \A at, sz : VacantAt(offs2, bits2, at, sz) <=>
             \/ VacantAt(offs, bits, at, sz) /\ at # a
             \/ <<at, sz>> \in {}
    BY <2>2, <1>6
  <2>5. ASSUME RegionChange(s, {a}, {}) PROVE BinsInv'
    <3>1. mediumbins' = Unlink(mediumbins, b)
      BY <1>5, <1>11
    <3> HIDE DEF marks
    <3> QED BY <1>6, <1>8, <2>1, <2>5, <3>1, BinsAfter
  <2>6. Keeps(n, offs, bits, n, offs2, bits2, a)
    BY <2>2, <1>6
  <2> HIDE DEF offs2, bits2
  <2> QED BY <1>9, <2>2, <2>3, <2>4, <2>5, <2>6
<1> QED BY <1>10, <1>11

(* The slabs for what a request needs.                                       *)
LEMMA CeilDivIs ==
  ASSUME NEW m \in Nat, NEW d \in Nat \ {0}
  PROVE  /\ CeilDiv(m, d) \in Nat /\ m <= CeilDiv(m, d) * d /\ CeilDiv(m, d) * d \in Nat
         /\ m > 0 => CeilDiv(m, d) > 0
<1> DEFINE x == m + d - 1
           q == x \div d
           t == q * d
<1>1. x \in Nat
  OBVIOUS
<1> HIDE DEF x
<1>2. q \in Nat /\ x % d \in 0..(d - 1) /\ x = (q * d) + (x % d)
  BY <1>1, Division
<1> HIDE DEF q
<1>3. t \in Nat /\ x = t + (x % d)
  BY <1>2
<1>4. q = 0 => t = 0
  OBVIOUS
<1> HIDE DEF t
<1>5. m <= t /\ (m > 0 => q > 0)
  <2>1. m <= t
    BY <1>2, <1>3 DEF x
  <2> QED BY <2>1, <1>2, <1>3, <1>4
<1>6. CeilDiv(m, d) = q
  BY DEF CeilDiv, q, x
<1> QED BY <1>2, <1>3, <1>5, <1>6 DEF t

(* A taken block is not a free one.                                          *)
LEMMA TakenIsNotVacant ==
  ASSUME NEW offs, NEW bits, WellLaid(offs, bits), NEW i \in Nat, i \in bits, NEW at, NEW size,
         VacantAt(offs, bits, at, size)
  PROVE  at # AdjOffset(offs, i)
<1>1. PICK k \in Indexes : Vacant(offs, bits, k) /\ OffsetAt(offs, k) = at
  BY DEF VacantAt
<1>2. k \in Nat /\ Known(offs, bits, k) /\ Known(offs, bits, i) /\ AdjOffset(offs, k) = at /\ k # i
  BY <1>1, PastTheLast, LastIdxBound DEF Vacant, Known, Indexes
<1> QED BY <1>2, Distinct

LEMMA LinkedIfFits ==
  ASSUME NEW marks, BinsHold(mediumbins, marks, FreeBlocks), NEW s \in Slabs,
         NEW at \in 0..(SlabSize - 1), NEW z \in Int, z <= MaxMedium,
         LinkIfFits(mediumbins, marks, Block(s, at), z),
         RegionChange(s, {}, IF z >= MinMedium THEN {<<at, z>>} ELSE {}),
         z >= MinMedium => \A y : ~(n_slabs[s] > 0 /\ VacantAt(block_offs[s], block_alloc[s], at, y))
  PROVE  BinsInv'
<1>1. BinsHold(mediumbins, marks, Left(s, {}))
  BY UnlinkNone
<1>2. CASE z >= MinMedium
  <2>1. z \in MinMedium..MaxMedium
    BY <1>2, Sizes
  <2>2. RegionChange(s, {}, {<<at, z>>})
    BY <1>2
  <2>3. /\ mediumbins' = [mediumbins EXCEPT ![z] = <<Block(s, at)>> \o @]
        /\ marked' = marks \cup {z}
    BY <1>2 DEF LinkIfFits, Link
  <2>4. BinsHold([mediumbins EXCEPT ![z] = <<Block(s, at)>> \o @], marks \cup {z}, FreeBlocks')
    BY <1>1, <1>2, <2>1, <2>2, BinsAfterLink
  <2> QED BY <2>3, <2>4 DEF BinsInv
<1>3. CASE ~(z >= MinMedium)
  <2>1. RegionChange(s, {}, {}) /\ mediumbins' = mediumbins /\ marked' = marks
    BY <1>3 DEF LinkIfFits
  <2> QED BY <1>1, <2>1, BinsAfter
<1> QED BY <1>2, <1>3

(* A region that was not ours, with one block in it that a caller holds.     *)
LEMMA NewRegion ==
  ASSUME IInv, NEW s \in Slabs, n_slabs[s] = 0, NEW n \in Nat, n > 0, n <= MaxSlabs,
         NEW offs2, NEW bits2, WellLaid(offs2, bits2), bits2 # {},
         NEW at \in Header..SlabSize, \A j \in bits2 : AdjOffset(offs2, j) = at,
         NEW size \in Requests, Has(n, offs2, bits2, at, size),
         NEW new, \A a, z : VacantAt(offs2, bits2, a, z) <=> <<a, z>> \in new,
         n_slabs' = [n_slabs EXCEPT ![s] = n], block_offs' = [block_offs EXCEPT ![s] = offs2],
         block_alloc' = [block_alloc EXCEPT ![s] = bits2],
         held' = held \cup {HeldBlock(s, at, size)}, aborted' = aborted,
         RegionChange(s, {}, new) => BinsInv'
  PROVE  IInv'
<1>1. TypesInv /\ HeadersInv /\ HeldInv
  BY DEF IInv
<1>2. /\ n \in 0..MaxSlabs /\ offs2 \in [Indexes -> 0..(SlabSize - 1)] /\ bits2 \in SUBSET Indexes
  BY Sizes DEF WellLaid
<1>3. OnlyAt(s) /\ n_slabs'[s] = n /\ block_offs'[s] = offs2 /\ block_alloc'[s] = bits2
  BY <1>1, <1>2, OneChanged
<1>4. RegionChange(s, {}, new)
  BY <1>3 DEF RegionChange
<1>5. block_alloc[s] = {}
  BY <1>1 DEF HeadersInv
<1>6. held = ButAt(s, at)
  BY <1>1, <1>5 DEF HeldInv, ButAt
<1>7. /\ Keeps(n_slabs[s], block_offs[s], block_alloc[s], n_slabs'[s], block_offs'[s], block_alloc'[s], at)
      /\ Has(n_slabs'[s], block_offs'[s], block_alloc'[s], at, size)
      /\ held' = ButAt(s, at) \cup {HeldBlock(s, at, size)}
  BY <1>3, <1>5, <1>6 DEF Keeps
<1>8. HeldInv'
  BY <1>1, <1>3, <1>7, HeldAfter
<1> QED BY <1>3, <1>4, <1>8, OneRegion

LEMMA InitMediumRight ==
  ASSUME IInv, NEW s \in Slabs, n_slabs[s] = 0, NEW n \in Nat, n > 0, n <= MaxSlabs,
         NEW size \in Requests, size <= MaxMedium, NEW marks, BinsHold(mediumbins, marks, FreeBlocks),
         n_slabs' = [n_slabs EXCEPT ![s] = n], aborted' = aborted, InitMedium(s, size, marks)
  PROVE  IInv'
<1> DEFINE rest == MaxMedium - size
           fits == rest >= MinMedium
           at == Header + size
           offs2 == IF fits THEN AppendOffset(NoOffsets, 0, at) ELSE NoOffsets
           new == IF fits THEN {<<at, rest>>} ELSE {}
<1>1. /\ size \in Nat /\ MinMedium <= size /\ rest \in Int /\ at \in 0..SlabSize /\ rest = SlabSize - at
      /\ size = at - Header /\ rest <= MaxMedium
  BY RequestsAre, Sizes
<1>2. /\ block_offs' = [block_offs EXCEPT ![s] = offs2] /\ block_alloc' = [block_alloc EXCEPT ![s] = {0}]
      /\ LinkIfFits(mediumbins, marks, Block(s, at), rest)
      /\ held' = held \cup {HeldBlock(s, Header, size)}
  BY DEF InitMedium, Holding, HeldBlock
<1>3. /\ WellLaid(offs2, {0}) /\ Has(n, offs2, {0}, Header, size)
      /\ \A a, z : VacantAt(offs2, {0}, a, z) <=> <<a, z>> \in new
      /\ AdjOffset(offs2, 0) = Header
  <2>0. AdjOffset(NoOffsets, 0) = Header
    BY EmptyRegion, PastTheLast, Sizes
  <2>1. CASE fits
    <3>1. offs2 = PushOffset(NoOffsets, 0, at)
      <4>1. \A j \in Indexes : j - 1 \in Nat => (j - 1 = 0 \/ NoOffsets[j - 1] = 0)
        BY LastIdxBound DEF NoOffsets, Indexes
      <4>2. AppendOffset(NoOffsets, 0, at) = PushOffset(NoOffsets, 0, at)
        BY <4>1, LastIdxBound DEF AppendOffset, PushOffset, Indexes
      <4> QED BY <2>1, <4>2
    <3>2. {0} = {b \in {} : b < 0} \cup {0} \cup {b + 1 : b \in {c \in {} : c > 0}}
      OBVIOUS
    <3>3. /\ at \in Nat /\ OffsetAt(NoOffsets, 0) + MinMedium <= at
          /\ at + MinMedium <= AdjOffset(NoOffsets, 0 + 1) /\ OffsetAt(NoOffsets, 0 + 1) = 0
          /\ OffsetAt(NoOffsets, 0) # 0
      BY <1>1, <2>1, EmptyRegion, Sizes
    <3> DEFINE bits2 == {0}
               none == {}
    <3>4. /\ WellLaid(NoOffsets, none) /\ OffsetAt(NoOffsets, 0) = Header /\ AdjOffset(NoOffsets, 0 + 1) = SlabSize
          /\ \A a, z : VacantAt(NoOffsets, none, a, z) <=> a = Header /\ z = MaxMedium
          /\ n \in Nat \ {0} /\ 0 \in Nat
          /\ bits2 = {b \in none : b < 0} \cup {0} \cup {b + 1 : b \in {c \in none : c > 0}}
      BY EmptyRegion
    <3> HIDE DEF offs2, at, bits2, none
    <3>5. /\ WellLaid(offs2, bits2)
          /\ \A a, z : VacantAt(offs2, bits2, a, z) <=>
               \/ VacantAt(NoOffsets, none, a, z) /\ a # OffsetAt(NoOffsets, 0)
               \/ a = at /\ z = AdjOffset(NoOffsets, 0 + 1) - at
          /\ Has(n, offs2, bits2, OffsetAt(NoOffsets, 0), at - OffsetAt(NoOffsets, 0))
      BY <3>1, <3>3, <3>4, SplittingRight
    <3>6. AdjOffset(offs2, 0) = Header
      <4>1. OffsetAt(offs2, 0) = Header
        BY <3>5 DEF WellLaid
      <4> QED BY <3>5, <4>1, PastTheLast, Sizes
    <3>7. new = {<<at, rest>>}
      BY <2>1
    <3> HIDE DEF new, rest
    <3> QED BY <3>4, <3>5, <3>6, <3>7, <1>1 DEF bits2
  <2>2. CASE ~fits
    <3> DEFINE bits2 == {0}
               none == {}
    <3>1. /\ WellLaid(NoOffsets, none) /\ OffsetAt(NoOffsets, 0) = Header /\ AdjOffset(NoOffsets, 0 + 1) = SlabSize
          /\ \A a, z : VacantAt(NoOffsets, none, a, z) <=> a = Header /\ z = MaxMedium
          /\ n \in Nat \ {0} /\ Vacant(NoOffsets, none, 0) /\ 0 \in Nat /\ bits2 = none \cup {0}
          /\ offs2 = NoOffsets
      BY <2>2, EmptyRegion
    <3> HIDE DEF offs2, bits2, none
    <3>2. /\ WellLaid(NoOffsets, bits2)
          /\ \A a, z : VacantAt(NoOffsets, bits2, a, z) <=>
               VacantAt(NoOffsets, none, a, z) /\ a # OffsetAt(NoOffsets, 0)
          /\ Has(n, NoOffsets, bits2, OffsetAt(NoOffsets, 0), AdjOffset(NoOffsets, 0 + 1) - OffsetAt(NoOffsets, 0))
      BY <3>1, TakingRight
    <3>3. Has(n, NoOffsets, bits2, Header, size)
      <4>1. Has(n, NoOffsets, bits2, Header, MaxMedium)
        BY <3>1, <3>2, Sizes
      <4> QED BY <4>1, <3>2, <1>1, Sizes, HasLess
    <3>4. \A a, z : ~VacantAt(NoOffsets, bits2, a, z)
      BY <3>1, <3>2
    <3>5. new = {}
      BY <2>2
    <3> HIDE DEF new
    <3> QED BY <3>1, <3>2, <3>3, <3>4, <3>5, <2>0 DEF bits2
  <2> QED BY <2>1, <2>2
<1>4. ASSUME RegionChange(s, {}, new) PROVE BinsInv'
  <2>1. CASE fits
    <3>1. at \in 0..(SlabSize - 1)
      BY <1>1, <2>1, Sizes
    <3> HIDE DEF at, rest
    <3> QED BY <1>1, <1>2, <1>4, <3>1, LinkedIfFits
  <2>2. CASE ~fits
    <3>1. RegionChange(s, {}, {}) /\ mediumbins' = mediumbins /\ marked' = marks
      BY <1>1, <1>2, <1>4, <2>2, Sizes DEF LinkIfFits
    <3> QED BY <3>1, UnlinkNone, BinsAfter
  <2> QED BY <2>1, <2>2
<1>5. Header \in Header..SlabSize
  BY Sizes
<1> HIDE DEF offs2, new
<1> QED BY <1>2, <1>3, <1>4, <1>5, NewRegion

LEMMA InitLargeRight ==
  ASSUME IInv, NEW s \in Slabs, n_slabs[s] = 0, NEW n \in Nat, n > 0, n <= MaxSlabs,
         NEW size \in Requests, SlabSize <= size, size + Header <= n * SlabSize,
         n_slabs' = [n_slabs EXCEPT ![s] = n], aborted' = aborted, InitLarge(s, size, marked)
  PROVE  IInv'
<1> DEFINE at == SlabSize - (size % SlabSize)
           rest == at - Header
           fits == rest >= MinMedium
           offs2 == IF fits THEN AppendOffset(NoOffsets, 0, at) ELSE NoOffsets
           bits2 == IF fits THEN {1} ELSE {0}
           a2 == IF fits THEN at ELSE Header
           new == IF fits THEN {<<Header, rest>>} ELSE {}
<1>1. /\ size \in Nat /\ at \in Nat /\ at <= SlabSize /\ rest \in Int /\ rest <= MaxMedium
      /\ size % SlabSize \in 0..(SlabSize - 1)
  <2>1. size \in Nat
    BY RequestsAre
  <2>2. size % SlabSize \in 0..(SlabSize - 1)
    BY <2>1, Sizes, Division
  <2> DEFINE r == size % SlabSize
  <2>3. r \in 0..(SlabSize - 1)
    BY <2>2
  <2> HIDE DEF r
  <2>4. SlabSize - r \in Nat /\ SlabSize - r <= SlabSize /\ SlabSize - r - Header \in Int /\ SlabSize - r - Header <= MaxMedium
    BY <2>3, Sizes
  <2> QED BY <2>1, <2>2, <2>4 DEF r
<1>2. /\ block_offs' = [block_offs EXCEPT ![s] = offs2] /\ block_alloc' = [block_alloc EXCEPT ![s] = bits2]
      /\ LinkIfFits(mediumbins, marked, Block(s, Header), rest)
      /\ held' = held \cup {HeldBlock(s, a2, size)}
  BY DEF InitLarge, Holding, HeldBlock
<1>3. n * SlabSize \in Nat /\ size <= n * SlabSize - Header /\ size <= n * SlabSize - at
  <2> DEFINE k == size \div SlabSize
             r == size % SlabSize
             kS == k * SlabSize
             nS == n * SlabSize
  <2>1. k \in Nat /\ r \in 0..(SlabSize - 1) /\ size = (k * SlabSize) + r
    BY <1>1, Sizes, Division
  <2> HIDE DEF k, r
  <2>2. kS \in Nat /\ nS \in Nat /\ size = kS + r /\ size + Header <= nS
    BY <2>1, Sizes
  <2>3. kS < nS
    BY <2>1, <2>2, <1>1, Sizes
  <2>4. k < n
    <3> SUFFICES ASSUME n <= k PROVE FALSE
      BY <2>1
    <3>1. n * SlabSize <= k * SlabSize
      BY <2>1, Sizes, TimesMonotone
    <3>2. nS <= kS
      BY <3>1
    <3> HIDE DEF nS, kS
    <3> QED BY <2>2, <2>3, <3>2
  <2>5. kS + SlabSize <= nS
    <3>1. (k + 1) * SlabSize <= n * SlabSize
      BY <2>1, <2>4, Sizes, TimesMonotone
    <3>2. (k + 1) * SlabSize = (k * SlabSize) + SlabSize
      BY <2>1, Sizes
    <3> QED BY <3>1, <3>2
  <2>6. at = SlabSize - r
    BY DEF r
  <2> HIDE DEF kS, nS, at
  <2>7. nS \in Nat /\ size <= nS - Header /\ size <= nS - at
    BY <2>1, <2>2, <2>5, <2>6, <1>1, Sizes
  <2> QED BY <2>7 DEF nS
<1>4. /\ WellLaid(offs2, bits2) /\ bits2 # {} /\ Has(n, offs2, bits2, a2, size)
      /\ \A a, z : VacantAt(offs2, bits2, a, z) <=> <<a, z>> \in new
      /\ \A j \in bits2 : AdjOffset(offs2, j) = a2
  <2>1. CASE fits
    <3>1. offs2 = AppendOffset(NoOffsets, 0, at) /\ bits2 = {1} /\ a2 = at /\ new = {<<Header, rest>>}
      BY <2>1
    <3>2. Header + MinMedium <= at
      BY <1>1, <2>1, Sizes
    <3> HIDE DEF at, offs2, bits2, new, a2
    <3>3. /\ WellLaid(offs2, {1})
          /\ \A a, size_1 : VacantAt(offs2, {1}, a, size_1) <=> a = Header /\ size_1 = at - Header
          /\ AdjOffset(offs2, 1) = at /\ Room(n, offs2, {1}, 1) = n * SlabSize - at
      BY <1>1, <3>1, <3>2, LargeRegion
    <3>4. Has(n, offs2, {1}, at, size)
      <4>1. size <= Room(n, offs2, {1}, 1) /\ 1 \in {1}
        BY <3>3, <1>3
      <4> QED BY <3>3, <4>1 DEF Has
    <3> QED BY <3>1, <3>3, <3>4
  <2>2. CASE ~fits
    <3>1. offs2 = NoOffsets /\ bits2 = {0} /\ a2 = Header /\ new = {}
      BY <2>2
    <3> DEFINE none == {}
    <3>2. /\ WellLaid(NoOffsets, none) /\ OffsetAt(NoOffsets, 0) = Header
          /\ \A a, z : VacantAt(NoOffsets, none, a, z) <=> a = Header /\ z = MaxMedium
          /\ n \in Nat \ {0} /\ Vacant(NoOffsets, none, 0) /\ 0 \in Nat /\ bits2 = none \cup {0}
          /\ OffsetAt(NoOffsets, 1) = 0
      BY <3>1, EmptyRegion
    <3> HIDE DEF none
    <3>3. /\ WellLaid(NoOffsets, bits2)
          /\ \A a, z : VacantAt(NoOffsets, bits2, a, z) <=>
               VacantAt(NoOffsets, none, a, z) /\ a # OffsetAt(NoOffsets, 0)
      <4> HIDE DEF bits2
      <4> QED BY <3>2, TakingRight
    <3>4. AdjOffset(NoOffsets, 0) = Header
      BY <3>2, PastTheLast, Sizes
    <3>5. Has(n, NoOffsets, bits2, Header, size)
      <4>1. ~Known(NoOffsets, bits2, 0 + 1)
        BY <3>1, <3>2 DEF Known
      <4>2. Room(n, NoOffsets, bits2, 0) = n * SlabSize - Header
        BY <3>4, <4>1 DEF Room
      <4>3. size <= Room(n, NoOffsets, bits2, 0) /\ 0 \in bits2
        BY <4>2, <1>3, <3>1
      <4> QED BY <4>3, <3>4 DEF Has
    <3> HIDE DEF offs2, bits2, new, a2
    <3> QED BY <3>1, <3>2, <3>3, <3>4, <3>5
  <2> QED BY <2>1, <2>2
<1>5. ASSUME RegionChange(s, {}, new) PROVE BinsInv'
  <2>1. Header \in 0..(SlabSize - 1) /\ BinsHold(mediumbins, marked, FreeBlocks)
    BY Sizes DEF IInv, BinsInv
  <2>2. ~(n_slabs[s] > 0)
    OBVIOUS
  <2> HIDE DEF rest
  <2> QED BY <1>1, <1>2, <1>5, <2>1, <2>2, LinkedIfFits
<1>6. a2 \in Header..SlabSize
  BY <1>1, Sizes
<1> HIDE DEF offs2, bits2, a2, new
<1> QED BY <1>2, <1>4, <1>5, <1>6, NewRegion

LEMMA AllocFromNewSlabsRight ==
  ASSUME IInv, NEW size \in Requests, AllocFromNewSlabs(size)
  PROVE  IInv'
<1> DEFINE n == CeilDiv(size + Header, SlabSize)
<1>1. size \in Nat /\ MinMedium <= size /\ (size > MaxMedium => SlabSize <= size)
  BY RequestsAre
<1>2. n \in Nat /\ n > 0 /\ size + Header <= n * SlabSize
  <2>1. size + Header \in Nat /\ size + Header > 0 /\ SlabSize \in Nat \ {0}
    BY <1>1, Sizes
  <2> QED BY <2>1, CeilDivIs
<1>3. /\ n <= MaxSlabs /\ aborted' = aborted
      /\ \E s \in Slabs :
          /\ n_slabs[s] = 0
          /\ n_slabs' = [n_slabs EXCEPT ![s] = n]
          /\ \/ size <= MaxMedium /\ Fitting(size) = {}
                /\ InitMedium(s, size, {y \in marked : y < size})
             \/ size > MaxMedium /\ InitLarge(s, size, marked)
  BY DEF AllocFromNewSlabs
<1> HIDE DEF n
<1>4. PICK s \in Slabs : 
          /\ n_slabs[s] = 0
          /\ n_slabs' = [n_slabs EXCEPT ![s] = n]
          /\ \/ size <= MaxMedium /\ Fitting(size) = {}
                /\ InitMedium(s, size, {y \in marked : y < size})
             \/ size > MaxMedium /\ InitLarge(s, size, marked)
  BY <1>3
<1>5. CASE size <= MaxMedium /\ Fitting(size) = {} /\ InitMedium(s, size, {y \in marked : y < size})
  <2> DEFINE marks == {y \in marked : y < size}
  <2>1. /\ marked \in SUBSET (MinMedium..MaxMedium) /\ BinsHold(mediumbins, marked, FreeBlocks)
        /\ \A y \in MinMedium..MaxMedium : mediumbins[y] # <<>> => y \in marked
    BY DEF IInv, BinsInv, BinsHold
  <2>2. ASSUME NEW y \in MinMedium..MaxMedium, mediumbins[y] # <<>> PROVE y \in marks
    <3>1. ~(y >= size)
      BY <2>1, <2>2, <1>5 DEF Fitting
    <3>2. y < size
      BY <3>1, <1>1, Sizes
    <3> QED BY <2>1, <2>2, <3>2
  <2>3. BinsHold(mediumbins, marks, FreeBlocks)
    BY <2>1, <2>2, Marking
  <2> HIDE DEF marks
  <2>4. InitMedium(s, size, marks)
    BY <1>5 DEF marks
  <2> QED BY <1>2, <1>3, <1>4, <1>5, <2>3, <2>4, InitMediumRight
<1>6. CASE size > MaxMedium /\ InitLarge(s, size, marked)
  <2>1. SlabSize <= size
    BY <1>1, <1>6
  <2> QED BY <1>2, <1>3, <1>4, <1>6, <2>1, InitLargeRight
<1> QED BY <1>4, <1>5, <1>6

(* A program that has stopped.                                               *)
LEMMA StandsStill ==
  ASSUME IInv, UNCHANGED <<header, bins, held>>, aborted' \in {"no", "assertion", "wild unlink"}
  PROVE  IInv'
<1>1. /\ n_slabs' = n_slabs /\ block_offs' = block_offs /\ block_alloc' = block_alloc
      /\ mediumbins' = mediumbins /\ marked' = marked /\ held' = held
  BY DEF header, bins
<1>2. TypesInv' /\ HeadersInv'
  BY <1>1 DEF IInv, TypesInv, HeadersInv
<1>3. FreeBlocks' = FreeBlocks
  BY <1>1 DEF FreeBlocks, Ours
<1>4. BinsInv'
  BY <1>1, <1>3 DEF IInv, BinsInv
<1>5. HeldInv'
  BY <1>1 DEF IInv, HeldInv
<1> QED BY <1>2, <1>4, <1>5 DEF IInv

(* A header that stays the same, of a region that is made longer or cut at   *)
(* the end of its last block.                                               *)
LEMMA KeepsStill ==
  ASSUME NEW offs, NEW bits, WellLaid(offs, bits), NEW i \in Nat, i \in bits,
         NEW n \in Nat \ {0}, NEW n2 \in Nat \ {0}, n <= n2 \/ ~Known(offs, bits, i + 1)
  PROVE  Keeps(n, offs, bits, n2, offs, bits, AdjOffset(offs, i))
<1>1. Shift(offs, bits, offs, bits, i, i + 1, 0)
  BY DEF Shift, WellLaid
<1>2. \A k \in Nat : i <= k /\ k < i + 1 => k = i
  OBVIOUS
<1>3. \A k \in Nat : i <= k /\ k < i + 1 + 0 => k = i
  OBVIOUS
<1>4. Known(offs, bits, i) /\ AdjOffset(offs, i) <= AdjOffset(offs, i)
  BY PastTheLast DEF Known
<1> QED BY <1>1, <1>2, <1>3, <1>4, ShiftedKeeps

(* A block that is as large as a slab goes on to the end of the region, and  *)
(* no other block does.                                                     *)
LEMMA LargeIsLast ==
  ASSUME NEW n \in Nat \ {0}, NEW offs, NEW bits, WellLaid(offs, bits), NEW i \in Nat, i \in bits,
         SlabSize <= Room(n, offs, bits, i)
  PROVE  ~Known(offs, bits, i + 1) /\ Room(n, offs, bits, i) = n * SlabSize - AdjOffset(offs, i)
<1>1. AdjOffset(offs, i) \in 1..SlabSize /\ AdjOffset(offs, i + 1) \in 1..SlabSize
  BY PastTheLast
<1>2. ~Known(offs, bits, i + 1)
  BY <1>1, Sizes DEF Room
<1> QED BY <1>2 DEF Room

(* One block of a region is resized or freed, and its region stays ours.     *)
LEMMA OneBlock ==
  ASSUME IInv, NEW b \in held, NEW n2 \in Nat, n2 > 0, n2 <= MaxSlabs,
         NEW offs2, NEW bits2, WellLaid(offs2, bits2), bits2 # {},
         Keeps(n_slabs[b.slab], block_offs[b.slab], block_alloc[b.slab], n2, offs2, bits2, b.at),
         n_slabs' = [n_slabs EXCEPT ![b.slab] = n2] \/ (n_slabs' = n_slabs /\ n2 = n_slabs[b.slab]),
         block_offs' = [block_offs EXCEPT ![b.slab] = offs2]
           \/ (block_offs' = block_offs /\ offs2 = block_offs[b.slab]),
         block_alloc' = [block_alloc EXCEPT ![b.slab] = bits2]
           \/ (block_alloc' = block_alloc /\ bits2 = block_alloc[b.slab]),
         aborted' = aborted,
         NEW gone, NEW new,
         \A a, z : VacantAt(offs2, bits2, a, z) <=>
           \/ VacantAt(block_offs[b.slab], block_alloc[b.slab], a, z) /\ a \notin gone
           \/ <<a, z>> \in new,
         RegionChange(b.slab, gone, new) => BinsInv',
         \/ held' = held \ {b} /\ \A j \in bits2 : AdjOffset(offs2, j) # b.at
         \/ \E size \in Requests : Resized(b, size) /\ Has(n2, offs2, bits2, b.at, size)
  PROVE  IInv'
<1> DEFINE s == b.slab
<1>1. TypesInv /\ HeadersInv /\ HeldInv
  BY DEF IInv
<1>2. TakenAt(s, b.at, PosOf(s, b.at))
  BY <1>1, HeldFound
<1>3. s \in Slabs /\ b.at \in Header..SlabSize /\ n_slabs[s] > 0
  BY <1>2 DEF TakenAt
<1>4. /\ n2 \in 0..MaxSlabs /\ offs2 \in [Indexes -> 0..(SlabSize - 1)] /\ bits2 \in SUBSET Indexes
  BY Sizes DEF WellLaid
<1>5. OnlyAt(s) /\ n_slabs'[s] = n2 /\ block_offs'[s] = offs2 /\ block_alloc'[s] = bits2
  BY <1>1, <1>3, <1>4, OneChanged
<1>6. RegionChange(s, gone, new)
  BY <1>3, <1>5 DEF RegionChange
<1>7. Keeps(n_slabs[s], block_offs[s], block_alloc[s], n_slabs'[s], block_offs'[s], block_alloc'[s], b.at)
  BY <1>5
<1>8. held \ {b} = ButAt(s, b.at)
  BY <1>1, HeldButOne
<1>9. HeldInv'
  <2>1. CASE held' = held \ {b} /\ \A j \in bits2 : AdjOffset(offs2, j) # b.at
    <3>1. held' = ButAt(s, b.at) \cup {}
      BY <2>1, <1>8
    <3>2. \A j \in block_alloc'[s] : AdjOffset(block_offs'[s], j) # b.at
      BY <2>1, <1>5
    <3> QED BY <1>1, <1>3, <1>5, <1>7, <3>1, <3>2, HeldAfter
  <2>2. ASSUME NEW size \in Requests, Resized(b, size), Has(n2, offs2, bits2, b.at, size)
        PROVE  HeldInv'
    <3>1. [b EXCEPT !.size = size] = HeldBlock(s, b.at, size)
      <4>1. b \in [slab : Slabs, at : Header..SlabSize, size : Requests]
        BY <1>1 DEF HeldInv
      <4> QED BY <4>1 DEF HeldBlock
    <3>2. held' = ButAt(s, b.at) \cup {HeldBlock(s, b.at, size)}
      BY <2>2, <3>1, <1>8 DEF Resized
    <3>3. Has(n_slabs'[s], block_offs'[s], block_alloc'[s], b.at, size)
      BY <2>2, <1>5
    <3> QED BY <1>1, <1>3, <1>5, <1>7, <3>2, <3>3, HeldAfter
  <2> QED BY <2>1, <2>2
<1> QED BY <1>3, <1>5, <1>6, <1>9, OneRegion

(* The same when the header and the bins stay as they are.                   *)
LEMMA OnlyResized ==
  ASSUME IInv, NEW b \in held, NEW size \in Requests, NEW n2 \in Nat, n2 > 0, n2 <= MaxSlabs,
         n_slabs' = [n_slabs EXCEPT ![b.slab] = n2] \/ (n_slabs' = n_slabs /\ n2 = n_slabs[b.slab]),
         block_offs' = block_offs, block_alloc' = block_alloc, mediumbins' = mediumbins,
         marked' = marked, aborted' = aborted, Resized(b, size),
         NEW i \in Nat, TakenAt(b.slab, b.at, i),
         n_slabs[b.slab] <= n2 \/ ~Known(block_offs[b.slab], block_alloc[b.slab], i + 1),
         size <= Room(n2, block_offs[b.slab], block_alloc[b.slab], i)
  PROVE  IInv'
<1> DEFINE offs == block_offs[b.slab]
           bits == block_alloc[b.slab]
           n == n_slabs[b.slab]
<1>1. /\ WellLaid(offs, bits) /\ i \in bits /\ AdjOffset(offs, i) = b.at /\ b.slab \in Slabs
      /\ n \in Nat \ {0}
  BY DEF TakenAt
<1>2. Keeps(n, offs, bits, n2, offs, bits, b.at)
  BY <1>1, KeepsStill
<1>3. Has(n2, offs, bits, b.at, size)
  BY <1>1 DEF Has
<1>4. ASSUME RegionChange(b.slab, {}, {}) PROVE BinsInv'
  <2>1. BinsHold(mediumbins, marked, Left(b.slab, {}))
    BY UnlinkNone DEF IInv, BinsInv
  <2> QED BY <1>1, <1>4, <2>1, BinsAfter
<1>5. /\ \A a, z : VacantAt(offs, bits, a, z) <=>
           \/ VacantAt(offs, bits, a, z) /\ a \notin {}
           \/ <<a, z>> \in {}
      /\ bits # {}
  BY <1>1
<1>6. \E z \in Requests : Resized(b, z) /\ Has(n2, offs, bits, b.at, z)
  BY <1>3
<1>7. /\ n_slabs' = [n_slabs EXCEPT ![b.slab] = n2] \/ (n_slabs' = n_slabs /\ n2 = n_slabs[b.slab])
      /\ block_offs' = block_offs /\ offs = block_offs[b.slab]
      /\ block_alloc' = block_alloc /\ bits = block_alloc[b.slab] /\ n = n_slabs[b.slab]
  OBVIOUS
<1> DEFINE none == {}
<1>8. /\ RegionChange(b.slab, none, none) => BinsInv'
      /\ \A a, z : VacantAt(offs, bits, a, z) <=>
           \/ VacantAt(offs, bits, a, z) /\ a \notin none
           \/ <<a, z>> \in none
  BY <1>4, <1>5
<1> HIDE DEF offs, bits, n, none
<1>9. /\ Keeps(n_slabs[b.slab], block_offs[b.slab], block_alloc[b.slab], n2, offs, bits, b.at)
      /\ \A a, z : VacantAt(offs, bits, a, z) <=>
           \/ VacantAt(block_offs[b.slab], block_alloc[b.slab], a, z) /\ a \notin none
           \/ <<a, z>> \in none
  BY <1>2, <1>7, <1>8
<1> QED BY <1>1, <1>5, <1>6, <1>7, <1>8, <1>9, OneBlock

LEMMA GrowLargeRight ==
  ASSUME IInv, NEW b \in held, NEW size \in Requests, GrowLarge(b, size)
  PROVE  IInv'
<1> DEFINE s == b.slab
           i == PosOf(s, b.at)
           n == n_slabs[s]
           had == SizeOf(b)
           slabs == CeilDiv(size - had, SlabSize)
<1>1. /\ TakenAt(s, b.at, i) /\ b.size <= had /\ size \in Nat /\ had = BlockSize(s, i)
  BY HeldFound, RequestsAre DEF IInv, SizeOf
<1>2. /\ had >= SlabSize /\ size > had /\ n + slabs <= MaxSlabs
      /\ n_slabs' = [n_slabs EXCEPT ![s] = n + slabs]
      /\ Resized(b, size)
      /\ block_offs' = block_offs /\ block_alloc' = block_alloc /\ mediumbins' = mediumbins
      /\ marked' = marked /\ aborted' = aborted
  BY DEF GrowLarge, bins
<1>3. /\ s \in Slabs /\ n \in Nat \ {0} /\ WellLaid(block_offs[s], block_alloc[s])
      /\ i \in Nat /\ i \in block_alloc[s] /\ b.at \in Header..SlabSize
      /\ had = Room(n, block_offs[s], block_alloc[s], i) /\ AdjOffset(block_offs[s], i) = b.at
  BY <1>1 DEF TakenAt
<1> HIDE DEF s, i, n, had, slabs
<1>4. had \in Int
  BY <1>3, RoomIsInt
<1>5. /\ ~Known(block_offs[s], block_alloc[s], i + 1) /\ had = n * SlabSize - b.at
  BY <1>2, <1>3, <1>4, LargeIsLast, Sizes
<1>6. /\ slabs \in Nat /\ slabs * SlabSize \in Nat /\ size - had <= slabs * SlabSize
  BY <1>1, <1>2, <1>4, CeilDivIs, Sizes DEF slabs
<1>7. /\ n + slabs \in Nat /\ n + slabs > 0 /\ n <= n + slabs
      /\ (n + slabs) * SlabSize = (n * SlabSize) + (slabs * SlabSize) /\ n * SlabSize \in Int
  BY <1>3, <1>6, Sizes
<1>8. size <= Room(n + slabs, block_offs[s], block_alloc[s], i)
  <2> DEFINE nS == n * SlabSize
             mS == slabs * SlabSize
  <2>1. Room(n + slabs, block_offs[s], block_alloc[s], i) = (n + slabs) * SlabSize - b.at
    BY <1>3, <1>5 DEF Room
  <2>2. /\ (n + slabs) * SlabSize = nS + mS /\ nS \in Int /\ mS \in Int /\ had = nS - b.at /\ size - had <= mS
        /\ b.at \in Int
    BY <1>3, <1>5, <1>6, <1>7
  <2> HIDE DEF nS, mS
  <2>3. size <= (nS + mS) - b.at
    BY <2>2, <1>1, <1>4
  <2> QED BY <2>1, <2>2, <2>3
<1> QED BY <1>1, <1>2, <1>3, <1>7, <1>8, OnlyResized DEF s, n

LEMMA ShrinkLargeRight ==
  ASSUME IInv, NEW b \in held, NEW size \in Requests, ShrinkLarge(b, size)
  PROVE  IInv'
<1> DEFINE s == b.slab
           i == PosOf(s, b.at)
           n == n_slabs[s]
           had == SizeOf(b)
           rest == had - size
           n2 == CeilDiv(size + Header, SlabSize)
<1>1. /\ TakenAt(s, b.at, i) /\ b.size <= had /\ size \in Nat /\ had = BlockSize(s, i)
  BY HeldFound, RequestsAre DEF IInv, SizeOf
<1>2. /\ had >= SlabSize /\ size <= had
      /\ \/ /\ n2 + rest \div SlabSize = n
            /\ n_slabs' = [n_slabs EXCEPT ![s] = n2]
            /\ Resized(b, size)
            /\ block_offs' = block_offs /\ block_alloc' = block_alloc /\ mediumbins' = mediumbins
            /\ marked' = marked /\ aborted' = aborted
         \/ Abort("assertion")
  BY DEF ShrinkLarge, bins
<1>3. CASE Abort("assertion")
  BY <1>3, StandsStill DEF Abort
<1>4. CASE /\ n2 + rest \div SlabSize = n
           /\ n_slabs' = [n_slabs EXCEPT ![s] = n2]
           /\ Resized(b, size)
           /\ block_offs' = block_offs /\ block_alloc' = block_alloc /\ mediumbins' = mediumbins
           /\ marked' = marked /\ aborted' = aborted
  <2>1. /\ s \in Slabs /\ n \in Nat \ {0} /\ n <= MaxSlabs /\ WellLaid(block_offs[s], block_alloc[s])
        /\ i \in Nat /\ i \in block_alloc[s] /\ b.at \in Header..SlabSize
        /\ had = Room(n, block_offs[s], block_alloc[s], i) /\ AdjOffset(block_offs[s], i) = b.at
    BY <1>1 DEF TakenAt
  <2>2. /\ n2 \in Nat /\ n2 > 0
    BY <1>1, CeilDivIs, Sizes
  <2> HIDE DEF s, i, n, had, rest, n2
  <2>3. had \in Int /\ rest \in Nat
    BY <1>1, <1>2, <2>1, RoomIsInt DEF rest
  <2>4. /\ ~Known(block_offs[s], block_alloc[s], i + 1) /\ had = n * SlabSize - b.at
    BY <1>2, <2>1, <2>3, LargeIsLast, Sizes
  <2> DEFINE q == rest \div SlabSize
  <2>5. q \in Nat /\ rest % SlabSize \in 0..(SlabSize - 1) /\ rest = (q * SlabSize) + (rest % SlabSize)
    BY <2>3, Sizes, Division
  <2>6. n2 + q = n
    BY <1>4
  <2> HIDE DEF q
  <2>7. n2 <= MaxSlabs
    BY <2>1, <2>2, <2>5, <2>6, Sizes
  <2>8. size <= Room(n2, block_offs[s], block_alloc[s], i)
    <3> DEFINE nS == n * SlabSize
               mS == n2 * SlabSize
               qS == q * SlabSize
    <3>1. Room(n2, block_offs[s], block_alloc[s], i) = mS - b.at
      BY <2>1, <2>4 DEF Room
    <3>2. /\ nS = mS + qS /\ nS \in Int /\ mS \in Int /\ qS \in Int /\ had = nS - b.at
          /\ rest = qS + (rest % SlabSize)
      <4>1. (n2 + q) * SlabSize = (n2 * SlabSize) + (q * SlabSize)
        BY <2>2, <2>5, Sizes
      <4> QED BY <4>1, <2>1, <2>2, <2>4, <2>5, <2>6, Sizes
    <3>3. rest = had - size /\ b.at \in Int
      BY <2>1 DEF rest
    <3> HIDE DEF nS, mS, qS
    <3>4. size <= mS - b.at
      BY <3>2, <3>3, <2>3, <2>5, <1>1
    <3> QED BY <3>1, <3>4
  <2> QED BY <1>1, <1>4, <2>1, <2>2, <2>4, <2>7, <2>8, OnlyResized DEF s, n
<1> QED BY <1>2, <1>3, <1>4

(* What a large block has in its first slab.                                 *)
LEMMA HangoverIs ==
  ASSUME NEW n \in Nat \ {0}, NEW a \in 1..SlabSize, NEW had \in Nat, had = n * SlabSize - a
  PROVE  had % SlabSize = (IF a = SlabSize THEN 0 ELSE SlabSize - a)
<1> DEFINE q == had \div SlabSize
           r == had % SlabSize
           nS == n * SlabSize
           qS == q * SlabSize
<1>1. q \in Nat /\ r \in 0..(SlabSize - 1) /\ had = (q * SlabSize) + r
  BY Sizes, Division
<1> HIDE DEF q, r
<1>2. nS \in Int /\ qS \in Int /\ had = qS + r /\ had = nS - a
  BY <1>1, Sizes
<1>3. nS - qS = a + r
  <2> HIDE DEF nS, qS
  <2> QED BY <1>1, <1>2
<1> DEFINE k == n - q
<1>4. k \in Int /\ k * SlabSize = nS - qS
  <2>1. k \in Int /\ n = q + k
    BY <1>1
  <2> HIDE DEF k
  <2>2. (q + k) * SlabSize = (q * SlabSize) + (k * SlabSize) /\ k * SlabSize \in Int
    BY <2>1, <1>1, Sizes
  <2> QED BY <2>1, <2>2, <1>2
<1> HIDE DEF nS, qS, k
<1>5. k * SlabSize = a + r
  BY <1>3, <1>4
<1>6. k = 1
  <2>1. CASE k <= 0
    <3>1. k * SlabSize <= 0 * SlabSize /\ 0 * SlabSize = 0
      BY <2>1, <1>4, Sizes, TimesMonotone
    <3> QED BY <3>1, <1>5, <1>1, Sizes
  <2>2. CASE 2 <= k
    <3>1. 2 * SlabSize <= k * SlabSize
      BY <2>2, <1>4, Sizes, TimesMonotone
    <3> QED BY <3>1, <1>5, <1>1, Sizes
  <2> QED BY <2>1, <2>2, <1>4
<1>7. a + r = SlabSize
  <2>1. 1 * SlabSize = SlabSize
    BY Sizes
  <2> QED BY <2>1, <1>5, <1>6
<1>8. r = IF a = SlabSize THEN 0 ELSE SlabSize - a
  BY <1>7, <1>1, Sizes
<1> QED BY <1>8 DEF r

LEMMA AppendIsPush ==
  ASSUME NEW offs, NEW bits, WellLaid(offs, bits), NEW i \in Nat, ~Known(offs, bits, i + 1), NEW at
  PROVE  AppendOffset(offs, i, at) = PushOffset(offs, i, at)
<1>1. ASSUME NEW j \in Indexes, ~(j <= i), j # i + 1 PROVE offs[j - 1] = 0
  <2>1. j \in Nat /\ j - 1 \in Nat /\ j - 1 \in Indexes /\ i + 1 <= j - 1
    BY <1>1, LastIdxBound DEF Indexes
  <2>2. ~Known(offs, bits, j - 1)
    <3>1. i + 1 = j - 1 \/ i + 1 < j - 1
      BY <2>1
    <3> QED BY <2>1, <3>1, Ascending DEF InOrder
  <2>3. OffsetAt(offs, j - 1) = offs[j - 1]
    BY <2>1, PastTheLast
  <2> QED BY <2>2, <2>3 DEF Known
<1> QED BY <1>1 DEF AppendOffset, PushOffset

LEMMA ShrinkToMediumRight ==
  ASSUME IInv, NEW b \in held, NEW size \in Requests, ShrinkToMedium(b, size)
  PROVE  IInv'
<1> DEFINE s == b.slab
           i == PosOf(s, b.at)
           n == n_slabs[s]
           offs == block_offs[s]
           bits == block_alloc[s]
           had == SizeOf(b)
           hangover == had % SlabSize
           at == SlabSize - hangover + size
           rest == hangover - size
           offs2 == AppendOffset(offs, i, at)
<1>1. /\ TakenAt(s, b.at, i) /\ b.size <= had /\ size \in Nat /\ MinMedium <= size /\ had = BlockSize(s, i)
  BY HeldFound, RequestsAre DEF IInv, SizeOf
<1>2. /\ had >= SlabSize /\ size <= hangover
      /\ n_slabs' = [n_slabs EXCEPT ![s] = 1]
      /\ block_offs' = IF rest >= MinMedium THEN [block_offs EXCEPT ![s] = offs2] ELSE block_offs
      /\ LinkIfFits(mediumbins, marked, Block(s, at), rest)
      /\ Resized(b, size)
      /\ block_alloc' = block_alloc /\ aborted' = aborted
  BY DEF ShrinkToMedium
<1>3. /\ s \in Slabs /\ n \in Nat \ {0} /\ WellLaid(offs, bits)
      /\ i \in Nat /\ i \in bits /\ b.at \in Header..SlabSize /\ i \in Indexes
      /\ had = Room(n, offs, bits, i) /\ AdjOffset(offs, i) = b.at
  BY <1>1 DEF TakenAt
<1>4. had \in Int
  <2> HIDE DEF s, i, n, offs, bits, had
  <2> QED BY <1>3, RoomIsInt
<1>5. /\ ~Known(offs, bits, i + 1) /\ had = n * SlabSize - b.at
  <2> HIDE DEF s, i, n, offs, bits, had
  <2> QED BY <1>2, <1>3, <1>4, LargeIsLast, Sizes
<1>6. hangover = SlabSize - b.at /\ b.at < SlabSize
  <2>1. b.at \in 1..SlabSize /\ had \in Nat
    BY <1>2, <1>3, <1>4, Sizes
  <2>2. hangover = IF b.at = SlabSize THEN 0 ELSE SlabSize - b.at
    <3> HIDE DEF had, n
    <3> QED BY <2>1, <1>3, <1>5, HangoverIs
  <2> HIDE DEF hangover
  <2> QED BY <2>1, <2>2, <1>1, <1>2, Sizes
<1>7. /\ at = b.at + size /\ rest = SlabSize - at /\ at \in Nat /\ rest \in Int /\ size <= SlabSize - b.at
      /\ OffsetAt(offs, i) = b.at /\ OffsetAt(offs, i) # 0 /\ AdjOffset(offs, i + 1) = SlabSize
      /\ OffsetAt(offs, i + 1) = 0 /\ b.at \in Nat
  <2>1. /\ b.at \in Nat /\ b.at # 0 /\ b.at # SlabSize
    BY <1>3, <1>6, Sizes
  <2>2. OffsetAt(offs, i) = b.at
    BY <2>1, <1>3, PastTheLast
  <2>3. OffsetAt(offs, i + 1) = 0
    BY <1>5 DEF Known
  <2>4. AdjOffset(offs, i + 1) = SlabSize
    BY <2>3, <1>3, PastTheLast
  <2> DEFINE h == hangover
  <2>5. h = SlabSize - b.at /\ size <= h
    BY <1>2, <1>6
  <2> HIDE DEF h
  <2>6. SlabSize - h + size = b.at + size /\ h - size = SlabSize - (b.at + size) /\ size <= SlabSize - b.at
    BY <2>1, <2>5, <1>1, Sizes
  <2> QED BY <2>1, <2>2, <2>3, <2>4, <2>6, <1>1, Sizes DEF h
<1>8. 1 \in Nat /\ 1 <= MaxSlabs /\ 1 > 0
  BY Sizes
<1> HIDE DEF s, i, n, offs, bits, had, hangover, at, rest, offs2
<1>9. CASE rest >= MinMedium
  <2>1. bits = {c \in bits : c < i} \cup {i} \cup {c + 1 : c \in {d \in bits : d > i}}
    <3>1. \A c \in bits : c \in Nat /\ Known(offs, bits, c)
      BY <1>3, LastIdxBound DEF WellLaid, Indexes, Known
    <3>2. \A c \in bits : ~(c > i)
      <4> SUFFICES ASSUME NEW c \in bits, c > i PROVE FALSE
        OBVIOUS
      <4>1. c = i + 1 \/ i + 1 < c
        BY <3>1, <1>3
      <4>2. Known(offs, bits, i + 1)
        BY <3>1, <4>1, <1>3, Ascending DEF InOrder
      <4> QED BY <4>2, <1>5
    <3>3. \A c \in bits : c < i \/ c = i
      BY <3>1, <3>2, <1>3
    <3> QED BY <3>2, <3>3, <1>3
  <2>2. offs2 = PushOffset(offs, i, at)
    BY <1>3, <1>5, AppendIsPush DEF offs2
  <2>3. OffsetAt(offs, i) + MinMedium <= at /\ at + MinMedium <= AdjOffset(offs, i + 1)
    BY <1>1, <1>7, <1>9, Sizes
  <2> DEFINE bits2 == bits
             one == 1
  <2>4. /\ bits2 = {c \in bits : c < i} \cup {i} \cup {c + 1 : c \in {d \in bits : d > i}}
        /\ one \in Nat \ {0}
    BY <2>1
  <2> HIDE DEF bits2, one
  <2>5. /\ WellLaid(offs2, bits2)
        /\ \A a, z : VacantAt(offs2, bits2, a, z) <=>
             \/ VacantAt(offs, bits, a, z) /\ a # OffsetAt(offs, i)
             \/ a = at /\ z = AdjOffset(offs, i + 1) - at
        /\ \A z : ~VacantAt(offs, bits, at, z)
        /\ Keeps(n, offs, bits, one, offs2, bits2, OffsetAt(offs, i))
        /\ Has(one, offs2, bits2, OffsetAt(offs, i), at - OffsetAt(offs, i))
    <3>1. /\ WellLaid(offs, bits) /\ n \in Nat \ {0} /\ i \in Nat /\ OffsetAt(offs, i) # 0 /\ at \in Nat
          /\ ~Known(offs, bits, i + 1)
          /\ OffsetAt(offs, i + 1) # 0 => i + 1 \in bits
      BY <1>3, <1>5, <1>7
    <3> QED BY SMTT(30), <3>1, <2>2, <2>3, <2>4, SplittingRight
  <2>6. /\ WellLaid(offs2, bits) /\ Keeps(n, offs, bits, 1, offs2, bits, b.at)
        /\ Has(1, offs2, bits, b.at, size)
    <3>1. at - OffsetAt(offs, i) = size
      BY <1>1, <1>7
    <3> QED BY <2>5, <3>1, <1>7 DEF bits2, one
  <2> DEFINE new == {<<at, rest>>}
             none == {}
  <2>7. \A a, z : VacantAt(offs2, bits, a, z) <=>
          \/ VacantAt(offs, bits, a, z) /\ a \notin none
          \/ <<a, z>> \in new
    <3>1. \A a, z : VacantAt(offs, bits, a, z) => a # OffsetAt(offs, i)
      BY <1>3, <1>7, TakenIsNotVacant
    <3> QED BY <2>5, <3>1, <1>7 DEF bits2
  <2>8. ASSUME RegionChange(s, none, new) PROVE BinsInv'
    <3>1. at \in 0..(SlabSize - 1) /\ rest <= MaxMedium
      BY <1>1, <1>3, <1>7, <1>9, Sizes
    <3>2. BinsHold(mediumbins, marked, FreeBlocks)
      BY DEF IInv, BinsInv
    <3>3. RegionChange(s, {}, IF rest >= MinMedium THEN {<<at, rest>>} ELSE {})
      BY <1>9, <2>8
    <3>4. \A y : ~(n_slabs[s] > 0 /\ VacantAt(block_offs[s], block_alloc[s], at, y))
      BY <2>5 DEF offs, bits
    <3> QED BY <1>2, <1>3, <1>7, <3>1, <3>2, <3>3, <3>4, LinkedIfFits
  <2>9. /\ block_offs' = [block_offs EXCEPT ![s] = offs2] /\ bits # {}
        /\ \E z \in Requests : Resized(b, z) /\ Has(1, offs2, bits, b.at, z)
    BY <1>2, <1>3, <1>9, <2>6
  <2> HIDE DEF new, none
  <2> QED BY <1>2, <1>8, <2>6, <2>7, <2>8, <2>9, OneBlock DEF s, n, offs, bits
<1>10. CASE ~(rest >= MinMedium)
  <2>1. block_offs' = block_offs /\ mediumbins' = mediumbins /\ marked' = marked
    BY <1>2, <1>10 DEF LinkIfFits
  <2>2. size <= Room(1, offs, bits, i)
    <3>1. Room(1, offs, bits, i) = 1 * SlabSize - b.at
      BY <1>3, <1>5 DEF Room
    <3> QED BY <3>1, <1>7, Sizes
  <2> QED BY <1>1, <1>2, <1>3, <1>5, <1>8, <2>1, <2>2, OnlyResized DEF s, offs, bits, n
<1> QED BY <1>9, <1>10

(* A medium block ends elsewhere and the free one after it begins there.     *)
LEMMA BoundaryMoved ==
  ASSUME IInv, NEW b \in held, NEW size \in Requests, NEW i, TakenAt(b.slab, b.at, i),
         Vacant(block_offs[b.slab], block_alloc[b.slab], i + 1), NEW at \in Nat, at = b.at + size,
         at + MinMedium <= AdjOffset(block_offs[b.slab], i + 2),
         block_offs' = [block_offs EXCEPT ![b.slab] = [block_offs[b.slab] EXCEPT ![i + 1] = at]],
         Link(Unlink(mediumbins, Block(b.slab, OffsetAt(block_offs[b.slab], i + 1))), marked,
              Block(b.slab, at), AdjOffset(block_offs[b.slab], i + 2) - at),
         Resized(b, size), n_slabs' = n_slabs, block_alloc' = block_alloc, aborted' = aborted
  PROVE  IInv'
<1> DEFINE s == b.slab
           n == n_slabs[s]
           offs == block_offs[s]
           bits == block_alloc[s]
           from == OffsetAt(offs, i + 1)
           rest == AdjOffset(offs, i + 2) - at
           offs2 == [offs EXCEPT ![i + 1] = at]
           lists == Unlink(mediumbins, Block(s, from))
<1>1. /\ s \in Slabs /\ n \in Nat \ {0} /\ n <= MaxSlabs /\ WellLaid(offs, bits)
      /\ i \in Nat /\ i \in bits /\ AdjOffset(offs, i) = b.at /\ b.at \in Header..SlabSize
      /\ size \in Nat /\ MinMedium <= size
  BY RequestsAre DEF TakenAt
<1>2. OffsetAt(offs, i) = b.at /\ OffsetAt(offs, i) + MinMedium <= at
  <2>1. Known(offs, bits, i + 1)
    BY DEF Vacant, Known
  <2>2. OffsetAt(offs, i) = b.at
    <3> HIDE DEF offs, bits
    <3> QED BY <2>1, <1>1, Ascending DEF InOrder
  <2> QED BY <2>2, <1>1, Sizes
<1>3. AdjOffset(offs, i + 2) \in 1..SlabSize /\ at \in 1..(SlabSize - 1)
  <2>1. AdjOffset(offs, i + 2) \in 1..SlabSize
    <3> HIDE DEF offs, bits
    <3> QED BY <1>1, PastTheLast
  <2> QED BY <2>1, <1>1, Sizes
<1>4. rest \in MinMedium..MaxMedium /\ at \in 0..(SlabSize - 1)
  BY <1>1, <1>3, Sizes
<1>5. /\ block_offs' = [block_offs EXCEPT ![s] = offs2]
      /\ mediumbins' = [lists EXCEPT ![rest] = <<Block(s, at)>> \o @] /\ marked' = marked \cup {rest}
      /\ Vacant(offs, bits, i + 1) /\ at + MinMedium <= AdjOffset(offs, i + 2)
  BY DEF Link
<1>6. /\ WellLaid(offs2, bits)
      /\ \A a, z : VacantAt(offs2, bits, a, z) <=>
           \/ VacantAt(offs, bits, a, z) /\ a # from
           \/ a = at /\ z = rest
      /\ \A z : VacantAt(offs, bits, at, z) => at = from
      /\ Keeps(n, offs, bits, n, offs2, bits, b.at)
      /\ Has(n, offs2, bits, b.at, size)
  <2>1. at - OffsetAt(offs, i) = size
    BY <1>1, <1>2
  <2>2. offs2 = MovedOffsets(offs, i, at)
    BY DEF MovedOffsets
  <2> HIDE DEF s, n, offs, bits, offs2
  <2>3. /\ WellLaid(offs2, bits)
        /\ \A a, z : VacantAt(offs2, bits, a, z) <=>
             \/ VacantAt(offs, bits, a, z) /\ a # OffsetAt(offs, i + 1)
             \/ a = at /\ z = AdjOffset(offs, i + 2) - at
        /\ \A z : VacantAt(offs, bits, at, z) => at = OffsetAt(offs, i + 1)
        /\ Keeps(n, offs, bits, n, offs2, bits, OffsetAt(offs, i))
        /\ Has(n, offs2, bits, OffsetAt(offs, i), at - OffsetAt(offs, i))
    <3>1. /\ WellLaid(offs, bits) /\ n \in Nat \ {0} /\ i \in Nat /\ i \in bits
          /\ Vacant(offs, bits, i + 1)
          /\ OffsetAt(offs, i) + MinMedium <= at /\ at + MinMedium <= AdjOffset(offs, i + 2)
      BY <1>1, <1>2, <1>5
    <3> QED BY <3>1, <2>2, MovingRight
  <2> QED BY <2>1, <2>3, <1>2
<1>7. BinsHold(lists, marked, Left(s, {from}))
  BY UnlinkOne DEF IInv, BinsInv
<1> DEFINE new == {<<at, rest>>}
           gone == {from}
<1>8. ASSUME RegionChange(s, gone, new) PROVE BinsInv'
  <2>1. \A z : n_slabs[s] > 0 /\ VacantAt(block_offs[s], block_alloc[s], at, z) => at \in {from}
    BY <1>6
  <2> HIDE DEF rest, lists, from
  <2>2. BinsHold([lists EXCEPT ![rest] = <<Block(s, at)>> \o @], marked \cup {rest}, FreeBlocks')
    BY <1>1, <1>4, <1>7, <1>8, <2>1, BinsAfterLink
  <2> QED BY <2>2, <1>5 DEF BinsInv
<1>9. \A a, z : VacantAt(offs2, bits, a, z) <=>
        \/ VacantAt(block_offs[s], block_alloc[s], a, z) /\ a \notin gone
        \/ <<a, z>> \in new
  <2> HIDE DEF offs2, from, rest
  <2> QED BY <1>6
<1>10. /\ bits # {}
       /\ \E z \in Requests : Resized(b, z) /\ Has(n, offs2, bits, b.at, z)
       /\ n > 0 /\ n \in Nat
  BY <1>1, <1>6
<1> HIDE DEF new, gone, offs2
<1> QED BY <1>1, <1>5, <1>6, <1>8, <1>9, <1>10, OneBlock

(* What is in a list is free.                                                *)
LEMMA LinkedIsFree ==
  ASSUME IInv, NEW s, NEW a, Linked(Block(s, a))
  PROVE  a \in Header..(SlabSize - 1) /\ \E z : <<s, a, z>> \in FreeBlocks
<1>1. DOMAIN mediumbins = MinMedium..MaxMedium
  BY DEF IInv, BinsInv, BinsHold
<1>2. PICK z \in MinMedium..MaxMedium : \E k \in DOMAIN mediumbins[z] : mediumbins[z][k] = Block(s, a)
  BY <1>1 DEF Linked
<1>3. BinHolds(mediumbins[z], z, FreeBlocks)
  BY DEF IInv, BinsInv, BinsHold
<1>4. <<s, a, z>> \in FreeBlocks
  BY <1>2, <1>3 DEF BinHolds, Block
<1>5. FreeAt(s, a, z, PosOf(s, a))
  BY <1>4, FreeFound DEF IInv
<1> QED BY <1>4, <1>5 DEF FreeAt

LEMMA ShrinkMediumRight ==
  ASSUME IInv, NEW b \in held, NEW size \in Requests, ShrinkMedium(b, size)
  PROVE  IInv'
<1> DEFINE s == b.slab
           i == PosOf(s, b.at)
           n == n_slabs[s]
           offs == block_offs[s]
           bits == block_alloc[s]
           had == SizeOf(b)
           at == b.at + size
           from == OffsetAt(offs, i + 1)
           toNext == i + 1 \notin bits
           split == ~toNext /\ had - size >= MinMedium
<1>1. /\ TakenAt(s, b.at, i) /\ b.size <= had /\ size \in Nat /\ MinMedium <= size /\ had = BlockSize(s, i)
  BY HeldFound, RequestsAre DEF IInv, SizeOf
<1>2. /\ had < SlabSize /\ size <= had
      /\ \/ /\ toNext /\ Linked(Block(s, from))
            /\ block_offs' = [block_offs EXCEPT ![s][i + 1] = Byte(at)]
            /\ Link(Unlink(mediumbins, Block(s, from)), marked, Block(s, at), AdjOffset(offs, i + 2) - at)
            /\ Resized(b, size)
            /\ n_slabs' = n_slabs /\ block_alloc' = block_alloc /\ aborted' = aborted
         \/ Abort("wild unlink")
         \/ /\ split
            /\ block_offs' = [block_offs EXCEPT ![s] = PushOffset(@, i, at)]
            /\ block_alloc' = [block_alloc EXCEPT ![s] = PushBit(@, i + 1)]
            /\ Link(mediumbins, marked, Block(s, at), had - size)
            /\ Resized(b, size)
            /\ n_slabs' = n_slabs /\ aborted' = aborted
         \/ /\ Resized(b, size)
            /\ n_slabs' = n_slabs /\ block_offs' = block_offs /\ block_alloc' = block_alloc
            /\ mediumbins' = mediumbins /\ marked' = marked /\ aborted' = aborted
  <2>1. Block(s, at).at = at
    BY DEF Block
  <2> QED BY <2>1 DEF ShrinkMedium, header, bins
<1>3. /\ s \in Slabs /\ n \in Nat \ {0} /\ n <= MaxSlabs /\ WellLaid(offs, bits)
      /\ i \in Nat /\ i \in bits /\ b.at \in Header..SlabSize /\ i \in Indexes
      /\ Known(offs, bits, i)
      /\ had = Room(n, offs, bits, i) /\ AdjOffset(offs, i) = b.at
  BY <1>1 DEF TakenAt
<1> HIDE DEF s, i, n, offs, bits, had, at, from
<1>4. /\ AdjOffset(offs, i + 1) \in 1..SlabSize /\ AdjOffset(offs, i + 2) \in 1..SlabSize
      /\ had \in Int /\ at \in Nat /\ b.at \in Nat
      /\ Known(offs, bits, i + 1) => had = AdjOffset(offs, i + 1) - b.at
  <2>1. i + 1 \in Nat /\ i + 2 \in Nat
    BY <1>3
  <2>2. Known(offs, bits, i + 1) => had = AdjOffset(offs, i + 1) - b.at
    BY <1>3 DEF Room
  <2>3. AdjOffset(offs, i + 1) \in 1..SlabSize /\ AdjOffset(offs, i + 2) \in 1..SlabSize
    BY <2>1, <1>3, PastTheLast
  <2>4. had \in Int
    <3>1. n \in Nat
      BY <1>3
    <3> QED BY <3>1, <1>3, RoomIsInt
  <2>5. b.at \in Nat
    BY <1>3, Sizes
  <2>6. at \in Nat
    BY <2>5, <1>1 DEF at
  <2> QED BY <2>2, <2>3, <2>4, <2>5, <2>6
<1>5. CASE /\ toNext /\ Linked(Block(s, from))
           /\ block_offs' = [block_offs EXCEPT ![s][i + 1] = Byte(at)]
           /\ Link(Unlink(mediumbins, Block(s, from)), marked, Block(s, at), AdjOffset(offs, i + 2) - at)
           /\ Resized(b, size)
           /\ n_slabs' = n_slabs /\ block_alloc' = block_alloc /\ aborted' = aborted
  <2>1. from # 0
    BY <1>5, LinkedIsFree, Sizes
  <2>2. Vacant(offs, bits, i + 1) /\ Known(offs, bits, i + 1)
    BY <1>5, <2>1 DEF from, Vacant, Known
  <2>3. AdjOffset(offs, i + 1) + MinMedium <= AdjOffset(offs, i + 2)
    <3>1. OffsetAt(offs, i + 1) + MinMedium <= AdjOffset(offs, i + 1 + 1) /\ i + 1 + 1 = i + 2
      BY <1>3, <2>2, WellLaidFits DEF Fits
    <3>2. AdjOffset(offs, i + 1) = OffsetAt(offs, i + 1)
      BY <1>3, <2>1, PastTheLast DEF from
    <3> QED BY <3>1, <3>2
  <2>4. at <= AdjOffset(offs, i + 1) /\ at + MinMedium <= AdjOffset(offs, i + 2)
    <3>1. had = AdjOffset(offs, i + 1) - b.at /\ size <= had /\ size \in Nat /\ MinMedium \in Nat
      BY <1>1, <1>2, <1>4, <2>2, Sizes
    <3>2. /\ AdjOffset(offs, i + 1) \in Int /\ AdjOffset(offs, i + 2) \in Int /\ b.at \in Nat
      BY <1>4, Sizes
    <3> QED BY <3>1, <3>2, <2>3 DEF at
  <2>5. Byte(at) = at
    <3>1. at \in 0..SlabSize /\ at # SlabSize
      BY <1>4, <2>4, Sizes
    <3> QED BY <3>1, ByteOf
  <2>6. block_offs' = [block_offs EXCEPT ![s] = [offs EXCEPT ![i + 1] = at]]
    BY <1>5, <2>5 DEF offs
  <2> QED BY <1>1, <1>3, <1>4, <1>5, <2>2, <2>4, <2>6, BoundaryMoved DEF s, offs, bits, from, at
<1>6. CASE Abort("wild unlink")
  BY <1>6, StandsStill DEF Abort
<1>7. CASE /\ split
           /\ block_offs' = [block_offs EXCEPT ![s] = PushOffset(@, i, at)]
           /\ block_alloc' = [block_alloc EXCEPT ![s] = PushBit(@, i + 1)]
           /\ Link(mediumbins, marked, Block(s, at), had - size)
           /\ Resized(b, size)
           /\ n_slabs' = n_slabs /\ aborted' = aborted
  <2> DEFINE offs2 == PushOffset(offs, i, at)
             bits2 == PushBit(bits, i + 1)
             rest == had - size
  <2>1. /\ block_offs' = [block_offs EXCEPT ![s] = offs2] /\ block_alloc' = [block_alloc EXCEPT ![s] = bits2]
        /\ rest >= MinMedium /\ rest \in Int /\ i + 1 \in bits
    BY <1>1, <1>4, <1>7 DEF offs, bits
  <2>2. Known(offs, bits, i + 1) /\ OffsetAt(offs, i) = b.at /\ OffsetAt(offs, i) # 0
    <3>1. Known(offs, bits, i + 1)
      BY <2>1 DEF Known
    <3> QED BY <3>1, <1>3, Ascending DEF InOrder
  <2>3. /\ rest = AdjOffset(offs, i + 1) - at /\ OffsetAt(offs, i) + MinMedium <= at
        /\ at + MinMedium <= AdjOffset(offs, i + 1) /\ at - OffsetAt(offs, i) = size
    BY <1>1, <1>4, <2>1, <2>2, Sizes DEF at
  <2>4. bits2 = {c \in bits : c < i} \cup {i} \cup {c + 1 : c \in {d \in bits : d > i}}
    <3>1. AdjOffset(offs, i) + MinMedium + MinMedium <= AdjOffset(offs, i + 1)
      BY <2>2, <2>3, <1>3, <1>4, Sizes
    <3>2. i < LastIdx /\ ~Known(offs, bits, LastIdx)
      BY <1>3, <3>1, RoomForOneMore
    <3>3. bits \in SUBSET Indexes /\ Indexes = 0..LastIdx /\ LastIdx \in Nat /\ LastIdx \notin bits
      BY <1>3, <3>2, LastIdxBound DEF WellLaid, Indexes, Known
    <3>4. \A c \in bits : (c >= i + 1 <=> c > i) /\ (c < i + 1 <=> c < i \/ c = i)
      BY <1>3, <3>3
    <3>5. \A c \in bits : c > i => c + 1 \in Indexes
      BY <1>3, <3>3
    <3>6. {c + 1 : c \in {d \in bits : d >= i + 1}} \cap Indexes = {c + 1 : c \in {d \in bits : d > i}}
      BY <3>4, <3>5
    <3>7. {c \in bits : c < i + 1} = {c \in bits : c < i} \cup {i}
      BY <3>4, <1>3
    <3> QED BY <3>6, <3>7 DEF PushBit
  <2>5. /\ WellLaid(offs2, bits2)
        /\ \A a, z : VacantAt(offs2, bits2, a, z) <=>
             \/ VacantAt(offs, bits, a, z) /\ a # OffsetAt(offs, i)
             \/ a = at /\ z = AdjOffset(offs, i + 1) - at
        /\ \A z : ~VacantAt(offs, bits, at, z)
        /\ Keeps(n, offs, bits, n, offs2, bits2, OffsetAt(offs, i))
        /\ Has(n, offs2, bits2, OffsetAt(offs, i), at - OffsetAt(offs, i))
    <3>1. /\ WellLaid(offs, bits) /\ n \in Nat \ {0} /\ i \in Nat /\ OffsetAt(offs, i) # 0 /\ at \in Nat
          /\ OffsetAt(offs, i + 1) # 0 => i + 1 \in bits
          /\ offs2 = PushOffset(offs, i, at)
      BY <1>3, <1>4, <2>1, <2>2
    <3>2. /\ OffsetAt(offs, i) + MinMedium <= at /\ at + MinMedium <= AdjOffset(offs, i + 1)
          /\ n = n \/ ~Known(offs, bits, i + 1)
      BY <2>3
    <3>3. bits2 = {c \in bits : c < i} \cup {i} \cup {c + 1 : c \in {d \in bits : d > i}}
      BY <2>4
    <3> HIDE DEF offs2, bits2
    <3> QED BY <3>1, <3>2, <3>3, SplittingRight
  <2> HIDE DEF offs2, bits2, rest
  <2> DEFINE new == {<<at, rest>>}
             none == {}
  <2>6. \A a, z : VacantAt(offs2, bits2, a, z) <=>
          \/ VacantAt(offs, bits, a, z) /\ a \notin none
          \/ <<a, z>> \in new
    <3>1. \A a, z : VacantAt(offs, bits, a, z) => a # OffsetAt(offs, i)
      BY <1>3, <2>2, TakenIsNotVacant
    <3> QED BY <2>5, <3>1, <2>3
  <2>7. ASSUME RegionChange(s, none, new) PROVE BinsInv'
    <3>1. at \in 0..(SlabSize - 1) /\ rest <= MaxMedium
      <4>1. /\ AdjOffset(offs, i + 1) \in 1..SlabSize /\ at \in Nat /\ rest = AdjOffset(offs, i + 1) - at
            /\ at + MinMedium <= AdjOffset(offs, i + 1)
        BY <1>4, <2>3
      <4>2. Header <= at
        <5>1. b.at \in Nat /\ Header <= b.at /\ size \in Nat
          BY <1>1, <1>3, <1>4
        <5> QED BY <5>1, Sizes DEF at
      <4> QED BY <4>1, <4>2, Sizes
    <3>2. BinsHold(mediumbins, marked, FreeBlocks)
      BY DEF IInv, BinsInv
    <3>3. RegionChange(s, {}, IF rest >= MinMedium THEN {<<at, rest>>} ELSE {})
      BY <2>1, <2>7
    <3>4. \A y : ~(n_slabs[s] > 0 /\ VacantAt(block_offs[s], block_alloc[s], at, y))
      BY <2>5 DEF offs, bits
    <3>5. LinkIfFits(mediumbins, marked, Block(s, at), rest)
      BY <1>7, <2>1 DEF LinkIfFits, rest
    <3> QED BY <1>3, <2>1, <3>1, <3>2, <3>3, <3>4, <3>5, LinkedIfFits
  <2>8. /\ bits2 # {} /\ \E z \in Requests : Resized(b, z) /\ Has(n, offs2, bits2, b.at, z)
        /\ Keeps(n, offs, bits, n, offs2, bits2, b.at) /\ n \in Nat /\ n > 0
        /\ n_slabs' = n_slabs /\ aborted' = aborted
    <3>1. Has(n, offs2, bits2, b.at, size) /\ Keeps(n, offs, bits, n, offs2, bits2, b.at)
      BY <2>2, <2>3, <2>5
    <3>2. bits2 # {}
      BY <3>1 DEF Has
    <3>3. n \in Nat /\ n > 0
      BY <1>3
    <3>4. Resized(b, size) /\ n_slabs' = n_slabs /\ aborted' = aborted
      BY <1>7
    <3> QED BY <3>1, <3>2, <3>3, <3>4
  <2> HIDE DEF new, none
  <2> QED BY <1>3, <2>1, <2>5, <2>6, <2>7, <2>8, OneBlock DEF s, n, offs, bits
<1>8. CASE /\ Resized(b, size)
           /\ n_slabs' = n_slabs /\ block_offs' = block_offs /\ block_alloc' = block_alloc
           /\ mediumbins' = mediumbins /\ marked' = marked /\ aborted' = aborted
  <2>1. size <= Room(n, offs, bits, i)
    BY <1>2, <1>3
  <2>2. n <= n /\ n > 0 /\ n \in Nat
    BY <1>3
  <2> QED BY <1>1, <1>3, <1>8, <2>1, <2>2, OnlyResized DEF s, n, offs, bits
<1> QED BY <1>2, <1>5, <1>6, <1>7, <1>8

LEMMA GrowMediumRight ==
  ASSUME IInv, NEW b \in held, NEW size \in Requests, GrowMedium(b, size)
  PROVE  IInv'
<1> DEFINE s == b.slab
           i == PosOf(s, b.at)
           n == n_slabs[s]
           offs == block_offs[s]
           bits == block_alloc[s]
           at == b.at + size
           from == OffsetAt(offs, i + 1)
           left == AdjOffset(offs, i + 2) - at
<1>1. /\ TakenAt(s, b.at, i) /\ size \in Nat /\ MinMedium <= size
  BY HeldFound, RequestsAre DEF IInv
<1>2. /\ Vacant(offs, bits, i + 1) /\ at <= AdjOffset(offs, i + 2)
      /\ IF left < MinMedium
           THEN /\ block_offs' = [block_offs EXCEPT ![s] = RemoveOffset(@, i)]
                /\ block_alloc' = [block_alloc EXCEPT ![s] = RemoveBit(@, i)]
                /\ mediumbins' = Unlink(mediumbins, Block(s, from)) /\ marked' = marked
           ELSE /\ block_offs' = [block_offs EXCEPT ![s][i + 1] = at]
                /\ Link(Unlink(mediumbins, Block(s, from)), marked, Block(s, at), left)
                /\ block_alloc' = block_alloc
      /\ Resized(b, size) /\ n_slabs' = n_slabs /\ aborted' = aborted
  BY DEF GrowMedium, RoomAfter, Vacant
<1>3. /\ s \in Slabs /\ n \in Nat \ {0} /\ n <= MaxSlabs /\ WellLaid(offs, bits)
      /\ i \in Nat /\ i \in bits /\ b.at \in Header..SlabSize /\ AdjOffset(offs, i) = b.at
  BY <1>1 DEF TakenAt
<1> HIDE DEF s, i, n, offs, bits, at, from, left
<1>4. /\ AdjOffset(offs, i + 2) \in 1..SlabSize /\ at \in Nat /\ b.at \in Nat
      /\ i + 1 \in Nat /\ i + 2 \in Nat /\ Known(offs, bits, i + 1)
      /\ OffsetAt(offs, i) = b.at /\ OffsetAt(offs, i) # 0
      /\ left \in Int
  <2>1. i + 1 \in Nat /\ i + 2 \in Nat
    BY <1>3
  <2>2. Known(offs, bits, i + 1)
    BY <1>2 DEF Known, Vacant
  <2>3. OffsetAt(offs, i) = b.at /\ OffsetAt(offs, i) # 0
    BY <2>1, <2>2, <1>3, Ascending DEF InOrder
  <2>4. AdjOffset(offs, i + 2) \in 1..SlabSize
    BY <2>1, <1>3, PastTheLast
  <2>5. at \in Nat /\ b.at \in Nat /\ left \in Int
    BY <2>4, <1>1, <1>3, Sizes DEF at, left
  <2> QED BY <2>1, <2>2, <2>3, <2>4, <2>5
<1>5. CASE left < MinMedium
  <2> DEFINE offs2 == RemoveOffset(offs, i)
             bits2 == RemoveBit(bits, i)
             first == i
             last == i + 1
             kept == {first}
             none == {}
             gone == {from}
  <2>1. /\ block_offs' = [block_offs EXCEPT ![s] = offs2] /\ block_alloc' = [block_alloc EXCEPT ![s] = bits2]
        /\ mediumbins' = Unlink(mediumbins, Block(s, from)) /\ marked' = marked
    BY <1>2, <1>5 DEF offs, bits
  <2>2. bits \in SUBSET Indexes /\ Indexes \subseteq Nat /\ i + 1 \notin bits
    BY <1>2, <1>3, LastIdxBound DEF WellLaid, Indexes, Vacant
  <2>3. offs2 = JoinedOffsets(offs, first, last)
    <3>1. \A j \in Indexes : j + last - first = j + 1
      BY <1>3, <2>2
    <3> QED BY <3>1 DEF RemoveOffset, JoinedOffsets
  <2>4. bits2 = JoinedBits(bits, first, last, kept)
    <3>1. last - first = 1
      BY <1>3
    <3>2. \A c \in bits : c <= i <=> c < i \/ c = i
      BY <1>3, <2>2
    <3>3. {c \in bits : c <= i} = {c \in bits : c < i} \cup {i}
      BY <3>2, <1>3
    <3> HIDE DEF first, last
    <3> QED BY <3>1, <3>3 DEF RemoveBit, JoinedBits, first, last
  <2>5. /\ first \in Nat /\ last \in Nat /\ first <= last /\ i \in first..last /\ first = i
        /\ \A k \in first..last : k = i \/ k = i + 1
        /\ \A k \in first..last : k \in bits => k = i
        /\ OffsetAt(offs, first) # 0 /\ Known(offs, bits, last)
        /\ kept = {first} /\ kept # {}
    BY <1>3, <1>4, <2>2
  <2>6. from = AdjOffset(offs, i + 1) /\ last + 1 = i + 2 /\ i \in first..last /\ i + 1 \in first..last
    <3>1. from # 0
      BY <1>2 DEF from, Vacant
    <3> QED BY <3>1, <1>3, <1>4, PastTheLast DEF from
  <2> HIDE DEF offs2, bits2, first, last, kept
  <2>7. /\ WellLaid(offs2, bits2)
        /\ \A a, z : VacantAt(offs2, bits2, a, z) <=>
             \/ /\ VacantAt(offs, bits, a, z)
                /\ \A k \in first..last : AdjOffset(offs, k) # a
             \/ /\ kept = {} /\ a = OffsetAt(offs, first)
                /\ z = AdjOffset(offs, last + 1) - OffsetAt(offs, first)
        /\ Keeps(n, offs, bits, n, offs2, bits2, AdjOffset(offs, i))
        /\ kept # {} => Has(n, offs2, bits2, OffsetAt(offs, first),
                        AdjOffset(offs, last + 1) - OffsetAt(offs, first))
    <3>1. /\ WellLaid(offs, bits) /\ n \in Nat \ {0}
      BY <1>3
    <3>2. /\ first \in Nat /\ last \in Nat /\ first <= last /\ i \in first..last
          /\ \A k \in first..last : k \in bits => k = i
          /\ OffsetAt(offs, first) # 0 /\ Known(offs, bits, last)
          /\ kept = {first} /\ i = first
          /\ n = n \/ ~Known(offs, bits, last + 1)
      BY <2>5
    <3>3. Joins(n, offs, bits, n, first, last, i, kept)
      BY <3>1, <3>2 DEF Joins
    <3>4. /\ WellLaid(offs2, bits2)
          /\ \A a, z : VacantAt(offs2, bits2, a, z) <=>
               \/ /\ VacantAt(offs, bits, a, z)
                  /\ \A k \in first..last : AdjOffset(offs, k) # a
               \/ /\ kept = {} /\ a = OffsetAt(offs, first)
                  /\ z = AdjOffset(offs, last + 1) - OffsetAt(offs, first)
          /\ Keeps(n, offs, bits, n, offs2, bits2, AdjOffset(offs, i))
          /\ kept = {} => \A j \in bits2 : AdjOffset(offs2, j) # AdjOffset(offs, i)
          /\ kept # {} => Has(n, offs2, bits2, OffsetAt(offs, first),
                          AdjOffset(offs, last + 1) - OffsetAt(offs, first))
      BY <3>3, <2>3, <2>4, JoiningRight
    <3> QED BY <3>4
  <2>8. \A a, z : VacantAt(offs2, bits2, a, z) <=>
          \/ VacantAt(offs, bits, a, z) /\ a \notin gone
          \/ <<a, z>> \in none
    <3>1. \A a, z : VacantAt(offs, bits, a, z) => a # AdjOffset(offs, i)
      BY <1>3, TakenIsNotVacant
    <3>2. \A a, z : VacantAt(offs, bits, a, z) =>
            ((\A k \in first..last : AdjOffset(offs, k) # a) <=> a # from)
      BY <3>1, <2>5, <2>6
    <3> QED BY <3>2, <2>5, <2>7
  <2>9. Has(n, offs2, bits2, b.at, size)
    <3>1. Has(n, offs2, bits2, b.at, AdjOffset(offs, i + 2) - b.at)
      BY <2>5, <2>6, <2>7, <1>4
    <3>2. size <= AdjOffset(offs, i + 2) - b.at /\ AdjOffset(offs, i + 2) - b.at \in Int /\ size \in Int /\ n \in Nat
      BY <1>1, <1>2, <1>3, <1>4 DEF at
    <3> QED BY <3>1, <3>2, <2>7, HasLess
  <2>10. ASSUME RegionChange(s, gone, none) PROVE BinsInv'
    <3>1. BinsHold(mediumbins', marked', Left(s, {from}))
      BY <2>1, UnlinkOne DEF IInv, BinsInv
    <3> QED BY <3>1, <2>10, <1>3, BinsAfter
  <2>11. /\ bits2 # {} /\ \E z \in Requests : Resized(b, z) /\ Has(n, offs2, bits2, b.at, z)
         /\ Keeps(n, offs, bits, n, offs2, bits2, b.at) /\ n \in Nat /\ n > 0
    <3>1. bits2 # {}
      BY <2>9 DEF Has
    <3> QED BY <3>1, <1>2, <1>3, <2>7, <2>9
  <2> HIDE DEF none, gone
  <2> QED BY <1>2, <1>3, <2>1, <2>7, <2>8, <2>10, <2>11, OneBlock DEF s, n, offs, bits
<1>6. CASE ~(left < MinMedium)
  <2>1. at + MinMedium <= AdjOffset(offs, i + 2)
    <3>1. MinMedium <= left
      BY <1>4, <1>6, Sizes
    <3> QED BY <3>1, <1>4, Sizes DEF left
  <2>2. /\ block_offs' = [block_offs EXCEPT ![s] = [offs EXCEPT ![i + 1] = at]]
        /\ Link(Unlink(mediumbins, Block(s, from)), marked, Block(s, at), AdjOffset(offs, i + 2) - at)
        /\ block_alloc' = block_alloc
    BY <1>2, <1>6 DEF offs, left
  <2> QED BY <1>1, <1>2, <1>3, <1>4, <2>1, <2>2, BoundaryMoved DEF s, offs, bits, from, at
<1> QED BY <1>5, <1>6

(* A freed block with its free neighbours: they can become one, unless it is *)
(* the last of its slab and too small to be a free block.                   *)
LEMMA FreedNeighbours ==
  ASSUME NEW offs, NEW bits, WellLaid(offs, bits), NEW i \in Nat, i \in bits,
         NEW first, first = (IF i > 0 /\ i - 1 \notin bits THEN i - 1 ELSE i),
         NEW last, last = (IF Vacant(offs, bits, i + 1) THEN i + 1 ELSE i),
         NEW n \in Nat \ {0}, NEW n2 \in Nat \ {0}, n = n2 \/ ~Known(offs, bits, i + 1)
  PROVE  /\ first \in Nat /\ last \in Nat /\ first <= i /\ i <= last
         /\ \A k \in first..last : k = first \/ k = i \/ k = last
         /\ IF AdjOffset(offs, last + 1) - AdjOffset(offs, first) < MinMedium
            THEN first = i /\ last = i /\ ~Known(offs, bits, i + 1) /\ (i > 0 => i - 1 \in bits)
            ELSE Joins(n, offs, bits, n2, first, last, i, {}) /\ AdjOffset(offs, first) = OffsetAt(offs, first)
<1>1. /\ first \in Nat /\ last \in Nat /\ first <= i /\ i <= last
      /\ \A k \in first..last : k = first \/ k = i \/ k = last
      /\ i + 1 \in Nat /\ last + 1 \in Nat /\ Known(offs, bits, i)
      /\ first = i \/ (first = i - 1 /\ i - 1 \in Nat /\ i - 1 \notin bits /\ i - 1 < i)
      /\ last = i \/ (last = i + 1 /\ Vacant(offs, bits, i + 1) /\ Known(offs, bits, i + 1))
  BY DEF Known, Vacant
<1>2. /\ \A m \in Nat : AdjOffset(offs, m) \in 1..SlabSize
      /\ \A m \in Nat : AdjOffset(offs, m) = IF OffsetAt(offs, m) = 0 THEN SlabSize ELSE OffsetAt(offs, m)
      /\ \A m \in Nat : Fits(offs, bits, m)
  BY PastTheLast, WellLaidFits
<1>3. ASSUME NEW m \in Nat, NEW k \in Nat, Known(offs, bits, k), m < k
      PROVE  /\ OffsetAt(offs, m) # 0 /\ AdjOffset(offs, m) = OffsetAt(offs, m)
             /\ AdjOffset(offs, m) + MinMedium <= AdjOffset(offs, k)
  <2>1. /\ OffsetAt(offs, m) # 0 /\ AdjOffset(offs, m) = OffsetAt(offs, m)
        /\ AdjOffset(offs, m) + MinMedium <= AdjOffset(offs, m + 1)
        /\ AdjOffset(offs, m + 1) <= AdjOffset(offs, k)
    BY <1>3, Ascending DEF InOrder
  <2>2. /\ AdjOffset(offs, m) \in Int /\ AdjOffset(offs, m + 1) \in Int
        /\ AdjOffset(offs, k) \in Int /\ MinMedium \in Nat
    <3>1. m + 1 \in Nat
      OBVIOUS
    <3> QED BY <3>1, <1>2, Sizes
  <2> QED BY <2>1, <2>2
<1>4. Known(offs, bits, last) /\ Known(offs, bits, first)
  <2>1. Known(offs, bits, last)
    BY <1>1
  <2>2. CASE first = i - 1
    <3>1. OffsetAt(offs, i - 1) # 0 \/ first = i
      BY <1>1, <1>3
    <3> QED BY <3>1, <2>2, <1>1 DEF Known
  <2> QED BY <2>1, <2>2, <1>1
<1>5. AdjOffset(offs, last) <= AdjOffset(offs, last + 1)
  <2>1. CASE Known(offs, bits, last + 1)
    <3>1. AdjOffset(offs, last) + MinMedium <= AdjOffset(offs, last + 1)
      BY <1>1, <1>3, <2>1
    <3> QED BY <3>1, <1>1, <1>2, Sizes
  <2>2. CASE ~Known(offs, bits, last + 1)
    <3>1. AdjOffset(offs, last + 1) = SlabSize
      BY <1>1, <1>2, <2>2 DEF Known
    <3> QED BY <3>1, <1>1, <1>2
  <2> QED BY <2>1, <2>2
<1>6. AdjOffset(offs, first) \in Int /\ AdjOffset(offs, last) \in Int /\ AdjOffset(offs, last + 1) \in Int /\ MinMedium \in Nat
  BY <1>1, <1>2, Sizes
<1>7. CASE AdjOffset(offs, last + 1) - AdjOffset(offs, first) < MinMedium
  <2>1. ~(first < last)
    <3> SUFFICES ASSUME first < last PROVE FALSE
      OBVIOUS
    <3>1. AdjOffset(offs, first) + MinMedium <= AdjOffset(offs, last)
      BY <1>1, <1>3, <1>4
    <3> QED BY <3>1, <1>5, <1>6, <1>7
  <2>2. first = i /\ last = i
    BY <2>1, <1>1
  <2>3. ~Known(offs, bits, i + 1)
    <3> SUFFICES ASSUME Known(offs, bits, i + 1) PROVE FALSE
      OBVIOUS
    <3>1. i < i + 1
      OBVIOUS
    <3>2. AdjOffset(offs, i) + MinMedium <= AdjOffset(offs, i + 1)
      BY <1>1, <1>3, <3>1
    <3> QED BY <3>2, <1>6, <1>7, <2>2
  <2>4. i > 0 => i - 1 \in bits
    BY <2>2
  <2> QED BY <1>1, <1>7, <2>2, <2>3, <2>4
<1>8. CASE ~(AdjOffset(offs, last + 1) - AdjOffset(offs, first) < MinMedium)
  <2>1. OffsetAt(offs, first) # 0 /\ AdjOffset(offs, first) = OffsetAt(offs, first)
    <3>1. CASE first < last
      BY <3>1, <1>1, <1>3, <1>4
    <3>2. CASE first = last
      <4>1. AdjOffset(offs, first) # SlabSize
        BY <1>1, <1>2, <1>6, <1>8, <3>2, Sizes
      <4> QED BY <4>1, <1>1, <1>2
    <3> QED BY <3>1, <3>2, <1>1
  <2>2. OffsetAt(offs, first) + MinMedium <= AdjOffset(offs, last + 1)
    BY <2>1, <1>6, <1>8
  <2>3. first > 0 => first - 1 \in bits
    <3>1. CASE first = i
      BY <3>1
    <3>2. CASE first = i - 1 /\ i - 1 \notin bits
      <4> SUFFICES ASSUME first > 0, first - 1 \notin bits PROVE FALSE
        OBVIOUS
      <4>1. first - 1 \in Nat /\ first - 1 + 1 = first /\ first - 1 < first
        BY <1>1
      <4>2. OffsetAt(offs, first - 1) # 0
        BY <4>1, <1>1, <1>3, <1>4
      <4>3. Fits(offs, bits, first - 1)
        BY <4>1, <1>2
      <4> QED BY <4>1, <4>2, <4>3, <2>1, <3>2 DEF Fits, Vacant
    <3> QED BY <3>1, <3>2, <1>1
  <2>4. OffsetAt(offs, last + 1) # 0 => last + 1 \in bits
    <3>1. CASE last = i /\ ~Vacant(offs, bits, i + 1)
      BY <3>1 DEF Vacant
    <3>2. CASE last = i + 1 /\ Vacant(offs, bits, i + 1)
      <4>1. Fits(offs, bits, i + 1)
        BY <1>1, <1>2
      <4> QED BY <4>1, <3>2 DEF Fits
    <3> QED BY <3>1, <3>2
  <2>5. n = n2 \/ ~Known(offs, bits, last + 1)
    BY <1>1
  <2>6. \A k \in first..last : k \in bits => k = i
    <3>1. first = i \/ first \notin bits
      BY <1>1
    <3>2. last = i \/ last \notin bits
      BY <1>1 DEF Vacant
    <3> QED BY <3>1, <3>2, <1>1
  <2>7. i \in first..last /\ first <= last
    BY <1>1
  <2>8. Joins(n, offs, bits, n2, first, last, i, {})
    BY <1>1, <1>4, <2>1, <2>2, <2>3, <2>4, <2>5, <2>6, <2>7 DEF Joins
  <2> QED BY <1>1, <1>8, <2>1, <2>8
<1> QED BY <1>7, <1>8

(* A header in which no bit is set has one free block.                       *)
LEMMA NothingTaken ==
  ASSUME NEW offs, WellLaid(offs, {}), NEW at, NEW size, VacantAt(offs, {}, at, size)
  PROVE  at = Header
<1>1. PICK i \in Indexes : Vacant(offs, {}, i) /\ OffsetAt(offs, i) = at
  BY DEF VacantAt
<1>2. i \in Nat /\ Known(offs, {}, i)
  BY <1>1, LastIdxBound DEF Indexes, Vacant, Known
<1>3. i = 0
  <2> SUFFICES ASSUME i # 0 PROVE FALSE
    OBVIOUS
  <2>1. i - 1 \in Nat /\ i - 1 + 1 = i /\ i - 1 < i
    BY <1>2
  <2>2. OffsetAt(offs, i - 1) # 0
    BY <1>2, <2>1, Ascending DEF InOrder
  <2>3. Fits(offs, {}, i - 1)
    BY <2>1, WellLaidFits
  <2> QED BY <1>1, <2>1, <2>2, <2>3 DEF Fits, Vacant
<1> QED BY <1>1, <1>3 DEF WellLaid

LEMMA HangsLast ==
  ASSUME NEW s, WellLaid(block_offs[s], block_alloc[s]), NEW i \in Nat, i \in block_alloc[s], HangsOver(s, i)
  PROVE  ~Known(block_offs[s], block_alloc[s], i + 1)
<1> DEFINE offs == block_offs[s]
           bits == block_alloc[s]
<1>1. /\ i \in Indexes /\ i + 1 \in Nat /\ WellLaid(offs, bits)
  BY PastTheLast
<1>2. /\ \A j \in Indexes : j > i => offs[j] = 0
      /\ offs[i] = 0 \/ i + 1 \notin bits
  BY DEF HangsOver
<1> HIDE DEF offs, bits
<1>3. OffsetAt(offs, i + 1) = 0
  <2>1. CASE i + 1 \in Indexes
    <3>1. offs[i + 1] = 0
      BY <1>2, <2>1, <1>1
    <3> QED BY <3>1, <2>1, <1>1, PastTheLast
  <2>2. CASE i + 1 \notin Indexes
    BY <2>2, <1>1, PastTheLast
  <2> QED BY <2>1, <2>2
<1>4. i + 1 \notin bits
  <2>1. CASE offs[i] = 0
    <3>1. OffsetAt(offs, i) = 0 /\ Fits(offs, bits, i)
      BY <2>1, <1>1, PastTheLast, WellLaidFits
    <3> QED BY <3>1 DEF Fits, Known
  <2> QED BY <2>1, <1>2
<1> QED BY <1>3, <1>4 DEF Known, offs, bits

LEMMA FreeRight ==
  ASSUME IInv, NEW b \in held, Free(b)
  PROVE  IInv'
<1> DEFINE s == b.slab
           i == PosOf(s, b.at)
           n == n_slabs[s]
           offs == block_offs[s]
           bits == block_alloc[s]
           hangs == HangsOver(s, i)
           prevFree == i > 0 /\ i - 1 \notin bits
           nextFree == i < LastIdx /\ i + 1 \notin bits /\ ~hangs /\ OffsetAt(offs, i + 1) # 0
           first == IF prevFree THEN i - 1 ELSE i
           last  == IF nextFree THEN i + 1 ELSE i
           start == AdjOffset(offs, first)
           end   == AdjOffset(offs, last + 1)
           tooSmall == end - start < MinMedium
           kept  == IF tooSmall THEN first - 1 ELSE first
           lists == Unlink(Unlink(mediumbins, Block(s, AdjOffset(offs, first))),
                           Block(s, AdjOffset(offs, last)))
           offs2 == [j \in Indexes |-> IF j <= kept THEN offs[j]
                                       ELSE IF j > first THEN OffsetAt(offs, j + last - first) ELSE 0]
           bits2 == {j \in bits : j < first} \cup {j - (last - first) : j \in {k \in bits : k > last}}
           n2 == IF hangs THEN 1 ELSE n
           gone == {AdjOffset(offs, first), AdjOffset(offs, last)}
<1>1. \/ Abort("wild unlink")
      \/ tooSmall /\ i = 0 /\ Abort("assertion")
      \/ /\ ~(tooSmall /\ i = 0)
         /\ IF bits2 = {}
            THEN /\ n_slabs' = [n_slabs EXCEPT ![s] = 0]
                 /\ block_offs' = [block_offs EXCEPT ![s] = NoOffsets]
                 /\ block_alloc' = [block_alloc EXCEPT ![s] = {}]
                 /\ mediumbins' = lists /\ marked' = marked
            ELSE /\ n_slabs' = [n_slabs EXCEPT ![s] = n2]
                 /\ block_offs' = [block_offs EXCEPT ![s] = offs2]
                 /\ block_alloc' = [block_alloc EXCEPT ![s] = bits2]
                 /\ IF tooSmall THEN mediumbins' = mediumbins /\ marked' = marked
                    ELSE Link(lists, marked, Block(s, start), end - start)
         /\ held' = held \ {b} /\ aborted' = aborted
  BY DEF Free, bins
<1>2. TakenAt(s, b.at, i)
  BY HeldFound DEF IInv
<1>3. /\ s \in Slabs /\ n \in Nat \ {0} /\ n <= MaxSlabs /\ WellLaid(offs, bits)
      /\ i \in Nat /\ i \in bits /\ b.at \in Header..SlabSize /\ AdjOffset(offs, i) = b.at
  BY <1>2 DEF TakenAt
<1>4. n2 \in Nat \ {0} /\ n2 <= MaxSlabs /\ (n = n2 \/ ~Known(offs, bits, i + 1))
  <2>1. hangs => ~Known(offs, bits, i + 1)
    BY <1>3, HangsLast
  <2> QED BY <2>1, <1>3, Sizes
<1>5. nextFree <=> Vacant(offs, bits, i + 1)
  <2>1. hangs => ~Known(offs, bits, i + 1)
    BY <1>3, HangsLast
  <2>2. Vacant(offs, bits, i + 1) => Known(offs, bits, i + 1) /\ i < LastIdx
    <3>1. i + 1 \in Nat
      BY <1>3
    <3>2. Vacant(offs, bits, i + 1) => Known(offs, bits, i + 1)
      BY DEF Vacant, Known
    <3> HIDE DEF offs, bits, i
    <3>3. Known(offs, bits, i + 1) => i + 1 <= LastIdx
      BY <1>3, <3>1, Ascending DEF InOrder
    <3> QED BY <3>2, <3>3, <1>3, LastIdxBound
  <2> QED BY <2>1, <2>2 DEF Vacant
<1>6. /\ first = (IF i > 0 /\ i - 1 \notin bits THEN i - 1 ELSE i)
      /\ last = (IF Vacant(offs, bits, i + 1) THEN i + 1 ELSE i)
  BY <1>5
<1>7. offs2 = [j \in Indexes |-> IF j <= kept THEN offs[j]
                                 ELSE IF j > first THEN OffsetAt(offs, j + last - first) ELSE 0]
  OBVIOUS
<1>8. bits2 = {j \in bits : j < first} \cup {j - (last - first) : j \in {k \in bits : k > last}}
  OBVIOUS
<1>9. kept = (IF tooSmall THEN first - 1 ELSE first) /\ (tooSmall <=> end - start < MinMedium)
  OBVIOUS
<1>10. start = AdjOffset(offs, first) /\ end = AdjOffset(offs, last + 1)
  OBVIOUS
<1>11. lists = Unlink(Unlink(mediumbins, Block(s, AdjOffset(offs, first))), Block(s, AdjOffset(offs, last)))
  OBVIOUS
<1>12. gone = {AdjOffset(offs, first), AdjOffset(offs, last)}
  OBVIOUS
<1> HIDE DEF offs2, bits2, kept, tooSmall, start, end, lists, gone, first, last, nextFree, prevFree, hangs, n2, i, n, offs, bits
<1>13. /\ first \in Nat /\ last \in Nat /\ first <= i /\ i <= last
       /\ \A k \in first..last : k = first \/ k = i \/ k = last
       /\ IF tooSmall
          THEN first = i /\ last = i /\ ~Known(offs, bits, i + 1) /\ (i > 0 => i - 1 \in bits)
          ELSE Joins(n, offs, bits, n2, first, last, i, {}) /\ start = OffsetAt(offs, first)
  <2>1. /\ first \in Nat /\ last \in Nat /\ first <= i /\ i <= last
        /\ \A k \in first..last : k = first \/ k = i \/ k = last
        /\ IF AdjOffset(offs, last + 1) - AdjOffset(offs, first) < MinMedium
           THEN first = i /\ last = i /\ ~Known(offs, bits, i + 1) /\ (i > 0 => i - 1 \in bits)
           ELSE Joins(n, offs, bits, n2, first, last, i, {}) /\ AdjOffset(offs, first) = OffsetAt(offs, first)
    BY <1>3, <1>4, <1>6, FreedNeighbours
  <2> QED BY <2>1, <1>9, <1>10
<1> DEFINE none == {}
<1>14. CASE /\ tooSmall /\ i # 0
            /\ IF bits2 = {} THEN TRUE
               ELSE /\ n_slabs' = [n_slabs EXCEPT ![s] = n2]
                    /\ block_offs' = [block_offs EXCEPT ![s] = offs2]
                    /\ block_alloc' = [block_alloc EXCEPT ![s] = bits2]
                    /\ mediumbins' = mediumbins /\ marked' = marked
            /\ held' = held \ {b} /\ aborted' = aborted
  <2>1. /\ first = i /\ last = i /\ ~Known(offs, bits, i + 1) /\ i - 1 \in bits /\ i \in Nat \ {0} /\ kept = i - 1
    BY <1>3, <1>9, <1>13, <1>14
  <2>2. Indexes \subseteq Nat /\ bits \subseteq Indexes
    BY <1>3, LastIdxBound DEF WellLaid, Indexes
  <2>3. \A j \in Nat : j > i => OffsetAt(offs, j) = 0 /\ j \notin bits
    <3> SUFFICES ASSUME NEW j \in Nat, j > i PROVE ~Known(offs, bits, j)
      BY DEF Known
    <3> SUFFICES ASSUME Known(offs, bits, j) PROVE FALSE
      OBVIOUS
    <3>1. CASE j = i + 1
      BY <3>1, <2>1
    <3>2. CASE i + 1 < j
      <4>1. i + 1 \in Nat
        BY <1>3
      <4> QED BY <3>2, <4>1, <2>1, <1>3, Ascending DEF InOrder
    <3> QED BY <3>1, <3>2, <1>3
  <2>4. offs2 = DroppedOffsets(offs, i)
    <3>1. \A j \in Indexes : j \in Nat /\ j + i - i = j /\ (j > i => OffsetAt(offs, j) = 0)
      BY <2>2, <2>3, <1>3
    <3> QED BY <3>1, <2>1, <1>7 DEF DroppedOffsets
  <2>5. bits2 = DroppedBits(bits, i)
    <3>1. {k \in bits : k > i} = {}
      BY <2>2, <2>3
    <3> QED BY <3>1, <2>1, <1>8 DEF DroppedBits
  <2>6. /\ WellLaid(offs2, bits2) /\ i - 1 \in bits2
        /\ \A a, z : VacantAt(offs2, bits2, a, z) <=> VacantAt(offs, bits, a, z)
        /\ Keeps(n, offs, bits, n2, offs2, bits2, AdjOffset(offs, i))
        /\ \A j \in bits2 : AdjOffset(offs2, j) # AdjOffset(offs, i)
    BY <1>3, <1>4, <2>1, <2>4, <2>5, DroppingRight
  <2>7. bits2 # {}
    BY <2>6
  <2>8. \A a, z : VacantAt(offs2, bits2, a, z) <=>
          \/ VacantAt(offs, bits, a, z) /\ a \notin none
          \/ <<a, z>> \in none
    BY <2>6
  <2>9. ASSUME RegionChange(s, none, none) PROVE BinsInv'
    <3>1. BinsHold(mediumbins', marked', Left(s, {}))
      <4>1. BinsHold(mediumbins, marked, FreeBlocks)
        BY DEF IInv, BinsInv
      <4> QED BY <4>1, <1>14, <2>7, UnlinkNone
    <3> QED BY <3>1, <2>9, <1>3, BinsAfter
  <2>10. /\ n_slabs' = [n_slabs EXCEPT ![s] = n2] /\ block_offs' = [block_offs EXCEPT ![s] = offs2]
         /\ block_alloc' = [block_alloc EXCEPT ![s] = bits2]
         /\ held' = held \ {b} /\ aborted' = aborted
    BY <1>14, <2>7
  <2>11. /\ \A j \in bits2 : AdjOffset(offs2, j) # b.at
         /\ Keeps(n, offs, bits, n2, offs2, bits2, b.at)
         /\ n2 \in Nat /\ n2 > 0 /\ n2 <= MaxSlabs
    BY <1>3, <1>4, <2>6
  <2> HIDE DEF none
  <2> QED BY <2>6, <2>7, <2>8, <2>9, <2>10, <2>11, OneBlock DEF s, n, offs, bits
<1>15. CASE /\ ~tooSmall
            /\ IF bits2 = {}
               THEN /\ n_slabs' = [n_slabs EXCEPT ![s] = 0]
                    /\ block_offs' = [block_offs EXCEPT ![s] = NoOffsets]
                    /\ block_alloc' = [block_alloc EXCEPT ![s] = {}]
                    /\ mediumbins' = lists /\ marked' = marked
               ELSE /\ n_slabs' = [n_slabs EXCEPT ![s] = n2]
                    /\ block_offs' = [block_offs EXCEPT ![s] = offs2]
                    /\ block_alloc' = [block_alloc EXCEPT ![s] = bits2]
                    /\ Link(lists, marked, Block(s, start), end - start)
            /\ held' = held \ {b} /\ aborted' = aborted
  <2>1. /\ Joins(n, offs, bits, n2, first, last, i, {}) /\ start = OffsetAt(offs, first) /\ kept = first
    BY <1>9, <1>13, <1>15
  <2>2. offs2 = JoinedOffsets(offs, first, last)
    <3>1. \A j \in Indexes : j \in Nat /\ (j > first <=> ~(j <= first))
      BY <1>13, LastIdxBound DEF Indexes
    <3> QED BY <3>1, <2>1, <1>7 DEF JoinedOffsets
  <2>3. bits2 = JoinedBits(bits, first, last, {})
    BY <1>8 DEF JoinedBits
  <2>4. /\ WellLaid(offs2, bits2)
        /\ \A a, z : VacantAt(offs2, bits2, a, z) <=>
             \/ /\ VacantAt(offs, bits, a, z)
                /\ \A k \in first..last : AdjOffset(offs, k) # a
             \/ /\ none = {} /\ a = OffsetAt(offs, first)
                /\ z = AdjOffset(offs, last + 1) - OffsetAt(offs, first)
        /\ Keeps(n, offs, bits, n2, offs2, bits2, AdjOffset(offs, i))
        /\ none = {} => \A j \in bits2 : AdjOffset(offs2, j) # AdjOffset(offs, i)
    <3>1. none = {}
      OBVIOUS
    <3> HIDE DEF none
    <3> QED BY <2>1, <2>2, <2>3, <3>1, JoiningRight
  <2>5. /\ \A a, z : VacantAt(offs2, bits2, a, z) <=>
             \/ VacantAt(offs, bits, a, z) /\ a \notin gone
             \/ a = start /\ z = end - start
        /\ \A j \in bits2 : AdjOffset(offs2, j) # AdjOffset(offs, i)
        /\ start \in gone
    <3>1. \A a, z : VacantAt(offs, bits, a, z) => a # AdjOffset(offs, i)
      BY <1>3, TakenIsNotVacant
    <3>2. first \in first..last /\ last \in first..last
      <4>1. first \in Nat /\ last \in Nat /\ first <= i /\ i <= last /\ i \in Nat
        BY <1>3, <1>13
      <4> QED BY <4>1
    <3>3. \A a, z : VacantAt(offs, bits, a, z) =>
            ((\A k \in first..last : AdjOffset(offs, k) # a) <=> a \notin gone)
      BY <3>1, <3>2, <1>12, <1>13
    <3>4. end - start = AdjOffset(offs, last + 1) - OffsetAt(offs, first) /\ start \in gone
      BY <2>1, <1>10, <1>12
    <3> QED BY <3>3, <3>4, <2>1, <2>4
  <2>6. BinsHold(lists, marked, Left(s, gone))
    BY <1>11, <1>12, UnlinkTwo DEF IInv
  <2>7. CASE bits2 = {}
    <3>1. /\ n_slabs' = [n_slabs EXCEPT ![s] = 0] /\ block_offs' = [block_offs EXCEPT ![s] = NoOffsets]
          /\ block_alloc' = [block_alloc EXCEPT ![s] = {}]
          /\ mediumbins' = lists /\ marked' = marked
          /\ held' = held \ {b} /\ aborted' = aborted
      BY <1>15, <2>7
    <3>2. OnlyAt(s) /\ n_slabs'[s] = 0 /\ block_offs'[s] = NoOffsets /\ block_alloc'[s] = {}
      <4>1. 0 \in 0..MaxSlabs /\ NoOffsets \in [Indexes -> 0..(SlabSize - 1)] /\ {} \in SUBSET Indexes
        BY EmptyRegion, Sizes DEF WellLaid
      <4> QED BY ZenonT(60), <1>3, <3>1, <4>1, OneChanged DEF IInv
    <3>3. \A a, z : VacantAt(offs, bits, a, z) => a \in gone
      <4>1. \A a, z : VacantAt(offs2, bits2, a, z) => a = Header
        BY <2>4, <2>7, NothingTaken
      <4>2. start = Header
        BY <2>5, <4>1
      <4> QED BY <4>1, <4>2, <2>5
    <3>4. RegionChange(s, gone, {})
      BY <3>2, <3>3 DEF RegionChange, offs, bits
    <3>5. BinsInv'
      BY <3>1, <3>4, <2>6, <1>3, BinsAfter
    <3>6. Keeps(n, offs, bits, 0, NoOffsets, {}, b.at)
      <4>1. \A j \in bits : AdjOffset(offs, j) = b.at
        BY <2>4, <2>7, <1>3 DEF Keeps
      <4> QED BY <4>1 DEF Keeps
    <3>7. HeldInv'
      <4>1. held' = ButAt(s, b.at) \cup {}
        BY <3>1, HeldButOne DEF IInv, s
      <4>2. \A j \in block_alloc'[s] : AdjOffset(block_offs'[s], j) # b.at
        BY <3>2
      <4>3. Keeps(n_slabs[s], block_offs[s], block_alloc[s], n_slabs'[s], block_offs'[s], block_alloc'[s], b.at)
        BY <3>2, <3>6 DEF n, offs, bits
      <4> QED BY <1>3, <3>2, <4>1, <4>2, <4>3, HeldAfter DEF IInv
    <3> QED BY <1>3, <3>1, <3>2, <3>5, <3>7, OneRegion
  <2>8. CASE bits2 # {}
    <3> DEFINE new == {<<start, end - start>>}
    <3>1. /\ n_slabs' = [n_slabs EXCEPT ![s] = n2] /\ block_offs' = [block_offs EXCEPT ![s] = offs2]
          /\ block_alloc' = [block_alloc EXCEPT ![s] = bits2]
          /\ Link(lists, marked, Block(s, start), end - start)
          /\ held' = held \ {b} /\ aborted' = aborted
      BY <1>15, <2>8
    <3>2. start \in 0..(SlabSize - 1) /\ end - start \in MinMedium..MaxMedium
      <4>1. /\ OffsetAt(offs, first) # 0 /\ Known(offs, bits, first)
        BY <2>1 DEF Joins, Known
      <4>2. Header <= start
        BY <4>1, <1>3, <1>10, <1>13, Ascending DEF InOrder
      <4>3. start \in 0..(SlabSize - 1)
        BY <2>1, <1>3, <1>13, PastTheLast
      <4>4. end \in 1..SlabSize
        <5>1. last + 1 \in Nat
          BY <1>13
        <5> QED BY <5>1, <1>3, <1>10, PastTheLast
      <4>5. ~(end - start < MinMedium)
        BY <1>9, <1>15
      <4> QED BY <4>2, <4>3, <4>4, <4>5, Sizes
    <3>3. \A a, z : VacantAt(offs2, bits2, a, z) <=>
            \/ VacantAt(offs, bits, a, z) /\ a \notin gone
            \/ <<a, z>> \in new
      BY <2>5
    <3> DEFINE size == end - start
    <3>4. ASSUME RegionChange(s, gone, new) PROVE BinsInv'
      <4>1. RegionChange(s, gone, {<<start, size>>}) /\ size \in MinMedium..MaxMedium
        BY <3>2, <3>4
      <4>2. mediumbins' = [lists EXCEPT ![size] = <<Block(s, start)>> \o @] /\ marked' = marked \cup {size}
        BY <3>1 DEF Link
      <4>3. \A z : n_slabs[s] > 0 /\ VacantAt(block_offs[s], block_alloc[s], start, z) => start \in gone
        BY <2>5
      <4> HIDE DEF size
      <4>4. BinsHold([lists EXCEPT ![size] = <<Block(s, start)>> \o @], marked \cup {size}, FreeBlocks')
        BY <1>3, <2>6, <3>2, <4>1, <4>3, BinsAfterLink
      <4> QED BY <4>2, <4>4 DEF BinsInv
    <3>5. /\ \A j \in bits2 : AdjOffset(offs2, j) # b.at
          /\ Keeps(n, offs, bits, n2, offs2, bits2, b.at)
          /\ n2 \in Nat /\ n2 > 0 /\ n2 <= MaxSlabs
      BY <1>3, <1>4, <2>4, <2>5
    <3> HIDE DEF new, none
    <3> QED BY <2>4, <2>8, <3>1, <3>3, <3>4, <3>5, OneBlock DEF s, n, offs, bits
  <2> QED BY <2>7, <2>8
<1>16. CASE Abort("wild unlink") \/ Abort("assertion")
  BY <1>16, StandsStill DEF Abort
<1> QED BY <1>1, <1>14, <1>15, <1>16 DEF tooSmall

-----------------------------------------------------------------------------
LEMMA InitRight ==
  ASSUME Init
  PROVE  IInv
<1>1. NoOffsets \in [Indexes -> 0..(SlabSize - 1)]
  BY EmptyRegion DEF WellLaid
<1>2. TypesInv /\ HeadersInv
  BY <1>1, Sizes DEF Init, TypesInv, HeadersInv
<1>3. FreeBlocks = {}
  BY DEF Init, FreeBlocks, Ours
<1>4. BinsInv
  <2>1. <<>> \in Seq([slab : Slabs, at : 0..(SlabSize - 1)])
    OBVIOUS
  <2>2. /\ mediumbins = [z \in MinMedium..MaxMedium |-> <<>>] /\ marked = {}
    BY DEF Init
  <2> QED BY <1>3, <2>1, <2>2 DEF BinsInv, BinsHold, BinHolds
<1>5. HeldInv
  BY FS_EmptySet DEF Init, HeldInv
<1> QED BY <1>2, <1>4, <1>5 DEF IInv

LEMMA NextRight ==
  ASSUME IInv, [Next]_vars
  PROVE  IInv'
<1>1. ASSUME NEW size \in Requests, FindMedium(size) \/ AllocFromNewSlabs(size) PROVE IInv'
  BY <1>1, FindMediumRight, AllocFromNewSlabsRight
<1>2. ASSUME NEW b \in held, Free(b) PROVE IInv'
  BY <1>2, FreeRight
<1>3. ASSUME NEW b \in held, NEW size \in Requests,
             \/ GrowLarge(b, size) \/ ShrinkToMedium(b, size) \/ ShrinkLarge(b, size)
             \/ ShrinkMedium(b, size) \/ GrowMedium(b, size)
      PROVE  IInv'
  BY <1>3, GrowLargeRight, ShrinkToMediumRight, ShrinkLargeRight, ShrinkMediumRight, GrowMediumRight
<1>4. CASE UNCHANGED vars
  <2>1. UNCHANGED <<header, bins, held>> /\ aborted' \in {"no", "assertion", "wild unlink"}
    BY <1>4 DEF vars, IInv, TypesInv
  <2> QED BY <2>1, StandsStill
<1> QED BY <1>1, <1>2, <1>3, <1>4 DEF Next

(* The inductive invariant: what the headers, the bins and the callers say    *)
(* of the regions agrees after any sequence of operations.                  *)
THEOREM HeadersStayRight == Spec => []IInv
<1>1. Init => IInv
  BY InitRight
<1>2. IInv /\ [Next]_vars => IInv'
  BY NextRight
<1> QED BY <1>1, <1>2, PTL DEF Spec

-----------------------------------------------------------------------------
(* What it says of the headers.                                             *)
LEMMA SameSize ==
  ASSUME NEW S, NEW T, IsFiniteSet(S), NEW f \in [S -> T],
         \A x, y \in S : f[x] = f[y] => x = y, \A t \in T : \E x \in S : f[x] = t
  PROVE  Cardinality(T) = Cardinality(S) /\ IsFiniteSet(T)
<1>1. f \in Surjection(S, T)
  BY DEF Surjection
<1>2. f \in Injection(S, T)
  BY DEF Injection, IsInjective
<1> QED BY <1>1, <1>2, FS_Surjection

LEMMA EntriesAre ==
  ASSUME NEW s, WellLaid(block_offs[s], block_alloc[s])
  PROVE  /\ block_alloc[s] \subseteq Entries(s)
         /\ \A i \in Indexes : i \in Entries(s) \ block_alloc[s] <=> Vacant(block_offs[s], block_alloc[s], i)
<1> DEFINE offs == block_offs[s]
           bits == block_alloc[s]
<1>1. WellLaid(offs, bits)
  OBVIOUS
<1>2. Entries(s) = {i \in Indexes : offs[i] # 0} \cup {i \in bits : offs[i] = 0 /\ offs[i - 1] # 0}
  BY DEF Entries
<1> HIDE DEF offs, bits
<1>3. \A i \in Indexes : i \in Nat /\ OffsetAt(offs, i) = offs[i]
  BY <1>1, PastTheLast, LastIdxBound DEF Indexes
<1>4. bits \subseteq Indexes
  BY <1>1 DEF WellLaid
<1>5. ASSUME NEW i \in bits, offs[i] = 0 PROVE offs[i - 1] # 0
  <2>1. i \in Indexes /\ i \in Nat /\ Known(offs, bits, i)
    BY <1>3, <1>4 DEF Known
  <2>2. i # 0
    BY <1>1, <1>3, <1>5, <2>1, Sizes DEF WellLaid
  <2>3. i - 1 \in Nat /\ i - 1 < i /\ i - 1 \in Indexes
    BY <2>1, <2>2, LastIdxBound DEF Indexes
  <2>4. OffsetAt(offs, i - 1) # 0
    BY <1>1, <2>1, <2>3, Ascending DEF InOrder
  <2> QED BY <2>3, <2>4, <1>3
<1>6. bits \subseteq Entries(s)
  BY <1>2, <1>4, <1>5
<1>7. \A i \in Indexes : i \in Entries(s) \ bits <=> Vacant(offs, bits, i)
  BY <1>2, <1>3 DEF Vacant
<1> QED BY <1>6, <1>7 DEF offs, bits

LEMMA TypesAreRight ==
  ASSUME IInv
  PROVE  TypeOK
BY DEF IInv, TypesInv, BinsInv, BinsHold, HeldInv, TypeOK

LEMMA HeadersTell ==
  ASSUME IInv, NEW s \in Ours
  PROVE  /\ \A i, j \in Indexes : i < j => \/ block_offs[s][j] = 0
                                           \/ 0 < block_offs[s][i] /\ block_offs[s][i] < block_offs[s][j]
         /\ block_alloc[s] # {} /\ block_alloc[s] \subseteq Entries(s)
         /\ \A i \in Entries(s) \ block_alloc[s] : i + 1 \in Entries(s) => i + 1 \in block_alloc[s]
         /\ \A i \in block_alloc[s] : \E b \in held :
              b.slab = s /\ b.at = AdjOffset(block_offs[s], i) /\ b.size <= BlockSize(s, i)
<1>1. /\ s \in Slabs /\ n_slabs[s] > 0 /\ n_slabs[s] \in Nat
      /\ WellLaid(block_offs[s], block_alloc[s]) /\ block_alloc[s] # {}
  <2>1. s \in Slabs /\ n_slabs[s] > 0 /\ n_slabs[s] \in 0..MaxSlabs
    BY DEF Ours, IInv, TypesInv
  <2>2. WellLaid(block_offs[s], block_alloc[s]) /\ block_alloc[s] # {}
    BY <2>1 DEF IInv, HeadersInv
  <2> QED BY <2>1, <2>2, Sizes
<1> DEFINE offs == block_offs[s]
           bits == block_alloc[s]
           n == n_slabs[s]
<1>2. WellLaid(offs, bits)
  BY <1>1
<1>3. /\ bits \subseteq Entries(s) /\ Entries(s) \subseteq Indexes
      /\ \A i \in Indexes : i \in Entries(s) \ bits <=> Vacant(offs, bits, i)
  <2>1. Entries(s) \subseteq Indexes
    BY <1>1 DEF Entries, WellLaid
  <2> QED BY <2>1, <1>1, EntriesAre
<1>4. \A b \in held : TakenAt(b.slab, b.at, PosOf(b.slab, b.at)) /\ b.size <= BlockSize(b.slab, PosOf(b.slab, b.at))
  BY HeldFound DEF IInv
<1>5. \A i \in bits : \E b \in held : b.slab = s /\ b.at = AdjOffset(offs, i)
  BY <1>1 DEF IInv, HeldInv
<1> HIDE DEF offs, bits, n
<1>6. \A i \in Indexes : i \in Nat /\ OffsetAt(offs, i) = offs[i] /\ OffsetAt(offs, i) \in 0..(SlabSize - 1)
  BY <1>2, PastTheLast, LastIdxBound DEF Indexes
<1>7. ASSUME NEW i \in Indexes, NEW j \in Indexes, i < j, offs[j] # 0 PROVE 0 < offs[i] /\ offs[i] < offs[j]
  <2>1. /\ i \in Nat /\ j \in Nat /\ Known(offs, bits, j)
        /\ AdjOffset(offs, j) = offs[j] /\ offs[i] \in 0..(SlabSize - 1) /\ offs[j] \in 0..(SlabSize - 1)
    BY <1>2, <1>6, <1>7, PastTheLast DEF Known
  <2>2. /\ OffsetAt(offs, i) # 0 /\ AdjOffset(offs, i) = offs[i]
        /\ AdjOffset(offs, i) + MinMedium <= AdjOffset(offs, i + 1)
        /\ AdjOffset(offs, i + 1) <= AdjOffset(offs, j)
    BY <1>2, <1>6, <1>7, <2>1, Ascending DEF InOrder
  <2>3. AdjOffset(offs, i + 1) \in 1..SlabSize
    <3>1. i + 1 \in Nat
      BY <2>1
    <3> QED BY <3>1, <1>2, PastTheLast
  <2>4. offs[i] # 0
    BY <2>2, <1>6
  <2> QED BY <2>1, <2>2, <2>3, <2>4, Sizes
<1>8. ASSUME NEW i \in Entries(s) \ bits, i + 1 \in Entries(s) PROVE i + 1 \in bits
  <2>1. i \in Indexes /\ i + 1 \in Indexes /\ i \in Nat /\ Vacant(offs, bits, i)
    BY <1>3, <1>6, <1>8
  <2>2. ~Vacant(offs, bits, i + 1)
    <3>1. Fits(offs, bits, i)
      BY <1>2, <2>1, WellLaidFits
    <3> QED BY <3>1, <2>1 DEF Fits, Vacant
  <2> QED BY <1>3, <1>8, <2>1, <2>2
<1>9. ASSUME NEW i \in bits
      PROVE  \E b \in held : b.slab = s /\ b.at = AdjOffset(offs, i) /\ b.size <= BlockSize(s, i)
  <2>1. PICK b \in held : b.slab = s /\ b.at = AdjOffset(offs, i)
    BY <1>5
  <2>2. i \in Nat /\ Known(offs, bits, i)
    BY <1>3, <1>6 DEF Known
  <2>3. PosOf(s, b.at) = i
    BY <1>1, <2>1, <2>2, Found DEF offs, bits
  <2> QED BY <1>4, <2>1, <2>3
<1> QED BY <1>1, <1>3, <1>7, <1>8, <1>9 DEF offs, bits

(* Each block that is held has a bit, and each bit a block.                  *)
LEMMA BlocksHaveBits ==
  ASSUME IInv
  PROVE  /\ \A b \in held : PosOf(b.slab, b.at) \in block_alloc[b.slab] /\ PosOf(b.slab, b.at) \in Indexes /\ b.slab \in Slabs
         /\ \A b, c \in held : b.slab = c.slab /\ PosOf(b.slab, b.at) = PosOf(c.slab, c.at) => b = c
         /\ \A s \in Slabs : \A i \in block_alloc[s] : \E b \in held : b.slab = s /\ PosOf(b.slab, b.at) = i
<1>1. \A b \in held : TakenAt(b.slab, b.at, PosOf(b.slab, b.at))
  BY HeldFound DEF IInv
<1>2. \A b, c \in held : b.slab = c.slab /\ PosOf(b.slab, b.at) = PosOf(c.slab, c.at) => b = c
  <2> SUFFICES ASSUME NEW b \in held, NEW c \in held, b.slab = c.slab,
                      PosOf(b.slab, b.at) = PosOf(c.slab, c.at)
               PROVE  b = c
    OBVIOUS
  <2>1. b.at = c.at
    BY <1>1 DEF TakenAt
  <2> QED BY <2>1 DEF IInv, HeldInv
<1>3. ASSUME NEW s \in Slabs, NEW i \in block_alloc[s]
      PROVE  \E b \in held : b.slab = s /\ PosOf(b.slab, b.at) = i
  <2>1. PICK b \in held : b.slab = s /\ b.at = AdjOffset(block_offs[s], i)
    BY DEF IInv, HeldInv
  <2>2. WellLaid(block_offs[s], block_alloc[s])
    BY <1>1, <2>1 DEF TakenAt
  <2>3. i \in Nat /\ Known(block_offs[s], block_alloc[s], i)
    BY <2>2, LastIdxBound DEF WellLaid, Indexes, Known
  <2> QED BY <2>1, <2>2, <2>3, Found
<1> QED BY <1>1, <1>2, <1>3 DEF TakenAt

LEMMA BitsCount ==
  ASSUME IInv, NEW s \in Slabs
  PROVE  Cardinality({b \in held : b.slab = s}) = IF s \in Ours THEN Cardinality(block_alloc[s]) ELSE 0
<1> DEFINE mine == {b \in held : b.slab = s}
           f == [b \in mine |-> PosOf(b.slab, b.at)]
<1>1. IsFiniteSet(mine)
  BY FS_Subset DEF IInv, HeldInv
<1>2. f \in [mine -> block_alloc[s]]
  BY BlocksHaveBits
<1>3. \A b, c \in mine : f[b] = f[c] => b = c
  BY BlocksHaveBits
<1>4. \A i \in block_alloc[s] : \E b \in mine : f[b] = i
  BY BlocksHaveBits
<1>5. Cardinality(block_alloc[s]) = Cardinality(mine)
  <2> HIDE DEF mine, f
  <2> QED BY <1>1, <1>2, <1>3, <1>4, SameSize
<1>6. s \notin Ours => block_alloc[s] = {}
  BY DEF IInv, HeadersInv, Ours
<1> QED BY <1>5, <1>6, FS_EmptySet

LEMMA HeadersAreTrue == IInv => HeaderTellsBlocks
BY TypesAreRight, HeadersTell, BitsCount DEF HeaderTellsBlocks

(* What a header says of the blocks of its region is true after any sequence *)
(* of mallocs, merging frees and reallocs in place, for any slabs, sizes    *)
(* and number of regions (mm.c:1515-1660, 2218-2420, 2497-2680).            *)
THEOREM HeadersTellBlocks == Spec => []HeaderTellsBlocks
<1> QED BY HeadersAreTrue, HeadersStayRight, PTL

LEMMA BinsAreTrue ==
  ASSUME IInv
  PROVE  BinsHoldFreeBlocks
<1> DEFINE free == {e \in Ours \X Indexes : e[2] \in Entries(e[1]) \ block_alloc[e[1]]}
<1>1. ASSUME NEW s \in Ours
      PROVE  /\ s \in Slabs /\ n_slabs[s] > 0 /\ WellLaid(block_offs[s], block_alloc[s])
             /\ \A i \in Indexes : i \in Entries(s) \ block_alloc[s]
                                   <=> Vacant(block_offs[s], block_alloc[s], i)
             /\ \A i \in Indexes : OffsetAt(block_offs[s], i) = block_offs[s][i]
  <2>1. s \in Slabs /\ n_slabs[s] > 0 /\ WellLaid(block_offs[s], block_alloc[s])
    BY DEF IInv, HeadersInv, Ours
  <2>2. \A i \in Indexes : OffsetAt(block_offs[s], i) = block_offs[s][i]
    BY <2>1, PastTheLast, LastIdxBound DEF Indexes
  <2> QED BY <2>1, <2>2, EntriesAre
<1>2. \A e \in Ours \X Indexes : e \in free <=> Vacant(block_offs[e[1]], block_alloc[e[1]], e[2])
  BY <1>1
<1>3. FreeBlocks = {<<e[1], block_offs[e[1]][e[2]], FreeSize(e[1], e[2])>> : e \in free}
  <2>1. \A e \in Ours \X Indexes : OffsetAt(block_offs[e[1]], e[2]) = block_offs[e[1]][e[2]]
    BY <1>1
  <2> QED BY <1>2, <2>1 DEF FreeBlocks, FreeSize
<1>4. BinsHold(mediumbins, marked, FreeBlocks)
  BY DEF IInv, BinsInv
<1> HIDE DEF free
<1>5. DOMAIN mediumbins = MinMedium..MaxMedium
  BY <1>4 DEF BinsHold
<1>6. \A f \in free : FreeSize(f[1], f[2]) \in DOMAIN mediumbins
  <2> SUFFICES ASSUME NEW f \in free PROVE FreeSize(f[1], f[2]) \in MinMedium..MaxMedium
    BY <1>5
  <2> DEFINE g == <<f[1], block_offs[f[1]][f[2]], FreeSize(f[1], f[2])>>
  <2>1. g \in FreeBlocks /\ g[3] = FreeSize(f[1], f[2])
    BY <1>3
  <2> HIDE DEF g
  <2> QED BY <2>1, <1>4 DEF BinsHold
<1>7. ASSUME NEW z \in DOMAIN mediumbins
      PROVE  /\ {mediumbins[z][k] : k \in DOMAIN mediumbins[z]}
                  = {Block(f[1], block_offs[f[1]][f[2]]) : f \in {e \in free : FreeSize(e[1], e[2]) = z}}
             /\ mediumbins[z] # <<>> => z \in marked
             /\ \A j, k \in DOMAIN mediumbins[z] : mediumbins[z][j] = mediumbins[z][k] => j = k
  <2>1. /\ BinHolds(mediumbins[z], z, FreeBlocks) /\ (mediumbins[z] # <<>> => z \in marked)
        /\ mediumbins[z] \in Seq([slab : Slabs, at : 0..(SlabSize - 1)])
    BY <1>4, <1>5 DEF BinsHold
  <2> DEFINE list == mediumbins[z]
  <2>2. \A k \in DOMAIN list : list[k] = Block(list[k].slab, list[k].at)
    <3>1. \A m \in [slab : Slabs, at : 0..(SlabSize - 1)] : m = Block(m.slab, m.at)
      BY DEF Block
    <3> DEFINE blocks == [slab : Slabs, at : 0..(SlabSize - 1)]
    <3>0. list \in Seq(blocks)
      BY <2>1
    <3> HIDE DEF list, blocks
    <3>2. \A k \in DOMAIN list : list[k] \in blocks
      BY <3>0
    <3> QED BY <3>1, <3>2 DEF blocks
  <2> HIDE DEF list
  <2>3. ASSUME NEW k \in DOMAIN list
        PROVE  \E f \in free : FreeSize(f[1], f[2]) = z /\ list[k] = Block(f[1], block_offs[f[1]][f[2]])
    <3>1. <<list[k].slab, list[k].at, z>> \in FreeBlocks
      BY <2>1, <2>3 DEF BinHolds, list
    <3>2. PICK f \in free : <<list[k].slab, list[k].at, z>> = <<f[1], block_offs[f[1]][f[2]], FreeSize(f[1], f[2])>>
      BY <1>3, <3>1
    <3> QED BY <2>2, <3>2
  <2>4. ASSUME NEW f \in free, FreeSize(f[1], f[2]) = z
        PROVE  \E k \in DOMAIN list : list[k] = Block(f[1], block_offs[f[1]][f[2]])
    <3> DEFINE g == <<f[1], block_offs[f[1]][f[2]], FreeSize(f[1], f[2])>>
    <3>1. g \in FreeBlocks
      BY <1>3
    <3>2. g[3] = z /\ g[1] = f[1] /\ g[2] = block_offs[f[1]][f[2]]
      BY <2>4
    <3> HIDE DEF g
    <3>3. \E k \in DOMAIN list : list[k] = Block(g[1], g[2])
      BY <2>1, <3>1, <3>2 DEF BinHolds, list
    <3> QED BY <3>2, <3>3
  <2>5. {list[k] : k \in DOMAIN list}
          = {Block(f[1], block_offs[f[1]][f[2]]) : f \in {e \in free : FreeSize(e[1], e[2]) = z}}
    BY <2>3, <2>4
  <2> QED BY <2>1, <2>5 DEF list, BinHolds
<1> QED BY <1>6, <1>7 DEF BinsHoldFreeBlocks, free

(* Every free block can be found in the bin of its size, which the skip list *)
(* knows of, and nothing else can (mm.c:1466-1513, 2058-2150).              *)
THEOREM BinsHoldTheFree == Spec => []BinsHoldFreeBlocks
<1>1. IInv => BinsHoldFreeBlocks
  BY BinsAreTrue
<1> QED BY <1>1, HeadersStayRight, PTL

-----------------------------------------------------------------------------
(* The promise to the callers.                                               *)
SetBits == {e \in Slabs \X Indexes : e[2] \in block_alloc[e[1]]}

PoolFacts ==
  /\ Cardinality(SetBits) = Cardinality(held) /\ IsFiniteSet(held)
  /\ held \subseteq Pool!Blocks
  /\ \A b, c \in held : b # c => Pool!Apart(b, c)
  /\ \A b, c \in held : b.slab = c.slab /\ b.at = c.at => b = c

LEMMA ApartInOrder ==
  ASSUME NEW n \in Nat, NEW offs, NEW bits, WellLaid(offs, bits), NEW i \in Nat, NEW j \in Nat,
         i < j, Known(offs, bits, j), NEW size \in Nat, size <= Room(n, offs, bits, i)
  PROVE  AdjOffset(offs, i) + size <= AdjOffset(offs, j)
<1>1. Known(offs, bits, i + 1) /\ AdjOffset(offs, i + 1) <= AdjOffset(offs, j)
  BY Ascending DEF InOrder
<1>2. Room(n, offs, bits, i) = AdjOffset(offs, i + 1) - AdjOffset(offs, i)
  BY <1>1 DEF Room
<1>3. AdjOffset(offs, i) \in Int /\ AdjOffset(offs, i + 1) \in Int /\ AdjOffset(offs, j) \in Int
  <2>1. i + 1 \in Nat
    OBVIOUS
  <2> QED BY <2>1, PastTheLast
<1> QED BY <1>1, <1>2, <1>3

LEMMA HeldAreApart ==
  ASSUME IInv, NEW b \in held, NEW c \in held, b # c
  PROVE  Pool!Apart(b, c)
<1> SUFFICES ASSUME b.slab = c.slab PROVE b.at + b.size <= c.at \/ c.at + c.size <= b.at
  BY DEF Pool!Apart
<1> DEFINE s == b.slab
           i == PosOf(s, b.at)
           j == PosOf(s, c.at)
           n == n_slabs[s]
           offs == block_offs[s]
           bits == block_alloc[s]
<1>1. /\ TakenAt(s, b.at, i) /\ b.size <= BlockSize(s, i) /\ b.size \in Nat
      /\ TakenAt(s, c.at, j) /\ c.size <= BlockSize(s, j) /\ c.size \in Nat
  BY HeldFound DEF IInv
<1>2. /\ n \in Nat /\ WellLaid(offs, bits) /\ i \in Nat /\ j \in Nat
      /\ Known(offs, bits, i) /\ Known(offs, bits, j)
      /\ b.size <= Room(n, offs, bits, i) /\ c.size <= Room(n, offs, bits, j)
      /\ AdjOffset(offs, i) = b.at /\ AdjOffset(offs, j) = c.at
  BY <1>1 DEF TakenAt
<1>3. b.at # c.at
  BY DEF IInv, HeldInv
<1> HIDE DEF s, i, j, n, offs, bits
<1>4. CASE i < j
  BY <1>1, <1>2, <1>4, ApartInOrder
<1>5. CASE j < i
  BY <1>1, <1>2, <1>5, ApartInOrder
<1>6. i # j
  BY <1>2, <1>3
<1> QED BY <1>2, <1>4, <1>5, <1>6

LEMMA PoolFactsHold == IInv => PoolFacts
<1> SUFFICES ASSUME IInv PROVE PoolFacts
  OBVIOUS
<1>1. IsFiniteSet(held) /\ \A b, c \in held : b.slab = c.slab /\ b.at = c.at => b = c
  BY DEF IInv, HeldInv
<1>2. Cardinality(SetBits) = Cardinality(held)
  <2> DEFINE f == [b \in held |-> <<b.slab, PosOf(b.slab, b.at)>>]
  <2>1. f \in [held -> SetBits]
    BY BlocksHaveBits DEF SetBits
  <2>2. \A b, c \in held : f[b] = f[c] => b = c
    BY BlocksHaveBits
  <2>3. \A e \in SetBits : \E b \in held : f[b] = e
    <3> SUFFICES ASSUME NEW e \in SetBits PROVE \E b \in held : f[b] = e
      OBVIOUS
    <3>1. e[1] \in Slabs /\ e[2] \in block_alloc[e[1]] /\ e = <<e[1], e[2]>>
      BY DEF SetBits
    <3>2. PICK b \in held : b.slab = e[1] /\ PosOf(b.slab, b.at) = e[2]
      BY <3>1, BlocksHaveBits
    <3> QED BY <3>1, <3>2
  <2> HIDE DEF f
  <2> QED BY <1>1, <2>1, <2>2, <2>3, SameSize
<1>3. held \subseteq Pool!Blocks
  <2>1. Header..SlabSize \subseteq Nat /\ Requests \subseteq Nat \ {0}
    BY Sizes, RequestsAre
  <2> QED BY <2>1 DEF IInv, HeldInv, Pool!Blocks
<1> QED BY <1>1, <1>2, <1>3, HeldAreApart DEF PoolFacts

(* Where they are: in the slabs of their regions, after the headers.         *)
HeldPlaces ==
  /\ n_slabs \in [Slabs -> Nat]
  /\ \A b \in held :
       /\ b.slab \in Slabs /\ b.at \in 1..SlabSize /\ b.size \in Nat \ {0}
       /\ b = HeldBlock(b.slab, b.at, b.size)
       /\ n_slabs[b.slab] > 0 /\ b.at + b.size <= n_slabs[b.slab] * SlabSize
  /\ \A b, c \in held : b # c /\ b.slab = c.slab => b.at + b.size <= c.at \/ c.at + c.size <= b.at

LEMMA HeldPlacesHold == IInv => HeldPlaces
<1> SUFFICES ASSUME IInv PROVE HeldPlaces
  OBVIOUS
<1>1. n_slabs \in [Slabs -> Nat]
  <2>1. 0..MaxSlabs \subseteq Nat
    BY Sizes
  <2> QED BY <2>1 DEF IInv, TypesInv
<1>2. ASSUME NEW b \in held
      PROVE  /\ b.slab \in Slabs /\ b.at \in 1..SlabSize /\ b.size \in Nat \ {0}
             /\ b = HeldBlock(b.slab, b.at, b.size)
             /\ n_slabs[b.slab] > 0 /\ b.at + b.size <= n_slabs[b.slab] * SlabSize
  <2> DEFINE s == b.slab
             i == PosOf(b.slab, b.at)
             n == n_slabs[s]
             offs == block_offs[s]
             bits == block_alloc[s]
  <2>1. TakenAt(s, b.at, i) /\ b.size <= BlockSize(s, i) /\ b.size \in Requests
    BY HeldFound DEF IInv
  <2>2. /\ s \in Slabs /\ n \in Nat \ {0} /\ i \in Nat /\ WellLaid(offs, bits)
        /\ AdjOffset(offs, i) = b.at /\ b.size <= Room(n, offs, bits, i)
    BY <2>1 DEF TakenAt
  <2>3. b \in [slab : Slabs, at : Header..SlabSize, size : Requests]
    BY DEF IInv, HeldInv
  <2>4. b = HeldBlock(s, b.at, b.size) /\ b.at \in 1..SlabSize /\ b.size \in Nat \ {0}
    <3>1. b = HeldBlock(s, b.at, b.size)
      BY <2>3 DEF HeldBlock
    <3>2. b.at \in 1..SlabSize
      BY <2>3, Sizes
    <3>3. b.size \in Nat \ {0}
      <4>1. b.size \in Nat /\ MinMedium <= b.size /\ MinMedium \in Nat \ {0}
        BY <2>1, RequestsAre, Sizes
      <4> QED BY <4>1
    <3> QED BY <3>1, <3>2, <3>3
  <2> HIDE DEF s, i, n, offs, bits
  <2>5. AdjOffset(offs, i + 1) \in 1..SlabSize
    BY <2>2, PastTheLast
  <2>6. 1 * SlabSize <= n * SlabSize /\ n * SlabSize \in Int
    BY <2>2, Sizes, TimesMonotone
  <2>7. b.at + b.size <= n * SlabSize
    BY <2>2, <2>4, <2>5, <2>6, Sizes DEF Room
  <2> QED BY <2>2, <2>4, <2>7 DEF s, n
<1>3. \A b, c \in held : b # c /\ b.slab = c.slab => b.at + b.size <= c.at \/ c.at + c.size <= b.at
  BY HeldAreApart DEF Pool!Apart
<1> QED BY <1>1, <1>2, <1>3 DEF HeldPlaces

(* What a step does to the blocks that callers hold.                         *)
HeldChanges ==
  \/ UNCHANGED held
  \/ \E x : held' = held \cup {x}
  \/ \E b \in held : held' = held \ {b}
  \/ \E b \in held, r \in held' : /\ r.slab = b.slab /\ r.at = b.at
                                  /\ held' = (held \ {b}) \cup {r}

LEMMA StepsChangeHeld ==
  ASSUME IInv, [Next]_vars
  PROVE  HeldChanges
<1>1. ASSUME NEW size \in Requests, FindMedium(size) \/ AllocFromNewSlabs(size) PROVE HeldChanges
  <2>1. \E x : held' = held \cup {x}
    BY <1>1 DEF FindMedium, AllocFromNewSlabs, InitMedium, InitLarge, Holding
  <2> QED BY <2>1 DEF HeldChanges
<1>2. ASSUME NEW b \in held, Free(b) PROVE HeldChanges
  BY <1>2 DEF Free, Abort, HeldChanges
<1>3. ASSUME NEW b \in held, NEW size \in Requests,
             \/ GrowLarge(b, size) \/ ShrinkToMedium(b, size) \/ ShrinkLarge(b, size)
             \/ ShrinkMedium(b, size) \/ GrowMedium(b, size)
      PROVE  HeldChanges
  <2>1. Resized(b, size) \/ UNCHANGED held
    BY <1>3 DEF GrowLarge, ShrinkToMedium, ShrinkLarge, ShrinkMedium, GrowMedium, Abort
  <2>2. ASSUME Resized(b, size) PROVE HeldChanges
    <3> DEFINE r == [b EXCEPT !.size = size]
    <3>1. r.slab = b.slab /\ r.at = b.at
      BY DEF IInv, HeldInv
    <3>2. held' = (held \ {b}) \cup {r} /\ r \in held'
      BY <2>2 DEF Resized
    <3> QED BY <3>1, <3>2 DEF HeldChanges
  <2> QED BY <2>1, <2>2 DEF HeldChanges
<1>4. CASE UNCHANGED vars
  BY <1>4 DEF vars, HeldChanges
<1> QED BY <1>1, <1>2, <1>3, <1>4 DEF Next

(* Nothing but a malloc makes a region of a slab that is none.               *)
NoNewRegion == \A s \in Slabs : n_slabs[s] = 0 => n_slabs'[s] = 0

LEMMA FreeMakesNoRegion ==
  ASSUME IInv, NEW b \in held, Free(b)
  PROVE  NoNewRegion
<1>1. b.slab \in Slabs /\ n_slabs \in [Slabs -> Nat] /\ n_slabs[b.slab] > 0
  BY HeldPlacesHold DEF HeldPlaces
<1>2. n_slabs' = n_slabs \/ \E n : n_slabs' = [n_slabs EXCEPT ![b.slab] = n]
  BY DEF Free, Abort, header
<1> QED BY <1>1, <1>2 DEF NoNewRegion

LEMMA ResizeMakesNoRegion ==
  ASSUME IInv, NEW b \in held, NEW size,
         \/ GrowLarge(b, size) \/ ShrinkToMedium(b, size) \/ ShrinkLarge(b, size)
         \/ ShrinkMedium(b, size) \/ GrowMedium(b, size)
  PROVE  NoNewRegion
<1>1. b.slab \in Slabs /\ n_slabs \in [Slabs -> Nat] /\ n_slabs[b.slab] > 0
  BY HeldPlacesHold DEF HeldPlaces
<1>2. n_slabs' = n_slabs \/ \E n : n_slabs' = [n_slabs EXCEPT ![b.slab] = n]
  BY DEF GrowLarge, ShrinkToMedium, ShrinkLarge, ShrinkMedium, GrowMedium, Abort, header
<1> QED BY <1>1, <1>2 DEF NoNewRegion

(* The blocks of the medium and large regions keep BlockPool's promise: each *)
(* step hands one out apart from all others, takes one back, resizes one    *)
(* where it is, or leaves them as they are, and the bits in the headers     *)
(* count them.                                                              *)
THEOREM MediumKeepsPool == Spec => KeepsBlockPool
<1>1. ASSUME Init PROVE Pool!Init
  <2>1. PoolFacts
    BY <1>1, InitRight, PoolFactsHold
  <2>2. held = {}
    BY <1>1 DEF Init
  <2> QED BY <2>1, <2>2, FS_EmptySet DEF Pool!Init, PoolFacts, SetBits
<1>2. ASSUME IInv, IInv', [Next]_vars
      PROVE  [Pool!Next]_<<held, Cardinality({e \in Slabs \X Indexes : e[2] \in block_alloc[e[1]]})>>
  <2>1. PoolFacts
    BY <1>2, PoolFactsHold
  <2>2. PoolFacts'
    BY <1>2, PoolFactsHold, PTL
  <2> DEFINE was == Cardinality(held)
             now == Cardinality(held')
             count == Cardinality({e \in Slabs \X Indexes : e[2] \in block_alloc[e[1]]})
  <2>3. /\ count = was /\ IsFiniteSet(held) /\ held \subseteq Pool!Blocks
        /\ \A b, c \in held : b # c => Pool!Apart(b, c)
        /\ \A b, c \in held : b.slab = c.slab /\ b.at = c.at => b = c
        /\ was \in Nat
    BY <2>1, FS_CardinalityType DEF PoolFacts, SetBits
  <2>4. /\ count' = now /\ IsFiniteSet(held') /\ held' \subseteq Pool!Blocks
        /\ \A b, c \in held' : b # c => Pool!Apart(b, c)
    BY <2>2 DEF PoolFacts, SetBits, Pool!Blocks, Pool!Apart
  <2> HIDE DEF count
  <2>5. ASSUME UNCHANGED held PROVE UNCHANGED <<held, count>>
    <3>1. count' = count
      BY <2>3, <2>4, <2>5
    <3> QED BY <2>5, <3>1
  <2>6. ASSUME NEW x, held' = held \cup {x} PROVE UNCHANGED <<held, count>> \/ Pool!Give
    <3>1. CASE x \in held
      <4>1. held' = held
        BY <2>6, <3>1
      <4> QED BY <4>1, <2>3, <2>4
    <3>2. CASE x \notin held
      <4>1. count' = count + 1
        BY <2>3, <2>4, <2>6, <3>2, FS_AddElement
      <4>2. x \in held' /\ x \in Pool!Blocks \ held /\ \A c \in held : Pool!Apart(x, c)
        BY <2>4, <2>6, <3>2
      <4> QED BY <2>6, <4>1, <4>2 DEF Pool!Give, count
    <3> QED BY <3>1, <3>2
  <2>7. ASSUME NEW b \in held, held' = held \ {b} PROVE Pool!TakeBack
    <3>1. count' = count - 1
      BY <2>3, <2>4, <2>7, FS_RemoveElement
    <3> QED BY <2>7, <3>1 DEF Pool!TakeBack, count
  <2>8. ASSUME NEW b \in held, NEW r \in held', r.slab = b.slab, r.at = b.at,
               held' = (held \ {b}) \cup {r}
        PROVE  Pool!Resize
    <3>1. r \notin held \ {b}
      BY <2>3, <2>8
    <3>2. /\ IsFiniteSet(held \ {b}) /\ Cardinality(held \ {b}) = was - 1
          /\ Cardinality((held \ {b}) \cup {r}) = (was - 1) + 1
      <4>1. IsFiniteSet(held \ {b}) /\ Cardinality(held \ {b}) = was - 1
        BY <2>3, <2>8, FS_RemoveElement
      <4> QED BY <4>1, <3>1, FS_AddElement
    <3>3. count' = count
      BY <2>3, <2>4, <2>8, <3>2
    <3>4. r \in Pool!Blocks /\ \A c \in held \ {b} : Pool!Apart(r, c)
      BY <2>4, <2>8, <3>1
    <3> QED BY <2>8, <3>3, <3>4 DEF Pool!Resize, count
  <2>9. HeldChanges
    BY <1>2, StepsChangeHeld
  <2> QED BY <2>5, <2>6, <2>7, <2>8, <2>9 DEF HeldChanges, Pool!Next, count
<1> QED BY <1>1, <1>2, HeadersStayRight, PTL DEF Spec, KeepsBlockPool, Pool!Spec

-----------------------------------------------------------------------------
(* BlockPool's promise, whoever keeps it and however they count.            *)
VARIABLE given
AnyPool == INSTANCE BlockPool WITH count <- given

HeldAreBlocks == held \subseteq AnyPool!Blocks
AnyPoolInv == HeldAreBlocks /\ AnyPool!BlocksStayApart

(* Blocks that are apart are so either way round.                           *)
LEMMA ApartIsSymmetric ==
  ASSUME NEW b \in AnyPool!Blocks, NEW c \in AnyPool!Blocks, AnyPool!Apart(b, c)
  PROVE  AnyPool!Apart(c, b)
BY DEF AnyPool!Apart, AnyPool!Blocks

(* A block that is apart from all others in a set where none overlap can     *)
(* join it: what handing out a block and resizing one have in common.       *)
LEMMA JoiningKeepsApart ==
  ASSUME NEW others \in SUBSET AnyPool!Blocks, NEW b \in AnyPool!Blocks,
         \A c, d \in others : c # d => AnyPool!Apart(c, d),
         \A c \in others : AnyPool!Apart(b, c)
  PROVE  \A c, d \in others \cup {b} : c # d => AnyPool!Apart(c, d)
<1> SUFFICES ASSUME NEW c \in others \cup {b}, NEW d \in others \cup {b}, c # d
             PROVE  AnyPool!Apart(c, d)
  OBVIOUS
<1>1. CASE c = b
  BY <1>1
<1>2. CASE d = b
  <2>1. c \in others /\ AnyPool!Apart(b, c)
    BY <1>2
  <2> QED BY <2>1, <1>2, ApartIsSymmetric
<1>3. CASE c \in others /\ d \in others
  BY <1>3
<1> QED BY <1>1, <1>2, <1>3

(* The blocks callers of malloc, realloc and free hold never overlap: what   *)
(* KeepsBlockPool means for the users of the packed and the medium slabs.   *)
THEOREM BlocksNeverOverlap == AnyPool!Spec => []AnyPool!BlocksStayApart
<1>1. AnyPool!Init => AnyPoolInv
  BY DEF AnyPool!Init, AnyPoolInv, HeldAreBlocks, AnyPool!BlocksStayApart
<1>2. AnyPoolInv /\ [AnyPool!Next]_<<held, given>> => AnyPoolInv'
  <2> SUFFICES ASSUME AnyPoolInv, [AnyPool!Next]_<<held, given>>
               PROVE  AnyPoolInv'
    OBVIOUS
  <2> USE DEF AnyPoolInv, HeldAreBlocks
  <2>1. CASE AnyPool!Give
    <3>1. PICK b \in AnyPool!Blocks : /\ \A c \in held : AnyPool!Apart(b, c)
                              /\ held' = held \cup {b}
      BY <2>1, ApartIsSymmetric DEF AnyPool!Give
    <3>2. \A c, d \in held \cup {b} : c # d => AnyPool!Apart(c, d)
      BY <3>1, JoiningKeepsApart DEF AnyPool!BlocksStayApart
    <3> QED BY <3>1, <3>2 DEF AnyPool!BlocksStayApart
  <2>2. CASE AnyPool!TakeBack
    BY <2>2 DEF AnyPool!TakeBack, AnyPool!BlocksStayApart
  <2>3. CASE AnyPool!Resize
    <3>1. PICK b \in held, r \in AnyPool!Blocks :
            /\ \A c \in held \ {b} : AnyPool!Apart(r, c)
            /\ held' = (held \ {b}) \cup {r}
      BY <2>3 DEF AnyPool!Resize
    <3>2. \A c, d \in (held \ {b}) \cup {r} : c # d => AnyPool!Apart(c, d)
      BY <3>1, JoiningKeepsApart DEF AnyPool!BlocksStayApart
    <3> QED BY <3>1, <3>2 DEF AnyPool!BlocksStayApart
  <2>4. CASE UNCHANGED <<held, given>>
    BY <2>4 DEF AnyPool!BlocksStayApart
  <2> QED BY <2>1, <2>2, <2>3, <2>4 DEF AnyPool!Next
<1> QED BY <1>1, <1>2, PTL DEF AnyPool!Spec, AnyPoolInv
=============================================================================
