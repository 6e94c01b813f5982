----------------------------- MODULE MediumSlabs ----------------------------
(***************************************************************************)
(* The medium and large blocks of slab_malloc/mm.c.  A region of slabs     *)
(* starts with a header that holds, a byte each, the offsets of its blocks *)
(* and, a bit each, which of them are allocated; the last block may be     *)
(* large and hang over the end of the first slab.  Free blocks are in bins *)
(* by size.  Sizes and offsets count units of MALLOC_ALIGN; a slab is as   *)
(* long as the numbers a byte can hold, so that its end is stored as 0.    *)
(* Slabs come from the slab layer (RegionPool) and go back to it.           *)
(***************************************************************************)
EXTENDS Integers, Sequences, FiniteSetsExt

CONSTANTS
  Slabs,            (* The regions the slab layer can give.                 *)
  MaxSlabs,         (* The slabs a region can have.                         *)
  SlabSize,         (* SLAB_SIZE                                            *)
  Header,           (* LARGE_SLAB_HEADER_SIZE                               *)
  MinMedium,        (* MIN_MEDIUM_BLOCK_SZ                                  *)
  MaxDeadweight,    (* REALLOC_MAX_DEADWEIGHT                               *)
  WordBits,         (* The bins a word of the skip list stands for.         *)
  Requests          (* The sizes asked for.                                 *)

MaxMedium == SlabSize - Header

(* The last block a header has a bit and, but for the first, an offset for. *)
LastIdx == MaxMedium \div MinMedium

ASSUME MediumSlabsAssumption ==
  /\ {MaxSlabs, SlabSize, Header, MinMedium, WordBits} \subseteq Nat \ {0}
  /\ MaxDeadweight \in 0..(MinMedium - 1) /\ WordBits <= MinMedium
  /\ MaxMedium >= MinMedium
  /\ Requests \subseteq (MinMedium..MaxMedium) \cup {n \in Nat : n >= SlabSize}

VARIABLES
  n_slabs,      (* s->offset: the slabs of a region; 0 if it is not ours    *)
  block_offs,   (* s->block_offs, with the implied offset of block 0        *)
  block_alloc,  (* s->block_alloc: the indexes of the bits that are set     *)
  mediumbins,   (* h->mediumbins, head first                                *)
  marked,       (* h->med_skiplist: the sizes whose bits are set            *)
  held,         (* history: the blocks the callers hold                     *)
  aborted       (* why the program has stopped                              *)

header == <<n_slabs, block_offs, block_alloc>>
bins == <<mediumbins, marked>>
vars == <<header, bins, held, aborted>>

Indexes == 0..LastIdx
NoOffsets == [i \in Indexes |-> IF i = 0 THEN Header ELSE 0]

Init ==
  /\ n_slabs = [s \in Slabs |-> 0]
  /\ block_offs = [s \in Slabs |-> NoOffsets]
  /\ block_alloc = [s \in Slabs |-> {}]
  /\ mediumbins = [z \in MinMedium..MaxMedium |-> <<>>]
  /\ marked = {}
  /\ held = {}
  /\ aborted = "no"

-----------------------------------------------------------------------------
(* What a byte of block_offs keeps of an offset; what the bytes say, where  *)
(* those past the last are shifted in as 0, which stands for the end.       *)
Byte(off) == off % SlabSize
OffsetAt(offs, i) == IF i <= LastIdx THEN offs[i] ELSE 0
AdjOffset(offs, i) == IF OffsetAt(offs, i) = 0 THEN SlabSize ELSE offs[i]

(* A variant: a block before a large one goes on to the end of the region.  *)
SizeToTheEnd(s, i) ==
  LET next == OffsetAt(block_offs[s], i + 1)
      from == AdjOffset(block_offs[s], i)
  IN IF next # 0 THEN next - from ELSE n_slabs[s] * SlabSize - from

(* medium_bin_block_size                                                    *)
BlockSize(s, i) ==
  LET next == OffsetAt(block_offs[s], i + 1)
      from == AdjOffset(block_offs[s], i)
  IN IF next # 0 THEN next - from
     ELSE IF i # LastIdx /\ i + 1 \in block_alloc[s] THEN SlabSize - from
     ELSE n_slabs[s] * SlabSize - from

PosOf(s, at) == Min({i \in Indexes : block_offs[s][i] = Byte(at)})

(* __medium_bin_push_offset and __medium_bin_append_offset: a new offset    *)
(* after the one at i.                                                      *)
PushOffset(offs, i, off) ==
  [j \in Indexes |-> IF j <= i THEN offs[j] ELSE IF j = i + 1 THEN Byte(off) ELSE offs[j - 1]]
AppendOffset(offs, i, off) ==
  [j \in Indexes |-> IF j <= i THEN offs[j] ELSE IF j = i + 1 THEN Byte(off) ELSE 0]

(* A variant: the bits stay where they are.                                 *)
PushNoBit(bits, i) == bits
PushBit(bits, i) == {b \in bits : b < i} \cup ({b + 1 : b \in {c \in bits : c >= i}} \cap Indexes)

(* __medium_bin_remove_offset: the block at i takes over the next one.       *)
RemoveOffset(offs, i) ==
  [j \in Indexes |-> IF j <= i THEN offs[j] ELSE OffsetAt(offs, j + 1)]
RemoveBit(bits, i) == {b \in bits : b <= i} \cup {b - 1 : b \in {c \in bits : c > i + 1}}

Block(s, at) == [slab |-> s, at |-> at]

(* medium_bin_link, medium_bin_unlink.                                      *)
Linked(b) == \E z \in DOMAIN mediumbins : \E k \in DOMAIN mediumbins[z] : mediumbins[z][k] = b
Without(list, b) ==
  LET at == CHOOSE k \in DOMAIN list : list[k] = b
  IN IF \A k \in DOMAIN list : list[k] # b THEN list
     ELSE SubSeq(list, 1, at - 1) \o SubSeq(list, at + 1, Len(list))
Unlink(lists, b) == [z \in DOMAIN lists |-> Without(lists[z], b)]

Link(lists, marks, b, size) ==
  /\ mediumbins' = [lists EXCEPT ![size] = <<b>> \o @]
  /\ marked' = marks \cup {size}

LinkIfFits(lists, marks, b, size) ==
  IF size >= MinMedium THEN Link(lists, marks, b, size)
  ELSE mediumbins' = lists /\ marked' = marks

(* A failed assertion, or unlinking what is in no list: that writes through *)
(* whatever is found where the pointers would be.                           *)
Abort(why) ==
  /\ aborted' = why
  /\ UNCHANGED <<header, bins, held>>

Holding(s, at, size) == held' = held \cup {[slab |-> s, at |-> at, size |-> size]}
Resized(b, size) == held' = (held \ {b}) \cup {[b EXCEPT !.size = size]}

CeilDiv(n, d) == (n + d - 1) \div d

-----------------------------------------------------------------------------
(* The bins a search for a size can stop at, which is at the first.          *)
Fitting(size) == {z \in marked : z >= size /\ mediumbins[z] # <<>>}

(* A variant: the words of the skip list are too long.                      *)
LongWord(z) == (z - MinMedium) \div (2 * WordBits)
Word(z) == (z - MinMedium) \div WordBits

(* The word the search ends in is written back as it was read, after the    *)
(* remainder has been linked.                                               *)
WrittenBack(marks, linked, z) == {y \in marks \cup linked : y \in marks \/ Word(y) # Word(z)}

(* __int_find_medium_block: what is left of the block is a new free block.  *)
FindMedium(size) ==
  /\ size <= MaxMedium /\ Fitting(size) # {}
  /\ LET z == Min(Fitting(size))
         b == Head(mediumbins[z])
         i == PosOf(b.slab, b.at)
         rest  == z - size
         split == rest >= MinMedium
         lists == Unlink(mediumbins, b)
         marks == {y \in marked : y < size \/ y >= z}
     IN /\ block_offs' = IF split THEN [block_offs EXCEPT ![b.slab] = PushOffset(@, i, b.at + size)]
                         ELSE block_offs
        /\ block_alloc' = [block_alloc EXCEPT
                             ![b.slab] = (IF split THEN PushBit(@, i) ELSE @) \cup {i}]
        /\ mediumbins' = IF split
                           THEN [lists EXCEPT ![rest] = <<Block(b.slab, b.at + size)>> \o @]
                           ELSE lists
        /\ marked' = WrittenBack(marks, IF split THEN {rest} ELSE {}, z)
        /\ Holding(b.slab, b.at, size)
  /\ UNCHANGED <<n_slabs, aborted>>

(* __int_slab_init_large_and_alloc: a medium block is followed by what is   *)
(* left of its slab; a large one is at the end of its slabs, after what is  *)
(* left of the first, unless that is too small to be a block.               *)
InitMedium(s, size, marks) ==
  LET rest == MaxMedium - size
      fits == rest >= MinMedium
  IN /\ block_offs' = [block_offs EXCEPT
                         ![s] = IF fits THEN AppendOffset(NoOffsets, 0, Header + size) ELSE NoOffsets]
     /\ block_alloc' = [block_alloc EXCEPT ![s] = {0}]
     /\ LinkIfFits(mediumbins, marks, Block(s, Header + size), rest)
     /\ Holding(s, Header, size)

InitLarge(s, size, marks) ==
  LET at   == SlabSize - (size % SlabSize)
      fits == at - Header >= MinMedium
  IN /\ block_offs' = [block_offs EXCEPT
                         ![s] = IF fits THEN AppendOffset(NoOffsets, 0, at) ELSE NoOffsets]
     /\ block_alloc' = [block_alloc EXCEPT ![s] = IF fits THEN {1} ELSE {0}]
     /\ LinkIfFits(mediumbins, marks, Block(s, Header), at - Header)
     /\ Holding(s, IF fits THEN at ELSE Header, size)

(* __int_malloc, no block found: a new region of req_slabs_for_size.        *)
AllocFromNewSlabs(size) ==
  LET n == CeilDiv(size + Header, SlabSize)
  IN /\ n <= MaxSlabs
     /\ \E s \in Slabs :
          /\ n_slabs[s] = 0
          /\ n_slabs' = [n_slabs EXCEPT ![s] = n]
          /\ \/ size <= MaxMedium /\ Fitting(size) = {}
                /\ InitMedium(s, size, {y \in marked : y < size})
             \/ size > MaxMedium /\ InitLarge(s, size, marked)
     /\ UNCHANGED aborted

(* The block at i is large: the slabs after the first are its own.  Past    *)
(* the last bit there is always one that is set, so that the last block of  *)
(* a full header is never seen to be large unless its offset is 0.          *)
HangsOver(s, i) ==
  /\ n_slabs[s] > 1
  /\ \A j \in Indexes : j > i => block_offs[s][j] = 0
  /\ block_offs[s][i] = 0 \/ (i < LastIdx /\ i + 1 \notin block_alloc[s])

(* medium_bin_free: free neighbours are merged; what is too small to be a   *)
(* block goes to the one before, which is allocated, or it would have been  *)
(* merged; a region with no block left goes back to the slab layer.  (To    *)
(* unlink the block itself, which is in no list, does nothing.)             *)
Free(b) ==
  LET s    == b.slab
      i    == PosOf(s, b.at)
      offs == block_offs[s]
      bits == block_alloc[s]
      hangs    == HangsOver(s, i)
      prevFree == i > 0 /\ i - 1 \notin bits
      nextFree == i < LastIdx /\ i + 1 \notin bits /\ ~hangs /\ OffsetAt(offs, i + 1) # 0
      first == IF prevFree THEN i - 1 ELSE i
      last  == IF nextFree THEN i + 1 ELSE i
      start == AdjOffset(offs, first)
      end   == AdjOffset(offs, last + 1)
      tooSmall == end - start < MinMedium
      kept  == IF tooSmall THEN first - 1 ELSE first
      merged == {Block(s, AdjOffset(offs, j)) : j \in (first..last) \ {i}}
      lists == Unlink(Unlink(mediumbins, Block(s, AdjOffset(offs, first))), Block(s, AdjOffset(offs, last)))
      newOffs == [j \in Indexes |-> IF j <= kept THEN offs[j]
                                    ELSE IF j > first THEN OffsetAt(offs, j + last - first) ELSE 0]
      newBits == {j \in bits : j < first} \cup {j - (last - first) : j \in {k \in bits : k > last}}
  IN IF \E m \in merged : ~Linked(m) THEN Abort("wild unlink")
     ELSE IF tooSmall /\ i = 0 THEN Abort("assertion")
     ELSE
       /\ IF newBits = {}
            THEN /\ n_slabs' = [n_slabs EXCEPT ![s] = 0]
                 /\ block_offs' = [block_offs EXCEPT ![s] = NoOffsets]
                 /\ block_alloc' = [block_alloc EXCEPT ![s] = {}]
                 /\ mediumbins' = lists /\ UNCHANGED marked
            ELSE /\ n_slabs' = [n_slabs EXCEPT ![s] = IF hangs THEN 1 ELSE @]
                 /\ block_offs' = [block_offs EXCEPT ![s] = newOffs]
                 /\ block_alloc' = [block_alloc EXCEPT ![s] = newBits]
                 /\ IF tooSmall THEN UNCHANGED bins
                    ELSE Link(lists, marked, Block(s, start), end - start)
       /\ held' = held \ {b}
       /\ UNCHANGED aborted

-----------------------------------------------------------------------------
(* __int_realloc, where the block stays: otherwise it is the malloc of a    *)
(* new block and then the free of the old one.                              *)
SizeOf(b) == BlockSize(b.slab, PosOf(b.slab, b.at))

(* A large block gets more slabs, from the next region or the heap's end.   *)
GrowLarge(b, size) ==
  LET slabs == CeilDiv(size - SizeOf(b), SlabSize)
  IN /\ SizeOf(b) >= SlabSize /\ size > SizeOf(b)
     /\ slabs * SlabSize - (size - SizeOf(b)) <= MaxDeadweight
     /\ n_slabs[b.slab] + slabs <= MaxSlabs
     /\ n_slabs' = [n_slabs EXCEPT ![b.slab] = @ + slabs]
     /\ Resized(b, size)
     /\ UNCHANGED <<block_offs, block_alloc, bins, aborted>>

(* What is left of a large block fits in its first slab.                    *)
ShrinkToMedium(b, size) ==
  LET hangover == SizeOf(b) % SlabSize
      at == SlabSize - hangover + size
  IN /\ SizeOf(b) >= SlabSize /\ size <= hangover
     /\ n_slabs' = [n_slabs EXCEPT ![b.slab] = 1]
     /\ block_offs' = IF hangover - size >= MinMedium
                        THEN [block_offs EXCEPT ![b.slab] = AppendOffset(@, PosOf(b.slab, b.at), at)]
                        ELSE block_offs
     /\ LinkIfFits(mediumbins, marked, Block(b.slab, at), hangover - size)
     /\ Resized(b, size)
     /\ UNCHANGED <<block_alloc, aborted>>

(* A large block gives back the slabs it no longer needs, if that leaves    *)
(* not much over: as many as the sizes differ by, whatever its offset.      *)
ShrinkLarge(b, size) ==
  LET rest == SizeOf(b) - size
      n    == CeilDiv(size + Header, SlabSize)
  IN /\ SizeOf(b) >= SlabSize /\ size <= SizeOf(b)
     /\ size > SizeOf(b) % SlabSize /\ rest % SlabSize <= MaxDeadweight
     /\ \/ /\ n + rest \div SlabSize = n_slabs[b.slab]
           /\ n_slabs' = [n_slabs EXCEPT ![b.slab] = n]
           /\ Resized(b, size)
           /\ UNCHANGED <<block_offs, block_alloc, bins, aborted>>
        \/ /\ n + rest \div SlabSize # n_slabs[b.slab]
           /\ Abort("assertion")

(* A medium block gives its end to the free block after it, or makes it one *)
(* of its own, or keeps it.  The test for a free block after it takes the 0 *)
(* after a block that ends its slab for the offset of one.                  *)
ShrinkMedium(b, size) ==
  LET s    == b.slab
      i    == PosOf(s, b.at)
      offs == block_offs[s]
      next == Block(s, OffsetAt(offs, i + 1))
      rest == Block(s, b.at + size)
      toNext == i + 1 \notin block_alloc[s]
      split  == ~toNext /\ SizeOf(b) - size >= MinMedium
  IN /\ SizeOf(b) < SlabSize /\ size <= SizeOf(b)
     /\ \/ /\ toNext /\ Linked(next)
           /\ block_offs' = [block_offs EXCEPT ![s][i + 1] = Byte(rest.at)]
           /\ Link(Unlink(mediumbins, next), marked, rest, AdjOffset(offs, i + 2) - rest.at)
           /\ Resized(b, size)
           /\ UNCHANGED <<n_slabs, block_alloc, aborted>>
        \/ /\ toNext /\ ~Linked(next)
           /\ Abort("wild unlink")
        \/ /\ split
           /\ block_offs' = [block_offs EXCEPT ![s] = PushOffset(@, i, rest.at)]
           /\ block_alloc' = [block_alloc EXCEPT ![s] = PushBit(@, i + 1)]
           /\ Link(mediumbins, marked, rest, SizeOf(b) - size)
           /\ Resized(b, size)
           /\ UNCHANGED <<n_slabs, aborted>>
        \/ /\ ~toNext /\ ~split
           /\ Resized(b, size)
           /\ UNCHANGED <<header, bins, aborted>>

(* The block after a medium one is free and has what it needs.              *)
RoomAfter(b, size) ==
  LET i    == PosOf(b.slab, b.at)
      offs == block_offs[b.slab]
  IN /\ OffsetAt(offs, i + 1) # 0 /\ i + 1 \notin block_alloc[b.slab]
     /\ b.at + size <= AdjOffset(offs, i + 2)

(* It takes that, or all of the block if what is left is too small.         *)
GrowMedium(b, size) ==
  LET s    == b.slab
      i    == PosOf(s, b.at)
      next == Block(s, OffsetAt(block_offs[s], i + 1))
      left == AdjOffset(block_offs[s], i + 2) - (b.at + size)
  IN /\ SizeOf(b) < SlabSize /\ size > SizeOf(b) /\ size <= MaxMedium
     /\ RoomAfter(b, size)
     /\ IF left < MinMedium
          THEN /\ block_offs' = [block_offs EXCEPT ![s] = RemoveOffset(@, i)]
               /\ block_alloc' = [block_alloc EXCEPT ![s] = RemoveBit(@, i)]
               /\ mediumbins' = Unlink(mediumbins, next) /\ UNCHANGED marked
          ELSE /\ block_offs' = [block_offs EXCEPT ![s][i + 1] = b.at + size]
               /\ Link(Unlink(mediumbins, next), marked, Block(s, b.at + size), left)
               /\ UNCHANGED block_alloc
     /\ Resized(b, size)
     /\ UNCHANGED <<n_slabs, aborted>>

Next ==
  /\ aborted = "no"
  /\ \/ \E size \in Requests : FindMedium(size) \/ AllocFromNewSlabs(size)
     \/ \E b \in held : Free(b)
     \/ \E b \in held, size \in Requests :
          \/ GrowLarge(b, size) \/ ShrinkToMedium(b, size) \/ ShrinkLarge(b, size)
          \/ ShrinkMedium(b, size) \/ GrowMedium(b, size)

Spec == Init /\ [][Next]_vars

-----------------------------------------------------------------------------
TypeOK ==
  /\ n_slabs \in [Slabs -> 0..MaxSlabs]
  /\ block_offs \in [Slabs -> [Indexes -> 0..(SlabSize - 1)]]
  /\ block_alloc \in [Slabs -> SUBSET Indexes]
  /\ mediumbins \in [MinMedium..MaxMedium -> Seq([slab : Slabs, at : 0..(SlabSize - 1)])]
  /\ marked \subseteq MinMedium..MaxMedium
  /\ held \subseteq [slab : Slabs, at : Header..SlabSize, size : Requests]
  /\ aborted \in {"no", "assertion", "wild unlink"}

Ours == {s \in Slabs : n_slabs[s] > 0}

(* The blocks a header knows of.  One with offset 0 is a large block that    *)
(* begins where the first slab ends; it is allocated.                       *)
Entries(s) ==
  {i \in Indexes : block_offs[s][i] # 0}
    \cup {i \in block_alloc[s] : block_offs[s][i] = 0 /\ block_offs[s][i - 1] # 0}

(* A header says where the blocks of its region are, and which of them are   *)
(* whose: the offsets ascend and are followed by zeros, an allocated block  *)
(* has the room its caller asked for, free blocks have been merged, and a   *)
(* region in which nothing is allocated has been given back.                *)
HeaderTellsBlocks ==
  /\ TypeOK
  /\ \A s \in Ours :
       /\ \A i, j \in Indexes : i < j => \/ block_offs[s][j] = 0
                                         \/ 0 < block_offs[s][i] /\ block_offs[s][i] < block_offs[s][j]
       /\ block_alloc[s] # {} /\ block_alloc[s] \subseteq Entries(s)
       /\ \A i \in Entries(s) \ block_alloc[s] : i + 1 \in Entries(s) => i + 1 \in block_alloc[s]
       /\ \A i \in block_alloc[s] : \E b \in held :
            b.slab = s /\ b.at = AdjOffset(block_offs[s], i) /\ b.size <= BlockSize(s, i)
  /\ \A s \in Slabs :
       Cardinality({b \in held : b.slab = s}) = IF s \in Ours THEN Cardinality(block_alloc[s]) ELSE 0

(* The bins hold the free blocks, each under the size that its header gives  *)
(* it, and the skip list skips no bin with a block in it.                   *)
FreeSize(s, i) == AdjOffset(block_offs[s], i + 1) - block_offs[s][i]
BinsHoldFreeBlocks ==
  LET free == {e \in Ours \X Indexes : e[2] \in Entries(e[1]) \ block_alloc[e[1]]}
  IN /\ \A z \in DOMAIN mediumbins :
          /\ {mediumbins[z][k] : k \in DOMAIN mediumbins[z]}
               = {Block(f[1], block_offs[f[1]][f[2]]) : f \in {e \in free : FreeSize(e[1], e[2]) = z}}
          /\ mediumbins[z] # <<>> => z \in marked
          /\ \A j, k \in DOMAIN mediumbins[z] : mediumbins[z][j] = mediumbins[z][k] => j = k
     /\ \A f \in free : FreeSize(f[1], f[2]) \in DOMAIN mediumbins

(* What is unlinked is a free block in a list: "if the next block is free,   *)
(* merge into it" (mm.c:2573).                                              *)
UnlinksFreeBlocks == aborted # "wild unlink"

(* The blocks handed out keep BlockPool's promise; its count is that of the  *)
(* bits that are set.                                                       *)
Pool == INSTANCE BlockPool WITH
  count <- Cardinality({e \in Slabs \X Indexes : e[2] \in block_alloc[e[1]]})
KeepsBlockPool == Pool!Spec
=============================================================================
