----------------------------- MODULE SlabMalloc -----------------------------
(***************************************************************************)
(* malloc, free and realloc of slab_malloc/mm.c: tiny blocks are in packed *)
(* slabs (PackedSlabs), the others in medium and large ones (MediumSlabs), *)
(* all of them in one row of slabs that the slab layer lends to the two    *)
(* (RegionPool).  A pointer is all that free and realloc are given: which  *)
(* slab it is in, and of which kind that is, they read off its address and *)
(* the slab's header.  Sizes and addresses count units of MALLOC_ALIGN;    *)
(* slab s is at address s * SlabSize.                                      *)
(***************************************************************************)
EXTENDS PackedSlabs

CONSTANTS
  Sizes,             (* What the program asks for, rounded up; 0 included.  *)
  MinMedium, LargeHeader, MaxDeadweight, BinsOfWord   (* See MediumSlabs.   *)

VARIABLES
  n_slabs, block_offs, block_alloc, mediumbins, marked, aborted,
  owned,        (* the slab layer's regions: see RegionPool                 *)
  large_held,   (* history: the medium and large blocks the callers hold    *)
  moving        (* the block a realloc has to free, <<>> if there is none   *)

NumSlabs == Cardinality(Slabs)

Big == INSTANCE MediumSlabs WITH
  MaxSlabs <- NumSlabs, Header <- LargeHeader, WordBits <- BinsOfWord,
  Requests <- {size \in Sizes : size >= MinMedium}, held <- large_held

(* No block begins where its slab does.  Every tiny size has a class, and    *)
(* of the others none is between the largest medium and the smallest large. *)
ASSUME SlabMallocAssumption ==
  /\ NumSlabs \in Nat \ {0} /\ Slabs = 0..(NumSlabs - 1) /\ Sizes \subseteq Nat
  /\ {SlabSize, LargeHeader, MinMedium, BinsOfWord} \subseteq Nat \ {0}
  /\ \A c \in Classes : Header[c] > 0
  /\ \A size \in Sizes : size < MinMedium => \E c \in Classes : size <= Size[c]
  /\ \A size \in Sizes : size < MinMedium \/ size <= Big!MaxMedium \/ size >= SlabSize
  /\ Big!MaxMedium >= MinMedium
  /\ MaxDeadweight \in 0..(MinMedium - 1) /\ BinsOfWord <= MinMedium

bigVars == <<n_slabs, block_offs, block_alloc, mediumbins, marked, aborted, large_held>>
allVars == <<vars, bigVars, owned, moving>>

SlabLayer == INSTANCE RegionPool WITH MaxSlabs <- NumSlabs

MallocInit == Init /\ Big!Init /\ SlabLayer!Init /\ moving = <<>>

-----------------------------------------------------------------------------
Address(b) == b.slab * SlabSize + b.at

(* A variant: block_get_slab, which is for blocks of free slabs only.       *)
SlabAt(ptr) == ptr \div SlabSize

(* ptr_get_slab: a large block may start where its first slab ends, but no  *)
(* block starts where its slab does.                                        *)
PtrGetSlab(ptr) == (ptr - 1) \div SlabSize

IsPacked(s) == class[s] # NoClass

(* What is at an address, as the functions of each kind of slab take it.    *)
TinyAt(ptr) ==
  LET s == PtrGetSlab(ptr)
  IN [slab |-> s, at |-> ptr - s * SlabSize, size |-> Size[class[s]]]
LargeAt(ptr) == CHOOSE b \in large_held : Address(b) = ptr

(* adj_tiny_size: the smallest blocks that are large enough.                *)
ClassOf(size) ==
  CHOOSE c \in Classes :
    size <= Size[c] /\ \A d \in Classes : size <= Size[d] => Size[c] <= Size[d]

(* Slabs that are new to one of the two are lent by the slab layer, and     *)
(* those given up go back to it.                                            *)
InUse == owned' = [s \in Slabs |-> n_slabs'[s] + (IF class'[s] # NoClass THEN 1 ELSE 0)]
Lent == InUse /\ (owned' = owned \/ \E s \in Slabs, n \in 1..NumSlabs : SlabLayer!Alloc(s, n))
LentOrGivenBack == InUse /\ (owned' = owned \/ SlabLayer!Next)

(* __int_malloc                                                             *)
MallocBlock(size) ==
  /\ \/ /\ size < MinMedium
        /\ AllocFromBin(ClassOf(size)) \/ AllocFromNewSlab(ClassOf(size))
        /\ UNCHANGED bigVars
     \/ /\ size >= MinMedium
        /\ Big!FindMedium(size) \/ Big!AllocFromNewSlabs(size)
        /\ UNCHANGED vars
  /\ Lent

(* __int_free                                                               *)
FreeBlock(ptr) ==
  /\ \/ /\ IsPacked(PtrGetSlab(ptr))
        /\ Free(TinyAt(ptr))
        /\ UNCHANGED bigVars
     \/ /\ ~IsPacked(PtrGetSlab(ptr))
        /\ Big!Free(LargeAt(ptr))
        /\ UNCHANGED vars
  /\ LentOrGivenBack

(* malloc, calloc, realloc of NULL; nothing is answered with NULL.          *)
Malloc(size) ==
  /\ size > 0
  /\ MallocBlock(size)
  /\ UNCHANGED moving

FreePtr(ptr) == FreeBlock(ptr) /\ UNCHANGED moving

(* A tiny block whose size class is that of the new size stays where it is. *)
SameTiny(ptr, size) == size < MinMedium /\ ClassOf(size) = class[PtrGetSlab(ptr)]

KeepTiny(ptr, size) ==
  /\ IsPacked(PtrGetSlab(ptr)) /\ SameTiny(ptr, size)
  /\ UNCHANGED allVars

(* A medium or large block is resized where it is.                          *)
ResizeInPlace(ptr, size) ==
  /\ ~IsPacked(PtrGetSlab(ptr))
  /\ size >= MinMedium
  /\ LET b == LargeAt(ptr)
     IN \/ Big!GrowLarge(b, size) \/ Big!ShrinkToMedium(b, size) \/ Big!ShrinkLarge(b, size)
        \/ Big!ShrinkMedium(b, size) \/ Big!GrowMedium(b, size)
  /\ UNCHANGED <<vars, moving>>
  /\ LentOrGivenBack

(* It cannot stay.  Whether a large one can grow is up to what the slab     *)
(* layer has after it.                                                      *)
LargeMoves(b, size) ==
  LET blk_size == Big!SizeOf(b)
  IN \/ size < MinMedium
     \/ blk_size >= SlabSize /\ size > blk_size
     \/ /\ blk_size >= SlabSize /\ size <= blk_size
        /\ size > blk_size % SlabSize
        /\ (blk_size - size) % SlabSize > MaxDeadweight
     \/ blk_size < SlabSize /\ size > Big!MaxMedium
     \/ blk_size < SlabSize /\ size > blk_size /\ ~Big!RoomAfter(b, size)

(* A new block is allocated and filled, and the old one is freed.           *)
Move(ptr, size) ==
  /\ IF IsPacked(PtrGetSlab(ptr))
       THEN ~SameTiny(ptr, size)
       ELSE LargeMoves(LargeAt(ptr), size)
  /\ MallocBlock(size)
  /\ moving' = <<ptr>>

Moved ==
  /\ moving # <<>>
  /\ FreeBlock(moving[1])
  /\ moving' = <<>>

Realloc(ptr, size) ==
  \/ size = 0 /\ FreePtr(ptr)
  \/ size > 0 /\ (KeepTiny(ptr, size) \/ ResizeInPlace(ptr, size) \/ Move(ptr, size))

Pointers == {Address(b) : b \in held \cup large_held}

MallocNext ==
  /\ aborted = "no"
  /\ \/ /\ moving = <<>>
        /\ \/ \E size \in Sizes : Malloc(size)
           \/ \E ptr \in Pointers : FreePtr(ptr) \/ \E size \in Sizes : Realloc(ptr, size)
     \/ Moved

MallocSpec == MallocInit /\ [][MallocNext]_allVars

-----------------------------------------------------------------------------
(* A pointer leads back to its block: the slab its address is in is the one *)
(* whose header knows of the block, it is lent out, and to the functions    *)
(* that the block is from; the large block that begins where its first slab *)
(* ends included.                                                           *)
EveryPointerFindsItsBlock ==
  /\ \A b \in held :
       /\ PtrGetSlab(Address(b)) = b.slab
       /\ IsPacked(b.slab) /\ TinyAt(Address(b)) = b
  /\ \A b \in large_held :
       /\ PtrGetSlab(Address(b)) = b.slab
       /\ ~IsPacked(b.slab) /\ n_slabs[b.slab] > 0

(* The headers of the packed slabs and of the others have the values their  *)
(* types allow and say what callers hold, whoever had the slab before.       *)
HeadersTellTheTruth == HeaderTellsWhatIsHeld /\ Big!HeaderTellsBlocks

(* A slab or a block is in a bin of the kind it is of, if it has room; one   *)
(* that changed hands is in none of those it was in.                        *)
BinsTellTheTruth == BinsHoldSlabsWithRoom /\ Big!BinsHoldFreeBlocks

(* Seen from outside there are addresses and no slabs: no two blocks share  *)
(* one, a block stays where it is until it is freed, and one that is moved  *)
(* is freed when the new one has been allocated.  Their number is the sum   *)
(* of the counts of the packed slabs, plus the bits set in the others.      *)
Flat(b) == [slab |-> "memory", at |-> Address(b), size |-> b.size]

Memory == INSTANCE BlockPool WITH
  Slabs <- {"memory"},
  held  <- {Flat(b) : b \in held \cup large_held},
  count <- Cardinality(UNION {{s} \X (1..alloc_cnt[s]) : s \in Slabs})
             + Cardinality({e \in Slabs \X Big!Indexes : e[2] \in block_alloc[e[1]]})
KeepsMemory == Memory!Spec
=============================================================================
