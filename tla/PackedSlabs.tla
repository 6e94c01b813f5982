---------------------------- MODULE PackedSlabs -----------------------------
(***************************************************************************)
(* The packed slabs of slab_malloc/mm.c: a slab of blocks of one size, with *)
(* a bit vector of the free ones in its header, of two levels for the      *)
(* smallest sizes.  A slab with room is in the bin of its size class; one  *)
(* with no blocks left goes back to the slab layer (RegionPool).           *)
(***************************************************************************)
EXTENDS Integers, Sequences, FiniteSetsExt

CONSTANTS
  Slabs,      (* The slabs the slab layer can give.                         *)
  NoClass,    (* The class of a slab that is not packed.                    *)
  Classes,    (* The size classes,                                          *)
  TwoLevel,   (* those with a two-level bit vector (16, 32 and 48 bytes),   *)
  Size,       (* the size of a class's blocks                               *)
  Header,     (* and of the header before them.                             *)
  SlabSize,   (* SLAB_SIZE                                                  *)
  WordBits    (* The bits of a word of the second level: 16.                *)

(* The blocks of a packed slab are packed_slab_n_blocks.                    *)
NumBlocks(c) == (SlabSize - Header[c]) \div Size[c]

ASSUME PackedSlabsAssumption ==
  /\ NoClass \notin Classes /\ TwoLevel \subseteq Classes
  /\ Size \in [Classes -> Nat \ {0}] /\ Header \in [Classes -> Nat]
  /\ SlabSize \in Nat /\ WordBits \in Nat \ {0, 1}
  /\ \A c \in Classes : NumBlocks(c) >= 2

VARIABLES
  class,      (* s->sz_class, of a slab with SLAB_PACKED_BIT                *)
  alloc_cnt,  (* s->alloc_cnt                                               *)
  f1,         (* s->ps_f1: the words of the second level that are not 0     *)
  f2,         (* s->ps_f2, or s->pl_f: the free blocks                      *)
  smallbins,  (* h->smallbins, head first                                   *)
  held        (* history: the blocks the callers hold                       *)

header == <<class, alloc_cnt, f1, f2>>
vars == <<header, smallbins, held>>

Indexes(c) == 0..(NumBlocks(c) - 1)
WordOf(i) == i \div WordBits

Init ==
  /\ class = [s \in Slabs |-> NoClass]
  /\ alloc_cnt = [s \in Slabs |-> 0]
  /\ f1 = [s \in Slabs |-> {}]
  /\ f2 = [s \in Slabs |-> {}]
  /\ smallbins = [c \in Classes |-> <<>>]
  /\ held = {}

(* The address of a block, and back.                                        *)
Block(s, c, i) == [slab |-> s, at |-> Header[c] + i * Size[c], size |-> Size[c]]

IndexOf(b, c) == (b.at - Header[c]) \div Size[c]

(* A variant: the first level is written back before it is updated.          *)
WordsKept(c, words, blocks, i) == words

(* The first level after block i of the second has been taken.              *)
WordsLeft(c, words, blocks, i) ==
  IF c \in TwoLevel /\ \A j \in blocks \ {i} : WordOf(j) # WordOf(i)
    THEN words \ {WordOf(i)} ELSE words

(* Variants: the block's bit is not cleared; a full slab stays in its bin.   *)
BitKept(blocks, i) == blocks
StaysInBin(c, words, blocks) == FALSE

Taken(blocks, i) == blocks \ {i}

(* What is tested is the vector itself, or its first level.                 *)
Full(c, words, blocks) == IF c \in TwoLevel THEN words = {} ELSE blocks = {}

(* small_bin_unlink                                                         *)
Unlink(bin, s) ==
  LET at == CHOOSE k \in DOMAIN bin : bin[k] = s
  IN IF \A k \in DOMAIN bin : bin[k] # s THEN bin
     ELSE SubSeq(bin, 1, at - 1) \o SubSeq(bin, at + 1, Len(bin))

(* __int_find_tiny_block: the first free block of the first slab in the     *)
(* bin; a slab that is full then leaves it.                                 *)
AllocFromBin(c) ==
  /\ smallbins[c] # <<>>
  /\ LET s == Head(smallbins[c])
         i == IF c \in TwoLevel THEN Min({j \in f2[s] : WordOf(j) = Min(f1[s])})
              ELSE Min(f2[s])
         words  == WordsLeft(c, f1[s], f2[s], i)
         blocks == Taken(f2[s], i)
     IN /\ f1' = [f1 EXCEPT ![s] = words]
        /\ f2' = [f2 EXCEPT ![s] = blocks]
        /\ alloc_cnt' = [alloc_cnt EXCEPT ![s] = @ + 1]
        /\ smallbins' = IF Full(c, words, blocks)
                          THEN [smallbins EXCEPT ![c] = Unlink(@, s)] ELSE smallbins
        /\ held' = held \cup {Block(s, c, i)}
  /\ UNCHANGED class

(* __int_malloc, no slab with room: one is taken from the slab layer and    *)
(* __int_slab_init_packed_and_alloc gives out its first block.              *)
AllocFromNewSlab(c) ==
  /\ smallbins[c] = <<>>
  /\ \E s \in Slabs :
       /\ class[s] = NoClass
       /\ class' = [class EXCEPT ![s] = c]
       /\ alloc_cnt' = [alloc_cnt EXCEPT ![s] = 1]
       /\ f1' = [f1 EXCEPT ![s] = IF c \in TwoLevel THEN {WordOf(i) : i \in Indexes(c)} ELSE {}]
       /\ f2' = [f2 EXCEPT ![s] = Indexes(c) \ {0}]
       /\ smallbins' = [smallbins EXCEPT ![c] = <<s>> \o @]
       /\ held' = held \cup {Block(s, c, 0)}

(* A realloc to another size is the malloc of the new block, then this.      *)
Free(b) ==
  LET s == b.slab
      c == class[s]
      i == IndexOf(b, c)
      linked == IF Full(c, f1[s], f2[s]) THEN <<s>> \o smallbins[c] ELSE smallbins[c]
      empty  == alloc_cnt[s] = 1
  IN /\ alloc_cnt' = [alloc_cnt EXCEPT ![s] = @ - 1]
     /\ f1' = IF c \in TwoLevel THEN [f1 EXCEPT ![s] = @ \cup {WordOf(i)}] ELSE f1
     /\ f2' = [f2 EXCEPT ![s] = @ \cup {i}]
     /\ smallbins' = [smallbins EXCEPT ![c] = IF empty THEN Unlink(linked, s) ELSE linked]
     /\ class' = IF empty THEN [class EXCEPT ![s] = NoClass] ELSE class
     /\ held' = held \ {b}

Next ==
  \/ \E c \in Classes : AllocFromBin(c) \/ AllocFromNewSlab(c)
  \/ \E b \in held : Free(b)

Spec == Init /\ [][Next]_vars

-----------------------------------------------------------------------------
Packed == {s \in Slabs : class[s] # NoClass}

(* The types of the headers and bins; indexes fit in a class's bit vector.   *)
TypeOK ==
  /\ class \in [Slabs -> Classes \cup {NoClass}]
  /\ alloc_cnt \in [Slabs -> Nat]
  /\ f1 \in [Slabs -> SUBSET Nat]
  /\ f2 \in [Slabs -> SUBSET Nat]
  /\ \A s \in Packed : f2[s] \subseteq Indexes(class[s])
  /\ smallbins \in [Classes -> Seq(Slabs)]
  /\ \A b \in held : b.slab \in Slabs /\ b.at \in Nat /\ b.size \in Nat

(* The bits, the first level and the count of a slab say what its callers    *)
(* hold, through every order of mallocs and frees, and slabs that come back  *)
(* as another class; a slab is given back when and only when none of its     *)
(* blocks is held.                                                          *)
HeaderTellsWhatIsHeld ==
  /\ TypeOK
  /\ \A s \in Packed :
       LET c    == class[s]
           mine == {i \in Indexes(c) : Block(s, c, i) \in held}
       IN /\ f2[s] = Indexes(c) \ mine
          /\ alloc_cnt[s] = Cardinality(mine) /\ mine # {}
          /\ c \in TwoLevel => f1[s] = {WordOf(i) : i \in f2[s]}
  /\ \A b \in held : /\ b.slab \in Packed
                     /\ \E i \in Indexes(class[b.slab]) : b = Block(b.slab, class[b.slab], i)

(* A malloc finds room where there is some and only there: the bin of a      *)
(* class holds its slabs that are not full, each once.                      *)
BinsHoldSlabsWithRoom ==
  \A c \in Classes :
    /\ {smallbins[c][k] : k \in DOMAIN smallbins[c]} = {s \in Slabs : class[s] = c /\ f2[s] # {}}
    /\ \A j, k \in DOMAIN smallbins[c] : smallbins[c][j] = smallbins[c][k] => j = k
=============================================================================
