------------------------------ MODULE TinySizes ------------------------------
(***************************************************************************)
(* The arithmetic of packed slabs, with mm.c's constants: which block size *)
(* a tiny request gets, which bin that size has, and how many blocks of it *)
(* a slab holds.                                                           *)
(***************************************************************************)
EXTENDS Integers

MALLOC_ALIGN == 16
SLAB_SIZE == 4096
MAX_TINY_BLOCK_SZ == 496
NUM_SMALLBINS == (MAX_TINY_BLOCK_SZ \div MALLOC_ALIGN) - 8

(* What malloc makes of a request that is not 0 and is_tiny_block_size.      *)
TinyRequests == {MALLOC_ALIGN * k : k \in 1..(MAX_TINY_BLOCK_SZ \div MALLOC_ALIGN)}

CeilDiv(n, d) == (n + d - 1) \div d
AlignUp(n, mod) == CeilDiv(n, mod) * mod
AlignDown(n, mod) == (n \div mod) * mod

(* adj_tiny_size                                                            *)
AdjTinySize(size) ==
  IF size < 320 THEN IF size = 256 THEN size + 16 ELSE size
  ELSE IF size < 416 THEN AlignDown(size, 32) + 16
  ELSE 400 + 3 * AlignDown((size + 48) \div 16, 16)

(* packed_bin_idx                                                           *)
PackedBinIdx(size) ==
  IF size < 256 THEN (size \div MALLOC_ALIGN) - 1
  ELSE IF size < 368 THEN (size * 3) \div (4 * MALLOC_ALIGN) + 3
  ELSE (size * 3 + 32) \div (8 * MALLOC_ALIGN) + 11

SizeToSzClass(size) == ((size \div MALLOC_ALIGN) - 1) % 256
SzClassToSize(sz_class) == (sz_class + 1) * MALLOC_ALIGN

(* The length in bytes of a two-level class's second level, and the header  *)
(* before the blocks.                                                       *)
BitvLen(size) == CASE size = 16 -> 32 [] size = 32 -> 16 [] size = 48 -> 11
HeaderSize(size) == IF size <= 48 THEN AlignUp(24 + BitvLen(size), MALLOC_ALIGN) ELSE 32

BlocksThatFit(size) == (SLAB_SIZE - HeaderSize(size)) \div size

(* __int_slab_init_packed_and_alloc: the bits it sets (and the first one it  *)
(* does not), and the bits of the first level.                              *)
InitialBits(size) ==
  CASE size = 16 -> 3 * 64 + (64 - CeilDiv(HeaderSize(16), 16))
    [] size = 32 -> 64 + (64 - CeilDiv(HeaderSize(32), 32))
    [] size = 48 -> 64 + ((SLAB_SIZE - HeaderSize(48)) \div 48 - 64)
    [] size > 48 -> BlocksThatFit(size)
InitialWords(size) == CASE size = 16 -> 16 [] size = 32 -> 8 [] size = 48 -> 6

-----------------------------------------------------------------------------
(* The three ways the code has to name a size agree for every tiny request: *)
(* the block is large enough and its size is kept by another round of       *)
(* adj_tiny_size (the malloc of realloc, the bin of a free); two requests   *)
(* share a bin exactly if they get the same block size; all the bins are    *)
(* used; the size survives its byte-sized class; and the bit vectors cover  *)
(* exactly the blocks that fit, in words and headers that have the room.    *)
SizeClassesAgree ==
  /\ \A size \in TinyRequests :
       LET block == AdjTinySize(size)
       IN /\ block >= size /\ block \in TinyRequests
          /\ AdjTinySize(block) = block
          /\ SzClassToSize(SizeToSzClass(block)) = block
          /\ InitialBits(block) = BlocksThatFit(block)
          /\ IF block <= 48
               THEN /\ InitialWords(block) = CeilDiv(BlocksThatFit(block), 16)
                    /\ CeilDiv(BlocksThatFit(block), 8) <= BitvLen(block)
               ELSE BlocksThatFit(block) < 64
  /\ \A size, other \in TinyRequests :
       PackedBinIdx(AdjTinySize(size)) = PackedBinIdx(AdjTinySize(other))
         <=> AdjTinySize(size) = AdjTinySize(other)
  /\ {PackedBinIdx(AdjTinySize(size)) : size \in TinyRequests} = 0..(NUM_SMALLBINS - 1)

ASSUME TinySizesAssumption == SizeClassesAgree
=============================================================================
