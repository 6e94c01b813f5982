---------------------------- MODULE MCSlabMalloc ----------------------------
(***************************************************************************)
(* SlabMalloc for TLC: three slabs of 8 units; a class with two words on   *)
(* its first level, the second partly used, and one with a flat vector;    *)
(* medium blocks from 3 units on.                                          *)
(***************************************************************************)
EXTENDS SlabMalloc, TinySizes

MCSlabs == 0..2
MCClasses == {"two_level", "flat"}
MCSize == [two_level |-> 1, flat |-> 2]
MCHeader == [two_level |-> 5, flat |-> 3]
=============================================================================
