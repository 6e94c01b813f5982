---------------------------- MODULE MCMediumSlabs ---------------------------
(***************************************************************************)
(* MediumSlabs for TLC: slabs of 8 units with blocks of 2 and more, so that *)
(* as in a real slab one block fewer fits than a header has offsets, and   *)
(* the last one begins where only a large block can.                       *)
(***************************************************************************)
EXTENDS MediumSlabs, TLC

Symmetry == Permutations(Slabs)
=============================================================================
