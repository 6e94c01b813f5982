----------------------------- MODULE MCSlabHeap -----------------------------
(* SlabHeap for TLC.                                                        *)
EXTENDS SlabHeap

(* Some of it looks like an owned region, some like a free one.             *)
Mixed == [s \in 0..MaxSlabs |-> IF s % 2 = 0 THEN {} ELSE {"alloc", "prev"}]
=============================================================================
