----------------------------- MODULE RegionPool -----------------------------
(***************************************************************************)
(* What mm.c's slab layer promises to the block layers above it: regions   *)
(* of contiguous slabs, each owned by one slab header until it is given    *)
(* back, that may be cut short or grown in place and never overlap.        *)
(***************************************************************************)
EXTENDS Integers

CONSTANT MaxSlabs     (* Bound: the slabs the heap can have.                *)

VARIABLE owned        (* first slab of a region -> its slabs, 0 if none     *)

PoolSlabs == 0..(MaxSlabs - 1)

Apart(own, s, n) ==
  /\ s + n <= MaxSlabs
  /\ \A r \in PoolSlabs : own[r] > 0 => s + n <= r \/ r + own[r] <= s

Init == owned = [s \in PoolSlabs |-> 0]

Alloc(s, n) ==
  /\ owned[s] = 0
  /\ owned' = [owned EXCEPT ![s] = n]
  /\ Apart(owned, s, n)

(* The region keeps its first slab and becomes shorter, longer or nothing.  *)
Resize(s, n) ==
  /\ owned[s] > 0
  /\ owned' = [owned EXCEPT ![s] = n]
  /\ Apart([owned EXCEPT ![s] = 0], s, n)

Next ==
  \/ \E s \in PoolSlabs, n \in 1..MaxSlabs : Alloc(s, n)
  \/ \E s \in PoolSlabs, n \in 0..MaxSlabs : Resize(s, n)

Spec == Init /\ [][Next]_owned

-----------------------------------------------------------------------------
(* No slab belongs to two regions, and none lies outside the heap.          *)
RegionsApart ==
  \A s \in PoolSlabs : owned[s] > 0 => Apart([owned EXCEPT ![s] = 0], s, owned[s])
=============================================================================
