-------------------------------- MODULE Heap --------------------------------
(***************************************************************************)
(* bench::Heap: one region of memory of MaxSize bytes that grows from its  *)
(* start by sbrk, called by any number of threads without a lock.  The     *)
(* program break is one atomic word, advanced by a compare-exchange loop.  *)
(* Addresses are offsets from heap_start_.                                 *)
(***************************************************************************)
EXTENDS Integers, Sequences

CONSTANTS
  Threads,
  MaxSize,      (* max_size_                                                *)
  Increments,   (* What sbrk is called with; negative increments included.  *)
  MaxResets     (* Bound: how often the heap is reset.                      *)

ASSUME HeapAssumption ==
  /\ MaxSize \in Nat
  /\ Increments \subseteq Int
  /\ MaxResets \in Nat

VARIABLES
  heap_end,       (* heap_end_                                              *)
  pc,             (* where each thread is in sbrk                           *)
  old_heap_end,   (* sbrk's local: the break as last read                   *)
  increment,      (* sbrk's argument                                        *)
  granted,        (* history: the regions returned since the last reset     *)
  resets          (* history: the number of resets                          *)

vars == <<heap_end, pc, old_heap_end, increment, granted, resets>>

Init ==
  /\ heap_end = 0
  /\ pc = [t \in Threads |-> "idle"]
  /\ old_heap_end = [t \in Threads |-> 0]
  /\ increment = [t \in Threads |-> 0]
  /\ granted = <<>>
  /\ resets = 0

Goto(t, label) == pc' = [pc EXCEPT ![t] = label]

(* sbrk returns, and its argument and its local are gone.                   *)
Leave(t) ==
  /\ Goto(t, "idle")
  /\ old_heap_end' = [old_heap_end EXCEPT ![t] = 0]
  /\ increment' = [increment EXCEPT ![t] = 0]

(* History: sbrk(0) asks for the break and is given no memory.              *)
Grant(t) ==
  granted' = IF increment[t] = 0 THEN granted
             ELSE Append(granted, [start |-> old_heap_end[t], size |-> increment[t]])

-----------------------------------------------------------------------------
(* --- Variants with a plausible mistake; each breaks the property named. - *)
(* RegionsDisjoint: the break is stored, not compared and exchanged.        *)
SwapBlindly(t) ==
  /\ pc[t] = "swap"
  /\ heap_end' = old_heap_end[t] + increment[t]
  /\ Grant(t)
  /\ Leave(t)
  /\ UNCHANGED resets

(* BreakFollowsGrants: the exchange fails, and the loop takes it for done.  *)
LostIsDone(t) ==
  /\ pc[t] = "swap"
  /\ Grant(t)
  /\ Leave(t)
  /\ UNCHANGED <<heap_end, resets>>

(* RequestsReturn: the loop does not take over the break the exchange saw.     *)
KeepsOldBreak(t) ==
  /\ pc[t] = "swap"
  /\ Goto(t, "check")
  /\ UNCHANGED <<heap_end, old_heap_end, increment, granted, resets>>
(* ------------------------------------------------------------------------ *)

(* sbrk's entry: a negative increment is refused (EINVAL), else the break   *)
(* is read.                                                                 *)
Call(t, inc) ==
  /\ pc[t] = "idle"
  /\ inc >= 0
  /\ increment' = [increment EXCEPT ![t] = inc]
  /\ old_heap_end' = [old_heap_end EXCEPT ![t] = heap_end]
  /\ Goto(t, "check")
  /\ UNCHANGED <<heap_end, granted, resets>>

(* The loop's body.  The sum is compared as an unsigned number and is below *)
(* 2^64 for a non-negative increment: it does not wrap.                     *)
Fits(t) == old_heap_end[t] + increment[t] <= MaxSize

Check(t) ==
  /\ pc[t] = "check"
  /\ IF Fits(t) THEN Goto(t, "swap") /\ UNCHANGED <<old_heap_end, increment>>
                ELSE Leave(t)
  /\ UNCHANGED <<heap_end, granted, resets>>

(* compare_exchange_weak: it succeeds only if the break is still the one    *)
(* read, and the region from there is the caller's;                         *)
Swap(t) ==
  /\ pc[t] = "swap"
  /\ heap_end = old_heap_end[t]
  /\ heap_end' = old_heap_end[t] + increment[t]
  /\ Grant(t)
  /\ Leave(t)
  /\ UNCHANGED resets

(* it fails if the break has moved, or spuriously, and reads the break.     *)
SwapFails(t) ==
  /\ pc[t] = "swap"
  /\ old_heap_end' = [old_heap_end EXCEPT ![t] = heap_end]
  /\ Goto(t, "check")
  /\ UNCHANGED <<heap_end, increment, granted, resets>>

(* Heap::Reset: every region is taken back, whoever is inside sbrk.         *)
Reset ==
  /\ resets < MaxResets
  /\ resets' = resets + 1
  /\ heap_end' = 0
  /\ granted' = <<>>
  /\ UNCHANGED <<pc, old_heap_end, increment>>

Sbrk(t) == Check(t) \/ Swap(t) \/ SwapFails(t)

Next ==
  \/ \E t \in Threads : (\E inc \in Increments : Call(t, inc)) \/ Sbrk(t)
  \/ Reset

Spec == Init /\ [][Next]_vars

-----------------------------------------------------------------------------
(* The types of the state; the break never leaves the mapped memory.        *)
TypeOK ==
  /\ heap_end \in 0..MaxSize
  /\ pc \in [Threads -> {"idle", "check", "swap"}]
  /\ old_heap_end \in [Threads -> 0..MaxSize]
  /\ increment \in [Threads -> Nat]
  /\ granted \in Seq([start : 0..MaxSize, size : 0..MaxSize])
  /\ resets \in 0..MaxResets

EndOf(region) == region.start + region.size

(* No byte is handed out twice, whatever compare-exchanges and resets       *)
(* interleave: of two regions, the one granted first ends before the other  *)
(* starts.                                                                  *)
RegionsDisjoint ==
  \A i, j \in DOMAIN granted : i < j => EndOf(granted[i]) <= granted[j].start

(* Nothing is wasted: the regions granted follow each other from the start  *)
(* of the heap to its break, so that Size() is the sum of what was granted. *)
BreakFollowsGrants ==
  /\ \A i \in DOMAIN granted :
       granted[i].start = IF i = 1 THEN 0 ELSE EndOf(granted[i - 1])
  /\ heap_end = IF granted = <<>> THEN 0 ELSE EndOf(granted[Len(granted)])
=============================================================================
