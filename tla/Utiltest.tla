------------------------------ MODULE Utiltest ------------------------------
(***************************************************************************)
(* Utiltest under the replay's threads: MallocRunner's calls of the        *)
(* allocator, and the hooks with which Utiltest counts the bytes allocated *)
(* at once and the size of the heap.  The allocator is the code under      *)
(* test; here it is one that does what it should: it hands out free memory *)
(* only, NULL for size 0, and waits when it is out of memory.  The callers *)
(* pass only pointers they were given and have not given back              *)
(* (BatchReplay's CallersPassTheirPointers).                               *)
(***************************************************************************)
EXTENDS Integers, FiniteSets, FiniteSetsExt

CONSTANTS
  Threads,
  Sizes,           (* Requested sizes.                                      *)
  Addresses,       (* Where the allocator may place a block.                *)
  HeapCells,       (* The memory there is, in bytes.                        *)
  EffectiveUtil,   (* --effective_util                                      *)
  WordMax,         (* size_t counts modulo this.                            *)
  Null

ASSUME UtiltestAssumption ==
  /\ Sizes \subseteq Nat /\ Addresses \subseteq Nat /\ HeapCells \in Nat
  /\ WordMax \in Nat /\ WordMax > HeapCells
  /\ EffectiveUtil \in BOOLEAN
  /\ Null \notin Nat

VARIABLES
  (* the allocator and its heap *)
  blocks,           (* live blocks: address -> size, 0 where there is none  *)
  heap_size,        (* sum of Heap::Size() over the factory's heaps         *)
  (* the callers *)
  held,             (* pointers no call is using                            *)
  (* Utiltest *)
  total_allocated_bytes, max_allocated_bytes, max_heap_size,
  size_map,         (* pointer -> size, NotInMap                            *)
  (* one thread's locals *)
  pc,
  call,             (* the operation, its pointer and its size              *)
  prev_size,        (* PreRealloc's answer, PreRelease's old_size           *)
  raised,           (* RecomputeMax's total_allocated_bytes                 *)
  raised_heap,      (* RecomputeMax's heap_size                             *)
  (* history *)
  totals,               (* every value the maximum of the bytes was given   *)
  peak,                 (* the most bytes ever allocated at once            *)
  overlapped            (* whether two calls were ever in progress at once  *)

allocator == <<blocks, heap_size, held, peak>>
counters == <<total_allocated_bytes, max_allocated_bytes, max_heap_size, size_map>>
locals == <<call, prev_size, raised, raised_heap>>
history == <<totals, overlapped>>
vars == <<allocator, counters, pc, locals, history>>

NotInMap == -1
None == -1
Pointers == Addresses \cup {Null}
NoCall == [op |-> "malloc", ptr |-> Null, size |-> 0]

Init ==
  /\ blocks = [a \in Addresses |-> 0]
  /\ heap_size = 0
  /\ held = {}
  /\ total_allocated_bytes = 0
  /\ max_allocated_bytes = 0
  /\ max_heap_size = 0
  /\ size_map = [p \in Pointers |-> NotInMap]
  /\ pc = [t \in Threads |-> "idle"]
  /\ call = [t \in Threads |-> NoCall]
  /\ prev_size = [t \in Threads |-> 0]
  /\ raised = [t \in Threads |-> None]
  /\ raised_heap = [t \in Threads |-> None]
  /\ totals = {}
  /\ peak = 0
  /\ overlapped = FALSE

Goto(t, label) == pc' = [pc EXCEPT ![t] = label]

Begin(t) ==
  /\ pc[t] = "idle"
  /\ overlapped' = (overlapped \/ \E u \in Threads : pc[u] # "idle")

(* The call returns to the replay; its locals are gone.                     *)
Return(t) ==
  /\ Goto(t, "idle")
  /\ call' = [call EXCEPT ![t] = NoCall]
  /\ prev_size' = [prev_size EXCEPT ![t] = 0]

(* RoundUp: with --effective_util a size counts as what its alignment makes *)
(* of it.                                                                   *)
RoundUp(size) ==
  IF ~EffectiveUtil THEN size
  ELSE IF size <= 8 THEN 8
  ELSE 16 * ((size + 15) \div 16)

-----------------------------------------------------------------------------
(* The allocator under test.                                                *)
SumOver(f) == MapThenSumSet(LAMBDA p : IF f[p] = NotInMap THEN 0 ELSE f[p], DOMAIN f)

FreeAt(a, size) ==
  /\ a + size <= HeapCells
  /\ \A b \in Addresses : blocks[b] > 0 => a + size <= b \/ b + blocks[b] <= a

(* History: what the blocks count for.                                      *)
BytesOf(bs) == SumOver([b \in Addresses |-> IF bs[b] = 0 THEN 0 ELSE RoundUp(bs[b])])

Place(kept, a, size) ==
  /\ blocks' = IF size = 0 THEN kept ELSE [kept EXCEPT ![a] = size]
  /\ heap_size' = IF a + size > heap_size THEN a + size ELSE heap_size
  /\ peak' = IF BytesOf(blocks') > peak THEN BytesOf(blocks') ELSE peak

-----------------------------------------------------------------------------
(* --- Variants with a plausible mistake; each breaks the property named. - *)
(* BytesAccounted: a realloc counts the new size on top of the old one.     *)
ReallocDelta(t) == RoundUp(call[t].size)

(* NoFalseAlarm: PreRealloc leaves the old entry in the size map.           *)
PreReallocKeepsEntry(t, p) == size_map

(* KeepsAllocatedMax: what the exchange took out is not put back.           *)
RaiseMaxDropped(t) ==
  /\ pc[t] = "raise"
  /\ max_allocated_bytes' = raised[t]
  /\ raised' = [raised EXCEPT ![t] = None]
  /\ Goto(t, "raise_heap")
  /\ UNCHANGED <<allocator, total_allocated_bytes, max_heap_size, size_map, call, prev_size,
                 raised_heap, history>>

(* ReportsPeaks: a release is not counted.                                 *)
ReleaseDelta(t) == 0

(* RaisesEnd: an exchange that takes out the thread's own value is taken    *)
(* for a lost one.                                                          *)
RaiseMaxWhileNotLess(t) ==
  /\ pc[t] = "raise"
  /\ max_allocated_bytes' = raised[t]
  /\ IF max_allocated_bytes >= raised[t]
       THEN raised' = [raised EXCEPT ![t] = max_allocated_bytes] /\ UNCHANGED pc
       ELSE raised' = [raised EXCEPT ![t] = None] /\ Goto(t, "raise_heap")
  /\ UNCHANGED <<allocator, total_allocated_bytes, max_heap_size, size_map, call, prev_size,
                 raised_heap, history>>
(* ------------------------------------------------------------------------ *)

(* MallocRunner::Malloc, Calloc, and Realloc of NULL: the allocator is      *)
(* called, then PostAlloc.                                                  *)
Malloc(t, size) ==
  /\ Begin(t)
  /\ \E a \in Addresses :
       /\ FreeAt(a, size)
       /\ size = 0 => a = 0
       /\ Place(blocks, a, size)
       /\ call' = [call EXCEPT ![t] =
            [op |-> "malloc", ptr |-> IF size = 0 THEN Null ELSE a, size |-> size]]
  /\ Goto(t, "count")
  /\ UNCHANGED <<held, counters, prev_size, raised, raised_heap, totals>>

(* MallocRunner::Realloc of a pointer: PreRealloc takes it off the size     *)
(* map (or fails),                                                          *)
SizeMapWithout(t, p) == [size_map EXCEPT ![p] = NotInMap]

Realloc(t, p, size) ==
  /\ Begin(t)
  /\ p \in held
  /\ held' = held \ {p}
  /\ call' = [call EXCEPT ![t] = [op |-> "realloc", ptr |-> p, size |-> size]]
  /\ IF size_map[p] = NotInMap
       THEN Goto(t, "failed") /\ UNCHANGED <<size_map, prev_size>>
       ELSE /\ prev_size' = [prev_size EXCEPT ![t] = RoundUp(size_map[p])]
            /\ size_map' = SizeMapWithout(t, p)
            /\ Goto(t, "realloc")
  /\ UNCHANGED <<blocks, heap_size, peak, total_allocated_bytes, max_allocated_bytes,
                 max_heap_size, raised, raised_heap, totals>>

(* the allocator moves or resizes the block, then PostRealloc.              *)
CallRealloc(t) ==
  /\ pc[t] = "realloc"
  /\ LET p == call[t].ptr
         size == call[t].size
     IN \E a \in Addresses :
          /\ size = 0 => a = 0
          /\ size > 0 => FreeAt(a, size) \/ (a = p /\ size <= blocks[p])
          /\ Place([blocks EXCEPT ![p] = 0], a, size)
          /\ call' = [call EXCEPT ![t].ptr = IF size = 0 THEN Null ELSE a]
  /\ Goto(t, "count")
  /\ UNCHANGED <<held, counters, prev_size, raised, raised_heap, history>>

(* MallocRunner::Free, PreRelease: the size is looked up (or it fails).     *)
Free(t, p) ==
  /\ Begin(t)
  /\ p \in held
  /\ held' = held \ {p}
  /\ call' = [call EXCEPT ![t] = [op |-> "free", ptr |-> p, size |-> 0]]
  /\ IF size_map[p] = NotInMap
       THEN Goto(t, "failed") /\ UNCHANGED prev_size
       ELSE /\ prev_size' = [prev_size EXCEPT ![t] = RoundUp(size_map[p])]
            /\ Goto(t, "count")
  /\ UNCHANGED <<blocks, heap_size, peak, counters, raised, raised_heap, totals>>

(* fetch_add and fetch_sub of the hooks, on unsigned words, and what they   *)
(* leave, which RecomputeMax is called with.                                *)
FreedBytes(t) == prev_size[t]
ReallocedBytes(t) == RoundUp(call[t].size) - prev_size[t]

Delta(t) ==
  CASE call[t].op = "malloc"  -> RoundUp(call[t].size)
    [] call[t].op = "realloc" -> ReallocedBytes(t)
    [] call[t].op = "free"    -> 0 - FreedBytes(t)

Count(t) ==
  /\ pc[t] = "count"
  /\ LET total == (total_allocated_bytes + Delta(t)) % WordMax
     IN /\ total_allocated_bytes' = total
        /\ raised' = [raised EXCEPT ![t] = total]
        /\ totals' = totals \cup {total}
  /\ Goto(t, "heap_size")
  /\ UNCHANGED <<allocator, max_allocated_bytes, max_heap_size, size_map, call, prev_size,
                 raised_heap, overlapped>>

(* RecomputeMax: the heaps' sizes, read under the factory's lock, then the  *)
(* two exchange loops.                                                      *)
ReadHeapSize(t) ==
  /\ pc[t] = "heap_size"
  /\ raised_heap' = [raised_heap EXCEPT ![t] = heap_size]
  /\ Goto(t, "raise")
  /\ UNCHANGED <<allocator, counters, call, prev_size, raised, totals, overlapped>>

RaiseMax(t) ==
  /\ pc[t] = "raise"
  /\ max_allocated_bytes' = raised[t]
  /\ IF max_allocated_bytes > raised[t]
       THEN raised' = [raised EXCEPT ![t] = max_allocated_bytes] /\ UNCHANGED pc
       ELSE raised' = [raised EXCEPT ![t] = None] /\ Goto(t, "raise_heap")
  /\ UNCHANGED <<allocator, total_allocated_bytes, max_heap_size, size_map, call, prev_size,
                 raised_heap, history>>

RaiseMaxHeap(t) ==
  /\ pc[t] = "raise_heap"
  /\ max_heap_size' = raised_heap[t]
  /\ IF max_heap_size > raised_heap[t]
       THEN raised_heap' = [raised_heap EXCEPT ![t] = max_heap_size] /\ UNCHANGED pc
       ELSE raised_heap' = [raised_heap EXCEPT ![t] = None] /\ Goto(t, "record")
  /\ UNCHANGED <<allocator, total_allocated_bytes, max_allocated_bytes, size_map, call, prev_size,
                 raised, history>>

(* The end of PostAlloc and PostRealloc: the block must be new to the map.  *)
RecordBlock(t) ==
  /\ pc[t] = "record"
  /\ call[t].op # "free"
  /\ LET p == call[t].ptr
     IN IF size_map[p] # NotInMap
          THEN Goto(t, "failed") /\ UNCHANGED <<size_map, held, call, prev_size>>
          ELSE /\ size_map' = [size_map EXCEPT ![p] = call[t].size]
               /\ held' = held \cup ({p} \ {Null})
               /\ Return(t)
  /\ UNCHANGED <<blocks, heap_size, peak, total_allocated_bytes, max_allocated_bytes,
                 max_heap_size, raised, raised_heap, history>>

(* The end of PreRelease, then the allocator's free.                        *)
EraseBlock(t) ==
  /\ pc[t] = "record"
  /\ call[t].op = "free"
  /\ size_map' = [size_map EXCEPT ![call[t].ptr] = NotInMap]
  /\ Goto(t, "free")
  /\ UNCHANGED <<allocator, total_allocated_bytes, max_allocated_bytes, max_heap_size, locals,
                 history>>

CallFree(t) ==
  /\ pc[t] = "free"
  /\ blocks' = [blocks EXCEPT ![call[t].ptr] = 0]
  /\ Return(t)
  /\ UNCHANGED <<heap_size, held, peak, counters, raised, raised_heap, history>>

Continue(t) ==
  \/ CallRealloc(t)
  \/ Count(t) \/ ReadHeapSize(t) \/ RaiseMax(t) \/ RaiseMaxHeap(t)
  \/ RecordBlock(t) \/ EraseBlock(t) \/ CallFree(t)

Next ==
  \E t \in Threads :
    \/ \E size \in Sizes : Malloc(t, size) \/ \E p \in Addresses : Realloc(t, p, size)
    \/ \E p \in Addresses : Free(t, p)
    \/ Continue(t)

Spec == Init /\ [][Next]_vars

(* The operating system runs every thread that can run.                     *)
FairSpec == Spec /\ \A t \in Threads : WF_vars(Continue(t))

-----------------------------------------------------------------------------
Labels == {"idle", "realloc", "count", "heap_size", "raise", "raise_heap", "record", "free",
           "failed"}

(* The types of the state.                                                  *)
TypeOK ==
  /\ blocks \in [Addresses -> 0..HeapCells]
  /\ heap_size \in 0..HeapCells
  /\ held \subseteq Addresses
  /\ total_allocated_bytes \in 0..(WordMax - 1)
  /\ max_allocated_bytes \in 0..(WordMax - 1)
  /\ max_heap_size \in 0..HeapCells
  /\ size_map \in [Pointers -> Nat \cup {NotInMap}]
  /\ pc \in [Threads -> Labels]
  /\ call \in [Threads -> [op : {"malloc", "realloc", "free"}, ptr : Pointers, size : Nat]]
  /\ prev_size \in [Threads -> Nat]
  /\ raised \in [Threads -> Nat \cup {None}]
  /\ raised_heap \in [Threads -> Nat \cup {None}]

AtRest == \A t \in Threads : pc[t] = "idle"

(* A replay of a correct allocator is not failed by the measurement: the    *)
(* size map is in step with the allocator at every insert and look-up,      *)
(* although it is written before some calls and after others.  The one that *)
(* is failed is the second to be answered NULL: the first one's entry stays. *)
NoFalseAlarm ==
  \A t \in Threads : pc[t] = "failed" =>
    call[t].op # "free" /\ call[t].ptr = Null /\ size_map[Null] = 0

(***************************************************************************)
(* The byte counter is exact, modulo the word: it is the sum of the sizes  *)
(* in the map, corrected for the calls that have counted but not recorded, *)
(* or recorded but not counted.  At rest, it is 0 just if all was freed,   *)
(* which is how ComputeUtilization finds a trace that does not free all.   *)
(***************************************************************************)
Uncounted(t) ==
  CASE pc[t] \in {"realloc", "count"} /\ call[t].op = "realloc" -> prev_size[t]
    [] pc[t] \in {"heap_size", "raise", "raise_heap", "record", "failed"} ->
         IF call[t].op = "free" THEN 0 - prev_size[t] ELSE RoundUp(call[t].size)
    [] OTHER -> 0

BytesAccounted ==
  NoFalseAlarm =>
    /\ TypeOK
    /\ LET mapped == [p \in Pointers |-> IF size_map[p] = NotInMap THEN 0 ELSE RoundUp(size_map[p])]
       IN total_allocated_bytes = (SumOver(mapped) + MapThenSumSet(Uncounted, Threads)) % WordMax

(* The maximum of the bytes is kept by MaxRegister's exchange loop (that of  *)
(* the heap is kept by the same code).                                      *)
AllocatedMax == INSTANCE MaxRegister WITH
  Values <- 0..(WordMax - 1), register <- max_allocated_bytes, raising <- raised,
  contributed <- totals

KeepsAllocatedMax == AllocatedMax!Spec

(* What the counter does not know of yet: an allocation or a realloc is     *)
(* counted after the allocator has acted, a free before it does.            *)
Lag(t) ==
  CASE pc[t] = "count" /\ call[t].op = "malloc"  -> RoundUp(call[t].size)
    [] pc[t] = "count" /\ call[t].op = "realloc" -> ReallocedBytes(t)
    [] pc[t] \in {"heap_size", "raise", "raise_heap", "record", "free"} /\ call[t].op = "free"
         -> FreedBytes(t)
    [] OTHER -> 0

(* An answer of NULL is in the size map or on its way there.                *)
AnsweredNull ==
  size_map[Null] # NotInMap \/ \E t \in Threads : pc[t] # "idle" /\ call[t].ptr = Null

(* At every moment, calls overlapping or not, the counter and the bytes the *)
(* allocator holds differ by what the calls in progress lag behind: it is   *)
(* never ahead but for a shrinking realloc that has the memory back and has *)
(* not been counted, a difference below 0.                                  *)
FollowsAllocator ==
  AnsweredNull \/ total_allocated_bytes + MapThenSumSet(Lag, Threads) = BytesOf(blocks)

(* What is reported at the end: the heap's growth has been noticed in full,  *)
(* since whoever made the heap grow looked at its size afterwards; and as   *)
(* long as calls followed one another, on whatever threads, the peak is the *)
(* peak, unless one was answered NULL, which counts as 8 bytes for ever.     *)
(* (When a shrinking realloc is overlapped it may exceed every amount ever  *)
(* allocated: by how much the counter then runs ahead, FollowsAllocator says.)*)
ReportsPeaks ==
  /\ FollowsAllocator
  /\ AtRest => /\ max_heap_size = heap_size
               /\ ~overlapped /\ size_map[Null] = NotInMap => max_allocated_bytes = peak

(* RecomputeMax's loops end, although other threads keep raising the maxima *)
(* and an exchange may take out a larger value each time.                   *)
RaisesEnd ==
  \A t \in Threads :
    /\ raised[t] # None ~> raised[t] = None
    /\ raised_heap[t] # None ~> raised_heap[t] = None
=============================================================================
