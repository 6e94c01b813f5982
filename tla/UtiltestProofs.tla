--------------------------- MODULE UtiltestProofs ---------------------------
(***************************************************************************)
(* For any threads, sizes and placement of blocks: Utiltest's size map is  *)
(* in step with a correct allocator, so that no replay of one is failed by *)
(* the measurement, and the maxima it keeps miss nothing.                  *)
(***************************************************************************)
EXTENDS Utiltest, TLAPS

Counting == {"count", "heap_size", "raise", "raise_heap", "record"}

(* What a thread's call is at each place of the hooks.                      *)
CallShape ==
  \A t \in Threads :
    /\ pc[t] = "realloc" => call[t].op = "realloc" /\ call[t].ptr \in Addresses
    /\ pc[t] = "free" => call[t].op = "free"
    /\ pc[t] # "idle" /\ call[t].op = "free" => call[t].ptr \in Addresses
    /\ call[t].ptr = Null => call[t].size = 0

BlocksFit == \A p \in Addresses : blocks[p] > 0 => p + blocks[p] <= HeapCells

InCall(t, p) == pc[t] # "idle" /\ call[t].ptr = p

(* A block that is between the allocator and the caller is in one call.     *)
CallOwnsBlock ==
  \A t \in Threads, p \in Addresses : InCall(t, p) =>
    /\ p \notin held
    /\ blocks[p] > 0
    /\ \A u \in Threads \ {t} : ~InCall(u, p)

HeldIsMapped == \A p \in held : blocks[p] > 0 /\ size_map[p] # NotInMap

(* A mapped pointer that nobody holds is being freed: its entry is erased   *)
(* before the allocator has the block back and may hand it out again.       *)
MappedIsHeld ==
  \A p \in Addresses : size_map[p] # NotInMap =>
    p \in held \/ \E t \in Threads : pc[t] \in Counting /\ call[t].op = "free" /\ call[t].ptr = p

NullMap == size_map[Null] \in {NotInMap, 0}

Bookkeeping ==
  /\ CallShape
  /\ BlocksFit
  /\ CallOwnsBlock
  /\ HeldIsMapped
  /\ MappedIsHeld
  /\ NullMap
  /\ NoFalseAlarm

(* What a thread brings to the two exchange loops, and when.                *)
RaiseShape ==
  \A t \in Threads :
    /\ raised[t] \in IF pc[t] \in {"heap_size", "raise"} THEN 0..(WordMax - 1) ELSE {None}
    /\ raised_heap[t] \in IF pc[t] \in {"raise", "raise_heap"} THEN 0..heap_size ELSE {None}

(* Growth that the maximum misses is in the hands of a thread, or will be.  *)
HeapNoticed ==
  /\ max_heap_size <= heap_size
  /\ \/ heap_size <= max_heap_size
     \/ \E t \in Threads : pc[t] \in {"count", "heap_size"} \/ heap_size <= raised_heap[t]

Maxima == RaiseShape /\ HeapNoticed

UInv == TypeOK /\ Bookkeeping /\ Maxima

-----------------------------------------------------------------------------
LEMMA RoundUpIsNat ==
  ASSUME NEW size \in Nat
  PROVE  RoundUp(size) \in Nat
BY DEF RoundUp

(* The block that a call of the allocator places, and the heap it needs.    *)
LEMMA PlaceEffect ==
  ASSUME TypeOK, NEW kept \in [Addresses -> 0..HeapCells], NEW a \in Addresses,
         NEW size \in Nat, a + size <= HeapCells, Place(kept, a, size)
  PROVE  /\ blocks' \in [Addresses -> 0..HeapCells]
         /\ heap_size' \in 0..HeapCells /\ heap_size <= heap_size'
         /\ size = 0 => blocks' = kept
         /\ size > 0 => blocks'[a] = size
         /\ \A p \in Addresses \ {a} : blocks'[p] = kept[p]
<1>1. /\ blocks' = IF size = 0 THEN kept ELSE [kept EXCEPT ![a] = size]
      /\ heap_size' = IF a + size > heap_size THEN a + size ELSE heap_size
  BY DEF Place
<1>2. a \in Nat /\ HeapCells \in Nat /\ size \in 0..HeapCells
  BY UtiltestAssumption
<1>3. blocks' \in [Addresses -> 0..HeapCells]
  BY <1>1, <1>2
<1>4. heap_size' \in 0..HeapCells /\ heap_size <= heap_size'
  BY <1>1, <1>2 DEF TypeOK
<1> QED BY <1>1, <1>2, <1>3, <1>4

(* Where there is room for a block, there is none.                          *)
LEMMA FreeIsFree ==
  ASSUME TypeOK, NEW a \in Addresses, NEW size \in Nat \ {0}, FreeAt(a, size)
  PROVE  blocks[a] = 0
<1>1. a \in Nat /\ blocks[a] \in 0..HeapCells /\ HeapCells \in Nat
  BY UtiltestAssumption DEF TypeOK
<1>2. blocks[a] > 0 => a + size <= a \/ a + blocks[a] <= a
  BY DEF FreeAt
<1> QED BY <1>1, <1>2

-----------------------------------------------------------------------------
(* Counting and the exchange loops: nothing that the size map is about      *)
(* changes, and the thread stays between its call and its entry.            *)
LEMMA MeasuringKeepsBooks ==
  ASSUME UInv, NEW t \in Threads, NEW label \in Counting \ {"count"}, pc[t] \in Counting,
         pc' = pc \/ pc' = [pc EXCEPT ![t] = label],
         UNCHANGED <<blocks, held, size_map, call>>
  PROVE  Bookkeeping'
<1> USE DEF UInv, Bookkeeping
<1>1. /\ \A u \in Threads \ {t} : pc'[u] = pc[u]
      /\ pc'[t] \in Counting
      /\ \A u \in Threads : pc'[u] \in Counting <=> pc[u] \in Counting
  BY DEF TypeOK
<1>2. \A u \in Threads : /\ pc'[u] # "idle" <=> pc[u] # "idle"
                         /\ pc'[u] = "realloc" <=> pc[u] = "realloc"
                         /\ pc'[u] = "free" <=> pc[u] = "free"
                         /\ pc'[u] = "failed" <=> pc[u] = "failed"
  BY <1>1 DEF Counting
<1>3. CallShape'
  BY <1>2 DEF CallShape
<1>4. BlocksFit' /\ HeldIsMapped' /\ NullMap'
  BY DEF BlocksFit, HeldIsMapped, NullMap
<1>5. CallOwnsBlock'
  BY <1>2 DEF CallOwnsBlock, InCall
<1>6. MappedIsHeld'
  BY <1>1 DEF MappedIsHeld
<1>7. NoFalseAlarm'
  BY <1>2 DEF NoFalseAlarm
<1> QED BY <1>3, <1>4, <1>5, <1>6, <1>7

LEMMA CountPreserves ==
  ASSUME UInv, NEW t \in Threads, Count(t)
  PROVE  UInv'
<1> DEFINE total == (total_allocated_bytes + Delta(t)) % WordMax
<1>1. /\ pc[t] = "count" /\ pc' = [pc EXCEPT ![t] = "heap_size"]
      /\ raised' = [raised EXCEPT ![t] = total] /\ total_allocated_bytes' = total
      /\ UNCHANGED <<allocator, max_allocated_bytes, max_heap_size, size_map, call, prev_size,
                     raised_heap, overlapped>>
  BY DEF Count, Goto
<1>2. Delta(t) \in Int
  <2>1. /\ prev_size[t] \in Nat /\ call[t].size \in Nat
        /\ call[t].op \in {"malloc", "realloc", "free"}
    BY DEF UInv, TypeOK
  <2>2. RoundUp(call[t].size) \in Nat
    BY <2>1, RoundUpIsNat
  <2> QED BY <2>1, <2>2 DEF Delta, ReallocedBytes, FreedBytes
<1>3. total \in 0..(WordMax - 1)
  BY <1>2, UtiltestAssumption DEF UInv, TypeOK
<1> HIDE DEF total
<1>4. WordMax \in Nat /\ total \in Nat
  BY <1>3, UtiltestAssumption
<1>5. TypeOK'
  BY <1>1, <1>3, <1>4 DEF UInv, TypeOK, Labels, allocator
<1>6. Bookkeeping'
  BY <1>1, MeasuringKeepsBooks DEF Counting, allocator
<1>7. Maxima'
  BY <1>1, <1>3, <1>4 DEF UInv, TypeOK, Maxima, RaiseShape, HeapNoticed, allocator
<1> QED BY <1>5, <1>6, <1>7 DEF UInv

LEMMA ReadHeapSizePreserves ==
  ASSUME UInv, NEW t \in Threads, ReadHeapSize(t)
  PROVE  UInv'
<1>1. /\ pc[t] = "heap_size" /\ pc' = [pc EXCEPT ![t] = "raise"]
      /\ raised_heap' = [raised_heap EXCEPT ![t] = heap_size]
      /\ UNCHANGED <<allocator, counters, call, prev_size, raised, totals, overlapped>>
  BY DEF ReadHeapSize, Goto
<1>2. heap_size \in Nat /\ HeapCells \in Nat
  BY UtiltestAssumption DEF UInv, TypeOK
<1>3. TypeOK'
  BY <1>1, <1>2 DEF UInv, TypeOK, Labels, allocator, counters
<1>4. Bookkeeping'
  BY <1>1, MeasuringKeepsBooks DEF Counting, allocator, counters
<1>5. RaiseShape'
  BY <1>1, <1>2 DEF UInv, TypeOK, Maxima, RaiseShape, allocator, counters
<1>6. HeapNoticed'
  <2>1. heap_size' <= raised_heap'[t]
    BY <1>1, <1>2 DEF UInv, TypeOK, allocator
  <2> QED BY <1>1, <2>1 DEF UInv, Maxima, HeapNoticed, allocator, counters
<1> QED BY <1>3, <1>4, <1>5, <1>6 DEF UInv, Maxima

LEMMA RaiseMaxPreserves ==
  ASSUME UInv, NEW t \in Threads, RaiseMax(t)
  PROVE  UInv'
<1>1. /\ pc[t] = "raise" /\ max_allocated_bytes' = raised[t]
      /\ UNCHANGED <<allocator, total_allocated_bytes, max_heap_size, size_map, call, prev_size,
                     raised_heap>>
      /\ \/ pc' = pc /\ raised' = [raised EXCEPT ![t] = max_allocated_bytes]
         \/ pc' = [pc EXCEPT ![t] = "raise_heap"] /\ raised' = [raised EXCEPT ![t] = None]
  BY DEF RaiseMax, Goto
<1>2. /\ raised[t] \in 0..(WordMax - 1) /\ WordMax \in Nat
      /\ max_allocated_bytes \in 0..(WordMax - 1)
  BY <1>1, UtiltestAssumption DEF UInv, Maxima, RaiseShape, TypeOK
<1>3. TypeOK'
  BY <1>1, <1>2 DEF UInv, TypeOK, Labels, allocator
<1>4. Bookkeeping'
  BY <1>1, MeasuringKeepsBooks DEF Counting, allocator
<1>5. RaiseShape'
  BY <1>1, <1>2 DEF UInv, TypeOK, Maxima, RaiseShape, allocator
<1>6. HeapNoticed'
  <2>1. \A u \in Threads : pc'[u] \in {"count", "heap_size"} <=> pc[u] \in {"count", "heap_size"}
    BY <1>1 DEF UInv, TypeOK
  <2> QED BY <1>1, <2>1 DEF UInv, Maxima, HeapNoticed, allocator
<1> QED BY <1>3, <1>4, <1>5, <1>6 DEF UInv, Maxima

(* What the exchange takes out is put back or covered by what it put in.    *)
LEMMA RaiseMaxHeapPreserves ==
  ASSUME UInv, NEW t \in Threads, RaiseMaxHeap(t)
  PROVE  UInv'
<1>1. /\ pc[t] = "raise_heap" /\ max_heap_size' = raised_heap[t]
      /\ UNCHANGED <<allocator, total_allocated_bytes, max_allocated_bytes, size_map, call,
                     prev_size, raised>>
      /\ \/ /\ max_heap_size > raised_heap[t]
            /\ pc' = pc /\ raised_heap' = [raised_heap EXCEPT ![t] = max_heap_size]
         \/ /\ ~(max_heap_size > raised_heap[t])
            /\ pc' = [pc EXCEPT ![t] = "record"] /\ raised_heap' = [raised_heap EXCEPT ![t] = None]
  BY DEF RaiseMaxHeap, Goto
<1>2. /\ raised_heap[t] \in 0..heap_size /\ heap_size \in 0..HeapCells /\ HeapCells \in Nat
      /\ max_heap_size \in 0..heap_size
  BY <1>1, UtiltestAssumption DEF UInv, Maxima, RaiseShape, HeapNoticed, TypeOK
<1>3. TypeOK'
  BY <1>1, <1>2 DEF UInv, TypeOK, Labels, allocator
<1>4. Bookkeeping'
  BY <1>1, MeasuringKeepsBooks DEF Counting, allocator
<1>5. RaiseShape'
  BY <1>1, <1>2 DEF UInv, TypeOK, Maxima, RaiseShape, allocator
<1>6. HeapNoticed'
  <2>1. /\ \A u \in Threads : pc'[u] \in {"count", "heap_size"} <=> pc[u] \in {"count", "heap_size"}
        /\ \A u \in Threads \ {t} : raised_heap'[u] = raised_heap[u]
    BY <1>1 DEF UInv, TypeOK
  <2>2. max_heap_size' <= heap_size' /\ heap_size' = heap_size
    BY <1>1, <1>2 DEF allocator
  <2>3. CASE heap_size <= max_heap_size
    <3>1. CASE max_heap_size > raised_heap[t]
      <4>1. heap_size <= raised_heap'[t]
        BY <1>1, <3>1, <2>3 DEF UInv, TypeOK
      <4> QED BY <2>2, <4>1 DEF HeapNoticed
    <3>2. CASE ~(max_heap_size > raised_heap[t])
      <4>1. heap_size <= max_heap_size'
        BY <1>1, <1>2, <3>2, <2>3
      <4> QED BY <2>2, <4>1 DEF HeapNoticed
    <3> QED BY <3>1, <3>2
  <2>4. CASE heap_size <= raised_heap[t]
    BY <1>1, <2>2, <2>4 DEF HeapNoticed
  <2>5. CASE \E u \in Threads : pc[u] \in {"count", "heap_size"}
    BY <2>1, <2>2, <2>5 DEF HeapNoticed
  <2>6. CASE \E u \in Threads \ {t} : heap_size <= raised_heap[u]
    BY <2>1, <2>2, <2>6 DEF HeapNoticed
  <2> QED BY <2>3, <2>4, <2>5, <2>6 DEF UInv, Maxima, HeapNoticed
<1> QED BY <1>3, <1>4, <1>5, <1>6 DEF UInv, Maxima

-----------------------------------------------------------------------------
(* Steps outside the exchange loops; the heap grows only on the way to them.*)
LEMMA OutsideLoopsKeepsMaxima ==
  ASSUME UInv, NEW t \in Threads, NEW label \in Labels \ {"heap_size", "raise", "raise_heap"},
         pc[t] \notin {"heap_size", "raise", "raise_heap"}, pc' = [pc EXCEPT ![t] = label],
         UNCHANGED <<raised, raised_heap, max_heap_size>>,
         heap_size' \in Nat, heap_size <= heap_size',
         label = "count" \/ (heap_size' = heap_size /\ pc[t] # "count")
  PROVE  Maxima'
<1>1. /\ pc'[t] = label /\ \A u \in Threads \ {t} : pc'[u] = pc[u]
      /\ heap_size \in Nat /\ max_heap_size \in Nat
  BY DEF UInv, TypeOK
<1>2. RaiseShape'
  <2>1. 0..heap_size \subseteq 0..heap_size'
    BY <1>1
  <2> QED BY <1>1, <2>1 DEF UInv, Maxima, RaiseShape
<1>3. HeapNoticed'
  <2>1. max_heap_size' <= heap_size'
    BY <1>1 DEF UInv, Maxima, HeapNoticed
  <2>2. CASE label = "count"
    BY <1>1, <2>1, <2>2 DEF HeapNoticed
  <2>3. CASE heap_size' = heap_size /\ pc[t] # "count"
    <3>1. \A u \in Threads : pc[u] \in {"count", "heap_size"} => pc'[u] \in {"count", "heap_size"}
      BY <1>1, <2>3
    <3> QED BY <2>1, <2>3, <3>1 DEF UInv, Maxima, HeapNoticed
  <2> QED BY <2>2, <2>3
<1> QED BY <1>2, <1>3 DEF Maxima

(* The allocator answers a malloc with free memory, or NULL.                *)
LEMMA MallocPreserves ==
  ASSUME UInv, NEW t \in Threads, NEW size \in Sizes, Malloc(t, size)
  PROVE  UInv'
<1> USE UtiltestAssumption
<1>1. PICK a \in Addresses :
        /\ FreeAt(a, size)
        /\ size = 0 => a = 0
        /\ Place(blocks, a, size)
        /\ call' = [call EXCEPT ![t] =
             [op |-> "malloc", ptr |-> IF size = 0 THEN Null ELSE a, size |-> size]]
  BY DEF Malloc
<1>2. /\ pc[t] = "idle" /\ pc' = [pc EXCEPT ![t] = "count"]
      /\ UNCHANGED <<held, counters, prev_size, raised, raised_heap>>
  BY DEF Malloc, Begin, Goto
<1>3. size \in Nat /\ a \in Nat /\ a + size <= HeapCells /\ blocks \in [Addresses -> 0..HeapCells]
  BY <1>1 DEF FreeAt, UInv, TypeOK
<1>4. /\ blocks' \in [Addresses -> 0..HeapCells]
      /\ heap_size' \in 0..HeapCells /\ heap_size <= heap_size'
      /\ size = 0 => blocks' = blocks
      /\ size > 0 => blocks'[a] = size
      /\ \A p \in Addresses \ {a} : blocks'[p] = blocks[p]
  BY <1>1, <1>3, PlaceEffect DEF UInv
<1>5. size > 0 => blocks[a] = 0
  BY <1>1, <1>3, FreeIsFree DEF UInv
<1>6. /\ call'[t] = [op |-> "malloc", ptr |-> IF size = 0 THEN Null ELSE a, size |-> size]
      /\ pc'[t] = "count"
      /\ \A u \in Threads \ {t} : call'[u] = call[u] /\ pc'[u] = pc[u]
  BY <1>1, <1>2 DEF UInv, TypeOK
<1>7. TypeOK'
  <2>1. call' \in [Threads -> [op : {"malloc", "realloc", "free"}, ptr : Pointers, size : Nat]]
    <3>1. [op |-> "malloc", ptr |-> IF size = 0 THEN Null ELSE a, size |-> size]
            \in [op : {"malloc", "realloc", "free"}, ptr : Pointers, size : Nat]
      BY <1>3 DEF Pointers
    <3> QED BY <1>1, <3>1 DEF UInv, TypeOK
  <2> QED BY <1>2, <1>4, <2>1 DEF UInv, TypeOK, Labels, counters
<1>8. Bookkeeping'
  <2> USE DEF UInv, Bookkeeping
  <2>1. CallShape'
    BY <1>3, <1>6 DEF CallShape
  <2>2. BlocksFit'
    BY <1>3, <1>4 DEF BlocksFit
  <2>3. CallOwnsBlock'
    <3> SUFFICES ASSUME NEW u \in Threads, NEW p \in Addresses, InCall(u, p)'
                 PROVE  /\ p \notin held /\ blocks'[p] > 0
                        /\ \A v \in Threads \ {u} : ~InCall(v, p)'
      BY <1>2 DEF CallOwnsBlock
    <3>1. CASE size > 0 /\ p = a
      <4>1. \A v \in Threads \ {t} : ~InCall(v, p)'
        BY <1>5, <1>6, <3>1 DEF CallOwnsBlock, InCall
      <4>2. u = t
        BY <4>1
      <4>3. p \notin held
        BY <1>5, <3>1 DEF HeldIsMapped
      <4> QED BY <1>4, <1>3, <3>1, <4>1, <4>2, <4>3
    <3>2. CASE ~(size > 0 /\ p = a)
      <4>1. ~InCall(t, p)'
        <5>1. p # Null /\ call'[t].ptr = IF size = 0 THEN Null ELSE a
          BY <1>6
        <5>2. call'[t].ptr # p
          BY <1>3, <3>2, <5>1
        <5> QED BY <5>2 DEF InCall
      <4>2. u # t /\ InCall(u, p)
        BY <4>1, <1>6 DEF InCall
      <4>3. p \notin held /\ blocks[p] > 0 /\ \A v \in Threads \ {u} : ~InCall(v, p)
        BY <4>2 DEF CallOwnsBlock
      <4>4. blocks'[p] = blocks[p]
        BY <1>3, <1>4, <3>2
      <4>5. \A v \in Threads \ {u} : ~InCall(v, p)'
        BY <4>1, <4>3, <1>6 DEF InCall
      <4> QED BY <4>3, <4>4, <4>5
    <3> QED BY <3>1, <3>2
  <2>4. HeldIsMapped'
    BY <1>2, <1>3, <1>4, <1>5 DEF HeldIsMapped, counters, TypeOK
  <2>5. MappedIsHeld'
    <3>1. \A u \in Threads : pc[u] \in Counting => u # t
      BY <1>2 DEF Counting
    <3> QED BY <1>2, <1>6, <3>1 DEF MappedIsHeld, counters
  <2>6. NullMap' /\ NoFalseAlarm'
    BY <1>2, <1>6 DEF NullMap, NoFalseAlarm, counters
  <2> QED BY <2>1, <2>2, <2>3, <2>4, <2>5, <2>6
<1>9. Maxima'
  <2>1. /\ "count" \in Labels \ {"heap_size", "raise", "raise_heap"}
        /\ pc[t] \notin {"heap_size", "raise", "raise_heap"}
        /\ UNCHANGED <<raised, raised_heap, max_heap_size>>
    BY <1>2 DEF Labels, counters
  <2>2. heap_size' \in Nat
    BY <1>4
  <2> QED BY <1>2, <1>4, <2>1, <2>2, OutsideLoopsKeepsMaxima
<1> QED BY <1>7, <1>8, <1>9 DEF UInv

(* A held pointer goes into a call: the map has it, so that PreRealloc and  *)
(* PreRelease find it.                                                      *)
LEMMA ReallocPreserves ==
  ASSUME UInv, NEW t \in Threads, NEW p \in Addresses, NEW size \in Sizes, Realloc(t, p, size)
  PROVE  UInv'
<1> USE UtiltestAssumption
<1>1. /\ pc[t] = "idle" /\ p \in held /\ held' = held \ {p}
      /\ call' = [call EXCEPT ![t] = [op |-> "realloc", ptr |-> p, size |-> size]]
      /\ UNCHANGED <<blocks, heap_size, total_allocated_bytes, max_allocated_bytes, max_heap_size,
                     raised, raised_heap>>
  BY DEF Realloc, Begin
<1>2. size_map[p] # NotInMap /\ blocks[p] > 0
  BY <1>1 DEF UInv, Bookkeeping, HeldIsMapped
<1>3. /\ prev_size' = [prev_size EXCEPT ![t] = RoundUp(size_map[p])]
      /\ size_map' = [size_map EXCEPT ![p] = NotInMap]
      /\ pc' = [pc EXCEPT ![t] = "realloc"]
  BY <1>2 DEF Realloc, SizeMapWithout, Goto
<1>4. p \in Nat /\ size \in Nat /\ p # Null /\ p \in Pointers
  BY DEF Pointers
<1>5. /\ call'[t] = [op |-> "realloc", ptr |-> p, size |-> size] /\ pc'[t] = "realloc"
      /\ \A u \in Threads \ {t} : call'[u] = call[u] /\ pc'[u] = pc[u]
  BY <1>1, <1>3 DEF UInv, TypeOK
<1>6. /\ size_map'[p] = NotInMap
      /\ \A q \in Pointers \ {p} : size_map'[q] = size_map[q]
  BY <1>3, <1>4 DEF UInv, TypeOK
<1>7. TypeOK'
  <2>1. prev_size' \in [Threads -> Nat]
    <3>1. RoundUp(size_map[p]) \in Nat
      BY <1>2, <1>4, RoundUpIsNat DEF UInv, TypeOK
    <3> QED BY <1>3, <3>1 DEF UInv, TypeOK
  <2>2. call' \in [Threads -> [op : {"malloc", "realloc", "free"}, ptr : Pointers, size : Nat]]
    BY <1>1, <1>4 DEF UInv, TypeOK
  <2>3. size_map' \in [Pointers -> Nat \cup {NotInMap}]
    BY <1>3 DEF UInv, TypeOK
  <2> QED BY <1>1, <1>3, <2>1, <2>2, <2>3 DEF UInv, TypeOK, Labels
<1>8. Bookkeeping'
  <2> USE DEF UInv, Bookkeeping
  <2>1. CallShape'
    BY <1>4, <1>5 DEF CallShape
  <2>2. BlocksFit'
    BY <1>1 DEF BlocksFit
  <2>3. CallOwnsBlock'
    <3>1. \A u \in Threads : ~InCall(u, p)
      BY <1>1 DEF CallOwnsBlock
    <3>2. \A u \in Threads, q \in Addresses :
            InCall(u, q)' <=> (u = t /\ q = p) \/ (u # t /\ InCall(u, q))
      BY <1>5 DEF InCall
    <3> QED BY <1>1, <1>2, <3>1, <3>2 DEF CallOwnsBlock
  <2>4. HeldIsMapped'
    BY <1>1, <1>6 DEF HeldIsMapped, Pointers, TypeOK
  <2>5. MappedIsHeld'
    <3>1. \A u \in Threads : pc[u] \in Counting => u # t
      BY <1>1 DEF Counting
    <3> QED BY <1>1, <1>5, <1>6, <3>1 DEF MappedIsHeld, Pointers
  <2>6. NullMap' /\ NoFalseAlarm'
    <3>1. size_map'[Null] = size_map[Null]
      BY <1>4, <1>6 DEF Pointers
    <3> QED BY <1>5, <3>1 DEF NullMap, NoFalseAlarm
  <2> QED BY <2>1, <2>2, <2>3, <2>4, <2>5, <2>6
<1>9. Maxima'
  <2>1. /\ "realloc" \in Labels \ {"heap_size", "raise", "raise_heap"}
        /\ pc[t] \notin {"heap_size", "raise", "raise_heap"} /\ pc[t] # "count"
        /\ heap_size' = heap_size /\ heap_size' \in Nat /\ heap_size <= heap_size'
        /\ UNCHANGED <<raised, raised_heap, max_heap_size>>
    BY <1>1 DEF Labels, UInv, TypeOK
  <2> QED BY <1>3, <2>1, OutsideLoopsKeepsMaxima
<1> QED BY <1>7, <1>8, <1>9 DEF UInv

LEMMA FreePreserves ==
  ASSUME UInv, NEW t \in Threads, NEW p \in Addresses, Free(t, p)
  PROVE  UInv'
<1> USE UtiltestAssumption
<1>1. /\ pc[t] = "idle" /\ p \in held /\ held' = held \ {p}
      /\ call' = [call EXCEPT ![t] = [op |-> "free", ptr |-> p, size |-> 0]]
      /\ UNCHANGED <<blocks, heap_size, counters, raised, raised_heap>>
  BY DEF Free, Begin
<1>2. size_map[p] # NotInMap /\ blocks[p] > 0
  BY <1>1 DEF UInv, Bookkeeping, HeldIsMapped
<1>3. /\ prev_size' = [prev_size EXCEPT ![t] = RoundUp(size_map[p])]
      /\ pc' = [pc EXCEPT ![t] = "count"]
  BY <1>2 DEF Free, Goto
<1>4. p \in Nat /\ p # Null /\ p \in Pointers
  BY DEF Pointers
<1>5. /\ call'[t] = [op |-> "free", ptr |-> p, size |-> 0] /\ pc'[t] = "count"
      /\ \A u \in Threads \ {t} : call'[u] = call[u] /\ pc'[u] = pc[u]
  BY <1>1, <1>3 DEF UInv, TypeOK
<1>6. TypeOK'
  <2>1. prev_size' \in [Threads -> Nat]
    <3>1. RoundUp(size_map[p]) \in Nat
      BY <1>2, <1>4, RoundUpIsNat DEF UInv, TypeOK
    <3> QED BY <1>3, <3>1 DEF UInv, TypeOK
  <2>2. call' \in [Threads -> [op : {"malloc", "realloc", "free"}, ptr : Pointers, size : Nat]]
    BY <1>1, <1>4 DEF UInv, TypeOK
  <2> QED BY <1>1, <1>3, <2>1, <2>2 DEF UInv, TypeOK, Labels, counters
<1>7. Bookkeeping'
  <2> USE DEF UInv, Bookkeeping
  <2>1. CallShape'
    BY <1>4, <1>5 DEF CallShape
  <2>2. BlocksFit' /\ HeldIsMapped'
    BY <1>1 DEF BlocksFit, HeldIsMapped, counters
  <2>3. CallOwnsBlock'
    <3>1. \A u \in Threads : ~InCall(u, p)
      BY <1>1 DEF CallOwnsBlock
    <3>2. \A u \in Threads, q \in Addresses :
            InCall(u, q)' <=> (u = t /\ q = p) \/ (u # t /\ InCall(u, q))
      BY <1>5 DEF InCall
    <3> QED BY <1>1, <1>2, <3>1, <3>2 DEF CallOwnsBlock
  <2>4. MappedIsHeld'
    <3>1. \A u \in Threads : pc[u] \in Counting => u # t
      BY <1>1 DEF Counting
    <3>2. pc'[t] \in Counting /\ call'[t].op = "free" /\ call'[t].ptr = p
      BY <1>5 DEF Counting
    <3> QED BY <1>1, <1>5, <3>1, <3>2 DEF MappedIsHeld, counters
  <2>5. NullMap' /\ NoFalseAlarm'
    BY <1>1, <1>5 DEF NullMap, NoFalseAlarm, counters
  <2> QED BY <2>1, <2>2, <2>3, <2>4, <2>5
<1>8. Maxima'
  <2>1. /\ "count" \in Labels \ {"heap_size", "raise", "raise_heap"}
        /\ pc[t] \notin {"heap_size", "raise", "raise_heap"}
        /\ heap_size' = heap_size /\ heap_size' \in Nat /\ heap_size <= heap_size'
        /\ UNCHANGED <<raised, raised_heap, max_heap_size>>
    BY <1>1 DEF Labels, UInv, TypeOK, counters
  <2> QED BY <1>3, <2>1, OutsideLoopsKeepsMaxima
<1> QED BY <1>6, <1>7, <1>8 DEF UInv

(* A realloc gives its block up and gets one where there is room, possibly  *)
(* the same place: nobody else is at either.                                *)
LEMMA CallReallocPreserves ==
  ASSUME UInv, NEW t \in Threads, CallRealloc(t)
  PROVE  UInv'
<1> USE UtiltestAssumption
<1> DEFINE p == call[t].ptr
           size == call[t].size
           kept == [blocks EXCEPT ![p] = 0]
<1>1. /\ pc[t] = "realloc" /\ pc' = [pc EXCEPT ![t] = "count"]
      /\ UNCHANGED <<held, counters, prev_size, raised, raised_heap>>
  BY DEF CallRealloc, Goto
<1>2. PICK a \in Addresses :
        /\ size = 0 => a = 0
        /\ size > 0 => FreeAt(a, size) \/ (a = p /\ size <= blocks[p])
        /\ Place(kept, a, size)
        /\ call' = [call EXCEPT ![t].ptr = IF size = 0 THEN Null ELSE a]
  BY DEF CallRealloc
<1>3. /\ p \in Addresses /\ call[t].op = "realloc" /\ size \in Nat
      /\ call[t] \in [op : {"malloc", "realloc", "free"}, ptr : Pointers, size : Nat]
  BY <1>1 DEF UInv, Bookkeeping, CallShape, TypeOK
<1>4. /\ p \notin held /\ blocks[p] > 0 /\ p + blocks[p] <= HeapCells
      /\ \A u \in Threads \ {t} : ~InCall(u, p)
  BY <1>1, <1>3 DEF UInv, Bookkeeping, CallOwnsBlock, InCall, BlocksFit
<1> DEFINE new_ptr == IF size = 0 THEN Null ELSE a
<1>5. /\ call'[t] = [op |-> "realloc", ptr |-> new_ptr, size |-> size] /\ pc'[t] = "count"
      /\ \A u \in Threads \ {t} : call'[u] = call[u] /\ pc'[u] = pc[u]
  <2>1. call'[t] = [call[t] EXCEPT !.ptr = new_ptr]
    BY <1>2 DEF UInv, TypeOK
  <2>2. call'[t] = [op |-> "realloc", ptr |-> new_ptr, size |-> size]
    BY <1>3, <2>1
  <2>3. pc'[t] = "count" /\ \A u \in Threads \ {t} : call'[u] = call[u] /\ pc'[u] = pc[u]
    BY <1>1, <1>2 DEF UInv, TypeOK
  <2> QED BY <2>2, <2>3
<1> HIDE DEF p, size
<1>6. a + size <= HeapCells /\ a \in Nat /\ kept \in [Addresses -> 0..HeapCells]
      /\ kept[p] = 0 /\ \A q \in Addresses \ {p} : kept[q] = blocks[q]
  <2>1. a \in Nat /\ p \in Nat /\ HeapCells \in Nat /\ blocks \in [Addresses -> 0..HeapCells]
    BY <1>3 DEF UInv, TypeOK
  <2>2. a + size <= HeapCells
    <3>1. CASE size = 0
      BY <1>2, <2>1, <3>1
    <3>2. CASE size > 0 /\ FreeAt(a, size)
      BY <3>2 DEF FreeAt
    <3>3. CASE a = p /\ size <= blocks[p]
      <4>1. blocks[p] \in Nat
        BY <1>3, <2>1
      <4> QED BY <1>3, <1>4, <2>1, <3>3, <4>1
    <3> QED BY <1>2, <1>3, <3>1, <3>2, <3>3
  <2> QED BY <1>3, <2>1, <2>2
<1>7. size > 0 => kept[a] = 0 /\ (a = p \/ blocks[a] = 0)
  <2>1. CASE a = p
    BY <1>6, <2>1
  <2>2. CASE a # p /\ size > 0
    <3>1. FreeAt(a, size)
      BY <1>2, <2>2
    <3>2. blocks[a] = 0
      BY <1>3, <2>2, <3>1, FreeIsFree DEF UInv
    <3> QED BY <1>6, <2>2, <3>2
  <2> QED BY <2>1, <2>2
<1>8. /\ blocks' \in [Addresses -> 0..HeapCells]
      /\ heap_size' \in 0..HeapCells /\ heap_size <= heap_size'
      /\ size = 0 => blocks' = kept
      /\ size > 0 => blocks'[a] = size
      /\ \A q \in Addresses \ {a} : blocks'[q] = kept[q]
  <2> HIDE DEF kept
  <2> QED BY <1>2, <1>3, <1>6, PlaceEffect DEF UInv
<1> HIDE DEF kept
<1>9. TypeOK'
  <2>1. call' \in [Threads -> [op : {"malloc", "realloc", "free"}, ptr : Pointers, size : Nat]]
    <3>1. call'[t] \in [op : {"malloc", "realloc", "free"}, ptr : Pointers, size : Nat]
      BY <1>3, <1>5 DEF Pointers
    <3>2. call' = [call EXCEPT ![t] = call'[t]]
      BY <1>2, <1>5 DEF UInv, TypeOK
    <3> QED BY <3>1, <3>2 DEF UInv, TypeOK
  <2> QED BY <1>1, <1>8, <2>1 DEF UInv, TypeOK, Labels, counters
<1>10. Bookkeeping'
  <2> USE DEF UInv, Bookkeeping
  <2>1. CallShape'
    <3>1. /\ call'[t].op = "realloc" /\ pc'[t] = "count"
          /\ call'[t].ptr = Null => call'[t].size = 0
      <4>1. a # Null
        BY <1>6
      <4> QED BY <1>5, <4>1
    <3> QED BY <1>5, <3>1 DEF CallShape
  <2>2. BlocksFit'
    <3> SUFFICES ASSUME NEW q \in Addresses, blocks'[q] > 0
                 PROVE  q + blocks'[q] <= HeapCells
      BY DEF BlocksFit
    <3>1. CASE q = a /\ size > 0
      BY <1>6, <1>8, <3>1
    <3>2. CASE ~(q = a /\ size > 0)
      <4>1. blocks'[q] = kept[q]
        BY <1>3, <1>8, <3>2
      <4>2. q # p /\ blocks'[q] = blocks[q]
        BY <1>6, <3>2, <4>1
      <4> QED BY <4>2 DEF BlocksFit
    <3> QED BY <3>1, <3>2
  <2>3. CallOwnsBlock'
    <3> SUFFICES ASSUME NEW u \in Threads, NEW q \in Addresses, InCall(u, q)'
                 PROVE  /\ q \notin held /\ blocks'[q] > 0
                        /\ \A v \in Threads \ {u} : ~InCall(v, q)'
      BY <1>1 DEF CallOwnsBlock
    <3>1. CASE size > 0 /\ q = a
      <4>1. \A v \in Threads \ {t} : ~InCall(v, q)
        BY <1>4, <1>7, <3>1 DEF CallOwnsBlock
      <4>2. \A v \in Threads \ {t} : ~InCall(v, q)'
        BY <1>5, <4>1 DEF InCall
      <4>3. u = t
        BY <4>2
      <4>4. q \notin held
        BY <1>4, <1>7, <3>1 DEF HeldIsMapped
      <4> QED BY <1>8, <3>1, <4>2, <4>3, <4>4
    <3>2. CASE ~(size > 0 /\ q = a)
      <4>1. ~InCall(t, q)'
        <5>1. q # Null /\ call'[t].ptr = new_ptr
          BY <1>5
        <5>2. call'[t].ptr # q
          BY <1>3, <3>2, <5>1
        <5> QED BY <5>2 DEF InCall
      <4>2. u # t /\ InCall(u, q)
        BY <4>1, <1>5 DEF InCall
      <4>3. q \notin held /\ blocks[q] > 0 /\ \A v \in Threads \ {u} : ~InCall(v, q)
        BY <4>2 DEF CallOwnsBlock
      <4>4. q # p
        BY <1>4, <4>2
      <4>5. blocks'[q] = blocks[q]
        BY <1>3, <1>6, <1>8, <3>2, <4>4
      <4>6. \A v \in Threads \ {u} : ~InCall(v, q)'
        BY <4>1, <4>3, <1>5 DEF InCall
      <4> QED BY <4>3, <4>5, <4>6
    <3> QED BY <3>1, <3>2
  <2>4. HeldIsMapped'
    <3> SUFFICES ASSUME NEW q \in held PROVE blocks'[q] > 0 /\ size_map[q] # NotInMap
      BY <1>1 DEF HeldIsMapped, counters
    <3>1. q \in Addresses /\ blocks[q] > 0 /\ size_map[q] # NotInMap /\ q # p
      BY <1>4 DEF HeldIsMapped, TypeOK
    <3>2. blocks'[q] = blocks[q]
      BY <1>3, <1>6, <1>7, <1>8, <3>1
    <3> QED BY <3>1, <3>2
  <2>5. MappedIsHeld'
    <3>1. \A u \in Threads : pc[u] \in Counting => u # t
      BY <1>1 DEF Counting
    <3> QED BY <1>1, <1>5, <3>1 DEF MappedIsHeld, counters
  <2>6. NullMap' /\ NoFalseAlarm'
    BY <1>1, <1>5 DEF NullMap, NoFalseAlarm, counters
  <2> QED BY <2>1, <2>2, <2>3, <2>4, <2>5, <2>6
<1>11. Maxima'
  <2>1. /\ "count" \in Labels \ {"heap_size", "raise", "raise_heap"}
        /\ pc[t] \notin {"heap_size", "raise", "raise_heap"}
        /\ UNCHANGED <<raised, raised_heap, max_heap_size>>
    BY <1>1 DEF Labels, counters
  <2>2. heap_size' \in Nat
    BY <1>8
  <2> QED BY <1>1, <1>8, <2>1, <2>2, OutsideLoopsKeepsMaxima
<1> QED BY <1>9, <1>10, <1>11 DEF UInv

(* A new block has no entry: a held one cannot be where it is, and one that *)
(* is being freed loses its entry before the allocator hears of it.         *)
LEMMA RecordBlockPreserves ==
  ASSUME UInv, NEW t \in Threads, RecordBlock(t)
  PROVE  UInv'
<1> USE UtiltestAssumption
<1> DEFINE p == call[t].ptr
<1>1. /\ pc[t] = "record" /\ call[t].op # "free"
      /\ UNCHANGED <<blocks, heap_size, peak, total_allocated_bytes, max_allocated_bytes,
                     max_heap_size, raised, raised_heap, history>>
  BY DEF RecordBlock
<1>2. p \in Pointers /\ call[t].size \in Nat
  BY DEF UInv, TypeOK
<1>3. CASE size_map[p] # NotInMap
  <2>1. pc' = [pc EXCEPT ![t] = "failed"] /\ UNCHANGED <<size_map, held, call, prev_size>>
    BY <1>3 DEF RecordBlock, Goto
  <2>2. p = Null /\ size_map[Null] = 0
    <3>1. ASSUME p \in Addresses PROVE FALSE
      <4>1. p \notin held /\ \A u \in Threads \ {t} : ~InCall(u, p)
        BY <1>1, <3>1 DEF UInv, Bookkeeping, CallOwnsBlock, InCall
      <4>2. PICK u \in Threads : pc[u] \in Counting /\ call[u].op = "free" /\ call[u].ptr = p
        BY <1>3, <3>1, <4>1 DEF UInv, Bookkeeping, MappedIsHeld
      <4>3. u # t /\ InCall(u, p)
        BY <1>1, <4>2 DEF InCall, Counting
      <4> QED BY <4>1, <4>3
    <3>2. p = Null
      BY <1>2, <3>1 DEF Pointers
    <3> QED BY <1>3, <3>2 DEF UInv, Bookkeeping, NullMap
  <2>3. pc'[t] = "failed" /\ \A u \in Threads \ {t} : pc'[u] = pc[u]
    BY <2>1 DEF UInv, TypeOK
  <2>4. TypeOK'
    BY <1>1, <2>1 DEF UInv, TypeOK, Labels
  <2>5. Bookkeeping'
    <3> USE DEF UInv, Bookkeeping
    <3>1. CallShape'
      BY <1>1, <2>1, <2>3 DEF CallShape
    <3>2. BlocksFit' /\ HeldIsMapped' /\ NullMap'
      BY <1>1, <2>1 DEF BlocksFit, HeldIsMapped, NullMap
    <3>3. CallOwnsBlock'
      <4>1. \A u \in Threads, q \in Addresses : InCall(u, q)' <=> InCall(u, q)
        BY <1>1, <2>1, <2>3 DEF InCall
      <4> QED BY <1>1, <2>1, <4>1 DEF CallOwnsBlock
    <3>4. MappedIsHeld'
      <4>1. \A u \in Threads : call[u].op = "free" => u # t
        BY <1>1
      <4> QED BY <2>1, <2>3, <4>1 DEF MappedIsHeld
    <3>5. NoFalseAlarm'
      BY <1>1, <2>1, <2>2, <2>3 DEF NoFalseAlarm
    <3> QED BY <3>1, <3>2, <3>3, <3>4, <3>5
  <2>6. Maxima'
    <3>1. /\ "failed" \in Labels \ {"heap_size", "raise", "raise_heap"}
          /\ pc[t] \notin {"heap_size", "raise", "raise_heap"} /\ pc[t] # "count"
          /\ heap_size' = heap_size /\ heap_size' \in Nat /\ heap_size <= heap_size'
      BY <1>1 DEF Labels, UInv, TypeOK
    <3> QED BY <1>1, <2>1, <3>1, OutsideLoopsKeepsMaxima
  <2> QED BY <2>4, <2>5, <2>6 DEF UInv
<1>4. CASE size_map[p] = NotInMap
  <2>1. /\ size_map' = [size_map EXCEPT ![p] = call[t].size]
        /\ held' = held \cup ({p} \ {Null})
        /\ pc' = [pc EXCEPT ![t] = "idle"]
        /\ call' = [call EXCEPT ![t] = NoCall]
        /\ prev_size' = [prev_size EXCEPT ![t] = 0]
    BY <1>4 DEF RecordBlock, Return, Goto
  <2>2. /\ pc'[t] = "idle" /\ call'[t] = NoCall
        /\ \A u \in Threads \ {t} : pc'[u] = pc[u] /\ call'[u] = call[u]
        /\ size_map'[p] = call[t].size
        /\ \A q \in Pointers \ {p} : size_map'[q] = size_map[q]
    BY <1>2, <2>1 DEF UInv, TypeOK
  <2>3. TypeOK'
    <3>1. held' \subseteq Addresses
      BY <1>2, <2>1 DEF Pointers, UInv, TypeOK
    <3>2. NoCall \in [op : {"malloc", "realloc", "free"}, ptr : Pointers, size : Nat]
      BY DEF NoCall, Pointers
    <3>3. call' \in [Threads -> [op : {"malloc", "realloc", "free"}, ptr : Pointers, size : Nat]]
      BY <2>1, <3>2 DEF UInv, TypeOK
    <3>4. size_map' \in [Pointers -> Nat \cup {NotInMap}]
      BY <1>2, <2>1 DEF UInv, TypeOK
    <3> QED BY <1>1, <2>1, <3>1, <3>3, <3>4 DEF UInv, TypeOK, Labels
  <2>4. Bookkeeping'
    <3> USE DEF UInv, Bookkeeping
    <3>0. p \in Addresses => /\ p \notin held /\ blocks[p] > 0
                             /\ \A u \in Threads \ {t} : ~InCall(u, p)
      BY <1>1 DEF CallOwnsBlock, InCall
    <3>1. CallShape'
      BY <2>2 DEF CallShape, NoCall
    <3>2. BlocksFit'
      BY <1>1 DEF BlocksFit
    <3>3. CallOwnsBlock'
      <4> SUFFICES ASSUME NEW u \in Threads, NEW q \in Addresses, InCall(u, q)'
                   PROVE  /\ q \notin held' /\ blocks[q] > 0
                          /\ \A v \in Threads \ {u} : ~InCall(v, q)'
        BY <1>1 DEF CallOwnsBlock
      <4>1. \A v \in Threads : InCall(v, q)' <=> v # t /\ InCall(v, q)
        BY <2>2 DEF InCall
      <4>2. q # p
        BY <3>0, <4>1
      <4>3. q \notin held /\ blocks[q] > 0 /\ \A v \in Threads \ {u} : ~InCall(v, q)
        BY <4>1 DEF CallOwnsBlock
      <4> QED BY <2>1, <4>1, <4>2, <4>3
    <3>4. HeldIsMapped'
      <4> SUFFICES ASSUME NEW q \in held' PROVE blocks[q] > 0 /\ size_map'[q] # NotInMap
        BY <1>1 DEF HeldIsMapped
      <4>1. CASE q = p
        <5>1. p \in Addresses
          BY <1>2, <2>3, <4>1 DEF TypeOK
        <5>2. size_map'[q] \in Nat
          BY <1>2, <2>2, <4>1
        <5> QED BY <3>0, <4>1, <5>1, <5>2 DEF NotInMap
      <4>2. CASE q # p
        BY <2>1, <2>2, <4>2 DEF HeldIsMapped, Pointers, TypeOK
      <4> QED BY <4>1, <4>2
    <3>5. MappedIsHeld'
      <4> SUFFICES ASSUME NEW q \in Addresses, size_map'[q] # NotInMap
                   PROVE  \/ q \in held'
                          \/ \E u \in Threads : /\ pc'[u] \in Counting /\ call'[u].op = "free"
                                                /\ call'[u].ptr = q
        BY DEF MappedIsHeld
      <4>1. CASE q = p
        BY <2>1, <4>1
      <4>2. CASE q # p
        <5>1. size_map[q] # NotInMap
          BY <2>2, <4>2 DEF Pointers
        <5>2. \A u \in Threads : call[u].op = "free" => u # t
          BY <1>1
        <5>3. CASE q \in held
          BY <2>1, <5>3
        <5>4. ASSUME NEW u \in Threads,
                     pc[u] \in Counting, call[u].op = "free", call[u].ptr = q
              PROVE  pc'[u] \in Counting /\ call'[u].op = "free" /\ call'[u].ptr = q
          BY <2>2, <5>2, <5>4
        <5> QED BY <5>1, <5>3, <5>4 DEF MappedIsHeld
      <4> QED BY <4>1, <4>2
    <3>6. NullMap' /\ NoFalseAlarm'
      <4>1. CASE p = Null
        <5>1. call[t].size = 0
          BY <4>1 DEF CallShape
        <5>2. size_map'[Null] = 0
          BY <2>2, <4>1, <5>1
        <5> QED BY <2>2, <5>2 DEF NullMap, NoFalseAlarm
      <4>2. CASE p # Null
        <5>1. size_map'[Null] = size_map[Null]
          BY <2>2, <4>2 DEF Pointers
        <5> QED BY <2>2, <5>1 DEF NullMap, NoFalseAlarm
      <4> QED BY <4>1, <4>2
    <3> QED BY <3>1, <3>2, <3>3, <3>4, <3>5, <3>6
  <2>5. Maxima'
    <3>1. /\ "idle" \in Labels \ {"heap_size", "raise", "raise_heap"}
          /\ pc[t] \notin {"heap_size", "raise", "raise_heap"} /\ pc[t] # "count"
          /\ heap_size' = heap_size /\ heap_size' \in Nat /\ heap_size <= heap_size'
      BY <1>1 DEF Labels, UInv, TypeOK
    <3> QED BY <1>1, <2>1, <3>1, OutsideLoopsKeepsMaxima
  <2> QED BY <2>3, <2>4, <2>5 DEF UInv
<1> QED BY <1>3, <1>4

(* The entry goes while the block is still the caller's to the allocator.   *)
LEMMA EraseBlockPreserves ==
  ASSUME UInv, NEW t \in Threads, EraseBlock(t)
  PROVE  UInv'
<1> USE UtiltestAssumption
<1> DEFINE p == call[t].ptr
<1>1. /\ pc[t] = "record" /\ call[t].op = "free"
      /\ size_map' = [size_map EXCEPT ![p] = NotInMap]
      /\ pc' = [pc EXCEPT ![t] = "free"]
      /\ UNCHANGED <<allocator, total_allocated_bytes, max_allocated_bytes, max_heap_size, locals>>
  BY DEF EraseBlock, Goto
<1>2. p \in Addresses /\ p \in Pointers /\ p # Null
  BY <1>1 DEF UInv, Bookkeeping, CallShape, Pointers
<1>3. /\ p \notin held /\ \A u \in Threads \ {t} : ~InCall(u, p)
  BY <1>1, <1>2 DEF UInv, Bookkeeping, CallOwnsBlock, InCall
<1>4. /\ pc'[t] = "free" /\ \A u \in Threads \ {t} : pc'[u] = pc[u]
      /\ size_map'[p] = NotInMap /\ \A q \in Pointers \ {p} : size_map'[q] = size_map[q]
      /\ UNCHANGED <<blocks, heap_size, held, call, prev_size, raised, raised_heap>>
  BY <1>1, <1>2 DEF UInv, TypeOK, allocator, locals
<1>5. TypeOK'
  <2>1. size_map' \in [Pointers -> Nat \cup {NotInMap}]
    BY <1>1, <1>2 DEF UInv, TypeOK
  <2> QED BY <1>1, <1>4, <2>1 DEF UInv, TypeOK, Labels
<1>6. Bookkeeping'
  <2> USE DEF UInv, Bookkeeping
  <2>1. CallShape'
    BY <1>1, <1>4 DEF CallShape
  <2>2. BlocksFit'
    BY <1>4 DEF BlocksFit
  <2>3. CallOwnsBlock'
    <3>1. \A u \in Threads, q \in Addresses : InCall(u, q)' <=> InCall(u, q)
      BY <1>1, <1>4 DEF InCall
    <3> QED BY <1>4, <3>1 DEF CallOwnsBlock
  <2>4. HeldIsMapped'
    BY <1>3, <1>4 DEF HeldIsMapped, TypeOK, Pointers
  <2>5. MappedIsHeld'
    <3> SUFFICES ASSUME NEW q \in Addresses, size_map'[q] # NotInMap
                 PROVE  \/ q \in held
                        \/ \E u \in Threads : /\ pc'[u] \in Counting /\ call[u].op = "free"
                                              /\ call[u].ptr = q
      BY <1>4 DEF MappedIsHeld
    <3>1. q # p /\ size_map[q] # NotInMap
      BY <1>4 DEF Pointers
    <3>2. ASSUME NEW u \in Threads, pc[u] \in Counting, call[u].ptr = q
          PROVE  pc'[u] \in Counting
      BY <1>4, <3>1, <3>2
    <3> QED BY <3>1, <3>2 DEF MappedIsHeld
  <2>6. NullMap' /\ NoFalseAlarm'
    <3>1. size_map'[Null] = size_map[Null]
      BY <1>2, <1>4 DEF Pointers
    <3> QED BY <1>4, <3>1 DEF NullMap, NoFalseAlarm
  <2> QED BY <2>1, <2>2, <2>3, <2>4, <2>5, <2>6
<1>7. Maxima'
  <2>1. /\ "free" \in Labels \ {"heap_size", "raise", "raise_heap"}
        /\ pc[t] \notin {"heap_size", "raise", "raise_heap"} /\ pc[t] # "count"
        /\ heap_size' = heap_size /\ heap_size' \in Nat /\ heap_size <= heap_size'
    BY <1>1, <1>4 DEF Labels, UInv, TypeOK
  <2> QED BY <1>1, <1>4, <2>1, OutsideLoopsKeepsMaxima
<1> QED BY <1>5, <1>6, <1>7 DEF UInv

(* The allocator has the block back.                                        *)
LEMMA CallFreePreserves ==
  ASSUME UInv, NEW t \in Threads, CallFree(t)
  PROVE  UInv'
<1> USE UtiltestAssumption
<1> DEFINE p == call[t].ptr
<1>1. /\ pc[t] = "free"
      /\ blocks' = [blocks EXCEPT ![p] = 0]
      /\ pc' = [pc EXCEPT ![t] = "idle"]
      /\ call' = [call EXCEPT ![t] = NoCall]
      /\ prev_size' = [prev_size EXCEPT ![t] = 0]
      /\ UNCHANGED <<heap_size, held, counters, raised, raised_heap>>
  BY DEF CallFree, Return, Goto
<1>2. p \in Addresses /\ call[t].op = "free"
  BY <1>1 DEF UInv, Bookkeeping, CallShape
<1>3. /\ p \notin held /\ \A u \in Threads \ {t} : ~InCall(u, p)
  BY <1>1, <1>2 DEF UInv, Bookkeeping, CallOwnsBlock, InCall
<1>4. /\ pc'[t] = "idle" /\ call'[t] = NoCall
      /\ \A u \in Threads \ {t} : pc'[u] = pc[u] /\ call'[u] = call[u]
      /\ blocks'[p] = 0 /\ \A q \in Addresses \ {p} : blocks'[q] = blocks[q]
  BY <1>1, <1>2 DEF UInv, TypeOK
<1>5. TypeOK'
  <2>1. NoCall \in [op : {"malloc", "realloc", "free"}, ptr : Pointers, size : Nat]
    BY DEF NoCall, Pointers
  <2>2. call' \in [Threads -> [op : {"malloc", "realloc", "free"}, ptr : Pointers, size : Nat]]
    BY <1>1, <2>1 DEF UInv, TypeOK
  <2>3. blocks' \in [Addresses -> 0..HeapCells]
    <3>1. 0 \in 0..HeapCells /\ blocks \in [Addresses -> 0..HeapCells]
      BY DEF UInv, TypeOK
    <3> HIDE DEF p
    <3> QED BY <1>1, <3>1
  <2> QED BY <1>1, <2>2, <2>3 DEF UInv, TypeOK, Labels, counters
<1>6. Bookkeeping'
  <2> USE DEF UInv, Bookkeeping
  <2>1. CallShape'
    BY <1>4 DEF CallShape, NoCall
  <2>2. BlocksFit'
    <3> SUFFICES ASSUME NEW q \in Addresses, blocks'[q] > 0
                 PROVE  q + blocks'[q] <= HeapCells
      BY DEF BlocksFit
    <3>1. q # p /\ blocks'[q] = blocks[q]
      BY <1>4
    <3> QED BY <3>1 DEF BlocksFit
  <2>3. CallOwnsBlock'
    <3>1. \A u \in Threads, q \in Addresses : InCall(u, q)' <=> u # t /\ InCall(u, q)
      BY <1>4 DEF InCall
    <3> QED BY <1>1, <1>3, <1>4, <3>1 DEF CallOwnsBlock
  <2>4. HeldIsMapped'
    BY <1>1, <1>3, <1>4 DEF HeldIsMapped, TypeOK, counters
  <2>5. MappedIsHeld'
    <3>1. \A u \in Threads : pc[u] \in Counting => u # t
      BY <1>1 DEF Counting
    <3> QED BY <1>1, <1>4, <3>1 DEF MappedIsHeld, counters
  <2>6. NullMap' /\ NoFalseAlarm'
    BY <1>1, <1>4 DEF NullMap, NoFalseAlarm, counters
  <2> QED BY <2>1, <2>2, <2>3, <2>4, <2>5, <2>6
<1>7. Maxima'
  <2>1. /\ "idle" \in Labels \ {"heap_size", "raise", "raise_heap"}
        /\ pc[t] \notin {"heap_size", "raise", "raise_heap"} /\ pc[t] # "count"
        /\ heap_size' = heap_size /\ heap_size' \in Nat /\ heap_size <= heap_size'
        /\ UNCHANGED <<raised, raised_heap, max_heap_size>>
    BY <1>1 DEF Labels, UInv, TypeOK, counters
  <2> QED BY <1>1, <2>1, OutsideLoopsKeepsMaxima
<1> QED BY <1>5, <1>6, <1>7 DEF UInv

-----------------------------------------------------------------------------
(* Nothing is allocated, and nothing has been measured.                     *)
LEMMA InitUInv == Init => UInv
<1> USE UtiltestAssumption
<1> SUFFICES ASSUME Init PROVE UInv
  OBVIOUS
<1>1. TypeOK
  <2>1. NoCall \in [op : {"malloc", "realloc", "free"}, ptr : Pointers, size : Nat]
    BY DEF NoCall, Pointers
  <2> QED BY <2>1 DEF Init, TypeOK, Labels
<1>2. Bookkeeping
  <2>1. CallShape /\ BlocksFit /\ CallOwnsBlock /\ HeldIsMapped
    BY DEF Init, CallShape, BlocksFit, CallOwnsBlock, HeldIsMapped, InCall, NoCall
  <2>2. MappedIsHeld /\ NullMap /\ NoFalseAlarm
    BY DEF Init, MappedIsHeld, NullMap, NoFalseAlarm, Pointers
  <2> QED BY <2>1, <2>2 DEF Bookkeeping
<1>3. Maxima
  BY DEF Init, Maxima, RaiseShape, HeapNoticed
<1> QED BY <1>1, <1>2, <1>3 DEF UInv

LEMMA StutterPreserves ==
  ASSUME UInv, UNCHANGED vars
  PROVE  UInv'
<1>1. /\ UNCHANGED <<blocks, heap_size, held, total_allocated_bytes, max_allocated_bytes>>
      /\ UNCHANGED <<max_heap_size, size_map, pc, call, prev_size, raised, raised_heap>>
  BY DEF vars, allocator, counters, locals, history
<1>2. TypeOK'
  BY <1>1 DEF UInv, TypeOK
<1>3. (CallShape /\ BlocksFit /\ CallOwnsBlock /\ HeldIsMapped)'
  BY <1>1 DEF UInv, Bookkeeping, CallShape, BlocksFit, CallOwnsBlock, HeldIsMapped, InCall
<1>4. (MappedIsHeld /\ NullMap /\ NoFalseAlarm)'
  BY <1>1 DEF UInv, Bookkeeping, MappedIsHeld, NullMap, NoFalseAlarm
<1>5. Maxima'
  BY <1>1 DEF UInv, Maxima, RaiseShape, HeapNoticed
<1> QED BY <1>2, <1>3, <1>4, <1>5 DEF UInv, Bookkeeping

LEMMA NextUInv == UInv /\ [Next]_vars => UInv'
<1> SUFFICES ASSUME UInv, [Next]_vars PROVE UInv'
  OBVIOUS
<1>1. ASSUME NEW t \in Threads, NEW size \in Sizes, Malloc(t, size) PROVE UInv'
  BY <1>1, MallocPreserves
<1>2. ASSUME NEW t \in Threads, NEW p \in Addresses, NEW size \in Sizes, Realloc(t, p, size)
      PROVE  UInv'
  BY <1>2, ReallocPreserves
<1>3. ASSUME NEW t \in Threads, NEW p \in Addresses, Free(t, p) PROVE UInv'
  BY <1>3, FreePreserves
<1>4. ASSUME NEW t \in Threads, Continue(t) PROVE UInv'
  BY <1>4, CallReallocPreserves, CountPreserves, ReadHeapSizePreserves, RaiseMaxPreserves,
     RaiseMaxHeapPreserves, RecordBlockPreserves, EraseBlockPreserves, CallFreePreserves
  DEF Continue
<1>5. CASE UNCHANGED vars
  BY <1>5, StutterPreserves
<1> QED BY <1>1, <1>2, <1>3, <1>4, <1>5 DEF Next

LEMMA UInvAlways == Spec => []UInv
BY InitUInv, NextUInv, PTL DEF Spec

(* The counters and the locals of the hooks keep their types.               *)
THEOREM UtiltestTypeCorrect == Spec => []TypeOK
BY UInvAlways, PTL DEF UInv

(* PreRealloc, PreRelease and PostAlloc fail no replay of an allocator that *)
(* works, but for the second NULL: however the threads' calls overlap, the  *)
(* size map has what is freed and has not what is new.                      *)
THEOREM CorrectAllocatorPasses == Spec => []NoFalseAlarm
BY UInvAlways, PTL DEF UInv, Bookkeeping

(***************************************************************************)
(* When no call is in progress, the maximum that is reported for the heap  *)
(* is its size, whoever made it grow: RecomputeMax reads it after the call.*)
(***************************************************************************)
THEOREM HeapGrowthReported == Spec => [](AtRest => max_heap_size = heap_size)
<1>1. UInv => (AtRest => max_heap_size = heap_size)
  <2> SUFFICES ASSUME UInv, AtRest PROVE max_heap_size = heap_size
    OBVIOUS
  <2>1. \A t \in Threads : pc[t] = "idle" /\ raised_heap[t] = -1
    BY DEF UInv, Maxima, RaiseShape, AtRest, None
  <2>2. heap_size \in Nat /\ max_heap_size \in Nat
    BY UtiltestAssumption DEF UInv, TypeOK
  <2>3. heap_size <= max_heap_size
    BY <2>1, <2>2 DEF UInv, Maxima, HeapNoticed
  <2> QED BY <2>2, <2>3 DEF UInv, Maxima, HeapNoticed
<1> QED BY <1>1, UInvAlways, PTL

(***************************************************************************)
(* The maximum of the bytes is kept by MaxRegister: fetch_add's result is  *)
(* what a thread comes with, RaiseMax its exchange, and no other step      *)
(* touches the register or what threads bring to it.                       *)
(***************************************************************************)
LEMMA StepKeepsMax == UInv /\ [Next]_vars => [AllocatedMax!Next]_AllocatedMax!vars
<1> SUFFICES ASSUME UInv, [Next]_vars PROVE [AllocatedMax!Next]_AllocatedMax!vars
  OBVIOUS
<1>1. ASSUME NEW t \in Threads, Count(t) PROVE AllocatedMax!Next
  <2> DEFINE total == (total_allocated_bytes + Delta(t)) % WordMax
  <2>1. UInv'
    BY <1>1, CountPreserves
  <2>2. /\ raised' = [raised EXCEPT ![t] = total] /\ total_allocated_bytes' = total
        /\ totals' = totals \cup {total} /\ UNCHANGED max_allocated_bytes /\ pc[t] = "count"
    BY <1>1 DEF Count
  <2>3. total \in 0..(WordMax - 1)
    BY <2>1, <2>2 DEF UInv, TypeOK
  <2>4. raised[t] = None
    BY <2>2 DEF UInv, Maxima, RaiseShape
  <2> HIDE DEF total
  <2>5. AllocatedMax!Contribute(t, total)
    BY <2>2, <2>4 DEF AllocatedMax!Contribute, AllocatedMax!None, None
  <2> QED BY <2>3, <2>5 DEF AllocatedMax!Next
<1>2. ASSUME NEW t \in Threads, RaiseMax(t) PROVE AllocatedMax!Next
  <2>1. raised[t] # None
    <3>1. raised[t] \in 0..(WordMax - 1)
      BY <1>2 DEF RaiseMax, UInv, Maxima, RaiseShape
    <3> QED BY <3>1 DEF None
  <2>2. AllocatedMax!Exchange(t)
    BY <1>2, <2>1 DEF RaiseMax, history, AllocatedMax!Exchange, AllocatedMax!None, None
  <2> QED BY <2>2 DEF AllocatedMax!Next
<1>3. ASSUME NEW t \in Threads,
             \/ CallRealloc(t) \/ ReadHeapSize(t) \/ RaiseMaxHeap(t)
             \/ RecordBlock(t) \/ EraseBlock(t) \/ CallFree(t)
      PROVE  UNCHANGED AllocatedMax!vars
  BY <1>3 DEF CallRealloc, ReadHeapSize, RaiseMaxHeap, RecordBlock, EraseBlock, CallFree,
              counters, history, locals, AllocatedMax!vars
<1>4. ASSUME NEW t \in Threads,
             \/ \E size \in Sizes : Malloc(t, size) \/ \E p \in Addresses : Realloc(t, p, size)
             \/ \E p \in Addresses : Free(t, p)
      PROVE  UNCHANGED AllocatedMax!vars
  BY <1>4 DEF Malloc, Realloc, Free, counters, AllocatedMax!vars
<1>5. CASE UNCHANGED vars
  BY <1>5 DEF vars, counters, locals, history, AllocatedMax!vars
<1> QED BY <1>1, <1>2, <1>3, <1>4, <1>5 DEF Next, Continue

THEOREM BytesKeptByMaxRegister == Spec => KeepsAllocatedMax
<1>1. Init => AllocatedMax!Init
  BY DEF Init, AllocatedMax!Init, AllocatedMax!None, None
<1> QED BY <1>1, UInvAlways, StepKeepsMax, PTL DEF Spec, KeepsAllocatedMax, AllocatedMax!Spec

(***************************************************************************)
(* RecomputeMax's loop on its own: any threads, each exchanging what it    *)
(* came with until it no longer takes out something larger.                *)
(***************************************************************************)
MaxTypes ==
  /\ max_allocated_bytes \in Nat
  /\ raised \in [Threads -> Nat \cup {AllocatedMax!None}]
  /\ totals \subseteq Nat

(* Nothing is in the word or in a thread's hands but what a hook counted    *)
(* (and the initial 0).                                                     *)
NothingInvented ==
  /\ max_allocated_bytes \in totals \cup {0}
  /\ \A t \in Threads : raised[t] \in totals \cup {0, AllocatedMax!None}

MaxInv == MaxTypes /\ NothingInvented /\ AllocatedMax!NoValueLost

(* The word starts at 0, with nothing counted.                              *)
LEMMA InitMaxInv == AllocatedMax!Init => MaxInv
BY DEF AllocatedMax!Init, MaxInv, MaxTypes, NothingInvented, AllocatedMax!NoValueLost,
       AllocatedMax!None

(* A hook comes with the total its fetch_add left.                          *)
LEMMA ContributePreserves ==
  ASSUME MaxInv, NEW t \in Threads, NEW v \in 0..(WordMax - 1), AllocatedMax!Contribute(t, v)
  PROVE  MaxInv'
<1> USE DEF MaxInv, AllocatedMax!Contribute, AllocatedMax!None
<1> v \in Nat
  BY UtiltestAssumption
<1>1. MaxTypes'
  BY DEF MaxTypes
<1>2. NothingInvented'
  BY DEF MaxTypes, NothingInvented
<1>3. AllocatedMax!NoValueLost'
  <2> SUFFICES ASSUME NEW c \in totals'
               PROVE  c <= max_allocated_bytes' \/ \E u \in Threads : c <= raised'[u]
    BY DEF AllocatedMax!NoValueLost
  <2>1. CASE c = v
    BY <2>1 DEF MaxTypes
  <2>2. CASE c \in totals /\ c <= max_allocated_bytes
    BY <2>2
  <2>3. CASE c \in totals /\ \E u \in Threads : c <= raised[u]
    <3>1. PICK u \in Threads : c <= raised[u]
      BY <2>3
    <3>2. u # t
      BY <3>1, <2>3 DEF MaxTypes
    <3> QED BY <3>1, <3>2 DEF MaxTypes
  <2> QED BY <2>1, <2>2, <2>3 DEF AllocatedMax!NoValueLost
<1> QED BY <1>1, <1>2, <1>3

(* A hook exchanges: the smaller of the two values is covered by the        *)
(* larger, which the hook keeps or the word gets.                           *)
LEMMA ExchangePreserves ==
  ASSUME MaxInv, NEW t \in Threads, AllocatedMax!Exchange(t)
  PROVE  MaxInv'
<1> USE DEF MaxInv, AllocatedMax!Exchange, AllocatedMax!None
<1>1. MaxTypes'
  BY DEF MaxTypes
<1>2. NothingInvented'
  BY DEF MaxTypes, NothingInvented
<1>3. AllocatedMax!NoValueLost'
  <2> SUFFICES ASSUME NEW c \in totals
               PROVE  c <= max_allocated_bytes' \/ \E u \in Threads : c <= raised'[u]
    BY DEF AllocatedMax!NoValueLost
  <2>1. CASE c <= max_allocated_bytes
    <3>1. CASE max_allocated_bytes > raised[t]
      BY <2>1, <3>1 DEF MaxTypes
    <3>2. CASE ~(max_allocated_bytes > raised[t])
      BY <2>1, <3>2 DEF MaxTypes
    <3> QED BY <3>1, <3>2
  <2>2. CASE \E u \in Threads : c <= raised[u]
    <3>1. PICK u \in Threads : c <= raised[u]
      BY <2>2
    <3>2. CASE u = t
      BY <3>1, <3>2 DEF MaxTypes
    <3>3. CASE u # t
      BY <3>1, <3>3 DEF MaxTypes
    <3> QED BY <3>2, <3>3
  <2> QED BY <2>1, <2>2 DEF AllocatedMax!NoValueLost
<1> QED BY <1>1, <1>2, <1>3

LEMMA NextMaxInv == MaxInv /\ [AllocatedMax!Next]_AllocatedMax!vars => MaxInv'
<1> SUFFICES ASSUME MaxInv, [AllocatedMax!Next]_AllocatedMax!vars PROVE MaxInv'
  OBVIOUS
<1>1. CASE UNCHANGED AllocatedMax!vars
  BY <1>1 DEF AllocatedMax!vars, MaxInv, MaxTypes, NothingInvented, AllocatedMax!NoValueLost
<1> QED BY <1>1, ContributePreserves, ExchangePreserves DEF AllocatedMax!Next

LEMMA MaxInvMaximum == MaxInv => AllocatedMax!MaximumAtRest
<1> SUFFICES ASSUME MaxInv, \A t \in Threads : raised[t] = AllocatedMax!None
             PROVE  /\ \A c \in totals : c <= max_allocated_bytes
                    /\ max_allocated_bytes \in totals \cup {0}
  BY DEF AllocatedMax!MaximumAtRest
<1>1. ASSUME NEW c \in totals PROVE c <= max_allocated_bytes
  <2>1. c \in Nat
    BY DEF MaxInv, MaxTypes
  <2>2. ASSUME NEW t \in Threads PROVE ~(c <= raised[t])
    <3>1. raised[t] = -1
      BY DEF AllocatedMax!None
    <3> QED BY <2>1, <3>1
  <2> QED BY <2>2 DEF MaxInv, AllocatedMax!NoValueLost
<1> QED BY <1>1 DEF MaxInv, NothingInvented

(* RecomputeMax's exchanges never lose a total it was called with: what     *)
(* one takes out, its thread goes on to put back.                           *)
THEOREM ExchangeLoopLosesNothing == AllocatedMax!Spec => []AllocatedMax!NoValueLost
<1>1. MaxInv /\ [AllocatedMax!Next]_AllocatedMax!vars => MaxInv'
  BY NextMaxInv
<1> QED BY <1>1, InitMaxInv, PTL DEF AllocatedMax!Spec, MaxInv

(* When no thread is inside RecomputeMax, the word it exchanges is the      *)
(* maximum of the totals it was called with.                                *)
THEOREM ExchangeLoopKeepsMaximum == AllocatedMax!Spec => []AllocatedMax!MaximumAtRest
<1>1. MaxInv /\ [AllocatedMax!Next]_AllocatedMax!vars => MaxInv'
  BY NextMaxInv
<1> QED BY <1>1, InitMaxInv, MaxInvMaximum, PTL DEF AllocatedMax!Spec

(***************************************************************************)
(* At rest, what is reported for the bytes is the largest amount any hook  *)
(* counted: neither an exchange that takes out a larger value nor one that *)
(* overtakes another makes it smaller.                                     *)
(***************************************************************************)
LargestCountReported ==
  AtRest =>
    /\ \A total \in totals : total <= max_allocated_bytes
    /\ max_allocated_bytes \in totals \cup {0}

THEOREM LargestCountIsReported == Spec => []LargestCountReported
<1>1. UInv /\ AllocatedMax!MaximumAtRest => LargestCountReported
  <2> SUFFICES ASSUME UInv, AllocatedMax!MaximumAtRest, AtRest PROVE LargestCountReported
    BY DEF LargestCountReported
  <2>1. \A t \in Threads : raised[t] = None
    BY DEF UInv, Maxima, RaiseShape, AtRest
  <2> QED BY <2>1 DEF AllocatedMax!MaximumAtRest, AllocatedMax!None, None, LargestCountReported
<1> QED BY <1>1, BytesKeptByMaxRegister, ExchangeLoopKeepsMaximum, UInvAlways, PTL
        DEF KeepsAllocatedMax
=============================================================================
