------------------------ MODULE BumpAllocatorProofs ------------------------
(***************************************************************************)
(* For every set of threads and requests: the allocator only ever drives   *)
(* its heap through Heap's own steps, so that what is proved of sbrk holds *)
(* of the blocks it returns, and the mapping they were cut from is made    *)
(* once, whoever comes first.                                              *)
(***************************************************************************)
EXTENDS BumpAllocator, SequenceTheorems, TLAPS

(***************************************************************************)
(* The heap by itself: for every set of threads, heap size and set of      *)
(* increments, sbrk never hands a byte out twice and loses none.           *)
(***************************************************************************)

(* A thread about to exchange has checked the increment against the break   *)
(* it read.                                                                 *)
SwapsFit == \A t \in Threads : pc[t] = "swap" => Fits(t)

BelowBreak == \A i \in DOMAIN granted : EndOf(granted[i]) <= heap_end

(* The inductive invariant: the exchange appends a region that starts at    *)
(* the break, so RegionsDisjoint needs that all others end below it.        *)
IInv == TypeOK /\ SwapsFit /\ BelowBreak /\ RegionsDisjoint /\ BreakFollowsGrants

(* Heap's constructor leaves an empty heap.                                 *)
LEMMA InitIInv == Init => IInv
<1> SUFFICES ASSUME Init PROVE IInv
  OBVIOUS
<1> USE HeapAssumption DEF Init
<1>1. TypeOK
  BY DEF TypeOK
<1>2. granted = <<>> /\ DOMAIN granted = {}
  OBVIOUS
<1>3. SwapsFit
  BY DEF SwapsFit
<1> QED BY <1>1, <1>2, <1>3 DEF IInv, BelowBreak, RegionsDisjoint, BreakFollowsGrants

(* A successful exchange that is granted memory.                            *)
LEMMA SwapGrants ==
  ASSUME IInv, NEW t \in Threads, Swap(t), increment[t] # 0
  PROVE  IInv'
<1> DEFINE region == [start |-> old_heap_end[t], size |-> increment[t]]
           n == Len(granted)
<1> USE HeapAssumption
<1>1. /\ old_heap_end[t] \in Nat /\ increment[t] \in Nat
      /\ old_heap_end[t] = heap_end
      /\ heap_end + increment[t] \in 0..MaxSize
      /\ heap_end' = heap_end + increment[t]
  BY DEF IInv, TypeOK, SwapsFit, Fits, Swap
<1>2. /\ granted \in Seq([start : 0..MaxSize, size : 0..MaxSize])
      /\ region \in [start : 0..MaxSize, size : 0..MaxSize]
      /\ granted' = Append(granted, region)
  BY <1>1 DEF IInv, TypeOK, Swap, Grant
<1>3. /\ n \in Nat /\ DOMAIN granted = 1..n /\ DOMAIN granted' = 1..(n + 1)
      /\ Len(granted') = n + 1
      /\ granted'[n + 1] = region
      /\ \A i \in 1..n : granted'[i] = granted[i]
      /\ \A i \in 1..n : granted[i].start \in Nat /\ granted[i].size \in Nat
      /\ granted' # <<>>
  <2> DEFINE Regions == [start : 0..MaxSize, size : 0..MaxSize]
  <2> HIDE DEF region, n
  <2>1. n \in Nat /\ DOMAIN granted = 1..n
    BY <1>2 DEF n
  <2>2. \A i \in 1..n : granted[i] \in Regions
    BY <1>2, ElementOfSeq DEF n
  <2>3. \A i \in 1..n : granted[i].start \in Nat /\ granted[i].size \in Nat
    BY <2>2
  <2>4. /\ granted' \in Seq(Regions) /\ granted' # <<>>
        /\ Len(granted') = n + 1
        /\ \A i \in 1..n : granted'[i] = granted[i]
        /\ granted'[n + 1] = region
    BY <1>2, AppendProperties DEF n
  <2> QED BY <2>1, <2>3, <2>4
<1>4. EndOf(region) = heap_end' /\ region.start = heap_end
  BY <1>1 DEF EndOf
<1>5. TypeOK'
  BY <1>1, <1>2 DEF IInv, TypeOK, Swap, Leave, Goto
<1>6. SwapsFit'
  BY <1>1 DEF IInv, TypeOK, SwapsFit, Fits, Swap, Leave, Goto
<1>7. BelowBreak'
  <2> SUFFICES ASSUME NEW i \in 1..(n + 1) PROVE EndOf(granted'[i]) <= heap_end'
    BY <1>3 DEF BelowBreak, EndOf
  <2>1. CASE i = n + 1
    BY <2>1, <1>1, <1>3, <1>4
  <2>2. CASE i \in 1..n
    <3>1. EndOf(granted[i]) <= heap_end
      BY <2>2, <1>3 DEF IInv, BelowBreak
    <3>2. EndOf(granted[i]) \in Int /\ heap_end \in Int
      BY <2>2, <1>1, <1>3 DEF EndOf
    <3> QED BY <2>2, <3>1, <3>2, <1>1, <1>3
  <2> QED BY <2>1, <2>2, <1>3
<1>8. RegionsDisjoint'
  <2> SUFFICES ASSUME NEW i \in 1..(n + 1), NEW j \in 1..(n + 1), i < j
               PROVE  EndOf(granted'[i]) <= granted'[j].start
    BY <1>3 DEF RegionsDisjoint, EndOf
  <2>1. i \in 1..n
    BY <1>3
  <2>2. CASE j = n + 1
    BY <2>1, <2>2, <1>3, <1>4 DEF IInv, BelowBreak
  <2>3. CASE j \in 1..n
    BY <2>1, <2>3, <1>3 DEF IInv, RegionsDisjoint
  <2> QED BY <2>2, <2>3, <1>3
<1>9. BreakFollowsGrants'
  <2>1. heap_end' = EndOf(granted'[Len(granted')])
    BY <1>3, <1>4
  <2>2. ASSUME NEW i \in 1..(n + 1)
        PROVE  granted'[i].start = IF i = 1 THEN 0 ELSE EndOf(granted'[i - 1])
    <3>1. CASE i \in 1..n
      BY <3>1, <1>3 DEF IInv, BreakFollowsGrants
    <3>2. CASE i = n + 1 /\ n = 0
      BY <3>2, <1>2, <1>3, <1>4 DEF IInv, BreakFollowsGrants
    <3>3. CASE i = n + 1 /\ n # 0
      <4>1. granted # <<>> /\ n \in 1..n /\ i - 1 = n
        BY <3>3, <1>3
      <4>2. heap_end = EndOf(granted[n])
        BY <4>1 DEF IInv, BreakFollowsGrants
      <4>3. granted'[i].start = heap_end /\ EndOf(granted'[i - 1]) = EndOf(granted[n])
        BY <3>3, <4>1, <1>3, <1>4
      <4> QED BY <3>3, <4>2, <4>3
    <3> QED BY <3>1, <3>2, <3>3, <1>3
  <2> QED BY <2>1, <2>2, <1>3 DEF BreakFollowsGrants, EndOf
<1> QED BY <1>5, <1>6, <1>7, <1>8, <1>9 DEF IInv

(* sbrk(0) exchanges the break for itself.                                  *)
LEMMA SwapForNothing ==
  ASSUME IInv, NEW t \in Threads, Swap(t), increment[t] = 0
  PROVE  IInv'
<1> USE HeapAssumption
<1>1. heap_end' = heap_end /\ granted' = granted
  BY DEF IInv, TypeOK, Swap, Grant
<1>2. TypeOK'
  BY <1>1 DEF IInv, TypeOK, Swap, Leave, Goto
<1>3. SwapsFit'
  BY DEF IInv, TypeOK, SwapsFit, Fits, Swap, Leave, Goto
<1> QED BY <1>1, <1>2, <1>3 DEF IInv, BelowBreak, RegionsDisjoint, BreakFollowsGrants, EndOf

LEMMA SwapPreserves ==
  ASSUME IInv, NEW t \in Threads, Swap(t)
  PROVE  IInv'
BY SwapGrants, SwapForNothing

(* Steps that only move a thread within sbrk.                               *)
LEMMA CallPreserves ==
  ASSUME IInv, NEW t \in Threads, NEW inc \in Increments, Call(t, inc)
  PROVE  IInv'
<1> USE HeapAssumption DEF IInv, Call, Goto
<1>1. TypeOK'
  BY DEF TypeOK
<1>2. SwapsFit'
  BY DEF TypeOK, SwapsFit, Fits
<1> QED BY <1>1, <1>2 DEF BelowBreak, RegionsDisjoint, BreakFollowsGrants

LEMMA CheckPreserves ==
  ASSUME IInv, NEW t \in Threads, Check(t)
  PROVE  IInv'
<1> USE HeapAssumption DEF IInv, Check
<1>1. CASE Fits(t)
  <2> USE <1>1 DEF Goto
  <2>1. TypeOK'
    BY DEF TypeOK
  <2>2. SwapsFit'
    BY DEF TypeOK, SwapsFit, Fits
  <2> QED BY <2>1, <2>2 DEF BelowBreak, RegionsDisjoint, BreakFollowsGrants
<1>2. CASE ~Fits(t)
  <2> USE <1>2 DEF Leave, Goto
  <2>1. TypeOK'
    <3>1. 0 \in 0..MaxSize /\ 0 \in Nat
      OBVIOUS
    <3>2. /\ pc' \in [Threads -> {"idle", "check", "swap"}]
          /\ old_heap_end' \in [Threads -> 0..MaxSize]
          /\ increment' \in [Threads -> Nat]
      BY <3>1 DEF TypeOK
    <3> QED BY <3>2 DEF TypeOK
  <2>2. SwapsFit'
    BY DEF TypeOK, SwapsFit, Fits
  <2> QED BY <2>1, <2>2 DEF BelowBreak, RegionsDisjoint, BreakFollowsGrants
<1> QED BY <1>1, <1>2

LEMMA SwapFailsPreserves ==
  ASSUME IInv, NEW t \in Threads, SwapFails(t)
  PROVE  IInv'
<1> USE HeapAssumption DEF IInv, SwapFails, Goto
<1>1. TypeOK'
  BY DEF TypeOK
<1>2. SwapsFit'
  BY DEF TypeOK, SwapsFit, Fits
<1> QED BY <1>1, <1>2 DEF BelowBreak, RegionsDisjoint, BreakFollowsGrants

(* Reset while threads are inside sbrk.                                     *)
LEMMA ResetPreserves ==
  ASSUME IInv, Reset
  PROVE  IInv'
<1> USE HeapAssumption DEF IInv, Reset
<1>1. granted' = <<>> /\ DOMAIN granted' = {}
  OBVIOUS
<1>2. TypeOK'
  BY DEF TypeOK
<1>3. SwapsFit'
  BY DEF SwapsFit, Fits
<1> QED BY <1>1, <1>2, <1>3 DEF BelowBreak, RegionsDisjoint, BreakFollowsGrants

(* Every step of every thread.                                              *)
LEMMA NextIInv == IInv /\ [Next]_vars => IInv'
<1> SUFFICES ASSUME IInv, [Next]_vars PROVE IInv'
  OBVIOUS
<1>1. ASSUME NEW t \in Threads, NEW inc \in Increments, Call(t, inc) PROVE IInv'
  BY <1>1, CallPreserves
<1>2. ASSUME NEW t \in Threads, Check(t) PROVE IInv'
  BY <1>2, CheckPreserves
<1>3. ASSUME NEW t \in Threads, Swap(t) PROVE IInv'
  BY <1>3, SwapPreserves
<1>4. ASSUME NEW t \in Threads, SwapFails(t) PROVE IInv'
  BY <1>4, SwapFailsPreserves
<1>5. CASE Reset
  BY <1>5, ResetPreserves
<1>6. CASE UNCHANGED vars
  BY <1>6 DEF vars, IInv, TypeOK, SwapsFit, Fits, BelowBreak, RegionsDisjoint, BreakFollowsGrants
<1> QED BY <1>1, <1>2, <1>3, <1>4, <1>5, <1>6 DEF Next, Sbrk

LEMMA IInvAlways == Spec => []IInv
BY InitIInv, NextIInv, PTL DEF Spec

-----------------------------------------------------------------------------
(* The break stays within the memory the heap was given.                    *)
THEOREM HeapTypeCorrect == Spec => []TypeOK
BY IInvAlways, PTL DEF IInv

(* Two calls of sbrk are never given a common byte.                         *)
THEOREM SbrkRegionsDisjoint == Spec => []RegionsDisjoint
BY IInvAlways, PTL DEF IInv

(* The regions sbrk returned tile the heap up to its break.                 *)
THEOREM BreakIsWhatWasGranted == Spec => []BreakFollowsGrants
BY IInvAlways, PTL DEF IInv

-----------------------------------------------------------------------------
(***************************************************************************)
(* The allocator on it.                                                    *)
(***************************************************************************)

Locked == {"retest", "emplace", "publish", "unlock"}
Stages == {"out", "test", "lock", "allocate", "sbrk"} \cup Locked

MallocTypeOK ==
  /\ stage \in [Threads -> Stages]
  /\ g_heap \in Nat
  /\ mapping \in Nat
  /\ DOMAIN request = Threads
  /\ \A t \in Threads : stage[t] # "out" => request[t] \in Requests

(* The lock's owner alone is between the locking and the unlocking.         *)
LockHeld == \A t \in Threads : stage[t] \in Locked => g_lock = t

(* What each stage of the initialization knows about the heap.              *)
MakingHeap ==
  \A t \in Threads :
    /\ stage[t] = "emplace" => g_heap = 0 /\ mapping = 0
    /\ stage[t] = "publish" => g_heap = 0 /\ mapping > 0
    /\ stage[t] \in {"unlock", "allocate", "sbrk"} => g_heap > 0

(* A heap that is not published yet is being made, and no block is cut from *)
(* it; one that is published is the one that is mapped.                     *)
Published ==
  /\ g_heap > 0 => g_heap = mapping
  /\ g_heap = 0 /\ mapping > 0 => \E t \in Threads : stage[t] = "publish"
  /\ \A block \in blocks : g_heap > 0 /\ block.mapping = mapping

(* The inductive invariant: that nobody is at "emplace" once there is a     *)
(* heap follows from the second test being made by the owner of the lock.   *)
MallocInv == MallocTypeOK /\ LockHeld /\ MakingHeap /\ Published

LEMMA InitMallocInv == BumpInit => MallocInv
  BY DEF BumpInit, MallocInv, MallocTypeOK, LockHeld, MakingHeap, Published, Stages, Locked

(* Any thread's step in malloc, and its call.                               *)
LEMMA StepMallocInv ==
  ASSUME MallocInv, NEW t \in Threads,
         (\E r \in Requests : Request(t, r)) \/ Malloc(t)
  PROVE  MallocInv'
<1> USE DEF MallocInv, MallocTypeOK, LockHeld, MakingHeap, Published, Stages, Locked, Enter, Return
<1>1. CASE \E r \in Requests : Request(t, r)
  BY <1>1 DEF Request
<1>2. CASE Test(t)
  BY <1>2 DEF Test
<1>3. CASE Lock(t)
  BY <1>3, BumpAssumption DEF Lock
<1>4. CASE Retest(t)
  BY <1>4 DEF Retest
<1>5. CASE Emplace(t)
  BY <1>5 DEF Emplace
<1>6. CASE MapFails(t)
  BY <1>6 DEF MapFails
<1>7. CASE Publish(t)
  BY <1>7 DEF Publish
<1>8. CASE Unlock(t)
  BY <1>8 DEF Unlock
<1>9. CASE AnswerNull(t)
  BY <1>9 DEF AnswerNull
<1>10. CASE CallSbrk(t)
  BY <1>10 DEF CallSbrk
<1>11. CASE InSbrk(t)
  BY <1>11 DEF InSbrk
<1> QED
  BY <1>1, <1>2, <1>3, <1>4, <1>5, <1>6, <1>7, <1>8, <1>9, <1>10, <1>11 DEF Malloc

LEMMA InitializeMallocInv == MallocInv /\ InitializeHeap => MallocInv'
  BY DEF MallocInv, MallocTypeOK, LockHeld, MakingHeap, Published, Stages, Locked,
         InitializeHeap

LEMMA NextMallocInv == MallocInv /\ [BumpNext]_allVars => MallocInv'
<1> SUFFICES ASSUME MallocInv, [BumpNext]_allVars PROVE MallocInv'
  OBVIOUS
<1>1. CASE InitializeHeap
  BY <1>1, InitializeMallocInv
<1>2. CASE \E t \in Threads : (\E r \in Requests : Request(t, r)) \/ Malloc(t)
  BY <1>2, StepMallocInv
<1>3. CASE UNCHANGED allVars
  BY <1>3 DEF MallocInv, MallocTypeOK, LockHeld, MakingHeap, Published, allVars, malloc_vars
<1> QED BY <1>1, <1>2, <1>3 DEF BumpNext

(* A thread's step in malloc is a step of sbrk or leaves the heap alone.    *)
LEMMA MallocStepsHeap ==
  ASSUME MallocInv, NEW t \in Threads, Malloc(t)
  PROVE  [Next]_vars
<1>1. CASE CallSbrk(t)
  <2> DEFINE inc == SbrkArgument(request[t])
  <2>1. request[t] \in Requests
    BY <1>1 DEF CallSbrk, MallocInv, MallocTypeOK
  <2>2. inc \in Increments
    BY <2>1, BumpAssumption
  <2>3. Call(t, inc)
    BY <1>1 DEF CallSbrk
  <2> HIDE DEF inc
  <2> QED BY <2>2, <2>3 DEF Next
<1>2. CASE InSbrk(t)
  BY <1>2 DEF InSbrk, Next, Sbrk
<1> QED
  BY <1>1, <1>2
  DEF Malloc, Test, Lock, Retest, Emplace, MapFails, Publish, Unlock, AnswerNull

(* The allocator implements the heap's specification: a step of it that     *)
(* changes the heap is one of Heap's, and the others leave the heap alone.  *)
THEOREM BumpImplementsHeap == BumpSpec => Spec
<1>1. BumpInit => Init
  BY DEF BumpInit
<1>2. MallocInv /\ [BumpNext]_allVars => [Next]_vars
  <2> SUFFICES ASSUME MallocInv, [BumpNext]_allVars PROVE [Next]_vars
    OBVIOUS
  <2>1. CASE InitializeHeap
    BY <2>1 DEF InitializeHeap, Next
  <2>2. ASSUME NEW t \in Threads, (\E r \in Requests : Request(t, r)) \/ Malloc(t)
        PROVE [Next]_vars
    BY <2>2, MallocStepsHeap DEF Request
  <2>3. CASE UNCHANGED allVars
    BY <2>3 DEF allVars
  <2> QED BY <2>1, <2>2, <2>3 DEF BumpNext
<1> QED BY <1>1, <1>2, InitMallocInv, NextMallocInv, PTL DEF BumpSpec, Spec

(* A block that an exchange has made room for ends in the mapping, as the   *)
(* sum was checked against the break that the exchange found unchanged.     *)
BlocksFit == \A block \in blocks : block.start + block.size <= MaxSize

LEMMA InSbrkBlocksFit ==
  ASSUME IInv, BlocksFit, NEW t \in Threads, InSbrk(t)
  PROVE  BlocksFit'
<1>1. CASE Swap(t)
  <2>1. pc[t] = "swap" /\ old_heap_end[t] + increment[t] <= MaxSize
    BY <1>1 DEF Swap, IInv, SwapsFit, Fits
  <2> QED BY <1>1, <2>1 DEF InSbrk, BlocksFit, Swap, Check, SwapFails
<1>2. CASE UNCHANGED blocks
  BY <1>2 DEF BlocksFit
<1> QED BY <1>1, <1>2 DEF InSbrk

LEMMA NextBlocksFit == IInv /\ BlocksFit /\ [BumpNext]_allVars => BlocksFit'
<1> SUFFICES ASSUME IInv, BlocksFit, [BumpNext]_allVars PROVE BlocksFit'
  OBVIOUS
<1>1. CASE InitializeHeap
  BY <1>1 DEF InitializeHeap, BlocksFit
<1>2. ASSUME NEW t \in Threads, Malloc(t) PROVE BlocksFit'
  BY <1>2, InSbrkBlocksFit
  DEF Malloc, Test, Lock, Retest, Emplace, MapFails, Publish, Unlock, AnswerNull, CallSbrk,
      BlocksFit
<1>3. CASE UNCHANGED blocks
  BY <1>3 DEF BlocksFit
<1> QED BY <1>1, <1>2, <1>3 DEF BumpNext, Request, allVars, malloc_vars

(* All pointers returned lie within memory that is mapped: the first calls  *)
(* of any number of threads make one heap, nobody is in sbrk without, and   *)
(* no block goes past its end (malloc's two tests of g_heap and its lock,   *)
(* and sbrk's test of the sum).                                             *)
THEOREM HeapMadeOnce == BumpSpec => []BlocksStayMapped
<1>1. BumpInit => BlocksFit
  BY DEF BumpInit, BlocksFit
<1>2. BumpSpec => []IInv
  BY BumpImplementsHeap, IInvAlways, PTL
<1>3. MallocInv /\ BlocksFit => BlocksStayMapped
  BY DEF MallocInv, MallocTypeOK, MakingHeap, Published, BlocksFit, BlocksStayMapped
<1> QED
  BY InitMallocInv, NextMallocInv, NextBlocksFit, <1>1, <1>2, <1>3, PTL DEF BumpSpec

(* No byte is in two of the blocks the bump allocator returns: bench::malloc*)
(* from any number of threads, whatever sizes wrap around.                  *)
THEOREM BlocksFromSbrkDisjoint == BumpSpec => []RegionsDisjoint
  BY BumpImplementsHeap, SbrkRegionsDisjoint, PTL

-----------------------------------------------------------------------------
(* A thread in sbrk asks it for its request, a block is the answer to one.  *)
InSbrkForRequest ==
  \A t \in Threads : stage[t] = "sbrk" =>
    increment[t] = SbrkArgument(request[t]) /\ increment[t] >= 0

BlocksAnswerRequests ==
  \A block \in blocks :
    /\ block.request \in Requests
    /\ block.size = SbrkArgument(block.request)
    /\ block.size >= 0

LEMMA ModuloBelow ==
  ASSUME NEW a \in Nat, NEW n \in Nat \ {0}, a < n
  PROVE  a % n = a
OBVIOUS

LEMMA ProductIsNat ==
  ASSUME NEW m \in Nat, NEW n \in Nat
  PROVE  m * n \in Nat
OBVIOUS

LEMMA RoundUpCovers ==
  ASSUME NEW size \in Nat, size + Align - 1 < WordSize
  PROVE  /\ RoundUp(size) \in Nat
         /\ size <= RoundUp(size)
         /\ RoundUp(size) < WordSize
<1> DEFINE sum == size + Align - 1
<1>1. /\ sum \in Nat /\ sum < WordSize
      /\ Align \in Nat \ {0} /\ WordSize \in Nat \ {0}
  <2>1. Align \in Nat \ {0} /\ WordSize \in Nat \ {0}
    BY BumpAssumption
  <2> QED BY <2>1
<1>2. sum % WordSize = sum
  BY <1>1, ModuloBelow
<1>3. sum % Align \in 0..(Align - 1)
  BY <1>1
<1>4. RoundUp(size) = sum - (sum % Align)
  BY <1>2 DEF RoundUp
<1> HIDE DEF sum
<1>5. sum = size + Align - 1
  BY DEF sum
<1> QED BY <1>1, <1>3, <1>4, <1>5

(* Clearing the bit takes no more away than there is.                       *)
LEMMA PvallocSizeIsNat ==
  ASSUME NEW size \in Nat
  PROVE  PvallocSize(size) \in Nat
<1> DEFINE sum == (size + PageSize - 1) % WordSize
<1>1. sum \in Nat /\ PageSize \in Nat \ {0}
  <2>1. PageSize \in Nat \ {0} /\ WordSize \in Nat \ {0}
    BY BumpAssumption
  <2> QED BY <2>1
<1>2. PvallocSize(size) = IF (sum \div PageSize) % 2 = 1 THEN sum - PageSize ELSE sum
  BY DEF PvallocSize
<1> HIDE DEF sum
<1>3. CASE sum < PageSize
  <2>1. sum \div PageSize = 0
    BY <1>1, <1>3
  <2> QED BY <1>1, <1>2, <2>1
<1>4. CASE sum >= PageSize
  BY <1>1, <1>2, <1>4
<1> QED BY <1>1, <1>3, <1>4

LEMMA SizeArgumentCovers ==
  ASSUME NEW r \in Requests, ~Wraps(r), PassesItsSize(r)
  PROVE  /\ SizeArgument(r) \in Nat
         /\ Asked(r) <= SizeArgument(r)
         /\ SizeArgument(r) + Align - 1 < WordSize
<1>1. /\ r.fn \in {"malloc", "calloc", "aligned new", "pvalloc"}
      /\ r.size \in Nat /\ r.align \in Nat /\ r.nmemb \in Nat
      /\ WordSize \in Nat \ {0} /\ Align \in Nat \ {0}
  BY BumpAssumption
<1>2. SizeArgument(r) \in Nat /\ Asked(r) <= SizeArgument(r)
  <2>1. CASE r.fn = "malloc"
    BY <1>1, <2>1 DEF SizeArgument, Asked
  <2>2. CASE r.fn = "calloc"
    <3> DEFINE product == r.nmemb * r.size
    <3>1. product \in Nat
      BY <1>1, ProductIsNat
    <3>2. Asked(r) = product /\ SizeArgument(r) = product % WordSize
      BY <2>2 DEF Asked, SizeArgument
    <3> HIDE DEF product
    <3>3. product < WordSize
      <4>1. ~(product + Align - 1 >= WordSize)
        BY <3>2 DEF Wraps
      <4>2. Align \in Nat \ {0} /\ WordSize \in Nat \ {0}
        BY <1>1
      <4> QED BY <4>1, <4>2, <3>1
    <3>4. product % WordSize = product
      BY <1>1, <3>1, <3>3, ModuloBelow
    <3> QED BY <3>1, <3>2, <3>4
  <2>3. CASE r.fn = "aligned new"
    BY <1>1, <2>3 DEF PassesItsSize, SizeArgument, Asked
  <2>4. CASE r.fn = "pvalloc"
    BY <1>1, <2>4, PvallocSizeIsNat DEF PassesItsSize, SizeArgument, Asked
  <2> QED BY <1>1, <2>1, <2>2, <2>3, <2>4
<1>3. ~(SizeArgument(r) + Align - 1 >= WordSize)
  BY DEF Wraps
<1>4. Align \in Nat /\ WordSize \in Nat
  BY <1>1
<1> DEFINE size == SizeArgument(r)
<1> HIDE DEF size
<1>5. size \in Nat /\ ~(size + Align - 1 >= WordSize)
  BY <1>2, <1>3 DEF size
<1>6. size + Align - 1 < WordSize
  BY <1>4, <1>5
<1> QED BY <1>2, <1>6 DEF size

(* What sbrk grants without refusing a negative number covers the request.  *)
LEMMA SbrkArgumentCovers ==
  ASSUME NEW r \in Requests, ~Wraps(r), PassesItsSize(r), SbrkArgument(r) >= 0
  PROVE  Asked(r) <= SbrkArgument(r)
<1> DEFINE size == SizeArgument(r)
           rounded == RoundUp(size)
<1>1. size \in Nat /\ Asked(r) <= size /\ size + Align - 1 < WordSize
  BY SizeArgumentCovers
<1>2. rounded \in Nat /\ size <= rounded /\ rounded < WordSize /\ WordSize \in Nat
  BY <1>1, RoundUpCovers, BumpAssumption
<1>3. Asked(r) \in Nat
  BY BumpAssumption, ProductIsNat DEF Asked
<1>4. SbrkArgument(r) = IF rounded < WordSize \div 2 THEN rounded ELSE rounded - WordSize
  BY DEF SbrkArgument, Signed
<1> HIDE DEF size, rounded
<1>5. SbrkArgument(r) = rounded
  BY <1>2, <1>4
<1> QED BY <1>1, <1>2, <1>3, <1>5

LEMMA MallocBlocksAnswer ==
  ASSUME IInv, MallocInv, InSbrkForRequest, BlocksAnswerRequests,
         NEW t \in Threads, (\E r \in Requests : Request(t, r)) \/ Malloc(t)
  PROVE  InSbrkForRequest' /\ BlocksAnswerRequests'
<1> USE DEF InSbrkForRequest, Enter, Return
<1>0. /\ stage \in [Threads -> Stages] /\ DOMAIN request = Threads
      /\ increment \in [Threads -> Int]
  BY HeapAssumption DEF MallocInv, MallocTypeOK, IInv, TypeOK
<1>1. CASE UNCHANGED <<increment, blocks>> /\ stage[t] # "sbrk" /\ stage'[t] # "sbrk"
           /\ ((\E r \in Requests : Request(t, r)) \/ ~InSbrk(t))
  <2>1. \A u \in Threads \ {t} : stage'[u] = stage[u] /\ request'[u] = request[u]
    BY <1>0, <1>1 DEF Request, Malloc, Test, Lock, Retest, Emplace, MapFails, Publish,
                      Unlock, AnswerNull, CallSbrk
  <2> QED BY <1>1, <2>1 DEF BlocksAnswerRequests
<1>2. CASE CallSbrk(t)
  <2>1. /\ increment' = [increment EXCEPT ![t] = SbrkArgument(request[t])]
        /\ SbrkArgument(request[t]) >= 0
        /\ stage' = [stage EXCEPT ![t] = "sbrk"] /\ UNCHANGED <<request, blocks>>
    BY <1>2 DEF CallSbrk, Call
  <2>2. \A u \in Threads \ {t} : stage'[u] = stage[u] /\ increment'[u] = increment[u]
    BY <1>0, <2>1
  <2>3. increment'[t] = SbrkArgument(request[t])
    BY <1>0, <2>1
  <2> QED BY <2>1, <2>2, <2>3 DEF BlocksAnswerRequests
<1>3. CASE InSbrk(t)
  <2>1. /\ stage[t] = "sbrk"
        /\ \A u \in Threads \ {t} : increment'[u] = increment[u]
        /\ stage'[t] = "sbrk" => increment'[t] = increment[t]
    BY <1>0, <1>3 DEF InSbrk, Check, Swap, SwapFails, Leave, Goto
  <2>2. \/ UNCHANGED <<stage, request>>
        \/ stage' = [stage EXCEPT ![t] = "out"] /\ request' = [request EXCEPT ![t] = NoRequest]
    BY <1>3 DEF InSbrk
  <2>3. InSbrkForRequest'
    BY <1>0, <2>1, <2>2
  <2>4. request[t] \in Requests
    BY <2>1 DEF MallocInv, MallocTypeOK
  <2>5. \A block \in blocks' : \/ block \in blocks
                               \/ /\ block.request = request[t]
                                  /\ block.size = increment[t]
    BY <1>3 DEF InSbrk
  <2>6. BlocksAnswerRequests'
    BY <2>1, <2>4, <2>5 DEF BlocksAnswerRequests
  <2> QED BY <2>3, <2>6
<1>4. CASE \E r \in Requests : Request(t, r)
  BY <1>0, <1>1, <1>4 DEF Request, vars
<1>5. CASE Test(t) \/ Lock(t) \/ Retest(t) \/ Emplace(t) \/ MapFails(t)
  BY <1>0, <1>1, <1>5 DEF Test, Lock, Retest, Emplace, MapFails, InSbrk, vars
<1>6. CASE Publish(t) \/ Unlock(t) \/ AnswerNull(t)
  BY <1>0, <1>1, <1>6 DEF Publish, Unlock, AnswerNull, InSbrk, vars
<1> QED BY <1>2, <1>3, <1>4, <1>5, <1>6 DEF Malloc

LEMMA NextBlocksAnswer ==
  IInv /\ MallocInv /\ InSbrkForRequest /\ BlocksAnswerRequests /\ [BumpNext]_allVars
    => InSbrkForRequest' /\ BlocksAnswerRequests'
<1> SUFFICES ASSUME IInv, MallocInv, InSbrkForRequest, BlocksAnswerRequests,
                    [BumpNext]_allVars
             PROVE  InSbrkForRequest' /\ BlocksAnswerRequests'
  OBVIOUS
<1>1. CASE InitializeHeap
  BY <1>1 DEF InitializeHeap, Reset, InSbrkForRequest, BlocksAnswerRequests
<1>2. CASE \E t \in Threads : (\E r \in Requests : Request(t, r)) \/ Malloc(t)
  BY <1>2, MallocBlocksAnswer
<1>3. CASE UNCHANGED allVars
  BY <1>3 DEF allVars, malloc_vars, vars, InSbrkForRequest, BlocksAnswerRequests
<1> QED BY <1>1, <1>2, <1>3 DEF BumpNext

(* A block can be written to in full: what bench::malloc returns is as large*)
(* as the request, for any sizes and from any number of threads, if neither *)
(* the product nor the rounding wraps and, for an aligned new and pvalloc,  *)
(* if the symbol passes on no less than the request's size.                 *)
THEOREM BlocksAreLargeEnough == BumpSpec => []BlocksHoldRequests
<1>1. BumpInit => InSbrkForRequest /\ BlocksAnswerRequests
  BY DEF BumpInit, InSbrkForRequest, BlocksAnswerRequests
<1>2. BumpSpec => []IInv
  BY BumpImplementsHeap, IInvAlways, PTL
<1>3. BlocksAnswerRequests => BlocksHoldRequests
  BY SbrkArgumentCovers DEF BlocksAnswerRequests, BlocksHoldRequests
<1> QED
  BY InitMallocInv, NextMallocInv, NextBlocksAnswer, <1>1, <1>2, <1>3, PTL DEF BumpSpec
=============================================================================
