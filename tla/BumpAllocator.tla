---------------------------- MODULE BumpAllocator ----------------------------
(***************************************************************************)
(* The allocator a checkout starts from (allocator_interface.h) and the    *)
(* libc symbols defined over it (libc_override.cc): every request moves    *)
(* the break of one heap, nothing is given back.  The heap is made by the  *)
(* first call, under a lock, or beforehand by the runner                   *)
(* (MallocRunner::InitializeHeap, through the heap factory).               *)
(*                                                                         *)
(* Heap's variables are those of the heap g_heap points to; every step     *)
(* here is one of Heap's or leaves them alone.  free, get_size and the     *)
(* copies of calloc and realloc change no state of the allocator.          *)
(***************************************************************************)
EXTENDS Heap

CONSTANTS
  Requests,     (* Calls of the program.                                   *)
  Align,        (* 16: sizes are rounded up to a multiple of it.           *)
  PageSize,     (* 4096                                                    *)
  WordSize,     (* 2^64: size_t is computed modulo it.                     *)
  NoThread,     (* The owner of an unlocked mutex.                         *)
  NoRequest     (* A thread that is not in a call.                         *)

VARIABLES
  stage,      (* Where each thread is in malloc.                           *)
  request,    (* Its call.                                                 *)
  g_heap,     (* 0 is nullptr, else the number of the mapping it manages.  *)
  mapping,    (* The number of the mapping that exists, 0 before one does. *)
  g_lock,     (* The owner of g_lock.                                      *)
  map_failed, (* mmap has failed.                                          *)
  blocks      (* History: what has been returned since the heap was reset. *)

malloc_vars == <<stage, request, g_heap, mapping, g_lock, map_failed, blocks>>
allVars == <<vars, malloc_vars>>

Enter(t, next) == stage' = [stage EXCEPT ![t] = next]

Return(t) ==
  /\ Enter(t, "out")
  /\ request' = [request EXCEPT ![t] = NoRequest]

-----------------------------------------------------------------------------
(* (size + 4095) & ~4096: the mask clears one bit of the sum.               *)
PvallocSize(size) ==
  LET sum == (size + PageSize - 1) % WordSize
  IN IF (sum \div PageSize) % 2 = 1 THEN sum - PageSize ELSE sum

(* The size bench::malloc is called with by each kind of symbol.            *)
SizeArgument(r) ==
  CASE r.fn = "malloc" -> r.size        (* and memalign, realloc, new       *)
    [] r.fn = "calloc" -> (r.nmemb * r.size) % WordSize   (* reallocarray   *)
    [] r.fn = "aligned new" -> r.align  (* operator new(size, align_val_t)  *)
    [] r.fn = "pvalloc" -> PvallocSize(r.size)

(* Variant that breaks BlocksHoldRequests: the sum is forgotten.            *)
RoundDown(size) == size - (size % Align)

(* (size + 15) & ~15                                                        *)
RoundUp(size) == LET sum == (size + Align - 1) % WordSize
                 IN sum - (sum % Align)

(* sbrk's parameter is an intptr_t.                                         *)
Signed(size) == IF size < WordSize \div 2 THEN size ELSE size - WordSize

SbrkArgument(r) == Signed(RoundUp(SizeArgument(r)))

ASSUME BumpAssumption ==
  /\ {Align, PageSize, WordSize} \subseteq Nat \ {0}
  /\ Requests \subseteq [fn : {"malloc", "calloc", "aligned new", "pvalloc"},
                         size : Nat, align : Nat, nmemb : Nat]
  /\ \A r \in Requests : SbrkArgument(r) \in Increments
  /\ NoThread \notin Threads

(* What the caller may write to (aligned new asks for `size` bytes).        *)
Asked(r) == IF r.fn = "calloc" THEN r.nmemb * r.size ELSE r.size

-----------------------------------------------------------------------------
BumpInit ==
  /\ Init
  /\ stage = [t \in Threads |-> "out"]
  /\ request = [t \in Threads |-> NoRequest]
  /\ g_heap = 0
  /\ mapping = 0
  /\ g_lock = NoThread
  /\ map_failed = FALSE
  /\ blocks = {}

(* Variant that breaks BlocksStayMapped: g_heap is not tested again under   *)
(* the lock.                                                                *)
TestedOnce(t) ==
  /\ stage[t] = "retest"
  /\ Enter(t, "emplace")
  /\ UNCHANGED <<vars, request, g_heap, mapping, g_lock, map_failed, blocks>>

(* A thread calls one of the allocation functions.                          *)
Request(t, r) ==
  /\ stage[t] = "out"
  /\ request' = [request EXCEPT ![t] = r]
  /\ Enter(t, "test")
  /\ UNCHANGED <<vars, g_heap, mapping, g_lock, map_failed, blocks>>

(* The test of g_heap outside the lock.                                     *)
Test(t) ==
  /\ stage[t] = "test"
  /\ Enter(t, IF g_heap = 0 THEN "lock" ELSE "allocate")
  /\ UNCHANGED <<vars, request, g_heap, mapping, g_lock, map_failed, blocks>>

Lock(t) ==
  /\ stage[t] = "lock"
  /\ g_lock = NoThread
  /\ g_lock' = t
  /\ Enter(t, "retest")
  /\ UNCHANGED <<vars, request, g_heap, mapping, map_failed, blocks>>

Retest(t) ==
  /\ stage[t] = "retest"
  /\ Enter(t, IF g_heap = 0 THEN "emplace" ELSE "unlock")
  /\ UNCHANGED <<vars, request, g_heap, mapping, g_lock, map_failed, blocks>>

(* initialize: a mapping is made and moved into `heap` (what `heap` held is *)
(* unmapped), then g_heap is set, in this order on the machines the project *)
(* builds for.  The new heap is empty, as Init has it.                      *)
Emplace(t) ==
  /\ stage[t] = "emplace"
  /\ mapping' = mapping + 1
  /\ Enter(t, "publish")
  /\ UNCHANGED <<vars, request, g_heap, g_lock, map_failed, blocks>>

(* mmap fails: the message of the error is a string on the heap, so that    *)
(* the thread calls malloc again and asks for the lock it holds.            *)
MapFails(t) ==
  /\ stage[t] = "emplace"
  /\ map_failed' = TRUE
  /\ Enter(t, "test")
  /\ UNCHANGED <<vars, request, g_heap, mapping, g_lock, blocks>>

Publish(t) ==
  /\ stage[t] = "publish"
  /\ g_heap' = mapping
  /\ Enter(t, "unlock")
  /\ UNCHANGED <<vars, request, mapping, g_lock, map_failed, blocks>>

Unlock(t) ==
  /\ stage[t] = "unlock"
  /\ g_lock' = NoThread
  /\ Enter(t, "allocate")
  /\ UNCHANGED <<vars, request, g_heap, mapping, map_failed, blocks>>

(* A request for nothing is answered with NULL, and one whose rounded size  *)
(* sbrk takes for a negative number;                                        *)
AnswerNull(t) ==
  /\ stage[t] = "allocate"
  /\ SizeArgument(request[t]) = 0 \/ SbrkArgument(request[t]) < 0
  /\ Return(t)
  /\ UNCHANGED <<vars, g_heap, mapping, g_lock, map_failed, blocks>>

(* any other goes to sbrk.                                                  *)
CallSbrk(t) ==
  /\ stage[t] = "allocate"
  /\ SizeArgument(request[t]) # 0
  /\ Call(t, SbrkArgument(request[t]))
  /\ Enter(t, "sbrk")
  /\ UNCHANGED <<request, g_heap, mapping, g_lock, map_failed, blocks>>

(* The loop in sbrk; a thread that is given memory returns it, NULL (ENOMEM)*)
(* if there is no room.                                                     *)
InSbrk(t) ==
  /\ stage[t] = "sbrk"
  /\ UNCHANGED <<g_heap, mapping, g_lock, map_failed>>
  /\ \/ Check(t) /\ Fits(t) /\ UNCHANGED <<stage, request, blocks>>
     \/ Check(t) /\ ~Fits(t) /\ Return(t) /\ UNCHANGED blocks
     \/ SwapFails(t) /\ UNCHANGED <<stage, request, blocks>>
     \/ /\ Swap(t)
        /\ Return(t)
        /\ blocks' = blocks \cup
             {[start |-> old_heap_end[t], size |-> increment[t],
               request |-> request[t], mapping |-> g_heap]}

(* MallocRunner::InitializeHeap, before a trace is replayed: the heaps of   *)
(* the factory are deleted, one is made and g_heap points to it.            *)
InitializeHeap ==
  /\ \A t \in Threads : stage[t] = "out"
  /\ Reset
  /\ mapping' = mapping + 1
  /\ g_heap' = mapping'
  /\ blocks' = {}
  /\ UNCHANGED <<stage, request, g_lock, map_failed>>

Malloc(t) ==
  \/ Test(t) \/ Lock(t) \/ Retest(t) \/ Emplace(t) \/ MapFails(t) \/ Publish(t)
  \/ Unlock(t) \/ AnswerNull(t) \/ CallSbrk(t) \/ InSbrk(t)

BumpNext ==
  \/ \E t \in Threads : (\E r \in Requests : Request(t, r)) \/ Malloc(t)
  \/ InitializeHeap

BumpSpec == BumpInit /\ [][BumpNext]_allVars

(* Threads run, a mutex that is released again and again is got, and a weak *)
(* exchange does not fail spuriously for ever.                              *)
BumpFairSpec ==
  /\ BumpSpec
  /\ \A t \in Threads :
       /\ WF_allVars(Malloc(t))
       /\ SF_allVars(Lock(t))
       /\ SF_allVars(InSbrk(t) /\ pc[t] = "swap" /\ pc'[t] = "idle")

-----------------------------------------------------------------------------
(* calloc's product, or the rounding of what the symbol passes on, is more  *)
(* than a word.                                                             *)
Wraps(r) ==
  \/ Asked(r) + Align - 1 >= WordSize
  \/ SizeArgument(r) + Align - 1 >= WordSize

(* The symbol passes on no less than the caller's size: an aligned new      *)
(* passes its alignment, pvalloc a sum with one bit cleared, which both may *)
(* be less than what was asked for.                                         *)
PassesItsSize(r) == r.fn \in {"aligned new", "pvalloc"} => r.size <= SizeArgument(r)

(* "Can be written to in full by the caller" (writeup.tex:116) is true of   *)
(* malloc and calloc unless the arithmetic on the size wraps around; of an  *)
(* aligned new and of pvalloc it is true only if, besides, the symbol       *)
(* passes on no less than the caller's size, and not in general.            *)
BlocksHoldRequests ==
  \A block \in blocks :
    ~Wraps(block.request) /\ PassesItsSize(block.request)
      => Asked(block.request) <= block.size

(* "All pointers returned from allocation functions lie within memory       *)
(* allocated by the kernel": however many threads make the first call, the  *)
(* mapping a block was cut from is never replaced, the block ends where it  *)
(* does or before, and nobody uses a heap that has not been made.           *)
BlocksStayMapped ==
  /\ \A block \in blocks : block.mapping = mapping /\ block.start + block.size <= MaxSize
  /\ \A t \in Threads : stage[t] \in {"allocate", "sbrk"} => g_heap = mapping /\ mapping > 0

(* A call comes back, whoever makes the heap and whoever moves the break,   *)
(* unless mmap has failed: then the thread that reports it holds g_lock for *)
(* ever.                                                                    *)
RequestsReturn ==
  \A t \in Threads : stage[t] # "out" ~> (stage[t] = "out" \/ map_failed)
=============================================================================
