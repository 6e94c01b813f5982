----------------------------- MODULE BatchReplay ----------------------------
(***************************************************************************)
(* The multi-threaded replay of a tracefile: TracefileExecutor's workers,  *)
(* each preparing a batch of operations with its LocalIdMap, performing    *)
(* it, and flushing its results to the ConcurrentIdMap, in lockstep on a   *)
(* barrier.  The trace is split by a shared counter; an operation whose    *)
(* input has not been produced yet is parked in the id map under that      *)
(* input's key, and requeued by the thread that flushes the input.         *)
(***************************************************************************)
EXTENDS ReplayOps

CONSTANTS
  Threads,
  BatchSize,           (* kBatchSize                                        *)
  MaxQueuedOpsTaken,   (* kMaxQueuedOpsTaken                                *)
  AllocatorMayFail,    (* Whether an allocator call may return an error.    *)
  Null,
  Garbage              (* An uninitialized or wrongly read pointer.         *)

ASSUME BatchAssumption ==
  /\ Threads # {} /\ IsFiniteSet(Threads)
  /\ BatchSize \in Nat \ {0}
  /\ MaxQueuedOpsTaken \in 1..(BatchSize - 1)
  /\ AllocatorMayFail \in BOOLEAN
  /\ Null \notin Nat /\ Garbage \notin Nat /\ Null # Garbage

VARIABLES
  (* shared by the workers *)
  idx,            (* the next operation to claim                            *)
  done,           (* set by a worker that failed                            *)
  id_map,         (* ConcurrentIdMap: unique id -> nothing, pointer or op   *)
  queued_ops,     (* ConcurrentIdMap: ops whose input has arrived           *)
  members,        (* barrier: threads that have not dropped out             *)
  waiting,        (* barrier: threads that arrived in the current phase     *)
  status,         (* the status ProcessTracefile will return                *)
  returned,       (* ProcessTracefile has joined every thread               *)
  (* one worker's locals *)
  pc,
  ops,            (* the batch: operations, in order                        *)
  claimed,        (* first and end of the claimed range left to scan        *)
  local_allocs,   (* results of operations taken from the trace so far      *)
  rewritten,      (* the slots that replace each op's ids, in order         *)
  next_slot,      (* id_gen.next_id_                                        *)
  free_slots,     (* id_gen.available_ids_                                  *)
  id_to_idx,      (* unique id -> slot, for results not freed in the batch  *)
  slots,          (* BatchContext::id_map_                                  *)
  at,             (* how many of the batch's ops have been performed        *)
  unflushed,      (* unique ids FlushOps has not recorded yet               *)
  pending,        (* AddAllocation: the key it is at and the op parked there *)
  (* history *)
  performed,
  live

shared == <<idx, done, id_map, queued_ops, members, waiting, status, returned>>
locals == <<ops, claimed, local_allocs, rewritten, next_slot, free_slots,
            id_to_idx, slots, at, unflushed, pending>>
history == <<performed, live>>
vars == <<tracefile, shared, pc, locals, history>>

(* Result ids are below lines_size, so unique ids are below NumOps.         *)
Uids == Ops
Slots == 0..(BatchSize - 1)
NoSlot == -1
NoOp == -1

(***************************************************************************)
(* MapVal is an untagged union; "empty" is a key that is not in the map.   *)
(* Reading the member that was not written yields garbage.                 *)
(***************************************************************************)
Empty == [kind |-> "empty"]
Pointer(p) == [kind |-> "pointer", ptr |-> p]
Parked(i) == [kind |-> "parked", op |-> i]
ReadPointer(val) == IF val.kind = "pointer" THEN val.ptr ELSE Garbage
ReadParked(val) == IF val.kind = "parked" THEN val.op ELSE NoOp

Init ==
  /\ tracefile \in Traces
  /\ idx = 0
  /\ done = FALSE
  /\ id_map = [u \in Uids |-> Empty]
  /\ queued_ops = <<>>
  /\ members = Threads
  /\ waiting = {}
  /\ status = "ok"
  /\ returned = FALSE
  /\ pc = [t \in Threads |-> "loop"]
  /\ ops = [t \in Threads |-> <<>>]
  /\ claimed = [t \in Threads |-> [first |-> 0, end |-> 0]]
  /\ local_allocs = [t \in Threads |-> {}]
  /\ rewritten = [t \in Threads |-> <<>>]
  /\ next_slot = [t \in Threads |-> 0]
  /\ free_slots = [t \in Threads |-> {}]
  /\ id_to_idx = [t \in Threads |-> [u \in Uids |-> NoSlot]]
  /\ slots = [t \in Threads |-> [s \in Slots |-> Garbage]]
  /\ at = [t \in Threads |-> 0]
  /\ unflushed = [t \in Threads |-> {}]
  /\ pending = [t \in Threads |-> [uid |-> NoSlot, op |-> NoOp]]
  /\ performed = {}
  /\ live = {}

Goto(t, label) == pc' = [pc EXCEPT ![t] = label]

-----------------------------------------------------------------------------
(***************************************************************************)
(* Variants of definitions below with a plausible mistake, one per         *)
(* property: each property is shown to notice its variant.                 *)
(***************************************************************************)
(* TakeFromQueue empties the queue, although it took a part of it.          *)
QueueCleared(taken) == <<>>

(* MakeFromOps uses NextId for inputs too: a slot freed earlier in the      *)
(* batch, which an operation in between may still write.                    *)
InputSlotReused(t, i) ==
  IF InputUid(i) = NoId THEN NoSlot
  ELSE IF id_to_idx[t][InputUid(i)] # NoSlot THEN id_to_idx[t][InputUid(i)]
  ELSE IF free_slots[t] = {} THEN next_slot[t]
  ELSE CHOOSE s \in free_slots[t] : \A r \in free_slots[t] : s <= r

(* AddAllocation queues the parked operation but leaves it in the map.      *)
PointerNotAssigned(t) ==
  /\ pc[t] = "assign"
  /\ Goto(t, "push")
  /\ UNCHANGED <<tracefile, shared, locals, history>>

(* A worker goes on to its next batch without waiting for the others.       *)
FlushedWithoutBarrier(t) ==
  /\ pc[t] = "flush"
  /\ unflushed[t] = {}
  /\ Goto(t, "loop")
  /\ UNCHANGED <<tracefile, shared, locals, history>>

(* A worker leaves when the trace is exhausted, whatever is in its batch.   *)
LeavesWhenExhausted(t) ==
  /\ pc[t] = "make"
  /\ Len(rewritten[t]) = Len(ops[t])
  /\ Goto(t, IF idx >= NumOps THEN "leave" ELSE "barrier1")
  /\ UNCHANGED <<tracefile, shared, locals, history>>

(* DoRealloc does not store its result.                                     *)
ReallocDoesNotSetId(i) ==
  LineOf(i).op = "malloc" /\ ~LineOf(i).zero /\ LineOf(i).out # NoId

(* A failed worker ends without recording its status.                       *)
StatusDropped(t) ==
  /\ pc[t] = "report"
  /\ Goto(t, "exited")
  /\ UNCHANGED <<tracefile, shared, locals, history>>

-----------------------------------------------------------------------------
(* ProcessorWorker's loop test.  The new BatchContext's arrays are on the   *)
(* stack: what they hold is not defined.                                    *)
Loop(t) ==
  /\ pc[t] = "loop"
  /\ Goto(t, IF done THEN "leave" ELSE "take")
  /\ ops' = [ops EXCEPT ![t] = <<>>]
  /\ local_allocs' = [local_allocs EXCEPT ![t] = {}]
  /\ rewritten' = [rewritten EXCEPT ![t] = <<>>]
  /\ next_slot' = [next_slot EXCEPT ![t] = 0]
  /\ free_slots' = [free_slots EXCEPT ![t] = {}]
  /\ id_to_idx' = [id_to_idx EXCEPT ![t] = [u \in Uids |-> NoSlot]]
  /\ slots' = [slots EXCEPT ![t] = [s \in Slots |-> Garbage]]
  /\ at' = [at EXCEPT ![t] = 0]
  /\ UNCHANGED <<tracefile, shared, claimed, unflushed, pending, history>>

(* PrepareBatch: TakeFromQueue, under queue_lock_.                          *)
AfterTaking(taken) == SubSeq(queued_ops, taken + 1, Len(queued_ops))

TakeFromQueue(t) ==
  /\ pc[t] = "take"
  /\ LET taken == IF Len(queued_ops) < MaxQueuedOpsTaken
                    THEN Len(queued_ops) ELSE MaxQueuedOpsTaken
     IN /\ ops' = [ops EXCEPT ![t] = SubSeq(queued_ops, 1, taken)]
        /\ queued_ops' = AfterTaking(taken)
  /\ Goto(t, "claim")
  /\ UNCHANGED <<tracefile, idx, done, id_map, members, waiting, status, returned, claimed,
                 local_allocs, rewritten, next_slot, free_slots, id_to_idx, slots, at,
                 unflushed, pending, history>>

(* PrepareOpsFromTrace: idx_.fetch_add of the room left in the batch.       *)
Claim(t) ==
  /\ pc[t] = "claim"
  /\ LET room == BatchSize - Len(ops[t])
     IN /\ idx' = idx + room
        /\ IF idx >= NumOps
             THEN /\ Goto(t, "clamp")
                  /\ UNCHANGED claimed
             ELSE /\ Goto(t, "scan")
                  /\ claimed' = [claimed EXCEPT ![t] =
                       [first |-> idx, end |-> IF idx + room < NumOps THEN idx + room ELSE NumOps]]
  /\ UNCHANGED <<tracefile, done, id_map, queued_ops, members, waiting, status, returned, ops,
                 local_allocs, rewritten, next_slot, free_slots, id_to_idx, slots, at,
                 unflushed, pending, history>>

(* The trace is exhausted: the counter is put back to its end.              *)
Clamp(t) ==
  /\ pc[t] = "clamp"
  /\ idx' = NumOps
  /\ Goto(t, "make")
  /\ UNCHANGED <<tracefile, done, id_map, queued_ops, members, waiting, status, returned, locals,
                 history>>

(* CanDoOpOrQueue and MaybeSuspendAllocation for the next claimed line.  A  *)
(* line can be done if its input was made earlier in this batch's trace     *)
(* ops or is in the id map; otherwise it is parked there.                   *)
MustPark(t, i) ==
  /\ InputUid(i) # NoId
  /\ InputUid(i) \notin local_allocs[t]
  /\ id_map[InputUid(i)] = Empty

ScanLine(t) ==
  /\ pc[t] = "scan"
  /\ LET i     == claimed[t].first
         input == InputUid(i)
         park  == MustPark(t, i)
         taken == IF park THEN ops[t] ELSE Append(ops[t], i)
     IN /\ id_map' = IF park THEN [id_map EXCEPT ![input] = Parked(i)] ELSE id_map
        /\ local_allocs' = IF park THEN local_allocs
             ELSE [local_allocs EXCEPT ![t] = (@ \ {input}) \cup ({ResultUid(i)} \ {NoId})]
        /\ ops' = [ops EXCEPT ![t] = taken]
        /\ claimed' = [claimed EXCEPT ![t].first = i + 1]
        /\ Goto(t, IF i + 1 < claimed[t].end THEN "scan"
                   ELSE IF Len(taken) < BatchSize THEN "claim" ELSE "make")
  /\ UNCHANGED <<tracefile, idx, done, queued_ops, members, waiting, status, returned, rewritten,
                 next_slot, free_slots, id_to_idx, slots, at, unflushed, pending, history>>

(* MakeFromOps, one operation: its ids are replaced by slots of the local   *)
(* pointer array.  An input made in the batch is in that result's slot; any *)
(* other is taken out of the id map into a slot no operation has used, so   *)
(* that nothing performed before can overwrite it.  Either slot is then     *)
(* free for the results that follow.                                        *)
IsLocal(t, i) == InputUid(i) # NoId /\ id_to_idx[t][InputUid(i)] # NoSlot
IsGlobal(t, i) == InputUid(i) # NoId /\ id_to_idx[t][InputUid(i)] = NoSlot

(* find in id_to_idx_, else NextUnusedId.                                   *)
InputSlot(t, i) ==
  IF IsLocal(t, i) THEN id_to_idx[t][InputUid(i)]
  ELSE IF IsGlobal(t, i) THEN next_slot[t] ELSE NoSlot

(* Variant (TypeOK): FreeId is never called, and the batch's slots run out. *)
FreeIdForgotten(t, i) == free_slots[t]

(* id_gen after the input: FreeId has made its slot available.              *)
FreeAfterInput(t, i) == free_slots[t] \cup ({InputSlot(t, i)} \ {NoSlot})
NextAfterInput(t, i) ==
  IF InputSlot(t, i) = next_slot[t] THEN next_slot[t] + 1 ELSE next_slot[t]

(* NextId: the lowest available slot, else an unused one.                   *)
ResultSlot(t, i) ==
  LET available == FreeAfterInput(t, i)
  IN IF ResultUid(i) = NoId THEN NoSlot
     ELSE IF available = {} THEN NextAfterInput(t, i)
     ELSE CHOOSE s \in available : \A r \in available : s <= r

FreeAfterResult(t, i) == FreeAfterInput(t, i) \ {ResultSlot(t, i)}

MakeOp(t) ==
  /\ pc[t] = "make"
  /\ Len(rewritten[t]) < Len(ops[t])
  /\ LET i        == ops[t][Len(rewritten[t]) + 1]
         input    == InputUid(i)
         result   == ResultUid(i)
         in_slot  == InputSlot(t, i)
         out_slot == ResultSlot(t, i)
         unused   == NextAfterInput(t, i)
         kept     == IF IsLocal(t, i) THEN [id_to_idx[t] EXCEPT ![input] = NoSlot]
                     ELSE id_to_idx[t]
         failed   == \/ IsGlobal(t, i) /\ id_map[input] = Empty
                     \/ result # NoId /\ kept[result] # NoSlot
     IN /\ IF IsGlobal(t, i)
             THEN /\ slots' = [slots EXCEPT ![t][in_slot] = ReadPointer(id_map[input])]
                  /\ id_map' = [id_map EXCEPT ![input] = Empty]
             ELSE UNCHANGED <<slots, id_map>>
        /\ rewritten' = [rewritten EXCEPT ![t] = Append(@, [in |-> in_slot, out |-> out_slot])]
        /\ next_slot' = [next_slot EXCEPT ![t] = IF out_slot = unused THEN unused + 1 ELSE unused]
        /\ free_slots' = [free_slots EXCEPT ![t] = FreeAfterResult(t, i)]
        /\ id_to_idx' = [id_to_idx EXCEPT ![t] =
             IF result = NoId THEN kept ELSE [kept EXCEPT ![result] = out_slot]]
        /\ Goto(t, IF failed THEN "error" ELSE "make")
  /\ UNCHANGED <<tracefile, idx, done, queued_ops, members, waiting, status, returned, ops, claimed,
                 local_allocs, at, unflushed, pending, history>>

(* The batch is ready; a worker that got nothing to do leaves for good.     *)
BatchMade(t) ==
  /\ pc[t] = "make"
  /\ Len(rewritten[t]) = Len(ops[t])
  /\ Goto(t, IF ops[t] = <<>> THEN "leave" ELSE "barrier1")
  /\ UNCHANGED <<tracefile, shared, locals, history>>

-----------------------------------------------------------------------------
(* std::barrier.  The last thread of a phase to arrive releases the others. *)
Barriers == {"barrier1", "barrier2", "barrier3"}

AfterBarrier(label) ==
  CASE label = "barrier1" -> "barrier2"
    [] label = "barrier2" -> "run"
    [] label = "barrier3" -> "loop"

ArriveAndWait(t) ==
  /\ pc[t] \in Barriers
  /\ t \notin waiting
  /\ LET arrived == waiting \cup {t}
     IN IF arrived = members
          THEN /\ waiting' = {}
               /\ pc' = [u \in Threads |-> IF u \in arrived THEN AfterBarrier(pc[u]) ELSE pc[u]]
          ELSE /\ waiting' = arrived
               /\ UNCHANGED pc
  /\ UNCHANGED <<tracefile, idx, done, id_map, queued_ops, members, status, returned, locals,
                 history>>

(* arrive_and_drop: the thread counts as arrived and is expected no more.   *)
ArriveAndDrop(t) ==
  /\ pc[t] = "leave"
  /\ members' = members \ {t}
  /\ LET released == IF waiting = members' THEN waiting ELSE {}
     IN /\ waiting' = waiting \ released
        /\ pc' = [u \in Threads |-> IF u = t THEN "exited"
                    ELSE IF u \in released THEN AfterBarrier(pc[u]) ELSE pc[u]]
  /\ UNCHANGED <<tracefile, idx, done, id_map, queued_ops, status, returned, locals, history>>

-----------------------------------------------------------------------------
(* ProcessLine: the allocator is called with the pointer in the input slot, *)
(* and what it returns is put in the result slot -- unless the operation    *)
(* is a zero-sized malloc, whose result slot keeps what it held.            *)
InputPointer(t) ==
  LET slot == rewritten[t][at[t] + 1].in
  IN IF slot = NoSlot THEN Null ELSE slots[t][slot]

SetsId(i) ==
  \/ LineOf(i).op = "realloc"
  \/ LineOf(i).op = "malloc" /\ ~LineOf(i).zero /\ LineOf(i).out # NoId

Perform(t) ==
  /\ pc[t] = "run"
  /\ at[t] < Len(ops[t])
  /\ LET i      == ops[t][at[t] + 1]
         result == IF Allocates(i) THEN i ELSE Null
     IN /\ performed' = performed \cup {i}
        /\ live' = (live \ {InputPointer(t)}) \cup ({result} \ {Null})
        /\ slots' = IF SetsId(i) THEN [slots EXCEPT ![t][rewritten[t][at[t] + 1].out] = result]
                    ELSE slots
        /\ at' = [at EXCEPT ![t] = @ + 1]
  /\ UNCHANGED <<tracefile, shared, pc, ops, claimed, local_allocs, rewritten, next_slot, free_slots,
                 id_to_idx, unflushed, pending>>

(* The batch has been performed: AllocationsToRecord.                       *)
Performed(t) ==
  /\ pc[t] = "run"
  /\ at[t] = Len(ops[t])
  /\ unflushed' = [unflushed EXCEPT ![t] = {u \in Uids : id_to_idx[t][u] # NoSlot}]
  /\ Goto(t, "flush")
  /\ UNCHANGED <<tracefile, shared, ops, claimed, local_allocs, rewritten, next_slot, free_slots,
                 id_to_idx, slots, at, pending, history>>

(* The allocator (or a check of its answer) fails: the worker returns.      *)
AllocatorError(t) ==
  /\ AllocatorMayFail
  /\ pc[t] = "run"
  /\ at[t] < Len(ops[t])
  /\ Goto(t, "error")
  /\ UNCHANGED <<tracefile, shared, locals, history>>

-----------------------------------------------------------------------------
(* FlushOps, in the order of a hash map.  AddAllocation inserts the pointer *)
(* or, when the key is taken, reads the parked operation,                   *)
FlushOne(t) ==
  /\ pc[t] = "flush"
  /\ \E u \in unflushed[t] :
       IF id_map[u] = Empty
         THEN /\ id_map' = [id_map EXCEPT ![u] = Pointer(slots[t][id_to_idx[t][u]])]
              /\ unflushed' = [unflushed EXCEPT ![t] = @ \ {u}]
              /\ UNCHANGED <<pc, pending>>
         ELSE /\ pending' = [pending EXCEPT ![t] = [uid |-> u, op |-> ReadParked(id_map[u])]]
              /\ Goto(t, "assign")
              /\ UNCHANGED <<id_map, unflushed>>
  /\ UNCHANGED <<tracefile, idx, done, queued_ops, members, waiting, status, returned, ops, claimed,
                 local_allocs, rewritten, next_slot, free_slots, id_to_idx, slots, at, history>>

(* replaces the entry by the pointer (an error if it has gone meanwhile),   *)
AssignPointer(t) ==
  /\ pc[t] = "assign"
  /\ LET u == pending[t].uid
     IN IF id_map[u] = Empty
          THEN Goto(t, "error") /\ UNCHANGED id_map
          ELSE /\ id_map' = [id_map EXCEPT ![u] = Pointer(slots[t][id_to_idx[t][u]])]
               /\ Goto(t, "push")
  /\ UNCHANGED <<tracefile, idx, done, queued_ops, members, waiting, status, returned, locals,
                 history>>

(* and, under queue_lock_, queues the operation.                            *)
PushPending(t) ==
  /\ pc[t] = "push"
  /\ queued_ops' = Append(queued_ops, pending[t].op)
  /\ unflushed' = [unflushed EXCEPT ![t] = @ \ {pending[t].uid}]
  /\ Goto(t, "flush")
  /\ UNCHANGED <<tracefile, idx, done, id_map, members, waiting, status, returned, ops, claimed,
                 local_allocs, rewritten, next_slot, free_slots, id_to_idx, slots, at, pending,
                 history>>

Flushed(t) ==
  /\ pc[t] = "flush"
  /\ unflushed[t] = {}
  /\ Goto(t, "barrier3")
  /\ UNCHANGED <<tracefile, shared, locals, history>>

-----------------------------------------------------------------------------
(* The thread's function: a failed worker tells the others to stop, then    *)
(* records its status.  It does not drop out of the barrier.                *)
StoreDone(t) ==
  /\ pc[t] = "error"
  /\ done' = TRUE
  /\ Goto(t, "report")
  /\ UNCHANGED <<tracefile, idx, id_map, queued_ops, members, waiting, status, returned, locals,
                 history>>

ReportStatus(t) ==
  /\ pc[t] = "report"
  /\ status' = "error"
  /\ Goto(t, "exited")
  /\ UNCHANGED <<tracefile, idx, done, id_map, queued_ops, members, waiting, returned, locals,
                 history>>

(* ProcessTracefile joins every thread and returns the status.              *)
Join ==
  /\ ~returned
  /\ \A t \in Threads : pc[t] = "exited"
  /\ returned' = TRUE
  /\ UNCHANGED <<tracefile, idx, done, id_map, queued_ops, members, waiting, status, pc, locals,
                 history>>

Prepare(t) ==
  Loop(t) \/ TakeFromQueue(t) \/ Claim(t) \/ Clamp(t) \/ ScanLine(t) \/ MakeOp(t) \/ BatchMade(t)

Flush(t) == FlushOne(t) \/ AssignPointer(t) \/ PushPending(t) \/ Flushed(t)

Worker(t) ==
  \/ Prepare(t)
  \/ ArriveAndWait(t) \/ ArriveAndDrop(t)
  \/ Perform(t) \/ AllocatorError(t) \/ Performed(t)
  \/ Flush(t)
  \/ StoreDone(t) \/ ReportStatus(t)

(* The program has returned: nothing more to do, and no deadlock.           *)
Returned == returned /\ UNCHANGED vars

Next == (\E t \in Threads : Worker(t)) \/ Join \/ Returned

Spec == Init /\ [][Next]_vars

(* The operating system runs every thread that can run.                     *)
FairSpec == Spec /\ (\A t \in Threads : WF_vars(Worker(t))) /\ WF_vars(Join)

-----------------------------------------------------------------------------
Labels ==
  {"loop", "take", "claim", "clamp", "scan", "make", "barrier1", "barrier2", "run", "flush",
   "assign", "push", "barrier3", "leave", "error", "report", "exited"}

Pointers == Ops \cup {Null, Garbage}
MapVals == {Empty} \cup {Pointer(p) : p \in Pointers} \cup {Parked(i) : i \in Ops}
SlotsOrNone == Slots \cup {NoSlot}

(* The types of the shared state and of each worker's locals.               *)
TypeOK ==
  /\ tracefile \in Traces
  /\ idx \in Nat
  /\ done \in BOOLEAN
  /\ id_map \in [Uids -> MapVals]
  /\ queued_ops \in Seq(Ops)
  /\ members \subseteq Threads
  /\ waiting \subseteq members
  /\ status \in {"ok", "error"}
  /\ returned \in BOOLEAN
  /\ pc \in [Threads -> Labels]
  /\ ops \in [Threads -> Seq(Ops)]
  /\ claimed \in [Threads -> [first : Nat, end : Nat]]
  /\ local_allocs \in [Threads -> SUBSET Uids]
  /\ rewritten \in [Threads -> Seq([in : SlotsOrNone, out : SlotsOrNone])]
  /\ next_slot \in [Threads -> Nat]
  /\ free_slots \in [Threads -> SUBSET Slots]
  /\ id_to_idx \in [Threads -> [Uids -> SlotsOrNone]]
  /\ slots \in [Threads -> [Slots -> Pointers]]
  /\ at \in [Threads -> Nat]
  /\ unflushed \in [Threads -> SUBSET Uids]
  /\ pending \in [Threads -> [uid : Uids \cup {NoSlot}, op : Ops \cup {NoOp}]]
  /\ performed \subseteq Ops
  /\ live \subseteq Ops

(***************************************************************************)
(* Conservation: every operation is, at every moment, in exactly one of    *)
(* the places that hand operations on: not claimed yet, claimed but not    *)
(* scanned, in a batch (once), parked under its input's key, on its way to *)
(* the queue, queued, or performed.  Nothing is lost or done twice however *)
(* the workers' fetch_adds, map inserts and queue operations interleave.   *)
(***************************************************************************)
Places(i) ==
  {p \in {<<"unclaimed">>} : i >= idx}
    \cup {p \in {"claimed"} \X Threads : claimed[p[2]].first <= i /\ i < claimed[p[2]].end}
    \cup {p \in {"batch"} \X Threads \X (1..BatchSize) :
            p[3] \in DOMAIN ops[p[2]] /\ p[3] > at[p[2]] /\ ops[p[2]][p[3]] = i}
    \cup {p \in {"parked"} \X Uids : id_map[p[2]] = Parked(i)}
    \cup {p \in {"pending"} \X Threads : pc[p[2]] = "push" /\ pending[p[2]].op = i}
    \cup {p \in {"queued"} \X DOMAIN queued_ops : queued_ops[p[2]] = i}
    \cup {p \in {<<"performed">>} : i \in performed}

EachOpInOnePlace == \A i \in Ops : Cardinality(Places(i)) = 1

(***************************************************************************)
(* The pointer an operation is about to pass to the allocator is the one   *)
(* its trace id was allocated with, and the allocator has not had it back: *)
(* through slots that are reused within a batch, and through the id map,   *)
(* the queue and another thread's batch.                                   *)
(***************************************************************************)
CallersPassTheirPointers ==
  \A t \in Threads : pc[t] = "run" /\ at[t] < Len(ops[t]) =>
    \A j \in Producers(ops[t][at[t] + 1]) :
      IF Allocates(j) THEN InputPointer(t) = j /\ j \in live ELSE InputPointer(t) = Null

(* MapVal's union carries no tag: wherever a worker is about to read it,    *)
(* the member it reads is the one that was written.  LookupAllocation must  *)
(* find a pointer, AddAllocation nothing or a parked operation.             *)
UnionReadAsWritten ==
  \A t \in Threads :
    /\ pc[t] = "make" /\ Len(rewritten[t]) < Len(ops[t]) =>
         LET input == InputUid(ops[t][Len(rewritten[t]) + 1])
         IN input # NoId /\ id_to_idx[t][input] = NoSlot => id_map[input].kind = "pointer"
    /\ pc[t] = "flush" => \A u \in unflushed[t] : id_map[u].kind # "pointer"
    /\ pc[t] = "assign" => id_map[pending[t].uid].kind = "parked"

(* The barriers keep the phases of different workers apart: no worker looks *)
(* for inputs while another performs operations or flushes their results.   *)
Preparing == {"take", "claim", "clamp", "scan", "make"}
Performing == {"run", "flush", "assign", "push"}

PhasesSeparate ==
  \A t, u \in Threads : pc[t] \in Preparing => pc[u] \notin Performing

(* When the replay returns without an error, the trace has been performed   *)
(* to its end, and nothing is left parked, queued or allocated (but for     *)
(* results the trace itself drops).                                         *)
NothingLeftBehind ==
  returned /\ status = "ok" =>
    /\ performed = Ops
    /\ queued_ops = <<>>
    /\ \A u \in Uids : id_map[u] = Empty
    /\ live = {i \in Ops : Allocates(i) /\ ResultUid(i) = NoId}

(* The replay keeps TraceReplay's promise, through the history variables.   *)
Replay == INSTANCE TraceReplay
ReplayKept == Replay!Spec

(* Every replay ends: no worker waits at the barrier for ever, and parked   *)
(* operations do not keep the others from finishing.                        *)
EventuallyReturns == <>returned

(* With an allocator that may fail: a replay that does not return has a     *)
(* failure on record.                                                       *)
ReturnsOrHasFailed == <>(returned \/ status = "error")
=============================================================================
