-------------------------- MODULE BatchReplayProofs -------------------------
(***************************************************************************)
(* For every set of tracefiles, any number of threads and repetitions and  *)
(* every batch size: the workers of TracefileExecutor keep their types and *)
(* the bounds of their batches, never lose or repeat an operation, keep    *)
(* their phases apart, and read the id map's untagged union as it was      *)
(* written, also when allocator calls fail.  The inductive invariant IInv  *)
(* is proved part by part, one lemma each; the lemmas called ...Effect say *)
(* what a step does, place by place, so that the other proofs need not     *)
(* look at functions and sequences.                                        *)
(* Two more invariants stand on top of IInv. PointerInv: wherever the      *)
(* pointer is kept that an operation will consume -- in a slot no          *)
(* operation in between overwrites, in the id map, or in another worker's  *)
(* batch -- it is its producer's answer; this needs that the trace names   *)
(* no malloc(0). EndInv: what is queued has a worker that will take it,    *)
(* and a result that was produced is recorded, held or consumed. With both *)
(* the replay implements TraceReplay.                                      *)
(***************************************************************************)
EXTENDS BatchReplay, FiniteSetTheorems, SequenceTheorems, WellFoundedInduction, TLAPS

-----------------------------------------------------------------------------
(* Operations and unique ids.  The arithmetic of lines and repetitions is   *)
(* used here only; the rest of the proof knows what these lemmas state.     *)

LEMMA DivMod ==
  ASSUME NEW n \in Nat \ {0}, NEW i \in Nat
  PROVE  /\ i % n \in 0..(n - 1)
         /\ i \div n \in Nat
         /\ i = (i \div n) * n + (i % n)
OBVIOUS

LEMMA TimesMonotone ==
  ASSUME NEW n \in Nat, NEW p \in Nat, NEW q \in Nat, p < q
  PROVE  p * n + n <= q * n
<1>1. q = (p + 1) + (q - p - 1) /\ q - p - 1 \in Nat
  OBVIOUS
<1> DEFINE d == q - p - 1
<1>2. q * n = (p + 1) * n + d * n
  BY <1>1
<1>3. d * n >= 0
  BY <1>1
<1>4. (p + 1) * n = p * n + n
  OBVIOUS
<1> QED BY <1>2, <1>3, <1>4

(* A number below m * n is written in one way as a digit below n and one    *)
(* below m.                                                                 *)
LEMMA Digits ==
  ASSUME NEW n \in Nat \ {0}, NEW m \in Nat, NEW i \in 0..(m * n - 1)
  PROVE  /\ i % n \in 0..(n - 1)
         /\ i \div n \in 0..(m - 1)
         /\ i = (i \div n) * n + (i % n)
<1>1. i % n \in 0..(n - 1) /\ i \div n \in Nat /\ i = (i \div n) * n + (i % n)
  <2> m * n \in Nat
    OBVIOUS
  <2>1. i \in Nat
    OBVIOUS
  <2> QED BY <2>1, DivMod
<1>2. i \div n < m
  <2> SUFFICES ASSUME m <= i \div n PROVE FALSE
    BY <1>1
  <2> DEFINE q == i \div n
  <2>1. q \in Nat /\ i % n \in Nat /\ i = q * n + (i % n) /\ m <= q
    BY <1>1
  <2> HIDE DEF q
  <2>2. q * n \in Nat /\ m * n \in Nat
    BY <2>1
  <2>3. m * n <= q * n
    <3>1. CASE m = q
      BY <3>1, <2>2
    <3>2. CASE m < q
      <4>1. m * n + n <= q * n
        BY <3>2, <2>1, TimesMonotone
      <4> QED BY <4>1, <2>2
    <3> QED BY <3>1, <3>2, <2>1
  <2> QED BY <2>1, <2>2, <2>3
<1> QED BY <1>1, <1>2

LEMMA DigitsUnique ==
  ASSUME NEW n \in Nat \ {0}, NEW a \in 0..(n - 1), NEW b \in 0..(n - 1),
         NEW p \in Nat, NEW q \in Nat, p * n + a = q * n + b
  PROVE  p = q /\ a = b
<1>1. p * n \in Nat /\ q * n \in Nat
  OBVIOUS
<1>2. ~(p < q)
  <2> SUFFICES ASSUME p < q PROVE FALSE
    OBVIOUS
  <2>1. p * n + n <= q * n
    BY TimesMonotone
  <2> QED BY <1>1, <2>1
<1>3. ~(q < p)
  <2> SUFFICES ASSUME q < p PROVE FALSE
    OBVIOUS
  <2>1. q * n + n <= p * n
    BY TimesMonotone
  <2> QED BY <1>1, <2>1
<1>4. p = q
  BY <1>2, <1>3
<1> QED BY <1>1, <1>4

LEMMA TraceOfReplay ==
  ASSUME tracefile \in Traces
  PROVE  /\ tracefile \in Seq(Lines(Nat))
         /\ Len(tracefile) \in Nat \ {0}
         /\ UniqueTrace(tracefile)
         /\ \A l \in DOMAIN tracefile :
              WellShaped(tracefile[l]) /\ tracefile[l].op # "unset"
<1>1. Len(tracefile) # 0
  BY ReplayAssumption, EmptySeq
<1> QED BY <1>1, ReplayAssumption

LEMMA LineOfOp ==
  ASSUME tracefile \in Traces, NEW i \in Ops
  PROVE  /\ i \in Nat
         /\ (i % Len(tracefile)) + 1 \in DOMAIN tracefile
         /\ IterationOf(i) \in 0..(Repetitions - 1)
         /\ i = IterationOf(i) * Len(tracefile) + (i % Len(tracefile))
         /\ LineOf(i) \in Lines(Nat)
         /\ WellShaped(LineOf(i))
         /\ LineOf(i).op # "unset"
<1> DEFINE n == Len(tracefile)
<1>1. n \in Nat \ {0}
  BY TraceOfReplay
<1>2. i \in 0..(Repetitions * n - 1)
  BY DEF Ops, NumOps
<1> HIDE DEF n
<1>3. /\ i % n \in 0..(n - 1)
      /\ i \div n \in 0..(Repetitions - 1)
      /\ i = (i \div n) * n + (i % n)
  BY <1>1, <1>2, Digits, ReplayAssumption
<1>4. (i % n) + 1 \in 1..n
  BY <1>1, <1>3
<1>5. DOMAIN tracefile = 1..n
  BY TraceOfReplay DEF n
<1>6. tracefile[(i % n) + 1] \in Lines(Nat)
  BY <1>4, <1>5, TraceOfReplay DEF n
<1> QED BY <1>2, <1>3, <1>4, <1>5, <1>6, TraceOfReplay, ReplayAssumption DEF n, IterationOf, LineOf

(* The number that stands for line l of repetition r.                       *)
LEMMA OpOfLine ==
  ASSUME tracefile \in Traces,
         NEW l \in DOMAIN tracefile, NEW r \in 0..(Repetitions - 1),
         NEW i, i = r * Len(tracefile) + (l - 1)
  PROVE  /\ i \in Ops
         /\ LineOf(i) = tracefile[l]
         /\ IterationOf(i) = r
<1> DEFINE n == Len(tracefile)
<1>1. n \in Nat \ {0} /\ l \in 1..n
  BY TraceOfReplay
<1> HIDE DEF n
<1>2. r * n \in Nat /\ i \in Nat /\ i = r * n + (l - 1)
  BY <1>1, ReplayAssumption DEF n
<1>3. r * n + n <= Repetitions * n /\ Repetitions * n \in Nat
  BY <1>1, TimesMonotone, ReplayAssumption
<1>4. i \in 0..(Repetitions * n - 1)
  BY <1>1, <1>2, <1>3
<1>5. /\ i % n \in 0..(n - 1)
      /\ i \div n \in Nat
      /\ i = (i \div n) * n + (i % n)
  BY <1>1, <1>2, DivMod
<1>6. i \div n = r /\ i % n = l - 1
  <2> DEFINE q == i \div n
             a == i % n
  <2>1. q \in Nat /\ a \in 0..(n - 1)
    BY <1>5
  <2>4. r \in Nat /\ l - 1 \in 0..(n - 1)
    BY <1>1, ReplayAssumption
  <2>2. q * n + a = r * n + (l - 1)
    BY <1>2, <1>5
  <2> HIDE DEF q, a
  <2>5. \A b \in 0..(n - 1) : q * n + a = r * n + b => q = r /\ a = b
    BY SMTT(30), <1>1, <2>1, <2>4, DigitsUnique
  <2>3. q = r /\ a = l - 1
    BY <2>2, <2>4, <2>5
  <2> QED BY <2>3 DEF q, a
<1>7. (i % n) + 1 = l
  BY <1>1, <1>6
<1> QED BY <1>4, <1>6, <1>7 DEF n, Ops, NumOps, LineOf, IterationOf
-----------------------------------------------------------------------------
(* The line of the trace an operation performs.                             *)
Ln(i) == (i % Len(tracefile)) + 1

LEMMA LineIds ==
  ASSUME tracefile \in Traces, NEW i \in Ops
  PROVE  /\ Ln(i) \in DOMAIN tracefile
         /\ LineOf(i) = tracefile[Ln(i)]
         /\ LineOf(i).out # NoId => LineOf(i).out \in 0..(Len(tracefile) - 1)
         /\ LineOf(i).in # NoId => LineOf(i).in \in 0..(Len(tracefile) - 1)
<1>1. Ln(i) \in DOMAIN tracefile /\ LineOf(i) = tracefile[Ln(i)]
  BY LineOfOp DEF Ln, LineOf
<1>2. ResultIdsFit(tracefile) /\ InputsProducedEarlier(tracefile)
  BY TraceOfReplay DEF UniqueTrace
<1>3. \A l \in DOMAIN tracefile :
        tracefile[l].out # NoId => tracefile[l].out \in 0..(Len(tracefile) - 1)
  BY <1>2 DEF ResultIdsFit
<1>4. \A l \in DOMAIN tracefile :
        tracefile[l].in # NoId => tracefile[l].in \in 0..(Len(tracefile) - 1)
  BY <1>2, <1>3 DEF InputsProducedEarlier
<1> QED BY <1>1, <1>3, <1>4

(* Two ids of the trace made unique are equal only when they are the same   *)
(* id of the same repetition.                                               *)
LEMMA UidEqual ==
  ASSUME tracefile \in Traces, NEW i \in Ops, NEW j \in Ops,
         NEW a \in 0..(Len(tracefile) - 1), NEW b \in 0..(Len(tracefile) - 1),
         UidOf(a, i) = UidOf(b, j)
  PROVE  a = b /\ IterationOf(i) = IterationOf(j)
<1> DEFINE n == Len(tracefile)
           p == IterationOf(i)
           q == IterationOf(j)
<1>1. n \in Nat \ {0} /\ p \in Nat /\ q \in Nat
  BY TraceOfReplay, LineOfOp, ReplayAssumption
<1>2. a # NoId /\ b # NoId
  BY NoIdAssumption, TraceOfReplay
<1>3. a + p * n = b + q * n
  BY <1>2 DEF UidOf, UniqueId
<1> HIDE DEF n, p, q
<1>4. p * n \in Nat /\ q * n \in Nat
  BY <1>1
<1>5. p * n + a = q * n + b
  BY <1>1, <1>3, <1>4 DEF n
<1>6. a \in 0..(n - 1) /\ b \in 0..(n - 1)
  BY DEF n
<1>7. p = q /\ a = b
  BY <1>1, <1>5, <1>6, DigitsUnique
<1> QED BY <1>7 DEF p, q

LEMMA UidTyped ==
  ASSUME tracefile \in Traces, NEW i \in Ops, NEW a \in 0..(Len(tracefile) - 1)
  PROVE  UidOf(a, i) \in Uids
<1> DEFINE n == Len(tracefile)
           p == IterationOf(i)
<1>1. n \in Nat \ {0} /\ DOMAIN tracefile = 1..n /\ p \in 0..(Repetitions - 1)
  BY TraceOfReplay, LineOfOp
<1>2. a # NoId
  BY NoIdAssumption, TraceOfReplay
<1>3. UidOf(a, i) = a + p * n
  BY <1>2 DEF UidOf, UniqueId
<1> HIDE DEF n, p
<1>4. a + 1 \in 1..n /\ p \in Nat
  BY <1>1, ReplayAssumption DEF n
<1>5. a + p * n = p * n + ((a + 1) - 1) /\ a \in Nat
  BY <1>1, <1>4
<1> QED BY <1>1, <1>3, <1>4, <1>5, OpOfLine DEF n, Uids

-----------------------------------------------------------------------------
(* What the rest of the proof knows about the trace.                        *)

LEMMA UidsTyped ==
  ASSUME tracefile \in Traces, NEW i \in Ops
  PROVE  InputUid(i) \in Uids \cup {NoId} /\ ResultUid(i) \in Uids \cup {NoId}
BY LineIds, UidTyped DEF InputUid, ResultUid, UidOf

LEMMA ResultsDistinct ==
  ASSUME tracefile \in Traces, NEW i \in Ops, NEW j \in Ops,
         ResultUid(i) # NoId, ResultUid(i) = ResultUid(j)
  PROVE  i = j
<1>1. LineOf(i).out # NoId /\ LineOf(j).out # NoId
  BY DEF ResultUid, UidOf
<1>2. LineOf(i).out = LineOf(j).out /\ IterationOf(i) = IterationOf(j)
  BY <1>1, LineIds, UidEqual DEF ResultUid
<1>3. Ln(i) = Ln(j)
  BY <1>1, <1>2, LineIds, TraceOfReplay DEF UniqueTrace, ResultIdsDistinct
<1> QED BY SMTT(30), <1>2, <1>3, LineOfOp, TraceOfReplay DEF Ln

LEMMA InputsDistinct ==
  ASSUME tracefile \in Traces, NEW i \in Ops, NEW j \in Ops,
         InputUid(i) # NoId, InputUid(i) = InputUid(j)
  PROVE  i = j
<1>1. LineOf(i).in # NoId /\ LineOf(j).in # NoId
  BY DEF InputUid, UidOf
<1>2. LineOf(i).in = LineOf(j).in /\ IterationOf(i) = IterationOf(j)
  BY <1>1, LineIds, UidEqual DEF InputUid
<1>3. Ln(i) = Ln(j)
  BY <1>1, <1>2, LineIds, TraceOfReplay DEF UniqueTrace, InputsConsumedOnce
<1> QED BY SMTT(30), <1>2, <1>3, LineOfOp, TraceOfReplay DEF Ln

LEMMA OpsInOrder ==
  ASSUME tracefile \in Traces, NEW l \in DOMAIN tracefile, NEW i \in Ops
  PROVE  LET j == IterationOf(i) * Len(tracefile) + (l - 1)
         IN j \in Ops /\ LineOf(j) = tracefile[l] /\ IterationOf(j) = IterationOf(i)
            /\ (l < Ln(i) => j < i)
<1> DEFINE j == IterationOf(i) * Len(tracefile) + (l - 1)
<1>1. j \in Ops /\ LineOf(j) = tracefile[l] /\ IterationOf(j) = IterationOf(i)
  BY LineOfOp, OpOfLine
<1>2. ASSUME l < Ln(i)
      PROVE  j < i
  <2> DEFINE b == IterationOf(i) * Len(tracefile)
             c == i % Len(tracefile)
  <2>1. i = b + c /\ j = b + (l - 1) /\ l < c + 1
    BY <1>2, LineOfOp DEF Ln
  <2>2. b \in Nat /\ c \in Nat /\ l \in Nat
    <3>1. IterationOf(i) \in Nat /\ Len(tracefile) \in Nat
      BY LineOfOp, TraceOfReplay, ReplayAssumption
    <3>2. c + 1 \in DOMAIN tracefile /\ DOMAIN tracefile = 1..Len(tracefile)
      BY LineOfOp, TraceOfReplay
    <3>3. c \in Nat
      <4>1. Len(tracefile) \in Nat \ {0} /\ i \in Nat
        BY LineOfOp, TraceOfReplay
      <4>2. c \in 0..(Len(tracefile) - 1)
        BY <4>1, DivMod
      <4> QED BY <4>1, <4>2
    <3> QED BY <3>1, <3>2, <3>3
  <2> HIDE DEF b, c, j
  <2> QED BY <2>1, <2>2
<1> QED BY <1>1, <1>2

LEMMA ProducedEarlier ==
  ASSUME tracefile \in Traces, NEW i \in Ops, InputUid(i) # NoId
  PROVE  \E j \in Ops : j < i /\ ResultUid(j) = InputUid(i)
<1>1. LineOf(i).in # NoId
  BY DEF InputUid, UidOf
<1>2. PICK l \in DOMAIN tracefile : l < Ln(i) /\ tracefile[l].out = LineOf(i).in
  BY <1>1, LineIds, TraceOfReplay DEF UniqueTrace, InputsProducedEarlier
<1> DEFINE j == IterationOf(i) * Len(tracefile) + (l - 1)
<1>3. j \in Ops /\ LineOf(j) = tracefile[l] /\ IterationOf(j) = IterationOf(i) /\ j < i
  BY <1>2, OpsInOrder
<1>4. ResultUid(j) = InputUid(i)
  BY <1>2, <1>3 DEF ResultUid, InputUid, UidOf
<1> QED BY <1>3, <1>4

LEMMA ConsumedLater ==
  ASSUME tracefile \in Traces, NEW j \in Ops, ResultUid(j) # NoId
  PROVE  \E i \in Ops : InputUid(i) = ResultUid(j)
<1>1. LineOf(j).out # NoId
  BY DEF ResultUid, UidOf
<1>2. PICK l \in DOMAIN tracefile : tracefile[l].in = LineOf(j).out
  BY <1>1, LineIds, TraceOfReplay DEF UniqueTrace, AllResultsConsumed
<1> DEFINE i == IterationOf(j) * Len(tracefile) + (l - 1)
<1>3. i \in Ops /\ LineOf(i) = tracefile[l] /\ IterationOf(i) = IterationOf(j)
  BY <1>2, OpsInOrder
<1>4. InputUid(i) = ResultUid(j)
  BY <1>2, <1>3 DEF ResultUid, InputUid, UidOf
<1> QED BY <1>3, <1>4

-----------------------------------------------------------------------------
(* The inductive invariant.                                                 *)

Batched(t) == 1..Len(ops[t])
Made(t) == 1..Len(rewritten[t])

(* Sizes: how far a worker is in its batch, by its label.                   *)
Failed == {"error", "report", "exited"}
Gathering == Preparing \cup {"loop", "barrier1", "leave"}
Ready == {"barrier2"}
Acting == Performing \cup {"barrier3"}
Unmade == {"take", "claim", "clamp", "scan"}

BatchBounds == \A t \in Threads :
  /\ Len(ops[t]) <= BatchSize
  /\ Len(rewritten[t]) <= Len(ops[t])
  /\ at[t] <= Len(rewritten[t])
  /\ pc[t] \in Ready \cup Acting \cup {"barrier1", "loop", "leave"} =>
       Len(rewritten[t]) = Len(ops[t])
  /\ pc[t] \in {"flush", "assign", "push", "barrier3", "loop"} => at[t] = Len(ops[t])
  /\ pc[t] \in Unmade \cup {"make", "barrier1", "barrier2"} => at[t] = 0
  /\ pc[t] \in Unmade => rewritten[t] = <<>>
  /\ pc[t] \in {"take", "leave"} => ops[t] = <<>>
  /\ pc[t] = "claim" => Len(ops[t]) < BatchSize
  /\ t \notin members => ops[t] = <<>>

(* A batch uses at most one slot per operation made.                        *)
SlotBounds == \A t \in Threads :
  /\ next_slot[t] <= Len(rewritten[t])
  /\ free_slots[t] \subseteq 0..(next_slot[t] - 1)
  /\ \A u \in Uids : id_to_idx[t][u] < next_slot[t]

(* What is left of a claimed range was handed out, and fits in the batch.   *)
ClaimedBounds == \A t \in Threads :
  /\ claimed[t].end <= idx
  /\ claimed[t].end <= NumOps
  /\ pc[t] = "scan" => /\ claimed[t].first < claimed[t].end
                       /\ Len(ops[t]) + (claimed[t].end - claimed[t].first) <= BatchSize
  /\ pc[t] # "scan" => claimed[t].end <= claimed[t].first
  /\ pc[t] = "clamp" => NumOps <= idx

FlushBounds == \A t \in Threads :
  /\ unflushed[t] # {} => pc[t] \in {"flush", "assign", "push"} \cup Failed
  /\ \A u \in unflushed[t] : id_to_idx[t][u] # NoSlot
  /\ pc[t] \in {"assign", "push"} => pending[t].uid \in unflushed[t]

Sizes == TypeOK /\ BatchBounds /\ SlotBounds /\ ClaimedBounds /\ FlushBounds

(* The barrier: the threads that have not failed or left are in one of      *)
(* three phases, and a thread that failed is waited for, so that no phase   *)
(* ends after that.                                                         *)
Lockstep ==
  /\ \A t \in Threads : t \notin members => pc[t] = "exited"
  /\ \A t \in waiting : pc[t] \in Barriers
  /\ \A t, u \in Threads : pc[t] \in Gathering => pc[u] \notin Ready \cup Acting
  /\ \A t, u \in Threads : pc[t] \in Ready => pc[u] \notin Acting

(* The places of an operation, as in Places but with the parts of a place   *)
(* apart; OnePlace says of them what EachOpInOnePlace counts.               *)
Place(kind, a, b, i) ==
  \/ kind = "unclaimed" /\ a = 0 /\ b = 0 /\ idx <= i
  \/ /\ kind = "claimed" /\ a \in Threads /\ b = 0
     /\ claimed[a].first <= i /\ i < claimed[a].end
  \/ /\ kind = "batch" /\ a \in Threads
     /\ b \in (at[a] + 1)..Len(ops[a]) /\ ops[a][b] = i
  \/ kind = "parked" /\ a \in Uids /\ b = 0 /\ id_map[a] = Parked(i)
  \/ kind = "pending" /\ a \in Threads /\ b = 0 /\ pc[a] = "push" /\ pending[a].op = i
  \/ kind = "queued" /\ a \in 1..Len(queued_ops) /\ b = 0 /\ queued_ops[a] = i
  \/ kind = "performed" /\ a = 0 /\ b = 0 /\ i \in performed

OnlyAt(kind, a, b, i) ==
  /\ Place(kind, a, b, i)
  /\ \A kind2, a2, b2 : Place(kind2, a2, b2, i) => kind2 = kind /\ a2 = a /\ b2 = b

OnePlace == \A i \in Ops : \E kind, a, b : OnlyAt(kind, a, b, i)

(* No operation is twice in a batch, performed there or not.                *)
BatchesDisjoint ==
  \A t, s \in Threads : \A k \in Batched(t), m \in Batched(s) :
    ops[t][k] = ops[s][m] => t = s /\ k = m

PerformedPrefix == \A t \in Threads : \A k \in 1..at[t] : ops[t][k] \in performed

IsPointer(u) == id_map[u].kind = "pointer"

ParkedUnderInput == \A u \in Uids, i \in Ops : id_map[u] = Parked(i) => InputUid(i) = u

PendingIsParked == \A t \in Threads :
  /\ pc[t] = "assign" => pending[t].op \in Ops /\ id_map[pending[t].uid] = Parked(pending[t].op)
  /\ pc[t] = "push" => /\ pending[t].op \in Ops
                       /\ InputUid(pending[t].op) = pending[t].uid
                       /\ IsPointer(pending[t].uid)

(* id_to_idx has the results made in the batch and not consumed in it.      *)
LiveIn(t, k) ==
  \A m \in (k + 1)..Len(rewritten[t]) : InputUid(ops[t][m]) # ResultUid(ops[t][k])

IdsOfBatch == \A t \in Threads :
  /\ \A u \in Uids : id_to_idx[t][u] # NoSlot =>
       \E k \in Made(t) : /\ ResultUid(ops[t][k]) = u /\ LiveIn(t, k)
                          /\ rewritten[t][k].out = id_to_idx[t][u]
  /\ \A k \in Made(t) : ResultUid(ops[t][k]) # NoId /\ LiveIn(t, k) =>
       id_to_idx[t][ResultUid(ops[t][k])] # NoSlot

(* A result is the worker's until it has been flushed; from then on it is   *)
(* in the id map, until an operation that consumes it is made.              *)
Holds(t, u) ==
  /\ id_to_idx[t][u] # NoSlot
  /\ pc[t] \in {"make", "barrier1", "barrier2", "run"} \/ u \in unflushed[t]

Flushing(t, u) == pc[t] = "push" /\ pending[t].uid = u

Unconsumed(u) ==
  /\ \A c \in performed : InputUid(c) # u
  /\ \A t \in Threads : \A k \in Made(t) : InputUid(ops[t][k]) # u

PointersRecorded == \A u \in Uids : IsPointer(u) =>
  /\ \E j \in performed : ResultUid(j) = u
  /\ \A t \in Threads : Holds(t, u) => Flushing(t, u)
  /\ Unconsumed(u)

HeldUnconsumed == \A t \in Threads, u \in Uids : Holds(t, u) => Unconsumed(u)

(* An operation is made after the one that produces its input.              *)
InputsMade ==
  /\ \A t \in Threads : \A k \in Made(t) : InputUid(ops[t][k]) # NoId =>
       \E j \in Ops : /\ ResultUid(j) = InputUid(ops[t][k])
                      /\ j \in performed \/ \E m \in 1..(k - 1) : ops[t][m] = j
  /\ \A c \in performed : InputUid(c) # NoId =>
       \E j \in performed : ResultUid(j) = InputUid(c)

(* The input of an operation that was let into a batch is made before it in *)
(* the batch or is in the id map, and stays there for it.                   *)
LocalAllocs == \A t \in Threads : \A u \in local_allocs[t] :
  \E k \in Batched(t) : ResultUid(ops[t][k]) = u

InputsInReach == \A t \in Threads : \A k \in (Len(rewritten[t]) + 1)..Len(ops[t]) :
  InputUid(ops[t][k]) # NoId =>
    \/ IsPointer(InputUid(ops[t][k]))
    \/ \E m \in 1..(k - 1) : ResultUid(ops[t][m]) = InputUid(ops[t][k])

QueuedInputs == \A k \in 1..Len(queued_ops) :
  InputUid(queued_ops[k]) # NoId /\ IsPointer(InputUid(queued_ops[k]))

IInv ==
  /\ Sizes
  /\ Lockstep
  /\ OnePlace
  /\ BatchesDisjoint
  /\ PerformedPrefix
  /\ ParkedUnderInput
  /\ PendingIsParked
  /\ IdsOfBatch
  /\ PointersRecorded
  /\ HeldUnconsumed
  /\ InputsMade
  /\ LocalAllocs
  /\ InputsInReach
  /\ QueuedInputs

LEMMA TraceKept ==
  ASSUME tracefile' = tracefile
  PROVE  /\ NumOps' = NumOps /\ Ops' = Ops /\ Uids' = Uids
         /\ Pointers' = Pointers /\ MapVals' = MapVals
         /\ \A i : InputUid(i)' = InputUid(i) /\ ResultUid(i)' = ResultUid(i)
         /\ \A i : Allocates(i)' = Allocates(i) /\ LineOf(i)' = LineOf(i)
         /\ \A i : Producers(i)' = Producers(i)
BY DEF NumOps, Ops, Uids, Pointers, MapVals, InputUid, ResultUid, Allocates, LineOf, UidOf,
       IterationOf, Producers

LEMMA SubSeqLength ==
  ASSUME NEW S, NEW s \in Seq(S), NEW n \in 0..Len(s)
  PROVE  /\ Len(SubSeq(s, 1, n)) = n
         /\ Len(SubSeq(s, n + 1, Len(s))) = Len(s) - n
         /\ \A k \in 1..n : SubSeq(s, 1, n)[k] = s[k]
         /\ \A k \in 1..(Len(s) - n) : SubSeq(s, n + 1, Len(s))[k] = s[n + k]
<1>1. Len(s) \in Nat /\ \A k \in 1..Len(s) : s[k] \in S
  BY LenProperties, ElementOfSeq
<1>2. /\ Len(SubSeq(s, 1, n)) = IF 1 <= n THEN n - 1 + 1 ELSE 0
      /\ \A k \in 1..(n - 1 + 1) : SubSeq(s, 1, n)[k] = s[1 + k - 1]
  BY <1>1, SubSeqProperties
<1>3. /\ Len(SubSeq(s, n + 1, Len(s))) =
           IF n + 1 <= Len(s) THEN Len(s) - (n + 1) + 1 ELSE 0
      /\ \A k \in 1..(Len(s) - (n + 1) + 1) :
           SubSeq(s, n + 1, Len(s))[k] = s[(n + 1) + k - 1]
  BY <1>1, SubSeqProperties
<1> QED BY <1>1, <1>2, <1>3

LEMMA NoElements ==
  \A S : <<>> \in Seq(S) /\ Len(<<>>) = 0
BY EmptySeq

LEMMA SubSeqTyped ==
  ASSUME NEW S, NEW s \in Seq(S), NEW m \in 1..(Len(s) + 1), NEW n \in 0..Len(s)
  PROVE  SubSeq(s, m, n) \in Seq(S)
BY SubSeqProperties, ElementOfSeq, LenProperties

LEMMA NumOpsNat ==
  ASSUME tracefile \in Traces
  PROVE  NumOps \in Nat /\ Ops = 0..(NumOps - 1)
BY TraceOfReplay, ReplayAssumption DEF NumOps, Ops

LEMMA LeastNumber ==
  ASSUME NEW S \in SUBSET Nat, S # {}
  PROVE  \E s \in S : \A r \in S : s <= r
<1> DEFINE R == {p \in Nat \X Nat : p[1] < p[2]}
<1>1. IsWellFoundedOn(R, Nat)
  BY NatLessThanWellFounded DEF OpToRel
<1>2. PICK s \in S : \A r \in S : ~(<<r, s>> \in R)
  BY <1>1, WFMin
<1>3. ASSUME NEW r \in S PROVE s <= r
  <2>1. s \in Nat /\ r \in Nat /\ <<r, s>> \in Nat \X Nat
    OBVIOUS
  <2>2. ~(r < s)
    BY <1>2, <2>1
  <2> QED BY <2>1, <2>2
<1> QED BY <1>3

(* The lowest available slot exists.                                        *)
LEMMA LowestSlot ==
  ASSUME NEW S \in SUBSET Nat, S # {}
  PROVE  (CHOOSE s \in S : \A r \in S : s <= r) \in S
BY LeastNumber

(* The slots MakeFromOps uses for the next operation of a batch: at most    *)
(* one that was never used, and a result takes the input's when it can.     *)
LEMMA MakeOpSlots ==
  ASSUME Sizes, NEW t \in Threads, Len(rewritten[t]) < Len(ops[t]),
         NEW i, i = ops[t][Len(rewritten[t]) + 1]
  PROVE  /\ i \in Ops
         /\ InputUid(i) \in Uids \cup {NoId} /\ ResultUid(i) \in Uids \cup {NoId}
         /\ next_slot[t] \in Nat /\ next_slot[t] < BatchSize
         /\ InputUid(i) = NoId => InputSlot(t, i) = NoSlot
         /\ IsLocal(t, i) => /\ InputSlot(t, i) = id_to_idx[t][InputUid(i)]
                             /\ InputSlot(t, i) \in 0..(next_slot[t] - 1)
                             /\ NextAfterInput(t, i) = next_slot[t]
         /\ IsGlobal(t, i) => /\ InputSlot(t, i) = next_slot[t]
                              /\ NextAfterInput(t, i) = next_slot[t] + 1
         /\ NextAfterInput(t, i) \in {next_slot[t], next_slot[t] + 1}
         /\ InputSlot(t, i) \in 0..(NextAfterInput(t, i) - 1) \cup {NoSlot}
         /\ FreeAfterInput(t, i) \subseteq 0..(NextAfterInput(t, i) - 1)
         /\ ResultUid(i) = NoId => ResultSlot(t, i) = NoSlot
         /\ ResultUid(i) # NoId =>
              \/ ResultSlot(t, i) \in FreeAfterInput(t, i)
              \/ FreeAfterInput(t, i) = {} /\ ResultSlot(t, i) = NextAfterInput(t, i)
         /\ FreeAfterInput(t, i) = {} => NextAfterInput(t, i) = next_slot[t]
<1> USE DEF Sizes
<1>1. /\ Len(ops[t]) \in Nat /\ Len(rewritten[t]) \in Nat
      /\ Len(rewritten[t]) + 1 \in 1..Len(ops[t])
      /\ Len(ops[t]) <= BatchSize
  BY LenProperties DEF TypeOK, BatchBounds
<1>2. i \in Ops
  BY <1>1, ElementOfSeq DEF TypeOK
<1>3. InputUid(i) \in Uids \cup {NoId} /\ ResultUid(i) \in Uids \cup {NoId}
  BY <1>2, UidsTyped DEF TypeOK
<1>4. /\ next_slot[t] \in Nat /\ next_slot[t] < BatchSize
      /\ free_slots[t] \subseteq 0..(next_slot[t] - 1)
  BY SMTT(30), <1>1, BatchAssumption DEF TypeOK, SlotBounds
<1>5. InputUid(i) = NoId => InputSlot(t, i) = NoSlot
  BY DEF InputSlot, IsLocal, IsGlobal
<1>6. IsLocal(t, i) => /\ InputSlot(t, i) = id_to_idx[t][InputUid(i)]
                       /\ InputSlot(t, i) \in 0..(next_slot[t] - 1)
                       /\ NextAfterInput(t, i) = next_slot[t]
  BY <1>3, <1>4 DEF TypeOK, SlotBounds, InputSlot, IsLocal, NextAfterInput, SlotsOrNone, Slots, NoSlot
<1>7. IsGlobal(t, i) => /\ InputSlot(t, i) = next_slot[t]
                        /\ NextAfterInput(t, i) = next_slot[t] + 1
  BY DEF InputSlot, IsLocal, IsGlobal, NextAfterInput
<1>8. /\ NextAfterInput(t, i) \in {next_slot[t], next_slot[t] + 1}
      /\ InputSlot(t, i) \in 0..(NextAfterInput(t, i) - 1) \cup {NoSlot}
  BY <1>4, <1>5, <1>6, <1>7 DEF IsLocal, IsGlobal, NextAfterInput
<1>9. FreeAfterInput(t, i) \subseteq 0..(NextAfterInput(t, i) - 1)
  BY <1>4, <1>8 DEF FreeAfterInput
<1>10. ResultUid(i) = NoId => ResultSlot(t, i) = NoSlot
  BY DEF ResultSlot
<1>11. ResultUid(i) # NoId =>
          \/ ResultSlot(t, i) \in FreeAfterInput(t, i)
          \/ FreeAfterInput(t, i) = {} /\ ResultSlot(t, i) = NextAfterInput(t, i)
  <2>1. FreeAfterInput(t, i) \in SUBSET Nat
    BY <1>4, <1>8, <1>9
  <2> QED BY <2>1, LowestSlot DEF ResultSlot
<1>12. FreeAfterInput(t, i) = {} => NextAfterInput(t, i) = next_slot[t]
  BY <1>4, <1>5, <1>6, <1>7 DEF FreeAfterInput, NextAfterInput, IsLocal, IsGlobal, NoSlot
<1> QED BY <1>2, <1>3, <1>4, <1>5, <1>6, <1>7, <1>8, <1>9, <1>10, <1>11, <1>12

LEMMA MakeOpPair ==
  ASSUME Sizes, NEW t \in Threads, Len(rewritten[t]) < Len(ops[t]),
         NEW i, i = ops[t][Len(rewritten[t]) + 1]
  PROVE  InputSlot(t, i) \in SlotsOrNone /\ ResultSlot(t, i) \in SlotsOrNone
<1>1. /\ next_slot[t] \in Nat /\ next_slot[t] < BatchSize /\ BatchSize \in Nat
      /\ NextAfterInput(t, i) \in {next_slot[t], next_slot[t] + 1}
      /\ InputSlot(t, i) \in 0..(NextAfterInput(t, i) - 1) \cup {NoSlot}
      /\ FreeAfterInput(t, i) \subseteq 0..(NextAfterInput(t, i) - 1)
  BY MakeOpSlots, BatchAssumption
<1>2. \/ ResultSlot(t, i) = NoSlot
      \/ ResultSlot(t, i) \in FreeAfterInput(t, i)
      \/ ResultSlot(t, i) = next_slot[t]
  BY MakeOpSlots
<1> QED BY <1>1, <1>2 DEF SlotsOrNone, Slots

(* A result to flush is in a slot of the batch.                             *)
LEMMA FlushedSlot ==
  ASSUME Sizes, NEW t \in Threads, NEW u \in unflushed[t]
  PROVE  /\ u \in Uids
         /\ id_to_idx[t][u] \in Slots
         /\ Pointer(slots[t][id_to_idx[t][u]]) \in MapVals
<1>1. u \in Uids /\ id_to_idx[t][u] \in Slots
  BY DEF Sizes, TypeOK, FlushBounds, SlotsOrNone
<1> QED BY <1>1 DEF Sizes, TypeOK, MapVals

LEMMA TraceUnchanged ==
  ASSUME [Next]_vars
  PROVE  tracefile' = tracefile
<1>1. ASSUME NEW t \in Threads, Prepare(t) PROVE tracefile' = tracefile
  <2>1. CASE Loop(t) \/ Clamp(t) \/ MakeOp(t) \/ BatchMade(t)
    BY <2>1 DEF Loop, Clamp, MakeOp, BatchMade
  <2>2. CASE TakeFromQueue(t)
    BY <2>2 DEF TakeFromQueue
  <2>3. CASE Claim(t)
    BY <2>3 DEF Claim
  <2>4. CASE ScanLine(t)
    BY <2>4 DEF ScanLine
  <2> QED BY <1>1, <2>1, <2>2, <2>3, <2>4 DEF Prepare
<1>2. ASSUME NEW t \in Threads, Flush(t) PROVE tracefile' = tracefile
  BY <1>2 DEF Flush, FlushOne, AssignPointer, PushPending, Flushed
<1>3. ASSUME NEW t \in Threads, ArriveAndWait(t) \/ ArriveAndDrop(t) PROVE tracefile' = tracefile
  BY <1>3 DEF ArriveAndWait, ArriveAndDrop
<1>4. ASSUME NEW t \in Threads, Perform(t) \/ AllocatorError(t) \/ Performed(t)
      PROVE  tracefile' = tracefile
  BY <1>4 DEF Perform, AllocatorError, Performed
<1>5. ASSUME NEW t \in Threads, StoreDone(t) \/ ReportStatus(t) PROVE tracefile' = tracefile
  BY <1>5 DEF StoreDone, ReportStatus
<1>6. CASE Join \/ Returned \/ UNCHANGED vars
  BY <1>6 DEF Join, Returned, vars
<1> QED BY <1>1, <1>2, <1>3, <1>4, <1>5, <1>6 DEF Next, Worker

LEMMA TypePreserved ==
  ASSUME IInv, [Next]_vars
  PROVE  TypeOK'
<1>1. tracefile' = tracefile
  BY TraceUnchanged
<1>2. /\ Ops' = Ops /\ Uids' = Uids /\ Pointers' = Pointers /\ MapVals' = MapVals
  BY <1>1, TraceKept
<1> USE <1>1, <1>2 DEF IInv, Sizes
<1>3. ASSUME NEW t \in Threads, Loop(t) PROVE TypeOK'
  BY <1>3, NoElements DEF TypeOK, Loop, Goto, shared, history, Labels, SlotsOrNone, Pointers
<1>4. ASSUME NEW t \in Threads, TakeFromQueue(t) PROVE TypeOK'
  <2> DEFINE n == Len(queued_ops)
             taken == IF n < MaxQueuedOpsTaken THEN n ELSE MaxQueuedOpsTaken
  <2>1. queued_ops \in Seq(Ops) /\ n \in Nat /\ taken \in 0..n
    BY LenProperties, BatchAssumption DEF TypeOK
  <2>2. SubSeq(queued_ops, 1, taken) \in Seq(Ops) /\ AfterTaking(taken) \in Seq(Ops)
    BY <2>1, SubSeqTyped DEF AfterTaking
  <2>3. /\ ops' = [ops EXCEPT ![t] = SubSeq(queued_ops, 1, taken)]
        /\ queued_ops' = AfterTaking(taken)
    BY <1>4 DEF TakeFromQueue
  <2> HIDE DEF taken, n
  <2> QED BY ZenonT(60), <1>4, <2>2, <2>3 DEF TypeOK, TakeFromQueue, Goto, Labels, history
<1>5. ASSUME NEW t \in Threads, Claim(t) PROVE TypeOK'
  <2>1. NumOps \in Nat /\ BatchSize - Len(ops[t]) \in Nat
    BY NumOpsNat, BatchAssumption, LenProperties DEF TypeOK, BatchBounds
  <2> DEFINE room == BatchSize - Len(ops[t])
             end == IF idx + room < NumOps THEN idx + room ELSE NumOps
  <2>4. idx \in Nat /\ idx + room \in Nat /\ end \in Nat
    BY <2>1 DEF TypeOK
  <2>5. /\ idx' = idx + room
        /\ \/ claimed' = claimed
           \/ claimed' = [claimed EXCEPT ![t] = [first |-> idx, end |-> end]]
        /\ pc' = [pc EXCEPT ![t] = "clamp"] \/ pc' = [pc EXCEPT ![t] = "scan"]
    BY <1>5 DEF Claim, Goto
  <2> HIDE DEF room, end
  <2>2. claimed' \in [Threads -> [first : Nat, end : Nat]]
    <3>1. claimed \in [Threads -> [first : Nat, end : Nat]] /\ idx \in Nat
      BY DEF TypeOK
    <3>2. [first |-> idx, end |-> end] \in [first : Nat, end : Nat]
      BY <2>4
    <3> QED BY <2>5, <3>1, <3>2
  <2>3. pc' \in [Threads -> Labels] /\ idx' \in Nat
    BY <2>4, <2>5 DEF TypeOK, Labels
  <2> QED BY <1>5, <2>2, <2>3 DEF TypeOK, Claim, history
<1>6. ASSUME NEW t \in Threads, ScanLine(t) PROVE TypeOK'
  <2> DEFINE i == claimed[t].first
  <2>1. i \in Ops /\ i + 1 \in Nat
    BY <1>6, NumOpsNat DEF TypeOK, ClaimedBounds, ScanLine
  <2>2. InputUid(i) \in Uids \cup {NoId} /\ ResultUid(i) \in Uids \cup {NoId}
    BY <2>1, UidsTyped DEF TypeOK
  <2>3. Append(ops[t], i) \in Seq(Ops)
    BY <2>1, AppendProperties DEF TypeOK
  <2>4. id_map' \in [Uids -> MapVals]
    BY <1>6, <2>1, <2>2 DEF TypeOK, ScanLine, MapVals
  <2>5. local_allocs' \in [Threads -> SUBSET Uids]
    BY <1>6, <2>2 DEF TypeOK, ScanLine, history
  <2>6. ops' \in [Threads -> Seq(Ops)]
    BY <1>6, <2>3 DEF TypeOK, ScanLine, history
  <2>7. claimed' \in [Threads -> [first : Nat, end : Nat]]
    BY <1>6, <2>1 DEF TypeOK, ScanLine, history
  <2>8. pc' \in [Threads -> Labels]
    BY <1>6 DEF TypeOK, ScanLine, Goto, Labels
  <2> QED BY <1>6, <2>4, <2>5, <2>6, <2>7, <2>8 DEF TypeOK, ScanLine, history
<1>7. ASSUME NEW t \in Threads, MakeOp(t) PROVE TypeOK'
  <2> DEFINE i == ops[t][Len(rewritten[t]) + 1]
             pair == [in |-> InputSlot(t, i), out |-> ResultSlot(t, i)]
  <2>1. Len(rewritten[t]) < Len(ops[t])
    BY <1>7 DEF MakeOp
  <2>2. /\ i \in Ops
        /\ InputUid(i) \in Uids \cup {NoId} /\ ResultUid(i) \in Uids \cup {NoId}
        /\ IsGlobal(t, i) => InputUid(i) \in Uids
    BY <2>1, MakeOpSlots DEF IsGlobal
  <2>12. /\ next_slot[t] \in Nat /\ next_slot[t] < BatchSize /\ BatchSize \in Nat
         /\ NextAfterInput(t, i) \in {next_slot[t], next_slot[t] + 1}
         /\ FreeAfterInput(t, i) \subseteq 0..(NextAfterInput(t, i) - 1)
    BY <2>1, MakeOpSlots, BatchAssumption
  <2>3. InputSlot(t, i) \in SlotsOrNone /\ ResultSlot(t, i) \in SlotsOrNone
    BY <2>1, MakeOpPair
  <2>4. NextAfterInput(t, i) \in Nat /\ NextAfterInput(t, i) + 1 \in Nat
    BY <2>1, MakeOpSlots
  <2>5. FreeAfterResult(t, i) \in SUBSET Slots
    BY <2>12 DEF FreeAfterResult, Slots
  <2>6. Append(rewritten[t], pair) \in Seq([in : SlotsOrNone, out : SlotsOrNone])
    BY <2>3, AppendProperties DEF TypeOK
  <2>7. rewritten' \in [Threads -> Seq([in : SlotsOrNone, out : SlotsOrNone])]
    BY <1>7, <2>6 DEF TypeOK, MakeOp
  <2>8. next_slot' \in [Threads -> Nat] /\ free_slots' \in [Threads -> SUBSET Slots]
    BY <1>7, <2>4, <2>5 DEF TypeOK, MakeOp
  <2>9. id_to_idx' \in [Threads -> [Uids -> SlotsOrNone]]
    BY <1>7, <2>2, <2>3 DEF TypeOK, MakeOp, SlotsOrNone
  <2>10. slots' \in [Threads -> [Slots -> Pointers]]
    <3>1. \A val \in MapVals : ReadPointer(val) \in Pointers
      BY DEF MapVals, Empty, Pointer, Parked, ReadPointer, Pointers
    <3>2. \/ slots' = slots
          \/ /\ IsGlobal(t, i)
             /\ slots' = [slots EXCEPT ![t][InputSlot(t, i)] = ReadPointer(id_map[InputUid(i)])]
      BY <1>7 DEF MakeOp
    <3>3. slots \in [Threads -> [Slots -> Pointers]] /\ id_map \in [Uids -> MapVals]
      BY DEF TypeOK
    <3> QED BY <2>2, <3>1, <3>2, <3>3
  <2>11. id_map' \in [Uids -> MapVals] /\ pc' \in [Threads -> Labels]
    BY <1>7, <2>2 DEF TypeOK, MakeOp, Goto, Labels, MapVals
  <2> QED BY <1>7, <2>7, <2>8, <2>9, <2>10, <2>11 DEF TypeOK, MakeOp, history
<1>8. ASSUME NEW t \in Threads, Clamp(t) PROVE TypeOK'
  BY <1>8, NumOpsNat DEF TypeOK, Clamp, Goto, shared, locals, history, Labels
<1>9. ASSUME NEW t \in Threads, BatchMade(t) PROVE TypeOK'
  BY <1>9 DEF TypeOK, BatchMade, Goto, shared, locals, history, Labels
<1>10. ASSUME NEW t \in Threads, AllocatorError(t) PROVE TypeOK'
  BY <1>10 DEF TypeOK, AllocatorError, Goto, shared, locals, history, Labels
<1>11. ASSUME NEW t \in Threads, Flushed(t) PROVE TypeOK'
  BY <1>11 DEF TypeOK, Flushed, Goto, shared, locals, history, Labels
<1>12. ASSUME NEW t \in Threads, StoreDone(t) PROVE TypeOK'
  BY <1>12 DEF TypeOK, StoreDone, Goto, shared, locals, history, Labels
<1>13. ASSUME NEW t \in Threads, ReportStatus(t) PROVE TypeOK'
  BY <1>13 DEF TypeOK, ReportStatus, Goto, shared, locals, history, Labels
<1>14. ASSUME NEW t \in Threads, ArriveAndWait(t) PROVE TypeOK'
  <2>1. pc' \in [Threads -> Labels]
    <3>1. \A u \in waiting \cup {t} : AfterBarrier(pc[u]) \in Labels
      BY <1>14 DEF ArriveAndWait, Lockstep, Barriers, AfterBarrier, Labels
    <3>2. pc \in [Threads -> Labels]
      BY DEF TypeOK
    <3>3. \/ pc' = pc
          \/ pc' = [u \in Threads |-> IF u \in waiting \cup {t} THEN AfterBarrier(pc[u]) ELSE pc[u]]
      BY <1>14 DEF ArriveAndWait
    <3> QED BY <3>1, <3>2, <3>3
  <2>2. waiting' \subseteq members
    BY <1>14 DEF TypeOK, ArriveAndWait, Lockstep, Barriers
  <2> QED BY <1>14, <2>1, <2>2 DEF TypeOK, ArriveAndWait, locals, history
<1>15. ASSUME NEW t \in Threads, ArriveAndDrop(t) PROVE TypeOK'
  <2>1. pc' \in [Threads -> Labels]
    BY <1>15 DEF TypeOK, ArriveAndDrop, Lockstep, Barriers, AfterBarrier, Labels
  <2>2. waiting' \subseteq members' /\ members' \subseteq Threads
    BY <1>15 DEF TypeOK, ArriveAndDrop, Lockstep, Barriers
  <2> QED BY <1>15, <2>1, <2>2 DEF TypeOK, ArriveAndDrop, locals, history
<1>16. ASSUME NEW t \in Threads, Perform(t) PROVE TypeOK'
  <2> DEFINE i == ops[t][at[t] + 1]
             result == IF Allocates(i) THEN i ELSE Null
  <2>1. i \in Ops
    BY <1>16, ElementOfSeq, LenProperties DEF TypeOK, Perform
  <2>2. performed' \subseteq Ops /\ live' \subseteq Ops
    BY <1>16, <2>1 DEF TypeOK, Perform
  <2>3. slots' \in [Threads -> [Slots -> Pointers]]
    <3>1. result \in Pointers
      BY <2>1 DEF Pointers
    <3>2. \/ slots' = slots
          \/ slots' = [slots EXCEPT ![t][rewritten[t][at[t] + 1].out] = result]
      BY <1>16 DEF Perform
    <3>3. slots \in [Threads -> [Slots -> Pointers]]
      BY DEF TypeOK
    <3> QED BY <3>1, <3>2, <3>3
  <2>4. at' \in [Threads -> Nat]
    BY <1>16 DEF TypeOK, Perform
  <2> QED BY <1>16, <2>2, <2>3, <2>4 DEF TypeOK, Perform, shared
<1>17. ASSUME NEW t \in Threads, Performed(t) PROVE TypeOK'
  BY <1>17 DEF TypeOK, Performed, Goto, shared, locals, history, Labels
<1>18. ASSUME NEW t \in Threads, FlushOne(t) PROVE TypeOK'
  <2>1. PICK u \in unflushed[t] :
          IF id_map[u] = Empty
            THEN /\ id_map' = [id_map EXCEPT ![u] = Pointer(slots[t][id_to_idx[t][u]])]
                 /\ unflushed' = [unflushed EXCEPT ![t] = @ \ {u}]
                 /\ UNCHANGED <<pc, pending>>
            ELSE /\ pending' = [pending EXCEPT ![t] = [uid |-> u, op |-> ReadParked(id_map[u])]]
                 /\ Goto(t, "assign")
                 /\ UNCHANGED <<id_map, unflushed>>
    BY <1>18 DEF FlushOne
  <2>2. u \in Uids /\ Pointer(slots[t][id_to_idx[t][u]]) \in MapVals
    BY <1>18, <2>1, FlushedSlot
  <2>3. ReadParked(id_map[u]) \in Ops \cup {NoOp}
    <3>1. id_map[u] \in MapVals
      BY <2>2 DEF TypeOK
    <3> QED BY <3>1 DEF MapVals, Empty, Pointer, Parked, ReadParked
  <2>4. id_map' \in [Uids -> MapVals] /\ unflushed' \in [Threads -> SUBSET Uids]
    <3>1. id_map \in [Uids -> MapVals] /\ unflushed \in [Threads -> SUBSET Uids]
      BY DEF TypeOK
    <3> QED BY <2>1, <2>2, <3>1
  <2>5. /\ pending' \in [Threads -> [uid : Uids \cup {NoSlot}, op : Ops \cup {NoOp}]]
        /\ pc' \in [Threads -> Labels]
    <3>1. /\ pending \in [Threads -> [uid : Uids \cup {NoSlot}, op : Ops \cup {NoOp}]]
          /\ pc \in [Threads -> Labels]
      BY DEF TypeOK
    <3> QED BY <2>1, <2>2, <2>3, <3>1 DEF Goto, Labels
  <2> QED BY <1>18, <2>4, <2>5 DEF TypeOK, FlushOne, history
<1>19. ASSUME NEW t \in Threads, AssignPointer(t) PROVE TypeOK'
  <2>1. pending[t].uid \in unflushed[t]
    BY <1>19 DEF AssignPointer, FlushBounds
  <2>2. pending[t].uid \in Uids /\ Pointer(slots[t][id_to_idx[t][pending[t].uid]]) \in MapVals
    BY <2>1, FlushedSlot
  <2>3. id_map' \in [Uids -> MapVals]
    <3>1. id_map \in [Uids -> MapVals]
      BY DEF TypeOK
    <3> QED BY <1>19, <2>2, <3>1 DEF AssignPointer
  <2>4. pc' \in [Threads -> Labels]
    BY ZenonT(60), <1>19 DEF TypeOK, AssignPointer, Goto, Labels
  <2> QED BY <1>19, <2>3, <2>4 DEF TypeOK, AssignPointer, locals, history
<1>20. ASSUME NEW t \in Threads, PushPending(t) PROVE TypeOK'
  <2>1. pending[t].op \in Ops
    BY <1>20 DEF PushPending, PendingIsParked
  <2>2. queued_ops' \in Seq(Ops)
    BY <1>20, <2>1, AppendProperties DEF TypeOK, PushPending
  <2> QED BY <1>20, <2>2 DEF TypeOK, PushPending, Goto, history, Labels
<1>21. ASSUME Join \/ UNCHANGED vars PROVE TypeOK'
  BY <1>21 DEF TypeOK, Join, vars, shared, locals, history
<1> QED BY <1>3, <1>4, <1>5, <1>6, <1>7, <1>8, <1>9, <1>10, <1>11, <1>12, <1>13, <1>14, <1>15, <1>16, <1>17, <1>18, <1>19, <1>20, <1>21 DEF Next, Worker, Prepare, Flush, Returned
LEMMA LockstepPreserved ==
  ASSUME IInv, [Next]_vars
  PROVE  Lockstep'
<1> USE DEF IInv, Sizes, TypeOK, Barriers, Labels, Preparing, Performing, Gathering, Ready, Acting
<1>1. ASSUME NEW t \in Threads, Loop(t) PROVE Lockstep'
  BY <1>1 DEF Lockstep, Loop, Goto, shared, history
<1>2. ASSUME NEW t \in Threads, TakeFromQueue(t) PROVE Lockstep'
  BY <1>2 DEF Lockstep, TakeFromQueue, Goto, history
<1>3. ASSUME NEW t \in Threads, Claim(t) PROVE Lockstep'
  <2>1. pc' = [pc EXCEPT ![t] = "clamp"] \/ pc' = [pc EXCEPT ![t] = "scan"]
    BY <1>3 DEF Claim, Goto
  <2>2. pc[t] = "claim" /\ members' = members /\ waiting' = waiting
    BY <1>3 DEF Claim
  <2>3. pc'[t] \in {"clamp", "scan"} /\ \A u \in Threads \ {t} : pc'[u] = pc[u]
    BY <2>1
  <2>4. \A u \in Threads : u \notin members' => pc'[u] = "exited"
    BY <2>2, <2>3 DEF Lockstep
  <2>5. \A u \in waiting' : pc'[u] \in Barriers
    BY <2>2, <2>3 DEF Lockstep
  <2>6. \A u \in Threads : /\ pc'[u] \in Gathering <=> pc[u] \in Gathering
                           /\ pc'[u] \in Ready <=> pc[u] \in Ready
                           /\ pc'[u] \in Acting <=> pc[u] \in Acting
    BY <2>2, <2>3
  <2> QED BY <2>4, <2>5, <2>6 DEF Lockstep
<1>4. ASSUME NEW t \in Threads, Clamp(t) PROVE Lockstep'
  BY <1>4 DEF Lockstep, Clamp, Goto, locals, history
<1>5. ASSUME NEW t \in Threads, ScanLine(t) PROVE Lockstep'
  BY <1>5 DEF Lockstep, ScanLine, Goto, history
<1>6. ASSUME NEW t \in Threads, MakeOp(t) PROVE Lockstep'
  BY <1>6 DEF Lockstep, MakeOp, Goto, history
<1>7. ASSUME NEW t \in Threads, BatchMade(t) PROVE Lockstep'
  BY <1>7 DEF Lockstep, BatchMade, Goto, shared, locals, history
<1>8. ASSUME NEW t \in Threads, ArriveAndWait(t) PROVE Lockstep'
  <2>1. CASE waiting \cup {t} # members
    BY <1>8, <2>1 DEF ArriveAndWait, Lockstep
  <2>2. CASE waiting \cup {t} = members
    <3>1. /\ waiting' = {} /\ members' = members
          /\ pc' = [u \in Threads |-> IF u \in members THEN AfterBarrier(pc[u]) ELSE pc[u]]
      BY <1>8, <2>2 DEF ArriveAndWait
    <3>2. pc[t] \in Barriers /\ \A u \in members : pc[u] = pc[t]
      BY <1>8, <2>2 DEF ArriveAndWait, Lockstep
    <3>3. AfterBarrier(pc[t]) \in {"barrier2", "run", "loop"}
      BY <3>2 DEF AfterBarrier
    <3>4. \A u \in Threads : pc'[u] = IF u \in members THEN AfterBarrier(pc[t]) ELSE "exited"
      BY <3>1, <3>2 DEF Lockstep
    <3> QED BY ZenonT(60), <3>1, <3>3, <3>4 DEF Lockstep
  <2> QED BY <2>1, <2>2
<1>9. ASSUME NEW t \in Threads, ArriveAndDrop(t) PROVE Lockstep'
  <2>1. /\ pc[t] = "leave" /\ t \notin waiting /\ members' = members \ {t}
        /\ \A u \in waiting : pc[u] = "barrier1" /\ AfterBarrier(pc[u]) = "barrier2"
    BY <1>9 DEF ArriveAndDrop, Lockstep, AfterBarrier
  <2>2. CASE waiting # members'
    <3>1. waiting' = waiting /\ pc' = [pc EXCEPT ![t] = "exited"]
      BY <1>9, <2>2 DEF ArriveAndDrop
    <3> QED BY <2>1, <3>1 DEF Lockstep
  <2>3. CASE waiting = members'
    <3>1. /\ waiting' = {}
          /\ \A u \in Threads : pc'[u] = IF u \in members' THEN "barrier2" ELSE "exited"
      BY <1>9, <2>1, <2>3 DEF ArriveAndDrop, Lockstep
    <3> QED BY <2>1, <3>1 DEF Lockstep
  <2> QED BY <2>2, <2>3
<1>10. ASSUME NEW t \in Threads, Perform(t) PROVE Lockstep'
  BY <1>10 DEF Lockstep, Perform, shared
<1>11. ASSUME NEW t \in Threads, Performed(t) PROVE Lockstep'
  BY <1>11 DEF Lockstep, Performed, Goto, shared, history
<1>12. ASSUME NEW t \in Threads, AllocatorError(t) PROVE Lockstep'
  BY <1>12 DEF Lockstep, AllocatorError, Goto, shared, locals, history
<1>13. ASSUME NEW t \in Threads, FlushOne(t) PROVE Lockstep'
  BY SMTT(30), <1>13 DEF Lockstep, FlushOne, Goto, history
<1>14. ASSUME NEW t \in Threads, AssignPointer(t) PROVE Lockstep'
  <2>1. pc' = [pc EXCEPT ![t] = "error"] \/ pc' = [pc EXCEPT ![t] = "push"]
    BY <1>14 DEF AssignPointer, Goto
  <2>2. pc[t] = "assign" /\ members' = members /\ waiting' = waiting
    BY <1>14 DEF AssignPointer
  <2> QED BY SMTT(30), <2>1, <2>2 DEF Lockstep
<1>15. ASSUME NEW t \in Threads, PushPending(t) PROVE Lockstep'
  BY <1>15 DEF Lockstep, PushPending, Goto, history
<1>16. ASSUME NEW t \in Threads, Flushed(t) PROVE Lockstep'
  BY <1>16 DEF Lockstep, Flushed, Goto, shared, locals, history
<1>17. ASSUME NEW t \in Threads, StoreDone(t) PROVE Lockstep'
  BY <1>17 DEF Lockstep, StoreDone, Goto, locals, history
<1>18. ASSUME NEW t \in Threads, ReportStatus(t) PROVE Lockstep'
  BY <1>18 DEF Lockstep, ReportStatus, Goto, locals, history
<1>19. ASSUME Join \/ UNCHANGED vars PROVE Lockstep'
  BY <1>19 DEF Lockstep, Join, vars, shared, locals, history
<1> QED BY <1>1, <1>2, <1>3, <1>4, <1>5, <1>6, <1>7, <1>8, <1>9, <1>10, <1>11, <1>12, <1>13, <1>14,
       <1>15, <1>16, <1>17, <1>18, <1>19 DEF Next, Worker, Prepare, Flush, Returned

(* What a thread's arrival at the barrier does to the labels.               *)
Released(before, after) ==
  \/ before = "barrier1" /\ after = "barrier2"
  \/ before = "barrier2" /\ after = "run"
  \/ before = "barrier3" /\ after = "loop"

LEMMA ArrivalMoves ==
  ASSUME IInv, NEW t \in Threads, ArriveAndWait(t)
  PROVE  \A u \in Threads : pc'[u] = pc[u] \/ Released(pc[u], pc'[u])
<1> USE DEF IInv, Sizes
<1>1. CASE waiting \cup {t} # members
  BY <1>1 DEF ArriveAndWait
<1>2. CASE waiting \cup {t} = members
  <2>1. pc' = [u \in Threads |-> IF u \in members THEN AfterBarrier(pc[u]) ELSE pc[u]]
    BY <1>2 DEF ArriveAndWait
  <2>2. \A u \in members : pc[u] \in Barriers
    BY <1>2 DEF ArriveAndWait, Lockstep
  <2>3. \A u \in members : Released(pc[u], AfterBarrier(pc[u]))
    BY <2>2 DEF Barriers, AfterBarrier, Released
  <2> QED BY <2>1, <2>3
<1> QED BY <1>1, <1>2

LEMMA DropMoves ==
  ASSUME IInv, NEW t \in Threads, ArriveAndDrop(t)
  PROVE  /\ pc[t] = "leave" /\ pc'[t] = "exited" /\ members' = members \ {t}
         /\ \A u \in Threads \ {t} :
              pc'[u] = pc[u] \/ (pc[u] = "barrier1" /\ pc'[u] = "barrier2")
<1> USE DEF IInv, Sizes
<1>1. pc[t] = "leave" /\ members' = members \ {t}
  BY DEF ArriveAndDrop
<1>2. \A u \in waiting : pc[u] = "barrier1" /\ AfterBarrier(pc[u]) = "barrier2"
  BY <1>1 DEF TypeOK, Lockstep, Barriers, AfterBarrier, Gathering, Ready, Acting
<1>3. CASE waiting # members'
  <2>1. pc' = [u \in Threads |-> IF u = t THEN "exited" ELSE pc[u]]
    BY <1>3 DEF ArriveAndDrop
  <2> QED BY <1>1, <2>1
<1>4. CASE waiting = members'
  <2>1. pc' = [u \in Threads |-> IF u = t THEN "exited"
                 ELSE IF u \in waiting THEN AfterBarrier(pc[u]) ELSE pc[u]]
    BY <1>4 DEF ArriveAndDrop
  <2> QED BY <1>1, <1>2, <2>1
<1> QED BY <1>3, <1>4

LEMMA BatchBoundsPreserved ==
  ASSUME IInv, [Next]_vars
  PROVE  BatchBounds'
<1> Ops' = Ops /\ Uids' = Uids /\ NumOps' = NumOps
  BY TraceUnchanged, TraceKept
<1> USE DEF IInv, Sizes, Barriers, Labels, Preparing, Performing, Gathering, Ready, Acting, Unmade
<1>1. ASSUME NEW t \in Threads, Loop(t) PROVE BatchBounds'
  <2>1. /\ ops'[t] = <<>> /\ rewritten'[t] = <<>> /\ at'[t] = 0 /\ pc'[t] \in {"take", "leave"}
        /\ \A s \in Threads \ {t} : /\ ops'[s] = ops[s] /\ rewritten'[s] = rewritten[s]
                                    /\ at'[s] = at[s] /\ pc'[s] = pc[s]
        /\ members' = members /\ BatchSize \in Nat /\ Len(<<>>) = 0
    BY <1>1, BatchAssumption DEF TypeOK, Loop, Goto, shared
  <2> QED BY <2>1 DEF BatchBounds
<1>2. ASSUME NEW t \in Threads, TakeFromQueue(t) PROVE BatchBounds'
  <2> DEFINE n == Len(queued_ops)
             taken == IF n < MaxQueuedOpsTaken THEN n ELSE MaxQueuedOpsTaken
  <2>1. n \in Nat /\ taken \in 0..n /\ taken < BatchSize /\ queued_ops \in Seq(Ops)
    BY LenProperties, BatchAssumption DEF TypeOK
  <2>2. Len(SubSeq(queued_ops, 1, taken)) = taken
    BY <2>1, SubSeqLength
  <2>3. /\ ops' = [ops EXCEPT ![t] = SubSeq(queued_ops, 1, taken)]
        /\ pc' = [pc EXCEPT ![t] = "claim"]
        /\ UNCHANGED <<rewritten, at, members>>
        /\ pc[t] = "take"
    BY <1>2 DEF TakeFromQueue, Goto
  <2>4. t \in members /\ at[t] = 0 /\ rewritten[t] = <<>> /\ Len(<<>>) = 0
    BY <2>3 DEF BatchBounds, Lockstep
  <2> HIDE DEF taken, n
  <2>5. Len(ops'[t]) = taken /\ pc'[t] = "claim" /\ taken \in Nat /\ BatchSize \in Nat
    BY <2>1, <2>2, <2>3, BatchAssumption DEF TypeOK
  <2>6. \A s \in Threads \ {t} : ops'[s] = ops[s] /\ pc'[s] = pc[s]
    BY <2>3 DEF TypeOK
  <2> QED BY <2>1, <2>3, <2>4, <2>5, <2>6 DEF BatchBounds
<1>3. ASSUME NEW t \in Threads, Claim(t) PROVE BatchBounds'
  BY SMTT(30), <1>3 DEF TypeOK, BatchBounds, Claim, Goto, history
<1>4. ASSUME NEW t \in Threads, Clamp(t) PROVE BatchBounds'
  BY <1>4 DEF TypeOK, BatchBounds, Clamp, Goto, locals, history
<1>5. ASSUME NEW t \in Threads, ScanLine(t) PROVE BatchBounds'
  <2> DEFINE i == claimed[t].first
  <2>1. i \in Ops
    BY <1>5, NumOpsNat DEF TypeOK, ScanLine, ClaimedBounds
  <2>2. /\ Len(Append(ops[t], i)) = Len(ops[t]) + 1 /\ Len(ops[t]) \in Nat
    BY <2>1, AppendProperties, LenProperties DEF TypeOK
  <2>3. /\ ops' = ops \/ ops' = [ops EXCEPT ![t] = Append(ops[t], i)]
        /\ pc' = [pc EXCEPT ![t] = IF i + 1 < claimed[t].end THEN "scan"
                                   ELSE IF Len(ops'[t]) < BatchSize THEN "claim" ELSE "make"]
        /\ UNCHANGED <<rewritten, at, members>>
        /\ pc[t] = "scan"
    BY <1>5 DEF TypeOK, ScanLine, Goto
  <2>4. t \in members /\ at[t] = 0 /\ rewritten[t] = <<>> /\ Len(<<>>) = 0
    BY <2>3 DEF BatchBounds, Lockstep
  <2>7. Len(ops[t]) < BatchSize /\ BatchSize \in Nat
    <3>1. /\ claimed[t].first < claimed[t].end
          /\ claimed[t].first \in Nat /\ claimed[t].end \in Nat
          /\ Len(ops[t]) + (claimed[t].end - claimed[t].first) <= BatchSize
      BY <2>3 DEF TypeOK, ClaimedBounds
    <3> QED BY <2>2, <3>1, BatchAssumption
  <2>5. /\ Len(ops'[t]) \in {Len(ops[t]), Len(ops[t]) + 1}
        /\ \A s \in Threads : s # t => ops'[s] = ops[s] /\ pc'[s] = pc[s]
    BY <2>2, <2>3 DEF TypeOK
  <2>6. pc'[t] \in {"scan", "claim", "make"} /\ (pc'[t] = "claim" => Len(ops'[t]) < BatchSize)
    BY <2>3 DEF TypeOK
  <2> HIDE DEF i
  <2> QED BY <2>2, <2>3, <2>4, <2>5, <2>6, <2>7 DEF BatchBounds
<1>6. ASSUME NEW t \in Threads, MakeOp(t) PROVE BatchBounds'
  BY SMTT(30), <1>6 DEF TypeOK, BatchBounds, MakeOp, Goto, history
<1>7. ASSUME NEW t \in Threads, BatchMade(t) PROVE BatchBounds'
  BY <1>7 DEF TypeOK, BatchBounds, BatchMade, Goto, shared, locals, history
<1>8. ASSUME NEW t \in Threads, ArriveAndWait(t) PROVE BatchBounds'
  <2>1. \A u \in Threads : pc'[u] = pc[u] \/ Released(pc[u], pc'[u])
    BY <1>8, ArrivalMoves
  <2> QED BY <1>8, <2>1 DEF TypeOK, BatchBounds, ArriveAndWait, locals, history, Released
<1>9. ASSUME NEW t \in Threads, ArriveAndDrop(t) PROVE BatchBounds'
  BY ZenonT(60), <1>9, DropMoves DEF TypeOK, BatchBounds, ArriveAndDrop, locals, history
<1>10. ASSUME NEW t \in Threads, Perform(t) PROVE BatchBounds'
  BY <1>10 DEF TypeOK, BatchBounds, Perform, shared
<1>11. ASSUME NEW t \in Threads, Performed(t) PROVE BatchBounds'
  BY <1>11 DEF TypeOK, BatchBounds, Performed, Goto, shared, history
<1>12. ASSUME NEW t \in Threads, AllocatorError(t) PROVE BatchBounds'
  BY <1>12 DEF TypeOK, BatchBounds, AllocatorError, Goto, shared, locals, history
<1>13. ASSUME NEW t \in Threads, FlushOne(t) PROVE BatchBounds'
  BY <1>13 DEF TypeOK, BatchBounds, FlushOne, Goto, history
<1>14. ASSUME NEW t \in Threads, AssignPointer(t) PROVE BatchBounds'
  BY <1>14 DEF TypeOK, BatchBounds, AssignPointer, Goto, locals, history
<1>15. ASSUME NEW t \in Threads, PushPending(t) PROVE BatchBounds'
  BY <1>15 DEF TypeOK, BatchBounds, PushPending, Goto, history
<1>16. ASSUME NEW t \in Threads, Flushed(t) PROVE BatchBounds'
  BY <1>16 DEF TypeOK, BatchBounds, Flushed, Goto, shared, locals, history
<1>17. ASSUME NEW t \in Threads, StoreDone(t) PROVE BatchBounds'
  BY <1>17 DEF TypeOK, BatchBounds, StoreDone, Goto, locals, history
<1>18. ASSUME NEW t \in Threads, ReportStatus(t) PROVE BatchBounds'
  BY <1>18 DEF TypeOK, BatchBounds, ReportStatus, Goto, locals, history
<1>19. ASSUME Join \/ UNCHANGED vars PROVE BatchBounds'
  BY <1>19 DEF TypeOK, BatchBounds, Join, vars, shared, locals, history
<1> QED BY <1>1, <1>2, <1>3, <1>4, <1>5, <1>6, <1>7, <1>8, <1>9, <1>10, <1>11, <1>12, <1>13, <1>14,
       <1>15, <1>16, <1>17, <1>18, <1>19 DEF Next, Worker, Prepare, Flush, Returned

LEMMA SlotBoundsPreserved ==
  ASSUME IInv, [Next]_vars
  PROVE  SlotBounds'
<1> Ops' = Ops /\ Uids' = Uids /\ NumOps' = NumOps
  BY TraceUnchanged, TraceKept
<1> USE DEF IInv, Sizes
<1>1. ASSUME NEW t \in Threads, Loop(t) PROVE SlotBounds'
  <2>1. /\ next_slot'[t] = 0 /\ rewritten'[t] = <<>> /\ free_slots'[t] = {} /\ Len(<<>>) = 0
        /\ \A u \in Uids : id_to_idx'[t][u] = NoSlot
        /\ \A s \in Threads \ {t} : /\ next_slot'[s] = next_slot[s] /\ rewritten'[s] = rewritten[s]
                                    /\ free_slots'[s] = free_slots[s] /\ id_to_idx'[s] =
                                        id_to_idx[s]
    BY <1>1 DEF TypeOK, Loop
  <2> QED BY <2>1 DEF SlotBounds, NoSlot
<1>2. ASSUME NEW t \in Threads, TakeFromQueue(t) PROVE SlotBounds'
  BY <1>2 DEF TypeOK, SlotBounds, TakeFromQueue, Goto, history
<1>3. ASSUME NEW t \in Threads, Claim(t) PROVE SlotBounds'
  BY <1>3 DEF TypeOK, SlotBounds, Claim, Goto, history
<1>4. ASSUME NEW t \in Threads, Clamp(t) PROVE SlotBounds'
  BY <1>4 DEF TypeOK, SlotBounds, Clamp, Goto, locals, history
<1>5. ASSUME NEW t \in Threads, ScanLine(t) PROVE SlotBounds'
  BY <1>5 DEF TypeOK, SlotBounds, ScanLine, Goto, history
<1>6. ASSUME NEW t \in Threads, MakeOp(t) PROVE SlotBounds'
  <2> DEFINE i == ops[t][Len(rewritten[t]) + 1]
             unused == NextAfterInput(t, i)
             pair == [in |-> InputSlot(t, i), out |-> ResultSlot(t, i)]
             kept == IF IsLocal(t, i) THEN [id_to_idx[t] EXCEPT ![InputUid(i)] = NoSlot]
                     ELSE id_to_idx[t]
  <2>1. Len(rewritten[t]) < Len(ops[t])
    BY <1>6 DEF MakeOp
  <2>2. /\ next_slot[t] \in Nat /\ unused \in {next_slot[t], next_slot[t] + 1}
        /\ FreeAfterInput(t, i) \subseteq 0..(unused - 1)
        /\ ResultSlot(t, i) = unused => unused = next_slot[t]
        /\ ResultSlot(t, i) \in 0..unused \cup {NoSlot}
    <3>1. ResultSlot(t, i) = NoSlot \/ ResultUid(i) # NoId
      BY DEF ResultSlot
    <3>2. /\ next_slot[t] \in Nat /\ unused \in {next_slot[t], next_slot[t] + 1}
          /\ FreeAfterInput(t, i) \subseteq 0..(unused - 1)
          /\ FreeAfterInput(t, i) = {} => unused = next_slot[t]
          /\ ResultUid(i) = NoId => ResultSlot(t, i) = NoSlot
          /\ ResultUid(i) # NoId =>
               \/ ResultSlot(t, i) \in FreeAfterInput(t, i)
               \/ FreeAfterInput(t, i) = {} /\ ResultSlot(t, i) = unused
      BY <2>1, MakeOpSlots
    <3> HIDE DEF unused, i
    <3> QED BY <3>1, <3>2 DEF NoSlot
  <2>3. /\ Len(Append(rewritten[t], pair)) = Len(rewritten[t]) + 1 /\ Len(rewritten[t]) \in Nat
    <3>1. rewritten[t] \in Seq([in : SlotsOrNone, out : SlotsOrNone])
      BY DEF TypeOK
    <3>2. pair \in [in : SlotsOrNone, out : SlotsOrNone]
      BY <2>1, MakeOpPair
    <3> QED BY <3>1, <3>2, AppendProperties, LenProperties
  <2>4. /\ rewritten'[t] = Append(rewritten[t], pair)
        /\ next_slot'[t] = IF ResultSlot(t, i) = unused THEN unused + 1 ELSE unused
        /\ free_slots'[t] = FreeAfterResult(t, i)
        /\ id_to_idx'[t] = IF ResultUid(i) = NoId THEN kept
                           ELSE [kept EXCEPT ![ResultUid(i)] = ResultSlot(t, i)]
        /\ \A s \in Threads \ {t} : /\ next_slot'[s] = next_slot[s] /\ rewritten'[s] = rewritten[s]
                                    /\ free_slots'[s] = free_slots[s] /\ id_to_idx'[s] =
                                        id_to_idx[s]
    BY <1>6 DEF TypeOK, MakeOp
  <2>5. \A u \in Uids : id_to_idx'[t][u] \in {NoSlot, id_to_idx[t][u], ResultSlot(t, i)}
    <3>1. id_to_idx[t] \in [Uids -> SlotsOrNone]
      BY DEF TypeOK
    <3>2. kept \in [Uids -> {NoSlot} \cup SlotsOrNone] /\ \A u \in Uids : kept[u] \in {NoSlot,
        id_to_idx[t][u]}
      BY <3>1
    <3> HIDE DEF kept
    <3> QED BY <2>4, <3>2
  <2>6. next_slot'[t] <= Len(rewritten'[t])
    BY <2>2, <2>3, <2>4 DEF SlotBounds
  <2>7. next_slot'[t] \in Nat /\ next_slot[t] <= next_slot'[t] /\ ResultSlot(t, i) < next_slot'[t]
    <3> HIDE DEF unused
    <3> QED BY <2>2, <2>4 DEF NoSlot
  <2>8. free_slots'[t] \subseteq 0..(next_slot'[t] - 1)
    BY <2>2, <2>4 DEF FreeAfterResult
  <2>9. \A u \in Uids : id_to_idx'[t][u] < next_slot'[t]
    <3>1. \A u \in Uids : id_to_idx[t][u] < next_slot[t] /\ id_to_idx[t][u] \in Int
      BY DEF TypeOK, SlotBounds, SlotsOrNone, Slots, NoSlot
    <3>2. next_slot[t] \in Nat /\ ResultSlot(t, i) < next_slot'[t]
      BY <2>2, <2>7
    <3>3. ASSUME NEW u \in Uids PROVE id_to_idx'[t][u] < next_slot'[t]
      <4>1. id_to_idx'[t][u] = NoSlot \/ id_to_idx'[t][u] = id_to_idx[t][u]
              \/ id_to_idx'[t][u] = ResultSlot(t, i)
        BY <2>5
      <4>2. NoSlot < next_slot'[t]
        BY <2>7 DEF NoSlot
      <4>3. id_to_idx[t][u] < next_slot'[t]
        BY <2>7, <3>1, <3>2
      <4> QED BY <3>2, <4>1, <4>2, <4>3
    <3> QED BY <3>3
  <2> QED BY <2>4, <2>6, <2>8, <2>9 DEF SlotBounds
<1>7. ASSUME NEW t \in Threads, BatchMade(t) PROVE SlotBounds'
  BY <1>7 DEF TypeOK, SlotBounds, BatchMade, Goto, shared, locals, history
<1>8. ASSUME NEW t \in Threads, ArriveAndWait(t) PROVE SlotBounds'
  BY <1>8 DEF TypeOK, SlotBounds, ArriveAndWait, locals, history
<1>9. ASSUME NEW t \in Threads, ArriveAndDrop(t) PROVE SlotBounds'
  BY <1>9 DEF TypeOK, SlotBounds, ArriveAndDrop, locals, history
<1>10. ASSUME NEW t \in Threads, Perform(t) PROVE SlotBounds'
  BY <1>10 DEF TypeOK, SlotBounds, Perform, shared
<1>11. ASSUME NEW t \in Threads, Performed(t) PROVE SlotBounds'
  BY <1>11 DEF TypeOK, SlotBounds, Performed, Goto, shared, history
<1>12. ASSUME NEW t \in Threads, AllocatorError(t) PROVE SlotBounds'
  BY <1>12 DEF TypeOK, SlotBounds, AllocatorError, Goto, shared, locals, history
<1>13. ASSUME NEW t \in Threads, FlushOne(t) PROVE SlotBounds'
  BY <1>13 DEF TypeOK, SlotBounds, FlushOne, Goto, history
<1>14. ASSUME NEW t \in Threads, AssignPointer(t) PROVE SlotBounds'
  BY <1>14 DEF TypeOK, SlotBounds, AssignPointer, Goto, locals, history
<1>15. ASSUME NEW t \in Threads, PushPending(t) PROVE SlotBounds'
  BY <1>15 DEF TypeOK, SlotBounds, PushPending, Goto, history
<1>16. ASSUME NEW t \in Threads, Flushed(t) PROVE SlotBounds'
  BY <1>16 DEF TypeOK, SlotBounds, Flushed, Goto, shared, locals, history
<1>17. ASSUME NEW t \in Threads, StoreDone(t) PROVE SlotBounds'
  BY <1>17 DEF TypeOK, SlotBounds, StoreDone, Goto, locals, history
<1>18. ASSUME NEW t \in Threads, ReportStatus(t) PROVE SlotBounds'
  BY <1>18 DEF TypeOK, SlotBounds, ReportStatus, Goto, locals, history
<1>19. ASSUME Join \/ UNCHANGED vars PROVE SlotBounds'
  BY <1>19 DEF TypeOK, SlotBounds, Join, vars, shared, locals, history
<1> QED BY <1>1, <1>2, <1>3, <1>4, <1>5, <1>6, <1>7, <1>8, <1>9, <1>10, <1>11, <1>12, <1>13, <1>14,
       <1>15, <1>16, <1>17, <1>18, <1>19 DEF Next, Worker, Prepare, Flush, Returned

(* A scanned line adds at most itself to the batch.                         *)
LEMMA OneLessToScan ==
  ASSUME NEW n \in Nat, NEW m \in {n, n + 1}, NEW end \in Nat, NEW i \in Nat,
         NEW size \in Nat, n + (end - i) <= size
  PROVE  m + (end - (i + 1)) <= size
OBVIOUS

LEMMA ClaimedBoundsPreserved ==
  ASSUME IInv, [Next]_vars
  PROVE  ClaimedBounds'
<1> Ops' = Ops /\ Uids' = Uids /\ NumOps' = NumOps
  BY TraceUnchanged, TraceKept
<1> USE DEF IInv, Sizes
<1>1. ASSUME NEW t \in Threads, Loop(t) PROVE ClaimedBounds'
  BY <1>1 DEF TypeOK, ClaimedBounds, Loop, Goto, shared, history
<1>2. ASSUME NEW t \in Threads, TakeFromQueue(t) PROVE ClaimedBounds'
  BY <1>2 DEF TypeOK, ClaimedBounds, TakeFromQueue, Goto, history
<1>3. ASSUME NEW t \in Threads, Claim(t) PROVE ClaimedBounds'
  <2> DEFINE room == BatchSize - Len(ops[t])
             end == IF idx + room < NumOps THEN idx + room ELSE NumOps
  <2>1. /\ NumOps \in Nat /\ room \in Nat /\ 0 < room /\ idx \in Nat
        /\ Len(ops[t]) \in Nat /\ BatchSize \in Nat
    BY SMTT(30), <1>3, NumOpsNat, BatchAssumption, LenProperties DEF TypeOK, BatchBounds, Claim
  <2>2. idx' = idx + room /\ UNCHANGED ops /\ pc[t] = "claim"
    BY <1>3 DEF Claim
  <2>3. CASE idx >= NumOps
    <3>1. claimed' = claimed /\ pc' = [pc EXCEPT ![t] = "clamp"]
      BY <1>3, <2>3 DEF Claim, Goto
    <3> QED BY SMTT(30), <2>1, <2>2, <2>3, <3>1 DEF TypeOK, ClaimedBounds
  <2>4. CASE idx < NumOps
    <3>5. ~(idx >= NumOps)
      BY <2>1, <2>4
    <3>1. claimed' = [claimed EXCEPT ![t] = [first |-> idx, end |-> end]]
          /\ pc' = [pc EXCEPT ![t] = "scan"]
      BY <1>3, <3>5 DEF Claim, Goto
    <3>2. end \in Nat /\ idx < end /\ end <= NumOps /\ end <= idx + room
      <4> HIDE DEF room
      <4> QED BY <2>1, <2>4
    <3>3. /\ claimed'[t].first = idx /\ claimed'[t].end = end /\ pc'[t] = "scan"
          /\ \A s \in Threads \ {t} : claimed'[s] = claimed[s] /\ pc'[s] = pc[s]
      BY <3>1 DEF TypeOK
    <3> HIDE DEF end
    <3>4. Len(ops[t]) + (end - idx) <= BatchSize
      BY <2>1, <3>2
    <3>6. \A s \in Threads : claimed[s].end \in Nat /\ claimed[s].first \in Nat
      BY DEF TypeOK
    <3>7. idx <= idx' /\ end <= idx' /\ idx' \in Nat
      BY <2>1, <2>2, <3>2
    <3> HIDE DEF room
    <3>8. \A s \in Threads \ {t} :
            /\ claimed'[s].end <= idx' /\ claimed'[s].end <= NumOps'
            /\ pc'[s] = "scan" => /\ claimed'[s].first < claimed'[s].end
                                  /\ Len(ops'[s]) + (claimed'[s].end - claimed'[s].first) <=
                                      BatchSize
            /\ pc'[s] # "scan" => claimed'[s].end <= claimed'[s].first
            /\ pc'[s] = "clamp" => NumOps' <= idx'
      BY SMTT(30), <2>1, <2>2, <3>3, <3>6, <3>7 DEF ClaimedBounds
    <3> QED BY <2>1, <2>2, <3>2, <3>3, <3>4, <3>7, <3>8 DEF ClaimedBounds
  <2> QED BY <2>1, <2>3, <2>4
<1>4. ASSUME NEW t \in Threads, Clamp(t) PROVE ClaimedBounds'
  BY SMTT(30), <1>4, NumOpsNat DEF TypeOK, ClaimedBounds, Clamp, Goto, locals, history
<1>5. ASSUME NEW t \in Threads, ScanLine(t) PROVE ClaimedBounds'
  <2> DEFINE i == claimed[t].first
  <2>1. i \in Ops /\ i \in Nat /\ claimed[t].end \in Nat
    BY <1>5, NumOpsNat DEF TypeOK, ScanLine, ClaimedBounds
  <2>2. /\ Len(Append(ops[t], i)) = Len(ops[t]) + 1 /\ Len(ops[t]) \in Nat
    BY <2>1, AppendProperties, LenProperties DEF TypeOK
  <2>3. /\ ops' = ops \/ ops' = [ops EXCEPT ![t] = Append(ops[t], i)]
        /\ claimed' = [claimed EXCEPT ![t].first = i + 1]
        /\ pc' = [pc EXCEPT ![t] = IF i + 1 < claimed[t].end THEN "scan"
                                   ELSE IF Len(ops'[t]) < BatchSize THEN "claim" ELSE "make"]
        /\ idx' = idx /\ pc[t] = "scan"
    BY <1>5 DEF TypeOK, ScanLine, Goto
  <2>4. /\ claimed'[t].first = i + 1 /\ claimed'[t].end = claimed[t].end
        /\ Len(ops'[t]) \in {Len(ops[t]), Len(ops[t]) + 1}
        /\ (pc'[t] = "scan" /\ i + 1 < claimed[t].end)
           \/ (pc'[t] \in {"claim", "make"} /\ ~(i + 1 < claimed[t].end))
        /\ \A s \in Threads \ {t} : claimed'[s] = claimed[s] /\ pc'[s] = pc[s] /\ ops'[s] = ops[s]
    BY <2>2, <2>3 DEF TypeOK
  <2>5. /\ i < claimed[t].end /\ Len(ops[t]) + (claimed[t].end - i) <= BatchSize
        /\ claimed[t].end <= idx /\ claimed[t].end <= NumOps
        /\ BatchSize \in Nat
    BY <2>3, BatchAssumption DEF ClaimedBounds
  <2> HIDE DEF i
  <2>6. /\ claimed'[t].end <= idx' /\ claimed'[t].end <= NumOps'
        /\ pc'[t] = "scan" => /\ claimed'[t].first < claimed'[t].end
                              /\ Len(ops'[t]) + (claimed'[t].end - claimed'[t].first) <= BatchSize
        /\ pc'[t] # "scan" => claimed'[t].end <= claimed'[t].first
        /\ pc'[t] # "clamp"
    <3>1. idx' = idx
      BY <2>3
    <3>2. claimed'[t].end <= idx' /\ claimed'[t].end <= NumOps'
      BY <2>4, <2>5, <3>1
    <3>3. CASE pc'[t] = "scan" /\ i + 1 < claimed[t].end
      <4>1. i + 1 < claimed'[t].end /\ claimed'[t].first = i + 1
        BY <2>4, <3>3
      <4>2. Len(ops'[t]) + (claimed[t].end - (i + 1)) <= BatchSize
        <5>1. /\ Len(ops'[t]) \in {Len(ops[t]), Len(ops[t]) + 1}
              /\ Len(ops[t]) + (claimed[t].end - i) <= BatchSize
          BY <2>4, <2>5
        <5>2. /\ Len(ops[t]) \in Nat /\ claimed[t].end \in Nat /\ i \in Nat
              /\ BatchSize \in Nat
          BY <2>1, <2>2, <2>5
        <5> QED BY <5>1, <5>2, OneLessToScan
      <4> QED BY <2>4, <3>2, <3>3, <4>1, <4>2
    <3>4. CASE pc'[t] \in {"claim", "make"} /\ ~(i + 1 < claimed[t].end)
      <4>1. claimed'[t].end <= claimed'[t].first
        BY <2>1, <2>4, <3>4
      <4> QED BY <3>2, <3>4, <4>1
    <3> QED BY <2>4, <3>3, <3>4
  <2> QED BY <2>3, <2>4, <2>6 DEF ClaimedBounds
<1>6. ASSUME NEW t \in Threads, MakeOp(t) PROVE ClaimedBounds'
  BY <1>6 DEF TypeOK, ClaimedBounds, MakeOp, Goto, history
<1>7. ASSUME NEW t \in Threads, BatchMade(t) PROVE ClaimedBounds'
  BY <1>7 DEF TypeOK, ClaimedBounds, BatchMade, Goto, shared, locals, history
<1>8. ASSUME NEW t \in Threads, ArriveAndWait(t) PROVE ClaimedBounds'
  <2>1. \A u \in Threads : pc'[u] = pc[u] \/ Released(pc[u], pc'[u])
    BY <1>8, ArrivalMoves
  <2> QED BY <1>8, <2>1 DEF TypeOK, ClaimedBounds, ArriveAndWait, locals, history, Released
<1>9. ASSUME NEW t \in Threads, ArriveAndDrop(t) PROVE ClaimedBounds'
  <2>1. /\ pc[t] = "leave" /\ pc'[t] = "exited"
        /\ \A u \in Threads \ {t} :
             pc'[u] = pc[u] \/ (pc[u] = "barrier1" /\ pc'[u] = "barrier2")
    BY <1>9, DropMoves
  <2>2. UNCHANGED <<idx, claimed, ops>>
    BY <1>9 DEF ArriveAndDrop, locals
  <2>3. \A u \in Threads : pc'[u] = pc[u] \/ (pc[u] \notin {"scan", "clamp"} /\
                                             pc'[u] \notin {"scan", "clamp"})
    BY <2>1
  <2> QED BY <2>2, <2>3 DEF ClaimedBounds
<1>10. ASSUME NEW t \in Threads, Perform(t) PROVE ClaimedBounds'
  BY <1>10 DEF TypeOK, ClaimedBounds, Perform, shared
<1>11. ASSUME NEW t \in Threads, Performed(t) PROVE ClaimedBounds'
  BY <1>11 DEF TypeOK, ClaimedBounds, Performed, Goto, shared, history
<1>12. ASSUME NEW t \in Threads, AllocatorError(t) PROVE ClaimedBounds'
  BY <1>12 DEF TypeOK, ClaimedBounds, AllocatorError, Goto, shared, locals, history
<1>13. ASSUME NEW t \in Threads, FlushOne(t) PROVE ClaimedBounds'
  BY <1>13 DEF TypeOK, ClaimedBounds, FlushOne, Goto, history
<1>14. ASSUME NEW t \in Threads, AssignPointer(t) PROVE ClaimedBounds'
  BY <1>14 DEF TypeOK, ClaimedBounds, AssignPointer, Goto, locals, history
<1>15. ASSUME NEW t \in Threads, PushPending(t) PROVE ClaimedBounds'
  BY <1>15 DEF TypeOK, ClaimedBounds, PushPending, Goto, history
<1>16. ASSUME NEW t \in Threads, Flushed(t) PROVE ClaimedBounds'
  BY <1>16 DEF TypeOK, ClaimedBounds, Flushed, Goto, shared, locals, history
<1>17. ASSUME NEW t \in Threads, StoreDone(t) PROVE ClaimedBounds'
  BY <1>17 DEF TypeOK, ClaimedBounds, StoreDone, Goto, locals, history
<1>18. ASSUME NEW t \in Threads, ReportStatus(t) PROVE ClaimedBounds'
  BY <1>18 DEF TypeOK, ClaimedBounds, ReportStatus, Goto, locals, history
<1>19. ASSUME Join \/ UNCHANGED vars PROVE ClaimedBounds'
  BY <1>19 DEF TypeOK, ClaimedBounds, Join, vars, shared, locals, history
<1> QED BY <1>1, <1>2, <1>3, <1>4, <1>5, <1>6, <1>7, <1>8, <1>9, <1>10, <1>11, <1>12, <1>13, <1>14,
       <1>15, <1>16, <1>17, <1>18, <1>19 DEF Next, Worker, Prepare, Flush, Returned

LEMMA FlushBoundsPreserved ==
  ASSUME IInv, [Next]_vars
  PROVE  FlushBounds'
<1> Ops' = Ops /\ Uids' = Uids /\ NumOps' = NumOps
  BY TraceUnchanged, TraceKept
<1> USE DEF IInv, Sizes, Failed
<1>1. ASSUME NEW t \in Threads, Loop(t) PROVE FlushBounds'
  BY <1>1 DEF TypeOK, FlushBounds, Loop, Goto, shared, history
<1>2. ASSUME NEW t \in Threads, TakeFromQueue(t) PROVE FlushBounds'
  BY <1>2 DEF TypeOK, FlushBounds, TakeFromQueue, Goto, history
<1>3. ASSUME NEW t \in Threads, Claim(t) PROVE FlushBounds'
  BY ZenonT(60), <1>3 DEF TypeOK, FlushBounds, Claim, Goto, history
<1>4. ASSUME NEW t \in Threads, Clamp(t) PROVE FlushBounds'
  BY <1>4 DEF TypeOK, FlushBounds, Clamp, Goto, locals, history
<1>5. ASSUME NEW t \in Threads, ScanLine(t) PROVE FlushBounds'
  BY <1>5 DEF TypeOK, FlushBounds, ScanLine, Goto, history
<1>6. ASSUME NEW t \in Threads, MakeOp(t) PROVE FlushBounds'
  BY <1>6 DEF TypeOK, FlushBounds, MakeOp, Goto, history
<1>7. ASSUME NEW t \in Threads, BatchMade(t) PROVE FlushBounds'
  BY <1>7 DEF TypeOK, FlushBounds, BatchMade, Goto, shared, locals, history
<1>8. ASSUME NEW t \in Threads, ArriveAndWait(t) PROVE FlushBounds'
  <2>1. \A u \in Threads : pc'[u] = pc[u] \/ Released(pc[u], pc'[u])
    BY <1>8, ArrivalMoves
  <2> QED BY ZenonT(60), <1>8, <2>1 DEF TypeOK, FlushBounds, ArriveAndWait, locals, history, Released
<1>9. ASSUME NEW t \in Threads, ArriveAndDrop(t) PROVE FlushBounds'
  BY ZenonT(60), <1>9, DropMoves DEF TypeOK, FlushBounds, ArriveAndDrop, locals, history
<1>10. ASSUME NEW t \in Threads, Perform(t) PROVE FlushBounds'
  BY <1>10 DEF TypeOK, FlushBounds, Perform, shared
<1>11. ASSUME NEW t \in Threads, Performed(t) PROVE FlushBounds'
  BY <1>11 DEF TypeOK, FlushBounds, Performed, Goto, shared, history
<1>12. ASSUME NEW t \in Threads, AllocatorError(t) PROVE FlushBounds'
  BY <1>12 DEF TypeOK, FlushBounds, AllocatorError, Goto, shared, locals, history
<1>13. ASSUME NEW t \in Threads, FlushOne(t) PROVE FlushBounds'
  <2>1. PICK u \in unflushed[t] :
          \/ /\ unflushed' = [unflushed EXCEPT ![t] = @ \ {u}]
             /\ UNCHANGED <<pc, pending>>
          \/ /\ pending' = [pending EXCEPT ![t] = [uid |-> u, op |-> ReadParked(id_map[u])]]
             /\ pc' = [pc EXCEPT ![t] = "assign"]
             /\ UNCHANGED unflushed
    BY <1>13 DEF FlushOne, Goto
  <2>2. pc[t] = "flush" /\ UNCHANGED id_to_idx
    BY <1>13 DEF FlushOne
  <2>3. /\ unflushed'[t] \subseteq unflushed[t] /\ pc'[t] \in {"flush", "assign"}
        /\ pc'[t] = "assign" => pending'[t].uid \in unflushed'[t]
        /\ \A s \in Threads \ {t} : /\ unflushed'[s] = unflushed[s] /\ pc'[s] = pc[s]
                                    /\ pending'[s] = pending[s]
    BY <2>1, <2>2 DEF TypeOK
  <2> QED BY <2>2, <2>3 DEF FlushBounds
<1>14. ASSUME NEW t \in Threads, AssignPointer(t) PROVE FlushBounds'
  BY ZenonT(60), <1>14 DEF TypeOK, FlushBounds, AssignPointer, Goto, locals, history
<1>15. ASSUME NEW t \in Threads, PushPending(t) PROVE FlushBounds'
  BY <1>15 DEF TypeOK, FlushBounds, PushPending, Goto, history
<1>16. ASSUME NEW t \in Threads, Flushed(t) PROVE FlushBounds'
  BY <1>16 DEF TypeOK, FlushBounds, Flushed, Goto, shared, locals, history
<1>17. ASSUME NEW t \in Threads, StoreDone(t) PROVE FlushBounds'
  BY <1>17 DEF TypeOK, FlushBounds, StoreDone, Goto, locals, history
<1>18. ASSUME NEW t \in Threads, ReportStatus(t) PROVE FlushBounds'
  BY <1>18 DEF TypeOK, FlushBounds, ReportStatus, Goto, locals, history
<1>19. ASSUME Join \/ UNCHANGED vars PROVE FlushBounds'
  BY <1>19 DEF TypeOK, FlushBounds, Join, vars, shared, locals, history
<1> QED BY <1>1, <1>2, <1>3, <1>4, <1>5, <1>6, <1>7, <1>8, <1>9, <1>10, <1>11, <1>12, <1>13, <1>14,
       <1>15, <1>16, <1>17, <1>18, <1>19 DEF Next, Worker, Prepare, Flush, Returned

-----------------------------------------------------------------------------
(* What the workers' steps do, function by function and place by place: the *)
(* form in which the invariants of the data are proved.                     *)
LEMMA Lengths ==
  ASSUME Sizes
  PROVE  /\ idx \in Nat /\ NumOps \in Nat /\ Ops = 0..(NumOps - 1)
         /\ Len(queued_ops) \in Nat
         /\ \A k \in 1..Len(queued_ops) : queued_ops[k] \in Ops
         /\ \A t \in Threads :
              /\ Len(ops[t]) \in Nat /\ Len(rewritten[t]) \in Nat /\ at[t] \in Nat
              /\ claimed[t].first \in Nat /\ claimed[t].end \in Nat
              /\ \A k \in 1..Len(ops[t]) : ops[t][k] \in Ops
BY LenProperties, ElementOfSeq, NumOpsNat DEF Sizes, TypeOK

LEMMA NoIdNotUid ==
  ASSUME Sizes
  PROVE  NoId \notin Uids
BY NumOpsNat, NoIdAssumption DEF Sizes, TypeOK, Uids

LEMMA LoopEffect ==
  ASSUME Sizes, NEW t \in Threads, Loop(t)
  PROVE  /\ pc[t] = "loop" /\ pc'[t] \in {"leave", "take"}
         /\ ops'[t] = <<>> /\ Len(ops'[t]) = 0
         /\ rewritten'[t] = <<>> /\ Len(rewritten'[t]) = 0
         /\ at'[t] = 0 /\ at[t] = Len(ops[t]) /\ local_allocs'[t] = {}
         /\ \A u \in Uids : id_to_idx'[t][u] = NoSlot
         /\ \A s \in Threads \ {t} :
              /\ pc'[s] = pc[s] /\ ops'[s] = ops[s] /\ rewritten'[s] = rewritten[s]
              /\ at'[s] = at[s] /\ local_allocs'[s] = local_allocs[s]
              /\ id_to_idx'[s] = id_to_idx[s]
         /\ UNCHANGED <<shared, claimed, unflushed, pending, history>>
BY NoElements DEF Sizes, TypeOK, BatchBounds, Loop, Goto

LEMMA TakeEffect ==
  ASSUME Sizes, NEW t \in Threads, TakeFromQueue(t)
  PROVE  /\ pc[t] = "take" /\ pc'[t] = "claim"
         /\ Len(ops[t]) = 0 /\ at[t] = 0 /\ rewritten[t] = <<>> /\ Len(rewritten[t]) = 0
         /\ \E n \in 0..Len(queued_ops) :
              /\ Len(ops'[t]) = n /\ Len(queued_ops') = Len(queued_ops) - n
              /\ \A k \in 1..n : ops'[t][k] = queued_ops[k]
              /\ \A k \in 1..(Len(queued_ops) - n) : queued_ops'[k] = queued_ops[n + k]
         /\ \A s \in Threads \ {t} : pc'[s] = pc[s] /\ ops'[s] = ops[s]
         /\ UNCHANGED <<idx, id_map, members, claimed, local_allocs, rewritten, next_slot,
                        free_slots, id_to_idx, slots, at, unflushed, pending, history>>
<1> DEFINE n == IF Len(queued_ops) < MaxQueuedOpsTaken THEN Len(queued_ops)
                ELSE MaxQueuedOpsTaken
<1>1. queued_ops \in Seq(Ops) /\ n \in 0..Len(queued_ops)
  BY LenProperties, BatchAssumption DEF Sizes, TypeOK
<1>2. /\ ops' = [ops EXCEPT ![t] = SubSeq(queued_ops, 1, n)]
      /\ queued_ops' = SubSeq(queued_ops, n + 1, Len(queued_ops))
      /\ pc' = [pc EXCEPT ![t] = "claim"] /\ pc[t] = "take"
      /\ UNCHANGED <<idx, id_map, members, claimed, local_allocs, rewritten, next_slot,
                     free_slots, id_to_idx, slots, at, unflushed, pending, history>>
  BY DEF TakeFromQueue, AfterTaking, Goto
<1>3. ops[t] = <<>> /\ at[t] = 0 /\ rewritten[t] = <<>>
  BY <1>2 DEF Sizes, BatchBounds, Unmade
<1> HIDE DEF n
<1>4. /\ Len(ops'[t]) = n /\ Len(queued_ops') = Len(queued_ops) - n
      /\ \A k \in 1..n : ops'[t][k] = queued_ops[k]
      /\ \A k \in 1..(Len(queued_ops) - n) : queued_ops'[k] = queued_ops[n + k]
  <2>1. ops'[t] = SubSeq(queued_ops, 1, n)
    BY <1>2 DEF Sizes, TypeOK
  <2> QED BY <1>1, <1>2, <2>1, SubSeqLength
<1>5. pc'[t] = "claim" /\ \A s \in Threads \ {t} : pc'[s] = pc[s] /\ ops'[s] = ops[s]
  BY <1>2 DEF Sizes, TypeOK
<1> QED BY <1>1, <1>2, <1>3, <1>4, <1>5, NoElements

LEMMA ScanEffect ==
  ASSUME Sizes, NEW t \in Threads, ScanLine(t), NEW i, i = claimed[t].first
  PROVE  /\ pc[t] = "scan" /\ pc'[t] \in {"scan", "claim", "make"}
         /\ i \in Ops /\ i < claimed[t].end /\ i < idx
         /\ InputUid(i) \in Uids \cup {NoId} /\ ResultUid(i) \in Uids \cup {NoId}
         /\ at[t] = 0 /\ rewritten[t] = <<>> /\ Len(rewritten[t]) = 0
         /\ claimed'[t].first = i + 1 /\ claimed'[t].end = claimed[t].end
         /\ \/ /\ MustPark(t, i) /\ InputUid(i) \in Uids
               /\ id_map[InputUid(i)] = Empty /\ id_map'[InputUid(i)] = Parked(i)
               /\ \A u \in Uids \ {InputUid(i)} : id_map'[u] = id_map[u]
               /\ ops'[t] = ops[t] /\ local_allocs'[t] = local_allocs[t]
            \/ /\ ~MustPark(t, i) /\ id_map' = id_map
               /\ Len(ops'[t]) = Len(ops[t]) + 1 /\ ops'[t][Len(ops[t]) + 1] = i
               /\ \A k \in 1..Len(ops[t]) : ops'[t][k] = ops[t][k]
               /\ local_allocs'[t] =
                    (local_allocs[t] \ {InputUid(i)}) \cup ({ResultUid(i)} \ {NoId})
         /\ \A s \in Threads \ {t} :
              /\ pc'[s] = pc[s] /\ ops'[s] = ops[s] /\ claimed'[s] = claimed[s]
              /\ local_allocs'[s] = local_allocs[s]
         /\ UNCHANGED <<idx, queued_ops, members, rewritten, next_slot, free_slots, id_to_idx,
                        slots, at, unflushed, pending, history>>
<1> DEFINE taken == IF MustPark(t, i) THEN ops[t] ELSE Append(ops[t], i)
<1>1. /\ pc[t] = "scan"
      /\ id_map' = IF MustPark(t, i) THEN [id_map EXCEPT ![InputUid(i)] = Parked(i)] ELSE id_map
      /\ local_allocs' = IF MustPark(t, i) THEN local_allocs
           ELSE [local_allocs EXCEPT ![t] =
                   (@ \ {InputUid(i)}) \cup ({ResultUid(i)} \ {NoId})]
      /\ ops' = [ops EXCEPT ![t] = taken]
      /\ claimed' = [claimed EXCEPT ![t].first = i + 1]
      /\ \E label \in {"scan", "claim", "make"} : pc' = [pc EXCEPT ![t] = label]
      /\ UNCHANGED <<idx, queued_ops, members, rewritten, next_slot, free_slots, id_to_idx,
                     slots, at, unflushed, pending, history>>
  BY DEF ScanLine, Goto
<1>2. i \in Ops /\ i < claimed[t].end /\ i < idx
  BY <1>1, Lengths DEF Sizes, ClaimedBounds
<1>3. InputUid(i) \in Uids \cup {NoId} /\ ResultUid(i) \in Uids \cup {NoId}
  BY <1>2, UidsTyped DEF Sizes, TypeOK
<1>4. at[t] = 0 /\ rewritten[t] = <<>> /\ Len(rewritten[t]) = 0
  BY <1>1, NoElements DEF Sizes, BatchBounds, Unmade
<1>5. ops[t] \in Seq(Ops)
  BY DEF Sizes, TypeOK
<1>6. /\ Len(Append(ops[t], i)) = Len(ops[t]) + 1
      /\ Append(ops[t], i)[Len(ops[t]) + 1] = i
      /\ \A k \in 1..Len(ops[t]) : Append(ops[t], i)[k] = ops[t][k]
  BY <1>2, <1>5, AppendProperties
<1>7. /\ claimed'[t].first = i + 1 /\ claimed'[t].end = claimed[t].end
      /\ pc'[t] \in {"scan", "claim", "make"} /\ ops'[t] = taken
      /\ \A s \in Threads \ {t} :
           pc'[s] = pc[s] /\ ops'[s] = ops[s] /\ claimed'[s] = claimed[s]
  BY <1>1 DEF Sizes, TypeOK
<1>8. CASE MustPark(t, i)
  <2>1. InputUid(i) \in Uids /\ id_map[InputUid(i)] = Empty
    BY <1>3, <1>8 DEF MustPark
  <2>2. /\ id_map'[InputUid(i)] = Parked(i)
        /\ \A u \in Uids \ {InputUid(i)} : id_map'[u] = id_map[u]
    BY <1>1, <1>8, <2>1 DEF Sizes, TypeOK
  <2> QED BY <1>1, <1>2, <1>3, <1>4, <1>7, <1>8, <2>1, <2>2
<1>9. CASE ~MustPark(t, i)
  <2>1. /\ local_allocs'[t] = (local_allocs[t] \ {InputUid(i)}) \cup ({ResultUid(i)} \ {NoId})
        /\ \A s \in Threads \ {t} : local_allocs'[s] = local_allocs[s]
    BY <1>1, <1>9 DEF Sizes, TypeOK
  <2> QED BY <1>1, <1>2, <1>3, <1>4, <1>6, <1>7, <1>9, <2>1
<1> QED BY <1>8, <1>9

LEMMA MakeEffect ==
  ASSUME Sizes, NEW t \in Threads, MakeOp(t),
         NEW m, m = Len(rewritten[t]), NEW i, i = ops[t][m + 1]
  PROVE  /\ pc[t] = "make" /\ pc'[t] \in {"make", "error"}
         /\ m \in Nat /\ m < Len(ops[t]) /\ i \in Ops /\ at[t] = 0
         /\ InputUid(i) \in Uids \cup {NoId} /\ ResultUid(i) \in Uids \cup {NoId}
         /\ Len(rewritten'[t]) = m + 1
         /\ rewritten'[t][m + 1].in = InputSlot(t, i)
         /\ rewritten'[t][m + 1].out = ResultSlot(t, i)
         /\ \A k \in 1..m : rewritten'[t][k] = rewritten[t][k]
         /\ \A s \in Threads \ {t} :
              pc'[s] = pc[s] /\ rewritten'[s] = rewritten[s]
         /\ UNCHANGED <<idx, queued_ops, members, ops, claimed, local_allocs, at, unflushed,
                        pending, history>>
<1> DEFINE pair == [in |-> InputSlot(t, i), out |-> ResultSlot(t, i)]
<1>1. /\ pc[t] = "make" /\ m < Len(ops[t])
      /\ rewritten' = [rewritten EXCEPT ![t] = Append(@, pair)]
      /\ UNCHANGED <<idx, queued_ops, members, ops, claimed, local_allocs, at, unflushed,
                     pending, history>>
  BY DEF MakeOp
<1>2. /\ m \in Nat /\ m + 1 \in 1..Len(ops[t])
      /\ i \in Ops /\ at[t] = 0
  <2>1. m \in Nat /\ m + 1 \in 1..Len(ops[t])
    BY <1>1, Lengths
  <2> QED BY <1>1, <2>1, Lengths DEF Sizes, BatchBounds
<1>3. InputUid(i) \in Uids \cup {NoId} /\ ResultUid(i) \in Uids \cup {NoId}
  BY <1>2, UidsTyped DEF Sizes, TypeOK
<1>4. pc' = [pc EXCEPT ![t] = "make"] \/ pc' = [pc EXCEPT ![t] = "error"]
  BY DEF MakeOp, Goto
<1>5. /\ pc'[t] \in {"make", "error"}
      /\ \A s \in Threads \ {t} : pc'[s] = pc[s]
  BY <1>4 DEF Sizes, TypeOK
<1>6. /\ Len(rewritten'[t]) = m + 1
      /\ rewritten'[t][m + 1] = pair
      /\ \A k \in 1..m : rewritten'[t][k] = rewritten[t][k]
      /\ \A s \in Threads \ {t} : rewritten'[s] = rewritten[s]
  <2>1. rewritten[t] \in Seq([in : SlotsOrNone, out : SlotsOrNone])
        /\ rewritten'[t] = Append(rewritten[t], pair)
        /\ \A s \in Threads \ {t} : rewritten'[s] = rewritten[s]
    BY <1>1 DEF Sizes, TypeOK
  <2>2. pair \in [in : SlotsOrNone, out : SlotsOrNone]
    BY <1>1, MakeOpPair
  <2> HIDE DEF pair
  <2> QED BY <2>1, <2>2, AppendProperties
<1> QED BY <1>1, <1>2, <1>3, <1>4, <1>5, <1>6

(* The ids in reach: the result's is added, the input's is dropped.         *)
LEMMA MakeIds ==
  ASSUME Sizes, NEW t \in Threads, MakeOp(t), NEW i, i = ops[t][Len(rewritten[t]) + 1]
  PROVE  /\ ResultUid(i) # NoId => id_to_idx'[t][ResultUid(i)] = ResultSlot(t, i)
         /\ \A u \in Uids \ {ResultUid(i), InputUid(i)} : id_to_idx'[t][u] = id_to_idx[t][u]
         /\ InputUid(i) \notin {NoId, ResultUid(i)} => id_to_idx'[t][InputUid(i)] = NoSlot
         /\ \A s \in Threads \ {t} : id_to_idx'[s] = id_to_idx[s]
<1> DEFINE input == InputUid(i)
           result == ResultUid(i)
           kept == IF IsLocal(t, i) THEN [id_to_idx[t] EXCEPT ![input] = NoSlot]
                   ELSE id_to_idx[t]
<1>1. id_to_idx' = [id_to_idx EXCEPT ![t] =
        IF result = NoId THEN kept ELSE [kept EXCEPT ![result] = ResultSlot(t, i)]]
  BY DEF MakeOp
<1>2. i \in Ops /\ input \in Uids \cup {NoId} /\ result \in Uids \cup {NoId} /\ NoId \notin Uids
  <2>1. i \in Ops /\ input \in Uids \cup {NoId} /\ result \in Uids \cup {NoId}
    BY MakeEffect
  <2> QED BY <2>1, NoIdNotUid
<1>3. id_to_idx[t] \in [Uids -> SlotsOrNone] /\ id_to_idx \in [Threads -> [Uids -> SlotsOrNone]]
  BY DEF Sizes, TypeOK
<1>4. /\ input # NoId => kept[input] = NoSlot
      /\ \A u \in Uids \ {input} : kept[u] = id_to_idx[t][u]
  BY <1>2, <1>3 DEF IsLocal
<1>5. kept \in [Uids -> SlotsOrNone]
  BY <1>3 DEF SlotsOrNone
<1>6. /\ id_to_idx'[t] =
           IF result = NoId THEN kept ELSE [kept EXCEPT ![result] = ResultSlot(t, i)]
      /\ \A s \in Threads \ {t} : id_to_idx'[s] = id_to_idx[s]
  BY <1>1, <1>3
<1> HIDE DEF kept
<1> QED BY <1>2, <1>4, <1>5, <1>6

(* An input that was not made in the batch is taken out of the id map.      *)
LEMMA InputTaken ==
  ASSUME Sizes, NEW t \in Threads, MakeOp(t),
         NEW i, i = ops[t][Len(rewritten[t]) + 1], IsGlobal(t, i)
  PROVE  /\ InputUid(i) \in Uids /\ id_map'[InputUid(i)] = Empty
         /\ \A u \in Uids \ {InputUid(i)} : id_map'[u] = id_map[u]
         /\ id_map[InputUid(i)] = Empty => pc'[t] = "error"
<1>1. InputUid(i) \in Uids
  <2>1. i \in Ops
    BY MakeEffect
  <2> QED BY <2>1, UidsTyped DEF IsGlobal, Sizes, TypeOK
<1>2. id_map' = [id_map EXCEPT ![InputUid(i)] = Empty]
  BY DEF MakeOp
<1>3. id_map[InputUid(i)] = Empty => pc' = [pc EXCEPT ![t] = "error"]
  BY DEF MakeOp, Goto
<1> QED BY <1>1, <1>2, <1>3 DEF Sizes, TypeOK

LEMMA NoInputTaken ==
  ASSUME NEW t \in Threads, MakeOp(t),
         NEW i, i = ops[t][Len(rewritten[t]) + 1], ~IsGlobal(t, i)
  PROVE  id_map' = id_map
BY DEF MakeOp

LEMMA PerformEffect ==
  ASSUME Sizes, NEW t \in Threads, Perform(t), NEW i, i = ops[t][at[t] + 1]
  PROVE  /\ pc[t] = "run" /\ at[t] < Len(ops[t]) /\ i \in Ops
         /\ performed' = performed \cup {i}
         /\ at'[t] = at[t] + 1
         /\ \A s \in Threads \ {t} : at'[s] = at[s]
         /\ UNCHANGED <<shared, pc, ops, claimed, local_allocs, rewritten, next_slot, free_slots,
                        id_to_idx, unflushed, pending>>
<1>1. /\ pc[t] = "run" /\ at[t] < Len(ops[t])
      /\ performed' = performed \cup {i}
      /\ at' = [at EXCEPT ![t] = at[t] + 1]
      /\ UNCHANGED <<shared, pc, ops, claimed, local_allocs, rewritten, next_slot, free_slots,
                     id_to_idx, unflushed, pending>>
  BY DEF Perform
<1>2. i \in Ops
  BY <1>1, Lengths
<1> QED BY <1>1, <1>2 DEF Sizes, TypeOK

LEMMA FlushEffect ==
  ASSUME Sizes, NEW t \in Threads, FlushOne(t)
  PROVE  \E u \in unflushed[t] :
           /\ pc[t] = "flush" /\ u \in Uids
           /\ \/ /\ id_map[u] = Empty /\ IsPointer(u)'
                 /\ unflushed'[t] = unflushed[t] \ {u}
                 /\ UNCHANGED <<pc, pending>>
              \/ /\ id_map[u] # Empty /\ pc'[t] = "assign"
                 /\ pending'[t].uid = u /\ pending'[t].op = ReadParked(id_map[u])
                 /\ UNCHANGED <<id_map, unflushed>>
           /\ \A v \in Uids \ {u} : id_map'[v] = id_map[v]
           /\ \A s \in Threads \ {t} : /\ pc'[s] = pc[s] /\ pending'[s] = pending[s]
                                       /\ unflushed'[s] = unflushed[s]
           /\ UNCHANGED <<idx, queued_ops, members, ops, claimed, local_allocs, rewritten,
                          next_slot, free_slots, id_to_idx, slots, at, history>>
<1>1. PICK u \in unflushed[t] :
        \/ /\ id_map[u] = Empty
           /\ id_map' = [id_map EXCEPT ![u] = Pointer(slots[t][id_to_idx[t][u]])]
           /\ unflushed' = [unflushed EXCEPT ![t] = @ \ {u}]
           /\ UNCHANGED <<pc, pending>>
        \/ /\ id_map[u] # Empty
           /\ pending' = [pending EXCEPT ![t] = [uid |-> u, op |-> ReadParked(id_map[u])]]
           /\ pc' = [pc EXCEPT ![t] = "assign"]
           /\ UNCHANGED <<id_map, unflushed>>
  BY DEF FlushOne, Goto
<1>2. /\ pc[t] = "flush"
      /\ UNCHANGED <<idx, queued_ops, members, ops, claimed, local_allocs, rewritten,
                     next_slot, free_slots, id_to_idx, slots, at, history>>
  BY DEF FlushOne
<1>3. u \in Uids
  BY FlushedSlot
<1>4. CASE id_map[u] = Empty
  <2>1. /\ id_map' = [id_map EXCEPT ![u] = Pointer(slots[t][id_to_idx[t][u]])]
        /\ unflushed' = [unflushed EXCEPT ![t] = @ \ {u}]
        /\ UNCHANGED <<pc, pending>>
    BY <1>1, <1>4
  <2>2. /\ id_map'[u].kind = "pointer"
        /\ \A v \in Uids \ {u} : id_map'[v] = id_map[v]
        /\ unflushed'[t] = unflushed[t] \ {u}
        /\ \A s \in Threads \ {t} : unflushed'[s] = unflushed[s]
    BY <1>3, <2>1 DEF Sizes, TypeOK, Pointer
  <2> QED BY <1>2, <1>3, <1>4, <2>1, <2>2 DEF IsPointer
<1>5. CASE id_map[u] # Empty
  <2>1. /\ pending' = [pending EXCEPT ![t] = [uid |-> u, op |-> ReadParked(id_map[u])]]
        /\ pc' = [pc EXCEPT ![t] = "assign"]
        /\ UNCHANGED <<id_map, unflushed>>
    BY <1>1, <1>5
  <2>2. /\ pc'[t] = "assign"
        /\ pending'[t].uid = u /\ pending'[t].op = ReadParked(id_map[u])
        /\ \A s \in Threads \ {t} : pc'[s] = pc[s] /\ pending'[s] = pending[s]
    BY <2>1 DEF Sizes, TypeOK
  <2> QED BY <1>2, <1>3, <1>5, <2>1, <2>2
<1> QED BY <1>4, <1>5

LEMMA AssignEffect ==
  ASSUME Sizes, NEW t \in Threads, AssignPointer(t), NEW u, u = pending[t].uid
  PROVE  /\ pc[t] = "assign" /\ u \in Uids /\ u \in unflushed[t]
         /\ \/ id_map[u] = Empty /\ pc'[t] = "error" /\ UNCHANGED id_map
            \/ id_map[u] # Empty /\ pc'[t] = "push" /\ IsPointer(u)'
         /\ \A v \in Uids \ {u} : id_map'[v] = id_map[v]
         /\ \A s \in Threads \ {t} : pc'[s] = pc[s]
         /\ UNCHANGED <<idx, queued_ops, members, locals, history>>
<1>1. /\ pc[t] = "assign"
      /\ \/ /\ id_map[u] = Empty /\ UNCHANGED id_map
            /\ pc' = [pc EXCEPT ![t] = "error"]
         \/ /\ id_map[u] # Empty
            /\ id_map' = [id_map EXCEPT ![u] = Pointer(slots[t][id_to_idx[t][u]])]
            /\ pc' = [pc EXCEPT ![t] = "push"]
      /\ UNCHANGED <<idx, queued_ops, members, locals, history>>
  BY DEF AssignPointer, Goto
<1>2. u \in unflushed[t] /\ u \in Uids
  BY <1>1 DEF Sizes, FlushBounds, TypeOK
<1>3. /\ \/ id_map[u] = Empty /\ pc'[t] = "error" /\ UNCHANGED id_map
         \/ id_map[u] # Empty /\ pc'[t] = "push" /\ id_map'[u].kind = "pointer"
      /\ \A v \in Uids \ {u} : id_map'[v] = id_map[v]
      /\ \A s \in Threads \ {t} : pc'[s] = pc[s]
  BY <1>1, <1>2 DEF Sizes, TypeOK, Pointer
<1> QED BY <1>1, <1>2, <1>3 DEF IsPointer

LEMMA PushEffect ==
  ASSUME Sizes, NEW t \in Threads, PushPending(t), pending[t].op \in Ops
  PROVE  /\ pc[t] = "push" /\ pc'[t] = "flush"
         /\ pending[t].uid \in Uids /\ pending[t].uid \in unflushed[t]
         /\ Len(queued_ops') = Len(queued_ops) + 1
         /\ queued_ops'[Len(queued_ops) + 1] = pending[t].op
         /\ \A k \in 1..Len(queued_ops) : queued_ops'[k] = queued_ops[k]
         /\ unflushed'[t] = unflushed[t] \ {pending[t].uid}
         /\ \A s \in Threads \ {t} : pc'[s] = pc[s] /\ unflushed'[s] = unflushed[s]
         /\ UNCHANGED <<idx, id_map, members, ops, claimed, local_allocs, rewritten, next_slot,
                        free_slots, id_to_idx, slots, at, pending, history>>
<1>1. /\ pc[t] = "push"
      /\ queued_ops' = Append(queued_ops, pending[t].op)
      /\ unflushed' = [unflushed EXCEPT ![t] = @ \ {pending[t].uid}]
      /\ pc' = [pc EXCEPT ![t] = "flush"]
      /\ UNCHANGED <<idx, id_map, members, ops, claimed, local_allocs, rewritten, next_slot,
                     free_slots, id_to_idx, slots, at, pending, history>>
  BY DEF PushPending, Goto
<1>2. pending[t].uid \in unflushed[t] /\ pending[t].uid \in Uids
  BY <1>1 DEF Sizes, FlushBounds, TypeOK
<1>3. /\ Len(queued_ops') = Len(queued_ops) + 1
      /\ queued_ops'[Len(queued_ops) + 1] = pending[t].op
      /\ \A k \in 1..Len(queued_ops) : queued_ops'[k] = queued_ops[k]
  <2>1. queued_ops \in Seq(Ops)
    BY DEF Sizes, TypeOK
  <2> QED BY <1>1, <2>1, AppendProperties
<1> QED BY <1>1, <1>2, <1>3 DEF Sizes, TypeOK

(* Steps that move no operation, and steps that move one.                   *)
LEMMA PlacesKept ==
  ASSUME OnePlace, Ops' = Ops,
         \A i \in Ops : \A kind, a, b : Place(kind, a, b, i)' <=> Place(kind, a, b, i)
  PROVE  OnePlace'
BY DEF OnePlace, OnlyAt

LEMMA PlaceMoved ==
  ASSUME OnePlace, Ops' = Ops, NEW moved \in Ops, NEW newkind, NEW newa, NEW newb,
         \A i \in Ops \ {moved} : \A kind, a, b : Place(kind, a, b, i)' <=> Place(kind, a, b, i),
         OnlyAt(newkind, newa, newb, moved)'
  PROVE  OnePlace'
BY DEF OnePlace, OnlyAt

LEMMA Exclusive ==
  ASSUME IInv, NEW i \in Ops, NEW kind, NEW a, NEW b, Place(kind, a, b, i),
         NEW kind2, NEW a2, NEW b2, Place(kind2, a2, b2, i)
  PROVE  kind = kind2 /\ a = a2 /\ b = b2
BY DEF IInv, OnePlace, OnlyAt

LEMMA OnePlacePreserved ==
  ASSUME IInv, [Next]_vars
  PROVE  OnePlace'
<1> Ops' = Ops /\ Uids' = Uids /\ NumOps' = NumOps
  BY TraceUnchanged, TraceKept
<1> USE DEF IInv, Sizes
<1>1. ASSUME NEW t \in Threads, Loop(t) PROVE OnePlace'
  <2>1. /\ at'[t] = 0 /\ Len(ops'[t]) = 0 /\ at[t] = Len(ops[t]) /\ Len(ops[t]) \in Nat
        /\ pc[t] # "push" /\ pc'[t] # "push"
        /\ \A s \in Threads \ {t} : pc'[s] = pc[s] /\ ops'[s] = ops[s] /\ at'[s] = at[s]
        /\ UNCHANGED <<shared, claimed, pending, history>>
    BY <1>1, LoopEffect, Lengths
  <2>2. \A i \in Ops : \A kind, a, b : Place(kind, a, b, i)' <=> Place(kind, a, b, i)
    BY <2>1 DEF Place, shared, history
  <2> QED BY <2>2, PlacesKept
<1>2. ASSUME NEW t \in Threads, TakeFromQueue(t) PROVE OnePlace'
  <2>1. PICK n \in 0..Len(queued_ops) :
          /\ Len(ops'[t]) = n /\ Len(queued_ops') = Len(queued_ops) - n
          /\ \A k \in 1..n : ops'[t][k] = queued_ops[k]
          /\ \A k \in 1..(Len(queued_ops) - n) : queued_ops'[k] = queued_ops[n + k]
    BY <1>2, TakeEffect
  <2>2. /\ Len(queued_ops) \in Nat /\ Len(ops[t]) = 0 /\ at[t] = 0
        /\ pc[t] # "push" /\ pc'[t] # "push"
        /\ \A s \in Threads \ {t} : pc'[s] = pc[s] /\ ops'[s] = ops[s]
        /\ UNCHANGED <<idx, id_map, claimed, at, pending, history>>
    BY <1>2, TakeEffect, Lengths
  <2> DEFINE elsewhere(kind, a) == kind # "queued" /\ ~(kind = "batch" /\ a = t)
  <2>3. \A i : \A kind, a, b :
          elsewhere(kind, a) => (Place(kind, a, b, i)' <=> Place(kind, a, b, i))
    BY <2>2 DEF Place, history
  <2>4. \A i : \A b : ~Place("batch", t, b, i)
    BY <2>2 DEF Place
  <2>5. \A i : \A a, b : Place("queued", a, b, i) <=>
          a \in 1..Len(queued_ops) /\ b = 0 /\ queued_ops[a] = i
    BY DEF Place
  <2>6. \A i : \A a, b : Place("queued", a, b, i)' <=>
          /\ a \in 1..(Len(queued_ops) - n) /\ b = 0
          /\ Place("queued", n + a, 0, i)
    BY <2>1, <2>2, <2>5 DEF Place
  <2>7. \A i : \A b : Place("batch", t, b, i)' <=> b \in 1..n /\ Place("queued", b, 0, i)
    BY <2>1, <2>2, <2>5 DEF Place
  <2> SUFFICES ASSUME NEW i \in Ops PROVE \E kind, a, b : OnlyAt(kind, a, b, i)'
    BY DEF OnePlace
  <2>8. PICK kind, a, b :
        /\ Place(kind, a, b, i)
        /\ \A kind2, a2, b2 : Place(kind2, a2, b2, i) => kind2 = kind /\ a2 = a /\ b2 = b
    BY DEF OnePlace, OnlyAt
  <2> USE <2>2, <2>3, <2>4, <2>6, <2>7, <2>8
  <2>9. CASE kind # "queued"
    <3>1. ASSUME NEW kind2, NEW a2, NEW b2, Place(kind2, a2, b2, i)'
          PROVE  kind2 = kind /\ a2 = a /\ b2 = b
      BY <2>9, <3>1
    <3>2. Place(kind, a, b, i)'
      BY <2>9
    <3> QED BY <3>1, <3>2 DEF OnlyAt
  <2>10. CASE kind = "queued"
    <3>1. a \in 1..Len(queued_ops) /\ b = 0
      BY <2>5, <2>10
    <3>2. CASE a <= n
      <4>1. Place("batch", t, a, i)'
        BY <2>10, <3>1, <3>2
      <4>2. ASSUME NEW kind2, NEW a2, NEW b2, Place(kind2, a2, b2, i)'
            PROVE  kind2 = "batch" /\ a2 = t /\ b2 = a
        <5>1. CASE elsewhere(kind2, a2)
          BY <2>10, <4>2, <5>1
        <5>2. CASE kind2 = "queued"
          BY <2>10, <3>1, <3>2, <4>2, <5>2
        <5>3. CASE kind2 = "batch" /\ a2 = t
          BY <2>10, <4>2, <5>3
        <5> QED BY <5>1, <5>2, <5>3
      <4> QED BY <4>1, <4>2 DEF OnlyAt
    <3>3. CASE n < a
      <4>1. Place("queued", a - n, 0, i)'
        BY <2>10, <3>1, <3>3
      <4>2. ASSUME NEW kind2, NEW a2, NEW b2, Place(kind2, a2, b2, i)'
            PROVE  kind2 = "queued" /\ a2 = a - n /\ b2 = 0
        <5>1. CASE elsewhere(kind2, a2)
          BY <2>10, <4>2, <5>1
        <5>2. CASE kind2 = "queued"
          <6>1. a2 \in 1..(Len(queued_ops) - n) /\ b2 = 0 /\ n + a2 = a
            BY <2>10, <4>2, <5>2
          <6> QED BY <3>1, <3>3, <5>2, <6>1
        <5>3. CASE kind2 = "batch" /\ a2 = t
          <6>1. b2 \in 1..n /\ b2 = a
            BY <2>10, <4>2, <5>3
          <6> QED BY <3>1, <3>3, <6>1
        <5> QED BY <5>1, <5>2, <5>3
      <4> QED BY <4>1, <4>2 DEF OnlyAt
    <3> QED BY <3>1, <3>2, <3>3
  <2> QED BY <2>9, <2>10
<1>3. ASSUME NEW t \in Threads, Claim(t) PROVE OnePlace'
  <2> DEFINE room == BatchSize - Len(ops[t])
             end == IF idx + room < NumOps THEN idx + room ELSE NumOps
  <2>1. /\ idx' = idx + room
        /\ \/ NumOps <= idx /\ claimed' = claimed /\ pc' = [pc EXCEPT ![t] = "clamp"]
           \/ /\ idx < NumOps /\ claimed' = [claimed EXCEPT ![t] = [first |-> idx, end |-> end]]
              /\ pc' = [pc EXCEPT ![t] = "scan"]
        /\ pc[t] = "claim"
        /\ UNCHANGED <<id_map, queued_ops, ops, at, pending, history>>
    BY <1>3, Lengths DEF Claim, Goto
  <2>2. idx \in Nat /\ NumOps \in Nat /\ Ops = 0..(NumOps - 1) /\ room \in Nat
    BY <2>1, Lengths, BatchAssumption DEF BatchBounds
  <2> HIDE DEF room
  <2>3. \A s \in Threads : pc'[s] = "push" <=> pc[s] = "push"
    BY <2>1 DEF TypeOK
  <2>4. CASE NumOps <= idx
    <3>1. idx' \in Nat /\ NumOps <= idx' /\ claimed' = claimed
      BY <2>1, <2>2, <2>4
    <3>2. \A i \in Ops : \A kind, a, b : Place(kind, a, b, i)' <=> Place(kind, a, b, i)
      BY <2>1, <2>2, <2>3, <2>4, <3>1 DEF Place, history
    <3> QED BY <3>2, PlacesKept
  <2>5. CASE idx < NumOps
    <3>1. /\ claimed'[t].first = idx /\ claimed'[t].end = end
          /\ \A s \in Threads \ {t} : claimed'[s] = claimed[s]
      BY <2>1, <2>2, <2>5 DEF TypeOK
    <3>2. claimed[t].first \in Nat /\ claimed[t].end <= claimed[t].first /\ claimed[t].end \in Nat
      BY <2>1, Lengths DEF ClaimedBounds
    <3>3. \A i \in Ops : i < idx' <=> i < end \/ i < idx
      BY <2>1, <2>2
    <3>4. end \in Nat /\ idx <= end
      BY <2>2, <2>5
    <3> HIDE DEF end
    <3> DEFINE elsewhere(kind, a) == kind # "unclaimed" /\ ~(kind = "claimed" /\ a = t)
    <3>5. \A i \in Ops : \A kind, a, b :
            elsewhere(kind, a) => (Place(kind, a, b, i)' <=> Place(kind, a, b, i))
      BY <2>1, <2>3, <3>1 DEF Place, history
    <3>6. \A i \in Ops : \A a, b :
            Place("unclaimed", a, b, i) <=> idx <= i /\ a = 0 /\ b = 0
      BY DEF Place
    <3>7. \A i \in Ops : \A a, b :
            Place("unclaimed", a, b, i)' <=> idx' <= i /\ a = 0 /\ b = 0
      BY DEF Place
    <3>8. \A i \in Ops : \A b : ~Place("claimed", t, b, i)
      BY <2>2, <3>2 DEF Place
    <3>9. \A i \in Ops : \A b :
            Place("claimed", t, b, i)' <=> idx <= i /\ i < end /\ b = 0
      BY <3>1 DEF Place
    <3> SUFFICES ASSUME NEW i \in Ops PROVE \E kind, a, b : OnlyAt(kind, a, b, i)'
      BY DEF OnePlace
    <3>10. PICK kind, a, b :
          /\ Place(kind, a, b, i)
          /\ \A kind2, a2, b2 : Place(kind2, a2, b2, i) => kind2 = kind /\ a2 = a /\ b2 = b
      BY DEF OnePlace, OnlyAt
    <3>11. i \in Nat /\ idx' \in Nat /\ (idx' <= i <=> ~(i < idx')) /\ (idx <= i <=> ~(i < idx))
      BY <2>1, <2>2
    <3>12. CASE i < idx
      <4>1. elsewhere(kind, a) /\ ~(idx' <= i) /\ ~(idx <= i)
        BY <3>3, <3>6, <3>8, <3>10, <3>11, <3>12
      <4> HIDE DEF elsewhere
      <4>2. Place(kind, a, b, i)'
        BY <3>5, <3>10, <4>1
      <4>3. ASSUME NEW kind2, NEW a2, NEW b2, Place(kind2, a2, b2, i)'
            PROVE  Place(kind2, a2, b2, i)
        BY <3>5, <3>7, <3>9, <4>1, <4>3 DEF elsewhere
      <4> QED BY <3>10, <4>2, <4>3 DEF OnlyAt
    <3>13. CASE ~(i < idx)
      <4>1. kind = "unclaimed" /\ a = 0 /\ b = 0
        BY <3>6, <3>10, <3>11, <3>13
      <4>2. CASE i < end
        BY <3>3, <3>5, <3>7, <3>9, <3>10, <3>11, <3>13, <4>1, <4>2 DEF OnlyAt
      <4>3. CASE ~(i < end)
        BY <3>3, <3>5, <3>7, <3>9, <3>10, <3>11, <3>13, <4>1, <4>3 DEF OnlyAt
      <4> QED BY <4>2, <4>3
    <3> QED BY <3>12, <3>13
  <2> QED BY <2>2, <2>4, <2>5
<1>4. ASSUME NEW t \in Threads, Clamp(t) PROVE OnePlace'
  <2>1. /\ idx' = NumOps /\ NumOps <= idx /\ idx \in Nat /\ NumOps \in Nat
        /\ Ops = 0..(NumOps - 1)
        /\ UNCHANGED <<id_map, queued_ops, locals, history>>
    BY <1>4, Lengths DEF Clamp, ClaimedBounds
  <2>2. \A s \in Threads : pc'[s] = "push" <=> pc[s] = "push"
    BY <1>4 DEF TypeOK, Clamp, Goto
  <2>3. \A i \in Ops : \A kind, a, b : Place(kind, a, b, i)' <=> Place(kind, a, b, i)
    BY <2>1, <2>2 DEF Place, locals, history
  <2> QED BY <2>3, PlacesKept
<1>5. ASSUME NEW t \in Threads, ScanLine(t) PROVE OnePlace'
  <2>0. PICK i, n : i = claimed[t].first /\ n = Len(ops[t])
    OBVIOUS
  <2>1. /\ i \in Ops /\ i \in Nat /\ i < claimed[t].end /\ i < idx /\ at[t] = 0 /\ n \in Nat
        /\ pc[t] # "push" /\ pc'[t] # "push"
        /\ claimed'[t].first = i + 1 /\ claimed'[t].end = claimed[t].end
        /\ claimed[t].end \in Nat
        /\ \A s \in Threads \ {t} : pc'[s] = pc[s] /\ ops'[s] = ops[s] /\ claimed'[s] = claimed[s]
        /\ UNCHANGED <<idx, queued_ops, at, pending, history>>
    BY <1>5, <2>0, ScanEffect, Lengths
  <2>2. /\ \A k \in 1..n : ops[t][k] \in Ops
        /\ Ops \subseteq Nat
    BY <2>0, Lengths
  <2>3. Place("claimed", t, 0, i)
    BY <2>0, <2>1 DEF Place
  <2>4. CASE MustPark(t, i)
    <3>1. /\ InputUid(i) \in Uids /\ id_map[InputUid(i)] = Empty
          /\ id_map'[InputUid(i)] = Parked(i)
          /\ \A u \in Uids \ {InputUid(i)} : id_map'[u] = id_map[u]
          /\ ops'[t] = ops[t]
      BY <1>5, <2>0, <2>4, ScanEffect
    <3>0. PICK u \in Uids : u = InputUid(i)
      BY <3>1
    <3>2. \A j \in Ops \ {i} : \A kind, a, b : Place(kind, a, b, j)' <=> Place(kind, a, b, j)
      <4>1. \A j \in Ops \ {i} : \A v \in Uids : id_map'[v] = Parked(j) <=> id_map[v] = Parked(j)
        BY <3>1 DEF Empty, Parked
      <4>2. \A j \in Ops \ {i} : \A s \in Threads :
              claimed'[s].first <= j /\ j < claimed'[s].end <=>
              claimed[s].first <= j /\ j < claimed[s].end
        BY <2>0, <2>1, <2>2
      <4>3. \A s \in Threads : /\ ops'[s] = ops[s] /\ at'[s] = at[s]
                               /\ pc'[s] = "push" <=> pc[s] = "push"
        BY <2>1, <3>1
      <4> QED BY <2>1, <4>1, <4>2, <4>3 DEF Place, history, Parked
    <3>3. \A kind, a, b : Place(kind, a, b, i)' <=> kind = "parked" /\ a = u /\ b = 0
      <4>1. \A kind, a, b : kind \notin {"parked", "claimed"} =>
              (Place(kind, a, b, i)' <=> Place(kind, a, b, i))
        BY <2>1, <3>1 DEF Place, history
      <4>2. \A kind, a, b : kind # "claimed" => ~Place(kind, a, b, i)
        BY <2>1, <2>3, Exclusive
      <4>3. \A a, b : ~Place("claimed", a, b, i)'
        <5>1. \A a \in Threads \ {t} : ~Place("claimed", a, 0, i)
          BY <2>1, <2>3, Exclusive
        <5>2. \A a \in Threads \ {t} : ~Place("claimed", a, 0, i)'
          BY <2>1, <5>1 DEF Place
        <5>3. ~Place("claimed", t, 0, i)'
          BY <2>0, <2>1 DEF Place
        <5> QED BY <5>2, <5>3 DEF Place
      <4>4. \A a, b : Place("parked", a, b, i)' <=> a = u /\ b = 0
        <5>1. \A a \in Uids : id_map[a] # Parked(i)
          BY <4>2 DEF Place
        <5> QED BY <3>0, <3>1, <5>1 DEF Place, Parked
      <4> QED BY <4>1, <4>2, <4>3, <4>4
    <3>4. i \in Ops
      BY <2>1
    <3>5. OnlyAt("parked", u, 0, i)'
      BY <3>3 DEF OnlyAt
    <3> QED BY <3>2, <3>4, <3>5, PlaceMoved
  <2>5. CASE ~MustPark(t, i)
    <3>1. /\ id_map' = id_map
          /\ Len(ops'[t]) = n + 1 /\ ops'[t][n + 1] = i
          /\ \A k \in 1..n : ops'[t][k] = ops[t][k]
      BY <1>5, <2>0, <2>5, ScanEffect
    <3>2. \A j \in Ops \ {i} : \A kind, a, b : Place(kind, a, b, j)' <=> Place(kind, a, b, j)
      <4>1. \A j \in Ops \ {i} : \A s \in Threads :
              claimed'[s].first <= j /\ j < claimed'[s].end <=>
              claimed[s].first <= j /\ j < claimed[s].end
        <5>1. \A s \in Threads \ {t} : claimed'[s] = claimed[s]
          BY <2>1
        <5>2. \A j \in Ops \ {i} : i + 1 <= j <=> i <= j
          BY <2>1, <2>2
        <5>3. claimed[t].first = i /\ claimed'[t].first = i + 1 /\ claimed'[t].end = claimed[t].end
          BY <2>0, <2>1
        <5> QED BY <5>1, <5>2, <5>3
      <4>2. \A j \in Ops \ {i} : \A s \in Threads : \A b :
              b \in (at'[s] + 1)..Len(ops'[s]) /\ ops'[s][b] = j <=>
              b \in (at[s] + 1)..Len(ops[s]) /\ ops[s][b] = j
        BY SMTT(30), <2>0, <2>1, <3>1
      <4>3. \A s \in Threads : pc'[s] = "push" <=> pc[s] = "push"
        BY <2>1
      <4> QED BY <2>1, <3>1, <4>1, <4>2, <4>3 DEF Place, history
    <3>3. \A kind, a, b : Place(kind, a, b, i)' <=> kind = "batch" /\ a = t /\ b = n + 1
      <4>1. \A kind, a, b : kind \notin {"batch", "claimed"} =>
              (Place(kind, a, b, i)' <=> Place(kind, a, b, i))
        BY <2>1, <3>1 DEF Place, history
      <4>2. \A kind, a, b : kind # "claimed" => ~Place(kind, a, b, i)
        BY <2>1, <2>3, Exclusive
      <4>3. \A a, b : ~Place("claimed", a, b, i)'
        <5>1. \A a \in Threads \ {t} : ~Place("claimed", a, 0, i)
          BY <2>1, <2>3, Exclusive
        <5>2. \A a \in Threads \ {t} : ~Place("claimed", a, 0, i)'
          BY <2>1, <5>1 DEF Place
        <5>3. ~Place("claimed", t, 0, i)'
          BY <2>0, <2>1 DEF Place
        <5> QED BY <5>2, <5>3 DEF Place
      <4>4. \A a, b : Place("batch", a, b, i)' <=> a = t /\ b = n + 1
        <5>1. \A a \in Threads : \A b \in (at[a] + 1)..Len(ops[a]) : ops[a][b] # i
          BY <4>2 DEF Place
        <5>2. \A a \in Threads \ {t} : \A b : ~Place("batch", a, b, i)'
          BY <2>1, <5>1 DEF Place
        <5>3. \A b : Place("batch", t, b, i)' <=> b = n + 1
          BY <2>0, <2>1, <3>1, <5>1 DEF Place
        <5>4. \A a, b : Place("batch", a, b, i)' => a \in Threads
          BY DEF Place
        <5> QED BY <5>2, <5>3, <5>4
      <4> QED BY <4>1, <4>2, <4>3, <4>4
    <3>4. i \in Ops
      BY <2>1
    <3>5. OnlyAt("batch", t, n + 1, i)'
      BY <3>3 DEF OnlyAt
    <3> QED BY <3>2, <3>4, <3>5, PlaceMoved
  <2> QED BY <2>4, <2>5
<1>6. ASSUME NEW t \in Threads, MakeOp(t) PROVE OnePlace'
  <2>0. PICK m, i : m = Len(rewritten[t]) /\ i = ops[t][m + 1]
    OBVIOUS
  <2>1. /\ i \in Ops /\ m \in Nat /\ m < Len(ops[t]) /\ at[t] = 0
        /\ pc[t] # "push" /\ pc'[t] # "push"
        /\ \A s \in Threads \ {t} : pc'[s] = pc[s]
        /\ UNCHANGED <<idx, queued_ops, ops, claimed, at, pending, history>>
    BY <1>6, <2>0, MakeEffect
  <2>2. Place("batch", t, m + 1, i)
    BY <2>0, <2>1, Lengths DEF Place
  <2>3. ASSUME NEW j \in Ops, IsGlobal(t, i), id_map[InputUid(i)] = Parked(j),
               InputUid(i) \in Uids
        PROVE  FALSE
    <3>1. InputUid(i) # NoId /\ InputUid(j) = InputUid(i)
      BY <2>3 DEF IsGlobal, ParkedUnderInput
    <3>2. i = j
      BY <2>1, <3>1, InputsDistinct DEF TypeOK
    <3>3. Place("parked", InputUid(i), 0, i)
      BY <2>3, <3>2 DEF Place
    <3> QED BY <2>1, <2>2, <3>3, Exclusive
  <2>4. \A j \in Ops : \A u \in Uids : id_map'[u] = Parked(j) <=> id_map[u] = Parked(j)
    <3>1. CASE IsGlobal(t, i)
      <4>1. /\ InputUid(i) \in Uids /\ id_map'[InputUid(i)] = Empty
            /\ \A u \in Uids \ {InputUid(i)} : id_map'[u] = id_map[u]
        BY <1>6, <2>0, <3>1, InputTaken
      <4> QED BY <2>3, <3>1, <4>1 DEF Empty, Parked
    <3>2. CASE ~IsGlobal(t, i)
      BY <1>6, <2>0, <3>2, NoInputTaken
    <3> QED BY <3>1, <3>2
  <2>5. \A j \in Ops : \A kind, a, b : Place(kind, a, b, j)' <=> Place(kind, a, b, j)
    <3>1. \A s \in Threads : pc'[s] = "push" <=> pc[s] = "push"
      BY <2>1
    <3> QED BY <2>1, <2>4, <3>1 DEF Place, history, Parked
  <2> QED BY <2>5, PlacesKept
<1>7. ASSUME NEW t \in Threads, BatchMade(t) PROVE OnePlace'
  <2>1. \A i \in Ops : \A kind, a, b : Place(kind, a, b, i)' <=> Place(kind, a, b, i)
    BY <1>7 DEF TypeOK, Place, BatchMade, Goto, shared, locals, history
  <2> QED BY <2>1, PlacesKept
<1>8. ASSUME NEW t \in Threads, ArriveAndWait(t) PROVE OnePlace'
  <2>1. \A s \in Threads : pc'[s] = "push" <=> pc[s] = "push"
    BY <1>8, ArrivalMoves DEF Released
  <2>2. UNCHANGED <<idx, id_map, queued_ops, locals, history>>
    BY <1>8 DEF ArriveAndWait
  <2>3. \A i \in Ops : \A kind, a, b : Place(kind, a, b, i)' <=> Place(kind, a, b, i)
    BY <2>1, <2>2 DEF Place, locals, history
  <2> QED BY <2>3, PlacesKept
<1>9. ASSUME NEW t \in Threads, ArriveAndDrop(t) PROVE OnePlace'
  <2>1. \A s \in Threads : pc'[s] = "push" <=> pc[s] = "push"
    BY <1>9, DropMoves
  <2>2. UNCHANGED <<idx, id_map, queued_ops, locals, history>>
    BY <1>9 DEF ArriveAndDrop
  <2>3. \A i \in Ops : \A kind, a, b : Place(kind, a, b, i)' <=> Place(kind, a, b, i)
    BY <2>1, <2>2 DEF Place, locals, history
  <2> QED BY <2>3, PlacesKept
<1>10. ASSUME NEW t \in Threads, Perform(t) PROVE OnePlace'
  <2>0. PICK m, i : m = at[t] + 1 /\ i = ops[t][m]
    OBVIOUS
  <2>1. /\ i \in Ops /\ m \in 1..Len(ops[t]) /\ Len(ops[t]) \in Nat /\ at'[t] = m
        /\ at[t] \in Nat
        /\ performed' = performed \cup {i}
        /\ \A s \in Threads \ {t} : at'[s] = at[s]
        /\ UNCHANGED <<shared, pc, ops, claimed, pending>>
    BY <1>10, <2>0, PerformEffect, Lengths
  <2>2. Place("batch", t, m, i)
    BY <2>0, <2>1 DEF Place
  <2>3. \A k \in (m + 1)..Len(ops[t]) : ops[t][k] # i
    <3>1. ASSUME NEW k \in (m + 1)..Len(ops[t]), ops[t][k] = i PROVE FALSE
      <4>1. Place("batch", t, k, i)
        BY <2>0, <2>1, <3>1 DEF Place
      <4>2. k = m
        BY <2>1, <2>2, <4>1, Exclusive
      <4> QED BY <2>1, <4>2
    <3> QED BY <3>1
  <2>5. \A j \in Ops \ {i} : \A kind, a, b : Place(kind, a, b, j)' <=> Place(kind, a, b, j)
    <3>1. \A j \in Ops \ {i} : \A s \in Threads : \A b :
            b \in (at'[s] + 1)..Len(ops[s]) /\ ops[s][b] = j <=>
            b \in (at[s] + 1)..Len(ops[s]) /\ ops[s][b] = j
      BY <2>0, <2>1
    <3> QED BY <2>1, <3>1 DEF Place, shared
  <2>6. \A kind, a, b : Place(kind, a, b, i)' <=> kind = "performed" /\ a = 0 /\ b = 0
    <3>1. \A kind, a, b : kind \notin {"batch", "performed"} =>
            (Place(kind, a, b, i)' <=> Place(kind, a, b, i))
      BY <2>1 DEF Place, shared
    <3>2. \A kind, a, b : ~(kind = "batch" /\ a = t) => ~Place(kind, a, b, i)
      BY <2>1, <2>2, Exclusive
    <3>3. \A a, b : ~Place("batch", a, b, i)'
      <4>1. \A a \in Threads \ {t} : \A b : ~Place("batch", a, b, i)'
        <5>1. \A a \in Threads \ {t} : \A b : ~Place("batch", a, b, i)
          BY <3>2
        <5>2. ops' = ops /\ \A a \in Threads \ {t} : at'[a] = at[a]
          BY <2>1
        <5> QED BY <5>1, <5>2 DEF Place
      <4>2. \A b : ~Place("batch", t, b, i)'
        BY <2>0, <2>1, <2>3 DEF Place
      <4> QED BY <4>1, <4>2 DEF Place
    <3>4. \A a, b : Place("performed", a, b, i)' <=> a = 0 /\ b = 0
      BY <2>1 DEF Place
    <3> QED BY <3>1, <3>2, <3>3, <3>4
  <2>9. i \in Ops
    BY <2>1
  <2>10. OnlyAt("performed", 0, 0, i)'
    BY <2>6 DEF OnlyAt
  <2> QED BY <2>5, <2>9, <2>10, PlaceMoved
<1>11. ASSUME NEW t \in Threads, Performed(t) PROVE OnePlace'
  <2>1. \A i \in Ops : \A kind, a, b : Place(kind, a, b, i)' <=> Place(kind, a, b, i)
    BY <1>11 DEF TypeOK, Place, Performed, Goto, shared, history
  <2> QED BY <2>1, PlacesKept
<1>12. ASSUME NEW t \in Threads, AllocatorError(t) PROVE OnePlace'
  <2>1. \A i \in Ops : \A kind, a, b : Place(kind, a, b, i)' <=> Place(kind, a, b, i)
    BY <1>12 DEF TypeOK, Place, AllocatorError, Goto, shared, locals, history
  <2> QED BY <2>1, PlacesKept
<1>13. ASSUME NEW t \in Threads, FlushOne(t) PROVE OnePlace'
  <2>1. PICK u \in Uids :
          /\ pc[t] = "flush" /\ pc'[t] \in {"flush", "assign"}
          /\ (id_map[u] = Empty /\ IsPointer(u)') \/ id_map'[u] = id_map[u]
          /\ \A v \in Uids \ {u} : id_map'[v] = id_map[v]
          /\ \A s \in Threads \ {t} : pc'[s] = pc[s] /\ pending'[s] = pending[s]
          /\ UNCHANGED <<idx, queued_ops, ops, claimed, at, history>>
    BY <1>13, FlushEffect
  <2>2. \A i \in Ops : \A v \in Uids : id_map'[v] = Parked(i) <=> id_map[v] = Parked(i)
    BY <2>1 DEF IsPointer, Empty, Parked
  <2>3. \A i \in Ops : \A kind, a, b : Place(kind, a, b, i)' <=> Place(kind, a, b, i)
    BY <2>1, <2>2 DEF Place, history, Parked
  <2> QED BY <2>3, PlacesKept
<1>14. ASSUME NEW t \in Threads, AssignPointer(t) PROVE OnePlace'
  <2>0. PICK u, i : u = pending[t].uid /\ i = pending[t].op
    OBVIOUS
  <2>1. /\ pc[t] = "assign" /\ u \in Uids /\ i \in Ops /\ id_map[u] = Parked(i)
        /\ pc'[t] = "push" /\ IsPointer(u)'
        /\ \A v \in Uids \ {u} : id_map'[v] = id_map[v]
        /\ \A s \in Threads \ {t} : pc'[s] = pc[s]
        /\ UNCHANGED <<idx, queued_ops, locals, history>>
    BY <1>14, <2>0, AssignEffect DEF PendingIsParked, Parked, Empty
  <2>2. Place("parked", u, 0, i)
    BY <2>1 DEF Place
  <2>4. \A j \in Ops \ {i} : \A kind, a, b : Place(kind, a, b, j)' <=> Place(kind, a, b, j)
    <3>1. \A j \in Ops \ {i} : \A v \in Uids : id_map'[v] = Parked(j) <=> id_map[v] = Parked(j)
      BY <2>1 DEF IsPointer, Parked
    <3>2. \A j \in Ops \ {i} : \A s \in Threads :
            pc'[s] = "push" /\ pending[s].op = j <=> pc[s] = "push" /\ pending[s].op = j
      BY <2>0, <2>1
    <3> QED BY <2>1, <3>1, <3>2 DEF Place, locals, history, Parked
  <2>5. \A kind, a, b : Place(kind, a, b, i)' <=> kind = "pending" /\ a = t /\ b = 0
    <3>1. \A kind, a, b : kind \notin {"parked", "pending"} =>
            (Place(kind, a, b, i)' <=> Place(kind, a, b, i))
      BY <2>1 DEF Place, locals, history
    <3>2. \A kind, a, b : ~(kind = "parked" /\ a = u) => ~Place(kind, a, b, i)
      BY <2>1, <2>2, Exclusive
    <3>3. \A a, b : ~Place("parked", a, b, i)'
      <4>1. \A a \in Uids \ {u} : id_map[a] # Parked(i)
        BY <3>2 DEF Place
      <4>2. \A a \in Uids : id_map'[a] # Parked(i)
        BY <2>1, <4>1 DEF IsPointer, Parked
      <4> QED BY <2>1, <4>2 DEF Place, Parked
    <3>4. \A a, b : Place("pending", a, b, i)' <=> a = t /\ b = 0
      <4>1. \A a \in Threads : ~(pc[a] = "push" /\ pending[a].op = i)
        BY <3>2 DEF Place
      <4>2. pending' = pending
        BY <2>1 DEF locals
      <4>3. \A a, b : Place("pending", a, b, i)' <=>
              a \in Threads /\ b = 0 /\ pc'[a] = "push" /\ pending[a].op = i
        BY <4>2 DEF Place
      <4> QED BY <2>0, <2>1, <4>1, <4>3
    <3> QED BY <3>1, <3>2, <3>3, <3>4
  <2>9. i \in Ops
    BY <2>1
  <2>10. OnlyAt("pending", t, 0, i)'
    BY <2>5 DEF OnlyAt
  <2> QED BY <2>4, <2>9, <2>10, PlaceMoved
<1>15. ASSUME NEW t \in Threads, PushPending(t) PROVE OnePlace'
  <2>0. PICK i, n : i = pending[t].op /\ n = Len(queued_ops)
    OBVIOUS
  <2>1. i \in Ops /\ n \in Nat
    BY <1>15, <2>0, Lengths DEF PendingIsParked, PushPending
  <2>2. /\ pc[t] = "push" /\ pc'[t] = "flush"
        /\ Len(queued_ops') = n + 1 /\ queued_ops'[n + 1] = i
        /\ \A k \in 1..n : queued_ops'[k] = queued_ops[k]
        /\ \A s \in Threads \ {t} : pc'[s] = pc[s]
        /\ UNCHANGED <<idx, id_map, ops, claimed, at, pending, history>>
    BY <1>15, <2>0, <2>1, PushEffect
  <2>3. Place("pending", t, 0, i)
    BY <2>0, <2>2 DEF Place
  <2>5. \A j \in Ops \ {i} : \A kind, a, b : Place(kind, a, b, j)' <=> Place(kind, a, b, j)
    <3>1. \A j \in Ops \ {i} : \A s \in Threads :
            pc'[s] = "push" /\ pending[s].op = j <=> pc[s] = "push" /\ pending[s].op = j
      BY <2>0, <2>2
    <3>2. \A j \in Ops \ {i} : \A a :
            a \in 1..Len(queued_ops') /\ queued_ops'[a] = j <=>
            a \in 1..Len(queued_ops) /\ queued_ops[a] = j
      BY <2>0, <2>1, <2>2
    <3> QED BY <2>2, <3>1, <3>2 DEF Place, history
  <2>6. \A kind, a, b : Place(kind, a, b, i)' <=> kind = "queued" /\ a = n + 1 /\ b = 0
    <3>1. \A kind, a, b : kind \notin {"queued", "pending"} =>
            (Place(kind, a, b, i)' <=> Place(kind, a, b, i))
      BY <2>2 DEF Place, history
    <3>2. \A kind, a, b : ~(kind = "pending" /\ a = t) => ~Place(kind, a, b, i)
      BY <2>1, <2>3, Exclusive
    <3>3. \A a, b : ~Place("pending", a, b, i)'
      <4>1. \A a \in Threads \ {t} : ~(pc[a] = "push" /\ pending[a].op = i)
        BY <3>2 DEF Place
      <4> QED BY <2>2, <4>1 DEF Place
    <3>4. \A a, b : Place("queued", a, b, i)' <=> a = n + 1 /\ b = 0
      <4>1. \A a \in 1..n : queued_ops[a] # i
        BY <2>0, <3>2 DEF Place
      <4> QED BY <2>1, <2>2, <4>1 DEF Place
    <3> QED BY <3>1, <3>2, <3>3, <3>4
  <2>9. i \in Ops
    BY <2>1
  <2>10. OnlyAt("queued", n + 1, 0, i)'
    BY <2>6 DEF OnlyAt
  <2> QED BY <2>5, <2>9, <2>10, PlaceMoved
<1>16. ASSUME NEW t \in Threads, Flushed(t) PROVE OnePlace'
  <2>1. \A i \in Ops : \A kind, a, b : Place(kind, a, b, i)' <=> Place(kind, a, b, i)
    BY <1>16 DEF TypeOK, Place, Flushed, Goto, shared, locals, history
  <2> QED BY <2>1, PlacesKept
<1>17. ASSUME NEW t \in Threads, StoreDone(t) PROVE OnePlace'
  <2>1. \A i \in Ops : \A kind, a, b : Place(kind, a, b, i)' <=> Place(kind, a, b, i)
    BY <1>17 DEF TypeOK, Place, StoreDone, Goto, locals, history
  <2> QED BY <2>1, PlacesKept
<1>18. ASSUME NEW t \in Threads, ReportStatus(t) PROVE OnePlace'
  <2>1. \A i \in Ops : \A kind, a, b : Place(kind, a, b, i)' <=> Place(kind, a, b, i)
    BY <1>18 DEF TypeOK, Place, ReportStatus, Goto, locals, history
  <2> QED BY <2>1, PlacesKept
<1>19. ASSUME Join \/ UNCHANGED vars PROVE OnePlace'
  <2>1. UNCHANGED <<idx, id_map, queued_ops, pc, locals, history>>
    BY <1>19 DEF Join, vars, shared
  <2>2. \A i \in Ops : \A kind, a, b : Place(kind, a, b, i)' <=> Place(kind, a, b, i)
    BY <2>1 DEF Place, locals, history
  <2> QED BY <2>2, PlacesKept
<1> QED BY <1>1, <1>2, <1>3, <1>4, <1>5, <1>6, <1>7, <1>8, <1>9, <1>10, <1>11, <1>12, <1>13, <1>14,
       <1>15, <1>16, <1>17, <1>18, <1>19 DEF Next, Worker, Prepare, Flush, Returned

-----------------------------------------------------------------------------
(* The steps that change what a worker has in hand, and the rest, which    *)
(* only move it from label to label.                                        *)
Holding == {"make", "barrier1", "barrier2", "run"}

Quiet ==
  /\ UNCHANGED <<id_map, queued_ops, ops, local_allocs, rewritten, next_slot, free_slots,
                 id_to_idx, slots, at, unflushed, pending, history>>
  /\ \A s \in Threads :
       \/ pc'[s] = pc[s]
       \/ /\ pc[s] \notin {"assign", "push"}
          /\ pc'[s] \notin Holding \cup {"assign", "push"}
       \/ pc[s] \in Holding /\ pc'[s] \in Holding
       \/ pc[s] = "clamp" /\ pc'[s] = "make"

Handles(t) ==
  \/ Loop(t) \/ TakeFromQueue(t) \/ ScanLine(t) \/ MakeOp(t) \/ Perform(t) \/ Performed(t)
  \/ FlushOne(t) \/ AssignPointer(t) \/ PushPending(t)

LEMMA QuietGoto ==
  ASSUME TypeOK, NEW t \in Threads, NEW label, Goto(t, label),
         \/ pc[t] = "clamp" /\ label = "make"
         \/ pc[t] \in Holding /\ label \in Holding
         \/ pc[t] \notin {"assign", "push"} /\ label \notin Holding \cup {"assign", "push"},
         UNCHANGED <<id_map, queued_ops, ops, local_allocs, rewritten, next_slot, free_slots,
                     id_to_idx, slots, at, unflushed, pending, history>>
  PROVE  Quiet
<1>1. pc'[t] = label /\ \A s \in Threads \ {t} : pc'[s] = pc[s]
  BY DEF TypeOK, Goto
<1> QED BY <1>1 DEF Quiet

LEMMA StepKinds ==
  ASSUME IInv, [Next]_vars
  PROVE  Quiet \/ \E t \in Threads : Handles(t)
<1> TypeOK
  BY DEF IInv, Sizes
<1>1. ASSUME NEW t \in Threads, Claim(t) PROVE Quiet
  <2>1. /\ pc[t] = "claim" /\ (Goto(t, "clamp") \/ Goto(t, "scan"))
        /\ UNCHANGED <<id_map, queued_ops, ops, local_allocs, rewritten, next_slot, free_slots,
                       id_to_idx, slots, at, unflushed, pending, history>>
    BY <1>1 DEF Claim
  <2> QED BY <2>1, QuietGoto DEF Holding
<1>2. ASSUME NEW t \in Threads, Clamp(t) PROVE Quiet
  BY <1>2, QuietGoto DEF Clamp, locals
<1>3. ASSUME NEW t \in Threads, BatchMade(t) PROVE Quiet
  <2>1. /\ pc[t] = "make" /\ (Goto(t, "leave") \/ Goto(t, "barrier1"))
        /\ UNCHANGED <<shared, locals, history>>
    BY <1>3 DEF BatchMade
  <2> QED BY <2>1, QuietGoto DEF shared, locals, Holding
<1>4. ASSUME NEW t \in Threads, ArriveAndWait(t) PROVE Quiet
  <2>1. \A u \in Threads : pc'[u] = pc[u] \/ Released(pc[u], pc'[u])
    BY <1>4, ArrivalMoves
  <2> QED BY <1>4, <2>1 DEF ArriveAndWait, Quiet, Released, Holding, locals
<1>5. ASSUME NEW t \in Threads, ArriveAndDrop(t) PROVE Quiet
  <2>1. /\ pc[t] = "leave" /\ pc'[t] = "exited"
        /\ \A u \in Threads \ {t} :
             pc'[u] = pc[u] \/ (pc[u] = "barrier1" /\ pc'[u] = "barrier2")
    BY <1>5, DropMoves
  <2> QED BY <1>5, <2>1 DEF ArriveAndDrop, Quiet, Holding, locals
<1>6. ASSUME NEW t \in Threads, AllocatorError(t) PROVE Quiet
  BY <1>6, QuietGoto DEF AllocatorError, shared, locals, Holding
<1>7. ASSUME NEW t \in Threads, Flushed(t) PROVE Quiet
  BY <1>7, QuietGoto DEF Flushed, shared, locals, Holding
<1>8. ASSUME NEW t \in Threads, StoreDone(t) PROVE Quiet
  BY <1>8, QuietGoto DEF StoreDone, locals, Holding
<1>9. ASSUME NEW t \in Threads, ReportStatus(t) PROVE Quiet
  BY <1>9, QuietGoto DEF ReportStatus, locals, Holding
<1>10. ASSUME Join \/ UNCHANGED vars PROVE Quiet
  BY <1>10 DEF Join, vars, shared, locals, Quiet
<1> QED BY <1>1, <1>2, <1>3, <1>4, <1>5, <1>6, <1>7, <1>8, <1>9, <1>10
        DEF Next, Worker, Prepare, Flush, Returned, Handles

(* An operation of a batch is that batch's, or has been performed: it is    *)
(* nowhere else.                                                            *)
LEMMA BatchedOpPlace ==
  ASSUME IInv, NEW t \in Threads, NEW k \in Batched(t)
  PROVE  /\ ops[t][k] \in Ops
         /\ Place("batch", t, k, ops[t][k]) \/ Place("performed", 0, 0, ops[t][k])
<1>1. ops[t][k] \in Ops /\ at[t] \in Nat /\ Len(ops[t]) \in Nat
  BY Lengths DEF IInv, Batched
<1>2. CASE k <= at[t]
  <2>1. ops[t][k] \in performed
    BY <1>1, <1>2 DEF IInv, PerformedPrefix, Batched
  <2> QED BY <1>1, <2>1 DEF Place
<1>3. CASE at[t] < k
  <2>1. k \in (at[t] + 1)..Len(ops[t])
    BY <1>1, <1>3 DEF Batched
  <2> QED BY <1>1, <2>1 DEF Place
<1> QED BY <1>1, <1>2, <1>3 DEF Batched

LEMMA NotInBatch ==
  ASSUME IInv, NEW i \in Ops, NEW kind, NEW a, NEW b, Place(kind, a, b, i),
         kind \notin {"batch", "performed"}
  PROVE  \A t \in Threads : \A k \in Batched(t) : ops[t][k] # i
BY BatchedOpPlace, Exclusive

LEMMA NotPerformed ==
  ASSUME IInv, NEW i \in Ops, NEW kind, NEW a, NEW b, Place(kind, a, b, i), kind # "performed"
  PROVE  i \notin performed
<1>1. ASSUME i \in performed PROVE FALSE
  <2>1. Place("performed", 0, 0, i)
    BY <1>1 DEF Place
  <2> QED BY <2>1, Exclusive
<1> QED BY <1>1

LEMMA BatchesDisjointPreserved ==
  ASSUME IInv, [Next]_vars
  PROVE  BatchesDisjoint'
<1> Sizes /\ BatchesDisjoint
  BY DEF IInv
<1>1. CASE UNCHANGED ops
  BY <1>1 DEF BatchesDisjoint, Batched
<1>2. ASSUME NEW t \in Threads, Loop(t) PROVE BatchesDisjoint'
  <2>1. Len(ops'[t]) = 0 /\ \A s \in Threads \ {t} : ops'[s] = ops[s]
    BY <1>2, LoopEffect
  <2> QED BY <2>1 DEF BatchesDisjoint, Batched
<1>3. ASSUME NEW t \in Threads, TakeFromQueue(t) PROVE BatchesDisjoint'
  <2>1. PICK n \in 0..Len(queued_ops) :
          Len(ops'[t]) = n /\ \A k \in 1..n : ops'[t][k] = queued_ops[k]
    BY <1>3, TakeEffect
  <2>2. \A s \in Threads \ {t} : ops'[s] = ops[s]
    BY <1>3, TakeEffect
  <2>3. \A k \in 1..n : queued_ops[k] \in Ops /\ Place("queued", k, 0, queued_ops[k])
    BY Lengths DEF Place
  <2>4. \A k \in 1..n : \A s \in Threads : \A m \in Batched(s) : ops[s][m] # queued_ops[k]
    BY <2>3, NotInBatch
  <2>5. \A k, m \in 1..n : queued_ops[k] = queued_ops[m] => k = m
    BY <2>3, Exclusive
  <2> QED BY <2>1, <2>2, <2>4, <2>5 DEF BatchesDisjoint, Batched
<1>4. ASSUME NEW t \in Threads, ScanLine(t) PROVE BatchesDisjoint'
  <2>0. PICK i, n : i = claimed[t].first /\ n = Len(ops[t])
    OBVIOUS
  <2>1. i \in Ops /\ n \in Nat /\ Place("claimed", t, 0, i)
    BY <1>4, <2>0, ScanEffect, Lengths DEF Place
  <2>2. \A s \in Threads : \A m \in Batched(s) : ops[s][m] # i
    BY <2>1, NotInBatch
  <2>3. \A s \in Threads \ {t} : ops'[s] = ops[s]
    BY <1>4, ScanEffect
  <2>4. CASE ops'[t] = ops[t]
    BY <2>3, <2>4 DEF BatchesDisjoint, Batched
  <2>5. CASE /\ Len(ops'[t]) = n + 1 /\ ops'[t][n + 1] = i
             /\ \A k \in 1..n : ops'[t][k] = ops[t][k]
    <3>1. \A k \in Batched(t)' : k \in Batched(t) \/ k = n + 1
      BY <2>0, <2>1, <2>5 DEF Batched
    <3>2. \A s \in Threads \ {t} : Batched(s)' = Batched(s)
      BY <2>3 DEF Batched
    <3>3. \A k \in Batched(t) : ops'[t][k] = ops[t][k]
      BY <2>0, <2>5 DEF Batched
    <3>4. ops'[t][n + 1] = i
      BY <2>5
    <3> QED BY <2>2, <2>3, <3>1, <3>2, <3>3, <3>4 DEF BatchesDisjoint
  <2> QED BY <1>4, <2>0, <2>4, <2>5, ScanEffect
<1>5. ASSUME NEW t \in Threads, MakeOp(t) PROVE UNCHANGED ops
  BY <1>5 DEF MakeOp
<1>6. ASSUME NEW t \in Threads, Perform(t) \/ Performed(t) PROVE UNCHANGED ops
  BY <1>6 DEF Perform, Performed
<1>7. ASSUME NEW t \in Threads, FlushOne(t) \/ AssignPointer(t) \/ PushPending(t)
      PROVE  UNCHANGED ops
  BY <1>7 DEF FlushOne, AssignPointer, PushPending, locals
<1>8. Quiet => UNCHANGED ops
  BY DEF Quiet
<1> QED BY <1>1, <1>2, <1>3, <1>4, <1>5, <1>6, <1>7, <1>8, StepKinds DEF Handles

LEMMA PerformedPrefixPreserved ==
  ASSUME IInv, [Next]_vars
  PROVE  PerformedPrefix'
<1> Sizes /\ PerformedPrefix
  BY DEF IInv
<1>1. CASE UNCHANGED <<ops, at, performed>>
  BY <1>1 DEF PerformedPrefix
<1>2. ASSUME NEW t \in Threads, Loop(t) PROVE PerformedPrefix'
  <2>1. at'[t] = 0 /\ performed' = performed
        /\ \A s \in Threads \ {t} : ops'[s] = ops[s] /\ at'[s] = at[s]
    BY <1>2, LoopEffect DEF history
  <2> QED BY <2>1 DEF PerformedPrefix
<1>3. ASSUME NEW t \in Threads, TakeFromQueue(t) \/ ScanLine(t) PROVE PerformedPrefix'
  <2>1. at[t] = 0 /\ at' = at /\ performed' = performed
        /\ \A s \in Threads \ {t} : ops'[s] = ops[s]
    BY <1>3, TakeEffect, ScanEffect DEF history
  <2> QED BY <2>1 DEF PerformedPrefix
<1>4. ASSUME NEW t \in Threads, Perform(t) PROVE PerformedPrefix'
  <2>0. PICK i : i = ops[t][at[t] + 1]
    OBVIOUS
  <2>1. /\ performed' = performed \cup {i} /\ at'[t] = at[t] + 1 /\ ops' = ops
        /\ \A s \in Threads \ {t} : at'[s] = at[s]
    BY <1>4, <2>0, PerformEffect
  <2>2. \A k \in 1..at'[t] : k \in 1..at[t] \/ k = at[t] + 1
    BY <2>1, Lengths
  <2> QED BY <2>0, <2>1, <2>2 DEF PerformedPrefix
<1>5. ASSUME NEW t \in Threads, MakeOp(t) \/ Performed(t) PROVE UNCHANGED <<ops, at, performed>>
  BY <1>5 DEF MakeOp, Performed, history
<1>6. ASSUME NEW t \in Threads, FlushOne(t) \/ AssignPointer(t) \/ PushPending(t)
      PROVE  UNCHANGED <<ops, at, performed>>
  BY <1>6 DEF FlushOne, AssignPointer, PushPending, locals, history
<1>7. Quiet => UNCHANGED <<ops, at, performed>>
  BY DEF Quiet, history
<1> QED BY <1>1, <1>2, <1>3, <1>4, <1>5, <1>6, <1>7, StepKinds DEF Handles

LEMMA ParkedUnderInputPreserved ==
  ASSUME IInv, [Next]_vars
  PROVE  ParkedUnderInput'
<1> Ops' = Ops /\ Uids' = Uids /\ \A i : InputUid(i)' = InputUid(i)
  BY TraceUnchanged, TraceKept
<1> Sizes /\ ParkedUnderInput
  BY DEF IInv
<1>1. CASE \A u \in Uids, i \in Ops : id_map'[u] = Parked(i) => id_map[u] = Parked(i)
  BY <1>1 DEF ParkedUnderInput, Parked
<1>2. CASE UNCHANGED id_map
  BY <1>1, <1>2
<1>3. ASSUME NEW t \in Threads, ScanLine(t) PROVE ParkedUnderInput'
  <2>0. PICK i : i = claimed[t].first
    OBVIOUS
  <2>1. CASE id_map' = id_map
    BY <1>2, <2>1
  <2>2. CASE /\ id_map'[InputUid(i)] = Parked(i)
             /\ \A u \in Uids \ {InputUid(i)} : id_map'[u] = id_map[u]
    BY <2>2 DEF ParkedUnderInput, Parked
  <2> QED BY <1>3, <2>0, <2>1, <2>2, ScanEffect
<1>4. ASSUME NEW t \in Threads, MakeOp(t) PROVE ParkedUnderInput'
  <2>0. PICK i : i = ops[t][Len(rewritten[t]) + 1]
    OBVIOUS
  <2>1. CASE IsGlobal(t, i)
    <3>1. /\ id_map'[InputUid(i)] = Empty
          /\ \A u \in Uids \ {InputUid(i)} : id_map'[u] = id_map[u]
      BY <1>4, <2>0, <2>1, InputTaken
    <3> QED BY <1>1, <3>1 DEF Empty, Parked
  <2>2. CASE ~IsGlobal(t, i)
    BY <1>2, <1>4, <2>0, <2>2, NoInputTaken
  <2> QED BY <2>1, <2>2
<1>5. ASSUME NEW t \in Threads, FlushOne(t) PROVE ParkedUnderInput'
  <2>1. PICK u \in Uids : /\ IsPointer(u)' \/ id_map' = id_map
                          /\ \A v \in Uids \ {u} : id_map'[v] = id_map[v]
    BY <1>5, FlushEffect
  <2> QED BY <1>1, <2>1 DEF IsPointer, Parked
<1>6. ASSUME NEW t \in Threads, AssignPointer(t) PROVE ParkedUnderInput'
  <2>0. PICK u : u = pending[t].uid
    OBVIOUS
  <2>1. /\ IsPointer(u)' \/ id_map' = id_map
        /\ \A v \in Uids \ {u} : id_map'[v] = id_map[v]
    BY <1>6, <2>0, AssignEffect
  <2> QED BY <1>1, <2>1 DEF IsPointer, Parked
<1>7. ASSUME NEW t \in Threads,
             Loop(t) \/ TakeFromQueue(t) \/ Perform(t) \/ Performed(t) \/ PushPending(t)
      PROVE  UNCHANGED id_map
  BY <1>7 DEF Loop, TakeFromQueue, Perform, Performed, PushPending, shared
<1>8. Quiet => UNCHANGED id_map
  BY DEF Quiet
<1> QED BY <1>2, <1>3, <1>4, <1>5, <1>6, <1>7, <1>8, StepKinds DEF Handles

(* A result is in one batch only, and in one place of it.                   *)
LEMMA ResultInOneBatch ==
  ASSUME IInv, NEW t \in Threads, NEW s \in Threads,
         NEW k \in Batched(t), NEW m \in Batched(s),
         ResultUid(ops[t][k]) = ResultUid(ops[s][m]), ResultUid(ops[t][k]) # NoId
  PROVE  t = s /\ k = m
<1>1. ops[t][k] \in Ops /\ ops[s][m] \in Ops
  BY BatchedOpPlace
<1>2. ops[t][k] = ops[s][m]
  BY <1>1, ResultsDistinct DEF IInv, Sizes, TypeOK
<1> QED BY <1>2 DEF IInv, BatchesDisjoint

LEMMA InputInOneBatch ==
  ASSUME IInv, NEW t \in Threads, NEW s \in Threads,
         NEW k \in Batched(t), NEW m \in Batched(s),
         InputUid(ops[t][k]) = InputUid(ops[s][m]), InputUid(ops[t][k]) # NoId
  PROVE  t = s /\ k = m
<1>1. ops[t][k] \in Ops /\ ops[s][m] \in Ops
  BY BatchedOpPlace
<1>2. ops[t][k] = ops[s][m]
  BY <1>1, InputsDistinct DEF IInv, Sizes, TypeOK
<1> QED BY <1>2 DEF IInv, BatchesDisjoint

LEMMA MadeIsBatched ==
  ASSUME IInv, NEW t \in Threads
  PROVE  Made(t) \subseteq Batched(t)
BY Lengths DEF IInv, Sizes, BatchBounds, Made, Batched

LEMMA HeldByOne ==
  ASSUME IInv, NEW t \in Threads, NEW s \in Threads, NEW u \in Uids,
         id_to_idx[t][u] # NoSlot, id_to_idx[s][u] # NoSlot
  PROVE  t = s
<1>1. PICK k \in Made(t) : ResultUid(ops[t][k]) = u
  BY DEF IInv, IdsOfBatch
<1>2. PICK m \in Made(s) : ResultUid(ops[s][m]) = u
  BY DEF IInv, IdsOfBatch
<1>3. u # NoId
  BY NumOpsNat, NoIdAssumption DEF IInv, Sizes, TypeOK, Uids
<1> QED BY <1>1, <1>2, <1>3, MadeIsBatched, ResultInOneBatch

(* An input that is looked up in the id map has been recorded there.        *)
LEMMA GlobalInputIsPointer ==
  ASSUME IInv, NEW t \in Threads, Len(rewritten[t]) < Len(ops[t]),
         NEW i, i = ops[t][Len(rewritten[t]) + 1], IsGlobal(t, i)
  PROVE  IsPointer(InputUid(i))
<1> DEFINE n == Len(rewritten[t])
<1>1. n \in Nat /\ Len(ops[t]) \in Nat /\ n + 1 \in (n + 1)..Len(ops[t])
  BY Lengths DEF IInv
<1>2. /\ InputUid(i) # NoId /\ id_to_idx[t][InputUid(i)] = NoSlot
      /\ n + 1 \in Batched(t)
  BY <1>1 DEF IsGlobal, Batched
<1>3. ASSUME NEW m \in 1..n, ResultUid(ops[t][m]) = InputUid(i)
      PROVE  FALSE
  <2>1. m \in Made(t) /\ ResultUid(ops[t][m]) # NoId
    BY <1>2, <1>3 DEF Made
  <2>2. ~LiveIn(t, m)
    BY <1>2, <1>3, <2>1 DEF IInv, IdsOfBatch
  <2>3. PICK k \in (m + 1)..n : InputUid(ops[t][k]) = InputUid(i)
    BY <1>3, <2>2 DEF LiveIn
  <2>4. k \in Batched(t) /\ k # n + 1
    BY <1>1, <2>3 DEF Batched
  <2> QED BY <1>2, <2>3, <2>4, InputInOneBatch
<1>4. \/ IsPointer(InputUid(i))
      \/ \E m \in 1..n : ResultUid(ops[t][m]) = InputUid(i)
  BY <1>1, <1>2 DEF IInv, InputsInReach
<1> QED BY <1>3, <1>4

LEMMA UnflushedHeld ==
  ASSUME IInv, NEW t \in Threads, NEW u \in unflushed[t]
  PROVE  u \in Uids /\ id_to_idx[t][u] # NoSlot /\ Holds(t, u)
BY DEF IInv, Sizes, TypeOK, FlushBounds, Holds

LEMMA PendingIsParkedPreserved ==
  ASSUME IInv, [Next]_vars
  PROVE  PendingIsParked'
<1> Ops' = Ops /\ Uids' = Uids /\ \A i : InputUid(i)' = InputUid(i)
  BY TraceUnchanged, TraceKept
<1> Sizes /\ PendingIsParked /\ Lockstep /\ TypeOK
  BY DEF IInv, Sizes
<1>1. CASE /\ UNCHANGED <<pending, id_map>>
           /\ \A s \in Threads : pc'[s] \in {"assign", "push"} => pc'[s] = pc[s]
  BY <1>1 DEF PendingIsParked, IsPointer
(* While a worker prepares, no other one is flushing.                       *)
<1>2. ASSUME NEW t \in Threads, pc[t] \in Gathering, pc'[t] \notin {"assign", "push"},
             \A s \in Threads \ {t} : pc'[s] = pc[s]
      PROVE  PendingIsParked'
  <2>1. \A s \in Threads : pc[s] \notin {"assign", "push"}
    BY <1>2 DEF Lockstep, Acting, Performing
  <2>2. \A s \in Threads : pc'[s] \notin {"assign", "push"}
    BY <1>2, <2>1
  <2> QED BY <2>2 DEF PendingIsParked
<1>3. ASSUME NEW t \in Threads, Loop(t) PROVE PendingIsParked'
  BY <1>2, <1>3, LoopEffect DEF Gathering
<1>4. ASSUME NEW t \in Threads, TakeFromQueue(t) PROVE PendingIsParked'
  BY <1>2, <1>4, TakeEffect DEF Gathering, Preparing
<1>5. ASSUME NEW t \in Threads, ScanLine(t) PROVE PendingIsParked'
  BY <1>2, <1>5, ScanEffect DEF Gathering, Preparing
<1>6. ASSUME NEW t \in Threads, MakeOp(t) PROVE PendingIsParked'
  <2>1. pc[t] = "make" /\ pc'[t] \in {"make", "error"} /\ \A s \in Threads \ {t} : pc'[s] = pc[s]
    BY <1>6, MakeEffect
  <2> QED BY <1>2, <2>1 DEF Gathering, Preparing
<1>7. ASSUME NEW t \in Threads, Perform(t) PROVE PendingIsParked'
  BY <1>1, <1>7 DEF Perform, shared
<1>8. ASSUME NEW t \in Threads, Performed(t) PROVE PendingIsParked'
  BY <1>1, <1>8 DEF Performed, shared, Goto, TypeOK
<1>9. ASSUME NEW t \in Threads, FlushOne(t) PROVE PendingIsParked'
  <2>1. PICK u \in unflushed[t] :
          /\ pc[t] = "flush" /\ u \in Uids
          /\ \/ id_map[u] = Empty /\ IsPointer(u)' /\ UNCHANGED <<pc, pending>>
             \/ /\ id_map[u] # Empty /\ pc'[t] = "assign" /\ UNCHANGED id_map
                /\ pending'[t].uid = u /\ pending'[t].op = ReadParked(id_map[u])
          /\ \A v \in Uids \ {u} : id_map'[v] = id_map[v]
          /\ \A s \in Threads \ {t} : pc'[s] = pc[s] /\ pending'[s] = pending[s]
    BY <1>9, FlushEffect
  <2>2. CASE id_map[u] = Empty
    <3>1. \A s \in Threads : pc[s] \in {"assign", "push"} =>
            pending[s].uid \in Uids /\ pending[s].uid # u
      <4>1. ASSUME NEW s \in Threads, pc[s] \in {"assign", "push"}
            PROVE  pending[s].uid \in Uids
        BY <4>1 DEF Sizes, FlushBounds, TypeOK
      <4>2. ASSUME NEW s \in Threads, pc[s] \in {"assign", "push"}
            PROVE  id_map[pending[s].uid] # Empty
        <5>1. Empty.kind = "empty" /\ \A i : Parked(i).kind = "parked"
          BY DEF Empty, Parked
        <5> QED BY <4>2, <5>1 DEF PendingIsParked, IsPointer
      <4> QED BY <2>2, <4>1, <4>2
    <3> QED BY <2>1, <2>2, <3>1 DEF PendingIsParked, IsPointer
  <2>3. CASE id_map[u] # Empty
    <3>1. ~IsPointer(u)
      BY <2>1, UnflushedHeld DEF IInv, PointersRecorded, Flushing
    <3>2. id_map[u] \in MapVals
      BY <2>1 DEF TypeOK
    <3>3. PICK i \in Ops : id_map[u] = Parked(i)
      BY <2>3, <3>1, <3>2 DEF MapVals, IsPointer, Pointer
    <3>4. pending'[t].uid = u /\ pending'[t].op = i /\ pc'[t] = "assign" /\ UNCHANGED id_map
      BY <2>1, <2>3, <3>3 DEF ReadParked, Parked
    <3> QED BY <2>1, <3>3, <3>4 DEF PendingIsParked, IsPointer, Parked
  <2> QED BY <2>2, <2>3
<1>10. ASSUME NEW t \in Threads, AssignPointer(t) PROVE PendingIsParked'
  <2>0. PICK u, i : u = pending[t].uid /\ i = pending[t].op
    OBVIOUS
  <2>1. /\ pc[t] = "assign" /\ u \in unflushed[t] /\ u \in Uids
        /\ \/ id_map[u] = Empty /\ pc'[t] = "error"
           \/ pc'[t] = "push" /\ IsPointer(u)'
        /\ \A v \in Uids \ {u} : id_map'[v] = id_map[v]
        /\ \A s \in Threads \ {t} : pc'[s] = pc[s]
        /\ UNCHANGED pending
    BY <1>10, <2>0, AssignEffect DEF locals
  <2>2. i \in Ops /\ id_map[u] = Parked(i)
    BY <2>0, <2>1 DEF PendingIsParked
  <2>3. InputUid(i) = u /\ pc'[t] = "push" /\ IsPointer(u)'
    BY <2>1, <2>2 DEF IInv, ParkedUnderInput, Empty, Parked
  <2>4. ASSUME NEW s \in Threads \ {t}, pc[s] \in {"assign", "push"}
        PROVE  pending[s].uid \in Uids /\ pending[s].uid # u
    <3>1. pending[s].uid \in unflushed[s]
      BY <2>4 DEF Sizes, FlushBounds
    <3> QED BY <2>1, <2>4, <3>1, UnflushedHeld, HeldByOne
  <2>5. /\ pc'[t] = "push" /\ pending'[t].op \in Ops
        /\ InputUid(pending'[t].op) = pending'[t].uid
        /\ id_map'[pending'[t].uid].kind = "pointer"
    BY <2>0, <2>1, <2>2, <2>3 DEF IsPointer
  <2>6. ASSUME NEW s \in Threads \ {t}
        PROVE  /\ pc'[s] = pc[s] /\ pending'[s] = pending[s]
               /\ pc[s] \in {"assign", "push"} =>
                    id_map'[pending[s].uid] = id_map[pending[s].uid]
    BY <2>1, <2>4, <2>6
  <2> QED BY <2>5, <2>6 DEF PendingIsParked, IsPointer
<1>11. ASSUME NEW t \in Threads, PushPending(t) PROVE PendingIsParked'
  BY <1>1, <1>11 DEF PushPending, Goto, TypeOK
<1>12. Quiet => PendingIsParked'
  BY <1>1 DEF Quiet, Holding
<1> QED BY <1>3, <1>4, <1>5, <1>6, <1>7, <1>8, <1>9, <1>10, <1>11, <1>12, StepKinds DEF Handles

LEMMA IdsOfBatchPreserved ==
  ASSUME IInv, [Next]_vars
  PROVE  IdsOfBatch'
<1> Ops' = Ops /\ Uids' = Uids /\ \A i : InputUid(i)' = InputUid(i) /\ ResultUid(i)' = ResultUid(i)
  BY TraceUnchanged, TraceKept
<1> Sizes /\ IdsOfBatch /\ TypeOK
  BY DEF IInv, Sizes
<1>1. CASE UNCHANGED <<ops, rewritten, id_to_idx>>
  BY <1>1 DEF IdsOfBatch, Made, LiveIn
<1>2. ASSUME NEW t \in Threads, Len(rewritten'[t]) = 0, \A u \in Uids : id_to_idx'[t][u] = NoSlot,
             \A s \in Threads \ {t} : /\ ops'[s] = ops[s] /\ rewritten'[s] = rewritten[s]
                                      /\ id_to_idx'[s] = id_to_idx[s]
      PROVE  IdsOfBatch'
  <2>1. Made(t)' = {}
    BY <1>2 DEF Made
  <2> QED BY <1>2, <2>1 DEF IdsOfBatch, Made, LiveIn
<1>3. ASSUME NEW t \in Threads, Loop(t) PROVE IdsOfBatch'
  BY <1>2, <1>3, LoopEffect
<1>4. ASSUME NEW t \in Threads, Len(rewritten[t]) = 0
      PROVE  \A u \in Uids : id_to_idx[t][u] = NoSlot
  BY <1>4 DEF IdsOfBatch, Made
<1>5. ASSUME NEW t \in Threads, TakeFromQueue(t) PROVE IdsOfBatch'
  <2>1. /\ Len(rewritten[t]) = 0 /\ UNCHANGED <<rewritten, id_to_idx>>
        /\ \A s \in Threads \ {t} : ops'[s] = ops[s]
    BY <1>5, TakeEffect
  <2> QED BY <1>2, <1>4, <2>1
<1>6. ASSUME NEW t \in Threads, ScanLine(t) PROVE IdsOfBatch'
  <2>1. /\ Len(rewritten[t]) = 0 /\ UNCHANGED <<rewritten, id_to_idx>>
        /\ \A s \in Threads \ {t} : ops'[s] = ops[s]
    BY <1>6, ScanEffect
  <2> QED BY <1>2, <1>4, <2>1
<1>7. ASSUME NEW t \in Threads, MakeOp(t) PROVE IdsOfBatch'
  <2>0. PICK m, i : m = Len(rewritten[t]) /\ i = ops[t][m + 1]
    OBVIOUS
  <2> DEFINE result == ResultUid(i)
             out == ResultSlot(t, i)
  <2>1. /\ m \in Nat /\ m < Len(ops[t]) /\ i \in Ops
        /\ Len(rewritten'[t]) = m + 1
        /\ rewritten'[t][m + 1].out = out
        /\ \A k \in 1..m : rewritten'[t][k] = rewritten[t][k]
        /\ \A s \in Threads \ {t} : rewritten'[s] = rewritten[s]
        /\ ops' = ops
    BY <1>7, <2>0, MakeEffect
  <2>2. /\ result # NoId => id_to_idx'[t][result] = out
        /\ \A u \in Uids \ {result, InputUid(i)} : id_to_idx'[t][u] = id_to_idx[t][u]
        /\ InputUid(i) \notin {NoId, result} => id_to_idx'[t][InputUid(i)] = NoSlot
        /\ \A s \in Threads \ {t} : id_to_idx'[s] = id_to_idx[s]
    BY <1>7, <2>0, MakeIds
  <2>11. NoId \notin Uids
    BY NoIdNotUid
  <2>3. result # NoId => out # NoSlot
    <3>1. result # NoId => \/ out \in FreeAfterInput(t, i)
                           \/ out = NextAfterInput(t, i)
      BY <2>0, <2>1, MakeOpSlots
    <3>2. next_slot[t] \in Nat /\ NextAfterInput(t, i) \in {next_slot[t], next_slot[t] + 1}
      BY <2>0, <2>1, MakeOpSlots
    <3>3. FreeAfterInput(t, i) \subseteq 0..(NextAfterInput(t, i) - 1)
      BY <2>0, <2>1, MakeOpSlots
    <3> HIDE DEF result, out
    <3> QED BY <3>1, <3>2, <3>3 DEF NoSlot
  <2>4. \A k \in 1..(m + 1) : k \in 1..m \/ k = m + 1
    BY <2>1
  <2>5. \A k \in 1..m : LiveIn(t, k)' <=> LiveIn(t, k) /\ InputUid(i) # ResultUid(ops[t][k])
    BY <2>0, <2>1 DEF LiveIn
  <2>6. LiveIn(t, m + 1)'
    <3>1. (m + 2)..(m + 1) = {}
      BY <2>1
    <3> QED BY <2>1, <3>1 DEF LiveIn
  <2> HIDE DEF result, out
  <2>7. ASSUME NEW u \in Uids, id_to_idx'[t][u] # NoSlot
        PROVE  \E k \in 1..(m + 1) : /\ ResultUid(ops[t][k]) = u /\ LiveIn(t, k)'
                                     /\ rewritten'[t][k].out = id_to_idx'[t][u]
    <3>1. CASE u = result
      BY SMTT(30), <2>0, <2>1, <2>2, <2>6, <2>11, <3>1 DEF result
    <3>2. CASE u # result
      <4>1. u # InputUid(i) /\ id_to_idx[t][u] # NoSlot /\ id_to_idx'[t][u] = id_to_idx[t][u]
        BY <2>2, <2>7, <2>11, <3>2
      <4>2. PICK k \in 1..m : /\ ResultUid(ops[t][k]) = u /\ LiveIn(t, k)
                              /\ rewritten[t][k].out = id_to_idx[t][u]
        BY <2>0, <4>1 DEF IdsOfBatch, Made
      <4> QED BY <2>1, <2>5, <4>1, <4>2
    <3> QED BY <3>1, <3>2
  <2>8. ASSUME NEW k \in 1..(m + 1), ResultUid(ops[t][k]) # NoId, LiveIn(t, k)'
        PROVE  id_to_idx'[t][ResultUid(ops[t][k])] # NoSlot
    <3>1. ResultUid(ops[t][k]) \in Uids
      <4>1. ops[t][k] \in Ops
        <5>1. k \in 1..Len(ops[t])
          BY <2>1, Lengths
        <5> QED BY <5>1, Lengths
      <4> QED BY <2>8, <4>1, UidsTyped DEF TypeOK
    <3>2. CASE ResultUid(ops[t][k]) = result
      BY <2>2, <2>3, <2>8, <3>1, <3>2
    <3>3. CASE ResultUid(ops[t][k]) # result
      <4>1. k \in 1..m
        BY <2>0, <2>4, <3>3 DEF result
      <4>2. LiveIn(t, k) /\ InputUid(i) # ResultUid(ops[t][k])
        BY <2>5, <2>8, <4>1
      <4>3. id_to_idx[t][ResultUid(ops[t][k])] # NoSlot
        BY <2>0, <2>8, <4>1, <4>2 DEF IdsOfBatch, Made
      <4> QED BY <2>2, <3>1, <3>3, <4>2, <4>3
    <3> QED BY <3>2, <3>3
  <2>9. ASSUME NEW s \in Threads \ {t}
        PROVE  /\ \A k : LiveIn(s, k)' <=> LiveIn(s, k)
               /\ Made(s)' = Made(s)
    BY <2>1 DEF LiveIn, Made
  <2>10. Made(t)' = 1..(m + 1)
    BY <2>1 DEF Made
  <2>12. ASSUME NEW s \in Threads
         PROVE  /\ \A u \in Uids : id_to_idx'[s][u] # NoSlot =>
                     \E k \in Made(s)' : /\ ResultUid(ops[s][k]) = u /\ LiveIn(s, k)'
                                         /\ rewritten'[s][k].out = id_to_idx'[s][u]
                /\ \A k \in Made(s)' : ResultUid(ops[s][k]) # NoId /\ LiveIn(s, k)' =>
                     id_to_idx'[s][ResultUid(ops[s][k])] # NoSlot
    <3>1. CASE s = t
      BY <2>7, <2>8, <2>10, <3>1
    <3>2. CASE s # t
      BY <2>1, <2>2, <2>9, <3>2 DEF IdsOfBatch
    <3> QED BY <3>1, <3>2
  <2> QED BY <2>1, <2>12 DEF IdsOfBatch
<1>8. ASSUME NEW t \in Threads, Perform(t) \/ Performed(t)
      PROVE  UNCHANGED <<ops, rewritten, id_to_idx>>
  BY <1>8 DEF Perform, Performed
<1>9. ASSUME NEW t \in Threads, FlushOne(t) \/ AssignPointer(t) \/ PushPending(t)
      PROVE  UNCHANGED <<ops, rewritten, id_to_idx>>
  BY <1>9 DEF FlushOne, AssignPointer, PushPending, locals
<1>10. Quiet => UNCHANGED <<ops, rewritten, id_to_idx>>
  BY DEF Quiet
<1> QED BY <1>1, <1>3, <1>5, <1>6, <1>7, <1>8, <1>9, <1>10, StepKinds DEF Handles

(* A worker that has made nothing yet holds nothing.                        *)
LEMMA NothingMade ==
  ASSUME IInv, NEW t \in Threads, Len(rewritten[t]) = 0
  PROVE  \A u \in Uids : id_to_idx[t][u] = NoSlot
BY DEF IInv, IdsOfBatch, Made

LEMMA InputsMadePreserved ==
  ASSUME IInv, [Next]_vars
  PROVE  InputsMade'
<1> Ops' = Ops /\ \A i : InputUid(i)' = InputUid(i) /\ ResultUid(i)' = ResultUid(i)
  BY TraceUnchanged, TraceKept
<1> Sizes /\ InputsMade /\ TypeOK
  BY DEF IInv, Sizes
<1>1. CASE UNCHANGED <<ops, rewritten, performed>>
  BY <1>1 DEF InputsMade, Made
<1>2. ASSUME NEW t \in Threads, Len(rewritten'[t]) = 0, UNCHANGED performed,
             \A s \in Threads \ {t} : ops'[s] = ops[s] /\ rewritten'[s] = rewritten[s]
      PROVE  InputsMade'
  <2>1. Made(t)' = {}
    BY <1>2 DEF Made
  <2> QED BY <1>2, <2>1 DEF InputsMade, Made
<1>3. ASSUME NEW t \in Threads, Loop(t) PROVE InputsMade'
  BY <1>2, <1>3, LoopEffect DEF history
<1>4. ASSUME NEW t \in Threads, TakeFromQueue(t) PROVE InputsMade'
  BY <1>2, <1>4, TakeEffect DEF history
<1>5. ASSUME NEW t \in Threads, ScanLine(t) PROVE InputsMade'
  BY <1>2, <1>5, ScanEffect DEF history
<1>6. ASSUME NEW t \in Threads, MakeOp(t) PROVE InputsMade'
  <2>0. PICK m, i : m = Len(rewritten[t]) /\ i = ops[t][m + 1]
    OBVIOUS
  <2>1. /\ m \in Nat /\ m < Len(ops[t]) /\ i \in Ops
        /\ Len(rewritten'[t]) = m + 1
        /\ \A s \in Threads \ {t} : rewritten'[s] = rewritten[s]
        /\ UNCHANGED <<ops, performed>>
    BY <1>6, <2>0, MakeEffect DEF history
  <2>2. ASSUME InputUid(i) # NoId
        PROVE  \E j \in Ops : /\ ResultUid(j) = InputUid(i)
                              /\ (j \in performed \/ \E k \in 1..m : ops[t][k] = j)
    <3>1. \/ IsPointer(InputUid(i))
          \/ \E k \in 1..m : ResultUid(ops[t][k]) = InputUid(i)
      <4>0. Len(ops[t]) \in Nat
        BY Lengths
      <4>1. m + 1 \in (m + 1)..Len(ops[t]) /\ (m + 1) - 1 = m
        BY <2>1, <4>0
      <4> QED BY <2>0, <2>2, <4>1 DEF IInv, InputsInReach
    <3>2. CASE IsPointer(InputUid(i))
      <4>1. InputUid(i) \in Uids
        BY <2>1, <2>2, UidsTyped DEF TypeOK
      <4> QED BY <3>2, <4>1 DEF IInv, PointersRecorded, TypeOK
    <3>3. ASSUME NEW k \in 1..m, ResultUid(ops[t][k]) = InputUid(i)
          PROVE  \E j \in Ops : ResultUid(j) = InputUid(i) /\ \E l \in 1..m : ops[t][l] = j
      <4>1. ops[t][k] \in Ops
        <5>1. k \in 1..Len(ops[t])
          BY <2>1, Lengths
        <5> QED BY <5>1, Lengths
      <4> QED BY <3>3, <4>1
    <3> QED BY <3>1, <3>2, <3>3
  <2>3. \A k \in Made(t)' : k \in Made(t) \/ k = m + 1
    BY <2>0, <2>1 DEF Made
  <2>4. \A s \in Threads \ {t} : Made(s)' = Made(s)
    BY <2>1 DEF Made
  <2>5. ASSUME NEW s \in Threads, NEW k \in Made(s)', InputUid(ops[s][k]) # NoId
        PROVE  \E j \in Ops : /\ ResultUid(j) = InputUid(ops[s][k])
                              /\ (j \in performed \/ \E l \in 1..(k - 1) : ops[s][l] = j)
    <3>1. CASE k \in Made(s)
      BY <2>5, <3>1 DEF InputsMade
    <3>2. CASE k \notin Made(s)
      <4>1. s = t /\ k = m + 1 /\ k - 1 = m
        BY <2>1, <2>3, <2>4, <2>5, <3>2
      <4> QED BY <2>0, <2>2, <2>5, <4>1
    <3> QED BY <3>1, <3>2
  <2> QED BY <2>1, <2>5 DEF InputsMade
<1>7. ASSUME NEW t \in Threads, Perform(t) PROVE InputsMade'
  <2>0. PICK m, i : m = at[t] + 1 /\ i = ops[t][m]
    OBVIOUS
  <2>1. /\ pc[t] = "run" /\ at[t] < Len(ops[t]) /\ performed' = performed \cup {i}
        /\ UNCHANGED <<ops, rewritten>>
    BY <1>7, <2>0, PerformEffect
  <2>2. m \in Made(t) /\ m - 1 = at[t]
    <3>1. Len(rewritten[t]) = Len(ops[t])
      BY <2>1 DEF Sizes, BatchBounds, Acting, Performing
    <3> QED BY <2>0, <2>1, <3>1, Lengths DEF Made
  <2>3. ASSUME InputUid(i) # NoId PROVE \E j \in performed : ResultUid(j) = InputUid(i)
    <3>1. PICK j \in Ops : /\ ResultUid(j) = InputUid(i)
                           /\ (j \in performed \/ \E k \in 1..(m - 1) : ops[t][k] = j)
      BY <2>0, <2>2, <2>3 DEF InputsMade
    <3> QED BY <2>2, <3>1 DEF IInv, PerformedPrefix
  <2>4. \A c \in performed' : InputUid(c) # NoId =>
          \E j \in performed' : ResultUid(j) = InputUid(c)
    BY <2>1, <2>3 DEF InputsMade
  <2>5. \A s \in Threads : Made(s)' = Made(s)
    BY <2>1 DEF Made
  <2> QED BY <2>1, <2>4, <2>5 DEF InputsMade
<1>8. ASSUME NEW t \in Threads, Performed(t) PROVE UNCHANGED <<ops, rewritten, performed>>
  BY <1>8 DEF Performed, history
<1>9. ASSUME NEW t \in Threads, FlushOne(t) \/ AssignPointer(t) \/ PushPending(t)
      PROVE  UNCHANGED <<ops, rewritten, performed>>
  BY <1>9 DEF FlushOne, AssignPointer, PushPending, locals, history
<1>10. Quiet => UNCHANGED <<ops, rewritten, performed>>
  BY DEF Quiet, history
<1> QED BY <1>1, <1>3, <1>4, <1>5, <1>6, <1>7, <1>8, <1>9, <1>10, StepKinds DEF Handles

LEMMA LocalAllocsPreserved ==
  ASSUME IInv, [Next]_vars
  PROVE  LocalAllocs'
<1> \A i : ResultUid(i)' = ResultUid(i)
  BY TraceUnchanged, TraceKept
<1> Sizes /\ LocalAllocs /\ TypeOK
  BY DEF IInv, Sizes
<1>1. CASE UNCHANGED <<ops, local_allocs>>
  BY <1>1 DEF LocalAllocs, Batched
<1>2. ASSUME NEW t \in Threads, local_allocs'[t] = {},
             \A s \in Threads \ {t} : ops'[s] = ops[s] /\ local_allocs'[s] = local_allocs[s]
      PROVE  LocalAllocs'
  BY <1>2 DEF LocalAllocs, Batched
<1>3. ASSUME NEW t \in Threads, Loop(t) PROVE LocalAllocs'
  BY <1>2, <1>3, LoopEffect
<1>4. ASSUME NEW t \in Threads, TakeFromQueue(t) PROVE LocalAllocs'
  <2>1. /\ Len(ops[t]) = 0 /\ UNCHANGED local_allocs
        /\ \A s \in Threads \ {t} : ops'[s] = ops[s]
    BY <1>4, TakeEffect
  <2>2. local_allocs[t] = {}
    BY <2>1 DEF LocalAllocs, Batched
  <2> QED BY <1>2, <2>1, <2>2
<1>5. ASSUME NEW t \in Threads, ScanLine(t) PROVE LocalAllocs'
  <2>0. PICK i, n : i = claimed[t].first /\ n = Len(ops[t])
    OBVIOUS
  <2>1. \A s \in Threads \ {t} : ops'[s] = ops[s] /\ local_allocs'[s] = local_allocs[s]
    BY <1>5, ScanEffect
  <2>2. CASE ops'[t] = ops[t] /\ local_allocs'[t] = local_allocs[t]
    BY <2>1, <2>2 DEF LocalAllocs, Batched
  <2>3. CASE /\ Len(ops'[t]) = n + 1 /\ ops'[t][n + 1] = i
             /\ \A k \in 1..n : ops'[t][k] = ops[t][k]
             /\ local_allocs'[t] =
                  (local_allocs[t] \ {InputUid(i)}) \cup ({ResultUid(i)} \ {NoId})
    <3>1. n \in Nat /\ Batched(t) = 1..n /\ Batched(t)' = 1..(n + 1)
      BY <2>0, <2>3, Lengths DEF Batched
    <3>2. \A k \in Batched(t) : k \in Batched(t)' /\ ops'[t][k] = ops[t][k]
      BY <2>3, <3>1
    <3>3. n + 1 \in Batched(t)'
      BY <3>1
    <3>4. \A u \in local_allocs'[t] : \E k \in Batched(t)' : ResultUid(ops'[t][k]) = u
      BY <2>3, <3>2, <3>3 DEF LocalAllocs
    <3> QED BY <2>1, <3>4 DEF LocalAllocs, Batched
  <2> QED BY <1>5, <2>0, <2>2, <2>3, ScanEffect
<1>6. ASSUME NEW t \in Threads, MakeOp(t) PROVE UNCHANGED <<ops, local_allocs>>
  BY <1>6 DEF MakeOp
<1>7. ASSUME NEW t \in Threads, Perform(t) \/ Performed(t)
      PROVE  UNCHANGED <<ops, local_allocs>>
  BY <1>7 DEF Perform, Performed
<1>8. ASSUME NEW t \in Threads, FlushOne(t) \/ AssignPointer(t) \/ PushPending(t)
      PROVE  UNCHANGED <<ops, local_allocs>>
  BY <1>8 DEF FlushOne, AssignPointer, PushPending, locals
<1>9. Quiet => UNCHANGED <<ops, local_allocs>>
  BY DEF Quiet
<1> QED BY <1>1, <1>3, <1>4, <1>5, <1>6, <1>7, <1>8, <1>9, StepKinds DEF Handles

(* A pointer stays in the id map until the operation it is for takes it.     *)
LEMMA PointersStay ==
  ASSUME IInv, [Next]_vars, NEW u \in Uids, IsPointer(u)
  PROVE  \/ IsPointer(u)'
         \/ \E t \in Threads : /\ MakeOp(t) /\ IsGlobal(t, ops[t][Len(rewritten[t]) + 1])
                               /\ u = InputUid(ops[t][Len(rewritten[t]) + 1])
<1> Sizes
  BY DEF IInv
<1>0. id_map[u] # Empty
  BY DEF IsPointer, Empty
<1>1. CASE UNCHANGED id_map
  BY <1>1 DEF IsPointer
<1>2. ASSUME NEW t \in Threads, ScanLine(t) PROVE IsPointer(u)'
  <2>0. PICK i : i = claimed[t].first
    OBVIOUS
  <2>1. \/ id_map' = id_map
        \/ /\ id_map[InputUid(i)] = Empty
           /\ \A v \in Uids \ {InputUid(i)} : id_map'[v] = id_map[v]
    BY <1>2, <2>0, ScanEffect
  <2> QED BY <1>0, <2>1 DEF IsPointer
<1>3. ASSUME NEW t \in Threads, MakeOp(t)
      PROVE  \/ IsPointer(u)'
             \/ /\ IsGlobal(t, ops[t][Len(rewritten[t]) + 1])
                /\ u = InputUid(ops[t][Len(rewritten[t]) + 1])
  <2>0. PICK i : i = ops[t][Len(rewritten[t]) + 1]
    OBVIOUS
  <2>1. CASE IsGlobal(t, i) /\ u # InputUid(i)
    <3>1. \A v \in Uids \ {InputUid(i)} : id_map'[v] = id_map[v]
      BY <1>3, <2>0, <2>1, InputTaken
    <3> QED BY <2>1, <3>1 DEF IsPointer
  <2>2. CASE ~IsGlobal(t, i)
    <3>1. id_map' = id_map
      BY <1>3, <2>0, <2>2, NoInputTaken
    <3> QED BY <3>1 DEF IsPointer
  <2> QED BY <2>0, <2>1, <2>2
<1>4. ASSUME NEW t \in Threads, FlushOne(t) PROVE IsPointer(u)'
  <2>1. PICK v \in Uids : /\ IsPointer(v)' \/ id_map' = id_map
                          /\ \A w \in Uids \ {v} : id_map'[w] = id_map[w]
    BY <1>4, FlushEffect
  <2> QED BY <2>1 DEF IsPointer
<1>5. ASSUME NEW t \in Threads, AssignPointer(t) PROVE IsPointer(u)'
  <2>0. PICK v : v = pending[t].uid
    OBVIOUS
  <2>1. /\ IsPointer(v)' \/ id_map' = id_map
        /\ \A w \in Uids \ {v} : id_map'[w] = id_map[w]
    BY <1>5, <2>0, AssignEffect
  <2> QED BY <2>1 DEF IsPointer
<1>6. ASSUME NEW t \in Threads,
             Loop(t) \/ TakeFromQueue(t) \/ Perform(t) \/ Performed(t) \/ PushPending(t)
      PROVE  UNCHANGED id_map
  BY <1>6 DEF Loop, TakeFromQueue, Perform, Performed, PushPending, shared
<1>7. Quiet => UNCHANGED id_map
  BY DEF Quiet
<1> QED BY <1>1, <1>2, <1>3, <1>4, <1>5, <1>6, <1>7, StepKinds DEF Handles

(* So what others wait for stays: an input is taken for its consumer only.  *)
LEMMA AwaitedPointersStay ==
  ASSUME IInv, [Next]_vars, NEW j \in Ops, InputUid(j) # NoId, IsPointer(InputUid(j)),
         \A t \in Threads : MakeOp(t) => ops[t][Len(rewritten[t]) + 1] # j
  PROVE  id_map'[InputUid(j)].kind = "pointer"
<1>0. PICK u \in Uids : u = InputUid(j)
  BY UidsTyped DEF IInv, Sizes, TypeOK
<1>1. ASSUME NEW t \in Threads, MakeOp(t), u = InputUid(ops[t][Len(rewritten[t]) + 1])
      PROVE  FALSE
  <2>0. PICK i : i = ops[t][Len(rewritten[t]) + 1]
    OBVIOUS
  <2>1. i \in Ops
    BY <1>1, <2>0, MakeEffect DEF IInv
  <2>2. i = j
    BY <1>0, <1>1, <2>0, <2>1, InputsDistinct DEF IInv, Sizes, TypeOK
  <2> QED BY <1>1, <2>0, <2>2
<1>2. IsPointer(u)'
  BY <1>0, <1>1, PointersStay
<1> QED BY <1>0, <1>2 DEF IsPointer

LEMMA InputsInReachPreserved ==
  ASSUME IInv, [Next]_vars
  PROVE  InputsInReach'
<1> \A i : InputUid(i)' = InputUid(i) /\ ResultUid(i)' = ResultUid(i)
  BY TraceUnchanged, TraceKept
<1> Sizes /\ InputsInReach /\ TypeOK
  BY DEF IInv, Sizes
<1> SUFFICES ASSUME NEW s \in Threads, NEW k \in (Len(rewritten'[s]) + 1)..Len(ops'[s]),
                    InputUid(ops'[s][k]) # NoId
             PROVE  \/ id_map'[InputUid(ops'[s][k])].kind = "pointer"
                    \/ \E m \in 1..(k - 1) : ResultUid(ops'[s][m]) = InputUid(ops'[s][k])
  BY DEF InputsInReach, IsPointer
<1> DEFINE Goal == \/ id_map'[InputUid(ops'[s][k])].kind = "pointer"
                   \/ \E m \in 1..(k - 1) : ResultUid(ops'[s][m]) = InputUid(ops'[s][k])
<1>0. Len(ops[s]) \in Nat /\ Len(rewritten[s]) \in Nat /\ NoId \notin Uids
  BY Lengths, NoIdNotUid
(* An operation that was to be made, and still is.                          *)
<1>1. ASSUME k \in (Len(rewritten[s]) + 1)..Len(ops[s]), \A m \in 1..k : ops'[s][m] = ops[s][m]
      PROVE  Goal
  <2>0. PICK j : j = ops[s][k]
    OBVIOUS
  <2>1. k \in Batched(s) /\ j \in Ops /\ k \in Nat /\ k \in 1..k
    <3>1. k \in 1..Len(ops[s]) /\ k \in Nat
      BY <1>0, <1>1
    <3> QED BY <2>0, <3>1, Lengths DEF Batched
  <2>2. ops'[s][k] = j /\ InputUid(j) # NoId
    BY <1>1, <2>0, <2>1
  <2>3. CASE IsPointer(InputUid(j))
    <3>1. ASSUME NEW t \in Threads, MakeOp(t), ops[t][Len(rewritten[t]) + 1] = j PROVE FALSE
      <4>0. PICK m : m = Len(rewritten[t])
        OBVIOUS
      <4>1. m \in Nat /\ m < Len(ops[t]) /\ Len(rewritten'[t]) = m + 1
        BY <3>1, <4>0, MakeEffect
      <4>2. m + 1 \in Batched(t)
        BY <4>1, Lengths DEF Batched
      <4>3. s = t /\ k = m + 1
        BY <2>0, <2>1, <3>1, <4>0, <4>2 DEF IInv, BatchesDisjoint
      <4> QED BY <4>1, <4>3
    <3>2. id_map'[InputUid(j)].kind = "pointer"
      BY <2>1, <2>2, <2>3, <3>1, AwaitedPointersStay
    <3> QED BY <2>2, <3>2
  <2>4. CASE \E m \in 1..(k - 1) : ResultUid(ops[s][m]) = InputUid(j)
    <3>1. PICK m \in 1..(k - 1) : ResultUid(ops[s][m]) = InputUid(j)
      BY <2>4
    <3>2. m \in 1..k
      BY <2>1, <3>1
    <3> QED BY <1>1, <2>2, <3>1, <3>2
  <2> HIDE DEF Goal
  <2> QED BY <1>1, <2>0, <2>2, <2>3, <2>4 DEF InputsInReach
<1>2. ASSUME ops'[s] = ops[s], rewritten'[s] = rewritten[s] PROVE Goal
  BY <1>1, <1>2
<1> HIDE DEF Goal
<1>3. ASSUME NEW t \in Threads, Loop(t) PROVE Goal
  <2>1. CASE s = t
    <3>1. Len(rewritten'[s]) = 0 /\ Len(ops'[s]) = 0
      BY <1>3, <2>1, LoopEffect
    <3> QED BY <3>1
  <2>2. CASE s # t
    BY <1>2, <1>3, <2>2, LoopEffect
  <2> QED BY <2>1, <2>2
<1>4. ASSUME NEW t \in Threads, TakeFromQueue(t) PROVE Goal
  <2>1. CASE s = t
    <3>1. PICK n \in 0..Len(queued_ops) :
            Len(ops'[s]) = n /\ \A m \in 1..n : ops'[s][m] = queued_ops[m]
      BY <1>4, <2>1, TakeEffect
    <3>2. Len(rewritten'[s]) = 0 /\ id_map' = id_map /\ Len(queued_ops) \in Nat
      BY <1>4, <2>1, TakeEffect, Lengths
    <3>3. k \in 1..Len(queued_ops) /\ ops'[s][k] = queued_ops[k]
      BY <3>1, <3>2
    <3>4. id_map'[InputUid(ops'[s][k])].kind = "pointer"
      BY <3>2, <3>3 DEF IInv, QueuedInputs, IsPointer
    <3> QED BY <3>4 DEF Goal
  <2>2. CASE s # t
    BY <1>2, <1>4, <2>2, TakeEffect
  <2> QED BY <2>1, <2>2
<1>5. ASSUME NEW t \in Threads, ScanLine(t) PROVE Goal
  <2>1. CASE s # t
    BY <1>2, <1>5, <2>1, ScanEffect
  <2>2. CASE s = t /\ ops'[t] = ops[t]
    BY <1>2, <1>5, <2>2, ScanEffect
  <2>3. CASE s = t /\ ops'[t] # ops[t]
    <3>0. PICK i, n : i = claimed[t].first /\ n = Len(ops[t])
      OBVIOUS
    <3>1. /\ i \in Ops /\ i < claimed[t].end /\ Len(rewritten'[t]) = 0
          /\ UNCHANGED rewritten
      BY <1>5, <3>0, ScanEffect
    <3>2. /\ ~MustPark(t, i) /\ id_map' = id_map
          /\ Len(ops'[t]) = n + 1 /\ ops'[t][n + 1] = i
          /\ \A m \in 1..n : ops'[t][m] = ops[t][m]
      BY <1>5, <2>3, <3>0, ScanEffect
    <3>3. k \in 1..n \/ k = n + 1
      BY <1>0, <2>3, <3>0, <3>1, <3>2
    <3>4. CASE k \in 1..n
      <4>1. k \in (Len(rewritten[s]) + 1)..Len(ops[s])
        BY <1>0, <2>3, <3>0, <3>1, <3>4
      <4>2. \A m \in 1..k : m \in 1..n
        BY <1>0, <2>3, <3>0, <3>4
      <4> QED BY <1>1, <2>3, <3>2, <4>1, <4>2
    <3>5. CASE k = n + 1
      <4>0. PICK u \in Uids : u = InputUid(i)
        BY <2>3, <3>1, <3>2, <3>5, UidsTyped DEF TypeOK
      <4>1. u \in local_allocs[t] \/ id_map[u] # Empty
        BY <1>0, <3>2, <4>0 DEF MustPark
      <4>2. CASE u \in local_allocs[t]
        <5>1. PICK m \in 1..n : ResultUid(ops[t][m]) = u
          BY <3>0, <4>2 DEF IInv, LocalAllocs, Batched
        <5>2. ResultUid(ops'[s][m]) = InputUid(ops'[s][k])
          BY <2>3, <3>2, <3>5, <4>0, <5>1
        <5>3. m \in 1..(k - 1)
          BY <1>0, <2>3, <3>0, <3>5, <5>1
        <5> QED BY <5>2, <5>3 DEF Goal
      <4>3. CASE IsPointer(u)
        BY <2>3, <3>2, <3>5, <4>0, <4>3 DEF Goal, IsPointer
      <4>4. ASSUME NEW j \in Ops, id_map[u] = Parked(j) PROVE FALSE
        <5>1. InputUid(j) = InputUid(i) /\ InputUid(i) # NoId
          BY <1>0, <4>0, <4>4 DEF IInv, ParkedUnderInput
        <5>2. j = i
          BY <3>1, <5>1, InputsDistinct DEF TypeOK
        <5>3. Place("parked", u, 0, i) /\ Place("claimed", t, 0, i)
          BY <3>0, <3>1, <4>4, <5>2, Lengths DEF Place
        <5> QED BY <3>1, <5>3, Exclusive
      <4>5. id_map[u] \in MapVals
        BY DEF TypeOK
      <4>6. id_map[u] = Empty \/ IsPointer(u) \/ \E j \in Ops : id_map[u] = Parked(j)
        BY <4>5 DEF MapVals, IsPointer, Pointer
      <4> QED BY <4>1, <4>2, <4>3, <4>4, <4>6
    <3> QED BY <3>3, <3>4, <3>5
  <2> QED BY <2>1, <2>2, <2>3
<1>6. ASSUME NEW t \in Threads, MakeOp(t) PROVE Goal
  <2>0. PICK m : m = Len(rewritten[t])
    OBVIOUS
  <2>1. /\ m \in Nat /\ Len(rewritten'[t]) = m + 1 /\ ops' = ops
        /\ \A r \in Threads \ {t} : rewritten'[r] = rewritten[r]
    BY <1>6, <2>0, MakeEffect
  <2>2. CASE s = t
    <3>1. k \in (Len(rewritten[s]) + 1)..Len(ops[s])
      BY <1>0, <2>0, <2>1, <2>2
    <3> QED BY <1>1, <2>1, <3>1
  <2>3. CASE s # t
    BY <1>2, <2>1, <2>3
  <2> QED BY <2>2, <2>3
<1>7. ASSUME NEW t \in Threads, Perform(t) \/ Performed(t) PROVE UNCHANGED <<ops, rewritten>>
  BY <1>7 DEF Perform, Performed
<1>8. ASSUME NEW t \in Threads, FlushOne(t) \/ AssignPointer(t) \/ PushPending(t)
      PROVE  UNCHANGED <<ops, rewritten>>
  BY <1>8 DEF FlushOne, AssignPointer, PushPending, locals
<1>9. Quiet => UNCHANGED <<ops, rewritten>>
  BY DEF Quiet
<1>10. UNCHANGED <<ops, rewritten>> => Goal
  BY <1>2
<1>11. Goal
  BY <1>3, <1>4, <1>5, <1>6, <1>7, <1>8, <1>9, <1>10, StepKinds DEF Handles
<1> QED BY <1>11 DEF Goal

LEMMA QueuedInputsPreserved ==
  ASSUME IInv, [Next]_vars
  PROVE  QueuedInputs'
<1> \A i : InputUid(i)' = InputUid(i)
  BY TraceUnchanged, TraceKept
<1> Sizes /\ QueuedInputs /\ TypeOK
  BY DEF IInv, Sizes
<1> SUFFICES ASSUME NEW k \in 1..Len(queued_ops')
             PROVE  /\ InputUid(queued_ops'[k]) # NoId
                    /\ id_map'[InputUid(queued_ops'[k])].kind = "pointer"
  BY DEF QueuedInputs, IsPointer
<1> DEFINE Goal == /\ InputUid(queued_ops'[k]) # NoId
                   /\ id_map'[InputUid(queued_ops'[k])].kind = "pointer"
(* An operation that was in the queue before.                               *)
<1>1. ASSUME NEW m \in 1..Len(queued_ops), queued_ops'[k] = queued_ops[m]
      PROVE  Goal
  <2>0. PICK j : j = queued_ops[m]
    OBVIOUS
  <2>1. j \in Ops /\ InputUid(j) # NoId /\ IsPointer(InputUid(j)) /\ Place("queued", m, 0, j)
    BY <2>0, Lengths DEF QueuedInputs, Place
  <2>2. ASSUME NEW t \in Threads, MakeOp(t), ops[t][Len(rewritten[t]) + 1] = j PROVE FALSE
    <3>0. PICK n : n = Len(rewritten[t])
      OBVIOUS
    <3>1. n \in Nat /\ n < Len(ops[t]) /\ Len(ops[t]) \in Nat
      BY <2>2, <3>0, MakeEffect, Lengths
    <3>2. n + 1 \in Batched(t)
      BY <3>1 DEF Batched
    <3> QED BY <2>1, <2>2, <3>0, <3>2, NotInBatch
  <2>3. id_map'[InputUid(j)].kind = "pointer"
    BY <2>1, <2>2, AwaitedPointersStay
  <2> QED BY <1>1, <2>0, <2>1, <2>3
<1> HIDE DEF Goal
<1>2. ASSUME NEW t \in Threads, TakeFromQueue(t) PROVE Goal
  <2>1. PICK n \in 0..Len(queued_ops) :
          /\ Len(queued_ops') = Len(queued_ops) - n
          /\ \A m \in 1..(Len(queued_ops) - n) : queued_ops'[m] = queued_ops[n + m]
    BY <1>2, TakeEffect
  <2>2. n + k \in 1..Len(queued_ops) /\ queued_ops'[k] = queued_ops[n + k]
    <3>1. Len(queued_ops) \in Nat
      BY Lengths
    <3> QED BY <2>1, <3>1
  <2> QED BY <1>1, <2>2
<1>3. ASSUME NEW t \in Threads, PushPending(t) PROVE Goal
  <2>0. PICK i, u, n : i = pending[t].op /\ u = pending[t].uid /\ n = Len(queued_ops)
    OBVIOUS
  <2>1. i \in Ops /\ InputUid(i) = u /\ IsPointer(u)
    BY <1>3, <2>0 DEF IInv, PendingIsParked, PushPending
  <2>2. /\ u \in Uids /\ n \in Nat /\ Len(queued_ops') = n + 1 /\ queued_ops'[n + 1] = i
        /\ \A m \in 1..n : queued_ops'[m] = queued_ops[m]
        /\ id_map' = id_map
    BY <1>3, <2>0, <2>1, PushEffect, Lengths
  <2>3. CASE k \in 1..n
    BY <1>1, <2>0, <2>2, <2>3
  <2>4. CASE k = n + 1
    BY <2>1, <2>2, <2>4, NoIdNotUid DEF Goal, IsPointer
  <2> QED BY <2>2, <2>3, <2>4
<1>4. ASSUME UNCHANGED queued_ops PROVE Goal
  BY <1>1, <1>4
<1>5. ASSUME NEW t \in Threads,
             Loop(t) \/ ScanLine(t) \/ MakeOp(t) \/ Perform(t) \/ Performed(t)
      PROVE  UNCHANGED queued_ops
  BY <1>5 DEF Loop, ScanLine, MakeOp, Perform, Performed, shared
<1>6. ASSUME NEW t \in Threads, FlushOne(t) \/ AssignPointer(t) PROVE UNCHANGED queued_ops
  BY <1>6 DEF FlushOne, AssignPointer
<1>7. Quiet => UNCHANGED queued_ops
  BY DEF Quiet
<1>8. Goal
  BY <1>2, <1>3, <1>4, <1>5, <1>6, <1>7, StepKinds DEF Handles
<1> QED BY <1>8 DEF Goal

(* What a worker holds after a step it held before, or it has just made  *)
(* the operation that produces it.                                          *)
LEMMA HoldsStep ==
  ASSUME IInv, [Next]_vars, NEW s \in Threads, NEW u \in Uids,
         id_to_idx'[s][u] # NoSlot, pc'[s] \in Holding \/ u \in unflushed'[s]
  PROVE  \/ Holds(s, u)
         \/ MakeOp(s) /\ u = ResultUid(ops[s][Len(rewritten[s]) + 1])
<1> Sizes
  BY DEF IInv
<1>1. ASSUME id_to_idx'[s] = id_to_idx[s], pc'[s] = pc[s] \/ pc'[s] \notin Holding,
             unflushed'[s] \subseteq unflushed[s]
      PROVE  Holds(s, u)
  BY <1>1 DEF Holds, Holding
<1>2. ASSUME Quiet PROVE Holds(s, u)
  <2>1. id_to_idx'[s] = id_to_idx[s] /\ unflushed'[s] = unflushed[s]
    BY <1>2 DEF Quiet
  <2>2. CASE pc'[s] = pc[s] \/ pc'[s] \notin Holding
    BY <1>1, <2>1, <2>2
  <2>3. CASE pc[s] \in Holding
    BY <2>1, <2>3 DEF Holds, Holding
  <2>4. CASE pc[s] = "clamp"
    <3>1. Len(rewritten[s]) = 0
      BY <2>4, NoElements DEF Sizes, BatchBounds, Unmade
    <3> QED BY <2>1, <3>1, NothingMade
  <2> QED BY <1>2, <2>2, <2>3, <2>4 DEF Quiet
<1>3. ASSUME NEW t \in Threads, Loop(t) PROVE Holds(s, u)
  BY <1>1, <1>3, LoopEffect
<1>4. ASSUME NEW t \in Threads, TakeFromQueue(t) PROVE Holds(s, u)
  BY <1>1, <1>4, TakeEffect DEF Holding
<1>5. ASSUME NEW t \in Threads, ScanLine(t) PROVE Holds(s, u)
  <2>0. PICK i : i = claimed[t].first
    OBVIOUS
  <2>1. /\ UNCHANGED <<id_to_idx, unflushed>> /\ Len(rewritten[t]) = 0
        /\ \A r \in Threads \ {t} : pc'[r] = pc[r]
    BY <1>5, <2>0, ScanEffect
  <2>2. CASE s = t
    BY <2>1, <2>2, NothingMade
  <2> QED BY <1>1, <2>1, <2>2
<1>6. ASSUME NEW t \in Threads, MakeOp(t), s # t PROVE Holds(s, u)
  <2>0. PICK m, i : m = Len(rewritten[t]) /\ i = ops[t][m + 1]
    OBVIOUS
  <2>1. UNCHANGED unflushed /\ pc'[s] = pc[s]
    BY <1>6, <2>0, MakeEffect
  <2>2. id_to_idx'[s] = id_to_idx[s]
    BY <1>6, <2>0, MakeIds
  <2> QED BY <1>1, <2>1, <2>2
<1>7. ASSUME MakeOp(s), u # ResultUid(ops[s][Len(rewritten[s]) + 1]) PROVE Holds(s, u)
  <2>0. PICK m, i : m = Len(rewritten[s]) /\ i = ops[s][m + 1]
    OBVIOUS
  <2>1. pc[s] = "make"
    BY <1>7, <2>0, MakeEffect
  <2>2. /\ \A v \in Uids \ {ResultUid(i), InputUid(i)} : id_to_idx'[s][v] = id_to_idx[s][v]
        /\ InputUid(i) \notin {NoId, ResultUid(i)} => id_to_idx'[s][InputUid(i)] = NoSlot
    BY <1>7, <2>0, MakeIds
  <2>3. u # InputUid(i)
    BY <1>7, <2>0, <2>2, NoIdNotUid
  <2>4. id_to_idx[s][u] # NoSlot
    BY <1>7, <2>0, <2>2, <2>3
  <2> QED BY <2>1, <2>4 DEF Holds
<1>8. ASSUME NEW t \in Threads, Perform(t) PROVE Holds(s, u)
  <2>1. UNCHANGED <<pc, id_to_idx, unflushed>>
    BY <1>8 DEF Perform
  <2> QED BY <1>1, <2>1
<1>9. ASSUME NEW t \in Threads, Performed(t) PROVE Holds(s, u)
  <2>1. pc[t] = "run" /\ UNCHANGED id_to_idx
    BY <1>9 DEF Performed
  <2>2. s # t => pc'[s] = pc[s] /\ unflushed'[s] = unflushed[s]
    BY <1>9 DEF Performed, Goto, Sizes, TypeOK
  <2> QED BY <1>1, <2>1, <2>2 DEF Holds
<1>10. ASSUME NEW t \in Threads, FlushOne(t) PROVE Holds(s, u)
  <2>1. PICK v \in unflushed[t] :
          /\ pc[t] = "flush" /\ (pc' = pc \/ pc'[t] = "assign")
          /\ unflushed'[t] \subseteq unflushed[t] /\ UNCHANGED id_to_idx
          /\ \A r \in Threads \ {t} : pc'[r] = pc[r] /\ unflushed'[r] = unflushed[r]
    BY <1>10, FlushEffect
  <2> QED BY <1>1, <2>1 DEF Holding
<1>11. ASSUME NEW t \in Threads, AssignPointer(t) PROVE Holds(s, u)
  <2>0. PICK v : v = pending[t].uid
    OBVIOUS
  <2>1. /\ pc'[t] \in {"error", "push"} /\ UNCHANGED <<unflushed, id_to_idx>>
        /\ \A r \in Threads \ {t} : pc'[r] = pc[r]
    BY <1>11, <2>0, AssignEffect DEF locals
  <2> QED BY <1>1, <2>1 DEF Holding
<1>12. ASSUME NEW t \in Threads, PushPending(t) PROVE Holds(s, u)
  <2>0. pending[t].op \in Ops
    BY <1>12 DEF IInv, PendingIsParked, PushPending
  <2>1. /\ pc'[t] = "flush" /\ UNCHANGED id_to_idx /\ unflushed'[t] \subseteq unflushed[t]
        /\ \A r \in Threads \ {t} : pc'[r] = pc[r] /\ unflushed'[r] = unflushed[r]
    BY <1>12, <2>0, PushEffect
  <2> QED BY <1>1, <2>1 DEF Holding
<1> QED
  BY <1>2, <1>3, <1>4, <1>5, <1>6, <1>7, <1>8, <1>9, <1>10, <1>11, <1>12, StepKinds
     DEF Handles

(* A worker between recording a pointer and queueing the operation parked   *)
(* under it either queues it, and has then flushed the result, or waits.    *)
LEMMA FlushingStep ==
  ASSUME IInv, [Next]_vars, NEW s \in Threads, NEW u \in Uids, Flushing(s, u)
  PROVE  \/ pc'[s] = "push" /\ pending'[s].uid = u
         \/ pc'[s] = "flush" /\ u \notin unflushed'[s]
<1> Sizes
  BY DEF IInv
<1>0. pc[s] = "push" /\ pending[s].uid = u
  BY DEF Flushing
<1>1. ASSUME pc'[s] = pc[s], pending'[s] = pending[s]
      PROVE  pc'[s] = "push" /\ pending'[s].uid = u
  BY <1>0, <1>1
<1>2. ASSUME Quiet PROVE pc'[s] = pc[s] /\ pending'[s] = pending[s]
  BY <1>0, <1>2 DEF Quiet, Holding
<1>3. ASSUME NEW t \in Threads, Loop(t) PROVE pc'[s] = pc[s] /\ pending'[s] = pending[s]
  BY <1>0, <1>3, LoopEffect
<1>4. ASSUME NEW t \in Threads, TakeFromQueue(t)
      PROVE  pc'[s] = pc[s] /\ pending'[s] = pending[s]
  BY <1>0, <1>4, TakeEffect
<1>5. ASSUME NEW t \in Threads, ScanLine(t) PROVE pc'[s] = pc[s] /\ pending'[s] = pending[s]
  <2>0. PICK i : i = claimed[t].first
    OBVIOUS
  <2> QED BY <1>0, <1>5, <2>0, ScanEffect
<1>6. ASSUME NEW t \in Threads, MakeOp(t) PROVE pc'[s] = pc[s] /\ pending'[s] = pending[s]
  <2>0. PICK m, i : m = Len(rewritten[t]) /\ i = ops[t][m + 1]
    OBVIOUS
  <2> QED BY <1>0, <1>6, <2>0, MakeEffect
<1>7. ASSUME NEW t \in Threads, Perform(t) \/ Performed(t)
      PROVE  pc'[s] = pc[s] /\ pending'[s] = pending[s]
  BY <1>0, <1>7 DEF Perform, Performed, Goto, TypeOK, Sizes
<1>8. ASSUME NEW t \in Threads, FlushOne(t) PROVE pc'[s] = pc[s] /\ pending'[s] = pending[s]
  BY <1>0, <1>8, FlushEffect
<1>9. ASSUME NEW t \in Threads, AssignPointer(t)
      PROVE  pc'[s] = pc[s] /\ pending'[s] = pending[s]
  <2>0. PICK v : v = pending[t].uid
    OBVIOUS
  <2> QED BY <1>0, <1>9, <2>0, AssignEffect DEF locals
<1>10. ASSUME NEW t \in Threads, PushPending(t)
       PROVE  \/ pc'[s] = pc[s] /\ pending'[s] = pending[s]
              \/ pc'[s] = "flush" /\ u \notin unflushed'[s]
  <2>0. pending[t].op \in Ops
    BY <1>10 DEF IInv, PendingIsParked, PushPending
  <2>1. /\ pc'[t] = "flush" /\ UNCHANGED pending
        /\ unflushed'[t] = unflushed[t] \ {pending[t].uid}
        /\ \A r \in Threads \ {t} : pc'[r] = pc[r]
    BY <1>10, <2>0, PushEffect
  <2> QED BY <1>0, <2>1
<1> QED
  BY <1>1, <1>2, <1>3, <1>4, <1>5, <1>6, <1>7, <1>8, <1>9, <1>10, StepKinds DEF Handles

(* An id is consumed by the worker that makes its consumer.                 *)
LEMMA UnconsumedStep ==
  ASSUME IInv, [Next]_vars, NEW u \in Uids, Unconsumed(u)
  PROVE  \/ Unconsumed(u)'
         \/ \E t \in Threads : MakeOp(t) /\ u = InputUid(ops[t][Len(rewritten[t]) + 1])
<1> \A i : InputUid(i)' = InputUid(i)
  BY TraceUnchanged, TraceKept
<1> Sizes
  BY DEF IInv
<1>0. \A t \in Threads : Len(ops[t]) \in Nat /\ Len(rewritten[t]) \in Nat /\ at[t] \in Nat
  BY Lengths
<1>1. ASSUME \A c \in performed' : InputUid(c) # u,
             \A t \in Threads : \A k \in 1..Len(rewritten'[t]) : InputUid(ops'[t][k]) # u
      PROVE  Unconsumed(u)'
  BY <1>1 DEF Unconsumed, Made
<1>2. /\ \A c \in performed : InputUid(c) # u
      /\ \A t \in Threads : \A k \in 1..Len(rewritten[t]) : InputUid(ops[t][k]) # u
  BY DEF Unconsumed, Made
<1>3. ASSUME UNCHANGED <<performed, ops, rewritten>> PROVE Unconsumed(u)'
  BY <1>1, <1>2, <1>3
<1>4. ASSUME NEW t \in Threads, UNCHANGED performed, Len(rewritten'[t]) = 0,
             \A s \in Threads \ {t} : ops'[s] = ops[s] /\ rewritten'[s] = rewritten[s]
      PROVE  Unconsumed(u)'
  <2>1. ASSUME NEW s \in Threads, NEW k \in 1..Len(rewritten'[s]) PROVE InputUid(ops'[s][k]) # u
    <3>1. CASE s = t
      BY <1>4, <2>1, <3>1
    <3>2. CASE s # t
      BY <1>2, <1>4, <2>1, <3>2
    <3> QED BY <3>1, <3>2
  <2> QED BY <1>1, <1>2, <1>4, <2>1
<1>5. ASSUME NEW t \in Threads, Loop(t) PROVE Unconsumed(u)'
  <2>1. UNCHANGED performed
    BY <1>5 DEF Loop, history
  <2> QED BY <1>4, <1>5, <2>1, LoopEffect
<1>6. ASSUME NEW t \in Threads, TakeFromQueue(t) PROVE Unconsumed(u)'
  <2>1. UNCHANGED <<performed, rewritten>>
    BY <1>6 DEF TakeFromQueue, history
  <2>2. Len(rewritten[t]) = 0 /\ \A s \in Threads \ {t} : ops'[s] = ops[s]
    BY <1>6, TakeEffect
  <2> QED BY <1>4, <2>1, <2>2
<1>7. ASSUME NEW t \in Threads, ScanLine(t) PROVE Unconsumed(u)'
  <2>0. PICK i : i = claimed[t].first
    OBVIOUS
  <2>1. UNCHANGED <<performed, rewritten>>
    BY <1>7 DEF ScanLine, history
  <2>2. Len(rewritten[t]) = 0 /\ \A s \in Threads \ {t} : ops'[s] = ops[s]
    BY <1>7, <2>0, ScanEffect
  <2> QED BY <1>4, <2>1, <2>2
<1>8. ASSUME NEW t \in Threads, MakeOp(t), u # InputUid(ops[t][Len(rewritten[t]) + 1])
      PROVE  Unconsumed(u)'
  <2>0. PICK m, i : m = Len(rewritten[t]) /\ i = ops[t][m + 1]
    OBVIOUS
  <2>1. /\ m \in Nat /\ Len(rewritten'[t]) = m + 1 /\ ops' = ops
        /\ \A s \in Threads \ {t} : rewritten'[s] = rewritten[s]
    BY <1>8, <2>0, MakeEffect
  <2>2. UNCHANGED performed
    BY <1>8 DEF MakeOp, history
  <2>3. ASSUME NEW s \in Threads, NEW k \in 1..Len(rewritten'[s]) PROVE InputUid(ops'[s][k]) # u
    <3>1. CASE s = t /\ k = m + 1
      BY <1>8, <2>0, <2>1, <3>1
    <3>2. CASE s = t /\ k # m + 1
      <4>1. k \in 1..Len(rewritten[t])
        BY <2>0, <2>1, <2>3, <3>2
      <4> QED BY <1>2, <2>1, <3>2, <4>1
    <3>3. CASE s # t
      BY <1>2, <2>1, <2>3, <3>3
    <3> QED BY <3>1, <3>2, <3>3
  <2> QED BY <1>1, <1>2, <2>2, <2>3
<1>9. ASSUME NEW t \in Threads, Perform(t) PROVE Unconsumed(u)'
  <2>0. PICK n, i : n = at[t] + 1 /\ i = ops[t][n]
    OBVIOUS
  <2>1. /\ pc[t] = "run" /\ at[t] < Len(ops[t]) /\ performed' = performed \cup {i}
        /\ UNCHANGED <<ops, rewritten>>
    BY <1>9, <2>0, PerformEffect
  <2>2. Len(rewritten[t]) = Len(ops[t])
    BY <2>1 DEF Sizes, BatchBounds, Acting, Performing
  <2>3. n \in 1..Len(rewritten[t])
    BY <1>0, <2>0, <2>1, <2>2
  <2>4. InputUid(i) # u
    BY <1>2, <2>0, <2>3
  <2> QED BY <1>1, <1>2, <2>1, <2>4
<1>10. ASSUME NEW t \in Threads,
              Performed(t) \/ FlushOne(t) \/ AssignPointer(t) \/ PushPending(t)
       PROVE  UNCHANGED <<performed, ops, rewritten>>
  BY <1>10 DEF Performed, FlushOne, AssignPointer, PushPending, locals, history
<1>11. Quiet => UNCHANGED <<performed, ops, rewritten>>
  BY DEF Quiet, history
<1> QED
  BY <1>3, <1>5, <1>6, <1>7, <1>8, <1>9, <1>10, <1>11, StepKinds DEF Handles

(* A pointer is recorded by the worker whose batch produced it.             *)
LEMMA PointerRecorded ==
  ASSUME IInv, [Next]_vars, NEW u \in Uids, ~IsPointer(u), IsPointer(u)'
  PROVE  \E t \in Threads :
           /\ FlushOne(t) \/ AssignPointer(t)
           /\ u \in unflushed[t] /\ at[t] = Len(ops[t]) /\ pc'[t] \notin Holding
           /\ \/ u \notin unflushed'[t]
              \/ pc'[t] = "push" /\ pending'[t].uid = u
           /\ UNCHANGED <<performed, ops, rewritten, id_to_idx>>
<1> Sizes
  BY DEF IInv
<1>0. id_map'[u] # id_map[u] /\ id_map'[u] # Empty /\ id_map'[u].kind = "pointer"
  BY DEF IsPointer, Empty
<1>1. ASSUME NEW t \in Threads, ScanLine(t) PROVE FALSE
  <2>0. PICK i : i = claimed[t].first
    OBVIOUS
  <2>1. \/ id_map' = id_map
        \/ /\ id_map'[InputUid(i)] = Parked(i)
           /\ \A v \in Uids \ {InputUid(i)} : id_map'[v] = id_map[v]
    BY <1>1, <2>0, ScanEffect
  <2>2. Parked(i).kind = "parked"
    BY DEF Parked
  <2> QED BY <1>0, <2>1, <2>2
<1>2. ASSUME NEW t \in Threads, MakeOp(t) PROVE FALSE
  <2>0. PICK i : i = ops[t][Len(rewritten[t]) + 1]
    OBVIOUS
  <2>1. CASE IsGlobal(t, i)
    <3>1. id_map'[InputUid(i)] = Empty /\ \A v \in Uids \ {InputUid(i)} : id_map'[v] = id_map[v]
      BY <1>2, <2>0, <2>1, InputTaken
    <3> QED BY <1>0, <3>1
  <2>2. CASE ~IsGlobal(t, i)
    <3>1. id_map' = id_map
      BY <1>2, <2>0, <2>2, NoInputTaken
    <3> QED BY <1>0, <3>1
  <2> QED BY <2>1, <2>2
<1>3. ASSUME NEW t \in Threads,
             Loop(t) \/ TakeFromQueue(t) \/ Perform(t) \/ Performed(t) \/ PushPending(t)
      PROVE  id_map' = id_map
  BY <1>3 DEF Loop, TakeFromQueue, Perform, Performed, PushPending, shared
<1>4. Quiet => id_map' = id_map
  BY DEF Quiet
<1> DEFINE ByWorker(t) ==
      /\ u \in unflushed[t] /\ at[t] = Len(ops[t]) /\ pc'[t] \notin Holding
      /\ u \notin unflushed'[t] \/ (pc'[t] = "push" /\ pending'[t].uid = u)
      /\ UNCHANGED <<performed, ops, rewritten, id_to_idx>>
<1>5. ASSUME NEW t \in Threads, FlushOne(t) PROVE ByWorker(t)
  <2>1. PICK v \in unflushed[t] :
          /\ pc[t] = "flush"
          /\ \/ unflushed'[t] = unflushed[t] \ {v} /\ UNCHANGED pc
             \/ UNCHANGED id_map
          /\ \A w \in Uids \ {v} : id_map'[w] = id_map[w]
    BY <1>5, FlushEffect
  <2>2. at[t] = Len(ops[t])
    BY <2>1 DEF Sizes, BatchBounds
  <2>3. v = u /\ unflushed'[t] = unflushed[t] \ {v} /\ UNCHANGED pc
    BY <1>0, <2>1
  <2>4. UNCHANGED <<performed, ops, rewritten, id_to_idx>>
    BY <1>5 DEF FlushOne, history
  <2>5. pc'[t] \notin Holding
    BY <2>1, <2>3 DEF Holding
  <2> QED BY <2>2, <2>3, <2>4, <2>5
<1>6. ASSUME NEW t \in Threads, AssignPointer(t) PROVE ByWorker(t)
  <2>0. PICK v : v = pending[t].uid
    OBVIOUS
  <2>1. /\ pc[t] = "assign" /\ v \in unflushed[t]
        /\ UNCHANGED id_map \/ pc'[t] = "push"
        /\ \A w \in Uids \ {v} : id_map'[w] = id_map[w]
    BY <1>6, <2>0, AssignEffect
  <2>2. at[t] = Len(ops[t])
    BY <2>1 DEF Sizes, BatchBounds
  <2>3. v = u /\ pc'[t] = "push"
    BY <1>0, <2>1
  <2>4. UNCHANGED <<performed, ops, rewritten, id_to_idx, pending>>
    BY <1>6 DEF AssignPointer, locals, history
  <2>5. pc'[t] \notin Holding
    BY <2>3 DEF Holding
  <2> QED BY <2>0, <2>1, <2>2, <2>3, <2>4, <2>5
<1>7. \E t \in Threads : (FlushOne(t) \/ AssignPointer(t)) /\ ByWorker(t)
  <2> HIDE DEF ByWorker
  <2> QED BY <1>0, <1>1, <1>2, <1>3, <1>4, <1>5, <1>6, StepKinds DEF Handles
<1> QED BY <1>7

(* The operation a worker is about to make has not been performed, and no   *)
(* one has made it.                                                         *)
LEMMA ToBeMade ==
  ASSUME IInv, NEW t \in Threads, MakeOp(t), NEW m, m = Len(rewritten[t]), NEW i, i = ops[t][m + 1]
  PROVE  /\ i \in Ops /\ i \notin performed /\ m + 1 \in Batched(t)
         /\ \A s \in Threads : \A k \in Made(s) : ops[s][k] # i
         /\ InputUid(i) # NoId => InputUid(i) # ResultUid(i)
<1> Sizes
  BY DEF IInv
<1>1. m \in Nat /\ m < Len(ops[t]) /\ i \in Ops /\ at[t] = 0 /\ Len(ops[t]) \in Nat
  BY MakeEffect, Lengths
<1>2. m + 1 \in Batched(t) /\ m + 1 \in (at[t] + 1)..Len(ops[t])
  BY <1>1 DEF Batched
<1>3. Place("batch", t, m + 1, i)
  BY <1>2 DEF Place
<1>4. i \notin performed
  BY <1>1, <1>3, NotPerformed
<1>5. ASSUME NEW s \in Threads, NEW k \in Made(s), ops[s][k] = i PROVE FALSE
  <2>1. k \in Batched(s)
    BY <1>5, MadeIsBatched
  <2>2. s = t /\ k = m + 1
    BY <1>2, <1>5, <2>1 DEF IInv, BatchesDisjoint
  <2> QED BY <1>1, <1>5, <2>2 DEF Made
<1>6. ASSUME InputUid(i) # NoId, InputUid(i) = ResultUid(i) PROVE FALSE
  <2>1. PICK j \in Ops : j < i /\ ResultUid(j) = InputUid(i)
    BY <1>1, <1>6, ProducedEarlier DEF Sizes, TypeOK
  <2>2. j = i
    BY <1>1, <1>6, <2>1, ResultsDistinct DEF Sizes, TypeOK
  <2> QED BY <1>1, <2>1, <2>2, Lengths
<1> QED BY <1>1, <1>2, <1>4, <1>5, <1>6

LEMMA PointersRecordedPreserved ==
  ASSUME IInv, [Next]_vars
  PROVE  PointersRecorded'
<1> /\ \A i : InputUid(i)' = InputUid(i) /\ ResultUid(i)' = ResultUid(i)
    /\ Uids' = Uids
  BY TraceUnchanged, TraceKept
<1> Sizes /\ PointersRecorded /\ TypeOK
  BY DEF IInv, Sizes
<1> SUFFICES ASSUME NEW u \in Uids, IsPointer(u)'
             PROVE  /\ \E j \in performed' : ResultUid(j) = u
                    /\ \A s \in Threads : Holds(s, u)' => Flushing(s, u)'
                    /\ Unconsumed(u)'
  BY DEF PointersRecorded
<1>1. CASE IsPointer(u)
  <2>1. PICK j \in performed : ResultUid(j) = u
    BY <1>1 DEF PointersRecorded
  <2>2. j \in performed' /\ j \in Ops
    <3>1. performed \subseteq performed'
      <4>1. ASSUME NEW t \in Threads, Perform(t) PROVE performed \subseteq performed'
        BY <4>1 DEF Perform
      <4>2. ASSUME NEW t \in Threads,
                   \/ Loop(t) \/ TakeFromQueue(t) \/ ScanLine(t) \/ MakeOp(t) \/ Performed(t)
                   \/ FlushOne(t) \/ AssignPointer(t) \/ PushPending(t)
            PROVE  performed' = performed
        BY <4>2 DEF Loop, TakeFromQueue, ScanLine, MakeOp, Performed, FlushOne, AssignPointer,
                    PushPending, history
      <4>3. Quiet => performed' = performed
        BY DEF Quiet, history
      <4> QED BY <4>1, <4>2, <4>3, StepKinds DEF Handles
    <3> QED BY <3>1 DEF TypeOK
  <2>3. ASSUME NEW t \in Threads, MakeOp(t), u = InputUid(ops[t][Len(rewritten[t]) + 1])
        PROVE  FALSE
    <3>0. PICK m, i : m = Len(rewritten[t]) /\ i = ops[t][m + 1]
      OBVIOUS
    <3>1. pc[t] = "make" /\ u # NoId
      BY <2>3, <3>0, MakeEffect, NoIdNotUid
    <3>2. CASE IsGlobal(t, i)
      <4>1. id_map'[u] = Empty
        BY <2>3, <3>0, <3>2, InputTaken
      <4> QED BY <4>1 DEF IsPointer, Empty
    <3>3. CASE ~IsGlobal(t, i)
      <4>1. id_to_idx[t][u] # NoSlot
        BY <2>3, <3>0, <3>1, <3>3 DEF IsGlobal
      <4>2. Holds(t, u)
        BY <3>1, <4>1 DEF Holds
      <4>3. pc[t] = "push"
        BY <1>1, <4>2 DEF PointersRecorded, Flushing
      <4> QED BY <3>1, <4>3
    <3> QED BY <3>2, <3>3
  <2>4. Unconsumed(u)'
    BY <1>1, <2>3, UnconsumedStep DEF PointersRecorded
  <2>5. ASSUME NEW s \in Threads, Holds(s, u)' PROVE Flushing(s, u)'
    <3>1. /\ id_to_idx'[s][u] # NoSlot /\ (pc'[s] \in Holding \/ u \in unflushed'[s])
      BY <2>5 DEF Holds, Holding
    <3>2. ASSUME MakeOp(s), u = ResultUid(ops[s][Len(rewritten[s]) + 1]) PROVE FALSE
      <4>0. PICK m, i : m = Len(rewritten[s]) /\ i = ops[s][m + 1]
        OBVIOUS
      <4>1. i \in Ops /\ i \notin performed
        BY <3>2, <4>0, ToBeMade
      <4>2. i = j
        BY <2>1, <2>2, <3>2, <4>0, <4>1, ResultsDistinct, NoIdNotUid DEF TypeOK
      <4> QED BY <2>1, <4>1, <4>2
    <3>3. Holds(s, u)
      BY <3>1, <3>2, HoldsStep
    <3>4. Flushing(s, u)
      BY <1>1, <3>3 DEF PointersRecorded
    <3>5. pc'[s] = "push" /\ pending'[s].uid = u
      BY <3>1, <3>4, FlushingStep DEF Holding
    <3> QED BY <3>5 DEF Flushing
  <2> QED BY <2>1, <2>2, <2>4, <2>5
<1>2. CASE ~IsPointer(u)
  <2>1. PICK t \in Threads :
           /\ FlushOne(t) \/ AssignPointer(t)
           /\ u \in unflushed[t] /\ at[t] = Len(ops[t]) /\ pc'[t] \notin Holding
           /\ \/ u \notin unflushed'[t]
              \/ pc'[t] = "push" /\ pending'[t].uid = u
           /\ UNCHANGED <<performed, ops, rewritten, id_to_idx>>
    BY <1>2, PointerRecorded
  <2>2. id_to_idx[t][u] # NoSlot /\ Holds(t, u)
    BY <2>1, UnflushedHeld
  <2>3. PICK k \in Made(t) : ResultUid(ops[t][k]) = u
    BY <2>2 DEF IInv, IdsOfBatch
  <2>4. k \in 1..at[t]
    BY <2>1, <2>3, MadeIsBatched DEF Batched
  <2>5. ops[t][k] \in performed'
    BY <2>1, <2>4 DEF IInv, PerformedPrefix
  <2>6. Unconsumed(u)'
    <3>1. Unconsumed(u)
      BY <2>2 DEF IInv, HeldUnconsumed
    <3> QED BY <2>1, <3>1 DEF Unconsumed, Made
  <2>7. ASSUME NEW s \in Threads, Holds(s, u)' PROVE Flushing(s, u)'
    <3>1. /\ id_to_idx[s][u] # NoSlot /\ (pc'[s] \in Holding \/ u \in unflushed'[s])
      BY <2>1, <2>7 DEF Holds, Holding
    <3>2. s = t
      BY <2>2, <3>1, HeldByOne
    <3>3. pc'[s] = "push" /\ pending'[s].uid = u
      BY <2>1, <3>1, <3>2
    <3> QED BY <3>3 DEF Flushing
  <2> QED BY <2>3, <2>5, <2>6, <2>7
<1> QED BY <1>1, <1>2

LEMMA HeldUnconsumedPreserved ==
  ASSUME IInv, [Next]_vars
  PROVE  HeldUnconsumed'
<1> /\ \A i : InputUid(i)' = InputUid(i) /\ ResultUid(i)' = ResultUid(i)
    /\ Uids' = Uids
  BY TraceUnchanged, TraceKept
<1> Sizes /\ HeldUnconsumed /\ TypeOK
  BY DEF IInv, Sizes
<1> SUFFICES ASSUME NEW s \in Threads, NEW u \in Uids, Holds(s, u)'
             PROVE  Unconsumed(u)'
  BY DEF HeldUnconsumed
<1>0. /\ id_to_idx'[s][u] # NoSlot /\ (pc'[s] \in Holding \/ u \in unflushed'[s])
      /\ u # NoId
  BY NoIdNotUid DEF Holds, Holding
<1>1. CASE Holds(s, u)
  <2>1. ASSUME NEW t \in Threads, MakeOp(t), u = InputUid(ops[t][Len(rewritten[t]) + 1])
        PROVE  FALSE
    <3>0. PICK m, i : m = Len(rewritten[t]) /\ i = ops[t][m + 1]
      OBVIOUS
    <3>1. pc[t] = "make" /\ m < Len(ops[t]) /\ u = InputUid(i)
      BY <2>1, <3>0, MakeEffect
    <3>2. CASE IsGlobal(t, i)
      <4>1. IsPointer(u)
        BY <3>0, <3>1, <3>2, GlobalInputIsPointer
      <4>2. pc[s] = "push"
        BY <1>1, <4>1 DEF IInv, PointersRecorded, Flushing
      <4> QED BY <3>1, <4>2 DEF IInv, Lockstep, Gathering, Preparing, Acting, Performing
    <3>3. CASE ~IsGlobal(t, i)
      <4>1. id_to_idx[t][u] # NoSlot
        BY <1>0, <3>1, <3>3 DEF IsGlobal
      <4>2. s = t
        BY <1>1, <4>1, HeldByOne DEF Holds
      <4>3. u # ResultUid(i)
        BY <1>0, <2>1, <3>0, <3>1, ToBeMade
      <4>4. id_to_idx'[t][u] = NoSlot
        BY <1>0, <2>1, <3>0, <3>1, <4>3, MakeIds
      <4> QED BY <1>0, <4>2, <4>4
    <3> QED BY <3>2, <3>3
  <2>2. Unconsumed(u)
    BY <1>1 DEF HeldUnconsumed
  <2> QED BY <2>1, <2>2, UnconsumedStep
<1>2. ASSUME MakeOp(s), u = ResultUid(ops[s][Len(rewritten[s]) + 1])
      PROVE  Unconsumed(u)'
  <2>0. PICK m, i : m = Len(rewritten[s]) /\ i = ops[s][m + 1]
    OBVIOUS
  <2>1. /\ i \in Ops /\ i \notin performed
        /\ \A t \in Threads : \A k \in Made(t) : ops[t][k] # i
        /\ InputUid(i) # u
    BY <1>0, <1>2, <2>0, ToBeMade
  <2>2. /\ m \in Nat /\ Len(rewritten'[s]) = m + 1 /\ ops' = ops
        /\ \A t \in Threads \ {s} : rewritten'[t] = rewritten[t]
    BY <1>2, <2>0, MakeEffect
  <2>3. performed' = performed
    BY <1>2 DEF MakeOp, history
  <2>4. ASSUME NEW j \in Ops, ResultUid(j) = u PROVE j = i
    BY <1>0, <1>2, <2>0, <2>1, <2>4, ResultsDistinct DEF TypeOK
  <2>5. ASSUME NEW c \in performed, InputUid(c) = u PROVE FALSE
    <3>1. PICK j \in performed : ResultUid(j) = u
      BY <1>0, <2>5 DEF IInv, InputsMade
    <3> QED BY <2>1, <2>4, <3>1 DEF TypeOK
  <2>6. ASSUME NEW t \in Threads, NEW k \in Made(t), InputUid(ops[t][k]) = u PROVE FALSE
    <3>1. PICK j \in Ops : /\ ResultUid(j) = u
                           /\ j \in performed \/ \E n \in 1..(k - 1) : ops[t][n] = j
      BY <1>0, <2>6 DEF IInv, InputsMade
    <3>2. PICK n \in 1..(k - 1) : ops[t][n] = i
      BY <2>1, <2>4, <3>1
    <3>3. n \in Made(t)
      BY <2>6, <3>2, Lengths DEF Made
    <3> QED BY <2>1, <3>2, <3>3
  <2>7. ASSUME NEW t \in Threads, NEW k \in 1..Len(rewritten'[t])
        PROVE  InputUid(ops'[t][k]) # u
    <3>1. CASE t = s /\ k = m + 1
      BY <2>0, <2>1, <2>2, <3>1
    <3>2. CASE t = s /\ k # m + 1
      <4>1. k \in Made(t)
        BY <2>0, <2>2, <2>7, <3>2 DEF Made
      <4> QED BY <2>2, <2>6, <4>1
    <3>3. CASE t # s
      BY <2>2, <2>6, <2>7, <3>3 DEF Made
    <3> QED BY <3>1, <3>2, <3>3
  <2> QED BY <2>3, <2>5, <2>7 DEF Unconsumed, Made
<1> QED BY <1>0, <1>1, <1>2, HoldsStep

(* The replay begins with every operation unclaimed.                          *)
LEMMA InitialState ==
  ASSUME Init
  PROVE  IInv
<1>0. /\ tracefile \in Traces /\ NumOps \in Nat /\ Ops = 0..(NumOps - 1)
      /\ \A S : <<>> \in Seq(S) /\ Len(<<>>) = 0
  BY NumOpsNat, NoElements DEF Init
<1>1. TypeOK
  <2>1. Empty \in MapVals /\ Garbage \in Pointers /\ 0 \in Nat
    BY DEF MapVals, Pointers
  <2>2. /\ NoSlot \in SlotsOrNone /\ NoSlot \in Uids \cup {NoSlot} /\ NoOp \in Ops \cup {NoOp}
    BY DEF SlotsOrNone
  <2>3. "loop" \in Labels
    BY DEF Labels
  <2>4. /\ ops \in [Threads -> Seq(Ops)] /\ queued_ops \in Seq(Ops)
        /\ rewritten \in [Threads -> Seq([in : SlotsOrNone, out : SlotsOrNone])]
    BY <1>0 DEF Init
  <2>5. /\ id_map \in [Uids -> MapVals] /\ pc \in [Threads -> Labels]
        /\ id_to_idx \in [Threads -> [Uids -> SlotsOrNone]]
        /\ slots \in [Threads -> [Slots -> Pointers]]
    BY <2>1, <2>2, <2>3 DEF Init
  <2>6. /\ claimed \in [Threads -> [first : Nat, end : Nat]]
        /\ pending \in [Threads -> [uid : Uids \cup {NoSlot}, op : Ops \cup {NoOp}]]
    BY <2>1, <2>2 DEF Init
  <2>7. /\ local_allocs \in [Threads -> SUBSET Uids] /\ unflushed \in [Threads -> SUBSET Uids]
        /\ next_slot \in [Threads -> Nat] /\ at \in [Threads -> Nat]
        /\ free_slots \in [Threads -> SUBSET Slots]
    BY DEF Init
  <2>8. /\ idx \in Nat /\ done \in BOOLEAN /\ members \subseteq Threads /\ waiting \subseteq members
        /\ status \in {"ok", "error"} /\ returned \in BOOLEAN
        /\ performed \subseteq Ops /\ live \subseteq Ops
    BY DEF Init
  <2> QED BY <1>0, <2>4, <2>5, <2>6, <2>7, <2>8 DEF TypeOK
<1>2. \A t \in Threads :
        /\ pc[t] = "loop" /\ ops[t] = <<>> /\ Len(ops[t]) = 0
        /\ rewritten[t] = <<>> /\ Len(rewritten[t]) = 0
        /\ at[t] = 0 /\ next_slot[t] = 0 /\ free_slots[t] = {} /\ local_allocs[t] = {}
        /\ unflushed[t] = {} /\ claimed[t].first = 0 /\ claimed[t].end = 0
        /\ \A u \in Uids : id_to_idx[t][u] = NoSlot
  BY <1>0 DEF Init
<1>3. \A u \in Uids : id_map[u] = Empty
  BY DEF Init
<1>4. idx = 0 /\ Len(queued_ops) = 0 /\ performed = {} /\ members = Threads /\ waiting = {}
  BY <1>0 DEF Init
<1>5. Sizes
  <2>1. BatchBounds
    BY <1>2, <1>4, BatchAssumption DEF BatchBounds, Ready, Acting, Performing, Unmade
  <2>2. SlotBounds
    BY <1>2 DEF SlotBounds, NoSlot
  <2>3. ClaimedBounds
    BY <1>0, <1>2, <1>4 DEF ClaimedBounds
  <2>4. FlushBounds
    BY <1>2 DEF FlushBounds
  <2> QED BY <1>1, <2>1, <2>2, <2>3, <2>4 DEF Sizes
<1>6. Lockstep
  BY <1>2, <1>4 DEF Lockstep, Ready, Acting, Performing
<1>7. OnePlace
  <2> SUFFICES ASSUME NEW i \in Ops PROVE OnlyAt("unclaimed", 0, 0, i)
    BY DEF OnePlace
  <2>1. idx <= i /\ i \in Nat
    BY <1>0, <1>4
  <2>2. \A u \in Uids : id_map[u] # Parked(i)
    BY <1>3 DEF Empty, Parked
  <2>3. \A t \in Threads :
          /\ ~(claimed[t].first <= i /\ i < claimed[t].end)
          /\ (at[t] + 1)..Len(ops[t]) = {} /\ pc[t] # "push"
    BY <1>2, <2>1
  <2>4. 1..Len(queued_ops) = {} /\ i \notin performed
    BY <1>4
  <2> QED BY <2>1, <2>2, <2>3, <2>4 DEF OnlyAt, Place
<1>8. \A t \in Threads : Made(t) = {} /\ Batched(t) = {} /\ 1..at[t] = {}
  BY <1>2 DEF Made, Batched
<1>9. \A u \in Uids, i \in Ops : id_map[u] # Parked(i) /\ ~IsPointer(u)
  BY <1>3 DEF Empty, Parked, IsPointer
<1>10. BatchesDisjoint /\ PerformedPrefix /\ ParkedUnderInput /\ PendingIsParked
  BY <1>2, <1>8, <1>9 DEF BatchesDisjoint, PerformedPrefix, ParkedUnderInput, PendingIsParked
<1>11. \A u \in Uids : ~IsPointer(u) /\ \A t \in Threads : ~Holds(t, u)
  BY <1>2, <1>3 DEF Empty, IsPointer, Holds
<1>12. IdsOfBatch /\ PointersRecorded /\ HeldUnconsumed /\ LocalAllocs
  BY <1>2, <1>8, <1>11
     DEF IdsOfBatch, PointersRecorded, HeldUnconsumed, LocalAllocs
<1>13. InputsMade /\ InputsInReach /\ QueuedInputs
  <2>1. \A t \in Threads : (Len(rewritten[t]) + 1)..Len(ops[t]) = {}
    BY <1>2
  <2>2. 1..Len(queued_ops) = {}
    BY <1>4
  <2> QED BY <1>4, <1>8, <2>1, <2>2 DEF InputsMade, InputsInReach, QueuedInputs
<1> QED BY <1>5, <1>6, <1>7, <1>10, <1>12, <1>13 DEF IInv

LEMMA InvariantPreserved ==
  ASSUME IInv, [Next]_vars
  PROVE  IInv'
<1>1. Sizes'
  BY TypePreserved, BatchBoundsPreserved, SlotBoundsPreserved, ClaimedBoundsPreserved,
     FlushBoundsPreserved
     DEF Sizes
<1>2. Lockstep' /\ OnePlace' /\ BatchesDisjoint' /\ PerformedPrefix'
  BY LockstepPreserved, OnePlacePreserved, BatchesDisjointPreserved, PerformedPrefixPreserved
<1>3. ParkedUnderInput' /\ PendingIsParked' /\ IdsOfBatch'
  BY ParkedUnderInputPreserved, PendingIsParkedPreserved, IdsOfBatchPreserved
<1>4. PointersRecorded' /\ HeldUnconsumed'
  BY PointersRecordedPreserved, HeldUnconsumedPreserved
<1>5. InputsMade' /\ LocalAllocs' /\ InputsInReach' /\ QueuedInputs'
  BY InputsMadePreserved, LocalAllocsPreserved, InputsInReachPreserved, QueuedInputsPreserved
<1> QED BY <1>1, <1>2, <1>3, <1>4, <1>5 DEF IInv

(* The invariant the theorems below rest on, of every state of a replay.    *)
THEOREM ReplayInvariant == Spec => []IInv
BY InitialState, InvariantPreserved, PTL DEF Spec

(* Every worker's batch, slots and ids, and the map and queue they share,   *)
(* keep their types: PrepareBatch never writes past the kBatchSize elements *)
(* of BatchContext's arrays, whatever the trace makes the batch hold.       *)
THEOREM ReplayTypeCorrect == Spec => []TypeOK
<1>1. IInv => TypeOK
  BY DEF IInv, Sizes
<1> QED BY <1>1, ReplayInvariant, PTL

(* std::barrier keeps ProcessorWorker's phases apart: no worker looks for   *)
(* inputs in the ConcurrentIdMap while another performs its batch or        *)
(* flushes it, also while workers leave and fail.                           *)
THEOREM PhasesKeptApart == Spec => []PhasesSeparate
<1>1. IInv => PhasesSeparate
  BY DEF IInv, Lockstep, PhasesSeparate, Preparing, Performing, Gathering, Ready, Acting
<1> QED BY <1>1, ReplayInvariant, PTL

-----------------------------------------------------------------------------
(* A place of Places, from the parts of a Place.                            *)
Tag(kind, a, b) ==
  IF kind \in {"unclaimed", "performed"} THEN <<kind>>
  ELSE IF kind = "batch" THEN <<kind, a, b>> ELSE <<kind, a>>

LEMMA PlacesOf ==
  ASSUME IInv, NEW i \in Ops
  PROVE  /\ \A kind, a, b : Place(kind, a, b, i) => Tag(kind, a, b) \in Places(i)
         /\ \A p \in Places(i) : \E kind, a, b : Place(kind, a, b, i) /\ p = Tag(kind, a, b)
<1> Sizes
  BY DEF IInv
<1>0. /\ idx \in Nat /\ i \in Nat /\ Len(queued_ops) \in Nat
      /\ \A t \in Threads : /\ Len(ops[t]) \in Nat /\ at[t] \in Nat /\ Len(ops[t]) <= BatchSize
                            /\ DOMAIN ops[t] = 1..Len(ops[t])
      /\ DOMAIN queued_ops = 1..Len(queued_ops) /\ BatchSize \in Nat
  <2>1. idx \in Nat /\ i \in Nat /\ Len(queued_ops) \in Nat /\ BatchSize \in Nat
    BY Lengths, BatchAssumption
  <2>2. \A t \in Threads : Len(ops[t]) \in Nat /\ at[t] \in Nat /\ Len(ops[t]) <= BatchSize
    BY Lengths DEF Sizes, BatchBounds
  <2>3. queued_ops \in Seq(Ops) /\ \A t \in Threads : ops[t] \in Seq(Ops)
    BY DEF Sizes, TypeOK
  <2> QED BY <2>1, <2>2, <2>3
<1> DEFINE Unclaimed == {p \in {<<"unclaimed">>} : i >= idx}
           Claimed == {p \in {"claimed"} \X Threads :
                         claimed[p[2]].first <= i /\ i < claimed[p[2]].end}
           Batch == {p \in {"batch"} \X Threads \X (1..BatchSize) :
                       p[3] \in DOMAIN ops[p[2]] /\ p[3] > at[p[2]] /\ ops[p[2]][p[3]] = i}
           ParkedAt == {p \in {"parked"} \X Uids : id_map[p[2]] = Parked(i)}
           Pending == {p \in {"pending"} \X Threads : pc[p[2]] = "push" /\ pending[p[2]].op = i}
           Queued == {p \in {"queued"} \X DOMAIN queued_ops : queued_ops[p[2]] = i}
           Done == {p \in {<<"performed">>} : i \in performed}
<1>1. Places(i) =
        Unclaimed \cup Claimed \cup Batch \cup ParkedAt \cup Pending \cup Queued \cup Done
  BY DEF Places
<1>2. ASSUME NEW a, NEW b, Place("unclaimed", a, b, i) PROVE <<"unclaimed">> \in Unclaimed
  BY <1>0, <1>2 DEF Place
<1>3. ASSUME NEW a, NEW b, Place("claimed", a, b, i) PROVE <<"claimed", a>> \in Claimed
  BY <1>3 DEF Place
<1>4. ASSUME NEW a, NEW b, Place("batch", a, b, i) PROVE <<"batch", a, b>> \in Batch
  <2>1. a \in Threads /\ b \in (at[a] + 1)..Len(ops[a]) /\ ops[a][b] = i
    BY <1>4 DEF Place
  <2>2. b \in 1..BatchSize /\ b \in DOMAIN ops[a] /\ b > at[a]
    BY <1>0, <2>1
  <2> QED BY <2>1, <2>2
<1>5. ASSUME NEW a, NEW b, Place("parked", a, b, i) PROVE <<"parked", a>> \in ParkedAt
  BY <1>5 DEF Place
<1>6. ASSUME NEW a, NEW b, Place("pending", a, b, i) PROVE <<"pending", a>> \in Pending
  BY <1>6 DEF Place
<1>7. ASSUME NEW a, NEW b, Place("queued", a, b, i) PROVE <<"queued", a>> \in Queued
  BY <1>0, <1>7 DEF Place
<1>8. ASSUME NEW a, NEW b, Place("performed", a, b, i) PROVE <<"performed">> \in Done
  BY <1>8 DEF Place
<1>9. ASSUME NEW kind, NEW a, NEW b, Place(kind, a, b, i) PROVE Tag(kind, a, b) \in Places(i)
  <2>1. kind \in {"unclaimed", "claimed", "batch", "parked", "pending", "queued", "performed"}
    BY <1>9 DEF Place
  <2> HIDE DEF Unclaimed, Claimed, Batch, ParkedAt, Pending, Queued, Done
  <2> QED BY <1>1, <1>2, <1>3, <1>4, <1>5, <1>6, <1>7, <1>8, <1>9, <2>1 DEF Tag
<1> DEFINE Tagged(p) == \E kind, a, b : Place(kind, a, b, i) /\ p = Tag(kind, a, b)
<1>10. ASSUME NEW p \in Unclaimed PROVE Tagged(p)
  <2>1. Place("unclaimed", 0, 0, i) /\ p = Tag("unclaimed", 0, 0)
    BY <1>0, <1>10 DEF Place, Tag
  <2> QED BY <2>1
<1>11. ASSUME NEW p \in Claimed PROVE Tagged(p)
  <2>1. Place("claimed", p[2], 0, i) /\ p = Tag("claimed", p[2], 0)
    BY <1>11 DEF Place, Tag
  <2> QED BY <2>1
<1>12. ASSUME NEW p \in Batch PROVE Tagged(p)
  <2>1. PICK t \in Threads, k \in 1..BatchSize :
          /\ p = <<"batch", t, k>>
          /\ k \in DOMAIN ops[t] /\ k > at[t] /\ ops[t][k] = i
    BY <1>12
  <2>2. k \in (at[t] + 1)..Len(ops[t])
    BY <1>0, <2>1
  <2>3. Place("batch", t, k, i) /\ p = Tag("batch", t, k)
    BY <2>1, <2>2 DEF Place, Tag
  <2> QED BY <2>3
<1>13. ASSUME NEW p \in ParkedAt PROVE Tagged(p)
  <2>1. Place("parked", p[2], 0, i) /\ p = Tag("parked", p[2], 0)
    BY <1>13 DEF Place, Tag
  <2> QED BY <2>1
<1>14. ASSUME NEW p \in Pending PROVE Tagged(p)
  <2>1. Place("pending", p[2], 0, i) /\ p = Tag("pending", p[2], 0)
    BY <1>14 DEF Place, Tag
  <2> QED BY <2>1
<1>15. ASSUME NEW p \in Queued PROVE Tagged(p)
  <2>1. Place("queued", p[2], 0, i) /\ p = Tag("queued", p[2], 0)
    BY <1>0, <1>15 DEF Place, Tag
  <2> QED BY <2>1
<1>16. ASSUME NEW p \in Done PROVE Tagged(p)
  <2>1. Place("performed", 0, 0, i) /\ p = Tag("performed", 0, 0)
    BY <1>16 DEF Place, Tag
  <2> QED BY <2>1
<1>17. \A p \in Places(i) : Tagged(p)
  <2> HIDE DEF Unclaimed, Claimed, Batch, ParkedAt, Pending, Queued, Done, Tagged
  <2> QED BY <1>1, <1>10, <1>11, <1>12, <1>13, <1>14, <1>15, <1>16
<1> QED BY <1>9, <1>17

(* The replay's conservation of operations: none is lost and none is done   *)
(* twice between idx_.fetch_add, the id map, the queue and the batches of   *)
(* any number of workers.                                                   *)
THEOREM OpsConserved == Spec => []EachOpInOnePlace
<1>1. ASSUME IInv PROVE EachOpInOnePlace
  <2> SUFFICES ASSUME NEW i \in Ops PROVE Cardinality(Places(i)) = 1
    BY DEF EachOpInOnePlace
  <2>1. PICK kind, a, b : OnlyAt(kind, a, b, i)
    BY <1>1 DEF IInv, OnePlace
  <2>2. Tag(kind, a, b) \in Places(i)
    BY <1>1, <2>1, PlacesOf DEF OnlyAt
  <2>3. \A p \in Places(i) : p = Tag(kind, a, b)
    <3> SUFFICES ASSUME NEW p \in Places(i) PROVE p = Tag(kind, a, b)
      OBVIOUS
    <3>1. PICK kind2, a2, b2 : Place(kind2, a2, b2, i) /\ p = Tag(kind2, a2, b2)
      BY <1>1, PlacesOf
    <3>2. kind2 = kind /\ a2 = a /\ b2 = b
      BY <2>1, <3>1 DEF OnlyAt
    <3> QED BY <3>1, <3>2
  <2>4. Places(i) = {Tag(kind, a, b)}
    BY <2>2, <2>3
  <2> QED BY <2>4, FS_Singleton
<1> QED BY <1>1, ReplayInvariant, PTL

(* MapVal's untagged union is read as it was written: LookupAllocation      *)
(* finds a pointer, and AddAllocation nothing or a parked operation.        *)
THEOREM UnionReadRight == Spec => []UnionReadAsWritten
<1>1. ASSUME IInv PROVE UnionReadAsWritten
  <2> SUFFICES ASSUME NEW t \in Threads
      PROVE  /\ pc[t] = "make" /\ Len(rewritten[t]) < Len(ops[t]) =>
                  LET input == InputUid(ops[t][Len(rewritten[t]) + 1])
                  IN input # NoId /\ id_to_idx[t][input] = NoSlot =>
                       id_map[input].kind = "pointer"
             /\ pc[t] = "flush" => \A u \in unflushed[t] : id_map[u].kind # "pointer"
             /\ pc[t] = "assign" => id_map[pending[t].uid].kind = "parked"
    BY DEF UnionReadAsWritten
  <2>1. ASSUME Len(rewritten[t]) < Len(ops[t]), NEW i, i = ops[t][Len(rewritten[t]) + 1],
               InputUid(i) # NoId, id_to_idx[t][InputUid(i)] = NoSlot
        PROVE  id_map[InputUid(i)].kind = "pointer"
    <3>1. IsGlobal(t, i)
      BY <2>1 DEF IsGlobal
    <3> QED BY <1>1, <2>1, <3>1, GlobalInputIsPointer DEF IsPointer
  <2>2. ASSUME pc[t] = "flush", NEW u \in unflushed[t], id_map[u].kind = "pointer" PROVE FALSE
    <3>1. u \in Uids /\ Holds(t, u)
      BY <1>1, <2>2, UnflushedHeld
    <3>2. pc[t] = "push"
      BY <1>1, <2>2, <3>1 DEF IInv, PointersRecorded, IsPointer, Flushing
    <3> QED BY <2>2, <3>2
  <2>3. ASSUME pc[t] = "assign" PROVE id_map[pending[t].uid].kind = "parked"
    <3>1. id_map[pending[t].uid] = Parked(pending[t].op)
      BY <1>1, <2>3 DEF IInv, PendingIsParked
    <3> QED BY <3>1 DEF Parked
  <2> QED BY <2>1, <2>2, <2>3
<1> QED BY <1>1, ReplayInvariant, PTL

-----------------------------------------------------------------------------
(* The invariant of the pointers, on top of IInv.                           *)

(* The result of a malloc(0) is never named by the trace: its slot would    *)
(* keep what it held (the run ReplayZeroMalloc).                            *)
NoNamedZeroMalloc ==
  \A tr \in Traces : \A l \in DOMAIN tr :
    tr[l].op = "malloc" /\ tr[l].zero => tr[l].out = NoId

(* The pointer an operation is answered with.                               *)
Answer(i) == IF Allocates(i) THEN i ELSE Null

In(t, k) == rewritten[t][k].in
Out(t, k) == rewritten[t][k].out

(* The slots of a batch: a result that is still to be consumed has a slot   *)
(* no later operation writes.                                               *)
SlotsUsed == \A t \in Threads : \A k \in Made(t) :
  /\ In(t, k) < next_slot[t] /\ Out(t, k) < next_slot[t]
  /\ Out(t, k) = NoSlot <=> ResultUid(ops[t][k]) = NoId
  /\ In(t, k) = NoSlot <=> InputUid(ops[t][k]) = NoId

IdsApart == \A t \in Threads : \A u \in Uids : id_to_idx[t][u] # NoSlot =>
  /\ id_to_idx[t][u] \notin free_slots[t]
  /\ \A v \in Uids : id_to_idx[t][u] = id_to_idx[t][v] => u = v

ResultsKeepSlots == \A t \in Threads : \A k \in Made(t) :
  ResultUid(ops[t][k]) # NoId /\ LiveIn(t, k) =>
    \A m \in (k + 1)..Len(rewritten[t]) : Out(t, m) # Out(t, k)

(* A performed operation's result is in its slot while it is to be consumed. *)
ResultsInSlots == \A t \in Threads : \A k \in 1..at[t] :
  ResultUid(ops[t][k]) # NoId /\ LiveIn(t, k) => slots[t][Out(t, k)] = Answer(ops[t][k])

(* The pointer an operation consumes is in its input slot, or will be when  *)
(* the operations before it in the batch have been performed.               *)
MadeBy(t, k, m) ==
  /\ ResultUid(ops[t][m]) = InputUid(ops[t][k])
  /\ Out(t, m) = In(t, k)
  /\ \A x \in (m + 1)..(k - 1) : Out(t, x) # In(t, k)
  /\ m <= at[t] => slots[t][In(t, k)] = Answer(ops[t][m])

TakenFor(t, k, j) ==
  /\ ResultUid(j) = InputUid(ops[t][k])
  /\ slots[t][In(t, k)] = Answer(j)
  /\ \A x \in 1..(k - 1) : Out(t, x) # In(t, k)

InputsReady == \A t \in Threads : \A k \in (at[t] + 1)..Len(rewritten[t]) :
  InputUid(ops[t][k]) # NoId =>
    (\E m \in 1..(k - 1) : MadeBy(t, k, m)) \/ (\E j \in performed : TakenFor(t, k, j))

(* A recorded pointer is the answer its id's producer got.                  *)
PointersTrue == \A u \in Uids : IsPointer(u) =>
  \E j \in performed : ResultUid(j) = u /\ id_map[u].ptr = Answer(j)

(* What the allocator has handed out and not got back.                      *)
LiveIsUnconsumed ==
  live = {j \in performed : Allocates(j) /\ \A c \in performed : j \notin Producers(c)}

PointerInv ==
  /\ SlotsUsed
  /\ IdsApart
  /\ ResultsKeepSlots
  /\ ResultsInSlots
  /\ InputsReady
  /\ PointersTrue
  /\ LiveIsUnconsumed

-----------------------------------------------------------------------------
(* The invariant of the end, on top of IInv: no worker leaves what another  *)
(* one would have to take up.                                               *)

(* done is set by a failed worker only, which stays a member of the barrier. *)
DoneMeansFailed ==
  /\ done => \E t \in members : pc[t] \in {"report", "exited"}
  /\ \A t \in Threads : pc[t] = "report" => done
  /\ \A t \in members : pc[t] = "exited" => status = "error"
  /\ returned => \A t \in Threads : pc[t] = "exited"

LeftMeansExhausted == ~done => \A t \in Threads :
  pc[t] = "leave" \/ t \notin members \/ (pc[t] = "make" /\ ops[t] = <<>>) => NumOps <= idx

NonEmptyRuns == \A t \in Threads :
  pc[t] \in {"barrier1"} \cup Ready \cup Acting => ops[t] # <<>>

(* What is queued will be taken by a worker that has not left.              *)
WillTake(t) == t \in members /\ (ops[t] # <<>> \/ pc[t] \in {"loop", "take"})

QueueHasTaker == ~done /\ queued_ops # <<>> => \E t \in Threads : WillTake(t)

(* A result that has been produced is recorded, in the hands of the worker  *)
(* that produced it, or consumed.                                           *)
Keeps(t, u) ==
  id_to_idx[t][u] # NoSlot /\ (pc[t] \in {"run"} \cup Failed \/ u \in unflushed[t])

ResultsReachable == \A j \in performed : ResultUid(j) # NoId =>
  \/ IsPointer(ResultUid(j)) \/ ~Unconsumed(ResultUid(j))
  \/ \E t \in Threads : Keeps(t, ResultUid(j))

EndInv ==
  /\ DoneMeansFailed
  /\ LeftMeansExhausted
  /\ NonEmptyRuns
  /\ QueueHasTaker
  /\ ResultsReachable

-----------------------------------------------------------------------------
(* What a step does to one worker's batch: it begins anew, grows by an      *)
(* operation made, or stays.                                                *)
Fresh(s) ==
  /\ at[s] = Len(rewritten[s]) /\ Len(rewritten'[s]) = 0 /\ at'[s] = 0
  /\ \A u \in Uids : id_to_idx'[s][u] = NoSlot

Stays(s) ==
  /\ ops'[s] = ops[s] /\ rewritten'[s] = rewritten[s] /\ next_slot'[s] = next_slot[s]
  /\ free_slots'[s] = free_slots[s] /\ id_to_idx'[s] = id_to_idx[s]
  /\ Perform(s) \/ (at'[s] = at[s] /\ slots'[s] = slots[s])

LEMMA BatchSteps ==
  ASSUME IInv, [Next]_vars, NEW s \in Threads
  PROVE  Fresh(s) \/ MakeOp(s) \/ Stays(s)
<1> Sizes /\ TypeOK
  BY DEF IInv, Sizes
<1>1. ASSUME UNCHANGED <<ops, rewritten, next_slot, free_slots, id_to_idx, at, slots>>
      PROVE  Stays(s)
  BY <1>1 DEF Stays
<1>2. Quiet => Stays(s)
  BY <1>1 DEF Quiet
<1>3. ASSUME NEW t \in Threads, Loop(t) PROVE Fresh(s) \/ Stays(s)
  <2>1. CASE s = t
    <3>1. pc[t] = "loop" /\ at[t] = Len(ops[t])
      BY <1>3, LoopEffect
    <3>2. Len(rewritten[t]) = Len(ops[t])
      BY <3>1 DEF Sizes, BatchBounds
    <3> QED BY <1>3, <2>1, <3>1, <3>2, LoopEffect DEF Fresh
  <2>2. CASE s # t
    <3>1. /\ ops'[s] = ops[s] /\ rewritten'[s] = rewritten[s] /\ at'[s] = at[s]
          /\ id_to_idx'[s] = id_to_idx[s]
      BY <1>3, <2>2, LoopEffect
    <3>2. /\ next_slot'[s] = next_slot[s] /\ free_slots'[s] = free_slots[s]
          /\ slots'[s] = slots[s]
      BY <1>3, <2>2 DEF Loop, TypeOK
    <3> QED BY <3>1, <3>2 DEF Stays
  <2> QED BY <2>1, <2>2
<1>4. ASSUME NEW t \in Threads, TakeFromQueue(t) PROVE Fresh(s) \/ Stays(s)
  <2>1. /\ at[t] = 0 /\ Len(rewritten[t]) = 0
        /\ \A r \in Threads \ {t} : ops'[r] = ops[r]
        /\ UNCHANGED <<rewritten, next_slot, free_slots, id_to_idx, at, slots>>
    BY <1>4, TakeEffect
  <2>2. CASE s = t
    BY <2>1, <2>2, NothingMade DEF Fresh
  <2> QED BY <2>1, <2>2 DEF Stays
<1>5. ASSUME NEW t \in Threads, ScanLine(t) PROVE Fresh(s) \/ Stays(s)
  <2>0. PICK i : i = claimed[t].first
    OBVIOUS
  <2>1. /\ at[t] = 0 /\ Len(rewritten[t]) = 0
        /\ \A r \in Threads \ {t} : ops'[r] = ops[r]
        /\ UNCHANGED <<rewritten, next_slot, free_slots, id_to_idx, at, slots>>
    BY <1>5, <2>0, ScanEffect
  <2>2. CASE s = t
    BY <2>1, <2>2, NothingMade DEF Fresh
  <2> QED BY <2>1, <2>2 DEF Stays
<1>6. ASSUME NEW t \in Threads, MakeOp(t), s # t PROVE Stays(s)
  <2>0. PICK m, i : m = Len(rewritten[t]) /\ i = ops[t][m + 1]
    OBVIOUS
  <2>1. rewritten'[s] = rewritten[s] /\ UNCHANGED <<ops, at>>
    BY <1>6, <2>0, MakeEffect
  <2>2. id_to_idx'[s] = id_to_idx[s]
    BY <1>6, <2>0, MakeIds
  <2>3. /\ next_slot'[s] = next_slot[s] /\ free_slots'[s] = free_slots[s]
        /\ slots'[s] = slots[s]
    BY <1>6 DEF MakeOp, TypeOK
  <2> QED BY <2>1, <2>2, <2>3 DEF Stays
<1>7. ASSUME NEW t \in Threads, Perform(t) PROVE Stays(s)
  <2>1. UNCHANGED <<ops, rewritten, next_slot, free_slots, id_to_idx>>
    BY <1>7 DEF Perform
  <2>2. s # t => at'[s] = at[s] /\ slots'[s] = slots[s]
    BY <1>7 DEF Perform, TypeOK
  <2> QED BY <1>7, <2>1, <2>2 DEF Stays
<1>8. ASSUME NEW t \in Threads,
             Performed(t) \/ FlushOne(t) \/ AssignPointer(t) \/ PushPending(t)
      PROVE  Stays(s)
  BY <1>1, <1>8 DEF Performed, FlushOne, AssignPointer, PushPending, locals
<1> QED BY <1>2, <1>3, <1>4, <1>5, <1>6, <1>7, <1>8, StepKinds DEF Handles

LEMMA PerformedGrows ==
  ASSUME IInv, [Next]_vars
  PROVE  /\ performed \subseteq performed'
         /\ UNCHANGED <<performed, live>> \/ \E t \in Threads : Perform(t)
<1>1. ASSUME NEW t \in Threads, Perform(t) PROVE performed \subseteq performed'
  BY <1>1 DEF Perform
<1>2. ASSUME NEW t \in Threads,
             \/ Loop(t) \/ TakeFromQueue(t) \/ ScanLine(t) \/ MakeOp(t) \/ Performed(t)
             \/ FlushOne(t) \/ AssignPointer(t) \/ PushPending(t)
      PROVE  UNCHANGED <<performed, live>>
  BY <1>2 DEF Loop, TakeFromQueue, ScanLine, MakeOp, Performed, FlushOne, AssignPointer,
              PushPending, history
<1>3. Quiet => UNCHANGED <<performed, live>>
  BY DEF Quiet, history
<1> QED BY <1>1, <1>2, <1>3, StepKinds DEF Handles

(* What making an operation does to the slots.                              *)
LEMMA MakeSlots ==
  ASSUME IInv, NEW t \in Threads, MakeOp(t), NEW i, i = ops[t][Len(rewritten[t]) + 1]
  PROVE  /\ next_slot[t] \in Nat /\ next_slot[t] \in Slots
         /\ NextAfterInput(t, i) \in {next_slot[t], next_slot[t] + 1}
         /\ free_slots'[t] = FreeAfterResult(t, i)
         /\ ResultSlot(t, i) = NextAfterInput(t, i) =>
              next_slot'[t] = NextAfterInput(t, i) + 1
         /\ ResultSlot(t, i) # NextAfterInput(t, i) => next_slot'[t] = NextAfterInput(t, i)
         /\ \A x \in Slots \ {next_slot[t]} : slots'[t][x] = slots[t][x]
         /\ IsGlobal(t, i) => slots'[t][next_slot[t]] = id_map[InputUid(i)].ptr
<1> Sizes /\ TypeOK
  BY DEF IInv, Sizes
<1>0. PICK m : m = Len(rewritten[t])
  OBVIOUS
<1>1. m < Len(ops[t]) /\ i = ops[t][m + 1] /\ i \in Ops
  BY <1>0, MakeEffect
<1>2. /\ next_slot[t] \in Nat /\ next_slot[t] < BatchSize
      /\ NextAfterInput(t, i) \in {next_slot[t], next_slot[t] + 1}
      /\ IsGlobal(t, i) => InputSlot(t, i) = next_slot[t]
  BY <1>0, <1>1, MakeOpSlots
<1>3. next_slot[t] \in Slots
  BY <1>2, BatchAssumption DEF Slots
<1>4. /\ free_slots'[t] = FreeAfterResult(t, i)
      /\ next_slot'[t] = IF ResultSlot(t, i) = NextAfterInput(t, i)
                           THEN NextAfterInput(t, i) + 1 ELSE NextAfterInput(t, i)
  BY DEF MakeOp, TypeOK
<1>5. CASE ~IsGlobal(t, i)
  <2>1. slots' = slots
    BY <1>5 DEF MakeOp
  <2> QED BY <1>2, <1>3, <1>4, <1>5, <2>1
<1>6. CASE IsGlobal(t, i)
  <2>1. id_map[InputUid(i)].kind = "pointer"
    BY <1>0, <1>1, <1>6, GlobalInputIsPointer DEF IsPointer
  <2>2. slots' = [slots EXCEPT ![t][InputSlot(t, i)] = ReadPointer(id_map[InputUid(i)])]
    BY <1>6 DEF MakeOp
  <2>3. slots' = [slots EXCEPT ![t][next_slot[t]] = id_map[InputUid(i)].ptr]
    BY <1>2, <1>6, <2>1, <2>2 DEF ReadPointer
  <2>4. slots[t] \in [Slots -> Pointers] /\ slots \in [Threads -> [Slots -> Pointers]]
    BY DEF TypeOK
  <2>5. /\ slots'[t][next_slot[t]] = id_map[InputUid(i)].ptr
        /\ \A x \in Slots \ {next_slot[t]} : slots'[t][x] = slots[t][x]
    BY <1>3, <2>3, <2>4
  <2> QED BY <1>2, <1>3, <1>4, <2>5
<1> QED BY <1>5, <1>6

(* A slot given to a result is in use for no other id.                      *)
LEMMA NewSlotApart ==
  ASSUME IInv, IdsApart, NEW t \in Threads, MakeOp(t),
         NEW i, i = ops[t][Len(rewritten[t]) + 1],
         NEW v \in Uids, id_to_idx[t][v] # NoSlot, v # InputUid(i)
  PROVE  /\ id_to_idx[t][v] \in 0..(next_slot[t] - 1)
         /\ id_to_idx[t][v] \notin FreeAfterInput(t, i)
         /\ id_to_idx[t][v] # ResultSlot(t, i)
<1> Sizes /\ TypeOK
  BY DEF IInv, Sizes
<1>0. PICK m : m = Len(rewritten[t])
  OBVIOUS
<1>1. m < Len(ops[t]) /\ i = ops[t][m + 1] /\ i \in Ops
  BY <1>0, MakeEffect
<1>2. /\ next_slot[t] \in Nat
      /\ InputUid(i) = NoId => InputSlot(t, i) = NoSlot
      /\ IsLocal(t, i) => InputSlot(t, i) = id_to_idx[t][InputUid(i)]
      /\ IsGlobal(t, i) => InputSlot(t, i) = next_slot[t]
      /\ NextAfterInput(t, i) \in {next_slot[t], next_slot[t] + 1}
      /\ InputUid(i) \in Uids \cup {NoId}
      /\ ResultUid(i) = NoId => ResultSlot(t, i) = NoSlot
      /\ ResultUid(i) # NoId =>
           \/ ResultSlot(t, i) \in FreeAfterInput(t, i)
           \/ ResultSlot(t, i) = NextAfterInput(t, i)
  BY <1>0, <1>1, MakeOpSlots
<1>3. id_to_idx[t][v] \in 0..(next_slot[t] - 1)
  <2>1. id_to_idx[t][v] \in SlotsOrNone /\ id_to_idx[t][v] < next_slot[t]
    BY DEF TypeOK, Sizes, SlotBounds
  <2> QED BY <1>2, <2>1, BatchAssumption DEF SlotsOrNone, Slots
<1>4. id_to_idx[t][v] \notin free_slots[t]
  BY DEF IdsApart
<1>5. id_to_idx[t][v] # InputSlot(t, i)
  <2>1. CASE InputUid(i) = NoId
    BY <1>2, <2>1
  <2>2. CASE IsLocal(t, i)
    BY <1>2, <2>2 DEF IdsApart, IsLocal
  <2>3. CASE IsGlobal(t, i)
    BY <1>2, <1>3, <2>3
  <2> QED BY <2>1, <2>2, <2>3 DEF IsLocal, IsGlobal
<1>6. id_to_idx[t][v] \notin FreeAfterInput(t, i)
  BY <1>4, <1>5 DEF FreeAfterInput
<1>7. id_to_idx[t][v] # NextAfterInput(t, i)
  BY <1>2, <1>3
<1> QED BY <1>2, <1>3, <1>6, <1>7

LEMMA MakeOpNext ==
  ASSUME IInv, NEW t \in Threads, MakeOp(t),
         NEW m, m = Len(rewritten[t]), NEW i, i = ops[t][m + 1]
  PROVE  /\ m \in Nat /\ Len(rewritten'[t]) = m + 1 /\ at[t] = 0 /\ UNCHANGED <<ops, at>>
         /\ i \in Ops /\ m + 1 \in Batched(t)
         /\ rewritten'[t][m + 1].in = InputSlot(t, i)
         /\ rewritten'[t][m + 1].out = ResultSlot(t, i)
         /\ \A k \in 1..m : rewritten'[t][k] = rewritten[t][k]
<1>1. Sizes
  BY DEF IInv
<1>2. m + 1 \in Batched(t)
  BY ToBeMade
<1> QED BY <1>1, <1>2, MakeEffect

-----------------------------------------------------------------------------
(* The slots of a batch are preserved.                                     *)
LEMMA SlotsUsedPreserved ==
  ASSUME IInv, PointerInv, [Next]_vars
  PROVE  SlotsUsed'
<1> \A i : InputUid(i)' = InputUid(i) /\ ResultUid(i)' = ResultUid(i)
  BY TraceUnchanged, TraceKept
<1> Sizes /\ SlotsUsed
  BY DEF IInv, PointerInv
<1> SUFFICES ASSUME NEW s \in Threads, NEW k \in 1..Len(rewritten'[s])
             PROVE  /\ rewritten'[s][k].in < next_slot'[s] /\ rewritten'[s][k].out < next_slot'[s]
                    /\ rewritten'[s][k].out = NoSlot <=> ResultUid(ops'[s][k]) = NoId
                    /\ rewritten'[s][k].in = NoSlot <=> InputUid(ops'[s][k]) = NoId
  BY DEF SlotsUsed, Made, In, Out
<1>1. CASE Fresh(s)
  BY <1>1 DEF Fresh
<1>2. CASE Stays(s)
  BY <1>2 DEF Stays, SlotsUsed, Made, In, Out
<1>3. CASE MakeOp(s)
  <2>0. PICK m, i : m = Len(rewritten[s]) /\ i = ops[s][m + 1]
    OBVIOUS
  <2>1. /\ m \in Nat /\ Len(rewritten'[s]) = m + 1 /\ UNCHANGED ops /\ i \in Ops
        /\ m + 1 \in Batched(s)
        /\ rewritten'[s][m + 1].in = InputSlot(s, i)
        /\ rewritten'[s][m + 1].out = ResultSlot(s, i)
        /\ \A x \in 1..m : rewritten'[s][x] = rewritten[s][x]
    BY <1>3, <2>0, MakeOpNext
  <2>2. /\ next_slot[s] \in Nat
        /\ NextAfterInput(s, i) \in {next_slot[s], next_slot[s] + 1}
        /\ ResultSlot(s, i) = NextAfterInput(s, i) => next_slot'[s] = NextAfterInput(s, i) + 1
        /\ ResultSlot(s, i) # NextAfterInput(s, i) => next_slot'[s] = NextAfterInput(s, i)
    BY <1>3, <2>0, MakeSlots
  <2>3. m < Len(ops[s])
    BY <1>3, <2>0, MakeEffect
  <2>4. /\ InputUid(i) \in Uids \cup {NoId} /\ ResultUid(i) \in Uids \cup {NoId}
        /\ InputUid(i) = NoId => InputSlot(s, i) = NoSlot
        /\ IsLocal(s, i) => InputSlot(s, i) \in 0..(next_slot[s] - 1)
        /\ IsGlobal(s, i) => InputSlot(s, i) = next_slot[s]
        /\ FreeAfterInput(s, i) \subseteq 0..(NextAfterInput(s, i) - 1)
        /\ ResultUid(i) = NoId => ResultSlot(s, i) = NoSlot
        /\ ResultUid(i) # NoId =>
             \/ ResultSlot(s, i) \in FreeAfterInput(s, i)
             \/ FreeAfterInput(s, i) = {} /\ ResultSlot(s, i) = NextAfterInput(s, i)
    BY <2>0, <2>3, MakeOpSlots
  <2>5. CASE k \in 1..m
    <3>1. k \in Made(s)
      BY <2>0, <2>5 DEF Made
    <3>2. /\ rewritten[s][k].in < next_slot[s] /\ rewritten[s][k].out < next_slot[s]
          /\ rewritten[s][k].out = NoSlot <=> ResultUid(ops[s][k]) = NoId
          /\ rewritten[s][k].in = NoSlot <=> InputUid(ops[s][k]) = NoId
      BY <3>1 DEF SlotsUsed, In, Out
    <3>3. next_slot[s] <= next_slot'[s]
      BY <2>2
    <3>4. rewritten[s][k].in \in SlotsOrNone /\ rewritten[s][k].out \in SlotsOrNone
      <4>0. PICK R : R = [in : SlotsOrNone, out : SlotsOrNone]
        OBVIOUS
      <4>1. rewritten[s] \in Seq(R)
        BY <4>0 DEF Sizes, TypeOK
      <4>2. rewritten[s][k] \in R
        BY <3>1, <4>1, ElementOfSeq, LenProperties DEF Made
      <4> QED BY <4>0, <4>2
    <3>5. rewritten[s][k].in < next_slot'[s] /\ rewritten[s][k].out < next_slot'[s]
      <4>1. /\ rewritten[s][k].in \in Int /\ rewritten[s][k].out \in Int
            /\ next_slot'[s] \in Int
        BY <2>2, <3>4, BatchAssumption DEF SlotsOrNone, Slots, NoSlot
      <4> QED BY <2>2, <3>2, <3>3, <4>1
    <3> QED BY <2>1, <2>5, <3>2, <3>5
  <2>6. CASE k = m + 1
    <3>1. ResultSlot(s, i) < next_slot'[s]
      <4>1. CASE ResultSlot(s, i) = NextAfterInput(s, i)
        BY <2>2, <4>1
      <4>2. CASE ResultSlot(s, i) \in 0..(NextAfterInput(s, i) - 1)
        BY <2>2, <4>2
      <4>3. CASE ResultSlot(s, i) = NoSlot
        BY <2>2, <4>3 DEF NoSlot
      <4> QED BY <2>4, <4>1, <4>2, <4>3
    <3>2. ResultSlot(s, i) = NoSlot <=> ResultUid(i) = NoId
      BY <2>2, <2>4 DEF NoSlot
    <3>3. InputSlot(s, i) = NoSlot <=> InputUid(i) = NoId
      BY <2>2, <2>4 DEF NoSlot, IsLocal, IsGlobal
    <3>4. InputSlot(s, i) < next_slot'[s]
      <4>1. NextAfterInput(s, i) <= next_slot'[s]
        BY <2>2
      <4>2. CASE IsGlobal(s, i)
        <5>1. NextAfterInput(s, i) = next_slot[s] + 1
          BY <2>0, <2>3, <4>2, MakeOpSlots
        <5> QED BY <2>2, <2>4, <4>1, <4>2, <5>1
      <4>3. CASE InputSlot(s, i) = NoSlot
        BY <2>2, <4>3 DEF NoSlot
      <4>4. CASE IsLocal(s, i)
        BY <2>2, <2>4, <4>1, <4>4
      <4> QED BY <2>4, <4>2, <4>3, <4>4 DEF IsLocal, IsGlobal
    <3> QED BY <2>0, <2>1, <2>6, <3>1, <3>2, <3>3, <3>4
  <2> QED BY <2>1, <2>5, <2>6
<1> QED BY <1>1, <1>2, <1>3, BatchSteps

LEMMA IdsApartPreserved ==
  ASSUME IInv, PointerInv, [Next]_vars
  PROVE  IdsApart'
<1> Uids' = Uids
  BY TraceUnchanged, TraceKept
<1> Sizes /\ IdsApart
  BY DEF IInv, PointerInv
<1> SUFFICES ASSUME NEW s \in Threads, NEW u \in Uids, id_to_idx'[s][u] # NoSlot
             PROVE  /\ id_to_idx'[s][u] \notin free_slots'[s]
                    /\ \A v \in Uids : id_to_idx'[s][u] = id_to_idx'[s][v] => u = v
  BY DEF IdsApart
<1>1. CASE Fresh(s)
  BY <1>1 DEF Fresh
<1>2. CASE Stays(s)
  BY <1>2 DEF Stays, IdsApart
<1>3. CASE MakeOp(s)
  <2>0. PICK i : i = ops[s][Len(rewritten[s]) + 1]
    OBVIOUS
  <2>1. /\ ResultUid(i) # NoId => id_to_idx'[s][ResultUid(i)] = ResultSlot(s, i)
        /\ \A v \in Uids \ {ResultUid(i), InputUid(i)} : id_to_idx'[s][v] = id_to_idx[s][v]
        /\ InputUid(i) \notin {NoId, ResultUid(i)} => id_to_idx'[s][InputUid(i)] = NoSlot
    BY <1>3, <2>0, MakeIds
  <2>2. free_slots'[s] = FreeAfterInput(s, i) \ {ResultSlot(s, i)}
    BY <1>3, <2>0, MakeSlots DEF FreeAfterResult
(* An id in use after the step is the result's, or was in use before.       *)
  <2>3. ASSUME NEW v \in Uids, id_to_idx'[s][v] # NoSlot, v # ResultUid(i)
        PROVE  /\ id_to_idx'[s][v] = id_to_idx[s][v] /\ v # InputUid(i)
               /\ id_to_idx[s][v] \notin FreeAfterInput(s, i)
               /\ id_to_idx[s][v] # ResultSlot(s, i)
    <3>1. v # InputUid(i)
      BY <2>1, <2>3, NoIdNotUid
    <3>2. id_to_idx'[s][v] = id_to_idx[s][v]
      BY <2>1, <2>3, <3>1
    <3> QED BY <1>3, <2>0, <2>3, <3>1, <3>2, NewSlotApart
  <2>4. ASSUME NEW v \in Uids, v = ResultUid(i) PROVE id_to_idx'[s][v] = ResultSlot(s, i)
    BY <2>1, <2>4, NoIdNotUid
  <2>5. id_to_idx'[s][u] \notin free_slots'[s]
    BY <2>2, <2>3, <2>4
  <2>6. ASSUME NEW v \in Uids, id_to_idx'[s][u] = id_to_idx'[s][v] PROVE u = v
    <3>1. CASE u = ResultUid(i) \/ v = ResultUid(i)
      BY <2>3, <2>4, <2>6, <3>1
    <3>2. CASE u # ResultUid(i) /\ v # ResultUid(i)
      BY <2>3, <2>6, <3>2 DEF IdsApart
    <3> QED BY <3>1, <3>2
  <2> QED BY <2>5, <2>6
<1> QED BY <1>1, <1>2, <1>3, BatchSteps

(* The slot of a result that is still to be consumed, in the batch.         *)
LEMMA SlotOfResult ==
  ASSUME IInv, NEW t \in Threads, NEW k \in Made(t), ResultUid(ops[t][k]) # NoId, LiveIn(t, k)
  PROVE  /\ ResultUid(ops[t][k]) \in Uids
         /\ id_to_idx[t][ResultUid(ops[t][k])] # NoSlot
         /\ id_to_idx[t][ResultUid(ops[t][k])] = rewritten[t][k].out
<1>0. PICK j, u : j = ops[t][k] /\ u = ResultUid(j)
  OBVIOUS
<1>1. k \in Batched(t) /\ j \in Ops
  BY <1>0, MadeIsBatched, BatchedOpPlace
<1>2. u \in Uids
  BY <1>0, <1>1, UidsTyped DEF IInv, Sizes, TypeOK
<1>3. id_to_idx[t][u] # NoSlot
  BY <1>0 DEF IInv, IdsOfBatch
<1>4. PICK m \in Made(t) : ResultUid(ops[t][m]) = u /\ rewritten[t][m].out = id_to_idx[t][u]
  BY <1>2, <1>3 DEF IInv, IdsOfBatch
<1>5. m = k
  BY <1>0, <1>1, <1>4, MadeIsBatched, ResultInOneBatch
<1> QED BY <1>0, <1>2, <1>3, <1>4, <1>5

(* A result still to be consumed after an operation was made was so before. *)
LEMMA StillLive ==
  ASSUME IInv, NEW t \in Threads, MakeOp(t),
         NEW m, m = Len(rewritten[t]), NEW i, i = ops[t][m + 1],
         NEW k \in 1..m,
         \A x \in (k + 1)..Len(rewritten'[t]) : InputUid(ops'[t][x]) # ResultUid(ops[t][k])
  PROVE  LiveIn(t, k) /\ InputUid(i) # ResultUid(ops[t][k])
<1>1. m \in Nat /\ Len(rewritten'[t]) = m + 1 /\ UNCHANGED ops
  BY MakeOpNext
<1>2. m + 1 \in (k + 1)..Len(rewritten'[t])
  BY <1>1
<1>3. \A x \in (k + 1)..m : x \in (k + 1)..Len(rewritten'[t])
  BY <1>1
<1> QED BY <1>1, <1>2, <1>3 DEF LiveIn

LEMMA ResultsKeepSlotsPreserved ==
  ASSUME IInv, PointerInv, [Next]_vars
  PROVE  ResultsKeepSlots'
<1> \A i : InputUid(i)' = InputUid(i) /\ ResultUid(i)' = ResultUid(i)
  BY TraceUnchanged, TraceKept
<1> Sizes /\ ResultsKeepSlots /\ IdsApart
  BY DEF IInv, PointerInv
<1> SUFFICES ASSUME NEW s \in Threads, NEW k \in 1..Len(rewritten'[s]),
                    ResultUid(ops'[s][k]) # NoId,
                    \A x \in (k + 1)..Len(rewritten'[s]) :
                      InputUid(ops'[s][x]) # ResultUid(ops'[s][k]),
                    NEW n \in (k + 1)..Len(rewritten'[s])
             PROVE  rewritten'[s][n].out # rewritten'[s][k].out
  BY DEF ResultsKeepSlots, Made, Out, LiveIn
<1>1. CASE Fresh(s)
  BY <1>1 DEF Fresh
<1>2. CASE Stays(s)
  BY <1>2 DEF Stays, ResultsKeepSlots, LiveIn, Made, Out
<1>3. CASE MakeOp(s)
  <2>0. PICK m, i : m = Len(rewritten[s]) /\ i = ops[s][m + 1]
    OBVIOUS
  <2>1. /\ m \in Nat /\ Len(rewritten'[s]) = m + 1 /\ UNCHANGED ops
        /\ rewritten'[s][m + 1].out = ResultSlot(s, i)
        /\ \A x \in 1..m : rewritten'[s][x] = rewritten[s][x]
    BY <1>3, <2>0, MakeOpNext
  <2>2. k \in 1..m /\ (n \in (k + 1)..m \/ n = m + 1)
    BY <2>1
  <2>3. LiveIn(s, k) /\ InputUid(i) # ResultUid(ops[s][k]) /\ k \in Made(s)
    BY <1>3, <2>0, <2>1, <2>2, StillLive DEF Made
  <2>4. CASE n \in (k + 1)..m
    <3>1. n \in 1..m
      BY <2>1, <2>2, <2>4
    <3> QED BY <2>0, <2>1, <2>2, <2>3, <2>4, <3>1 DEF ResultsKeepSlots, Out
  <2>5. CASE n = m + 1
    <3>0. PICK u : u = ResultUid(ops[s][k])
      OBVIOUS
    <3>1. u \in Uids /\ id_to_idx[s][u] # NoSlot /\ id_to_idx[s][u] = rewritten[s][k].out
      BY <2>1, <2>3, <3>0, SlotOfResult
    <3>2. id_to_idx[s][u] # ResultSlot(s, i)
      BY <1>3, <2>0, <2>3, <3>0, <3>1, NewSlotApart
    <3> QED BY <2>1, <2>2, <2>5, <3>1, <3>2
  <2> QED BY <2>2, <2>4, <2>5
<1> QED BY <1>1, <1>2, <1>3, BatchSteps

-----------------------------------------------------------------------------
(* The answers an operations get stay where their consumers find them.     *)
LEMMA SlotsTyped ==
  ASSUME IInv, PointerInv, NEW t \in Threads, NEW k \in Made(t)
  PROVE  /\ rewritten[t][k].in \in SlotsOrNone /\ rewritten[t][k].out \in SlotsOrNone
         /\ InputUid(ops[t][k]) # NoId => rewritten[t][k].in \in Slots
         /\ ResultUid(ops[t][k]) # NoId => rewritten[t][k].out \in Slots
<1>0. PICK R : R = [in : SlotsOrNone, out : SlotsOrNone]
  OBVIOUS
<1>1. rewritten[t] \in Seq(R)
  BY <1>0 DEF IInv, Sizes, TypeOK
<1>2. rewritten[t][k] \in R
  BY <1>1, ElementOfSeq, LenProperties DEF Made
<1>3. rewritten[t][k].in \in SlotsOrNone /\ rewritten[t][k].out \in SlotsOrNone
  BY <1>0, <1>2
<1>4. /\ rewritten[t][k].out = NoSlot <=> ResultUid(ops[t][k]) = NoId
      /\ rewritten[t][k].in = NoSlot <=> InputUid(ops[t][k]) = NoId
  BY DEF PointerInv, SlotsUsed, In, Out
<1> QED BY <1>3, <1>4 DEF SlotsOrNone

(* An operation with a result stores what the allocator answers.            *)
LEMMA ResultStored ==
  ASSUME NoNamedZeroMalloc, tracefile \in Traces, NEW i \in Ops, ResultUid(i) # NoId
  PROVE  SetsId(i)
<1>1. /\ Ln(i) \in DOMAIN tracefile /\ LineOf(i) = tracefile[Ln(i)]
      /\ LineOf(i) \in Lines(Nat) /\ WellShaped(LineOf(i)) /\ LineOf(i).op # "unset"
  BY LineIds, LineOfOp
<1>2. LineOf(i).out # NoId
  BY DEF ResultUid, UidOf
<1>3. LineOf(i).op \in LineOps
  BY <1>1 DEF Lines
<1>4. LineOf(i).op \in {"malloc", "realloc"}
  BY <1>1, <1>2, <1>3 DEF LineOps, WellShaped
<1>5. LineOf(i).op = "malloc" => ~LineOf(i).zero
  BY <1>1, <1>2 DEF NoNamedZeroMalloc
<1> QED BY <1>2, <1>4, <1>5 DEF SetsId

LEMMA PerformSlots ==
  ASSUME NoNamedZeroMalloc, IInv, PointerInv, NEW t \in Threads, Perform(t),
         NEW n, n = at[t] + 1, NEW i, i = ops[t][n]
  PROVE  /\ n \in Made(t) /\ i \in Ops /\ at[t] \in Nat /\ at'[t] = n /\ i \notin performed
         /\ Len(rewritten[t]) \in Nat
         /\ performed' = performed \cup {i}
         /\ ResultUid(i) # NoId => slots'[t][rewritten[t][n].out] = Answer(i)
         /\ \A x \in Slots : x # rewritten[t][n].out => slots'[t][x] = slots[t][x]
         /\ live' = (live \ {InputPointer(t)}) \cup ({Answer(i)} \ {Null})
<1> Sizes /\ TypeOK
  BY DEF IInv, Sizes
<1>1. /\ pc[t] = "run" /\ at[t] < Len(ops[t]) /\ i \in Ops /\ at'[t] = n
      /\ performed' = performed \cup {i}
  BY PerformEffect
<1>2. at[t] \in Nat /\ Len(ops[t]) \in Nat /\ Len(rewritten[t]) = Len(ops[t])
  BY <1>1, Lengths DEF Sizes, BatchBounds, Acting, Performing
<1>3. n \in Made(t) /\ n \in (at[t] + 1)..Len(ops[t])
  BY <1>1, <1>2 DEF Made
<1>4. i \notin performed
  <2>1. Place("batch", t, n, i)
    BY <1>3 DEF Place
  <2> QED BY <1>1, <2>1, NotPerformed
<1>5. /\ live' = (live \ {InputPointer(t)}) \cup ({Answer(i)} \ {Null})
      /\ slots' = IF SetsId(i) THEN [slots EXCEPT ![t][rewritten[t][n].out] = Answer(i)]
                  ELSE slots
  BY DEF Perform, Answer
<1>6. slots \in [Threads -> [Slots -> Pointers]]
  BY DEF TypeOK
<1>7. \A x \in Slots : x # rewritten[t][n].out => slots'[t][x] = slots[t][x]
  BY <1>5, <1>6
<1>8. ASSUME ResultUid(i) # NoId PROVE slots'[t][rewritten[t][n].out] = Answer(i)
  <2>1. SetsId(i)
    BY <1>1, <1>8, ResultStored DEF TypeOK
  <2>2. rewritten[t][n].out \in Slots
    BY <1>3, <1>8, SlotsTyped
  <2> QED BY <1>5, <1>6, <2>1, <2>2
<1> QED BY <1>1, <1>2, <1>3, <1>4, <1>5, <1>7, <1>8

LEMMA AnswerKept ==
  ASSUME IInv, [Next]_vars
  PROVE  \A i : Answer(i)' = Answer(i)
<1>1. \A i : Allocates(i)' = Allocates(i)
  BY TraceUnchanged, TraceKept
<1> QED BY <1>1 DEF Answer

LEMMA ResultsInSlotsPreserved ==
  ASSUME NoNamedZeroMalloc, IInv, PointerInv, [Next]_vars
  PROVE  ResultsInSlots'
<1> /\ \A i : InputUid(i)' = InputUid(i) /\ ResultUid(i)' = ResultUid(i)
    /\ \A i : Answer(i)' = Answer(i)
  BY TraceUnchanged, TraceKept, AnswerKept
<1> Sizes /\ ResultsInSlots
  BY DEF IInv, PointerInv
<1> SUFFICES ASSUME NEW s \in Threads, NEW k \in 1..at'[s], ResultUid(ops'[s][k]) # NoId,
                    \A x \in (k + 1)..Len(rewritten'[s]) :
                      InputUid(ops'[s][x]) # ResultUid(ops'[s][k])
             PROVE  slots'[s][rewritten'[s][k].out] = Answer(ops'[s][k])
  BY DEF ResultsInSlots, Out, LiveIn
<1>1. CASE Fresh(s)
  BY <1>1 DEF Fresh
<1>2. CASE MakeOp(s)
  <2>1. at'[s] = 0
    BY <1>2, MakeOpNext
  <2> QED BY <2>1
<1>3. CASE Stays(s) /\ at'[s] = at[s] /\ slots'[s] = slots[s]
  BY <1>3 DEF Stays, ResultsInSlots, LiveIn, Out
<1>4. CASE Stays(s) /\ Perform(s)
  <2>0. PICK n, i : n = at[s] + 1 /\ i = ops[s][n]
    OBVIOUS
  <2>1. ops'[s] = ops[s] /\ rewritten'[s] = rewritten[s]
    BY <1>4 DEF Stays
  <2>2. /\ n \in Made(s) /\ at[s] \in Nat /\ at'[s] = n /\ Len(rewritten[s]) \in Nat
        /\ ResultUid(i) # NoId => slots'[s][rewritten[s][n].out] = Answer(i)
        /\ \A x \in Slots : x # rewritten[s][n].out => slots'[s][x] = slots[s][x]
    BY <1>4, <2>0, PerformSlots
  <2>3. CASE k = n
    BY <2>0, <2>1, <2>2, <2>3
  <2>4. CASE k # n
    <3>1. k \in 1..at[s] /\ k \in Made(s) /\ n \in (k + 1)..Len(rewritten[s])
      BY <2>0, <2>2, <2>4 DEF Made
    <3>2. LiveIn(s, k) /\ ResultUid(ops[s][k]) # NoId
      BY <2>1 DEF LiveIn
    <3>3. rewritten[s][n].out # rewritten[s][k].out
      BY <3>1, <3>2 DEF PointerInv, ResultsKeepSlots, Out
    <3>4. rewritten[s][k].out \in Slots
      BY <3>1, <3>2, SlotsTyped
    <3>5. slots[s][rewritten[s][k].out] = Answer(ops[s][k])
      BY <3>1, <3>2 DEF ResultsInSlots, Out
    <3> QED BY <2>1, <2>2, <3>3, <3>4, <3>5
  <2> QED BY <2>3, <2>4
<1> QED BY <1>1, <1>2, <1>3, <1>4, BatchSteps DEF Stays

LEMMA InputsReadyPreserved ==
  ASSUME NoNamedZeroMalloc, IInv, PointerInv, [Next]_vars
  PROVE  InputsReady'
<1> /\ \A i : InputUid(i)' = InputUid(i) /\ ResultUid(i)' = ResultUid(i)
    /\ \A i : Answer(i)' = Answer(i)
  BY TraceUnchanged, TraceKept, AnswerKept
<1> Sizes /\ InputsReady
  BY DEF IInv, PointerInv
<1> SUFFICES ASSUME NEW s \in Threads, NEW k \in (at'[s] + 1)..Len(rewritten'[s]),
                    InputUid(ops'[s][k]) # NoId
             PROVE  (\E m \in 1..(k - 1) : MadeBy(s, k, m)')
                      \/ \E j \in performed' : TakenFor(s, k, j)'
  BY DEF InputsReady
<1> DEFINE Goal == (\E m \in 1..(k - 1) : MadeBy(s, k, m)')
                     \/ \E j \in performed' : TakenFor(s, k, j)'
           MadeThen(m) ==
             /\ ResultUid(ops'[s][m]) = InputUid(ops'[s][k])
             /\ rewritten'[s][m].out = rewritten'[s][k].in
             /\ \A x \in (m + 1)..(k - 1) : rewritten'[s][x].out # rewritten'[s][k].in
             /\ m <= at'[s] => slots'[s][rewritten'[s][k].in] = Answer(ops'[s][m])
           TakenThen(j) ==
             /\ ResultUid(j) = InputUid(ops'[s][k])
             /\ slots'[s][rewritten'[s][k].in] = Answer(j)
             /\ \A x \in 1..(k - 1) : rewritten'[s][x].out # rewritten'[s][k].in
<1>1. ASSUME NEW m \in 1..(k - 1), MadeThen(m) PROVE Goal
  <2>1. MadeBy(s, k, m)'
    BY <1>1 DEF MadeBy, In, Out
  <2> QED BY <2>1
<1>2. ASSUME NEW j \in performed', TakenThen(j) PROVE Goal
  <2>1. TakenFor(s, k, j)'
    BY <1>2 DEF TakenFor, In, Out
  <2> QED BY <2>1
<1>3. performed \subseteq performed'
  BY PerformedGrows
<1>0. Len(rewritten[s]) \in Nat /\ at[s] \in Nat /\ at[s] <= Len(rewritten[s])
  BY Lengths DEF Sizes, BatchBounds
<1> HIDE DEF Goal
<1>4. ASSUME Fresh(s) PROVE Goal
  BY <1>4 DEF Fresh
<1>5. ASSUME Stays(s), at'[s] = at[s], slots'[s] = slots[s] PROVE Goal
  <2>1. /\ ops'[s] = ops[s] /\ rewritten'[s] = rewritten[s]
        /\ at'[s] = at[s] /\ slots'[s] = slots[s]
    BY <1>5 DEF Stays
  <2>2. CASE \E m \in 1..(k - 1) : MadeBy(s, k, m)
    <3>1. PICK m \in 1..(k - 1) : MadeBy(s, k, m)
      BY <2>2
    <3>2. MadeThen(m)
      BY <2>1, <3>1 DEF MadeBy, In, Out, MadeThen
    <3> QED BY <1>1, <3>2
  <2>3. CASE \E j \in performed : TakenFor(s, k, j)
    <3>1. PICK j \in performed : TakenFor(s, k, j)
      BY <2>3
    <3>2. TakenThen(j)
      BY <2>1, <3>1 DEF TakenFor, In, Out, TakenThen
    <3> QED BY <1>2, <1>3, <3>2
  <2> QED BY <2>1, <2>2, <2>3 DEF InputsReady
<1>6. ASSUME Stays(s), Perform(s) PROVE Goal
  <2>0. PICK n, i : n = at[s] + 1 /\ i = ops[s][n]
    OBVIOUS
  <2>1. ops'[s] = ops[s] /\ rewritten'[s] = rewritten[s]
    BY <1>6 DEF Stays
  <2>2. /\ n \in Made(s) /\ at[s] \in Nat /\ at'[s] = n /\ Len(rewritten[s]) \in Nat
        /\ ResultUid(i) # NoId => slots'[s][rewritten[s][n].out] = Answer(i)
        /\ \A x \in Slots : x # rewritten[s][n].out => slots'[s][x] = slots[s][x]
    BY <1>6, <2>0, PerformSlots
  <2>3. k \in (at[s] + 1)..Len(rewritten[s]) /\ n < k /\ k \in Made(s) /\ n \in Nat
    BY <2>0, <2>1, <2>2 DEF Made
  <2>4. InputUid(ops[s][k]) # NoId /\ rewritten[s][k].in \in Slots
    BY <2>1, <2>3, SlotsTyped
  <2>5. CASE \E m \in 1..(k - 1) : MadeBy(s, k, m)
    <3>1. PICK m \in 1..(k - 1) : MadeBy(s, k, m)
      BY <2>5
    <3>2. ASSUME m <= at'[s] PROVE slots'[s][rewritten[s][k].in] = Answer(ops[s][m])
      <4>1. CASE m = n
        <5>1. ResultUid(i) # NoId /\ rewritten[s][n].out = rewritten[s][k].in
          BY <2>0, <2>4, <3>1, <4>1 DEF MadeBy, In, Out
        <5> QED BY <2>0, <2>2, <4>1, <5>1
      <4>2. CASE m # n
        <5>1. m <= at[s] /\ n \in (m + 1)..(k - 1)
          BY <2>0, <2>2, <2>3, <3>1, <3>2, <4>2
        <5>2. /\ rewritten[s][n].out # rewritten[s][k].in
              /\ slots[s][rewritten[s][k].in] = Answer(ops[s][m])
          BY <3>1, <5>1 DEF MadeBy, In, Out
        <5> QED BY <2>2, <2>4, <5>2
      <4> QED BY <4>1, <4>2
    <3>3. MadeThen(m)
      BY <2>1, <3>1, <3>2 DEF MadeBy, In, Out, MadeThen
    <3> QED BY <1>1, <3>3
  <2>6. CASE \E j \in performed : TakenFor(s, k, j)
    <3>1. PICK j \in performed : TakenFor(s, k, j)
      BY <2>6
    <3>2. n \in 1..(k - 1)
      BY <2>0, <2>2, <2>3
    <3>3. slots'[s][rewritten[s][k].in] = slots[s][rewritten[s][k].in]
      BY <2>2, <2>4, <3>1, <3>2 DEF TakenFor, In, Out
    <3>4. TakenThen(j)
      BY <2>1, <3>1, <3>3 DEF TakenFor, In, Out, TakenThen
    <3> QED BY <1>2, <1>3, <3>4
  <2> QED BY <2>3, <2>4, <2>5, <2>6 DEF InputsReady
<1>7. ASSUME MakeOp(s) PROVE Goal
  <2>0. PICK m, i : m = Len(rewritten[s]) /\ i = ops[s][m + 1]
    OBVIOUS
  <2>1. /\ m \in Nat /\ Len(rewritten'[s]) = m + 1 /\ at[s] = 0
        /\ ops' = ops /\ at' = at /\ i \in Ops
        /\ rewritten'[s][m + 1].in = InputSlot(s, i)
        /\ \A x \in 1..m : rewritten'[s][x] = rewritten[s][x]
    <3>1. m \in Nat /\ Len(rewritten'[s]) = m + 1 /\ at[s] = 0
      BY <1>7, <2>0, MakeOpNext
    <3>2. ops' = ops /\ at' = at
      BY <1>7, <2>0, MakeOpNext
    <3>3. i \in Ops /\ rewritten'[s][m + 1].in = InputSlot(s, i)
      BY <1>7, <2>0, MakeOpNext
    <3>4. \A x \in 1..m : rewritten'[s][x] = rewritten[s][x]
      BY <1>7, <2>0, MakeOpNext
    <3> QED BY <3>1, <3>2, <3>3, <3>4
  <2>2. /\ next_slot[s] \in Nat /\ next_slot[s] \in Slots
        /\ \A x \in Slots \ {next_slot[s]} : slots'[s][x] = slots[s][x]
        /\ IsGlobal(s, i) => slots'[s][next_slot[s]] = id_map[InputUid(i)].ptr
    BY <1>7, <2>0, MakeSlots
  <2>3. \A x \in 1..m : /\ rewritten[s][x].in < next_slot[s] /\ rewritten[s][x].out < next_slot[s]
                        /\ x \in Made(s)
    BY <2>0 DEF PointerInv, SlotsUsed, In, Out, Made
  <2>4. CASE k \in 1..m
    <3>1. InputUid(ops[s][k]) # NoId /\ rewritten[s][k].in \in Slots
      BY <2>1, <2>3, <2>4, SlotsTyped
    <3>2. \A x \in 1..(k - 1) : x \in 1..m
      BY <2>1, <2>4
    <3>3. k \in (at[s] + 1)..Len(rewritten[s]) /\ rewritten'[s][k] = rewritten[s][k]
      BY <2>0, <2>1, <2>4
    <3>4. CASE \E x \in 1..(k - 1) : MadeBy(s, k, x)
      <4>1. PICK x \in 1..(k - 1) : MadeBy(s, k, x)
        BY <3>4
      <4>2. ~(x <= at'[s]) /\ \A y \in (x + 1)..(k - 1) : y \in 1..(k - 1)
        BY <2>1, <2>4
      <4>3. MadeThen(x)
        BY <2>1, <3>2, <3>3, <4>1, <4>2 DEF MadeBy, In, Out, MadeThen
      <4> QED BY <1>1, <4>3
    <3>5. CASE \E j \in performed : TakenFor(s, k, j)
      <4>1. PICK j \in performed : TakenFor(s, k, j)
        BY <3>5
      <4>2. rewritten[s][k].in # next_slot[s]
        BY <2>2, <2>3, <2>4
      <4>3. slots'[s][rewritten[s][k].in] = slots[s][rewritten[s][k].in]
        BY <2>2, <3>1, <4>2
      <4>4. TakenThen(j)
        BY <2>1, <3>2, <3>3, <4>1, <4>3 DEF TakenFor, In, Out, TakenThen
      <4> QED BY <1>2, <1>3, <4>4
    <3> QED BY <3>1, <3>3, <3>4, <3>5 DEF InputsReady
  <2>5. CASE k = m + 1
    <3>0. PICK u \in Uids : u = InputUid(i)
      BY <2>0, <2>1, <2>5, UidsTyped DEF Sizes, TypeOK
    <3>1. \A x \in 1..(k - 1) : x \in 1..m
      BY <2>1, <2>5
    <3>2. ops'[s][k] = i /\ InputUid(ops'[s][k]) = u /\ u # NoId
      BY <2>0, <2>1, <2>5, <3>0
    <3>3. m < Len(ops[s])
      BY <1>7, <2>0, MakeEffect
    <3>4. CASE IsGlobal(s, i)
      <4>1. IsPointer(u)
        BY <2>0, <3>0, <3>3, <3>4, GlobalInputIsPointer
      <4>2. PICK j \in performed : ResultUid(j) = u /\ id_map[u].ptr = Answer(j)
        BY <4>1 DEF PointerInv, PointersTrue
      <4>3. InputSlot(s, i) = next_slot[s]
        BY <2>0, <3>3, <3>4, MakeOpSlots
      <4>4. \A x \in 1..(k - 1) : rewritten'[s][x].out # rewritten'[s][k].in
        <5> SUFFICES ASSUME NEW x \in 1..(k - 1)
                     PROVE  rewritten'[s][x].out # rewritten'[s][k].in
          OBVIOUS
        <5>1. x \in 1..m /\ rewritten'[s][x].out = rewritten[s][x].out
          BY <2>1, <3>1
        <5>2. rewritten[s][x].out < next_slot[s]
          BY <2>3, <5>1
        <5> QED BY <2>1, <2>2, <2>5, <4>3, <5>1, <5>2
      <4>5. TakenThen(j)
        BY <2>1, <2>2, <2>5, <3>0, <3>2, <3>4, <4>2, <4>3, <4>4 DEF TakenThen
      <4> QED BY <1>2, <1>3, <4>5
    <3>5. CASE IsLocal(s, i)
      <4>1. id_to_idx[s][u] # NoSlot /\ InputSlot(s, i) = id_to_idx[s][u]
        BY <3>0, <3>5 DEF IsLocal, InputSlot
      <4>2. PICK x \in Made(s) : /\ ResultUid(ops[s][x]) = u /\ LiveIn(s, x)
                                 /\ rewritten[s][x].out = id_to_idx[s][u]
        BY <4>1 DEF IInv, IdsOfBatch
      <4>3. x \in 1..m /\ x \in 1..(k - 1)
        BY <2>0, <2>1, <2>5, <4>2 DEF Made
      <4>4. \A y \in (x + 1)..(k - 1) :
              /\ rewritten'[s][y].out = rewritten[s][y].out
              /\ rewritten[s][y].out # rewritten[s][x].out
        <5> SUFFICES ASSUME NEW y \in (x + 1)..(k - 1)
                     PROVE  /\ rewritten'[s][y].out = rewritten[s][y].out
                            /\ rewritten[s][y].out # rewritten[s][x].out
          OBVIOUS
        <5>1. y \in 1..m /\ y \in (x + 1)..Len(rewritten[s])
          BY <2>0, <2>1, <2>5, <4>3
        <5> QED BY <2>1, <3>2, <4>2, <5>1 DEF PointerInv, ResultsKeepSlots, Out
      <4>5. ~(x <= at'[s])
        BY <2>1, <4>3
      <4>6. MadeThen(x)
        BY <2>1, <2>5, <3>2, <4>1, <4>2, <4>3, <4>4, <4>5 DEF MadeThen
      <4> QED BY <1>1, <4>3, <4>6
    <3> QED BY <3>0, <3>2, <3>4, <3>5 DEF IsLocal, IsGlobal
  <2> QED BY <2>1, <2>4, <2>5
<1>8. Goal
  BY <1>4, <1>5, <1>6, <1>7, BatchSteps DEF Stays
<1> QED BY <1>8 DEF Goal

(* What a step leaves in the id map: an entry that was a pointer before, or the *)
(* result of a batch that has been performed.                               *)
LEMMA PointerValue ==
  ASSUME IInv, [Next]_vars, NEW u \in Uids, id_map'[u].kind = "pointer"
  PROVE  \/ IsPointer(u) /\ id_map'[u] = id_map[u]
         \/ \E t \in Threads :
              /\ u \in unflushed[t] /\ at[t] = Len(ops[t])
              /\ id_map'[u].ptr = slots[t][id_to_idx[t][u]]
<1> Sizes /\ TypeOK
  BY DEF IInv, Sizes
<1> DEFINE Goal == \/ IsPointer(u) /\ id_map'[u] = id_map[u]
                   \/ \E t \in Threads :
                        /\ u \in unflushed[t] /\ at[t] = Len(ops[t])
                        /\ id_map'[u].ptr = slots[t][id_to_idx[t][u]]
<1>1. ASSUME id_map'[u] = id_map[u] PROVE Goal
  BY <1>1 DEF IsPointer
<1>2. ASSUME ~IsPointer(u) PROVE Goal
  <2>1. PICK t \in Threads :
          /\ FlushOne(t) \/ AssignPointer(t)
          /\ u \in unflushed[t] /\ at[t] = Len(ops[t])
    BY <1>2, PointerRecorded DEF IsPointer
  <2>2. id_map'[u] # id_map[u] /\ id_map \in [Uids -> MapVals]
    BY <1>2 DEF IsPointer, TypeOK
  <2>3. CASE FlushOne(t)
    <3>1. PICK v \in unflushed[t] :
            \/ id_map' = [id_map EXCEPT ![v] = Pointer(slots[t][id_to_idx[t][v]])]
            \/ UNCHANGED id_map
      BY <2>3 DEF FlushOne
    <3>2. v = u /\ id_map'[u] = Pointer(slots[t][id_to_idx[t][u]])
      BY <2>2, <3>1
    <3> QED BY <2>1, <3>2 DEF Pointer
  <2>4. CASE AssignPointer(t)
    <3>0. PICK v : v = pending[t].uid
      OBVIOUS
    <3>1. \/ id_map' = [id_map EXCEPT ![v] = Pointer(slots[t][id_to_idx[t][v]])]
          \/ UNCHANGED id_map
      BY <2>4, <3>0 DEF AssignPointer
    <3>2. v = u /\ id_map'[u] = Pointer(slots[t][id_to_idx[t][u]])
      BY <2>2, <3>1
    <3> QED BY <2>1, <3>2 DEF Pointer
  <2> QED BY <2>1, <2>3, <2>4
<1> HIDE DEF Goal
<1>3. ASSUME IsPointer(u) PROVE Goal
  <2>0. id_map[u] # Empty
    BY <1>3 DEF IsPointer, Empty
  <2>1. ASSUME NEW t \in Threads, ScanLine(t) PROVE id_map'[u] = id_map[u]
    <3>0. PICK i : i = claimed[t].first
      OBVIOUS
    <3>1. \/ id_map' = id_map
          \/ /\ id_map[InputUid(i)] = Empty
             /\ \A v \in Uids \ {InputUid(i)} : id_map'[v] = id_map[v]
      BY <2>1, <3>0, ScanEffect
    <3> QED BY <2>0, <3>1
  <2>2. ASSUME NEW t \in Threads, MakeOp(t) PROVE id_map'[u] = id_map[u]
    <3>0. PICK i : i = ops[t][Len(rewritten[t]) + 1]
      OBVIOUS
    <3>1. CASE IsGlobal(t, i)
      <4>1. /\ id_map'[InputUid(i)] = Empty
            /\ \A v \in Uids \ {InputUid(i)} : id_map'[v] = id_map[v]
        BY <2>2, <3>0, <3>1, InputTaken
      <4>2. u # InputUid(i)
        BY <4>1 DEF Empty
      <4> QED BY <4>1, <4>2
    <3>2. CASE ~IsGlobal(t, i)
      <4>1. id_map' = id_map
        BY <2>2, <3>0, <3>2, NoInputTaken
      <4> QED BY <4>1
    <3> QED BY <3>1, <3>2
  <2>3. ASSUME NEW t \in Threads, FlushOne(t) PROVE id_map'[u] = id_map[u]
    <3>1. PICK v \in unflushed[t] :
            /\ id_map[v] = Empty \/ UNCHANGED id_map
            /\ \A w \in Uids \ {v} : id_map'[w] = id_map[w]
      BY <2>3, FlushEffect
    <3> QED BY <2>0, <3>1
  <2>4. ASSUME NEW t \in Threads, AssignPointer(t) PROVE id_map'[u] = id_map[u]
    <3>0. PICK v : v = pending[t].uid
      OBVIOUS
    <3>1. pc[t] = "assign" /\ \A w \in Uids \ {v} : id_map'[w] = id_map[w]
      BY <2>4, <3>0, AssignEffect
    <3>2. id_map[v].kind = "parked"
      <4>1. id_map[v] = Parked(pending[t].op)
        BY <3>0, <3>1 DEF IInv, PendingIsParked
      <4> QED BY <4>1 DEF Parked
    <3>3. v # u
      BY <1>3, <3>2 DEF IsPointer
    <3> QED BY <3>1, <3>3
  <2>5. ASSUME NEW t \in Threads,
               Loop(t) \/ TakeFromQueue(t) \/ Perform(t) \/ Performed(t) \/ PushPending(t)
        PROVE  id_map' = id_map
    BY <2>5 DEF Loop, TakeFromQueue, Perform, Performed, PushPending, shared
  <2>6. Quiet => id_map' = id_map
    BY DEF Quiet
  <2> QED BY <1>1, <2>1, <2>2, <2>3, <2>4, <2>5, <2>6, StepKinds DEF Handles
<1>4. Goal
  BY <1>2, <1>3
<1> QED BY <1>4 DEF Goal

LEMMA PointersTruePreserved ==
  ASSUME IInv, PointerInv, [Next]_vars
  PROVE  PointersTrue'
<1> /\ \A i : InputUid(i)' = InputUid(i) /\ ResultUid(i)' = ResultUid(i)
    /\ \A i : Answer(i)' = Answer(i)
    /\ Uids' = Uids /\ performed \subseteq performed'
  BY TraceUnchanged, TraceKept, AnswerKept, PerformedGrows
<1> SUFFICES ASSUME NEW u \in Uids, id_map'[u].kind = "pointer"
             PROVE  \E j \in performed' : ResultUid(j) = u /\ id_map'[u].ptr = Answer(j)
  BY DEF PointersTrue, IsPointer
<1>1. CASE IsPointer(u) /\ id_map'[u] = id_map[u]
  BY <1>1 DEF PointerInv, PointersTrue
<1>2. ASSUME NEW t \in Threads, u \in unflushed[t], at[t] = Len(ops[t]),
             id_map'[u].ptr = slots[t][id_to_idx[t][u]]
      PROVE  \E j \in performed' : ResultUid(j) = u /\ id_map'[u].ptr = Answer(j)
  <2>1. id_to_idx[t][u] # NoSlot
    BY <1>2, UnflushedHeld
  <2>2. PICK k \in Made(t) : /\ ResultUid(ops[t][k]) = u /\ LiveIn(t, k)
                             /\ rewritten[t][k].out = id_to_idx[t][u]
    BY <2>1 DEF IInv, IdsOfBatch
  <2>3. k \in 1..at[t] /\ u # NoId
    BY <1>2, <2>2, MadeIsBatched, NoIdNotUid DEF Batched, IInv
  <2>4. slots[t][rewritten[t][k].out] = Answer(ops[t][k])
    BY <2>2, <2>3 DEF PointerInv, ResultsInSlots, Out
  <2>5. ops[t][k] \in performed'
    BY <2>3 DEF IInv, PerformedPrefix
  <2> QED BY <1>2, <2>2, <2>4, <2>5
<1> QED BY <1>1, <1>2, PointerValue

(* The producer of an operation's input, if it has one.                     *)
LEMMA OneProducer ==
  ASSUME tracefile \in Traces, NEW i \in Ops
  PROVE  /\ InputUid(i) = NoId => Producers(i) = {}
         /\ \A j \in Producers(i) : /\ j \in Ops /\ j < i /\ ResultUid(j) = InputUid(i)
                                    /\ InputUid(i) # NoId /\ Producers(i) = {j}
         /\ InputUid(i) # NoId => \E j \in Ops : Producers(i) = {j}
<1>1. InputUid(i) = NoId => Producers(i) = {}
  BY DEF Producers
<1>2. ASSUME NEW j \in Producers(i)
      PROVE  /\ j \in Ops /\ j < i /\ ResultUid(j) = InputUid(i) /\ InputUid(i) # NoId
             /\ Producers(i) = {j}
  <2>1. j \in Ops /\ ResultUid(j) = InputUid(i) /\ InputUid(i) # NoId
    BY <1>2 DEF Producers
  <2>2. \A h \in Ops : ResultUid(h) = InputUid(i) => h = j
    BY <2>1, ResultsDistinct
  <2>3. j < i
    BY <2>1, <2>2, ProducedEarlier
  <2>4. Producers(i) = {j}
    BY <1>2, <2>2 DEF Producers
  <2> QED BY <2>1, <2>3, <2>4
<1>3. ASSUME InputUid(i) # NoId PROVE \E j \in Ops : Producers(i) = {j}
  <2>1. PICK j \in Ops : ResultUid(j) = InputUid(i)
    BY <1>3, ProducedEarlier
  <2>2. j \in Producers(i)
    BY <1>3, <2>1 DEF Producers
  <2> QED BY <1>2, <2>2
<1> QED BY <1>1, <1>2, <1>3

LEMMA InputPointerRight ==
  ASSUME IInv, PointerInv, NEW t \in Threads, pc[t] = "run", at[t] < Len(ops[t]),
         NEW n, n = at[t] + 1, NEW i, i = ops[t][n]
  PROVE  /\ i \in Ops /\ i \notin performed
         /\ InputUid(i) = NoId => InputPointer(t) = Null
         /\ \A j \in Producers(i) : InputPointer(t) = Answer(j) /\ j \in performed
<1> Sizes /\ TypeOK
  BY DEF IInv, Sizes
<1>1. at[t] \in Nat /\ Len(ops[t]) \in Nat /\ Len(rewritten[t]) = Len(ops[t])
  BY Lengths DEF Sizes, BatchBounds, Acting, Performing
<1>2. /\ n \in Made(t) /\ n \in 1..Len(ops[t]) /\ n \in (at[t] + 1)..Len(ops[t])
      /\ n \in (at[t] + 1)..Len(rewritten[t])
  BY <1>1 DEF Made
<1>3. i \in Ops
  BY <1>2, Lengths
<1>4. i \notin performed
  <2>1. Place("batch", t, n, i)
    BY <1>2 DEF Place
  <2> QED BY <1>3, <2>1, NotPerformed
<1>5. ASSUME InputUid(i) = NoId PROVE InputPointer(t) = Null
  <2>1. rewritten[t][n].in = NoSlot
    BY <1>2, <1>5 DEF PointerInv, SlotsUsed, In
  <2> QED BY <2>1 DEF InputPointer
<1>6. ASSUME NEW j \in Producers(i) PROVE InputPointer(t) = Answer(j) /\ j \in performed
  <2>1. j \in Ops /\ ResultUid(j) = InputUid(i) /\ InputUid(i) # NoId
    BY <1>3, <1>6, OneProducer DEF TypeOK
  <2>2. InputPointer(t) = slots[t][rewritten[t][n].in]
    <3>1. rewritten[t][n].in # NoSlot
      BY <1>2, <2>1 DEF PointerInv, SlotsUsed, In
    <3> QED BY <3>1 DEF InputPointer
  <2>3. \/ \E m \in 1..(n - 1) : MadeBy(t, n, m)
        \/ \E h \in performed : TakenFor(t, n, h)
    BY <1>2, <2>1 DEF PointerInv, InputsReady
  <2>4. CASE \E m \in 1..(n - 1) : MadeBy(t, n, m)
    <3>1. PICK m \in 1..(n - 1) : MadeBy(t, n, m)
      BY <2>4
    <3>2. m \in 1..at[t] /\ m \in 1..Len(ops[t]) /\ m <= at[t]
      BY <1>1, <3>1
    <3>3. /\ ResultUid(ops[t][m]) = InputUid(i)
          /\ slots[t][rewritten[t][n].in] = Answer(ops[t][m])
      BY <3>1, <3>2 DEF MadeBy, In
    <3>4. ops[t][m] \in Ops /\ ops[t][m] \in performed
      BY <3>2, Lengths DEF IInv, PerformedPrefix
    <3>5. ops[t][m] = j
      BY <2>1, <3>3, <3>4, ResultsDistinct DEF TypeOK
    <3> QED BY <2>2, <3>3, <3>4, <3>5
  <2>5. CASE \E h \in performed : TakenFor(t, n, h)
    <3>1. PICK h \in performed : TakenFor(t, n, h)
      BY <2>5
    <3>2. h \in Ops /\ ResultUid(h) = InputUid(i) /\ slots[t][rewritten[t][n].in] = Answer(h)
      BY <3>1 DEF TakenFor, In, TypeOK
    <3>3. h = j
      BY <2>1, <3>2, ResultsDistinct DEF TypeOK
    <3> QED BY <2>2, <3>1, <3>2, <3>3
  <2> QED BY <2>3, <2>4, <2>5
<1> QED BY <1>3, <1>4, <1>5, <1>6

(* A performed operation gives back the pointer its input's producer got,   *)
(* and gets one of its own.                                                 *)
LEMMA LiveAfterPerform ==
  ASSUME NoNamedZeroMalloc, IInv, PointerInv, NEW t \in Threads, Perform(t),
         NEW n, n = at[t] + 1, NEW i, i = ops[t][n]
  PROVE  live' = (live \ Producers(i)) \cup (IF Allocates(i) THEN {i} ELSE {})
<1> Sizes /\ TypeOK
  BY DEF IInv, Sizes
<1>1. pc[t] = "run" /\ at[t] < Len(ops[t]) /\ i \in Ops
  BY PerformEffect
<1>2. live' = (live \ {InputPointer(t)}) \cup ({Answer(i)} \ {Null})
  BY PerformSlots
<1>3. /\ InputUid(i) = NoId => InputPointer(t) = Null
      /\ \A j \in Producers(i) : InputPointer(t) = Answer(j) /\ j \in performed
  BY <1>1, InputPointerRight
<1>4. \A j \in Ops : j # Null
  <2>1. Ops \subseteq Nat
    BY Lengths
  <2> QED BY <2>1, BatchAssumption
<1>5. {Answer(i)} \ {Null} = IF Allocates(i) THEN {i} ELSE {}
  BY <1>1, <1>4 DEF Answer
<1>6. Null \notin live
  BY <1>4 DEF TypeOK
<1>7. live \ {InputPointer(t)} = live \ Producers(i)
  <2>1. CASE InputUid(i) = NoId
    BY <1>1, <1>3, <1>6, <2>1, OneProducer DEF TypeOK
  <2>2. CASE InputUid(i) # NoId
    <3>1. PICK j \in Ops : Producers(i) = {j}
      BY <1>1, <2>2, OneProducer DEF TypeOK
    <3>2. InputPointer(t) = Answer(j)
      BY <1>3, <3>1
    <3>3. ~Allocates(j) => j \notin live
      BY DEF PointerInv, LiveIsUnconsumed
    <3> QED BY <1>6, <3>1, <3>2, <3>3 DEF Answer
  <2> QED BY <2>1, <2>2
<1> QED BY <1>2, <1>5, <1>7

LEMMA LiveIsUnconsumedPreserved ==
  ASSUME NoNamedZeroMalloc, IInv, PointerInv, [Next]_vars
  PROVE  LiveIsUnconsumed'
<1> Sizes /\ TypeOK /\ LiveIsUnconsumed
  BY DEF IInv, Sizes, PointerInv
<1>1. /\ \A i : Allocates(i)' = Allocates(i)
      /\ \A i : Producers(i)' = Producers(i)
  BY TraceUnchanged, TraceKept
<1>2. CASE UNCHANGED <<performed, live>>
  BY <1>1, <1>2 DEF LiveIsUnconsumed
<1>3. ASSUME NEW t \in Threads, Perform(t) PROVE LiveIsUnconsumed'
  <2>0. PICK n, i : n = at[t] + 1 /\ i = ops[t][n]
    OBVIOUS
  <2>1. live' = (live \ Producers(i)) \cup (IF Allocates(i) THEN {i} ELSE {})
    BY <1>3, <2>0, LiveAfterPerform
  <2>2. i \in Ops /\ i \notin performed /\ performed' = performed \cup {i}
    BY <1>3, <2>0, PerformSlots
  <2>3. i \notin Producers(i)
    <3>1. i \in Nat
      BY <2>2, Lengths
    <3> QED BY <2>2, <3>1, OneProducer DEF TypeOK
  <2>4. \A c \in performed : i \notin Producers(c)
    <3> SUFFICES ASSUME NEW c \in performed, i \in Producers(c) PROVE FALSE
      OBVIOUS
    <3>1. InputUid(c) # NoId /\ ResultUid(i) = InputUid(c)
      BY DEF Producers
    <3>2. PICK j \in performed : ResultUid(j) = InputUid(c)
      BY <3>1 DEF IInv, InputsMade
    <3>3. j = i
      BY <2>2, <3>1, <3>2, ResultsDistinct DEF TypeOK
    <3> QED BY <2>2, <3>2, <3>3
  <2>5. live = {j \in performed : Allocates(j) /\ \A c \in performed : j \notin Producers(c)}
    BY DEF LiveIsUnconsumed
  <2>6. live' = {j \in performed' : Allocates(j) /\ \A c \in performed' : j \notin Producers(c)}
    BY <2>1, <2>2, <2>3, <2>4, <2>5
  <2> QED BY <1>1, <2>6 DEF LiveIsUnconsumed
<1> QED BY <1>2, <1>3, PerformedGrows

LEMMA PointerInvInitial ==
  ASSUME Init
  PROVE  PointerInv
<1>1. IInv
  BY InitialState
<1>2. \A S : <<>> \in Seq(S) /\ Len(<<>>) = 0
  BY NoElements
<1>3. \A t \in Threads : /\ Made(t) = {} /\ Len(rewritten[t]) = 0 /\ at[t] = 0
                         /\ \A u \in Uids : id_to_idx[t][u] = NoSlot
  BY <1>2 DEF Init, Made
<1>4. \A u \in Uids : ~IsPointer(u)
  BY DEF Init, IsPointer, Empty
<1>5. performed = {} /\ live = {}
  BY DEF Init
<1>6. \A t \in Threads : 1..at[t] = {} /\ (at[t] + 1)..Len(rewritten[t]) = {}
  BY <1>3
<1> QED
  BY <1>3, <1>4, <1>5, <1>6
     DEF PointerInv, SlotsUsed, IdsApart, ResultsKeepSlots, ResultsInSlots, InputsReady,
         PointersTrue, LiveIsUnconsumed

LEMMA PointerInvPreserved ==
  ASSUME NoNamedZeroMalloc, IInv, PointerInv, [Next]_vars
  PROVE  PointerInv'
<1>1. SlotsUsed' /\ IdsApart' /\ ResultsKeepSlots'
  BY SlotsUsedPreserved, IdsApartPreserved, ResultsKeepSlotsPreserved
<1>2. ResultsInSlots' /\ InputsReady'
  BY ResultsInSlotsPreserved, InputsReadyPreserved
<1>3. PointersTrue' /\ LiveIsUnconsumed'
  BY PointersTruePreserved, LiveIsUnconsumedPreserved
<1> QED BY <1>1, <1>2, <1>3 DEF PointerInv

LEMMA PointerInvariant ==
  ASSUME NoNamedZeroMalloc
  PROVE  Spec => []PointerInv
<1>1. Init => PointerInv
  BY PointerInvInitial
<1>2. IInv /\ PointerInv /\ [Next]_vars => PointerInv'
  BY PointerInvPreserved
<1> QED BY <1>1, <1>2, ReplayInvariant, PTL DEF Spec

(* ProcessLine always passes the allocator the pointer it returned for the  *)
(* operation that produced the input, and the allocator has not had it back *)
(* since: through slots reused within a batch, through the id map and the   *)
(* queue, in whatever order the workers flush and look up.                  *)
THEOREM PointersReachTheirCallers ==
  ASSUME NoNamedZeroMalloc
  PROVE  Spec => []CallersPassTheirPointers
<1>1. ASSUME IInv, PointerInv PROVE CallersPassTheirPointers
  <2> SUFFICES ASSUME NEW t \in Threads, pc[t] = "run", at[t] < Len(ops[t]),
                      NEW j \in Producers(ops[t][at[t] + 1])
               PROVE  IF Allocates(j) THEN InputPointer(t) = j /\ j \in live
                      ELSE InputPointer(t) = Null
    BY DEF CallersPassTheirPointers
  <2>0. PICK n, i : n = at[t] + 1 /\ i = ops[t][n]
    OBVIOUS
  <2>1. i \in Ops /\ i \notin performed /\ InputPointer(t) = Answer(j) /\ j \in performed
    BY <1>1, <2>0, InputPointerRight
  <2>2. \A c \in performed : j \notin Producers(c)
    <3> SUFFICES ASSUME NEW c \in performed, j \in Producers(c) PROVE FALSE
      OBVIOUS
    <3>1. /\ InputUid(c) # NoId /\ InputUid(c) = ResultUid(j)
          /\ InputUid(i) = ResultUid(j) /\ c \in Ops
      BY <1>1, <2>0 DEF Producers, IInv, Sizes, TypeOK
    <3>2. c = i
      BY <1>1, <2>1, <3>1, InputsDistinct DEF IInv, Sizes, TypeOK
    <3> QED BY <2>1, <3>2
  <2>3. Allocates(j) => j \in live
    BY <1>1, <2>1, <2>2 DEF PointerInv, LiveIsUnconsumed
  <2> QED BY <2>1, <2>3 DEF Answer
<1> QED BY <1>1, ReplayInvariant, PointerInvariant, PTL

(* How a replay ends: the parts of EndInv            *)
(* are preserved.                                                           *)
LEMMA DoneMeansFailedPreserved ==
  ASSUME IInv, EndInv, [Next]_vars
  PROVE  DoneMeansFailed'
<1> Ops' = Ops /\ Uids' = Uids /\ NumOps' = NumOps
  BY TraceUnchanged, TraceKept
<1> USE DEF EndInv, IInv, Sizes
<1>1. ASSUME NEW t \in Threads, Loop(t) PROVE DoneMeansFailed'
  BY <1>1 DEF TypeOK, DoneMeansFailed, Loop, Goto, shared, history
<1>2. ASSUME NEW t \in Threads, TakeFromQueue(t) PROVE DoneMeansFailed'
  BY <1>2 DEF TypeOK, DoneMeansFailed, TakeFromQueue, Goto, history
<1>3. ASSUME NEW t \in Threads, Claim(t) PROVE DoneMeansFailed'
  BY <1>3 DEF TypeOK, DoneMeansFailed, Claim, Goto, history
<1>4. ASSUME NEW t \in Threads, Clamp(t) PROVE DoneMeansFailed'
  BY <1>4 DEF TypeOK, DoneMeansFailed, Clamp, Goto, locals, history
<1>5. ASSUME NEW t \in Threads, ScanLine(t) PROVE DoneMeansFailed'
  BY <1>5 DEF TypeOK, DoneMeansFailed, ScanLine, Goto, history
<1>6. ASSUME NEW t \in Threads, MakeOp(t) PROVE DoneMeansFailed'
  BY <1>6 DEF TypeOK, DoneMeansFailed, MakeOp, Goto, history
<1>7. ASSUME NEW t \in Threads, BatchMade(t) PROVE DoneMeansFailed'
  BY <1>7 DEF TypeOK, DoneMeansFailed, BatchMade, Goto, shared, locals, history
<1>8. ASSUME NEW t \in Threads, ArriveAndWait(t) PROVE DoneMeansFailed'
  <2>1. \A u \in Threads : pc'[u] = pc[u] \/ Released(pc[u], pc'[u])
    BY <1>8, ArrivalMoves
  <2> QED BY <1>8, <2>1 DEF TypeOK, DoneMeansFailed, ArriveAndWait, Released, locals, history
<1>9. ASSUME NEW t \in Threads, ArriveAndDrop(t) PROVE DoneMeansFailed'
  <2>1. /\ pc[t] = "leave" /\ pc'[t] = "exited" /\ members' = members \ {t}
        /\ \A u \in Threads \ {t} :
             pc'[u] = pc[u] \/ (pc[u] = "barrier1" /\ pc'[u] = "barrier2")
    BY <1>9, DropMoves
  <2>2. UNCHANGED <<done, status, returned>>
    BY <1>9 DEF ArriveAndDrop
  <2>3. ASSUME done PROVE \E u \in members' : pc'[u] \in {"report", "exited"}
    <3>1. PICK u \in members : pc[u] \in {"report", "exited"}
      BY <2>3 DEF DoneMeansFailed
    <3>2. u \in Threads /\ u # t
      BY <2>1, <3>1 DEF TypeOK
    <3> QED BY <2>1, <3>1, <3>2
  <2>4. ~returned
    BY <2>1 DEF DoneMeansFailed
  <2>5. \A u \in members' : u \in Threads \ {t} /\ u \in members
    BY <2>1 DEF TypeOK
  <2> QED BY <2>1, <2>2, <2>3, <2>4, <2>5 DEF DoneMeansFailed
<1>10. ASSUME NEW t \in Threads, Perform(t) PROVE DoneMeansFailed'
  BY <1>10 DEF TypeOK, DoneMeansFailed, Perform, shared
<1>11. ASSUME NEW t \in Threads, Performed(t) PROVE DoneMeansFailed'
  BY <1>11 DEF TypeOK, DoneMeansFailed, Performed, Goto, shared, history
<1>12. ASSUME NEW t \in Threads, AllocatorError(t) PROVE DoneMeansFailed'
  BY <1>12 DEF TypeOK, DoneMeansFailed, AllocatorError, Goto, shared, locals, history
<1>13. ASSUME NEW t \in Threads, FlushOne(t) PROVE DoneMeansFailed'
  BY <1>13 DEF TypeOK, DoneMeansFailed, FlushOne, Goto, history
<1>14. ASSUME NEW t \in Threads, AssignPointer(t) PROVE DoneMeansFailed'
  BY <1>14 DEF TypeOK, DoneMeansFailed, AssignPointer, Goto, locals, history
<1>15. ASSUME NEW t \in Threads, PushPending(t) PROVE DoneMeansFailed'
  BY <1>15 DEF TypeOK, DoneMeansFailed, PushPending, Goto, history
<1>16. ASSUME NEW t \in Threads, Flushed(t) PROVE DoneMeansFailed'
  BY <1>16 DEF TypeOK, DoneMeansFailed, Flushed, Goto, shared, locals, history
<1>17. ASSUME NEW t \in Threads, StoreDone(t) PROVE DoneMeansFailed'
  <2>1. t \in members
    BY <1>17 DEF Lockstep, StoreDone
  <2> QED BY <1>17, <2>1 DEF TypeOK, DoneMeansFailed, StoreDone, Goto, locals, history
<1>18. ASSUME NEW t \in Threads, ReportStatus(t) PROVE DoneMeansFailed'
  BY <1>18 DEF TypeOK, DoneMeansFailed, ReportStatus, Goto, locals, history
<1>19. ASSUME Join \/ UNCHANGED vars PROVE DoneMeansFailed'
  BY <1>19 DEF TypeOK, DoneMeansFailed, Join, vars, shared, locals, history
<1> QED BY <1>1, <1>2, <1>3, <1>4, <1>5, <1>6, <1>7, <1>8, <1>9, <1>10, <1>11, <1>12, <1>13, <1>14,
       <1>15, <1>16, <1>17, <1>18, <1>19 DEF Next, Worker, Prepare, Flush, Returned

LEMMA LeftMeansExhaustedPreserved ==
  ASSUME IInv, EndInv, [Next]_vars
  PROVE  LeftMeansExhausted'
<1> Ops' = Ops /\ Uids' = Uids /\ NumOps' = NumOps
  BY TraceUnchanged, TraceKept
<1> USE DEF EndInv, IInv, Sizes
<1>1. ASSUME NEW t \in Threads, Loop(t) PROVE LeftMeansExhausted'
  BY <1>1 DEF TypeOK, LeftMeansExhausted, Loop, Goto, shared, history
<1>2. ASSUME NEW t \in Threads, TakeFromQueue(t) PROVE LeftMeansExhausted'
  BY <1>2 DEF TypeOK, LeftMeansExhausted, TakeFromQueue, Goto, history
<1>3. ASSUME NEW t \in Threads, Claim(t) PROVE LeftMeansExhausted'
  <2>1. /\ NumOps \in Nat /\ idx \in Nat /\ Len(ops[t]) \in Nat /\ BatchSize \in Nat
        /\ Len(ops[t]) <= BatchSize
    BY Lengths, BatchAssumption DEF BatchBounds
  <2>2. /\ idx' = idx + (BatchSize - Len(ops[t]))
        /\ pc[t] = "claim" /\ (Goto(t, "clamp") \/ Goto(t, "scan"))
        /\ UNCHANGED <<done, members, ops>>
    BY <1>3 DEF Claim
  <2>3. idx' \in Nat /\ idx <= idx'
    BY <2>1, <2>2
  <2>4. \A s \in Threads : \/ pc'[s] = pc[s] /\ s # t
                           \/ s = t /\ pc'[s] \notin {"leave", "make"} /\ s \in members
    BY <2>2 DEF TypeOK, Goto, Lockstep
  <2>5. NumOps <= idx => NumOps <= idx'
    BY <2>1, <2>3
  <2> QED BY <2>2, <2>4, <2>5 DEF LeftMeansExhausted
<1>4. ASSUME NEW t \in Threads, Clamp(t) PROVE LeftMeansExhausted'
  BY <1>4, NumOpsNat DEF TypeOK, LeftMeansExhausted, Clamp, Goto, locals, history
<1>5. ASSUME NEW t \in Threads, ScanLine(t) PROVE LeftMeansExhausted'
  <2>1. /\ Len(ops'[t]) < BatchSize \/ pc' = [pc EXCEPT ![t] = "scan"]
             \/ pc' = [pc EXCEPT ![t] = "make"]
        /\ Len(ops'[t]) < BatchSize => pc' = [pc EXCEPT ![t] = "scan"]
                                       \/ pc' = [pc EXCEPT ![t] = "claim"]
        /\ pc[t] = "scan" /\ \A s \in Threads \ {t} : ops'[s] = ops[s]
        /\ UNCHANGED <<done, idx, members>>
    BY <1>5 DEF TypeOK, ScanLine, Goto
  <2>2. BatchSize \in Nat \ {0} /\ (ops'[t] = <<>> => Len(ops'[t]) = 0)
    BY BatchAssumption, NoElements
  <2>3. pc'[t] = "scan" \/ pc'[t] = "claim" \/ (pc'[t] = "make" /\ ops'[t] # <<>>)
    BY <2>1, <2>2 DEF TypeOK
  <2>4. \A s \in Threads \ {t} : pc'[s] = pc[s]
    BY <2>1 DEF TypeOK
  <2>5. t \in members
    BY <2>1 DEF Lockstep
  <2> QED BY <2>1, <2>3, <2>4, <2>5 DEF LeftMeansExhausted
<1>6. ASSUME NEW t \in Threads, MakeOp(t) PROVE LeftMeansExhausted'
  BY <1>6 DEF TypeOK, LeftMeansExhausted, MakeOp, Goto, history
<1>7. ASSUME NEW t \in Threads, BatchMade(t) PROVE LeftMeansExhausted'
  BY <1>7 DEF TypeOK, LeftMeansExhausted, BatchMade, Goto, shared, locals, history
<1>8. ASSUME NEW t \in Threads, ArriveAndWait(t) PROVE LeftMeansExhausted'
  <2>1. \A u \in Threads : pc'[u] = pc[u] \/ Released(pc[u], pc'[u])
    BY <1>8, ArrivalMoves
  <2> QED BY <1>8, <2>1 DEF TypeOK, LeftMeansExhausted, ArriveAndWait, Released, locals, history
<1>9. ASSUME NEW t \in Threads, ArriveAndDrop(t) PROVE LeftMeansExhausted'
  BY <1>9, DropMoves DEF TypeOK, LeftMeansExhausted, ArriveAndDrop, locals, history
<1>10. ASSUME NEW t \in Threads, Perform(t) PROVE LeftMeansExhausted'
  BY <1>10 DEF TypeOK, LeftMeansExhausted, Perform, shared
<1>11. ASSUME NEW t \in Threads, Performed(t) PROVE LeftMeansExhausted'
  BY <1>11 DEF TypeOK, LeftMeansExhausted, Performed, Goto, shared, history
<1>12. ASSUME NEW t \in Threads, AllocatorError(t) PROVE LeftMeansExhausted'
  BY <1>12 DEF TypeOK, LeftMeansExhausted, AllocatorError, Goto, shared, locals, history
<1>13. ASSUME NEW t \in Threads, FlushOne(t) PROVE LeftMeansExhausted'
  BY <1>13 DEF TypeOK, LeftMeansExhausted, FlushOne, Goto, history
<1>14. ASSUME NEW t \in Threads, AssignPointer(t) PROVE LeftMeansExhausted'
  BY <1>14 DEF TypeOK, LeftMeansExhausted, AssignPointer, Goto, locals, history
<1>15. ASSUME NEW t \in Threads, PushPending(t) PROVE LeftMeansExhausted'
  BY <1>15 DEF TypeOK, LeftMeansExhausted, PushPending, Goto, history
<1>16. ASSUME NEW t \in Threads, Flushed(t) PROVE LeftMeansExhausted'
  BY <1>16 DEF TypeOK, LeftMeansExhausted, Flushed, Goto, shared, locals, history
<1>17. ASSUME NEW t \in Threads, StoreDone(t) PROVE LeftMeansExhausted'
  BY <1>17 DEF TypeOK, LeftMeansExhausted, StoreDone, Goto, locals, history
<1>18. ASSUME NEW t \in Threads, ReportStatus(t) PROVE LeftMeansExhausted'
  BY <1>18 DEF TypeOK, LeftMeansExhausted, ReportStatus, Goto, locals, history
<1>19. ASSUME Join \/ UNCHANGED vars PROVE LeftMeansExhausted'
  BY <1>19 DEF TypeOK, LeftMeansExhausted, Join, vars, shared, locals, history
<1> QED BY <1>1, <1>2, <1>3, <1>4, <1>5, <1>6, <1>7, <1>8, <1>9, <1>10, <1>11, <1>12, <1>13, <1>14,
       <1>15, <1>16, <1>17, <1>18, <1>19 DEF Next, Worker, Prepare, Flush, Returned

LEMMA NonEmptyRunsPreserved ==
  ASSUME IInv, EndInv, [Next]_vars
  PROVE  NonEmptyRuns'
<1> Ops' = Ops /\ Uids' = Uids /\ NumOps' = NumOps
  BY TraceUnchanged, TraceKept
<1> USE DEF EndInv, IInv, Sizes, Ready, Acting, Performing
<1>1. ASSUME NEW t \in Threads, Loop(t) PROVE NonEmptyRuns'
  BY <1>1 DEF TypeOK, NonEmptyRuns, Loop, Goto, shared, history
<1>2. ASSUME NEW t \in Threads, TakeFromQueue(t) PROVE NonEmptyRuns'
  BY <1>2 DEF TypeOK, NonEmptyRuns, TakeFromQueue, Goto, history
<1>3. ASSUME NEW t \in Threads, Claim(t) PROVE NonEmptyRuns'
  BY <1>3 DEF TypeOK, NonEmptyRuns, Claim, Goto, history
<1>4. ASSUME NEW t \in Threads, Clamp(t) PROVE NonEmptyRuns'
  BY <1>4 DEF TypeOK, NonEmptyRuns, Clamp, Goto, locals, history
<1>5. ASSUME NEW t \in Threads, ScanLine(t) PROVE NonEmptyRuns'
  BY <1>5 DEF TypeOK, NonEmptyRuns, ScanLine, Goto, history
<1>6. ASSUME NEW t \in Threads, MakeOp(t) PROVE NonEmptyRuns'
  BY <1>6 DEF TypeOK, NonEmptyRuns, MakeOp, Goto, history
<1>7. ASSUME NEW t \in Threads, BatchMade(t) PROVE NonEmptyRuns'
  BY <1>7 DEF TypeOK, NonEmptyRuns, BatchMade, Goto, shared, locals, history
<1>8. ASSUME NEW t \in Threads, ArriveAndWait(t) PROVE NonEmptyRuns'
  <2>1. \A u \in Threads : pc'[u] = pc[u] \/ Released(pc[u], pc'[u])
    BY <1>8, ArrivalMoves
  <2> QED BY <1>8, <2>1 DEF TypeOK, NonEmptyRuns, ArriveAndWait, Released, locals, history
<1>9. ASSUME NEW t \in Threads, ArriveAndDrop(t) PROVE NonEmptyRuns'
  BY <1>9, DropMoves DEF TypeOK, NonEmptyRuns, ArriveAndDrop, locals, history
<1>10. ASSUME NEW t \in Threads, Perform(t) PROVE NonEmptyRuns'
  BY <1>10 DEF TypeOK, NonEmptyRuns, Perform, shared
<1>11. ASSUME NEW t \in Threads, Performed(t) PROVE NonEmptyRuns'
  BY <1>11 DEF TypeOK, NonEmptyRuns, Performed, Goto, shared, history
<1>12. ASSUME NEW t \in Threads, AllocatorError(t) PROVE NonEmptyRuns'
  BY <1>12 DEF TypeOK, NonEmptyRuns, AllocatorError, Goto, shared, locals, history
<1>13. ASSUME NEW t \in Threads, FlushOne(t) PROVE NonEmptyRuns'
  BY <1>13 DEF TypeOK, NonEmptyRuns, FlushOne, Goto, history
<1>14. ASSUME NEW t \in Threads, AssignPointer(t) PROVE NonEmptyRuns'
  BY <1>14 DEF TypeOK, NonEmptyRuns, AssignPointer, Goto, locals, history
<1>15. ASSUME NEW t \in Threads, PushPending(t) PROVE NonEmptyRuns'
  BY <1>15 DEF TypeOK, NonEmptyRuns, PushPending, Goto, history
<1>16. ASSUME NEW t \in Threads, Flushed(t) PROVE NonEmptyRuns'
  BY <1>16 DEF TypeOK, NonEmptyRuns, Flushed, Goto, shared, locals, history
<1>17. ASSUME NEW t \in Threads, StoreDone(t) PROVE NonEmptyRuns'
  BY <1>17 DEF TypeOK, NonEmptyRuns, StoreDone, Goto, locals, history
<1>18. ASSUME NEW t \in Threads, ReportStatus(t) PROVE NonEmptyRuns'
  BY <1>18 DEF TypeOK, NonEmptyRuns, ReportStatus, Goto, locals, history
<1>19. ASSUME Join \/ UNCHANGED vars PROVE NonEmptyRuns'
  BY <1>19 DEF TypeOK, NonEmptyRuns, Join, vars, shared, locals, history
<1> QED BY <1>1, <1>2, <1>3, <1>4, <1>5, <1>6, <1>7, <1>8, <1>9, <1>10, <1>11, <1>12, <1>13, <1>14,
       <1>15, <1>16, <1>17, <1>18, <1>19 DEF Next, Worker, Prepare, Flush, Returned

(* What is queued keeps a worker that will take it.                       *)
LEMMA QueueHasTakerPreserved ==
  ASSUME IInv, EndInv, [Next]_vars
  PROVE  QueueHasTaker'
<1> Ops' = Ops /\ Uids' = Uids /\ NumOps' = NumOps
  BY TraceUnchanged, TraceKept
<1> USE DEF EndInv, IInv, Sizes
<1>1. ASSUME NEW t \in Threads, Loop(t) PROVE QueueHasTaker'
  BY <1>1 DEF TypeOK, QueueHasTaker, Loop, Goto, shared, history, WillTake
<1>2. ASSUME NEW t \in Threads, TakeFromQueue(t) PROVE QueueHasTaker'
  <2> DEFINE n == IF Len(queued_ops) < MaxQueuedOpsTaken THEN Len(queued_ops)
                  ELSE MaxQueuedOpsTaken
  <2>1. /\ queued_ops \in Seq(Ops) /\ n \in 0..Len(queued_ops) /\ Len(queued_ops) \in Nat
        /\ n = 0 => Len(queued_ops) = 0
    <3>1. queued_ops \in Seq(Ops)
      BY DEF TypeOK
    <3>2. Len(queued_ops) \in Nat
      BY Lengths
    <3>3. MaxQueuedOpsTaken \in Nat \ {0}
      BY BatchAssumption
    <3> QED BY <3>1, <3>2, <3>3
  <2>2. /\ ops' = [ops EXCEPT ![t] = SubSeq(queued_ops, 1, n)]
        /\ queued_ops' = SubSeq(queued_ops, n + 1, Len(queued_ops))
        /\ UNCHANGED members /\ pc[t] = "take"
    BY <1>2 DEF TakeFromQueue, AfterTaking
  <2> HIDE DEF n
  <2>3. SUFFICES ASSUME queued_ops' # <<>>
        PROVE  WillTake(t)'
    BY DEF QueueHasTaker
  <2>4. n # 0
    <3> SUFFICES ASSUME n = 0 PROVE FALSE
      OBVIOUS
    <3>1. Len(queued_ops') = 0 /\ queued_ops' \in Seq(Ops)
      BY <2>1, <2>2, SubSeqLength, SubSeqTyped
    <3> QED BY <2>3, <3>1, EmptySeq
  <2>5. Len(ops'[t]) = n
    <3>1. ops'[t] = SubSeq(queued_ops, 1, n)
      BY <2>2 DEF TypeOK
    <3> QED BY <2>1, <3>1, SubSeqLength
  <2>6. ops'[t] # <<>> /\ t \in members
    BY <2>2, <2>4, <2>5, NoElements DEF Lockstep
  <2> QED BY <2>2, <2>6 DEF WillTake
<1>3. ASSUME NEW t \in Threads, Claim(t) PROVE QueueHasTaker'
  BY <1>3 DEF TypeOK, QueueHasTaker, Claim, Goto, history, WillTake
<1>4. ASSUME NEW t \in Threads, Clamp(t) PROVE QueueHasTaker'
  BY <1>4 DEF TypeOK, QueueHasTaker, Clamp, Goto, locals, history, WillTake
<1>5. ASSUME NEW t \in Threads, ScanLine(t) PROVE QueueHasTaker'
  <2>0. PICK i : i = claimed[t].first
    OBVIOUS
  <2>1. /\ UNCHANGED <<queued_ops, members>> /\ pc[t] = "scan"
        /\ ops'[t] = ops[t] \/ Len(ops'[t]) = Len(ops[t]) + 1
        /\ \A s \in Threads \ {t} : pc'[s] = pc[s] /\ ops'[s] = ops[s]
    BY <1>5, <2>0, ScanEffect
  <2>2. UNCHANGED done
    BY <1>5 DEF ScanLine
  <2>3. ops[t] # <<>> => ops'[t] # <<>>
    BY <2>1, Lengths, NoElements
  <2>4. \A s \in Threads : WillTake(s) => WillTake(s)'
    BY <2>1, <2>3 DEF WillTake
  <2> QED BY <2>1, <2>2, <2>4 DEF QueueHasTaker
<1>6. ASSUME NEW t \in Threads, MakeOp(t) PROVE QueueHasTaker'
  BY <1>6 DEF TypeOK, QueueHasTaker, MakeOp, Goto, history, WillTake
<1>7. ASSUME NEW t \in Threads, BatchMade(t) PROVE QueueHasTaker'
  BY <1>7 DEF TypeOK, QueueHasTaker, BatchMade, Goto, shared, locals, history, WillTake
<1>8. ASSUME NEW t \in Threads, ArriveAndWait(t) PROVE QueueHasTaker'
  <2>1. \A u \in Threads : pc'[u] = pc[u] \/ Released(pc[u], pc'[u])
    BY <1>8, ArrivalMoves
  <2> QED BY <1>8, <2>1 DEF TypeOK, QueueHasTaker, ArriveAndWait, Released, locals, history,
      WillTake
<1>9. ASSUME NEW t \in Threads, ArriveAndDrop(t) PROVE QueueHasTaker'
  <2>1. /\ pc[t] = "leave" /\ members' = members \ {t}
        /\ \A u \in Threads \ {t} :
             pc'[u] = pc[u] \/ (pc[u] = "barrier1" /\ pc'[u] = "barrier2")
    BY <1>9, DropMoves
  <2>2. UNCHANGED <<done, queued_ops, ops>>
    BY <1>9 DEF ArriveAndDrop, locals
  <2>3. ops[t] = <<>>
    BY <2>1 DEF BatchBounds
  <2>4. \A s \in Threads : WillTake(s) => s # t /\ WillTake(s)'
    BY <2>1, <2>2, <2>3 DEF WillTake
  <2> QED BY <2>2, <2>4 DEF QueueHasTaker
<1>10. ASSUME NEW t \in Threads, Perform(t) PROVE QueueHasTaker'
  BY <1>10 DEF TypeOK, QueueHasTaker, Perform, shared, WillTake
<1>11. ASSUME NEW t \in Threads, Performed(t) PROVE QueueHasTaker'
  BY <1>11 DEF TypeOK, QueueHasTaker, Performed, Goto, shared, history, WillTake
<1>12. ASSUME NEW t \in Threads, AllocatorError(t) PROVE QueueHasTaker'
  BY <1>12 DEF TypeOK, QueueHasTaker, AllocatorError, Goto, shared, locals, history, WillTake
<1>13. ASSUME NEW t \in Threads, FlushOne(t) PROVE QueueHasTaker'
  BY <1>13 DEF TypeOK, QueueHasTaker, FlushOne, Goto, history, WillTake
<1>14. ASSUME NEW t \in Threads, AssignPointer(t) PROVE QueueHasTaker'
  BY <1>14 DEF TypeOK, QueueHasTaker, AssignPointer, Goto, locals, history, WillTake
<1>15. ASSUME NEW t \in Threads, PushPending(t) PROVE QueueHasTaker'
  <2>1. pc[t] = "push" /\ UNCHANGED <<members, ops>>
    BY <1>15 DEF PushPending
  <2>2. t \in members /\ ops[t] # <<>>
    BY <2>1 DEF Lockstep, NonEmptyRuns, Acting, Performing
  <2> QED BY <2>1, <2>2 DEF QueueHasTaker, WillTake
<1>16. ASSUME NEW t \in Threads, Flushed(t) PROVE QueueHasTaker'
  BY <1>16 DEF TypeOK, QueueHasTaker, Flushed, Goto, shared, locals, history, WillTake
<1>17. ASSUME NEW t \in Threads, StoreDone(t) PROVE QueueHasTaker'
  BY <1>17 DEF TypeOK, QueueHasTaker, StoreDone, Goto, locals, history, WillTake
<1>18. ASSUME NEW t \in Threads, ReportStatus(t) PROVE QueueHasTaker'
  BY <1>18 DEF TypeOK, QueueHasTaker, ReportStatus, Goto, locals, history, WillTake
<1>19. ASSUME Join \/ UNCHANGED vars PROVE QueueHasTaker'
  BY <1>19 DEF TypeOK, QueueHasTaker, Join, vars, shared, locals, history, WillTake
<1> QED BY <1>1, <1>2, <1>3, <1>4, <1>5, <1>6, <1>7, <1>8, <1>9, <1>10, <1>11, <1>12, <1>13, <1>14,
       <1>15, <1>16, <1>17, <1>18, <1>19 DEF Next, Worker, Prepare, Flush, Returned

(* A worker keeps its results until it has recorded them.                   *)
LEMMA KeepsStep ==
  ASSUME IInv, [Next]_vars, NEW s \in Threads, NEW u \in Uids, Keeps(s, u)
  PROVE  Keeps(s, u)' \/ IsPointer(u)'
<1> Ops' = Ops /\ Uids' = Uids /\ NumOps' = NumOps
  BY TraceUnchanged, TraceKept
<1> USE DEF IInv, Sizes, Failed
<1>1. ASSUME NEW t \in Threads, Loop(t) PROVE Keeps(s, u)' \/ IsPointer(u)'
  BY <1>1 DEF TypeOK, Keeps, FlushBounds, Loop, Goto, shared, history
<1>2. ASSUME NEW t \in Threads, TakeFromQueue(t) PROVE Keeps(s, u)' \/ IsPointer(u)'
  BY <1>2 DEF TypeOK, Keeps, FlushBounds, TakeFromQueue, Goto, history
<1>3. ASSUME NEW t \in Threads, Claim(t) PROVE Keeps(s, u)' \/ IsPointer(u)'
  BY <1>3 DEF TypeOK, Keeps, FlushBounds, Claim, Goto, history
<1>4. ASSUME NEW t \in Threads, Clamp(t) PROVE Keeps(s, u)' \/ IsPointer(u)'
  BY <1>4 DEF TypeOK, Keeps, FlushBounds, Clamp, Goto, locals, history
<1>5. ASSUME NEW t \in Threads, ScanLine(t) PROVE Keeps(s, u)' \/ IsPointer(u)'
  BY <1>5 DEF TypeOK, Keeps, FlushBounds, ScanLine, Goto, history
<1>6. ASSUME NEW t \in Threads, MakeOp(t) PROVE Keeps(s, u)' \/ IsPointer(u)'
  <2>1. pc[t] = "make" /\ UNCHANGED unflushed
    BY <1>6 DEF MakeOp
  <2>2. s # t
    BY <2>1 DEF Keeps, FlushBounds
  <2>3. pc'[s] = pc[s] /\ id_to_idx'[s] = id_to_idx[s]
    BY <1>6, <2>2 DEF MakeOp, Goto, TypeOK
  <2> QED BY <2>1, <2>3 DEF Keeps
<1>7. ASSUME NEW t \in Threads, BatchMade(t) PROVE Keeps(s, u)' \/ IsPointer(u)'
  BY <1>7 DEF TypeOK, Keeps, FlushBounds, BatchMade, Goto, shared, locals, history
<1>8. ASSUME NEW t \in Threads, ArriveAndWait(t) PROVE Keeps(s, u)' \/ IsPointer(u)'
  <2>1. \A r \in Threads : pc'[r] = pc[r] \/ Released(pc[r], pc'[r])
    BY <1>8, ArrivalMoves
  <2>2. UNCHANGED <<id_to_idx, unflushed>>
    BY <1>8 DEF ArriveAndWait, locals
  <2> QED BY <2>1, <2>2 DEF Keeps, Released, FlushBounds
<1>9. ASSUME NEW t \in Threads, ArriveAndDrop(t) PROVE Keeps(s, u)' \/ IsPointer(u)'
  BY <1>9, DropMoves DEF TypeOK, Keeps, FlushBounds, ArriveAndDrop, locals, history
<1>10. ASSUME NEW t \in Threads, Perform(t) PROVE Keeps(s, u)' \/ IsPointer(u)'
  BY <1>10 DEF TypeOK, Keeps, FlushBounds, Perform, shared
<1>11. ASSUME NEW t \in Threads, Performed(t) PROVE Keeps(s, u)' \/ IsPointer(u)'
  <2>1. /\ UNCHANGED id_to_idx /\ Goto(t, "flush") /\ pc[t] = "run"
        /\ unflushed' = [unflushed EXCEPT ![t] = {w \in Uids : id_to_idx[t][w] # NoSlot}]
    BY <1>11 DEF Performed
  <2>2. CASE s = t
    BY <2>1, <2>2 DEF Keeps, TypeOK
  <2>3. CASE s # t
    BY <2>1, <2>3 DEF Keeps, Goto, TypeOK
  <2> QED BY <2>2, <2>3
<1>12. ASSUME NEW t \in Threads, AllocatorError(t) PROVE Keeps(s, u)' \/ IsPointer(u)'
  BY <1>12 DEF TypeOK, Keeps, FlushBounds, AllocatorError, Goto, shared, locals, history
<1>13. ASSUME NEW t \in Threads, FlushOne(t) PROVE Keeps(s, u)' \/ IsPointer(u)'
  <2>1. PICK v \in unflushed[t] :
          /\ pc[t] = "flush"
          /\ \/ IsPointer(v)' /\ unflushed'[t] = unflushed[t] \ {v} /\ UNCHANGED pc
             \/ pc'[t] = "assign" /\ UNCHANGED unflushed
          /\ \A r \in Threads \ {t} : pc'[r] = pc[r] /\ unflushed'[r] = unflushed[r]
          /\ UNCHANGED id_to_idx
    BY <1>13, FlushEffect
  <2>2. CASE s = t /\ v = u
    BY <2>1, <2>2 DEF Keeps
  <2>3. CASE s # t \/ v # u
    BY <2>1, <2>3 DEF Keeps
  <2> QED BY <2>2, <2>3
<1>14. ASSUME NEW t \in Threads, AssignPointer(t) PROVE Keeps(s, u)' \/ IsPointer(u)'
  BY <1>14 DEF TypeOK, Keeps, FlushBounds, AssignPointer, Goto, locals, history
<1>15. ASSUME NEW t \in Threads, PushPending(t) PROVE Keeps(s, u)' \/ IsPointer(u)'
  <2>1. /\ pc[t] = "push" /\ UNCHANGED <<id_to_idx, id_map>>
        /\ unflushed' = [unflushed EXCEPT ![t] = @ \ {pending[t].uid}]
        /\ Goto(t, "flush")
    BY <1>15 DEF PushPending
  <2>2. IsPointer(pending[t].uid)
    BY <2>1 DEF PendingIsParked
  <2>3. CASE s = t /\ u = pending[t].uid
    BY <2>1, <2>2, <2>3 DEF IsPointer
  <2>4. CASE s # t \/ u # pending[t].uid
    BY <2>1, <2>4 DEF Keeps, Goto, TypeOK
  <2> QED BY <2>3, <2>4
<1>16. ASSUME NEW t \in Threads, Flushed(t) PROVE Keeps(s, u)' \/ IsPointer(u)'
  BY <1>16 DEF TypeOK, Keeps, FlushBounds, Flushed, Goto, shared, locals, history
<1>17. ASSUME NEW t \in Threads, StoreDone(t) PROVE Keeps(s, u)' \/ IsPointer(u)'
  BY <1>17 DEF TypeOK, Keeps, FlushBounds, StoreDone, Goto, locals, history
<1>18. ASSUME NEW t \in Threads, ReportStatus(t) PROVE Keeps(s, u)' \/ IsPointer(u)'
  BY <1>18 DEF TypeOK, Keeps, FlushBounds, ReportStatus, Goto, locals, history
<1>19. ASSUME Join \/ UNCHANGED vars PROVE Keeps(s, u)' \/ IsPointer(u)'
  BY <1>19 DEF TypeOK, Keeps, FlushBounds, Join, vars, shared, locals, history
<1> QED BY <1>1, <1>2, <1>3, <1>4, <1>5, <1>6, <1>7, <1>8, <1>9, <1>10, <1>11, <1>12, <1>13, <1>14,
       <1>15, <1>16, <1>17, <1>18, <1>19 DEF Next, Worker, Prepare, Flush, Returned

(* A consumed id stays consumed: a batch that is given up for the next has  *)
(* been performed.                                                          *)
LEMMA ConsumedStays ==
  ASSUME IInv, [Next]_vars, NEW u \in Uids, ~Unconsumed(u)
  PROVE  ~Unconsumed(u)'
<1> \A i : InputUid(i)' = InputUid(i)
  BY TraceUnchanged, TraceKept
<1>1. performed \subseteq performed'
  BY PerformedGrows
<1>2. CASE \E c \in performed : InputUid(c) = u
  BY <1>1, <1>2 DEF Unconsumed
<1>3. CASE \E s \in Threads : \E k \in Made(s) : InputUid(ops[s][k]) = u
  <2>0. PICK s \in Threads : \E k \in Made(s) : InputUid(ops[s][k]) = u
    BY <1>3
  <2>1. PICK k \in Made(s) : InputUid(ops[s][k]) = u
    BY <2>0
  <2>2. k \in 1..Len(rewritten[s]) /\ Len(rewritten[s]) \in Nat /\ at[s] \in Nat
    BY Lengths DEF Made, IInv
  <2>3. CASE Fresh(s)
    <3>1. k \in 1..at[s]
      BY <2>2, <2>3 DEF Fresh
    <3>2. ops[s][k] \in performed
      BY <3>1 DEF IInv, PerformedPrefix
    <3> QED BY <1>1, <2>1, <3>2 DEF Unconsumed
  <2>4. CASE MakeOp(s)
    <3>0. PICK m, i : m = Len(rewritten[s]) /\ i = ops[s][m + 1]
      OBVIOUS
    <3>1. Len(rewritten'[s]) = m + 1 /\ m \in Nat /\ UNCHANGED ops
      BY <2>4, <3>0, MakeOpNext
    <3>2. k \in 1..Len(rewritten'[s]) /\ InputUid(ops'[s][k]) = u
      BY <2>1, <2>2, <3>0, <3>1
    <3> QED BY <3>2 DEF Unconsumed, Made
  <2>5. CASE Stays(s)
    <3>1. k \in 1..Len(rewritten'[s]) /\ InputUid(ops'[s][k]) = u
      BY <2>1, <2>2, <2>5 DEF Stays
    <3> QED BY <3>1 DEF Unconsumed, Made
  <2> QED BY <2>3, <2>4, <2>5, BatchSteps
<1> QED BY <1>2, <1>3 DEF Unconsumed

(* The result of an operation just performed is the worker's to record, or  *)
(* a later operation of the batch consumes it.                              *)
LEMMA NewResultReachable ==
  ASSUME IInv, [Next]_vars, NEW t \in Threads, Perform(t),
         NEW k, k = at[t] + 1, NEW u \in Uids, u = ResultUid(ops[t][k])
  PROVE  ~Unconsumed(u)' \/ Keeps(t, u)'
<1> Sizes /\ TypeOK
  BY DEF IInv, Sizes
<1> \A i : InputUid(i)' = InputUid(i)
  BY TraceUnchanged, TraceKept
<1>1. /\ pc[t] = "run" /\ at[t] < Len(ops[t])
      /\ UNCHANGED <<pc, ops, rewritten, id_to_idx>>
  BY DEF Perform
<1>2. Len(rewritten[t]) = Len(ops[t]) /\ Len(ops[t]) \in Nat /\ at[t] \in Nat
  BY <1>1, Lengths DEF Sizes, BatchBounds, Acting, Performing
<1>3. k \in Made(t) /\ k \in Nat
  BY <1>1, <1>2 DEF Made
<1>4. u # NoId
  BY NoIdNotUid
<1>5. CASE LiveIn(t, k)
  <2>1. id_to_idx[t][u] # NoSlot
    BY <1>3, <1>4, <1>5 DEF IInv, IdsOfBatch
  <2> QED BY <1>1, <2>1 DEF Keeps
<1>6. CASE ~LiveIn(t, k)
  <2>1. PICK m \in (k + 1)..Len(rewritten[t]) : InputUid(ops[t][m]) = u
    BY <1>6 DEF LiveIn
  <2>2. m \in 1..Len(rewritten'[t]) /\ InputUid(ops'[t][m]) = u
    BY <1>1, <1>2, <1>3, <2>1
  <2> QED BY <2>2 DEF Unconsumed, Made
<1> QED BY <1>5, <1>6

LEMMA ResultsReachablePreserved ==
  ASSUME IInv, EndInv, [Next]_vars
  PROVE  ResultsReachable'
<1> Sizes /\ TypeOK
  BY DEF IInv, Sizes
<1> /\ Ops' = Ops /\ Uids' = Uids
    /\ \A i : InputUid(i)' = InputUid(i) /\ ResultUid(i)' = ResultUid(i)
  BY TraceUnchanged, TraceKept
<1> SUFFICES ASSUME NEW j \in performed', NEW u, u = ResultUid(j), u # NoId
             PROVE  IsPointer(u)' \/ ~Unconsumed(u)' \/ \E s \in Threads : Keeps(s, u)'
  BY DEF ResultsReachable
<1>1. performed' \subseteq Ops
  BY TypePreserved DEF TypeOK
<1>2. u \in Uids
  BY <1>1, UidsTyped DEF TypeOK
<1>3. CASE j \notin performed
  <2>1. PICK t \in Threads : Perform(t)
    BY <1>3, PerformedGrows
  <2>2. PICK k, i : k = at[t] + 1 /\ i = ops[t][k]
    OBVIOUS
  <2>3. i = j
    BY <1>3, <2>1, <2>2, PerformEffect
  <2> QED BY <1>2, <2>1, <2>2, <2>3, NewResultReachable
<1>4. CASE j \in performed
  <2>1. IsPointer(u) \/ ~Unconsumed(u) \/ \E s \in Threads : Keeps(s, u)
    BY <1>4 DEF EndInv, ResultsReachable
  <2>2. CASE IsPointer(u)
    <3>1. CASE IsPointer(u)'
      BY <3>1
    <3>2. ASSUME NEW t \in Threads, MakeOp(t), u = InputUid(ops[t][Len(rewritten[t]) + 1])
          PROVE  ~Unconsumed(u)'
      <4>0. PICK m, i : m = Len(rewritten[t]) /\ i = ops[t][m + 1]
        OBVIOUS
      <4>1. Len(rewritten'[t]) = m + 1 /\ m \in Nat /\ UNCHANGED ops
        BY <3>2, <4>0, MakeOpNext
      <4>2. m + 1 \in 1..Len(rewritten'[t]) /\ InputUid(ops'[t][m + 1]) = u
        BY <3>2, <4>0, <4>1
      <4> QED BY <4>2 DEF Unconsumed, Made
    <3> QED BY <1>2, <2>2, <3>1, <3>2, PointersStay
  <2>3. CASE ~Unconsumed(u)
    BY <1>2, <2>3, ConsumedStays
  <2>4. ASSUME NEW s \in Threads, Keeps(s, u)
        PROVE  Keeps(s, u)' \/ IsPointer(u)'
    BY <1>2, <2>4, KeepsStep
  <2> QED BY <2>1, <2>2, <2>3, <2>4
<1> QED BY <1>3, <1>4

LEMMA EndInvInitial ==
  ASSUME Init
  PROVE  EndInv
<1>1. Threads # {}
  BY BatchAssumption
<1>2. DoneMeansFailed /\ LeftMeansExhausted /\ NonEmptyRuns
  BY DEF Init, DoneMeansFailed, LeftMeansExhausted, NonEmptyRuns, Ready, Acting, Performing
<1>3. QueueHasTaker /\ ResultsReachable
  BY DEF Init, QueueHasTaker, ResultsReachable
<1> QED BY <1>2, <1>3 DEF EndInv

LEMMA EndInvariant == Spec => []EndInv
<1>1. Init => EndInv
  BY EndInvInitial
<1>2. IInv /\ EndInv /\ [Next]_vars => EndInv'
  BY DoneMeansFailedPreserved, LeftMeansExhaustedPreserved, NonEmptyRunsPreserved,
     QueueHasTakerPreserved, ResultsReachablePreserved DEF EndInv
<1> QED BY <1>1, <1>2, ReplayInvariant, PTL DEF Spec

(* When every worker has ended and none has failed, all has been performed:  *)
(* the least operation that had not would be parked for a result that has   *)
(* been produced and is not recorded, held by a worker or consumed.         *)
LEMMA AllPerformed ==
  ASSUME IInv, EndInv, \A t \in Threads : pc[t] = "exited", status = "ok"
  PROVE  performed = Ops /\ queued_ops = <<>>
<1> Sizes /\ TypeOK
  BY DEF IInv, Sizes
<1>1. members = {}
  <2>1. \A t \in members : t \in Threads /\ pc[t] = "exited"
    BY DEF TypeOK
  <2> QED BY <2>1 DEF EndInv, DoneMeansFailed
<1>2. ~done
  BY <1>1 DEF EndInv, DoneMeansFailed
<1>3. NumOps <= idx
  <2>1. PICK t \in Threads : TRUE
    BY BatchAssumption
  <2> QED BY <1>1, <1>2, <2>1 DEF EndInv, LeftMeansExhausted
<1>4. queued_ops = <<>>
  BY <1>1, <1>2 DEF EndInv, QueueHasTaker, WillTake
<1>5. \A t \in Threads : /\ Len(ops[t]) = 0 /\ Len(rewritten[t]) = 0
                         /\ claimed[t].end <= claimed[t].first
  <2> SUFFICES ASSUME NEW t \in Threads
               PROVE  /\ Len(ops[t]) = 0 /\ Len(rewritten[t]) = 0
                      /\ claimed[t].end <= claimed[t].first
    OBVIOUS
  <2>1. Len(ops[t]) = 0
    BY <1>1, NoElements DEF Sizes, BatchBounds
  <2>2. Len(rewritten[t]) = 0
    BY <2>1, Lengths DEF Sizes, BatchBounds
  <2>3. claimed[t].end <= claimed[t].first
    BY DEF Sizes, ClaimedBounds
  <2> QED BY <2>1, <2>2, <2>3
<1>6. \A t \in Threads : \A u \in Uids : ~Keeps(t, u)
  BY <1>5, NothingMade DEF Keeps
<1>7. Ops \ performed \in SUBSET Nat
  BY Lengths
<1>8. ASSUME NEW i \in Ops \ performed, \A r \in Ops \ performed : i <= r
      PROVE  FALSE
  <2>1. PICK kind, a, b : Place(kind, a, b, i)
    BY DEF IInv, OnePlace, OnlyAt
  <2>2. i \in Nat /\ i < NumOps /\ idx \in Nat /\ NumOps \in Nat
    BY Lengths
  <2>3. kind # "unclaimed"
    BY <1>3, <2>1, <2>2 DEF Place
  <2>4. kind # "claimed"
    <3>1. \A t \in Threads : ~(claimed[t].first <= i /\ i < claimed[t].end)
      BY <1>5, <2>2, Lengths
    <3> QED BY <2>1, <3>1 DEF Place
  <2>5. kind # "batch"
    <3>1. \A t \in Threads : (at[t] + 1)..Len(ops[t]) = {}
      BY <1>5, Lengths
    <3> QED BY <2>1, <3>1 DEF Place
  <2>6. kind # "queued"
    <3>1. 1..Len(queued_ops) = {}
      BY <1>4, NoElements
    <3> QED BY <2>1, <3>1 DEF Place
  <2>7. a \in Uids /\ id_map[a] = Parked(i)
    BY <2>1, <2>3, <2>4, <2>5, <2>6 DEF Place
  <2>8. InputUid(i) = a /\ a # NoId
    BY <2>7, NoIdNotUid DEF IInv, ParkedUnderInput
  <2>9. PICK j \in Ops : j < i /\ ResultUid(j) = a
    BY <2>8, ProducedEarlier DEF TypeOK
  <2>10. j \in performed
    <3>1. j \in Nat /\ ~(i <= j)
      BY <2>2, <2>9, Lengths
    <3> QED BY <1>8, <2>9, <3>1
  <2>11. ~IsPointer(a)
    BY <2>7 DEF IsPointer, Parked
  <2>12. Unconsumed(a)
    <3>1. \A c \in performed : c \in Ops /\ c # i
      BY DEF TypeOK
    <3>2. \A c \in performed : InputUid(c) # a
      BY <2>8, <3>1, InputsDistinct DEF TypeOK
    <3>3. \A t \in Threads : Made(t) = {}
      BY <1>5 DEF Made
    <3> QED BY <3>2, <3>3 DEF Unconsumed
  <2> QED
    BY <1>6, <2>7, <2>8, <2>9, <2>10, <2>11, <2>12 DEF EndInv, ResultsReachable
<1>9. Ops \ performed = {}
  BY <1>7, <1>8, LeastNumber
<1> QED BY <1>4, <1>9 DEF TypeOK

(* ProcessTracefile that returns without an error has performed the whole   *)
(* trace: no operation is left parked in the id map or in queued_ops_ by a  *)
(* worker that dropped out of the barrier, and the allocator has back all   *)
(* but the results the trace itself drops.                                  *)
THEOREM NothingIsLeft ==
  ASSUME NoNamedZeroMalloc
  PROVE  Spec => []NothingLeftBehind
<1>1. ASSUME IInv, PointerInv, EndInv PROVE NothingLeftBehind
  <2> Sizes /\ TypeOK
    BY <1>1 DEF IInv, Sizes
  <2> SUFFICES ASSUME returned, status = "ok"
               PROVE  /\ performed = Ops
                      /\ queued_ops = <<>>
                      /\ \A u \in Uids : id_map[u] = Empty
                      /\ live = {i \in Ops : Allocates(i) /\ ResultUid(i) = NoId}
    BY DEF NothingLeftBehind
  <2>1. performed = Ops /\ queued_ops = <<>>
    BY <1>1, AllPerformed DEF EndInv, DoneMeansFailed
  <2>2. ASSUME NEW u \in Uids, IsPointer(u) PROVE FALSE
    <3>1. PICK j \in performed : ResultUid(j) = u
      BY <1>1, <2>2 DEF IInv, PointersRecorded
    <3>2. PICK i \in Ops : InputUid(i) = u
      BY <2>1, <3>1, NoIdNotUid, ConsumedLater DEF TypeOK
    <3>3. Unconsumed(u)
      BY <1>1, <2>2 DEF IInv, PointersRecorded
    <3> QED BY <2>1, <3>2, <3>3 DEF Unconsumed
  <2>3. ASSUME NEW u \in Uids, NEW i \in Ops, id_map[u] = Parked(i) PROVE FALSE
    <3>1. Place("parked", u, 0, i)
      BY <2>3 DEF Place
    <3>2. i \notin performed
      BY <1>1, <3>1, NotPerformed
    <3> QED BY <2>1, <3>2
  <2>4. \A u \in Uids : id_map[u] = Empty
    <3> SUFFICES ASSUME NEW u \in Uids PROVE id_map[u] = Empty
      OBVIOUS
    <3>1. \/ id_map[u] = Empty
          \/ \E p \in Pointers : id_map[u] = Pointer(p)
          \/ \E i \in Ops : id_map[u] = Parked(i)
      <4>1. id_map[u] \in MapVals
        BY DEF TypeOK
      <4> QED BY <4>1 DEF MapVals
    <3>2. \A p : id_map[u] = Pointer(p) => IsPointer(u)
      BY DEF Pointer, IsPointer
    <3> QED BY <2>2, <2>3, <3>1, <3>2
  <2>5. live = {j \in Ops : Allocates(j) /\ \A c \in Ops : j \notin Producers(c)}
    BY <1>1, <2>1 DEF PointerInv, LiveIsUnconsumed
  <2>6. ASSUME NEW j \in Ops
        PROVE  (\A c \in Ops : j \notin Producers(c)) <=> ResultUid(j) = NoId
    <3>1. ASSUME ResultUid(j) # NoId PROVE \E c \in Ops : j \in Producers(c)
      <4>1. PICK c \in Ops : InputUid(c) = ResultUid(j)
        BY <3>1, ConsumedLater DEF TypeOK
      <4> QED BY <3>1, <4>1 DEF Producers
    <3>2. ASSUME ResultUid(j) = NoId, NEW c \in Ops PROVE j \notin Producers(c)
      BY <3>2 DEF Producers
    <3> QED BY <3>1, <3>2
  <2> QED BY <2>1, <2>4, <2>5, <2>6
<1> QED BY <1>1, ReplayInvariant, PointerInvariant, EndInvariant, PTL

-----------------------------------------------------------------------------
(* The replay implements TraceReplay, step by step.                         *)
LEMMA OpsAgree ==
  /\ Replay!Ops = Ops
  /\ \A i : Replay!Producers(i) = Producers(i) /\ (Replay!Allocates(i) <=> Allocates(i))
<1>1. Replay!Ops = Ops
  BY DEF Replay!Ops, Replay!NumOps, Ops, NumOps
<1>2. \A i : Replay!LineOf(i) = LineOf(i)
  BY DEF Replay!LineOf, LineOf
<1>3. \A id, i : Replay!UidOf(id, i) = UidOf(id, i)
  BY DEF Replay!UidOf, Replay!IterationOf, Replay!UniqueId, UidOf, IterationOf, UniqueId
<1>4. \A i : Replay!InputUid(i) = InputUid(i) /\ Replay!ResultUid(i) = ResultUid(i)
  BY <1>2, <1>3 DEF Replay!InputUid, Replay!ResultUid, InputUid, ResultUid
<1>5. \A i : Replay!Producers(i) = Producers(i)
  BY <1>1, <1>4 DEF Replay!Producers, Producers
<1>6. \A i : Replay!Allocates(i) <=> Allocates(i)
  BY <1>2 DEF Replay!Allocates, Allocates
<1> QED BY <1>1, <1>5, <1>6

LEMMA PerformImplements ==
  ASSUME NoNamedZeroMalloc, IInv, PointerInv, NEW t \in Threads, Perform(t)
  PROVE  \E i \in Ops : Replay!Perform(i)
<1>0. PICK n, i : n = at[t] + 1 /\ i = ops[t][n]
  OBVIOUS
<1>1. /\ pc[t] = "run" /\ at[t] < Len(ops[t])
      /\ performed' = performed \cup {i}
      /\ UNCHANGED <<tracefile, status, returned>>
  BY <1>0 DEF Perform, shared
<1>2. /\ i \in Ops /\ i \notin performed
      /\ \A j \in Producers(i) : j \in performed
  BY <1>0, <1>1, InputPointerRight
<1>3. live' = (live \ Producers(i)) \cup (IF Allocates(i) THEN {i} ELSE {})
  BY <1>0, LiveAfterPerform
<1> QED BY <1>1, <1>2, <1>3, OpsAgree DEF Replay!Perform

LEMMA JoinImplements ==
  ASSUME IInv, EndInv, Join
  PROVE  Replay!Return
<1>1. \A t \in Threads : pc[t] = "exited"
  BY DEF Join
<1>2. status = "ok" \/ status = "error"
  BY DEF IInv, Sizes, TypeOK
<1>3. performed = Ops \/ status = "error"
  BY <1>1, <1>2, AllPerformed
<1> QED BY <1>3, OpsAgree DEF Join, history, Replay!Return

LEMMA StepImplements ==
  ASSUME NoNamedZeroMalloc, IInv, PointerInv, EndInv, [Next]_vars
  PROVE  [Replay!Next]_(Replay!absvars)
<1> USE DEF Replay!absvars
<1>1. ASSUME NEW t \in Threads, Prepare(t) PROVE UNCHANGED Replay!absvars
  BY <1>1 DEF Prepare, Loop, TakeFromQueue, Claim, Clamp, ScanLine, MakeOp, BatchMade, shared,
              history
<1>2. ASSUME NEW t \in Threads, ArriveAndWait(t) \/ ArriveAndDrop(t)
      PROVE  UNCHANGED Replay!absvars
  BY <1>2 DEF ArriveAndWait, ArriveAndDrop, history
<1>3. ASSUME NEW t \in Threads, Perform(t) PROVE Replay!Next
  BY <1>3, PerformImplements, OpsAgree DEF Replay!Next
<1>4. ASSUME NEW t \in Threads, AllocatorError(t) \/ Performed(t)
      PROVE  UNCHANGED Replay!absvars
  BY <1>4 DEF AllocatorError, Performed, shared, history
<1>5. ASSUME NEW t \in Threads, Flush(t) PROVE UNCHANGED Replay!absvars
  BY <1>5 DEF Flush, FlushOne, AssignPointer, PushPending, Flushed, shared, history
<1>6. ASSUME NEW t \in Threads, StoreDone(t) PROVE UNCHANGED Replay!absvars
  BY <1>6 DEF StoreDone, history
<1>7. ASSUME NEW t \in Threads, ReportStatus(t) PROVE Replay!Next
  <2>1. Replay!Fail
    BY <1>7 DEF ReportStatus, history, Replay!Fail
  <2> QED BY <2>1 DEF Replay!Next
<1>8. ASSUME Join PROVE Replay!Next
  BY <1>8, JoinImplements DEF Replay!Next
<1>9. ASSUME UNCHANGED vars PROVE UNCHANGED Replay!absvars
  BY <1>9 DEF vars, shared, history
<1> QED
  BY <1>1, <1>2, <1>3, <1>4, <1>5, <1>6, <1>7, <1>8, <1>9 DEF Next, Worker, Returned

(* TracefileExecutor keeps TraceReplay's promise with any number of         *)
(* threads: each operation is performed once, after its input's producer    *)
(* and on that producer's pointer, and ProcessTracefile returns without an  *)
(* error only when all have been.                                           *)
THEOREM ReplayImplementsTraceReplay ==
  ASSUME NoNamedZeroMalloc
  PROVE  Spec => ReplayKept
<1>1. Init => Replay!Init
  BY DEF Init, Replay!Init
<1>2. IInv /\ PointerInv /\ EndInv /\ [Next]_vars => [Replay!Next]_(Replay!absvars)
  BY StepImplements
<1> QED
  BY <1>1, <1>2, ReplayInvariant, PointerInvariant, EndInvariant, PTL
     DEF Spec, ReplayKept, Replay!Spec
=============================================================================
