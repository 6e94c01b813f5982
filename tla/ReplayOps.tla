----------------------------- MODULE ReplayOps ------------------------------
(***************************************************************************)
(* The operations of a replay: what the workers of TracefileExecutor share *)
(* out among themselves.  A tracefile is replayed Repetitions times, so    *)
(* the operations are the lines of all its repetitions, numbered from 0.   *)
(***************************************************************************)
EXTENDS TraceLines, FiniteSets

CONSTANTS
  Traces,        (* Tracefiles, already rewritten to unique ids.           *)
  Repetitions    (* num_repetitions.                                       *)

ASSUME ReplayAssumption ==
  /\ Repetitions \in Nat \ {0}
  /\ \A tr \in Traces :
       /\ tr \in Seq(Lines(Nat)) /\ tr # <<>>
       /\ UniqueTrace(tr)
       /\ \A i \in DOMAIN tr : WellShaped(tr[i]) /\ tr[i].op # "unset"

VARIABLE tracefile

(***************************************************************************)
(* Operation i is line i % lines_size of repetition i / lines_size.  A     *)
(* pointer is named by the operation that was given it: an address that is *)
(* reused after a free is another pointer.                                 *)
(***************************************************************************)
NumOps == Repetitions * Len(tracefile)
Ops == 0..(NumOps - 1)
LineOf(i) == tracefile[(i % Len(tracefile)) + 1]
IterationOf(i) == i \div Len(tracefile)

UidOf(id, i) == IF id = NoId THEN NoId ELSE UniqueId(id, IterationOf(i), Len(tracefile))
InputUid(i) == UidOf(LineOf(i).in, i)
ResultUid(i) == UidOf(LineOf(i).out, i)

(* A non-NULL result: a zero-sized request is answered with NULL.           *)
Allocates(i) == LineOf(i).op # "free" /\ ~LineOf(i).zero

(* The operation whose result operation i consumes.                         *)
Producers(i) == {j \in Ops : InputUid(i) # NoId /\ ResultUid(j) = InputUid(i)}
=============================================================================
