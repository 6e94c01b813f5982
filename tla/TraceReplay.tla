---------------------------- MODULE TraceReplay -----------------------------
(***************************************************************************)
(* What replaying a tracefile promises, whatever the number of threads:    *)
(* every operation of every repetition is performed on the allocator once, *)
(* after the operation that produces its input, on exactly the pointer     *)
(* that operation got; and the replay returns without an error only when   *)
(* all have been.                                                          *)
(***************************************************************************)
EXTENDS ReplayOps

VARIABLES
  performed,   (* The operations the allocator has been asked for.         *)
  live,        (* The pointers it has handed out and not got back.         *)
  status,      (* Whether one of them has failed.                          *)
  returned     (* ProcessTracefile has returned.                           *)

absvars == <<tracefile, performed, live, status, returned>>

Init ==
  /\ tracefile \in Traces
  /\ performed = {}
  /\ live = {}
  /\ status = "ok"
  /\ returned = FALSE

Perform(i) ==
  /\ i \notin performed
  /\ Producers(i) \subseteq performed
  /\ performed' = performed \cup {i}
  /\ live' = (live \ Producers(i)) \cup (IF Allocates(i) THEN {i} ELSE {})
  /\ UNCHANGED <<tracefile, status, returned>>

Fail ==
  /\ status' = "error"
  /\ UNCHANGED <<tracefile, performed, live, returned>>

Return ==
  /\ performed = Ops \/ status = "error"
  /\ returned' = TRUE
  /\ UNCHANGED <<tracefile, performed, live, status>>

Next == (\E i \in Ops : Perform(i)) \/ Fail \/ Return

Spec == Init /\ [][Next]_absvars
=============================================================================
