------------------------ MODULE MCCorrectnessChecker ------------------------
(* CorrectnessChecker for TLC.                                              *)
EXTENDS CorrectnessChecker

(* A correct allocator used by every thread, and a single thread with an    *)
(* allocator that may have every fault.                                     *)
SoundAndComplete ==
  {[threads |-> Threads, faults |-> {}],
   [threads |-> {CHOOSE t \in Threads : TRUE}, faults |-> AllFaults]}
=============================================================================
