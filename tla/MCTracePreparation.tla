------------------------- MODULE MCTracePreparation -------------------------
(* The logs of two processes that fit MaxOps, and every well-shaped trace   *)
(* of up to MaxLines lines over the ids in HandIds.                         *)
EXTENDS TracePreparation, TLC

CONSTANTS MaxLines, HandIds

MCLines == {line \in Lines(HandIds) : WellShaped(line) /\ ~line.zero}

MCRawTraces == UNION {[1..n -> MCLines] : n \in 0..MaxLines}

MCRawIds == 0..MaxOps

(* Processes and pointers have no order: nothing tells one from another.    *)
MCSymmetry == Permutations(Pids) \cup Permutations(Ptrs)
=============================================================================
