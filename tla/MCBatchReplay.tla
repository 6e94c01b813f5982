---------------------------- MODULE MCBatchReplay ---------------------------
(***************************************************************************)
(* Small tracefiles for the batch replay, already rewritten to unique ids. *)
(***************************************************************************)
EXTENDS BatchReplay

CONSTANT MaxLines

M(out)     == [op |-> "malloc",  in |-> NoId, out |-> out,  zero |-> FALSE]
R(in, out) == [op |-> "realloc", in |-> in,   out |-> out,  zero |-> FALSE]
F(in)      == [op |-> "free",    in |-> in,   out |-> NoId, zero |-> FALSE]
MZ(out)    == [op |-> "malloc",  in |-> NoId, out |-> out,  zero |-> TRUE]
RZ(in, out) == [op |-> "realloc", in |-> in,  out |-> out,  zero |-> TRUE]

(* Each operation needs the one before it.                                  *)
Chain == <<M(0), R(0, 1), R(1, 2), F(2)>>

(* Frees far from their mallocs: with small batches each one is parked, and *)
(* the second when the queue already holds more than a batch takes from it. *)
Nested == <<M(0), M(1), F(1), F(0)>>

(* Reallocs of two allocations, the second of which finds its input flushed. *)
Moved == <<M(0), M(1), R(0, 2), R(1, 3), F(2), F(3)>>

(* Results nobody names, frees of nothing, zero-sized requests.             *)
Corners == <<MZ(NoId), R(NoId, 0), F(NoId), RZ(0, 1), F(1)>>

(* A malloc(0) whose result the trace names and frees.                      *)
ZeroNamed == <<M(0), F(0), MZ(1), M(2), F(1), F(2)>>

(* Every rewritten trace of up to MaxLines lines: result ids are numbered in *)
(* the order of the lines, as RewriteIdsToUnique numbers them.               *)
AllTraces ==
  LET AllLines == {l \in Lines(0..(MaxLines - 1)) : WellShaped(l) /\ l.op # "unset" /\ ~l.zero}
      Numbered(tr) == \A i \in DOMAIN tr : tr[i].out # NoId =>
        tr[i].out = Cardinality({j \in 1..(i - 1) : tr[j].out # NoId})
  IN {tr \in UNION {[1..n -> AllLines] : n \in 1..MaxLines} : Numbered(tr) /\ UniqueTrace(tr)}

LongTraces == {Chain, Nested, Moved, Corners}
EveryTrace == LongTraces \cup AllTraces
ZeroTraces == {ZeroNamed}
=============================================================================
