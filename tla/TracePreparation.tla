-------------------------- MODULE TracePreparation --------------------------
(***************************************************************************)
(* How a trace reaches the executor: a log goes through the parser         *)
(* (TracefileParser), what it writes is read back as a tracefile and       *)
(* rewritten (RewriteIds).  Tracefiles that were not written by the parser *)
(* (RawTraces) start at the rewriting.                                     *)
(***************************************************************************)
EXTENDS RewriteIds, FiniteSets

CONSTANTS Pids, Ptrs, NullPtr, MaxOps   (* See TracefileParser.            *)

(* The parser has an id for every line it may read.                         *)
ASSUME ParserIdsAssumption == MaxOps \in Nat /\ 0..MaxOps \subseteq RawIds

(* The pointers are those of blocks: 0x0 is none.                           *)
ASSUME NullPtrAssumption == NullPtr \notin Ptrs

VARIABLES log, trace, id_map, available_ids, unused_id, required_pid,
          max_simultaneous_allocs, parsing   (* The parser's locals.       *)

Parser == INSTANCE TracefileParser WITH next_id <- unused_id

parserVars == <<log, trace, id_map, available_ids, unused_id, required_pid,
                max_simultaneous_allocs, parsing>>

allVars == <<vars, parserVars>>

HandWritten ==
  /\ Init
  /\ log = << >> /\ trace = << >> /\ available_ids = {} /\ unused_id = 0
  /\ id_map = [ptr \in Parser!Pointers |-> NoId]
  /\ required_pid = NoId /\ max_simultaneous_allocs = 0
  /\ parsing = "not run"

Parsed ==
  /\ Parser!Init
  /\ raw = << >> /\ lines = << >> /\ pos = 1 /\ next_id = 0
  /\ new_id_map = [id \in RawIds |-> NoId]
  /\ status = "running"

PreparationInit == HandWritten \/ Parsed

Parse == Parser!ReadLine /\ UNCHANGED vars

(* The parser's tracefile is written, and read by TracefileReader; the      *)
(* executor starts on its copy.                                             *)
HandOver ==
  /\ Parser!FreeUnfreed
  /\ raw' = trace'
  /\ lines' = trace'
  /\ UNCHANGED <<pos, next_id, new_id_map, status>>

Rewrite ==
  /\ parsing \in {"not run", "done"}
  /\ Next
  /\ UNCHANGED parserVars

PreparationNext == Parse \/ HandOver \/ Rewrite

PreparationSpec == PreparationInit /\ [][PreparationNext]_allVars

-----------------------------------------------------------------------------
Matched == {i \in DOMAIN log : log[i].op # "other"}

OneProcess == \A i, j \in Matched : log[i].pid = log[j].pid

(* The line of the trace that line i of the log became, in a log of one     *)
(* process.                                                                 *)
Place(i) == Cardinality({k \in Matched : k <= i})

Consumes(l, ptr) == l.op \in {"realloc", "free"} /\ l.in = ptr
Makes(l, ptr) == l.op \in {"malloc", "realloc"} /\ l.out = ptr

(* Line i of the log is the last before line j to have been given ptr.      *)
GivenLast(i, j, ptr) ==
  /\ Makes(log[i], ptr)
  /\ \A k \in Matched : i < k /\ k < j => ~Makes(log[k], ptr)

(* Line j of the log releases the block that line i allocated.              *)
Feeds(i, j) ==
  \E ptr \in Ptrs : Consumes(log[j], ptr) /\ GivenLast(i, j, ptr)

(* What the parser makes of the log of one process, whatever it ends on,    *)
(* the rewriting takes: ids are reused only when they are free, and what    *)
(* was left allocated has been freed.                                       *)
ParsedTraceAccepted ==
  parsing = "done" /\ OneProcess => status \in {"running", "ok"}

(* The two passes together keep who releases what: a line that releases the *)
(* block an earlier line allocated names, in the parsed trace, the id that  *)
(* line made and no line has made since, and in the rewritten trace the id  *)
(* that line alone makes.  A free(NULL) or realloc(NULL) names none.        *)
PointersBecomeIds ==
  parsing = "done" /\ OneProcess =>
    \A j \in Matched :
      /\ (raw[Place(j)].in = NoId) = ~(\E ptr \in Ptrs : Consumes(log[j], ptr))
      /\ \A i \in Matched : i < j /\ Feeds(i, j) =>
           /\ raw[Place(j)].in = raw[Place(i)].out
           /\ \A n \in (Place(i) + 1)..(Place(j) - 1) : raw[n].out # raw[Place(i)].out
           /\ status = "ok" => lines[Place(j)].in = lines[Place(i)].out

(* The number of allocations a prefix of the trace leaves.                  *)
LiveAfter(tr, n) ==
  Cardinality({i \in 1..n : tr[i].out # NoId}) - Cardinality({i \in 1..n : tr[i].in # NoId})

(* max_simultaneous_allocs is the peak (tracefile.proto: "The maximum       *)
(* number of simultaneously allocated items in this trace"), and because    *)
(* the smallest free id is taken the ids fit an array of that size, even    *)
(* when lines of another process have taken ids in between.                 *)
ResultIdsFitPeak ==
  parsing = "done" =>
    /\ \A i \in DOMAIN raw : raw[i].out # NoId => raw[i].out < max_simultaneous_allocs
    /\ OneProcess =>
         /\ \A n \in DOMAIN raw : LiveAfter(raw, n) <= max_simultaneous_allocs
         /\ \E n \in 0..Len(raw) : LiveAfter(raw, n) = max_simultaneous_allocs

(* --max_ops "limits the total number of ops in a trace [...] accounting    *)
(* for needing to free all allocated memory": the loop's condition is       *)
(* tested before a line that adds an op and a free, so there may be one op  *)
(* more than that.                                                          *)
TraceFitsMaxOps == parsing = "done" => Len(raw) <= MaxOps + 1
=============================================================================
