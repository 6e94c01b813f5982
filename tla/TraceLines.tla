----------------------------- MODULE TraceLines -----------------------------
(***************************************************************************)
(* Trace lines, as the executor sees them (proto/tracefile.proto): an      *)
(* operation, the id of the allocation it consumes (realloc and free), the *)
(* id of the one it makes (malloc, calloc and realloc), and whether the    *)
(* requested size is zero.  Sizes and alignments are not kept: nothing in  *)
(* the executor depends on them beyond "is it zero".  calloc is written    *)
(* "malloc": the executor treats the two alike, a calloc counting as       *)
(* zero-sized when either factor is 0.                                     *)
(***************************************************************************)
EXTENDS Integers, Sequences

CONSTANTS
  RawIds,   (* The ids a tracefile may use before they are rewritten.      *)
  NoId      (* An optional id field that is not set.                       *)

ASSUME NoIdAssumption == NoId \notin Nat /\ NoId \notin RawIds

LineOps == {"malloc", "realloc", "free", "unset"}

Lines(ids) ==
  [op : LineOps, in : ids \cup {NoId}, out : ids \cup {NoId}, zero : BOOLEAN]

(* InputAndResultIds: malloc has no input, free no result; realloc always   *)
(* has a result (its result_id is read unconditionally).                    *)
WellShaped(line) ==
  CASE line.op = "malloc"  -> line.in = NoId
    [] line.op = "realloc" -> line.out # NoId
    [] line.op = "free"    -> line.out = NoId
    [] line.op = "unset"   -> line.in = NoId /\ line.out = NoId

(* UniqueId: a trace's id made globally unique over its repetitions.        *)
UniqueId(id, iteration, lines_size) == id + iteration * lines_size

(***************************************************************************)
(* The contract between RewriteIdsToUnique and the batch executor: result  *)
(* ids are distinct and smaller than the number of lines, every input id   *)
(* is the result of an earlier line and of no other line's input, and no   *)
(* result is left unconsumed.                                              *)
(***************************************************************************)
ResultIdsDistinct(lines) ==
  \A i, j \in DOMAIN lines :
    lines[i].out # NoId /\ lines[i].out = lines[j].out => i = j

ResultIdsFit(lines) ==
  \A i \in DOMAIN lines : lines[i].out # NoId => lines[i].out \in 0..(Len(lines) - 1)

InputsProducedEarlier(lines) ==
  \A i \in DOMAIN lines : lines[i].in # NoId =>
    \E j \in DOMAIN lines : j < i /\ lines[j].out = lines[i].in

InputsConsumedOnce(lines) ==
  \A i, j \in DOMAIN lines :
    lines[i].in # NoId /\ lines[i].in = lines[j].in => i = j

AllResultsConsumed(lines) ==
  \A i \in DOMAIN lines : lines[i].out # NoId =>
    \E j \in DOMAIN lines : i < j /\ lines[j].in = lines[i].out

UniqueTrace(lines) ==
  /\ ResultIdsDistinct(lines)
  /\ ResultIdsFit(lines)
  /\ InputsProducedEarlier(lines)
  /\ InputsConsumedOnce(lines)
  /\ AllResultsConsumed(lines)
=============================================================================
