----------------------------- MODULE RewriteIds -----------------------------
(***************************************************************************)
(* TracefileExecutor::RewriteIdsToUnique: one pass over a copy of the      *)
(* tracefile that replaces ids, which a trace may reuse once they have     *)
(* been freed, by ids that occur as a result once, and rejects a trace     *)
(* that is not closed (unknown ids, ids in use twice, memory left).        *)
(***************************************************************************)
EXTENDS TraceLines

CONSTANT RawTraces   (* The tracefiles TracefileReader may have read.      *)

ASSUME RawTracesAssumption ==
  \A tr \in RawTraces :
    /\ tr \in Seq(Lines(RawIds))
    /\ \A i \in DOMAIN tr : WellShaped(tr[i])

VARIABLES
  raw,          (* The reader's tracefile, never written.                  *)
  lines,        (* The executor's copy, rewritten in place.                *)
  pos,          (* The line the loop is at.                                *)
  next_id,
  new_id_map,   (* The new id of every live raw id, NoId if it has none.   *)
  status        (* "running", "ok", or the FailedPrecondition message.     *)

vars == <<raw, lines, pos, next_id, new_id_map, status>>

Init ==
  /\ raw \in RawTraces
  /\ lines = raw
  /\ pos = 1
  /\ next_id = 0
  /\ new_id_map = [id \in RawIds |-> NoId]
  /\ status = "running"

AtLine(op) ==
  /\ status = "running"
  /\ pos \in DOMAIN lines
  /\ lines[pos].op = op

(* A return from the loop: the map dies and the caller drops the copy.      *)
Fail(message) ==
  /\ status' = message
  /\ UNCHANGED <<raw, lines, pos, next_id, new_id_map>>

(* --- Variants with a plausible mistake; each breaks the property named. - *)
(* ProducesUniqueTrace: next_id is used but not advanced.                   *)
IdNotAdvanced(released, new_in) ==
  IF released[lines[pos].out] # NoId
    THEN Fail("duplicate result ID")
    ELSE /\ new_id_map' = [released EXCEPT ![lines[pos].out] = next_id]
         /\ lines' = [lines EXCEPT ![pos].in = new_in, ![pos].out = next_id]
         /\ pos' = pos + 1
         /\ UNCHANGED <<raw, next_id, status>>

(* DataflowPreserved: free does not rewrite its input id.                   *)
FreeKeepsItsId ==
  /\ AtLine("free")
  /\ lines[pos].in # NoId => new_id_map[lines[pos].in] # NoId
  /\ new_id_map' = [id \in RawIds |-> IF id = lines[pos].in THEN NoId ELSE new_id_map[id]]
  /\ pos' = pos + 1
  /\ UNCHANGED <<raw, lines, next_id, status>>

(* AcceptsExactlyClosedTraces: memory left allocated is not noticed.        *)
FinishUnchecked ==
  /\ status = "running"
  /\ pos = Len(lines) + 1
  /\ status' = "ok"
  /\ UNCHANGED <<raw, lines, pos, next_id, new_id_map>>
(* ------------------------------------------------------------------------ *)

(* The line keeps its ids.                                                  *)
Skip ==
  /\ pos' = pos + 1
  /\ UNCHANGED <<raw, lines, next_id, new_id_map, status>>

(* new_id_map.insert of the line's result id, in the map left by the        *)
(* release of its input (which the line now names `new_in`).                *)
AssignResult(released, new_in) ==
  IF released[lines[pos].out] # NoId
    THEN Fail("duplicate result ID")
    ELSE /\ new_id_map' = [released EXCEPT ![lines[pos].out] = next_id]
         /\ lines' = [lines EXCEPT ![pos].in = new_in, ![pos].out = next_id]
         /\ next_id' = next_id + 1
         /\ pos' = pos + 1
         /\ UNCHANGED <<raw, status>>

RewriteMalloc ==
  /\ AtLine("malloc")
  /\ IF lines[pos].out = NoId THEN Skip ELSE AssignResult(new_id_map, NoId)

RewriteRealloc ==
  /\ AtLine("realloc")
  /\ \/ lines[pos].in = NoId /\ AssignResult(new_id_map, NoId)
     \/ /\ lines[pos].in # NoId
        /\ LET new_in == new_id_map[lines[pos].in]
           IN IF new_in = NoId
                THEN Fail("unknown ID being realloc-ed")
                ELSE AssignResult([new_id_map EXCEPT ![lines[pos].in] = NoId], new_in)

RewriteFree ==
  /\ AtLine("free")
  /\ \/ lines[pos].in = NoId /\ Skip
     \/ /\ lines[pos].in # NoId
        /\ LET new_in == new_id_map[lines[pos].in]
           IN IF new_in = NoId
                THEN Fail("unknown ID being freed")
                ELSE /\ lines' = [lines EXCEPT ![pos].in = new_in]
                     /\ new_id_map' = [new_id_map EXCEPT ![lines[pos].in] = NoId]
                     /\ pos' = pos + 1
                     /\ UNCHANGED <<raw, next_id, status>>

RejectUnset ==
  AtLine("unset") /\ Fail("op not set")

Finish ==
  /\ status = "running"
  /\ pos = Len(lines) + 1
  /\ status' = IF \A id \in RawIds : new_id_map[id] = NoId
                 THEN "ok" ELSE "not all allocations freed"
  /\ UNCHANGED <<raw, lines, pos, next_id, new_id_map>>

Next == RewriteMalloc \/ RewriteRealloc \/ RewriteFree \/ RejectUnset \/ Finish

Spec == Init /\ [][Next]_vars

-----------------------------------------------------------------------------
Statuses ==
  {"running", "ok", "duplicate result ID", "unknown ID being realloc-ed",
   "unknown ID being freed", "op not set", "not all allocations freed"}

(* The types of the pass's locals.                                          *)
TypeOK ==
  /\ raw \in Seq(Lines(RawIds))
  /\ lines \in Seq(Lines(RawIds \cup Nat))
  /\ DOMAIN lines = DOMAIN raw
  /\ pos \in 1..(Len(lines) + 1)
  /\ next_id \in Nat
  /\ new_id_map \in [RawIds -> Nat \cup {NoId}]
  /\ status \in Statuses

(* A rewritten trace meets the contract the batch executor relies on: this  *)
(* is what lets a suspended operation be keyed by its input id alone.       *)
ProducesUniqueTrace == status = "ok" => UniqueTrace(lines)

(* `id` has been made by a line before `i` and consumed by none since.      *)
LiveBefore(tr, id, i) ==
  \E j \in 1..(i - 1) :
    /\ tr[j].out = id
    /\ \A k \in (j + 1)..(i - 1) : tr[k].in # id

ClosedTrace(tr) ==
  /\ \A i \in DOMAIN tr :
       /\ tr[i].op # "unset"
       /\ tr[i].in # NoId => LiveBefore(tr, tr[i].in, i)
       /\ tr[i].out # NoId => tr[i].in = tr[i].out \/ ~LiveBefore(tr, tr[i].out, i)
  /\ \A id \in RawIds : ~LiveBefore(tr, id, Len(tr) + 1)

(* The pass accepts the traces that are closed and no others, ids reused    *)
(* after a free and reallocs onto their own id included.                    *)
AcceptsExactlyClosedTraces ==
  /\ status = "ok" => ClosedTrace(raw)
  /\ status \notin {"ok", "running"} => ~ClosedTrace(raw)

(* Rewriting renames and does nothing else: a rewritten line consumes the   *)
(* result of the line whose result the raw line consumed, i.e. the last one *)
(* that made the raw id before it.                                          *)
DataflowPreserved ==
  status = "ok" =>
    \A i \in DOMAIN raw :
      /\ lines[i].op = raw[i].op
      /\ (lines[i].in = NoId) = (raw[i].in = NoId)
      /\ (lines[i].out = NoId) = (raw[i].out = NoId)
      /\ \A j \in 1..(i - 1) :
           /\ raw[i].in # NoId
           /\ raw[j].out = raw[i].in
           /\ \A k \in (j + 1)..(i - 1) : raw[k].out # raw[i].in
           => lines[i].in = lines[j].out
=============================================================================
