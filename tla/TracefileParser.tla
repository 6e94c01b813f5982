--------------------------- MODULE TracefileParser ---------------------------
(***************************************************************************)
(* DirtyTracefileReader::Open: one pass over the log valgrind writes with  *)
(* --trace-malloc=yes that replaces pointers by ids, the smallest id not   *)
(* in use first, keeps the lines of one process and frees at the end what  *)
(* is still allocated.  A log is chosen line by line as it is read; a line *)
(* is what a regular expression extracts from it, sizes and alignments     *)
(* left out (memalign and aligned new are mallocs, calloc is as in         *)
(* TraceLines).  A last line without a newline is not part of the log:     *)
(* getline reports eof with it, and the loop ends.                         *)
(***************************************************************************)
EXTENDS TraceLines, FiniteSets

CONSTANTS
  Pids,      (* The processes whose lines are in the log.                  *)
  Ptrs,      (* The pointers they are given.                               *)
  NullPtr,   (* 0x0                                                        *)
  MaxOps     (* --max_ops                                                  *)

VARIABLES
  log,                       (* The lines read so far (a history).         *)
  trace,                     (* tracefile.lines                            *)
  id_map,                    (* The id of every pointer, NoId if none.     *)
  available_ids,
  next_id,
  required_pid,              (* NoId before the first line that matches.   *)
  max_simultaneous_allocs,
  parsing                    (* "not run", "reading", "done" or the error. *)

Pointers == Ptrs \cup {NullPtr}

LogLines ==
  [op : {"free"}, pid : Pids, in : Pointers]
  \cup [op : {"malloc"}, pid : Pids, out : Pointers]
  \cup [op : {"realloc"}, pid : Pids, in : Pointers, out : Pointers]
  \cup {[op |-> "other"]}

TraceLine(op, in, out) == [op |-> op, in |-> in, out |-> out, zero |-> FALSE]

Live(map) == {ptr \in Pointers : map[ptr] # NoId}

MinOf(ids) == CHOOSE id \in ids : \A other \in ids : id <= other

Larger(m, n) == IF m < n THEN n ELSE m

Init ==
  /\ log = << >>
  /\ trace = << >>
  /\ id_map = [ptr \in Pointers |-> NoId]
  /\ available_ids = {}
  /\ next_id = 0
  /\ required_pid = NoId
  /\ max_simultaneous_allocs = 0
  /\ parsing = "reading"

(* --- Variants with a plausible mistake; each breaks the property named. - *)
(* ParsedTraceAccepted: the pointer stays in the map when its id is given   *)
(* back.                                                                    *)
NotErased(ptr, map) == map

(* PointersBecomeIds: an id is used but next_id is not advanced.            *)
NotAdvanced(available) == next_id

(* ResultIdsFitPeak: the largest id not in use instead of the smallest.     *)
LargestUnused(available) ==
  IF available = {} THEN next_id
    ELSE CHOOSE id \in available : \A other \in available : other <= id

(* TraceFitsMaxOps: the frees at the end are not accounted for.             *)
CountsLinesOnly(l) ==
  /\ parsing = "reading"
  /\ Len(log) < MaxOps
  /\ log' = Append(log, l)
(* ------------------------------------------------------------------------ *)

(* The loop's condition, and getline: iter counts every line, the ones that *)
(* are skipped included.                                                    *)
GetLine(l) ==
  /\ parsing = "reading"
  /\ Len(log) + Cardinality(Live(id_map)) < MaxOps
  /\ log' = Append(log, l)

(* A return from the loop: the locals die with the call.                    *)
Fail(message) ==
  /\ parsing' = message
  /\ UNCHANGED <<trace, id_map, available_ids, next_id, required_pid,
                 max_simultaneous_allocs>>

(* find_and_erase_id, for the map and for the ids.                          *)
Erased(ptr, map) == [map EXCEPT ![ptr] = NoId]

(* get_next_id, before the pointer is looked up.                            *)
FirstUnused(available) == IF available = {} THEN next_id ELSE MinOf(available)
Advanced(available) == IF available = {} THEN next_id + 1 ELSE next_id

(* The id is in the map, the line is complete: it is kept if it is of the   *)
(* process that made the first line that matched.                           *)
KeepIfRequired(pid, line) ==
  /\ required_pid' = IF required_pid = NoId THEN pid ELSE required_pid
  /\ IF required_pid' = pid
       THEN /\ trace' = Append(trace, line)
            /\ max_simultaneous_allocs' =
                 Larger(max_simultaneous_allocs, Cardinality(Live(id_map')))
       ELSE UNCHANGED <<trace, max_simultaneous_allocs>>
  /\ UNCHANGED parsing

(* get_next_id, in the map and the ids that are left by the release of the  *)
(* line's input (which has the id `in`), and the rest of the line.          *)
AssignId(l, in, map, available) ==
  IF map[l.out] # NoId
    THEN Fail("Allocated duplicate pointer")
    ELSE LET id == FirstUnused(available)
         IN /\ id_map' = [map EXCEPT ![l.out] = id]
            /\ available_ids' = available \ {id}
            /\ next_id' = Advanced(available)
            /\ KeepIfRequired(l.pid, TraceLine(l.op, in, id))

ParseMalloc(l) ==
  /\ l.op = "malloc"
  /\ GetLine(l)
  /\ AssignId(l, NoId, id_map, available_ids)

ParseRealloc(l) ==
  /\ l.op = "realloc"
  /\ GetLine(l)
  /\ \/ l.in = NullPtr /\ AssignId(l, NoId, id_map, available_ids)
     \/ /\ l.in # NullPtr
        /\ LET id == id_map[l.in]
           IN IF id = NoId
                THEN Fail("Tracefile frees unallocated ptr")
                ELSE AssignId(l, id, Erased(l.in, id_map), available_ids \cup {id})

ParseFree(l) ==
  /\ l.op = "free"
  /\ GetLine(l)
  /\ \/ /\ l.in = NullPtr
        /\ UNCHANGED <<id_map, available_ids, next_id>>
        /\ KeepIfRequired(l.pid, TraceLine("free", NoId, NoId))
     \/ /\ l.in # NullPtr
        /\ LET id == id_map[l.in]
           IN IF id = NoId
                THEN Fail("Tracefile frees unallocated ptr")
                ELSE /\ id_map' = Erased(l.in, id_map)
                     /\ available_ids' = available_ids \cup {id}
                     /\ UNCHANGED next_id
                     /\ KeepIfRequired(l.pid, TraceLine("free", id, NoId))

(* A line no regular expression matches.                                    *)
SkipLine(l) ==
  /\ l.op = "other"
  /\ GetLine(l)
  /\ UNCHANGED <<trace, id_map, available_ids, next_id, required_pid,
                 max_simultaneous_allocs, parsing>>

(* The log or the limit is reached: what is still in the map is freed, in   *)
(* the order the hash map gives.                                            *)
FreeUnfreed ==
  /\ parsing = "reading"
  /\ parsing' = "done"
  /\ LET live == Live(id_map)
     IN \E order \in [1..Cardinality(live) -> live] :
          /\ \A ptr \in live : \E i \in DOMAIN order : order[i] = ptr
          /\ trace' = trace \o [i \in DOMAIN order |->
                                  TraceLine("free", id_map[order[i]], NoId)]
  /\ UNCHANGED <<log, id_map, available_ids, next_id, required_pid,
                 max_simultaneous_allocs>>

ReadLine ==
  \E l \in LogLines : ParseMalloc(l) \/ ParseRealloc(l) \/ ParseFree(l) \/ SkipLine(l)
=============================================================================
