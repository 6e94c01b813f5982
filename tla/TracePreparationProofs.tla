----------------------- MODULE TracePreparationProofs -----------------------
(***************************************************************************)
(* For every set of tracefiles: a trace RewriteIdsToUnique accepts meets   *)
(* the contract (UniqueTrace) the batch executor is built on and means     *)
(* what the raw one meant, the traces it accepts are the closed ones, and  *)
(* unique ids never collide across repetitions.  For every log and limit:  *)
(* the parser's trace fits the limit, its ids fit the peak it reports, the *)
(* rewriting accepts it, and the two passes keep who releases what.        *)
(***************************************************************************)
EXTENDS TracePreparation, FiniteSetTheorems, SequenceTheorems,
        WellFoundedInduction, TLAPS

-----------------------------------------------------------------------------
(* The inductive invariant, one conjunct per fact about the rewritten       *)
(* prefix lines[1..pos-1].                                                  *)

Done == 1..(pos - 1)

OutsBelowNext ==
  /\ next_id <= pos - 1
  /\ \A i \in Done : lines[i].out # NoId => lines[i].out \in 0..(next_id - 1)

OutsDistinct ==
  \A i, j \in Done : lines[i].out # NoId /\ lines[i].out = lines[j].out => i = j

InsProduced ==
  \A i \in Done : lines[i].in # NoId => \E j \in 1..(i - 1) : lines[j].out = lines[i].in

InsDistinct ==
  \A i, j \in Done : lines[i].in # NoId /\ lines[i].in = lines[j].in => i = j

(* A mapped new id was made in the prefix and not consumed in it.           *)
MapIsLive ==
  \A id \in RawIds : new_id_map[id] # NoId =>
    /\ \E i \in Done : lines[i].out = new_id_map[id]
    /\ \A k \in Done : lines[k].in # new_id_map[id]

MapInjective ==
  \A a, b \in RawIds :
    new_id_map[a] # NoId /\ new_id_map[a] = new_id_map[b] => a = b

(* A result made in the prefix is in the map or has been consumed.          *)
OutsLiveOrConsumed ==
  \A i \in Done : lines[i].out # NoId =>
    \/ \E id \in RawIds : new_id_map[id] = lines[i].out
    \/ \E k \in (i + 1)..(pos - 1) : lines[k].in = lines[i].out

Untouched ==
  /\ \A i \in DOMAIN raw : WellShaped(raw[i])
  /\ \A i \in DOMAIN lines : i >= pos => lines[i] = raw[i]

Accepted ==
  status = "ok" => pos = Len(lines) + 1 /\ \A id \in RawIds : new_id_map[id] = NoId

IInv ==
  /\ TypeOK
  /\ OutsBelowNext
  /\ OutsDistinct
  /\ InsProduced
  /\ InsDistinct
  /\ MapIsLive
  /\ MapInjective
  /\ OutsLiveOrConsumed
  /\ Untouched
  /\ Accepted

-----------------------------------------------------------------------------
(* The line the loop is at is still the raw one, and well-shaped.           *)
LEMMA LineIsRaw ==
  ASSUME IInv, pos \in DOMAIN lines
  PROVE  /\ lines[pos] \in Lines(RawIds)
         /\ WellShaped(lines[pos])
BY DEF IInv, TypeOK, Untouched

LEMMA FreeHasNoResult ==
  ASSUME IInv, pos \in DOMAIN lines, lines[pos].op = "free"
  PROVE  lines[pos].out = NoId
BY LineIsRaw DEF WellShaped

LEMMA MallocHasNoInput ==
  ASSUME IInv, pos \in DOMAIN lines, lines[pos].op = "malloc"
  PROVE  lines[pos].in = NoId
BY LineIsRaw DEF WellShaped

LEMMA ReallocHasResult ==
  ASSUME IInv, pos \in DOMAIN lines, lines[pos].op = "realloc"
  PROVE  lines[pos].out \in RawIds
BY LineIsRaw DEF WellShaped, Lines

-----------------------------------------------------------------------------
(* What each kind of step does to the line it is at.                        *)

LEMMA AssignEffect ==
  ASSUME TypeOK, NEW released \in [RawIds -> Nat \cup {NoId}],
         NEW new_in \in Nat \cup {NoId},
         pos \in DOMAIN lines, lines[pos].out \in RawIds,
         AssignResult(released, new_in), released[lines[pos].out] = NoId
  PROVE  /\ lines' \in Seq(Lines(RawIds \cup Nat))
         /\ Len(lines') = Len(lines)
         /\ DOMAIN lines' = DOMAIN lines
         /\ \A i \in DOMAIN lines : i # pos => lines'[i] = lines[i]
         /\ lines'[pos].op = lines[pos].op
         /\ lines'[pos].in = new_in
         /\ lines'[pos].out = next_id
         /\ pos' = pos + 1
         /\ next_id' = next_id + 1
         /\ new_id_map' = [released EXCEPT ![lines[pos].out] = next_id]
         /\ raw' = raw
         /\ status' = status
<1>1. lines[pos] \in Lines(RawIds \cup Nat)
  BY DEF TypeOK
<1>2. [lines[pos] EXCEPT !.in = new_in, !.out = next_id] \in Lines(RawIds \cup Nat)
  BY <1>1 DEF TypeOK, Lines
<1>3. lines' = [lines EXCEPT ![pos] = [lines[pos] EXCEPT !.in = new_in, !.out = next_id]]
  BY <1>1 DEF AssignResult, Lines, TypeOK
<1>4. lines'[pos] = [lines[pos] EXCEPT !.in = new_in, !.out = next_id]
  BY <1>3
<1>5. lines' \in Seq(Lines(RawIds \cup Nat)) /\ Len(lines') = Len(lines)
      /\ DOMAIN lines' = DOMAIN lines
      /\ \A i \in DOMAIN lines : i # pos => lines'[i] = lines[i]
  BY <1>2, <1>3 DEF TypeOK
<1>6. lines'[pos].op = lines[pos].op /\ lines'[pos].in = new_in /\ lines'[pos].out = next_id
  BY <1>1, <1>4 DEF Lines
<1> QED
  BY <1>5, <1>6 DEF AssignResult

(* The map after the release of an input: what it keeps and what it loses.  *)
Releases(released, new_in) ==
  /\ released \in [RawIds -> Nat \cup {NoId}]
  /\ new_in \in Nat \cup {NoId}
  /\ \A id \in RawIds : released[id] # NoId =>
       released[id] = new_id_map[id] /\ released[id] # new_in
  /\ \A id \in RawIds : new_id_map[id] \notin {NoId, new_in} => released[id] = new_id_map[id]
  /\ new_in # NoId => \E x \in RawIds : new_id_map[x] = new_in

LEMMA KeepReleases ==
  ASSUME TypeOK
  PROVE  Releases(new_id_map, NoId)
BY DEF TypeOK, Releases

LEMMA DropReleases ==
  ASSUME IInv, NEW x \in RawIds, new_id_map[x] # NoId
  PROVE  Releases([new_id_map EXCEPT ![x] = NoId], new_id_map[x])
BY DEF IInv, TypeOK, MapInjective, Releases

LEMMA FailPreserves ==
  ASSUME IInv, NEW message \in Statuses \ {"ok"}, Fail(message)
  PROVE  IInv'
<1>1. UNCHANGED <<raw, lines, pos, next_id, new_id_map>> /\ status' = message
  BY DEF Fail
<1>2. TypeOK'
  BY <1>1 DEF IInv, TypeOK
<1>3. Accepted'
  BY <1>1 DEF Accepted
<1>4. OutsBelowNext' /\ OutsDistinct' /\ InsProduced' /\ InsDistinct' /\ Untouched'
  BY <1>1 DEF IInv, Done, OutsBelowNext, OutsDistinct, InsProduced, InsDistinct, Untouched
<1>5. MapIsLive' /\ MapInjective' /\ OutsLiveOrConsumed'
  BY <1>1 DEF IInv, Done, MapIsLive, MapInjective, OutsLiveOrConsumed
<1> QED
  BY <1>2, <1>3, <1>4, <1>5 DEF IInv

LEMMA AssignPreserves ==
  ASSUME IInv, NEW released, NEW new_in, Releases(released, new_in),
         status = "running", pos \in DOMAIN lines, lines[pos].out \in RawIds,
         AssignResult(released, new_in)
  PROVE  IInv'
<1> USE NoIdAssumption
<1>0. CASE released[lines[pos].out] # NoId
  BY <1>0, FailPreserves DEF AssignResult, Statuses
<1>1. CASE released[lines[pos].out] = NoId
  <2> DEFINE out == lines[pos].out
  <2>1. /\ TypeOK /\ pos \in Nat /\ pos \in 1..Len(lines) /\ next_id \in Nat
        /\ DOMAIN lines = 1..Len(lines) /\ Len(lines) \in Nat
    BY DEF IInv, TypeOK
  <2>2. /\ lines' \in Seq(Lines(RawIds \cup Nat))
        /\ Len(lines') = Len(lines)
        /\ DOMAIN lines' = DOMAIN lines
        /\ \A i \in DOMAIN lines : i # pos => lines'[i] = lines[i]
        /\ lines'[pos].in = new_in
        /\ lines'[pos].out = next_id
        /\ pos' = pos + 1
        /\ next_id' = next_id + 1
        /\ new_id_map' = [released EXCEPT ![out] = next_id]
        /\ raw' = raw
        /\ status' = status
    BY <1>1, <2>1, AssignEffect DEF Releases
  <2>3. Done' = Done \cup {pos} /\ Done \subseteq DOMAIN lines /\ pos \notin Done
    BY <2>1, <2>2 DEF Done
  <2>4. \A i \in Done : lines'[i] = lines[i]
    BY <2>2, <2>3
  <2>5. new_id_map'[out] = next_id /\ \A id \in RawIds : id # out => new_id_map'[id] = released[id]
    BY <2>2 DEF Releases
  <2>6. \A id \in RawIds : new_id_map[id] # NoId => new_id_map[id] \in 0..(next_id - 1)
    BY <2>1 DEF IInv, MapIsLive, OutsBelowNext
  <2>7. new_in # NoId => new_in \in 0..(next_id - 1)
    BY <2>6 DEF Releases
  <2>8. \A i \in Done : lines[i].in # NoId => lines[i].in \in 0..(next_id - 1)
    BY <2>1, <2>3 DEF IInv, InsProduced, OutsBelowNext, Done
  <2>t. TypeOK'
    <3>1. new_id_map' \in [RawIds -> Nat \cup {NoId}]
      BY <2>1, <2>2 DEF Releases
    <3>2. pos' \in 1..(Len(lines') + 1) /\ next_id' \in Nat
      BY <2>1, <2>2
    <3> QED BY <2>1, <2>2, <3>1, <3>2 DEF TypeOK
  <2>a. OutsBelowNext'
    BY <2>1, <2>2, <2>3, <2>4 DEF IInv, OutsBelowNext
  <2>b. OutsDistinct'
    BY <2>1, <2>2, <2>3, <2>4 DEF IInv, OutsBelowNext, OutsDistinct
  <2>c. InsProduced'
    <3>1. ASSUME NEW i \in Done, lines[i].in # NoId
          PROVE  \E j \in 1..(i - 1) : lines'[j].out = lines[i].in
      BY <3>1, <2>1, <2>3, <2>4 DEF IInv, InsProduced, Done
    <3>2. new_in # NoId => \E j \in Done : lines'[j].out = new_in
      BY <2>4 DEF IInv, MapIsLive, Releases
    <3> QED
      BY <3>1, <3>2, <2>2, <2>3, <2>4 DEF InsProduced, Done
  <2>d. InsDistinct'
    <3>1. new_in # NoId => \A k \in Done : lines[k].in # new_in
      BY DEF IInv, MapIsLive, Releases
    <3> QED
      BY <3>1, <2>2, <2>3, <2>4 DEF IInv, InsDistinct
  <2>e. MapIsLive'
    <3>1. ASSUME NEW id \in RawIds, new_id_map'[id] # NoId
          PROVE  /\ \E i \in Done' : lines'[i].out = new_id_map'[id]
                 /\ \A k \in Done' : lines'[k].in # new_id_map'[id]
      <4>1. CASE id = out
        BY <4>1, <2>1, <2>2, <2>3, <2>4, <2>5, <2>7, <2>8
      <4>2. CASE id # out
        <5>1. new_id_map'[id] = new_id_map[id] /\ new_id_map[id] # new_in
          BY <4>2, <3>1, <2>5 DEF Releases
        <5>2. /\ \E i \in Done : lines[i].out = new_id_map[id]
              /\ \A k \in Done : lines[k].in # new_id_map[id]
          BY <5>1, <3>1 DEF IInv, MapIsLive
        <5> QED
          BY <5>1, <5>2, <2>2, <2>3, <2>4
      <4> QED BY <4>1, <4>2
    <3> QED BY <3>1 DEF MapIsLive
  <2>f. MapInjective'
    BY <2>1, <2>5, <2>6 DEF IInv, MapInjective, Releases
  <2>g. OutsLiveOrConsumed'
    <3>1. ASSUME NEW i \in Done, lines[i].out # NoId
          PROVE  \/ \E id \in RawIds : new_id_map'[id] = lines[i].out
                 \/ \E k \in (i + 1)..pos : lines'[k].in = lines[i].out
      <4>1. CASE \E id \in RawIds : new_id_map[id] = lines[i].out
        <5>1. PICK id \in RawIds : new_id_map[id] = lines[i].out
          BY <4>1
        <5>2. CASE lines[i].out = new_in
          BY <5>2, <2>1, <2>2 DEF Done
        <5>3. CASE lines[i].out # new_in
          <6>1. released[id] = new_id_map[id]
            BY <5>1, <5>3, <3>1 DEF Releases
          <6>2. id # out
            BY <6>1, <5>1, <3>1, <1>1
          <6> QED BY <6>1, <6>2, <5>1, <2>5
        <5> QED BY <5>2, <5>3
      <4>2. CASE \E k \in (i + 1)..(pos - 1) : lines[k].in = lines[i].out
        BY <4>2, <2>1, <2>4 DEF Done
      <4> QED BY <4>1, <4>2, <3>1 DEF IInv, OutsLiveOrConsumed
    <3>2. \E id \in RawIds : new_id_map'[id] = lines'[pos].out
      BY <2>2, <2>5
    <3>3. pos' - 1 = pos
      BY <2>1, <2>2
    <3> QED BY <3>1, <3>2, <3>3, <2>3, <2>4 DEF OutsLiveOrConsumed
  <2>h. Untouched' /\ Accepted'
    BY <2>1, <2>2 DEF IInv, Untouched, Accepted
  <2> QED
    BY <2>t, <2>a, <2>b, <2>c, <2>d, <2>e, <2>f, <2>g, <2>h DEF IInv
<1> QED BY <1>0, <1>1

(* Lines that keep their ids: a malloc without a result, a free of nothing. *)
LEMMA SkipPreserves ==
  ASSUME IInv, status = "running", pos \in DOMAIN lines, Skip,
         lines[pos].in = NoId, lines[pos].out = NoId
  PROVE  IInv'
<1> USE NoIdAssumption
<1>1. /\ UNCHANGED <<raw, lines, next_id, new_id_map, status>> /\ pos' = pos + 1
      /\ pos \in 1..Len(lines) /\ next_id \in Nat /\ Len(lines) \in Nat
      /\ DOMAIN lines = 1..Len(lines)
  BY DEF Skip, IInv, TypeOK
<1>2. Done' = Done \cup {pos} /\ pos \notin Done
  BY <1>1 DEF Done
<1>3. TypeOK' /\ Untouched' /\ Accepted'
  BY <1>1 DEF IInv, TypeOK, Untouched, Accepted
<1>4. OutsBelowNext' /\ OutsDistinct'
  BY <1>1, <1>2 DEF IInv, OutsBelowNext, OutsDistinct
<1>5. InsProduced' /\ InsDistinct'
  BY <1>1, <1>2 DEF IInv, InsProduced, InsDistinct
<1>6. MapIsLive' /\ MapInjective'
  BY <1>1, <1>2 DEF IInv, MapIsLive, MapInjective
<1>7. OutsLiveOrConsumed'
  <2>1. \A i \in Done : (i + 1)..(pos - 1) \subseteq (i + 1)..(pos' - 1)
    BY <1>1 DEF Done
  <2> QED
    BY <2>1, <1>1, <1>2 DEF IInv, OutsLiveOrConsumed
<1> QED
  BY <1>3, <1>4, <1>5, <1>6, <1>7 DEF IInv

LEMMA FreePreserves ==
  ASSUME IInv, status = "running", RewriteFree
  PROVE  IInv'
<1> USE NoIdAssumption
<1>0. pos \in DOMAIN lines /\ lines[pos].op = "free"
  BY DEF RewriteFree, AtLine
<1>1. /\ pos \in DOMAIN lines /\ lines[pos].op = "free"
      /\ pos \in 1..Len(lines) /\ next_id \in Nat /\ Len(lines) \in Nat
      /\ DOMAIN lines = 1..Len(lines)
  BY <1>0 DEF IInv, TypeOK
<1>2. lines[pos] \in Lines(RawIds)
  BY <1>1, LineIsRaw
<1>3. CASE lines[pos].in = NoId
  BY <1>1, <1>3, SkipPreserves, FreeHasNoResult DEF RewriteFree
<1>4. CASE lines[pos].in # NoId /\ new_id_map[lines[pos].in] = NoId
  BY <1>4, FailPreserves DEF RewriteFree, Statuses
<1>5. CASE lines[pos].in # NoId /\ new_id_map[lines[pos].in] # NoId
  <2> DEFINE x == lines[pos].in
             new_in == new_id_map[x]
  <2>1. x \in RawIds /\ new_in \in Nat /\ lines[pos].out = NoId
    BY <1>1, <1>2, <1>5, FreeHasNoResult DEF IInv, TypeOK, Lines
  <2>2. /\ lines' = [lines EXCEPT ![pos].in = new_in]
        /\ new_id_map' = [new_id_map EXCEPT ![x] = NoId]
        /\ pos' = pos + 1 /\ raw' = raw /\ next_id' = next_id /\ status' = status
    BY <1>5 DEF RewriteFree
  <2>3. lines'[pos].in = new_in /\ lines'[pos].out = NoId
        /\ lines' \in Seq(Lines(RawIds \cup Nat)) /\ Len(lines') = Len(lines)
        /\ DOMAIN lines' = DOMAIN lines
        /\ \A i \in DOMAIN lines : i # pos => lines'[i] = lines[i]
    <3>1. lines[pos] \in Lines(RawIds \cup Nat)
      BY <1>1 DEF IInv, TypeOK
    <3>2. [lines[pos] EXCEPT !.in = new_in] \in Lines(RawIds \cup Nat)
      BY <3>1, <2>1 DEF Lines
    <3>3. lines' = [lines EXCEPT ![pos] = [lines[pos] EXCEPT !.in = new_in]]
      BY <2>2
    <3>4. lines'[pos] = [lines[pos] EXCEPT !.in = new_in]
      BY <3>3, <1>1
    <3>5. lines'[pos].in = new_in /\ lines'[pos].out = NoId
      BY <3>1, <3>4, <2>1 DEF Lines
    <3> QED BY <3>2, <3>3, <3>5, <1>1 DEF IInv, TypeOK
  <2>4. Done' = Done \cup {pos} /\ pos \notin Done /\ Done \subseteq DOMAIN lines
    BY <1>1, <2>2 DEF Done
  <2>5. \A i \in Done : lines'[i] = lines[i]
    BY <2>3, <2>4
  <2>6. Releases(new_id_map', new_in)
    BY <2>1, <2>2, <1>5, DropReleases
  <2>t. TypeOK' /\ Untouched' /\ Accepted'
    <3>1. new_id_map' \in [RawIds -> Nat \cup {NoId}]
      BY <2>6 DEF Releases
    <3>2. TypeOK'
      <4>1. raw' \in Seq(Lines(RawIds)) /\ DOMAIN lines' = DOMAIN raw' /\ status' \in Statuses
        BY <2>2, <2>3 DEF IInv, TypeOK
      <4>2. pos' \in 1..(Len(lines') + 1) /\ next_id' \in Nat
        BY <1>1, <2>2, <2>3
      <4> QED BY <2>3, <3>1, <4>1, <4>2 DEF TypeOK
    <3>3. Untouched' /\ Accepted'
      BY <1>1, <2>2, <2>3 DEF IInv, Untouched, Accepted
    <3> QED BY <3>2, <3>3
  <2>a. OutsBelowNext' /\ OutsDistinct'
    BY <1>1, <2>2, <2>3, <2>4, <2>5 DEF IInv, OutsBelowNext, OutsDistinct
  <2>b. InsProduced'
    <3>1. ASSUME NEW i \in Done, lines[i].in # NoId
          PROVE  \E j \in 1..(i - 1) : lines'[j].out = lines[i].in
      BY <3>1, <1>1, <2>4, <2>5 DEF IInv, InsProduced, Done
    <3>2. \E j \in Done : lines'[j].out = new_in
      BY <1>5, <2>1, <2>5 DEF IInv, MapIsLive
    <3> QED
      BY <3>1, <3>2, <2>3, <2>4, <2>5 DEF InsProduced, Done
  <2>c. InsDistinct'
    <3>1. \A k \in Done : lines[k].in # new_in
      BY <1>5, <2>1 DEF IInv, MapIsLive
    <3> QED
      BY <3>1, <2>3, <2>4, <2>5 DEF IInv, InsDistinct
  <2>d. MapIsLive' /\ MapInjective'
    BY <2>1, <2>2, <2>3, <2>4, <2>5, <2>6 DEF IInv, MapIsLive, MapInjective, Releases
  <2>e. OutsLiveOrConsumed'
    <3>1. ASSUME NEW i \in Done, lines[i].out # NoId
          PROVE  \/ \E id \in RawIds : new_id_map'[id] = lines[i].out
                 \/ \E k \in (i + 1)..pos : lines'[k].in = lines[i].out
      <4>1. CASE lines[i].out = new_in
        BY <4>1, <1>1, <2>3 DEF Done
      <4>2. CASE \E id \in RawIds : new_id_map[id] = lines[i].out /\ lines[i].out # new_in
        BY <4>2, <3>1, <2>6 DEF Releases
      <4>3. CASE \E k \in (i + 1)..(pos - 1) : lines[k].in = lines[i].out
        BY <4>3, <1>1, <2>5 DEF Done
      <4> QED BY <4>1, <4>2, <4>3, <3>1 DEF IInv, OutsLiveOrConsumed
    <3>2. pos' - 1 = pos
      BY <1>1, <2>2
    <3> QED BY <3>1, <3>2, <2>3, <2>4, <2>5 DEF OutsLiveOrConsumed
  <2> QED
    BY <2>t, <2>a, <2>b, <2>c, <2>d, <2>e DEF IInv
<1> QED BY <1>1, <1>2, <1>3, <1>4, <1>5

-----------------------------------------------------------------------------
(* The executor starts on a copy of what the reader has read.               *)
Starts ==
  /\ raw \in Seq(Lines(RawIds))
  /\ \A i \in DOMAIN raw : WellShaped(raw[i])
  /\ lines = raw
  /\ pos = 1
  /\ next_id = 0
  /\ new_id_map = [id \in RawIds |-> NoId]
  /\ status = "running"

LEMMA InitStarts == Init => Starts
BY RawTracesAssumption DEF Init, Starts

LEMMA StartsIInv == Starts => IInv
<1> SUFFICES ASSUME Starts PROVE IInv
  OBVIOUS
<1>1. raw \in Seq(Lines(RawIds)) /\ lines = raw /\ pos = 1
      /\ next_id = 0 /\ status = "running" /\ new_id_map = [id \in RawIds |-> NoId]
  BY DEF Starts
<1>2. lines \in Seq(Lines(RawIds \cup Nat))
  <2>1. Lines(RawIds) \subseteq Lines(RawIds \cup Nat)
    BY DEF Lines
  <2>2. \A S, T : S \subseteq T => \A seq \in Seq(S) : seq \in Seq(T)
    OBVIOUS
  <2> QED BY <1>1, <2>1, <2>2
<1>3. TypeOK
  BY <1>1, <1>2 DEF TypeOK, Statuses
<1>4. Done = {}
  BY <1>1 DEF Done
<1>5. OutsBelowNext /\ OutsDistinct /\ InsProduced /\ InsDistinct
  BY <1>1, <1>4 DEF OutsBelowNext, OutsDistinct, InsProduced, InsDistinct
<1>6. MapIsLive /\ MapInjective /\ OutsLiveOrConsumed /\ Untouched /\ Accepted
  BY <1>1, <1>4 DEF Starts, MapIsLive, MapInjective, OutsLiveOrConsumed, Untouched, Accepted
<1> QED
  BY <1>3, <1>5, <1>6 DEF IInv

LEMMA InitIInv == Init => IInv
BY InitStarts, StartsIInv

LEMMA NextIInv == IInv /\ [Next]_vars => IInv'
<1> USE NoIdAssumption
<1> SUFFICES ASSUME IInv, [Next]_vars PROVE IInv'
  OBVIOUS
<1>1. CASE RewriteMalloc
  <2>1. status = "running" /\ pos \in DOMAIN lines /\ lines[pos].in = NoId
        /\ lines[pos].out \in RawIds \cup {NoId} /\ TypeOK
    BY <1>1, LineIsRaw, MallocHasNoInput DEF RewriteMalloc, AtLine, Lines, IInv
  <2>2. CASE lines[pos].out = NoId
    BY <2>1, <2>2, <1>1, SkipPreserves DEF RewriteMalloc
  <2>3. CASE lines[pos].out # NoId
    BY <2>1, <2>3, <1>1, KeepReleases, AssignPreserves DEF RewriteMalloc
  <2> QED BY <2>2, <2>3
<1>2. CASE RewriteRealloc
  <2>1. status = "running" /\ pos \in DOMAIN lines /\ lines[pos].out \in RawIds
        /\ lines[pos].in \in RawIds \cup {NoId} /\ TypeOK
    BY <1>2, LineIsRaw, ReallocHasResult DEF RewriteRealloc, AtLine, Lines, IInv
  <2>2. CASE lines[pos].in = NoId
    BY <2>1, <2>2, <1>2, KeepReleases, AssignPreserves DEF RewriteRealloc
  <2>3. CASE lines[pos].in # NoId /\ new_id_map[lines[pos].in] = NoId
    BY <2>3, <1>2, FailPreserves DEF RewriteRealloc, Statuses
  <2>4. CASE lines[pos].in # NoId /\ new_id_map[lines[pos].in] # NoId
    <3> DEFINE x == lines[pos].in
    <3>1. Releases([new_id_map EXCEPT ![x] = NoId], new_id_map[x])
      BY <2>1, <2>4, DropReleases
    <3>2. AssignResult([new_id_map EXCEPT ![x] = NoId], new_id_map[x])
      BY <2>4, <1>2 DEF RewriteRealloc
    <3> QED BY <2>1, <3>1, <3>2, AssignPreserves
  <2> QED BY <2>2, <2>3, <2>4
<1>3. CASE RewriteFree
  BY <1>3, FreePreserves DEF RewriteFree, AtLine
<1>4. CASE RejectUnset
  BY <1>4, FailPreserves DEF RejectUnset, Statuses
<1>5. CASE Finish
  <2>1. /\ UNCHANGED <<raw, lines, pos, next_id, new_id_map>>
        /\ status' = IF \A id \in RawIds : new_id_map[id] = NoId
                       THEN "ok" ELSE "not all allocations freed"
        /\ pos = Len(lines) + 1
    BY <1>5 DEF Finish
  <2>2. status' \in Statuses
    BY <2>1 DEF Statuses
  <2>3. TypeOK' /\ Accepted'
    BY <2>1, <2>2 DEF IInv, TypeOK, Accepted
  <2>4. OutsBelowNext' /\ OutsDistinct' /\ InsProduced' /\ InsDistinct' /\ Untouched'
    BY <2>1 DEF IInv, Done, OutsBelowNext, OutsDistinct, InsProduced, InsDistinct, Untouched
  <2>5. MapIsLive' /\ MapInjective' /\ OutsLiveOrConsumed'
    BY <2>1 DEF IInv, Done, MapIsLive, MapInjective, OutsLiveOrConsumed
  <2> QED
    BY <2>3, <2>4, <2>5 DEF IInv
<1>6. CASE UNCHANGED vars
  <2>1. UNCHANGED <<raw, lines, pos, next_id, new_id_map, status>>
    BY <1>6 DEF vars
  <2>2. TypeOK' /\ Accepted'
    BY <2>1 DEF IInv, TypeOK, Accepted
  <2>3. OutsBelowNext' /\ OutsDistinct' /\ InsProduced' /\ InsDistinct' /\ Untouched'
    BY <2>1 DEF IInv, Done, OutsBelowNext, OutsDistinct, InsProduced, InsDistinct, Untouched
  <2>4. MapIsLive' /\ MapInjective' /\ OutsLiveOrConsumed'
    BY <2>1 DEF IInv, Done, MapIsLive, MapInjective, OutsLiveOrConsumed
  <2> QED
    BY <2>2, <2>3, <2>4 DEF IInv
<1> QED
  BY <1>1, <1>2, <1>3, <1>4, <1>5, <1>6 DEF Next

LEMMA IInvProducesUniqueTrace == IInv => ProducesUniqueTrace
<1> USE NoIdAssumption
<1> SUFFICES ASSUME IInv, status = "ok" PROVE UniqueTrace(lines)
  BY DEF ProducesUniqueTrace
<1>1. /\ Len(lines) \in Nat /\ DOMAIN lines = 1..Len(lines) /\ pos = Len(lines) + 1
      /\ \A id \in RawIds : new_id_map[id] = NoId
  BY DEF IInv, TypeOK, Accepted
<1>2. Done = DOMAIN lines /\ next_id <= Len(lines) /\ next_id \in Nat
  BY <1>1 DEF Done, IInv, OutsBelowNext, TypeOK
<1>3. ResultIdsDistinct(lines) /\ InputsConsumedOnce(lines)
  BY <1>2 DEF IInv, OutsDistinct, InsDistinct, ResultIdsDistinct, InputsConsumedOnce
<1>4. ResultIdsFit(lines)
  BY <1>1, <1>2 DEF IInv, OutsBelowNext, ResultIdsFit
<1>5. InputsProducedEarlier(lines)
  BY <1>1, <1>2 DEF IInv, InsProduced, InputsProducedEarlier
<1>6. AllResultsConsumed(lines)
  BY <1>1, <1>2 DEF IInv, OutsLiveOrConsumed, AllResultsConsumed
<1> QED
  BY <1>3, <1>4, <1>5, <1>6 DEF UniqueTrace

(***************************************************************************)
(* A tracefile that RewriteIdsToUnique accepts meets the contract of the   *)
(* batch executor: distinct result ids below the number of lines, every    *)
(* input produced earlier and consumed once, nothing left allocated.       *)
(***************************************************************************)
THEOREM RewrittenTraceIsUnique == Spec => []ProducesUniqueTrace
BY InitIInv, NextIInv, IInvProducesUniqueTrace, PTL DEF Spec

(* The locals of RewriteIdsToUnique keep their types: the loop stays within *)
(* the trace, and only ids of the trace and new ids occur.                  *)
THEOREM RewriteTypeCorrect == Spec => []TypeOK
BY InitIInv, NextIInv, PTL DEF Spec, IInv

-----------------------------------------------------------------------------
(* The rewritten prefix against the raw one.  Nothing here follows from the *)
(* contract above: it says what the new ids stand for.                      *)

(* The map has an id exactly when the raw prefix has left it allocated.     *)
LiveAreMapped ==
  \A id \in RawIds : new_id_map[id] # NoId <=> LiveBefore(raw, id, pos)

PrefixClosed ==
  \A i \in Done :
    /\ raw[i].op # "unset"
    /\ raw[i].in # NoId => LiveBefore(raw, raw[i].in, i)
    /\ raw[i].out # NoId => raw[i].in = raw[i].out \/ ~LiveBefore(raw, raw[i].out, i)

Rejected == status \notin {"ok", "running"} => ~ClosedTrace(raw)

SameShape ==
  \A i \in Done :
    /\ lines[i].op = raw[i].op
    /\ lines[i].in = NoId <=> raw[i].in = NoId
    /\ lines[i].out = NoId <=> raw[i].out = NoId

(* Line j is the last one before line i to make the raw id.                 *)
MakesLast(j, i, id) == raw[j].out = id /\ \A k \in (j + 1)..(i - 1) : raw[k].out # id

SameSource ==
  \A i \in Done : raw[i].in # NoId =>
    \A j \in 1..(i - 1) : MakesLast(j, i, raw[i].in) => lines[i].in = lines[j].out

MapNamesLast ==
  \A id \in RawIds : new_id_map[id] # NoId =>
    \A j \in Done : MakesLast(j, pos, id) => lines[j].out = new_id_map[id]

RawInv ==
  /\ LiveAreMapped
  /\ PrefixClosed
  /\ Rejected
  /\ SameShape
  /\ SameSource
  /\ MapNamesLast

-----------------------------------------------------------------------------
(* One line decides what is live after it: what it makes, and what was live *)
(* before it and is not what it consumes.                                   *)
LEMMA LiveStep ==
  ASSUME NEW tr, NEW id, NEW i \in Nat \ {0}
  PROVE  LiveBefore(tr, id, i + 1) <=>
           tr[i].out = id \/ (LiveBefore(tr, id, i) /\ tr[i].in # id)
<1>1. ASSUME tr[i].out = id PROVE LiveBefore(tr, id, i + 1)
  BY <1>1 DEF LiveBefore
<1>2. ASSUME LiveBefore(tr, id, i), tr[i].in # id PROVE LiveBefore(tr, id, i + 1)
  <2>1. PICK j \in 1..(i - 1) :
          tr[j].out = id /\ \A k \in (j + 1)..(i - 1) : tr[k].in # id
    BY <1>2 DEF LiveBefore
  <2>2. \A k \in (j + 1)..i : tr[k].in # id
    BY <2>1, <1>2
  <2> QED BY <2>1, <2>2 DEF LiveBefore
<1>3. ASSUME LiveBefore(tr, id, i + 1), tr[i].out # id
      PROVE  LiveBefore(tr, id, i) /\ tr[i].in # id
  <2>1. PICK j \in 1..i : tr[j].out = id /\ \A k \in (j + 1)..i : tr[k].in # id
    BY <1>3 DEF LiveBefore
  <2>2. j \in 1..(i - 1) /\ i \in (j + 1)..i
    BY <2>1, <1>3
  <2> QED BY <2>1, <2>2 DEF LiveBefore
<1> QED BY <1>1, <1>2, <1>3

(* A step of the loop leaves the prefix and the map alone, or handles the   *)
(* line it is at and moves on.                                              *)
Stalls == UNCHANGED <<raw, lines, pos, new_id_map>>

MovesOn ==
  /\ status = "running" /\ status' = "running"
  /\ pos \in DOMAIN lines
  /\ pos' = pos + 1
  /\ raw' = raw
  /\ \A i \in Done : lines'[i] = lines[i]

RenamesLine ==
  /\ raw[pos].op # "unset"
  /\ lines'[pos].op = raw[pos].op
  /\ raw[pos].in # NoId =>
       new_id_map[raw[pos].in] # NoId /\ lines'[pos].in = new_id_map[raw[pos].in]
  /\ raw[pos].in = NoId => lines'[pos].in = NoId
  /\ raw[pos].out # NoId => lines'[pos].out # NoId
  /\ raw[pos].out = NoId => lines'[pos].out = NoId

UpdatesMap ==
  /\ raw[pos].out # NoId =>
       /\ new_id_map'[raw[pos].out] = lines'[pos].out
       /\ raw[pos].in = raw[pos].out \/ new_id_map[raw[pos].out] = NoId
  /\ raw[pos].in \notin {NoId, raw[pos].out} => new_id_map'[raw[pos].in] = NoId
  /\ \A id \in RawIds : id \notin {raw[pos].in, raw[pos].out} =>
       new_id_map'[id] = new_id_map[id]

LEMMA RawLine ==
  ASSUME IInv, pos \in DOMAIN lines
  PROVE  /\ raw[pos] = lines[pos]
         /\ pos \in DOMAIN raw
         /\ raw[pos] \in Lines(RawIds)
         /\ pos \in Nat \ {0}
BY DEF IInv, TypeOK, Untouched

LEMMA SkipEffect ==
  ASSUME IInv, status = "running", pos \in DOMAIN lines, Skip,
         lines[pos].in = NoId, lines[pos].out = NoId, lines[pos].op # "unset"
  PROVE  MovesOn /\ RenamesLine /\ UpdatesMap
BY RawLine DEF Skip, MovesOn, RenamesLine, UpdatesMap

LEMMA AssignMovesOn ==
  ASSUME IInv, NEW released \in [RawIds -> Nat \cup {NoId}], NEW new_in \in Nat \cup {NoId},
         status = "running", pos \in DOMAIN lines,
         lines[pos].out \in RawIds, lines[pos].op # "unset",
         AssignResult(released, new_in), released[lines[pos].out] = NoId,
         \/ lines[pos].in = NoId /\ new_in = NoId /\ released = new_id_map
         \/ /\ lines[pos].in \in RawIds
            /\ new_in = new_id_map[lines[pos].in] /\ new_in # NoId
            /\ released = [new_id_map EXCEPT ![lines[pos].in] = NoId]
  PROVE  MovesOn /\ RenamesLine /\ UpdatesMap
<1> USE NoIdAssumption
<1> DEFINE in == lines[pos].in
           out == lines[pos].out
<1>1. TypeOK /\ new_id_map \in [RawIds -> Nat \cup {NoId}] /\ next_id \in Nat
  BY DEF IInv, TypeOK
<1>2. raw[pos] = lines[pos]
  BY RawLine
<1>3. /\ \A i \in DOMAIN lines : i # pos => lines'[i] = lines[i]
      /\ lines'[pos].op = lines[pos].op
      /\ lines'[pos].in = new_in
      /\ lines'[pos].out = next_id
      /\ pos' = pos + 1
      /\ new_id_map' = [released EXCEPT ![out] = next_id]
      /\ raw' = raw
      /\ status' = status
  BY <1>1, AssignEffect
<1>4. MovesOn
  <2>1. Done \subseteq DOMAIN lines /\ pos \notin Done
    BY <1>1 DEF Done, TypeOK
  <2> QED BY <1>3, <2>1 DEF MovesOn
<1>5. out # NoId /\ next_id # NoId
  BY <1>1
<1>6. RenamesLine
  BY <1>2, <1>3, <1>5 DEF RenamesLine
<1>7. new_id_map'[out] = next_id /\ \A id \in RawIds : id # out => new_id_map'[id] = released[id]
  BY <1>3
<1>8. \A id \in RawIds : id # in => released[id] = new_id_map[id]
  BY <1>1
<1>9. in # NoId => released[in] = NoId /\ in \in RawIds
  BY <1>1
<1>10. UpdatesMap
  BY <1>2, <1>3, <1>5, <1>7, <1>8, <1>9 DEF UpdatesMap
<1> QED BY <1>4, <1>6, <1>10

LEMMA StepEffect ==
  ASSUME IInv, [Next]_vars
  PROVE  Stalls \/ (MovesOn /\ RenamesLine /\ UpdatesMap)
<1> USE NoIdAssumption
<1>0. TypeOK /\ new_id_map \in [RawIds -> Nat \cup {NoId}]
  BY DEF IInv, TypeOK
<1>1. CASE RewriteMalloc
  <2>1. status = "running" /\ pos \in DOMAIN lines /\ lines[pos].in = NoId
        /\ lines[pos].out \in RawIds \cup {NoId} /\ lines[pos].op # "unset"
    BY <1>1, LineIsRaw, MallocHasNoInput DEF RewriteMalloc, AtLine, Lines
  <2>2. CASE lines[pos].out = NoId
    BY <2>1, <2>2, <1>1, SkipEffect DEF RewriteMalloc
  <2>3. CASE lines[pos].out # NoId /\ new_id_map[lines[pos].out] # NoId
    BY <2>3, <1>1 DEF RewriteMalloc, AssignResult, Fail, Stalls
  <2>4. CASE lines[pos].out # NoId /\ new_id_map[lines[pos].out] = NoId
    <3>1. AssignResult(new_id_map, NoId)
      BY <2>4, <1>1 DEF RewriteMalloc
    <3> QED BY <2>1, <2>4, <3>1, <1>0, AssignMovesOn
  <2> QED BY <2>2, <2>3, <2>4
<1>2. CASE RewriteRealloc
  <2>1. status = "running" /\ pos \in DOMAIN lines /\ lines[pos].out \in RawIds
        /\ lines[pos].in \in RawIds \cup {NoId} /\ lines[pos].op # "unset"
    BY <1>2, LineIsRaw, ReallocHasResult DEF RewriteRealloc, AtLine, Lines
  <2>2. CASE lines[pos].in = NoId
    <3>1. AssignResult(new_id_map, NoId)
      BY <2>2, <1>2 DEF RewriteRealloc
    <3>2. CASE new_id_map[lines[pos].out] # NoId
      BY <3>1, <3>2 DEF AssignResult, Fail, Stalls
    <3>3. CASE new_id_map[lines[pos].out] = NoId
      BY <2>1, <2>2, <3>1, <3>3, <1>0, AssignMovesOn
    <3> QED BY <3>2, <3>3
  <2>3. CASE lines[pos].in # NoId /\ new_id_map[lines[pos].in] = NoId
    BY <2>3, <1>2 DEF RewriteRealloc, Fail, Stalls
  <2>4. CASE lines[pos].in # NoId /\ new_id_map[lines[pos].in] # NoId
    <3> DEFINE new_in == new_id_map[lines[pos].in]
               released == [new_id_map EXCEPT ![lines[pos].in] = NoId]
    <3>1. AssignResult(released, new_in)
      BY <2>4, <1>2 DEF RewriteRealloc
    <3>2. released \in [RawIds -> Nat \cup {NoId}] /\ new_in \in Nat \cup {NoId}
      BY <2>1, <2>4, <1>0
    <3>3. CASE released[lines[pos].out] # NoId
      BY <3>1, <3>3 DEF AssignResult, Fail, Stalls
    <3>4. CASE released[lines[pos].out] = NoId
      <4>1. lines[pos].in \in RawIds /\ new_in # NoId
        BY <2>1, <2>4
      <4> HIDE DEF new_in
      <4> QED BY <2>1, <3>1, <3>2, <3>4, <4>1, AssignMovesOn DEF new_in
    <3> QED BY <3>3, <3>4
  <2> QED BY <2>2, <2>3, <2>4
<1>3. CASE RewriteFree
  <2>1. status = "running" /\ pos \in DOMAIN lines /\ lines[pos].out = NoId
        /\ lines[pos].in \in RawIds \cup {NoId} /\ lines[pos].op # "unset"
    BY <1>3, LineIsRaw, FreeHasNoResult DEF RewriteFree, AtLine, Lines
  <2>2. CASE lines[pos].in = NoId
    BY <2>1, <2>2, <1>3, SkipEffect DEF RewriteFree
  <2>3. CASE lines[pos].in # NoId /\ new_id_map[lines[pos].in] = NoId
    BY <2>3, <1>3 DEF RewriteFree, Fail, Stalls
  <2>4. CASE lines[pos].in # NoId /\ new_id_map[lines[pos].in] # NoId
    <3> DEFINE x == lines[pos].in
    <3>1. /\ lines' = [lines EXCEPT ![pos].in = new_id_map[x]]
          /\ new_id_map' = [new_id_map EXCEPT ![x] = NoId]
          /\ pos' = pos + 1 /\ raw' = raw /\ status' = status
      BY <2>4, <1>3 DEF RewriteFree
    <3>2. lines[pos] \in Lines(RawIds \cup Nat) /\ x \in RawIds /\ raw[pos] = lines[pos]
      BY <2>1, <2>4, RawLine DEF IInv, TypeOK
    <3>3. lines'[pos] = [lines[pos] EXCEPT !.in = new_id_map[x]]
      BY <3>1, <2>1
    <3>4. lines'[pos].in = new_id_map[x] /\ lines'[pos].out = NoId
          /\ lines'[pos].op = lines[pos].op
      BY <3>2, <3>3, <2>1 DEF Lines
    <3>5. MovesOn
      <4>1. Done \subseteq DOMAIN lines /\ pos \notin Done
        BY <1>0 DEF Done, TypeOK
      <4> QED BY <3>1, <2>1, <4>1 DEF MovesOn
    <3>6. RenamesLine
      BY <2>1, <2>4, <3>2, <3>4 DEF RenamesLine
    <3>7. UpdatesMap
      BY <2>1, <2>4, <3>1, <3>2, <1>0 DEF UpdatesMap
    <3> QED BY <3>5, <3>6, <3>7
  <2> QED BY <2>2, <2>3, <2>4
<1>4. CASE RejectUnset
  BY <1>4 DEF RejectUnset, Fail, Stalls
<1>5. CASE Finish
  BY <1>5 DEF Finish, Stalls
<1>6. CASE UNCHANGED vars
  BY <1>6 DEF vars, Stalls
<1> QED
  BY <1>1, <1>2, <1>3, <1>4, <1>5, <1>6 DEF Next

(* The shape of the state a step that moves on starts from.                 *)
LEMMA MovesOnRange ==
  ASSUME IInv, MovesOn
  PROVE  /\ pos \in Nat \ {0} /\ pos' = pos + 1 /\ raw' = raw
         /\ Done' = Done \cup {pos} /\ Done = 1..(pos - 1)
         /\ raw[pos] \in Lines(RawIds)
         /\ \A i \in Done : lines'[i] = lines[i] /\ i \in Nat \ {0} /\ i < pos
BY RawLine DEF MovesOn, Done

LEMMA LiveAreMappedPreserved ==
  ASSUME IInv, LiveAreMapped, MovesOn, RenamesLine, UpdatesMap
  PROVE  LiveAreMapped'
<1> USE NoIdAssumption
<1> DEFINE in == raw[pos].in
           out == raw[pos].out
<1>1. pos \in Nat \ {0} /\ pos' = pos + 1 /\ raw' = raw
  BY MovesOnRange
<1> SUFFICES ASSUME NEW id \in RawIds
             PROVE  new_id_map'[id] # NoId <=> LiveBefore(raw, id, pos + 1)
  BY <1>1 DEF LiveAreMapped, LiveBefore
<1>2. LiveBefore(raw, id, pos + 1) <=> out = id \/ (LiveBefore(raw, id, pos) /\ in # id)
  BY <1>1, LiveStep
<1>3. LiveBefore(raw, id, pos) <=> new_id_map[id] # NoId
  BY DEF LiveAreMapped
<1>4. CASE id = out
  BY <1>2, <1>4 DEF UpdatesMap, RenamesLine
<1>5. CASE id # out /\ id = in
  BY <1>2, <1>5 DEF UpdatesMap
<1>6. CASE id # out /\ id # in
  BY <1>2, <1>3, <1>6 DEF UpdatesMap
<1> QED BY <1>4, <1>5, <1>6

LEMMA PrefixClosedPreserved ==
  ASSUME IInv, LiveAreMapped, PrefixClosed, MovesOn, RenamesLine, UpdatesMap
  PROVE  PrefixClosed'
<1> USE NoIdAssumption
<1>1. /\ raw' = raw /\ Done' = Done \cup {pos}
      /\ raw[pos].in \in RawIds \cup {NoId} /\ raw[pos].out \in RawIds \cup {NoId}
  BY MovesOnRange DEF Lines
<1>2. raw[pos].op # "unset"
  BY DEF RenamesLine
<1>3. raw[pos].in # NoId => LiveBefore(raw, raw[pos].in, pos)
  BY <1>1 DEF RenamesLine, LiveAreMapped
<1>4. raw[pos].out # NoId =>
        raw[pos].in = raw[pos].out \/ ~LiveBefore(raw, raw[pos].out, pos)
  BY <1>1 DEF UpdatesMap, LiveAreMapped
<1> QED
  BY <1>1, <1>2, <1>3, <1>4 DEF PrefixClosed, LiveBefore

LEMMA SameShapePreserved ==
  ASSUME IInv, SameShape, MovesOn, RenamesLine
  PROVE  SameShape'
<1>1. /\ raw' = raw /\ Done' = Done \cup {pos}
      /\ \A i \in Done : lines'[i] = lines[i]
  BY MovesOnRange
<1>2. /\ lines'[pos].op = raw[pos].op
      /\ lines'[pos].in = NoId <=> raw[pos].in = NoId
      /\ lines'[pos].out = NoId <=> raw[pos].out = NoId
  <2>1. raw[pos].in # NoId => new_id_map[raw[pos].in] # NoId
    BY DEF RenamesLine
  <2> QED BY <2>1 DEF RenamesLine
<1> QED
  BY <1>1, <1>2 DEF SameShape

LEMMA SameSourcePreserved ==
  ASSUME IInv, SameSource, MapNamesLast, MovesOn, RenamesLine
  PROVE  SameSource'
<1> USE NoIdAssumption
<1>1. /\ raw' = raw /\ Done' = Done \cup {pos} /\ Done = 1..(pos - 1) /\ pos \in Nat \ {0}
      /\ raw[pos].in \in RawIds \cup {NoId}
      /\ \A i \in Done : lines'[i] = lines[i] /\ i \in Nat \ {0} /\ i < pos
  BY MovesOnRange DEF Lines
<1> SUFFICES ASSUME NEW i \in Done \cup {pos}, raw[i].in # NoId,
                    NEW j \in 1..(i - 1), MakesLast(j, i, raw[i].in)
             PROVE  lines'[i].in = lines'[j].out
  BY <1>1 DEF SameSource, MakesLast
<1>2. CASE i \in Done
  <2>1. j \in Done
    BY <1>1, <1>2
  <2> QED BY <1>1, <1>2, <2>1 DEF SameSource
<1>3. CASE i = pos
  <2>1. j \in Done
    BY <1>1, <1>3
  <2>2. new_id_map[raw[pos].in] # NoId /\ lines'[pos].in = new_id_map[raw[pos].in]
    BY <1>3 DEF RenamesLine
  <2>3. lines[j].out = new_id_map[raw[pos].in]
    BY <1>1, <1>3, <2>1, <2>2 DEF MapNamesLast
  <2> QED BY <1>1, <1>3, <2>1, <2>2, <2>3
<1> QED BY <1>2, <1>3

LEMMA MapNamesLastPreserved ==
  ASSUME IInv, MapNamesLast, MovesOn, UpdatesMap
  PROVE  MapNamesLast'
<1> USE NoIdAssumption
<1>1. /\ raw' = raw /\ pos' = pos + 1 /\ Done' = Done \cup {pos} /\ Done = 1..(pos - 1)
      /\ pos \in Nat \ {0}
      /\ \A i \in Done : lines'[i] = lines[i] /\ i \in Nat \ {0} /\ i < pos
  BY MovesOnRange
<1> SUFFICES ASSUME NEW id \in RawIds, new_id_map'[id] # NoId,
                    NEW j \in Done \cup {pos}, MakesLast(j, pos + 1, id)
             PROVE  lines'[j].out = new_id_map'[id]
  BY <1>1 DEF MapNamesLast, MakesLast
<1>2. raw[j].out = id /\ \A k \in (j + 1)..pos : raw[k].out # id
  BY <1>1 DEF MakesLast
<1>3. CASE j = pos
  BY <1>2, <1>3 DEF UpdatesMap
<1>4. CASE j \in Done
  <2>1. raw[pos].out # id /\ MakesLast(j, pos, id)
    BY <1>1, <1>2, <1>4 DEF MakesLast
  <2>2. raw[pos].in # id
    BY <2>1 DEF UpdatesMap
  <2>3. new_id_map'[id] = new_id_map[id]
    BY <2>1, <2>2 DEF UpdatesMap
  <2>4. lines[j].out = new_id_map[id]
    BY <1>4, <2>1, <2>3 DEF MapNamesLast
  <2> QED BY <1>1, <1>4, <2>3, <2>4
<1> QED BY <1>3, <1>4

(* Each message the pass can fail with names a way the trace is not closed. *)
LEMMA NotClosedAt ==
  ASSUME NEW tr, NEW i \in DOMAIN tr,
         \/ tr[i].op = "unset"
         \/ tr[i].in # NoId /\ ~LiveBefore(tr, tr[i].in, i)
         \/ tr[i].out # NoId /\ tr[i].in # tr[i].out /\ LiveBefore(tr, tr[i].out, i)
  PROVE  ~ClosedTrace(tr)
BY DEF ClosedTrace

LEMMA SameLength ==
  ASSUME NEW m \in Nat, NEW n \in Nat, 1..m = 1..n
  PROVE  m = n
<1>1. ASSUME NEW a \in Nat, NEW b \in Nat, 1..a = 1..b, a > b PROVE FALSE
  <2>1. a \in 1..a /\ a \notin 1..b
    BY <1>1
  <2> QED BY <1>1, <2>1
<1> QED BY <1>1

LEMMA RejectsOnlyUnclosed ==
  ASSUME IInv, LiveAreMapped, Rejected, [Next]_vars
  PROVE  Rejected'
<1> USE NoIdAssumption
<1>0. TypeOK /\ new_id_map \in [RawIds -> Nat \cup {NoId}]
  BY DEF IInv, TypeOK
<1>1. ASSUME NEW released, NEW new_in, AssignResult(released, new_in),
             status = "running", pos \in DOMAIN lines, lines[pos].out \in RawIds,
             \/ released = new_id_map /\ lines[pos].in = NoId
             \/ /\ lines[pos].in \in RawIds
                /\ released = [new_id_map EXCEPT ![lines[pos].in] = NoId]
      PROVE  Rejected'
  <2>1. CASE released[lines[pos].out] # NoId
    <3>1. raw' = raw
      BY <1>1, <2>1 DEF AssignResult, Fail
    <3>2. lines[pos].in # lines[pos].out /\ new_id_map[lines[pos].out] # NoId
      BY <1>0, <1>1, <2>1
    <3>3. LiveBefore(raw, lines[pos].out, pos)
      BY <1>1, <3>2 DEF LiveAreMapped
    <3>4. ~ClosedTrace(raw)
      BY <1>1, <3>2, <3>3, RawLine, NotClosedAt
    <3> QED BY <3>1, <3>4 DEF Rejected, ClosedTrace, LiveBefore
  <2>2. CASE released[lines[pos].out] = NoId
    BY <1>1, <2>2 DEF AssignResult, Rejected
  <2> QED BY <2>1, <2>2
<1>2. ASSUME NEW message, Fail(message), status = "running", pos \in DOMAIN lines,
             lines[pos].in \in RawIds, new_id_map[lines[pos].in] = NoId
      PROVE  Rejected'
  <2>1. ~LiveBefore(raw, lines[pos].in, pos)
    BY <1>2 DEF LiveAreMapped
  <2>2. ~ClosedTrace(raw)
    BY <1>2, <2>1, RawLine, NotClosedAt
  <2> QED BY <1>2, <2>2 DEF Fail, Rejected, ClosedTrace, LiveBefore
<1>3. ASSUME Skip, status = "running" PROVE Rejected'
  BY <1>3 DEF Skip, Rejected
<1>4. CASE RewriteMalloc
  <2>1. status = "running" /\ pos \in DOMAIN lines /\ lines[pos].in = NoId
        /\ lines[pos].out \in RawIds \cup {NoId}
    BY <1>4, LineIsRaw, MallocHasNoInput DEF RewriteMalloc, AtLine, Lines
  <2>2. CASE lines[pos].out = NoId
    BY <2>1, <2>2, <1>3, <1>4 DEF RewriteMalloc
  <2>3. CASE lines[pos].out # NoId
    <3>1. AssignResult(new_id_map, NoId)
      BY <2>3, <1>4 DEF RewriteMalloc
    <3> QED BY <2>1, <2>3, <3>1, <1>1
  <2> QED BY <2>2, <2>3
<1>5. CASE RewriteRealloc
  <2>1. status = "running" /\ pos \in DOMAIN lines /\ lines[pos].out \in RawIds
        /\ lines[pos].in \in RawIds \cup {NoId}
    BY <1>5, LineIsRaw, ReallocHasResult DEF RewriteRealloc, AtLine, Lines
  <2>2. CASE lines[pos].in = NoId
    <3>1. AssignResult(new_id_map, NoId)
      BY <2>2, <1>5 DEF RewriteRealloc
    <3> QED BY <2>1, <2>2, <3>1, <1>1
  <2>3. CASE lines[pos].in # NoId /\ new_id_map[lines[pos].in] = NoId
    <3>1. Fail("unknown ID being realloc-ed")
      BY <2>3, <1>5 DEF RewriteRealloc
    <3> QED BY <2>1, <2>3, <3>1, <1>2
  <2>4. CASE lines[pos].in # NoId /\ new_id_map[lines[pos].in] # NoId
    <3>1. AssignResult([new_id_map EXCEPT ![lines[pos].in] = NoId], new_id_map[lines[pos].in])
      BY <2>4, <1>5 DEF RewriteRealloc
    <3> QED BY <2>1, <2>4, <3>1, <1>1
  <2> QED BY <2>2, <2>3, <2>4
<1>6. CASE RewriteFree
  <2>1. status = "running" /\ pos \in DOMAIN lines
        /\ lines[pos].in \in RawIds \cup {NoId}
    BY <1>6, LineIsRaw DEF RewriteFree, AtLine, Lines
  <2>2. CASE lines[pos].in = NoId
    BY <2>1, <2>2, <1>3, <1>6 DEF RewriteFree
  <2>3. CASE lines[pos].in # NoId /\ new_id_map[lines[pos].in] = NoId
    <3>1. Fail("unknown ID being freed")
      BY <2>3, <1>6 DEF RewriteFree
    <3> QED BY <2>1, <2>3, <3>1, <1>2
  <2>4. CASE lines[pos].in # NoId /\ new_id_map[lines[pos].in] # NoId
    BY <2>1, <2>4, <1>6 DEF RewriteFree, Rejected
  <2> QED BY <2>2, <2>3, <2>4
<1>7. CASE RejectUnset
  <2>1. status = "running" /\ pos \in DOMAIN lines /\ lines[pos].op = "unset" /\ raw' = raw
    BY <1>7 DEF RejectUnset, AtLine, Fail
  <2>2. ~ClosedTrace(raw)
    BY <2>1, RawLine, NotClosedAt
  <2> QED BY <2>1, <2>2 DEF Rejected, ClosedTrace, LiveBefore
<1>8. CASE Finish
  <2>1. raw' = raw /\ pos = Len(lines) + 1 /\ Len(raw) = Len(lines)
    <3>1. /\ DOMAIN lines = 1..Len(lines) /\ DOMAIN raw = 1..Len(raw)
          /\ Len(lines) \in Nat /\ Len(raw) \in Nat /\ DOMAIN lines = DOMAIN raw
      BY <1>0 DEF TypeOK
    <3>2. 1..Len(lines) = 1..Len(raw)
      BY <3>1
    <3>3. Len(raw) = Len(lines)
      BY <3>1, <3>2, SameLength
    <3> QED BY <1>8, <3>3 DEF Finish
  <2>2. CASE \A id \in RawIds : new_id_map[id] = NoId
    BY <1>8, <2>2 DEF Finish, Rejected
  <2>3. CASE ~ \A id \in RawIds : new_id_map[id] = NoId
    <3>1. PICK id \in RawIds : new_id_map[id] # NoId
      BY <2>3
    <3>2. LiveBefore(raw, id, Len(raw) + 1)
      BY <2>1, <3>1 DEF LiveAreMapped
    <3>3. ~ClosedTrace(raw)
      BY <3>2 DEF ClosedTrace
    <3> QED BY <2>1, <3>3 DEF Rejected, ClosedTrace, LiveBefore
  <2> QED BY <2>2, <2>3
<1>9. CASE UNCHANGED vars
  BY <1>9 DEF vars, Rejected, ClosedTrace, LiveBefore
<1> QED
  BY <1>4, <1>5, <1>6, <1>7, <1>8, <1>9 DEF Next

LEMMA StartsRawInv == Starts => RawInv
<1> SUFFICES ASSUME Starts PROVE RawInv
  OBVIOUS
<1>1. pos = 1 /\ status = "running" /\ new_id_map = [id \in RawIds |-> NoId] /\ Done = {}
  BY DEF Starts, Done
<1>2. \A id : ~LiveBefore(raw, id, 1)
  BY DEF LiveBefore
<1> QED
  BY <1>1, <1>2 DEF RawInv, LiveAreMapped, PrefixClosed, Rejected, SameShape, SameSource,
                    MapNamesLast

LEMMA InitRawInv == Init => RawInv
BY InitStarts, StartsRawInv

LEMMA NextRawInv == IInv /\ RawInv /\ [Next]_vars => RawInv'
<1> SUFFICES ASSUME IInv, RawInv, [Next]_vars PROVE RawInv'
  OBVIOUS
<1>1. Rejected'
  BY RejectsOnlyUnclosed DEF RawInv
<1>2. CASE Stalls
  <2>1. raw' = raw /\ lines' = lines /\ pos' = pos /\ new_id_map' = new_id_map
    BY <1>2 DEF Stalls
  <2>2. LiveAreMapped' /\ PrefixClosed'
    BY <2>1 DEF RawInv, LiveAreMapped, PrefixClosed, LiveBefore, Done
  <2>3. SameShape' /\ SameSource' /\ MapNamesLast'
    BY <2>1 DEF RawInv, SameShape, SameSource, MapNamesLast, MakesLast, Done
  <2> QED BY <1>1, <2>2, <2>3 DEF RawInv
<1>3. CASE MovesOn /\ RenamesLine /\ UpdatesMap
  BY <1>1, <1>3, LiveAreMappedPreserved, PrefixClosedPreserved, SameShapePreserved,
     SameSourcePreserved, MapNamesLastPreserved DEF RawInv
<1> QED
  BY <1>2, <1>3, StepEffect

LEMMA RawInvAcceptsExactly == IInv /\ RawInv => AcceptsExactlyClosedTraces
<1> SUFFICES ASSUME IInv, RawInv, status = "ok" PROVE ClosedTrace(raw)
  BY DEF AcceptsExactlyClosedTraces, RawInv, Rejected
<1>1. pos = Len(raw) + 1 /\ Done = DOMAIN raw /\ \A id \in RawIds : new_id_map[id] = NoId
  BY DEF IInv, TypeOK, Accepted, Done
<1>2. \A id \in RawIds : ~LiveBefore(raw, id, Len(raw) + 1)
  BY <1>1 DEF RawInv, LiveAreMapped
<1> QED
  BY <1>1, <1>2 DEF RawInv, PrefixClosed, ClosedTrace

LEMMA RawInvPreservesDataflow == IInv /\ RawInv => DataflowPreserved
<1> SUFFICES ASSUME IInv, RawInv, status = "ok" PROVE DataflowPreserved
  BY DEF DataflowPreserved
<1>1. Done = DOMAIN raw
  BY DEF IInv, TypeOK, Accepted, Done
<1>2. ASSUME NEW i \in DOMAIN raw, NEW j \in 1..(i - 1), raw[i].in # NoId,
             raw[j].out = raw[i].in, \A k \in (j + 1)..(i - 1) : raw[k].out # raw[i].in
      PROVE  lines[i].in = lines[j].out
  BY <1>1, <1>2 DEF RawInv, SameSource, MakesLast
<1>3. \A i \in DOMAIN raw :
        /\ lines[i].op = raw[i].op
        /\ (lines[i].in = NoId) = (raw[i].in = NoId)
        /\ (lines[i].out = NoId) = (raw[i].out = NoId)
  BY <1>1 DEF RawInv, SameShape
<1> QED
  BY <1>2, <1>3 DEF DataflowPreserved

(***************************************************************************)
(* RewriteIdsToUnique returns a trace if the tracefile is closed (every id *)
(* consumed is live, none is made twice while live, nothing is left), and  *)
(* an error only if it is not, for every length and reuse of ids.          *)
(***************************************************************************)
THEOREM AcceptsExactlyClosed == Spec => []AcceptsExactlyClosedTraces
BY InitIInv, NextIInv, InitRawInv, NextRawInv, RawInvAcceptsExactly, PTL DEF Spec

(***************************************************************************)
(* RewriteIdsToUnique renames ids and does nothing else: every rewritten   *)
(* free or realloc consumes what the line meant before made, the last one  *)
(* whose result had the raw id.                                            *)
(***************************************************************************)
THEOREM RewritingPreservesDataflow == Spec => []DataflowPreserved
BY InitIInv, NextIInv, InitRawInv, NextRawInv, RawInvPreservesDataflow, PTL DEF Spec

-----------------------------------------------------------------------------
LEMMA TimesMonotone ==
  ASSUME NEW p \in Int, NEW q \in Int, NEW size \in Nat, p <= q
  PROVE  p * size <= q * size
OBVIOUS

(***************************************************************************)
(* ConcurrentIdMap::UniqueId never gives two allocations of different ids  *)
(* or repetitions the same key, given ids below the number of lines: the   *)
(* bound ResultIdsFit establishes.                                         *)
(***************************************************************************)
THEOREM UniqueIdInjective ==
  ASSUME NEW size \in Nat, NEW a \in 0..(size - 1), NEW b \in 0..(size - 1),
         NEW i \in Nat, NEW j \in Nat,
         UniqueId(a, i, size) = UniqueId(b, j, size)
  PROVE  a = b /\ i = j
<1>1. a + i * size = b + j * size
  BY DEF UniqueId
<1>2. ASSUME NEW p \in Nat, NEW q \in Nat, p < q
      PROVE  p * size + size <= q * size
  <2>1. (p + 1) * size <= q * size
    BY <1>2, TimesMonotone
  <2>2. (p + 1) * size = p * size + size
    OBVIOUS
  <2> QED BY <2>1, <2>2
<1>3. i * size \in Nat /\ j * size \in Nat
  OBVIOUS
<1>4. ~(i < j)
  <2> SUFFICES ASSUME i < j PROVE FALSE
    OBVIOUS
  <2>1. i * size + size <= j * size
    BY <1>2
  <2> HIDE DEF UniqueId
  <2> QED BY <1>1, <1>3, <2>1
<1>5. ~(j < i)
  <2> SUFFICES ASSUME j < i PROVE FALSE
    OBVIOUS
  <2>1. j * size + size <= i * size
    BY <1>2
  <2> QED BY <1>1, <1>3, <2>1
<1>6. i = j
  BY <1>4, <1>5
<1> QED BY <1>1, <1>3, <1>6

-----------------------------------------------------------------------------
(* The parser's ids.  An id below unused_id is of one pointer or available, *)
(* and only finitely many pointers have one.                                *)
IdsInv(map, available, unused) ==
  /\ unused \in Nat
  /\ map \in [Parser!Pointers -> (0..(unused - 1)) \cup {NoId}]
  /\ available \subseteq 0..(unused - 1)
  /\ \A p, q \in Parser!Pointers : map[p] # NoId /\ map[p] = map[q] => p = q
  /\ \A p \in Parser!Pointers : map[p] \notin available
  /\ \A n \in 0..(unused - 1) : n \in available \/ \E p \in Parser!Pointers : map[p] = n
  /\ IsFiniteSet(Parser!Live(map))

LEMMA SameCardinality == \A S : Parser!Cardinality(S) = Cardinality(S)
BY DEF Parser!Cardinality, Cardinality

LEMMA LeastExists ==
  ASSUME NEW S \in SUBSET Nat, S # {}
  PROVE  \E n \in S : \A m \in S : n <= m
<1> DEFINE before == {p \in Nat \X Nat : p[1] < p[2]}
<1>1. PICK n \in S : \A m \in S : <<m, n>> \notin before
  BY NatLessThanWellFounded, WFMin DEF OpToRel
<1>2. ASSUME NEW m \in S PROVE n <= m
  <2>1. m \in Nat /\ n \in Nat /\ <<m, n>> \in Nat \X Nat
    OBVIOUS
  <2>2. ~(m < n)
    BY <1>1, <2>1
  <2> QED BY <2>1, <2>2
<1> QED BY <1>2

LEMMA ReleasedIds ==
  ASSUME NEW map, NEW available, NEW unused, IdsInv(map, available, unused),
         NEW ptr \in Parser!Pointers, map[ptr] # NoId
  PROVE  /\ IdsInv(Parser!Erased(ptr, map), available \cup {map[ptr]}, unused)
         /\ map[ptr] \in 0..(unused - 1)
         /\ Parser!Live(Parser!Erased(ptr, map)) = Parser!Live(map) \ {ptr}
         /\ Cardinality(Parser!Live(Parser!Erased(ptr, map))) + 1 = Cardinality(Parser!Live(map))
<1> USE NoIdAssumption
<1> DEFINE map1 == Parser!Erased(ptr, map)
<1>1. /\ unused \in Nat
      /\ map \in [Parser!Pointers -> (0..(unused - 1)) \cup {NoId}]
      /\ map1 \in [Parser!Pointers -> (0..(unused - 1)) \cup {NoId}]
      /\ map1[ptr] = NoId /\ \A p \in Parser!Pointers : p # ptr => map1[p] = map[p]
      /\ map[ptr] \in 0..(unused - 1)
  BY DEF IdsInv, Parser!Erased
<1>2. Parser!Live(map1) = Parser!Live(map) \ {ptr} /\ ptr \in Parser!Live(map)
  BY <1>1 DEF Parser!Live
<1>3. /\ IsFiniteSet(Parser!Live(map1)) /\ Cardinality(Parser!Live(map1)) \in Nat
      /\ Cardinality(Parser!Live(map1)) = Cardinality(Parser!Live(map)) - 1
      /\ Cardinality(Parser!Live(map)) \in Nat
  <2>1. IsFiniteSet(Parser!Live(map))
    BY DEF IdsInv
  <2> QED BY <1>2, <2>1, FS_RemoveElement, FS_CardinalityType
<1>4. available \cup {map[ptr]} \subseteq 0..(unused - 1)
  BY <1>1 DEF IdsInv
<1>5. \A p, q \in Parser!Pointers : map1[p] # NoId /\ map1[p] = map1[q] => p = q
  BY <1>1 DEF IdsInv
<1>6. \A p \in Parser!Pointers : map1[p] \notin available \cup {map[ptr]}
  <2> SUFFICES ASSUME NEW p \in Parser!Pointers, map1[p] \in available \cup {map[ptr]}
               PROVE  FALSE
    OBVIOUS
  <2>1. map1[p] # NoId
    <3>1. available \cup {map[ptr]} \subseteq Nat
      BY <1>1, <1>4
    <3> HIDE DEF map1
    <3> QED BY <3>1
  <2>2. p # ptr /\ map1[p] = map[p]
    BY <1>1, <2>1
  <2> HIDE DEF map1
  <2> QED BY <2>1, <2>2 DEF IdsInv
<1>7. \A n \in 0..(unused - 1) : n \in available \cup {map[ptr]} \/ \E p \in Parser!Pointers : map1[p] = n
  BY <1>1 DEF IdsInv
<1> HIDE DEF map1
<1>8. IdsInv(map1, available \cup {map[ptr]}, unused)
  BY <1>1, <1>3, <1>4, <1>5, <1>6, <1>7 DEF IdsInv
<1> QED BY <1>1, <1>2, <1>3, <1>8 DEF map1

(* The ids of a map that has 0..id among them are more than id.             *)
LEMMA IdBelowLive ==
  ASSUME NEW map, IsFiniteSet(Parser!Live(map)), NEW id \in Nat,
         \A n \in 0..id : \E p \in Parser!Pointers : map[p] = n
  PROVE  id < Cardinality(Parser!Live(map))
<1> USE NoIdAssumption
<1> DEFINE L == Parser!Live(map)
           f == [p \in L |-> map[p]]
           T == {f[p] : p \in L}
<1>1. f \in Surjection(L, T)
  BY DEF Surjection
<1>2. IsFiniteSet(T) /\ Cardinality(T) <= Cardinality(L)
  BY <1>1, FS_Surjection
<1>3. 0..id \subseteq T
  <2> SUFFICES ASSUME NEW n \in 0..id PROVE n \in T
    OBVIOUS
  <2>1. PICK p \in Parser!Pointers : map[p] = n
    OBVIOUS
  <2>2. p \in L
    BY <2>1 DEF Parser!Live
  <2> QED BY <2>1, <2>2
<1>4. Cardinality(0..id) = id + 1
  BY FS_Interval
<1>5. Cardinality(0..id) <= Cardinality(T)
  BY <1>2, <1>3, FS_Subset
<1>6. Cardinality(T) \in Nat /\ Cardinality(L) \in Nat
  BY <1>2, FS_CardinalityType
<1> QED BY <1>2, <1>4, <1>5, <1>6

(* get_next_id gives an id no pointer has, and the smallest such one.       *)
Assigned(map, available, ptr, id) ==
  /\ IdsInv([map EXCEPT ![ptr] = id], available \ {id}, Parser!Advanced(available))
  /\ id \in 0..unused_id
  /\ \A p \in Parser!Pointers : map[p] # id
  /\ id < Cardinality(Parser!Live([map EXCEPT ![ptr] = id]))
  /\ Cardinality(Parser!Live([map EXCEPT ![ptr] = id])) = Cardinality(Parser!Live(map)) + 1
  /\ Parser!Advanced(available) \in unused_id..(unused_id + 1)

LEMMA AssignedId ==
  ASSUME NEW map, NEW available, IdsInv(map, available, unused_id),
         NEW ptr \in Parser!Pointers, map[ptr] = NoId,
         NEW id, id = Parser!FirstUnused(available)
  PROVE  Assigned(map, available, ptr, id)
<1> USE NoIdAssumption
<1> DEFINE map1 == [map EXCEPT ![ptr] = id]
           unused == Parser!Advanced(available)
<1>1. /\ unused_id \in Nat
      /\ map \in [Parser!Pointers -> (0..(unused_id - 1)) \cup {NoId}]
      /\ available \subseteq 0..(unused_id - 1)
  BY DEF IdsInv
<1>2. /\ id \in 0..(unused - 1) /\ unused \in unused_id..(unused_id + 1)
      /\ \A n \in 0..(id - 1) : n \notin available /\ n \in 0..(unused_id - 1)
      /\ id \in 0..unused_id
      /\ \/ id \in available /\ unused = unused_id
         \/ id = unused_id /\ unused = unused_id + 1
  <2>1. CASE available = {}
    BY <1>1, <2>1 DEF Parser!FirstUnused, Parser!Advanced
  <2>2. CASE available # {}
    <3>1. available \in SUBSET Nat
      BY <1>1
    <3>2. \E n \in available : \A m \in available : n <= m
      BY <2>2, <3>1, LeastExists
    <3>3. id \in available /\ \A m \in available : id <= m
      BY <2>2, <3>2 DEF Parser!FirstUnused, Parser!MinOf
    <3>4. unused = unused_id
      BY <2>2 DEF Parser!Advanced
    <3>5. id \in 0..(unused_id - 1)
      BY <1>1, <3>3
    <3>6. \A n \in 0..(id - 1) : n \notin available /\ n \in 0..(unused_id - 1)
      BY <1>1, <3>3, <3>5
    <3> QED BY <1>1, <3>3, <3>4, <3>5, <3>6
  <2> QED BY <2>1, <2>2
<1> HIDE DEF unused
<1>3. \A p \in Parser!Pointers : map[p] # id
  BY <1>1, <1>2 DEF IdsInv
<1>4. /\ unused \in Nat
      /\ map1 \in [Parser!Pointers -> (0..(unused - 1)) \cup {NoId}]
      /\ map1[ptr] = id /\ \A p \in Parser!Pointers : p # ptr => map1[p] = map[p]
  <2>1. \A n \in (0..(unused_id - 1)) \cup {NoId} : n \in (0..(unused - 1)) \cup {NoId}
    BY <1>1, <1>2
  <2> QED BY <1>1, <1>2, <2>1
<1>r. unused \in Int /\ unused_id <= unused
  BY <1>1, <1>2
<1>5. available \ {id} \subseteq 0..(unused - 1)
  <2>1. \A n \in 0..(unused_id - 1) : n \in 0..(unused - 1)
    BY <1>1, <1>r
  <2> QED BY <1>1, <2>1
<1>6. \A p, q \in Parser!Pointers : map1[p] # NoId /\ map1[p] = map1[q] => p = q
  BY <1>3, <1>4 DEF IdsInv
<1>7. \A p \in Parser!Pointers : map1[p] \notin available \ {id}
  BY <1>4 DEF IdsInv
<1>8. ASSUME NEW n \in 0..(unused - 1), n \notin available \ {id}
      PROVE  \E p \in Parser!Pointers : map1[p] = n
  <2>1. CASE n = id
    BY <2>1, <1>4
  <2>2. CASE n # id
    <3>1. n \in 0..(unused_id - 1) /\ n \notin available
      <4>1. n \notin available
        BY <1>8, <2>2
      <4> QED BY <1>1, <1>2, <4>1, <2>2
    <3>2. PICK p \in Parser!Pointers : map[p] = n
      BY <3>1 DEF IdsInv
    <3>3. map[ptr] # n
      BY <3>1
    <3> QED BY <3>2, <3>3, <1>4
  <2> QED BY <2>1, <2>2
<1>9. Parser!Live(map1) = Parser!Live(map) \cup {ptr} /\ ptr \notin Parser!Live(map)
  BY <1>2, <1>4 DEF Parser!Live
<1>10. /\ IsFiniteSet(Parser!Live(map1))
       /\ Cardinality(Parser!Live(map1)) = Cardinality(Parser!Live(map)) + 1
  <2>1. IsFiniteSet(Parser!Live(map))
    BY DEF IdsInv
  <2> HIDE DEF map1
  <2>2. /\ IsFiniteSet(Parser!Live(map) \cup {ptr})
        /\ Cardinality(Parser!Live(map) \cup {ptr}) = Cardinality(Parser!Live(map)) + 1
    <3>1. ptr \notin Parser!Live(map)
      BY <1>9
    <3> QED BY <2>1, <3>1, FS_AddElement
  <2> QED BY <1>9, <2>2
<1> HIDE DEF map1
<1>11. IdsInv(map1, available \ {id}, unused)
  BY <1>4, <1>5, <1>6, <1>7, <1>8, <1>10 DEF IdsInv
<1>12. \A n \in 0..id : \E p \in Parser!Pointers : map1[p] = n
  <2> SUFFICES ASSUME NEW n \in 0..id PROVE \E p \in Parser!Pointers : map1[p] = n
    OBVIOUS
  <2>1. n \in 0..(unused - 1) /\ n \notin available \ {id}
    BY <1>1, <1>2
  <2> QED BY <1>8, <2>1
<1>13. id < Cardinality(Parser!Live(map1))
  BY <1>2, <1>10, <1>12, IdBelowLive
<1> QED
  BY <1>2, <1>3, <1>10, <1>11, <1>13 DEF Assigned, map1, unused

-----------------------------------------------------------------------------
(* What a line that is read and not refused does: it gives back the id      *)
(* `inId` of the pointer it consumes and assigns `outId` to the one it      *)
(* makes, NoId where there is none.                                         *)
NamesInput(l, inId) ==
  /\ inId \in RawIds \cup {NoId}
  /\ (\E ptr \in Ptrs : Consumes(l, ptr)) <=> inId # NoId
  /\ \A ptr \in Ptrs : Consumes(l, ptr) => inId = id_map[ptr] /\ id_map[ptr] # NoId

NamesOutput(l, inId, outId) ==
  /\ outId \in RawIds \cup {NoId}
  /\ (\E ptr \in Parser!Pointers : Makes(l, ptr)) <=> outId # NoId
  /\ \A ptr \in Parser!Pointers : Makes(l, ptr) =>
       id_map[ptr] = NoId \/ (ptr \in Ptrs /\ Consumes(l, ptr))
  /\ outId # NoId =>
       /\ outId = inId \/ \A ptr \in Parser!Pointers : id_map[ptr] # outId
       /\ outId \in Nat /\ outId < Cardinality(Parser!Live(id_map'))

MapFollows(l, outId) ==
  \A ptr \in Parser!Pointers :
    id_map'[ptr] = IF Makes(l, ptr) THEN outId
                     ELSE IF ptr \in Ptrs /\ Consumes(l, ptr) THEN NoId ELSE id_map[ptr]

One(id) == IF id = NoId THEN 0 ELSE 1

Taken(l, inId, outId) ==
  /\ Parser!GetLine(l)
  /\ l.op \in {"malloc", "realloc", "free"}
  /\ NamesInput(l, inId)
  /\ NamesOutput(l, inId, outId)
  /\ MapFollows(l, outId)
  /\ IdsInv(id_map', available_ids', unused_id')
  /\ unused_id' <= unused_id + 1
  /\ Cardinality(Parser!Live(id_map')) + One(inId) = Cardinality(Parser!Live(id_map)) + One(outId)
  /\ Parser!KeepIfRequired(l.pid, Parser!TraceLine(l.op, inId, outId))

Skipped(l) ==
  /\ Parser!GetLine(l)
  /\ l.op = "other"
  /\ UNCHANGED <<trace, id_map, available_ids, unused_id, required_pid,
                 max_simultaneous_allocs, parsing>>

(* An error: the trace is dropped.                                          *)
Refused == parsing' \notin {"not run", "reading", "done"}

(* What bounds the ids: one line, one id at most.                           *)
WithinLimit ==
  /\ log \in Seq(Parser!LogLines)
  /\ IdsInv(id_map, available_ids, unused_id)
  /\ unused_id <= Len(log)

LEMMA IdsAreRaw ==
  ASSUME WithinLimit, NEW l, Parser!GetLine(l)
  PROVE  /\ Len(log) < MaxOps /\ Len(log) \in Nat
         /\ \A id \in 0..unused_id : id \in RawIds
         /\ Len(log) + Cardinality(Parser!Live(id_map)) < MaxOps
         /\ Cardinality(Parser!Live(id_map)) \in Nat
<1>1. /\ Len(log) \in Nat /\ unused_id \in Nat /\ MaxOps \in Nat
      /\ Cardinality(Parser!Live(id_map)) \in Nat
  BY ParserIdsAssumption, FS_CardinalityType DEF WithinLimit, IdsInv
<1>2. Len(log) + Cardinality(Parser!Live(id_map)) < MaxOps
  BY SameCardinality DEF Parser!GetLine
<1>3. \A id \in 0..unused_id : id \in 0..MaxOps
  BY <1>1, <1>2 DEF WithinLimit
<1> QED BY <1>1, <1>2, <1>3, ParserIdsAssumption

LEMMA LogLineShape ==
  ASSUME NEW l \in Parser!LogLines
  PROVE  /\ l.op \in {"malloc", "realloc", "free", "other"}
         /\ l.op \in {"realloc", "free"} => l.in \in Parser!Pointers
         /\ l.op \in {"malloc", "realloc"} => l.out \in Parser!Pointers
BY DEF Parser!LogLines

(* The pointer a line consumes; realloc(NULL) and free(NULL) consume none.  *)
ConsumesNone(l) == l.op = "malloc" \/ l.in = NullPtr

LEMMA AssignTaken ==
  ASSUME WithinLimit, NEW l \in Parser!LogLines, l.op \in {"malloc", "realloc"},
         Parser!GetLine(l), NEW inId, NEW map, NEW available,
         Parser!AssignId(l, inId, map, available),
         \/ ConsumesNone(l) /\ inId = NoId /\ map = id_map /\ available = available_ids
         \/ /\ l.op = "realloc" /\ l.in \in Ptrs
            /\ inId = id_map[l.in] /\ inId # NoId
            /\ map = Parser!Erased(l.in, id_map)
            /\ available = available_ids \cup {inId}
  PROVE  \/ Refused
         \/ \E outId : Taken(l, inId, outId)
<1> USE NoIdAssumption, NullPtrAssumption
<1> DEFINE outId == Parser!FirstUnused(available)
<1>0. /\ l.out \in Parser!Pointers
      /\ Ptrs \subseteq Parser!Pointers /\ NullPtr \in Parser!Pointers
      /\ \A p \in Parser!Pointers : p \in Ptrs \/ p = NullPtr
  BY LogLineShape DEF Parser!Pointers
<1>i. /\ IdsInv(id_map, available_ids, unused_id) /\ unused_id \in Nat
      /\ id_map \in [Parser!Pointers -> (0..(unused_id - 1)) \cup {NoId}]
  BY DEF WithinLimit, IdsInv
<1>1. CASE map[l.out] # NoId
  BY <1>1 DEF Parser!AssignId, Parser!Fail, Refused
<1>2. CASE map[l.out] = NoId
  <2>1. /\ id_map' = [map EXCEPT ![l.out] = outId]
        /\ available_ids' = available \ {outId}
        /\ unused_id' = Parser!Advanced(available)
        /\ Parser!KeepIfRequired(l.pid, Parser!TraceLine(l.op, inId, outId))
    BY <1>2 DEF Parser!AssignId
  <2>2. /\ IdsInv(map, available, unused_id)
        /\ Cardinality(Parser!Live(map)) + One(inId) = Cardinality(Parser!Live(id_map))
        /\ inId \in (0..(unused_id - 1)) \cup {NoId}
        /\ \A p \in Parser!Pointers :
             map[p] = IF ~ConsumesNone(l) /\ p = l.in THEN NoId ELSE id_map[p]
    <3>1. CASE inId = NoId
      <4>1. Cardinality(Parser!Live(id_map)) \in Nat
        BY FS_CardinalityType DEF WithinLimit, IdsInv
      <4> QED BY <3>1, <4>1, <1>i DEF One
    <3>2. CASE inId # NoId
      <4>1. /\ l.in \in Parser!Pointers /\ id_map[l.in] # NoId /\ ~ConsumesNone(l)
            /\ map = Parser!Erased(l.in, id_map) /\ available = available_ids \cup {id_map[l.in]}
        BY <3>2, <1>0 DEF ConsumesNone
      <4>2. /\ IdsInv(map, available, unused_id)
            /\ Cardinality(Parser!Live(map)) + 1 = Cardinality(Parser!Live(id_map))
            /\ inId \in 0..(unused_id - 1)
        BY <4>1, <1>i, <3>2, ReleasedIds
      <4>3. \A p \in Parser!Pointers : map[p] = IF p = l.in THEN NoId ELSE id_map[p]
        BY <4>1, <1>i DEF Parser!Erased
      <4> QED BY <4>1, <4>2, <4>3, <3>2 DEF One
    <3> QED BY <3>1, <3>2
  <2>3. /\ IdsInv(id_map', available_ids', unused_id')
        /\ outId \in 0..unused_id
        /\ \A p \in Parser!Pointers : map[p] # outId
        /\ outId < Cardinality(Parser!Live(id_map'))
        /\ Cardinality(Parser!Live(id_map')) = Cardinality(Parser!Live(map)) + 1
        /\ unused_id' \in unused_id..(unused_id + 1)
    <3>1. outId = Parser!FirstUnused(available)
      OBVIOUS
    <3> HIDE DEF outId
    <3>2. Assigned(map, available, l.out, outId)
      BY <1>0, <1>2, <2>2, <3>1, AssignedId
    <3> QED BY <2>1, <3>2 DEF Assigned
  <2>4. map \in [Parser!Pointers -> (0..(unused_id - 1)) \cup {NoId}]
    BY <2>2 DEF IdsInv
  <2> HIDE DEF outId
  <2>5. /\ outId \in RawIds /\ inId \in RawIds \cup {NoId} /\ outId # NoId
        /\ Cardinality(Parser!Live(map)) \in Nat
    <3>1. Cardinality(Parser!Live(map)) \in Nat
      BY <2>2, FS_CardinalityType DEF IdsInv
    <3>2. \A id \in 0..unused_id : id \in RawIds
      BY IdsAreRaw
    <3>3. inId \in RawIds \cup {NoId}
      BY <1>i, <2>2, <3>2
    <3> QED BY <2>3, <3>1, <3>2, <3>3
  <2>6. \A p \in Parser!Pointers : Makes(l, p) <=> p = l.out
    BY DEF Makes
  <2>7. \A p \in Ptrs : Consumes(l, p) <=> ~ConsumesNone(l) /\ p = l.in
    BY DEF Consumes, ConsumesNone
  <2>8. NamesInput(l, inId)
    BY <2>5, <2>7, <1>0 DEF NamesInput, ConsumesNone
  <2>9. NamesOutput(l, inId, outId)
    <3>1. outId = inId \/ \A p \in Parser!Pointers : id_map[p] # outId
      BY <2>2, <2>3, <1>0
    <3>2. \A p \in Parser!Pointers : p = l.out =>
            id_map[p] = NoId \/ (p \in Ptrs /\ Consumes(l, p))
      BY <1>0, <1>2, <2>2, <2>7 DEF ConsumesNone
    <3> QED BY <1>i, <2>3, <2>5, <2>6, <1>0, <3>1, <3>2 DEF NamesOutput
  <2>10. MapFollows(l, outId)
    BY <2>1, <2>2, <2>4, <2>6, <2>7, <1>0 DEF MapFollows, ConsumesNone
  <2>11. Cardinality(Parser!Live(id_map')) + One(inId)
           = Cardinality(Parser!Live(id_map)) + One(outId)
    BY <2>2, <2>3, <2>5 DEF One
  <2>12. unused_id' <= unused_id + 1
    BY <1>i, <2>3
  <2> QED
    BY <2>1, <2>3, <2>8, <2>9, <2>10, <2>11, <2>12 DEF Taken, outId
<1> QED BY <1>1, <1>2

LEMMA FreeTaken ==
  ASSUME WithinLimit, NEW l \in Parser!LogLines, Parser!ParseFree(l)
  PROVE  \/ Refused
         \/ \E inId : Taken(l, inId, NoId)
<1> USE NoIdAssumption, NullPtrAssumption
<1>0. /\ l.op = "free" /\ Parser!GetLine(l) /\ l.in \in Parser!Pointers
      /\ Ptrs \subseteq Parser!Pointers
      /\ \A p \in Parser!Pointers : p \in Ptrs \/ p = NullPtr
  BY LogLineShape DEF Parser!Pointers, Parser!ParseFree
<1>i. /\ IdsInv(id_map, available_ids, unused_id) /\ unused_id \in Nat
      /\ id_map \in [Parser!Pointers -> (0..(unused_id - 1)) \cup {NoId}]
      /\ Cardinality(Parser!Live(id_map)) \in Nat
  BY FS_CardinalityType DEF WithinLimit, IdsInv
<1>m. /\ \A p \in Parser!Pointers : ~Makes(l, p)
      /\ \A p \in Ptrs : Consumes(l, p) <=> p = l.in
  BY <1>0 DEF Makes, Consumes
<1>1. CASE l.in = NullPtr
  <2>1. /\ UNCHANGED <<id_map, available_ids, unused_id>>
        /\ Parser!KeepIfRequired(l.pid, Parser!TraceLine(l.op, NoId, NoId))
    BY <1>0, <1>1 DEF Parser!ParseFree
  <2>2. NamesInput(l, NoId) /\ NamesOutput(l, NoId, NoId) /\ MapFollows(l, NoId)
    BY <1>m, <1>1, <2>1 DEF NamesInput, NamesOutput, MapFollows
  <2> QED BY <1>0, <1>i, <2>1, <2>2 DEF Taken, One
<1>2. CASE l.in # NullPtr /\ id_map[l.in] = NoId
  BY <1>2 DEF Parser!ParseFree, Parser!Fail, Refused
<1>3. CASE l.in # NullPtr /\ id_map[l.in] # NoId
  <2> DEFINE inId == id_map[l.in]
  <2>1. /\ id_map' = Parser!Erased(l.in, id_map)
        /\ available_ids' = available_ids \cup {id_map[l.in]}
        /\ unused_id' = unused_id
        /\ Parser!KeepIfRequired(l.pid, Parser!TraceLine(l.op, inId, NoId))
    BY <1>0, <1>3 DEF Parser!ParseFree
  <2>2. /\ IdsInv(id_map', available_ids', unused_id')
        /\ Cardinality(Parser!Live(id_map')) + 1 = Cardinality(Parser!Live(id_map))
        /\ inId \in 0..(unused_id - 1)
    BY <1>0, <1>i, <1>3, <2>1, ReleasedIds
  <2>3. \A p \in Parser!Pointers : id_map'[p] = IF p = l.in THEN NoId ELSE id_map[p]
    BY <2>1, <1>i DEF Parser!Erased
  <2>4. inId \in RawIds
    BY <1>0, <1>i, <2>2, IdsAreRaw
  <2>5. NamesInput(l, inId) /\ NamesOutput(l, inId, NoId) /\ MapFollows(l, NoId)
    BY <1>m, <1>0, <1>3, <2>3, <2>4 DEF NamesInput, NamesOutput, MapFollows
  <2>6. Cardinality(Parser!Live(id_map')) + One(inId)
          = Cardinality(Parser!Live(id_map)) + One(NoId)
    BY <1>i, <2>2, <1>3 DEF One
  <2> QED BY <1>0, <1>i, <2>1, <2>2, <2>5, <2>6 DEF Taken
<1> QED BY <1>1, <1>2, <1>3

LEMMA ReadLineEffect ==
  ASSUME WithinLimit, Parser!ReadLine
  PROVE  \/ Refused
         \/ \E l \in Parser!LogLines : Skipped(l) \/ \E inId, outId : Taken(l, inId, outId)
<1> USE NullPtrAssumption
<1>1. PICK l \in Parser!LogLines :
        Parser!ParseMalloc(l) \/ Parser!ParseRealloc(l) \/ Parser!ParseFree(l) \/ Parser!SkipLine(l)
  BY DEF Parser!ReadLine
<1>2. CASE Parser!ParseMalloc(l)
  <2>1. l.op = "malloc" /\ Parser!GetLine(l) /\ Parser!AssignId(l, NoId, id_map, available_ids)
    BY <1>2 DEF Parser!ParseMalloc
  <2> QED BY <2>1, AssignTaken DEF ConsumesNone
<1>3. CASE Parser!ParseRealloc(l)
  <2>1. l.op = "realloc" /\ Parser!GetLine(l) /\ l.in \in Parser!Pointers
    BY <1>3, LogLineShape DEF Parser!ParseRealloc
  <2>2. CASE l.in = NullPtr
    <3>1. Parser!AssignId(l, NoId, id_map, available_ids)
      BY <1>3, <2>2 DEF Parser!ParseRealloc
    <3> QED BY <2>1, <2>2, <3>1, AssignTaken DEF ConsumesNone
  <2>3. CASE l.in # NullPtr /\ id_map[l.in] = NoId
    BY <1>3, <2>3 DEF Parser!ParseRealloc, Parser!Fail, Refused
  <2>4. CASE l.in # NullPtr /\ id_map[l.in] # NoId
    <3>1. Parser!AssignId(l, id_map[l.in], Parser!Erased(l.in, id_map),
                          available_ids \cup {id_map[l.in]})
      BY <1>3, <2>4 DEF Parser!ParseRealloc
    <3>2. l.in \in Ptrs
      BY <2>1, <2>4 DEF Parser!Pointers
    <3> QED BY <2>1, <2>4, <3>1, <3>2, AssignTaken
  <2> QED BY <2>2, <2>3, <2>4
<1>4. CASE Parser!ParseFree(l)
  BY <1>4, FreeTaken
<1>5. CASE Parser!SkipLine(l)
  BY <1>5 DEF Parser!SkipLine, Skipped
<1> QED BY <1>1, <1>2, <1>3, <1>4, <1>5

-----------------------------------------------------------------------------
(* The log grows by a line, and the trace by the line it becomes.           *)
LEMMA LogGrows ==
  ASSUME log \in Seq(Parser!LogLines), NEW l \in Parser!LogLines, Parser!GetLine(l)
  PROVE  /\ log' \in Seq(Parser!LogLines)
         /\ Len(log) \in Nat /\ Len(log') = Len(log) + 1
         /\ \A i \in 1..Len(log) : log'[i] = log[i]
         /\ log'[Len(log) + 1] = l
         /\ Matched \subseteq 1..Len(log)
         /\ Matched' = IF l.op = "other" THEN Matched ELSE Matched \cup {Len(log) + 1}
         /\ parsing = "reading"
<1>1. log' = Append(log, l) /\ parsing = "reading"
  BY DEF Parser!GetLine
<1>2. /\ log' \in Seq(Parser!LogLines)
      /\ Len(log) \in Nat /\ Len(log') = Len(log) + 1
      /\ DOMAIN log = 1..Len(log) /\ DOMAIN log' = 1..(Len(log) + 1)
      /\ \A i \in 1..Len(log) : log'[i] = log[i]
      /\ log'[Len(log) + 1] = l
  BY <1>1
<1>3. Matched \subseteq 1..Len(log)
  BY <1>2 DEF Matched
<1>4. \A i : i \in 1..(Len(log) + 1) <=> i \in 1..Len(log) \/ i = Len(log) + 1
  BY <1>2
<1>5. Matched' = IF l.op = "other" THEN Matched ELSE Matched \cup {Len(log) + 1}
  BY <1>2, <1>4 DEF Matched
<1> QED BY <1>1, <1>2, <1>3, <1>5

LEMMA Places ==
  ASSUME log \in Seq(Parser!LogLines)
  PROVE  /\ IsFiniteSet(Matched) /\ Cardinality(Matched) \in Nat
         /\ Matched \subseteq 1..Len(log)
         /\ \A i \in Matched : Place(i) \in 1..Cardinality(Matched)
         /\ \A i, j \in Matched : i < j => Place(i) < Place(j)
<1>1. Matched \subseteq 1..Len(log) /\ Len(log) \in Nat
  BY DEF Matched
<1>2. IsFiniteSet(Matched) /\ Cardinality(Matched) \in Nat
  <2>1. IsFiniteSet(1..Len(log))
    BY <1>1, FS_Interval
  <2> QED BY <1>1, <2>1, FS_Subset, FS_CardinalityType
<1>n. \A k \in Matched : k \in Nat
  BY <1>1
<1> DEFINE Upto(i) == {k \in Matched : k <= i}
<1>3. \A i : IsFiniteSet(Upto(i)) /\ Cardinality(Upto(i)) \in Nat
             /\ Cardinality(Upto(i)) <= Cardinality(Matched)
  BY <1>2, FS_Subset, FS_CardinalityType
<1>p. \A i : Place(i) = Cardinality(Upto(i))
  BY DEF Place
<1>4. ASSUME NEW i \in Matched PROVE Place(i) \in 1..Cardinality(Matched)
  <2>1. i \in Upto(i)
    BY <1>n
  <2> HIDE DEF Upto
  <2>2. Cardinality(Upto(i)) # 0
    BY <2>1, <1>3, FS_EmptySet
  <2> QED BY <1>2, <1>3, <1>p, <2>2
<1>5. ASSUME NEW i \in Matched, NEW j \in Matched, i < j PROVE Place(i) < Place(j)
  <2>1. Upto(i) \subseteq Upto(j)
    BY <1>n, <1>5
  <2>2. j \in Upto(j) /\ j \notin Upto(i)
    BY <1>n, <1>5
  <2> HIDE DEF Upto
  <2>3. Cardinality(Upto(i)) <= Cardinality(Upto(j)) /\ Cardinality(Upto(i)) # Cardinality(Upto(j))
    BY <1>3, <2>1, <2>2, FS_Subset
  <2> QED BY <1>3, <1>p, <2>3
<1> QED BY <1>1, <1>2, <1>4, <1>5

LEMMA PlacesGrow ==
  ASSUME log \in Seq(Parser!LogLines), NEW l \in Parser!LogLines, Parser!GetLine(l)
  PROVE  /\ \A i \in Matched : Place(i)' = Place(i)
         /\ l.op = "other" => Cardinality(Matched)' = Cardinality(Matched)
         /\ l.op # "other" => /\ Cardinality(Matched)' = Cardinality(Matched) + 1
                              /\ \A n : n = Len(log) + 1 => Place(n)' = Cardinality(Matched) + 1
<1> SUFFICES ASSUME NEW n, n = Len(log) + 1
             PROVE  /\ \A i \in Matched : Place(i)' = Place(i)
                    /\ l.op = "other" => Cardinality(Matched)' = Cardinality(Matched)
                    /\ l.op # "other" => /\ Cardinality(Matched)' = Cardinality(Matched) + 1
                                         /\ Place(n)' = Cardinality(Matched) + 1
  OBVIOUS
<1>1. /\ Len(log) \in Nat /\ n \notin Matched /\ Matched \subseteq 1..Len(log)
      /\ Matched' = IF l.op = "other" THEN Matched ELSE Matched \cup {n}
  BY LogGrows
<1>2. IsFiniteSet(Matched) /\ Cardinality(Matched) \in Nat
  BY Places
<1>3. ASSUME NEW i \in Matched PROVE Place(i)' = Place(i)
  <2>1. i < n
    BY <1>1
  <2>2. {k \in Matched' : k <= i} = {k \in Matched : k <= i}
    BY <1>1, <2>1
  <2> QED BY <2>2 DEF Place
<1>4. CASE l.op # "other"
  <2>1. Cardinality(Matched') = Cardinality(Matched) + 1
    BY <1>1, <1>2, <1>4, FS_AddElement
  <2>2. \A k \in Matched' : k <= n
    BY <1>1, <1>4
  <2>3. {k \in Matched' : k <= n} = Matched'
    BY <2>2
  <2>4. Place(n)' = Cardinality({k \in Matched' : k <= n})
    BY <1>1 DEF Place
  <2> QED BY <1>3, <1>4, <2>1, <2>3, <2>4
<1> QED BY <1>1, <1>3, <1>4

(* Two traces with the same first n lines.                                  *)
SameStart(tr, ts, n) == \A i \in 1..n : tr[i] = ts[i]

LEMMA SameStartLive ==
  ASSUME NEW tr, NEW ts, NEW n \in Nat, SameStart(tr, ts, n),
         NEW i \in 1..(n + 1), NEW id
  PROVE  LiveBefore(tr, id, i) <=> LiveBefore(ts, id, i)
<1>1. \A j \in 1..(i - 1) : tr[j] = ts[j]
  BY DEF SameStart
<1>2. \A j \in 1..(i - 1) : \A k \in (j + 1)..(i - 1) : k \in 1..(i - 1)
  OBVIOUS
<1>3. ASSUME LiveBefore(tr, id, i) PROVE LiveBefore(ts, id, i)
  BY <1>1, <1>2, <1>3 DEF LiveBefore
<1>4. ASSUME LiveBefore(ts, id, i) PROVE LiveBefore(tr, id, i)
  BY <1>1, <1>2, <1>4 DEF LiveBefore
<1> QED BY <1>3, <1>4

Outs(tr, n) == {i \in 1..n : tr[i].out # NoId}
Ins(tr, n) == {i \in 1..n : tr[i].in # NoId}

LEMMA Counts ==
  ASSUME NEW tr, NEW n \in Nat
  PROVE  /\ IsFiniteSet(Outs(tr, n)) /\ Cardinality(Outs(tr, n)) \in Nat
         /\ IsFiniteSet(Ins(tr, n)) /\ Cardinality(Ins(tr, n)) \in Nat
         /\ LiveAfter(tr, n) = Cardinality(Outs(tr, n)) - Cardinality(Ins(tr, n))
         /\ LiveAfter(tr, n) \in Int
<1>1. IsFiniteSet(1..n) /\ Outs(tr, n) \subseteq 1..n /\ Ins(tr, n) \subseteq 1..n
  BY FS_Interval DEF Outs, Ins
<1>2. /\ IsFiniteSet(Outs(tr, n)) /\ Cardinality(Outs(tr, n)) \in Nat
      /\ IsFiniteSet(Ins(tr, n)) /\ Cardinality(Ins(tr, n)) \in Nat
  BY <1>1, FS_Subset, FS_CardinalityType
<1>3. LiveAfter(tr, n) = Cardinality(Outs(tr, n)) - Cardinality(Ins(tr, n))
  BY DEF LiveAfter, Outs, Ins
<1> QED BY <1>2, <1>3

LEMMA SameStartCounts ==
  ASSUME NEW tr, NEW ts, NEW n \in Nat, SameStart(tr, ts, n), NEW m \in 0..n
  PROVE  LiveAfter(tr, m) = LiveAfter(ts, m)
<1>1. Outs(tr, m) = Outs(ts, m) /\ Ins(tr, m) = Ins(ts, m)
  BY DEF Outs, Ins, SameStart
<1> QED BY <1>1 DEF LiveAfter, Outs, Ins

LEMMA CountsStep ==
  ASSUME NEW tr, NEW n \in Nat
  PROVE  LiveAfter(tr, n + 1) + One(tr[n + 1].in) = LiveAfter(tr, n) + One(tr[n + 1].out)
<1>1. \A i : i \in 1..(n + 1) <=> i \in 1..n \/ i = n + 1
  OBVIOUS
<1>2. n + 1 \notin Outs(tr, n) /\ n + 1 \notin Ins(tr, n)
  BY DEF Outs, Ins
<1>3. Outs(tr, n + 1) = IF tr[n + 1].out = NoId THEN Outs(tr, n) ELSE Outs(tr, n) \cup {n + 1}
  BY <1>1 DEF Outs
<1>4. Ins(tr, n + 1) = IF tr[n + 1].in = NoId THEN Ins(tr, n) ELSE Ins(tr, n) \cup {n + 1}
  BY <1>1 DEF Ins
<1>5. Cardinality(Outs(tr, n + 1)) = Cardinality(Outs(tr, n)) + One(tr[n + 1].out)
  BY <1>2, <1>3, Counts, FS_AddElement DEF One
<1>6. Cardinality(Ins(tr, n + 1)) = Cardinality(Ins(tr, n)) + One(tr[n + 1].in)
  BY <1>2, <1>4, Counts, FS_AddElement DEF One
<1>7. One(tr[n + 1].in) \in Nat /\ One(tr[n + 1].out) \in Nat
  BY DEF One
<1>8. /\ LiveAfter(tr, n) = Cardinality(Outs(tr, n)) - Cardinality(Ins(tr, n))
      /\ LiveAfter(tr, n + 1) = Cardinality(Outs(tr, n + 1)) - Cardinality(Ins(tr, n + 1))
      /\ Cardinality(Outs(tr, n)) \in Nat /\ Cardinality(Ins(tr, n)) \in Nat
  BY Counts
<1> QED BY <1>5, <1>6, <1>7, <1>8

(* Lines at the end that only release.                                      *)
LEMMA CountsFall ==
  ASSUME NEW tr, NEW m \in Nat, NEW n \in Nat, m <= n,
         \A i \in (m + 1)..n : tr[i].out = NoId
  PROVE  LiveAfter(tr, n) <= LiveAfter(tr, m)
<1>1. \A i \in 1..n : i \in 1..m \/ i \in (m + 1)..n
  OBVIOUS
<1>2. \A i \in 1..m : i \in 1..n
  OBVIOUS
<1>3. Outs(tr, n) = Outs(tr, m)
  BY <1>1, <1>2 DEF Outs
<1>4. Ins(tr, m) \subseteq Ins(tr, n)
  BY <1>2 DEF Ins
<1>5. Cardinality(Ins(tr, m)) <= Cardinality(Ins(tr, n))
  BY <1>4, Counts, FS_Subset
<1>6. /\ LiveAfter(tr, m) = Cardinality(Outs(tr, m)) - Cardinality(Ins(tr, m))
      /\ LiveAfter(tr, n) = Cardinality(Outs(tr, n)) - Cardinality(Ins(tr, n))
      /\ Cardinality(Outs(tr, m)) \in Nat
      /\ Cardinality(Ins(tr, m)) \in Nat /\ Cardinality(Ins(tr, n)) \in Nat
  BY Counts
<1> QED BY <1>3, <1>5, <1>6

-----------------------------------------------------------------------------
(* The trace while it is written, whoever's lines are in the log.           *)
TraceOK ==
  /\ trace \in Seq(Lines(RawIds))
  /\ \A i \in DOMAIN trace : WellShaped(trace[i]) /\ trace[i].op # "unset"

WithinMaxOps ==
  /\ Len(trace) <= Len(log)
  /\ Len(log) + Cardinality(Parser!Live(id_map)) <= MaxOps + 1

IdsFit ==
  /\ max_simultaneous_allocs \in Nat
  /\ \A i \in DOMAIN trace :
       trace[i].out # NoId => trace[i].out \in 0..(max_simultaneous_allocs - 1)

RequiredIsRead ==
  required_pid # NoId => \E i \in Matched : log[i].pid = required_pid

(* And in a log of one process.                                             *)
AllKept == Len(trace) = Cardinality(Matched)

LiveAreNamed ==
  \A id \in RawIds :
    LiveBefore(trace, id, Len(trace) + 1) <=> \E ptr \in Parser!Pointers : id_map[ptr] = id

ClosedSoFar(tr) ==
  \A i \in DOMAIN tr :
    /\ tr[i].in # NoId => LiveBefore(tr, tr[i].in, i)
    /\ tr[i].out # NoId => tr[i].in = tr[i].out \/ ~LiveBefore(tr, tr[i].out, i)

PeakReached(tr) ==
  /\ \A n \in 0..Len(tr) : LiveAfter(tr, n) <= max_simultaneous_allocs
  /\ \E n \in 0..Len(tr) : LiveAfter(tr, n) = max_simultaneous_allocs

LiveCounted == LiveAfter(trace, Len(trace)) = Cardinality(Parser!Live(id_map))

(* A live pointer has the id of the last line to be given it, and no later  *)
(* line has that id.                                                        *)
LastGiven ==
  \A ptr \in Ptrs : id_map[ptr] # NoId =>
    \A i \in Matched : GivenLast(i, Len(log) + 1, ptr) =>
      /\ trace[Place(i)].out = id_map[ptr]
      /\ \A n \in (Place(i) + 1)..Len(trace) : trace[n].out # id_map[ptr]

Fed(tr) ==
  \A j \in Matched :
    /\ (tr[Place(j)].in = NoId) <=> ~(\E ptr \in Ptrs : Consumes(log[j], ptr))
    /\ \A i \in Matched : i < j /\ Feeds(i, j) =>
         /\ tr[Place(j)].in = tr[Place(i)].out
         /\ \A n \in (Place(i) + 1)..(Place(j) - 1) : tr[n].out # tr[Place(i)].out

OneProcessInv ==
  /\ AllKept
  /\ LiveAreNamed
  /\ ClosedSoFar(trace)
  /\ PeakReached(trace)
  /\ LiveCounted
  /\ LastGiven
  /\ Fed(trace)

Reading ==
  /\ WithinLimit
  /\ TraceOK
  /\ WithinMaxOps
  /\ IdsFit
  /\ RequiredIsRead
  /\ OneProcess => OneProcessInv

-----------------------------------------------------------------------------
(* A line of the required process is kept; a process is required by the     *)
(* first line that matches.                                                 *)
Keeps(l, inId, outId) ==
  /\ trace' = Append(trace, Parser!TraceLine(l.op, inId, outId))
  /\ max_simultaneous_allocs' =
       Parser!Larger(max_simultaneous_allocs, Cardinality(Parser!Live(id_map')))

LEMMA TakenCases ==
  ASSUME NEW l, NEW inId, NEW outId, Taken(l, inId, outId)
  PROVE  /\ parsing' = parsing
         /\ required_pid' = IF required_pid = NoId THEN l.pid ELSE required_pid
         /\ \/ required_pid' = l.pid /\ Keeps(l, inId, outId)
            \/ /\ required_pid' # l.pid
               /\ UNCHANGED <<trace, max_simultaneous_allocs>>
<1>1. Parser!KeepIfRequired(l.pid, Parser!TraceLine(l.op, inId, outId))
  BY DEF Taken
<1> QED BY <1>1, SameCardinality DEF Parser!KeepIfRequired, Keeps

LEMMA TakenRange ==
  ASSUME Reading, NEW l \in Parser!LogLines, NEW inId, NEW outId, Taken(l, inId, outId)
  PROVE  /\ Len(log) \in Nat /\ Len(log') = Len(log) + 1 /\ Len(log) < MaxOps
         /\ log \in Seq(Parser!LogLines) /\ log' \in Seq(Parser!LogLines)
         /\ \A i \in Matched : log'[i] = log[i] /\ i \in 1..Len(log)
         /\ log'[Len(log) + 1] = l
         /\ Matched' = Matched \cup {Len(log) + 1}
         /\ parsing = "reading"
         /\ Parser!GetLine(l) /\ l.op # "other"
<1>1. Parser!GetLine(l) /\ l.op # "other"
  BY DEF Taken
<1>2. WithinLimit /\ log \in Seq(Parser!LogLines)
  BY DEF Reading, WithinLimit
<1>3. Len(log) < MaxOps
  BY <1>1, <1>2, IdsAreRaw
<1> QED BY <1>1, <1>2, <1>3, LogGrows

LEMMA KeepsRange ==
  ASSUME Reading, NEW l \in Parser!LogLines, NEW inId, NEW outId,
         Taken(l, inId, outId), Keeps(l, inId, outId)
  PROVE  /\ Len(trace) \in Nat /\ Len(trace') = Len(trace) + 1
         /\ DOMAIN trace = 1..Len(trace) /\ DOMAIN trace' = 1..(Len(trace) + 1)
         /\ trace' \in Seq(Lines(RawIds))
         /\ SameStart(trace', trace, Len(trace))
         /\ trace'[Len(trace) + 1].op = l.op
         /\ trace'[Len(trace) + 1].in = inId
         /\ trace'[Len(trace) + 1].out = outId
         /\ WellShaped(trace'[Len(trace) + 1])
<1> DEFINE line == Parser!TraceLine(l.op, inId, outId)
<1>1. trace \in Seq(Lines(RawIds)) /\ trace' = Append(trace, line)
  BY DEF Reading, TraceOK, Keeps
<1>2. inId \in RawIds \cup {NoId} /\ outId \in RawIds \cup {NoId}
      /\ l.op \in {"malloc", "realloc", "free"}
  BY DEF Taken, NamesInput, NamesOutput
<1>3. line \in Lines(RawIds) /\ line.op = l.op /\ line.in = inId /\ line.out = outId
  BY <1>2 DEF Parser!TraceLine, Lines, LineOps
<1>4. WellShaped(line)
  <2>1. l.op = "malloc" => inId = NoId
    BY DEF Taken, NamesInput, Consumes
  <2>2. l.op = "free" => outId = NoId
    BY DEF Taken, NamesOutput, Makes
  <2>3. l.op = "realloc" => outId # NoId
    <3>1. l.op = "realloc" => l.out \in Parser!Pointers
      BY LogLineShape
    <3> QED BY <3>1 DEF Taken, NamesOutput, Makes
  <2> HIDE DEF line
  <2> QED BY <1>2, <1>3, <2>1, <2>2, <2>3 DEF WellShaped
<1> HIDE DEF line
<1>5. /\ Len(trace) \in Nat /\ Len(trace') = Len(trace) + 1
      /\ DOMAIN trace = 1..Len(trace) /\ DOMAIN trace' = 1..(Len(trace) + 1)
      /\ trace' \in Seq(Lines(RawIds))
      /\ \A i \in 1..Len(trace) : trace'[i] = trace[i]
      /\ trace'[Len(trace) + 1] = line
  BY <1>1, <1>3
<1> QED BY <1>3, <1>4, <1>5 DEF SameStart

(* In a log of one process every line that matches is kept.                 *)
LEMMA OneProcessKeeps ==
  ASSUME Reading, NEW l \in Parser!LogLines, NEW inId, NEW outId, Taken(l, inId, outId),
         OneProcess'
  PROVE  Keeps(l, inId, outId) /\ OneProcess
<1>1. /\ \A i \in Matched : log'[i] = log[i]
      /\ log'[Len(log) + 1] = l
      /\ Matched' = Matched \cup {Len(log) + 1}
  BY TakenRange
<1>2. OneProcess
  BY <1>1 DEF OneProcess
<1>3. \A i \in Matched : log[i].pid = l.pid
  BY <1>1 DEF OneProcess
<1>4. required_pid' = l.pid
  BY <1>3, TakenCases DEF Reading, RequiredIsRead
<1> QED BY <1>2, <1>4, TakenCases

(* The ids in use after the line: the one it makes, and those of before     *)
(* that it does not release.                                                *)
LEMMA UsedIdsStep ==
  ASSUME Reading, NEW l \in Parser!LogLines, NEW inId, NEW outId, Taken(l, inId, outId),
         NEW id \in RawIds
  PROVE  (\E ptr \in Parser!Pointers : id_map'[ptr] = id) <=>
           outId = id \/ (inId # id /\ \E ptr \in Parser!Pointers : id_map[ptr] = id)
<1> USE NoIdAssumption
<1>1. /\ NamesInput(l, inId) /\ NamesOutput(l, inId, outId) /\ MapFollows(l, outId)
      /\ \A p, q \in Parser!Pointers : id_map[p] # NoId /\ id_map[p] = id_map[q] => p = q
      /\ Ptrs \subseteq Parser!Pointers
  BY DEF Taken, Reading, WithinLimit, IdsInv, Parser!Pointers
<1>2. ASSUME outId = id PROVE \E ptr \in Parser!Pointers : id_map'[ptr] = id
  BY <1>1, <1>2 DEF NamesOutput, MapFollows
<1>3. ASSUME inId # id, NEW ptr \in Parser!Pointers, id_map[ptr] = id, outId # id
      PROVE  id_map'[ptr] = id
  BY <1>1, <1>3 DEF NamesInput, NamesOutput, MapFollows
<1>4. ASSUME NEW ptr \in Parser!Pointers, id_map'[ptr] = id, outId # id
      PROVE  inId # id /\ id_map[ptr] = id
  <2>1. ~Makes(l, ptr) /\ ~(ptr \in Ptrs /\ Consumes(l, ptr)) /\ id_map[ptr] = id
    BY <1>1, <1>4 DEF MapFollows
  <2>2. ASSUME inId = id PROVE FALSE
    <3>1. PICK q \in Ptrs : Consumes(l, q)
      BY <1>1, <2>2 DEF NamesInput
    <3>2. id_map[q] = id /\ q \in Parser!Pointers
      BY <1>1, <2>2, <3>1 DEF NamesInput
    <3> QED BY <1>1, <2>1, <3>1, <3>2
  <2> QED BY <2>1, <2>2
<1> QED BY <1>2, <1>3, <1>4

LEMMA LimitsPreserved ==
  ASSUME Reading, NEW l \in Parser!LogLines, NEW inId, NEW outId, Taken(l, inId, outId)
  PROVE  WithinLimit' /\ TraceOK' /\ WithinMaxOps' /\ IdsFit' /\ RequiredIsRead'
<1>1. /\ Len(log) \in Nat /\ Len(log') = Len(log) + 1
      /\ log' \in Seq(Parser!LogLines)
      /\ \A i \in Matched : log'[i] = log[i]
      /\ log'[Len(log) + 1] = l
      /\ Matched' = Matched \cup {Len(log) + 1}
  BY TakenRange
<1>2. /\ Len(log) + Cardinality(Parser!Live(id_map)) < MaxOps
      /\ Cardinality(Parser!Live(id_map)) \in Nat
      /\ MaxOps \in Nat
  BY TakenRange, IdsAreRaw, ParserIdsAssumption DEF Reading
<1>3. /\ IdsInv(id_map', available_ids', unused_id')
      /\ unused_id' \in Nat /\ unused_id \in Nat /\ unused_id' <= unused_id + 1
      /\ Cardinality(Parser!Live(id_map')) \in Nat
      /\ Cardinality(Parser!Live(id_map')) <= Cardinality(Parser!Live(id_map)) + 1
  <2>1. IdsInv(id_map', available_ids', unused_id') /\ unused_id' <= unused_id + 1
        /\ Cardinality(Parser!Live(id_map')) + One(inId)
             = Cardinality(Parser!Live(id_map)) + One(outId)
    BY DEF Taken
  <2>2. Cardinality(Parser!Live(id_map')) \in Nat /\ unused_id' \in Nat /\ unused_id \in Nat
    BY <2>1, FS_CardinalityType DEF IdsInv, Reading, WithinLimit
  <2>3. One(inId) \in 0..1 /\ One(outId) \in 0..1
    BY DEF One
  <2> QED BY <1>2, <2>1, <2>2, <2>3
<1>4. WithinLimit'
  BY <1>1, <1>3 DEF Reading, WithinLimit
<1>5. RequiredIsRead'
  <2>1. required_pid' = IF required_pid = NoId THEN l.pid ELSE required_pid
    BY TakenCases
  <2>2. required_pid = NoId => \E i \in Matched' : log'[i].pid = required_pid'
    BY <1>1, <2>1
  <2>3. required_pid # NoId => \E i \in Matched' : log'[i].pid = required_pid'
    BY <1>1, <2>1 DEF Reading, RequiredIsRead
  <2> QED BY <2>2, <2>3 DEF RequiredIsRead
<1>6. CASE UNCHANGED <<trace, max_simultaneous_allocs>>
  <2>1. TraceOK' /\ IdsFit'
    BY <1>6 DEF Reading, TraceOK, IdsFit
  <2>2. WithinMaxOps'
    BY <1>1, <1>2, <1>3, <1>6 DEF Reading, TraceOK, WithinMaxOps
  <2> QED BY <1>4, <1>5, <2>1, <2>2
<1>7. CASE Keeps(l, inId, outId)
  <2> DEFINE live == Cardinality(Parser!Live(id_map'))
  <2>1. /\ Len(trace) \in Nat /\ Len(trace') = Len(trace) + 1
        /\ DOMAIN trace = 1..Len(trace) /\ DOMAIN trace' = 1..(Len(trace) + 1)
        /\ trace' \in Seq(Lines(RawIds))
        /\ \A i \in 1..Len(trace) : trace'[i] = trace[i]
        /\ trace'[Len(trace) + 1].op = l.op
        /\ trace'[Len(trace) + 1].out = outId
        /\ WellShaped(trace'[Len(trace) + 1])
    BY <1>7, KeepsRange DEF SameStart
  <2>2. TraceOK'
    <3>1. l.op # "unset"
      BY DEF Taken
    <3> QED BY <2>1, <3>1 DEF Reading, TraceOK
  <2>3. WithinMaxOps'
    BY <1>1, <1>2, <1>3, <2>1 DEF Reading, WithinMaxOps
  <2>4. /\ live \in Nat
        /\ max_simultaneous_allocs \in Nat /\ max_simultaneous_allocs' \in Nat
        /\ max_simultaneous_allocs <= max_simultaneous_allocs'
        /\ live <= max_simultaneous_allocs'
    <3>1. max_simultaneous_allocs' = Parser!Larger(max_simultaneous_allocs, live)
          /\ max_simultaneous_allocs \in Nat /\ live \in Nat
      BY <1>3, <1>7 DEF Keeps, Reading, IdsFit
    <3> HIDE DEF live
    <3> QED BY <3>1 DEF Parser!Larger
  <2>5. IdsFit'
    <3> SUFFICES ASSUME NEW i \in DOMAIN trace', trace'[i].out # NoId
                 PROVE  trace'[i].out \in 0..(max_simultaneous_allocs' - 1)
      BY <2>4 DEF IdsFit
    <3>1. CASE i \in 1..Len(trace)
      <4>1. trace[i].out \in 0..(max_simultaneous_allocs - 1) /\ trace'[i].out = trace[i].out
        BY <2>1, <3>1 DEF Reading, IdsFit
      <4> QED BY <2>4, <4>1
    <3>2. CASE i = Len(trace) + 1
      <4>1. outId # NoId /\ trace'[i].out = outId
        BY <2>1, <3>2
      <4>2. outId < live /\ outId \in Nat
        BY <4>1 DEF Taken, NamesOutput
      <4> HIDE DEF live
      <4> QED BY <2>4, <4>1, <4>2
    <3> QED BY <2>1, <3>1, <3>2
  <2> QED BY <1>4, <1>5, <2>2, <2>3, <2>5
<1> QED BY <1>6, <1>7, TakenCases

-----------------------------------------------------------------------------
(* A log of one process: the state a kept line is read in, and its step.    *)
Kept(l, inId, outId) ==
  /\ Reading
  /\ OneProcess /\ OneProcessInv
  /\ l \in Parser!LogLines
  /\ Taken(l, inId, outId)
  /\ Keeps(l, inId, outId)

LEMMA KeptRange ==
  ASSUME NEW l, NEW inId, NEW outId, Kept(l, inId, outId)
  PROVE  /\ Len(trace) \in Nat /\ Len(trace') = Len(trace) + 1
         /\ DOMAIN trace = 1..Len(trace) /\ DOMAIN trace' = 1..(Len(trace) + 1)
         /\ SameStart(trace', trace, Len(trace))
         /\ \A i \in 1..Len(trace) : trace'[i] = trace[i]
         /\ trace'[Len(trace) + 1].in = inId
         /\ trace'[Len(trace) + 1].out = outId
         /\ inId \in RawIds \cup {NoId} /\ outId \in RawIds \cup {NoId}
BY KeepsRange DEF Kept, SameStart, Taken, NamesInput, NamesOutput

LEMMA LiveAreNamedPreserved ==
  ASSUME NEW l, NEW inId, NEW outId, Kept(l, inId, outId)
  PROVE  LiveAreNamed'
<1> DEFINE n == Len(trace) + 1
<1>1. n \in Nat \ {0} /\ Len(trace') = n
  BY KeptRange
<1> SUFFICES ASSUME NEW id \in RawIds
             PROVE  LiveBefore(trace', id, n + 1)
                      <=> \E ptr \in Parser!Pointers : id_map'[ptr] = id
  BY <1>1 DEF LiveAreNamed, LiveBefore
<1>2. LiveBefore(trace', id, n + 1) <=> outId = id \/ (LiveBefore(trace', id, n) /\ inId # id)
  BY <1>1, KeptRange, LiveStep
<1>3. LiveBefore(trace', id, n) <=> LiveBefore(trace, id, n)
  BY KeptRange, SameStartLive
<1>4. LiveBefore(trace, id, n) <=> \E ptr \in Parser!Pointers : id_map[ptr] = id
  BY DEF Kept, OneProcessInv, LiveAreNamed
<1> HIDE DEF n
<1> QED BY <1>2, <1>3, <1>4, UsedIdsStep DEF Kept

LEMMA ClosedSoFarPreserved ==
  ASSUME NEW l, NEW inId, NEW outId, Kept(l, inId, outId)
  PROVE  ClosedSoFar(trace')
<1> USE NoIdAssumption
<1> DEFINE n == Len(trace) + 1
<1>1. /\ Len(trace) \in Nat /\ n \in Nat \ {0} /\ Len(trace') = n
      /\ DOMAIN trace = 1..Len(trace) /\ DOMAIN trace' = 1..n
  BY KeptRange
<1>2. ASSUME NEW i \in 1..Len(trace)
      PROVE  /\ trace'[i].in # NoId => LiveBefore(trace', trace'[i].in, i)
             /\ trace'[i].out # NoId =>
                  trace'[i].in = trace'[i].out \/ ~LiveBefore(trace', trace'[i].out, i)
  <2>1. trace'[i] = trace[i] /\ i \in 1..n /\ i \in DOMAIN trace
    BY <1>1, KeptRange
  <2>2. \A id : LiveBefore(trace', id, i) <=> LiveBefore(trace, id, i)
    BY <2>1, KeptRange, SameStartLive
  <2>3. /\ trace[i].in # NoId => LiveBefore(trace, trace[i].in, i)
        /\ trace[i].out # NoId =>
             trace[i].in = trace[i].out \/ ~LiveBefore(trace, trace[i].out, i)
    BY <2>1 DEF Kept, OneProcessInv, ClosedSoFar
  <2> QED BY <2>1, <2>2, <2>3
<1>3. \A id \in RawIds : LiveBefore(trace', id, n) <=>
                           \E ptr \in Parser!Pointers : id_map[ptr] = id
  <2>1. \A id : LiveBefore(trace', id, n) <=> LiveBefore(trace, id, n)
    BY KeptRange, SameStartLive
  <2> QED BY <2>1 DEF Kept, OneProcessInv, LiveAreNamed
<1>4. trace'[n].in = inId /\ trace'[n].out = outId
      /\ inId \in RawIds \cup {NoId} /\ outId \in RawIds \cup {NoId}
  BY KeptRange
<1>5. inId # NoId => \E ptr \in Parser!Pointers : id_map[ptr] = inId
  BY DEF Kept, Taken, NamesInput, Parser!Pointers
<1>6. outId # NoId => inId = outId \/ ~ \E ptr \in Parser!Pointers : id_map[ptr] = outId
  BY DEF Kept, Taken, NamesOutput
<1>7. /\ trace'[n].in # NoId => LiveBefore(trace', trace'[n].in, n)
      /\ trace'[n].out # NoId =>
           trace'[n].in = trace'[n].out \/ ~LiveBefore(trace', trace'[n].out, n)
  BY <1>3, <1>4, <1>5, <1>6
<1> QED BY <1>1, <1>2, <1>7 DEF ClosedSoFar

LEMMA PeakPreserved ==
  ASSUME NEW l, NEW inId, NEW outId, Kept(l, inId, outId)
  PROVE  PeakReached(trace)' /\ LiveCounted'
<1> DEFINE n == Len(trace) + 1
           live == Cardinality(Parser!Live(id_map))
           live1 == Cardinality(Parser!Live(id_map'))
<1>1. Len(trace) \in Nat /\ n \in Nat /\ Len(trace') = n
  BY KeptRange
<1>2. /\ live \in Nat /\ live1 \in Nat /\ live1 + One(inId) = live + One(outId)
      /\ max_simultaneous_allocs \in Nat
      /\ max_simultaneous_allocs' = Parser!Larger(max_simultaneous_allocs, live1)
  <2>1. IsFiniteSet(Parser!Live(id_map)) /\ IsFiniteSet(Parser!Live(id_map'))
    BY DEF Kept, Taken, Reading, WithinLimit, IdsInv
  <2> QED BY <2>1, FS_CardinalityType DEF Kept, Taken, Keeps, Reading, IdsFit
<1>3. \A m \in 0..Len(trace) : LiveAfter(trace', m) = LiveAfter(trace, m)
  BY <1>1, KeptRange, SameStartCounts
<1>4. LiveAfter(trace', n) = live1
  <2>1. LiveAfter(trace', n) + One(inId) = LiveAfter(trace', Len(trace)) + One(outId)
    BY <1>1, KeptRange, CountsStep
  <2>2. LiveAfter(trace', Len(trace)) = live
    BY <1>1, <1>3 DEF Kept, OneProcessInv, LiveCounted
  <2>3. One(inId) \in Nat /\ One(outId) \in Nat /\ LiveAfter(trace', n) \in Int
    BY <1>1, Counts DEF One
  <2> HIDE DEF live, live1, n
  <2> QED BY <1>2, <2>1, <2>2, <2>3
<1> HIDE DEF live, live1
<1>5. LiveCounted'
  BY <1>1, <1>4 DEF LiveCounted, live1
<1>6. \A m \in 0..Len(trace) : LiveAfter(trace, m) <= max_simultaneous_allocs
                               /\ LiveAfter(trace, m) \in Int
  BY <1>1, Counts DEF Kept, OneProcessInv, PeakReached
<1>7. PICK top \in 0..Len(trace) : LiveAfter(trace, top) = max_simultaneous_allocs
  BY DEF Kept, OneProcessInv, PeakReached
<1>8. /\ max_simultaneous_allocs' \in Nat
      /\ max_simultaneous_allocs <= max_simultaneous_allocs' /\ live1 <= max_simultaneous_allocs'
      /\ max_simultaneous_allocs' = max_simultaneous_allocs \/ max_simultaneous_allocs' = live1
  BY <1>2 DEF Parser!Larger
<1>9. ASSUME NEW m \in 0..n PROVE LiveAfter(trace', m) <= max_simultaneous_allocs'
  <2>1. CASE m \in 0..Len(trace)
    <3>1. LiveAfter(trace', m) \in Int /\ LiveAfter(trace', m) <= max_simultaneous_allocs
      BY <1>3, <1>6, <2>1
    <3> QED BY <1>2, <1>8, <3>1
  <2>2. CASE m = n
    BY <1>4, <1>8, <2>2
  <2> QED BY <1>1, <2>1, <2>2
<1>10. \E m \in 0..n : LiveAfter(trace', m) = max_simultaneous_allocs'
  <2>1. CASE max_simultaneous_allocs' = max_simultaneous_allocs
    BY <1>1, <1>3, <1>7, <2>1
  <2>2. CASE max_simultaneous_allocs' = live1
    BY <1>1, <1>4, <2>2
  <2> QED BY <1>8, <2>1, <2>2
<1>11. PeakReached(trace)'
  BY <1>1, <1>9, <1>10 DEF PeakReached
<1> QED BY <1>5, <1>11

(* The lines of the log stay where they were, and the new one is last.      *)
LEMMA KeptPlaces ==
  ASSUME NEW l, NEW inId, NEW outId, Kept(l, inId, outId), NEW n, n = Len(log) + 1
  PROVE  /\ Len(log) \in Nat /\ n \in Nat /\ n \notin Matched
         /\ Matched' = Matched \cup {n} /\ log'[n] = l /\ Len(log') = n
         /\ \A i \in Matched : i \in Nat /\ i < n /\ log'[i] = log[i]
         /\ \A i \in Matched : Place(i)' = Place(i) /\ Place(i) \in 1..Len(trace)
         /\ Place(n)' = Len(trace) + 1
         /\ \A i, j \in Matched : i < j => Place(i) < Place(j)
<1>1. /\ Len(log) \in Nat /\ log \in Seq(Parser!LogLines) /\ Len(log') = Len(log) + 1
      /\ Matched' = Matched \cup {n} /\ log'[n] = l
      /\ \A i \in Matched : log'[i] = log[i] /\ i \in 1..Len(log)
      /\ l \in Parser!LogLines /\ Parser!GetLine(l) /\ l.op # "other"
  BY TakenRange DEF Kept
<1>2. Cardinality(Matched) = Len(trace)
  BY DEF Kept, OneProcessInv, AllKept
<1>3. /\ \A i \in Matched : Place(i)' = Place(i)
      /\ Place(n)' = Cardinality(Matched) + 1
  BY <1>1, PlacesGrow
<1>4. /\ \A i \in Matched : Place(i) \in 1..Cardinality(Matched)
      /\ \A i, j \in Matched : i < j => Place(i) < Place(j)
  BY <1>1, Places
<1> QED BY <1>1, <1>2, <1>3, <1>4

LEMMA AllKeptPreserved ==
  ASSUME NEW l, NEW inId, NEW outId, Kept(l, inId, outId)
  PROVE  AllKept'
<1>1. /\ log \in Seq(Parser!LogLines) /\ l \in Parser!LogLines
      /\ Parser!GetLine(l) /\ l.op # "other"
  BY TakenRange DEF Kept
<1>2. Cardinality(Matched)' = Cardinality(Matched) + 1
  BY <1>1, PlacesGrow
<1> QED
  BY <1>2, KeptRange DEF Kept, OneProcessInv, AllKept

(* What the last line to be given a pointer is, before and after the line.  *)
LEMMA GivenLastStep ==
  ASSUME NEW l, NEW inId, NEW outId, Kept(l, inId, outId), NEW n, n = Len(log) + 1,
         NEW i \in Matched, NEW ptr
  PROVE  /\ \A j \in Matched \cup {n} : GivenLast(i, j, ptr)' <=> GivenLast(i, j, ptr)
         /\ GivenLast(i, n + 1, ptr)' <=> GivenLast(i, n, ptr) /\ ~Makes(l, ptr)
<1>1. /\ n \in Nat /\ Matched' = Matched \cup {n} /\ log'[n] = l
      /\ \A k \in Matched : k \in Nat /\ k < n /\ log'[k] = log[k]
  BY KeptPlaces
<1>2. ASSUME NEW j \in Matched \cup {n} PROVE GivenLast(i, j, ptr)' <=> GivenLast(i, j, ptr)
  <2>1. ~(n < j)
    BY <1>1
  <2> QED BY <1>1, <2>1 DEF GivenLast, Makes
<1>3. GivenLast(i, n + 1, ptr)' <=> GivenLast(i, n, ptr) /\ ~Makes(l, ptr)
  <2>1. i < n /\ n < n + 1 /\ \A k \in Matched : k < n + 1 /\ k < n
    BY <1>1
  <2> QED BY <1>1, <2>1 DEF GivenLast, Makes
<1> QED BY <1>2, <1>3

LEMMA LastGivenPreserved ==
  ASSUME NEW l, NEW inId, NEW outId, Kept(l, inId, outId)
  PROVE  LastGiven'
<1> USE NoIdAssumption
<1> SUFFICES ASSUME NEW n, n = Len(log) + 1 PROVE LastGiven'
  OBVIOUS
<1>1. /\ Len(log) \in Nat /\ n \in Nat /\ Len(log') = n /\ n \notin Matched
      /\ Matched' = Matched \cup {n} /\ log'[n] = l
      /\ \A i \in Matched : Place(i)' = Place(i) /\ Place(i) \in 1..Len(trace)
      /\ Place(n)' = Len(trace) + 1
  BY KeptPlaces
<1>2. /\ Len(trace) \in Nat /\ Len(trace') = Len(trace) + 1
      /\ \A i \in 1..Len(trace) : trace'[i] = trace[i]
      /\ trace'[Len(trace) + 1].out = outId
  BY KeptRange
<1>3. /\ NamesOutput(l, inId, outId) /\ MapFollows(l, outId)
      /\ \A p, q \in Parser!Pointers : id_map'[p] # NoId /\ id_map'[p] = id_map'[q] => p = q
      /\ Ptrs \subseteq Parser!Pointers
  BY DEF Kept, Taken, IdsInv, Parser!Pointers
<1> SUFFICES ASSUME NEW ptr \in Ptrs, id_map'[ptr] # NoId,
                    NEW i \in Matched \cup {n}, GivenLast(i, n + 1, ptr)'
             PROVE  /\ trace'[Place(i)'].out = id_map'[ptr]
                    /\ \A m \in (Place(i)' + 1)..Len(trace') : trace'[m].out # id_map'[ptr]
  BY <1>1 DEF LastGiven
<1>4. CASE i = n
  <2>1. Makes(l, ptr) /\ Place(i)' = Len(trace) + 1
    BY <1>1, <1>4 DEF GivenLast, Makes
  <2>2. id_map'[ptr] = outId
    BY <1>3, <2>1 DEF MapFollows
  <2> QED BY <1>2, <2>1, <2>2
<1>5. CASE i \in Matched
  <2>1. GivenLast(i, n, ptr) /\ ~Makes(l, ptr)
    BY <1>5, GivenLastStep
  <2>2. id_map'[ptr] = id_map[ptr]
    BY <1>3, <2>1 DEF MapFollows
  <2>3. /\ trace[Place(i)].out = id_map[ptr]
        /\ \A m \in (Place(i) + 1)..Len(trace) : trace[m].out # id_map[ptr]
    BY <1>1, <1>5, <2>1, <2>2 DEF Kept, OneProcessInv, LastGiven
  <2>4. outId # id_map[ptr]
    <3>1. CASE outId = NoId
      BY <2>2, <3>1
    <3>2. CASE outId # NoId
      <4>1. PICK q \in Parser!Pointers : Makes(l, q)
        BY <1>3, <3>2 DEF NamesOutput
      <4>2. id_map'[q] = outId /\ q # ptr
        BY <1>3, <2>1, <4>1 DEF MapFollows
      <4> QED BY <1>3, <2>2, <4>2
    <3> QED BY <3>1, <3>2
  <2>5. Place(i)' = Place(i) /\ Place(i) \in 1..Len(trace)
    BY <1>1, <1>5
  <2>6. \A m \in (Place(i) + 1)..(Len(trace) + 1) :
          m = Len(trace) + 1 \/ (m \in (Place(i) + 1)..Len(trace) /\ m \in 1..Len(trace))
    BY <1>2, <2>5
  <2> QED BY <1>2, <2>2, <2>3, <2>4, <2>5, <2>6
<1> QED BY <1>4, <1>5

LEMMA FedPreserved ==
  ASSUME NEW l, NEW inId, NEW outId, Kept(l, inId, outId)
  PROVE  Fed(trace)'
<1> USE NoIdAssumption
<1> SUFFICES ASSUME NEW n, n = Len(log) + 1 PROVE Fed(trace)'
  OBVIOUS
<1>1. /\ n \in Nat /\ n \notin Matched
      /\ Matched' = Matched \cup {n} /\ log'[n] = l
      /\ \A i \in Matched : i \in Nat /\ i < n /\ log'[i] = log[i]
      /\ \A i \in Matched : Place(i)' = Place(i) /\ Place(i) \in 1..Len(trace)
      /\ Place(n)' = Len(trace) + 1
  BY KeptPlaces
<1>2. /\ Len(trace) \in Nat /\ Len(trace') = Len(trace) + 1
      /\ \A i \in 1..Len(trace) : trace'[i] = trace[i]
      /\ trace'[Len(trace) + 1].in = inId
  BY KeptRange
<1>3. NamesInput(l, inId)
  BY DEF Kept, Taken
<1>4. ASSUME NEW i \in Matched, NEW j \in Matched \cup {n}, i < j, Feeds(i, j)'
      PROVE  \E ptr \in Ptrs : Consumes(log'[j], ptr) /\ GivenLast(i, j, ptr)
  BY <1>4, GivenLastStep DEF Feeds
<1>5. ASSUME NEW j \in Matched
      PROVE  /\ (trace'[Place(j)'].in = NoId) <=> ~(\E ptr \in Ptrs : Consumes(log'[j], ptr))
             /\ \A i \in Matched' : i < j /\ Feeds(i, j)' =>
                  /\ trace'[Place(j)'].in = trace'[Place(i)'].out
                  /\ \A m \in (Place(i)' + 1)..(Place(j)' - 1) :
                       trace'[m].out # trace'[Place(i)'].out
  <2>1. Place(j)' = Place(j) /\ Place(j) \in 1..Len(trace) /\ trace'[Place(j)] = trace[Place(j)]
        /\ log'[j] = log[j] /\ ~(n < j)
    BY <1>1, <1>2
  <2>2. (trace[Place(j)].in = NoId) <=> ~(\E ptr \in Ptrs : Consumes(log[j], ptr))
    BY DEF Kept, OneProcessInv, Fed
  <2>3. ASSUME NEW i \in Matched, i < j, Feeds(i, j)'
        PROVE  /\ trace'[Place(j)'].in = trace'[Place(i)'].out
               /\ \A m \in (Place(i)' + 1)..(Place(j)' - 1) :
                    trace'[m].out # trace'[Place(i)'].out
    <3>1. Feeds(i, j)
      BY <1>4, <2>1, <2>3 DEF Feeds
    <3>2. /\ trace[Place(j)].in = trace[Place(i)].out
          /\ \A m \in (Place(i) + 1)..(Place(j) - 1) : trace[m].out # trace[Place(i)].out
      BY <2>3, <3>1 DEF Kept, OneProcessInv, Fed
    <3>3. Place(i)' = Place(i) /\ Place(i) \in 1..Len(trace) /\ trace'[Place(i)] = trace[Place(i)]
      BY <1>1, <1>2
    <3>4. \A m \in (Place(i) + 1)..(Place(j) - 1) : m \in 1..Len(trace)
      BY <1>2, <2>1, <3>3
    <3> QED BY <1>2, <2>1, <3>2, <3>3, <3>4
  <2> QED BY <1>1, <2>1, <2>2, <2>3
<1>6. /\ (trace'[Place(n)'].in = NoId) <=> ~(\E ptr \in Ptrs : Consumes(log'[n], ptr))
      /\ \A i \in Matched' : i < n /\ Feeds(i, n)' =>
           /\ trace'[Place(n)'].in = trace'[Place(i)'].out
           /\ \A m \in (Place(i)' + 1)..(Place(n)' - 1) :
                trace'[m].out # trace'[Place(i)'].out
  <2>1. (inId = NoId) <=> ~(\E ptr \in Ptrs : Consumes(l, ptr))
    BY <1>3 DEF NamesInput
  <2>2. ASSUME NEW i \in Matched, Feeds(i, n)'
        PROVE  /\ inId = trace'[Place(i)'].out
               /\ \A m \in (Place(i)' + 1)..Len(trace) :
                    trace'[m].out # trace'[Place(i)'].out
    <3>1. PICK ptr \in Ptrs : Consumes(l, ptr) /\ GivenLast(i, n, ptr)
      BY <1>1, <1>4, <2>2
    <3>2. inId = id_map[ptr] /\ id_map[ptr] # NoId
      BY <1>3, <3>1 DEF NamesInput
    <3>3. /\ trace[Place(i)].out = id_map[ptr]
          /\ \A m \in (Place(i) + 1)..Len(trace) : trace[m].out # id_map[ptr]
      BY <3>1, <3>2 DEF Kept, OneProcessInv, LastGiven
    <3>4. Place(i)' = Place(i) /\ Place(i) \in 1..Len(trace) /\ trace'[Place(i)] = trace[Place(i)]
      BY <1>1, <1>2
    <3>5. \A m \in (Place(i) + 1)..Len(trace) : m \in 1..Len(trace)
      BY <1>2, <3>4
    <3> QED BY <1>2, <3>2, <3>3, <3>4, <3>5
  <2>3. Place(n)' - 1 = Len(trace)
    BY <1>1, <1>2
  <2>4. trace'[Place(n)'].in = inId
    BY <1>1, <1>2
  <2>5. ~(n < n)
    BY <1>1
  <2> QED BY <1>1, <2>1, <2>2, <2>3, <2>4, <2>5
<1> QED BY <1>1, <1>5, <1>6 DEF Fed

LEMMA TakenPreserves ==
  ASSUME Reading, NEW l \in Parser!LogLines, NEW inId, NEW outId, Taken(l, inId, outId)
  PROVE  Reading' /\ parsing' = "reading"
<1>1. WithinLimit' /\ TraceOK' /\ WithinMaxOps' /\ IdsFit' /\ RequiredIsRead'
  BY LimitsPreserved
<1>2. ASSUME OneProcess' PROVE OneProcessInv'
  <2>1. Kept(l, inId, outId)
    BY <1>2, OneProcessKeeps DEF Kept, Reading
  <2>2. ClosedSoFar(trace)'
    <3>1. ClosedSoFar(trace')
      BY <2>1, ClosedSoFarPreserved
    <3> QED BY <3>1 DEF ClosedSoFar, LiveBefore
  <2> QED
    BY <2>1, <2>2, AllKeptPreserved, LiveAreNamedPreserved, PeakPreserved,
       LastGivenPreserved, FedPreserved DEF OneProcessInv
<1>3. parsing' = "reading"
  BY TakenRange, TakenCases
<1> QED BY <1>1, <1>2, <1>3 DEF Reading

(* A line that is not one of an operation only lengthens the log.           *)
LEMMA SkippedPreserves ==
  ASSUME Reading, NEW l \in Parser!LogLines, Skipped(l)
  PROVE  Reading' /\ parsing' = "reading"
<1>1. /\ UNCHANGED <<trace, id_map, available_ids, unused_id, required_pid,
                     max_simultaneous_allocs, parsing>>
      /\ Parser!GetLine(l) /\ l.op = "other" /\ log \in Seq(Parser!LogLines)
  BY DEF Skipped, Reading, WithinLimit
<1>2. /\ log' \in Seq(Parser!LogLines)
      /\ Len(log) \in Nat /\ Len(log') = Len(log) + 1
      /\ \A i \in Matched : log'[i] = log[i] /\ i \in 1..Len(log)
      /\ Matched' = Matched
      /\ parsing = "reading"
      /\ Cardinality(Matched)' = Cardinality(Matched)
      /\ \A i \in Matched : Place(i)' = Place(i)
  BY <1>1, LogGrows, PlacesGrow
<1>3. /\ Len(log) + Cardinality(Parser!Live(id_map)) < MaxOps
      /\ Cardinality(Parser!Live(id_map)) \in Nat /\ MaxOps \in Nat /\ unused_id \in Nat
  BY <1>1, IdsAreRaw, ParserIdsAssumption DEF Reading, WithinLimit, IdsInv
<1>4. WithinLimit' /\ RequiredIsRead'
  BY <1>1, <1>2, <1>3 DEF Reading, WithinLimit, RequiredIsRead, IdsInv
<1>5. TraceOK' /\ IdsFit'
  BY <1>1 DEF Reading, TraceOK, IdsFit
<1>6. WithinMaxOps'
  <2>1. Len(trace) \in Nat
    BY DEF Reading, TraceOK
  <2> QED BY <1>1, <1>2, <1>3, <2>1 DEF Reading, WithinMaxOps
<1>7. ASSUME OneProcess' PROVE OneProcessInv'
  <2>1. OneProcessInv
    BY <1>2, <1>7 DEF OneProcess, Reading
  <2>2. AllKept' /\ LiveAreNamed' /\ ClosedSoFar(trace)' /\ PeakReached(trace)' /\ LiveCounted'
    <3>1. trace' = trace /\ id_map' = id_map
          /\ max_simultaneous_allocs' = max_simultaneous_allocs
      BY <1>1
    <3>2. AllKept'
      BY <1>2, <2>1, <3>1 DEF OneProcessInv, AllKept
    <3>3. LiveAreNamed'
      BY <2>1, <3>1 DEF OneProcessInv, LiveAreNamed, LiveBefore
    <3>4. ClosedSoFar(trace)'
      BY <2>1, <3>1 DEF OneProcessInv, ClosedSoFar, LiveBefore
    <3>5. PeakReached(trace)' /\ LiveCounted'
      BY <2>1, <3>1 DEF OneProcessInv, PeakReached, LiveCounted, LiveAfter, Parser!Live
    <3> QED BY <3>2, <3>3, <3>4, <3>5
  <2>3. ASSUME NEW i \in Matched, NEW j \in Matched, NEW ptr
        PROVE  GivenLast(i, j, ptr)' <=> GivenLast(i, j, ptr)
    BY <1>2 DEF GivenLast
  <2>4. ASSUME NEW i \in Matched, NEW j, NEW k, NEW ptr, j = Len(log) + 1, k = j + 1
        PROVE  GivenLast(i, k, ptr)' => GivenLast(i, j, ptr)
    <3>1. \A m \in Matched : m < j => m < k
      BY <1>2, <2>4
    <3> QED BY <1>2, <3>1 DEF GivenLast
  <2>5. LastGiven'
    <3> SUFFICES ASSUME NEW j, NEW k, j = Len(log) + 1, k = j + 1
                 PROVE  LastGiven'
      OBVIOUS
    <3>1. k = Len(log') + 1
      BY <1>2
    <3>2. ASSUME NEW ptr \in Ptrs, id_map[ptr] # NoId, NEW i \in Matched, GivenLast(i, k, ptr)'
          PROVE  /\ trace[Place(i)].out = id_map[ptr]
                 /\ \A n \in (Place(i) + 1)..Len(trace) : trace[n].out # id_map[ptr]
      <4>1. GivenLast(i, j, ptr)
        BY <2>4, <3>2
      <4> QED BY <2>1, <3>2, <4>1 DEF OneProcessInv, LastGiven
    <3> QED BY <1>1, <1>2, <3>1, <3>2 DEF LastGiven
  <2>6. Fed(trace)'
    BY <1>1, <1>2, <2>1, <2>3 DEF OneProcessInv, Fed, Feeds
  <2> QED BY <2>2, <2>5, <2>6 DEF OneProcessInv
<1> QED BY <1>1, <1>2, <1>4, <1>5, <1>6, <1>7 DEF Reading

-----------------------------------------------------------------------------
(* What the parser hands over: its trace and a free of every live pointer.  *)
Handed ==
  /\ log \in Seq(Parser!LogLines)
  /\ Len(raw) <= MaxOps + 1
  /\ max_simultaneous_allocs \in Nat
  /\ \A i \in DOMAIN raw :
       raw[i].out # NoId => raw[i].out \in 0..(max_simultaneous_allocs - 1)
  /\ OneProcess =>
       /\ ClosedTrace(raw)
       /\ PeakReached(raw)
       /\ Fed(raw)
       /\ \A i \in Matched : Place(i) \in DOMAIN raw

(* The frees come in some order, one for every live pointer.                *)
Frees(order, tr) ==
  /\ order \in [1..Cardinality(Parser!Live(id_map)) -> Parser!Live(id_map)]
  /\ \A ptr \in Parser!Live(id_map) : \E k \in DOMAIN order : order[k] = ptr
  /\ tr = trace \o [k \in DOMAIN order |-> Parser!TraceLine("free", id_map[order[k]], NoId)]

(* The c frees after the n lines of the trace.                              *)
FreesAfter(order, tr, n, c) ==
  /\ n \in Nat /\ c \in Nat /\ Len(tr) = n + c
  /\ tr \in Seq(Lines(RawIds)) /\ DOMAIN tr = 1..(n + c)
  /\ \A i \in DOMAIN tr : WellShaped(tr[i]) /\ tr[i].op # "unset"
  /\ SameStart(tr, trace, n) /\ DOMAIN trace = 1..n
  /\ \A k \in 1..c : /\ order[k] \in Parser!Pointers
                     /\ id_map[order[k]] \in RawIds /\ id_map[order[k]] # NoId
                     /\ tr[n + k].in = id_map[order[k]]
  /\ \A i \in (n + 1)..(n + c) :
       i - n \in 1..c /\ tr[i].in = id_map[order[i - n]] /\ tr[i].out = NoId
  /\ \A p \in Parser!Live(id_map) : \E k \in 1..c : order[k] = p
  /\ \A j, k \in 1..c : order[j] = order[k] => j = k

LEMMA FreesRange ==
  ASSUME Reading, NEW order, NEW tr, Frees(order, tr),
         NEW c, c = Cardinality(Parser!Live(id_map)), NEW n, n = Len(trace)
  PROVE  FreesAfter(order, tr, n, c)
<1> USE NoIdAssumption
<1> DEFINE L == Parser!Live(id_map)
           frees == [k \in DOMAIN order |-> Parser!TraceLine("free", id_map[order[k]], NoId)]
<1>1. /\ IsFiniteSet(L) /\ c \in Nat /\ n \in Nat /\ trace \in Seq(Lines(RawIds))
      /\ DOMAIN trace = 1..n
      /\ id_map \in [Parser!Pointers -> (0..(unused_id - 1)) \cup {NoId}]
      /\ unused_id \in Nat
  BY FS_CardinalityType DEF Reading, WithinLimit, TraceOK, IdsInv
<1>2. /\ order \in [1..c -> L] /\ DOMAIN order = 1..c
      /\ \A p \in L : \E k \in 1..c : order[k] = p
  BY DEF Frees
<1>3. \A id \in 0..(unused_id - 1) : id \in RawIds
  <2>1. unused_id <= Len(log) /\ Len(log) \in Nat /\ MaxOps \in Nat /\ c \in Nat
        /\ Len(log) + c <= MaxOps + 1
    BY <1>1, ParserIdsAssumption DEF Reading, WithinLimit, WithinMaxOps
  <2>2. \A id \in 0..(unused_id - 1) : id \in 0..MaxOps
    BY <1>1, <2>1
  <2> QED BY <2>2, ParserIdsAssumption
<1>4. \A k \in 1..c : order[k] \in Parser!Pointers /\ id_map[order[k]] \in RawIds
                      /\ id_map[order[k]] # NoId
  BY <1>1, <1>2, <1>3 DEF Parser!Live
<1>5. \A j, k \in 1..c : order[j] = order[k] => j = k
  <2>1. order \in Surjection(1..c, L)
    BY <1>2 DEF Surjection
  <2>2. IsFiniteSet(1..c) /\ Cardinality(1..c) = Cardinality(L)
    BY <1>1, FS_Interval
  <2>3. order \in Injection(1..c, L)
    BY <2>1, <2>2, FS_SurjSameCardinalityImpliesInj
  <2> QED BY <1>2, <2>3 DEF Injection, IsInjective
<1>6. /\ frees \in Seq(Lines(RawIds)) /\ Len(frees) = c
      /\ \A k \in 1..c : /\ frees[k].op = "free" /\ frees[k].in = id_map[order[k]]
                         /\ frees[k].out = NoId /\ WellShaped(frees[k])
  <2>1. \A k \in 1..c : /\ frees[k] \in Lines(RawIds)
                        /\ frees[k].op = "free" /\ frees[k].in = id_map[order[k]]
                        /\ frees[k].out = NoId
    BY <1>2, <1>4 DEF Parser!TraceLine, Lines, LineOps
  <2>2. frees \in [1..c -> Lines(RawIds)]
    BY <1>2, <2>1
  <2> HIDE DEF frees
  <2>3. frees \in Seq(Lines(RawIds)) /\ Len(frees) = c
    BY <1>1, <2>2
  <2> QED BY <2>1, <2>3 DEF WellShaped
<1>7. tr = trace \o frees
  BY DEF Frees
<1> HIDE DEF frees
<1>8. /\ tr \in Seq(Lines(RawIds)) /\ Len(tr) = n + c /\ DOMAIN tr = 1..(n + c)
      /\ \A i \in 1..n : tr[i] = trace[i]
      /\ \A i \in (n + 1)..(n + c) : tr[i] = frees[i - n]
  <2>1. /\ tr \in Seq(Lines(RawIds)) /\ Len(tr) = n + c
        /\ \A i \in 1..(n + c) : tr[i] = IF i <= n THEN trace[i] ELSE frees[i - n]
    <3>1. /\ trace \o frees \in Seq(Lines(RawIds))
          /\ Len(trace \o frees) = Len(trace) + Len(frees)
          /\ \A i \in 1..(Len(trace) + Len(frees)) :
               (trace \o frees)[i] = IF i <= Len(trace) THEN trace[i] ELSE frees[i - Len(trace)]
      <4>1. trace \in Seq(Lines(RawIds)) /\ frees \in Seq(Lines(RawIds))
        BY <1>1, <1>6
      <4> QED BY <4>1, ConcatProperties
    <3> QED BY <1>6, <1>7, <3>1
  <2>2. \A i \in 1..n : i \in 1..(n + c) /\ i <= n
    BY <1>1
  <2>3. \A i \in (n + 1)..(n + c) : i \in 1..(n + c) /\ ~(i <= n)
    BY <1>1
  <2> QED BY <2>1, <2>2, <2>3
<1>9. ASSUME NEW i \in DOMAIN tr PROVE WellShaped(tr[i]) /\ tr[i].op # "unset"
  <2>1. CASE i \in 1..n
    BY <1>1, <1>8, <2>1 DEF Reading, TraceOK
  <2>2. CASE i \notin 1..n
    <3>1. i - n \in 1..c /\ i \in (n + 1)..(n + c)
      BY <1>1, <1>8, <2>2
    <3>2. tr[i] = frees[i - n]
      BY <1>8, <3>1
    <3> QED BY <1>6, <3>1, <3>2
  <2> QED BY <2>1, <2>2
<1>10. \A i \in (n + 1)..(n + c) :
         i - n \in 1..c /\ tr[i].in = id_map[order[i - n]] /\ tr[i].out = NoId
  <2>1. \A i \in (n + 1)..(n + c) : i - n \in 1..c
    BY <1>1
  <2> QED BY <1>6, <1>8, <2>1
<1>11. \A k \in 1..c : tr[n + k].in = id_map[order[k]]
  <2>1. \A k \in 1..c : n + k \in (n + 1)..(n + c) /\ (n + k) - n = k
    BY <1>1
  <2> QED BY <1>10, <2>1
<1> QED
  BY <1>1, <1>2, <1>4, <1>5, <1>8, <1>9, <1>10, <1>11 DEF SameStart, FreesAfter

(* A free's id is still live when it comes, and nothing is after the last.  *)
LEMMA FreesClose ==
  ASSUME Reading, OneProcessInv, NEW order, NEW tr, Frees(order, tr)
  PROVE  ClosedTrace(tr)
<1> USE NoIdAssumption
<1> SUFFICES ASSUME NEW c, c = Cardinality(Parser!Live(id_map)), NEW n, n = Len(trace)
             PROVE  ClosedTrace(tr)
  OBVIOUS
<1>a. FreesAfter(order, tr, n, c)
  BY FreesRange
<1>1. /\ n \in Nat /\ c \in Nat /\ Len(tr) = n + c
      /\ tr \in Seq(Lines(RawIds)) /\ DOMAIN tr = 1..(n + c)
      /\ \A i \in DOMAIN tr : WellShaped(tr[i]) /\ tr[i].op # "unset"
      /\ SameStart(tr, trace, n) /\ DOMAIN trace = 1..n
      /\ \A k \in 1..c : /\ order[k] \in Parser!Pointers
                         /\ id_map[order[k]] \in RawIds /\ id_map[order[k]] # NoId
                         /\ tr[n + k].in = id_map[order[k]]
      /\ \A i \in (n + 1)..(n + c) :
           i - n \in 1..c /\ tr[i].in = id_map[order[i - n]] /\ tr[i].out = NoId
      /\ \A p \in Parser!Live(id_map) : \E k \in 1..c : order[k] = p
      /\ \A j, k \in 1..c : order[j] = order[k] => j = k
  BY <1>a DEF FreesAfter
<1>2. \A i \in 1..n : tr[i] = trace[i]
  BY <1>1 DEF SameStart
<1>3. \A id \in RawIds :
        LiveBefore(tr, id, n + 1) <=> \E ptr \in Parser!Pointers : id_map[ptr] = id
  <2>1. \A id : LiveBefore(tr, id, n + 1) <=> LiveBefore(trace, id, n + 1)
    BY <1>1, SameStartLive
  <2> QED BY <2>1 DEF OneProcessInv, LiveAreNamed
<1>4. ASSUME NEW i \in 1..n
      PROVE  /\ tr[i].in # NoId => LiveBefore(tr, tr[i].in, i)
             /\ tr[i].out # NoId => tr[i].in = tr[i].out \/ ~LiveBefore(tr, tr[i].out, i)
  <2>1. \A id : LiveBefore(tr, id, i) <=> LiveBefore(trace, id, i)
    BY <1>1, SameStartLive
  <2>2. /\ trace[i].in # NoId => LiveBefore(trace, trace[i].in, i)
        /\ trace[i].out # NoId =>
             trace[i].in = trace[i].out \/ ~LiveBefore(trace, trace[i].out, i)
    BY <1>1 DEF OneProcessInv, ClosedSoFar
  <2> QED BY <1>2, <2>1, <2>2
<1>5. \A j, k \in 1..c : id_map[order[j]] = id_map[order[k]] => j = k
  BY <1>1 DEF Reading, WithinLimit, IdsInv
<1>6. ASSUME NEW k \in 1..c PROVE LiveBefore(tr, id_map[order[k]], n + k)
  <2>1. LiveBefore(tr, id_map[order[k]], n + 1)
    BY <1>1, <1>3
  <2>2. PICK j \in 1..n : /\ tr[j].out = id_map[order[k]]
                          /\ \A m \in (j + 1)..n : tr[m].in # id_map[order[k]]
    BY <1>1, <2>1 DEF LiveBefore
  <2>3. ASSUME NEW m \in (j + 1)..(n + k - 1) PROVE tr[m].in # id_map[order[k]]
    <3>1. CASE m <= n
      BY <2>2, <3>1
    <3>2. CASE m > n
      <4>1. m - n \in 1..c /\ m \in (n + 1)..(n + c) /\ m - n # k
        BY <1>1, <3>2
      <4>2. tr[m].in = id_map[order[m - n]]
        BY <1>1, <4>1
      <4> QED BY <1>5, <4>1, <4>2
    <3> QED BY <1>1, <3>1, <3>2
  <2>4. j \in 1..(n + k - 1)
    BY <1>1
  <2> QED BY <2>2, <2>3, <2>4 DEF LiveBefore
<1>7. ASSUME NEW i \in DOMAIN tr
      PROVE  /\ tr[i].in # NoId => LiveBefore(tr, tr[i].in, i)
             /\ tr[i].out # NoId => tr[i].in = tr[i].out \/ ~LiveBefore(tr, tr[i].out, i)
  <2>1. CASE i \in 1..n
    BY <1>4, <2>1
  <2>2. CASE i \notin 1..n
    <3>1. i - n \in 1..c /\ i \in (n + 1)..(n + c) /\ n + (i - n) = i
      BY <1>1, <2>2
    <3>2. tr[i].in = id_map[order[i - n]] /\ tr[i].out = NoId
      BY <1>1, <3>1
    <3>3. LiveBefore(tr, id_map[order[i - n]], n + (i - n))
      BY <1>6, <3>1
    <3> QED BY <3>1, <3>2, <3>3
  <2> QED BY <2>1, <2>2
<1>8. ASSUME NEW id \in RawIds, LiveBefore(tr, id, n + c + 1) PROVE FALSE
  <2>1. PICK j \in 1..(n + c) : tr[j].out = id /\ \A m \in (j + 1)..(n + c) : tr[m].in # id
    BY <1>1, <1>8 DEF LiveBefore
  <2>2. j \in 1..n
    <3> SUFFICES ASSUME j \notin 1..n PROVE FALSE
      OBVIOUS
    <3>1. j \in (n + 1)..(n + c)
      BY <1>1
    <3>2. tr[j].out = NoId
      BY <1>1, <3>1
    <3> QED BY <2>1, <3>2
  <2>3. LiveBefore(tr, id, n + 1)
    BY <1>1, <2>1, <2>2 DEF LiveBefore
  <2>4. PICK ptr \in Parser!Pointers : id_map[ptr] = id
    BY <1>3, <2>3
  <2>5. ptr \in Parser!Live(id_map)
    BY <2>4 DEF Parser!Live
  <2>6. PICK k \in 1..c : order[k] = ptr
    BY <1>1, <2>5
  <2>7. tr[n + k].in = id /\ n + k \in (j + 1)..(n + c)
    BY <1>1, <2>2, <2>4, <2>6
  <2> QED BY <2>1, <2>7
<1> QED BY <1>1, <1>7, <1>8 DEF ClosedTrace

LEMMA FreesKeepPeak ==
  ASSUME Reading, OneProcessInv, NEW order, NEW tr, Frees(order, tr)
  PROVE  PeakReached(tr)
<1> SUFFICES ASSUME NEW c, c = Cardinality(Parser!Live(id_map)), NEW n, n = Len(trace)
             PROVE  PeakReached(tr)
  OBVIOUS
<1>1. /\ n \in Nat /\ c \in Nat /\ Len(tr) = n + c
      /\ SameStart(tr, trace, n)
      /\ \A i \in (n + 1)..(n + c) : tr[i].out = NoId
  <2>1. FreesAfter(order, tr, n, c)
    BY FreesRange
  <2> QED BY <2>1 DEF FreesAfter
<1>2. \A m \in 0..n : LiveAfter(tr, m) = LiveAfter(trace, m) /\ LiveAfter(tr, m) \in Int
  BY <1>1, SameStartCounts, Counts
<1>3. /\ \A m \in 0..n : LiveAfter(trace, m) <= max_simultaneous_allocs
      /\ \E m \in 0..n : LiveAfter(trace, m) = max_simultaneous_allocs
      /\ max_simultaneous_allocs \in Nat
  BY DEF OneProcessInv, PeakReached, Reading, IdsFit
<1>4. ASSUME NEW m \in 0..(n + c) PROVE LiveAfter(tr, m) <= max_simultaneous_allocs
  <2>1. CASE m <= n
    BY <1>1, <1>2, <1>3, <2>1
  <2>2. CASE m > n
    <3>1. \A i \in (n + 1)..m : i \in (n + 1)..(n + c)
      BY <1>1
    <3>2. \A i \in (n + 1)..m : tr[i].out = NoId
      BY <1>1, <3>1
    <3>3. m \in Nat /\ n <= m
      BY <1>1, <2>2
    <3>4. LiveAfter(tr, m) <= LiveAfter(tr, n)
      BY <1>1, <3>2, <3>3, CountsFall
    <3>5. LiveAfter(tr, n) <= max_simultaneous_allocs
      BY <1>1, <1>2, <1>3
    <3>6. LiveAfter(tr, n) \in Int /\ LiveAfter(tr, m) \in Int
      BY <1>1, <3>3, Counts
    <3> QED BY <1>3, <3>4, <3>5, <3>6
  <2> QED BY <1>1, <2>1, <2>2
<1>5. \E m \in 0..(n + c) : LiveAfter(tr, m) = max_simultaneous_allocs
  BY <1>1, <1>2, <1>3
<1> QED BY <1>1, <1>4, <1>5 DEF PeakReached

LEMMA FreesKeepFed ==
  ASSUME Reading, OneProcessInv, NEW order, NEW tr, Frees(order, tr)
  PROVE  Fed(tr) /\ \A i \in Matched : Place(i) \in DOMAIN tr
<1>1. \A i \in Matched : Place(i) \in 1..Len(trace)
  BY Places DEF Reading, WithinLimit, OneProcessInv, AllKept
<1>2. /\ Len(trace) \in Nat /\ \A i \in 1..Len(trace) : tr[i] = trace[i] /\ i \in DOMAIN tr
  <2> SUFFICES ASSUME NEW c, c = Cardinality(Parser!Live(id_map)), NEW n, n = Len(trace)
               PROVE  n \in Nat /\ \A i \in 1..n : tr[i] = trace[i] /\ i \in DOMAIN tr
    OBVIOUS
  <2>1. FreesAfter(order, tr, n, c)
    BY FreesRange
  <2> QED BY <2>1 DEF FreesAfter, SameStart
<1>3. \A i, j \in Matched : \A m \in (Place(i) + 1)..(Place(j) - 1) : m \in 1..Len(trace)
  BY <1>1, <1>2
<1>4. Fed(trace)
  BY DEF OneProcessInv
<1>5. ASSUME NEW j \in Matched
      PROVE  /\ (tr[Place(j)].in = NoId) <=> ~(\E ptr \in Ptrs : Consumes(log[j], ptr))
             /\ \A i \in Matched : i < j /\ Feeds(i, j) =>
                  /\ tr[Place(j)].in = tr[Place(i)].out
                  /\ \A n \in (Place(i) + 1)..(Place(j) - 1) : tr[n].out # tr[Place(i)].out
  <2>1. tr[Place(j)] = trace[Place(j)] /\ \A i \in Matched : tr[Place(i)] = trace[Place(i)]
    BY <1>1, <1>2
  <2>2. \A i \in Matched : \A m \in (Place(i) + 1)..(Place(j) - 1) : tr[m] = trace[m]
    BY <1>2, <1>3
  <2> QED BY <1>4, <2>1, <2>2 DEF Fed
<1> QED BY <1>1, <1>2, <1>5 DEF Fed

LEMMA HandsOver ==
  ASSUME Reading, Parser!FreeUnfreed, raw' = trace'
  PROVE  /\ Handed'
         /\ raw' \in Seq(Lines(RawIds)) /\ \A i \in DOMAIN raw' : WellShaped(raw'[i])
         /\ parsing' = "done"
<1>1. /\ parsing' = "done"
      /\ UNCHANGED <<log, id_map, available_ids, unused_id, required_pid,
                     max_simultaneous_allocs>>
      /\ \E order : Frees(order, trace')
  <2>1. Parser!Cardinality(Parser!Live(id_map)) = Cardinality(Parser!Live(id_map))
    BY SameCardinality
  <2> QED BY <2>1 DEF Parser!FreeUnfreed, Frees
<1>2. PICK order : Frees(order, raw')
  BY <1>1
<1> SUFFICES ASSUME NEW c, c = Cardinality(Parser!Live(id_map)), NEW n, n = Len(trace)
             PROVE  /\ Handed'
                    /\ raw' \in Seq(Lines(RawIds)) /\ \A i \in DOMAIN raw' : WellShaped(raw'[i])
  BY <1>1
<1>3. FreesAfter(order, raw', n, c)
  BY <1>2, FreesRange
<1>4. /\ n \in Nat /\ c \in Nat /\ Len(raw') = n + c
      /\ raw' \in Seq(Lines(RawIds)) /\ DOMAIN raw' = 1..(n + c)
      /\ \A i \in DOMAIN raw' : WellShaped(raw'[i])
      /\ \A i \in 1..n : raw'[i] = trace[i]
      /\ \A i \in (n + 1)..(n + c) : raw'[i].out = NoId
      /\ DOMAIN trace = 1..n
  BY <1>3 DEF FreesAfter, SameStart
<1>5. Len(raw') <= MaxOps + 1
  BY <1>4, ParserIdsAssumption DEF Reading, WithinLimit, WithinMaxOps
<1>6. \A i \in DOMAIN raw' :
        raw'[i].out # NoId => raw'[i].out \in 0..(max_simultaneous_allocs - 1)
  BY <1>4 DEF Reading, IdsFit
<1>7. ASSUME OneProcess
      PROVE  /\ ClosedTrace(raw') /\ PeakReached(raw') /\ Fed(raw')
             /\ \A i \in Matched : Place(i) \in DOMAIN raw'
  BY <1>2, <1>7, FreesClose, FreesKeepPeak, FreesKeepFed DEF Reading
<1>8. Handed'
  <2>1. OneProcess' <=> OneProcess
    BY <1>1 DEF OneProcess, Matched
  <2>2. Matched' = Matched /\ \A i \in Matched : Place(i)' = Place(i)
    BY <1>1 DEF Matched, Place
  <2>3. ClosedTrace(raw') => ClosedTrace(raw)'
    BY DEF ClosedTrace, LiveBefore
  <2>4. PeakReached(raw') => PeakReached(raw)'
    BY <1>1 DEF PeakReached, LiveAfter
  <2>5. Fed(raw') => Fed(raw)'
    <3>1. \A i, j \in Matched : Feeds(i, j)' <=> Feeds(i, j)
      BY <1>1, <2>2 DEF Feeds, GivenLast
    <3> QED BY <1>1, <2>2, <3>1 DEF Fed
  <2>6. /\ log' \in Seq(Parser!LogLines) /\ max_simultaneous_allocs' = max_simultaneous_allocs
        /\ max_simultaneous_allocs \in Nat
    BY <1>1 DEF Reading, WithinLimit, IdsFit
  <2> QED BY <1>5, <1>6, <1>7, <2>1, <2>2, <2>3, <2>4, <2>5, <2>6 DEF Handed
<1> QED BY <1>4, <1>8

-----------------------------------------------------------------------------
(* Until the parser is done the rewriting has nothing to rewrite.           *)
Idle == Starts /\ raw = << >>

PreparationInv ==
  /\ IInv
  /\ RawInv
  /\ parsing \notin {"not run", "done"} => Idle
  /\ parsing = "reading" => Reading
  /\ parsing = "done" => Handed

(* What is said of the log and the trace stays true while they stay.        *)
LEMMA HandedStays ==
  ASSUME Handed, raw' = raw, log' = log, max_simultaneous_allocs' = max_simultaneous_allocs
  PROVE  Handed'
<1>1. Matched' = Matched /\ (OneProcess' <=> OneProcess)
      /\ \A i \in Matched : Place(i)' = Place(i)
  BY DEF Matched, OneProcess, Place
<1>2. \A i, j \in Matched : Feeds(i, j)' <=> Feeds(i, j)
  BY <1>1 DEF Feeds, GivenLast
<1>3. ClosedTrace(raw) => ClosedTrace(raw)'
  BY DEF ClosedTrace, LiveBefore
<1>4. PeakReached(raw) => PeakReached(raw)'
  BY DEF PeakReached, LiveAfter
<1>5. Fed(raw) => Fed(raw)'
  BY <1>1, <1>2 DEF Fed
<1> QED BY <1>1, <1>3, <1>4, <1>5 DEF Handed

LEMMA ReadingStays ==
  ASSUME Reading, UNCHANGED parserVars
  PROVE  Reading'
<1>1. /\ log' = log /\ trace' = trace /\ id_map' = id_map /\ available_ids' = available_ids
      /\ unused_id' = unused_id /\ required_pid' = required_pid
      /\ max_simultaneous_allocs' = max_simultaneous_allocs
  BY DEF parserVars
<1>2. Matched' = Matched /\ (OneProcess' <=> OneProcess)
      /\ \A i \in Matched : Place(i)' = Place(i)
  BY <1>1 DEF Matched, OneProcess, Place
<1>3. WithinLimit' /\ TraceOK' /\ WithinMaxOps' /\ IdsFit' /\ RequiredIsRead'
  BY <1>1, <1>2 DEF Reading, WithinLimit, TraceOK, WithinMaxOps, IdsFit, RequiredIsRead, IdsInv,
                    Parser!Live
<1>4. ASSUME OneProcessInv PROVE OneProcessInv'
  <2>1. AllKept' /\ LiveAreNamed' /\ ClosedSoFar(trace)'
    BY <1>1, <1>2, <1>4 DEF OneProcessInv, AllKept, LiveAreNamed, ClosedSoFar, LiveBefore
  <2>2. PeakReached(trace)' /\ LiveCounted'
    BY <1>1, <1>4 DEF OneProcessInv, PeakReached, LiveCounted, LiveAfter, Parser!Live
  <2>3. \A i, j \in Matched : Feeds(i, j)' <=> Feeds(i, j)
    BY <1>1, <1>2 DEF Feeds, GivenLast
  <2>4. Fed(trace)'
    BY <1>1, <1>2, <1>4, <2>3 DEF OneProcessInv, Fed
  <2>5. LastGiven'
    BY <1>1, <1>2, <1>4 DEF OneProcessInv, LastGiven, GivenLast
  <2> QED BY <2>1, <2>2, <2>4, <2>5 DEF OneProcessInv
<1> QED BY <1>2, <1>3, <1>4 DEF Reading

LEMMA EmptyCounts ==
  ASSUME NEW tr
  PROVE  LiveAfter(tr, 0) = 0
<1>1. Outs(tr, 0) = {} /\ Ins(tr, 0) = {}
  BY DEF Outs, Ins
<1>2. Cardinality({}) = 0
  BY FS_EmptySet
<1>3. LiveAfter(tr, 0) = Cardinality(Outs(tr, 0)) - Cardinality(Ins(tr, 0))
  BY Counts
<1> QED BY <1>1, <1>2, <1>3

LEMMA StartsReading == Parser!Init => Reading
<1> USE NoIdAssumption
<1> SUFFICES ASSUME Parser!Init PROVE Reading
  OBVIOUS
<1>1. /\ log = << >> /\ trace = << >> /\ available_ids = {} /\ unused_id = 0
      /\ id_map = [ptr \in Parser!Pointers |-> NoId]
      /\ required_pid = NoId /\ max_simultaneous_allocs = 0
  BY DEF Parser!Init
<1>2. Parser!Live(id_map) = {}
  BY <1>1 DEF Parser!Live
<1>3. IsFiniteSet(Parser!Live(id_map)) /\ Cardinality(Parser!Live(id_map)) = 0
      /\ Cardinality({}) = 0
  BY <1>2, FS_EmptySet
<1>4. Matched = {}
  BY <1>1 DEF Matched
<1>5. IdsInv(id_map, available_ids, unused_id)
  <2>1. 0..(unused_id - 1) = {}
    BY <1>1
  <2>2. id_map \in [Parser!Pointers -> (0..(unused_id - 1)) \cup {NoId}]
    BY <1>1
  <2> QED BY <1>1, <1>3, <2>1, <2>2 DEF IdsInv
<1>6. WithinLimit /\ TraceOK /\ IdsFit /\ RequiredIsRead
  BY <1>1, <1>5 DEF WithinLimit, TraceOK, IdsFit, RequiredIsRead
<1>7. WithinMaxOps
  BY <1>1, <1>3, ParserIdsAssumption DEF WithinMaxOps
<1>8. AllKept /\ LastGiven /\ Fed(trace) /\ ClosedSoFar(trace)
  BY <1>1, <1>3, <1>4 DEF AllKept, LastGiven, Fed, ClosedSoFar
<1>9. LiveAreNamed
  BY <1>1 DEF LiveAreNamed, LiveBefore
<1>10. PeakReached(trace) /\ LiveCounted
  <2>1. Len(trace) = 0 /\ LiveAfter(trace, 0) = 0
    BY <1>1, EmptyCounts
  <2> QED BY <1>1, <1>3, <2>1 DEF PeakReached, LiveCounted
<1> QED
  BY <1>6, <1>7, <1>8, <1>9, <1>10 DEF Reading, OneProcessInv

LEMMA InitPreparationInv == PreparationInit => PreparationInv
<1>1. ASSUME HandWritten PROVE PreparationInv
  BY <1>1, InitIInv, InitRawInv DEF HandWritten, PreparationInv
<1>2. ASSUME Parsed PROVE PreparationInv
  <2>1. Idle
    BY <1>2 DEF Parsed, Idle, Starts
  <2>2. Reading /\ parsing = "reading"
    BY <1>2, StartsReading DEF Parsed, Parser!Init
  <2> QED BY <2>1, <2>2, StartsIInv, StartsRawInv DEF PreparationInv, Idle
<1> QED BY <1>1, <1>2 DEF PreparationInit

LEMMA ReadsWhileReading == Parser!ReadLine => parsing = "reading"
BY DEF Parser!ReadLine, Parser!ParseMalloc, Parser!ParseRealloc, Parser!ParseFree,
       Parser!SkipLine, Parser!GetLine

LEMMA NextPreparationInv == PreparationInv /\ [PreparationNext]_allVars => PreparationInv'
<1> SUFFICES ASSUME PreparationInv, [PreparationNext]_allVars PROVE PreparationInv'
  OBVIOUS
<1>1. ASSUME [Next]_vars PROVE IInv' /\ RawInv' /\ raw' = raw
  <2>1. IInv' /\ RawInv'
    BY <1>1, NextIInv, NextRawInv DEF PreparationInv
  <2>2. raw' = raw
    BY <1>1, StepEffect DEF PreparationInv, Stalls, MovesOn
  <2> QED BY <2>1, <2>2
<1>2. CASE Parse
  <2>1. parsing = "reading" /\ Parser!ReadLine /\ UNCHANGED vars /\ Reading /\ Idle
    BY <1>2, ReadsWhileReading DEF Parse, PreparationInv
  <2>2. IInv' /\ RawInv'
    BY <1>1, <2>1
  <2>3. Idle'
    BY <2>1 DEF Idle, Starts, vars
  <2>4. CASE Refused
    BY <2>2, <2>3, <2>4 DEF Refused, PreparationInv
  <2>5. CASE \E l \in Parser!LogLines : Skipped(l) \/ \E inId, outId : Taken(l, inId, outId)
    <3>1. Reading' /\ parsing' = "reading"
      BY <2>1, <2>5, SkippedPreserves, TakenPreserves
    <3> QED BY <2>2, <2>3, <3>1 DEF PreparationInv
  <2> QED BY <2>1, <2>4, <2>5, ReadLineEffect DEF Reading
<1>3. CASE HandOver
  <2>1. /\ Parser!FreeUnfreed /\ raw' = trace' /\ lines' = trace'
        /\ UNCHANGED <<pos, next_id, new_id_map, status>>
        /\ parsing = "reading"
    BY <1>3 DEF HandOver, Parser!FreeUnfreed
  <2>2. Reading /\ Idle
    BY <2>1 DEF PreparationInv
  <2>3. /\ Handed' /\ parsing' = "done"
        /\ raw' \in Seq(Lines(RawIds)) /\ \A i \in DOMAIN raw' : WellShaped(raw'[i])
    BY <2>1, <2>2, HandsOver
  <2>4. Starts'
    BY <2>1, <2>2, <2>3 DEF Idle, Starts
  <2>5. IInv' /\ RawInv'
    <3>1. (Starts => IInv)' /\ (Starts => RawInv)'
      BY StartsIInv, StartsRawInv, PTL
    <3> QED BY <2>4, <3>1
  <2> QED BY <2>3, <2>5 DEF PreparationInv
<1>4. CASE Rewrite
  <2>1. parsing \in {"not run", "done"} /\ Next /\ UNCHANGED parserVars
    BY <1>4 DEF Rewrite
  <2>2. IInv' /\ RawInv' /\ raw' = raw
    BY <1>1, <2>1
  <2>3. parsing' = parsing /\ log' = log /\ max_simultaneous_allocs' = max_simultaneous_allocs
    BY <2>1 DEF parserVars
  <2>4. parsing = "done" => Handed'
    BY <2>2, <2>3, HandedStays DEF PreparationInv
  <2> QED BY <2>1, <2>2, <2>3, <2>4 DEF PreparationInv
<1>5. CASE UNCHANGED allVars
  <2>1. UNCHANGED vars /\ UNCHANGED parserVars
    BY <1>5 DEF allVars
  <2>2. IInv' /\ RawInv' /\ raw' = raw
    BY <1>1, <2>1
  <2>3. Idle => Idle'
    BY <2>1 DEF Idle, Starts, vars
  <2>4. parsing' = parsing /\ log' = log /\ max_simultaneous_allocs' = max_simultaneous_allocs
    BY <2>1 DEF parserVars
  <2>5. Handed => Handed'
    BY <2>2, <2>4, HandedStays
  <2>6. Reading => Reading'
    BY <2>1, ReadingStays
  <2> QED BY <2>2, <2>3, <2>4, <2>5, <2>6 DEF PreparationInv
<1> QED BY <1>2, <1>3, <1>4, <1>5 DEF PreparationNext

LEMMA RawInvPrepares ==
  PreparationInv => ProducesUniqueTrace /\ AcceptsExactlyClosedTraces /\ DataflowPreserved
BY IInvProducesUniqueTrace, RawInvAcceptsExactly, RawInvPreservesDataflow DEF PreparationInv

LEMMA HandedAccepted == PreparationInv => ParsedTraceAccepted
<1> SUFFICES ASSUME PreparationInv, parsing = "done", OneProcess PROVE status \in {"running", "ok"}
  BY DEF ParsedTraceAccepted
<1>1. ClosedTrace(raw)
  BY DEF PreparationInv, Handed
<1> QED BY <1>1 DEF PreparationInv, RawInv, Rejected

LEMMA HandedFitsPeak == PreparationInv => ResultIdsFitPeak
<1> SUFFICES ASSUME PreparationInv, parsing = "done" PROVE ResultIdsFitPeak
  BY DEF ResultIdsFitPeak
<1>1. Handed /\ raw \in Seq(Lines(RawIds))
  BY DEF PreparationInv, IInv, TypeOK
<1>2. \A i \in DOMAIN raw : raw[i].out # NoId => raw[i].out < max_simultaneous_allocs
  BY <1>1 DEF Handed
<1>3. OneProcess => /\ \A n \in DOMAIN raw : LiveAfter(raw, n) <= max_simultaneous_allocs
                    /\ \E n \in 0..Len(raw) : LiveAfter(raw, n) = max_simultaneous_allocs
  <2>1. \A n \in DOMAIN raw : n \in 0..Len(raw)
    BY <1>1
  <2> QED BY <1>1, <2>1 DEF Handed, PeakReached
<1> QED BY <1>2, <1>3 DEF ResultIdsFitPeak

LEMMA HandedFitsMaxOps == PreparationInv => TraceFitsMaxOps
BY DEF PreparationInv, Handed, TraceFitsMaxOps

LEMMA HandedKeepsPointers == PreparationInv => PointersBecomeIds
<1> SUFFICES ASSUME PreparationInv, parsing = "done", OneProcess, NEW j \in Matched
             PROVE  /\ (raw[Place(j)].in = NoId) = ~(\E ptr \in Ptrs : Consumes(log[j], ptr))
                    /\ \A i \in Matched : i < j /\ Feeds(i, j) =>
                         /\ raw[Place(j)].in = raw[Place(i)].out
                         /\ \A n \in (Place(i) + 1)..(Place(j) - 1) :
                              raw[n].out # raw[Place(i)].out
                         /\ status = "ok" => lines[Place(j)].in = lines[Place(i)].out
  BY DEF PointersBecomeIds
<1>1. /\ Handed /\ Fed(raw) /\ DataflowPreserved
      /\ \A i \in Matched : Place(i) \in DOMAIN raw
  BY RawInvPrepares DEF PreparationInv, Handed
<1>2. \A i \in Matched : i < j => Place(i) \in 1..(Place(j) - 1)
  <2>1. /\ \A i \in Matched : Place(i) \in 1..Cardinality(Matched)
        /\ \A i \in Matched : i < j => Place(i) < Place(j)
    BY <1>1, Places DEF Handed
  <2> QED BY <2>1
<1>3. ASSUME NEW i \in Matched, i < j, Feeds(i, j)
      PROVE  /\ raw[Place(j)].in = raw[Place(i)].out
             /\ \A n \in (Place(i) + 1)..(Place(j) - 1) : raw[n].out # raw[Place(i)].out
             /\ status = "ok" => lines[Place(j)].in = lines[Place(i)].out
  <2>1. /\ raw[Place(j)].in = raw[Place(i)].out
        /\ \A n \in (Place(i) + 1)..(Place(j) - 1) : raw[n].out # raw[Place(i)].out
    BY <1>1, <1>3 DEF Fed
  <2>2. raw[Place(j)].in # NoId
    BY <1>1, <1>3 DEF Fed, Feeds
  <2>3. status = "ok" => lines[Place(j)].in = lines[Place(i)].out
    BY <1>1, <1>2, <1>3, <2>1, <2>2 DEF DataflowPreserved
  <2> QED BY <2>1, <2>3
<1>4. (raw[Place(j)].in = NoId) <=> ~(\E ptr \in Ptrs : Consumes(log[j], ptr))
  BY <1>1 DEF Fed
<1> QED BY <1>3, <1>4

LEMMA PreparationKept == PreparationSpec => []PreparationInv
BY InitPreparationInv, NextPreparationInv, PTL DEF PreparationSpec

(***************************************************************************)
(* What RewriteIdsToUnique returns meets the batch executor's contract,    *)
(* whether the tracefile was written by hand or by the parser.             *)
(***************************************************************************)
THEOREM PreparedTraceIsUnique == PreparationSpec => []ProducesUniqueTrace
BY PreparationKept, RawInvPrepares, PTL

(***************************************************************************)
(* RewriteIdsToUnique accepts the closed tracefiles and no others, those   *)
(* of the parser included, and what it returns means what they meant.      *)
(***************************************************************************)
THEOREM PreparationAcceptsExactlyClosed == PreparationSpec => []AcceptsExactlyClosedTraces
BY PreparationKept, RawInvPrepares, PTL

(* The rewriting of a parsed or a hand-written tracefile keeps its          *)
(* dataflow: RewriteIdsToUnique only renames.                               *)
THEOREM PreparationPreservesDataflow == PreparationSpec => []DataflowPreserved
BY PreparationKept, RawInvPrepares, PTL

(***************************************************************************)
(* The log of one process, however long and whatever it leaves allocated,  *)
(* becomes a tracefile RewriteIdsToUnique accepts: DirtyTracefileReader    *)
(* reuses an id only when it is free and frees the rest, in any order.     *)
(***************************************************************************)
THEOREM ParserOutputAccepted == PreparationSpec => []ParsedTraceAccepted
BY PreparationKept, HandedAccepted, PTL

(***************************************************************************)
(* The parser and the rewriting together keep who releases what, for every *)
(* log of one process: a line that releases the block an earlier line      *)
(* allocated names, after both, the id that line alone makes.              *)
(***************************************************************************)
THEOREM PointersBecomeTheirIds == PreparationSpec => []PointersBecomeIds
BY PreparationKept, HandedKeepsPointers, PTL

(***************************************************************************)
(* max_simultaneous_allocs is the peak of the tracefile the parser writes, *)
(* and every id is below it, because get_next_id gives the smallest id     *)
(* that is not in use.                                                     *)
(***************************************************************************)
THEOREM IdsFitThePeak == PreparationSpec => []ResultIdsFitPeak
BY PreparationKept, HandedFitsPeak, PTL

(* However the log ends, the tracefile has at most one line more than       *)
(* --max_ops, the frees of what is left included.                           *)
THEOREM ParserStaysWithinMaxOps == PreparationSpec => []TraceFitsMaxOps
BY PreparationKept, HandedFitsMaxOps, PTL
=============================================================================
