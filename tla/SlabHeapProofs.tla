--------------------------- MODULE SlabHeapProofs ---------------------------
(***************************************************************************)
(* For a heap of any size, any requests and any number of bins: the slab   *)
(* layer of mm.c loses no slab and gives none to two owners, the tags at   *)
(* the boundaries of regions tell the truth whatever the owners write, and *)
(* the layer keeps RegionPool's promise.  A realloc in place is assumed to *)
(* give back a slab, if it gives back any (ShrinksGiveBack).               *)
(***************************************************************************)
EXTENDS SlabHeap, SequenceTheorems, FiniteSetTheorems, NaturalsInduction, WellFoundedInduction, TLAPS

-----------------------------------------------------------------------------
(* Lists of regions.                                                        *)
Members(list) == {list[i] : i \in DOMAIN list}
NoRepeats(list) == \A i, j \in DOMAIN list : i # j => list[i] # list[j]
Sorted(list, num) == \A i, j \in DOMAIN list : i < j => num[list[i]] <= num[list[j]]

(* A set of natural numbers has a least element.                            *)
LEMMA LeastExists ==
  ASSUME NEW S \in SUBSET Nat, S # {}
  PROVE  \E n \in S : \A m \in S : n <= m
<1> DEFINE before == {p \in Nat \X Nat : p[1] < p[2]}
<1>1. PICK n \in S : \A m \in S : <<m, n>> \notin before
  BY NatLessThanWellFounded, WFMin DEF OpToRel
<1>2. ASSUME NEW m \in S PROVE n <= m
  <2>1. m \in Nat /\ n \in Nat /\ <<m, n>> \in Nat \X Nat
    OBVIOUS
  <2>2. ~(m < n)
    BY <1>1, <2>1
  <2> QED BY <2>1, <2>2
<1> QED BY <1>2

(* A list out of which a region is taken.                                   *)
LEMMA WithoutOne ==
  ASSUME NEW list \in Seq(Slabs), NEW s, NoRepeats(list)
  PROVE  /\ Without(list, s) \in Seq(Slabs)
         /\ Members(Without(list, s)) = Members(list) \ {s}
         /\ NoRepeats(Without(list, s))
         /\ \A num \in [Slabs -> Nat] : Sorted(list, num) => Sorted(Without(list, s), num)
<1>1. CASE \A i \in DOMAIN list : list[i] # s
  <2>1. Without(list, s) = list
    BY <1>1 DEF Without
  <2> QED BY <1>1, <2>1 DEF Members
<1>2. CASE \E i \in DOMAIN list : list[i] = s
  <2> DEFINE at == CHOOSE i \in DOMAIN list : list[i] = s
             left == SubSeq(list, 1, at - 1)
             right == SubSeq(list, at + 1, Len(list))
  <2>1. at \in DOMAIN list /\ list[at] = s
    BY <1>2
  <2>2. Without(list, s) = left \o right
    BY <1>2 DEF Without
  <2> HIDE DEF at
  <2>3. Len(list) \in Nat /\ DOMAIN list = 1..Len(list) /\ at \in 1..Len(list)
    BY <2>1, LenProperties
  <2>4. /\ left \in Seq(Slabs) /\ Len(left) = at - 1
        /\ \A i \in 1..(at - 1) : left[i] = list[i]
    <3>1. \A i \in 1..(at - 1) : list[i] \in Slabs
      BY <2>3, ElementOfSeq
    <3>2. /\ left \in Seq(Slabs) /\ Len(left) = (IF 1 <= at - 1 THEN at - 1 - 1 + 1 ELSE 0)
          /\ \A i \in 1..(at - 1 - 1 + 1) : left[i] = list[1 + i - 1]
      BY <2>3, <3>1, SubSeqProperties
    <3> QED BY <2>3, <3>2
  <2>5. /\ right \in Seq(Slabs) /\ Len(right) = Len(list) - at
        /\ \A i \in 1..(Len(list) - at) : right[i] = list[at + i]
    <3>1. \A i \in (at + 1)..Len(list) : list[i] \in Slabs
      BY <2>3, ElementOfSeq
    <3>2. /\ right \in Seq(Slabs)
          /\ Len(right) = (IF at + 1 <= Len(list) THEN Len(list) - (at + 1) + 1 ELSE 0)
          /\ \A i \in 1..(Len(list) - (at + 1) + 1) : right[i] = list[(at + 1) + i - 1]
      BY <2>3, <3>1, SubSeqProperties
    <3>3. Len(list) - (at + 1) + 1 = Len(list) - at
      BY <2>3
    <3>4. \A i \in 1..(Len(list) - at) : (at + 1) + i - 1 = at + i
      BY <2>3
    <3>5. \A i \in 1..(Len(list) - at) : right[i] = list[at + i]
      BY <3>2, <3>3, <3>4
    <3>6. right \in Seq(Slabs)
      BY <3>2
    <3>7. Len(right) = Len(list) - at
      <4>1. Len(right) = IF at + 1 <= Len(list) THEN Len(list) - (at + 1) + 1 ELSE 0
        BY <3>2
      <4>2. CASE at + 1 <= Len(list)
        BY <2>3, <3>3, <4>1, <4>2
      <4>3. CASE ~(at + 1 <= Len(list))
        <5>1. Len(list) \in Nat /\ at \in Nat /\ at <= Len(list)
          BY <2>3
        <5>2. Len(list) = at
          BY <4>3, <5>1
        <5> QED BY <4>1, <4>3, <5>1, <5>2
      <4> QED BY <4>2, <4>3
    <3> QED BY <3>5, <3>6, <3>7
  <2> HIDE DEF left, right
  <2> DEFINE cut == Without(list, s)
             from(i) == IF i < at THEN i ELSE i + 1
  <2>6. /\ cut \in Seq(Slabs) /\ Len(cut) = Len(list) - 1 /\ DOMAIN cut = 1..(Len(list) - 1)
        /\ \A i \in DOMAIN cut : cut[i] = list[from(i)]
    <3>1. /\ left \o right \in Seq(Slabs) /\ Len(left \o right) = Len(left) + Len(right)
          /\ \A i \in 1..(Len(left) + Len(right)) :
               (left \o right)[i] = IF i <= Len(left) THEN left[i] ELSE right[i - Len(left)]
      BY <2>4, <2>5, ConcatProperties
    <3>2. DOMAIN (left \o right) = 1..Len(left \o right)
      BY <3>1, LenProperties
    <3>3. Len(left) + Len(right) = Len(list) - 1
      BY <2>3, <2>4, <2>5
    <3>4. ASSUME NEW i \in 1..(Len(list) - 1) PROVE (left \o right)[i] = list[from(i)]
      <4>1. CASE i < at
        BY <2>3, <2>4, <3>1, <3>3, <4>1
      <4>2. CASE ~(i < at)
        <5>1. (left \o right)[i] = right[i - (at - 1)]
          BY SMTT(30), <2>3, <2>4, <3>1, <3>3, <4>2
        <5>2. i - (at - 1) \in 1..(Len(list) - at) /\ at + (i - (at - 1)) = i + 1
          BY <2>3, <4>2
        <5> QED BY <2>5, <4>2, <5>1, <5>2
      <4> QED BY <4>1, <4>2
    <3> QED BY <2>2, <3>1, <3>2, <3>3, <3>4
  <2> HIDE DEF cut
  <2>7. \A i \in DOMAIN cut : from(i) \in DOMAIN list /\ from(i) # at
    BY <2>3, <2>6
  <2>8. \A k \in DOMAIN list : k # at => \E i \in DOMAIN cut : from(i) = k
    <3> SUFFICES ASSUME NEW k \in DOMAIN list, k # at PROVE \E i \in DOMAIN cut : from(i) = k
      OBVIOUS
    <3>1. CASE k < at
      BY <2>3, <2>6, <3>1
    <3>2. CASE k > at
      <4>1. k - 1 \in DOMAIN cut /\ from(k - 1) = k
        BY <2>3, <2>6, <3>2
      <4> QED BY <4>1
    <3> QED BY <2>3, <3>1, <3>2
  <2>9. \A i, j \in DOMAIN cut : (i < j => from(i) < from(j)) /\ (i # j => from(i) # from(j))
    BY <2>3, <2>6
  <2> HIDE DEF from
  <2>10. Members(cut) = Members(list) \ {s}
    BY <2>1, <2>6, <2>7, <2>8 DEF Members, NoRepeats
  <2>11. NoRepeats(cut)
    BY <2>6, <2>7, <2>9 DEF NoRepeats
  <2>12. ASSUME NEW num \in [Slabs -> Nat], Sorted(list, num) PROVE Sorted(cut, num)
    BY <2>6, <2>7, <2>9, <2>12 DEF Sorted
  <2> QED BY <2>6, <2>10, <2>11, <2>12 DEF cut
<1> QED BY <1>1, <1>2

(* A region at the end of a list.                                           *)
LEMMA AppendOne ==
  ASSUME NEW list \in Seq(Slabs), NEW s \in Slabs \ Members(list), NoRepeats(list)
  PROVE  /\ Append(list, s) \in Seq(Slabs)
         /\ Members(Append(list, s)) = Members(list) \cup {s}
         /\ NoRepeats(Append(list, s))
<1> DEFINE new == Append(list, s)
<1>1. /\ new \in Seq(Slabs) /\ Len(new) = Len(list) + 1
      /\ \A i \in 1..Len(list) : new[i] = list[i]
      /\ new[Len(list) + 1] = s
  BY AppendProperties
<1>2. /\ Len(list) \in Nat /\ DOMAIN list = 1..Len(list) /\ DOMAIN new = 1..Len(new)
  BY <1>1, LenProperties
<1> HIDE DEF new
<1>3. DOMAIN new = DOMAIN list \cup {Len(list) + 1} /\ Len(list) + 1 \notin DOMAIN list
  BY <1>1, <1>2
<1>4. Members(new) = Members(list) \cup {s}
  BY <1>1, <1>2, <1>3 DEF Members
<1>5. NoRepeats(new)
  BY <1>1, <1>2, <1>3 DEF NoRepeats, Members
<1> QED BY <1>1, <1>4, <1>5 DEF new

(* The place in the list that is sorted by size.                            *)
LEMMA LinkAfterExists ==
  ASSUME NEW list \in Seq(Slabs), num_slabs \in [Slabs -> Nat], NEW n \in Nat
  PROVE  /\ LinkAfter(list, n) \in 0..Len(list)
         /\ LinkAfter(list, n) > 0 => num_slabs[list[LinkAfter(list, n)]] <= n
         /\ \A i \in (LinkAfter(list, n) + 1)..Len(list) : num_slabs[list[i]] > n
<1> DEFINE S == {k \in 0..Len(list) : \A i \in (k + 1)..Len(list) : num_slabs[list[i]] > n}
<1>1. Len(list) \in Nat /\ \A i \in 1..Len(list) : list[i] \in Slabs /\ num_slabs[list[i]] \in Nat
  BY LenProperties, ElementOfSeq
<1>2. Len(list) \in S /\ S \subseteq Nat
  BY <1>1
<1>3. PICK k \in S : \A m \in S : k <= m
  BY <1>2, LeastExists
<1>4. k \in Nat /\ \A m \in S : k <= m
  BY <1>2, <1>3
<1>5. k > 0 => num_slabs[list[k]] <= n
  <2> SUFFICES ASSUME k > 0, ~(num_slabs[list[k]] <= n) PROVE FALSE
    OBVIOUS
  <2>1. k \in 1..Len(list) /\ num_slabs[list[k]] > n
    BY <1>1
  <2>2. k - 1 \in S
    BY <1>1, <2>1
  <2>3. k <= k - 1
    BY <1>4, <2>2
  <2> QED BY <2>1, <2>3
<1> DEFINE Fits(j) == /\ j > 0 => num_slabs[list[j]] <= n
                      /\ \A i \in (j + 1)..Len(list) : num_slabs[list[i]] > n
<1>6. \E j \in 0..Len(list) : Fits(j)
  BY <1>5
<1>7. LinkAfter(list, n) = CHOOSE j \in 0..Len(list) : Fits(j)
  BY DEF LinkAfter
<1> HIDE DEF Fits
<1>8. LinkAfter(list, n) \in 0..Len(list) /\ Fits(LinkAfter(list, n))
  BY <1>6, <1>7
<1> QED BY <1>8 DEF Fits

(* A large region goes where the list stays sorted.                         *)
LEMMA LinkLargeOne ==
  ASSUME NEW list \in Seq(Slabs), NEW s \in Slabs \ Members(list), NoRepeats(list),
         num_slabs \in [Slabs -> Nat], NEW n \in Nat
  PROVE  /\ LinkLarge(list, s, n) \in Seq(Slabs)
         /\ Members(LinkLarge(list, s, n)) = Members(list) \cup {s}
         /\ NoRepeats(LinkLarge(list, s, n))
         /\ \A num \in [Slabs -> Nat] :
              /\ Sorted(list, num_slabs)
              /\ num[s] = n /\ \A r \in Members(list) : num[r] = num_slabs[r]
              => Sorted(LinkLarge(list, s, n), num)
<1> DEFINE after == LinkAfter(list, n)
           left  == SubSeq(list, 1, after)
           right == SubSeq(list, after + 1, Len(list))
           new   == LinkLarge(list, s, n)
<1>1. /\ after \in 0..Len(list)
      /\ after > 0 => num_slabs[list[after]] <= n
      /\ \A i \in (after + 1)..Len(list) : num_slabs[list[i]] > n
  BY LinkAfterExists
<1>2. new = (left \o <<s>>) \o right
  BY DEF LinkLarge
<1> HIDE DEF after
<1>3. Len(list) \in Nat /\ DOMAIN list = 1..Len(list) /\ after \in Nat /\ after <= Len(list)
  BY <1>1, LenProperties
<1>4. /\ left \in Seq(Slabs) /\ Len(left) = after
      /\ \A i \in 1..after : left[i] = list[i]
  <2>1. \A i \in 1..after : list[i] \in Slabs
    BY <1>3, ElementOfSeq
  <2>2. /\ left \in Seq(Slabs) /\ Len(left) = (IF 1 <= after THEN after - 1 + 1 ELSE 0)
        /\ \A i \in 1..(after - 1 + 1) : left[i] = list[1 + i - 1]
    BY <1>3, <2>1, SubSeqProperties
  <2> HIDE DEF left
  <2> QED BY <1>3, <2>2
<1>5. /\ right \in Seq(Slabs) /\ Len(right) = Len(list) - after
      /\ \A i \in 1..(Len(list) - after) : right[i] = list[after + i]
  <2>1. \A i \in (after + 1)..Len(list) : list[i] \in Slabs
    BY <1>3, ElementOfSeq
  <2>2. /\ right \in Seq(Slabs)
        /\ Len(right) = (IF after + 1 <= Len(list) THEN Len(list) - (after + 1) + 1 ELSE 0)
        /\ \A i \in 1..(Len(list) - (after + 1) + 1) : right[i] = list[(after + 1) + i - 1]
    BY <1>3, <2>1, SubSeqProperties
  <2>3. Len(list) - (after + 1) + 1 = Len(list) - after
    BY <1>3
  <2>4. \A i \in 1..(Len(list) - after) : (after + 1) + i - 1 = after + i
    BY <1>3
  <2>5. \A i \in 1..(Len(list) - after) : right[i] = list[after + i]
    BY <2>2, <2>3, <2>4
  <2>6. right \in Seq(Slabs)
    BY <2>2
  <2>7. Len(right) = Len(list) - after
    <3>1. Len(right) = IF after + 1 <= Len(list) THEN Len(list) - (after + 1) + 1 ELSE 0
      BY <2>2
    <3>2. CASE after + 1 <= Len(list)
      BY <1>3, <2>3, <3>1, <3>2
    <3>3. CASE ~(after + 1 <= Len(list))
      <4>1. Len(list) \in Nat /\ after \in Nat /\ after <= Len(list)
        BY <1>3
      <4>2. Len(list) = after
        BY <3>3, <4>1
      <4> QED BY <3>1, <3>3, <4>1, <4>2
    <3> QED BY <3>2, <3>3
  <2> QED BY <2>5, <2>6, <2>7
<1> HIDE DEF left, right
<1>6. <<s>> \in Seq(Slabs) /\ Len(<<s>>) = 1 /\ <<s>>[1] = s
  OBVIOUS
<1>7. /\ left \o <<s>> \in Seq(Slabs) /\ Len(left \o <<s>>) = after + 1
      /\ \A i \in 1..(after + 1) : (left \o <<s>>)[i] = IF i <= after THEN list[i] ELSE s
  <2>1. /\ left \o <<s>> \in Seq(Slabs) /\ Len(left \o <<s>>) = Len(left) + Len(<<s>>)
        /\ \A i \in 1..(Len(left) + Len(<<s>>)) :
             (left \o <<s>>)[i] = IF i <= Len(left) THEN left[i] ELSE <<s>>[i - Len(left)]
    BY <1>4, <1>6, ConcatProperties
  <2>2. Len(left) + Len(<<s>>) = after + 1
    BY <1>4, <1>6
  <2>3. ASSUME NEW i \in 1..(after + 1)
        PROVE  (left \o <<s>>)[i] = IF i <= after THEN list[i] ELSE s
    <3>1. (left \o <<s>>)[i] = IF i <= Len(left) THEN left[i] ELSE <<s>>[i - Len(left)]
      BY <2>1, <2>2
    <3>2. CASE i <= after
      BY <1>3, <1>4, <3>1, <3>2
    <3>3. CASE ~(i <= after)
      <4>1. i - Len(left) = 1
        BY <1>3, <1>4, <3>3
      <4> QED BY <1>4, <1>6, <3>1, <3>3, <4>1
    <3> QED BY <3>2, <3>3
  <2> QED BY <2>1, <2>2, <2>3
<1> DEFINE from(i) == IF i <= after THEN i ELSE i - 1
<1>8. /\ new \in Seq(Slabs) /\ DOMAIN new = 1..(Len(list) + 1)
      /\ new[after + 1] = s
      /\ \A i \in 1..(Len(list) + 1) : i # after + 1 => new[i] = list[from(i)]
  <2> DEFINE front == left \o <<s>>
  <2>1. front \in Seq(Slabs) /\ Len(front) = after + 1
        /\ \A i \in 1..(after + 1) : front[i] = IF i <= after THEN list[i] ELSE s
    BY <1>7
  <2>2. new = front \o right
    BY <1>2
  <2> HIDE DEF front, new
  <2>3. /\ front \o right \in Seq(Slabs) /\ Len(front \o right) = Len(front) + Len(right)
        /\ \A i \in 1..(Len(front) + Len(right)) :
             (front \o right)[i] = IF i <= Len(front) THEN front[i] ELSE right[i - Len(front)]
    BY <1>5, <2>1, ConcatProperties
  <2>4. Len(front) + Len(right) = Len(list) + 1
    BY <1>3, <1>5, <2>1
  <2>5. DOMAIN new = 1..(Len(list) + 1)
    BY <2>2, <2>3, <2>4, LenProperties
  <2>6. new[after + 1] = s
    BY <1>3, <2>1, <2>2, <2>3, <2>4
  <2>7. ASSUME NEW i \in 1..(Len(list) + 1), i # after + 1 PROVE new[i] = list[from(i)]
    <3>1. CASE i <= after
      BY <1>3, <2>1, <2>2, <2>3, <2>4, <3>1
    <3>2. CASE ~(i <= after)
      <4>1. new[i] = right[i - (after + 1)]
        <5>1. i \in 1..(Len(front) + Len(right)) /\ ~(i <= Len(front)) /\ Len(front) = after + 1
          BY <1>3, <2>1, <2>4, <2>7, <3>2
        <5> QED BY <2>2, <2>3, <5>1
      <4>2. i - (after + 1) \in 1..(Len(list) - after) /\ after + (i - (after + 1)) = i - 1
        BY <1>3, <2>7, <3>2
      <4> QED BY <1>5, <3>2, <4>1, <4>2
    <3> QED BY <3>1, <3>2
  <2> QED BY <2>2, <2>3, <2>5, <2>6, <2>7
<1> HIDE DEF new
<1>9. \A i \in DOMAIN new : i # after + 1 => from(i) \in DOMAIN list
  BY SMTT(30), <1>3, <1>8
<1>10. \A k \in DOMAIN list : \E i \in DOMAIN new : i # after + 1 /\ from(i) = k
  <2> SUFFICES ASSUME NEW k \in DOMAIN list PROVE \E i \in DOMAIN new : i # after + 1 /\ from(i) = k
    OBVIOUS
  <2>1. CASE k <= after
    <3>1. k \in DOMAIN new /\ k # after + 1 /\ from(k) = k
      BY SMTT(30), <1>3, <1>8, <2>1
    <3> QED BY <3>1
  <2>2. CASE ~(k <= after)
    <3>1. k + 1 \in DOMAIN new /\ k + 1 # after + 1 /\ from(k + 1) = k
      BY SMTT(30), <1>3, <1>8, <2>2
    <3> QED BY <3>1
  <2> QED BY <2>1, <2>2
<1>11. /\ \A i, j \in DOMAIN new : i # after + 1 /\ j # after + 1 =>
             (i < j => from(i) < from(j)) /\ (i # j => from(i) # from(j))
       /\ after + 1 \in DOMAIN new
       /\ \A i \in DOMAIN new : /\ i < after + 1 => from(i) <= after
                               /\ i > after + 1 => from(i) \in (after + 1)..Len(list)
  <2>1. DOMAIN new = 1..(Len(list) + 1)
    BY <1>8
  <2>2. after + 1 \in DOMAIN new
    BY <1>3, <2>1
  <2>3. \A i, j \in DOMAIN new : i # after + 1 /\ j # after + 1 =>
             (i < j => from(i) < from(j)) /\ (i # j => from(i) # from(j))
    BY SMTT(30), <1>3, <2>1
  <2>4. \A i \in DOMAIN new : /\ i < after + 1 => from(i) <= after
                             /\ i > after + 1 => from(i) \in (after + 1)..Len(list)
    BY <1>3, <2>1
  <2> QED BY <2>2, <2>3, <2>4
<1> HIDE DEF from
<1>12. Members(new) = Members(list) \cup {s}
  BY <1>8, <1>9, <1>10, <1>11 DEF Members
<1>13. NoRepeats(new)
  <2>1. \A k \in DOMAIN list : list[k] # s
    BY DEF Members
  <2> QED BY <1>8, <1>9, <1>11, <2>1 DEF NoRepeats
<1>14. ASSUME NEW num \in [Slabs -> Nat], Sorted(list, num_slabs), num[s] = n,
              \A r \in Members(list) : num[r] = num_slabs[r]
       PROVE  Sorted(new, num)
  <2>1. \A k \in DOMAIN list : num[list[k]] = num_slabs[list[k]] /\ num_slabs[list[k]] \in Nat
    BY <1>3, <1>14, ElementOfSeq DEF Members
  <2>2. ASSUME NEW i \in DOMAIN new, i < after + 1 PROVE num[new[i]] <= n
    <3>0. i \in 1..(Len(list) + 1) /\ i # after + 1
      BY <1>3, <1>8, <2>2
    <3>1. after > 0 /\ after \in DOMAIN list
      BY <1>3, <2>2, <3>0
    <3>2. from(i) \in DOMAIN list /\ from(i) <= after
      <4>1. from(i) \in DOMAIN list
        BY <1>9, <3>0
      <4>2. from(i) <= after
        BY <1>3, <2>2, <3>0 DEF from
      <4> QED BY <4>1, <4>2
    <3>3. num_slabs[list[from(i)]] <= num_slabs[list[after]]
      <4>1. CASE from(i) = after
        BY <2>1, <3>1, <4>1
      <4>2. CASE from(i) # after
        <5>1. from(i) < after
          BY <1>3, <3>2, <4>2
        <5> QED BY <1>14, <3>1, <3>2, <5>1 DEF Sorted
      <4> QED BY <4>1, <4>2
    <3>4. new[i] = list[from(i)]
      BY <1>8, <3>0
    <3> QED BY <1>1, <2>1, <3>1, <3>2, <3>3, <3>4
  <2>3. ASSUME NEW i \in DOMAIN new, i > after + 1 PROVE n <= num[new[i]]
    <3>0. i \in 1..(Len(list) + 1) /\ i # after + 1
      BY <1>3, <1>8, <2>3
    <3>1. from(i) \in DOMAIN list /\ from(i) \in (after + 1)..Len(list)
      <4>1. from(i) \in DOMAIN list
        BY <1>9, <3>0
      <4>2. from(i) \in (after + 1)..Len(list)
        BY SMTT(30), <1>3, <2>3, <3>0 DEF from
      <4> QED BY <4>1, <4>2
    <3>2. new[i] = list[from(i)]
      BY <1>8, <3>0
    <3> QED BY <1>1, <2>1, <3>1, <3>2
  <2>4. ASSUME NEW i \in DOMAIN new, NEW j \in DOMAIN new, i < j PROVE num[new[i]] <= num[new[j]]
    <3>1. CASE i = after + 1
      BY <1>8, <1>14, <2>3, <2>4, <3>1
    <3>2. CASE j = after + 1
      BY <1>8, <1>14, <2>2, <2>4, <3>2
    <3>3. CASE i # after + 1 /\ j # after + 1
      BY <1>8, <1>9, <1>11, <1>14, <2>1, <2>4, <3>3 DEF Sorted
    <3> QED BY <3>1, <3>2, <3>3
  <2> QED BY <2>4 DEF Sorted
<1> QED BY <1>8, <1>12, <1>13, <1>14 DEF new

-----------------------------------------------------------------------------
(* The bins: which regions they hold, where and in what order.              *)
Ordered(bs, num) ==
  /\ bs \in [Bins -> Seq(Slabs)]
  /\ \A b \in Bins : NoRepeats(bs[b]) /\ \A s \in Members(bs[b]) : BinOf(num[s]) = b /\ num[s] > 0
  /\ Sorted(bs[NumBins], num)

InBins(bs) == UNION {Members(bs[b]) : b \in Bins}

Marked(bs, marks) ==
  /\ marks \subseteq Bins
  /\ \A b \in 1..MaxSeg : bs[b] # <<>> => b \in marks
  /\ NumBins \notin marks

LEMMA BinsAreBins == NumBins \in Bins /\ MaxSeg \in Nat /\ 1..MaxSeg = Bins \ {NumBins} /\ Bins \subseteq Nat
BY SlabHeapAssumption DEF Bins, MaxSeg

LEMMA NoMembers ==
  ASSUME NEW list \in Seq(Slabs)
  PROVE  list = <<>> <=> Members(list) = {}
<1>1. Len(list) \in Nat /\ DOMAIN list = 1..Len(list)
  BY LenProperties
<1>2. list # <<>> => 1 \in DOMAIN list
  BY <1>1, EmptySeq
<1>3. Members(<<>>) = {}
  BY DEF Members
<1> QED BY <1>2, <1>3 DEF Members

(* Out of the bin it is in.                                                 *)
LEMMA UnlinkOne ==
  ASSUME NEW num \in [Slabs -> Nat], NEW bs, Ordered(bs, num), NEW s
  PROVE  /\ Ordered(Unlink(bs, s), num)
         /\ InBins(Unlink(bs, s)) = InBins(bs) \ {s}
         /\ \A marks : Marked(bs, marks) => Marked(Unlink(bs, s), marks)
<1> DEFINE new == Unlink(bs, s)
<1>1. ASSUME NEW b \in Bins
      PROVE  /\ new[b] \in Seq(Slabs) /\ NoRepeats(new[b]) /\ Members(new[b]) = Members(bs[b]) \ {s}
             /\ Sorted(bs[b], num) => Sorted(new[b], num)
  <2>1. bs[b] \in Seq(Slabs) /\ NoRepeats(bs[b]) /\ new[b] = Without(bs[b], s)
    BY DEF Ordered, Unlink
  <2> QED BY <2>1, WithoutOne
<1>2. DOMAIN new = Bins /\ new = [b \in Bins |-> new[b]]
  BY DEF Unlink
<1> HIDE DEF new
<1>3. new \in [Bins -> Seq(Slabs)]
  BY <1>1, <1>2
<1>4. Ordered(new, num)
  BY <1>1, <1>3, BinsAreBins DEF Ordered
<1>5. InBins(new) = InBins(bs) \ {s}
  <2> SUFFICES ASSUME NEW r PROVE r \in InBins(new) <=> r \in InBins(bs) /\ r # s
    OBVIOUS
  <2>1. \A list \in [Bins -> Seq(Slabs)] : r \in InBins(list) <=> \E b \in Bins : r \in Members(list[b])
    BY DEF InBins
  <2> QED BY <1>1, <1>3, <2>1 DEF Ordered
<1>6. ASSUME NEW marks, Marked(bs, marks) PROVE Marked(new, marks)
  <2>1. ASSUME NEW b \in 1..MaxSeg, new[b] # <<>> PROVE bs[b] # <<>>
    <3>1. b \in Bins
      BY BinsAreBins
    <3>2. bs[b] \in Seq(Slabs)
      BY <3>1 DEF Ordered
    <3>3. Members(new[b]) # {}
      BY <1>1, <2>1, <3>1, NoMembers
    <3>4. Members(bs[b]) # {}
      BY <1>1, <3>1, <3>3
    <3> QED BY <3>2, <3>4, NoMembers
  <2> QED BY <1>6, <2>1 DEF Marked
<1> QED BY <1>4, <1>5, <1>6 DEF new

(* Into the bin of its size.                                                *)
LEMMA LinkOne ==
  ASSUME NEW num \in [Slabs -> Nat], NEW bs, Ordered(bs, num_slabs), num_slabs \in [Slabs -> Nat],
         NEW s \in Slabs \ InBins(bs), NEW n \in Nat \ {0},
         num[s] = n, \A r \in InBins(bs) : num[r] = num_slabs[r]
  PROVE  /\ Ordered(Link(bs, s, n), num)
         /\ InBins(Link(bs, s, n)) = InBins(bs) \cup {s}
         /\ \A marks : Marked(bs, marks) => Marked(Link(bs, s, n), Mark(marks, n))
<1> DEFINE new == Link(bs, s, n)
           at  == BinOf(n)
<1>1. at \in Bins /\ (n <= MaxSeg <=> at # NumBins) /\ (n > MaxSeg <=> at = NumBins)
  BY SlabHeapAssumption DEF BinOf, Bins, MaxSeg
<1>2. /\ bs \in [Bins -> Seq(Slabs)]
      /\ \A b \in Bins : bs[b] \in Seq(Slabs) /\ NoRepeats(bs[b]) /\ s \notin Members(bs[b])
  BY DEF Ordered, InBins
<1>3. /\ \A b \in Bins : b # at => new[b] = bs[b]
      /\ new[at] \in Seq(Slabs) /\ NoRepeats(new[at]) /\ Members(new[at]) = Members(bs[at]) \cup {s}
      /\ at = NumBins => Sorted(new[at], num)
      /\ new \in [Bins -> Seq(Slabs)]
  <2>1. CASE n <= MaxSeg
    <3>1. new = [bs EXCEPT ![at] = Append(bs[at], s)]
      BY <2>1 DEF Link
    <3>2. /\ Append(bs[at], s) \in Seq(Slabs)
          /\ Members(Append(bs[at], s)) = Members(bs[at]) \cup {s}
          /\ NoRepeats(Append(bs[at], s))
      BY <1>1, <1>2, AppendOne
    <3> HIDE DEF new, at
    <3> QED BY <1>1, <1>2, <2>1, <3>1, <3>2
  <2>2. CASE n > MaxSeg
    <3>1. new = [bs EXCEPT ![NumBins] = LinkLarge(bs[NumBins], s, n)] /\ at = NumBins
      BY <1>1, <2>2, BinsAreBins DEF Link
    <3>2. /\ LinkLarge(bs[NumBins], s, n) \in Seq(Slabs)
          /\ Members(LinkLarge(bs[NumBins], s, n)) = Members(bs[NumBins]) \cup {s}
          /\ NoRepeats(LinkLarge(bs[NumBins], s, n))
          /\ \A nm \in [Slabs -> Nat] :
              /\ Sorted(bs[NumBins], num_slabs)
              /\ nm[s] = n /\ \A r \in Members(bs[NumBins]) : nm[r] = num_slabs[r]
              => Sorted(LinkLarge(bs[NumBins], s, n), nm)
      BY <1>2, BinsAreBins, LinkLargeOne
    <3>3. Sorted(LinkLarge(bs[NumBins], s, n), num)
      <4>1. Sorted(bs[NumBins], num_slabs)
        BY DEF Ordered
      <4>2. \A r \in Members(bs[NumBins]) : num[r] = num_slabs[r]
        BY BinsAreBins DEF InBins
      <4> QED BY <3>2, <4>1, <4>2
    <3> HIDE DEF new
    <3>4. \A b \in Bins : b # at => new[b] = bs[b]
      BY <1>2, <3>1
    <3>5. new[at] = LinkLarge(bs[NumBins], s, n)
      BY <1>1, <1>2, <3>1
    <3>6. new \in [Bins -> Seq(Slabs)]
      BY <1>1, <1>2, <3>1, <3>2
    <3> HIDE DEF at
    <3> QED BY <3>1, <3>2, <3>3, <3>4, <3>5, <3>6
  <2> QED BY <2>1, <2>2, <1>1
<1> HIDE DEF new
<1>4. Ordered(new, num)
  <2>1. ASSUME NEW b \in Bins PROVE NoRepeats(new[b])
    BY <1>2, <1>3
  <2>2. ASSUME NEW b \in Bins, NEW r \in Members(new[b]) PROVE BinOf(num[r]) = b /\ num[r] > 0
    <3>1. CASE r \in Members(bs[b])
      BY <3>1 DEF Ordered, InBins
    <3>2. CASE r \notin Members(bs[b])
      <4>1. b = at /\ r = s
        BY <1>3, <2>2, <3>2
      <4> QED BY <4>1
    <3> QED BY <3>1, <3>2
  <2>3. Sorted(new[NumBins], num)
    <3>1. CASE at = NumBins
      BY <1>3, <3>1
    <3>2. CASE at # NumBins
      <4>1. new[NumBins] = bs[NumBins] /\ Sorted(bs[NumBins], num_slabs)
        BY <1>3, <3>2, BinsAreBins DEF Ordered
      <4>2. \A r \in Members(bs[NumBins]) : num[r] = num_slabs[r]
        BY BinsAreBins DEF InBins
      <4> QED BY <4>1, <4>2 DEF Sorted, Members
    <3> QED BY <3>1, <3>2
  <2> QED BY <1>3, <2>1, <2>2, <2>3 DEF Ordered
<1>5. InBins(new) = InBins(bs) \cup {s}
  <2> SUFFICES ASSUME NEW r PROVE r \in InBins(new) <=> r \in InBins(bs) \/ r = s
    OBVIOUS
  <2>1. \A list \in [Bins -> Seq(Slabs)] : r \in InBins(list) <=> \E b \in Bins : r \in Members(list[b])
    BY DEF InBins
  <2>2. \A b \in Bins : r \in Members(new[b]) <=> r \in Members(bs[b]) \/ (b = at /\ r = s)
    BY <1>3
  <2> HIDE DEF at
  <2> QED BY <1>1, <1>2, <1>3, <2>1, <2>2
<1>6. ASSUME NEW marks, Marked(bs, marks) PROVE Marked(new, Mark(marks, n))
  <2>1. Mark(marks, n) = IF at # NumBins THEN marks \cup {at} ELSE marks
    BY <1>1 DEF Mark
  <2>2. ASSUME NEW b \in 1..MaxSeg, new[b] # <<>> PROVE b \in Mark(marks, n)
    <3>1. b \in Bins /\ b # NumBins
      BY BinsAreBins
    <3>2. CASE b = at
      BY <2>1, <3>1, <3>2
    <3>3. CASE b # at
      BY <1>3, <1>6, <2>1, <2>2, <3>1, <3>3 DEF Marked
    <3> QED BY <3>2, <3>3
  <2> HIDE DEF at
  <2> QED BY <1>1, <1>6, <2>1, <2>2 DEF Marked
<1> QED BY <1>4, <1>5, <1>6 DEF new

(* The search finds a region that is large enough, if there is one.         *)
LEMMA SearchFinds ==
  ASSUME num_slabs \in [Slabs -> Nat], Ordered(bins, num_slabs), Marked(bins, skiplist),
         NEW n \in Nat \ {0}
  PROVE  /\ \A f \in Found(n) : f.s \in InBins(bins) /\ f.size = num_slabs[f.s] /\ f.size >= n
         /\ Found(n) = {} => \A s \in InBins(bins) : num_slabs[s] < n
         /\ Marked(bins, Unmarked(n))
<1> DEFINE found == {b \in SearchedBins(n) : bins[b] # <<>>}
           large == bins[NumBins]
           first == FirstNonEmpty(n)
           Right ==
             /\ \A f \in Found(n) : f.s \in InBins(bins) /\ f.size = num_slabs[f.s] /\ f.size >= n
             /\ Found(n) = {} => \A s \in InBins(bins) : num_slabs[s] < n
<1>1. found \subseteq Bins \ {NumBins} /\ found \subseteq Nat
  BY BinsAreBins DEF Marked, SearchedBins
<1>2. ASSUME found # {}
      PROVE  first \in found /\ \A c \in found : first <= c
  <2>1. first = CHOOSE b \in found : \A c \in found : b <= c
    BY <1>2 DEF FirstNonEmpty
  <2>2. \E b \in found : \A c \in found : b <= c
    BY <1>1, <1>2, LeastExists
  <2> HIDE DEF found, first
  <2> QED BY <2>1, <2>2
<1>3. found = {} => first = NumBins + 1
  BY DEF FirstNonEmpty
<1>4. NumBins \in Nat \ {0, 1} /\ MaxSeg = NumBins - 1 /\ NumBins \in Bins
  BY SlabHeapAssumption, BinsAreBins DEF MaxSeg
<1>5. ASSUME NEW b \in Bins, NEW s \in Members(bins[b])
      PROVE  /\ s \in InBins(bins) /\ num_slabs[s] \in Nat
             /\ b # NumBins => num_slabs[s] = b
             /\ b = NumBins => num_slabs[s] >= NumBins
  <2>1. s \in Slabs
    BY LenProperties, ElementOfSeq DEF Ordered, Members
  <2>2. BinOf(num_slabs[s]) = b /\ num_slabs[s] > 0 /\ num_slabs[s] \in Nat
    BY <2>1 DEF Ordered
  <2> QED BY <1>4, <2>2 DEF BinOf, InBins
<1>6. ASSUME NEW list \in Seq(Slabs), list # <<>> PROVE Head(list) \in Members(list)
  <2>1. Len(list) \in Nat \ {0} /\ DOMAIN list = 1..Len(list)
    BY <1>6, EmptySeq, LenProperties
  <2>2. Head(list) = list[1]
    BY <1>6
  <2> QED BY <2>1, <2>2 DEF Members
<1>7. \A b \in Bins : bins[b] \in Seq(Slabs)
  BY DEF Ordered
<1>8. ASSUME n <= MaxSeg /\ found # {} PROVE Right
  <2>1. first \in Bins /\ first # NumBins /\ bins[first] # <<>> /\ n <= first /\ first <= NumBins
    BY <1>1, <1>2, <1>8, SlabHeapAssumption DEF SearchedBins, Bins
  <2>2. Found(n) = {[s |-> Head(bins[first]), size |-> first]}
    BY <1>8, <2>1 DEF Found
  <2>3. Head(bins[first]) \in Members(bins[first])
    BY <1>6, <1>7, <2>1
  <2> HIDE DEF first
  <2>4. Head(bins[first]) \in InBins(bins) /\ num_slabs[Head(bins[first])] = first
    BY <1>5, <2>1, <2>3
  <2>5. \A f \in Found(n) : f.s \in InBins(bins) /\ f.size = num_slabs[f.s] /\ f.size >= n
    BY <2>1, <2>2, <2>4, BinsAreBins
  <2>6. Found(n) # {}
    BY <2>2
  <2> QED BY <2>5, <2>6
<1>9. ASSUME n <= MaxSeg /\ found = {} /\ large # <<>> PROVE Right
  <2>1. Found(n) = {[s |-> Head(large), size |-> num_slabs[Head(large)]]}
    BY <1>3, <1>4, <1>9 DEF Found
  <2>2. Head(large) \in Members(large)
    BY <1>4, <1>6, <1>7, <1>9
  <2>3. Head(large) \in InBins(bins) /\ num_slabs[Head(large)] >= NumBins /\ num_slabs[Head(large)] \in Nat
    BY <1>4, <1>5, <2>2
  <2>4. num_slabs[Head(large)] >= n
    BY <1>4, <1>9, <2>3
  <2>5. Found(n) # {}
    BY <2>1
  <2>6. \A f \in Found(n) : f.s \in InBins(bins) /\ f.size = num_slabs[f.s] /\ f.size >= n
    BY <2>1, <2>3, <2>4
  <2> QED BY <2>5, <2>6
<1>10. ASSUME n <= MaxSeg /\ found = {} /\ large = <<>> PROVE Right
  <2> SUFFICES ASSUME NEW b \in Bins, NEW s \in Members(bins[b]) PROVE num_slabs[s] < n
    <3>1. Found(n) = {}
      BY <1>3, <1>4, <1>10 DEF Found
    <3> QED BY <3>1 DEF InBins
  <2>1. bins[b] # <<>>
    BY DEF Members
  <2>2. b # NumBins
    BY <1>10, <2>1
  <2>3. b \in skiplist
    BY <2>1, <2>2, BinsAreBins DEF Marked
  <2>4. ~(n <= b)
    BY <1>10, <2>1, <2>3 DEF SearchedBins
  <2> QED BY <1>5, <2>2, <2>4, BinsAreBins
<1>11. ASSUME n > MaxSeg /\ LargeFits(n) # {} PROVE Right
  <2> DEFINE i == CHOOSE j \in LargeFits(n) : \A k \in LargeFits(n) : j <= k
  <2>1. LargeFits(n) \subseteq Nat
    BY <1>4, <1>7, LenProperties DEF LargeFits
  <2>2. i \in LargeFits(n)
    <3>1. \E j \in LargeFits(n) : \A k \in LargeFits(n) : j <= k
      BY <1>11, <2>1, LeastExists
    <3> QED BY <3>1
  <2>3. ~(n <= MaxSeg)
    BY <1>4, <1>11
  <2>4. Found(n) = {[s |-> large[i], size |-> num_slabs[large[i]]]}
    BY <1>11, <2>3 DEF Found
  <2> HIDE DEF i
  <2>5. large[i] \in Members(large) /\ num_slabs[large[i]] >= n
    BY <2>2 DEF LargeFits, Members
  <2>6. large[i] \in InBins(bins)
    BY <1>4, <1>5, <2>5
  <2>7. \A f \in Found(n) : f.s \in InBins(bins) /\ f.size = num_slabs[f.s] /\ f.size >= n
    BY <2>4, <2>5, <2>6
  <2>8. Found(n) # {}
    BY <2>4
  <2> QED BY <2>7, <2>8
<1>12. ASSUME n > MaxSeg /\ LargeFits(n) = {} PROVE Right
  <2>1. Found(n) = {}
    BY <1>4, <1>12 DEF Found
  <2>2. ASSUME NEW b \in Bins, NEW s \in Members(bins[b]) PROVE num_slabs[s] < n
    <3>1. CASE b = NumBins
      <4>1. PICK i \in DOMAIN large : s = large[i]
        BY <2>2, <3>1 DEF Members
      <4>2. ~(num_slabs[s] >= n)
        BY <1>12, <4>1 DEF LargeFits
      <4> QED BY <1>5, <2>2, <4>2
    <3>2. CASE b # NumBins
      <4>1. num_slabs[s] = b /\ b \in 1..MaxSeg
        BY <1>5, <2>2, <3>2, BinsAreBins
      <4> QED BY <1>4, <1>12, <4>1
    <3> QED BY <3>1, <3>2
  <2>3. \A s \in InBins(bins) : num_slabs[s] < n
    BY <2>2 DEF InBins
  <2> QED BY <2>1, <2>3
<1>13. Marked(bins, Unmarked(n))
  <2>1. ASSUME NEW b \in 1..MaxSeg, bins[b] # <<>> PROVE b \in Unmarked(n)
    <3>1. b \in skiplist
      BY <2>1 DEF Marked
    <3>2. ASSUME b \in SearchedBins(n) PROVE ~(b < first)
      <4>1. b \in found
        BY <2>1, <3>2
      <4>2. first <= b /\ first \in Nat /\ b \in Nat
        BY <1>1, <1>2, <4>1
      <4> QED BY <4>2
    <3> QED BY <3>1, <3>2 DEF Unmarked
  <2> QED BY <2>1 DEF Marked, Unmarked
<1> QED BY <1>4, <1>8, <1>9, <1>10, <1>11, <1>12, <1>13

-----------------------------------------------------------------------------
(* The heap as a row of regions, starts R with sizes sz, up to end.         *)
Tiles(R, sz, end) ==
  /\ \A s \in R : s \in Nat /\ sz[s] \in Nat \ {0} /\ s + sz[s] <= end
  /\ \A r, s \in R : r < s => r + sz[r] <= s
  /\ \A i \in 0..(end - 1) : \E s \in R : Covers(s, sz[s], i)

(* A region is followed by the end of the heap or by a region.              *)
LEMMA NextRegion ==
  ASSUME NEW R, NEW sz, NEW end \in Nat, Tiles(R, sz, end), NEW r \in R
  PROVE  r + sz[r] \in R \cup {end}
<1>1. r \in Nat /\ sz[r] \in Nat \ {0} /\ r + sz[r] <= end
  BY DEF Tiles
<1>2. CASE r + sz[r] = end
  BY <1>2
<1>3. CASE r + sz[r] # end
  <2>1. r + sz[r] \in 0..(end - 1)
    BY <1>1, <1>3
  <2>2. PICK s \in R : Covers(s, sz[s], r + sz[r])
    BY <2>1 DEF Tiles
  <2>3. s \in Nat /\ sz[s] \in Nat /\ s <= r + sz[r] /\ r + sz[r] < s + sz[s]
    BY <2>2 DEF Tiles, Covers
  <2>4. (s < r => s + sz[s] <= r) /\ (r < s => r + sz[r] <= s)
    BY DEF Tiles
  <2>5. s = r + sz[r]
    BY <1>1, <2>3, <2>4
  <2> QED BY <2>5
<1> QED BY <1>2, <1>3

(* A region is at the start of the heap or follows a region, as its end does. *)
LEMMA RegionBefore ==
  ASSUME NEW R, NEW sz, NEW end \in Nat, Tiles(R, sz, end), NEW x \in R \cup {end}, x > 0
  PROVE  \E p \in R : p + sz[p] = x
<1>1. x \in Nat /\ x <= end
  BY DEF Tiles
<1>2. x - 1 \in 0..(end - 1)
  BY <1>1
<1>3. PICK p \in R : Covers(p, sz[p], x - 1)
  BY <1>2 DEF Tiles
<1>4. p \in Nat /\ sz[p] \in Nat /\ p + sz[p] <= end /\ p <= x - 1 /\ x - 1 < p + sz[p]
  BY <1>3 DEF Tiles, Covers
<1>5. x \in R => p + sz[p] <= x
  BY <1>1, <1>4 DEF Tiles
<1>6. p + sz[p] = x
  BY <1>1, <1>4, <1>5
<1> QED BY <1>6

(* The regions from lo up to hi become an owned one of `keep` slabs and a   *)
(* free one for the rest up to hi2; the heap may grow where it ends.        *)
Retiled(R, sz, end, lo, keep, hi, hi2, R2, sz2, end2) ==
  /\ lo \in R \cup {end} /\ hi \in R \cup {end} /\ lo <= hi
  /\ hi2 \in Nat /\ lo < hi2 /\ keep \in 0..(hi2 - lo)
  /\ IF hi = end THEN end2 = hi2 ELSE hi2 = hi /\ end2 = end
  /\ \A r : r \in R2 <=> \/ r \in R /\ ~(lo <= r /\ r < hi)
                         \/ r = lo /\ keep > 0
                         \/ r = lo + keep /\ lo + keep < hi2
  /\ \A r \in R : ~(lo <= r /\ r < hi) => sz2[r] = sz[r]
  /\ keep > 0 => sz2[lo] = keep
  /\ lo + keep < hi2 => sz2[lo + keep] = hi2 - (lo + keep)

LEMMA NewTiles ==
  ASSUME NEW R, NEW sz, NEW end \in Nat, Tiles(R, sz, end),
         NEW lo, NEW keep, NEW hi, NEW hi2, NEW R2, NEW sz2, NEW end2,
         Retiled(R, sz, end, lo, keep, hi, hi2, R2, sz2, end2)
  PROVE  Tiles(R2, sz2, end2)
<1>0. /\ lo \in R \cup {end} /\ hi \in R \cup {end} /\ lo <= hi
      /\ hi2 \in Nat /\ lo < hi2 /\ keep \in 0..(hi2 - lo)
      /\ IF hi = end THEN end2 = hi2 ELSE hi2 = hi /\ end2 = end
      /\ \A r : r \in R2 <=> \/ r \in R /\ ~(lo <= r /\ r < hi)
                             \/ r = lo /\ keep > 0
                             \/ r = lo + keep /\ lo + keep < hi2
      /\ \A r \in R : ~(lo <= r /\ r < hi) => sz2[r] = sz[r]
      /\ keep > 0 => sz2[lo] = keep
      /\ lo + keep < hi2 => sz2[lo + keep] = hi2 - (lo + keep)
  BY DEF Retiled
<1> USE <1>0
<1> DEFINE mid == lo + keep
           In(r) == lo <= r /\ r < hi
<1>1. lo \in Nat /\ hi \in Nat /\ lo <= end /\ hi <= end /\ keep \in Nat /\ mid \in Nat /\ mid <= hi2
  BY DEF Tiles
<1>2. ASSUME NEW r \in R
      PROVE  /\ r \in Nat /\ sz[r] \in Nat \ {0} /\ r + sz[r] <= end
             /\ r < lo => r + sz[r] <= lo
             /\ r < hi => r + sz[r] <= hi
             /\ ~In(r) => r < lo \/ (hi2 = hi /\ end2 = end /\ hi <= r)
  <2>1. r \in Nat /\ sz[r] \in Nat \ {0} /\ r + sz[r] <= end
    BY DEF Tiles
  <2>2. (r < lo => r + sz[r] <= lo) /\ (r < hi => r + sz[r] <= hi)
    BY <2>1 DEF Tiles
  <2>3. ~In(r) => r < lo \/ (hi2 = hi /\ end2 = end /\ hi <= r)
    BY <1>1, <2>1
  <2> QED BY <2>1, <2>2, <2>3
<1>3. hi2 <= end2 /\ end2 \in Nat
  BY <1>1
<1>4. ASSUME NEW s \in R2
      PROVE  /\ s \in Nat /\ sz2[s] \in Nat \ {0} /\ s + sz2[s] <= end2
             /\ \/ s \in R /\ ~In(s) /\ sz2[s] = sz[s]
                \/ s = lo /\ keep > 0 /\ sz2[s] = keep
                \/ s = mid /\ mid < hi2 /\ sz2[s] = hi2 - mid
  <2>1. CASE s \in R /\ ~In(s)
    <3>1. s \in Nat /\ sz[s] \in Nat \ {0} /\ s + sz[s] <= end2
      BY <1>1, <1>2, <1>3, <2>1
    <3> QED BY <2>1, <3>1
  <2>2. CASE s = lo /\ keep > 0
    BY <1>1, <1>3, <2>2
  <2>3. CASE s = mid /\ mid < hi2
    BY <1>1, <1>3, <2>3
  <2> QED BY <2>1, <2>2, <2>3
<1>5. ASSUME NEW r \in R2, NEW s \in R2, r < s PROVE r + sz2[r] <= s
  <2>1. CASE r \in R /\ ~In(r) /\ sz2[r] = sz[r]
    <3>1. CASE s \in R
      BY <1>5, <2>1, <3>1 DEF Tiles
    <3>2. CASE s = lo \/ (s = mid /\ mid < hi2)
      <4>1. lo <= s /\ s < hi2
        BY <1>1, <3>2
      <4>2. r < lo
        BY <1>1, <1>2, <1>5, <2>1, <4>1
      <4> QED BY <1>1, <1>2, <2>1, <4>1, <4>2
    <3> QED BY <1>4, <3>1, <3>2
  <2>2. CASE r = lo /\ keep > 0 /\ sz2[r] = keep
    <3>1. CASE s \in R /\ ~In(s)
      BY <1>1, <1>2, <1>5, <2>2, <3>1
    <3>2. CASE s = mid
      BY <2>2, <3>2
    <3> QED BY <1>4, <1>5, <2>2, <3>1, <3>2
  <2>3. CASE r = mid /\ mid < hi2 /\ sz2[r] = hi2 - mid
    <3>1. s \in R /\ ~In(s)
      BY <1>1, <1>4, <1>5, <2>3
    <3>2. hi2 <= s
      BY <1>1, <1>2, <1>5, <2>3, <3>1
    <3> QED BY <1>1, <1>4, <2>3, <3>2
  <2> QED BY <1>4, <2>1, <2>2, <2>3
<1>6. ASSUME NEW i \in 0..(end2 - 1) PROVE \E s \in R2 : Covers(s, sz2[s], i)
  <2>1. CASE lo <= i /\ i < mid
    <3>1. lo \in R2 /\ sz2[lo] = keep
      BY <1>1, <2>1
    <3> QED BY <2>1, <3>1 DEF Covers
  <2>2. CASE mid <= i /\ i < hi2
    <3>1. mid \in R2 /\ sz2[mid] = hi2 - mid
      BY <1>1, <2>2
    <3>2. mid <= i /\ i < mid + sz2[mid]
      BY <1>1, <2>2, <3>1
    <3> QED BY <3>1, <3>2 DEF Covers
  <2>3. CASE i < lo \/ i >= hi2
    <3>1. i \in 0..(end - 1) /\ (i >= hi2 => hi2 = hi /\ end2 = end)
      BY <1>1, <1>3, <2>3
    <3>2. PICK s \in R : Covers(s, sz[s], i)
      BY <3>1 DEF Tiles
    <3>3. ~In(s)
      BY <1>1, <1>2, <2>3, <3>1, <3>2 DEF Covers
    <3>4. s \in R2 /\ sz2[s] = sz[s]
      BY <3>3
    <3> QED BY <3>2, <3>4
  <2> QED BY <1>1, <2>1, <2>2, <2>3
<1> QED BY <1>4, <1>5, <1>6 DEF Tiles

-----------------------------------------------------------------------------
(* The layout of the heap.                                                  *)
Regions == Owned \cup Binned
RegionSize == [s \in Slabs |-> IF owned[s] > 0 THEN owned[s] ELSE num_slabs[s]]
Laid == Tiles(Regions, RegionSize, heap_end) /\ Owned \cap Binned = {}
StartTold == heap_end > 0 => "prev" \in flags[0]

(* What every operation does to the layout: the regions from lo up to hi    *)
(* become an owned region of `keep` slabs and a free one for the rest.      *)
Outside(r, lo, hi) == r < lo \/ (hi < heap_end /\ hi <= r)

RegionsReplaced(lo, keep, hi, hi2) ==
  /\ lo \in Regions \cup {heap_end} /\ hi \in Regions \cup {heap_end} /\ lo <= hi
  /\ hi2 \in Slabs /\ lo < hi2 /\ keep \in 0..(hi2 - lo)
  /\ IF hi = heap_end THEN heap_end' = hi2 ELSE hi2 = hi /\ heap_end' = heap_end
  /\ \A r \in Slabs :
       owned'[r] = IF r = lo THEN keep ELSE IF Outside(r, lo, hi) THEN owned[r] ELSE 0
  /\ \A r : r \in Binned' <=> \/ r \in Binned /\ Outside(r, lo, hi)
                              \/ r = lo + keep /\ lo + keep < hi2
  /\ \A r \in Slabs : Outside(r, lo, hi) => num_slabs'[r] = num_slabs[r]
  /\ lo + keep < hi2 => num_slabs'[lo + keep] = hi2 - (lo + keep)

(* The regions around learn what has become of their neighbour.             *)
TagsReplaced(lo, keep, hi, hi2) ==
  /\ \A r \in Slabs : Outside(r, lo, hi) =>
       footer'[r] = footer[r] /\ (r # hi => flags'[r] = flags[r])
  /\ keep > 0 => "alloc" \in flags'[lo]
  /\ lo + keep < hi2 => flags'[lo + keep] = {"prev"} /\ footer'[hi2 - 1] = hi2 - (lo + keep)
  /\ IF lo = heap_end THEN last_alloc /\ "prev" \in flags'[lo]
     ELSE "prev" \in flags'[lo] <=> "prev" \in flags[lo]
  /\ IF hi = heap_end THEN last_alloc' <=> lo + keep = hi2
     ELSE /\ last_alloc' = last_alloc
          /\ IF lo + keep < hi2 THEN hi \in Owned /\ flags'[hi] = flags[hi] \ {"prev"}
             ELSE flags'[hi] = flags[hi] \cup {"prev"}

LEMMA SlabFacts == MaxSlabs \in Nat \ {0} /\ Slabs = 0..MaxSlabs /\ Slabs \subseteq Nat
BY SlabHeapAssumption DEF Slabs

LEMMA RegionFacts ==
  ASSUME TypeOK, Laid
  PROVE  /\ heap_end \in Nat /\ Regions \subseteq Slabs /\ heap_end \in Slabs /\ Slabs \subseteq Nat
         /\ \A r \in Regions : r \in Nat /\ RegionSize[r] \in Nat \ {0} /\ r + RegionSize[r] <= heap_end
         /\ \A s \in Owned : s \in Slabs /\ owned[s] \in Nat \ {0} /\ RegionSize[s] = owned[s]
         /\ \A s \in Binned : s \in Slabs /\ owned[s] = 0 /\ num_slabs[s] \in Nat /\ RegionSize[s] = num_slabs[s]
<1>1. heap_end \in Nat /\ heap_end \in Slabs /\ Slabs \subseteq Nat
  <2>1. heap_end \in 0..MaxSlabs
    BY DEF TypeOK
  <2> QED BY <2>1, SlabFacts
<1>2. \A r \in Regions : r \in Nat /\ RegionSize[r] \in Nat \ {0} /\ r + RegionSize[r] <= heap_end
  BY DEF Laid, Tiles
<1>3. Regions \subseteq Slabs
  <2>1. heap_end \in 0..MaxSlabs
    BY DEF TypeOK
  <2> QED BY <1>2, <2>1, SlabFacts
<1>4. \A s \in Owned : s \in Slabs /\ owned[s] \in Nat \ {0} /\ RegionSize[s] = owned[s]
  <2>1. \A s \in Slabs : owned[s] \in Nat
    BY SlabFacts DEF TypeOK
  <2> QED BY <2>1 DEF Owned, RegionSize, Slabs
<1>5. ASSUME NEW s \in Binned
      PROVE  s \in Slabs /\ owned[s] = 0 /\ num_slabs[s] \in Nat /\ RegionSize[s] = num_slabs[s]
  <2>1. s \in Slabs /\ s \notin Owned
    BY <1>3 DEF Regions, Laid
  <2>2. owned[s] \in 0..MaxSlabs /\ num_slabs[s] \in 0..MaxSlabs
    BY <2>1 DEF TypeOK
  <2> QED BY <2>1, <2>2, SlabFacts DEF Owned, RegionSize
<1> QED BY <1>1, <1>2, <1>3, <1>4, <1>5

LEMMA ReplacedLaid ==
  ASSUME TypeOK, TypeOK', Laid, NEW lo, NEW keep, NEW hi, NEW hi2, RegionsReplaced(lo, keep, hi, hi2)
  PROVE  /\ Laid'
         /\ \A s \in Slabs : s \in Owned' <=> \/ s \in Owned /\ Outside(s, lo, hi)
                                              \/ s = lo /\ keep > 0
<1>0. /\ heap_end \in Nat /\ Regions \subseteq Slabs /\ heap_end \in Slabs /\ Slabs \subseteq Nat
      /\ \A r \in Regions : r \in Nat /\ RegionSize[r] \in Nat \ {0} /\ r + RegionSize[r] <= heap_end
      /\ Owned \cup Binned = Regions /\ Owned \cap Binned = {}
  BY RegionFacts DEF Regions, Laid
<1>1. /\ lo \in Nat /\ hi \in Nat /\ lo <= heap_end /\ hi <= heap_end /\ lo <= hi
      /\ hi2 \in Nat /\ keep \in Nat /\ lo + keep \in Nat /\ lo + keep <= hi2 /\ lo < hi2
      /\ IF hi = heap_end THEN heap_end' = hi2 ELSE hi2 = hi /\ heap_end' = heap_end
  BY <1>0 DEF RegionsReplaced
<1>2. ASSUME NEW r \in Regions PROVE Outside(r, lo, hi) <=> ~(lo <= r /\ r < hi)
  <2>1. r \in Nat /\ heap_end \in Nat /\ r < heap_end
    BY <1>0
  <2> QED BY <1>1, <2>1 DEF Outside
<1>3. ASSUME NEW s \in Slabs
      PROVE  s \in Owned' <=> \/ s \in Owned /\ Outside(s, lo, hi)
                              \/ s = lo /\ keep > 0
  <2>1. s \in Owned' <=> owned'[s] > 0
    BY DEF Owned, Slabs
  <2>2. owned'[s] = IF s = lo THEN keep ELSE IF Outside(s, lo, hi) THEN owned[s] ELSE 0
    BY DEF RegionsReplaced
  <2>3. s = lo => ~Outside(s, lo, hi)
    BY <1>1 DEF Outside
  <2> QED BY <1>1, <2>1, <2>2, <2>3 DEF Owned
<1>4. ASSUME NEW r
      PROVE  r \in Binned' <=> \/ r \in Binned /\ Outside(r, lo, hi)
                               \/ r = lo + keep /\ lo + keep < hi2
  BY DEF RegionsReplaced
<1>5. lo \in Slabs /\ (lo + keep < hi2 => lo + keep \in Slabs)
  <2>1. hi2 \in Slabs
    BY DEF RegionsReplaced
  <2> QED BY <1>1, <2>1, SlabHeapAssumption DEF Slabs
<1>6. \A r : r \in Regions' <=> \/ r \in Regions /\ ~(lo <= r /\ r < hi)
                                \/ r = lo /\ keep > 0
                                \/ r = lo + keep /\ lo + keep < hi2
  <2>1. \A r : r \in Owned' => r \in Slabs
    BY DEF Owned, Slabs
  <2>2. \A r : r \in Regions' <=> r \in Owned' \/ r \in Binned'
    BY DEF Regions
  <2> QED BY <1>0, <1>2, <1>3, <1>4, <1>5, <2>1, <2>2
<1>7. ASSUME NEW r \in Regions, ~(lo <= r /\ r < hi) PROVE RegionSize'[r] = RegionSize[r]
  <2>1. Outside(r, lo, hi) /\ r \in Slabs /\ r # lo
    BY <1>0, <1>1, <1>2, <1>7
  <2>2. owned'[r] = owned[r] /\ num_slabs'[r] = num_slabs[r]
    BY <2>1 DEF RegionsReplaced
  <2> QED BY <2>1, <2>2 DEF RegionSize, Slabs
<1>8. keep > 0 => RegionSize'[lo] = keep
  <2>1. owned'[lo] = keep
    BY <1>5 DEF RegionsReplaced
  <2> QED BY <1>5, <2>1 DEF RegionSize, Slabs
<1>9. lo + keep < hi2 => RegionSize'[lo + keep] = hi2 - (lo + keep) /\ lo + keep \notin Owned'
  <2> SUFFICES ASSUME lo + keep < hi2
               PROVE  RegionSize'[lo + keep] = hi2 - (lo + keep) /\ lo + keep \notin Owned'
    OBVIOUS
  <2>1. ~Outside(lo + keep, lo, hi)
    BY <1>1 DEF Outside
  <2>2. lo + keep = lo => keep = 0
    BY <1>1
  <2>3. owned'[lo + keep] = 0
    BY <1>5, <2>1, <2>2 DEF RegionsReplaced
  <2>4. num_slabs'[lo + keep] = hi2 - (lo + keep)
    BY DEF RegionsReplaced
  <2> DEFINE mid == lo + keep
  <2>5. mid \in Slabs /\ owned'[mid] = 0 /\ num_slabs'[mid] = hi2 - mid
    BY <1>5, <2>3, <2>4
  <2> HIDE DEF mid
  <2>6. RegionSize'[mid] = hi2 - mid /\ mid \notin Owned'
    BY <2>5 DEF RegionSize, Owned, Slabs
  <2> QED BY <2>6 DEF mid
<1>10. Tiles(Regions', RegionSize', heap_end')
  <2>1. /\ lo \in Regions \cup {heap_end} /\ hi \in Regions \cup {heap_end}
        /\ keep \in 0..(hi2 - lo) /\ Tiles(Regions, RegionSize, heap_end)
    BY DEF RegionsReplaced, Laid
  <2>2. Retiled(Regions, RegionSize, heap_end, lo, keep, hi, hi2, Regions', RegionSize', heap_end')
    BY <1>1, <1>6, <1>7, <1>8, <1>9, <2>1 DEF Retiled
  <2> QED BY <1>0, <2>1, <2>2, NewTiles
<1>11. (Owned \cap Binned = {})'
  <2> SUFFICES ASSUME NEW r \in Owned', r \in Binned' PROVE FALSE
    OBVIOUS
  <2>1. r \in Slabs
    BY DEF Owned, Slabs
  <2>2. r # lo + keep \/ ~(lo + keep < hi2)
    BY <1>9
  <2>3. r \in Binned /\ Outside(r, lo, hi)
    BY <1>4, <2>2
  <2>4. r \notin Owned /\ r # lo
    BY <1>0, <1>1, <2>3 DEF Outside
  <2> QED BY <1>3, <2>1, <2>4
<1> QED BY <1>3, <1>10, <1>11 DEF Laid

(* The tags of the regions around keep telling the truth.                   *)
LEMMA ReplacedTags ==
  ASSUME TypeOK, TypeOK', Laid, TagsTellTheTruth, StartTold,
         NEW lo, NEW keep, NEW hi, NEW hi2,
         RegionsReplaced(lo, keep, hi, hi2), TagsReplaced(lo, keep, hi, hi2)
  PROVE  TagsTellTheTruth' /\ StartTold'
<1> DEFINE mid == lo + keep
<1>1. /\ heap_end \in Nat /\ Slabs = 0..MaxSlabs /\ MaxSlabs \in Nat /\ heap_end <= MaxSlabs
      /\ Owned \subseteq Slabs /\ Binned \subseteq Slabs /\ Owned \cap Binned = {}
      /\ \A s \in Owned : owned[s] \in Nat \ {0} /\ s + owned[s] <= heap_end
      /\ \A s \in Binned : num_slabs[s] \in Nat \ {0} /\ s + num_slabs[s] <= heap_end
  <2>1. heap_end \in 0..MaxSlabs
    BY DEF TypeOK
  <2>2. \A s \in Owned : owned[s] \in Nat \ {0} /\ s + owned[s] <= heap_end
    BY RegionFacts DEF Regions
  <2>3. \A s \in Binned : num_slabs[s] \in Nat \ {0} /\ s + num_slabs[s] <= heap_end
    BY RegionFacts DEF Regions
  <2>4. Owned \subseteq Slabs /\ Binned \subseteq Slabs /\ Owned \cap Binned = {}
    BY RegionFacts DEF Regions, Laid
  <2> QED BY <2>1, <2>2, <2>3, <2>4, SlabFacts
<1>2. /\ lo \in Nat /\ hi \in Nat /\ lo <= heap_end /\ hi <= heap_end /\ lo <= hi
      /\ hi2 \in Nat /\ keep \in Nat /\ mid \in Nat /\ mid <= hi2 /\ lo < hi2 /\ hi2 <= MaxSlabs
      /\ (hi = heap_end => heap_end' = hi2) /\ (hi # heap_end => hi2 = hi /\ heap_end' = heap_end)
  <2>1. /\ lo \in Regions \cup {heap_end} /\ hi \in Regions \cup {heap_end} /\ lo <= hi
        /\ hi2 \in Slabs /\ lo < hi2 /\ keep \in 0..(hi2 - lo)
        /\ IF hi = heap_end THEN heap_end' = hi2 ELSE hi2 = hi /\ heap_end' = heap_end
    BY DEF RegionsReplaced
  <2>2. \A r \in Regions : r \in Nat /\ r <= heap_end
    BY <1>1 DEF Regions
  <2> QED BY <1>1, <2>1, <2>2
<1>3. /\ hi # heap_end =>
           /\ last_alloc' = last_alloc
           /\ mid < hi2 => hi \in Owned /\ flags'[hi] = flags[hi] \ {"prev"}
           /\ ~(mid < hi2) => flags'[hi] = flags[hi] \cup {"prev"}
      /\ hi = heap_end => (last_alloc' <=> mid = hi2)
      /\ lo = heap_end => last_alloc /\ "prev" \in flags'[lo]
      /\ lo # heap_end => ("prev" \in flags'[lo] <=> "prev" \in flags[lo])
      /\ keep > 0 => "alloc" \in flags'[lo]
      /\ mid < hi2 => flags'[mid] = {"prev"} /\ num_slabs'[mid] = hi2 - mid /\ footer'[hi2 - 1] = hi2 - mid
  BY DEF TagsReplaced, RegionsReplaced
<1> HIDE DEF mid
<1>4. (keep = 0 => mid = lo) /\ lo <= mid /\ (keep > 0 => mid = lo + keep /\ lo < mid)
  BY <1>2 DEF mid
<1>5. ASSUME NEW r \in Slabs, Outside(r, lo, hi)
      PROVE  /\ owned'[r] = owned[r] /\ num_slabs'[r] = num_slabs[r] /\ footer'[r] = footer[r]
             /\ r # hi => flags'[r] = flags[r]
  <2>1. r # lo
    BY <1>1, <1>2, <1>5 DEF Outside
  <2> QED BY <1>5, <2>1 DEF RegionsReplaced, TagsReplaced
<1>6. ASSUME NEW s \in Slabs
      PROVE  s \in Owned' <=> (s \in Owned /\ Outside(s, lo, hi)) \/ (s = lo /\ keep > 0)
  BY ReplacedLaid
<1>7. \A s : s \in Binned' <=> (s \in Binned /\ Outside(s, lo, hi)) \/ (s = mid /\ mid < hi2)
  BY DEF RegionsReplaced, mid
<1>8. ASSUME NEW r \in Nat, NEW n \in Nat \ {0}, r + n <= heap_end, r < lo => r + n <= lo,
             Outside(r, lo, hi)
      PROVE  /\ r \in Slabs /\ (r + n) - 1 \in Slabs /\ Outside((r + n) - 1, lo, hi)
             /\ (r < lo /\ r + n <= lo) \/ (hi # heap_end /\ hi <= r /\ hi < r + n)
             /\ r + n \in Slabs
             /\ r + n < lo => Outside(r + n, lo, hi) /\ r + n # hi
             /\ hi < r + n => hi # heap_end /\ hi2 = hi /\ heap_end' = heap_end
             /\ hi < r + n /\ r + n < heap_end => Outside(r + n, lo, hi) /\ r + n # hi
  BY <1>1, <1>2, <1>8 DEF Outside
<1>9. ASSUME NEW r \in Regions, r < lo PROVE r + RegionSize[r] <= lo
  <2>1. lo \in Regions \cup {heap_end}
    BY DEF RegionsReplaced
  <2>2. r + RegionSize[r] <= heap_end
    BY RegionFacts
  <2> QED BY <1>9, <2>1, <2>2 DEF Laid, Tiles
(* an owned region,                                                         *)
<1>10. ASSUME NEW s \in Owned'
       PROVE  "alloc" \in flags'[s] /\ (s + owned'[s] < heap_end' => "prev" \in flags'[s + owned'[s]])
  <2>1. CASE s = lo /\ keep > 0
    <3>1. owned'[s] = keep
      BY <2>1, <1>1, <1>2 DEF RegionsReplaced
    <3>2. s + owned'[s] = mid
      BY <1>4, <2>1, <3>1
    <3>3. mid < heap_end' => "prev" \in flags'[mid]
      BY <1>2, <1>3
    <3> QED BY <1>3, <2>1, <3>2, <3>3
  <2>2. CASE s \in Owned /\ Outside(s, lo, hi)
    <3>1. s \in Slabs /\ owned'[s] = owned[s] /\ owned[s] \in Nat \ {0} /\ s + owned[s] <= heap_end
      BY <1>1, <1>5, <2>2
    <3>2. s < lo => s + owned[s] <= lo
      BY <1>9, <2>2, RegionFacts DEF Regions
    <3> DEFINE n == owned[s]
               next == s + n
    <3>3. /\ (s < lo /\ next <= lo) \/ (hi # heap_end /\ hi <= s /\ hi < next)
          /\ next \in Slabs
          /\ next < lo => Outside(next, lo, hi) /\ next # hi
          /\ hi < next => hi # heap_end /\ hi2 = hi /\ heap_end' = heap_end
          /\ hi < next /\ next < heap_end => Outside(next, lo, hi) /\ next # hi
      <4>1. s \in Nat /\ owned[s] \in Nat \ {0} /\ Outside(s, lo, hi)
        BY <1>1, <2>2, <3>1
      <4> HIDE DEF next
      <4> DEFINE m == owned[s]
      <4>2. m \in Nat \ {0} /\ s + m <= heap_end /\ (s < lo => s + m <= lo)
        BY <3>1, <3>2
      <4> HIDE DEF m
      <4>3. next = s + m
        BY DEF next, m, n
      <4> QED BY <1>8, <4>1, <4>2, <4>3
    <3>4. "alloc" \in flags[s] /\ (next < heap_end => "prev" \in flags[next])
      BY <2>2 DEF TagsTellTheTruth
    <3>5. s \in Nat /\ next \in Nat
      BY <1>1, <3>1, <3>3
    <3> HIDE DEF n, next
    <3>6. "alloc" \in flags'[s]
      <4>1. CASE s # hi
        BY <1>5, <2>2, <3>1, <3>4, <4>1
      <4>2. CASE s = hi
        BY <1>2, <1>3, <3>3, <3>4, <3>5, <4>2
      <4> QED BY <4>1, <4>2
    <3>7. ASSUME next < heap_end' PROVE "prev" \in flags'[next]
      <4>1. CASE next < lo
        BY <1>1, <1>2, <1>5, <3>3, <3>4, <3>5, <4>1
      <4>2. CASE next = lo
        BY <1>1, <1>2, <1>3, <3>4, <4>2
      <4>3. CASE hi < next
        BY <1>5, <3>3, <3>4, <3>7, <4>3
      <4> QED BY <1>2, <3>3, <3>5, <4>1, <4>2, <4>3
    <3> QED BY <3>1, <3>6, <3>7 DEF next, n
  <2>3. s \in Slabs
    BY DEF Owned, Slabs
  <2> QED BY <1>6, <2>1, <2>2, <2>3
(* a free one,                                                              *)
<1>11. ASSUME NEW s \in Binned'
       PROVE  /\ flags'[s] = {"prev"}
              /\ footer'[(s + num_slabs'[s]) - 1] = num_slabs'[s]
              /\ s + num_slabs'[s] < heap_end' =>
                   s + num_slabs'[s] \in Owned' /\ "prev" \notin flags'[s + num_slabs'[s]]
  <2>1. CASE s = mid /\ mid < hi2
    <3>1. num_slabs'[s] = hi2 - mid /\ s + num_slabs'[s] = hi2
      BY <1>2, <1>3, <2>1
    <3>2. ASSUME hi2 < heap_end' PROVE hi2 \in Owned' /\ "prev" \notin flags'[hi2]
      <4>1. hi # heap_end /\ hi2 = hi /\ hi < heap_end
        BY <1>1, <1>2, <3>2
      <4>2. hi \in Owned /\ "prev" \notin flags'[hi] /\ Outside(hi, lo, hi)
        BY <1>2, <1>3, <2>1, <4>1 DEF Outside
      <4> QED BY <1>1, <1>6, <4>1, <4>2
    <3>3. footer'[(s + num_slabs'[s]) - 1] = num_slabs'[s]
      <4>1. (s + num_slabs'[s]) - 1 = hi2 - 1
        BY <1>2, <3>1
      <4>2. footer'[hi2 - 1] = num_slabs'[s]
        BY <1>3, <2>1, <3>1
      <4> QED BY <4>1, <4>2
    <3> QED BY <1>3, <2>1, <3>1, <3>2, <3>3
  <2>2. CASE s \in Binned /\ Outside(s, lo, hi)
    <3>1. s \in Slabs /\ num_slabs'[s] = num_slabs[s] /\ num_slabs[s] \in Nat \ {0} /\ s + num_slabs[s] <= heap_end
      BY <1>1, <1>5, <2>2
    <3>2. s < lo => s + num_slabs[s] <= lo
      BY <1>9, <2>2, RegionFacts DEF Regions
    <3> DEFINE n == num_slabs[s]
               next == s + n
    <3>3. /\ (s < lo /\ next <= lo) \/ (hi # heap_end /\ hi <= s /\ hi < next)
          /\ next \in Slabs /\ next - 1 \in Slabs /\ Outside(next - 1, lo, hi)
          /\ next < lo => Outside(next, lo, hi) /\ next # hi
          /\ hi < next => hi # heap_end /\ hi2 = hi /\ heap_end' = heap_end
          /\ hi < next /\ next < heap_end => Outside(next, lo, hi) /\ next # hi
      <4>1. s \in Nat /\ num_slabs[s] \in Nat \ {0} /\ Outside(s, lo, hi)
        BY <1>1, <2>2, <3>1
      <4> HIDE DEF next
      <4> DEFINE m == num_slabs[s]
      <4>2. m \in Nat \ {0} /\ s + m <= heap_end /\ (s < lo => s + m <= lo)
        BY <3>1, <3>2
      <4> HIDE DEF m
      <4>3. next = s + m
        BY DEF next, m, n
      <4> QED BY <1>8, <4>1, <4>2, <4>3
    <3>4. /\ flags[s] = {"prev"} /\ footer[next - 1] = n
          /\ next < heap_end => next \in Owned /\ "prev" \notin flags[next]
          /\ next = heap_end => ~last_alloc
      BY <2>2 DEF TagsTellTheTruth
    <3>5. s \in Nat /\ next \in Nat
      BY <1>1, <3>1, <3>3
    <3> HIDE DEF n, next
    <3>6. flags'[s] = {"prev"}
      <4>1. CASE s # hi
        BY <1>5, <2>2, <3>1, <3>4, <4>1
      <4>2. CASE s = hi
        <5>1. hi # heap_end /\ hi \notin Owned
          BY <1>1, <1>2, <2>2, <3>3, <3>5, <4>2
        <5> QED BY <1>3, <3>4, <4>2, <5>1
      <4> QED BY <4>1, <4>2
    <3>7. footer'[next - 1] = n
      BY <1>5, <3>3, <3>4
    <3>8. ASSUME next < heap_end' PROVE next \in Owned' /\ "prev" \notin flags'[next]
      <4>1. CASE next < lo
        <5>1. next < heap_end
          BY <1>1, <1>2, <3>5, <4>1
        <5> QED BY <1>5, <1>6, <3>3, <3>4, <4>1, <5>1
      <4>2. CASE next = lo
        <5>1. lo # heap_end /\ lo < heap_end
          BY <1>1, <1>2, <1>3, <3>4, <4>2
        <5>2. "prev" \notin flags'[lo]
          BY <1>3, <3>4, <4>2, <5>1
        <5>3. keep > 0
          BY <1>2, <1>3, <1>4, <5>2
        <5> QED BY <1>6, <3>3, <4>2, <5>2, <5>3
      <4>3. CASE hi < next
        BY <1>5, <1>6, <3>3, <3>4, <3>8, <4>3
      <4> QED BY <1>2, <3>3, <3>5, <4>1, <4>2, <4>3
    <3>9. num_slabs'[s] = n /\ s + num_slabs'[s] = next
      BY <3>1 DEF next, n
    <3>10. footer'[(s + num_slabs'[s]) - 1] = num_slabs'[s]
      <4>1. (s + num_slabs'[s]) - 1 = next - 1
        BY <3>5, <3>9
      <4> QED BY <3>7, <3>9, <4>1
    <3> QED BY <3>6, <3>8, <3>9, <3>10
  <2> QED BY <1>7, <2>1, <2>2
(* and the last one.                                                        *)
<1>12. last_alloc' <=> ~ \E s \in Binned' : s + num_slabs'[s] = heap_end'
  <2>1. ASSUME NEW s \in Binned, Outside(s, lo, hi)
        PROVE  /\ s \in Nat /\ num_slabs'[s] = num_slabs[s] /\ num_slabs[s] \in Nat \ {0}
               /\ s + num_slabs[s] <= lo \/ hi # heap_end
               /\ s \in Binned'
    <3>1. s \in Slabs /\ num_slabs'[s] = num_slabs[s] /\ num_slabs[s] \in Nat \ {0} /\ s + num_slabs[s] <= heap_end
      BY <1>1, <1>5, <2>1
    <3>2. s < lo => s + num_slabs[s] <= lo
      BY <1>9, RegionFacts DEF Regions
    <3>3. s < lo \/ hi # heap_end
      BY <1>1, <1>2, <2>1, <3>1 DEF Outside
    <3> QED BY <1>1, <1>7, <2>1, <3>1, <3>2, <3>3
  <2>2. mid < hi2 => mid \in Binned' /\ mid + num_slabs'[mid] = hi2
    BY <1>2, <1>3, <1>7
  <2>3. CASE hi = heap_end
    <3>1. ASSUME NEW s \in Binned', s + num_slabs'[s] = heap_end', ~(mid < hi2) PROVE FALSE
      BY <1>2, <1>7, <2>1, <2>3, <3>1
    <3> QED BY <1>2, <1>3, <2>2, <2>3, <3>1
  <2>4. CASE hi # heap_end
    <3>1. hi2 = hi /\ hi < heap_end /\ heap_end' = heap_end /\ last_alloc' = last_alloc
      BY <1>1, <1>2, <1>3, <2>4
    <3>2. ASSUME NEW s \in Binned', s + num_slabs'[s] = heap_end'
          PROVE  s \in Binned /\ s + num_slabs[s] = heap_end
      <4>1. s # mid \/ ~(mid < hi2)
        BY <1>1, <1>2, <2>2, <3>1, <3>2
      <4> QED BY <1>7, <2>1, <3>1, <3>2, <4>1
    <3>3. ASSUME NEW s \in Binned, s + num_slabs[s] = heap_end
          PROVE  s \in Binned' /\ s + num_slabs'[s] = heap_end'
      <4>1. s \in Nat /\ num_slabs[s] \in Nat \ {0}
        BY <1>1
      <4>2. s < hi => s + num_slabs[s] <= hi
        <5>1. hi \in Regions
          BY <2>4 DEF RegionsReplaced
        <5>2. s \in Regions /\ RegionSize[s] = num_slabs[s]
          BY RegionFacts DEF Regions
        <5> QED BY <5>1, <5>2 DEF Laid, Tiles
      <4>3. Outside(s, lo, hi)
        BY <1>1, <1>2, <3>1, <3>3, <4>1, <4>2 DEF Outside
      <4> QED BY <2>1, <3>1, <3>3, <4>3
    <3>4. last_alloc <=> ~ \E s \in Binned : s + num_slabs[s] = heap_end
      BY DEF TagsTellTheTruth
    <3> QED BY <3>1, <3>2, <3>3, <3>4
  <2> QED BY <2>3, <2>4
<1>13. TagsTellTheTruth'
  <2>1. (\A s \in Owned :
           LET next == s + owned[s]
           IN "alloc" \in flags[s] /\ (next < heap_end => "prev" \in flags[next]))'
    BY <1>10
  <2>2. (\A s \in Binned :
           LET next == s + num_slabs[s]
           IN /\ flags[s] = {"prev"}
              /\ footer[next - 1] = num_slabs[s]
              /\ next < heap_end => next \in Owned /\ "prev" \notin flags[next])'
    BY <1>11
  <2> QED BY <1>12, <2>1, <2>2 DEF TagsTellTheTruth
<1>14. StartTold'
  <2>1. CASE lo = 0
    BY <1>1, <1>2, <1>3, <2>1 DEF StartTold
  <2>2. CASE lo > 0
    <3>1. 0 \in Slabs /\ Outside(0, lo, hi) /\ 0 # hi /\ heap_end > 0
      BY <1>1, <1>2, <2>2 DEF Outside
    <3> QED BY <1>5, <3>1 DEF StartTold
  <2> QED BY <1>2, <2>1, <2>2
<1> QED BY <1>13, <1>14

-----------------------------------------------------------------------------
(* The inductive invariant.                                                 *)
SInv ==
  /\ TypeOK /\ Laid /\ TagsTellTheTruth /\ StartTold
  /\ Ordered(bins, num_slabs) /\ Marked(bins, skiplist)

LEMMA BinnedInBins == Binned = InBins(bins)
BY DEF Binned, InBins, Members

LEMMA OrderedSame ==
  ASSUME NEW num \in [Slabs -> Nat], NEW num2 \in [Slabs -> Nat], NEW bs, Ordered(bs, num),
         \A r \in InBins(bs) : num2[r] = num[r]
  PROVE  Ordered(bs, num2)
<1>1. ASSUME NEW b \in Bins, NEW s \in Members(bs[b]) PROVE num2[s] = num[s]
  BY DEF InBins
<1>2. \A b \in Bins : NoRepeats(bs[b]) /\ \A s \in Members(bs[b]) : BinOf(num2[s]) = b /\ num2[s] > 0
  BY <1>1 DEF Ordered
<1>3. Sorted(bs[NumBins], num2)
  <2>1. \A i \in DOMAIN bs[NumBins] : num2[bs[NumBins][i]] = num[bs[NumBins][i]]
    BY <1>1, BinsAreBins DEF Members
  <2> QED BY <2>1 DEF Ordered, Sorted
<1> QED BY <1>2, <1>3 DEF Ordered

(* What an operation has to do for the invariant.                           *)
LEMMA Completed ==
  ASSUME SInv, TypeOK', NEW lo, NEW keep, NEW hi, NEW hi2,
         RegionsReplaced(lo, keep, hi, hi2), TagsReplaced(lo, keep, hi, hi2),
         Ordered(bins', num_slabs'), Marked(bins', skiplist')
  PROVE  SInv'
BY ReplacedLaid, ReplacedTags DEF SInv

(* What the invariant says of the regions.                                  *)
LEMMA Landscape ==
  ASSUME SInv
  PROVE  /\ heap_end \in Nat /\ heap_end <= MaxSlabs /\ Slabs = 0..MaxSlabs /\ MaxSlabs \in Nat
         /\ Owned \subseteq Slabs /\ Binned \subseteq Slabs /\ Owned \cap Binned = {}
         /\ Regions = Owned \cup Binned
         /\ flags \in [Slabs -> SUBSET Flags]
         /\ num_slabs \in [Slabs -> 0..MaxSlabs] /\ footer \in [Slabs -> 0..MaxSlabs]
         /\ owned \in [Slabs -> 0..MaxSlabs]
         /\ Binned = InBins(bins)
<1>1. TypeOK /\ Laid
  BY DEF SInv
<1>2. Owned \subseteq Slabs /\ Binned \subseteq Slabs /\ Owned \cap Binned = {}
  BY <1>1, RegionFacts DEF Regions, Laid
<1>3. /\ heap_end \in 0..MaxSlabs
      /\ flags \in [Slabs -> SUBSET Flags]
      /\ num_slabs \in [Slabs -> 0..MaxSlabs] /\ footer \in [Slabs -> 0..MaxSlabs]
      /\ owned \in [Slabs -> 0..MaxSlabs]
  BY <1>1 DEF TypeOK
<1>4. Regions = Owned \cup Binned
  BY DEF Regions
<1>5. heap_end \in Nat /\ heap_end <= MaxSlabs
  BY <1>3, SlabFacts
<1> QED BY <1>2, <1>3, <1>4, <1>5, SlabFacts, BinnedInBins

LEMMA OwnedRegion ==
  ASSUME SInv, NEW s \in Owned
  PROVE  /\ s \in Slabs /\ s \in Regions /\ s \notin Binned
         /\ owned[s] \in Nat \ {0} /\ s + owned[s] <= heap_end
         /\ s + owned[s] \in Regions \cup {heap_end}
         /\ "alloc" \in flags[s]
         /\ s + owned[s] # heap_end => "prev" \in flags[s + owned[s]]
         /\ \A r \in Regions : (s < r => s + owned[s] <= r) /\ (r < s => r + RegionSize[r] <= s)
<1>1. TypeOK /\ Laid /\ TagsTellTheTruth
  BY DEF SInv
<1>2. s \in Slabs /\ s \in Regions /\ s \notin Binned /\ heap_end \in Nat
  BY <1>1, RegionFacts DEF Laid, Regions
<1>3. owned[s] \in Nat \ {0} /\ s + owned[s] <= heap_end /\ RegionSize[s] = owned[s]
  BY <1>1, <1>2, RegionFacts
<1>4. s + owned[s] \in Regions \cup {heap_end}
  BY <1>1, <1>2, <1>3, NextRegion DEF Laid
<1>5. s + owned[s] # heap_end => s + owned[s] < heap_end
  BY <1>2, <1>3, SlabFacts
<1>6. "alloc" \in flags[s] /\ (s + owned[s] # heap_end => "prev" \in flags[s + owned[s]])
  BY <1>1, <1>5 DEF TagsTellTheTruth
<1>7. \A r \in Regions : (s < r => s + owned[s] <= r) /\ (r < s => r + RegionSize[r] <= s)
  BY <1>1, <1>2, <1>3 DEF Laid, Tiles
<1> QED BY <1>2, <1>3, <1>4, <1>6, <1>7

LEMMA FreeRegion ==
  ASSUME SInv, NEW s \in Binned
  PROVE  /\ s \in Slabs /\ s \in Regions /\ s \notin Owned /\ owned[s] = 0
         /\ num_slabs[s] \in Nat \ {0} /\ s + num_slabs[s] <= heap_end
         /\ s + num_slabs[s] \in Regions \cup {heap_end}
         /\ flags[s] = {"prev"} /\ footer[(s + num_slabs[s]) - 1] = num_slabs[s]
         /\ s + num_slabs[s] # heap_end =>
              s + num_slabs[s] \in Owned /\ "prev" \notin flags[s + num_slabs[s]]
         /\ s + num_slabs[s] = heap_end => ~last_alloc
         /\ \A r \in Regions : (s < r => s + num_slabs[s] <= r) /\ (r < s => r + RegionSize[r] <= s)
<1>1. TypeOK /\ Laid /\ TagsTellTheTruth
  BY DEF SInv
<1>2. s \in Slabs /\ s \in Regions /\ s \notin Owned /\ owned[s] = 0 /\ heap_end \in Nat
  BY <1>1, RegionFacts DEF Laid, Regions
<1>3. num_slabs[s] \in Nat \ {0} /\ s + num_slabs[s] <= heap_end /\ RegionSize[s] = num_slabs[s]
  BY <1>1, <1>2, RegionFacts
<1>4. s + num_slabs[s] \in Regions \cup {heap_end}
  BY <1>1, <1>2, <1>3, NextRegion DEF Laid
<1>5. s + num_slabs[s] # heap_end => s + num_slabs[s] < heap_end
  BY <1>2, <1>3, SlabFacts
<1>6. /\ flags[s] = {"prev"} /\ footer[(s + num_slabs[s]) - 1] = num_slabs[s]
      /\ s + num_slabs[s] # heap_end =>
           s + num_slabs[s] \in Owned /\ "prev" \notin flags[s + num_slabs[s]]
      /\ s + num_slabs[s] = heap_end => ~last_alloc
  BY <1>1, <1>5 DEF TagsTellTheTruth
<1>7. \A r \in Regions : (s < r => s + num_slabs[s] <= r) /\ (r < s => r + RegionSize[r] <= s)
  BY <1>1, <1>2, <1>3 DEF Laid, Tiles
<1> QED BY <1>2, <1>3, <1>4, <1>6, <1>7

(* No region starts where the heap has ended.                               *)
LEMMA NoneBeyond ==
  ASSUME SInv, NEW r \in Regions
  PROVE  r \in Slabs /\ r < heap_end
<1>1. r \in Nat /\ RegionSize[r] \in Nat \ {0} /\ r + RegionSize[r] <= heap_end /\ heap_end \in Nat /\ r \in Slabs
  BY RegionFacts DEF SInv
<1> QED BY <1>1

-----------------------------------------------------------------------------
(* A word that the owner writes has the type of what it overwrites.         *)
LEMMA OwnerWritesTypes ==
  ASSUME NEW fl \in [Slabs -> SUBSET Flags], NEW num \in [Slabs -> 0..MaxSlabs],
         NEW foot \in [Slabs -> 0..MaxSlabs], NEW s \in Nat, NEW n \in Nat,
         OwnerWrites(fl, num, foot, s, n)
  PROVE  /\ flags' \in [Slabs -> SUBSET Flags] /\ num_slabs' \in [Slabs -> 0..MaxSlabs]
         /\ footer' \in [Slabs -> 0..MaxSlabs]
<1>1. \A r \in Slabs : OwnersData[r] \in SUBSET Flags
  BY SlabHeapAssumption DEF Slabs, Flags
<1>2. Junk \in 0..MaxSlabs
  BY SlabFacts DEF Junk
<1>3. flags' \in [Slabs -> SUBSET Flags]
  BY <1>1 DEF OwnerWrites
<1>4. num_slabs' \in [Slabs -> 0..MaxSlabs] /\ footer' \in [Slabs -> 0..MaxSlabs]
  BY <1>2 DEF OwnerWrites
<1> QED BY <1>3, <1>4

(* Slabs taken from the start of a free region, for its own or for the      *)
(* region before it.                                                        *)
Taken(s, n, fl, marks, owner, owner_size) ==
  /\ s \in Binned /\ n \in 1..num_slabs[s]
  /\ fl \in [Slabs -> SUBSET Flags] /\ \A r \in Slabs : r # s => fl[r] = flags[r]
  /\ Marked(bins, marks)
  /\ owner \in Regions /\ owner_size \in Nat /\ owner + owner_size = s + n
  /\ owner = s \/ (owner \in Owned /\ owner + owned[owner] = s)
  /\ "alloc" \in fl[owner] /\ ("prev" \in fl[owner] <=> "prev" \in flags[owner])
  /\ Take(s, num_slabs[s], n, fl, marks, owner, owner_size)
  /\ owned' = [owned EXCEPT ![owner] = owner_size]
  /\ UNCHANGED <<heap_end, aborted>>

LEMMA TakeKeepsInvariant ==
  ASSUME SInv, NEW s, NEW n, NEW fl, NEW marks, NEW owner, NEW owner_size,
         Taken(s, n, fl, marks, owner, owner_size)
  PROVE  SInv'
<1> DEFINE size == num_slabs[s]
           hi   == s + size
           mid  == s + n
<1>0. /\ s \in Binned /\ n \in 1..size /\ Marked(bins, marks)
      /\ owner \in Regions /\ owner_size \in Nat /\ owner + owner_size = mid
      /\ owner = s \/ (owner \in Owned /\ owner + owned[owner] = s)
      /\ "alloc" \in fl[owner] /\ ("prev" \in fl[owner] <=> "prev" \in flags[owner])
      /\ owned' = [owned EXCEPT ![owner] = owner_size]
      /\ heap_end' = heap_end /\ aborted' = aborted
  BY DEF Taken
<1>1. /\ fl \in [Slabs -> SUBSET Flags] /\ \A r \in Slabs : r # s => fl[r] = flags[r]
      /\ flags \in [Slabs -> SUBSET Flags]
      /\ num_slabs \in [Slabs -> 0..MaxSlabs] /\ footer \in [Slabs -> 0..MaxSlabs]
      /\ owned \in [Slabs -> 0..MaxSlabs]
  BY Landscape DEF Taken
<1>2. /\ s \in Slabs /\ size \in Nat \ {0} /\ hi \in Regions \cup {heap_end} /\ hi <= heap_end
      /\ hi # heap_end => hi \in Owned /\ "prev" \notin flags[hi]
      /\ hi = heap_end => ~last_alloc
  BY <1>0, FreeRegion
<1>3. /\ owner \in Slabs /\ owner < heap_end
      /\ owner \in Owned => owned[owner] \in Nat
  BY <1>0, NoneBeyond, OwnedRegion
<1>4. /\ heap_end \in Nat /\ heap_end <= MaxSlabs /\ MaxSlabs \in Nat
      /\ \A r : r \in Slabs <=> r \in Nat /\ r <= MaxSlabs
  BY Landscape
<1> HIDE DEF size
<1>5. /\ owner \in Nat /\ s \in Nat /\ size \in Nat \ {0} /\ n \in Nat /\ 1 <= n /\ n <= size
      /\ owner <= s
  <2>1. owner \in Nat /\ s \in Nat /\ n \in Nat /\ 1 <= n /\ n <= size
    BY <1>0, <1>2, <1>3, <1>4
  <2>2. owner <= s
    BY <1>0, <1>3, <2>1
  <2> QED BY <1>2, <2>1, <2>2
<1>6. /\ mid \in Nat /\ hi \in Nat /\ s < mid /\ mid <= hi /\ owner < mid /\ s < hi
      /\ hi \in Slabs /\ mid \in Slabs /\ hi - 1 \in Slabs
      /\ size = n <=> mid = hi
      /\ size - n = hi - mid /\ size - n \in 0..MaxSlabs
      /\ mid # hi => mid < hi /\ size - n \in Nat \ {0}
  BY <1>2, <1>4, <1>5
<1>7. ASSUME NEW r \in Regions, owner <= r, r < hi PROVE r = owner \/ r = s
  <2>1. r \in Nat /\ (s < r => hi <= r)
    BY <1>0, <1>4, FreeRegion, NoneBeyond DEF size
  <2>2. owner \in Owned => (owner < r => owner + owned[owner] <= r)
    BY OwnedRegion
  <2>3. ~(s < r)
    BY <1>6, <1>7, <2>1
  <2>4. owner < r => s <= r
    BY <1>0, <1>5, <2>1, <2>2
  <2> HIDE DEF hi, mid
  <2> QED BY <1>5, <1>7, <2>1, <2>3, <2>4
<1>8. /\ mid = hi => /\ last_alloc' = (last_alloc \/ hi = heap_end)
                     /\ bins' = Unlink(bins, s)
                     /\ skiplist' = marks
                     /\ OwnerWrites(IF hi = heap_end THEN fl ELSE [fl EXCEPT ![hi] = @ \cup {"prev"}],
                                    num_slabs, footer, owner, owner_size)
      /\ mid # hi => /\ bins' = Link(Unlink(bins, s), mid, size - n)
                     /\ skiplist' = Mark(marks, size - n)
                     /\ OwnerWrites([fl EXCEPT ![mid] = {"prev"}],
                                    [num_slabs EXCEPT ![mid] = size - n],
                                    [footer EXCEPT ![hi - 1] = size - n], owner, owner_size)
                     /\ last_alloc' = last_alloc
  <2>1. hi - 1 = s + size - 1
    BY <1>5
  <2>2. Take(s, size, n, fl, marks, owner, owner_size)
    BY DEF Taken, size
  <2>3. CASE mid = hi
    <3>1. size = n
      BY <1>6, <2>3
    <3> QED BY <2>2, <2>3, <3>1 DEF Take
  <2>4. CASE mid # hi
    <3>1. size # n
      BY <1>6, <2>4
    <3> QED BY <2>1, <2>2, <2>4, <3>1 DEF Take
  <2> QED BY <2>3, <2>4
<1>9. Outside(s, owner, hi) = FALSE /\ \A r \in Slabs : Outside(r, owner, hi) => ~(owner <= r /\ r < hi)
  BY <1>2, <1>4, <1>5, <1>6 DEF Outside
<1> HIDE DEF mid, hi
<1>10. /\ flags' \in [Slabs -> SUBSET Flags] /\ num_slabs' \in [Slabs -> 0..MaxSlabs]
       /\ footer' \in [Slabs -> 0..MaxSlabs]
  <2>1. CASE mid = hi
    <3> DEFINE fl2 == IF hi = heap_end THEN fl ELSE [fl EXCEPT ![hi] = @ \cup {"prev"}]
    <3>1. fl2 \in [Slabs -> SUBSET Flags]
      BY <1>1 DEF Flags
    <3>2. OwnerWrites(fl2, num_slabs, footer, owner, owner_size)
      BY <1>8, <2>1
    <3> HIDE DEF fl2
    <3> QED BY <1>0, <1>1, <1>5, <3>1, <3>2, OwnerWritesTypes
  <2>2. CASE mid # hi
    <3> DEFINE fl2 == [fl EXCEPT ![mid] = {"prev"}]
               num2 == [num_slabs EXCEPT ![mid] = size - n]
               foot2 == [footer EXCEPT ![hi - 1] = size - n]
    <3>1. fl2 \in [Slabs -> SUBSET Flags]
      BY <1>1 DEF Flags
    <3>2. num2 \in [Slabs -> 0..MaxSlabs] /\ foot2 \in [Slabs -> 0..MaxSlabs]
      BY <1>1, <1>6
    <3>3. OwnerWrites(fl2, num2, foot2, owner, owner_size)
      BY <1>8, <2>2
    <3> HIDE DEF fl2, num2, foot2
    <3> QED BY <1>0, <1>5, <3>1, <3>2, <3>3, OwnerWritesTypes
  <2> QED BY <2>1, <2>2
<1>11. ASSUME NEW r \in Slabs
       PROVE  /\ ~(owner <= r /\ r < hi) =>
                   num_slabs'[r] = num_slabs[r] /\ footer'[r] = footer[r] /\ (r # hi => flags'[r] = fl[r])
              /\ r = owner => flags'[r] = fl[r]
              /\ r = hi /\ hi # heap_end =>
                   flags'[r] = IF mid = hi THEN fl[r] \cup {"prev"} ELSE fl[r]
              /\ r = mid /\ mid # hi => flags'[r] = {"prev"} /\ num_slabs'[r] = size - n
              /\ r = hi - 1 /\ mid # hi => footer'[r] = size - n
  <2> DEFINE Inside(x) == owner <= x /\ x < owner + owner_size
  <2>0. r \in Nat
    BY <1>4
  <2>1. /\ Inside(r) => owner <= r /\ r < mid
        /\ r = hi - 1 /\ mid # hi => ~Inside(r)
        /\ r = mid \/ r = hi => ~Inside(r) /\ r # owner
        /\ r = hi - 1 => r # hi
        /\ r = owner => ~(owner < r) /\ r # hi /\ r # mid
        /\ owner < r => owner <= r
    BY <1>0, <1>5, <1>6, <2>0
  <2>2. CASE mid = hi
    <3> DEFINE fl2 == IF hi = heap_end THEN fl ELSE [fl EXCEPT ![hi] = @ \cup {"prev"}]
    <3>1. OwnerWrites(fl2, num_slabs, footer, owner, owner_size)
      BY <1>8, <2>2
    <3>2. fl2[r] = IF r = hi /\ hi # heap_end THEN fl[r] \cup {"prev"} ELSE fl[r]
      BY <1>1
    <3> HIDE DEF fl2
    <3>3. /\ flags'[r] = IF owner < r /\ r < owner + owner_size THEN OwnersData[r] ELSE fl2[r]
          /\ ~Inside(r) => num_slabs'[r] = num_slabs[r] /\ footer'[r] = footer[r]
      BY <3>1 DEF OwnerWrites
    <3>4. flags'[r] = IF owner < r /\ Inside(r) THEN OwnersData[r] ELSE fl2[r]
      BY <2>1, <3>3
    <3>5. ~(owner <= r /\ r < hi) => ~Inside(r)
      BY <2>1, <2>2
    <3> HIDE DEF Inside
    <3> QED BY <2>1, <2>2, <3>2, <3>3, <3>4, <3>5
  <2>3. CASE mid # hi
    <3> DEFINE fl2 == [fl EXCEPT ![mid] = {"prev"}]
               num2 == [num_slabs EXCEPT ![mid] = size - n]
               foot2 == [footer EXCEPT ![hi - 1] = size - n]
    <3>1. OwnerWrites(fl2, num2, foot2, owner, owner_size)
      BY <1>8, <2>3
    <3>2. /\ fl2[r] = IF r = mid THEN {"prev"} ELSE fl[r]
          /\ num2[r] = IF r = mid THEN size - n ELSE num_slabs[r]
          /\ foot2[r] = IF r = hi - 1 THEN size - n ELSE footer[r]
      BY <1>1
    <3> HIDE DEF fl2, num2, foot2
    <3>3. /\ flags'[r] = IF owner < r /\ r < owner + owner_size THEN OwnersData[r] ELSE fl2[r]
          /\ ~Inside(r) => num_slabs'[r] = num2[r] /\ footer'[r] = foot2[r]
      BY <3>1 DEF OwnerWrites
    <3>4. flags'[r] = IF owner < r /\ Inside(r) THEN OwnersData[r] ELSE fl2[r]
      BY <2>1, <3>3
    <3>5. ~(owner <= r /\ r < hi) => ~Inside(r) /\ r # mid /\ r # hi - 1
      BY <1>0, <1>5, <1>6, <2>0, <2>3
    <3>6. r = hi => r # mid
      BY <2>3
    <3> HIDE DEF Inside
    <3> QED BY <2>1, <2>3, <3>2, <3>3, <3>4, <3>5, <3>6
  <2> QED BY <2>2, <2>3
(* the bins;                                                                *)
<1>12. /\ num_slabs \in [Slabs -> Nat] /\ num_slabs' \in [Slabs -> Nat]
       /\ Ordered(Unlink(bins, s), num_slabs) /\ Marked(Unlink(bins, s), marks)
       /\ \A r : r \in InBins(Unlink(bins, s)) <=> r \in Binned /\ r # s
  <2>1. num_slabs \in [Slabs -> Nat] /\ num_slabs' \in [Slabs -> Nat]
    BY <1>1, <1>4, <1>10
  <2>2. Ordered(bins, num_slabs) /\ Binned = InBins(bins)
    BY Landscape DEF SInv
  <2> QED BY <1>0, <2>1, <2>2, UnlinkOne
<1>13. ASSUME NEW r \in Binned, r # s
       PROVE  r \in Slabs /\ Outside(r, owner, hi) /\ num_slabs'[r] = num_slabs[r]
  <2>1. r \in Regions /\ r \in Slabs /\ r < heap_end /\ r \notin Owned
    BY FreeRegion, NoneBeyond
  <2>2. ~(owner <= r /\ r < hi)
    BY <1>0, <1>7, <1>13, <2>1
  <2>3. Outside(r, owner, hi)
    BY <1>2, <1>4, <1>5, <1>6, <2>1, <2>2 DEF Outside
  <2> QED BY <1>11, <2>1, <2>2, <2>3
<1>14. /\ Ordered(bins', num_slabs') /\ Marked(bins', skiplist')
       /\ \A r : r \in Binned' <=> (r \in Binned /\ r # s) \/ (r = mid /\ mid # hi)
  <2> DEFINE unlinked == Unlink(bins, s)
  <2>1. \A r \in InBins(unlinked) : num_slabs'[r] = num_slabs[r]
    BY <1>12, <1>13
  <2>2. Binned' = InBins(bins')
    BY DEF Binned, InBins, Members
  <2>3. /\ Ordered(unlinked, num_slabs) /\ Marked(unlinked, marks)
        /\ \A r : r \in InBins(unlinked) <=> r \in Binned /\ r # s
    BY <1>12
  <2>4. mid = hi => bins' = unlinked /\ skiplist' = marks
    BY <1>8
  <2>5. mid # hi => bins' = Link(unlinked, mid, size - n) /\ skiplist' = Mark(marks, size - n)
    BY <1>8
  <2> HIDE DEF unlinked
  <2>6. CASE mid = hi
    <3>1. Ordered(bins', num_slabs')
      BY <1>12, <2>1, <2>3, <2>4, <2>6, OrderedSame
    <3> QED BY <2>2, <2>3, <2>4, <2>6, <3>1
  <2>7. CASE mid # hi
    <3>1. mid \notin Binned
      <4>1. owner <= mid /\ mid < hi /\ mid # s
        BY <1>5, <1>6, <2>7
      <4>2. mid # owner
        BY <1>5, <1>6
      <4> QED BY <1>7, <4>1, <4>2, Landscape
    <3>2. mid \in Slabs \ InBins(unlinked)
      BY <1>6, <2>3, <3>1
    <3> DEFINE rest == size - n
    <3>3. rest \in Nat \ {0} /\ num_slabs'[mid] = rest /\ bins' = Link(unlinked, mid, rest)
          /\ skiplist' = Mark(marks, rest)
      BY <1>6, <1>11, <2>5, <2>7
    <3> HIDE DEF rest
    <3>4. /\ Ordered(bins', num_slabs')
          /\ InBins(bins') = InBins(unlinked) \cup {mid}
          /\ Marked(bins', skiplist')
      BY <1>12, <2>1, <2>3, <3>2, <3>3, LinkOne
    <3> QED BY <2>2, <2>3, <2>7, <3>4
  <2> QED BY <2>6, <2>7
(* and the layout and its tags.                                             *)
<1>15. RegionsReplaced(owner, owner_size, hi, hi)
  <2>1. owner_size \in 0..(hi - owner)
    BY <1>0, <1>5, <1>6
  <2>2. owner \in Regions \cup {heap_end} /\ hi \in Regions \cup {heap_end} /\ owner <= hi /\ owner < hi
    BY <1>0, <1>2, <1>5, <1>6
  <2>3. ASSUME NEW r \in Slabs
        PROVE  owned'[r] = IF r = owner THEN owner_size ELSE IF Outside(r, owner, hi) THEN owned[r] ELSE 0
    <3>1. owned'[r] = IF r = owner THEN owner_size ELSE owned[r]
      BY <1>0, <1>1, <1>3
    <3>2. ASSUME r # owner, r \in Owned PROVE Outside(r, owner, hi)
      <4>1. r \in Regions /\ r < heap_end /\ r # s /\ r \in Nat
        BY <1>0, <1>4, <3>2, Landscape, NoneBeyond
      <4>2. ~(owner <= r /\ r < hi)
        BY <1>7, <3>2, <4>1
      <4> QED BY <1>2, <1>4, <1>5, <1>6, <4>1, <4>2 DEF Outside
    <3>3. r \notin Owned => owned[r] = 0
      <4>1. owned[r] \in Nat
        BY <1>1, <1>4
      <4> QED BY <4>1 DEF Owned
    <3> QED BY <3>1, <3>2, <3>3
  <2>4. ASSUME NEW r
        PROVE  r \in Binned' <=> \/ r \in Binned /\ Outside(r, owner, hi)
                                 \/ r = owner + owner_size /\ owner + owner_size < hi
    <3>1. mid # hi <=> mid < hi
      BY <1>6
    <3> QED BY <1>0, <1>9, <1>13, <1>14, <3>1
  <2>5. ASSUME NEW r \in Slabs, Outside(r, owner, hi) PROVE num_slabs'[r] = num_slabs[r]
    BY <1>9, <1>11, <2>5
  <2>6. mid < hi => num_slabs'[mid] = hi - mid
    <3>1. mid < hi => mid # hi
      BY <1>6
    <3>2. mid # hi => num_slabs'[mid] = size - n
      BY <1>6, <1>11
    <3> QED BY <1>6, <3>1, <3>2
  <2> QED BY <1>0, <1>6, <2>1, <2>2, <2>3, <2>4, <2>5, <2>6 DEF RegionsReplaced
<1>16. TagsReplaced(owner, owner_size, hi, hi)
  <2>1. ASSUME NEW r \in Slabs, Outside(r, owner, hi)
        PROVE  footer'[r] = footer[r] /\ (r # hi => flags'[r] = flags[r])
    BY <1>1, <1>9, <1>11, <2>1
  <2>2. flags'[owner] = fl[owner] /\ owner # heap_end
    <3>1. owner # heap_end
      BY <1>3, <1>4, <1>5
    <3>2. flags'[owner] = fl[owner]
      BY <1>3, <1>11
    <3> QED BY <3>1, <3>2
  <2>3. mid < hi => flags'[mid] = {"prev"} /\ footer'[hi - 1] = hi - mid
    <3>1. mid < hi => mid # hi
      BY <1>6
    <3>2. mid # hi => flags'[mid] = {"prev"} /\ footer'[hi - 1] = size - n
      BY <1>6, <1>11
    <3> QED BY <1>6, <3>1, <3>2
  <2>4. hi # heap_end => IF mid < hi THEN hi \in Owned /\ flags'[hi] = flags[hi] \ {"prev"}
                         ELSE flags'[hi] = flags[hi] \cup {"prev"}
    <3>1. fl[hi] = flags[hi] /\ (mid < hi <=> mid # hi)
      BY <1>1, <1>5, <1>6
    <3>2. hi # heap_end => flags'[hi] = IF mid = hi THEN fl[hi] \cup {"prev"} ELSE fl[hi]
      BY <1>6, <1>11
    <3> QED BY <1>2, <3>1, <3>2
  <2>5. IF hi = heap_end THEN last_alloc' <=> mid = hi ELSE last_alloc' = last_alloc
    <3>1. last_alloc \in BOOLEAN
      BY DEF SInv, TypeOK
    <3>2. last_alloc' = IF mid = hi THEN (last_alloc \/ hi = heap_end) ELSE last_alloc
      BY <1>8
    <3> HIDE DEF size
    <3>3. hi = heap_end => last_alloc = FALSE
      BY <1>2, <3>1
    <3> QED BY <3>1, <3>2, <3>3
  <2> QED BY <1>0, <2>1, <2>2, <2>3, <2>4, <2>5 DEF TagsReplaced
<1>17. TypeOK'
  <2>1. heap_end' \in 0..MaxSlabs /\ aborted' \in {"no", "out of memory", "assertion"}
    BY <1>0 DEF SInv, TypeOK
  <2>2. last_alloc' \in BOOLEAN
    <3>1. last_alloc \in BOOLEAN
      BY DEF SInv, TypeOK
    <3> QED BY <1>8, <3>1
  <2>3. bins' \in [Bins -> Seq(Slabs)] /\ skiplist' \subseteq Bins
    BY <1>14 DEF Ordered, Marked
  <2>4. owned' \in [Slabs -> 0..MaxSlabs]
    <3>1. owner_size \in 0..MaxSlabs
      BY <1>0, <1>4, <1>5, <1>6
    <3> QED BY <1>0, <1>1, <3>1
  <2> QED BY <1>10, <2>1, <2>2, <2>3, <2>4 DEF TypeOK
<1> QED BY <1>14, <1>15, <1>16, <1>17, Completed

(* Slabs given back: the end of the owned region o, or all of it and then   *)
(* the free region before it (if lo # o), with the free region after it.    *)
GivenBack(lo, o, keep, s, n, before) ==
  /\ o \in Owned /\ lo \in Regions
  /\ keep \in Nat /\ s \in Nat /\ n \in Nat /\ before \in Nat
  /\ lo = o \/ (lo \in Binned /\ lo + num_slabs[lo] = o /\ keep = 0)
  /\ s + n = o + owned[o] /\ lo + keep < s + n /\ before + n = (s + n) - (lo + keep)
  /\ lo = o /\ keep = 0 => "prev" \in flags[o]
  /\ GiveBack(s, n, lo + keep, before, {"prev"}, IF lo = o THEN bins ELSE Unlink(bins, lo))
  /\ owned' = [owned EXCEPT ![o] = keep]
  /\ UNCHANGED <<heap_end, aborted>>

LEMMA GiveBackKeepsInvariant ==
  ASSUME SInv, NEW lo, NEW o, NEW keep, NEW s, NEW n, NEW before, GivenBack(lo, o, keep, s, n, before)
  PROVE  SInv'
<1> DEFINE next  == s + n
           first == lo + keep
           more  == MergedSize(next)
           hi    == next + more
           total == before + n + more
           unlinked == IF lo = o THEN bins ELSE Unlink(bins, lo)
           base  == IF Merges(next) THEN Unlink(unlinked, next) ELSE unlinked
<1>0. /\ o \in Owned /\ lo \in Regions
      /\ keep \in Nat /\ s \in Nat /\ n \in Nat /\ before \in Nat
      /\ lo = o \/ (lo \in Binned /\ lo + num_slabs[lo] = o /\ keep = 0)
      /\ next = o + owned[o] /\ first < next /\ before + n = next - first
      /\ lo = o /\ keep = 0 => "prev" \in flags[o]
      /\ owned' = [owned EXCEPT ![o] = keep]
      /\ heap_end' = heap_end /\ aborted' = aborted
  BY DEF GivenBack
<1>1. /\ flags \in [Slabs -> SUBSET Flags]
      /\ num_slabs \in [Slabs -> 0..MaxSlabs] /\ footer \in [Slabs -> 0..MaxSlabs]
      /\ owned \in [Slabs -> 0..MaxSlabs]
  BY Landscape
<1>2. /\ last_alloc' = (last_alloc /\ next # heap_end)
      /\ bins' = Link(base, first, total)
      /\ skiplist' = Mark(skiplist, total)
      /\ flags' = [NextTold(next) EXCEPT ![first] = {"prev"}]
      /\ num_slabs' = [num_slabs EXCEPT ![first] = total]
      /\ footer' = [footer EXCEPT ![first + total - 1] = total]
  BY DEF GivenBack, GiveBack
<1>3. /\ heap_end \in Nat /\ heap_end <= MaxSlabs /\ MaxSlabs \in Nat
      /\ \A r : r \in Slabs <=> r \in Nat /\ r <= MaxSlabs
  BY Landscape
<1>4. /\ o \in Nat /\ owned[o] \in Nat \ {0} /\ o \notin Binned /\ "alloc" \in flags[o]
      /\ o + owned[o] <= heap_end /\ o + owned[o] \in Regions \cup {heap_end}
      /\ \A r \in Regions : o < r => o + owned[o] <= r
  BY <1>0, <1>3, OwnedRegion
<1>5. /\ lo \in Nat /\ lo <= o /\ lo < heap_end
      /\ lo # o => /\ lo \notin Owned /\ flags[lo] = {"prev"} /\ owned[lo] = 0 /\ keep = 0
                   /\ \A r \in Regions : lo < r => o <= r
  <2>1. lo \in Nat /\ lo < heap_end
    BY <1>0, <1>3, NoneBeyond
  <2>2. CASE lo # o
    <3>1. lo \in Binned /\ lo + num_slabs[lo] = o /\ keep = 0
      BY <1>0, <2>2
    <3>2. num_slabs[lo] \in Nat
      BY <3>1, FreeRegion
    <3> QED BY <1>4, <2>1, <3>1, <3>2, FreeRegion
  <2> QED BY <2>1, <2>2
<1>6. ASSUME next # heap_end, Merges(next)
      PROVE  /\ next \in Binned /\ more = num_slabs[next] /\ more \in Nat \ {0} /\ next \notin Owned
             /\ hi <= heap_end /\ hi \in Regions \cup {heap_end}
             /\ hi # heap_end => hi \in Owned /\ "prev" \notin flags[hi]
             /\ hi = heap_end => ~last_alloc
             /\ \A r \in Regions : next < r => hi <= r
  <2>1. next \in Regions
    BY <1>0, <1>4, <1>6
  <2>2. next \notin Owned
    BY <1>6, OwnedRegion DEF Merges, IsFree
  <2>3. next \in Binned /\ more = num_slabs[next]
    BY <1>6, <2>1, <2>2, Landscape DEF MergedSize
  <2> HIDE DEF next, more
  <2> QED BY <2>2, <2>3, FreeRegion
<1>7. ASSUME ~Merges(next)
      PROVE  /\ more = 0 /\ hi = next
             /\ next # heap_end => next \in Owned
  <2>1. more = 0
    BY <1>7 DEF MergedSize
  <2>2. ASSUME next # heap_end PROVE next \in Owned
    <3>1. next \in Regions /\ "alloc" \in flags[next]
      BY <1>0, <1>4, <1>7, <2>2 DEF Merges, IsFree
    <3>2. next \notin Binned
      <4> HIDE DEF next
      <4> QED BY <3>1, FreeRegion
    <3> QED BY <3>1, <3>2, Landscape
  <2>3. next \in Nat
    BY <1>0
  <2> QED BY <2>1, <2>2, <2>3
<1>8. Merges(next) => next # heap_end
  BY DEF Merges
<1> HIDE DEF more
<1>9. /\ next \in Nat /\ more \in Nat /\ hi \in Nat /\ first \in Nat /\ total \in Nat \ {0}
      /\ next <= hi /\ hi <= heap_end /\ o < next /\ lo <= first /\ first < next /\ first < hi /\ lo < hi
      /\ total = hi - first /\ total \in 0..MaxSlabs /\ first + total = hi
      /\ first + total - 1 = hi - 1 /\ hi - 1 \in Slabs /\ first \in Slabs /\ hi \in Slabs
      /\ lo \in Slabs /\ o \in Slabs
      /\ keep = 0 => first = lo
      /\ keep # 0 => lo < first /\ lo = o
  <2>1. next \in Nat /\ first \in Nat /\ o < next /\ lo <= first /\ first < next /\ next <= heap_end
    BY <1>0, <1>4, <1>5
  <2>2. more \in Nat /\ hi <= heap_end
    BY <1>6, <1>7, <1>8, <2>1
  <2>3. total = (next - first) + more
    BY <1>0, <2>2
  <2> HIDE DEF total
  <2>4. /\ keep = 0 => first = lo
        /\ keep # 0 => lo < first /\ lo = o
    BY <1>0, <1>5
  <2> HIDE DEF next, first
  <2> QED BY <1>3, <1>4, <1>5, <2>1, <2>2, <2>3, <2>4
<1>10. /\ hi \in Regions \cup {heap_end}
       /\ hi # heap_end => hi \in Owned
       /\ hi = heap_end => last_alloc' = FALSE
       /\ hi # heap_end => next # heap_end
  <2>1. last_alloc \in BOOLEAN
    BY DEF SInv, TypeOK
  <2>2. CASE Merges(next)
    <3>1. hi # heap_end => next # heap_end
      BY <1>8, <2>2
    <3> HIDE DEF hi, next
    <3> QED BY <1>2, <1>6, <1>8, <2>1, <2>2, <3>1
  <2>3. CASE ~Merges(next)
    <3>1. hi = next
      BY <1>7, <2>3
    <3> HIDE DEF hi
    <3> QED BY <1>0, <1>2, <1>4, <1>7, <2>1, <2>3, <3>1
  <2> QED BY <2>2, <2>3
<1> HIDE DEF hi, next, first, total
(* which regions are replaced;                                              *)
<1>11. ASSUME NEW r \in Regions, lo <= r, r < hi
       PROVE  r = lo \/ r = o \/ (Merges(next) /\ r = next)
  <2>1. r \in Nat
    BY <1>3, NoneBeyond
  <2>2. r = lo \/ o <= r
    BY <1>5, <1>11, <2>1
  <2>3. r <= o \/ next <= r
    BY <1>0, <1>4, <2>1
  <2>4. next < r => ~Merges(next)
    BY <1>6, <1>8, <1>9, <1>11, <2>1
  <2>5. ~Merges(next) => ~(next <= r)
    BY <1>7, <1>9, <1>11, <2>1
  <2> QED BY <1>4, <1>9, <2>1, <2>2, <2>3, <2>4, <2>5
<1>12. ASSUME NEW r \in Regions PROVE Outside(r, lo, hi) <=> ~(lo <= r /\ r < hi)
  <2>1. r \in Nat /\ r < heap_end
    BY <1>3, NoneBeyond
  <2> QED BY <1>3, <1>5, <1>9, <2>1 DEF Outside
<1>13. ASSUME NEW r
       PROVE  (r \in Binned /\ Outside(r, lo, hi)) <=> (r \in Binned /\ r # lo /\ ~(Merges(next) /\ r = next))
  <2> SUFFICES ASSUME r \in Binned
               PROVE  Outside(r, lo, hi) <=> r # lo /\ ~(Merges(next) /\ r = next)
    OBVIOUS
  <2>1. r \in Regions /\ r # o
    BY <1>4, FreeRegion
  <2>2. r = lo => lo <= r /\ r < hi
    BY <1>5, <1>9
  <2>3. Merges(next) /\ r = next => lo <= r /\ r < hi
    BY <1>5, <1>4, <1>6, <1>8, <1>9 DEF hi
  <2> QED BY <1>11, <1>12, <2>1, <2>2, <2>3
(* the bins;                                                                *)
<1>14. /\ num_slabs \in [Slabs -> Nat] /\ num_slabs' \in [Slabs -> Nat]
       /\ Ordered(base, num_slabs) /\ Marked(base, skiplist)
       /\ \A r : r \in InBins(base) <=> r \in Binned /\ Outside(r, lo, hi)
  <2>1. num_slabs \in [Slabs -> Nat] /\ num_slabs' \in [Slabs -> Nat]
    BY <1>1, <1>2, <1>3, <1>9
  <2>2. Ordered(bins, num_slabs) /\ Marked(bins, skiplist) /\ Binned = InBins(bins)
    BY Landscape DEF SInv
  <2>3. /\ Ordered(unlinked, num_slabs) /\ Marked(unlinked, skiplist)
        /\ \A r : r \in InBins(unlinked) <=> r \in Binned /\ r # lo
    <3>1. CASE lo = o
      BY <1>4, <2>2, <3>1
    <3>2. CASE lo # o
      BY <2>1, <2>2, <3>2, UnlinkOne
    <3> QED BY <3>1, <3>2
  <2> HIDE DEF unlinked
  <2>4. /\ Ordered(base, num_slabs) /\ Marked(base, skiplist)
        /\ \A r : r \in InBins(base) <=> r \in Binned /\ r # lo /\ ~(Merges(next) /\ r = next)
    <3>1. CASE Merges(next)
      BY <2>1, <2>3, <3>1, UnlinkOne
    <3>2. CASE ~Merges(next)
      BY <2>3, <3>2
    <3> QED BY <3>1, <3>2
  <2> HIDE DEF base
  <2> QED BY <1>13, <2>1, <2>4
<1> HIDE DEF base, unlinked
<1>15. ASSUME NEW r \in Slabs
       PROVE  /\ r # first => num_slabs'[r] = num_slabs[r]
              /\ r = first => num_slabs'[r] = total /\ flags'[r] = {"prev"}
              /\ r # first => flags'[r] = NextTold(next)[r]
              /\ r = hi - 1 => footer'[r] = total
              /\ r # hi - 1 => footer'[r] = footer[r]
  <2>1. NextTold(next) \in [Slabs -> SUBSET Flags]
    BY <1>1 DEF NextTold, Flags
  <2> QED BY <1>1, <1>2, <1>9, <2>1
<1>16. ASSUME NEW r \in Slabs
       PROVE  NextTold(next)[r] = IF next # heap_end /\ ~Merges(next) /\ r = next
                                  THEN flags[r] \ {"prev"} ELSE flags[r]
  BY <1>1 DEF NextTold
<1>17. ASSUME NEW r \in Slabs, Outside(r, lo, hi)
       PROVE  r # first /\ r # hi - 1 /\ r # lo /\ (r # hi => (~Merges(next) => r # next))
  <2>1. r \in Nat
    BY <1>3
  <2> QED BY <1>3, <1>5, <1>7, <1>9, <1>17, <2>1 DEF Outside, hi
<1>18. /\ Ordered(bins', num_slabs') /\ Marked(bins', skiplist')
       /\ \A r : r \in Binned' <=> (r \in Binned /\ Outside(r, lo, hi)) \/ r = first
  <2>1. Binned' = InBins(bins')
    BY DEF Binned, InBins, Members
  <2>2. \A r \in InBins(base) : num_slabs'[r] = num_slabs[r]
    BY <1>14, <1>15, <1>17, Landscape
  <2>3. first \notin InBins(base)
    BY <1>9, <1>14, <1>17
  <2>4. num_slabs'[first] = total
    BY <1>9, <1>15
  <2>5. /\ Ordered(bins', num_slabs')
        /\ InBins(bins') = InBins(base) \cup {first}
        /\ Marked(bins', skiplist')
    <3>1. first \in Slabs \ InBins(base) /\ total \in Nat \ {0}
      BY <1>9, <2>3
    <3>2. bins' = Link(base, first, total) /\ skiplist' = Mark(skiplist, total)
      BY <1>2
    <3>3. /\ num_slabs \in [Slabs -> Nat] /\ num_slabs' \in [Slabs -> Nat]
          /\ Ordered(base, num_slabs) /\ Marked(base, skiplist)
      BY <1>14
    <3> QED BY <2>2, <2>4, <3>1, <3>2, <3>3, LinkOne
  <2> QED BY <1>14, <2>1, <2>5
(* the layout and its tags.                                                 *)
<1>19. RegionsReplaced(lo, keep, hi, hi)
  <2>1. keep \in 0..(hi - lo)
    BY <1>0, <1>5, <1>9 DEF first
  <2>2. ASSUME NEW r \in Slabs
        PROVE  owned'[r] = IF r = lo THEN keep ELSE IF Outside(r, lo, hi) THEN owned[r] ELSE 0
    <3>1. owned'[r] = IF r = o THEN keep ELSE owned[r]
      BY <1>0, <1>1, <1>9
    <3>2. r = o => ~Outside(r, lo, hi) /\ (r # lo => keep = 0)
      BY <1>4, <1>5, <1>9 DEF Outside
    <3>3. r = lo /\ r # o => owned[r] = 0 /\ keep = 0
      BY <1>5
    <3>4. r \notin Owned => owned[r] = 0
      <4>1. owned[r] \in Nat
        BY <1>1, <1>3
      <4> QED BY <4>1 DEF Owned
    <3>5. r \in Owned /\ r # o /\ r # lo => Outside(r, lo, hi)
      <4> SUFFICES ASSUME r \in Owned, r # o, r # lo PROVE Outside(r, lo, hi)
        OBVIOUS
      <4>1. r \in Regions
        BY Landscape
      <4>2. r # next \/ ~Merges(next)
        BY <1>6, <1>8
      <4> QED BY <1>11, <1>12, <4>1, <4>2
    <3> QED BY <3>1, <3>2, <3>3, <3>4, <3>5
  <2>3. ASSUME NEW r
        PROVE  r \in Binned' <=> \/ r \in Binned /\ Outside(r, lo, hi)
                                 \/ r = lo + keep /\ lo + keep < hi
    BY <1>9, <1>18 DEF first
  <2>4. ASSUME NEW r \in Slabs, Outside(r, lo, hi) PROVE num_slabs'[r] = num_slabs[r]
    BY <1>15, <1>17, <2>4
  <2>5. num_slabs'[lo + keep] = hi - (lo + keep)
    BY <1>9, <1>15 DEF first
  <2>6. lo \in Regions \cup {heap_end} /\ lo <= hi
    BY <1>0, <1>5, <1>9
  <2> QED BY <1>0, <1>9, <1>10, <2>1, <2>2, <2>3, <2>4, <2>5, <2>6 DEF RegionsReplaced
<1>20. TagsReplaced(lo, keep, hi, hi)
  <2>1. ASSUME NEW r \in Slabs, Outside(r, lo, hi)
        PROVE  footer'[r] = footer[r] /\ (r # hi => flags'[r] = flags[r])
    BY <1>15, <1>16, <1>17, <2>1
  <2>2. ASSUME keep # 0 PROVE flags'[lo] = flags[lo] /\ lo = o
    <3>1. lo = o /\ lo # first /\ lo # next
      BY <1>4, <1>5, <1>9, <2>2
    <3> QED BY <1>9, <1>15, <1>16, <3>1
  <2>3. keep > 0 => "alloc" \in flags'[lo]
    BY <1>0, <1>4, <2>2
  <2>4. flags'[first] = {"prev"} /\ footer'[hi - 1] = hi - first
    BY <1>9, <1>15
  <2>5. lo # heap_end /\ ("prev" \in flags'[lo] <=> "prev" \in flags[lo])
    <3>1. lo # heap_end
      BY <1>3, <1>5
    <3>2. CASE keep = 0
      <4>1. flags'[lo] = {"prev"}
        BY <1>9, <2>4, <3>2
      <4>2. "prev" \in flags[lo]
        BY <1>0, <1>5, <3>2
      <4> QED BY <3>1, <4>1, <4>2
    <3> QED BY <2>2, <3>1, <3>2
  <2>6. hi # heap_end => hi \in Owned /\ flags'[hi] = flags[hi] \ {"prev"}
    <3> SUFFICES ASSUME hi # heap_end PROVE hi \in Owned /\ flags'[hi] = flags[hi] \ {"prev"}
      OBVIOUS
    <3>1. hi # first
      BY <1>9
    <3>2. CASE Merges(next)
      <4>1. "prev" \notin flags[hi]
        BY <1>6, <1>8, <3>2
      <4> QED BY <1>9, <1>10, <1>15, <1>16, <3>1, <3>2, <4>1
    <3>3. CASE ~Merges(next)
      <4>1. hi = next
        BY <1>7, <3>3
      <4> QED BY <1>9, <1>10, <1>15, <1>16, <3>1, <3>3, <4>1
    <3> QED BY <3>2, <3>3
  <2>7. hi # heap_end => last_alloc' = last_alloc
    <3>1. last_alloc \in BOOLEAN
      BY DEF SInv, TypeOK
    <3> QED BY <1>2, <1>10, <3>1
  <2>8. hi = heap_end => (last_alloc' <=> lo + keep = hi)
    BY <1>9, <1>10 DEF first
  <2> QED BY <1>9, <2>1, <2>3, <2>4, <2>5, <2>6, <2>7, <2>8 DEF TagsReplaced, first
<1>21. TypeOK'
  <2>1. heap_end' \in 0..MaxSlabs /\ aborted' \in {"no", "out of memory", "assertion"}
    BY <1>0 DEF SInv, TypeOK
  <2>2. last_alloc' \in BOOLEAN
    BY <1>2
  <2>3. bins' \in [Bins -> Seq(Slabs)] /\ skiplist' \subseteq Bins
    BY <1>18 DEF Ordered, Marked
  <2>4. owned' \in [Slabs -> 0..MaxSlabs]
    <3>1. keep \in 0..MaxSlabs
      BY <1>0, <1>3, <1>5, <1>9 DEF first
    <3> QED BY <1>0, <1>1, <3>1
  <2>5. flags' \in [Slabs -> SUBSET Flags]
    <3>1. NextTold(next) \in [Slabs -> SUBSET Flags]
      BY <1>1 DEF NextTold, Flags
    <3> QED BY <1>2, <3>1 DEF Flags
  <2>6. num_slabs' \in [Slabs -> 0..MaxSlabs] /\ footer' \in [Slabs -> 0..MaxSlabs]
    BY <1>1, <1>2, <1>9
  <2> QED BY <2>1, <2>2, <2>3, <2>4, <2>5, <2>6 DEF TypeOK
<1> QED BY <1>18, <1>19, <1>20, <1>21, Completed

(* The heap grows, for a region that is its last one or comes after that.   *)
Grown(lo, n, fl) ==
  /\ n \in Nat /\ heap_end < lo + n /\ lo + n <= MaxSlabs
  /\ (lo = heap_end /\ last_alloc) \/ (lo \in Regions /\ lo + RegionSize[lo] = heap_end)
  /\ heap_end' = lo + n /\ last_alloc' = TRUE
  /\ bins' = IF lo \in Binned THEN Unlink(bins, lo) ELSE bins
  /\ Marked(bins, skiplist')
  /\ fl \in [Slabs -> SUBSET Flags] /\ \A r \in Slabs : r # lo => fl[r] = flags[r]
  /\ "alloc" \in fl[lo]
  /\ IF lo = heap_end THEN "prev" \in fl[lo] ELSE "prev" \in fl[lo] <=> "prev" \in flags[lo]
  /\ OwnerWrites(fl, num_slabs, footer, lo, n)
  /\ owned' = [owned EXCEPT ![lo] = n]
  /\ UNCHANGED aborted

LEMMA GrowKeepsInvariant ==
  ASSUME SInv, NEW lo, NEW n, NEW fl, Grown(lo, n, fl)
  PROVE  SInv'
<1> DEFINE hi2 == lo + n
<1>0. /\ n \in Nat /\ heap_end < hi2 /\ hi2 <= MaxSlabs
      /\ (lo = heap_end /\ last_alloc) \/ (lo \in Regions /\ lo + RegionSize[lo] = heap_end)
      /\ heap_end' = hi2 /\ last_alloc' = TRUE
      /\ bins' = IF lo \in Binned THEN Unlink(bins, lo) ELSE bins
      /\ Marked(bins, skiplist')
      /\ "alloc" \in fl[lo]
      /\ lo = heap_end => "prev" \in fl[lo]
      /\ lo # heap_end => ("prev" \in fl[lo] <=> "prev" \in flags[lo])
      /\ owned' = [owned EXCEPT ![lo] = n]
      /\ aborted' = aborted
  BY DEF Grown
<1>1. /\ fl \in [Slabs -> SUBSET Flags] /\ \A r \in Slabs : r # lo => fl[r] = flags[r]
      /\ num_slabs \in [Slabs -> 0..MaxSlabs] /\ footer \in [Slabs -> 0..MaxSlabs]
      /\ owned \in [Slabs -> 0..MaxSlabs]
  BY Landscape DEF Grown
<1>2. /\ heap_end \in Nat /\ heap_end <= MaxSlabs /\ MaxSlabs \in Nat
      /\ \A r : r \in Slabs <=> r \in Nat /\ r <= MaxSlabs
  BY Landscape
<1>3. lo \in Nat /\ lo <= heap_end /\ lo < hi2 /\ hi2 \in Nat /\ hi2 \in Slabs /\ lo \in Slabs
  <2>1. lo \in Nat /\ lo <= heap_end
    BY <1>0, <1>2, NoneBeyond
  <2> QED BY <1>0, <1>2, <2>1
<1>4. ASSUME NEW r \in Regions
      PROVE  /\ r \in Slabs /\ r \in Nat /\ r < heap_end
             /\ r # lo => r < lo
             /\ Outside(r, lo, heap_end) <=> r # lo
  <2>1. r \in Slabs /\ r \in Nat /\ r < heap_end /\ RegionSize[r] \in Nat \ {0} /\ r + RegionSize[r] <= heap_end
    BY <1>2, NoneBeyond, RegionFacts DEF SInv
  <2>2. CASE lo \in Regions /\ lo + RegionSize[lo] = heap_end
    <3>1. lo < r => heap_end <= r
      BY <2>2 DEF SInv, Laid, Tiles
    <3> QED BY <1>2, <1>3, <2>1, <3>1 DEF Outside
  <2>3. CASE lo = heap_end
    BY <1>2, <2>1, <2>3 DEF Outside
  <2> QED BY <1>0, <2>2, <2>3
<1> HIDE DEF hi2
<1>5. ASSUME NEW r \in Slabs
      PROVE  /\ r < lo => flags'[r] = flags[r] /\ num_slabs'[r] = num_slabs[r] /\ footer'[r] = footer[r]
             /\ r = lo => flags'[r] = fl[r]
  <2>1. /\ flags'[r] = IF lo < r /\ r < lo + n THEN OwnersData[r] ELSE fl[r]
        /\ num_slabs'[r] = IF lo <= r /\ r < lo + n THEN Junk ELSE num_slabs[r]
        /\ footer'[r] = IF lo <= r /\ r < lo + n THEN Junk ELSE footer[r]
    BY DEF Grown, OwnerWrites
  <2>2. r \in Nat /\ (r < lo => ~(lo <= r) /\ ~(lo < r) /\ r # lo) /\ (r = lo => ~(lo < r))
    BY <1>2, <1>3
  <2> QED BY <1>1, <2>1, <2>2
<1>6. /\ flags' \in [Slabs -> SUBSET Flags] /\ num_slabs' \in [Slabs -> 0..MaxSlabs]
      /\ footer' \in [Slabs -> 0..MaxSlabs]
  <2>1. OwnerWrites(fl, num_slabs, footer, lo, n)
    BY DEF Grown
  <2> QED BY <1>0, <1>1, <1>3, <2>1, OwnerWritesTypes
<1>7. /\ Ordered(bins', num_slabs') /\ Marked(bins', skiplist')
      /\ \A r : r \in Binned' <=> r \in Binned /\ Outside(r, lo, heap_end)
  <2>1. num_slabs \in [Slabs -> Nat] /\ num_slabs' \in [Slabs -> Nat]
    BY <1>1, <1>2, <1>6
  <2>2. Ordered(bins, num_slabs) /\ Binned = InBins(bins)
    BY Landscape DEF SInv
  <2>3. /\ Ordered(bins', num_slabs) /\ Marked(bins', skiplist')
        /\ \A r : r \in InBins(bins') <=> r \in Binned /\ r # lo
    <3>1. CASE lo \in Binned
      BY <1>0, <2>1, <2>2, <3>1, UnlinkOne
    <3>2. CASE lo \notin Binned
      <4>1. bins' = bins
        BY <1>0, <3>2
      <4> QED BY <1>0, <2>2, <3>2, <4>1
    <3> QED BY <3>1, <3>2
  <2>4. \A r \in Binned : Outside(r, lo, heap_end) <=> r # lo
    BY <1>4, Landscape
  <2>5. \A r \in InBins(bins') : num_slabs'[r] = num_slabs[r]
    <3> SUFFICES ASSUME NEW r \in InBins(bins') PROVE num_slabs'[r] = num_slabs[r]
      OBVIOUS
    <3>1. r \in Regions /\ r # lo
      BY <2>3, Landscape
    <3>2. r \in Slabs /\ r < lo
      BY <1>4, <3>1
    <3> QED BY <1>5, <3>2
  <2>6. Ordered(bins', num_slabs')
    BY <2>1, <2>3, <2>5, OrderedSame
  <2>7. Binned' = InBins(bins')
    BY DEF Binned, InBins, Members
  <2> QED BY <2>3, <2>4, <2>6, <2>7
<1>8. RegionsReplaced(lo, n, heap_end, hi2)
  <2>1. n \in 0..(hi2 - lo) /\ lo + n = hi2 /\ ~(lo + n < hi2)
    BY <1>0, <1>3 DEF hi2
  <2>2. ASSUME NEW r \in Slabs
        PROVE  owned'[r] = IF r = lo THEN n ELSE IF Outside(r, lo, heap_end) THEN owned[r] ELSE 0
    <3>1. owned'[r] = IF r = lo THEN n ELSE owned[r]
      BY <1>0, <1>1
    <3>2. r \in Owned /\ r # lo => Outside(r, lo, heap_end)
      BY <1>4, Landscape
    <3>3. r \notin Owned => owned[r] = 0
      <4>1. owned[r] \in Nat
        BY <1>1, <1>2
      <4> QED BY <4>1 DEF Owned
    <3> QED BY <3>1, <3>2, <3>3
  <2>3. ASSUME NEW r \in Slabs, Outside(r, lo, heap_end) PROVE num_slabs'[r] = num_slabs[r]
    BY <1>2, <1>5, <2>3 DEF Outside
  <2>4. lo \in Regions \cup {heap_end} /\ heap_end \in Regions \cup {heap_end}
    BY <1>0
  <2> QED BY <1>0, <1>3, <1>7, <2>1, <2>2, <2>3, <2>4 DEF RegionsReplaced
<1>9. TagsReplaced(lo, n, heap_end, hi2)
  <2>1. lo + n = hi2 /\ ~(lo + n < hi2)
    BY <1>3 DEF hi2
  <2>2. ASSUME NEW r \in Slabs, Outside(r, lo, heap_end)
        PROVE  footer'[r] = footer[r] /\ flags'[r] = flags[r]
    BY <1>2, <1>5, <2>2 DEF Outside
  <2>3. flags'[lo] = fl[lo]
    BY <1>3, <1>5
  <2>4. IF lo = heap_end THEN last_alloc /\ "prev" \in flags'[lo]
        ELSE "prev" \in flags'[lo] <=> "prev" \in flags[lo]
    <3>1. lo = heap_end => last_alloc
      <4>1. lo \in Regions => lo # heap_end
        BY <1>2, <1>4
      <4> QED BY <1>0, <4>1
    <3> QED BY <1>0, <2>3, <3>1
  <2>5. "alloc" \in flags'[lo]
    BY <1>0, <2>3
  <2>6. last_alloc' <=> lo + n = hi2
    BY <1>0, <2>1
  <2> QED BY <2>1, <2>2, <2>4, <2>5, <2>6 DEF TagsReplaced
<1>10. TypeOK'
  <2>1. heap_end' \in 0..MaxSlabs /\ aborted' \in {"no", "out of memory", "assertion"} /\ last_alloc' \in BOOLEAN
    <3>1. aborted' \in {"no", "out of memory", "assertion"}
      BY <1>0 DEF SInv, TypeOK
    <3>2. heap_end' \in 0..MaxSlabs
      BY <1>0, <1>2, <1>3
    <3> QED BY <1>0, <3>1, <3>2
  <2>2. bins' \in [Bins -> Seq(Slabs)] /\ skiplist' \subseteq Bins
    BY <1>7 DEF Ordered, Marked
  <2>3. owned' \in [Slabs -> 0..MaxSlabs]
    <3>1. n \in 0..MaxSlabs
      BY <1>0, <1>2, <1>3 DEF hi2
    <3> QED BY <1>0, <1>1, <3>1
  <2> QED BY <1>6, <2>1, <2>2, <2>3 DEF TypeOK
<1> QED BY <1>7, <1>8, <1>9, <1>10, Completed

-----------------------------------------------------------------------------
(* The actions.                                                             *)
LEMMA AbortKeepsInvariant ==
  ASSUME SInv, NEW why \in {"no", "out of memory", "assertion"}, Abort(why)
  PROVE  SInv'
<1>1. /\ heap_end' = heap_end /\ last_alloc' = last_alloc /\ flags' = flags /\ num_slabs' = num_slabs
      /\ footer' = footer /\ bins' = bins /\ skiplist' = skiplist /\ owned' = owned /\ aborted' = why
  BY DEF Abort, tags, lists
<1>2. TypeOK'
  BY <1>1 DEF SInv, TypeOK
<1>3. Owned' = Owned /\ Binned' = Binned
  <2>1. Owned' = Owned
    BY <1>1 DEF Owned, Slabs
  <2>2. Binned' = Binned
    <3>1. Binned' = InBins(bins')
      BY DEF Binned, InBins, Members
    <3> QED BY <1>1, <3>1, BinnedInBins
  <2> QED BY <2>1, <2>2
<1>4. Laid' /\ TagsTellTheTruth' /\ StartTold'
  BY <1>1, <1>3 DEF SInv, Laid, Regions, RegionSize, TagsTellTheTruth, StartTold
<1> QED BY <1>1, <1>2, <1>4 DEF SInv

(* The last region of the heap is free, or not: last_alloc knows.           *)
LEMMA LastRegion ==
  ASSUME SInv
  PROVE  /\ ~last_alloc => /\ heap_end - footer[heap_end - 1] \in Binned
                           /\ footer[heap_end - 1] = num_slabs[heap_end - footer[heap_end - 1]]
         /\ \A s \in Owned : s + owned[s] = heap_end => last_alloc
<1>1. last_alloc <=> ~ \E s \in Binned : s + num_slabs[s] = heap_end
  BY DEF SInv, TagsTellTheTruth
<1>2. ASSUME ~last_alloc
      PROVE  /\ heap_end - footer[heap_end - 1] \in Binned
             /\ footer[heap_end - 1] = num_slabs[heap_end - footer[heap_end - 1]]
  <2>1. PICK s \in Binned : s + num_slabs[s] = heap_end
    BY <1>1, <1>2
  <2>2. s \in Nat /\ num_slabs[s] \in Nat /\ footer[(s + num_slabs[s]) - 1] = num_slabs[s]
    BY FreeRegion, SlabFacts
  <2>3. footer[heap_end - 1] = num_slabs[s] /\ heap_end - num_slabs[s] = s
    BY <2>1, <2>2
  <2> QED BY <2>3
<1>3. ASSUME NEW s \in Owned, s + owned[s] = heap_end PROVE last_alloc
  <2> SUFFICES ASSUME NEW r \in Binned, r + num_slabs[r] = heap_end PROVE FALSE
    BY <1>1
  <2>1. s \in Nat /\ owned[s] \in Nat \ {0} /\ s \in Regions /\ s \notin Binned /\ (s < r => s + owned[s] <= r)
    BY OwnedRegion, FreeRegion, SlabFacts
  <2>2. r \in Nat /\ num_slabs[r] \in Nat \ {0} /\ (r < s => r + num_slabs[r] <= s)
    BY <2>1, FreeRegion, SlabFacts
  <2> QED BY <1>3, <2>1, <2>2
<1> QED BY <1>2, <1>3

(* The hypothesis: a realloc in place that gives back no slab is left out,  *)
(* since slab_shrink computes one for some sizes and then breaks the heap.  *)
ShrinksGiveBack == MinFreed > 0

(* What a step of the layer does.                                           *)
OneOwnerChanges ==
  \/ owned' = owned
  \/ \E s \in 0..(MaxSlabs - 1), n \in 0..MaxSlabs :
       (owned[s] > 0 \/ n > 0) /\ owned' = [owned EXCEPT ![s] = n]

GrowsForWhatDoesNotFit ==
  heap_end' # heap_end =>
    \A s \in Slabs : owned[s] = 0 /\ owned'[s] > 0 => \A r \in Binned : num_slabs[r] < owned'[s]

StepRight == SInv' /\ OneOwnerChanges /\ aborted' # "assertion" /\ GrowsForWhatDoesNotFit

(* The region that changes hands is one of the heap's.                      *)
LEMMA OwnerChanges ==
  ASSUME SInv, SInv', NEW s, NEW n \in Nat, s \in Owned \/ s \in Owned',
         owned' = [owned EXCEPT ![s] = n]
  PROVE  OneOwnerChanges
<1>1. MaxSlabs \in Nat /\ (\A r : r \in Slabs <=> r \in Nat /\ r <= MaxSlabs)
      /\ owned \in [Slabs -> 0..MaxSlabs]
  BY Landscape
<1>2. s \in Slabs /\ s < MaxSlabs
  <2>1. CASE s \in Owned
    <3>1. s < heap_end /\ heap_end <= MaxSlabs /\ heap_end \in Nat /\ s \in Nat /\ s \in Slabs
      BY <1>1, <2>1, Landscape, NoneBeyond
    <3> QED BY <1>1, <3>1
  <2>2. CASE s \in Owned'
    <3>1. TypeOK' /\ Laid'
      BY DEF SInv
    <3>2. heap_end' \in 0..MaxSlabs
      BY <3>1 DEF TypeOK
    <3>3. s \in Slabs /\ owned'[s] > 0
      BY <2>2 DEF Owned, Slabs
    <3>4. s \in Regions' /\ RegionSize'[s] = owned'[s]
      BY <2>2, <3>3 DEF Regions, RegionSize, Slabs
    <3>5. s \in Nat /\ RegionSize'[s] \in Nat \ {0} /\ s + RegionSize'[s] <= heap_end'
      BY <3>1, <3>4 DEF Laid, Tiles
    <3> QED BY <1>1, <3>2, <3>3, <3>5
  <2> QED BY <2>1, <2>2
<1>3. owned[s] > 0 \/ n > 0
  BY <1>1, <1>2 DEF Owned, Slabs
<1>4. n \in 0..MaxSlabs
  <2>1. owned' \in [Slabs -> 0..MaxSlabs]
    BY DEF SInv, TypeOK
  <2> QED BY <1>1, <1>2, <2>1
<1>5. s \in 0..(MaxSlabs - 1)
  BY <1>1, <1>2
<1> QED BY <1>3, <1>4, <1>5 DEF OneOwnerChanges

LEMMA AllocFoundRight ==
  ASSUME SInv, aborted = "no", NEW n \in 1..MaxRequest, AllocFound(n)
  PROVE  StepRight
<1>1. n \in Nat \ {0} /\ num_slabs \in [Slabs -> Nat] /\ MaxRequest \in Nat
  BY Landscape, SlabHeapAssumption
<1>2. PICK f \in Found(n) :
        /\ Take(f.s, f.size, n, [flags EXCEPT ![f.s] = @ \cup {"alloc"}], Unmarked(n), f.s, n)
        /\ owned' = [owned EXCEPT ![f.s] = n]
        /\ heap_end' = heap_end /\ aborted' = aborted
  BY DEF AllocFound
<1>3. f.s \in InBins(bins) /\ f.size = num_slabs[f.s] /\ f.size >= n /\ Marked(bins, Unmarked(n))
  BY <1>1, SearchFinds DEF SInv
<1> DEFINE s == f.s
           fl == [flags EXCEPT ![s] = @ \cup {"alloc"}]
<1>4. /\ s \in Binned /\ num_slabs[s] >= n /\ owned' = [owned EXCEPT ![s] = n]
      /\ Take(s, num_slabs[s], n, fl, Unmarked(n), s, n)
  BY <1>2, <1>3, BinnedInBins
<1> HIDE DEF s
<1>5. s \in Slabs /\ s \in Regions /\ num_slabs[s] \in Nat /\ owned[s] = 0
  BY <1>4, FreeRegion
<1>6. flags \in [Slabs -> SUBSET Flags] /\ owned \in [Slabs -> 0..MaxSlabs]
  BY Landscape
<1>7. fl \in [Slabs -> SUBSET Flags] /\ (\A r \in Slabs : r # s => fl[r] = flags[r])
      /\ fl[s] = flags[s] \cup {"alloc"}
  BY <1>5, <1>6 DEF Flags
<1>8. n \in 1..num_slabs[s]
  BY <1>1, <1>4, <1>5
<1> HIDE DEF fl
<1>9. Taken(s, n, fl, Unmarked(n), s, n)
  BY <1>1, <1>2, <1>3, <1>4, <1>5, <1>7, <1>8 DEF Taken
<1>10. SInv'
  BY <1>9, TakeKeepsInvariant
<1>11. s \in Owned'
  BY <1>1, <1>4, <1>5, <1>6 DEF Owned, Slabs
<1>12. OneOwnerChanges
  BY <1>1, <1>4, <1>10, <1>11, OwnerChanges
<1> QED BY <1>2, <1>10, <1>12 DEF StepRight, GrowsForWhatDoesNotFit

LEMMA AllocGrowingRight ==
  ASSUME SInv, aborted = "no", NEW n \in 1..MaxRequest, AllocExtending(n) \/ AllocFresh(n)
  PROVE  StepRight
<1>1. n \in Nat \ {0} /\ num_slabs \in [Slabs -> Nat] /\ MaxRequest \in Nat
  BY Landscape, SlabHeapAssumption
<1>2. /\ flags \in [Slabs -> SUBSET Flags] /\ owned \in [Slabs -> 0..MaxSlabs]
      /\ heap_end \in Nat /\ heap_end <= MaxSlabs /\ MaxSlabs \in Nat
      /\ \A r : r \in Slabs <=> r \in Nat /\ r <= MaxSlabs
  BY Landscape
<1>3. Found(n) = {} /\ \A r \in Binned : num_slabs[r] < n
  <2>1. Found(n) = {}
    BY DEF AllocExtending, AllocFresh
  <2> QED BY <1>1, <2>1, SearchFinds, BinnedInBins DEF SInv
<1>4. Marked(bins, Unmarked(n))
  BY <1>1, SearchFinds DEF SInv
<1>5. ASSUME Abort("out of memory") PROVE StepRight
  <2>1. SInv'
    BY <1>5, AbortKeepsInvariant
  <2>2. owned' = owned /\ heap_end' = heap_end /\ aborted' # "assertion"
    BY <1>5 DEF Abort
  <2> QED BY <2>1, <2>2 DEF StepRight, OneOwnerChanges, GrowsForWhatDoesNotFit
<1>6. ASSUME NEW lo \in Slabs, NEW fl, Grown(lo, n, fl) PROVE StepRight
  <2>1. SInv'
    BY <1>6, GrowKeepsInvariant
  <2>2. owned' = [owned EXCEPT ![lo] = n] /\ aborted' = aborted
    BY <1>6 DEF Grown
  <2>3. owned'[lo] = n /\ \A r \in Slabs : r # lo => owned'[r] = owned[r]
    BY <1>2, <2>2
  <2>4. lo \in Owned'
    BY <1>1, <2>3 DEF Owned, Slabs
  <2>5. OneOwnerChanges
    BY <1>1, <2>1, <2>2, <2>4, OwnerChanges
  <2>6. ASSUME NEW s \in Slabs, owned[s] = 0, owned'[s] > 0, NEW r \in Binned
        PROVE  num_slabs[r] < owned'[s]
    <3>1. s = lo
      BY <2>3, <2>6
    <3> QED BY <1>3, <2>3, <3>1
  <2> QED BY <2>1, <2>2, <2>5, <2>6 DEF StepRight, GrowsForWhatDoesNotFit
<1>7. CASE AllocExtending(n)
  <2> DEFINE last == heap_end - footer[heap_end - 1]
             rem  == n - num_slabs[last]
             fl   == [flags EXCEPT ![last] = @ \cup {"alloc"}]
  <2>1. ~last_alloc /\ IF num_slabs[last] >= n THEN Abort("assertion")
        ELSE IF heap_end + rem > MaxSlabs THEN Abort("out of memory")
        ELSE /\ heap_end' = heap_end + rem
             /\ last_alloc' = TRUE
             /\ bins' = Unlink(bins, last)
             /\ skiplist' = Unmarked(n)
             /\ OwnerWrites(fl, num_slabs, footer, last, n)
             /\ owned' = [owned EXCEPT ![last] = n]
             /\ aborted' = aborted
    BY <1>7 DEF AllocExtending
  <2>2. last \in Binned /\ footer[heap_end - 1] = num_slabs[last]
    BY <2>1, LastRegion
  <2>3. heap_end - num_slabs[last] = last
    BY <2>2
  <2> HIDE DEF last
  <2>4. last \in Slabs /\ last \in Regions /\ RegionSize[last] = num_slabs[last] /\ num_slabs[last] \in Nat
    BY <2>2, FreeRegion, RegionFacts DEF SInv
  <2>5. last + RegionSize[last] = heap_end /\ last \in Nat /\ heap_end + rem = last + n
        /\ num_slabs[last] < n /\ heap_end < last + n
    BY <1>1, <1>2, <1>3, <2>2, <2>3, <2>4
  <2>6. ~(num_slabs[last] >= n)
    BY <1>1, <2>4, <2>5
  <2>7. CASE heap_end + rem > MaxSlabs
    BY <1>5, <2>1, <2>6, <2>7
  <2>8. CASE ~(heap_end + rem > MaxSlabs)
    <3>1. /\ fl \in [Slabs -> SUBSET Flags] /\ \A r \in Slabs : r # last => fl[r] = flags[r]
          /\ fl[last] = flags[last] \cup {"alloc"}
      BY <1>2, <2>4 DEF Flags
    <3>2. last + n <= MaxSlabs /\ last # heap_end
      <4>1. last < heap_end
        BY <2>4, NoneBeyond
      <4> QED BY <1>1, <1>2, <2>5, <2>8, <4>1
    <3>3. /\ heap_end' = last + n /\ last_alloc' = TRUE /\ bins' = Unlink(bins, last)
          /\ Marked(bins, skiplist') /\ OwnerWrites(fl, num_slabs, footer, last, n)
          /\ owned' = [owned EXCEPT ![last] = n] /\ aborted' = aborted
      BY <1>4, <2>1, <2>5, <2>6, <2>8
    <3> HIDE DEF fl
    <3>4. Grown(last, n, fl)
      BY <1>1, <2>2, <2>4, <2>5, <3>1, <3>2, <3>3 DEF Grown
    <3> QED BY <1>6, <2>4, <3>4
  <2> QED BY <2>7, <2>8
<1>8. CASE AllocFresh(n)
  <2> DEFINE fl == [flags EXCEPT ![heap_end] = Flags]
  <2>1. last_alloc /\ IF heap_end + n > MaxSlabs THEN Abort("out of memory")
        ELSE /\ heap_end' = heap_end + n
             /\ skiplist' = Unmarked(n)
             /\ OwnerWrites(fl, num_slabs, footer, heap_end, n)
             /\ owned' = [owned EXCEPT ![heap_end] = n]
             /\ last_alloc' = last_alloc /\ bins' = bins /\ aborted' = aborted
    BY <1>8 DEF AllocFresh
  <2>2. CASE heap_end + n > MaxSlabs
    BY <1>5, <2>1, <2>2
  <2>3. CASE ~(heap_end + n > MaxSlabs)
    <3>1. /\ fl \in [Slabs -> SUBSET Flags] /\ \A r \in Slabs : r # heap_end => fl[r] = flags[r]
          /\ fl[heap_end] = Flags
      BY <1>2 DEF Flags
    <3>2. heap_end \notin Binned
      <4>1. heap_end \in Regions => heap_end < heap_end
        BY NoneBeyond
      <4> QED BY <1>2, <4>1, Landscape
    <3>3. heap_end < heap_end + n /\ heap_end + n <= MaxSlabs
      BY <1>1, <1>2, <2>3
    <3>4. last_alloc = TRUE
      BY <2>1 DEF SInv, TypeOK
    <3> HIDE DEF fl
    <3>5. Grown(heap_end, n, fl)
      BY <1>1, <1>4, <2>1, <2>3, <3>1, <3>2, <3>3, <3>4 DEF Grown, Flags
    <3> QED BY <1>2, <1>6, <3>5
  <2> QED BY <2>2, <2>3
<1> QED BY <1>7, <1>8

LEMMA FreeSlabRight ==
  ASSUME SInv, aborted = "no", NEW s \in Slabs, FreeSlab(s)
  PROVE  StepRight
<1>1. /\ s \in Owned /\ owned[s] = 1 /\ s \in Nat /\ s \in Regions
      /\ "alloc" \in flags[s] /\ flags[s] \in SUBSET Flags
      /\ num_slabs \in [Slabs -> 0..MaxSlabs] /\ MaxSlabs \in Nat
  <2>1. owned[s] = 1
    BY DEF FreeSlab
  <2>2. s \in Owned
    BY <2>1 DEF Owned
  <2> QED BY <2>1, <2>2, OwnedRegion, Landscape
<1>2. owned' = [owned EXCEPT ![s] = 0] /\ heap_end' = heap_end /\ aborted' = aborted
  BY DEF FreeSlab
<1>3. CASE "prev" \in flags[s]
  <2>1. GiveBack(s, 1, s, 0, flags[s] \ {"alloc"}, bins)
    BY <1>3 DEF FreeSlab
  <2>2. flags[s] \ {"alloc"} = {"prev"}
    BY <1>1, <1>3 DEF Flags
  <2>3. s + 0 = s /\ s < s + 1 /\ 0 + 1 = (s + 1) - (s + 0)
    BY <1>1
  <2>4. GivenBack(s, s, 0, s, 1, 0)
    BY <1>1, <1>2, <1>3, <2>1, <2>2, <2>3 DEF GivenBack
  <2>5. SInv'
    BY <2>4, GiveBackKeepsInvariant
  <2>6. OneOwnerChanges
    BY <1>1, <1>2, <2>5, OwnerChanges
  <2> QED BY <1>2, <2>5, <2>6 DEF StepRight, GrowsForWhatDoesNotFit
<1>4. CASE "prev" \notin flags[s]
  <2> DEFINE prev == s - footer[s - 1]
  <2>1. GiveBack(s, 1, prev, num_slabs[prev], flags[prev], Unlink(bins, prev))
    BY <1>4 DEF FreeSlab
  <2>2. s > 0
    <3>1. s < heap_end /\ heap_end \in Nat
      BY <1>1, NoneBeyond, Landscape
    <3>2. s = 0 => "prev" \in flags[s]
      BY <1>1, <3>1 DEF SInv, StartTold
    <3> QED BY <1>1, <1>4, <3>2
  <2>3. PICK p \in Regions : p + RegionSize[p] = s
    <3>1. heap_end \in Nat /\ Tiles(Regions, RegionSize, heap_end)
      BY Landscape DEF SInv, Laid
    <3>2. s \in Regions \cup {heap_end}
      BY <1>1
    <3> QED BY <2>2, <3>1, <3>2, RegionBefore
  <2>4. p \in Binned
    <3>1. ASSUME p \in Owned PROVE FALSE
      <4>1. RegionSize[p] = owned[p]
        BY <3>1, RegionFacts DEF SInv
      <4>2. s < heap_end /\ heap_end \in Nat
        BY <1>1, NoneBeyond, Landscape
      <4> QED BY <1>1, <1>4, <2>3, <3>1, <4>1, <4>2, OwnedRegion
    <3> QED BY <2>3, <3>1, Landscape
  <2>5. p + num_slabs[p] = s /\ p \in Nat /\ num_slabs[p] \in Nat \ {0} /\ flags[p] = {"prev"}
        /\ footer[(p + num_slabs[p]) - 1] = num_slabs[p]
    BY <2>3, <2>4, FreeRegion, RegionFacts, SlabFacts DEF SInv
  <2>6. prev = p
    <3>1. footer[s - 1] = num_slabs[p]
      BY <2>5
    <3>2. s - num_slabs[p] = p
      BY <1>1, <2>5
    <3> QED BY <3>1, <3>2
  <2> HIDE DEF prev
  <2>7. GiveBack(s, 1, p, num_slabs[p], {"prev"}, Unlink(bins, p))
    BY <2>1, <2>5, <2>6
  <2>8. p + 0 = p /\ p < s + 1 /\ num_slabs[p] + 1 = (s + 1) - (p + 0) /\ p # s
    BY <1>1, <2>5
  <2>9. GivenBack(p, s, 0, s, 1, num_slabs[p])
    BY <1>1, <1>2, <2>3, <2>4, <2>5, <2>7, <2>8 DEF GivenBack
  <2>10. SInv'
    BY <2>9, GiveBackKeepsInvariant
  <2>11. OneOwnerChanges
    BY <1>1, <1>2, <2>10, OwnerChanges
  <2> QED BY <1>2, <2>10, <2>11 DEF StepRight, GrowsForWhatDoesNotFit
<1> QED BY <1>3, <1>4

LEMMA FreeRemainderRight ==
  ASSUME SInv, aborted = "no", NEW s \in Slabs, NEW keep \in Nat \ {0}, keep < owned[s], FreeRemainder(s, keep)
  PROVE  StepRight
<1>1. /\ flags \in [Slabs -> SUBSET Flags] /\ owned \in [Slabs -> 0..MaxSlabs] /\ MaxSlabs \in Nat
      /\ heap_end \in Nat /\ heap_end <= MaxSlabs
      /\ \A r : r \in Slabs <=> r \in Nat /\ r <= MaxSlabs
  BY Landscape
<1>2. s \in Owned
  BY DEF FreeRemainder, Owned
<1>3. s \in Regions /\ s \in Nat /\ owned[s] \in Nat /\ s + owned[s] <= heap_end
  BY <1>1, <1>2, OwnedRegion
<1> DEFINE rest == s + keep
           n    == owned[s] - keep
<1>4. /\ GiveBack(rest, n, rest, 0, (flags[rest] \ {"alloc"}) \cup {"prev"}, bins)
      /\ owned' = [owned EXCEPT ![s] = keep] /\ heap_end' = heap_end /\ aborted' = aborted
  BY DEF FreeRemainder
<1>5. /\ rest \in Slabs /\ rest \in Nat /\ n \in Nat /\ rest + n = s + owned[s] /\ s + keep < rest + n
      /\ 0 + n = (rest + n) - (s + keep)
  BY <1>1, <1>3
<1>6. (flags[rest] \ {"alloc"}) \cup {"prev"} = {"prev"}
  <2>1. flags[rest] \in SUBSET {"alloc", "prev"}
    BY <1>1, <1>5 DEF Flags
  <2> QED BY <2>1
<1>7. GiveBack(rest, n, s + keep, 0, {"prev"}, bins)
  <2>1. GiveBack(rest, n, rest, 0, {"prev"}, bins)
    BY <1>4, <1>6
  <2> QED BY <2>1
<1> HIDE DEF rest, n
<1>8. GivenBack(s, s, keep, rest, n, 0)
  BY <1>2, <1>3, <1>4, <1>5, <1>7 DEF GivenBack
<1>9. SInv'
  BY <1>8, GiveBackKeepsInvariant
<1>10. OneOwnerChanges
  BY <1>2, <1>4, <1>9, OwnerChanges
<1> QED BY <1>4, <1>9, <1>10 DEF StepRight, GrowsForWhatDoesNotFit

LEMMA GrowAtEndRight ==
  ASSUME SInv, aborted = "no", NEW s \in Slabs, NEW n \in 1..MaxGrowth, GrowAtEnd(s, n)
  PROVE  StepRight
<1>1. /\ flags \in [Slabs -> SUBSET Flags] /\ owned \in [Slabs -> 0..MaxSlabs] /\ MaxSlabs \in Nat
      /\ heap_end \in Nat /\ heap_end <= MaxSlabs
      /\ \A r : r \in Slabs <=> r \in Nat /\ r <= MaxSlabs
  BY Landscape
<1>2. s \in Owned /\ s + owned[s] = heap_end /\ owned[s] > 1 /\ n \in Nat /\ n > 0
  <2>1. n \in Nat /\ n > 0
    BY SlabHeapAssumption
  <2>2. s + owned[s] = heap_end /\ owned[s] > 1
    BY DEF GrowAtEnd
  <2>3. owned[s] \in Nat
    BY <1>1
  <2> QED BY <2>1, <2>2, <2>3 DEF Owned
<1>3. /\ s \in Regions /\ s \in Nat /\ owned[s] \in Nat /\ "alloc" \in flags[s] /\ s \notin Binned
      /\ RegionSize[s] = owned[s]
  BY <1>1, <1>2, OwnedRegion, RegionFacts DEF SInv
<1>4. CASE heap_end + n > MaxSlabs
  <2>1. Abort("out of memory")
    BY <1>4 DEF GrowAtEnd
  <2>2. SInv'
    BY <2>1, AbortKeepsInvariant
  <2>3. owned' = owned /\ heap_end' = heap_end /\ aborted' # "assertion"
    BY <2>1 DEF Abort
  <2> QED BY <2>2, <2>3 DEF StepRight, OneOwnerChanges, GrowsForWhatDoesNotFit
<1>5. CASE ~(heap_end + n > MaxSlabs)
  <2>1. /\ heap_end' = heap_end + n
        /\ owned' = [owned EXCEPT ![s] = @ + n]
        /\ OwnerWrites(flags, num_slabs, footer, s, owned[s] + n)
        /\ last_alloc' = last_alloc /\ bins' = bins /\ skiplist' = skiplist /\ aborted' = aborted
    BY <1>5 DEF GrowAtEnd, lists
  <2> DEFINE size == owned[s] + n
  <2>2. /\ size \in Nat /\ heap_end' = s + size /\ heap_end < s + size /\ s + size <= MaxSlabs
        /\ s # heap_end
    BY <1>1, <1>2, <1>3, <1>5, <2>1
  <2>3. owned' = [owned EXCEPT ![s] = size]
    BY <1>1, <2>1
  <2>4. last_alloc' = TRUE
    <3>1. last_alloc
      BY <1>2, LastRegion
    <3> QED BY <2>1, <3>1 DEF SInv, TypeOK
  <2>5. OwnerWrites(flags, num_slabs, footer, s, size)
    BY <2>1
  <2> HIDE DEF size
  <2>6. Grown(s, size, flags)
    BY <1>1, <1>2, <1>3, <2>1, <2>2, <2>3, <2>4, <2>5 DEF Grown, SInv
  <2>7. SInv'
    BY <2>6, GrowKeepsInvariant
  <2>8. OneOwnerChanges
    BY <1>2, <2>2, <2>3, <2>7, OwnerChanges
  <2>9. \A r \in Slabs : owned[r] = 0 => owned'[r] = 0
    BY <1>1, <1>2, <2>3
  <2> QED BY <2>1, <2>7, <2>8, <2>9 DEF StepRight, GrowsForWhatDoesNotFit
<1> QED BY <1>4, <1>5

LEMMA GrowIntoNextRight ==
  ASSUME SInv, aborted = "no", NEW s \in Slabs, NEW n \in 1..MaxGrowth, GrowIntoNext(s, n)
  PROVE  StepRight
<1> DEFINE next == s + owned[s]
           size == owned[s] + n
<1>1. /\ flags \in [Slabs -> SUBSET Flags] /\ owned \in [Slabs -> 0..MaxSlabs] /\ MaxSlabs \in Nat
      /\ \A r : r \in Slabs <=> r \in Nat /\ r <= MaxSlabs
  BY Landscape
<1>2. /\ owned[s] > 1 /\ next # heap_end /\ IsFree(next) /\ num_slabs[next] >= n
      /\ Take(next, num_slabs[next], n, flags, skiplist, s, size)
      /\ owned' = [owned EXCEPT ![s] = @ + n]
      /\ heap_end' = heap_end /\ aborted' = aborted
      /\ n \in Nat /\ n > 0
  <2>1. n \in Nat /\ n > 0
    BY SlabHeapAssumption
  <2> QED BY <2>1 DEF GrowIntoNext
<1>3. s \in Owned
  <2>1. owned[s] \in Nat /\ owned[s] > 1
    BY <1>1, <1>2
  <2> QED BY <2>1 DEF Owned
<1>4. /\ s \in Regions /\ s \in Nat /\ owned[s] \in Nat /\ "alloc" \in flags[s] /\ next \in Regions
  BY <1>1, <1>2, <1>3, OwnedRegion
<1>5. size \in Nat /\ s + size = next + n /\ owned' = [owned EXCEPT ![s] = size]
  BY <1>1, <1>2, <1>4
<1> HIDE DEF next, size
<1>6. next \in Binned
  <2>1. next \notin Owned
    BY <1>2, OwnedRegion DEF IsFree
  <2> QED BY <1>4, <2>1, Landscape
<1>7. n \in 1..num_slabs[next]
  <2>1. num_slabs[next] \in Nat
    BY <1>6, FreeRegion
  <2> QED BY <1>2, <2>1
<1>8. Taken(next, n, flags, skiplist, s, size)
  <2>1. Marked(bins, skiplist)
    BY DEF SInv
  <2>2. s + owned[s] = next
    BY DEF next
  <2> QED BY <1>1, <1>2, <1>3, <1>4, <1>5, <1>6, <1>7, <2>1, <2>2 DEF Taken
<1>9. SInv'
  BY <1>8, TakeKeepsInvariant
<1>10. OneOwnerChanges
  BY <1>3, <1>5, <1>9, OwnerChanges
<1> QED BY <1>2, <1>9, <1>10 DEF StepRight, GrowsForWhatDoesNotFit

-----------------------------------------------------------------------------
(* The invariant holds at first and is kept.                                *)
LEMMA InitRight == Init => SInv
<1> SUFFICES ASSUME Init PROVE SInv
  OBVIOUS
<1>1. TypeOK
  <2>1. 0 \in 0..MaxSlabs
    BY SlabFacts
  <2> QED BY <2>1 DEF Init, TypeOK, Junk, Flags
<1>2. Owned = {} /\ Binned = {}
  <2>1. Owned = {}
    BY DEF Init, Owned
  <2>2. \A b \in Bins : DOMAIN bins[b] = {}
    BY DEF Init
  <2> QED BY <2>1, <2>2 DEF Binned
<1>3. Laid
  BY <1>2 DEF Init, Laid, Tiles, Regions
<1>4. TagsTellTheTruth /\ StartTold
  BY <1>2 DEF Init, TagsTellTheTruth, StartTold
<1>5. Ordered(bins, num_slabs)
  BY BinsAreBins DEF Init, Ordered, NoRepeats, Members, Sorted
<1>6. Marked(bins, skiplist)
  BY BinsAreBins DEF Init, Marked
<1> QED BY <1>1, <1>3, <1>4, <1>5, <1>6 DEF SInv

LEMMA NextRight ==
  ASSUME ShrinksGiveBack, SInv, Next
  PROVE  StepRight
<1>1. aborted = "no"
  BY DEF Next
<1>2. CASE \E n \in 1..MaxRequest : AllocSlab(n)
  BY <1>1, <1>2, AllocFoundRight, AllocGrowingRight DEF AllocSlab
<1>3. ASSUME NEW s \in Slabs, FreeSlab(s) \/ FreeLarge(s) PROVE StepRight
  <2>1. CASE FreeSlab(s)
    BY <1>1, <2>1, FreeSlabRight
  <2>2. CASE FreeLarge(s)
    <3>1. 1 < owned[s] /\ FreeRemainder(s, 1)
      <4>1. owned[s] \in Nat
        BY Landscape
      <4> QED BY <2>2, <4>1 DEF FreeLarge
    <3> QED BY <1>1, <3>1, FreeRemainderRight
  <2> QED BY <1>3, <2>1, <2>2
<1>4. ASSUME NEW s \in Slabs, NEW keep \in 1..MaxSlabs, ShrinkLarge(s, keep) PROVE StepRight
  <2>1. MaxSlabs \in Nat /\ owned[s] \in Nat /\ MinFreed \in Nat
    BY Landscape, SlabHeapAssumption
  <2>2. keep \in Nat \ {0} /\ keep < owned[s] /\ FreeRemainder(s, keep)
    BY <1>4, <2>1 DEF ShrinkLarge, ShrinksGiveBack
  <2> QED BY <1>1, <2>2, FreeRemainderRight
<1>5. ASSUME NEW s \in Slabs, NEW n \in 1..MaxGrowth, GrowAtEnd(s, n) \/ GrowIntoNext(s, n) PROVE StepRight
  BY <1>1, <1>5, GrowAtEndRight, GrowIntoNextRight
<1> QED BY <1>2, <1>3, <1>4, <1>5 DEF Next

(* The invariant of the heap: regions, tags and bins agree after every call *)
(* of __int_alloc_slab, the two frees and the reallocs in place.            *)
THEOREM SlabHeapInvariant == ASSUME ShrinksGiveBack PROVE Spec => []SInv
<1>1. SInv /\ [Next]_vars => SInv'
  <2> SUFFICES ASSUME SInv, [Next]_vars PROVE SInv'
    OBVIOUS
  <2>1. CASE Next
    BY <2>1, NextRight DEF StepRight
  <2>2. CASE UNCHANGED vars
    <3>1. Abort(aborted)
      BY <2>2 DEF vars, Abort
    <3>2. aborted \in {"no", "out of memory", "assertion"}
      BY DEF SInv, TypeOK
    <3> QED BY <3>1, <3>2, AbortKeepsInvariant
  <2> QED BY <2>1, <2>2
<1> QED BY <1>1, InitRight, PTL DEF Spec

(* No slab is lost and none has two owners, whatever is allocated, freed    *)
(* and resized: each slab of the heap is in exactly one region.             *)
THEOREM SlabsStayWhole == ASSUME ShrinksGiveBack PROVE Spec => []RegionsTileHeap
<1>1. SInv => RegionsTileHeap
  <2> SUFFICES ASSUME SInv, NEW i \in Slabs
               PROVE  Cardinality({s \in Owned : Covers(s, owned[s], i)}
                                    \cup {s \in Binned : Covers(s, num_slabs[s], i)})
                        = (IF i < heap_end THEN 1 ELSE 0)
    BY DEF RegionsTileHeap, SInv
  <2> DEFINE around == {s \in Owned : Covers(s, owned[s], i)}
                         \cup {s \in Binned : Covers(s, num_slabs[s], i)}
  <2>1. TypeOK /\ Laid /\ heap_end \in Nat /\ i \in Nat
    BY Landscape, SlabFacts DEF SInv
  <2>2. ASSUME NEW s PROVE s \in around <=> s \in Regions /\ Covers(s, RegionSize[s], i)
    <3>1. s \in Owned => RegionSize[s] = owned[s]
      BY <2>1, RegionFacts
    <3>2. s \in Binned => RegionSize[s] = num_slabs[s]
      BY <2>1, RegionFacts
    <3> QED BY <3>1, <3>2 DEF Regions
  <2> HIDE DEF around
  <2>3. \A s \in Regions : s \in Nat /\ RegionSize[s] \in Nat \ {0} /\ s + RegionSize[s] <= heap_end
    BY <2>1, RegionFacts
  <2>4. CASE i < heap_end
    <3>1. i \in 0..(heap_end - 1)
      BY <2>1, <2>4
    <3>2. PICK s \in Regions : Covers(s, RegionSize[s], i)
      BY <2>1, <3>1 DEF Laid, Tiles
    <3>3. ASSUME NEW r \in Regions, Covers(r, RegionSize[r], i) PROVE r = s
      <4>1. (r < s => r + RegionSize[r] <= s) /\ (s < r => s + RegionSize[s] <= r)
        BY <2>1 DEF Laid, Tiles
      <4> QED BY <2>1, <2>3, <3>2, <3>3, <4>1 DEF Covers
    <3>4. around = {s}
      BY <2>2, <3>2, <3>3
    <3> QED BY <2>4, <3>4, FS_Singleton DEF around
  <2>5. CASE ~(i < heap_end)
    <3>1. around = {}
      <4> SUFFICES ASSUME NEW s \in around PROVE FALSE
        OBVIOUS
      <4>1. s \in Nat /\ RegionSize[s] \in Nat /\ s + RegionSize[s] <= heap_end /\ i < s + RegionSize[s]
        BY <2>2, <2>3 DEF Covers
      <4> QED BY <2>1, <2>5, <4>1
    <3> QED BY <2>5, <3>1, FS_EmptySet DEF around
  <2> QED BY <2>4, <2>5
<1> QED BY <1>1, SlabHeapInvariant, PTL

(* Merging and growing go by tags that tell the truth: owners write over    *)
(* every word of their regions but the header.                              *)
THEOREM TagsAreTrue == ASSUME ShrinksGiveBack PROVE Spec => []TagsTellTheTruth
<1>1. SInv => TagsTellTheTruth
  BY DEF SInv
<1> QED BY <1>1, SlabHeapInvariant, PTL

(* The bins keep what a search by size relies on.                           *)
THEOREM BinsAreRight == ASSUME ShrinksGiveBack PROVE Spec => []BinsHoldFreeRegions
<1>1. SInv => BinsHoldFreeRegions
  <2> SUFFICES ASSUME SInv PROVE BinsHoldFreeRegions
    OBVIOUS
  <2>1. ASSUME NEW b \in Bins, NEW i \in DOMAIN bins[b], NEW j \in DOMAIN bins[b]
        PROVE  /\ BinOf(num_slabs[bins[b][i]]) = b
               /\ i # j => bins[b][i] # bins[b][j]
               /\ b = NumBins /\ i < j => num_slabs[bins[b][i]] <= num_slabs[bins[b][j]]
    BY DEF SInv, Ordered, NoRepeats, Members, Sorted
  <2>2. (\A b \in 1..MaxSeg : bins[b] # <<>> => b \in skiplist) /\ NumBins \notin skiplist
    BY DEF SInv, Marked
  <2> QED BY <2>1, <2>2 DEF BinsHoldFreeRegions
<1> QED BY <1>1, SlabHeapInvariant, PTL

(* New memory is asked for only when no free region would do, and the       *)
(* assertion on that path holds.                                            *)
THEOREM GrowsOnlyIfNothingFits == ASSUME ShrinksGiveBack PROVE Spec => GrowsOnlyWhenNothingFits
<1> DEFINE Right == /\ aborted' # "assertion"
                    /\ heap_end' # heap_end =>
                         \A s \in Slabs : owned[s] = 0 /\ owned'[s] > 0 =>
                           \A r \in Binned : num_slabs[r] < owned'[s]
<1>1. SInv /\ [Next]_vars => [Right]_vars
  BY NextRight DEF StepRight, GrowsForWhatDoesNotFit
<1> HIDE DEF Right
<1>2. Spec => [][Right]_vars
  BY <1>1, SlabHeapInvariant, PTL DEF Spec
<1> QED BY <1>2 DEF GrowsOnlyWhenNothingFits, Right

(* Regions of different owners do not overlap.                              *)
OwnersApart ==
  \A s \in Slabs : owned[s] > 0 =>
    /\ s + owned[s] <= MaxSlabs
    /\ \A r \in Slabs : owned[r] > 0 /\ r # s => s + owned[s] <= r \/ r + owned[r] <= s

LEMMA OwnersStayApart == SInv => OwnersApart
<1> SUFFICES ASSUME SInv, NEW s \in Slabs, owned[s] > 0
             PROVE  /\ s + owned[s] <= MaxSlabs
                    /\ \A r \in Slabs : owned[r] > 0 /\ r # s => s + owned[s] <= r \/ r + owned[r] <= s
  BY DEF OwnersApart
<1>1. s \in Owned /\ s \in Nat /\ owned[s] \in Nat /\ s + owned[s] <= heap_end
  <2>1. s \in Owned
    BY DEF Owned
  <2> QED BY <2>1, OwnedRegion, SlabFacts
<1>2. heap_end \in Nat /\ heap_end <= MaxSlabs /\ MaxSlabs \in Nat
  BY Landscape
<1>3. ASSUME NEW r \in Slabs, owned[r] > 0, r # s PROVE s + owned[s] <= r \/ r + owned[r] <= s
  <2>1. r \in Owned /\ r \in Nat
    BY <1>3, SlabFacts DEF Owned
  <2>2. r \in Regions /\ (s < r => s + owned[s] <= r) /\ (r < s => r + owned[r] <= s)
    <3>1. r \in Regions /\ s \in Regions
      BY <1>1, <2>1, OwnedRegion
    <3> QED BY <1>1, <2>1, <3>1, OwnedRegion
  <2> QED BY <1>1, <1>3, <2>1, <2>2
<1> QED BY <1>1, <1>2, <1>3

(* The layer keeps RegionPool's promise to the layers above it.             *)
THEOREM SlabHeapKeepsPool == ASSUME ShrinksGiveBack PROVE Spec => KeepsPool
<1> DEFINE held == [s \in 0..(MaxSlabs - 1) |-> owned[s]]
<1>1. Init => Pool!Init
  BY SlabFacts DEF Init, Pool!Init, Pool!PoolSlabs
<1>2. SInv' => OwnersApart'
  BY OwnersStayApart, PTL
<1>3. ASSUME SInv, [Next]_vars PROVE [Pool!Next]_held
  <2>1. CASE UNCHANGED vars
    BY <2>1 DEF vars
  <2>2. ASSUME Next, owned' # owned PROVE Pool!Next
    <3>1. SInv' /\ OneOwnerChanges
      BY <1>3, <2>2, NextRight DEF StepRight
    <3>2. PICK s \in 0..(MaxSlabs - 1), n \in 0..MaxSlabs :
            (owned[s] > 0 \/ n > 0) /\ owned' = [owned EXCEPT ![s] = n]
      BY <2>2, <3>1 DEF OneOwnerChanges
    <3>3. /\ MaxSlabs \in Nat \ {0} /\ s \in Slabs /\ s \in Nat /\ n \in Nat /\ s < MaxSlabs
          /\ \A r \in 0..(MaxSlabs - 1) : r \in Slabs /\ r \in Nat
          /\ owned \in [Slabs -> 0..MaxSlabs] /\ \A r \in Slabs : owned[r] \in Nat
      <4>1. MaxSlabs \in Nat \ {0} /\ s \in Nat /\ n \in Nat /\ s < MaxSlabs
        BY SlabFacts
      <4>2. \A r : r \in Slabs <=> r \in Nat /\ r <= MaxSlabs
        BY SlabFacts
      <4>3. owned \in [Slabs -> 0..MaxSlabs]
        BY <1>3, Landscape
      <4>4. \A r \in Slabs : owned[r] \in Nat
        BY <4>1, <4>3
      <4>5. \A r \in 0..(MaxSlabs - 1) : r \in Slabs /\ r \in Nat
        BY <4>1, <4>2
      <4> QED BY <4>1, <4>2, <4>3, <4>4, <4>5
    <3>4. /\ owned'[s] = n /\ \A r \in Slabs : r # s => owned'[r] = owned[r]
      BY <3>2, <3>3
    <3>5. /\ held' = [held EXCEPT ![s] = n] /\ held[s] = owned[s]
          /\ \A r \in 0..(MaxSlabs - 1) : r # s => held[r] = owned[r] /\ [held EXCEPT ![s] = 0][r] = owned[r]
          /\ [held EXCEPT ![s] = 0][s] = 0
      BY <3>2, <3>3, <3>4
    <3>6. s + n <= MaxSlabs /\ \A r \in Slabs : r # s /\ owned[r] > 0 => s + n <= r \/ r + owned[r] <= s
      <4>1. CASE n > 0
        BY <1>2, <3>1, <3>3, <3>4, <4>1 DEF OwnersApart
      <4>2. CASE n = 0
        <5>1. OwnersApart /\ owned[s] > 0
          BY <1>3, <3>2, <4>2, OwnersStayApart
        <5>2. ASSUME NEW r \in Slabs, r # s, owned[r] > 0 PROVE s + n <= r \/ r + owned[r] <= s
          <6>1. s + owned[s] <= r \/ r + owned[r] <= s
            BY <3>3, <5>1, <5>2 DEF OwnersApart
          <6>2. r \in Nat
            BY SlabFacts
          <6> QED BY <3>3, <4>2, <6>1, <6>2
        <5> QED BY <3>3, <4>2, <5>2
      <4> QED BY <3>3, <4>1, <4>2
    <3> HIDE DEF held
    <3>7. CASE owned[s] = 0
      <4>1. Pool!Apart(held, s, n)
        BY <3>3, <3>5, <3>6, <3>7 DEF Pool!Apart, Pool!PoolSlabs
      <4>2. n \in 1..MaxSlabs
        BY <3>2, <3>3, <3>7
      <4>3. Pool!Alloc(s, n)
        BY <3>5, <3>7, <4>1 DEF Pool!Alloc, held
      <4> QED BY <4>2, <4>3 DEF Pool!Next, Pool!PoolSlabs
    <3>8. CASE owned[s] > 0
      <4>1. Pool!Apart([held EXCEPT ![s] = 0], s, n)
        BY <3>3, <3>5, <3>6 DEF Pool!Apart, Pool!PoolSlabs
      <4>2. Pool!Resize(s, n)
        BY <3>5, <3>8, <4>1 DEF Pool!Resize, held
      <4> QED BY <4>2 DEF Pool!Next, Pool!PoolSlabs
    <3> QED BY <3>3, <3>7, <3>8
  <2>3. CASE Next /\ owned' = owned
    BY <2>3
  <2> QED BY <1>3, <2>1, <2>2, <2>3
<1>4. Spec => Pool!Init /\ [][Pool!Next]_held
  <2> HIDE DEF held
  <2> QED BY <1>1, <1>3, SlabHeapInvariant, PTL DEF Spec
<1> QED BY <1>4, PTL DEF KeepsPool, Pool!Spec

-----------------------------------------------------------------------------
(* RegionPool's promise, whoever keeps it.                                  *)
VARIABLE lent
AnyPool == INSTANCE RegionPool WITH owned <- lent

LentOK == lent \in [AnyPool!PoolSlabs -> Nat]
AnyPoolInv == LentOK /\ AnyPool!RegionsApart

(* A region that is apart from the others may take the place of whatever    *)
(* began at s: the others stay apart, from it and from each other.          *)
LEMMA ReplacingKeepsApart ==
  ASSUME AnyPoolInv, NEW s \in AnyPool!PoolSlabs, NEW n \in Nat,
         n > 0 => AnyPool!Apart([lent EXCEPT ![s] = 0], s, n),
         lent' = [lent EXCEPT ![s] = n]
  PROVE  AnyPoolInv'
<1>1. LentOK'
  BY DEF AnyPoolInv, LentOK
<1>2. ASSUME NEW q \in AnyPool!PoolSlabs, lent'[q] > 0
      PROVE  AnyPool!Apart([lent' EXCEPT ![q] = 0], q, lent'[q])
  <2> SUFFICES /\ q + lent'[q] <= MaxSlabs
               /\ \A r \in AnyPool!PoolSlabs : r # q /\ lent'[r] > 0 =>
                     q + lent'[q] <= r \/ r + lent'[r] <= q
    BY <1>1 DEF AnyPool!Apart, LentOK
  <2>1. CASE q = s
    BY <2>1, <1>2 DEF AnyPoolInv, LentOK, AnyPool!Apart
  <2>2. CASE q # s
    <3>1. lent'[q] = lent[q] /\ lent[q] > 0
      BY <2>2, <1>2 DEF AnyPoolInv, LentOK
    <3>2. AnyPool!Apart([lent EXCEPT ![q] = 0], q, lent[q])
      BY <3>1 DEF AnyPoolInv, AnyPool!RegionsApart
    <3>3. ASSUME NEW r \in AnyPool!PoolSlabs, r # q, lent'[r] > 0
          PROVE  q + lent'[q] <= r \/ r + lent'[r] <= q
      <4>1. CASE r = s
        <5>1. lent'[r] = n /\ n > 0
          BY <4>1, <3>3 DEF AnyPoolInv, LentOK
        <5>2. [lent EXCEPT ![s] = 0][q] = lent[q]
          BY <2>2 DEF AnyPoolInv, LentOK
        <5> QED
          BY <5>1, <5>2, <4>1, <3>1 DEF AnyPool!Apart
      <4>2. CASE r # s
        BY <4>2, <3>3, <3>2, <3>1 DEF AnyPoolInv, LentOK, AnyPool!Apart
      <4> QED
        BY <4>1, <4>2
    <3> QED
      BY <3>1, <3>2, <3>3 DEF AnyPool!Apart
  <2> QED
    BY <2>1, <2>2
<1> QED
  BY <1>1, <1>2 DEF AnyPoolInv, AnyPool!RegionsApart

(* No slab is ever in two regions, and none outside the heap is in one: the *)
(* promise of mm.c's slab layer to the blocks above it, however large the   *)
(* heap.                                                                    *)
THEOREM RegionsStayApart == AnyPool!Spec => []AnyPool!RegionsApart
<1>1. AnyPool!Init => AnyPoolInv
  BY SlabFacts DEF AnyPool!Init, AnyPoolInv, LentOK, AnyPool!RegionsApart, AnyPool!PoolSlabs
<1>2. AnyPoolInv /\ [AnyPool!Next]_lent => AnyPoolInv'
  <2> SUFFICES ASSUME AnyPoolInv, [AnyPool!Next]_lent
               PROVE  AnyPoolInv'
    OBVIOUS
  <2>1. ASSUME NEW s \in AnyPool!PoolSlabs, NEW n \in 1..MaxSlabs, AnyPool!Alloc(s, n)
        PROVE  AnyPoolInv'
    <3>1. [lent EXCEPT ![s] = 0] = lent
      BY <2>1 DEF AnyPool!Alloc, AnyPoolInv, LentOK
    <3>2. n \in Nat
      BY SlabFacts
    <3>3. /\ n > 0 => AnyPool!Apart([lent EXCEPT ![s] = 0], s, n)
          /\ lent' = [lent EXCEPT ![s] = n]
      BY <2>1, <3>1 DEF AnyPool!Alloc
    <3> QED
      BY <3>2, <3>3, ReplacingKeepsApart
  <2>2. ASSUME NEW s \in AnyPool!PoolSlabs, NEW n \in 0..MaxSlabs, AnyPool!Resize(s, n)
        PROVE  AnyPoolInv'
    <3>1. n \in Nat
      BY SlabFacts
    <3>2. /\ n > 0 => AnyPool!Apart([lent EXCEPT ![s] = 0], s, n)
          /\ lent' = [lent EXCEPT ![s] = n]
      BY <2>2 DEF AnyPool!Resize
    <3> QED
      BY <3>1, <3>2, ReplacingKeepsApart
  <2>3. CASE UNCHANGED lent
    BY <2>3 DEF AnyPoolInv, LentOK, AnyPool!RegionsApart, AnyPool!Apart
  <2> QED
    BY <2>1, <2>2, <2>3 DEF AnyPool!Next
<1>3. AnyPoolInv => AnyPool!RegionsApart
  BY DEF AnyPoolInv
<1> QED
  BY <1>1, <1>2, <1>3, PTL DEF AnyPool!Spec
=============================================================================
