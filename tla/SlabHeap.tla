------------------------------ MODULE SlabHeap ------------------------------
(***************************************************************************)
(* The slab layer of slab_malloc/mm.c: the heap is a row of slabs (pages)  *)
(* cut into regions.  A region is owned by the blocks in it, or free and   *)
(* in a bin.  What is known of a region is written in the slabs themselves *)
(* -- flags in the first one, a footer in a free region's last word -- so  *)
(* the owner's data overwrite what is not the header of an owned region.   *)
(* The layers above call one action at a time, with regions they own.      *)
(***************************************************************************)
EXTENDS Integers, Sequences, FiniteSets

CONSTANTS
  MaxSlabs,    (* Bound: mem_sbrk has memory for so many slabs.             *)
  MaxRequest,  (* Bound: the slabs an allocation asks for.                  *)
  MaxGrowth,   (* Bound: the slabs a realloc adds in place.                 *)
  NumBins,     (* NUM_SLAB_BINS: one for each size, the last for the rest.  *)
  MinFreed,    (* The fewest slabs a realloc in place gives back.           *)
  OwnersData   (* What owners write where a slab's flags would be.          *)

ASSUME SlabHeapAssumption ==
  /\ MaxSlabs \in Nat \ {0}
  /\ MaxRequest \in 1..MaxSlabs /\ MaxGrowth \in 1..MaxSlabs
  /\ NumBins \in Nat \ {0, 1}
  /\ MinFreed \in Nat
  /\ OwnersData \in [0..MaxSlabs -> SUBSET {"alloc", "prev"}]

VARIABLES
  heap_end,     (* h->heap_end                                              *)
  last_alloc,   (* LAST_SLAB_ALLOC                                          *)
  flags,        (* s->flags: "alloc" and "prev" (SLAB_PREV_ALLOC_BIT)       *)
  num_slabs,    (* s->num_slabs, in a free region's first slab              *)
  footer,       (* the last word of each slab                               *)
  bins,         (* h->slab_bins, head first                                 *)
  skiplist,     (* h->slab_skiplist: the bins that are marked               *)
  owned,        (* owned regions' sizes: 1 if packed, else s->offset        *)
  aborted       (* why a MALLOC_ASSERT has failed                           *)

tags == <<flags, num_slabs, footer>>
lists == <<bins, skiplist>>
vars == <<heap_end, last_alloc, tags, lists, owned, aborted>>

Slabs == 0..MaxSlabs            (* the last one is beyond the heap *)
Bins == 1..NumBins
MaxSeg == NumBins - 1           (* MAX_SEG_SLAB_SZ *)
Flags == {"alloc", "prev"}
Junk == 0                       (* a word of the owner's data *)

Init ==
  /\ heap_end = 0
  /\ last_alloc = TRUE
  /\ flags = [s \in Slabs |-> {}]
  /\ num_slabs = [s \in Slabs |-> Junk]
  /\ footer = [s \in Slabs |-> Junk]
  /\ bins = [b \in Bins |-> <<>>]
  /\ skiplist = {}
  /\ owned = [s \in Slabs |-> 0]
  /\ aborted = "no"

IsFree(s) == "alloc" \notin flags[s]

-----------------------------------------------------------------------------
(* The bins.                                                                *)

(* slab_bin_idx: n - 1 is unsigned.                                         *)
BinOf(n) == IF n \in 1..NumBins THEN n ELSE NumBins

(* slab_unlink: s leaves the list it is in.                                 *)
Without(list, s) ==
  LET at == CHOOSE i \in DOMAIN list : list[i] = s
  IN IF \A i \in DOMAIN list : list[i] # s THEN list
     ELSE SubSeq(list, 1, at - 1) \o SubSeq(list, at + 1, Len(list))

Unlink(lists_, s) == [b \in Bins |-> Without(lists_[b], s)]

(* A variant: the last bin is a queue like the others.                       *)
LinkLargeAtTail(list, s, n) == Append(list, s)

(* __slab_link_large: from the tail back to the first region that is not    *)
(* larger.                                                                  *)
LinkAfter(list, n) ==
  CHOOSE k \in 0..Len(list) :
    /\ k > 0 => num_slabs[list[k]] <= n
    /\ \A i \in (k + 1)..Len(list) : num_slabs[list[i]] > n

LinkLarge(list, s, n) ==
  LET after == LinkAfter(list, n)
  IN SubSeq(list, 1, after) \o <<s>> \o SubSeq(list, after + 1, Len(list))

Link(lists_, s, n) ==
  IF n <= MaxSeg THEN [lists_ EXCEPT ![BinOf(n)] = Append(@, s)]
  ELSE [lists_ EXCEPT ![NumBins] = LinkLarge(@, s, n)]

(* The bin is marked, unless it is the last.                                *)
Mark(marks, n) == IF n <= MaxSeg THEN marks \cup {BinOf(n)} ELSE marks

(* The search of __int_alloc_slab: the marked bins from the one for n on,   *)
(* then the head of the last bin, where every region is large enough.       *)
SearchedBins(n) == {b \in skiplist : n <= b}
FirstNonEmpty(n) ==
  LET found == {b \in SearchedBins(n) : bins[b] # <<>>}
  IN IF found = {} THEN NumBins + 1 ELSE CHOOSE b \in found : \A c \in found : b <= c

(* The marks of empty bins are dropped on the way.                          *)
Unmarked(n) ==
  IF n > MaxSeg THEN skiplist
  ELSE skiplist \ {b \in SearchedBins(n) : b < FirstNonEmpty(n)}

(* Mutants: an exact fit is missed; the sizes are not checked at all.       *)
LargeFitsStrictly(n) == {i \in DOMAIN bins[NumBins] : num_slabs[bins[NumBins][i]] > n}
LargeFitsAlways(n) == DOMAIN bins[NumBins]

(* The regions of the last bin that are large enough.                       *)
LargeFits(n) == {i \in DOMAIN bins[NumBins] : num_slabs[bins[NumBins][i]] >= n}

(* A free region and its size as the search takes it, or none.              *)
Found(n) ==
  LET b == FirstNonEmpty(n)
      large == bins[NumBins]
  IN IF n <= MaxSeg /\ b <= NumBins THEN {[s |-> Head(bins[b]), size |-> b]}
     ELSE IF n <= MaxSeg /\ large # <<>>
       THEN {[s |-> Head(large), size |-> num_slabs[Head(large)]]}
     ELSE IF n > MaxSeg /\ LargeFits(n) # {}
       THEN LET i == CHOOSE j \in LargeFits(n) : \A k \in LargeFits(n) : j <= k
            IN {[s |-> large[i], size |-> num_slabs[large[i]]]}
     ELSE {}

-----------------------------------------------------------------------------
(* The owner of the n slabs from s writes to all of them but the header.    *)
OwnerWrites(fl, num, foot, s, n) ==
  /\ flags' = [r \in Slabs |-> IF s < r /\ r < s + n THEN OwnersData[r] ELSE fl[r]]
  /\ num_slabs' = [r \in Slabs |-> IF s <= r /\ r < s + n THEN Junk ELSE num[r]]
  /\ footer' = [r \in Slabs |-> IF s <= r /\ r < s + n THEN Junk ELSE foot[r]]

(* The first n slabs of the free region s of `size` slabs are taken out of  *)
(* its bin; the rest of it is a free region of its own.                     *)
Take(s, size, n, fl, marks, owner, owner_size) ==
  IF size = n
    THEN /\ last_alloc' = (last_alloc \/ s + n = heap_end)
         /\ bins' = Unlink(bins, s)
         /\ skiplist' = marks
         /\ OwnerWrites(IF s + n = heap_end THEN fl ELSE [fl EXCEPT ![s + n] = @ \cup {"prev"}],
                        num_slabs, footer, owner, owner_size)
    ELSE /\ bins' = Link(Unlink(bins, s), s + n, size - n)
         /\ skiplist' = Mark(marks, size - n)
         /\ OwnerWrites([fl EXCEPT ![s + n] = {"prev"}],
                        [num_slabs EXCEPT ![s + n] = size - n],
                        [footer EXCEPT ![s + size - 1] = size - n], owner, owner_size)
         /\ UNCHANGED last_alloc

Abort(why) ==
  /\ aborted' = why
  /\ UNCHANGED <<heap_end, last_alloc, tags, lists, owned>>

(* __int_alloc_slab, a free region found;                                   *)
AllocFound(n) ==
  \E f \in Found(n) :
    /\ Take(f.s, f.size, n, [flags EXCEPT ![f.s] = @ \cup {"alloc"}], Unmarked(n), f.s, n)
    /\ owned' = [owned EXCEPT ![f.s] = n]
    /\ UNCHANGED <<heap_end, aborted>>

(* none found, and the last region is free: it is extended;                 *)
AllocExtending(n) ==
  /\ Found(n) = {} /\ ~last_alloc
  /\ LET last == heap_end - footer[heap_end - 1]
         rem  == n - num_slabs[last]
     IN IF num_slabs[last] >= n THEN Abort("assertion")
        ELSE IF heap_end + rem > MaxSlabs THEN Abort("out of memory")
        ELSE /\ heap_end' = heap_end + rem
             /\ last_alloc' = TRUE
             /\ bins' = Unlink(bins, last)
             /\ skiplist' = Unmarked(n)
             /\ OwnerWrites([flags EXCEPT ![last] = @ \cup {"alloc"}], num_slabs, footer, last, n)
             /\ owned' = [owned EXCEPT ![last] = n]
             /\ UNCHANGED aborted

(* none found, and the last region is owned.                                *)
AllocFresh(n) ==
  /\ Found(n) = {} /\ last_alloc
  /\ IF heap_end + n > MaxSlabs THEN Abort("out of memory")
     ELSE /\ heap_end' = heap_end + n
          /\ skiplist' = Unmarked(n)
          /\ OwnerWrites([flags EXCEPT ![heap_end] = Flags], num_slabs, footer, heap_end, n)
          /\ owned' = [owned EXCEPT ![heap_end] = n]
          /\ UNCHANGED <<last_alloc, bins, aborted>>

AllocSlab(n) == AllocFound(n) \/ AllocExtending(n) \/ AllocFresh(n)

-----------------------------------------------------------------------------
(* The region after what is given back: whether it is merged, how many slabs *)
(* that adds, and else how it is told that the one before it is free.       *)
Merges(next) == next # heap_end /\ IsFree(next)

MergedSizeForgotten(next) == 0
MergedSize(next) == IF Merges(next) THEN num_slabs[next] ELSE 0

NextNotTold(next) == flags
NextTold(next) ==
  IF next = heap_end \/ Merges(next) THEN flags
  ELSE [flags EXCEPT ![next] = @ \ {"prev"}]

(* The n slabs from s, part of a larger free region from `first` on, are    *)
(* given back.  `unlinked` are the bins without what has been merged        *)
(* already, `before` its size, `header` the flags `first` gets.             *)
GiveBack(s, n, first, before, header, unlinked) ==
  LET next  == s + n
      total == before + n + MergedSize(next)
  IN /\ last_alloc' = (last_alloc /\ next # heap_end)
     /\ bins' = Link(IF Merges(next) THEN Unlink(unlinked, next) ELSE unlinked, first, total)
     /\ skiplist' = Mark(skiplist, total)
     /\ flags' = [NextTold(next) EXCEPT ![first] = header]
     /\ num_slabs' = [num_slabs EXCEPT ![first] = total]
     /\ footer' = [footer EXCEPT ![first + total - 1] = total]

(* __int_free_slab of a slab with no blocks left: merged with the region    *)
(* before it, too.                                                          *)
FreeSlab(s) ==
  /\ owned[s] = 1
  /\ IF "prev" \in flags[s]
       THEN GiveBack(s, 1, s, 0, flags[s] \ {"alloc"}, bins)
       ELSE LET prev == s - footer[s - 1]
            IN GiveBack(s, 1, prev, num_slabs[prev], flags[prev], Unlink(bins, prev))
  /\ owned' = [owned EXCEPT ![s] = 0]
  /\ UNCHANGED <<heap_end, aborted>>

(* __int_free_remainder_slab, and what its callers do next: the free of a   *)
(* large block, which keeps the first slab for its medium blocks, and the   *)
(* realloc that shrinks one in place.                                       *)
FreeRemainder(s, keep) ==
  /\ owned[s] > 0 /\ keep > 0
  /\ LET rest == s + keep
     IN GiveBack(rest, owned[s] - keep, rest, 0, (flags[rest] \ {"alloc"}) \cup {"prev"}, bins)
  /\ owned' = [owned EXCEPT ![s] = keep]
  /\ UNCHANGED <<heap_end, aborted>>

FreeLarge(s) == owned[s] > 1 /\ FreeRemainder(s, 1)
ShrinkLarge(s, keep) == owned[s] > 1 /\ owned[s] - keep >= MinFreed /\ FreeRemainder(s, keep)

(* __int_realloc of a large block that grows by n slabs: into new memory    *)
(* (an error of mem_sbrk fails the assertion), or with __int_take_slab into *)
(* the free region after it.                                                *)
GrowAtEnd(s, n) ==
  /\ owned[s] > 1 /\ s + owned[s] = heap_end
  /\ IF heap_end + n > MaxSlabs THEN Abort("out of memory")
     ELSE /\ heap_end' = heap_end + n
          /\ owned' = [owned EXCEPT ![s] = @ + n]
          /\ OwnerWrites(flags, num_slabs, footer, s, owned[s] + n)
          /\ UNCHANGED <<last_alloc, lists, aborted>>

GrowIntoNext(s, n) ==
  LET next == s + owned[s]
  IN /\ owned[s] > 1 /\ next # heap_end
     /\ IsFree(next) /\ num_slabs[next] >= n
     /\ Take(next, num_slabs[next], n, flags, skiplist, s, owned[s] + n)
     /\ owned' = [owned EXCEPT ![s] = @ + n]
     /\ UNCHANGED <<heap_end, aborted>>

Next ==
  /\ aborted = "no"
  /\ \/ \E n \in 1..MaxRequest : AllocSlab(n)
     \/ \E s \in Slabs : FreeSlab(s) \/ FreeLarge(s)
     \/ \E s \in Slabs, keep \in 1..MaxSlabs : ShrinkLarge(s, keep)
     \/ \E s \in Slabs, n \in 1..MaxGrowth :
          GrowAtEnd(s, n) \/ GrowIntoNext(s, n)

Spec == Init /\ [][Next]_vars

-----------------------------------------------------------------------------
(* The types of the state.                                                  *)
TypeOK ==
  /\ heap_end \in 0..MaxSlabs
  /\ last_alloc \in BOOLEAN
  /\ flags \in [Slabs -> SUBSET Flags]
  /\ num_slabs \in [Slabs -> 0..MaxSlabs]
  /\ footer \in [Slabs -> 0..MaxSlabs]
  /\ bins \in [Bins -> Seq(Slabs)]
  /\ skiplist \subseteq Bins
  /\ owned \in [Slabs -> 0..MaxSlabs]
  /\ aborted \in {"no", "out of memory", "assertion"}

Owned == {s \in Slabs : owned[s] > 0}
Binned == UNION {{bins[b][i] : i \in DOMAIN bins[b]} : b \in Bins}
Covers(s, n, i) == s <= i /\ i < s + n

(* No slab is lost and none is in two regions: each one of the heap belongs *)
(* to one owned region or to one region in the bins.                        *)
RegionsTileHeap ==
  /\ TypeOK
  /\ \A i \in Slabs :
       Cardinality({s \in Owned : Covers(s, owned[s], i)}
                     \cup {s \in Binned : Covers(s, num_slabs[s], i)})
         = (IF i < heap_end THEN 1 ELSE 0)

(* The tags at the boundaries tell the truth, which is all that merging and *)
(* growing go by: a free region is followed by an owned one (so that free   *)
(* regions never lie side by side) which knows it, and its footer leads     *)
(* back to its start.                                                       *)
TagsTellTheTruth ==
  /\ \A s \in Owned :
       LET next == s + owned[s]
       IN "alloc" \in flags[s] /\ (next < heap_end => "prev" \in flags[next])
  /\ \A s \in Binned :
       LET next == s + num_slabs[s]
       IN /\ flags[s] = {"prev"}
          /\ footer[next - 1] = num_slabs[s]
          /\ next < heap_end => next \in Owned /\ "prev" \notin flags[next]
  /\ last_alloc <=> ~ \E s \in Binned : s + num_slabs[s] = heap_end

(* A search by size finds what there is: a free region is in the bin of its *)
(* size, once; a bin that is not empty is marked; the last bin is sorted    *)
(* and never marked.                                                        *)
BinsHoldFreeRegions ==
  /\ \A b \in Bins : \A i, j \in DOMAIN bins[b] :
       /\ BinOf(num_slabs[bins[b][i]]) = b
       /\ i # j => bins[b][i] # bins[b][j]
       /\ b = NumBins /\ i < j => num_slabs[bins[b][i]] <= num_slabs[bins[b][j]]
  /\ \A b \in 1..MaxSeg : bins[b] # <<>> => b \in skiplist
  /\ NumBins \notin skiplist

(* The heap grows for an allocation only when no free region would do, and  *)
(* then by no more than what the last one lacks: the assertion there holds. *)
GrowsOnlyWhenNothingFits ==
  [][/\ aborted' # "assertion"
     /\ heap_end' # heap_end =>
          \A s \in Slabs : owned[s] = 0 /\ owned'[s] > 0 =>
            \A r \in Binned : num_slabs[r] < owned'[s]]_vars

(* "make sure the pointer being freed is in an allocated slab" (mm.c:2348)  *)
OwnedSlabsAreAllocated == \A s \in Owned : ~IsFree(s)

(* The layer keeps RegionPool's promise.                                    *)
Pool == INSTANCE RegionPool WITH owned <- [s \in 0..(MaxSlabs - 1) |-> owned[s]]
KeepsPool == Pool!Spec
=============================================================================
