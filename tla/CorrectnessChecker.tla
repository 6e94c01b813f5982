------------------------- MODULE CorrectnessChecker -------------------------
(***************************************************************************)
(* CorrectnessChecker under the replay's threads: MallocRunner's calls of  *)
(* the allocator under test, the map of the blocks it has handed out, and  *)
(* the magic bytes each block is filled with while it is allocated.        *)
(* Memory is a row of 8-byte words; sizes and alignments count words, so a *)
(* block of 8 bytes or less has size 1.  The allocator keeps its contract  *)
(* (writeup.tex:114-121) except for the faults of the scenario.            *)
(***************************************************************************)
EXTENDS Integers, FiniteSets, FiniteSetsExt

CONSTANTS
  Threads,
  Sizes,         (* Requested sizes.                                        *)
  Alignments,    (* Requested alignments; 0 stands for "none given".        *)
  Words,         (* The memory there is.                                    *)
  Scenarios,     (* Which threads there are, what is wrong with the allocator. *)
  Null

AllFaults == {"overlap", "out of range", "misaligned", "null", "not cleared", "content lost",
              "dirties blocks", "not null"}

ASSUME CheckerAssumption ==
  /\ Sizes \subseteq Nat /\ Alignments \subseteq Nat /\ Words \in Nat
  /\ Scenarios \subseteq [threads : SUBSET Threads, faults : SUBSET AllFaults]
  /\ Null \notin Nat
  /\ IsFiniteSet(Threads)

VARIABLES
  scenario,
  (* the allocator and its memory *)
  heap_end,     (* Heap::End()                                              *)
  blocks,       (* the blocks it has handed out and not taken back          *)
  memory,       (* each word's content                                      *)
  committed,    (* history: the faults it has committed                     *)
  (* the callers *)
  held,         (* pointers no call is using                                *)
  (* the checker *)
  allocated_blocks,
  (* one thread's locals *)
  pc,
  call,         (* the operation and what it was given                      *)
  block         (* the block it is at: pointer, size and magic bytes        *)

vars == <<scenario, heap_end, blocks, memory, committed, held, allocated_blocks, pc, call, block>>

Cells == 0..(Words - 1)
Zero == 0          (* a cleared word *)
Junk == -1         (* a word with whatever is in it *)

NoCall == [op |-> "none", size |-> 0, alignment |-> 0]
NoBlock == [ptr |-> Null, size |-> 0, magic_bytes |-> Junk]

Init ==
  /\ scenario \in Scenarios
  /\ heap_end = 0
  /\ blocks = {}
  /\ memory = [c \in Cells |-> Zero]
  /\ committed = {}
  /\ held = {}
  /\ allocated_blocks = {}
  /\ pc = [t \in Threads |-> "idle"]
  /\ call = [t \in Threads |-> NoCall]
  /\ block = [t \in Threads |-> NoBlock]

Goto(t, label) == pc' = [pc EXCEPT ![t] = label]

Return(t) ==
  /\ Goto(t, "idle")
  /\ call' = [call EXCEPT ![t] = NoCall]
  /\ block' = [block EXCEPT ![t] = NoBlock]

CellsOf(ptr, size) == {c \in Cells : ptr <= c /\ c < ptr + size}
Overlap(p, size, b) == p < b.ptr + b.size /\ b.ptr < p + size
MinAlignment(size) == IF size <= 1 THEN 1 ELSE 2
Larger(a, b) == IF a > b THEN a ELSE b
Smaller(a, b) == IF a < b THEN a ELSE b

-----------------------------------------------------------------------------
(* The allocator under test.                                                *)

(* What is wrong with the answer `ptr` to a request.                        *)
FaultsOf(ptr, size, alignment, others, end) ==
  IF ptr = Null THEN {"null"}
  ELSE {f \in {"overlap"} : \E b \in others : Overlap(ptr, size, b)}
       \cup {f \in {"out of range"} : ptr + size > end}
       \cup {f \in {"misaligned"} : ptr % Larger(alignment, MinAlignment(size)) # 0}

(* It may also write to another allocated block while it runs.              *)
Scribbles(mem, others) ==
  {[kind |-> {}, mem |-> mem]}
    \cup (IF "dirties blocks" \notin scenario.faults THEN {}
          ELSE {[kind |-> {"dirties blocks"}, mem |-> [mem EXCEPT ![c] = Junk]] :
                  c \in UNION {CellsOf(b.ptr, b.size) : b \in others}})

(* It hands out the block `ptr` filled with `content`; the heap grows if    *)
(* need be.                                                                 *)
Answer(t, ptr, size, alignment, others, content, wrong) ==
  \E end \in {heap_end, IF ptr # Null /\ ptr + size > heap_end THEN ptr + size ELSE heap_end} :
    LET faults == FaultsOf(ptr, size, alignment, others, end)
        filled == [c \in Cells |-> IF ptr # Null /\ c \in CellsOf(ptr, size)
                                     THEN content[c - ptr] ELSE memory[c]]
    IN /\ faults \subseteq scenario.faults
       /\ heap_end' = end
       /\ blocks' = IF ptr = Null THEN others ELSE others \cup {[ptr |-> ptr, size |-> size]}
       /\ \E s \in Scribbles(filled, others) :
            memory' = s.mem /\ committed' = committed \cup wrong \cup s.kind \cup faults

Answers(size) == {p \in Cells : p + size <= Words} \cup (IF "null" \in scenario.faults THEN {Null} ELSE {})

-----------------------------------------------------------------------------
(* --- Variants with a plausible mistake; each breaks the property named. - *)
(* NoFalseAlarm: the block grown by realloc is checked up to its new size.  *)
CheckedAfterRealloc(orig_size, size) == size

(* BlocksHoldTheirMagic: a block that grew is not filled again.             *)
GrowthNotFilled(orig_size, size) == FALSE

(* CleanRunMeansConforming: a released block's bytes are not looked at.     *)
BytesNotChecked(ptr, size, magic_bytes) == TRUE
(* ------------------------------------------------------------------------ *)

HasMagicBytes(ptr, size, magic_bytes) ==
  \A c \in CellsOf(ptr, size) : memory[c] = magic_bytes

FillMagicBytes(ptr, size, magic_bytes) ==
  memory' = [c \in Cells |-> IF c \in CellsOf(ptr, size) THEN magic_bytes ELSE memory[c]]

(* ThreadLocalPRNG's 64 bits: a value no block or word has.                 *)
FreshMagic ==
  Min({m \in 1..(2 * Words + Cardinality(Threads)) :
        /\ \A c \in Cells : memory[c] # m
        /\ \A b \in allocated_blocks : b.magic_bytes # m
        /\ \A t \in Threads : block[t].magic_bytes # m})

BlocksAt(ptr) == {b \in allocated_blocks : b.ptr = ptr}

(* A request for nothing: PostAlloc has nothing to do, and an answer other  *)
(* than NULL fails the replay.                                              *)
AskForNothing(t) ==
  \/ UNCHANGED vars
  \/ /\ "not null" \in scenario.faults
     /\ committed' = committed \cup {"not null"}
     /\ Goto(t, "failed")
     /\ UNCHANGED <<heap_end, blocks, memory, held, allocated_blocks, call, block>>

(* Malloc and Calloc, up to ValidateNewBlock.  A realloc of NULL is a       *)
(* malloc.                                                                  *)
Malloc(t, op, size, alignment) ==
  /\ pc[t] = "idle"
  /\ IF size = 0
       THEN AskForNothing(t)
       ELSE /\ \E p \in Answers(size), clears \in BOOLEAN :
                 /\ clears \/ (op = "calloc" => "not cleared" \in scenario.faults)
                 /\ op = "malloc" => ~clears
                 /\ Answer(t, p, size, alignment, blocks,
                           [i \in 0..(size - 1) |-> IF clears THEN Zero
                                                    ELSE IF op = "calloc" THEN Junk
                                                    ELSE memory[p + i]],
                           {f \in {"not cleared"} : op = "calloc" /\ ~clears /\ p # Null})
                 /\ block' = [block EXCEPT ![t] = [NoBlock EXCEPT !.ptr = p, !.size = size]]
            /\ call' = [call EXCEPT ![t] = [op |-> op, size |-> size, alignment |-> alignment]]
            /\ Goto(t, "validate")
            /\ UNCHANGED <<held, allocated_blocks>>

(* ValidateNewBlock: not NULL, within a heap, and aligned if an alignment   *)
(* was given.  realloc gives the alignment 0, which asks for the minimum.   *)
Valid(t) ==
  LET p    == block[t].ptr
      size == call[t].size
  IN /\ p # Null
     /\ p + size <= heap_end
     /\ call[t].alignment # 0 \/ call[t].op = "realloc" =>
          p % Larger(call[t].alignment, MinAlignment(size)) = 0

ValidateNewBlock(t) ==
  /\ pc[t] = "validate"
  /\ Goto(t, IF Valid(t) THEN "insert" ELSE "failed")
  /\ UNCHANGED <<heap_end, blocks, memory, committed, held, allocated_blocks, call, block>>

(* A new block's magic bytes; a realloc keeps them.                         *)
MagicBytes(t) == IF call[t].op = "realloc" THEN block[t].magic_bytes ELSE FreshMagic

(* PostAlloc's and PostRealloc's insert.                                    *)
Insert(t) ==
  /\ pc[t] = "insert"
  /\ LET b == [ptr |-> block[t].ptr, size |-> call[t].size, magic_bytes |-> MagicBytes(t)]
     IN IF BlocksAt(b.ptr) # {}
          THEN Goto(t, "failed") /\ UNCHANGED <<allocated_blocks, block>>
          ELSE /\ allocated_blocks' = allocated_blocks \cup {b}
               /\ block' = [block EXCEPT ![t].magic_bytes = b.magic_bytes]
               /\ Goto(t, IF call[t].op = "realloc" THEN "compare" ELSE "fill")
  /\ UNCHANGED <<heap_end, blocks, memory, committed, held, call>>

(* The end of PostAlloc: a calloc-ed block must be cleared; the block is    *)
(* filled with its magic bytes.                                             *)
FillNewBlock(t) ==
  /\ pc[t] = "fill"
  /\ LET p == block[t].ptr
         size == call[t].size
     IN IF call[t].op = "calloc" /\ ~HasMagicBytes(p, size, Zero)
          THEN Goto(t, "failed") /\ UNCHANGED <<memory, held, call, block>>
          ELSE /\ FillMagicBytes(p, size, block[t].magic_bytes)
               /\ held' = held \cup {p}
               /\ Return(t)
  /\ UNCHANGED <<heap_end, blocks, committed, allocated_blocks>>

(* PreRelease and PreRealloc: the block is found, its bytes are checked,    *)
Release(t, op, p, size) ==
  /\ pc[t] = "idle"
  /\ p \in held
  /\ held' = held \ {p}
  /\ call' = [call EXCEPT ![t] = [op |-> op, size |-> size, alignment |-> 0]]
  /\ IF BlocksAt(p) = {}
       THEN Goto(t, "failed") /\ UNCHANGED block
       ELSE \E b \in BlocksAt(p) :
              IF ~HasMagicBytes(p, b.size, b.magic_bytes)
                THEN Goto(t, "failed") /\ UNCHANGED block
                ELSE block' = [block EXCEPT ![t] = b] /\ Goto(t, "erase")
  /\ UNCHANGED <<heap_end, blocks, memory, committed, allocated_blocks>>

(* and it is erased from the map, before the allocator is called.           *)
Erase(t) ==
  /\ pc[t] = "erase"
  /\ IF BlocksAt(block[t].ptr) = {}
       THEN Goto(t, "failed") /\ UNCHANGED allocated_blocks
       ELSE /\ allocated_blocks' = allocated_blocks \ BlocksAt(block[t].ptr)
            /\ Goto(t, call[t].op)
  /\ UNCHANGED <<heap_end, blocks, memory, committed, held, call, block>>

(* bench::free.  What is in memory it has got back is the allocator's       *)
(* business.                                                                *)
CallFree(t) ==
  /\ pc[t] = "free"
  /\ LET own    == [ptr |-> block[t].ptr, size |-> block[t].size]
         others == blocks \ {own}
         taken  == [c \in Cells |->
                     IF c \in CellsOf(own.ptr, own.size)
                          /\ \A b \in others : c \notin CellsOf(b.ptr, b.size)
                       THEN Junk ELSE memory[c]]
     IN /\ blocks' = others
        /\ \E s \in Scribbles(taken, others) :
             memory' = s.mem /\ committed' = committed \cup s.kind
  /\ Return(t)
  /\ UNCHANGED <<heap_end, held, allocated_blocks>>

(* bench::realloc: the same block or another one, with the content of the   *)
(* old one as far as it fits.                                               *)
CallRealloc(t) ==
  /\ pc[t] = "realloc"
  /\ LET own    == [ptr |-> block[t].ptr, size |-> block[t].size]
         others == blocks \ {own}
         size   == call[t].size
     IN \E p \in Answers(size), keeps \in BOOLEAN :
          /\ keeps \/ "content lost" \in scenario.faults
          /\ Answer(t, p, size, 0, others,
                    [i \in 0..(size - 1) |->
                       IF keeps /\ i < own.size THEN memory[own.ptr + i] ELSE Junk],
                    {f \in {"content lost"} : ~keeps /\ p # Null})
          /\ block' = [block EXCEPT ![t].ptr = p]
  /\ Goto(t, "validate")
  /\ UNCHANGED <<held, allocated_blocks, call>>

(* The end of PostRealloc: the content must have moved along, and a block   *)
(* that has grown is filled again.                                          *)
ComparedSize(orig_size, size) == Smaller(orig_size, size)
Refills(orig_size, size) == size > orig_size

CompareMoved(t) ==
  /\ pc[t] = "compare"
  /\ LET p    == block[t].ptr
         size == call[t].size
         orig == block[t].size
     IN IF ~HasMagicBytes(p, ComparedSize(orig, size), block[t].magic_bytes)
          THEN Goto(t, "failed") /\ UNCHANGED <<memory, held, call, block>>
          ELSE /\ IF Refills(orig, size)
                    THEN FillMagicBytes(p, size, block[t].magic_bytes)
                    ELSE UNCHANGED memory
               /\ held' = held \cup {p}
               /\ Return(t)
  /\ UNCHANGED <<heap_end, blocks, committed, allocated_blocks>>

Continue(t) ==
  \/ ValidateNewBlock(t) \/ Insert(t) \/ FillNewBlock(t)
  \/ Erase(t) \/ CallFree(t) \/ CallRealloc(t) \/ CompareMoved(t)

(* A realloc to size 0 is left out: the allocator's contract does not say   *)
(* what it returns.  The replay goes on while no thread has failed.         *)
Start(t) ==
  \/ \E size \in Sizes, op \in {"malloc", "calloc"}, alignment \in Alignments :
       (op = "calloc" => alignment = 0) /\ Malloc(t, op, size, alignment)
  \/ \E p \in held : Release(t, "free", p, 0)
  \/ \E p \in held, size \in Sizes \ {0} : Release(t, "realloc", p, size)

Next ==
  /\ \A t \in Threads : pc[t] # "failed"
  /\ \E t \in scenario.threads : Start(t) \/ Continue(t)
  /\ UNCHANGED scenario

Spec == Init /\ [][Next]_vars

-----------------------------------------------------------------------------
Labels == {"idle", "validate", "insert", "fill", "erase", "free", "realloc", "compare", "failed"}
Magic == 1..(2 * Words + Cardinality(Threads))
CheckedBlocks == [ptr : Cells, size : Nat, magic_bytes : Magic]

(* The types of the state.                                                  *)
TypeOK ==
  /\ heap_end \in 0..Words
  /\ blocks \subseteq [ptr : Cells, size : Nat \ {0}]
  /\ memory \in [Cells -> {Zero, Junk} \cup Magic]
  /\ scenario \in Scenarios
  /\ committed \subseteq scenario.faults
  /\ held \subseteq Cells
  /\ allocated_blocks \subseteq CheckedBlocks
  /\ pc \in [Threads -> Labels]
  /\ call \in [Threads -> [op : {"none", "malloc", "calloc", "free", "realloc"}, size : Nat,
                           alignment : Nat]]
  /\ block \in [Threads -> [ptr : Cells \cup {Null}, size : Nat, magic_bytes : {Junk} \cup Magic]]

Failed == \E t \in Threads : pc[t] = "failed"

(* An allocator that keeps its contract passes, whatever its threads do at  *)
(* the same time.                                                           *)
NoFalseAlarm == committed = {} => ~Failed

(* The map and the blocks are in step: the map names only blocks the         *)
(* allocator has handed out and not got back, as entries are made after the *)
(* block is there and go before it is freed; and a block no call is using   *)
(* is full of its own magic bytes, which no other block has, so that any    *)
(* two blocks can be told apart at every word.                              *)
BlocksHoldTheirMagic ==
  /\ TypeOK
  /\ committed = {} =>
       /\ \A b \in allocated_blocks : \E a \in blocks : a.ptr = b.ptr /\ b.size = a.size
       /\ \A b \in allocated_blocks : b.ptr \in held => HasMagicBytes(b.ptr, b.size, b.magic_bytes)
       /\ \A a, b \in allocated_blocks : a.magic_bytes = b.magic_bytes => a = b

(***************************************************************************)
(* What a pass is worth: when a single-threaded replay has come to its end *)
(* -- everything freed -- without a failure, the allocator never handed    *)
(* out overlapping blocks or blocks outside the heap, never lost content,  *)
(* never left a calloc-ed block uncleared and never wrote to a block,      *)
(* although the checker does not look for overlaps when they arise.        *)
(* (Misaligned blocks may pass: alignment is checked only if given.)       *)
(***************************************************************************)
CleanRunMeansConforming ==
  Cardinality(scenario.threads) = 1 /\ (\A t \in Threads : pc[t] = "idle") /\ held = {}
    => committed \subseteq {"misaligned"}
=============================================================================
