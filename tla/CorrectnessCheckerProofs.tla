---------------------- MODULE CorrectnessCheckerProofs ----------------------
(***************************************************************************)
(* For any threads, sizes, memory and placement of blocks: the checker     *)
(* fails no allocator that keeps its contract, and a lone thread's run     *)
(* that it passes was free of every fault but misaligned blocks.           *)
(***************************************************************************)
EXTENDS CorrectnessChecker, FiniteSetTheorems, WellFoundedInduction, TLAPS

(* Where the allocator has answered, where the map has the block's entry.   *)
New == {"validate", "insert", "fill", "compare"}
Old == {"erase", "free", "realloc"}
Mapped == {"fill", "compare", "erase"}

(* What a thread's call and block are at each place of the hooks, whatever  *)
(* the allocator does.                                                      *)
CallShape ==
  \A t \in Threads :
    /\ pc[t] = "idle" => block[t] = NoBlock
    /\ pc[t] \in {"validate", "insert"} => call[t].op \in {"malloc", "calloc", "realloc"}
    /\ pc[t] = "fill" => call[t].op \in {"malloc", "calloc"}
    /\ pc[t] = "compare" => call[t].op = "realloc"
    /\ pc[t] = "erase" => call[t].op \in {"free", "realloc"}
    /\ pc[t] \in {"free", "realloc"} => call[t].op = pc[t]
    /\ pc[t] \in New \/ call[t].op = "realloc" => call[t].size > 0
    /\ call[t].op = "realloc" => call[t].alignment = 0

BlockShape ==
  \A t \in Threads :
    /\ pc[t] \in New /\ block[t].ptr # Null => block[t].ptr + call[t].size <= Words
    /\ pc[t] \in {"insert", "fill", "compare"} => block[t].ptr # Null
    /\ pc[t] \in Old => /\ block[t] \in CheckedBlocks /\ block[t].size > 0
                        /\ block[t].ptr + block[t].size <= Words
    /\ pc[t] \in {"validate", "insert"} =>
         IF call[t].op = "realloc" THEN block[t].magic_bytes \in Magic
                                   ELSE block[t].magic_bytes = Junk
    /\ pc[t] \in {"fill", "compare"} => block[t].magic_bytes \in Magic

(* The map has one entry for a pointer.                                     *)
MapShape ==
  /\ \A a, b \in allocated_blocks : a.ptr = b.ptr => a = b
  /\ \A b \in allocated_blocks : b.size > 0 /\ b.ptr + b.size <= Words

Shape == TypeOK /\ CallShape /\ BlockShape /\ MapShape

-----------------------------------------------------------------------------
(* What holds as long as the allocator has kept its contract.               *)
OwnSize(t) == IF pc[t] \in New THEN call[t].size ELSE block[t].size
OwnBlock(t) == [ptr |-> block[t].ptr, size |-> OwnSize(t)]
OwnEntry(t) == [ptr |-> block[t].ptr, size |-> OwnSize(t), magic_bytes |-> block[t].magic_bytes]

BlocksApart == \A a, b \in blocks : a # b => ~Overlap(a.ptr, a.size, b)

(* A block that a call is about belongs to that call alone.                 *)
CallOwnsBlock ==
  \A t \in Threads : pc[t] # "idle" =>
    /\ OwnBlock(t) \in blocks
    /\ block[t].ptr \notin held
    /\ \A u \in Threads \ {t} : pc[u] # "idle" => block[u].ptr # block[t].ptr

(* A block that no call is about has an entry, and holds its magic bytes.   *)
HeldHaveEntries ==
  \A p \in held : \E b \in allocated_blocks :
    /\ b.ptr = p
    /\ [ptr |-> p, size |-> b.size] \in blocks
    /\ HasMagicBytes(p, b.size, b.magic_bytes)

(* The entries are those of the blocks held and of the calls that have made *)
(* theirs, or not erased it yet.                                            *)
CallsHaveEntries == \A t \in Threads : pc[t] \in Mapped => OwnEntry(t) \in allocated_blocks

EntriesOwned ==
  \A b \in allocated_blocks :
    b.ptr \in held \/ \E t \in Threads : pc[t] \in Mapped /\ b = OwnEntry(t)

MagicsApart ==
  /\ \A a, b \in allocated_blocks : a.magic_bytes = b.magic_bytes => a = b
  /\ \A t \in Threads, b \in allocated_blocks :
       block[t].magic_bytes = b.magic_bytes => block[t].ptr = b.ptr
  /\ \A t, u \in Threads :
       t # u /\ block[t].magic_bytes = block[u].magic_bytes => block[t].magic_bytes = Junk

(* What a call relies on finding in its block.                              *)
CallContent(t) ==
  /\ pc[t] \in {"erase", "realloc"} =>
       HasMagicBytes(block[t].ptr, block[t].size, block[t].magic_bytes)
  /\ pc[t] \in New /\ call[t].op = "realloc" =>
       HasMagicBytes(block[t].ptr, Smaller(block[t].size, call[t].size), block[t].magic_bytes)
  /\ pc[t] \in New /\ call[t].op = "calloc" => HasMagicBytes(block[t].ptr, call[t].size, Zero)

ContentKept == \A t \in Threads : CallContent(t)

AnswersValid ==
  \A t \in Threads : pc[t] \in New => block[t].ptr # Null /\ Valid(t)

Sound ==
  /\ BlocksApart
  /\ CallOwnsBlock
  /\ HeldHaveEntries
  /\ CallsHaveEntries
  /\ EntriesOwned
  /\ MagicsApart
  /\ ContentKept
  /\ AnswersValid
  /\ ~Failed

CInv == Shape /\ (committed = {} => Sound)

-----------------------------------------------------------------------------
(* A non-empty set of natural numbers has a least element.                  *)
LEMMA LeastNumber ==
  ASSUME NEW S \in SUBSET Nat, S # {}
  PROVE  Min(S) \in S
<1> DEFINE before == {p \in Nat \X Nat : p[1] < p[2]}
<1>1. PICK n \in S : \A m \in S : <<m, n>> \notin before
  BY NatLessThanWellFounded, WFMin DEF OpToRel
<1>2. ASSUME NEW m \in S PROVE n <= m
  <2>1. m \in Nat /\ n \in Nat /\ <<m, n>> \in Nat \X Nat
    OBVIOUS
  <2>2. ~(m < n)
    BY <1>1, <2>1
  <2> QED BY <2>1, <2>2
<1> QED BY <1>2 DEF Min

(* The values of a function on a finite set.                                *)
LEMMA ImageBound ==
  ASSUME NEW S, IsFiniteSet(S), NEW f, f = [x \in S |-> f[x]]
  PROVE  LET image == {f[x] : x \in S}
         IN IsFiniteSet(image) /\ Cardinality(image) \in Nat /\ Cardinality(image) <= Cardinality(S)
<1> DEFINE image == {f[x] : x \in S}
<1>1. f \in Surjection(S, image)
  BY DEF Surjection
<1>2. IsFiniteSet(image) /\ Cardinality(image) <= Cardinality(S)
  BY <1>1, FS_Surjection
<1> QED BY <1>2, FS_CardinalityType

(* There is a magic value that no word, entry or other call has: entries    *)
(* have different pointers, so there are no more of them than words.        *)
LEMMA FreshMagicIsFresh ==
  ASSUME Shape, NEW t \in Threads, block[t].magic_bytes = Junk
  PROVE  /\ FreshMagic \in Magic
         /\ \A c \in Cells : memory[c] # FreshMagic
         /\ \A b \in allocated_blocks : b.magic_bytes # FreshMagic
         /\ \A u \in Threads : block[u].magic_bytes # FreshMagic
<1> DEFINE stored   == {memory[c] : c \in Cells}
           entries  == {b.magic_bytes : b \in allocated_blocks}
           others   == Threads \ {t}
           calls    == {block[u].magic_bytes : u \in others}
           used     == (stored \cup entries) \cup calls
           fresh    == {m \in Magic : /\ \A c \in Cells : memory[c] # m
                                      /\ \A b \in allocated_blocks : b.magic_bytes # m
                                      /\ \A u \in Threads : block[u].magic_bytes # m}
<1> USE CheckerAssumption
<1>1. IsFiniteSet(Cells) /\ Cardinality(Cells) = Words
  <2>1. IsFiniteSet(0..(Words - 1))
    BY FS_Interval
  <2>2. Cardinality(0..(Words - 1)) = IF 0 > Words - 1 THEN 0 ELSE (Words - 1) - 0 + 1
    BY FS_Interval
  <2> QED BY <2>1, <2>2 DEF Cells
<1>2. IsFiniteSet(stored) /\ Cardinality(stored) \in Nat /\ Cardinality(stored) <= Words
  <2>1. memory = [c \in Cells |-> memory[c]]
    BY DEF Shape, TypeOK
  <2> QED BY <1>1, <2>1, ImageBound
<1>3. IsFiniteSet(allocated_blocks) /\ Cardinality(allocated_blocks) <= Words
  <2> DEFINE ptrs == [b \in allocated_blocks |-> b.ptr]
  <2>1. ptrs \in Injection(allocated_blocks, Cells)
    <3>1. \A b \in allocated_blocks : b.ptr \in Cells
      BY DEF Shape, TypeOK, CheckedBlocks
    <3>2. \A a, b \in allocated_blocks : a.ptr = b.ptr => a = b
      BY DEF Shape, MapShape
    <3> QED BY <3>1, <3>2 DEF Injection, IsInjective
  <2> QED BY <1>1, <2>1, FS_Injection
<1>4. IsFiniteSet(entries) /\ Cardinality(entries) \in Nat /\ Cardinality(entries) <= Words
  <2> DEFINE magics == [b \in allocated_blocks |-> b.magic_bytes]
  <2>1. {magics[b] : b \in allocated_blocks} = entries
    OBVIOUS
  <2>2. magics = [b \in allocated_blocks |-> magics[b]]
    OBVIOUS
  <2> HIDE DEF magics
  <2>3. /\ IsFiniteSet({magics[b] : b \in allocated_blocks})
        /\ Cardinality({magics[b] : b \in allocated_blocks}) \in Nat
        /\ Cardinality({magics[b] : b \in allocated_blocks}) <= Cardinality(allocated_blocks)
    BY <1>3, <2>2, ImageBound
  <2>4. Cardinality(allocated_blocks) \in Nat
    BY <1>3, FS_CardinalityType
  <2> QED BY <1>3, <2>1, <2>3, <2>4
<1>5. IsFiniteSet(others) /\ Cardinality(others) = Cardinality(Threads) - 1 /\ Cardinality(Threads) \in Nat
  BY FS_RemoveElement, FS_CardinalityType
<1>6. IsFiniteSet(calls) /\ Cardinality(calls) \in Nat /\ Cardinality(calls) <= Cardinality(Threads) - 1
  <2> DEFINE magics == [u \in others |-> block[u].magic_bytes]
  <2>1. {magics[u] : u \in others} = calls
    OBVIOUS
  <2>2. magics = [u \in others |-> magics[u]]
    OBVIOUS
  <2> HIDE DEF magics
  <2>3. /\ IsFiniteSet({magics[u] : u \in others})
        /\ Cardinality({magics[u] : u \in others}) \in Nat
        /\ Cardinality({magics[u] : u \in others}) <= Cardinality(others)
    BY <1>5, <2>2, ImageBound
  <2> QED BY <1>5, <2>1, <2>3
<1>7. IsFiniteSet(used) /\ Cardinality(used) < 2 * Words + Cardinality(Threads)
  <2> HIDE DEF stored, entries, calls
  <2>1. IsFiniteSet(stored \cup entries) /\ Cardinality(stored \cup entries) <= 2 * Words
        /\ Cardinality(stored \cup entries) \in Nat
    <3>1. /\ IsFiniteSet(stored \cup entries)
          /\ Cardinality(stored \cup entries) =
               Cardinality(stored) + Cardinality(entries) - Cardinality(stored \cap entries)
      BY <1>2, <1>4, FS_Union
    <3>2. Cardinality(stored \cap entries) \in Nat
      BY <1>2, FS_Intersection, FS_CardinalityType
    <3>3. Cardinality(stored \cup entries) \in Nat
      BY <3>1, FS_CardinalityType
    <3> QED BY <1>2, <1>4, <3>1, <3>2, <3>3
  <2>2. /\ IsFiniteSet(used)
        /\ Cardinality(used) = Cardinality(stored \cup entries) + Cardinality(calls)
                                 - Cardinality((stored \cup entries) \cap calls)
    BY <1>6, <2>1, FS_Union
  <2>3. Cardinality((stored \cup entries) \cap calls) \in Nat
    BY <2>1, FS_Intersection, FS_CardinalityType
  <2> QED BY <1>5, <1>6, <2>1, <2>2, <2>3
<1>8. IsFiniteSet(Magic) /\ Cardinality(Magic) = 2 * Words + Cardinality(Threads)
  <2>1. 2 * Words + Cardinality(Threads) \in Nat \ {0}
    <3>1. Cardinality(Threads) # 0
      BY FS_EmptySet
    <3> QED BY <3>1, <1>5
  <2> DEFINE n == 2 * Words + Cardinality(Threads)
  <2> HIDE DEF n
  <2>2. IsFiniteSet(1..n) /\ Cardinality(1..n) = n
    <3>1. n \in Nat \ {0}
      BY <2>1 DEF n
    <3>2. IsFiniteSet(1..n) /\ Cardinality(1..n) = IF 1 > n THEN 0 ELSE n - 1 + 1
      BY <3>1, FS_Interval
    <3> QED BY <3>1, <3>2
  <2> QED BY <2>2 DEF n, Magic
<1>9. fresh # {}
  <2> SUFFICES ASSUME fresh = {} PROVE FALSE
    OBVIOUS
  <2>1. Magic \subseteq used
    <3> SUFFICES ASSUME NEW m \in Magic PROVE m \in used
      OBVIOUS
    <3>1. m # Junk
      BY <1>5 DEF Magic, Junk
    <3> QED BY <3>1
  <2> HIDE DEF used
  <2> QED BY <1>5, <1>7, <1>8, <2>1, FS_Subset, FS_CardinalityType
<1>10. Min(fresh) \in fresh
  <2>1. fresh \in SUBSET Nat
    BY <1>5 DEF Magic
  <2> HIDE DEF fresh
  <2> QED BY <1>9, <2>1, LeastNumber
<1>11. FreshMagic = Min(fresh)
  BY DEF FreshMagic, Magic
<1> QED BY <1>10, <1>11

-----------------------------------------------------------------------------
(* What is in a word.                                                       *)
Contents == {Zero, Junk} \cup Magic
Blocks == [ptr : Cells, size : Nat \ {0}]

LEMMA ScribblesTypes ==
  ASSUME NEW mem \in [Cells -> Contents], NEW others, NEW s \in Scribbles(mem, others)
  PROVE  /\ s.mem \in [Cells -> Contents]
         /\ s.kind \subseteq scenario.faults
         /\ s.kind = {} => s.mem = mem
<1>1. CASE s = [kind |-> {}, mem |-> mem]
  BY <1>1
<1>2. CASE /\ "dirties blocks" \in scenario.faults
           /\ \E c \in UNION {CellsOf(b.ptr, b.size) : b \in others} :
                s = [kind |-> {"dirties blocks"}, mem |-> [mem EXCEPT ![c] = Junk]]
  <2>1. PICK c : s = [kind |-> {"dirties blocks"}, mem |-> [mem EXCEPT ![c] = Junk]]
    BY <1>2
  <2> QED BY <1>2, <2>1 DEF Contents
<1> QED BY <1>1, <1>2 DEF Scribbles

Aligned(p, size, alignment) == p % Larger(alignment, MinAlignment(size)) = 0

(* The step answers with `p`, and there is nothing wrong with that.         *)
SoundAnswer(p, size, alignment, others, content) ==
  /\ p # Null /\ p + size <= heap_end'
  /\ Aligned(p, size, alignment)
  /\ \A b \in others : ~Overlap(p, size, b)
  /\ blocks' = others \cup {[ptr |-> p, size |-> size]}
  /\ \A c \in Cells :
       memory'[c] = IF c \in CellsOf(p, size) THEN content[c - p] ELSE memory[c]

(* The types of an answer, and what it is if there is nothing wrong with it. *)
LEMMA AnswerEffect ==
  ASSUME TypeOK, UNCHANGED scenario, NEW t, NEW size \in Nat \ {0}, NEW alignment \in Nat,
         NEW p \in Answers(size), NEW others \in SUBSET Blocks, NEW content, NEW wrong,
         p # Null => \A i \in 0..(size - 1) : content[i] \in Contents,
         wrong \subseteq scenario.faults,
         Answer(t, p, size, alignment, others, content, wrong)
  PROVE  /\ heap_end' \in 0..Words /\ heap_end <= heap_end'
         /\ blocks' \subseteq Blocks
         /\ memory' \in [Cells -> Contents]
         /\ committed' \subseteq scenario'.faults /\ committed \subseteq committed'
         /\ p # Null => p \in Cells /\ p + size <= Words
         /\ committed' = {} => wrong = {} /\ SoundAnswer(p, size, alignment, others, content)
<1> DEFINE filled == [c \in Cells |-> IF p # Null /\ c \in CellsOf(p, size)
                                        THEN content[c - p] ELSE memory[c]]
<1>1. PICK end \in {heap_end, IF p # Null /\ p + size > heap_end THEN p + size ELSE heap_end} :
        /\ FaultsOf(p, size, alignment, others, end) \subseteq scenario.faults
        /\ heap_end' = end
        /\ blocks' = IF p = Null THEN others ELSE others \cup {[ptr |-> p, size |-> size]}
        /\ \E s \in Scribbles(filled, others) :
             /\ memory' = s.mem
             /\ committed' = committed \cup wrong \cup s.kind
                               \cup FaultsOf(p, size, alignment, others, end)
  BY DEF Answer
<1>2. p # Null => p \in Cells /\ p + size <= Words
  BY DEF Answers
<1>3. heap_end' \in 0..Words /\ heap_end <= heap_end'
  BY <1>1, <1>2, CheckerAssumption DEF TypeOK, Cells
<1>4. blocks' \subseteq Blocks
  BY <1>1, <1>2 DEF Blocks
<1>5. filled \in [Cells -> Contents]
  <2> SUFFICES ASSUME NEW c \in Cells, p # Null, c \in CellsOf(p, size)
               PROVE  content[c - p] \in Contents
    BY DEF TypeOK, Contents
  <2>1. c - p \in 0..(size - 1)
    BY <1>2, CheckerAssumption DEF CellsOf, Cells
  <2> QED BY <2>1
<1>6. PICK s \in Scribbles(filled, others) :
        /\ memory' = s.mem
        /\ committed' = committed \cup wrong \cup s.kind
                          \cup FaultsOf(p, size, alignment, others, heap_end')
  BY <1>1
<1>7. /\ s.mem \in [Cells -> Contents]
      /\ s.kind \subseteq scenario.faults
      /\ s.kind = {} => s.mem = filled
  BY <1>5, ScribblesTypes
<1>8. ASSUME committed' = {}
      PROVE  wrong = {} /\ SoundAnswer(p, size, alignment, others, content)
  <2>1. wrong = {} /\ s.kind = {} /\ FaultsOf(p, size, alignment, others, heap_end') = {}
    BY <1>6, <1>8
  <2>2. p # Null
    BY <2>1 DEF FaultsOf
  <2>3. /\ {f \in {"overlap"} : \E b \in others : Overlap(p, size, b)} = {}
        /\ {f \in {"out of range"} : p + size > heap_end'} = {}
        /\ {f \in {"misaligned"} : p % Larger(alignment, MinAlignment(size)) # 0} = {}
    BY <2>1, <2>2 DEF FaultsOf
  <2>4. /\ \A b \in others : ~Overlap(p, size, b)
        /\ ~(p + size > heap_end')
        /\ Aligned(p, size, alignment)
    BY <2>3 DEF Aligned
  <2>5. p + size <= heap_end'
    BY <2>2, <2>4, <1>2, <1>3, CheckerAssumption DEF Cells
  <2> QED BY <1>1, <1>6, <1>7, <2>1, <2>2, <2>4, <2>5 DEF SoundAnswer
<1> QED BY <1>1, <1>2, <1>3, <1>4, <1>6, <1>7, <1>8 DEF TypeOK

-----------------------------------------------------------------------------
(* Shape, one lemma per action.                                             *)
LEMMA InitShape == Init => Shape
<1> SUFFICES ASSUME Init PROVE Shape
  OBVIOUS
<1> USE CheckerAssumption DEF Init
<1>1. TypeOK
  BY DEF TypeOK, Labels, NoCall, NoBlock
<1>2. CallShape /\ BlockShape /\ MapShape
  BY DEF CallShape, BlockShape, MapShape, NoCall, NoBlock, New, Old
<1> QED BY <1>1, <1>2 DEF Shape

(* A step of thread t that goes to `label`, with call and block of its own. *)
LEMMA MallocShape ==
  ASSUME Shape, UNCHANGED scenario, NEW t \in Threads, NEW op \in {"malloc", "calloc"},
         NEW size \in Sizes, NEW alignment \in Alignments, Malloc(t, op, size, alignment)
  PROVE  Shape' /\ committed \subseteq committed'
<1> USE CheckerAssumption DEF Shape
<1>1. CASE size = 0
  <2>1. CASE UNCHANGED vars
    BY SMTT(30), <2>1 DEF vars, TypeOK, CallShape, BlockShape, MapShape, CheckedBlocks, Cells,
                Magic, Labels, Old, New
  <2>2. CASE /\ "not null" \in scenario.faults
             /\ committed' = committed \cup {"not null"}
             /\ pc' = [pc EXCEPT ![t] = "failed"]
             /\ UNCHANGED <<heap_end, blocks, memory, held, allocated_blocks, call, block>>
    <3>1. pc' \in [Threads -> Labels]
      BY <2>2 DEF TypeOK, Labels
    <3>2. \A u \in Threads : pc'[u] = pc[u] \/ pc'[u] = "failed"
      BY <2>2 DEF TypeOK
    <3>3. CallShape' /\ BlockShape' /\ MapShape'
      BY <2>2, <3>2 DEF CallShape, BlockShape, MapShape, Old, New
    <3> QED BY <2>2, <3>1, <3>3 DEF TypeOK, CheckedBlocks, Cells, Magic
  <2> QED BY <1>1, <2>1, <2>2 DEF Malloc, AskForNothing, Goto
<1>2. CASE size # 0
  <2>1. PICK p \in Answers(size), clears \in BOOLEAN :
          /\ clears \/ (op = "calloc" => "not cleared" \in scenario.faults)
          /\ Answer(t, p, size, alignment, blocks,
                    [i \in 0..(size - 1) |-> IF clears THEN Zero
                                             ELSE IF op = "calloc" THEN Junk
                                             ELSE memory[p + i]],
                    {f \in {"not cleared"} : op = "calloc" /\ ~clears /\ p # Null})
          /\ block' = [block EXCEPT ![t] = [NoBlock EXCEPT !.ptr = p, !.size = size]]
    BY <1>2 DEF Malloc
  <2>2. /\ call' = [call EXCEPT ![t] = [op |-> op, size |-> size, alignment |-> alignment]]
        /\ pc' = [pc EXCEPT ![t] = "validate"]
        /\ UNCHANGED <<held, allocated_blocks>>
    BY <1>2 DEF Malloc, Goto
  <2>3. size \in Nat \ {0} /\ alignment \in Nat
    BY <1>2
  <2> DEFINE content == [i \in 0..(size - 1) |-> IF clears THEN Zero
                                             ELSE IF op = "calloc" THEN Junk
                                             ELSE memory[p + i]]
  <2>4. ASSUME p # Null, NEW i \in 0..(size - 1) PROVE content[i] \in Contents
    <3>1. p + i \in Cells
      BY <2>3, <2>4 DEF Answers, Cells
    <3> QED BY <3>1 DEF TypeOK, Contents
  <2>5. /\ heap_end' \in 0..Words /\ heap_end <= heap_end'
        /\ blocks' \subseteq Blocks
        /\ memory' \in [Cells -> Contents]
        /\ committed' \subseteq scenario'.faults /\ committed \subseteq committed'
        /\ p # Null => p \in Cells /\ p + size <= Words
    <3>1. blocks \in SUBSET Blocks
      BY DEF TypeOK, Blocks
    <3>2. {f \in {"not cleared"} : op = "calloc" /\ ~clears /\ p # Null} \subseteq scenario.faults
      BY <2>1
    <3> HIDE DEF content
    <3>3. Answer(t, p, size, alignment, blocks, content,
                 {f \in {"not cleared"} : op = "calloc" /\ ~clears /\ p # Null})
      BY <2>1 DEF content
    <3> QED BY <2>3, <2>4, <3>1, <3>2, <3>3, AnswerEffect
  <2>6. TypeOK'
    BY <2>1, <2>2, <2>3, <2>5 DEF TypeOK, Labels, NoBlock, Blocks, Contents, CheckedBlocks, Magic, Cells
  <2>7. CallShape'
    <3>1. /\ pc'[t] = "validate" /\ call'[t].op = op /\ call'[t].size = size
          /\ \A u \in Threads \ {t} : pc'[u] = pc[u] /\ call'[u] = call[u] /\ block'[u] = block[u]
      BY <2>1, <2>2 DEF TypeOK
    <3> QED BY <3>1, <2>3 DEF CallShape, New
  <2>8. BlockShape'
    BY <2>1, <2>2, <2>3, <2>5 DEF BlockShape, TypeOK, NoBlock, New, Old, CheckedBlocks, Magic, Cells
  <2>9. MapShape'
    BY <2>2 DEF MapShape
  <2> QED BY <2>5, <2>6, <2>7, <2>8, <2>9
<1> QED BY <1>1, <1>2

LEMMA ValidateShape ==
  ASSUME Shape, UNCHANGED scenario, NEW t \in Threads, ValidateNewBlock(t)
  PROVE  Shape' /\ committed \subseteq committed'
<1> USE DEF Shape, ValidateNewBlock, Goto
<1>1. TypeOK'
  BY DEF TypeOK, Labels, CheckedBlocks, Magic, Cells
<1>2. CallShape' /\ MapShape'
  BY DEF CallShape, MapShape, TypeOK, New
<1>3. BlockShape'
  BY DEF BlockShape, TypeOK, New, Old, Valid, CheckedBlocks, Magic, Cells
<1> QED BY <1>1, <1>2, <1>3

LEMMA ReleaseShape ==
  ASSUME Shape, UNCHANGED scenario, NEW t \in Threads, NEW op \in {"free", "realloc"}, NEW p \in held,
         NEW size \in Nat, op = "realloc" => size > 0, Release(t, op, p, size)
  PROVE  Shape' /\ committed \subseteq committed'
<1> USE DEF Shape, Release, Goto
<1>1. TypeOK'
  BY ZenonT(60) DEF TypeOK, Labels, CheckedBlocks, Magic, Cells, BlocksAt
<1>2. CallShape' /\ MapShape'
  BY DEF CallShape, MapShape, TypeOK, New
<1>3. BlockShape'
  BY ZenonT(60) DEF BlockShape, MapShape, TypeOK, New, Old, BlocksAt, CheckedBlocks, Magic, Cells
<1> QED BY <1>1, <1>2, <1>3

LEMMA EraseShape ==
  ASSUME Shape, UNCHANGED scenario, NEW t \in Threads, Erase(t)
  PROVE  Shape' /\ committed \subseteq committed'
<1> USE DEF Shape, Erase, Goto
<1>1. TypeOK'
  BY DEF TypeOK, CallShape, Labels, CheckedBlocks, Magic, Cells
<1>2. CallShape' /\ MapShape'
  BY DEF CallShape, MapShape, TypeOK, New
<1>3. BlockShape'
  BY SMTT(30) DEF BlockShape, CallShape, TypeOK, New, Old, CheckedBlocks, Magic, Cells
<1> QED BY <1>1, <1>2, <1>3

LEMMA InsertShape ==
  ASSUME Shape, UNCHANGED scenario, NEW t \in Threads, Insert(t)
  PROVE  Shape' /\ committed \subseteq committed'
<1> DEFINE b == [ptr |-> block[t].ptr, size |-> call[t].size, magic_bytes |-> MagicBytes(t)]
<1>1. MagicBytes(t) \in Magic
  BY FreshMagicIsFresh DEF MagicBytes, Insert, Shape, BlockShape
<1>2. /\ block[t].ptr \in Cells /\ call[t].size \in Nat \ {0} /\ block[t].ptr + call[t].size <= Words
      /\ call[t].op \in {"malloc", "calloc", "realloc"}
  BY DEF Insert, Shape, TypeOK, CallShape, BlockShape, New
<1>3. b.ptr = block[t].ptr /\ b.size = call[t].size /\ b.magic_bytes = MagicBytes(t)
  OBVIOUS
<1>4. b \in CheckedBlocks
  BY <1>1, <1>2, <1>3 DEF CheckedBlocks
<1>5. CASE BlocksAt(b.ptr) # {}
  <2>1. /\ pc' = [pc EXCEPT ![t] = "failed"]
        /\ UNCHANGED <<allocated_blocks, block, heap_end, blocks, memory, committed, held, call>>
    BY <1>5 DEF Insert, Goto
  <2>2. TypeOK' /\ CallShape' /\ MapShape'
    BY <2>1 DEF Shape, TypeOK, CallShape, MapShape, New, Labels, CheckedBlocks, Magic, Cells
  <2>3. BlockShape'
    BY <2>1 DEF Shape, BlockShape, TypeOK, New, Old, CheckedBlocks, Magic, Cells
  <2> QED BY <2>1, <2>2, <2>3 DEF Shape
<1>6. CASE BlocksAt(b.ptr) = {}
  <2>1. /\ allocated_blocks' = allocated_blocks \cup {b}
        /\ block' = [block EXCEPT ![t].magic_bytes = b.magic_bytes]
        /\ pc' = [pc EXCEPT ![t] = IF call[t].op = "realloc" THEN "compare" ELSE "fill"]
        /\ UNCHANGED <<heap_end, blocks, memory, committed, held, call>>
    BY <1>6 DEF Insert, Goto
  <2> HIDE DEF b
  <2>2. TypeOK'
    BY <1>1, <1>3, <1>4, <2>1 DEF Shape, TypeOK, Labels, Magic, Cells, CheckedBlocks
  <2>3. CallShape'
    BY <1>2, <2>1 DEF Shape, TypeOK, CallShape, New
  <2>4. MapShape'
    BY <1>2, <1>3, <1>6, <2>1 DEF Shape, MapShape, BlocksAt
  <2>5. BlockShape'
    <3>1. /\ pc'[t] \in {"compare", "fill"} /\ call'[t] = call[t]
          /\ block'[t].ptr = block[t].ptr /\ block'[t].magic_bytes \in Magic
          /\ \A u \in Threads \ {t} : pc'[u] = pc[u] /\ call'[u] = call[u] /\ block'[u] = block[u]
      BY <1>1, <1>3, <2>1 DEF Shape, TypeOK
    <3>2. block[t].ptr # Null
      BY <1>2, CheckerAssumption DEF Cells
    <3> QED BY <1>2, <3>1, <3>2 DEF Shape, BlockShape, New, Old, CheckedBlocks, Magic, Cells
  <2> QED BY <2>1, <2>2, <2>3, <2>4, <2>5 DEF Shape
<1> QED BY <1>5, <1>6

(* The block is filled, or found not to be as it should.                    *)
LEMMA FillShape ==
  ASSUME Shape, UNCHANGED scenario, NEW t \in Threads, FillNewBlock(t) \/ CompareMoved(t)
  PROVE  Shape' /\ committed \subseteq committed'
<1>1. block[t].ptr \in Cells /\ block[t].magic_bytes \in Magic
  BY DEF FillNewBlock, CompareMoved, Shape, TypeOK, BlockShape
<1>2. UNCHANGED <<heap_end, blocks, committed, allocated_blocks>>
  BY DEF FillNewBlock, CompareMoved
<1>3. CASE pc' = [pc EXCEPT ![t] = "failed"] /\ UNCHANGED <<memory, held, call, block>>
  <2>1. TypeOK' /\ CallShape' /\ MapShape'
    BY <1>2, <1>3 DEF Shape, TypeOK, CallShape, MapShape, New, Labels, CheckedBlocks, Magic, Cells
  <2>2. BlockShape'
    BY <1>2, <1>3 DEF Shape, BlockShape, TypeOK, New, Old, CheckedBlocks, Magic, Cells
  <2> QED BY <1>2, <2>1, <2>2 DEF Shape
<1>4. CASE /\ FillMagicBytes(block[t].ptr, call[t].size, block[t].magic_bytes) \/ UNCHANGED memory
           /\ held' = held \cup {block[t].ptr}
           /\ Return(t)
  <2>1. memory' \in [Cells -> Contents]
    BY <1>1, <1>4 DEF FillMagicBytes, Shape, TypeOK, Contents
  <2>2. /\ pc' = [pc EXCEPT ![t] = "idle"]
        /\ call' = [call EXCEPT ![t] = NoCall]
        /\ block' = [block EXCEPT ![t] = NoBlock]
        /\ held' = held \cup {block[t].ptr}
    BY <1>4 DEF Return, Goto
  <2>3. TypeOK'
    BY <1>1, <1>2, <2>1, <2>2 DEF Shape, TypeOK, Labels, NoCall, NoBlock, Contents, Magic, Cells,
                                  CheckedBlocks
  <2>4. CallShape' /\ MapShape'
    BY <1>2, <2>2 DEF Shape, TypeOK, CallShape, MapShape, New, NoCall, NoBlock
  <2>5. BlockShape'
    BY <2>2 DEF Shape, BlockShape, TypeOK, New, Old, NoCall, NoBlock, CheckedBlocks, Magic, Cells
  <2> QED BY <1>2, <2>3, <2>4, <2>5 DEF Shape
<1> QED BY <1>3, <1>4 DEF FillNewBlock, CompareMoved, Goto

LEMMA CallFreeShape ==
  ASSUME Shape, UNCHANGED scenario, NEW t \in Threads, CallFree(t)
  PROVE  Shape' /\ committed \subseteq committed'
<1> DEFINE own    == [ptr |-> block[t].ptr, size |-> block[t].size]
           others == blocks \ {own}
           taken  == [c \in Cells |->
                       IF c \in CellsOf(own.ptr, own.size)
                            /\ \A b \in others : c \notin CellsOf(b.ptr, b.size)
                         THEN Junk ELSE memory[c]]
<1>1. /\ blocks' = others
      /\ pc' = [pc EXCEPT ![t] = "idle"]
      /\ call' = [call EXCEPT ![t] = NoCall]
      /\ block' = [block EXCEPT ![t] = NoBlock]
      /\ UNCHANGED <<heap_end, held, allocated_blocks>>
  BY DEF CallFree, Return, Goto
<1>2. PICK s \in Scribbles(taken, others) : memory' = s.mem /\ committed' = committed \cup s.kind
  BY DEF CallFree
<1>3. memory' \in [Cells -> Contents] /\ s.kind \subseteq scenario.faults
  <2>1. taken \in [Cells -> Contents]
    BY DEF Shape, TypeOK, Contents
  <2> QED BY <1>2, <2>1, ScribblesTypes
<1> HIDE DEF own, taken
<1>4. TypeOK'
  BY <1>1, <1>2, <1>3 DEF Shape, TypeOK, Labels, NoCall, NoBlock, Contents, Magic, Cells, CheckedBlocks
<1>5. CallShape' /\ MapShape'
  BY <1>1 DEF Shape, TypeOK, CallShape, MapShape, New, NoCall, NoBlock
<1>6. BlockShape'
  BY <1>1 DEF Shape, BlockShape, TypeOK, New, Old, NoCall, NoBlock, CheckedBlocks, Magic, Cells
<1> QED BY <1>2, <1>4, <1>5, <1>6 DEF Shape

LEMMA CallReallocShape ==
  ASSUME Shape, UNCHANGED scenario, NEW t \in Threads, CallRealloc(t)
  PROVE  Shape' /\ committed \subseteq committed'
<1> DEFINE own    == [ptr |-> block[t].ptr, size |-> block[t].size]
           others == blocks \ {own}
           size   == call[t].size
           content(keeps) == [i \in 0..(size - 1) |->
                                IF keeps /\ i < own.size THEN memory[own.ptr + i] ELSE Junk]
<1> USE CheckerAssumption
<1>1. PICK p \in Answers(size), keeps \in BOOLEAN :
        /\ keeps \/ "content lost" \in scenario.faults
        /\ Answer(t, p, size, 0, others, content(keeps), {f \in {"content lost"} : ~keeps /\ p # Null})
        /\ block' = [block EXCEPT ![t].ptr = p]
  BY DEF CallRealloc
<1>2. /\ pc' = [pc EXCEPT ![t] = "validate"]
      /\ UNCHANGED <<held, allocated_blocks, call>>
  BY DEF CallRealloc, Goto
<1>3. /\ size \in Nat \ {0} /\ call[t].op = "realloc" /\ block[t].magic_bytes \in Magic
      /\ block[t].ptr \in Cells /\ block[t].size \in Nat \ {0} /\ block[t].ptr + block[t].size <= Words
  <2>1. pc[t] = "realloc"
    BY DEF CallRealloc
  <2>2. call[t].op = "realloc" /\ size > 0 /\ size \in Nat
    BY <2>1 DEF Shape, CallShape, TypeOK
  <2>3. block[t] \in CheckedBlocks /\ block[t].size > 0 /\ block[t].ptr + block[t].size <= Words
    BY <2>1 DEF Shape, BlockShape, Old
  <2> QED BY <2>2, <2>3 DEF CheckedBlocks
<1>4. ASSUME NEW i \in 0..(size - 1) PROVE content(keeps)[i] \in Contents
  <2>1. CASE keeps /\ i < own.size
    <3>1. own.ptr + i \in Cells
      BY <1>3, <2>1 DEF Cells
    <3> QED BY <2>1, <3>1 DEF Shape, TypeOK, Contents
  <2>2. CASE ~(keeps /\ i < own.size)
    BY <2>2 DEF Contents
  <2> QED BY <2>1, <2>2
<1>5. /\ heap_end' \in 0..Words /\ heap_end <= heap_end'
      /\ blocks' \subseteq Blocks
      /\ memory' \in [Cells -> Contents]
      /\ committed' \subseteq scenario'.faults /\ committed \subseteq committed'
      /\ p # Null => p \in Cells /\ p + size <= Words
  <2>1. others \in SUBSET Blocks
    BY DEF Shape, TypeOK, Blocks
  <2>2. {f \in {"content lost"} : ~keeps /\ p # Null} \subseteq scenario.faults
    BY <1>1
  <2> HIDE DEF content, others, size
  <2>3. TypeOK
    BY DEF Shape
  <2> QED BY <1>1, <1>3, <1>4, <2>1, <2>2, <2>3, AnswerEffect
<1>6. /\ pc'[t] = "validate" /\ block'[t].ptr = p
      /\ block'[t].size = block[t].size /\ block'[t].magic_bytes = block[t].magic_bytes
      /\ \A u \in Threads \ {t} : pc'[u] = pc[u] /\ block'[u] = block[u]
  BY <1>1, <1>2 DEF Shape, TypeOK
<1> HIDE DEF content, own
<1>7. TypeOK'
  <2>1. block' \in [Threads -> [ptr : Cells \cup {Null}, size : Nat, magic_bytes : {Junk} \cup Magic]]
    BY <1>1, <1>5 DEF Shape, TypeOK
  <2> QED BY <1>2, <1>5, <2>1 DEF Shape, TypeOK, Labels, Blocks, Contents, CheckedBlocks, Magic, Cells
<1>8. CallShape' /\ MapShape'
  BY <1>2, <1>3, <1>6 DEF Shape, CallShape, MapShape, New
<1>9. BlockShape'
  BY SMTT(30), <1>2, <1>3, <1>5, <1>6 DEF Shape, BlockShape, New, Old, CheckedBlocks, Magic, Cells
<1> QED BY <1>5, <1>7, <1>8, <1>9 DEF Shape

LEMMA NextShape == Shape /\ [Next]_vars => Shape' /\ committed \subseteq committed'
<1> SUFFICES ASSUME Shape, [Next]_vars PROVE Shape' /\ committed \subseteq committed'
  OBVIOUS
<1>1. CASE UNCHANGED vars
  BY <1>1 DEF vars, Shape, TypeOK, CallShape, BlockShape, MapShape, CheckedBlocks, Cells, Magic,
              Labels, Old, New
<1>2. CASE Next
  <2>1. PICK t \in scenario.threads : Start(t) \/ Continue(t)
    BY <1>2 DEF Next
  <2>2. UNCHANGED scenario
    BY <1>2 DEF Next
  <2>3. t \in Threads
    BY CheckerAssumption DEF Shape, TypeOK
  <2>4. CASE Start(t)
    <3>1. CASE \E p \in held : Release(t, "free", p, 0)
      BY <2>2, <2>3, <3>1, ReleaseShape
    <3>2. CASE \E p \in held, size \in Sizes \ {0} : Release(t, "realloc", p, size)
      <4>1. PICK p \in held, size \in Sizes \ {0} : Release(t, "realloc", p, size)
        BY <3>2
      <4>2. size \in Nat /\ size > 0
        BY CheckerAssumption
      <4> QED BY <2>2, <2>3, <4>1, <4>2, ReleaseShape
    <3>3. CASE \E size \in Sizes, op \in {"malloc", "calloc"}, alignment \in Alignments :
                 Malloc(t, op, size, alignment)
      BY <2>2, <2>3, <3>3, MallocShape
    <3> QED BY <2>4, <3>1, <3>2, <3>3 DEF Start
  <2>5. CASE Continue(t)
    BY <2>2, <2>3, <2>5, ValidateShape, InsertShape, FillShape, EraseShape, CallFreeShape,
       CallReallocShape DEF Continue
  <2> QED BY <2>1, <2>4, <2>5
<1> QED BY <1>1, <1>2

LEMMA ShapeAlways == Spec => []Shape
BY InitShape, NextShape, PTL DEF Spec

(***************************************************************************)
(* The checker's state keeps its types under any allocator: there is       *)
(* always a magic value that no word, entry or other call has.             *)
(***************************************************************************)
THEOREM CheckerTypeCorrect == Spec => []TypeOK
BY ShapeAlways, PTL DEF Shape

-----------------------------------------------------------------------------
(* Two blocks of the allocator's are different if their pointers are.       *)
LEMMA OneBlockPerPointer ==
  ASSUME Shape, BlocksApart, NEW a \in blocks, NEW b \in blocks, a.ptr = b.ptr
  PROVE  a = b
<1>1. a.ptr \in Nat /\ a.size \in Nat \ {0} /\ b.size \in Nat \ {0}
  BY CheckerAssumption DEF Shape, TypeOK, Cells
<1> QED BY <1>1 DEF BlocksApart, Overlap

(* Blocks that do not overlap have no word in common.                       *)
LEMMA NoCommonCell ==
  ASSUME NEW a \in Blocks, NEW b \in Blocks, ~Overlap(a.ptr, a.size, b),
         NEW c \in CellsOf(a.ptr, a.size)
  PROVE  c \notin CellsOf(b.ptr, b.size)
<1>1. /\ a.ptr \in Nat /\ a.size \in Nat /\ b.ptr \in Nat /\ b.size \in Nat /\ c \in Nat
  BY CheckerAssumption DEF Blocks, CellsOf, Cells
<1> QED BY <1>1 DEF Overlap, CellsOf

(* The pointer of a call has no entry before it is made or once it is       *)
(* erased.                                                                  *)
LEMMA NoEntryYet ==
  ASSUME Shape, Sound, NEW t \in Threads, pc[t] # "idle", pc[t] \notin Mapped
  PROVE  BlocksAt(block[t].ptr) = {}
<1> SUFFICES ASSUME NEW b \in allocated_blocks, b.ptr = block[t].ptr PROVE FALSE
  BY DEF BlocksAt
<1>1. b.ptr \notin held
  BY DEF Sound, CallOwnsBlock
<1>2. PICK u \in Threads : pc[u] \in Mapped /\ b = OwnEntry(u)
  BY <1>1 DEF Sound, EntriesOwned
<1>3. u # t /\ pc[u] # "idle" /\ block[u].ptr = block[t].ptr
  BY <1>2 DEF OwnEntry, Mapped
<1> QED BY <1>3 DEF Sound, CallOwnsBlock

(* The other threads' blocks and entries when thread t alone moves.         *)
Moves(t) ==
  \A u \in Threads \ {t} : pc'[u] = pc[u] /\ call'[u] = call[u] /\ block'[u] = block[u]

-----------------------------------------------------------------------------
(* Sound, one lemma per action.                                             *)
LEMMA InitSound == Init => Sound
<1> SUFFICES ASSUME Init PROVE Sound
  OBVIOUS
<1> USE DEF Init, NoBlock, NoCall
<1>1. BlocksApart /\ CallOwnsBlock /\ HeldHaveEntries
  BY DEF BlocksApart, CallOwnsBlock, HeldHaveEntries
<1>2. CallsHaveEntries /\ EntriesOwned /\ MagicsApart
  BY DEF CallsHaveEntries, EntriesOwned, MagicsApart, Mapped
<1>3. ContentKept /\ AnswersValid /\ ~Failed
  BY DEF ContentKept, CallContent, AnswersValid, Failed, New
<1> QED BY <1>1, <1>2, <1>3 DEF Sound

LEMMA ValidateSound ==
  ASSUME Shape, Sound, NEW t \in Threads, ValidateNewBlock(t)
  PROVE  Sound'
<1>1. Valid(t)
  BY DEF ValidateNewBlock, Sound, AnswersValid, New
<1>2. /\ pc[t] = "validate"
      /\ pc' = [pc EXCEPT ![t] = "insert"]
      /\ UNCHANGED <<heap_end, blocks, memory, committed, held, allocated_blocks, call, block>>
  BY <1>1 DEF ValidateNewBlock, Goto
<1>3. /\ pc'[t] = "insert"
      /\ \A u \in Threads \ {t} : pc'[u] = pc[u]
  BY <1>2 DEF Shape, TypeOK
<1>4. \A u \in Threads : /\ OwnSize(u)' = OwnSize(u)
                         /\ (pc'[u] = "idle") = (pc[u] = "idle")
                         /\ (pc'[u] \in Mapped) = (pc[u] \in Mapped)
                         /\ (pc'[u] \in New) = (pc[u] \in New)
                         /\ (pc'[u] \in {"erase", "realloc"}) = (pc[u] \in {"erase", "realloc"})
                         /\ (pc'[u] = "failed") = (pc[u] = "failed")
  BY <1>2, <1>3 DEF OwnSize, New, Mapped
<1>5. BlocksApart' /\ CallOwnsBlock' /\ HeldHaveEntries'
  BY <1>2, <1>4 DEF Sound, BlocksApart, CallOwnsBlock, HeldHaveEntries, HasMagicBytes, OwnBlock
<1>6. CallsHaveEntries' /\ EntriesOwned' /\ MagicsApart'
  BY <1>2, <1>4 DEF Sound, CallsHaveEntries, EntriesOwned, MagicsApart, OwnEntry
<1>7. ContentKept' /\ AnswersValid' /\ ~Failed'
  BY <1>2, <1>4 DEF Sound, ContentKept, CallContent, HasMagicBytes, AnswersValid, Valid, Failed
<1> QED BY <1>5, <1>6, <1>7 DEF Sound

LEMMA ReleaseSound ==
  ASSUME Shape, Sound, NEW t \in Threads, NEW op \in {"free", "realloc"}, NEW p \in held,
         NEW size, Release(t, op, p, size)
  PROVE  Sound'
<1>1. PICK b \in allocated_blocks : /\ b.ptr = p
                                    /\ [ptr |-> p, size |-> b.size] \in blocks
                                    /\ HasMagicBytes(p, b.size, b.magic_bytes)
  BY DEF Sound, HeldHaveEntries
<1>2. \A a \in BlocksAt(p) : a = b
  BY <1>1 DEF BlocksAt, Shape, MapShape
<1>3. b \in BlocksAt(p)
  BY <1>1 DEF BlocksAt
<1>4. /\ pc[t] = "idle" /\ held' = held \ {p}
      /\ pc' = [pc EXCEPT ![t] = "erase"]
      /\ block' = [block EXCEPT ![t] = b]
      /\ call' = [call EXCEPT ![t] = [op |-> op, size |-> size, alignment |-> 0]]
      /\ UNCHANGED <<heap_end, blocks, memory, committed, allocated_blocks>>
  BY <1>1, <1>2, <1>3 DEF Release, Goto
<1>5. Moves(t) /\ pc'[t] = "erase" /\ block'[t] = b
  BY <1>4 DEF Moves, Shape, TypeOK
<1>6. b \in CheckedBlocks
  BY DEF Shape, TypeOK
<1>7. /\ OwnSize(t)' = b.size
      /\ \A u \in Threads \ {t} : OwnSize(u)' = OwnSize(u)
  BY <1>5 DEF Moves, OwnSize, New
<1>8. OwnEntry(t)' = b
  BY <1>5, <1>6, <1>7 DEF OwnEntry, CheckedBlocks
<1>9. \A u \in Threads \ {t} : OwnBlock(u)' = OwnBlock(u) /\ OwnEntry(u)' = OwnEntry(u)
  BY <1>5, <1>7 DEF Moves, OwnBlock, OwnEntry
<1>10. BlocksApart'
  BY <1>4 DEF Sound, BlocksApart
<1>11. CallOwnsBlock'
  <2>1. OwnBlock(t)' \in blocks' /\ block'[t].ptr = p
    BY <1>1, <1>4, <1>5, <1>7 DEF OwnBlock
  <2>2. ASSUME NEW u \in Threads \ {t}, pc[u] # "idle" PROVE block[u].ptr # p
    BY <2>2 DEF Sound, CallOwnsBlock
  <2> QED BY <1>4, <1>5, <1>9, <2>1, <2>2 DEF Sound, CallOwnsBlock, Moves
<1>12. HeldHaveEntries'
  BY <1>4 DEF Sound, HeldHaveEntries, HasMagicBytes
<1>13. CallsHaveEntries'
  BY <1>4, <1>5, <1>8, <1>9 DEF Sound, CallsHaveEntries, Moves
<1>14. EntriesOwned'
  <2> SUFFICES ASSUME NEW a \in allocated_blocks
               PROVE  a.ptr \in held' \/ \E u \in Threads : pc'[u] \in Mapped /\ a = OwnEntry(u)'
    BY <1>4 DEF EntriesOwned
  <2>1. CASE a.ptr = p
    <3>1. a = b
      BY <1>2, <2>1 DEF BlocksAt
    <3> QED BY <1>5, <1>8, <3>1 DEF Mapped
  <2>2. CASE a.ptr # p /\ a.ptr \in held
    BY <1>4, <2>2
  <2>3. CASE \E u \in Threads : pc[u] \in Mapped /\ a = OwnEntry(u)
    <3>1. PICK u \in Threads : pc[u] \in Mapped /\ a = OwnEntry(u)
      BY <2>3
    <3>2. u # t
      BY <1>4, <3>1 DEF Mapped
    <3> QED BY <1>5, <1>9, <3>1, <3>2 DEF Moves
  <2> QED BY <2>1, <2>2, <2>3 DEF Sound, EntriesOwned
<1>15. MagicsApart'
  <2>1. ASSUME NEW u \in Threads \ {t} PROVE block[u].magic_bytes # b.magic_bytes
    <3> SUFFICES ASSUME block[u].magic_bytes = b.magic_bytes PROVE FALSE
      OBVIOUS
    <3>1. block[u].ptr = p
      BY <1>1 DEF Sound, MagicsApart
    <3>2. p # Null
      BY <1>1, <1>6, CheckerAssumption DEF CheckedBlocks, Cells
    <3>3. pc[u] # "idle"
      BY <3>1, <3>2 DEF Shape, CallShape, NoBlock
    <3> QED BY <3>1, <3>3 DEF Sound, CallOwnsBlock
  <2>2. \A a \in allocated_blocks : a.magic_bytes = b.magic_bytes => a = b
    BY DEF Sound, MagicsApart
  <2>3. \A u \in Threads \ {t} : block'[u] = block[u]
    BY <1>5 DEF Moves
  <2> QED BY <1>4, <1>5, <2>1, <2>2, <2>3 DEF Sound, MagicsApart
<1>16. ContentKept'
  BY <1>1, <1>4, <1>5 DEF Sound, ContentKept, CallContent, HasMagicBytes, Moves, New
<1>17. AnswersValid'
  BY <1>4, <1>5 DEF Sound, AnswersValid, Valid, Moves, New
<1>18. ~Failed'
  BY <1>4, <1>5 DEF Sound, Failed, Moves
<1> QED BY <1>10, <1>11, <1>12, <1>13, <1>14, <1>15, <1>16, <1>17, <1>18 DEF Sound

LEMMA EraseSound ==
  ASSUME Shape, Sound, NEW t \in Threads, Erase(t)
  PROVE  Sound'
<1> DEFINE own == BlocksAt(block[t].ptr)
<1>1. pc[t] = "erase" /\ call[t].op \in {"free", "realloc"}
  BY DEF Erase, Shape, CallShape
<1>2. OwnEntry(t) \in own
  BY <1>1 DEF Sound, CallsHaveEntries, Mapped, BlocksAt, OwnEntry
<1>3. /\ allocated_blocks' = allocated_blocks \ own
      /\ pc' = [pc EXCEPT ![t] = call[t].op]
      /\ UNCHANGED <<heap_end, blocks, memory, committed, held, call, block>>
  BY <1>2 DEF Erase, Goto
<1>4. pc'[t] = call[t].op /\ \A u \in Threads \ {t} : pc'[u] = pc[u]
  BY <1>3 DEF Shape, TypeOK
<1>5. \A u \in Threads : OwnBlock(u)' = OwnBlock(u) /\ OwnEntry(u)' = OwnEntry(u)
  BY <1>1, <1>3, <1>4 DEF OwnBlock, OwnEntry, OwnSize, New
<1>6. \A u \in Threads : (pc'[u] = "idle") = (pc[u] = "idle")
  BY <1>1, <1>4
<1>7. BlocksApart' /\ CallOwnsBlock'
  BY <1>3, <1>5, <1>6 DEF Sound, BlocksApart, CallOwnsBlock
<1>8. HeldHaveEntries'
  <2> SUFFICES ASSUME NEW p \in held
               PROVE  \E b \in allocated_blocks' :
                        /\ b.ptr = p
                        /\ [ptr |-> p, size |-> b.size] \in blocks
                        /\ HasMagicBytes(p, b.size, b.magic_bytes)'
    BY <1>3 DEF HeldHaveEntries
  <2>1. PICK b \in allocated_blocks : /\ b.ptr = p
                                      /\ [ptr |-> p, size |-> b.size] \in blocks
                                      /\ HasMagicBytes(p, b.size, b.magic_bytes)
    BY DEF Sound, HeldHaveEntries
  <2>2. b \notin own
    BY <1>1, <2>1 DEF Sound, CallOwnsBlock, BlocksAt
  <2> QED BY <1>3, <2>1, <2>2 DEF HasMagicBytes
<1>9. CallsHaveEntries'
  <2> SUFFICES ASSUME NEW u \in Threads, pc'[u] \in Mapped PROVE OwnEntry(u) \in allocated_blocks'
    BY <1>5 DEF CallsHaveEntries
  <2>1. u # t /\ pc[u] \in Mapped /\ pc[u] # "idle"
    BY <1>1, <1>4 DEF Mapped
  <2>2. OwnEntry(u) \in allocated_blocks /\ OwnEntry(u).ptr # block[t].ptr
    BY <1>1, <2>1 DEF Sound, CallsHaveEntries, CallOwnsBlock, OwnEntry
  <2> QED BY <1>3, <2>2 DEF BlocksAt
<1>10. EntriesOwned'
  <2> SUFFICES ASSUME NEW a \in allocated_blocks, a \notin own, a.ptr \notin held
               PROVE  \E u \in Threads : pc'[u] \in Mapped /\ a = OwnEntry(u)
    BY <1>3, <1>5 DEF EntriesOwned
  <2>1. PICK u \in Threads : pc[u] \in Mapped /\ a = OwnEntry(u)
    BY DEF Sound, EntriesOwned
  <2>2. u # t
    BY <2>1 DEF OwnEntry, BlocksAt
  <2> QED BY <1>4, <2>1, <2>2
<1>11. MagicsApart'
  BY <1>3 DEF Sound, MagicsApart
<1>12. ContentKept'
  BY <1>1, <1>3, <1>4 DEF Sound, ContentKept, CallContent, HasMagicBytes, New
<1>13. AnswersValid' /\ ~Failed'
  BY <1>1, <1>3, <1>4 DEF Sound, AnswersValid, Valid, Failed, New
<1> QED BY <1>7, <1>8, <1>9, <1>10, <1>11, <1>12, <1>13 DEF Sound

LEMMA InsertSound ==
  ASSUME Shape, Sound, NEW t \in Threads, Insert(t)
  PROVE  Sound'
<1> DEFINE magic == MagicBytes(t)
           b == [ptr |-> block[t].ptr, size |-> call[t].size, magic_bytes |-> magic]
<1>1. pc[t] = "insert" /\ call[t].op \in {"malloc", "calloc", "realloc"}
  BY DEF Insert, Shape, CallShape
<1>2. BlocksAt(block[t].ptr) = {}
  BY <1>1, NoEntryYet DEF Mapped
<1>3. /\ allocated_blocks' = allocated_blocks \cup {b}
      /\ block' = [block EXCEPT ![t].magic_bytes = magic]
      /\ pc' = [pc EXCEPT ![t] = IF call[t].op = "realloc" THEN "compare" ELSE "fill"]
      /\ UNCHANGED <<heap_end, blocks, memory, committed, held, call>>
  BY <1>2 DEF Insert, Goto
<1>4. /\ magic # Junk
      /\ \A a \in allocated_blocks : a.magic_bytes # magic
      /\ \A u \in Threads \ {t} : block[u].magic_bytes # magic
  <2>1. CASE call[t].op = "realloc"
    <3>1. magic = block[t].magic_bytes
      BY <2>1 DEF MagicBytes
    <3>2. magic # Junk
      BY <1>1, <2>1, <3>1, FS_CardinalityType, CheckerAssumption
      DEF Shape, BlockShape, Magic, Junk
    <3>3. \A a \in allocated_blocks : a.magic_bytes # magic
      BY <1>2, <3>1 DEF Sound, MagicsApart, BlocksAt
    <3>4. \A u \in Threads \ {t} : block[u].magic_bytes # magic
      BY <3>1, <3>2 DEF Sound, MagicsApart
    <3> QED BY <3>2, <3>3, <3>4
  <2>2. CASE call[t].op # "realloc"
    <3>1. magic = FreshMagic
      BY <2>2 DEF MagicBytes
    <3>2. block[t].magic_bytes = Junk
      BY <1>1, <2>2 DEF Shape, BlockShape
    <3> HIDE DEF magic
    <3> QED BY <3>1, <3>2, FreshMagicIsFresh
  <2> QED BY <2>1, <2>2
<1>5. /\ pc'[t] = IF call[t].op = "realloc" THEN "compare" ELSE "fill"
      /\ block'[t].ptr = block[t].ptr /\ block'[t].size = block[t].size
      /\ block'[t].magic_bytes = magic
      /\ \A u \in Threads \ {t} : pc'[u] = pc[u] /\ block'[u] = block[u]
  BY <1>3 DEF Shape, TypeOK
<1> HIDE DEF magic
<1>6. \A u \in Threads : OwnBlock(u)' = OwnBlock(u)
  BY <1>1, <1>3, <1>5 DEF OwnBlock, OwnSize, New
<1>7. OwnEntry(t)' = b /\ \A u \in Threads \ {t} : OwnEntry(u)' = OwnEntry(u)
  BY <1>1, <1>3, <1>5 DEF OwnEntry, OwnSize, New
<1> HIDE DEF b
<1>8. BlocksApart'
  BY <1>3 DEF Sound, BlocksApart
<1>9. CallOwnsBlock'
  BY <1>1, <1>3, <1>5, <1>6 DEF Sound, CallOwnsBlock
<1>10. HeldHaveEntries'
  BY <1>3 DEF Sound, HeldHaveEntries, HasMagicBytes
<1>11. CallsHaveEntries'
  BY <1>3, <1>5, <1>7 DEF Sound, CallsHaveEntries
<1>12. EntriesOwned'
  <2>1. pc'[t] \in Mapped
    BY <1>5 DEF Mapped
  <2>2. pc[t] \notin Mapped
    BY <1>1 DEF Mapped
  <2> QED BY <1>3, <1>5, <1>7, <2>1, <2>2 DEF Sound, EntriesOwned
<1>13. MagicsApart'
  <2>1. \A a, c \in allocated_blocks' : a.magic_bytes = c.magic_bytes => a = c
    BY <1>3, <1>4 DEF Sound, MagicsApart, b
  <2>2. \A u \in Threads, a \in allocated_blocks' :
          block'[u].magic_bytes = a.magic_bytes => block'[u].ptr = a.ptr
    BY <1>3, <1>4, <1>5 DEF Sound, MagicsApart, b
  <2>3. \A u, v \in Threads :
          u # v /\ block'[u].magic_bytes = block'[v].magic_bytes => block'[u].magic_bytes = Junk
    BY <1>4, <1>5 DEF Sound, MagicsApart
  <2> QED BY <2>1, <2>2, <2>3 DEF MagicsApart
<1>14. ContentKept'
  <2>1. /\ call[t].op = "realloc" =>
             HasMagicBytes(block[t].ptr, Smaller(block[t].size, call[t].size), magic)
        /\ call[t].op = "calloc" => HasMagicBytes(block[t].ptr, call[t].size, Zero)
    BY <1>1 DEF Sound, ContentKept, CallContent, New, magic, MagicBytes
  <2> QED BY <1>3, <1>5, <2>1 DEF Sound, ContentKept, CallContent, HasMagicBytes
<1>15. AnswersValid'
  BY <1>1, <1>3, <1>5 DEF Sound, AnswersValid, Valid, New
<1>16. ~Failed'
  BY <1>5 DEF Sound, Failed
<1> QED BY <1>8, <1>9, <1>10, <1>11, <1>12, <1>13, <1>14, <1>15, <1>16 DEF Sound

-----------------------------------------------------------------------------
(* A step of thread t that leaves the words of the blocks in `kept` alone,  *)
(* which are all but the one its call is about: what others rely on stays.  *)
LEMMA OthersKeep ==
  ASSUME Shape, Sound, NEW t \in Threads, Moves(t), NEW kept \in SUBSET blocks,
         \A a \in blocks : a \in kept \/ (pc[t] # "idle" /\ a = OwnBlock(t)),
         \A a \in kept : \A c \in CellsOf(a.ptr, a.size) : memory'[c] = memory[c]
  PROVE  /\ \A u \in Threads \ {t} : /\ pc[u] # "idle" => OwnBlock(u) \in kept
                                     /\ OwnBlock(u)' = OwnBlock(u)
                                     /\ OwnEntry(u)' = OwnEntry(u)
                                     /\ CallContent(u)'
         /\ \A p \in held : \E b \in allocated_blocks :
              /\ b.ptr = p
              /\ [ptr |-> p, size |-> b.size] \in kept
              /\ \A c \in CellsOf(p, b.size) : memory'[c] = b.magic_bytes
<1>1. ASSUME NEW u \in Threads \ {t}, pc[u] # "idle" PROVE OwnBlock(u) \in kept
  <2>1. OwnBlock(u) \in blocks
    BY <1>1 DEF Sound, CallOwnsBlock
  <2>2. pc[t] # "idle" => block[u].ptr # block[t].ptr
    BY <1>1 DEF Sound, CallOwnsBlock
  <2> QED BY <2>1, <2>2 DEF OwnBlock
<1>2. ASSUME NEW u \in Threads \ {t} PROVE OwnBlock(u)' = OwnBlock(u) /\ OwnEntry(u)' = OwnEntry(u)
  BY DEF Moves, OwnBlock, OwnEntry, OwnSize
<1>3. ASSUME NEW u \in Threads \ {t} PROVE CallContent(u)'
  <2> USE DEF Moves
  <2>1. ASSUME pc[u] # "idle", NEW c \in CellsOf(block[u].ptr, OwnSize(u))
        PROVE  memory'[c] = memory[c]
    BY <1>1, <2>1 DEF OwnBlock
  <2>2. CallContent(u)
    BY DEF Sound, ContentKept
  <2>3. ASSUME pc[u] \in {"erase", "realloc"}
        PROVE  HasMagicBytes(block[u].ptr, block[u].size, block[u].magic_bytes)'
    BY <2>1, <2>2, <2>3 DEF CallContent, HasMagicBytes, OwnSize, New
  <2>4. ASSUME pc[u] \in New, call[u].op = "realloc"
        PROVE  HasMagicBytes(block[u].ptr, Smaller(block[u].size, call[u].size), block[u].magic_bytes)'
    <3>1. /\ block[u].ptr \in Nat /\ block[u].size \in Nat /\ call[u].size \in Nat
      BY <2>4, CheckerAssumption DEF Shape, TypeOK, Sound, AnswersValid, Cells
    <3>2. ASSUME NEW c \in CellsOf(block[u].ptr, Smaller(block[u].size, call[u].size))
          PROVE  c \in CellsOf(block[u].ptr, call[u].size)
      BY <3>1 DEF CellsOf, Smaller, Cells
    <3>3. pc[u] # "idle" /\ OwnSize(u) = call[u].size
      BY <2>4 DEF OwnSize, New
    <3> QED BY <2>1, <2>2, <2>4, <3>2, <3>3 DEF CallContent, HasMagicBytes
  <2>5. ASSUME pc[u] \in New, call[u].op = "calloc"
        PROVE  HasMagicBytes(block[u].ptr, call[u].size, Zero)'
    BY <2>1, <2>2, <2>5 DEF CallContent, HasMagicBytes, OwnSize, New
  <2> QED BY <2>3, <2>4, <2>5 DEF CallContent
<1>4. ASSUME NEW p \in held
      PROVE  \E b \in allocated_blocks :
               /\ b.ptr = p
               /\ [ptr |-> p, size |-> b.size] \in kept
               /\ \A c \in CellsOf(p, b.size) : memory'[c] = b.magic_bytes
  <2>1. PICK b \in allocated_blocks : /\ b.ptr = p
                                      /\ [ptr |-> p, size |-> b.size] \in blocks
                                      /\ HasMagicBytes(p, b.size, b.magic_bytes)
    BY DEF Sound, HeldHaveEntries
  <2>2. pc[t] # "idle" => OwnBlock(t).ptr # p
    BY DEF Sound, CallOwnsBlock, OwnBlock
  <2>3. [ptr |-> p, size |-> b.size] \in kept
    BY <2>1, <2>2
  <2> QED BY <2>1, <2>3 DEF HasMagicBytes
<1> QED BY <1>1, <1>2, <1>3, <1>4

(* The words of blocks that do not overlap the one written.                 *)
LEMMA WriteApart ==
  ASSUME NEW w \in Blocks, NEW a \in Blocks, ~Overlap(w.ptr, w.size, a),
         \A c \in Cells \ CellsOf(w.ptr, w.size) : memory'[c] = memory[c]
  PROVE  \A c \in CellsOf(a.ptr, a.size) : memory'[c] = memory[c]
<1>1. ~Overlap(a.ptr, a.size, w)
  BY DEF Overlap
<1> QED BY <1>1, NoCommonCell DEF CellsOf

(* A call ends and its block is the caller's.                               *)
LEMMA HandOverSound ==
  ASSUME Shape, Sound, NEW t \in Threads, pc[t] \in {"fill", "compare"},
         \A c \in CellsOf(block[t].ptr, call[t].size) : memory'[c] = block[t].magic_bytes,
         \A c \in Cells \ CellsOf(block[t].ptr, call[t].size) : memory'[c] = memory[c],
         held' = held \cup {block[t].ptr}, Return(t),
         UNCHANGED <<heap_end, blocks, committed, allocated_blocks>>
  PROVE  Sound'
<1> DEFINE own == block[t].ptr
<1>1. /\ pc'[t] = "idle" /\ block'[t] = NoBlock /\ Moves(t)
  BY DEF Return, Goto, Shape, TypeOK, Moves
<1>2. pc[t] # "idle" /\ OwnSize(t) = call[t].size
  BY DEF OwnSize, New
<1>3. OwnBlock(t) \in blocks /\ own \notin held /\ OwnEntry(t) \in allocated_blocks
  BY <1>2 DEF Sound, CallOwnsBlock, CallsHaveEntries, Mapped
<1> DEFINE kept == blocks \ {OwnBlock(t)}
<1>4. ASSUME NEW a \in kept, NEW c \in CellsOf(a.ptr, a.size) PROVE memory'[c] = memory[c]
  <2>1. a \in Blocks /\ OwnBlock(t) \in Blocks
    BY <1>3 DEF Shape, TypeOK, Blocks
  <2>2. ~Overlap(OwnBlock(t).ptr, OwnBlock(t).size, a)
    BY <1>3 DEF Sound, BlocksApart
  <2>3. OwnBlock(t).ptr = own /\ OwnBlock(t).size = call[t].size
    BY <1>2 DEF OwnBlock
  <2> QED BY <2>1, <2>2, <2>3, WriteApart
<1>5. /\ \A u \in Threads \ {t} : /\ pc[u] # "idle" => OwnBlock(u) \in kept
                                  /\ OwnBlock(u)' = OwnBlock(u)
                                  /\ OwnEntry(u)' = OwnEntry(u)
                                  /\ CallContent(u)'
      /\ \A p \in held : \E b \in allocated_blocks :
           /\ b.ptr = p
           /\ [ptr |-> p, size |-> b.size] \in kept
           /\ \A c \in CellsOf(p, b.size) : memory'[c] = b.magic_bytes
  <2>1. kept \in SUBSET blocks /\ \A a \in blocks : a \in kept \/ (pc[t] # "idle" /\ a = OwnBlock(t))
    BY <1>2
  <2> HIDE DEF kept
  <2> QED BY <1>1, <1>4, <2>1, OthersKeep
<1>6. BlocksApart'
  BY DEF Sound, BlocksApart
<1>7. CallOwnsBlock'
  BY <1>1, <1>2, <1>5 DEF Sound, CallOwnsBlock, Moves
<1>8. HeldHaveEntries'
  <2> SUFFICES ASSUME NEW p \in held'
               PROVE  \E b \in allocated_blocks :
                        /\ b.ptr = p
                        /\ [ptr |-> p, size |-> b.size] \in blocks
                        /\ HasMagicBytes(p, b.size, b.magic_bytes)'
    BY DEF HeldHaveEntries
  <2>1. CASE p \in held
    BY <1>5, <2>1 DEF HasMagicBytes
  <2>2. CASE p = own
    <3>1. OwnEntry(t).ptr = p /\ OwnEntry(t).size = call[t].size
          /\ OwnEntry(t).magic_bytes = block[t].magic_bytes
      BY <1>2, <2>2 DEF OwnEntry
    <3>2. [ptr |-> p, size |-> OwnEntry(t).size] \in blocks
      BY <1>2, <1>3, <2>2, <3>1 DEF OwnBlock
    <3>3. \A c \in CellsOf(p, OwnEntry(t).size) : memory'[c] = OwnEntry(t).magic_bytes
      BY <2>2, <3>1
    <3> QED BY <1>3, <3>1, <3>2, <3>3 DEF HasMagicBytes
  <2> QED BY <2>1, <2>2
<1>9. CallsHaveEntries'
  BY <1>1, <1>5 DEF Sound, CallsHaveEntries, Moves, Mapped
<1>10. EntriesOwned'
  <2> SUFFICES ASSUME NEW a \in allocated_blocks, a.ptr \notin held'
               PROVE  \E u \in Threads : pc'[u] \in Mapped /\ a = OwnEntry(u)'
    BY DEF EntriesOwned
  <2>1. PICK u \in Threads : pc[u] \in Mapped /\ a = OwnEntry(u)
    BY DEF Sound, EntriesOwned
  <2>2. u # t
    BY <2>1 DEF OwnEntry
  <2> QED BY <1>1, <1>5, <2>1, <2>2 DEF Moves
<1>11. MagicsApart'
  <2>1. ASSUME NEW a \in allocated_blocks PROVE a.magic_bytes # Junk
    BY FS_CardinalityType, CheckerAssumption DEF Shape, TypeOK, CheckedBlocks, Magic, Junk
  <2> QED BY <1>1, <2>1 DEF Sound, MagicsApart, Moves, NoBlock
<1>12. ContentKept'
  BY <1>1, <1>5 DEF ContentKept, CallContent, New
<1>13. AnswersValid'
  BY <1>1 DEF Sound, AnswersValid, Valid, Moves, New
<1>14. ~Failed'
  BY <1>1 DEF Sound, Failed, Moves
<1> QED BY <1>6, <1>7, <1>8, <1>9, <1>10, <1>11, <1>12, <1>13, <1>14 DEF Sound

LEMMA FillSound ==
  ASSUME Shape, Sound, NEW t \in Threads, FillNewBlock(t)
  PROVE  Sound'
<1>1. pc[t] = "fill"
  BY DEF FillNewBlock
<1>2. call[t].op = "calloc" => HasMagicBytes(block[t].ptr, call[t].size, Zero)
  BY <1>1 DEF Sound, ContentKept, CallContent, New
<1>3. /\ FillMagicBytes(block[t].ptr, call[t].size, block[t].magic_bytes)
      /\ held' = held \cup {block[t].ptr}
      /\ Return(t)
      /\ UNCHANGED <<heap_end, blocks, committed, allocated_blocks>>
  BY <1>2 DEF FillNewBlock
<1>4. /\ \A c \in CellsOf(block[t].ptr, call[t].size) : memory'[c] = block[t].magic_bytes
      /\ \A c \in Cells \ CellsOf(block[t].ptr, call[t].size) : memory'[c] = memory[c]
  BY <1>3 DEF FillMagicBytes, CellsOf
<1> QED BY <1>1, <1>3, <1>4, HandOverSound

LEMMA CompareSound ==
  ASSUME Shape, Sound, NEW t \in Threads, CompareMoved(t)
  PROVE  Sound'
<1> DEFINE p    == block[t].ptr
           size == call[t].size
           orig == block[t].size
<1>1. pc[t] = "compare" /\ call[t].op = "realloc"
  BY DEF CompareMoved, Shape, CallShape
<1>2. HasMagicBytes(p, Smaller(orig, size), block[t].magic_bytes)
  BY <1>1 DEF Sound, ContentKept, CallContent, New
<1>3. /\ IF size > orig THEN FillMagicBytes(p, size, block[t].magic_bytes) ELSE UNCHANGED memory
      /\ held' = held \cup {p}
      /\ Return(t)
      /\ UNCHANGED <<heap_end, blocks, committed, allocated_blocks>>
  BY <1>2 DEF CompareMoved, ComparedSize, Refills
<1>4. /\ \A c \in CellsOf(p, size) : memory'[c] = block[t].magic_bytes
      /\ \A c \in Cells \ CellsOf(p, size) : memory'[c] = memory[c]
  <2>1. CASE size > orig
    BY <1>3, <2>1 DEF FillMagicBytes, CellsOf
  <2>2. CASE ~(size > orig)
    <3>1. size \in Nat /\ orig \in Nat
      BY DEF Shape, TypeOK
    <3>2. Smaller(orig, size) = size
      BY <2>2, <3>1 DEF Smaller
    <3> QED BY <1>2, <1>3, <2>2, <3>2 DEF HasMagicBytes
  <2> QED BY <2>1, <2>2
<1> QED BY <1>1, <1>3, <1>4, HandOverSound

(* The allocator gets a block back and may write to it at once.             *)
LEMMA CallFreeSound ==
  ASSUME Shape, Sound, NEW t \in Threads, CallFree(t), committed' = {}
  PROVE  Sound'
<1> DEFINE own    == [ptr |-> block[t].ptr, size |-> block[t].size]
           others == blocks \ {own}
           taken  == [c \in Cells |->
                       IF c \in CellsOf(own.ptr, own.size)
                            /\ \A b \in others : c \notin CellsOf(b.ptr, b.size)
                         THEN Junk ELSE memory[c]]
<1>1. /\ pc[t] = "free"
      /\ blocks' = others
      /\ Return(t)
      /\ UNCHANGED <<heap_end, held, allocated_blocks>>
  BY DEF CallFree
<1>2. PICK s \in Scribbles(taken, others) : memory' = s.mem /\ committed' = committed \cup s.kind
  BY DEF CallFree
<1>3. memory' = taken
  <2>1. taken \in [Cells -> Contents]
    BY DEF Shape, TypeOK, Contents
  <2> HIDE DEF taken, others
  <2>2. s.kind = {}
    BY <1>2
  <2> QED BY <1>2, <2>1, <2>2, ScribblesTypes
<1>4. OwnBlock(t) = own /\ own \in blocks
  BY <1>1 DEF OwnBlock, OwnSize, New, Sound, CallOwnsBlock
<1>5. /\ pc'[t] = "idle" /\ block'[t] = NoBlock /\ Moves(t)
  BY <1>1 DEF Return, Goto, Shape, TypeOK, Moves
<1>6. \A a \in others : \A c \in CellsOf(a.ptr, a.size) : memory'[c] = memory[c]
  BY <1>3 DEF CellsOf
<1> HIDE DEF own, taken
<1>7. /\ \A u \in Threads \ {t} : /\ pc[u] # "idle" => OwnBlock(u) \in others
                                  /\ OwnBlock(u)' = OwnBlock(u)
                                  /\ OwnEntry(u)' = OwnEntry(u)
                                  /\ CallContent(u)'
      /\ \A p \in held : \E b \in allocated_blocks :
           /\ b.ptr = p
           /\ [ptr |-> p, size |-> b.size] \in others
           /\ \A c \in CellsOf(p, b.size) : memory'[c] = b.magic_bytes
  <2>1. /\ others \in SUBSET blocks
        /\ \A a \in blocks : a \in others \/ (pc[t] # "idle" /\ a = OwnBlock(t))
    BY <1>1, <1>4
  <2> HIDE DEF others
  <2> QED BY <1>5, <1>6, <2>1, OthersKeep
<1>8. BlocksApart'
  BY <1>1 DEF Sound, BlocksApart
<1>9. CallOwnsBlock'
  BY <1>1, <1>5, <1>7 DEF Sound, CallOwnsBlock, Moves
<1>10. HeldHaveEntries'
  BY <1>1, <1>7 DEF HeldHaveEntries, HasMagicBytes
<1>11. CallsHaveEntries'
  BY <1>1, <1>5, <1>7 DEF Sound, CallsHaveEntries, Moves, Mapped
<1>12. EntriesOwned'
  BY <1>1, <1>5, <1>7 DEF Sound, EntriesOwned, Moves, Mapped
<1>13. MagicsApart'
  <2>1. ASSUME NEW a \in allocated_blocks PROVE a.magic_bytes # Junk
    BY FS_CardinalityType, CheckerAssumption DEF Shape, TypeOK, CheckedBlocks, Magic, Junk
  <2> QED BY <1>1, <1>5, <2>1 DEF Sound, MagicsApart, Moves, NoBlock
<1>14. ContentKept'
  BY <1>5, <1>7 DEF ContentKept, CallContent, New
<1>15. AnswersValid'
  BY <1>1, <1>5 DEF Sound, AnswersValid, Valid, Moves, New
<1>16. ~Failed'
  BY <1>5 DEF Sound, Failed, Moves
<1> QED BY <1>8, <1>9, <1>10, <1>11, <1>12, <1>13, <1>14, <1>15, <1>16 DEF Sound

(* A sound answer: `p` is where nothing of `others` is.                     *)
LEMMA AnswerSound ==
  ASSUME Shape, Sound, NEW t \in Threads, pc[t] \notin Mapped, Moves(t),
         NEW others \in SUBSET blocks,
         \A a \in blocks : a \in others \/ (pc[t] # "idle" /\ a = OwnBlock(t)),
         NEW p \in Cells, NEW size \in Nat \ {0},
         pc'[t] = "validate", call'[t].size = size, block'[t].ptr = p,
         block'[t].magic_bytes = block[t].magic_bytes,
         heap_end' \in Nat, heap_end <= heap_end', Valid(t)',
         \A b \in others : ~Overlap(p, size, b),
         blocks' = others \cup {[ptr |-> p, size |-> size]},
         \A c \in Cells \ CellsOf(p, size) : memory'[c] = memory[c],
         CallContent(t)',
         UNCHANGED <<held, allocated_blocks>>
  PROVE  Sound'
<1> DEFINE new == [ptr |-> p, size |-> size]
<1>1. new \in Blocks /\ others \subseteq Blocks /\ new.ptr = p /\ new.size = size
  BY DEF Blocks, Shape, TypeOK
<1>2. ASSUME NEW a \in others PROVE a.ptr # p
  BY <1>1, CheckerAssumption DEF Overlap, Blocks, Cells
<1>3. \A a \in others : \A c \in CellsOf(a.ptr, a.size) : memory'[c] = memory[c]
  BY <1>1, WriteApart
<1>4. OwnBlock(t)' = new
  BY DEF OwnBlock, OwnSize, New
<1> HIDE DEF new
<1>5. /\ \A u \in Threads \ {t} : /\ pc[u] # "idle" => OwnBlock(u) \in others
                                  /\ OwnBlock(u)' = OwnBlock(u)
                                  /\ OwnEntry(u)' = OwnEntry(u)
                                  /\ CallContent(u)'
      /\ \A q \in held : \E b \in allocated_blocks :
           /\ b.ptr = q
           /\ [ptr |-> q, size |-> b.size] \in others
           /\ \A c \in CellsOf(q, b.size) : memory'[c] = b.magic_bytes
  BY <1>3, OthersKeep
<1>6. p \notin held
  BY <1>2, <1>5
<1>7. BlocksApart'
  <2>1. \A b \in others : ~Overlap(new.ptr, new.size, b) /\ ~Overlap(b.ptr, b.size, new)
    BY <1>1 DEF Overlap
  <2>2. blocks' = others \cup {new}
    BY DEF new
  <2> QED BY <2>1, <2>2 DEF Sound, BlocksApart
<1>8. CallOwnsBlock'
  <2>1. ASSUME NEW u \in Threads \ {t}, pc[u] # "idle" PROVE block[u].ptr # p
    <3>1. OwnBlock(u) \in others /\ OwnBlock(u).ptr = block[u].ptr
      BY <1>5, <2>1 DEF OwnBlock
    <3> QED BY <1>2, <3>1
  <2>2. OwnBlock(t)' \in blocks'
    BY <1>4 DEF new
  <2> QED BY <1>5, <1>6, <2>1, <2>2 DEF Sound, CallOwnsBlock, Moves
<1>9. HeldHaveEntries'
  BY <1>5 DEF HeldHaveEntries, HasMagicBytes
<1>10. CallsHaveEntries'
  BY <1>5 DEF Sound, CallsHaveEntries, Moves, Mapped
<1>11. EntriesOwned'
  BY <1>5 DEF Sound, EntriesOwned, Moves
<1>12. MagicsApart'
  <2>1. ASSUME NEW b \in allocated_blocks PROVE b.magic_bytes # block[t].magic_bytes
    <3>1. CASE pc[t] = "idle"
      <4>1. block[t].magic_bytes = Junk
        BY <3>1 DEF Shape, CallShape, NoBlock
      <4> QED BY <4>1, FS_CardinalityType, CheckerAssumption
              DEF Shape, TypeOK, CheckedBlocks, Magic, Junk
    <3>2. CASE pc[t] # "idle"
      BY <3>2, NoEntryYet DEF Sound, MagicsApart, BlocksAt
    <3> QED BY <3>1, <3>2
  <2> QED BY <2>1 DEF Sound, MagicsApart, Moves
<1>13. ContentKept'
  BY <1>5 DEF ContentKept
<1>14. AnswersValid'
  <2>1. ASSUME NEW u \in Threads \ {t}, pc'[u] \in New PROVE block'[u].ptr # Null /\ Valid(u)'
    <3>1. /\ pc[u] \in New /\ call'[u] = call[u] /\ block'[u] = block[u]
      BY <2>1 DEF Moves
    <3>2. block[u].ptr # Null /\ Valid(u)
      BY <3>1 DEF Sound, AnswersValid
    <3>3. block[u].ptr \in Nat /\ call[u].size \in Nat /\ heap_end \in Nat
      BY <3>2, CheckerAssumption DEF Shape, TypeOK, Cells
    <3> QED BY <3>1, <3>2, <3>3 DEF Valid
  <2>2. block'[t].ptr # Null
    BY CheckerAssumption DEF Cells
  <2> QED BY <2>1, <2>2 DEF AnswersValid
<1>15. ~Failed'
  BY DEF Sound, Failed, Moves
<1> QED BY <1>7, <1>8, <1>9, <1>10, <1>11, <1>12, <1>13, <1>14, <1>15 DEF Sound

LEMMA MallocSound ==
  ASSUME Shape, Sound, UNCHANGED scenario, NEW t \in Threads, NEW op \in {"malloc", "calloc"},
         NEW size \in Sizes, NEW alignment \in Alignments, Malloc(t, op, size, alignment),
         committed' = {}
  PROVE  Sound'
<1> USE CheckerAssumption
<1>1. CASE size = 0
  <2>1. UNCHANGED vars
    BY <1>1 DEF Malloc, AskForNothing
  <2> QED
    BY <2>1 DEF vars, Sound, BlocksApart, CallOwnsBlock, HeldHaveEntries, CallsHaveEntries,
                EntriesOwned, MagicsApart, ContentKept, CallContent, AnswersValid, Failed, OwnBlock,
                OwnEntry, OwnSize, HasMagicBytes, Valid
<1>2. CASE size # 0
  <2>1. PICK p \in Answers(size), clears \in BOOLEAN :
          /\ clears \/ (op = "calloc" => "not cleared" \in scenario.faults)
          /\ Answer(t, p, size, alignment, blocks,
                    [i \in 0..(size - 1) |-> IF clears THEN Zero
                                             ELSE IF op = "calloc" THEN Junk
                                             ELSE memory[p + i]],
                    {f \in {"not cleared"} : op = "calloc" /\ ~clears /\ p # Null})
          /\ block' = [block EXCEPT ![t] = [NoBlock EXCEPT !.ptr = p, !.size = size]]
    BY <1>2 DEF Malloc
  <2>2. /\ pc[t] = "idle"
        /\ call' = [call EXCEPT ![t] = [op |-> op, size |-> size, alignment |-> alignment]]
        /\ pc' = [pc EXCEPT ![t] = "validate"]
        /\ UNCHANGED <<held, allocated_blocks>>
    BY <1>2 DEF Malloc, Goto
  <2>3. size \in Nat \ {0} /\ alignment \in Nat
    BY <1>2
  <2> DEFINE content == [i \in 0..(size - 1) |-> IF clears THEN Zero
                                             ELSE IF op = "calloc" THEN Junk
                                             ELSE memory[p + i]]
             wrong == {f \in {"not cleared"} : op = "calloc" /\ ~clears /\ p # Null}
  <2>4. ASSUME p # Null, NEW i \in 0..(size - 1) PROVE content[i] \in Contents
    <3>1. p + i \in Cells
      BY <2>3, <2>4 DEF Answers, Cells
    <3> QED BY <3>1 DEF Shape, TypeOK, Contents
  <2>5. wrong \subseteq scenario.faults
    BY <2>1
  <2>6. Answer(t, p, size, alignment, blocks, content, wrong)
    BY <2>1
  <2>7. /\ heap_end' \in 0..Words /\ heap_end <= heap_end'
        /\ p # Null => p \in Cells /\ p + size <= Words
        /\ wrong = {} /\ SoundAnswer(p, size, alignment, blocks, content)
    <3>1. blocks \in SUBSET Blocks /\ TypeOK
      BY DEF Shape, TypeOK, Blocks
    <3> HIDE DEF content, wrong
    <3> QED BY <2>3, <2>4, <2>5, <2>6, <3>1, AnswerEffect
  <2> HIDE DEF content
  <2>8. /\ pc'[t] = "validate" /\ Moves(t)
        /\ call'[t] = [op |-> op, size |-> size, alignment |-> alignment]
        /\ block'[t] = [ptr |-> p, size |-> size, magic_bytes |-> Junk]
    BY <2>1, <2>2 DEF Shape, TypeOK, Moves, NoBlock
  <2>9. block[t].magic_bytes = Junk
    BY <2>2 DEF Shape, CallShape, NoBlock
  <2>10. /\ p \in Cells /\ p # Null /\ p + size <= heap_end'
         /\ Aligned(p, size, alignment)
         /\ \A b \in blocks : ~Overlap(p, size, b)
         /\ blocks' = blocks \cup {[ptr |-> p, size |-> size]}
         /\ \A c \in Cells \ CellsOf(p, size) : memory'[c] = memory[c]
         /\ heap_end' \in Nat /\ heap_end <= heap_end'
    <3>1. /\ p # Null /\ p + size <= heap_end'
          /\ Aligned(p, size, alignment)
          /\ \A b \in blocks : ~Overlap(p, size, b)
          /\ blocks' = blocks \cup {[ptr |-> p, size |-> size]}
      BY <2>7 DEF SoundAnswer
    <3>2. \A c \in Cells \ CellsOf(p, size) : memory'[c] = memory[c]
      BY <2>7 DEF SoundAnswer
    <3>3. p \in Cells
      BY <2>7, <3>1
    <3>4. heap_end' \in Nat
      <4>1. heap_end' \in 0..Words /\ Words \in Nat
        BY <2>7
      <4> QED BY <4>1
    <3>5. heap_end <= heap_end'
      BY <2>7
    <3> QED BY <3>1, <3>2, <3>3, <3>4, <3>5
  <2>11. Valid(t)'
    <3>1. /\ block'[t].ptr = p /\ call'[t].size = size
          /\ call'[t].alignment = alignment
      BY <2>8
    <3> QED BY <2>10, <3>1 DEF Valid, Aligned
  <2>12. CallContent(t)'
    <3>1. ASSUME op = "calloc", NEW c \in CellsOf(p, size) PROVE memory'[c] = Zero
      <4>1. clears
        BY <2>7, <2>10, <3>1
      <4>2. c \in Cells /\ c - p \in 0..(size - 1)
        BY <2>3, <2>10 DEF CellsOf, Cells
      <4>3. content[c - p] = Zero
        BY <4>1, <4>2 DEF content
      <4> QED BY <2>7, <4>2, <4>3 DEF SoundAnswer
    <3>2. /\ block'[t].ptr = p /\ call'[t].size = size /\ call'[t].op = op /\ pc'[t] = "validate"
      BY <2>8
    <3> QED BY <3>1, <3>2 DEF CallContent, HasMagicBytes
  <2>13. pc[t] \notin Mapped
    BY <2>2 DEF Mapped
  <2>14. call'[t].size = size /\ block'[t].ptr = p /\ block'[t].magic_bytes = block[t].magic_bytes
    BY <2>8, <2>9
  <2> QED BY <2>2, <2>3, <2>8, <2>10, <2>11, <2>12, <2>13, <2>14, AnswerSound
<1> QED BY <1>1, <1>2

(* Where the old block is, nothing is in the way of the new one.            *)
LEMMA CallReallocSound ==
  ASSUME Shape, Sound, UNCHANGED scenario, NEW t \in Threads, CallRealloc(t), committed' = {}
  PROVE  Sound'
<1> DEFINE own    == [ptr |-> block[t].ptr, size |-> block[t].size]
           others == blocks \ {own}
           size   == call[t].size
           content(keeps) == [i \in 0..(size - 1) |->
                                IF keeps /\ i < own.size THEN memory[own.ptr + i] ELSE Junk]
           wrong(keeps, p) == {f \in {"content lost"} : ~keeps /\ p # Null}
<1> USE CheckerAssumption
<1>1. PICK p \in Answers(size), keeps \in BOOLEAN :
        /\ keeps \/ "content lost" \in scenario.faults
        /\ Answer(t, p, size, 0, others, content(keeps), wrong(keeps, p))
        /\ block' = [block EXCEPT ![t].ptr = p]
  BY DEF CallRealloc
<1>2. /\ pc[t] = "realloc"
      /\ pc' = [pc EXCEPT ![t] = "validate"]
      /\ UNCHANGED <<held, allocated_blocks, call>>
  BY DEF CallRealloc, Goto
<1>3. /\ size \in Nat \ {0} /\ call[t].op = "realloc"
      /\ block[t].ptr \in Cells /\ block[t].size \in Nat \ {0} /\ block[t].ptr + block[t].size <= Words
  <2>1. call[t].op = "realloc" /\ size > 0 /\ size \in Nat
    BY <1>2 DEF Shape, CallShape, TypeOK
  <2>2. block[t] \in CheckedBlocks /\ block[t].size > 0 /\ block[t].ptr + block[t].size <= Words
    BY <1>2 DEF Shape, BlockShape, Old
  <2> QED BY <2>1, <2>2 DEF CheckedBlocks
<1>4. ASSUME NEW i \in 0..(size - 1) PROVE content(keeps)[i] \in Contents
  <2>1. CASE keeps /\ i < own.size
    <3>1. own.ptr + i \in Cells
      BY <1>3, <2>1 DEF Cells
    <3> QED BY <2>1, <3>1 DEF Shape, TypeOK, Contents
  <2>2. CASE ~(keeps /\ i < own.size)
    BY <2>2 DEF Contents
  <2> QED BY <2>1, <2>2
<1>5. /\ heap_end' \in 0..Words /\ heap_end <= heap_end'
      /\ p # Null => p \in Cells /\ p + size <= Words
      /\ wrong(keeps, p) = {} /\ SoundAnswer(p, size, 0, others, content(keeps))
  <2>1. others \in SUBSET Blocks /\ TypeOK
    BY DEF Shape, TypeOK, Blocks
  <2>2. wrong(keeps, p) \subseteq scenario.faults
    BY <1>1
  <2> HIDE DEF content, others, size, wrong
  <2> QED BY <1>1, <1>3, <1>4, <2>1, <2>2, AnswerEffect
<1>6. /\ p \in Cells /\ p # Null /\ p + size <= heap_end'
      /\ Aligned(p, size, 0)
      /\ \A b \in others : ~Overlap(p, size, b)
      /\ blocks' = others \cup {[ptr |-> p, size |-> size]}
      /\ \A c \in Cells \ CellsOf(p, size) : memory'[c] = memory[c]
      /\ heap_end' \in Nat /\ heap_end <= heap_end'
  <2>1. /\ p # Null /\ p + size <= heap_end'
        /\ Aligned(p, size, 0)
        /\ \A b \in others : ~Overlap(p, size, b)
        /\ blocks' = others \cup {[ptr |-> p, size |-> size]}
    BY <1>5 DEF SoundAnswer
  <2>2. \A c \in Cells \ CellsOf(p, size) : memory'[c] = memory[c]
    BY <1>5 DEF SoundAnswer
  <2>3. p \in Cells
    BY <1>5, <2>1
  <2>4. heap_end' \in Nat
    <3>1. heap_end' \in 0..Words /\ Words \in Nat
      BY <1>5
    <3> QED BY <3>1
  <2>5. heap_end <= heap_end'
    BY <1>5
  <2> QED BY <2>1, <2>2, <2>3, <2>4, <2>5
<1>7. keeps
  BY <1>5, <1>6
<1>8. /\ pc'[t] = "validate" /\ block'[t].ptr = p /\ call'[t] = call[t]
      /\ block'[t].size = block[t].size /\ block'[t].magic_bytes = block[t].magic_bytes
      /\ Moves(t)
  BY <1>1, <1>2 DEF Shape, TypeOK, Moves
<1>9. Valid(t)'
  <2>1. call'[t].alignment = 0 /\ call'[t].size = size
    BY <1>3, <1>8 DEF Shape, CallShape
  <2> QED BY <1>6, <1>8, <2>1 DEF Valid, Aligned
<1>10. CallContent(t)'
  <2>1. ASSUME NEW c \in CellsOf(p, Smaller(block[t].size, size))
        PROVE  memory'[c] = block[t].magic_bytes
    <3>1. /\ c \in CellsOf(p, size) /\ c \in Cells /\ c - p \in 0..(size - 1)
          /\ c - p < block[t].size /\ block[t].ptr + (c - p) \in CellsOf(block[t].ptr, block[t].size)
      BY <1>3, <1>6 DEF CellsOf, Cells, Smaller
    <3>2. HasMagicBytes(block[t].ptr, block[t].size, block[t].magic_bytes)
      BY <1>2 DEF Sound, ContentKept, CallContent
    <3>3. memory[block[t].ptr + (c - p)] = block[t].magic_bytes
      BY <3>1, <3>2 DEF HasMagicBytes
    <3>4. content(keeps)[c - p] = block[t].magic_bytes
      BY <1>7, <3>1, <3>3
    <3> QED BY <1>5, <3>1, <3>4 DEF SoundAnswer
  <2> QED BY <1>3, <1>8, <2>1 DEF CallContent, HasMagicBytes
<1>11. \A a \in blocks : a \in others \/ (pc[t] # "idle" /\ a = OwnBlock(t))
  BY <1>2 DEF OwnBlock, OwnSize, New
<1>12. pc[t] \notin Mapped
  BY <1>2 DEF Mapped
<1>13. call'[t].size = size /\ others \in SUBSET blocks
  BY <1>8
<1> HIDE DEF others, size, content, wrong
<1> QED BY <1>2, <1>3, <1>6, <1>8, <1>9, <1>10, <1>11, <1>12, <1>13, AnswerSound

LEMMA NextSound ==
  ASSUME Shape, Sound, [Next]_vars, committed' = {}
  PROVE  Sound'
<1>1. CASE UNCHANGED vars
  BY <1>1 DEF vars, Sound, BlocksApart, CallOwnsBlock, HeldHaveEntries, CallsHaveEntries,
              EntriesOwned, MagicsApart, ContentKept, CallContent, AnswersValid, Failed, OwnBlock,
              OwnEntry, OwnSize, HasMagicBytes, Valid
<1>2. CASE Next
  <2>1. PICK t \in scenario.threads : Start(t) \/ Continue(t)
    BY <1>2 DEF Next
  <2>2. UNCHANGED scenario
    BY <1>2 DEF Next
  <2>3. t \in Threads
    BY CheckerAssumption DEF Shape, TypeOK
  <2>4. CASE Start(t)
    <3>1. CASE \E p \in held : Release(t, "free", p, 0)
      BY <2>3, <3>1, ReleaseSound
    <3>2. CASE \E p \in held, size \in Sizes \ {0} : Release(t, "realloc", p, size)
      BY <2>3, <3>2, ReleaseSound
    <3>3. CASE \E size \in Sizes, op \in {"malloc", "calloc"}, alignment \in Alignments :
                 Malloc(t, op, size, alignment)
      BY <2>2, <2>3, <3>3, MallocSound
    <3> QED BY <2>4, <3>1, <3>2, <3>3 DEF Start
  <2>5. CASE Continue(t)
    BY <2>2, <2>3, <2>5, ValidateSound, InsertSound, FillSound, EraseSound, CallFreeSound,
       CallReallocSound, CompareSound DEF Continue
  <2> QED BY <2>1, <2>4, <2>5
<1> QED BY <1>1, <1>2

LEMMA NextCInv == CInv /\ [Next]_vars => CInv'
<1> SUFFICES ASSUME CInv, [Next]_vars PROVE CInv'
  OBVIOUS
<1>1. Shape' /\ committed \subseteq committed'
  BY NextShape DEF CInv
<1>2. ASSUME committed' = {} PROVE Sound'
  <2>1. committed = {}
    BY <1>1, <1>2
  <2> QED BY <1>2, <2>1, NextSound DEF CInv
<1> QED BY <1>1, <1>2 DEF CInv

LEMMA CInvAlways == Spec => []CInv
<1>1. Init => CInv
  BY InitShape, InitSound DEF CInv
<1> QED BY <1>1, NextCInv, PTL DEF Spec

(***************************************************************************)
(* An allocator that keeps its contract is never failed, whatever threads  *)
(* call it and however their hooks interleave: an entry is erased before   *)
(* the allocator has the block back, so that whoever gets it next finds no *)
(* entry, and no two calls write magic bytes to the same word.             *)
(***************************************************************************)
THEOREM ConformingAllocatorPasses == Spec => []NoFalseAlarm
<1>1. CInv => NoFalseAlarm
  BY DEF CInv, Sound, NoFalseAlarm
<1> QED BY <1>1, CInvAlways, PTL

(***************************************************************************)
(* The map and the allocator's blocks are in step, every block that no     *)
(* call is using is full of its magic bytes, and no two blocks have the    *)
(* same.                                                                   *)
(***************************************************************************)
THEOREM BlocksAreRecognised == Spec => []BlocksHoldTheirMagic
<1>1. CInv => BlocksHoldTheirMagic
  <2> SUFFICES ASSUME Shape, Sound PROVE
        /\ \A b \in allocated_blocks : \E a \in blocks : a.ptr = b.ptr /\ b.size = a.size
        /\ \A b \in allocated_blocks : b.ptr \in held => HasMagicBytes(b.ptr, b.size, b.magic_bytes)
        /\ \A a, b \in allocated_blocks : a.magic_bytes = b.magic_bytes => a = b
    BY DEF CInv, Shape, BlocksHoldTheirMagic
  <2>1. ASSUME NEW b \in allocated_blocks, b.ptr \in held
        PROVE  [ptr |-> b.ptr, size |-> b.size] \in blocks /\ HasMagicBytes(b.ptr, b.size, b.magic_bytes)
    BY <2>1 DEF Shape, MapShape, Sound, HeldHaveEntries
  <2>2. ASSUME NEW b \in allocated_blocks, b.ptr \notin held
        PROVE  [ptr |-> b.ptr, size |-> b.size] \in blocks
    <3>1. PICK t \in Threads : pc[t] \in Mapped /\ b = OwnEntry(t)
      BY <2>2 DEF Sound, EntriesOwned
    <3>2. OwnBlock(t) \in blocks
      BY <3>1 DEF Sound, CallOwnsBlock, Mapped
    <3> QED BY <3>1, <3>2 DEF OwnBlock, OwnEntry
  <2>3. ASSUME NEW b \in allocated_blocks PROVE \E a \in blocks : a.ptr = b.ptr /\ b.size = a.size
    BY <2>1, <2>2
  <2> QED BY <2>1, <2>3 DEF Sound, MagicsApart
<1> QED BY <1>1, CInvAlways, PTL

-----------------------------------------------------------------------------
(***************************************************************************)
(* What a pass is worth, for a thread `t` that is alone.                   *)
(***************************************************************************)

(* As long as nothing has failed, a block is one that is held, with its     *)
(* entry, or the one the call is about; and magic bytes tell entries apart. *)
Matched(t) ==
  /\ \A a \in blocks :
       \/ \E b \in allocated_blocks : b.ptr \in held /\ b.ptr = a.ptr /\ b.size = a.size
       \/ pc[t] # "idle" /\ a = OwnBlock(t)
  /\ \A p \in held : BlocksAt(p) # {}
  /\ pc[t] \in Mapped \cup Old => block[t].ptr \notin held
  /\ pc[t] \in Mapped => OwnEntry(t) \in allocated_blocks
  /\ \A a, b \in allocated_blocks : a.magic_bytes = b.magic_bytes => a = b
  /\ \A b \in allocated_blocks :
       b.magic_bytes = block[t].magic_bytes => pc[t] \in Mapped /\ b = OwnEntry(t)
  /\ pc[t] \in {"erase", "realloc"} =>
       HasMagicBytes(block[t].ptr, block[t].size, block[t].magic_bytes)

(* A fault has left its mark on a block that is held, which stays there     *)
(* until the block is looked at,                                            *)
Damaged(b) == \E c \in CellsOf(b.ptr, b.size) : memory[c] # b.magic_bytes
HeldDamaged == \E b \in allocated_blocks : b.ptr \in held /\ Damaged(b)

(* or it shows in the block that the call is about.                         *)
AnswerWrong(t) ==
  \/ /\ pc[t] = "validate"
     /\ block[t].ptr = Null \/ block[t].ptr + call[t].size > heap_end
  \/ /\ pc[t] \in {"validate", "insert", "fill"} /\ call[t].op = "calloc"
     /\ ~HasMagicBytes(block[t].ptr, call[t].size, Zero)
  \/ /\ pc[t] \in {"validate", "insert", "compare"} /\ call[t].op = "realloc"
     /\ ~HasMagicBytes(block[t].ptr, Smaller(block[t].size, call[t].size), block[t].magic_bytes)
  \/ /\ pc[t] \in {"validate", "insert", "fill"} /\ call[t].op \in {"malloc", "calloc"}
     /\ \E b \in allocated_blocks : b.ptr \in held /\ Overlap(block[t].ptr, call[t].size, b)

FaultsShow(t) == committed \subseteq {"misaligned"} \/ HeldDamaged \/ AnswerWrong(t)

AloneInv ==
  \A t \in Threads : scenario.threads = {t} => Failed \/ (Matched(t) /\ FaultsShow(t))

(* What an answer does to memory, and how a fault in it shows.              *)
AnswerShows(p, size, others, content, wrong) ==
  /\ blocks' = IF p = Null THEN others ELSE others \cup {[ptr |-> p, size |-> size]}
  /\ \A c \in Cells : \/ memory'[c] = Junk
                      \/ p # Null /\ c \in CellsOf(p, size) /\ memory'[c] = content[c - p]
                      \/ ~(p # Null /\ c \in CellsOf(p, size)) /\ memory'[c] = memory[c]
  /\ \/ committed' \subseteq committed \cup wrong \cup {"misaligned"}
     \/ p = Null
     \/ p # Null /\ p + size > heap_end'
     \/ p # Null /\ \E b \in others : Overlap(p, size, b)
     \/ \E b \in others : \E c \in CellsOf(b.ptr, b.size) : memory'[c] = Junk

LEMMA AnswerTrouble ==
  ASSUME NEW t, NEW size, NEW alignment, NEW p, NEW others, NEW content, NEW wrong,
         Answer(t, p, size, alignment, others, content, wrong)
  PROVE  AnswerShows(p, size, others, content, wrong)
<1> DEFINE filled == [c \in Cells |-> IF p # Null /\ c \in CellsOf(p, size)
                                        THEN content[c - p] ELSE memory[c]]
           faults == FaultsOf(p, size, alignment, others, heap_end')
<1>1. /\ blocks' = IF p = Null THEN others ELSE others \cup {[ptr |-> p, size |-> size]}
      /\ \E s \in Scribbles(filled, others) :
           memory' = s.mem /\ committed' = committed \cup wrong \cup s.kind \cup faults
  BY DEF Answer
<1>2. PICK s \in Scribbles(filled, others) :
        memory' = s.mem /\ committed' = committed \cup wrong \cup s.kind \cup faults
  BY <1>1
<1>3. \/ s = [kind |-> {}, mem |-> filled]
      \/ \E c \in UNION {CellsOf(b.ptr, b.size) : b \in others} :
           s = [kind |-> {"dirties blocks"}, mem |-> [filled EXCEPT ![c] = Junk]]
  BY DEF Scribbles
<1>4. \A c \in Cells : memory'[c] = Junk \/ memory'[c] = filled[c]
  <2>1. CASE s = [kind |-> {}, mem |-> filled]
    BY <1>2, <2>1
  <2>2. CASE \E d : s = [kind |-> {"dirties blocks"}, mem |-> [filled EXCEPT ![d] = Junk]]
    <3>1. PICK d : s = [kind |-> {"dirties blocks"}, mem |-> [filled EXCEPT ![d] = Junk]]
      BY <2>2
    <3>2. memory' = [filled EXCEPT ![d] = Junk] /\ DOMAIN filled = Cells
      BY <1>2, <3>1
    <3> HIDE DEF filled
    <3> QED BY <3>2
  <2> QED BY <1>3, <2>1, <2>2
<1>5. \/ s.kind = {}
      \/ \E b \in others : \E c \in CellsOf(b.ptr, b.size) : memory'[c] = Junk
  <2>1. CASE s = [kind |-> {}, mem |-> filled]
    BY <2>1
  <2>2. CASE \E c \in UNION {CellsOf(b.ptr, b.size) : b \in others} :
               s = [kind |-> {"dirties blocks"}, mem |-> [filled EXCEPT ![c] = Junk]]
    <3>1. PICK b \in others : \E c \in CellsOf(b.ptr, b.size) :
                 s = [kind |-> {"dirties blocks"}, mem |-> [filled EXCEPT ![c] = Junk]]
      BY <2>2
    <3>2. PICK c \in CellsOf(b.ptr, b.size) :
                 s = [kind |-> {"dirties blocks"}, mem |-> [filled EXCEPT ![c] = Junk]]
      BY <3>1
    <3>3. c \in Cells /\ memory' = [filled EXCEPT ![c] = Junk]
      BY <1>2, <3>2 DEF CellsOf
    <3>4. memory'[c] = Junk
      BY <3>3
    <3> QED BY <3>4
  <2> QED BY <1>3, <2>1, <2>2
<1>6. \/ faults \subseteq {"misaligned"}
      \/ p = Null
      \/ p # Null /\ p + size > heap_end'
      \/ p # Null /\ \E b \in others : Overlap(p, size, b)
  BY DEF FaultsOf
<1> HIDE DEF faults
<1>7. \/ committed' \subseteq committed \cup wrong \cup {"misaligned"}
      \/ p = Null
      \/ p # Null /\ p + size > heap_end'
      \/ p # Null /\ \E b \in others : Overlap(p, size, b)
      \/ \E b \in others : \E c \in CellsOf(b.ptr, b.size) : memory'[c] = Junk
  BY <1>2, <1>5, <1>6
<1>8. \A c \in Cells : \/ memory'[c] = Junk
                       \/ p # Null /\ c \in CellsOf(p, size) /\ memory'[c] = content[c - p]
                       \/ ~(p # Null /\ c \in CellsOf(p, size)) /\ memory'[c] = memory[c]
  BY <1>4
<1> QED BY <1>1, <1>7, <1>8 DEF AnswerShows

(* The entry of a block that is held has magic bytes that are neither the   *)
(* call's nor what a fault leaves.                                          *)
LEMMA HeldMagic ==
  ASSUME Shape, NEW t \in Threads, Matched(t), NEW b \in allocated_blocks, b.ptr \in held
  PROVE  /\ b.magic_bytes # block[t].magic_bytes
         /\ b.magic_bytes # Junk /\ b.magic_bytes # Zero
<1>1. b.magic_bytes \in Magic
  BY DEF Shape, TypeOK, CheckedBlocks
<1>2. b.magic_bytes # Junk /\ b.magic_bytes # Zero
  BY <1>1, FS_CardinalityType, CheckerAssumption DEF Magic, Junk, Zero
<1>3. b.magic_bytes # block[t].magic_bytes
  <2> SUFFICES ASSUME b.magic_bytes = block[t].magic_bytes PROVE FALSE
    OBVIOUS
  <2>1. pc[t] \in Mapped /\ b = OwnEntry(t)
    BY DEF Matched
  <2> QED BY <2>1 DEF OwnEntry, Matched
<1> QED BY <1>2, <1>3

(* Damage to a held block stays if what is written are not its magic bytes. *)
LEMMA DamageStays ==
  ASSUME HeldDamaged,
         \A b \in allocated_blocks : b.ptr \in held => b \in allocated_blocks' /\ b.ptr \in held',
         \A b \in allocated_blocks : b.ptr \in held =>
           \A c \in CellsOf(b.ptr, b.size) :
             memory[c] # b.magic_bytes => memory'[c] # b.magic_bytes
  PROVE  HeldDamaged'
BY DEF HeldDamaged, Damaged

LEMMA InitAlone == Init => AloneInv
<1> SUFFICES ASSUME Init, NEW t \in Threads PROVE Matched(t) /\ FaultsShow(t)
  BY DEF AloneInv
<1>1. Matched(t)
  BY DEF Init, Matched, NoBlock, Mapped, Old
<1>2. FaultsShow(t)
  BY DEF Init, FaultsShow
<1> QED BY <1>1, <1>2

(* ValidateNewBlock finds what is not in a heap.                            *)
LEMMA ValidateAlone ==
  ASSUME Shape, NEW t \in Threads, Matched(t), FaultsShow(t), ValidateNewBlock(t), pc'[t] # "failed"
  PROVE  Matched(t)' /\ FaultsShow(t)'
<1>1. /\ pc[t] = "validate" /\ Valid(t)
      /\ pc'[t] = "insert"
      /\ UNCHANGED <<heap_end, blocks, memory, committed, held, allocated_blocks, call, block>>
  BY DEF ValidateNewBlock, Goto, Shape, TypeOK
<1>2. OwnBlock(t)' = OwnBlock(t)
  BY <1>1 DEF OwnBlock, OwnSize, New
<1>3. Matched(t)'
  BY <1>1, <1>2 DEF Matched, Mapped, Old, BlocksAt
<1>4. ~(block[t].ptr = Null \/ block[t].ptr + call[t].size > heap_end)
  <2>1. block[t].ptr # Null /\ block[t].ptr + call[t].size <= heap_end
    BY <1>1 DEF Valid
  <2>2. block[t].ptr \in Nat /\ call[t].size \in Nat /\ heap_end \in Nat
    BY <2>1, CheckerAssumption DEF Shape, TypeOK, Cells
  <2> QED BY <2>1, <2>2
<1>5. FaultsShow(t)'
  BY <1>1, <1>4 DEF FaultsShow, HeldDamaged, Damaged, AnswerWrong, HasMagicBytes
<1> QED BY <1>3, <1>5

LEMMA ReleaseAlone ==
  ASSUME Shape, NEW t \in Threads, Matched(t), FaultsShow(t), NEW op \in {"free", "realloc"},
         NEW p \in held, NEW size, Release(t, op, p, size), pc'[t] # "failed"
  PROVE  Matched(t)' /\ FaultsShow(t)'
<1>1. PICK b \in BlocksAt(p) : HasMagicBytes(p, b.size, b.magic_bytes) /\ block' = [block EXCEPT ![t] = b]
  BY DEF Release, Goto, Shape, TypeOK
<1>2. /\ pc[t] = "idle" /\ pc'[t] = "erase" /\ block'[t] = b
      /\ held' = held \ {p}
      /\ UNCHANGED <<heap_end, blocks, memory, committed, allocated_blocks>>
  BY <1>1 DEF Release, Goto, Shape, TypeOK
<1>3. b \in allocated_blocks /\ b.ptr = p /\ \A a \in allocated_blocks : a.ptr = p => a = b
  BY <1>1 DEF BlocksAt, Shape, MapShape
<1>4. OwnSize(t)' = b.size
  BY <1>2 DEF OwnSize, New
<1>5. OwnEntry(t)' = b /\ OwnBlock(t)' = [ptr |-> p, size |-> b.size]
  <2>1. b = [ptr |-> b.ptr, size |-> b.size, magic_bytes |-> b.magic_bytes]
    BY <1>3 DEF Shape, TypeOK, CheckedBlocks
  <2> QED BY <1>2, <1>3, <1>4, <2>1 DEF OwnEntry, OwnBlock
<1>6. Matched(t)'
  <2>1. ASSUME NEW a \in blocks
        PROVE  \/ \E e \in allocated_blocks : e.ptr \in held \ {p} /\ e.ptr = a.ptr /\ e.size = a.size
               \/ a = OwnBlock(t)'
    <3>1. PICK e \in allocated_blocks : e.ptr \in held /\ e.ptr = a.ptr /\ e.size = a.size
      BY <1>2 DEF Matched
    <3>2. CASE e.ptr = p
      <4>1. a = [ptr |-> a.ptr, size |-> a.size]
        BY DEF Shape, TypeOK
      <4> QED BY <1>3, <1>5, <3>1, <3>2, <4>1
    <3>3. CASE e.ptr # p
      BY <3>1, <3>3
    <3> QED BY <3>2, <3>3
  <2>2. \A q \in held' : BlocksAt(q)' # {}
    BY <1>2 DEF Matched, BlocksAt
  <2>3. \A a, c \in allocated_blocks : a.magic_bytes = c.magic_bytes => a = c
    BY DEF Matched
  <2>4. HasMagicBytes(block[t].ptr, block[t].size, block[t].magic_bytes)'
    BY <1>1, <1>2, <1>3 DEF HasMagicBytes
  <2> QED BY <1>2, <1>3, <1>5, <2>1, <2>2, <2>3, <2>4 DEF Matched, Mapped
<1>7. FaultsShow(t)'
  <2>1. CASE HeldDamaged
    <3>1. PICK a \in allocated_blocks : a.ptr \in held /\ Damaged(a)
      BY <2>1 DEF HeldDamaged
    <3>2. a # b
      BY <1>1, <1>3, <3>1 DEF Damaged, HasMagicBytes
    <3>3. a.ptr \in held' /\ Damaged(a)'
      BY <1>2, <1>3, <3>1, <3>2 DEF Damaged
    <3> QED BY <1>2, <3>3 DEF FaultsShow, HeldDamaged
  <2>2. CASE committed \subseteq {"misaligned"}
    BY <1>2, <2>2 DEF FaultsShow
  <2>3. ~AnswerWrong(t)
    BY <1>2 DEF AnswerWrong
  <2> QED BY <2>1, <2>2, <2>3 DEF FaultsShow
<1> QED BY <1>6, <1>7

(* A new entry is made only where there is none, so the call's block is not *)
(* a held one, and what is wrong with it waits for its bytes to be checked. *)
LEMMA InsertAlone ==
  ASSUME Shape, NEW t \in Threads, Matched(t), FaultsShow(t), Insert(t), pc'[t] # "failed"
  PROVE  Matched(t)' /\ FaultsShow(t)'
<1> DEFINE b == [ptr |-> block[t].ptr, size |-> call[t].size, magic_bytes |-> MagicBytes(t)]
<1>1. /\ pc[t] = "insert" /\ BlocksAt(b.ptr) = {}
      /\ allocated_blocks' = allocated_blocks \cup {b}
      /\ block' = [block EXCEPT ![t].magic_bytes = b.magic_bytes]
      /\ pc'[t] = (IF call[t].op = "realloc" THEN "compare" ELSE "fill")
      /\ UNCHANGED <<heap_end, blocks, memory, committed, held, call>>
  BY DEF Insert, Goto, Shape, TypeOK
<1>2. /\ b.ptr = block[t].ptr /\ b.size = call[t].size /\ b.magic_bytes = MagicBytes(t)
      /\ block'[t].ptr = block[t].ptr /\ block'[t].size = block[t].size
      /\ block'[t].magic_bytes = b.magic_bytes
  BY <1>1 DEF Shape, TypeOK
<1>3. b = OwnEntry(t)' /\ OwnBlock(t)' = OwnBlock(t)
  BY <1>1, <1>2 DEF OwnEntry, OwnBlock, OwnSize, New
<1>4. \A a \in allocated_blocks : a.magic_bytes # b.magic_bytes
  <2>1. CASE call[t].op = "realloc"
    BY <1>1, <1>2, <2>1 DEF MagicBytes, Matched, Mapped
  <2>2. CASE call[t].op # "realloc"
    <3>1. block[t].magic_bytes = Junk
      BY <1>1, <2>2 DEF Shape, BlockShape
    <3> QED BY <1>2, <2>2, <3>1, FreshMagicIsFresh DEF MagicBytes
  <2> QED BY <2>1, <2>2
<1>5. block[t].ptr \notin held
  BY <1>1 DEF Matched
<1> HIDE DEF b
<1>6. Matched(t)'
  <2>1. \A p \in held : BlocksAt(p)' # {}
    BY <1>1 DEF Matched, BlocksAt
  <2>2. \A a \in blocks :
          \/ \E e \in allocated_blocks' : e.ptr \in held /\ e.ptr = a.ptr /\ e.size = a.size
          \/ pc'[t] # "idle" /\ a = OwnBlock(t)'
    BY <1>1, <1>3 DEF Matched
  <2>3. pc'[t] \in Mapped /\ pc'[t] \notin {"erase", "realloc"}
    BY <1>1 DEF Mapped
  <2>4. \A a, e \in allocated_blocks' : a.magic_bytes = e.magic_bytes => a = e
    BY <1>1, <1>4 DEF Matched
  <2>5. \A e \in allocated_blocks' : e.magic_bytes = block'[t].magic_bytes => e = OwnEntry(t)'
    BY <1>1, <1>2, <1>3, <1>4
  <2> QED BY <1>1, <1>2, <1>5, <2>1, <2>2, <2>3, <2>4, <2>5 DEF Matched
<1>7. FaultsShow(t)'
  <2>1. CASE HeldDamaged
    BY <1>1, <2>1, DamageStays DEF FaultsShow
  <2>2. CASE committed \subseteq {"misaligned"}
    BY <1>1, <2>2 DEF FaultsShow
  <2>3. CASE AnswerWrong(t)
    <3>1. CASE call[t].op = "realloc"
      <4>1. ~HasMagicBytes(block[t].ptr, Smaller(block[t].size, call[t].size), block[t].magic_bytes)
        BY <1>1, <2>3, <3>1 DEF AnswerWrong
      <4>2. b.magic_bytes = block[t].magic_bytes
        BY <1>2, <3>1 DEF MagicBytes
      <4> QED BY <1>1, <1>2, <3>1, <4>1, <4>2 DEF FaultsShow, AnswerWrong, HasMagicBytes
    <3>2. CASE call[t].op # "realloc"
      BY <1>1, <1>2, <2>3, <3>2 DEF FaultsShow, AnswerWrong, HasMagicBytes
    <3> QED BY <3>1, <3>2
  <2> QED BY <2>1, <2>2, <2>3 DEF FaultsShow
<1> QED BY <1>6, <1>7

(* Two blocks that overlap have a word in common.                           *)
LEMMA CommonCell ==
  ASSUME NEW p \in Nat, NEW size \in Nat \ {0}, p + size <= Words,
         NEW q \in Nat, NEW width \in Nat \ {0}, q + width <= Words,
         p < q + width, q < p + size
  PROVE  \E c \in CellsOf(p, size) : c \in CellsOf(q, width)
<1>1. CASE p > q
  BY <1>1, CheckerAssumption DEF CellsOf, Cells
<1>2. CASE ~(p > q)
  BY <1>2, CheckerAssumption DEF CellsOf, Cells
<1> QED BY <1>1, <1>2

(* The call ends and its block is a held one.                               *)
LEMMA HandOverAlone ==
  ASSUME Shape, NEW t \in Threads, Matched(t), pc[t] \in {"fill", "compare"},
         \A c \in Cells : \/ memory'[c] = memory[c]
                          \/ memory'[c] = block[t].magic_bytes,
         held' = held \cup {block[t].ptr}, Return(t),
         UNCHANGED <<heap_end, blocks, committed, allocated_blocks>>
  PROVE  Matched(t)' /\ (HeldDamaged => HeldDamaged')
<1>1. pc'[t] = "idle" /\ block'[t] = NoBlock
  BY DEF Return, Goto, Shape, TypeOK
<1>2. /\ OwnEntry(t) \in allocated_blocks
      /\ OwnEntry(t).ptr = block[t].ptr /\ OwnEntry(t).size = OwnBlock(t).size
      /\ OwnBlock(t).ptr = block[t].ptr
  BY DEF Matched, OwnEntry, OwnBlock, Mapped
<1>3. ASSUME NEW a \in blocks
      PROVE  \E b \in allocated_blocks : b.ptr \in held' /\ b.ptr = a.ptr /\ b.size = a.size
  <2>1. CASE a = OwnBlock(t)
    BY <1>2, <2>1
  <2>2. CASE a # OwnBlock(t)
    BY <2>2 DEF Matched
  <2> QED BY <2>1, <2>2
<1>4. \A p \in held' : BlocksAt(p)' # {}
  BY <1>2 DEF Matched, BlocksAt
<1>5. \A b \in allocated_blocks : b.magic_bytes # Junk
  BY FS_CardinalityType, CheckerAssumption DEF Shape, TypeOK, CheckedBlocks, Magic, Junk
<1>6. Matched(t)'
  <2>1. \A a, b \in allocated_blocks : a.magic_bytes = b.magic_bytes => a = b
    BY DEF Matched
  <2>2. block'[t].magic_bytes = Junk
    BY <1>1 DEF NoBlock
  <2> QED BY <1>1, <1>3, <1>4, <1>5, <2>1, <2>2 DEF Matched, Mapped, Old
<1>7. HeldDamaged => HeldDamaged'
  <2> SUFFICES ASSUME HeldDamaged PROVE HeldDamaged'
    OBVIOUS
  <2>1. ASSUME NEW b \in allocated_blocks, b.ptr \in held, NEW c \in CellsOf(b.ptr, b.size),
               memory[c] # b.magic_bytes
        PROVE  memory'[c] # b.magic_bytes
    <3>1. b.magic_bytes # block[t].magic_bytes
      BY <2>1, HeldMagic
    <3> QED BY <2>1, <3>1 DEF CellsOf
  <2> QED BY <2>1, DamageStays
<1> QED BY <1>6, <1>7

(* A calloc-ed block is cleared; where the new block's magic bytes go, an   *)
(* overlapped one has lost its own.                                         *)
LEMMA FillAlone ==
  ASSUME Shape, NEW t \in Threads, Matched(t), FaultsShow(t), FillNewBlock(t), pc'[t] # "failed"
  PROVE  Matched(t)' /\ FaultsShow(t)'
<1>1. /\ pc[t] = "fill"
      /\ call[t].op = "calloc" => HasMagicBytes(block[t].ptr, call[t].size, Zero)
      /\ FillMagicBytes(block[t].ptr, call[t].size, block[t].magic_bytes)
      /\ held' = held \cup {block[t].ptr}
      /\ Return(t)
      /\ UNCHANGED <<heap_end, blocks, committed, allocated_blocks>>
  BY DEF FillNewBlock, Goto, Shape, TypeOK
<1>2. \A c \in Cells : memory'[c] = IF c \in CellsOf(block[t].ptr, call[t].size)
                                      THEN block[t].magic_bytes ELSE memory[c]
  BY <1>1 DEF FillMagicBytes
<1>3. Matched(t)' /\ (HeldDamaged => HeldDamaged')
  BY <1>1, <1>2, HandOverAlone
<1>4. ASSUME AnswerWrong(t) PROVE HeldDamaged'
  <2>1. PICK b \in allocated_blocks : b.ptr \in held /\ Overlap(block[t].ptr, call[t].size, b)
    BY <1>1, <1>4 DEF AnswerWrong
  <2>2. \E c \in CellsOf(block[t].ptr, call[t].size) : c \in CellsOf(b.ptr, b.size)
    <3>1. /\ b.ptr \in Nat /\ b.size \in Nat \ {0} /\ b.ptr + b.size <= Words
          /\ block[t].ptr \in Nat /\ call[t].size \in Nat \ {0}
          /\ block[t].ptr + call[t].size <= Words
      BY <1>1, CheckerAssumption
         DEF Shape, TypeOK, CallShape, BlockShape, MapShape, CheckedBlocks, Cells, New
    <3>2. block[t].ptr < b.ptr + b.size /\ b.ptr < block[t].ptr + call[t].size
      BY <2>1 DEF Overlap
    <3> QED BY <3>1, <3>2, CommonCell
  <2>3. PICK c \in CellsOf(b.ptr, b.size) : memory'[c] = block[t].magic_bytes
    BY <1>2, <2>2 DEF CellsOf
  <2>4. b.magic_bytes # block[t].magic_bytes
    BY <2>1, HeldMagic
  <2> QED BY <1>1, <2>1, <2>3, <2>4 DEF HeldDamaged, Damaged
<1> QED BY <1>1, <1>3, <1>4 DEF FaultsShow

(* The content of a block that was moved is there.                          *)
LEMMA CompareAlone ==
  ASSUME Shape, NEW t \in Threads, Matched(t), FaultsShow(t), CompareMoved(t), pc'[t] # "failed"
  PROVE  Matched(t)' /\ FaultsShow(t)'
<1>1. /\ pc[t] = "compare"
      /\ HasMagicBytes(block[t].ptr, Smaller(block[t].size, call[t].size), block[t].magic_bytes)
      /\ FillMagicBytes(block[t].ptr, call[t].size, block[t].magic_bytes) \/ UNCHANGED memory
      /\ held' = held \cup {block[t].ptr}
      /\ Return(t)
      /\ UNCHANGED <<heap_end, blocks, committed, allocated_blocks>>
  BY DEF CompareMoved, ComparedSize, Goto, Shape, TypeOK
<1>2. \A c \in Cells : memory'[c] = memory[c] \/ memory'[c] = block[t].magic_bytes
  BY <1>1 DEF FillMagicBytes
<1>3. Matched(t)' /\ (HeldDamaged => HeldDamaged')
  BY <1>1, <1>2, HandOverAlone
<1>4. ~AnswerWrong(t)
  BY <1>1 DEF AnswerWrong
<1> QED BY <1>1, <1>3, <1>4 DEF FaultsShow

LEMMA EraseAlone ==
  ASSUME Shape, NEW t \in Threads, Matched(t), FaultsShow(t), Erase(t), pc'[t] # "failed"
  PROVE  Matched(t)' /\ FaultsShow(t)'
<1>1. /\ pc[t] = "erase" /\ pc'[t] \in {"free", "realloc"}
      /\ allocated_blocks' = allocated_blocks \ BlocksAt(block[t].ptr)
      /\ UNCHANGED <<heap_end, blocks, memory, committed, held, call, block>>
  BY DEF Erase, Goto, Shape, TypeOK, CallShape
<1>2. block[t].ptr \notin held
  BY <1>1 DEF Matched, Mapped
<1>3. \A b \in allocated_blocks : b.ptr \in held => b \in allocated_blocks'
  BY <1>1, <1>2 DEF BlocksAt
<1>4. OwnBlock(t)' = OwnBlock(t)
  BY <1>1 DEF OwnBlock, OwnSize, New
<1>5. Matched(t)'
  <2>1. \A p \in held : BlocksAt(p)' # {}
    BY <1>3 DEF Matched, BlocksAt
  <2>2. ASSUME NEW b \in allocated_blocks' PROVE b.magic_bytes # block[t].magic_bytes
    <3>1. b \in allocated_blocks /\ b.ptr # block[t].ptr
      BY <1>1 DEF BlocksAt
    <3> QED BY <3>1 DEF Matched, OwnEntry
  <2>3. HasMagicBytes(block[t].ptr, block[t].size, block[t].magic_bytes)'
    BY <1>1 DEF Matched, HasMagicBytes
  <2>4. \A a \in blocks : \/ \E b \in allocated_blocks' : b.ptr \in held /\ b.ptr = a.ptr /\ b.size = a.size
                          \/ a = OwnBlock(t)'
    BY <1>3, <1>4 DEF Matched
  <2>5. \A a, b \in allocated_blocks' : a.magic_bytes = b.magic_bytes => a = b
    BY <1>1 DEF Matched
  <2>6. pc'[t] \notin Mapped /\ pc'[t] # "idle"
    BY <1>1 DEF Mapped
  <2> QED BY <1>1, <1>2, <2>1, <2>2, <2>3, <2>4, <2>5, <2>6 DEF Matched
<1>6. FaultsShow(t)'
  <2>1. ~AnswerWrong(t)
    BY <1>1 DEF AnswerWrong
  <2>2. HeldDamaged => HeldDamaged'
    BY <1>1, <1>3, DamageStays
  <2> QED BY <1>1, <2>1, <2>2 DEF FaultsShow
<1> QED BY <1>5, <1>6

(* Damage to a held block in an allocator's step that writes nothing but    *)
(* junk, cleared words and the call's own magic bytes.                      *)
LEMMA AllocatorKeepsDamage ==
  ASSUME Shape, NEW t \in Threads, Matched(t), HeldDamaged, UNCHANGED <<held, allocated_blocks>>,
         \A c \in Cells : memory'[c] \in {Junk, Zero, block[t].magic_bytes, memory[c]}
  PROVE  HeldDamaged'
<1>1. ASSUME NEW b \in allocated_blocks, b.ptr \in held, NEW c \in CellsOf(b.ptr, b.size),
             memory[c] # b.magic_bytes
      PROVE  memory'[c] # b.magic_bytes
  <2>1. b.magic_bytes \notin {Junk, Zero, block[t].magic_bytes}
    BY <1>1, HeldMagic
  <2>2. c \in Cells
    BY DEF CellsOf
  <2> QED BY <1>1, <2>1, <2>2
<1> QED BY <1>1, DamageStays

(* A word of another block that turns into junk damages a held block.       *)
LEMMA JunkShows ==
  ASSUME Shape, NEW t \in Threads, Matched(t), UNCHANGED <<held, allocated_blocks>>,
         NEW a \in blocks, pc[t] = "idle" \/ a # OwnBlock(t),
         NEW c \in CellsOf(a.ptr, a.size),
         memory'[c] \in {Junk, Zero, block[t].magic_bytes}
  PROVE  HeldDamaged'
<1>1. PICK b \in allocated_blocks : b.ptr \in held /\ b.ptr = a.ptr /\ b.size = a.size
  BY DEF Matched
<1>2. b.magic_bytes \notin {Junk, Zero, block[t].magic_bytes}
  BY <1>1, HeldMagic
<1> QED BY <1>1, <1>2 DEF HeldDamaged, Damaged

LEMMA CallFreeAlone ==
  ASSUME Shape, NEW t \in Threads, Matched(t), FaultsShow(t), CallFree(t)
  PROVE  Matched(t)' /\ FaultsShow(t)'
<1> DEFINE own    == [ptr |-> block[t].ptr, size |-> block[t].size]
           others == blocks \ {own}
           taken  == [c \in Cells |->
                       IF c \in CellsOf(own.ptr, own.size)
                            /\ \A b \in others : c \notin CellsOf(b.ptr, b.size)
                         THEN Junk ELSE memory[c]]
<1>1. /\ pc[t] = "free" /\ pc'[t] = "idle" /\ block'[t] = NoBlock
      /\ blocks' = others
      /\ UNCHANGED <<heap_end, held, allocated_blocks>>
      /\ \E s \in Scribbles(taken, others) : memory' = s.mem /\ committed' = committed \cup s.kind
  BY DEF CallFree, Return, Goto, Shape, TypeOK
<1>2. PICK s \in Scribbles(taken, others) : memory' = s.mem /\ committed' = committed \cup s.kind
  BY <1>1
<1>3. own = OwnBlock(t)
  BY <1>1 DEF OwnBlock, OwnSize, New
<1>4. Matched(t)'
  <2>1. \A b \in allocated_blocks : b.magic_bytes # block'[t].magic_bytes
    BY <1>1, FS_CardinalityType, CheckerAssumption DEF Shape, TypeOK, CheckedBlocks, Magic, Junk, NoBlock
  <2>2. \A a \in others : \E b \in allocated_blocks : b.ptr \in held /\ b.ptr = a.ptr /\ b.size = a.size
    BY <1>3 DEF Matched
  <2>3. \A p \in held : BlocksAt(p)' # {}
    BY <1>1 DEF Matched, BlocksAt
  <2>4. \A a, b \in allocated_blocks : a.magic_bytes = b.magic_bytes => a = b
    BY DEF Matched
  <2> HIDE DEF others
  <2> QED BY <1>1, <2>1, <2>2, <2>3, <2>4 DEF Matched, Mapped, Old
<1>5. CASE s = [kind |-> {}, mem |-> taken]
  <2>1. \A c \in Cells : memory'[c] \in {Junk, memory[c]}
    BY <1>2, <1>5
  <2>2. HeldDamaged => HeldDamaged'
    BY <1>1, <2>1, AllocatorKeepsDamage
  <2>3. committed' = committed /\ ~AnswerWrong(t)
    BY <1>1, <1>2, <1>5 DEF AnswerWrong
  <2> QED BY <1>4, <2>2, <2>3 DEF FaultsShow
<1>6. CASE \E c \in UNION {CellsOf(b.ptr, b.size) : b \in others} :
             s = [kind |-> {"dirties blocks"}, mem |-> [taken EXCEPT ![c] = Junk]]
  <2>1. PICK b \in others : \E c \in CellsOf(b.ptr, b.size) :
               s = [kind |-> {"dirties blocks"}, mem |-> [taken EXCEPT ![c] = Junk]]
    BY <1>6
  <2>2. PICK c \in CellsOf(b.ptr, b.size) :
               s = [kind |-> {"dirties blocks"}, mem |-> [taken EXCEPT ![c] = Junk]]
    BY <2>1
  <2>3. c \in Cells /\ memory' = [taken EXCEPT ![c] = Junk]
    BY <1>2, <2>2 DEF CellsOf
  <2>4. memory'[c] = Junk
    BY <2>3
  <2>5. HeldDamaged'
    BY <1>1, <1>3, <2>4, JunkShows
  <2> QED BY <1>4, <2>5 DEF FaultsShow
<1>7. s = [kind |-> {}, mem |-> taken]
      \/ \E c \in UNION {CellsOf(b.ptr, b.size) : b \in others} :
           s = [kind |-> {"dirties blocks"}, mem |-> [taken EXCEPT ![c] = Junk]]
  BY DEF Scribbles
<1> QED BY <1>5, <1>6, <1>7

LEMMA MallocAlone ==
  ASSUME Shape, NEW t \in Threads, Matched(t), FaultsShow(t), NEW op \in {"malloc", "calloc"},
         NEW size \in Sizes, NEW alignment \in Alignments, Malloc(t, op, size, alignment),
         pc'[t] # "failed"
  PROVE  Matched(t)' /\ FaultsShow(t)'
<1>1. CASE size = 0
  <2>1. UNCHANGED vars
    BY <1>1 DEF Malloc, AskForNothing, Goto, Shape, TypeOK
  <2> QED
    BY <2>1 DEF vars, Matched, FaultsShow, HeldDamaged, Damaged, AnswerWrong, OwnBlock, OwnEntry,
                OwnSize, BlocksAt, HasMagicBytes
<1>2. CASE size # 0
  <2> DEFINE content(p, clears) == [i \in 0..(size - 1) |-> IF clears THEN Zero
                                                           ELSE IF op = "calloc" THEN Junk
                                                           ELSE memory[p + i]]
             wrong(p, clears) == {f \in {"not cleared"} : op = "calloc" /\ ~clears /\ p # Null}
  <2>1. PICK p \in Answers(size), clears \in BOOLEAN :
          /\ Answer(t, p, size, alignment, blocks, content(p, clears), wrong(p, clears))
          /\ block' = [block EXCEPT ![t] = [NoBlock EXCEPT !.ptr = p, !.size = size]]
    BY <1>2 DEF Malloc
  <2>2. /\ pc[t] = "idle" /\ pc'[t] = "validate"
        /\ call'[t] = [op |-> op, size |-> size, alignment |-> alignment]
        /\ block'[t] = [ptr |-> p, size |-> size, magic_bytes |-> Junk]
        /\ UNCHANGED <<held, allocated_blocks>>
    BY <1>2, <2>1 DEF Malloc, Goto, Shape, TypeOK, NoBlock
  <2>3. size \in Nat \ {0} /\ (p # Null => p \in Cells /\ p + size <= Words)
    BY <1>2, CheckerAssumption DEF Answers
  <2> DEFINE given == content(p, clears)
             faulty == wrong(p, clears)
  <2> HIDE DEF content, wrong, given, faulty
  <2>4. AnswerShows(p, size, blocks, given, faulty)
    <3>1. Answer(t, p, size, alignment, blocks, given, faulty)
      BY <2>1 DEF given, faulty
    <3> QED BY <3>1, AnswerTrouble
  <2>5. \A c \in Cells : memory'[c] \in {Junk, Zero, memory[c]}
    <3> SUFFICES ASSUME NEW c \in Cells, p # Null, c \in CellsOf(p, size)
                 PROVE  given[c - p] \in {Junk, Zero, memory[c]}
      BY <2>4 DEF AnswerShows
    <3>1. c - p \in 0..(size - 1) /\ p + (c - p) = c
      BY <2>3, CheckerAssumption DEF CellsOf, Cells
    <3> QED BY <3>1 DEF given, content
  <2>6. OwnBlock(t)' = [ptr |-> p, size |-> size]
    BY <2>2 DEF OwnBlock, OwnSize, New
  <2>7. Matched(t)'
    <3>1. \A b \in allocated_blocks : b.magic_bytes # Junk
      BY FS_CardinalityType, CheckerAssumption DEF Shape, TypeOK, CheckedBlocks, Magic, Junk
    <3>2. \A a \in blocks' : \/ \E b \in allocated_blocks : b.ptr \in held /\ b.ptr = a.ptr /\ b.size = a.size
                            \/ a = OwnBlock(t)'
      BY <2>2, <2>4, <2>6 DEF AnswerShows, Matched
    <3>3. \A q \in held : BlocksAt(q)' # {}
      BY <2>2 DEF Matched, BlocksAt
    <3>4. \A a, b \in allocated_blocks : a.magic_bytes = b.magic_bytes => a = b
      BY DEF Matched
    <3> QED BY <2>2, <3>1, <3>2, <3>3, <3>4 DEF Matched, Mapped, Old
  <2>8. FaultsShow(t)'
    <3>1. HeldDamaged => HeldDamaged'
      BY <2>2, <2>5, AllocatorKeepsDamage
    <3>2. ASSUME p = Null \/ p + size > heap_end' PROVE AnswerWrong(t)'
      BY <2>2, <3>2 DEF AnswerWrong
    <3>3. ASSUME NEW b \in blocks, p # Null, Overlap(p, size, b) PROVE AnswerWrong(t)'
      <4>1. PICK e \in allocated_blocks : e.ptr \in held /\ e.ptr = b.ptr /\ e.size = b.size
        BY <2>2 DEF Matched
      <4>2. Overlap(p, size, e)
        BY <3>3, <4>1 DEF Overlap
      <4>3. Overlap(block[t].ptr, call[t].size, e)'
        BY <2>2, <4>2 DEF Overlap
      <4> QED BY <2>2, <4>1, <4>3 DEF AnswerWrong
    <3>4. ASSUME NEW b \in blocks, NEW c \in CellsOf(b.ptr, b.size), memory'[c] = Junk PROVE HeldDamaged'
      BY <2>2, <3>4, JunkShows
    <3>5. ASSUME faulty # {} PROVE AnswerWrong(t)'
      <4>1. op = "calloc" /\ ~clears /\ p # Null
        BY <3>5 DEF faulty, wrong
      <4>2. p \in Cells /\ p \in CellsOf(p, size) /\ p - p = 0 /\ 0 \in 0..(size - 1)
        BY <2>3, <4>1, CheckerAssumption DEF CellsOf, Cells
      <4>3. given[p - p] = Junk
        BY <4>1, <4>2 DEF given, content
      <4>4. memory'[p] = Junk /\ Junk # Zero
        BY <2>4, <4>1, <4>2, <4>3 DEF AnswerShows, Junk, Zero
      <4>5. ~HasMagicBytes(block[t].ptr, call[t].size, Zero)'
        BY <2>2, <4>2, <4>4 DEF HasMagicBytes
      <4> QED BY <2>2, <4>1, <4>5 DEF AnswerWrong
    <3>6. ~AnswerWrong(t)
      BY <2>2 DEF AnswerWrong
    <3>7. ASSUME committed' \subseteq committed \cup faulty \cup {"misaligned"}
          PROVE  FaultsShow(t)'
      BY <3>1, <3>5, <3>6, <3>7 DEF FaultsShow
    <3> QED BY <2>4, <3>2, <3>3, <3>4, <3>7 DEF AnswerShows, FaultsShow
  <2> QED BY <2>7, <2>8
<1> QED BY <1>1, <1>2

(* The old content is the block's magic bytes, so wherever the moved block  *)
(* goes, no other keeps its own there.                                      *)
LEMMA CallReallocAlone ==
  ASSUME Shape, NEW t \in Threads, Matched(t), FaultsShow(t), CallRealloc(t)
  PROVE  Matched(t)' /\ FaultsShow(t)'
<1> DEFINE own    == [ptr |-> block[t].ptr, size |-> block[t].size]
           others == blocks \ {own}
           size   == call[t].size
           magic  == block[t].magic_bytes
           content(keeps) == [i \in 0..(size - 1) |->
                                IF keeps /\ i < own.size THEN memory[own.ptr + i] ELSE Junk]
           wrong(p, keeps) == {f \in {"content lost"} : ~keeps /\ p # Null}
<1>1. PICK p \in Answers(size), keeps \in BOOLEAN :
        /\ Answer(t, p, size, 0, others, content(keeps), wrong(p, keeps))
        /\ block' = [block EXCEPT ![t].ptr = p]
  BY DEF CallRealloc
<1>2. /\ pc[t] = "realloc" /\ pc'[t] = "validate" /\ call'[t] = call[t]
      /\ UNCHANGED <<held, allocated_blocks>>
  BY DEF CallRealloc, Goto, Shape, TypeOK
<1>3. /\ block'[t].ptr = p /\ block'[t].size = block[t].size /\ block'[t].magic_bytes = magic
  BY <1>1 DEF Shape, TypeOK
<1>4. /\ size \in Nat \ {0} /\ call[t].op = "realloc" /\ magic \in Magic
      /\ block[t].ptr \in Cells /\ block[t].size \in Nat \ {0} /\ block[t].ptr + block[t].size <= Words
      /\ (p # Null => p \in Cells /\ p + size <= Words)
  <2>1. call[t].op = "realloc" /\ size > 0 /\ size \in Nat
    BY <1>2 DEF Shape, CallShape, TypeOK
  <2>2. block[t] \in CheckedBlocks /\ block[t].size > 0 /\ block[t].ptr + block[t].size <= Words
    BY <1>2 DEF Shape, BlockShape, Old
  <2> QED BY <2>1, <2>2 DEF CheckedBlocks, Answers
<1>5. magic # Junk
  BY <1>4, FS_CardinalityType, CheckerAssumption DEF Magic, Junk
<1>6. own = OwnBlock(t)
  BY <1>2 DEF OwnBlock, OwnSize, New
<1>7. OwnBlock(t)' = [ptr |-> p, size |-> size]
  BY <1>2, <1>3 DEF OwnBlock, OwnSize, New
<1>8. \A a \in others : \E b \in allocated_blocks : b.ptr \in held /\ b.ptr = a.ptr /\ b.size = a.size
  BY <1>6 DEF Matched
<1>9. \A i \in 0..(size - 1) : content(keeps)[i] \in {Junk, magic}
  <2> SUFFICES ASSUME NEW i \in 0..(size - 1), i < block[t].size PROVE memory[block[t].ptr + i] = magic
    OBVIOUS
  <2>1. block[t].ptr + i \in CellsOf(block[t].ptr, block[t].size)
    BY <1>4, CheckerAssumption DEF CellsOf, Cells
  <2> QED BY <1>2, <2>1 DEF Matched, HasMagicBytes
<1> DEFINE given  == content(keeps)
           faulty == wrong(p, keeps)
<1>10. ~keeps => \A i \in 0..(size - 1) : given[i] = Junk
  OBVIOUS
<1>11. \A i \in 0..(size - 1) : given[i] \in {Junk, magic}
  BY <1>9
<1>12. faulty # {} => ~keeps /\ p # Null
  OBVIOUS
<1> HIDE DEF content, wrong, given, faulty
<1>13. AnswerShows(p, size, others, given, faulty)
  <2>1. Answer(t, p, size, 0, others, given, faulty)
    BY <1>1 DEF given, faulty
  <2> QED BY <2>1, AnswerTrouble
<1> HIDE DEF own, others, size, magic
<1>14. ASSUME NEW c \in Cells, p # Null, c \in CellsOf(p, size)
       PROVE  memory'[c] \in {Junk, magic} /\ (~keeps => memory'[c] = Junk)
  <2>1. c - p \in 0..(size - 1)
    BY <1>4, <1>14, CheckerAssumption DEF CellsOf, Cells
  <2> QED BY <1>10, <1>11, <1>13, <1>14, <2>1 DEF AnswerShows
<1>15. \A c \in Cells : memory'[c] \in {Junk, magic, memory[c]}
  BY <1>13, <1>14 DEF AnswerShows
<1>16. Matched(t)'
  <2>1. \A a \in blocks' : \/ \E b \in allocated_blocks : b.ptr \in held /\ b.ptr = a.ptr /\ b.size = a.size
                          \/ a = OwnBlock(t)'
    BY <1>7, <1>8, <1>13 DEF AnswerShows
  <2>2. \A q \in held : BlocksAt(q)' # {}
    BY <1>2 DEF Matched, BlocksAt
  <2>3. \A b \in allocated_blocks : b.magic_bytes # block'[t].magic_bytes
    BY <1>2, <1>3 DEF Matched, Mapped, magic
  <2>4. \A a, b \in allocated_blocks : a.magic_bytes = b.magic_bytes => a = b
    BY DEF Matched
  <2> QED BY <1>2, <2>1, <2>2, <2>3, <2>4 DEF Matched, Mapped, Old
<1>17. FaultsShow(t)'
  <2>1. HeldDamaged => HeldDamaged'
    BY <1>2, <1>15, AllocatorKeepsDamage DEF magic
  <2>2. ASSUME p = Null \/ p + size > heap_end' PROVE AnswerWrong(t)'
    BY <1>2, <1>3, <2>2 DEF AnswerWrong, size
  <2>3. ASSUME NEW b \in others, p # Null, Overlap(p, size, b) PROVE HeldDamaged'
    <3>1. b \in blocks /\ b # OwnBlock(t)
      BY <1>6 DEF others
    <3>2. b.ptr \in Nat /\ b.size \in Nat \ {0} /\ b.ptr + b.size <= Words
      <4>1. PICK e \in allocated_blocks : e.ptr = b.ptr /\ e.size = b.size
        BY <1>8
      <4> QED BY <3>1, <4>1, CheckerAssumption DEF Shape, TypeOK, MapShape, CheckedBlocks, Cells
    <3>3. p \in Nat /\ p + size <= Words /\ p < b.ptr + b.size /\ b.ptr < p + size
      BY <1>4, <2>3, CheckerAssumption DEF Overlap, Cells
    <3>4. PICK c \in CellsOf(p, size) : c \in CellsOf(b.ptr, b.size)
      BY <1>4, <3>2, <3>3, CommonCell DEF size
    <3>5. memory'[c] \in {Junk, magic}
      BY <1>14, <2>3, <3>4 DEF CellsOf
    <3> QED BY <1>2, <3>1, <3>4, <3>5, JunkShows DEF magic
  <2>4. ASSUME NEW b \in others, NEW c \in CellsOf(b.ptr, b.size), memory'[c] = Junk PROVE HeldDamaged'
    <3>1. b \in blocks /\ b # OwnBlock(t)
      BY <1>6 DEF others
    <3> QED BY <1>2, <2>4, <3>1, JunkShows
  <2>5. ASSUME faulty # {} PROVE AnswerWrong(t)'
    <3>1. ~keeps /\ p # Null
      BY <1>12, <2>5
    <3>2. p \in Cells /\ p \in CellsOf(p, size)
      BY <1>4, <3>1, CheckerAssumption DEF CellsOf, Cells, size
    <3>3. p \in CellsOf(p, Smaller(block[t].size, size))
      BY <1>4, <3>1, <3>2, CheckerAssumption DEF CellsOf, Cells, Smaller, size
    <3>4. memory'[p] = Junk
      BY <1>14, <3>1, <3>2
    <3>5. ~HasMagicBytes(block[t].ptr, Smaller(block[t].size, call[t].size), block[t].magic_bytes)'
      BY <1>2, <1>3, <1>5, <3>3, <3>4 DEF HasMagicBytes, size
    <3> QED BY <1>2, <1>4, <3>5 DEF AnswerWrong
  <2>6. ~AnswerWrong(t)
    BY <1>2 DEF AnswerWrong
  <2>7. ASSUME committed' \subseteq committed \cup faulty \cup {"misaligned"}
        PROVE  FaultsShow(t)'
    BY <2>1, <2>5, <2>6, <2>7 DEF FaultsShow
  <2> QED BY <1>13, <2>2, <2>3, <2>4, <2>7 DEF AnswerShows, FaultsShow
<1> QED BY <1>16, <1>17

LEMMA NextAlone ==
  ASSUME Shape, AloneInv, [Next]_vars
  PROVE  AloneInv'
<1>1. CASE UNCHANGED vars
  BY <1>1 DEF vars, AloneInv, Failed, Matched, FaultsShow, HeldDamaged, Damaged, AnswerWrong, OwnBlock,
              OwnEntry, OwnSize, BlocksAt, HasMagicBytes
<1>2. CASE Next
  <2> SUFFICES ASSUME NEW t \in Threads, scenario'.threads = {t}, ~Failed'
               PROVE  Matched(t)' /\ FaultsShow(t)'
    BY DEF AloneInv
  <2>1. UNCHANGED scenario /\ ~Failed /\ pc'[t] # "failed"
    BY <1>2 DEF Next, Failed
  <2>2. Matched(t) /\ FaultsShow(t)
    BY <2>1 DEF AloneInv
  <2>3. Start(t) \/ Continue(t)
    BY <1>2, <2>1 DEF Next
  <2>4. CASE Start(t)
    <3>1. CASE \E p \in held : Release(t, "free", p, 0)
      BY <2>1, <2>2, <3>1, ReleaseAlone
    <3>2. CASE \E p \in held, size \in Sizes \ {0} : Release(t, "realloc", p, size)
      BY <2>1, <2>2, <3>2, ReleaseAlone
    <3>3. CASE \E size \in Sizes, op \in {"malloc", "calloc"}, alignment \in Alignments :
                 Malloc(t, op, size, alignment)
      BY <2>1, <2>2, <3>3, MallocAlone
    <3> QED BY <2>4, <3>1, <3>2, <3>3 DEF Start
  <2>5. CASE Continue(t)
    BY <2>1, <2>2, <2>5, ValidateAlone, InsertAlone, FillAlone, EraseAlone, CallFreeAlone,
       CallReallocAlone, CompareAlone DEF Continue
  <2> QED BY <2>3, <2>4, <2>5
<1> QED BY <1>1, <1>2

(***************************************************************************)
(* When a lone thread has freed everything and the checker has not failed  *)
(* it, the allocator's only fault can be misaligned blocks: each other     *)
(* fault leaves a block the checker still has to look at without the bytes *)
(* it looks for, and nothing that happens in between puts them back.       *)
(***************************************************************************)
THEOREM PassMeansConforming == Spec => []CleanRunMeansConforming
<1>1. Shape /\ AloneInv => CleanRunMeansConforming
  <2> SUFFICES ASSUME Shape, AloneInv, Cardinality(scenario.threads) = 1,
                      \A t \in Threads : pc[t] = "idle", held = {}
               PROVE  committed \subseteq {"misaligned"}
    BY DEF CleanRunMeansConforming
  <2>1. scenario.threads \subseteq Threads
    BY CheckerAssumption DEF Shape, TypeOK
  <2>2. IsFiniteSet(scenario.threads)
    BY <2>1, CheckerAssumption, FS_Subset
  <2>3. PICK t : scenario.threads = {t}
    BY <2>2, FS_Singleton
  <2>4. t \in Threads /\ ~Failed
    BY <2>1, <2>3 DEF Failed
  <2>5. FaultsShow(t)
    BY <2>3, <2>4 DEF AloneInv
  <2> QED BY <2>4, <2>5 DEF FaultsShow, HeldDamaged, AnswerWrong
<1>2. Init => AloneInv
  BY InitAlone
<1>3. Shape /\ AloneInv /\ [Next]_vars => AloneInv'
  BY NextAlone
<1> QED BY <1>1, <1>2, <1>3, ShapeAlways, PTL DEF Spec
=============================================================================
