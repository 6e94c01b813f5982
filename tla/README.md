# A specification of malloc-bench

malloc-bench replays recorded allocation traces against an allocator under
test, on one or many threads, to decide whether the allocator is correct, how
fast it is and how well it uses memory. The repository also holds one complete
allocator, `slab_malloc/mm.c`. This directory holds TLA+ specifications of both,
TLC configurations that check them on small instances and TLAPS proofs of the
properties that matter most.

Paths below are relative to the repository: `src/...` is its source directory of
that name, `slab_malloc/mm.c` the allocator. Run `tlc -config X.cfg M` and
`tlapm M.tla` here.

## 1. The system

### Parts, their state and their operations

| Part | State | Operations | What makes it hard |
|---|---|---|---|
| **TracefileExecutor** (`src/tracefile_executor.h`) | the rewritten trace; `idx`, `done`, the barrier and `status`, shared by the workers | `RewriteIdsToUnique`, `ProcessTracefile`, `ProcessorWorker`, `ProcessLine` | threads in lockstep on a barrier they may leave; errors in the middle of a batch |
| **LocalIdMap**, **BatchContext** (`src/local_id_map.cc`) | per worker: the claimed lines, the batch, the slots that replace its ids | `PrepareBatch`, `MakeFromOps`, `FlushOps` | an operation's input may be made in the batch, before it, or later by another thread |
| **ConcurrentIdMap** (`src/concurrent_id_map.cc`) | a concurrent map from unique ids to a union of a pointer and a parked operation; the queue of operations whose input has come | `AddAllocation`, `AddFree`, `LookupAllocation`, `MaybeSuspendAllocation`, `TakeFromQueue` | insert, assign and push are separate steps; the union has no tag |
| **MallocRunner** (`src/malloc_runner.h`) | none | `Malloc`, `Calloc`, `Realloc`, `Free`: the allocator's call between two hooks | the hooks and the call are not atomic |
| **CorrectnessChecker** (`src/correctness_checker.cc`) | `allocated_blocks_`; the magic bytes in the blocks | hooks before and after each call | an overlap is not looked for when it arises |
| **Utiltest** (`src/utiltest.cc`) | byte counter, two maxima, `size_map_` | hooks; `RecomputeMax`; `ComputeUtilization` | relaxed atomics, a maximum kept by plain exchanges, unsigned differences |
| **Perftest** (`src/perftest.cc`) | none | asks for repetitions, divides | - |
| **Heap** (`src/heap_interface.cc`) | the break `heap_end_` | `sbrk`, `Reset` | a lock-free compare-exchange loop |
| **HeapFactory**, MMapHeap, SimHeap | the set of heaps | `NewInstance`, `DeleteInstance`, `Reset`, `WithInstances` | one reader-writer lock |
| **Allocator interface** (`src/allocator_interface.h`) | `g_heap` | `malloc`, `calloc`, `realloc`, `free` of a bump allocator | first-use initialization; rounding and products that wrap |
| **libc override** (`src/libc_override.cc`) | none | the C and C++ allocation functions over the allocator interface | called by any thread, also from inside the first call |
| **tracefile_parser** (`src/tracefile_parser.cc`) | `id_map`, `available_ids`, `next_id`, `required_pid` | one step per line of a valgrind log; the closing frees | lines of several processes; reuse of pointers and ids |
| **TracefileReader**, **driver**, **tracing** | - | I/O, scoring | - |
| **slab_malloc, slab layer** (`slab_malloc/mm.c`) | slabs with flags, sizes and footers in them; bins; skip list; `LAST_SLAB_ALLOC` | `__int_alloc_slab`, `__int_free_slab`, `__int_free_remainder_slab`, `__int_take_slab` | everything known of a region lives in memory next to users' data |
| **slab_malloc, packed slabs** | per slab a bit vector of one or two levels and a count; a bin per size class | `__int_find_tiny_block`, `__int_slab_init_packed_and_alloc`, `__packed_free` | what is free is recorded three times; slabs change class |
| **slab_malloc, medium and large blocks** | per region a word of byte-sized offsets and allocation bits; bins by size; skip list | `__int_find_medium_block`, `__int_slab_init_large_and_alloc`, `medium_bin_free`, `__int_realloc` | packed words; off-by-ones at the end of a slab; an offset of 0 with two meanings |
| **slab_malloc, exported functions** | none | `malloc`, `calloc`, `realloc`, `free` | a pointer is all there is to find a slab and its kind by; slabs change hands |

How they interact: the driver opens a trace and runs `CorrectnessChecker`,
`Perftest` and `Utiltest` on it, one after the other. Each is a `MallocRunner`
inside a `TracefileExecutor`, which rewrites the trace's ids, starts the workers
and joins them. A worker claims lines from the shared `idx`, turns them into a
batch with its `LocalIdMap`, waits at the barrier twice, performs the batch on
the `MallocRunner`, records what is still allocated in the `ConcurrentIdMap`, and
waits a third time. A `MallocRunner` calls the allocator under test, which gets
memory from a `Heap` of the `HeapFactory` by `sbrk`; `Utiltest` reads the heap's
size from there, `CorrectnessChecker` its bounds.

### What makes each part correct

* *Parsing*: what becomes of the log of one process is a closed trace in which each
  line releases the block it released in the log, with ids below the peak.
* *Rewriting*: a trace is accepted just if it is closed (everything it uses it has
  made, everything made is freed once); the result keeps its dataflow and its ids
  are unique.
* *Replay*: whatever the interleaving, each operation of each repetition is
  performed once, after the one it depends on, with that one's pointer; the replay
  returns; nothing is left parked.
* *Checker*: a correct allocator is never failed; an incorrect one does not pass.
* *Utiltest*: a correct allocator is never failed; bytes add up; the maxima are
  maxima.
* *Heap*: regions are disjoint and within the heap; every call returns.
* *Bump allocator*: one heap is made whoever comes first; blocks are disjoint, mapped
  and as large as was asked, unless the arithmetic wrapped around or the symbol passed
  on less than the caller's size.
* *Slab layer*: the regions tile the heap; what the tags say is so; what is free is
  found; owners' regions stay apart.
* *Blocks*: headers and bins say what is held and what is free; what is free is
  found; no two callers hold the same address, and a block has the size asked for;
  the address alone leads back to the block.

PROJECT.json lists the hazards behind these, each at the line where it bites.

## 2. The modules

| Module | Models | Extends / composes |
|---|---|---|
| `TraceLines` | a trace's lines, `UniqueId`, and `UniqueTrace`, the contract between the rewriting and the batch executor | - |
| `RewriteIds` | `RewriteIdsToUnique`, one action per kind of line | `TraceLines` |
| `TracefileParser` | the loop of `DirtyTracefileReader::Open`, one action per kind of line | `TraceLines` |
| `TracePreparation` | a log, or a tracefile written by hand, on its way to the executor | `RewriteIds`; instantiates `TracefileParser` |
| `ReplayOps` | the operations of a replay: lines x repetitions, their unique ids | `TraceLines` |
| `TraceReplay` | *abstract*: what a replay promises | `ReplayOps` |
| `BatchReplay` | executor, local and concurrent id maps together | `ReplayOps`; implements `TraceReplay` |
| `Heap` | `sbrk`, `Reset` | - |
| `BumpAllocator` | `bench::malloc` with its first-use initialization, the libc symbols, `InitializeHeap` | extends `Heap`, and implements it |
| `MaxRegister` | *abstract*: the exchange loop of `RecomputeMax` by itself | - |
| `Utiltest` | `Utiltest` in `MallocRunner`, on a correct allocator | implements `MaxRegister` |
| `CorrectnessChecker` | `CorrectnessChecker` in `MallocRunner`, on any allocator | - |
| `RegionPool` | *abstract*: what the slab layer promises the block layers | - |
| `SlabHeap` | the slab layer of mm.c | implements `RegionPool` |
| `BlockPool` | *abstract*: what an allocator promises its callers | - |
| `TinySizes` | the arithmetic of tiny sizes, with mm.c's constants | - |
| `PackedSlabs` | mallocs and frees of tiny blocks | - |
| `MediumSlabs` | mallocs, frees and reallocs of medium and large blocks | implements `BlockPool` |
| `SlabMalloc` | `malloc`, `calloc`, `realloc` and `free` of mm.c | extends `PackedSlabs`, instantiates `MediumSlabs`, uses `RegionPool`; implements `BlockPool` |
| `MC*` | traces, sets and functions for TLC | the module they are named after |
| `*Proofs` | theorems | the module they are named after (`TracePreparationProofs`: also `RewriteIds` and `TracefileParser`; `BumpAllocatorProofs`: also `Heap`; `SlabHeapProofs`: also `RegionPool`; `MediumSlabsProofs`: also `BlockPool`; `UtiltestProofs`: also `MaxRegister`, on the words of `Utiltest`; `SlabMallocProofs`: also `PackedSlabs`); `SlabMallocProofs` instantiates `MediumSlabsProofs` |

### State and actions, and the code

**RewriteIds.** `lines`, `pos`, `next_id`, `new_id_map` and `status` are the loop's
variables and result. `RewriteMalloc` (calloc has the same body), `RewriteRealloc`,
`RewriteFree` and `RejectUnset` are the cases of its switch, `Finish` the test
after it. A realloc erases its input before it inserts its result, so it may reuse
the id, and an error leaves the loop at once.

**TracefileParser.** `trace`, `id_map`, `available_ids`, `next_id`, `required_pid` and
`max_simultaneous_allocs` are the locals of `Open`; `log` is what has been read. A line
is what a regular expression extracts from it: memalign and aligned new are mallocs
here. A line is chosen as it is read, so that every log is covered. A line changes
the id map before its process is looked at, as in the code. `FreeUnfreed` appends the
closing frees in any order, as a hash map may give them.

**TracePreparation.** Two beginnings: a log is parsed, handed over as a tracefile and
rewritten, or the rewriting starts on a tracefile that the parser has not written
(`HandWritten`), malformed ones included.

**BatchReplay.** `pc[t]` walks a worker through `ProcessorWorker`. Each access to
shared state is an action of its own: `Loop` (reads `done`), `TakeFromQueue`
(under the lock), `Claim` (`fetch_add`) and `Clamp` (the store that follows it past
the end), `ScanLine` (one line of `CanDoOpOrQueue`: the map insert is atomic and
the rest local), `MakeOp` (one operation of `MakeFromOps`), `BatchMade`,
`ArriveAndWait`, `ArriveAndDrop`, `Perform` (one allocator call), `AllocatorError`,
`Performed`, and the three steps of `AddAllocation`: `FlushOne`, `AssignPointer`,
`PushPending`. `StoreDone`, `ReportStatus` and `Join` are the thread's function and
`ProcessTracefile`. An entry of `id_map` is empty, a pointer or a parked operation;
reading the wrong member of the union gives `Garbage`. A pointer is named by the
operation that was given it, so a reused address is a new pointer. `MakeOp` looks
an input up and erases it in one step: the two calls are separate in the code, but
an entry that holds a pointer is only ever read by the one operation that
consumes it. With one thread the code calls the worker directly; the model covers
that as a set of one thread that is joined.

**Heap.** Addresses are offsets from `heap_start_`. `Call`, `Check`, `Swap`,
`SwapFails` are the load, the test, and the outcomes of `compare_exchange_weak`,
which may fail spuriously. `Reset` is called by nothing in the repository, but is
public, so it may come at any moment.

**BumpAllocator.** `stage[t]` walks a thread through `malloc`: the test of `g_heap`
outside the lock, the lock, the test under it, `initialize` in two steps (`Emplace`,
`Publish`), and `sbrk` by the actions of `Heap`. `mapping` numbers the mappings, so that a block
can tell whether the one it was cut from is still there. Sizes are computed modulo
`WordSize` as `size_t` is, and `sbrk` takes them as signed. `Request` is a call of any
of the libc symbols, which differ in the size they hand on. When mmap fails the
message of the error is allocated: the thread is back at the beginning of malloc, with
the lock in its hands. `free`, and the copies made by `calloc` and `realloc`, change no state.
`g_heap` is neither atomic nor read under the lock; the model takes the two stores of
`initialize` in program order, as x86 machines do.

**Utiltest.** A call goes through the hooks and the allocator: for an allocation the
allocator acts first and is then counted (`Count`), for a free it is counted
first. `ReadHeapSize`, `RaiseMax` and `RaiseMaxHeap` are `RecomputeMax`, one exchange
per step. The counter wraps at `WordMax` as `size_t` does. `size_map_`'s
operations are atomic, which is what folly's map promises.

**CorrectnessChecker.** Memory is a row of 8-byte words, each junk, zero, or
somebody's magic. The allocator's answer is nondeterministic within its contract,
and beyond it by the faults of the scenario, each of which is noted in the history
variable `committed`. Validation, insertion, filling, checking and erasing are
separate steps.

**SlabHeap.** Slabs are numbered from the heap's start. `flags`, `num_slabs` and
`footer` are what is *in memory*: for an owned region only its header's flags are
the layer's, the rest is overwritten with the owner's data (`OwnerWrites`), some of
which looks like flags. `owned` is the size kept in an owned region's header.
`AllocFound`, `AllocExtending`, `AllocFresh` are the three ways of
`__int_alloc_slab`; `FreeSlab`, `FreeLarge`, `ShrinkLarge`, `GrowAtEnd` and
`GrowIntoNext` the calls the block layers make of the rest. The allocator is not
thread-safe: one call at a time. When an assertion fails or `mem_sbrk` has no more
memory the program aborts, and so does the model (`aborted`).

**PackedSlabs.** `class`, `alloc_cnt`, `f1` and `f2` are the header's fields, the
vectors as sets of the indexes whose bits are set. `AllocFromBin` and
`AllocFromNewSlab` are the two ways of `__int_malloc`, `Free` is `__packed_free` and
`__packed_free_N` in one, since they differ in the level they update only. A block is
named by its address, which `Free` turns back into an index as the code does. The
slab layer gives any slab that is not ours. `TinySizes` has the macros and formulas
with the code's numbers; as it has no state it states its property as an assumption
that TLC evaluates.

**MediumSlabs.** `block_offs` and `block_alloc` are the bytes and bits of the header
word; the implied first offset is entry 0, as `__medium_bin_offsets` puts it there.
Offsets are truncated to a byte (`Byte`), so that SLAB_SIZE is stored as 0. `n_slabs`
is the region's size. `FindMedium`, `AllocFromNewSlabs` and `Free` are
`__int_find_medium_block`, the slow path of `__int_malloc` and `medium_bin_free`.
`GrowLarge`, `ShrinkToMedium`, `ShrinkLarge`, `ShrinkMedium` and `GrowMedium` are the
branches of `__int_realloc` that keep the block where it is.
Whether the slab layer can grow a region is left open. A block is in a bin if it is
in one of the lists; unlinking one that is in none follows pointers in user data or
in a header, and ends the run (`aborted = "wild unlink"`).

**SlabMalloc.** The two kinds of slabs in one row. `free` and `realloc` are given an
address: `PtrGetSlab` is the code's rounding of the byte before it, and whether the slab
is packed is read off its header. `owned` is the slab layer's view (`RegionPool`): each
step that takes slabs or gives them up is also one of the layer's, so that the blocks'
functions can only have what the layer would lend. A realloc that moves is two steps,
`Move` (malloc) and `Moved` (free of the old block), in the code's order; nothing comes in between,
since the allocator is not thread-safe.

## 3. The runs

| Run | Module, configuration | Shows |
|---|---|---|
| `trace_preparation` | MCTracePreparation, TracePreparation.cfg | all logs of 2 processes over 2 pointers and NULL with `--max_ops` 6, and all traces of up to 4 lines over 2 ids: a log of one process becomes an accepted trace with the same dataflow and ids below the peak; exactly the closed traces are accepted, and the result meets `UniqueTrace` |
| `replay` | MCBatchReplay, Replay.cfg | 3 workers, batches of 3, queue takes of 2, an allocator that may fail, 2 repetitions of every rewritten trace of up to 3 lines and 4 longer ones: safety, refinement of `TraceReplay`, and a replay that does not return has recorded a failure |
| `replay_error_returns` | MCBatchReplay, ReplayErrorReturns.cfg | **violated**: with an error, the replay need not return |
| `replay_zero_malloc` | MCBatchReplay, ReplayZeroMalloc.cfg | **violated**: the free of a named `malloc(0)` passes a stale pointer |
| `bump_allocator` | MCBumpAllocator, BumpAllocator.cfg | 2 threads race in the first call and in `sbrk`, a re-initialization, sizes that wrap around: one heap, disjoint blocks that tile it and are as large as was asked, except where an aligned new or `pvalloc` passes on less; every call returns unless mmap failed |
| `utiltest` | MCUtiltest, Utiltest.cfg | 2 threads, sizes that `--effective_util` rounds differently, 0 included: nothing is failed but the second `malloc(0)`, bytes add up, the maximum implements `MaxRegister`, loops end; at every moment the counter differs from what the allocator holds by the calls in progress; what is reported is the peak as long as calls do not overlap |
| `checker` | MCCorrectnessChecker, Checker.cfg | no false alarm with 2 threads on a correct allocator; with one thread and any faults, a clean run was free of them |
| `slab_heap` | MCSlabHeap, SlabHeap.cfg | all call sequences on 8 slabs: regions tile the heap, tags are true, bins find what is free, `RegionPool` is implemented |
| `slab_shrink` | MCSlabHeap, SlabShrink.cfg | **violated**: a realloc in place that gives back no slab frees its neighbour |
| `slab_malloc` | MCSlabMalloc, SlabMalloc.cfg | all orders of mallocs, frees and reallocs of 6 sizes on 3 slabs that pass between packed, medium and free: headers, vectors and bins are right, a pointer leads to its block, `BlockPool` is implemented; `TinySizesAssumption` for every tiny size |
| `medium_slabs` | MCMediumSlabs, MediumSlabs.cfg | all orders of mallocs, frees and reallocs of 5 sizes in 2 regions of up to 3 slabs: header words, sizes and bins are right, `BlockPool` is implemented |
| `medium_shrink` | MCMediumSlabs, MediumShrink.cfg | **violated**: a realloc of the block that ends its slab unlinks the slab's header |

Every property of a passing run has a mutant in PROJECT.json: a definition with a
plausible mistake that makes TLC find the property violated. The mutants stand in
the modules before what they replace, marked as variants.

### Bounds, and why they are enough

* **Traces** (`MaxLines` 3; `LongTraces`). Two repetitions of three lines give up to
  six operations for batches of three, so that claims are shared out, an operation
  and its input fall into one batch, into two batches of one worker, and into two
  workers' batches in either order. `Chain` parks operations that others wait for;
  `Nested` parks several at once, more than `MaxQueuedOpsTaken` lets a batch take;
  `Moved` has a batch realloc what others allocated, and reuses slots; `Corners` has
  unnamed results, `free(NULL)` and zero sizes. Repetitions above two add no new
  relation between a line and its input: unique ids of different repetitions never
  meet (`UniqueIdInjective`).
* **Batches** (3 and 2 instead of 512, queue takes of 2 and 1 instead of 128): small
  enough for a batch to be full, short, and empty.
* **Threads** 2 or 3: the protocol relates a producer and a consumer; the third
  worker is for those an error leaves at the barrier.
* **Logs** (`MaxOps` 6, pointers p, q and NULL, processes main and child): six lines, or
  fewer and the frees of what is live, let both pointers be allocated, released and
  allocated again under ids in another order, a realloc keep or change its pointer, and
  a line of the other process take an id before and after. Pointers and processes are
  symmetry sets. **Traces** given to the rewriting by hand have up to four lines: the
  shortest in which an id is reused and its first user released twice.
* **Bump allocator** (2 threads; words of 16, rounding to 2, pages of 2, `MaxSize` 4,
  `MaxResets` 1): requests for nothing, for one unit, a size that is negative for `sbrk`,
  a product whose rounding wraps to 0; aligned new for less and for more than its
  alignment; `pvalloc` of a size that clearing the bit leaves alone and of one it makes
  too small. All but the first and third are served; two small blocks or a large one fill
  the heap and the next is refused. Two threads are what a race for the lock, or for the
  break, takes.
* **Utiltest** (16 bytes, blocks at every eighth, `WordMax` 128): size 0 is answered with
  NULL, sizes 4 and 12 count as 8 and 16, a heap where two small blocks or one large fit,
  differences that wrap around.
* **Checker** (3 words, sizes 0 to 2): blocks of one and two words that can overlap
  partly, and grow, shrink and move. The number of magic values is bounded by the
  blocks that can exist; a fresh one differs from those in use, where the code
  draws 64 random bits.
* **SlabHeap** (`MaxSlabs` 8, `NumBins` 3, `MaxRequest` 4, `MaxGrowth` 2): sizes 1 and
  2 have bins of their own, 3 and 4 share the sorted one; two regions of different
  size can be in it, and a free region can have free neighbours on both sides.
  `MinFreed` 1 leaves out the one call that breaks the layer, which `slab_shrink`
  (`MinFreed` 0) puts back.
* **SlabMalloc** (3 slabs of 8 units, medium blocks from 3 units): blocks of 1 in a vector of
  two levels with words of 2 bits, the last word partly used, as in the code's own
  two-level classes; blocks of 2 in a flat vector; requests of 0, 1, 2, 4, 8 and 9:
  nothing, the two classes, a medium block, a large one that starts where its first slab
  ends and one that does not. Three slabs: one of each kind, or a region of two and one.
* **MediumSlabs** (slabs of 8 units, headers of 1, blocks of 2 and more; in the code 256,
  1 and 32 units of 16 bytes). As in the code one block more than fits has an offset
  (`LastIdx` 3, in the code 7), so that the last one can only be the start of a large
  block. Requests of 2, 4, 8, 9 and 15: the smallest block, one that leaves a
  remainder, exactly a slab (which begins at its end, offset 0), and large blocks that
  leave in the first slab room for three blocks, or for none. The words of the skip
  list (2 bins, in the code 32) are no longer than the smallest block, which is what
  the comment at mm.c:2198 needs, and a mutant with longer ones fails. The two slabs
  are a symmetry set: they are told apart by nothing, and only safety is checked
  (`KeepsBlockPool` included, whose abstract state names slabs only through `held`).

Deadlock is checked in `replay_zero_malloc`. It is not in the others: preparing a
trace ends; with errors the workers do get stuck, which is what those runs are
about; a thread whose mmap fails waits for itself, so `RequestsReturn` says instead
that nothing else gets stuck; the correct allocator of `Utiltest` and
`CorrectnessChecker` blocks a caller for whom there is no memory; the models of mm.c end
when it aborts.

### Fairness

`BatchReplay` and `Utiltest` assume that a thread that can run does (weak fairness of
each worker's next step, and of the join): that is the operating system's
scheduler. Nothing is assumed of which thread wins a race. Calls are not forced to
begin. `BumpAllocator` (`BumpFairSpec`) assumes weak fairness of each thread in `malloc`, and
strong fairness of its getting `g_lock`, since a mutex that is released again and again
is got in the end, and of its successful exchange in `sbrk`: a weak exchange may fail
spuriously but not every time, and a thread is not always the last. (Lock-freedom alone would not give it; with finitely many calls, or
finite memory as here, it is only the spurious failures that matter.)
`replay_error_returns` is checked under the same fairness as `replay`: its
counterexample is a barrier that waits for a thread that has ended, not a thread
that does not run.

### Memory order

The models are sequentially consistent. `Heap` and `Utiltest` use relaxed atomics,
but each register is a single location on which read-modify-writes are totally
ordered, and no property relates two of them without a join in between; `idx`
likewise; `done` is only a hint. `g_heap` in `BumpAllocator` is set after the heap it
points to, see there. The id map and the queue synchronize by locks.

## 4. The proofs

| Theorem | Module | Says, for every value of the constants |
|---|---|---|
| `RewrittenTraceIsUnique` | TracePreparationProofs | whatever trace is accepted, the result meets `UniqueTrace` |
| `AcceptsExactlyClosed` | TracePreparationProofs | `AcceptsExactlyClosedTraces`: closed tracefiles are accepted and no others |
| `RewritingPreservesDataflow` | TracePreparationProofs | `DataflowPreserved`: a rewritten line consumes what the raw line consumed |
| `RewriteTypeCorrect` | TracePreparationProofs | `TypeOK` of `RewriteIds` |
| `UniqueIdInjective` | TracePreparationProofs | unique ids of different (id, repetition) pairs differ |
| `PreparedTraceIsUnique`, `PreparationAcceptsExactlyClosed`, `PreparationPreservesDataflow` | TracePreparationProofs | the same three, for parsed tracefiles as well |
| `ParserOutputAccepted` | TracePreparationProofs | `ParsedTraceAccepted`: the log of one process is accepted, however it ends |
| `PointersBecomeTheirIds` | TracePreparationProofs | `PointersBecomeIds`: both passes together keep who releases what |
| `IdsFitThePeak` | TracePreparationProofs | `ResultIdsFitPeak`: the peak is right and no id is above it |
| `ParserStaysWithinMaxOps` | TracePreparationProofs | `TraceFitsMaxOps` |
| `ReplayTypeCorrect` | BatchReplayProofs | `TypeOK` of `BatchReplay`, with the bounds of batches and slots |
| `OpsConserved` | BatchReplayProofs | `EachOpInOnePlace`: no operation is lost or done twice |
| `PhasesKeptApart`, `UnionReadRight` | BatchReplayProofs | `PhasesSeparate` and `UnionReadAsWritten` |
| `PointersReachTheirCallers` | BatchReplayProofs | `CallersPassTheirPointers`, if no `malloc(0)` is named |
| `NothingIsLeft` | BatchReplayProofs | `NothingLeftBehind`, if no `malloc(0)` is named |
| `ReplayImplementsTraceReplay` | BatchReplayProofs | the refinement `ReplayKept`, if no `malloc(0)` is named |
| `SbrkRegionsDisjoint`, `BreakIsWhatWasGranted`, `HeapTypeCorrect` | BumpAllocatorProofs | the safety of `Heap` |
| `BumpImplementsHeap`, `BlocksFromSbrkDisjoint` | BumpAllocatorProofs | the bump allocator is a user of `Heap`, so what it cuts from the heap never overlaps |
| `HeapMadeOnce` | BumpAllocatorProofs | `BlocksStayMapped`: no mapping in use is replaced, every block ends in it |
| `BlocksAreLargeEnough` | BumpAllocatorProofs | `BlocksHoldRequests`: a block is as large as what was asked for, if nothing wraps and, for aligned new and `pvalloc`, the symbol passes on as much |
| `ExchangeLoopLosesNothing`, `ExchangeLoopKeepsMaximum` | UtiltestProofs | the exchange loop by itself: the maximum is never lost; at rest the word holds it |
| `UtiltestTypeCorrect` | UtiltestProofs | `TypeOK` of `Utiltest` |
| `CorrectAllocatorPasses` | UtiltestProofs | `NoFalseAlarm` of `Utiltest`: a correct allocator is failed for nothing but a second `malloc(0)` |
| `HeapGrowthReported` | UtiltestProofs | between calls the heap size reported is the heap's |
| `BytesKeptByMaxRegister` | UtiltestProofs | the refinement `KeepsAllocatedMax` |
| `LargestCountIsReported` | UtiltestProofs | between calls the byte maximum is the largest total counted |
| `CheckerTypeCorrect` | CorrectnessCheckerProofs | `TypeOK` of `CorrectnessChecker`, on any allocator |
| `ConformingAllocatorPasses` | CorrectnessCheckerProofs | `NoFalseAlarm` of `CorrectnessChecker`: an allocator that keeps its contract is never failed |
| `BlocksAreRecognised` | CorrectnessCheckerProofs | `BlocksHoldTheirMagic`: map and allocator in step, blocks told apart at every word |
| `PassMeansConforming` | CorrectnessCheckerProofs | `CleanRunMeansConforming`: a lone thread's clean run shows all faults but misalignment absent |
| `SlabHeapInvariant` | SlabHeapProofs | the inductive invariant of the slab layer; this and the next five if `ShrinksGiveBack` |
| `SlabsStayWhole` | SlabHeapProofs | `RegionsTileHeap`: no slab is lost or in two regions |
| `TagsAreTrue` | SlabHeapProofs | `TagsTellTheTruth`, whatever the owners write |
| `BinsAreRight` | SlabHeapProofs | `BinsHoldFreeRegions`: what is free is once in its bin, sorted and marked |
| `GrowsOnlyIfNothingFits` | SlabHeapProofs | `GrowsOnlyWhenNothingFits`, and the assertion on that path holds |
| `SlabHeapKeepsPool` | SlabHeapProofs | the refinement `KeepsPool` |
| `RegionsStayApart` | SlabHeapProofs | owned regions of slabs never overlap |
| `HeadersStayRight` | MediumSlabsProofs | the inductive invariant of the medium and large blocks |
| `HeadersTellBlocks` | MediumSlabsProofs | `HeaderTellsBlocks`: offsets and bits name what callers hold and what is free |
| `BinsHoldTheFree` | MediumSlabsProofs | `BinsHoldFreeBlocks`: each free block is once in the bin of its size, marked |
| `MediumKeepsPool` | MediumSlabsProofs | the refinement `KeepsBlockPool` |
| `BlocksNeverOverlap` | MediumSlabsProofs | blocks handed out never overlap |
| `PackedSlabsTellTheTruth` | SlabMallocProofs | `PackedSlabs` by itself: bit vectors, counts and bins are right |
| `MallocInvariant` | SlabMallocProofs | the inductive invariant of malloc, free and realloc over both kinds of slabs |
| `HeadersAlwaysTellTheTruth`, `BinsAlwaysTellTheTruth` | SlabMallocProofs | `HeadersTellTheTruth` and `BinsTellTheTruth`, while slabs pass from one kind to the other |
| `PointersFindTheirBlocks` | SlabMallocProofs | `EveryPointerFindsItsBlock`: an address leads back to slab, kind and block |
| `MallocKeepsMemory` | SlabMallocProofs | the refinement `KeepsMemory`: no two callers hold the same address |

*Rewriting.* `ProducesUniqueTrace` speaks of the end of the loop only. The inductive
invariant adds, for each moment: what has been rewritten has distinct result ids,
all below `next_id`, which is at most the number of lines passed; each input has an
earlier producer and no other consumer; and an entry of `new_id_map` is just a
result nobody has consumed. At the end the map is empty, so all are consumed. It
assumes only that the raw traces are sequences of lines over the raw ids, and that
the "no id" value is neither a raw id nor a number.

The other two theorems compare the rewritten prefix with the raw one, under a second
invariant (`RawInv`): the map has an id exactly when the raw prefix leaves it allocated
(`LiveAreMapped`), and what it holds is the new id of the last line that made the raw one
(`MapNamesLast`). `StepEffect` sums up what a step does to the line it is at; with
`LiveStep`, what one line changes about the ids that are live, each part of `RawInv`
follows from it. That an error is only returned for a trace that is not closed is
shown message by message (`RejectsOnlyUnclosed`), each naming the line that breaks it.

*TracePreparation.* A tracefile of the parser is not one of the `RawTraces` the theorems
above start from, so their lemmas ask of the raw lines only that they are lines. While
the log is read (`Reading`), the ids below the next fresh one are each the id of one
pointer or available, never both (`WithinLimit`, `IdsInv`); hence a fresh id is one
past the ids in use, and no id reaches the maximum of what was allocated at once, even if
lines of other processes took some. The other parts hold for the log of one process,
whose lines with a known kind are all kept: the ids of live pointers are those the trace
leaves live (`LiveAreNamed`, `ClosedSoFar`), each is the one the last line to be given the
pointer made (`LastGiven`), so a line that releases a block names the right one (`Fed`); live
ids are counted by the lines that make and consume (`LiveCounted`, `PeakReached`). A line of
the log does one of three things (`Taken`, `Skipped`, `Refused`; `ReadLineEffect`), and
each part is kept by each. The closing frees are a surjection of as many lines as there are
live pointers onto these, so each is freed once, whatever the order of the hash map
(`FreesAfter`, `FreesClose`). What is handed over is closed, which is all that
`AcceptsExactlyClosedTraces` asks. It assumes that NULL is none of the pointers
(`NullPtrAssumption`) and that up to `MaxOps` ids are raw ids (`ParserIdsAssumption`).

*BatchReplay.* The safety of the replay and its refinement are proved for every set of
tracefiles that meets `UniqueTrace` (`ReplayAssumption`, which `RewrittenTraceIsUnique`
establishes), any number of repetitions, threads and batch sizes, allocator failures
included. What the proofs need of the trace is in five lemmas: a unique id has one
producer (`ResultsDistinct`) and one consumer (`InputsDistinct`, `ConsumedLater`), and
the producer comes first (`ProducedEarlier`). None of the properties is inductive, and
they hang together, so that there is one invariant, `IInv`, of named parts with one
lemma each:

* `Sizes`: the types, how far each worker is in its batch at each label, and that a
  batch uses at most one slot per operation made; hence `TypeOK`.
* `Lockstep`: workers that have neither failed nor ended are all before the first
  barrier, all at the second, or all past it and not beyond the third; hence
  `PhasesSeparate`. A failed worker stays a member, so no phase ends after it.
* `OnePlace`: an operation has exactly one place; hence `EachOpInOnePlace`. `Claim` and
  `TakeFromQueue` move several operations, the other steps one or none.
* `PointersRecorded`, `HeldUnconsumed`, `InputsInReach`, `QueuedInputs` and the parts
  about ids: a result is its worker's until it is flushed, then in the id map
  until its only consumer is made; an operation that was let into a batch, or queued, has
  its input in the map or earlier in the batch, and as it is the only consumer nobody
  takes it away (`AwaitedPointersStay`). Hence `UnionReadAsWritten`.

`PointerInv` is the second layer. An input slot keeps its value until the operation that
reads it: either it was taken from the id map into a slot no operation made before
writes, or it is the slot of a result made earlier in the batch, which no operation in
between writes since results that are still to be consumed have slots of their own
(`ResultsKeepSlots`). It assumes `NoNamedZeroMalloc`: with a named `malloc(0)`
`ProcessLine` does not store the result, and the conclusion is false
(`replay_zero_malloc`). `EndInv` is the third layer: a worker that leaves with an empty
batch has seen the trace exhausted; an operation is queued by a worker whose batch
is not empty, which comes back to the queue; and a produced result is recorded, held
or consumed. So when all have ended without an error nothing is queued, and the least
operation not performed would be parked for a result that has been produced
(`AllPerformed`). With all three, `Perform` is a step of `TraceReplay`, `ReportStatus` its
`Fail`, `Join` its `Return`, and all else leaves its variables alone.

*Heap.* The invariant says that the regions granted follow each other from the
start to the break. `Swap` is the step that matters (lemmas `SwapGrants`,
`SwapForNothing`): the exchange succeeds only if the break is the one read, so the
new region starts where the last one ends, and `Check` has tested that very break.
For this the invariant carries, for a thread at "swap", that what it read plus its
increment fits. A `Reset` empties the sequence; a thread that read the break before
it either fails or finds the same break again, which is harmless.

*BumpAllocator.* Each of its steps is one of `Heap`'s or leaves the heap's variables alone,
by cases, so the heap's theorems carry over (`BumpImplementsHeap`); for the increments this
takes `BumpAssumption`, that what the requests come to is among them. `HeapMadeOnce` needs
an inductive invariant (`MallocInv`) of the lock: a thread between the second test and
the unlocking owns `g_lock`, so there is one at most; unless one of them has emplaced
and not yet published, `g_heap` is the mapping; and a thread past the test has seen a
heap. That a block ends inside the mapping comes from `Heap`'s invariant for
a thread at "swap" (`BlocksFit`). `BlocksAreLargeEnough` needs that a thread in `sbrk`
asks for its own request (`InSbrkForRequest`) and arithmetic on the roundings
(`SbrkArgumentCovers`). Of malloc and calloc it holds of all sizes that do not wrap; of an
aligned new and of `pvalloc` under `PassesItsSize`, which is part of `BlocksHoldRequests`,
since section 5 says that those two symbols may pass on less than they are asked for.

*MaxRegister.* Every contributed value is covered by the register or by a value
some thread is still putting in, and every value in play was contributed. An
exchange moves the larger of the two to the register or to the thread's hand; it
leaves the loop only with the smaller one. The proof is about the instance in `Utiltest`,
where a value is any word (`MaxInv`).

*Utiltest.* `NoFalseAlarm` is not inductive: that `PostAlloc` finds no entry for a new
block depends on when the entry of the block that was there before was erased. The
invariant `UInv` says where each block is. One that is between the allocator and the
caller is in one call only (`CallOwnsBlock`), held blocks are mapped (`HeldIsMapped`),
and a mapped pointer that nobody holds is in a free that has not come to the erasure,
which happens before the allocator gets the block back (`MappedIsHeld`); so a block the
allocator can hand out is not mapped, whatever other threads are at. Size 0 is the exception the property
names: all such blocks are one pointer, `NullMap`. For the maxima, `HeapNoticed` says
that growth the maximum misses is in the hands of a thread that will raise it, or that
has not read the size yet. `StepKeepsMax` shows each step to be one of `MaxRegister` or
none, so its theorem about the value at rest carries over
(`LargestCountIsReported`).

*CorrectnessChecker.* Two questions, two invariants on top of a common one. `Shape` holds
under any allocator: the types, what a call and its block are at each label, one entry per
pointer. `TypeOK` alone is not inductive, since the magic bytes of a new entry must exist:
entries have different pointers, so words, entries and other calls use fewer values
than there are (`FreshMagicIsFresh`, by counting).

`Sound` holds while the allocator has committed no fault, for any threads. Each block belongs
to one call or is held (`CallOwnsBlock`, `HeldHaveEntries`), and an entry to a held block
or to a call that has made it or not yet erased it (`EntriesOwned`). So a new block has
no entry (`NoEntryYet`) and nobody writes magic bytes to words of another's block
(`OthersKeep`), which is why every check of a hook succeeds.

`AloneInv` holds for a lone thread on any allocator, as long as nothing has failed: the
blocks are those of the map and of the call (`Matched`), and if any fault but misalignment
has been committed, a held block has a word without its magic bytes, or the fault is in
the call's block where a hook still to come looks (`FaultsShow`). Only a block's own fill
could repair a damaged word, and a held block is not filled (`DamageStays`); an overlap,
which nothing looks for, turns into damage when the new block is filled (`FillAlone`) or,
after a realloc, as soon as the content arrives (`CallReallocAlone`). When everything is
freed there is neither a held block nor a call, so there was no fault.

*RegionPool.* A step replaces the region at one slab by another one that is apart
from all others; `ReplacingKeepsApart` is that step. `KeepsPool` connects it to
`SlabHeap`, by TLC and by proof.

*SlabHeap.* No property of the layer is inductive alone: a free finds its neighbours by
their tags, a merge takes a region out of the bin its size says, and an allocation takes
whatever is in a bin. So there is one invariant, `SInv`: the regions, owned and free,
tile the heap (`Laid`), the tags tell the truth, slab 0 counts what is before it as
taken (`StartTold`), and the bins hold each free region once, the last one sorted, with
the skip list's marks (`Ordered`, `Marked`). Cells inside a region are anything, since
owners write there (`OwnersData`). Tiling is stated over the set of regions: they
overlap nowhere and leave no slab out (`Tiles`). The proofs use it through
`NextRegion` and `RegionBefore`: what begins at the end of a region, and what ends at
the beginning of one. Every call turns a stretch of adjacent regions,
possibly lengthened at the end of the heap, into an owned region and a free rest, either
of which may be empty: it takes from a free region (`TakeKeepsInvariant`), gives back,
merging on either side (`GiveBackKeepsInvariant`), or grows the heap
(`GrowKeepsInvariant`). `RegionsReplaced` and `TagsReplaced` say this in one form, and
`ReplacedLaid` and `ReplacedTags` show that it keeps tiling and tags; the lemmas called
`...Right`, one per action, reduce the code's cases to them. `SearchFinds` shows
that the search by marks and bins finds a region if any fits, for which the last
bin has to be sorted and a cleared mark to mean an empty bin; hence
`GrowsOnlyIfNothingFits`. For the refinement, an owned region is apart from the others since
it is one of the tiles (`OwnersStayApart`), and each step changes one owner.
`ShrinksGiveBack` (`MinFreed` is not 0) is the one hypothesis: without it a realloc in
place may give back no slab, and the conclusions are false (`slab_shrink`).

*MediumSlabs.* A free trusts everything at once: it finds the block's place in the header by
its address, the neighbours' sizes as differences of offsets, their bins by the sizes, and
whether it merges by their bits. So the three properties are one invariant, `IInv`:

* `HeadersInv`: the offsets of a header ascend from the header on, at least `MinMedium`
  apart, with nothing after the first 0 but the block that hangs over the end (`Follows`);
  a block with its bit clear is long enough to be linked and is not followed by another
  one (`Merged`); and a region has a block that is held. That a header has as many bits as
  blocks fit, and one more, is arithmetic (`LastIdxBound`, `RoomForOneMore`): it is why the
  shifts by one never push an offset out at the end.
* `BinsInv`: the bins hold just the blocks of the headers that are free, by slab, offset and
  size, each once, and a cleared mark means an empty bin.
* `HeldInv`: the blocks held are those whose bits are set, and each fits in what the header
  leaves it: up to the next offset, or to the end of the region.

What the actions do to a header is one of five things: set a bit (`TakingRight`), split a
free block (`SplittingRight`), join a freed one with its neighbours (`JoiningRight`), move
the boundary of a block and the free one after it (`MovingRight`), or drop what follows the
last bit (`DroppingRight`). Each lemma says what becomes of the order and of the set of
free blocks; they all instantiate one about a row of blocks that shifts by one from some
index on, or does not (`ShiftedKeeps`, `ShiftedVacant`). `UnlinkTwo`, `Linking` and
`Marking` say the same of the bins, and `BinsAfter`, `HeadersAfter` and `HeldAfter` put the
parts together for one region and leave the others alone. One lemma per action
(`FindMediumRight`, `FreeRight`, ...) then reduces the cases of the code to them; in
`FindMediumRight` the bins' marks take a lemma of their own: the word the search ended in is
written back as it was read, and the remainder's mark survives since it is in another word
(`WordsDiffer`: a remainder is smaller than its block by a word's bins at least). The steps that fail by
an assertion, or unlink a header as in section 5, set `aborted` and leave the rest alone,
so that the invariant says what is true up to there.

For the refinement, blocks of one header are apart because their offsets ascend
(`HeldAreApart`), and `BitsCount` counts the bits by a bijection with the blocks.

*BlockPool.* A block that joins, or takes the place of another, is apart from all that
stay (`JoiningKeepsApart`). `KeepsBlockPool` connects it to `MediumSlabs`, by TLC and by
proof, and `KeepsMemory` to `SlabMalloc`, likewise.

*SlabMalloc.* The invariant `FullInv` puts that of the packed slabs beside that of the
medium ones and says how the two share the row of slabs:

* `PackedInv`: the bits set in a slab's vector are the blocks nobody holds, its count is
  the number of those held and not 0, a word on the first level is set just if one of
  its bits is (`Told`), and a class's bin has its slabs with room, each once (`BinHas`).
  `TakingTells` and `GivingTells` say what a malloc and a free do to these, and
  `IndexOf` inverts `Block` by a lemma on quotients (`Division`, `BlocksInRow`).
* `IInv` of `MediumSlabs`, through an instance of `MediumSlabsProofs` for the slabs of
  `SlabMalloc` (`BigLemmas`): its lemma on each action is cited, and `BigStands` is for
  the steps that leave medium slabs alone. This is what the composition asks of the two
  parts: that neither touches a slab of the other kind.
* `OwnInv`: what the slab layer has lent is what the two kinds have, regions are apart,
  and no slab is of both kinds. A slab that is lent was in no region (`LentApart`,
  `LentRight`), so a packed slab never appears inside a large block, nor the other way;
  one that is given back loses its kind (`GivenBackRight`).
* `CountInv`: the counts of the packed slabs add up to the blocks held. `OneMore` and
  `CountRight` do this without a sum, on the pairs of a slab and a number up to its
  count.
* `MoveInv`: a realloc that moves still has the old block to free, which nobody has
  taken.

Every block lies in the region its slab begins (`AllPlaced`), from its first byte after
the slab's start on, so two blocks of whatever kind have no address in common
(`BlocksAllApart`) and different addresses (`AddressesDiffer`), and the byte before a
block is in its slab (`SlabFound`), even if a large block starts where that slab ends.
Hence `PointersAre`: the address gives back the slab, the header its kind, and the offset
the block. For `KeepsMemory` a malloc adds one block to the flat row, a free removes one,
a realloc in place replaces one (`FlatChange`), and a realloc that moves does the first
and then the second.

`SlabMallocAssumption` is what the code's numbers give. In units of 16 bytes
LARGE_SLAB_HEADER_SIZE is 1 and MAX_MEDIUM_BLOCK_SZ one unit less than SLAB_SIZE
(mm.c:232, :240), so that no size is between the largest medium and the smallest large
block; every tiny size has a class (`TinySizes`, by TLC with the code's constants); no
header is empty, which keeps blocks off the start of their slabs; and `MaxDeadweight` and
`BinsOfWord` are as `MediumSlabs` has them. `PackedSlabsAssumption` asks for words of two
bits or more (mm.c has 16): a new slab gives out its first block, and its first word
counts as not empty.

Only model-checked, not proved: liveness (fairness and ENABLED are out of reach of the
prover); of `Utiltest` that bytes add up (`BytesAccounted`, and the peak of
`ReportsPeaks`: sums over the map, which take induction over data); and the arithmetic of
`TinySizes`, which TLC evaluates for every size there is. That the slab layer and the
block layers fit together rests on `RegionPool`: `SlabHeapKeepsPool` proves that
`SlabHeap` keeps it, if `ShrinksGiveBack`, and `SlabMalloc` takes it as its slab layer.

## 5. What the models say about the code

Four disagreements between the code and what it says of itself, each shown by a
run with a counterexample:

1. `src/tracefile_executor.h:296` (also :276, :302): a worker that returns with an
   error does not drop out of the barrier; with several threads the others wait
   for ever and the error is never reported. (`replay_error_returns`)
2. `src/tracefile_executor.h:156, :169`: a zero-sized malloc or calloc whose result
   the trace names leaves its slot uninitialized or stale, and the free of it passes
   that pointer to the allocator. (`replay_zero_malloc`)
3. `slab_malloc/mm.c:2539-2549`: a realloc of a large block that needs as many slabs
   as before calls `__int_free_remainder_slab` with none, which marks the region
   after the block as free (or `LAST_SLAB_ALLOC` as unset at the end of the heap),
   links a region of size 0, and overwrites the block's last word. (`slab_shrink`)
4. `slab_malloc/mm.c:2578`: a realloc of a medium block that ends its slab, to a size
   that is not larger, takes the 0 after it for the offset of a free block, since it
   is compared with SLAB_SIZE. The slab's header is unlinked as a block, through
   the pointers its offsets make, and what is left of the block, possibly nothing, is
   linked into the bin of that size. (`medium_shrink`)

Noticed in reading or with the models, with no run of their own:

* `utiltest.cc:96`: a shrinking realloc is counted after the allocator has the memory
  back. With threads the peak can exceed what was ever allocated at once
  (writeup.tex:199): the second half of `ReportsPeaks` is false without its condition on
  overlaps. `FollowsAllocator`, its first half, has no such condition and says by how much
  the counter can be ahead: by what shrinking reallocs in progress have given back.
* `utiltest.cc:60`: NULL, the answer to `malloc(0)`, is inserted into the size map and
  stays; the second `malloc(0)` fails a correct allocator, and nothing else does
  (`NoFalseAlarm`). With `--effective_util` it counts as 8 bytes that are never given back.
* `mm.c:2543`: the assertion fails for a realloc of 4096 bytes to 4080: the slabs kept
  are computed as if the block began after the header. (`ShrinkLarge`)
* `mm.c:1342-1373`: a large block that follows seven blocks in its first slab is not
  seen to be large when it is freed, since the bit after the last counts as set; its
  slabs stay with the block before it until that is freed, although
  mm.c:465-467 says that they belong to an allocated large block.
* `mm.c:1036-1039`: `tiny_bitv_index` (unused) does not subtract the header.
* `correctness_checker.cc:181-188`: the overlap check that the comment in
  correctness_checker.h:42-43 announces is commented out. `CleanRunMeansConforming`
  shows that for a single thread the magic bytes make up for it by the end.
* Alignment is checked for blocks that were asked for with one, and after a realloc,
  but not for plain malloc and calloc, though writeup.tex:117 requires it.
* `heap_interface.h:42` says errno is ENOMEM on error; a negative increment sets EINVAL.
* `libc_override.cc:156-166, 178-188`: the aligned `operator new` passes alignment and
  size in swapped order, so the block has as many bytes as its alignment, too few for a
  larger size, although writeup.tex:116 says that pointers "can be written to in full".
* `libc_override.cc:58, :244`: `pvalloc` rounds with `& ~4096`, which clears one bit
  and not the twelve below it; where the bit was set, the block may be too small.
  `BlocksHoldRequests` is false of both symbols without its condition `PassesItsSize`: the
  run has a request of each that is given less than it asked for.
* `allocator_interface.h:44, :50`: a size above 2^64 - 16 rounds to 0 and gets a block of
  0 bytes; the product of `calloc` wraps. `:61`: `realloc` copies as many bytes as the new
  block has from the old one, which may have fewer.
* `allocator_interface.cc:22`: when mmap fails, the message of the error is allocated
  with the lock of the first call held: the thread waits for itself. (`MapFails`)
* `tracefile_parser.cc:133`: the condition of `--max_ops` is tested before a line that adds an
  op and something to free, so a trace may have one op more than that (`TraceFitsMaxOps`);
  the lines that are skipped count as well.
* `tracefile_parser.cc:242`: in a log of two processes the ids of dropped lines are in the
  map, and freed at the end of a trace that never allocates them, which the executor then
  refuses; a pointer that both processes have is "duplicate".
* `tracefile_parser.cc:136`: a last line without a newline is dropped with the eof. `:163`:
  NULL as a result takes an id; a second NULL is a "duplicate pointer", since
  the free of a NULL does not give it back.
* `malloc_runner.h:138`: with the perftest configuration `Calloc` calls `bench::malloc`.
* `mm.c:1809`, `:2473`: a failing `mem_sbrk` aborts by assertion.

## 6. Not modelled

The formats and I/O (the regular expressions, protobuf, the driver's tables, perfetto),
timing, and `Perftest`, which has no state; the protobuf messages beyond ids, kinds and
zero-ness. The set of heaps of `HeapFactory` and its lock: a run has one heap, made
before the workers start, and nothing calls `DeleteInstance` or `WithInstances` meanwhile.
Of Utiltest, the branches for an erase that finds nothing right after the look-up did
(utiltest.cc:81-87, 132-138): only the call that holds a pointer touches its entry, so
they cannot be taken (`NoFalseAlarm`). Of the checker, a realloc to size 0.
Of mm.c: `mm_checkheap` and the printing, which only read. The contents of
blocks are modelled where they look like flags (`SlabHeap`; `OwnersData` is one fixed value
for each slab, chosen to be mistaken for flags) and otherwise not, nor is
`memcpy` in a realloc that moves. `SlabHeap` lets its callers make any call they could
make on a region they own, which is more than they do; `SlabMalloc` takes the slab layer
by its contract, `RegionPool`, since tags and headers together are out of TLC's reach.

## 7. Plan

1. **Done**: all the modules of section 2; proofs about `RewriteIds`, `TracePreparation`,
   `Heap`, `BatchReplay`, `BumpAllocator`, `MaxRegister`, `Utiltest`, `CorrectnessChecker`,
   `SlabHeap`, `RegionPool`, `MediumSlabs`, `BlockPool`, `PackedSlabs` and `SlabMalloc`. Of the
   invariants and refinements that the passing runs check, all but `BytesAccounted` and
   `ReportsPeaks` of `Utiltest` are theorems as well.
2. **Left**: liveness and those two sums, which stay with TLC (section 4); the set of heaps
   of `HeapFactory`, should anything come to create and delete heaps while others run.
