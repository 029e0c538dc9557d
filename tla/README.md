# Verification of ude-bench

ude-bench measures how fast an ARM processor runs single instructions. It
writes small machine-code programs with its own generator, libag (`src/ag`),
runs them, and reads a cycle counter. Under libag is npr (`src/npr`), a C
library of containers and allocators. This directory holds TLA+ models of both,
TLC runs that check them on small instances, and TLAPS proofs that hold for all
sizes.

`PROJECT.json` lists components, runs, hazards, findings and theorems, and maps
every definition to the source lines it stands for.

## 1. Inventory

| Part | State | Operations | What makes it right |
|---|---|---|---|
| code emitter, `ag/ag_gen.c` | chains of 512-word blocks for code and for literals, two word counters, labels, references to fix up, the finished image | emit an instruction, a branch or a load of an immediate; allocate and place labels; `ag_alloc_code`; `ag_emitter_fini` | the image holds the instructions in order, each branch goes to its label, each load gives its immediate, every block is freed once |
| instruction encodings, `ag_gen.c`, `ag_insns.h` | none | one function per instruction | the fields of a word do not overlap |
| memory pool, `npr/mempool-c.c` | a growing list of data entries, large blocks, counters of room and position | init, alloc, clear, destroy | regions lie inside their blocks, apart, aligned; the room counter never exceeds the room |
| chunk allocator, `npr/chunk-alloc.c` | chunks and the free list threaded through them | alloc, free, init, fini | an element is free or in use, once |
| symbol tables, `npr/int-map.c` | bins of chained entries from a global chunk allocator | init, lookup with or without append (which may grow the table), fini | an entry found once is found again, at the same address |
| executable heap, `npr/heap.c` | free list and boundary tags inside the memory handed out, mappings | init, alloc, free, fini | the chunks tile the mappings, the tags agree with them |
| symbol interning, `npr/symbol.c` | a fixed table of 173 bins, a static flag | init, intern, finish | one symbol per name |
| arrays, string buffer | length, capacity, storage | push, pop, resize, close; put, printf, dup | no write past the capacity |
| lists, free chain | links; pointers and destructors | push, remove; append, free all | everything released once |
| benchmark driver, `main.cpp` | registers of the generated program | `gen`, `lt` | the loop around the measured instructions survives them |
| coroutines, file status, errors, bit helpers, `gentest.cpp` | little or none | system calls, text, macros | |

How they interact: the driver calls libag; libag keeps its labels and references
in npr arrays and maps the image itself; symbol tables and doubly linked lists
take elements from chunk allocators, arrays can take storage from a pool. The
heap, the tables and the pool are library parts no other file here calls.

There are no threads, messages, timeouts or persistent data. The one thing that
runs besides the calls is the generated program, which shares registers and
`zero_mem` with the driver and must give both back as they were. What is hard here
is *sequences of legal calls*: counters in two places that must agree after any
history, addresses remembered while the structure that holds them grows, sizes
at the edge of an integer type, tags written by one call and trusted by a much
later one. The hazards in `PROJECT.json` are of that kind.

## 2. The models

All models are sequential. An operation is one action, except where a loop
in it is worth watching: the fix-up loop of `ag_alloc_code` takes one step per
reference, the retry loop of the pool one per round, the generated program one per
instruction. Variables have the names of
the fields in C where there is one; the others are history variables and say so.

### libag: `AgEmitter` implements `AgProgram`

`AgProgram` is what a client may rely on: it appends instructions, branches and
loads, places labels, seals the program, and then each instruction has the
effect asked for, provided a branch's label was placed and is in reach, a
literal is in reach, and the literals fit one constant block.

`AgEmitter` is the code: `code_last` and `const_last` are the block chains
(oldest block first, a block being the words written to it, so `b->cur` is its
length), `cur`, `data_cur`, `labels` and `label_refs` are the fields of
`struct ag_Emitter`, `image` is the mapping. `EmitInsn` stands for all
one-word emitters; `EmitBranch`, `MovImm`, `LdrImm`, `AllocLabel`, `EmitLabel`,
`EmitDataLabel`, `EmitNewLabel`, `AllocCode`, `ResolveRef`, `Fini` and `Reinit` for the
entry points they are named after. A word keeps its instruction, its register
and its immediate field, at the width the field has in the code. `Decode` says what the processor does
with a word, reading PC two words ahead; the refinement maps the decoded image
to the effects of `AgProgram`.

### Memory pool: `NprMempool` implements `NprAllocator`

The abstract allocator gives regions inside blocks it owns and apart from
each other. The model keeps the counters as unsigned integers of `Bits` bits
with the comparisons the code makes as `int` (`Signed`), and an address as its
residue, which is all alignment needs.

### Tables: `NprSymtab` over `NprChunkAlloc` implements `NprMap`

`NprChunkAlloc` models the allocator as operators on its free list. `NprSymtab`
has several tables on one allocator and a client that keeps the entry
pointers and stores through them (`held`, `Store`). `NprMap` is a partial map
per table.

### Heap: `NprHeap` implements `NprExecMemory`

`NprExecMemory` is what a client within its limits may rely on: a region is mapped,
apart from every other, and keeps what was written to it until it is freed, whatever
else is called meanwhile. The refinement maps `mapped` to its words and forgets
where in the memory tags and links are; every allocation path is an `Alloc`.

Tags and links live in the memory handed out, so `mem` is that memory, one
integer per 32-bit word, and every read and write of the code is a read or write
of it, in the order of the code. `AllocFit` and `AllocFresh` are the two ways
to serve a small request, `Behind` and `Before` the two halves of a small
free. The model is of a 32-bit build, the target of the generated code.

The heap is wrong once a hole between two chunks is reused (finding 4), so the
constant `Disciplined` selects the client. A disciplined one makes no request
that `Limits` excludes: one the first fit would serve from such a hole, one
that leaves a chunk or a remainder shorter than a free header with its tag, or
one that starts a chunk where the code would take it for the first of a page. Under that
client words nobody reads again are taken to be zero (`Forget`); the other
client is followed word by word.

### Benchmark: `BenchLoop` on `ArmCore`, with words from `AgEncode`

`AgEncode` has the encoders of `ag_gen.c` as operators: a word is the set of its
one bits, so `|` is union and a value too wide for its field reaches into the
next one. `ArmCore` is the processor, modelled from the ARM manual and marked
external: it decodes a word by its fixed bits, knowing nothing of who emitted
it, and executes it on registers, flags and memory. An undefined word, or an
access outside stack, `zero_mem` and literals, leaves it without a step, which
TLC reports as a deadlock. A vector register is only zero or not (`dirty`),
which is all that the stores of vector rows can carry into `zero_mem`.

`BenchLoop` is `main.cpp`. `rows` is the table of `main`, `Modes` are `run`,
`run_latency` and `run_throughput`, `Operands` is the `switch` of `gen`;
`Prologue`, `Body` and `Epilogue` are the rest of it. `LtGen`, `LtExec`, `Running`
(an instruction) and `LtFini` are the stages of `lt`. The image is laid out as
`ag_alloc_code` does for a program of one block with a backward branch and
two literals; what it does for others is `AgEmitter`'s subject.

### Containers: `NprContainers`

`CHeap` is malloc, realloc and free: a freed address may come back at once, and
storage is a function whose domain would outgrow the block if anything were
written behind it. `NprVarray`, `NprStrbuf`, `NprList` and `NprSymbol` have the operations
of their C files as operators on records with the fields of the structs, so
that a free chain is two arrays and a doubly linked list uses `NprChunkAlloc`.
`NprContainers` composes them: one container is open at a time, on a heap with
blocks of the client's (`hand`), and each call is an action. `asked` records
what the client put in.

## 3. Runs

| Run | Shows |
|---|---|
| `emit_branches` | branches land, across blocks of 2 words, forward and backward, in reach and out of it, labels placed again, allocated and never placed; refinement of `AgProgram` |
| `emit_literals` | loads of every immediate class give their value up to a full constant block; counts and frees stay right even one literal beyond it; refinement |
| `emit_pool_overflow` | *violation*, finding 1 |
| `emit_last_load` | *violation*, finding 2 |
| `mempool` | growth, wrapped and negative sizes, both ways to clear, destroy: honest room counter, alignment, no leak; refinement of `NprAllocator` |
| `mempool_large` | *violation*, finding 3 |
| `symtab` | two tables grow, relinking chains of two, and are torn down on one allocator: no element lost or shared, entry pointers stable, load bounded; refinement of `NprMap` |
| `heap` | the disciplined client, all orders of free: tiling, tags, coalescing, no assertion or link fails, client's words kept, every region inside a mapping; `npr_heap_fini` unmaps large mappings whole but of each other one a single page (`heap.c:311`), the rest leaks; refinement of `NprExecMemory` |
| `heap_tags` | *violation*, finding 4 |
| `bench` | all rows, modes and both `num_insn`: loop counter and `zero_mem` pointer survive, `zero_mem` stays zero, the caller's registers come back, the divisor is the number of instructions run, twice that number in the row `add pc, pc, 0`, which jumps over every other word; and `main` ends |
| `bench_labels` | *violation*, finding 5 |
| `containers` | every order of operations on each container and from one to the next: blocks owned once, no write past a capacity, contents kept, links consistent, one symbol per name |

Each property of a passing run has a mutant, a `Bug...` operator next to the
definition it replaces, under which TLC finds the property violated.

### Bounds

* Emitter: blocks of 2 words (512) and 4 instructions make chains of two blocks
  with a full and a partial last one; `emit_branches` has two plain instructions, told apart; `Slack` is the room malloc leaves behind a
  constant block, so a literal past the end has somewhere to go, and one past
  the slack is undefined and not followed. `emit_branches` has `BranchReach` 2, so
  that branches of both directions exceed it; `emit_literals` has `MovSpan` 2 and
  an immediate on each side of each limit. The two violation runs use the real
  spans. 2 client labels allow two references to one and one to each.
* Pool: 6-bit integers, requests from 6 bytes on are large, so sizes double,
  turn negative and wrap within a few requests. 3 regions outstanding; both
  alignments and both residues of a base.
* Tables: bins 3, then 11, growing at the third entry. All three symbols share a bin
  before the growth and two of them after it, so growth walks a chain of two while it
  relinks it, and splits it or keeps it together, by the order of entry. 4 entries in
  two tables, so that a table grows beside one in use; chunks of two elements, so that
  chunks are added and reused. The table names are symmetric; so is nothing else.
* Heap: pages of 16 words with 4 of header, so that the second mapping (2 pages) has
  a page boundary where two chunks can meet. 3 regions suffice for a neighbour
  on either side. Sizes: chunks of 4 and 6 words, and one of two pages.
  The free list is followed over 6 chunks, `MaxGiven + MaxPage`, more than it ever has.
  `heap_tags` has a page of 32 words and chunks of 4 and 8.

* Benchmark: 3 rounds instead of 131072, and a `num_insn` of 8 and 16 instead of
  16 to 256; both are multiples of 8, and 3 is odd and above the limit of an
  immediate (`MovLimit` 2), so the counter is loaded from a literal as in the code.
  Two execs of every program, one `zero_mem` through all of them. Registers have
  30 bits, `zero_mem` its 32768 bytes. The behaviour is deterministic but long:
  30 000 states.
* Containers: 6 addresses, up to 4 elements or characters, 3 blocks in hand; arrays
  made with sizes 0 to 3, so that growth happens at once and again; free chains of
  first size 1 (16); chunks of 2 (8), so that a list of 4 needs two; two buckets
  (173) for three names, two of which collide. The addresses are symmetric.

### Fairness and deadlock

`Ends` is checked under `WF_vars(Next)` of `BenchLoop`: one thread runs driver and
generated program, nothing in them waits, and the operating system keeps
running it. It is not obvious, because the instructions measured may
overwrite the counter, jump over its decrement or clear the flag it sets. For
the libraries no fairness is assumed: a client need not call again. The one loop
there whose end is not obvious, the pool's retry, is covered by a safety
property, `RetryFits`: an entry opened for a request serves it, unless its size
turned negative. Deadlock is checked in every run; `BenchLoop` stutters when `main` is over.

## 4. Findings

1. *Constant block overflow* (`emit_pool_overflow`). The block for the 513th
   literal is chained to the code (`ag_gen.c:80`), which shifts all later code
   in the image away from the label offsets, and the literal is written behind
   the full block.
2. *Load as last instruction* (`emit_last_load`). Its literal lies one word
   before the PC it reads; the negative distance is packed as 13 bits into a
   12-bit field, and the top one changes the register (`ag_gen.c:707`).
3. *Alignment of large requests* (`mempool_large`). `mempool.h:72` promises the
   alignment asked for; from 1024 bytes on it is malloc's.
4. *Heap tags* (`heap_tags`). A hole taken whole loses the bit that the chunk
   behind is in use (`heap.c:176`); freeing it again swallows that chunk, a later
   allocation hands its words out twice, and the assertion at line 226 fails.
   Splitting a hole (line 180) leaves a wrong tag too: with line 176 repaired in
   the model, TLC finds the assertion fail after a split. A C program with these
   calls aborts there.
5. *A row that measures something else* (`bench_labels`). The row printed as `eor`
   emits `orr` (`main.cpp:301`). The `vmla.f32` rows emit `vadd` for a reason of the
   same kind: the table in `ag_insns.h:10` gives `vmla` the opcodes of `vadd`.

## 5. Proofs

Every constant is arbitrary within the module's assumption; the theorems hold
for the code's own sizes, which no run could reach.

### libag

Assumed (`EmitterAssumption`): block size and spans positive, garbage and
registers natural numbers, `LdrSpan` a multiple of 4.

| Module | Theorems |
|---|---|
| `AgEmitterProofs` | `TypeCorrect`, `BlocksFreedOnce` (`NoLeak`), `CountersCorrect` (`CountersMatchBlocks`), `StreamCorrect` (`StreamInBlocks`), `RefsCorrect` (`RefsSound`) |
| `AgEmitterImage` | `PlainCorrect` (`PlainUntouched`), `BranchesCorrect` (`BranchLands`), `LoadsCorrect` (`LiteralLoads`) |
| `AgEmitterRefinement` | `Refinement` (`RefinesProgram`): `AgEmitter` implements `AgProgram` |

`TypeOK` alone is not inductive. `live` is a natural number only because it
counts the blocks in the chains (`NoLeak`), and that is preserved only because
chains are non-empty while emitting and NULL afterwards, with exactly one
constant block (`Shape`). The invariant is `TypeInv == TypeOK /\ Shape /\ NoLeak`,
with one lemma per action. The counters then follow from two lemmas
on the number of words in a chain (appending a word adds one, a new block none);
the stream from the arithmetic of blocks that are full but for the last.
`StreamInBlocks` needs `PoolFits`: without it finding 1 refutes it.

`RefsSound` is split in three, order, completeness and match; match is kept
because a client cannot name the label of a load.

The image theorems are about the state after the fix-up loop, so they need what
each round leaves: before round `ri`, the words of the references done hold
their fixed form (`WordsFixed`) and all other words are as emitted
(`WordsLeft`). A round keeps both because no two references name one
instruction, which is `RefsSound`. Each literal is in its slot while emitting
(`LiteralsInPool`) and behind the code afterwards (`LiteralsLaid`). Then one
lemma per kind of word decodes it.

The step simulation maps `ag_alloc_code` to one step of `AgProgram`, the last
round of the loop, or the making of the image if there is no reference. It
needs one more fact: no more private labels than literals (`PrivateFew`), so
that the abstract labels suffice.

### Memory pool

Assumed (`MempoolAssumption`): unsigned int has `Bits` bits, at least 2; an
alignment is a power of two an int can hold; a small request with its alignment
and doubled is less than half the range. `PowersOfTwo` states that `2 ^ (i + 1)`
is `2 * 2 ^ i`, arithmetic the provers do not know.

| Module | Theorems |
|---|---|
| `NprMempoolProofs` | `TypeCorrect`, `CapacityCorrect` (`CapacityHonest`), `RetryCorrect` (`RetryFits`), `ArraysCorrect` (`ArraysFit`), `LeakFree` (`NoLeak`), `AlignmentCorrect` (`SmallAligned`), `PoolRefinement` (`RefinesAllocator`): `NprMempool` implements `NprAllocator` |

`CapacityHonest` compares as `int` what the code keeps as `unsigned`, and is not
inductive: `Carve` takes padding off twice, so the balance may be below zero, and
taking padding off that once more must not wrap to a large positive number.
`Balance` says how far below zero it can get, a quarter of the range, and
`AlignUpFact` and `SmallRequest` that one call cannot cross that. `RetryFits`
needs that an opened entry is unused and as large as the request with its
alignment (`OpenedFits`). The refinement needs that regions in the newest entry
end at or before its position (`GivenBehind`), or else that the balance is below
zero, so that the entry serves nothing more. `Roundup2` shows that
`roundup2` returns a power of two between x and 2x, so that a cleared pool starts
with a size that is one of `unsigned int`. The least element of a set of numbers,
which stands in for induction here, is `LeastOf`.

### Symbol tables

Assumed (`SymtabAssumption`, `ChunkAssumption`): chunks are not empty, hash codes
are natural numbers, and the i-th bin count exceeds `MINSIZE * 2^(i-1)`, as those
in the code do.

`NprSymtabProofs` has `TypeCorrect`, `ElementsCorrect` (`ElementsAccounted`),
`PointersCorrect` (`PointersStable`), `LoadCorrect` (`LoadBounded`) and
`MapRefinement` (`RefinesMap`): `NprSymtab` implements `NprMap`.

They share one invariant, `SymtabInv`. Per table (`Sound`) each entry is in the bin
of its symbol's hash code, once (`Bins`), the count is that of the chains (`Counted`),
the load is bounded (`Light`), and the client's pointers and the entries
are one to one (`Pointers`); across tables (`Shared`) no entry is in two, and
free and used elements are all there are. `TableFrame` is what allows one table to
change and the others to be left alone: a table stays sound while its own
entries keep their symbols. Growth is the hard case: `RechainedFact` says that
the loop that moves the entries puts each in its new bin once and drops none,
`ChainedFact` that the new entry goes to the bin of the grown table.
`LoadFact` is the arithmetic of the bin counts: a table that must grow had
`MaxRatio + 1` entries per bin, and the new count exceeds the old.
The refinement maps a table to what lookups find, which `MappedFact` shows to be
what the client's pointers say.

### Containers

Assumed: `Null` and `InPool` are not addresses and differ (`HeapAssumption`); neither
are the sentinels of the lists, which are no chunk elements either
(`ListAssumption`); there is a bucket (`SymbolAssumption`); hash codes and sizes
are natural numbers (`ContainersAssumption`); chunks are not empty.

`NprContainersProofs` has `OwnedCorrect` (`Owned`), `CapacityCorrect`
(`WithinCapacity`), `ContentsCorrect` (`ContentsAsAsked`), `LinksCorrect` (`Linked`)
and `SymbolCorrect` (`SameSymbol`), for any set of addresses, values and names.

None of the five is inductive alone: that a push stays inside its
array needs the cells to be where the record says, that a block is freed once needs
it not to be the client's. The invariant `IInv` says that there is a set B of
blocks in which the open container holds what was asked (`Holds`), that B is apart
from the client's blocks, and that the two together are all that is live (`Sound`);
and that the chunk elements in use are those of the open list (`Accounted`).
`Holds` has a form for each container:

| Container | Form | The hard step |
|---|---|---|
| array | `Array`: as many cells as the size says, not fewer than elements | `ArrayPushStep`, `ArrayResizeStep`: realloc keeps what both sizes have |
| string buffer | `Buffer`: the text, then anything, in `buflen` characters | `PrintFact`: printf into what is left, or into a buffer grown to fit |
| free chain | `ChainOf`: two arrays whose elements are blocks, all apart | `ChainHeld` and the pushes that move one array among the blocks it lists |
| singly linked list | `ListOf`: elements es and values vs such that each links the next | `PushHeadFact`, `PushTailFact`: the tail link is that of the last element, also when the list was empty |
| doubly linked list | `DlistOf`: by position (`Pos`), the sentinels being positions 0 and n + 1 | `PushBackFact`, `UnlinkFact`: both directions agree after one element is relinked |
| symbol table | `TableOf`: each symbol in the bucket of its name's hash, once, and nowhere else | `InternStep`: looking in one bucket finds a name that any bucket holds |

Each action has one lemma (`...Step`), and `IInvNext` puts them together. What a
list holds is found by walking it with a recursive function (`Follow`).
`FollowFact` proves that a walk along links in the order of es is es: es itself
is a function of the kind the definition asks for, and the least index at which
another could differ does not exist.

`NprChunkAllocProofs` has what this module and `NprSymtabProofs` share: the
operators of `NprChunkAlloc` keep the free list without repetition and its
elements accounted for (`TakeFact`, `ReleaseFact`).

### Heap

Assumed (`HeapAssumption`): a page is an even number of words, more than the six
of the list's ends, and a small chunk with its page header fits in one; an
address is smaller than `THIS_ALLOCATED_BIT`; `MaxFree` is at least
`MaxGiven + MaxPage`. `PowersOfTwo` is assumed as for the pool. All theorems are about the
disciplined client, `Disciplined /\ Spec => []...`; of other clients they are false (finding 4).

`NprHeapProofs` has `HeapTyped` (`TypeOK`), `HeapTiled` (`Tiled`), `HeapTagsRight`
(`TagsRight`), `HeapCoalesced` (`Coalesced`), `HeapNoFault` (`NoFault`),
`HeapDataKept` (`DataKept`), `HeapMappedIsOwned` (`MappedIsOwned`), `HeapRefinement`
(`RefinesExecMemory`), and `HeapTagAssertion`: the assertion at `heap.c:226`, which
`heap_tags` refutes, holds within the limits. For any page size, address space, request
sizes and order of calls.

Nothing in the state says where chunks begin: the code finds them from tags
and links, and those are right only if the chunks are where the code believes
them to be. So the invariant `IInv` says that there are chunks (`Sound`): a set A
of addresses with sizes z that tile the mappings (`Tiles`), of which those in
U are the regions handed out (`Matches`) and the others, in the order w, the free
list, linked both ways (`Walk`). Each chunk in U has the tag of one in use
(`UsedOK`) and each of the others that of a free one (`FreeOK`).

Between two writes of one call this does not hold. A call holds one chunk
whose tag is not yet right, and a neighbour whose bit is not yet told; `Chunks`
therefore keeps apart the set U that the neighbours' bits speak of, and the sets
V and F of chunks whose own tags are right, and it has a lemma for each thing
the code does:

| Code | Lemma |
|---|---|
| `del_free`, `add_free` | `Grab`, `Return`: a chunk leaves the list or is put at its end, and no tag changes |
| writing tags and sizes into the chunk in hand | `TagWritten`, `Poke` |
| telling the chunk before | `Believe`, `Disbelieve` |
| splitting, merging | `SplitInHand`, `MergeInHand`, over `TilesSplit`, `TilesMerge` |
| all of an allocation from `found` on | `CarveFact` |
| the two halves of a free | `BehindFact`, `BeforeFact`; that their steps are there, `BehindSound`, `BeforeSound` |
| a new mapping, a large one taken or given back | `TilesNew`, `Quiet`, `LargeAdded`, `LargeDone` |

`Frame` says which writes leave all tags alone; it and `Private`, the words inside a
chunk in use before its tag, give `DataKept`. The limits of the client are what `AllocDone` needs
to apply `CarveFact`: behind the chunk carved there is its own remainder or the end
of the mapping, so the bit that the code forgets (finding 4) is rightly clear. `FreeCount` maps each free chunk to the page
or the chunk in use it ends at. So there are never more than `MaxGiven + MaxPage` of them,
following the list over `MaxFree` chunks loses none, and for this client that
bound restricts nothing. `ForgetFact` shows that words nobody reads again may be cleared.

The refinement follows from the invariant before and after a step: regions held in
both are mapped and hold the client's words (`KeepsFact`), two regions have no word in common
(`RegionsApart`), and a region given was not held before (`FitIsNew`, `FreshIsNew`).

### Only model-checked

The benchmark and the violations. `BenchLoop` executes the words it emits, and a
proof of its properties would have to run every encoding symbolically; it has
few states that are not fixed by the table of rows, which the run goes through as a whole.
Beyond the prover: liveness (`Ends`), ENABLED, and induction over data where no
least counterexample replaces it.

## 6. Not modelled

* Failure of malloc, realloc and mmap, which the code does not test; writes past
  malloc's slack; statistics counters and printing.
* Encodings: the entry points that differ from a modelled one in an opcode only
  (`vpmax`, `vmull`, 8- and 16-bit lanes, `and` to `mvn` by name) and that no program
  of the driver uses. The header declares `ldrh` and `strh`, which nothing defines.
* Benchmark: the perf counter and its failure, the files written by EMIT_ONLY and
  Android builds; the values of vector lanes beyond zero or not. The prologue
  clears d8 to d15 without saving them; the model sees it in `dirty` but no
  property speaks of it, the comment on register usage naming core registers only.
* Containers: a push to an array of size 0, which stays 0 when doubled; a failing
  vsnprintf; a block registered in a free chain both as a pointer and with a
  destructor; `npr_symbol_init` after `npr_symbol_finish`, which does nothing and leaves
  a freed table in use. Each is undefined behaviour and the client's to avoid.
  Several containers open at once: they share nothing but malloc.
* Coroutines: init and fini are system calls, the switch is assembly outside
  the repository. File status and error text. `gentest.cpp` prints encodings for a
  disassembler to read.

## 7. Plan

Done: `AgProgram`, `AgEmitter` and its three proof modules; `NprAllocator`,
`NprMempool` and `NprMempoolProofs`; `NprChunkAlloc`, `NprMap`, `NprSymtab` and
`NprSymtabProofs`; `NprExecMemory`, `NprHeap` and `NprHeapProofs`; `AgEncode`, `ArmCore`, `BenchLoop`; `CHeap`, `NprVarray`, `NprStrbuf`,
`NprList`, `NprSymbol`, `NprContainers` and `NprContainersProofs`, with `NprChunkAllocProofs`.

Next: the frame properties of `BenchLoop` that do not depend on its program.
