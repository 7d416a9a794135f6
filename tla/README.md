# A TLA+ model of the arche compiler, its runtime and its tools

arche is an ahead-of-time compiler for a data-oriented language. A program declares
*archetypes*; each one becomes a fixed-capacity, column-wise *pool* of entities with
generation-checked handles. The compiler lexes, parses, analyses and lowers the
program, `codegen/codegen.c` emits LLVM IR for it (`wasm/` emits wasm directly), and a
small C runtime (`runtime/`) is linked in. `arche run` keeps rebuilding a running
program while its devices are edited, `arche inspect` looks into it, and a language
server serves an editor.

The project has three layers: models of the *emitted code and the runtime* (pools, fans,
collectives, threads, GPU columns), of the *processes* around them (development loop,
inspector, builds, language server), and of the *compiler's passes* (lexer to machine
code), the last as functions that runs apply to enumerated programs. All paths below
are relative to `src/`; `codegen.c` is `codegen/codegen.c`.

## 1. Inventory

| part | state it keeps | operations | interacts with | what makes it correct |
|---|---|---|---|---|
| entity pool (`codegen.c` 11640-12210, call sites 8468-8702, `core/core.arche` 89-96) | columns, `count`, `free_list`, `free_count`, `gen_counters` | insert with an overflow handler, delete, cell read, handle of a row | everything that reads a column | a handle reaches the entity it was issued for or nothing; no slot is lost or used twice; destructors run once; refusals are justified |
| map fan (`codegen_each_fan`, 13150-13366) | row cursor, `count` at the start | start, next row, body, end | its body changes the pool it walks | every surviving entity is visited, no deleted one |
| sort (`emit_sort` and helpers, 3697-4431) | index array, columns | build, sort (three algorithms), permute, reset of the bookkeeping | pool | the same stable order from every algorithm, rows move as a whole, live entities kept |
| reduce, scan (`emit_fold`, `emit_fold_expr`, `cores_emit_reduce`) | accumulator, four lanes | lane prefix, horizontal fold, tail; loops over matching pools | pool, `io.c` | every live row folded once, no freed one |
| multicore reduce (`runtime/io.c` 150-253) | thread and argument arrays on the caller's stack | spawn, work, join, combine | kernel threads | every schedule gives the serial answer, no thread outlives the frame it writes to |
| hot reload runtime (`runtime/hotreload.c`) | per unit: mapping, mtime, generation | stat, copy, open, record | files published by the session | no reload missed, last good library kept |
| development loop (`cli/cmd_run.c`, `compile/compile.c`) | lock, hot directory, `watch_mtime`, library and hash files | start, compile, publish, fork, poll, rebuild, end | editor, other sessions, host | edits show up; a host never opens another program's library |
| GPU runtime (`runtime/gpu_runtime.c`) | resident buffers with dirty flags | dispatch, upload, sync | host columns | the newest values of a column are never lost |
| schedule, coherence pass and placement of maps (`codegen.c` 13399-14400) | which copy is newer, per pool; the tree of steps; costs | placement, insertion of transfers, residency; the emitted control flow | GPU runtime | no step reads a stale column on any path; chains are placed in the cheapest way |
| inspector (`runtime/inspect.c`, `cli/cmd_inspect.c`) | socket, registry of pools; view and pending requests of a client | LIST, SCHEMA, ROWS, POKE, reconnect | pool, at the reload point | an edit hits its row or none; answers fit requests; the terminal recovers |
| ownership check, drop tracking | state of each local; scopes of owned locals | move, borrow, consume, leave scope | destructors | each owned value is released once, by its owner |
| bounds prover and index policies | facts about index variables and lengths | walk of a body; abort, clamp, wrap | code generation | an elided check was not needed, a rejected index could not succeed |
| lexer, parser, syntax tree, formatter | tokens, tree, layout | one pass each; error recovery | `arche fmt` | the tree is lossless, skips are reported, formatting keeps the program |
| type checker, lowering, code generation, wasm backend | trees, HIR, instructions | one pass each | LLVM, wasm engine | the emitted code is well typed and does what the text says |
| module resolution, variants, scoping, units, object cache, link | registries of the process, cache directory | read, collect, rename, compile, publish, link | other builds, editor | a build succeeds exactly for a program, and binds every name as scoping says |
| language server (`arche_analyzer.c`) | warm analyses, registry and line offset of the process | UPDATE, HINTS, TOKENS, DIAG, GOTO, CLOSE | files on disk | a reply is about the document asked for |
| documentation tests, command line | modes of the process | several compiles in one process | builds | modes do not leak |
| shader text; network, terminal, log, stack and system-call wrappers | - | - | - | not modelled, section 8 |

The hard behaviours are sequences of legal calls that revisit a slot (pool, sort),
callbacks into the structure being walked (fan), boundaries (`free_list`, lanes,
generations, chunks), threads that fail to start, processes that die between two file
operations, files replaced while they are being read, answers that arrive after their
request was given up, and facts or registries that outlive what they were about.
`PROJECT.json` lists them as hazards at the lines where they bite.

## 2. Modules and how they correspond to the code

Runtime and emitted code:

| module | models |
|---|---|
| `EntityStore` | what a pool promises, without slots and generations: create, refuse, reveal, read, destroy, crash |
| `Pool` | the struct and helpers `codegen_archetype_decl` emits, the insert and delete call sites around them, `sort` as one step |
| `EachFan` (extends `Pool`) | `codegen_each_fan` with a body of inserts, deletes and cell reads |
| `IndexSort` | the code behind `Pool`'s action `Sort`: index build, insertion sort, radix sort, heapsort, cycle-following permutation |
| `ColumnFold` | the loops of `emit_fold` and `emit_fold_expr`, and the call of the cores backend |
| `ParReduce` | `arche_par_reduce_<T>`: the caller and its workers interleave |
| `Collectives` (extends the last three) | a behaviour is one call of sort, reduce, scan or multicore reduce |
| `GpuRuntime`, `Schedule` | `runtime/gpu_runtime.c`; placement, coherence pass and emitted schedule |

Processes:

| module | models |
|---|---|
| `HotReload`, `DevLoop` (extends it), `MCDevLoop` | `runtime/hotreload.c`, split between the stat and the copy; `run_run`, the watcher, `build_unit_so`, an editor, kills; two scenes |
| `Inspector` (extends `Pool`) | the server in the host, polled between pool operations; a terminal client and one-shot clients |
| `ModuleResolve`, `ModuleScope`, `UnitCodegen` | manifests, variants, search for modules; collection, renaming, visibility, regions; symbols and linkage of every unit |
| `BuildRun`, `BuildMeaning` | `compile_source` in every mode, several at once on one cache; what a program of several files means |
| `LanguageServer` | `arche_analyzer.c --serve` |
| `MCWorkspace` | one project with builds and the server together |

Passes:

| module | models |
|---|---|
| `Lexer`, `Parser`, `Formatter`, `FrontEnd` | scanner; every production with recovery and tree builder; layout; a file between an editor and `arche fmt --write` |
| `Ownership`, `DropCodegen`, `OwnedRun` | moves and borrows as checked; scopes and destructor calls as emitted; a machine that runs the result |
| `BoundsProver`, `BoundsRun` | verdict for every index; the body executed with its policies |
| `Typing`, `Lowering`, `LlvmCodegen`, `WasmCodegen` | checker and constant folder; HIR; LLVM instructions; wasm bytes |
| `LlvmMachine`, `WasmMachine`, `SourceMeaning`, `Numbers` | LLVM's verifier and execution, a wasm engine (both external); what a program says without the compiler's types; C arithmetic |
| `CompileRun` | a program from checker to its end; about 4400 programs |

Proofs: `PoolProofs`, `PoolStoreProofs`, `EachFanProofs`, `IndexSortProofs`,
`FoldProofs`, `DevLoopProofs`, `InspectorProofs`, `ScheduleProofs`.

**Passes as parameters.** `FrontEnd`, `CompileRun`, `BuildRun` and `LanguageServer` are
state machines around passes that are pure functions. They take those functions as
CONSTANT operators (`Scan`, `Parse`, `Format`; `Checks`, `Lowers`, `Emits`, `EmitsWasm`,
`WasmValid`, `WasmRuns`, `Says`; `Accepted`, `Lowered`, `Means`; `Analyze`, `Reply`,
`Stand`), and the `.cfg` gives each the operator `MC...` that calls the module of the
pass. The passes are recursive over trees; they stay in modules no theorem reaches.

**Pool.** `val` stands for all columns of a row and holds the number of the entity
written there; `gen` holds the i32 generation words with their width as the parameter
`GenMax` (sign bit = tombstone); `free_list` and `free_count` are as in the struct,
the second being the word *after* the first, so that a load or store one past
`free_list` reads or writes it (`FreeListAt`, `Push`). An insert is one of
`InsertAbort` (the inlined `?abort` handler), `InsertPopFree`, `InsertOutOfRange`
(the popped index is no slot: the program is then `"corrupted"`), `InsertAppend`,
`InsertEvict`, `InsertRefused`. `Policies` is the set of handlers the program's insert
sites resolve to. `Mint` is the handle a fan hands out for the row it stands on. `held`
is everything the program was ever given: it may use any of these handles at any time,
in any order (`HonoursOk` says it tests `ok` first). `drops`, `events` and the entity in
`held` are history.

**IndexSort** runs the three algorithms, one action per turn of a loop: `phase` is the
loop, `at` its counter and `hole` the counter of the loop inside it (the row that is sunk
or sifted, the place in a cycle). `Digits` and `Radix` stand for key width and byte, and
`Weight[p]` for what digit `p` counts. A radix pass is one step. Fewer than 32 live rows
take the insertion sort in the code; here either may run on any pool, so that both sides
of the limit are shown to agree. `PerRow` is the number of elements a column has per row.

**ParReduce** keeps folds in the free monoid: a partial result is the sequence of rows
folded, so an answer is right for every associative operation exactly when it is
`0, 1, .., n-1`.

**ColumnFold** does the same for `+` and `*`, one action per turn of a loop: a value is
the sequence of the cells folded, each cell of the column starts as the sequence of
itself, and `0` and `1` are the empty sequence. The lanes take the rows out of order, so
an answer is right for every associative and commutative operation when it lists the
right cells, each once. (Float addition is neither; rounding is not modelled.) `min` and
`max` fold values, since their identities are values that could show. `cells` is the
column as the call finds it, a history variable that `scan` is compared with. An
expression over a row is the function `Expr` of the enclosing map's row and of this one.

**GpuRuntime, Schedule.** Data is reduced to one bit per copy: a copy of a column is
current when it holds what running all steps on the host would have left there, and
`stale` records that a step read one that is not. Placement and pass work pool by pool,
so there is one pool with its columns. A kernel has the columns it really reads and
writes and, as `hidden`, the accesses its footprint lacks: `cg_fp_expr` takes the argument
of a scan or sort for a read (`codegen.c` 13620-13624), finds no pool in a column named
through a query, and keeps 64 pools. Placement and pass go by `FpRead` and `FpWrite`, the
runtime by what the kernel does.
Programs are not fixed: `Write` puts a schedule together step by step and `Compile`
chooses where its loop starts, so that a run checks every schedule within the bound. A
loop is left only by `halt`, so it is the suffix from `loopFrom`; conditions are one
level deep. The pass is not a function of the schedule but part of the behaviour: `coh`
is the sequence of `CgCoh` states after each step, and `Pass` visits one step as
`cg_coh_process_child` does, so the program runs when the pass has reached the end. The
cache of device buffers is a sequence of buffers per column and `count`, the entries in
use.

**DevLoop.** Files are known by the program and the text they were built from; the hash
of a unit's IR is that pair, so a hash never collides. Sessions work on different
programs of one project, whose sources share one newest mtime. The front end is one
decision: a text is accepted or `Broken`. A library of an accepted text may still be
`Unloadable` for a running host. `flock` is external: it is held while the session or
the host that inherited the descriptor lives.

**Inspector.** A connection is a queue of requests on the host's side and one of answers
on the client's; a row in a client's view carries the host's boot, its slot, its
generation and the entity that was shown. A fault is a cut answer, a host silent for
longer than a client waits, or a restart. `Crews` says which clients are started, and
beside which host.

**BoundsProver, BoundsRun.** An access records the length its check would have compared
with (a pool's live rows) and the size of its storage (a pool's capacity): the two differ
where the prover takes `.capacity` for the number of rows. The statement `params` at the
start of a body makes it a `@policy(pool)` handler, which binds `count` and `cap` and is
inlined before an insert, whatever the pool holds.

**Builds.** Everything in a build's work directory is its own, so its steps are its
accesses to what others change or read: each source file, each cached object, the shims
at the link. Bodies are reduced to the names they use.

**Machine code.** Integers are bit patterns; the widths 1, 8, 16, 32 and 64 are kept as 1, 3,
4, 13 and 15 bits, so that overflow, truncation and extension happen with small values. Floats
are rationals. A fresh stack slot holds any of `Garbage`. Constants are registered in the
order of their declarations (`order`): an expression folds over those before it and is cut
to an int, a bare name waits for the one it names.

## 3. Runs

| run | instance | shows |
|---|---|---|
| `pool_fan` (`EachFan`) | 3 slots, 1 initial row, 6 entities, generations up to 2, `?reject` | `FreeListExact`, `HandleSound`, `RefusedOnlyWhenFull`, `DropsExact`, `FanComplete`, `BodySeesLiveEntity`; `StoreSpec`: the pool implements `EntityStore` |
| `pool_sort` (`Pool`) | 3 slots, 2 initial rows, 5 entities, `?abort` and an evicting handler, one sort, keys with ties | `SortKeepsEntities`; `FoldReadsLiveRows` before and after a sort |
| `collectives` (`Collectives`) | every pool of up to 4 rows and 4 key values to sort, with any rows freed, by every algorithm, of up to 9 rows to fold (6 where values are compared) with any rows freed, expression folds over one or all matching pools, 10 rows on 4 threads with every failure of `pthread_create` | `SortedStable`, `RowsStayAligned`, `ReduceFoldsLiveRows`, `ScanIsPrefixFold`, `JoinedBeforeRead`, `FoldsEveryRowOnce`, `Returns` |
| `dev_loop` (`MCDevLoop`) | one session with 2 devices, 4 texts, 2 saves, 1 failure; and 2 programs run by up to 3 sessions with a kill and a save | `NoReloadMissed`, `NoSavePassedOver`, `KeepsLastGood`, `EditsShowUp`, `OwnLibrary` |
| `schedule` (`Schedule`) | every schedule of up to 3 steps from 11 kernels (a scan and a sort through a query among them), 6 builds, 2 columns, 3 buffers, 1 growth, 1 failure | `CoherentReads`, `PlacementIsCheapest` |
| `owned_drops` (`OwnedRun`) | about 20000 bodies with branches, loops, blocks, matches, moves, copies, early returns, on every path | `OnlyTheOwnerActs`, `NothingLeaks` |
| `bounds_prover` (`BoundsRun`) | bodies of loops, guards, conditions (also on `.capacity`), assignments, slices, inserts, and overflow handlers, with inputs around every boundary | `ElidedIndexInRange`, `RejectedIndexAlwaysFails`, `PolicyKeepsIndexInRange` |
| `front_end` (`FrontEnd`) | 11 sources that use every construct and reach every limit of the parser, and every text one token edit away | `TreeIsLossless`, `NothingSkippedSilently`, `OperatorsNest`, `FormatKeepsProgram` |
| `inspector` (`Inspector`) | 2 slots, 1 fault; a terminal and a one-shot poke over 2 boots, and two terminals beside the last host | `EditHitsItsRow`, `AnswersMatch`, `TerminalRecovers` |
| `compile` (`CompileRun`) | about 4400 programs over all widths, floats, arrays, views, calls, constants folded in either order of declaration | `IrVerifies`, `PrintsWhatItSays` |
| `workspace` (`MCWorkspace`) | a driver, two devices, two variants; 12 kinds of job, 2 processes, 1 save, 1 failure or kill; 2 open documents | `BuildsWhatItReads`, `RepliesFitTheDocument` |
| `compile_params` (`CompileRun`) | a function that assigns to its scalar parameter; must fail | the finding of section 6 |

**Why the bounds are enough.** Three slots are the least in which the free list holds two
entries while a third row is live, so that order of reuse matters, and a fan can have rows
before and after the one it stands on. With generations up to 2 a slot can be freed,
reused, freed again and exhausted within the entities available. Four rows give every
shape of permutation: fixed rows, one cycle of any length, and two cycles at once; two
digits of two values make radix passes that must be stable. Eight rows are two whole
vectors, and 5, 6, 7 rows leave each possible tail. Ten rows over 4 threads give every
remainder of `n / k`. Two saves are one that a build reads and one that arrives during it;
two units make a build that is half published; three sessions are the fewest that can have
A publish, B overwrite and die, and A return. Three steps with a back edge hold a device
result before, inside and after a host step; two columns let a step touch one and not the
other; three buffers are full once two columns are resident and one of them has grown. One
edit reaches each recovery point of the grammar, since recovery starts again at every
declaration; with 3 comments in a row, 8 declarations, 3 targets and 12 skipped tokens
some texts pass each limit and their neighbours do not. Two terminals are enough for one
to keep the other waiting. Two boots and one fault are enough for a late answer, a reused
slot and a reconnect to meet. Two jobs in one process show what a process carries from one
compile to the next. What the pool, the fan, the multicore reduce and the development loop
show does not rest on the bounds: section 5 proves it for all.

**Deadlock** is checked only in `compile`, where a program must run to its end. Pool
programs stop when they abort or have offered their entities, algorithms and builds stop
when they are done, a session may end for good.

**Fairness.** `ParReduce`: weak fairness of the caller and of each started worker, since
both are kernel threads that wait only for each other. `DevLoop`: weak fairness of the
session's own steps and of the second half of a reload (straight-line code), strong
fairness of the stat of each unit (the host's main loop calls into every device over and
over; a step of another unit may disable it in between). `Inspector`: weak fairness of
the host's poll, which its main loop makes in every turn, and of a client's connect and
read steps, which its loop repeats on a timer. Saves, failures, kills, exits, edits and
the host's pool operations are not fair: they need not happen.

## 4. What the properties leave out, and why

A property holds up to the point where the code leaves its own rules; a guard, or the
choice of programs, says where that is.

* `Regular` in the pool's properties: no sort so far, no eviction has wrapped a
  generation, and the free list was not pushed past its end. After any of the three a
  handle can reach another entity; in particular after 2^31 evictions of one slot.
* `DropsExact` also stops at the first eviction, which overwrites a row without running
  its destructor (`codegen.c` 11766).
* `FailuresLast` in `ParReduce`: every `pthread_create` that failed came after all that
  succeeded. Otherwise the joins, which run over `th[0 .. spawned)`, meet an entry that
  was never set and miss the last worker (`runtime/io.c:232`).
* `ReduceFoldsLiveRows` covers the cores backend on pools without holes only.
* `skipped` in `NoSavePassedOver` and `EditsShowUp`: `watch_mtime` was set without a
  build, at the baseline (`cmd_run.c:383`) or for an unreadable entry file (416).
* `torn` in `OwnLibrary` and `EditsShowUp`: a library was published without its hash.
* `Orderly` in `Schedule`: the pass never had a doubt about which copy is newer
  (`plan.doubts`), no step after a dispatch has accesses its footprint lacks (the doubt
  "hidden": without it the run violates `CoherentReads`), no resident pool grew, the cache
  was not full and no device call failed after something was resident.
* `EditHitsItsRow` is about programs that never sort the pool (`MaxSorts` = 0 in the run,
  `Steady` in the theorem): a sort gives every row generation 0 again, so an edit of a row
  shown before the sort can be accepted for the row that took its place
  (`runtime/inspect.c` 296-370 compares slot and generation only).
* `TerminalRecovers` asks that no other terminal stays connected for ever: the host accepts
  only while it serves nobody (`inspect.c:434`). Without the condition the run violates it.
* `TreeIsLossless` asks for all tokens only where the parser read the text to its end, and
  otherwise for a prefix of them. `NothingSkippedSilently` excepts what follows an empty
  statement, and a text with too many comments in a row or too many declarations
  (`TooLong`), of which nobody is told. `FormatKeepsProgram` excepts texts that were not
  read to their end and comments inside list items.
* `ElidedIndexInRange` asks that the index lies in the storage, and on a live row unless
  the body tests a `.capacity` or is an overflow handler.
* `OnlyTheOwnerActs` and `NothingLeaks` are about the bodies `Disciplined` admits, the
  bounds properties about bodies whose assignments stay at the level of the facts, the
  compile properties about programs without the constructs listed in section 6.
* `RepliesFitTheDocument` excepts replies about other documents after the prelude
  `core.arche` was sent (and the reverse), and a GOTO into a module out of a document
  that is not the one sent last.

## 5. Proofs

The theorems hold for every value of the constants: every capacity, generation width, set
of policies, number of entities, column length, number of processors, of sessions,
devices, texts, saves, clients, hosts, failures, GPU columns, cache entries, kernels and
schedule steps, rows and digits to sort by, rows, pools and matches to fold. Their
premises are the named assumptions `PoolAssumption`, `SortAssumption`, `FoldAssumption`,
`ParAssumption`, `HotAssumption`, `DevAssumption`, `InspectorAssumption`, `GpuAssumption`
and `ScheduleAssumption`, which say that sizes are naturals, that the declared initial
length fits, which handlers exist, that "shared" is not the name of a session, that no
client is both a terminal and a one-shot, that the number of digit values is even, what a
footprint can be, and that a pool has one canonical name. Five theorems are about some
programs only and say which: `PoolImplementsStore` (`Plain`), `EditsHitTheirRows`
(`Steady`), `ColumnsAreMovedWhole` (`PerRow` = 1), `ReduceIsRight` and `ScanIsRight`
(`Fits`: values lie between the identities of `min` and `max`, as they do in columns of up
to 32 bits). Section 6 says what happens to other columns.

**Types of the pool** (`PoolProofs!TypeCorrect`). `TypeOK` is not inductive: that
`free_count` stays at most `Cap + 1` follows only because each free-list entry
corresponds to a used slot. `TypeInv` adds `FreeListInv`: the entries inside `free_list`
are different tombstoned slots, and `free_count` passes the array only when every slot
is tombstoned; the argument is a pigeonhole over finite sets. It holds whatever sorts
and evictions do.

**Handles** (`PoolStoreProofs!HandlesSound`, `FreeListIsExact`,
`RefusalsAreJustified`). `HandleSound` alone says nothing of what a stale handle meets
when its slot is reused. `PoolInv` is the type invariant and, while `Regular`: `RowsInv`
(unused slots have generation 0, used rows hold different entities, a tombstone's
generation is at least 1), `FreeInv` (the free list is a duplicate-free enumeration of
the tombstoned rows) and `HandlesInv` (a handle's generation is never ahead of its
slot's, strictly behind a tombstone's, and equal to a live row's exactly when the row
holds the handle's entity). One lemma per action.

**Destructors and refinement** (`PoolStoreProofs!DropsAreExact`,
`PoolImplementsStore`). `DropInv`, under `Quiet` (regular and no eviction), relates the
rows to the entities ever placed and the destructor counts to those that are gone.
`StoreInv` carries the refinement, for `Plain` programs: no sort, every site `?reject`,
`ok` tested. The only rule such a program can leave is the free list pushed past its
end; then every slot is freed, which `StoreInv` states, so the abstract store is empty
and the step is still one of `EntityStore`'s, until the next insert, which maps to its
`Crash`. Each pool action is shown to be one abstract action or a stutter.

**Sort and folds** (`PoolStoreProofs!FoldsReadLiveRows`, `SortsKeepEntities`), without
`Regular`: `SortInv` is the type invariant with `NoHoleInv` (`free_count` = 0, which
only a sort causes, means no row below `count` is tombstoned) and `WrittenInv`. That a
sort keeps the entities is a bijection argument between the live rows and the packed
ones.

**The sorting algorithms** (`IndexSortProofs!SortsAreStable`, `ColumnsAreMovedWhole`).
`SortedStable` speaks of the result; `BaseInv` and `OrderInv` of every turn of every loop.
`BaseInv`: the loops stay inside the live rows, and the index array names each row once,
the live ones first. It holds for NaN keys too, which compare with nothing. `OrderInv`,
for keys that compare:

* insertion (`InsertOk`): up to the current row all pairs are in order except those that
  end at the row being sunk;
* heapsort (`HeapOk`, `TailOk`): a heap except at the row being sifted, whose children
  must stand below its *parent*; the rows already taken out are where they belong. That
  the root comes last of its heap is shown with the least row that does not precede it;
* radix (`RadixOk`): rows are in order of the digits done so far, and those that agree in
  them in order of their number. One more pass is `LowDigits`: a number modulo `w * r` is
  `w` times its next digit plus what it was modulo `w`.

The place of a row in the result is the number of rows before it (`Ranks`: in a finite
strict order ranks are different and fill `0 .. n-1`), which also gives the scatter of a
radix pass. `ServedInv` carries the permutation: a marked entry has its element, and the
element an open entry asks for is still in its place, except the one in `temp`.

**Fans** (`EachFanProofs!FanIsPoolProgram`, `FansAreComplete`,
`BodiesSeeLiveEntities`). A fan's behaviours are behaviours of `Pool`, so the theorems
above hold inside fans. `FanInv`: the fan stands below the `count` it read, entities
that came later are not among those it owes a body, and each of those is on a row still
ahead or has had its body. It needs `DropsInv`: an entity never moves to another row.

**Multicore reduce** (`FoldProofs!ArraysInBounds`, `NoWorkerOutlivesTheCall`,
`ReduceIsExact`). `ParInv` relates the caller's position to the threads that exist, the
chunks written, the workers joined and the prefix combined. The arithmetic core is
`ChunkFacts`: chunk `u` ends where chunk `u + 1` starts and the last one ends at `n`.

**Reduce and scan** (`FoldProofs!ReduceIsRight`, `ScanIsRight`). One lemma carries the
argument for all operations: combining the folds of two disjoint sets of cells gives the
fold of their union (`FoldJoin`: lists without repetition put together, or the better of
two extremes, where the identity is no better than any value). `FoldInv` says of every
turn which cells have been folded: lane `l` the rows congruent to `l` modulo 4, the
one-row loop the live rows behind it, an expression the live rows of the pools before
this turn's (`PastCells`). `ColumnOk` is what a scan needs: rows behind it hold their
folds, rows ahead what they held at the call. `DomainOk` says the domain names each pool
once and holds every allocated pool met so far if there is room; that room is not
exhausted early is a comparison of cardinalities. The cores backend appears as a fold in
order, which `ReduceIsExact` justifies.

**Development loop** (`DevLoopProofs`). `BaseInv` is types, where a session and its host
can be (`PlaceInv`), and `Exclusive`: at most one session, or host it left behind, uses
the shared directory. On top of it three invariants, each with its theorems:

* `LoadInv` (`ReloadsAreNotMissed`, `LastGoodIsKept`): what a host recorded of a library
  is never ahead of the file, and where it equals the file's time the mapping is the
  file's; a load under way was started for a file that is still there. A replacement
  between stat and copy leaves the recorded time behind, which causes the next reload.
* `SaveInv` (`SavesAreNotPassedOver`): samples are never ahead of the files; while
  nothing was saved since the sample a rebuild was started for, what it has read so far
  is what the files say, and this survives failed rebuilds.
* `OwnInv` with `Paired` (`LibrariesAreOwn`): what a session published, and what its host
  can see or has, is its own; a sidecar names the library it lies beside except while
  the session that renamed the library has not yet written it. `Paired` is what makes a
  cache hit safe, and why the property stops at `torn`.

**Inspector** (`InspectorProofs`).

* `AnswersAreMatched`. `AnswersMatch` is a history and says nothing of what is under way.
  `FlowInv` follows one request through its life: each client has at most one open
  connection (`Single`); an open connection that is not accepted carries nothing and
  owes the greeting; one that is accepted owes exactly the answer to the client's last
  request, either in the client's socket or still asked for, unless an older answer lies
  before it (`OwedInv`). That older answer is always one to SCHEMA or POKE and the client
  then waits for ROWS (`HeadInv`), whose reader refuses it. So the second request on a
  connection that is behind is safe because of *which* requests may be given up, and
  would not be if a terminal gave up ROWS without hanging up. One lemma per action; the
  host's steps move the whole line up when the connection it serves is dropped.
* `EditsHitTheirRows`, for `Steady` programs: no sort, and with an evicting handler at
  most `GenMax / 2` entities. `KnownRow` is the fact that makes a POKE safe: the
  generation a client saw is never ahead of its slot's, strictly behind a tombstone's if
  the row was live, and equal to the slot's only while the slot holds the entity that was
  shown. `RowsInv` says so of every row in a pending POKE, on a connected client's screen
  and in an answer under way, of the running host and of the right pool: it ties a
  connection to one boot, and the rows a client takes to the tab it is on.
  `SlotStep` sums up what a step of the program may do to a slot, and `BoundInv` (a slot's
  generation counts at most two for every entity offered) is why no eviction wraps. The
  theorem needs neither `Regular` nor an exact free list: a tombstoned row that is not in
  the free list may be shown, and an edit of it still hits that row.

**Coherence** (`ScheduleProofs!ReadsAreCoherent`). `CoherentReads` says that no step of
a running schedule reads a copy of a column that is not current. It is about the program
the pass emits, so the invariant `CInv` has a part for each stage:

* `StepsInv` and `PcInv`: what a schedule under construction looks like, and where the
  pass and the program stand in it;
* `PassOk(coh)`, about the pass. `Chained`: every state follows from the one before by the
  visit of that step. `Monotone`: doubts and the mark of a dispatch stay. `Transferred`: a
  flush, sync or upload is put exactly where the marks at its step ask for it. `KeepsMark`:
  inside a conditional body the mark of its entry is still known at its end. `LoopClosed`:
  no state inside the loop's body promises more than the one the loop was entered with;
* `Untouched`: before the program runs, the host has the data and the cache is empty;
* `RunInv`, about the program at each of its places (guard, test, transfer, step): while
  the behaviour is `Orderly` (no doubt and no failure so far, section 4; a step with
  hidden accesses before any dispatch is no doubt, since nothing is resident yet), `Kept`
  (nothing stale was read, some copy of each column is current and a device copy that
  alone is so is marked dirty, a column has at most one buffer) and `Fits`: not dirty on
  the device means the host's copies are current, not dirty on the host means those in the
  cache are.

The induction over the steps is that of the specification, because the pass advances by
one action per step. Two places need more than the step before: the end of a conditional
body, which is reached with or without running it, and the loop's back edge, where the
state at the end of the body must fit the marks at its start. The pass seeds the loop with
every write of its body (`EnterLoop`); that this is enough is `LoopClosed`.

These invariants were also checked by TLC on the instances of the runs before they were
proved.

Record updates in the modules proved about are written one path per EXCEPT
(`[f EXCEPT ![s] = [f[s] EXCEPT ...]]`, or through `Becomes` and `HostBecomes`): the
prover's SMT translation is not reliable for several nested paths with a common index.

**Only model-checked:**

* liveness under fairness (`Returns`, `EditsShowUp`, `TerminalRecovers`): out of the
  prover's reach;
* what recursive definitions compute (the passes behind `FrontEnd`, `CompileRun`,
  `OwnedRun`, `BoundsRun`, `BuildRun`, `LanguageServer`): needs
  induction over data or reaches RECURSIVE operators;
* `PlacementIsCheapest`: the costs it compares are folds over the clusters of a
  schedule.

## 6. Where the code and its documentation disagree

Checked by a run that must fail: `compile_params` - a scalar parameter is registered
without a slot, so an assignment to it is computed and dropped (`codegen.c:10486`,
against `tests/unit/compiler/semantic_tests.c:443`).

The rest was found while modelling and is kept as guards of properties or outside the
enumerated programs.

**Pool and sort.**
* Freeing all `Cap` rows stores the last slot at `free_list[Cap]`, which is `free_count`
  itself (`codegen.c:11972`); the next insert pops a number that is no slot. The comment
  at `inspect.c` 25-26 takes `free_list` to be in bounds.
* `sort` moves rows between slots and clears every generation (4421), so a handle of
  generation 0 given out before is accepted for another entity.
* A refused insert answers handle 0, which is a valid handle for row 0 of a pool with
  initial rows (11772, against the comment at 11885).
* `?abort` looks at `count`, the high-water mark, and stops a program whose pool has
  freed slots (`core/core.arche:91`).
* An eviction increments the generation without the exhaustion test that delete has
  (11876 against 11936) and runs no destructor (11766).
* `sort` stores 0 in the 1-based `free_count` (4406), so the first slot freed afterwards
  is never reused. `free_count` starts at 1 and `emit_pool_has_holes` tests it against 0
  (3370), so a pool that never deletes takes the guarded loop.
* For a column with several elements per row `sort` moves one element per row (4351;
  `IndexSort` with `PerRow = 2` violates `RowsStayAligned`, against
  `docs/language.md:560`).

**Folds.** The multicore reduce folds freed rows (3657). `min` and `max` start from
32-bit constants whatever the column's width (2893). Archetypes beyond the sixteenth
that an expression fold matches are not folded, silently. A failed `pthread_create`
followed by a successful one breaks the joins (`runtime/io.c:232`).

**Schedule and placement.**
* A scan or sort on the host changes its column in place, but its argument counts as a read
  only (13620-13624; 6228 and 6278 are the calls), so no upload precedes the next step on
  the device, which reads the values from before. A column named through a query
  is in no footprint at all: what the device wrote is not downloaded before it is read
  either. The same holds for pools beyond the 64th of a step (13576), and the pass itself
  keeps marks for 128 pools. The comment at 13584 calls the recorded accesses those
  "reachable from `e`".
* Three nests of loops and conditions lose a transfer. At a loop a pool that the body
  writes on both sides is marked as newer on both (13956-13965), so the first GPU step
  is preceded by an upload: in `seq { g; loop { g; when p { h } } }` it overwrites the
  result of the first `g`, against the comment at 13952, "never under-syncs". The result
  of the last step of `loop { g; h; g }` is lost in the same way at every back edge. A
  conditional body that uploads a pool clears its mark also for the path on which the
  body did not run (13890): in `g; h; when p { g }; g` the last step may read the column
  from before `h`.
* Overwriting one column marks the whole pool as newer on the host (13914), so what the
  device wrote in another column is not downloaded before it is read. A `gpu.sync` in
  the source, after the host has overwritten a pool, brings the older values back.
* A map that is a body by itself (`forever(g)`, `when(p, g)`) gets no joint decision,
  only the greedy estimate, against the comment near 14267, "for every eligible map"; a
  map scheduled in two clusters takes the first cluster's decision; beyond 256 maps of a
  cluster there is none.
* When a resident pool grows, the next dispatch makes a second buffer from the host's
  column while transfers keep finding the first (`gpu_runtime.c:318`; the comment at 56
  takes the size of a column for fixed). With 256 resident columns a dispatch reads and
  writes the host's copy of columns that are resident (316). A dispatch that fails falls
  back on host columns that may be older than the resident ones; a failed transfer is
  neither reported nor retried (478, 497).

**Development loop.** A save between the first build's reading of the sources and the
baseline sample (`cmd_run.c:383`) is not rebuilt until the next save; an unreadable
entry file (416) advances `watch_mtime` without a build. A session killed between the
rename of `unit_N.so` and the write of its hash (`compile.c` 417-427), or unable to open
the hash file, leaves a library under another program's hash, which a later session of
that program reuses. `ARCHE_HOT_DIR` with `--gpu` never links (undefined
`arche_hot_register`).

**Inspector.** `write_all` gives up at EAGAIN, so a ROWS answer over the socket buffer
(about 219 KB; `BLOB_MAX` is 4 MiB) is always cut and the terminal reconnects for ever
(comment `inspect.c:414`). A terminal that stays connected keeps every other client
waiting (434); the one-shot commands give up after their timeout. After a sort and a
delete a freed row is shown, and an edit of a row shown before a sort may be written to
the row that took its place. A POKE the client gave up is still carried out. The tail of
an overlong request is taken for a new request.

**Ownership.** Bodies of `if`, block and `match` open no value scope. `y := x` of an
opaque followed by `close(y)` closes twice. Locals of a C-style `for` body are dropped
once, not per turn; `break` and `continue` skip drops; a `return` last in a conditional
loop leaves outer locals undropped; a move inside a loop is accepted; match arms are
analysed one after the other; filling a live resource again overwrites it; own opaque
parameters are never dropped; a raw opaque leaks at an early return; a refused insert
loses the value moved into it (`tests/unit/language/use/use_basic.arche:14`,
`tests/unit/language/drop/implicit_move_no_double_drop.arche:1`).

**Bounds prover.** Unsound forms: the guard `v > X.length` counts as an upper bound; an
assignment in a nested body is forgotten at its end; `i += k` is taken for `i = k`; the
facts of a condition also hold in its `else`; `if .. else { return }` counts as a guard;
loops that count down; `delete` does not invalidate the initial count; sized array
parameters get no run-time check; clamping an empty base gives -1 (comments near
`semantic.c` 5322, 5766). A bound by `P.capacity` counts as one by the number of rows
(5405), so the check of `P.c[i]` is dropped for slots without a row, against the comment at
6144, "capacity is not used here", and `docs/language.md:224`, "not an iteration bound"; the
standard library uses the form (`stdlib/csv/csv.arche:39`). The access stays inside the
column's storage. In a `@policy(pool)` handler an index below `cap`, or 0, counts as a row
although the handler also runs on a pool that is not full or has no row, and it is accepted
for the columns of any pool (6163 does not compare the base), of which only lint W0019
warns; the model's handlers index their own pool.

**Front end.** `fmt` garbles comments inside list items (against `Makefile:605`); an
empty statement `;` makes recovery skip the next statement silently; a recovery
that skips 1000 tokens drops the rest of the file, with its error reported
(`parser.c:196`); beyond 1000 comments in a row (98) or 10000 declarations (2687) the rest
is not read and not reported, since only `had_error` is set, and `fmt --write` then writes
back only what was read; a multi-line block comment before a declaration is not
formatted idempotently.

**Code generation.** A name declared again in an `if`, block or match body
(`codegen.c:11063`, `parser.c:2475`); a match with only `_` keeps its first statement; a
match over u8 compares as i32; arms are not visited by the type checker; the sum of two u8
wraps at 8 bits or is ill-typed; the sign of a comparison or division is that of the first
integer operand; `float(200)` of a u8 is negative; `a[0] += 3` on a local array stores 3;
`-x` and mixed arithmetic on i64 or u8 emit i32 instructions; returns and element stores
of another width are not converted; 64- and 8-bit division has no failure policy (near
7763); `if (2)` emits `br i1 2`; `u8(300)` is not truncated; `x : float = 3` stores an
i32; the folder ignores annotations, computes in 64 bits and cuts the result to 32, and a
constant expression sees only the constants declared before it.

**Wasm.** Unary operators, calls, slices and casts emit 0; block, match, break, continue
and return are left out; `&&` and `||` are bitwise; narrow and wide locals are not
wrapped; float `%` emits an i32; division by zero traps instead of following the policy;
no bounds checks; u32 compares as signed; strings over 15 KB run into the arrays; more
than 256 locals overflow a table.

**Modules and builds.** `#run { dev.step }` runs the driver's own `step` when that is
declared before the import (`codegen.c:13399`, names compared by their tail; the same in
`find_map_decl`, 1650) and can schedule a device's `#module` system; `init` of an
imported plain module is called in whole-program builds only (15508, 15584); two modules
of one base name alias; a parse error in one file of a folder, or a path import that is
not found, only prints; a broken module falls through to a later root; a misspelt
variant or target is ignored; slice bounds are not renamed inside devices;
`force_whole_program` stays set for the rest of the process.

**Language server.** After `core.arche` was sent the line offset is 0 and shifts the
replies about other documents, and the reverse. GOTO into a module from a document that
was not sent last answers with a wrong file or line (against the comment near
`arche_analyzer.c` 1087, "Cross-file by construction"). Errors of imported or sibling
files are printed at lines of the open document; a bare import that is not a device is
not reported; the prelude is read once; names that are not visible are coloured and
followed.

## 7. Abstractions

Column types and layouts, log messages and wording are left out. A pool has one key
column and one value per row. Only static pools exist (a dynamic pool is not reachable
from the language). In `DevLoop` each save gives a file an mtime newer than all others,
as an editor does. A lock file that cannot be opened sends a session to a private
directory like a held lock and is not a separate step. The non-hot path of `arche run`
waits for its child and is not modelled. Flops and transfer sizes are small integers, a
machine's profile is an input. The formatter alone is modelled character by character,
since its properties are about the text. Limits of the code (comments, depth,
declarations, targets, roots, resident columns) are constants with small values.

## 8. Not modelled

* Shader text; network, terminal, log, stack check and system-call wrappers: text
  generation and thin wrappers without state of their own.
* Of the semantic analysis: archetype and query matching, effects and purity,
  reachability and unused lints, sum types. Of code generation: string formatting, sum
  types, column expressions. Of the language server: GOTO on parameters and locals,
  documentation replies, four kinds of hints. Of the documentation tests: extraction and
  comparison of outputs. Of the command line: argument parsing of the other commands.

## 9. Plan

Done: every component of section 1 modelled and checked; the pool with its refinement,
fan, sorting algorithms, reduce, scan and multicore reduce, development loop, inspector
and the coherence pass proved.

Next: the ownership check and the bounds prover as one action per visited statement, as
the coherence pass is now, so that `OnlyTheOwnerActs` and `ElidedIndexInRange` can be
proved by the induction of the specification.
