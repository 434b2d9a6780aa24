# A verification project for reffine

reffine compiles declarative queries over sorted Arrow vectors ("for every `t`
such that *predicate(t)*, compute *outputs(t)*") into loops. This directory
holds TLA+ models of three sides of it, with the TLC configurations that check
them and TLAPS proofs of the main results:

* **what a loop does** - which values it visits, in which order, and what it
  writes: the iteration spaces, the Reffine pass that derives them from a
  predicate, the loop over them, the runtime functions that loop calls;
* **what the compiler makes of it** - the expressions LoopGen builds, the passes
  that rewrite them, the C code that comes out, run statement by statement and
  shown to be that loop;
* **what a process does with it** - functions compiled, failing to compile and
  clashing in one library, tables made, shared, given to Arrow and freed.

Paths below are relative to the repository.

## 1. The system

A query is an `Op`: iterators, a predicate, outputs. It is compiled by a
pipeline of passes (`include/reffine/utils/utils.h`, `compile_op`) and run as one
function of one thread.

| Component | State it keeps | Operations | Talks to | Correct when |
|---|---|---|---|---|
| **Reffine pass** `src/pass/reffinepass.cpp` | current iterator, variables | predicate -> tree of spaces; asks Z3 for affine bounds | Z3 adapter, spaces | the space stands for the values the predicate holds of |
| **Iteration spaces** `src/iter/iter_space.cpp` | none: each method makes the expression for a step of the loop | bounds, `iter_cond`, `idx_to_iter`, `iter_to_idx`, `is_alive`, `next`, `vec_iter_idxs`, `&`, `\|` | LoopGen, vector runtime | no value skipped, repeated or made up; no read outside a vector |
| **LoopGen** `src/pass/loopgen.cpp` | symbols; the generated loop keeps index, output index, null count, byte map | `Op` -> loop over an output vector, `Reduce` -> loop over a state, `Element` -> read | spaces, memory manager, runtime | scalar and vectorized paths give the same result, rows sorted, nulls counted |
| **Loop lowering** canonpass, readwritepass, scalarpass, symanalysis | use counts, symbols | shapes loops, lowers reads and writes to buffers, takes structures apart | emitters | the loop's steps keep their order; no pass meets what it asserts against |
| **Emitters** cemitter, llvmgen | symbol -> value; symbols emitted so far | C text; LLVM IR | JIT engine | a name means its symbol, a declared value is taken at the right time |
| **Vector runtime** `include/reffine/vinstr/vinstr.h` | none | null bits, run ends, `vector_locate`, `finalize_vector` | Arrow tables | every row of the output has the validity the loop decided |
| **Arrow tables** `include/reffine/arrow` | schema, array, buffers, index; release callbacks | build, index, export/import | runtime, memory manager, Arrow library | the index is the vector's; buffers are freed once |
| **Memory manager, JIT engine** `src/engine` | list of builders by `mem_id`, tables made; one static JIT | add builder, make table; add and look up code | generated code | an id means the same builder for as long as code that holds it |
| **GPU kernels** `main.cpp`, cuda_engine | grid of threads, each with its index | partition the elements, run | llvmgen | each element is processed once |
| IR, builder, pass framework, printer, Python bindings | trees, memo tables | construction, traversal | - | - |

What is hard about it: nothing checks an index at run time, so everything rests
on walks that start on the right row, move the side of a merge that is behind,
and stop in time; bounds are found by a solver and a comparison it cannot bound
disappears; a pair of indices, or the state of a reduction, is one value in the
intermediate language and several stores in the code; a symbol is emitted where
it is first used, whoever uses it later; names and `mem_id`s are keys of tables
that outlive every query; the vectorized path writes rows first and decides afterwards which
count; bitmaps are accessed by 16-bit words although allocated in bytes; two
iterators share one loop; kernel threads compute their shares in unsigned
arithmetic. `PROJECT.json` lists each hazard at its line. There is no
persistence, no messages and, kernels aside, one thread: no recovery,
delivery or timeout to model.

## 2. Modules

| Module | Models | How |
|---|---|---|
| `Vectors` | a vector's key column: buffer, bitmap, index | `before`/`after` are the cells an unchecked read sees outside; `Locate` is `vector_locate` over what `build_index` enters |
| `IterSpace` | every space of `iter_space.cpp` | a space is the record of its virtual methods as functions of the index; constructors have the source's names |
| `LoopGen` | the loop of an `Op`, scalar and vectorized | one action per block: `Continue`/`Break` (exit_cond), `ScalarBody`, `VectorBody`, `Incr`, `Post` |
| `RelationScan` | the abstract specification of a query | lists the answer's values in ascending order, leaves none out, ends |
| `Structures` | predicates, structures of spaces, and each function of the pass on them one level at a time | Z3 is "a bound equivalent to the comparison on a window of values, if there is one" |
| `ReffinePass` | predicate -> space | the recursive functions over those levels, for the runs |
| `PassTables` | the same functions as tables: the answer on a tree is what `Structures` makes of the answers on its parts | what the proofs speak of, see section 5 |
| `VectorLoop` | what the iterations of a loop read and write | `WalksOf` names the vectors a space goes over; the properties `ElementsMatch`, `NoStrayRead`, `RowsFit` and `StrayRowAtMost` |
| `Query`, `MCQuery` | pass + spaces + loop + vectors together | the reference answer is the predicate evaluated directly (`Holds`) |
| `PairLoop` | the loop over the pairs of two iterators | `LoopGen` again; the properties speak of pairs and their order (`Before`) |
| `NestedQuery`, `MCNested` | two iterators: the pass run twice, the two spaces nested | the outer bound is *any* the solver may answer with |
| `GroupReduce`, `MCGroupReduce` | `Reduce` over the runs of a run-end encoded vector, nested in the outer loop | the body of `LoopGen` refined into a loop; the accumulator remembers its rows |
| `FinalizeVector`, `MCFinalizeVector` | `finalize_vector` bit by bit | `LoopGen` has it as the single step `Post` |
| `KernelPartition`, `MCKernelPartition` | the threads of a GPU kernel | arithmetic modulo the word, threads interleaved |
| `IR` | the types and nodes of the intermediate language | a node is a record, constructors have the source's names, `WellTyped` is their assertions |
| `SpaceExprs` | the spaces again, as the expressions their methods return | `IterSpace` says what those expressions mean |
| `Lowering` | LoopGen as a function from operators to expressions | `LoopGen` is what the resulting loop does |
| `Passes` | CanonPass, ReadWritePass, ScalarPass | functions over trees; a pass that throws leaves a `throw` node |
| `CEmit` | CEmitter: statements, blocks, where a symbol is declared | `done` is the table of symbols already emitted; `CompilesAsMeant` is C's scoping |
| `EmittedLoop`, `MCEmitted` | the C function running, one action per kind of statement | memory by pointer, a scope per open block; implements `LoopGen` (`view`) |
| `Session` | the host, memory manager, JIT library, ownership of Arrow structures | blocks of memory by owner; loads and compilations that fail; the host's calls in every order |
| `SpaceLaws`, `SpaceLawsProofs` | what a loop needs of a space; that every kind of space has it | see section 5 |
| `LoopGenProofs`, `QueryProofs`, `PairLoopProofs`, `GroupReduceProofs`, `FinalizeVectorProofs`, `KernelPartitionProofs`, `SessionProofs` | theorems | see section 5 |

Abstractions. A row is its key and validity: the values of other columns never
influence control. An iteration's outputs are the iterator and, for each vector,
the row its `Element`s read. Integers of `IterSpace` are unbounded (the code's
are `int64`); `KernelPartition`, where wrapping happens in ordinary runs, keeps
the word. Reads and writes of one block of the loop are one step: the loop is
one thread and nobody sees its memory in between. `EmittedLoop` takes that back:
there every statement is a step, and `ImplementsLoop` says that the block as a
whole is the step `LoopGen` has.

In the compiler's modules, column 1 of every vector holds the number of its row,
so that an `Element` tells which row was read. Symbols are told apart by the
place they were made (`at`), of which only the name reaches the C code. Floating
point, strings and encodings are left out: no pass decides anything by them,
except that run-end columns take other reads (`GroupReduce`). Operands of an
emitted expression are visited left to right; C++ leaves the order open, and as
expressions contain no stores it does not matter. `CallValue` gives the runtime
functions the meaning the other modules have of them.

Operators whose comment begins "Slip:" are not part of the model: each is a
plausible mistake in the definition below it, and `PROJECT.json` names for each
property a slip under which TLC finds that property violated.

### What callers must arrange

The compiler checks none of the following; `Fits` in `Query` states it and the
runs that check exactness assume it:

* **StartLocated** - the loop's first value (the space's lower bound) is a
  non-null key of every vector it walks. `MissedStart` shows what happens
  otherwise.
* **Ends** - a vector or an upper bound on every branch; otherwise the loop has
  no exit.
* **UnionsMergeable** - the sides of a union end at the same key, without
  filters or null rows of their own (or they are the same vector). When one side
  runs out first, the code reads past it (`iter_space.cpp:278-304`).

`Session` leaves the host free in its calls but for two rules the host has to keep:
queries run on tables whose index was built, and a table is left alone once
its columns were given to Arrow (`ImportRecordBatch` empties it; the tests' and
benchmarks' `print_arrow_table` does that to the table it prints).

## 3. Runs

With two workers, up to a minute and a half each.

| Run | Checks | Bounds |
|---|---|---|
| `Queries` | type invariant; result exact; elements read the iterator's row; no stray read, the exit test at most one cell behind a vector; output sorted; nulls counted; rows fit; steps of the abstract scan | one vector or a union: keys 1..5; joins and shifts: two vectors over keys 1..4; any null rows; 23 predicates, two of them with a comparison that has no bound, shifts -2..1, both paths |
| `ShiftDirection` | *violation*: a shift read the way the predicate is written | the shifted queries |
| `Terminate` | the loop implements `RelationScan`, its end included | keys 1..2, the same predicates |
| `MissedStart` | at most one stray row, none lost, when the start is not a key | keys 1..5, one vector, no upper bound |
| `GroupReduce` | each output has exactly its run's rows, none twice, no row outside, ends | up to 3 runs over 4 rows, null runs and rows |
| `FinalizeVector` | every column's bitmap is the byte map; words stay in the bitmap | capacity 40, lengths 1, 7, 16, 17, 40, fresh memory all 0, all 1, alternating |
| `KernelPartition` | every element written, by one thread, none outside | 0..6 elements, up to 6 threads in any grid, 8-bit words |
| `Nested` | each pair once, in order, ends; pairs lost only to the outer bound; rectangles in blocks by position | sides 0, 1 and 3, corners -1 and 1, rectangles, triangles, "not equal"; every bound of the window |
| `Emitted` | the passes' trees are well typed and none throws; names resolve; each block of the C loop is the block of `LoopGen`; reductions are folds of the whole state; a function returns, its vector finished | one vector over keys 1..3, two or three over 1..2, null rows; 6 predicates of one or two vectors, 2 of three, 2 of pairs, reductions alone and inside an operator, with accumulators that read their own or a later field or the outer iterator; both paths |
| `StateFields` | *violation*: an accumulator whose second field reads the first | the reductions of `Emitted` |
| `Session` | a function's code is its query's; a table fits the code that fills it; tables stand while shared; freed once; nothing forgotten but the bitmaps; results kept | 2 names, queries of 1 and 2 columns, 3 compilations, 2 tables, 2 indexes of each |
| `NestedBlocks` | *violation*: rows by position with a condition on the pair | 3 x 3 |

`Queries` compares with the predicate as `ShiftedSpace` reads a shift
(`MirrorAnswer`, which is the predicate itself where nothing is shifted and every
comparison has a bound; a comparison without one counts as true, as the pass
takes it);
`ShiftDirection` compares with the predicate as written. So `ResultExact` shows in
`Queries` that the walks are right for that reading, and nothing about the reading
itself; a comparison that is dropped is described in section 4 and
caught by no property.

`NoStrayRead` is about the body and the step, which stand on rows, and about
the exit test. `UBoundSpace::_is_alive` compares the iterator with the bound before
it asks its child whether there is one, so the last test of a bounded walk may read the
cell behind the vector (`iter_space.cpp:201-205`); the property says that it is that
cell and never one further off. It takes a located start; `MissedStart` is about the
others.

Why small is enough: a walk's step looks at its own row and the row of one other
walk. Vectors of four or five keys have every relation between two walks -
ahead, behind, level, exhausted - before, in and after the bounds, with null rows
at either end and in the middle; two words and a partial byte have every
boundary of the bitmap; grids up to six threads have blocks past the end by more
and by less than a block's threads, which is where differences wrap. The passes look at one node and its operands,
so what matters to them is which kinds of spaces, outputs and reductions occur
inside which; `MCEmitted` has each kind of space at the top, under a merge and
above one, and reads outside its vectors see a key (0 or 9) no vector has. Its vectors
are distinct in one query (see section 4), its shifts are left to `Queries`, and the
capacity of 100 rows is never reached. In `Session` the third compilation is
needed for one to fail or clash between two that work, the second table for
one to be in use while another is made or freed. For the loops
over one and two iterators, the reductions, the bitmaps, the kernel and the
session the proofs then remove the bounds.

Fairness: `WF_vars(Next)` on the loops, nothing else. A loop is straight code on
one thread that never waits, so it takes its next step as long as it has one.
`KernelPartition` states no liveness; no fairness is assumed of GPU threads.
Deadlock checking is off where a model ends without further ado; `EmittedLoop`
has a step for a function that has returned, so `Emitted` and `StateFields` check
that emitted code stops nowhere else. `Returns` is about code that does not stop (no
run goes on for ever, `<>[][FALSE]_pos`) and needs no fairness; the two together are
termination.

## 4. What the checks found

* **Shifted membership** (`ShiftDirection`). `In(t + c, v)` is walked as
  `t = key + c`; the benchmark that uses it, and LoopGen's own lookup of an element of
  another vector, mean `t + c = key`. `Queries` shows the code is consistent in
  its own reading.
* **Pairs by position** (`NestedBlocks`). The n-body query leaves out pairs
  `(i, i)` by a condition and then addresses the result as if it had `N` rows per
  body. In the scalar path, the default, it has `N - 1`.
* **State stored field by field** (`StateFields`). ScalarPass turns the store of
  a reduction's new state into one store per field, and each field's expression
  loads the state after the stores before it. An accumulator whose second field
  reads the first gets the new first field. (Index pairs are safe: `JointSpace`
  takes its two conditions into `InitVal` symbols first, and the one condition of
  `NestedSpace` is a symbol too, declared before the first of the two stores.)
* **Dropped comparisons** (`Queries`). `2t >= x + 3` or `x > 1` has no bound of the
  form *bias + weight x* with integer weight; `extract_bound` answers with the
  universal space, and the query behaves as if the conjunct were not there. In a
  disjunction such a side has no end, and neither has the loop.
* `PairsLostToBound` is a limitation rather than a failed property: the outer bound of a
  predicate that compares the iterators comes from whichever value the solver
  gave the inner one, and pairs below it are lost.

Seen while modelling, and not part of a run:

* Two `VecSpace`s on one vector in one query make two symbols `<vec>_len`; used in
  one block, the C code declares one name twice. The same happens to the index
  addresses of sibling operators with iterators of one name; `NamesResolve` takes
  these names for unique, as they are in the instances.
* A symbol of the user's function first used in an inner block and again after it
  has no declaration at the second use.
* An `Element` at a shifted iterator of a vector some space walks throws
  `out_of_range` (`loopgen.cpp:18`).
* The byte map is an array of 100000000 bytes on the stack, and nothing ends the loop
  at that row. `RowsFit` says what does keep a loop inside: it writes no more rows
  than there are different keys in the rows of its vectors.
* `LLVMGen` has no visit for `InitVal`, so joins and unions do not compile
  with `use_cemitter = false`; its allocas stand where they are first used, inside
  loop bodies too, and it compares indices unsigned, so that a start that was not
  located (-1) ends the walk where the C code reads a stray row. In the repository
  only the kernels of `main.cpp` go through it.
* Outputs stay with the memory manager until the process ends: memory grows with
  every run. The bitmaps `finalize_vector` drops are never freed.
* A table whose import failed runs whatever its uninitialized `release` holds
  (`FreedOnce` excepts this step and shows that no other comes to a bad release).
* A second function of a name ends the process. The tests reuse names and pass
  because `gtest_discover_tests` runs each in a process of its own. (`cantFail`
  ends it where LLVM's assertions are on, which the model takes for granted.)
* When clang fails, both temporary files stay.

## 5. Proofs

`SpaceLaws` says what a loop needs of a space *s* that stands for a set *Sol* of
values, with *G* the indices it can reach: a step from a live index stays in
*G*, goes up, and passes over no value of *Sol* (`StepLaw`); on a live index
`iter_cond` decides membership (`CondLaw`); the start stands on the lower bound,
or the walk is rightly over (`StartLaw`, `DeadStart`); no value is below the
bound (`LowerLaw`).

`SpaceLawsProofs` proves, for any children: a universal space has the laws; so
has a vector, from sortedness and `Locate`; filters, bounds and shifts keep them;
an intersection has them on the indices where the two walks are *level* (neither
has passed a value the other has yet to reach), a union when its sides run out
together. Likewise the constructors keep the weaker properties of the last two
theorems below, `Straight` (the index is the row) and `Keyed` (the iterator is the
value of a row).

`LoopGenProofs` proves for **every** set of queries, of any size and in both paths,
first what holds over any spaces at all (`AllSpaces`) and wherever the loop starts:

* `TypeCorrect`: `Spec => []TypeOK`
* `LoopNulls`: `Spec => []NullsCounted` - the bitmap has `null_count` nulls

from the inductive invariant `Books`: `TypeOK`, so that the rows are numbered
without gaps, `Nulls`, which relates the counter to the byte map, and `Finished`,
which relates the output to both. Where the spaces are lawful (`AllLawful`):

* `LoopExact`: `Spec => []ResultExact` - the finished result is the answer
* `LoopSorted`: rows ascend
* `LoopScans`: every step is a step of `RelationScan` or a stutter

from `Inv`. `ResultExact` speaks of finished loops only, so it needs `Progress`,
which says what has been emitted at each block (the values below the current
one, plus the current one after the body); that needs the index to be among
those the laws speak of (`idx \in Reach(q)`), `Books`, and `Order` so that no row
lies ahead of the loop.

`QueryProofs` adds what the iterations read and write. A space is readable
(`AllReadable`) when there are indices closed under its steps on which it
stands on rows of its vectors, and on the first row not below the iterator where
the index counts (`ReadLaw`; all of them are on rows or the cell behind one,
`EdgeLaw`). From the invariant `ReadInv` (the loop is on such an
index, and every row that counts was read at its own value):

* `ReadsStayInside`: `Spec => []NoStrayRead`, the exit test included
* `ElementsAreTheIterators`: `Spec => []ElementsMatch`, although LoopGen takes
  the loop's index and never looks the iterator up

and, where a space inside its vectors is on the value of one of their rows
(`AllKeyed`), `LoopRowsFit`: `Spec => []RowsFit`. Its invariant `KeyedInv` says that
of every row written; as rows ascend they are different values.

### From a predicate to its result

What a recursive function computes for every tree is an induction over data, which
takes an operator as a parameter and cannot be put to the prover. So the proofs
do not speak of recursive functions but of *tables* (`PassTables`): for some set
of trees, what each function of the pass answers on each of them, where the
answer on a tree is what `Structures` makes of the answers on its parts. The
recursive definitions of `ReffinePass` and `Query` give such a table; `TablesExist` in
`MCQuery` has TLC evaluate that for every predicate of the runs. Each tree has a size, a
natural number that falls to its parts, and `SizeInduction` (a set of trees
that has each tree whose smaller ones it has is all of them, as a least size
outside would be no least) does the rest, with the set in place of the operator.

* `StructureSound`: the space of every structure whose unions merge is lawful
  and readable for the values the structure stands for. A union has sides
  without nulls or filters that run out together (`PlainUnion`), or both sides go
  over one vector in step (`InStep`: each is a function of the row they share).
* `PassStands`: what the pass makes of a predicate stands for the values of that
  predicate as the source reads it. The crux is `IntersectStands`:
  `IterSpace::intersect` puts the other space deep into a structure, which is right
  under filters, bounds and joints, and under a shift only because the pass never
  shifts a structure that `intersect` could put something into (`steady`).
* `QueryExact`, `QuerySorted`, `QueryNulls`, `QueryScans`: for every set of queries compiled
  from predicates of any shape, on sorted vectors of any length, that start
  located and whose unions merge (`AllArranged`), the run's `ResultExact`,
  `OutputSorted`, `NullsCounted` and `ScanSteps`.
* `QueryReads`, `QueryElements`: `NoStrayRead` and `ElementsMatch`, where a query walks each of
  its vectors under one shift (`OneEach`; with two, the code has one index for
  the name and two rows it could mean).
* `QueryRowsFit`: `RowsFit`, where besides every branch of the structure has a
  vector (`AllVectors`); the iterator of a bare bound is on no row.
* `MissedStartLosesNothing`: `StrayRowAtMost`, wherever the loop starts, for queries of one
  vector under shifts, filters and lower bounds (`OneVector`). Their spaces are
  `Straight`: the index is the row, -1 the cell before. `StrayInv` says that no row of
  the answer behind the index is missing from the output, and nothing is in it but the
  answer and that cell.

`AllArranged` is what the runs ask of their queries too (`StartLocated` and
`UnionsMergeable`, in `Fits`), given tables for them; `TablesExist`, `VectorsEach` and
`OneVectorEach` in `MCQuery` show that the queries of the runs have these, and meet
`AllVectors`, `OneEach` and `OneVector`. The assumption
`ZWindow = Int` is the solver's: Z3 answers over the unbounded integers, the runs
over a window that contains every value they use. `AnswerOf` is then the set of all
integers the predicate holds of, where the runs take those of a range around the
keys.

One family is put together without the tables,
`In(t, a) & In(t, b) & t >= lo & t <= hi`, the query of the transform and join tests:
for sorted vectors of any length whose common start is located in both
(`IsRangeJoin`) it is exact (`RangeJoinExact`) and reads only what it should
(`RangeJoinElements`). Nothing is assumed of the two vectors' relation: one may
run out long before the other.

`PairLoopProofs` is the same for two iterators. Pairs are ordered by `Before`;
`PairLaws` says what the loop needs of a space of pairs, and `NestLaws` proves
it of `NestedSpace` over any two ranges, with any condition on the pair, where the
inner range starts at one value for all outer ones (`IsNest`; in the code its
lower bound is evaluated before the loop has an outer iterator). `IsRange` holds of the universal space and is kept by bounds, so
of everything the pass makes of comparisons. The invariant `PInv` has the parts
`Typed`, `Covered` (which pairs have been emitted at each block), `Ordered`, `NoneNull`
and `Finished`. For every set of such queries (`AllNested`):

* `PairRowsSorted`, `SeparablePairsExact`, `PairsLostToBoundOnly`: the run's
  `PairsSorted`, `PairsExact` and `PairsLostToBound`
* `RectanglesByBlock`: `RectangleByBlock`, from a second invariant `Blocks`: the
  next row's number is the outer index times *n* plus the inner one, except
  after the one index of each outer value that does not count
* `StripsListed`: the three properties put together for the strips
  `lo <= i <= hi, first <= j <= last[i]`, whatever the condition and whatever bound
  the solver made up

TLC evaluates the same hypotheses on the queries of the run
(`NestedAssumption` in `MCNested`), so they are ones the pass meets.

`GroupReduceProofs` proves `GroupsExact`, `EachRowOnce` and `NoStrayRow` for run-end
encoded vectors with any runs, rows and nulls (`IsGrouped`; `GroupedAssumption` has TLC evaluate
it on the run's vectors). The outer loop's invariant `Inv` is not enough: the
reduction is under way between two of its steps. `UnderWay` says the state holds
just the non-null rows of the run so far, `Standing` that a reduction happens only
in a body whose index counts or that will write a null, and `Written` that each row
written has all of *some* run whose key it carries, which with distinct keys
makes it the right one.

`FinalizeVectorProofs` proves `Faithful` and `WithinBitmap` for every capacity that
is a multiple of 8 (`CapacityAssumption`; LoopGen's is), length, byte map, number of
columns and content of the fresh memory. What carries it is `RowBits`, by which
a row has a bit of its own in a word inside the allocation, and
`ColumnUnderWay`: the rows before *i* are copied whatever the rest still holds.

`SessionProofs` proves all seven properties of the run `Session` for any names,
queries (`OpsAssumption`: told apart by a number of columns) and number of calls,
from an invariant of seven parts. `Coded` is stronger than `CodeForQuery`: a function's
`mem_id` still means its builder. The rest is about ownership: blocks of
different tables are apart, an array's from its schema's
(`TablesApart`), a batch has the array of a table that has none any more
(`BatchesApart`), and everything with an owner is in the heap while the process runs
(`Standing`). So what one destructor frees belongs to nobody else
(`OwnersApart`), which gives `TablesStand`, `FreedOnce` and `ResultsKept`; `NothingForgotten` is
itself part of the invariant.

`KernelPartitionProofs` proves the three properties of a kernel
(`OneWriterAlways`, `WithinArraysAlways`, `AllWrittenAlways`) for every number of
elements, blocks and threads of which `IsLaunch` holds: the products of the sizes
fit a word, which is all that keeps the unsigned arithmetic from wrapping where
it should not. Where it does wrap, in a block past the last element
(`DeadBlock`), the share comes out empty: either the wrapped difference wraps back
to a length of 0, or it is so large that the thread's end is clipped below its
start. In the other blocks (`LiveBlock`) the products are exact, no two shares
meet (`Disjoint`) and together they leave no gap (`Cover`). The invariant of the
threads says that each has written exactly what it has walked of its share.

Only model-checked:

* Termination (`Terminate`, `GroupReduce`, `Nested`, `Emitted`): liveness under
  fairness is beyond the prover.
* That the recursive functions are the tables of the proofs, beyond the predicates
  of `TablesExist`: a definition unfolded once, which the prover cannot be asked about in
  a module that reaches a `RECURSIVE` operator.
* That the pass makes nested spaces of every predicate on two iterators. `AllNested` is
  the assumption that separates the proof of the loop from the pass; strips
  discharge it for one family, `Nested` checks the others on small inputs.
* Everything about the compiler's passes and the emitted code (`Emitted`): `TypeOK`,
  `PassesTyped`, `NamesResolve`, `FoldExact`, `ReturnsFinished` and `ImplementsLoop` are about code that
  recursive functions over expressions make and `Eval` runs.

## 6. Not modelled, and the plan

Order of work; the first six are done.

1. Spaces, loop, pass, queries (`Vectors` .. `MCQuery`) and their proofs - done.
2. Reductions, `finalize_vector`, nested queries - done.
3. Kernel partition - done.
4. The compiler: expressions, passes, C code, and that it is the loop of 1
   (`IR` .. `MCEmitted`) - done, reductions directly over an `Op` included.
5. Ownership, memory manager, engine (`Session`) - done.
6. Comparisons without a bound - done.
7. The LLVM back end: only the arithmetic of indices is modelled (in
   `KernelPartition`); host queries do not go through it.
8. The output's capacity (100000000 rows; `RowsFit` bounds the rows by the
   vectors, no instance has so many); integers beyond 2^53 on their way through Z3.
9. Proofs: of queries of any predicate on one iterator, of two iterators,
   reductions, bitmaps, kernels and the session - done. Left: the pass run twice
   (two iterators), and the passes over expressions.

Left out for good: formatting
(printer, the text of the C emitter), instruction selection (one LLVM
instruction per expression), LLVM, Z3, CUDA and Arrow themselves, the Python
bindings, the benchmark data generators under `benchmark/lib`.
