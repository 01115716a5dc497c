# Verification of the SIGMOD 2025 join engine

TLA+ models of the join engine in this repository, checked with TLC and, where
marked, proved with TLAPS. Every definition is a translation of the code under
`src/`; `PROJECT.json` maps each definition to the lines it stands for.

The engine reads tables from CSV or cache files into columnar pages
(`ColumnarTable`), runs a plan of scans and hash joins over columns of 64-bit
`value_t`, and writes the result back into columnar pages. Strings, and
integers of columns without NULLs, travel as references into the input pages.

## 1. Inventory

| Component | Code | State | Operations |
|---|---|---|---|
| Thread pool | `include/inner_column.h` 13-107 (`FilterThreadPool`, the global `filter_tp` with 12 threads) | per worker a mutex, a condition variable and three flags; one shared closure and task count | constructor, `run`, `run_loop`, destructor |
| Hash table | `Uhashtable.h`, `Uhashtable.cpp` | inserted tuples, directory of pointers and Bloom filters, entries, chunk lists of the threads | `insert`, `build`, `build_parallel`, `probe` |
| One join | `execute.cpp` 18-199, `column_store.h` | key/position pairs, the atomic page counter, result columns per thread | `collect_build`, probe threads, merge of their pages |
| Executor | `execute.cpp` 201-291 | the columns of each node | `execute_impl`, `execute_scan`, `execute_hash_join`, `execute` |
| Column store | `column_store.h`, `column_store.cpp` | `column_t`: pages of boxes, `is_no_null`, `original_pages` | `append`, `column_t_copy_scan`, `to_columnar_from_column` |
| `value_t`, late materialisation | `late.h`, `late.cpp` | 64 bits: mode, and an integer or table, column, page, position | `put_*`, `get_*`, `print_varchar`, the row-wise scan and conversion |
| Inserters and pages | `plan.h` 212-396 | the page being written: row counter, values or offsets, bitmap | `insert`, `insert_null`, `save_page`, `save_long_string`, `finalize` |
| Plan memory | `plan.h` 28-210 | `Column`'s pages, `MappedMemory`'s reference count | construction, moves, destruction, `new_page` |
| CSV parser | `csv_parser.h/.cpp`, `TableParser` in `build_table.cpp` | field, counters, pending escape or line end, record | `execute`, `finish`, `on_field` |
| Loaders and caches | `build_table.cpp`, `table.h` | `table_cache`, `result_cache`, cache files | `from_csv`, `from_cache`, `copy`, `copy_scan`, `from_columnar`, `to_columnar` |
| Filters | `statement.h/.cpp` | expression trees | evaluation by record and by column |
| `InnerColumn` | `inner_column.h` 118-584 | values and validity bitmap | `push_back`, comparison kernels on the pool |
| SQL front end, drivers | `tests/read_sql.cpp`, `tests/build_database.cpp` | plan tree, cache files | name lookup, dump and load of cache files |
| Robin Hood, Hopscotch, Cuckoo tables | `include/*.h` of those names | nodes, probe distances, rehash | `emplace`, `find`, rehash; built only into their tests |

Interaction. The executor calls the scan for each leaf and one join for each
inner node. The scan, the CSV loader and the filter kernels hand closures to the
one global pool; the join creates threads of its own, and so does the hash table
inside it. They share memory: the pool its closure and task count, written
outside the workers' mutexes; the build threads their chunk lists, which other
threads take without a lock; the probe threads one atomic counter. References
made by the scan are resolved by the join (keys) and by the final conversion.

What is hard. Concurrency: the pool's hand-over of closures through one
condition variable per worker; ownership of chunk lists; the claim of pages;
the merge of partly filled pages. Boundaries: pages cut by bytes, by bits of
the bitmap and by long strings; slices that do not divide; buffers that end
within a line end or an escape; field widths of `value_t`. Errors: an exception
in a pool or probe thread ends the process. What would make each component
right is stated in the sections below; `PROJECT.json` lists the hazards one by
one, at their lines, with the properties that cover them.

## 2. Plan

The order puts the concurrent core first, then the data that flows through it,
then what surrounds them.

1. `ParallelFor`, `FilterThreadPool` (refines it), proofs. **Done.**
2. `UnchainedHashTable`. **Done**; all of its safety is proved.
3. `JoinPages`, `HashJoin`, which uses the table as its checked contract. **Done**;
   all of its safety is proved.
4. `Int32Column`, `VarcharColumn`: inserters, scan, conversion, readers.
   **Done**; all of their safety is proved.
5. `CSVParser`: independence of the buffers. **Done.**
6. `ExecutePlan`: the recursion over the plan with references that carry table
   and column, against relational semantics. **Done**;
   all of its safety is proved. It stands on 3 through `JoinPages`, and on 4.
7. `Filters`: both forms of the evaluation of a filter, SQL's three values, the
   byte-wise loops of `InnerColumn` on the pool (stands on 1). **Done**, and
   proved.
8. `TableLoader`: the in-memory caches, cache files and processes that are killed,
   the pass that filters and copies (composes 7). **Done**, and proved.
9. `RobinHood`, `Hopscotch`, `Cuckoo`, composed by `HashTables` against a
   dictionary. **Done.**
10. Plan memory was planned and dropped, for the reason in section 7.

What is proved, and what stays with TLC, is in section 6.

## 3. Modules

Faulty variants of an operator are named `operator_Fault` and stand before it.
They are never used by a specification; they exist to confirm that each
property notices a plausible mistake in that operator.

### ParallelFor, FilterThreadPool

`ParallelFor` is what the pool promises: after `run(f, n)` returns, `f` has been
applied exactly once to each of `0..n-1`, and nothing of the call still runs.

`FilterThreadPool` has one variable per field of the class and a program counter
per thread. Actions are the code between two synchronisation points. The
accesses to `function` and `num_tasks`, which no common lock protects, are
actions of their own, and a worker reads `num_tasks` twice as the code does. A
wait releases the mutex and sleeps in one action; a notification outside the
mutex is an action; a sleeper may be woken spuriously (`MaxSpurious` times).
There is one caller, since no code calls `run` from two threads or from within a
closure. Between calls it may stay idle for ever.

* `ClosureAlive`: a worker only reads the request, or runs the closure, within
  the `run()` that installed it. This is what makes the unlocked accesses safe
  and the captures by reference valid.
* `ExactlyOnce`: the slices of `begin_idx` reach every index once.
* `NoLostWakeup`: whoever sleeps with something to do has a notification to come.
* `ImplementsParallelFor`: refinement of `ParallelFor`, with `phase` computed
  from the caller's program counter.
* `RunReturns`, `DestructorReturns`: with fair threads both end.

### UnchainedHashTable

`dirHash` is a function from keys to slots (a stand-in for CRC32), chosen in `Init`
from the constant `Placements`. `build` allows any order within a slot, because `std::sort` is not
stable. In `build_parallel` creating a thread, one tuple of `partition_worker`,
one list of `merge_worker` and each join are actions; the three passes of the
last phase run in the caller alone and are one action each. A chunk list is the
sequence of its chunks, head first. `placed` is the scatter loop: the entries and
the counters after each step of the walk.

* `OnePlace`: at every moment of a parallel build each tuple is not yet partitioned,
  or in exactly one place of one chunk list, in the partition of its hash. `Places`
  looks into the lists of all threads and the global ones.
* `NoSharedList`: no two merge threads are on the same partition, which is what
  replaces a lock.
* `MergedBeforeRead`: when the caller reads the lists all threads have returned
  and handed over theirs.
* `DirectoryRanges`: the entries between a slot's pointer and the next one's are
  those of the slot.
* `ProbeCorrect`: a probe returns the positions of exactly the tuples with its
  key, in a table built either way. It is what sees a bit missing in a filter.
* `BuildEnds`: a build that was started ends.

### JoinPages, HashJoin

`JoinPages` says what pages a join may leave: each page of the probe column is
claimed by one thread, each thread's matches fill pages in order, and the threads'
pages follow one another. `HashJoin` is proved to leave such pages
(`LeavesOutcome`), and `ExecutePlan` takes any of them.

`HashJoin` is `JoinAlgorithm::run` as `execute_hash_join` calls it. A table is the page
layout its columns share, partly filled pages included; cells are keys, NULL or of
another type. `Inputs` gives the tables of both sides, `OutputAttrs` the columns of
the result. A copied value is named after the column, page and slot it comes
from, so the properties see whether rows stay together. The hash table is used
through what `UnchainedHashTable` checks: a probe yields each position of the key
once, in some order. The actions are the collection, each thread creation, each
claim of a page, each cell, each join and each merge of one thread's pages.
Exceptions end in `thrown` (caller) or `terminated` (thread).

* `PageClaimedOnce`: the atomic counter gives no page to two threads.
* `ColumnsAligned`: all columns of a result have the same pages, each filled as
  far, since later joins compute positions as page * BOXES + slot.
* `NothingLost`: at any moment the threads and the caller together hold (`Held`) the
  matches of exactly the probe rows dealt with so far (`Found`), each as many times.
* `JoinCorrect`, `LeavesOutcome`, `JoinEnds`: the result is the relational join, each
  row as many times as pairs of rows make it, and one of `JoinPages`; the join ends.

### ExecutePlan

`frames` is the recursion of `execute_impl`: a node and the columns its inputs have
returned. A scan, a descent, a join and the conversion of one column are actions;
a join takes one step, with any result of `JoinPages`. The values of a column are
NULL, integers, or references to a row of an input's page, whatever that page's
bytes: that the reference leads there is what `Int32Column` and `VarcharColumn`
check. The two cases these leave out are in this model: `put_int32` makes NULL of
a negative integer, which only a column with NULLs hands to it, and the string of a
row is read to the smallest offset behind its start (`StringAt`), which for an empty
string is the end of the next one. `result_column` follows the two conditions of `execute.cpp` 214-230, the
index that wraps included.

* `ReferencesRight`: through any number of joins, `is_no_null` and
  `original_pages` of a column are those of the values in it.
* `ColumnsAligned`: also where columns by reference and by value meet, and inputs
  have pages of other sizes.
* `PlanCorrect`: the table returned holds the rows of the relational expression,
  each as many times. It speaks of plans whose joins compare integers: `run` collects
  nothing for a column of another type (`execute.cpp` 31, 239-253), so that a join
  of strings yields no rows, which the model follows. And it speaks of inputs that
  values can carry (`InputsKept`): no negative integer beside a NULL, no empty
  string. With one of these the code returns another table, and so does the model.
* `ResultTypes`: the columns have the types the plan gives them. A column of
  strings without pages, scanned without a join, is the exception.

### Int32Column, VarcharColumn

Each follows one column from the rows inserted, through pages, to `column_t` and
back to pages, where `copy_scan` reads it. A page is what `save_page` leaves:
counters, values (or offsets and characters) and the set bits of the bitmap.
Sizes are in bytes as in the code. In `VarcharColumn` a character is named after
its row and index, so that a string made of the wrong characters is seen. One
row read by the conversion is one action; so is one page read by the scan of
strings.

`value_t` is the number it is in `Int32Column`, with the width of its fields as
constants and shifts as products with `pow2`; `SideBySide` puts the fields together. In `VarcharColumn` a reference is a
record of page and position. The
walk over a long string reads past the end of a vector when the string ends its
column: undefined behaviour, modelled as a crash (`ScanLongCrash`) or as any
position up to `MaxStray` further. `Bounded` says which sequences of rows an instance
tries.

* `NoOverlap`: values and bitmap of a page never overlap.
* `PagesHoldRows`: at every moment the pages hold the rows inserted, in order.
* `RowsSurvive`: the result has the rows that went in, but for the cases of
  section 5.

### CSVParser

`Read` appends any characters to the file and runs `execute` on them as one
buffer; `EndOfFile` runs `finish`. So every file is parsed with every sequence
of buffers. `settings` holds what the parser was constructed with, chosen in `Init`. `execute` is a recursive operator over the buffer with the code's
look-ahead and its blocks for what the previous buffer left pending.
The reference is an automaton over single characters, without look-ahead or
buffers.

* `CutsDoNotMatter`: the parser accepts what the automaton accepts, and then
  delivers the records of its lines. In particular no attribute is read that does
  not exist, unless a line is wider than the table; the code has no guard against
  those lines, which `PROJECT.json` lists as a hazard.

### Filters

A filter is the list of the nodes of its `Statement` in the order in which the
code evaluates them; a logical node has the numbers of its children. `values` are
the bitmaps of the nodes evaluated so far. Each comparison and each logical
operation is one `run()` of the pool: `StartPass` gives every worker its slice,
`ApplyTask` is one iteration of one worker, and `FinishNode` waits for all. An
iteration of a comparison reads and writes a byte of the result without a lock,
in one step: the step is sound because `BytesApart` holds. IS NOT NULL needs no pass.
The columns grow by `push_back` as in the code, with the two conditions under which
the bitmap gets a byte. A byte is the set of its one bits; strings are sequences
of character codes, numbers sequences of one number, so that `Less` orders both.
`like_match` is what the regular expression built from the pattern accepts.
A literal has a kind, number or string. The column form takes it as the kind of its
column, and throws when it is of the other (`Mismatched`); for the record form the two
are never alike. The record form compares numbers as doubles: `double` is the nearest
number with as many significant bits as `DoubleLimit` leaves, ties to even.

* `RecordsAgree`: the column form and the record form of `eval` give the same bit, on
  every row on which no number compared is rounded to a double (`ExactDoubles`).
  Beyond 2^53 the forms may differ, in the code and in the model.
* `SqlRowsKept`: without NOT, the rows kept are those for which SQL's filter is true;
  with NOT, a row is never kept or dropped against SQL's definite answer.
* `BytesApart`: two workers never come to the same byte of the result.

### TableLoader

The scans of several processes, one after the other: a process builds cache
files, maps them, or parses the CSV file with the two in-memory caches, as
`load_join_pipeline` chooses. Reading one record, one step of the filter, the copy of
one column by a worker, and one page written to a file are actions. A file that does
not open, a number that does not parse, or a literal of the wrong kind ends the
process (`FromCsvThrows`, caught only by `main`). `Kill`
ends a process at any moment, with what it was writing there or not, or torn: of a page some
cells are then `Torn`, of the meta data the fields behind the cut are zero, and the low bytes
of the one that was cut are there (`TornMeta`). `NextProcess` starts the next. `from_cache` trusts the
page counts in the file; a page laid behind the end of the mapping is `Beyond`. Nothing
guards its use: the process that executes its plan on such a table may fail or
go on with what it finds there (`UseTable`), whichever the columns it reads. The
module EXTENDS `Filters`, whose step is one of its actions.

* `TableRight`: whatever the caches hold, `from_csv` returns the rows of the file
  that satisfy the filter, by exact comparison.
* `PagesInPlace`: a file that a kill left behind is taken for complete by every later
  process. Each page inside it is found where it belongs, none in the place of another
  column's or of another position; the last may be torn. With whole meta data the
  counts are those of the whole table. That pages are missing is *not* noticed for
  sure, and no property says so.

### RobinHood, Hopscotch, Cuckoo, HashTables

Each table is a sequence of slots with the code's `insert`, rehash and `find`,
nested rehashes included, written with recursive operators. `HashTables` gives all
three the same insertions and compares them with the pairs inserted. Keys are
named by their hashes. A table that grows past `MaxSize` is `Overgrown` and not
looked at any more; keys of one hash make the code itself rehash without end.

* `RobinHoodFinds`, `HopscotchFinds`: `find` is right for every key, although it stops at
  the first slot that looks too near or free. The former keeps the first value of
  a key, the latter any.
* `RobinHoodWays`: the distances stored are the distances, and no slot between a
  key's home and the key is free or holds a key nearer to its own home, which is
  what the early end relies on.
* `CuckooKeeps`: moves and rehashes lose no pair. `CuckooFinds` does not hold, section 5.

### How the modules compose

| Uses | Contract | Checked by |
|---|---|---|
| `HashJoin` on the hash table | a probe yields each position of a key once | `ProbeCorrect` |
| `ExecutePlan` on `HashJoin` | `JoinOutcomes` | `LeavesOutcome` |
| `ExecutePlan` on the columns | references lead to their rows | `RowsSurvive` of both columns |
| `Filters`, `TableLoader` on the pool | each index once, nothing left running | `ImplementsParallelFor` |
| `TableLoader` on `Filters` | its actions | EXTENDS |
| `TableLoader` on the CSV parser | the records of the file, in order | `CutsDoNotMatter` |

`JoinPages` is an operator and not a specification on purpose: the executor waits
for a join, so that only its result matters.

## 4. Runs

| Run | Question | Instance |
|---|---|---|
| `pool` | safety, refinement and liveness of the pool | 2 workers, 0-3 tasks, 2 closures, 2 spurious wakeups, calls and destructor in any order, fairness |
| `table_build` | is the table right, built either way, and does a build end | 2 threads, 3 partitions, 6 slots, chunks of 2, up to 5 tuples, 2 keys in 7 placements, fairness |
| `join` | is the join right under every interleaving, and does it end | 2 threads, pages of 2, up to 2 pages a side and 5 rows in all; with NULLs and other types up to 2 rows a side; either side built; fairness |
| `plan` | do references and rows survive a whole plan | plans of one scan, one join and two joins, 6 tables of up to 3 rows, every pair of join columns of one type (two joins: of integers), either side built, columns reordered and left out, 2 threads, pages of 2; a negative key without NULLs, and a table with a negative integer beside a NULL and with empty strings |
| `int32_column` | do INT32 rows survive | pages of 13 bytes, up to 9 rows, boxes of 4 |
| `varchar_column` | do strings survive | pages of 11 bytes, lengths 0, 1, 4, 5, 8, 15 and NULL, up to 4 rows, and up to 11 of length 1 and NULL |
| `csv_loader` | is a file parsed alike however it is read | every file of up to 6 of 6 characters, every cut; the loader's settings, and doubled quotes with trailing comma and header |
| `table_loader` | do filters and loader return the right rows | 2 workers, bytes of 2 bits, pages of 2, INT32 of -2 to 1, doubles exact up to 2; columns of up to 5 cells under every operator, NULL test and some nestings, literals of another kind; 4 scans of a table of 3 rows with 3 filters by processes of 3 kinds, 2 kills |
| `hash_tables` | are the earlier tables dictionaries | up to 6 insertions of 6 keys that collide modulo 8 and beyond, initial sizes 1, 2, 4, 8, neighbourhoods of 3, growth up to 32 |
| `int32_negative`, `varchar_long`, `cuckoo` | claims of documents and tests that do not hold | see section 5 |

Why the bounds are enough. Two workers with none to three tasks give slices that
are empty, equal and different by one; the safety of the pool is proved for all
sizes. Two threads and three partitions do not divide; five tuples give a thread a
full chunk and one begun; two keys collide, are neighbours within a partition and
across two, and leave slots empty at both ends; the Bloom bits of key 4369 are
among those of key 1, so a probe passes the filter in vain or is stopped by it. Two
rows a page give the join partial pages in the middle and at the end, and each
thread none, one or both of the probe pages. Two joins, one in the other, hand a
reference and its flag through a join that copies it and one that reads it.
Thirteen bytes hold two integers and eight rows, so that both conditions of the
room test end pages and a ninth row opens a second byte of the bitmap. The string
lengths are the empty one, the longest short one, the shortest long one, and
strings of two and three pages; eleven NULLs and characters
give bitmaps of two bytes in pages cut by either. Six characters hold two lines with a cut
inside each two-character sequence. Five rows and bytes of two bits give each
worker of a filter a slice of its own and a last byte that is not full; the integer
limit of 2 lets one literal not fit, and 3 is the first integer that a double of that many
bits rounds, in an INT64 column and as a literal. Four scans let a process fill both caches with
one filter and use them with another, and let a builder, killed, be followed by
a builder and a reader; a second kill may hit these. Four insertions lose a key of the cuckoo table; six
make the others swap, move and rehash within a rehash.

Fairness. `FairSpec` of the pool has weak fairness of each worker and of the
caller inside the pool: an operating system runs every runnable thread, and a
mutex is only held for bounded sections. Nothing obliges a caller to enter
`run`. Spurious wakeups are not fair and bounded. Hash table and join have weak
fairness of each thread. The other modules state safety only.

`CHECK_DEADLOCK FALSE` stands where the model comes to its end: `plan`, once the table is
returned; the two runs of `HashTables`, after the last insertion.

## 5. Findings

Three runs state what a document or a test says and find it violated;
`PROJECT.json` quotes both sides.

* `int32_negative`: `put_int32` lets the sign of a negative value into the mode
  bits. In a column that also has NULLs it is read as NULL.
* `varchar_long`: the walk over a long string counts the pages at the start of
  the column. One row on the first page, a NULL or a short string, is enough before a string
  of two pages. The position it stores is not used by any reader, so that results
  are right unless the walk leaves the column.
* `cuckoo`: the slot in the first table is computed once per insertion; a key that
  is evicted from the second table is put where `find` does not look.

Behaviour that no document speaks of is a hazard in `PROJECT.json` with what the
properties leave out for it: an empty string is materialised as the next string of
its page (only `Table::to_columnar` makes such strings); literals that do not fit
an INT32 are cut; the record form of a filter rounds integers beyond 2^53; NOT keeps rows
whose comparison is NULL; dots match no line feed; a cache file cut short by a kill is
never written again, and what is missing in it may be read from behind the mapping.

## 6. Proofs

| Module | Theorem | Argument |
|---|---|---|
| `Lemmas` | `SlicesDisjoint`, `SlicesCover` | arithmetic of quotient and remainder, for all counts |
| `FilterThreadPoolProofs` | `TypeCorrect`, `ClosureStaysAlive`, `AppliedExactlyOnce`, `WakeupsArrive`, `PoolImplementsParallelFor` | the inductive invariant `IInv` |
| `UnchainedHashTableProofs` | `ListsAreNotShared`, `MergedBeforeCount` | `PInv`: phases and hand-over |
| | `BuildTypes`, `TuplesInOnePlace` | `PlacesInv`: every tuple pending or in one place |
| | `DirectoryIsRight`, `ProbeIsCorrect` | `BuildInv`: the table made by either way is sorted by slots |
| `HashJoinProofs` | `PagesClaimedOnce`, `ColumnsStayAligned` | `JoinInv`: claims, shapes of the columns |
| | `NothingStaysLost`, `JoinIsCorrect` | `RowsInv`: a bijection between the rows found and the boxes that hold them |
| | `JoinLeavesOutcome` | `OutcomeInv`: some history of claims and matches explains the pages |
| `ExecutePlanProofs` | `ResultsAligned`, `ReferencesFollow`, `TypesAsAsked` | `ExecuteInv`: every column on the stack is what its node returns |
| | `ReturnsTheRelation` | its part `Tells`: a bijection from boxes to the rows of the node's relation |
| `Int32ColumnProofs` | `ValuesAndBitmapApart`, `CountersAreNoMarkers` | `ColumnInv`: both inserters are sound |
| | `PagesReadBack`, `RowsReachTheResult` | `InsertedInv`, `ResultInv`: what pages and values read as |
| `VarcharColumnProofs` | `StringsAndBitmapApart` | `Sound`: an inserter and its pages fit |
| | `PagesReadBack` | `InsertInv`: the rows of the inserter are those inserted |
| | `RowsReachTheResult` | `ScanInv`, `OutInv`: a right reference, then a row of the result, for each row |
| `TableLoaderProofs` | `BytesStayApart`, `OperandsHaveOneLength` | `LoaderInv`: no worker is before its slice, and what a slice is computed from stays; `SizesInv`: columns of as many rows have bitmaps of as many bytes |
| | `FormsAgree`, `SqlAgrees` | `DataInv`: the columns hold the file, and a node's bits follow from those below it |
| | `TableIsRight`, `PagesStayInPlace` | `TableInv`: the columns copied, the caches and the files are those of the right table |

**The pool.** `ExactlyOnce` alone is not inductive: it says nothing while a request
is served. `IInv` adds to the types who holds which mutex (`LockInv`), which flags
a worker may have at each point of the caller (`FlagInv`), that the installed
request is the caller's (`RequestInv`), that the bounds of a slice come from it
(`SliceInv`) and which indexes have been applied so far (`AppliedInv`); with
`SlicesDisjoint` and `SlicesCover` the last gives the sum over all workers.

**The hash table.** `PInv` has the domains of the variables, the phase of each
thread at each point of the caller, and how far each merge thread has emptied the
lists of its slice. `OnePlace` needs more than that: `PlacesInv` adds that tuples are
told apart by their positions (`TuplesInv`), that the slices of the partition
threads follow one another (`SlicesInv`), that lists have no empty chunk and tuples only
of their partition (`ListsInv`), and that a tuple is pending or in one place
(`WorkInv`). When the threads have returned, no tuple is pending, so that the
walk over the global lists is a bijection to the input (`WalkIsInput`). The
scatter loop is counting sort: entry k goes to the place `pointer` + its rank
within its slot, and these places are a bijection as well (`CountingSort`). `BuildInv`
then holds of both ways to build, and `DirectoryRanges` and `ProbeCorrect` follow from
it alone.

**The join.** `JoinInv` is made of five parts: inputs, claims, caller, what
`collect_build` has inserted, and that all columns of a holder have one shape. Rows
may be equal when the output leaves a side out, so that sets of rows do not count
them. `RowsInv` says that there is a bijection from `Found`, pairs of rows, to `Held`,
boxes of pages, under which a box holds what its pair combines to. A probe extends
it by as many pairs as boxes, and merging moves boxes but no pair; `NothingLost` is then
equality of cardinalities, and at the end everything joined is found.

`LeavesOutcome` needs more: the pages themselves, and which thread claimed which
probe page is forgotten once the page has been probed. `OutcomeInv` brings it back as
a history that is bound by a quantifier, not a variable: there are a map from the
pages claimed so far to the threads (`ClaimHistory`) and, for each thread, the list of the
matches it has found, such that the thread's pages are that list cut into pages, for every
column alike, and the caller's are those of the threads merged so far, one after
another (`PagesHistory`). Each step says how the history goes on: a claim adds a page, a probe
adds the matches of one row in the order the table gave them, a merge adds
nothing. At the end the lists hold the matches of each page claimed, page by page, row by
row (`OrderFound`), which is what `JoinOutcomes` asks.

**The plan.** `ExecuteInv` says of each frame that what its calls returned are answers
of the nodes called, in the order called (`StackInv`), of the root and the table
likewise (`TableInv`). An answer (`Answers`) is two things. `IsResult`: columns of one
shape with the types asked for, whose values lead to rows of the input and mode that
`is_no_null` and `original_pages` announce. Its step is `ScanResult` for scans and
`JoinResult` for joins: every row of a join comes from a position in either input, and a
column copied from such positions keeps what its values were.

`Tells`: the columns hold the relation of their node. It is asked of faithful plans only,
joins of integers over inputs that values can carry (`Faithful`): there a value denotes what
its cell holds, a reference because it leads to the cell, an integer because it is
not negative, a string because it has characters and so ends before the next. A relation is a family of
rows, named by their numbers in an input and by pairs of names in a join, so that
equal rows stay apart; `Tells` asks for a bijection from the boxes of the columns to
these names under which the value in a box of column k denotes item k of the row
named. For a scan it numbers the rows page by page (`ScanTells`). For a join,
`OutcomeHolds` turns `JoinOutcomes` into: the pages of every column hold each pair
of positions with one key once, in the same box. Positions are rows of the inputs
by their bijections (`SideReads`), so pairs of positions are the pairs that the relational
join combines (`PairsBijection`, `JoinTells`). The conversion inserts one row for each
value of a column's type (`RowsTelling`), so the table has the root's rows in the order
of their boxes, and `Times` of a row is the number of boxes that tell it
(`TableTells`). `Relation` is a recursive function over the nodes; that its definition
determines it follows from `InOrder`: a join comes after the nodes it joins
(`RelationSteps`).

**Integers.** `ColumnInv` leaves open which values an inserter holds. `InsertedInv` adds
what they read as: `RowsOf` an inserter, the rows of its pages followed by those
of the page begun, is what has been inserted. Bits left over from an earlier page
lie beyond the row counter and are read by no one. `ResultInv` follows the values: after
the scan each is right for its row (`Right`), whatever the widths of fields,
because fields do not run into each other (`Widths`); the conversion keeps that, and what
it answers is what it was given.

**Strings.** Here too `RowsOf` an inserter is what has been inserted, but a page may
change a row of the page before it: the parts of a long string are read as one
(`PartsRead`). `InsertInv` therefore says of the pages that one that continues a
string follows a page of that string (`PagesOK`). The references are made while
later pages have not been looked at. What makes them right is that rows stay as they are
once the next page continues nothing (`Settled`), that the first offset beyond the
start of a short string is its end, unless the string is empty (`ShortString`), and
that a long string is its first page and those that continue it (`LongRow`). `ScanInv`
says so of the references made so far, `RefsRight`, and `OutInv` of the rows
materialised so far, each of which has been inserted again.

**The filters.** `BytesApart` follows from the lemmas of slices once each worker is
within its slice and the slices are computed from numbers: `LoaderInv` therefore has
what the columns, the bitmaps and the filter are at each point of the loader. It
asks of the values only that they are there. `SizesInv` rests on `BytesGrow`: the
conditions under which columns of numbers and of strings add a byte are the
same one. `RecordsAgree` needs what they hold: `DataInv` says that column k has
attribute k of each row read so far (`Holds`), the cached columns included, that
the bits of a finished bitmap are those its node makes of the bitmaps below it
(`BitsRight`), and that in a pass this is so of the rows, or bytes, a worker has
been at (`PassRight`), while the others' bits are clear. A step of a worker changes one
byte and none but its own, and when all have reached the end of their slices every
row has been dealt with. Going up the list of nodes, the bit of a row is then the
value of `EvalExact`, the filter by exact comparison, on that row (`NodesAgree`), and this
is among the values SQL may give it (`NodesFit`): the only one, where it is true and
there is no NOT. The record form is `EvalExact` where doubles round nothing: then each
comparison has the same value (`LeavesAgree`), and what is evaluated of equal comparisons is
equal (`RecordIsExact`).

**The loader.** `TableRight` compares with rows ranked by how many precede them;
the code collects them bit by bit. `KeptInOrder` shows that these are the same
rows, whatever sets the bits. `TableInv` adds to `DataInv` that the columns each worker
has copied, and the counter that all store to, are those of the right table (`CopyRight`);
that the result cache holds the right table of no filter (`CachesInv`); and that
every file is, page by page, the beginning of the file of its right table, but for
a torn last page, or has nothing but torn meta data (`FilesInv`, `Whole`: `Starts` or
`TornHead`). Literals that do not fit their column are left
out throughout, as in the properties: they may give a wrong table, but only to scans
with the same filter, which the proof of `CachesInv` needs. Each page of a column is at one
place of the file and each place behind the meta data holds one (`DumpLayout`). With
whole meta data a page is therefore read from its own place, or there is none in the
file (`MappedInPlace`); with torn meta data all pages it may promise are behind the
end (`NothingMapped`).

`Lemmas` has what these proofs share: slices, sums and folds, minima and maxima,
bijections and cardinality, `FlattenSeq` and `append_all` page by page. Induction is
by a least counterexample (`NatSet`, `UpTo`), because the induction theorems of the
library have operators for parameters. Recursion is by functions in the modules
proved about.

Assumptions are those named in the modules: `PoolAssumption`, `TableAssumption`,
`JoinPagesAssumption`, `JoinAssumption`, `PlansAssumption`, `Int32Assumption`,
`ValueAssumption`, `VarcharAssumption`. They ask for
positive counts, at least as many partitions as threads (the code has an array of
that size), slots divisible by the partitions, values of at most four bytes,
pages of at least nine, and fields of a `value_t` of at least one bit. Inputs of a
join have no more rows a page than there is room for. `PlansAssumption` asks that
a node names columns that exist with the type they have, that a join compares columns
of one type and comes after the nodes it joins (`new_join_node` appends and is given
nodes that exist, `plan.h` 178-195), that the root has a column, in which
`to_columnar_from_column` counts the rows, and that the columns of an input have as
many rows. `CellsAssumption` asks that the empty string is not an integer or NULL.
`FiltersAssumption` asks for positive counts, and that a double holds every INT32;
`WorldsAssumption` that the rows of a file have a cell for each of its columns, that
a comparison names a column of its table and LIKE one of strings (the column form has no
other, `statement.cpp` 46-131), and that a logical operation owns nodes
evaluated before it, AND and OR two, as the constructors of `Statement` make them.
`LoaderAssumption` asks that a page has room for a row. No theorem stands on
`CSVAssumption` or `HashTablesAssumption`.

Only model-checked, and why:

* all liveness (`RunReturns`, `DestructorReturns`, `BuildEnds`, `JoinEnds`), which needs
  `ENABLED`;
* `CutsDoNotMatter`, `RobinHoodFinds`, `RobinHoodWays`, `HopscotchFinds` and `CuckooKeeps`: they
  rest on RECURSIVE operators, of which the provers know nothing.

## 7. Not modelled

* Plan memory (`Column`, `MappedMemory`): ownership in constructors, moves and
  destructors, called in sequence. Its one questionable operation, move
  assignment over a mapped column, is called nowhere in the engine.
* `my_copy_scan` and `to_columnar_from_value`, the row-wise forms of the scan and
  the conversion, which the engine no longer calls; `from_columnar`, `to_columnar`
  and the printing of tables, which only tests use.
* INT64 and FP64 columns in the executor: its scan knows INT32 and VARCHAR. The room
  test of the inserter is too small for their eight bytes; a hazard records it.
  The loader and the filters have INT64; FP64 differs from it only in arithmetic.
* Parsing of numbers, CRC32, RE2 beyond what LIKE needs of it, DuckDB, the SQL front
  end but for its choice between CSV, cache and DuckDB: libraries or pure functions
  whose values no property here depends on. File names of the cache are hashes;
  that two filters hash alike is not modelled.
* The order in which C++ evaluates the two operands of `bitmap_and` and
  `bitmap_or`: the model takes the list's order, and the operations commute.
* Failing `pthread_create` and failing allocation: the code does not handle them.
* Positions beyond 32 bits.
