---------------------------- MODULE TableLoader ----------------------------
(***************************************************************************)
(* How a scan of a plan gets its table (build_table.cpp, and read_sql.cpp, *)
(* which calls it).  A process of the program that builds the cache, mode  *)
(* "build", filters the CSV file with from_csv and dumps the table to a    *)
(* file named by table and filter, unless there is such a file.  One that  *)
(* uses the cache maps the file with from_cache.  One that compares with   *)
(* DuckDB calls from_csv for every scan.  from_csv keeps the parsed file   *)
(* in table_cache and the unfiltered result in result_cache, which live as *)
(* long as the process.  A process can be killed at any time, in the       *)
(* middle of a file too; the file stays as it is.                          *)
(*                                                                         *)
(* One table is modelled; a page of a column is the sequence of its cells, *)
(* PageRows at most, which Int32Column and VarcharColumn check.            *)
(***************************************************************************)
EXTENDS Filters

CONSTANTS PageRows,   \* rows of a page
          Worlds,     \* a CSV file, the scans of it and what may befall
          NoTable, NoFile,
          Torn,       \* a cell of a page that was not written to its end
          Beyond      \* a page behind the end of the mapped file

ASSUME LoaderAssumption == PageRows \in Nat \ {0}

(* The rows of a file have a cell for each column, which is NULL or a      *)
(* sequence of integers.  A comparison names a column of the table, LIKE   *)
(* one of strings; a logical operation owns the nodes below it, AND and OR *)
(* two of them.                                                            *)
ASSUME WorldsAssumption ==
    \A w \in Worlds :
        /\ w.types \in Seq(Range(w.types)) /\ w.types # <<>>
        /\ w.rows \in Seq(Range(w.rows))
        /\ \A i \in DOMAIN w.rows :
             /\ w.rows[i] = [c \in DOMAIN w.types |-> w.rows[i][c]]
             /\ \A c \in DOMAIN w.types : w.rows[i][c] = Null \/ w.rows[i][c] \in Seq(Int)
        /\ \A f \in w.filters :
             /\ f \in Seq(Range(f))
             /\ \A k \in DOMAIN f :
                  IF f[k].op \in LogicalOps
                  THEN /\ 1 \in DOMAIN f[k].children
                       /\ f[k].op # "NOT" => 2 \in DOMAIN f[k].children
                       /\ \A c \in DOMAIN f[k].children : f[k].children[c] \in 1 .. k - 1
                  ELSE /\ f[k].column \in DOMAIN w.types
                       /\ f[k].op \in {"LIKE", "NOT_LIKE"} =>
                            w.types[f[k].column] = "VARCHAR"

VARIABLES world,
          files,         \* the cache file of each filter
          mode, pc,      \* the process
          calls, kills,  \* scans and kills still to come (bounds)
          table_cache, result_cache,
          results,       \* the bitmap of the rows to keep
          ret_rows,      \* the atomic that every column stores to
          table          \* the ColumnarTable that is returned

loaderVars == <<world, files, mode, calls, kills>>
cacheVars  == <<table_cache, result_cache>>
outVars    == <<results, ret_rows, table>>
vars       == <<types, columns, evalVars, loaderVars, pc, cacheVars, outVars>>

request == filter    \* the filter of the scan at hand, <<>> for none

Init ==
    /\ world \in Worlds
    /\ types = world.types
    /\ files = [f \in world.filters |-> NoFile]
    /\ mode \in world.modes /\ pc = "idle"
    /\ calls = world.calls /\ kills = world.kills
    /\ table_cache = NoTable /\ result_cache = NoTable
    /\ columns = <<>> /\ filter = <<>> /\ values = <<>>
    /\ node = NoNode /\ operands = <<>> /\ ret = <<>>
    /\ at = [t \in Threads |-> 0]
    /\ results = <<>> /\ ret_rows = 0
    /\ table = NoTable

-----------------------------------------------------------------------------
(* Table::from_csv.                                                        *)

Paged(cells) ==
    [p \in 1 .. (Len(cells) + PageRows - 1) \div PageRows |->
        SubSeq(cells, (p - 1) * PageRows + 1, Min({p * PageRows, Len(cells)}))]

(* The rows whose bit is set, collected by going through all of them. *)
KeptRows(bitmap, rows) ==
    LET kept[n \in 0 .. rows] ==
          IF n = 0 THEN <<>>
          ELSE IF BitAt(bitmap, n - 1) THEN Append(kept[n - 1], n - 1)
          ELSE kept[n - 1]
    IN  kept[rows]

from_inner_to_column(c, bitmap, rows) ==
    LET kept == KeptRows(bitmap, rows)
    IN  [ret   |-> Len(kept),
         pages |-> Paged([k \in DOMAIN kept |->
                     IF is_not_null(c, kept[k]) THEN get(c, kept[k]) ELSE Null])]

Calls(f) ==
    /\ pc = "idle" /\ calls > 0
    /\ calls' = calls - 1
    /\ filter' = f /\ values' = <<>>

(* A builder calls from_csv only when there is no file. *)
NeedsCsv(f) == mode = "duckdb" \/ (mode = "build" /\ files[f] = NoFile)

AfterCsv == IF mode = "build" THEN "create" ELSE "loaded"

InResultCache_AnyFilter(f) == result_cache # NoTable

InResultCache(f) == f = <<>> /\ result_cache # NoTable

ResultCacheHit(f) ==
    /\ Calls(f) /\ NeedsCsv(f) /\ InResultCache(f)
    /\ table' = result_cache
    /\ pc' = AfterCsv
    /\ UNCHANGED <<types, columns, node, operands, ret, at, world, files, mode,
                   kills, cacheVars, results, ret_rows>>

TableCacheHit(f) ==
    /\ Calls(f) /\ NeedsCsv(f) /\ ~InResultCache(f) /\ table_cache # NoTable
    /\ columns' = table_cache
    /\ pc' = "eval"
    /\ UNCHANGED <<types, node, operands, ret, at, world, files, mode, kills,
                   cacheVars, outVars>>

CacheMiss(f) ==
    /\ Calls(f) /\ NeedsCsv(f) /\ ~InResultCache(f) /\ table_cache = NoTable
    /\ columns' = [c \in DOMAIN types |-> EmptyColumn(types[c])]
    /\ pc' = "read"
    /\ UNCHANGED <<types, node, operands, ret, at, world, files, mode, kills,
                   cacheVars, outVars>>

AddRecord ==
    /\ pc = "read" /\ RowsOf(columns[1]) < Len(world.rows)
    /\ LET record == world.rows[RowsOf(columns[1]) + 1]
       IN  columns' = [c \in DOMAIN columns |-> push_back(columns[c], record[c])]
    /\ UNCHANGED <<types, evalVars, loaderVars, pc, cacheVars, outVars>>

EndOfFile ==
    /\ pc = "read" /\ RowsOf(columns[1]) = Len(world.rows)
    /\ table_cache' = columns
    /\ pc' = "eval"
    /\ UNCHANGED <<types, columns, evalVars, loaderVars, result_cache, outVars>>

Filter ==
    /\ pc = "eval" /\ EvalStep
    /\ UNCHANGED <<loaderVars, pc, cacheVars, outVars>>

(* The file cannot be opened, a number in it not parsed, or a literal does *)
(* not match its column: main catches the exception and exits.             *)
FromCsvThrows ==
    /\ pc = "read" \/ (pc = "eval" /\ Mismatched)
    /\ pc' = "thrown"
    /\ UNCHANGED <<types, columns, evalVars, loaderVars, cacheVars, outVars>>

(* The pass that copies the rows, one column per task. *)
StartCopy ==
    /\ pc = "eval" /\ Evaluated
    /\ results' = IF filter # <<>> THEN Last(values)
                  ELSE [b \in 1 .. Len(columns[1].bitmap) |-> Bits]
    /\ table' = [num_rows |-> 0, columns |-> [c \in DOMAIN columns |-> <<>>]]
    /\ at' = [t \in Threads |-> begin_idx(t, Len(columns))]
    /\ pc' = "copy"
    /\ UNCHANGED <<types, columns, filter, values, node, operands, ret,
                   loaderVars, cacheVars, ret_rows>>

CopyColumn(t) ==
    /\ pc = "copy" /\ at[t] < begin_idx(t + 1, Len(columns))
    /\ LET copy == from_inner_to_column(columns[at[t] + 1], results,
                                        RowsOf(columns[1]))
       IN  /\ table' = [table EXCEPT !.columns[at[t] + 1] = copy.pages]
           /\ ret_rows' = copy.ret
    /\ at' = [at EXCEPT ![t] = @ + 1]
    /\ UNCHANGED <<types, columns, filter, values, node, operands, ret,
                   loaderVars, pc, cacheVars, results>>

(* The result without a filter is kept, as a copy. *)
FinishCopy ==
    /\ pc = "copy"
    /\ \A t \in Threads : at[t] >= begin_idx(t + 1, Len(columns))
    /\ table' = [table EXCEPT !.num_rows = ret_rows]
    /\ result_cache' = IF filter = <<>> /\ result_cache = NoTable
                       THEN table' ELSE result_cache
    /\ pc' = AfterCsv
    /\ UNCHANGED <<types, columns, evalVars, loaderVars, table_cache, results,
                   ret_rows>>

-----------------------------------------------------------------------------
(* The cache file: a page with the meta data, then the pages of the        *)
(* columns, one column after the other.                                    *)

TableMeta(t) ==
    [num_rows |-> t.num_rows, num_pages |-> [c \in DOMAIN t.columns |-> Len(t.columns[c])]]

Dump(t) == <<TableMeta(t)>> \o FlattenSeq(t.columns)

SkipFile(f) ==
    /\ mode = "build" /\ Calls(f) /\ files[f] # NoFile
    /\ UNCHANGED <<types, columns, node, operands, ret, at, world, files, mode,
                   kills, pc, cacheVars, outVars>>

CreateFile ==
    /\ pc = "create"
    /\ files' = [files EXCEPT ![request] = <<>>]
    /\ pc' = "dump"
    /\ UNCHANGED <<types, columns, evalVars, world, mode, calls, kills, cacheVars,
                   outVars>>

WritePage ==
    /\ pc = "dump" /\ Len(files[request]) < Len(Dump(table))
    /\ files' = [files EXCEPT ![request] = Append(@, Dump(table)[Len(@) + 1])]
    /\ UNCHANGED <<types, columns, evalVars, world, mode, pc, calls, kills,
                   cacheVars, outVars>>

CloseFile ==
    /\ pc = "dump" /\ Len(files[request]) = Len(Dump(table))
    /\ pc' = "loaded"
    /\ UNCHANGED <<types, columns, evalVars, loaderVars, cacheVars, outVars>>

(* Where the pages of each column start in the file. *)
FirstPage(meta) ==
    LET data[c \in DOMAIN meta.num_pages] ==
          IF c = 1 THEN 2 ELSE data[c - 1] + meta.num_pages[c - 1]
    IN  data

mapped_ToEnd(file) ==
    LET meta == file[1]
        Column(c) == SelectSeq([j \in 1 .. meta.num_pages[c] |-> FirstPage(meta)[c] + j - 1],
                               LAMBDA p : p <= Len(file))
    IN  [num_rows |-> meta.num_rows,
         columns  |-> [c \in DOMAIN meta.num_pages |->
                         [j \in DOMAIN Column(c) |-> file[Column(c)[j]]]]]

(* The table that from_cache finds in a file: the page counts of the meta  *)
(* data are taken on trust, whatever the size of the file.                 *)
mapped(file) ==
    LET meta == file[1]
    IN  [num_rows |-> meta.num_rows,
         columns  |-> [c \in DOMAIN meta.num_pages |->
                         [j \in 1 .. meta.num_pages[c] |->
                            LET p == FirstPage(meta)[c] + j - 1
                            IN  IF p <= Len(file) THEN file[p] ELSE Beyond]]]

Readable(f) == files[f] # NoFile /\ files[f] # <<>>

from_cache(f) ==
    /\ mode = "cache" /\ Calls(f) /\ Readable(f)
    /\ table' = mapped(files[f])
    /\ pc' = "loaded"
    /\ UNCHANGED <<types, columns, node, operands, ret, at, world, files, mode,
                   kills, cacheVars, results, ret_rows>>

(* There is no file, or it is empty. *)
FromCacheThrows(f) ==
    /\ mode = "cache" /\ Calls(f) /\ ~Readable(f)
    /\ pc' = "thrown"
    /\ UNCHANGED <<types, columns, node, operands, ret, at, world, files, mode,
                   kills, cacheVars, outVars>>

-----------------------------------------------------------------------------
(* Processes.                                                              *)

(* Is there a column that the table lacks or that ends behind the mapping? *)
EndsEarly ==
    \E c \in DOMAIN types :
        c \in DOMAIN table.columns => Beyond \in Range(table.columns[c])

(* The plan is executed, except by a builder.  When it reads memory behind *)
(* the mapping it may fail or go on with what it finds there.              *)
UseTable ==
    /\ pc = "loaded"
    /\ \/ pc' = "used"
       \/ pc' = "fault" /\ mode # "build" /\ EndsEarly
    /\ UNCHANGED <<types, columns, evalVars, loaderVars, cacheVars, outVars>>

NextScan ==
    /\ pc = "used"
    /\ pc' = "idle" /\ table' = NoTable
    /\ UNCHANGED <<types, columns, evalVars, loaderVars, cacheVars, results, ret_rows>>

(* The caches and everything under way are gone with the process. *)
NewProcess(m) ==
    /\ mode' = m /\ pc' = "idle"
    /\ table_cache' = NoTable /\ result_cache' = NoTable /\ table' = NoTable
    /\ columns' = <<>> /\ filter' = <<>> /\ values' = <<>>
    /\ node' = NoNode /\ operands' = <<>> /\ ret' = <<>>
    /\ at' = [t \in Threads |-> 0]
    /\ results' = <<>> /\ ret_rows' = 0
    /\ UNCHANGED <<types, world, calls>>

NextProcess(m) ==
    /\ pc \in {"idle", "thrown", "fault"}
    /\ NewProcess(m)
    /\ UNCHANGED <<files, kills>>

(* The low bytes of a number (below 2^32) that was written in part. *)
LowBytes(v) == {v} \cup {v % n : n \in {1, 256, 256 * 256, 256 * 256 * 256}}

(* The counts before the one that was cut, of which n is there. *)
UpToField(counts, c, n) ==
    [d \in DOMAIN counts |-> IF d < c THEN counts[d] ELSE IF d = c THEN n ELSE 0]

(* Meta data up to one of its fields, the number of rows, that of columns  *)
(* and the page count of each: what is behind the end of the file is zero. *)
TornMeta(meta) ==
    {[num_rows |-> n, num_pages |-> <<>>] : n \in LowBytes(meta.num_rows)}
    \cup UNION {{[meta EXCEPT !.num_pages = UpToField(@, c, n)] :
                   n \in LowBytes(meta.num_pages[c])} : c \in DOMAIN meta.num_pages}

(* What the killed process was writing may be there in part. *)
Kill(m) ==
    /\ kills > 0 /\ pc # "idle"
    /\ kills' = kills - 1
    /\ \/ UNCHANGED files
       \/ /\ pc = "dump" /\ files[request] = <<>>
          /\ \E meta \in TornMeta(TableMeta(table)) :
                files' = [files EXCEPT ![request] = <<meta>>]
       \/ /\ pc = "dump" /\ Len(files[request]) \in 1 .. Len(Dump(table)) - 1
          /\ files' = [files EXCEPT ![request] =
                         Append(@, [k \in DOMAIN Dump(table)[Len(@) + 1] |-> Torn])]
    /\ NewProcess(m)

Next ==
    \/ \E f \in world.filters :
         \/ ResultCacheHit(f) \/ TableCacheHit(f) \/ CacheMiss(f)
         \/ SkipFile(f) \/ from_cache(f) \/ FromCacheThrows(f)
    \/ AddRecord \/ EndOfFile \/ Filter \/ FromCsvThrows \/ StartCopy
    \/ \E t \in Threads : CopyColumn(t)
    \/ FinishCopy \/ CreateFile \/ WritePage \/ CloseFile
    \/ UseTable \/ NextScan
    \/ \E m \in world.modes : NextProcess(m) \/ Kill(m)

Spec == Init /\ [][Next]_vars

-----------------------------------------------------------------------------
(* What the loader has to get right.                                       *)

(* The table that a scan with filter f is meant to get: row k is the row   *)
(* of the file that satisfies f and has k - 1 such rows before it.         *)
Satisfying(f) ==
    {i \in 0 .. Len(world.rows) - 1 : f = <<>> \/ EvalExact(f, world.rows[i + 1])}

Ranked(S, k) == CHOOSE i \in S : Cardinality({j \in S : j < i}) = k - 1

Filtered(f) ==
    LET n    == Cardinality(Satisfying(f))
        Row(k) == world.rows[Ranked(Satisfying(f), k) + 1]
    IN  [num_rows |-> n,
         columns  |-> [c \in DOMAIN types |-> Paged([k \in 1 .. n |-> Row(k)[c]])]]

(* from_csv returns the rows of the file that satisfy the filter, in their *)
(* order and the same ones in every column, whether it parsed the file or  *)
(* took it or the result from a cache that an earlier scan with another    *)
(* filter filled.                                                          *)
TableRight ==
    pc = "loaded" /\ mode # "cache" /\ LiteralsFit(filter) => table = Filtered(filter)

(* A file that a killed process left behind passes for complete and is     *)
(* never written again.  What a scan of it finds inside the file is right  *)
(* and in its place: no page is taken for one of another column or of      *)
(* another position, except that the last page of the file may be torn.    *)
(* When the meta data is whole, so are the counts of rows and pages; pages *)
(* that are missing lie behind the mapping, where nothing stops the scan.  *)
PagesInPlace ==
    pc \in {"loaded", "used"} /\ mode = "cache" /\ LiteralsFit(filter) =>
        LET file  == files[filter]
            right == Filtered(filter)
        IN  /\ Len(file) > 1 => TableMeta(table) = TableMeta(right)
            /\ \A c \in DOMAIN table.columns : \A j \in DOMAIN table.columns[c] :
                 LET p    == FirstPage(file[1])[c] + j - 1
                     page == table.columns[c][j]
                 IN  \/ p > Len(file) /\ page = Beyond
                     \/ p <= Len(file) /\ page = right.columns[c][j]
                     \/ p = Len(file) /\ Torn \in Range(page)
=============================================================================
