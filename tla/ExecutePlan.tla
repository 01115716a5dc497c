---------------------------- MODULE ExecutePlan ----------------------------
(***************************************************************************)
(* The execution of a plan (execute.cpp): execute_impl walks the tree of   *)
(* scans and joins from the root, a scan turns the columns of an input     *)
(* into columns of values, the root's columns are turned back into a       *)
(* table.  Strings, and integers of a column without NULLs, are carried    *)
(* through all joins as references into the inputs and read at the end.    *)
(*                                                                         *)
(* Columns are numbered from zero, like in output_attrs.  An input column  *)
(* is a sequence of pages of its own, a page the sequence of its rows.     *)
(* What one join leaves is one of JoinOutcomes, as HashJoin is proved to;  *)
(* that a reference leads to the row it was made for, whatever the bytes   *)
(* of the page, is what Int32Column and VarcharColumn check.  The two      *)
(* cases they leave out are here: a negative integer made into a value,    *)
(* and the empty string, which takes no bytes of its page.                 *)
(***************************************************************************)
EXTENDS JoinPages

CONSTANTS Null,
          Ints, Strings,  \* what rows may hold
          Empty,          \* the string without characters
          Plans           \* a plan: its nodes, its inputs and its root

ASSUME CellsAssumption == Ints \subseteq Int /\ Empty \notin Ints \cup {Null}

Cells == Ints \cup Strings

(* The types that scans and joins carry; a scan passes columns of the      *)
(* other two over.                                                         *)
DataTypes == {"INT32", "VARCHAR"}

(* The columns of a table have the same number of rows. *)
IsInput(columns) ==
    /\ columns \in Seq(Range(columns))
    /\ \A c \in DOMAIN columns :
         /\ columns[c].type \in DataTypes
         /\ columns[c].pages \in
              Seq(Seq({Null} \cup IF columns[c].type = "INT32" THEN Ints ELSE Strings))
    /\ \A c, d \in DOMAIN columns :
         Len(FlattenSeq(columns[c].pages)) = Len(FlattenSeq(columns[d].pages))

Attributes == [col : Nat, type : DataTypes]

(* A scan asks for columns of its table by their types. *)
IsScan(p, n) ==
    /\ n.op = "scan" /\ n.base_table_id \in Nat /\ n.base_table_id + 1 \in DOMAIN p.inputs
    /\ \A k \in DOMAIN n.output_attrs :
         LET columns == p.inputs[n.base_table_id + 1]
             c == n.output_attrs[k].col + 1
         IN  c \in DOMAIN columns /\ n.output_attrs[k].type = columns[c].type

(* A join compares columns of one type and asks for columns of its left    *)
(* and right input, nodes of the plan, by the types these have asked for.  *)
IsJoin(p, n) ==
    /\ n.op = "join" /\ n.build_left \in BOOLEAN
    /\ n.left \in DOMAIN p.nodes /\ n.right \in DOMAIN p.nodes
    /\ LET left  == p.nodes[n.left].output_attrs
           right == p.nodes[n.right].output_attrs
       IN  /\ n.left_attr \in 0 .. Len(left) - 1 /\ n.right_attr \in 0 .. Len(right) - 1
           /\ left[n.left_attr + 1].type = right[n.right_attr + 1].type
           /\ \A k \in DOMAIN n.output_attrs :
                /\ n.output_attrs[k].col < Len(left) + Len(right)
                /\ n.output_attrs[k].type = (left \o right)[n.output_attrs[k].col + 1].type

IsNode(p, n) ==
    /\ n.output_attrs \in Seq(Attributes)
    /\ IsScan(p, n) \/ IsJoin(p, n)

(* A join is added to a plan after the nodes that it joins. *)
InOrder(p) ==
    /\ p.nodes \in Seq(Range(p.nodes))
    /\ \A n \in DOMAIN p.nodes :
         p.nodes[n].op = "join" => p.nodes[n].left < n /\ p.nodes[n].right < n

(* The result has a column: its rows are counted in the first.             *)
ASSUME PlansAssumption ==
    \A p \in Plans :
        /\ \A t \in DOMAIN p.inputs : IsInput(p.inputs[t])
        /\ \A n \in DOMAIN p.nodes : IsNode(p, p.nodes[n])
        /\ InOrder(p)
        /\ p.root \in DOMAIN p.nodes /\ p.nodes[p.root].output_attrs # <<>>

VARIABLES plan,
          frames,  \* the calls of execute_impl under way, the last on top
          phase,   \* "execute", "convert" or "returned"
          root,    \* what execute_impl returned for the root
          table    \* the columns of the result so far

vars == <<plan, frames, phase, root, table>>

(* A call: its node and the columns its own calls have returned so far. *)
Frame(n) == [node |-> n, args |-> <<>>]

Init ==
    /\ plan \in Plans
    /\ frames = <<Frame(plan.root)>>
    /\ phase = "execute"
    /\ root = <<>> /\ table = <<>>

Input(t, c) == plan.inputs[t + 1][c + 1]

-----------------------------------------------------------------------------
(* column_t.                                                               *)

NoOriginal == [table |-> 0, column |-> 0, any |-> FALSE]

Original(t, c) == [table |-> t, column |-> c, any |-> TRUE]

NewColumn(type) ==
    [type |-> type, pages |-> <<>>, is_no_null |-> FALSE, original_pages |-> NoOriginal]

(* Values: NULL, an integer, or a reference to row pos of a page.  The     *)
(* constructors are those of value_t.                                      *)
make_null == [mode |-> "NULL"]

(* The mode, 01 in the two highest bits, is or-ed with the integer, and    *)
(* the sign of a negative one makes it 11: the value is NULL.              *)
put_int32(v) == IF v < 0 THEN make_null ELSE [mode |-> "INT32", value |-> v]

Reference(mode, t, c, p, pos) ==
    [mode |-> mode, table |-> t, column |-> c, page |-> p, pos |-> pos]

no_nulls(column) ==
    column.type = "INT32" /\ \A p \in Range(column.pages) : Null \notin Range(p)

(* The value made for each row of a page. *)
Scanned(t, c, p) ==
    LET column == Input(t, c)
    IN  [pos \in DOMAIN column.pages[p] |->
            IF column.pages[p][pos] = Null THEN make_null
            ELSE CASE no_nulls(column)        -> Reference("INT32_NO_NULL", t, c, p - 1, pos - 1)
                   [] column.type = "VARCHAR" -> Reference("VARCHAR", t, c, p - 1, pos - 1)
                   [] OTHER                   -> put_int32(column.pages[p][pos])]

(* Operators named operator_Fault are faulty variants that show that the   *)
(* properties notice a plausible mistake.                                  *)
copied_PageByPage(pages) == pages

(* The values fill pages of their own. *)
copied(pages) == append_all(<<>>, FlattenSeq(pages), PageSlots)

scanned_type_Unset(column) == "INT32"

scanned_type(column) == IF column.pages = <<>> THEN "INT32" ELSE column.type

(* column_t_copy_scan for one column.  Its type is set with the first page *)
(* of the column, and is INT32, the first of the enumeration, before.      *)
copy_scan(t, c) ==
    LET column == Input(t, c)
    IN  [type           |-> scanned_type(column),
         pages          |-> copied([p \in DOMAIN column.pages |-> Scanned(t, c, p)]),
         is_no_null     |-> no_nulls(column),
         original_pages |-> IF no_nulls(column) THEN Original(t, c) ELSE NoOriginal]

-----------------------------------------------------------------------------
(* execute_hash_join.                                                      *)

top == Last(frames)
node == plan.nodes[top.node]

get_int32_value_from_page(v, original) ==
    Input(original.table, original.column).pages[v.page + 1][v.pos + 1]

KeyOf(v, column) ==
    CASE v.mode = "INT32"         -> v.value
      [] v.mode = "INT32_NO_NULL" -> get_int32_value_from_page(v, column.original_pages)
      [] OTHER                    -> Null

Keys(column) ==
    [p \in DOMAIN column.pages |->
        [s \in DOMAIN column.pages[p] |-> KeyOf(column.pages[p][s], column)]]

result_column_SameIndex(attr, left, right) ==
    LET column == NewColumn(attr.type)
        sources == {side \in {left, right} :
                      attr.col < Len(side) /\ side[attr.col + 1].is_no_null}
    IN  IF sources = {} THEN column
        ELSE [column EXCEPT !.is_no_null = TRUE,
                            !.original_pages =
                                (CHOOSE s \in sources : TRUE)[attr.col + 1].original_pages]

(* The empty result column of an attribute: without NULLs if that column   *)
(* of the left input is, or else that column of the right one.  The index  *)
(* into the right input wraps below zero and then is no column.            *)
result_column(attr, left, right) ==
    LET column == NewColumn(attr.type)
        From(side, c) == [column EXCEPT !.is_no_null = TRUE,
                                        !.original_pages = side[c + 1].original_pages]
        right_col == attr.col - Len(left)
    IN  IF attr.col < Len(left) /\ left[attr.col + 1].is_no_null
        THEN From(left, attr.col)
        ELSE IF right_col \in 0 .. Len(right) - 1 /\ right[right_col + 1].is_no_null
             THEN From(right, right_col)
             ELSE column

(* The column an attribute is copied from, and whether the row is that of  *)
(* the build side, 1, or of the probe side, 2.                             *)
source(join, attr, left, right) ==
    IF attr.col < Len(left)
    THEN [column |-> left[attr.col + 1], side |-> IF join.build_left THEN 1 ELSE 2]
    ELSE [column |-> right[attr.col - Len(left) + 1],
          side |-> IF join.build_left THEN 2 ELSE 1]

(* The cells of the positions of one side, page by page. *)
Gathered(empty, from, side, pages) ==
    [empty EXCEPT !.pages = [p \in DOMAIN pages |-> [s \in DOMAIN pages[p] |->
                                CellAt(from.pages, pages[p][s][side])]]]

Joined(join, left, right, pages) ==
    [k \in DOMAIN join.output_attrs |->
        LET attr == join.output_attrs[k]
            src  == source(join, attr, left, right)
        IN  Gathered(result_column(attr, left, right), src.column, src.side, pages)]

JoinColumn(join, left, right, build) ==
    IF build THEN left[join.left_attr + 1] ELSE right[join.right_attr + 1]

(* The type that the plan gives the build column. *)
BuildType(join) ==
    IF join.build_left
    THEN plan.nodes[join.left].output_attrs[join.left_attr + 1].type
    ELSE plan.nodes[join.right].output_attrs[join.right_attr + 1].type

ResultsOf(join, left, right) ==
    LET build == Keys(JoinColumn(join, left, right, join.build_left))
        probe == Keys(JoinColumn(join, left, right, ~join.build_left))
        keys  == (UNION {Range(p) : p \in Range(probe)}) \ {Null}
    IN  {Joined(join, left, right, pages) :
            pages \in IF BuildType(join) = "INT32" THEN JoinOutcomes(build, probe, keys)
                      ELSE {<<>>}}

-----------------------------------------------------------------------------
(* execute_impl.                                                           *)

(* The call below takes what the last one returns. *)
Answered(calls, columns) ==
    LET rest == Front(calls)
    IN  [rest EXCEPT ![Len(rest)].args = Append(@, columns)]

Returns(columns) ==
    IF Len(frames) = 1
    THEN frames' = <<>> /\ root' = columns /\ phase' = "convert"
    ELSE frames' = Answered(frames, columns) /\ UNCHANGED <<root, phase>>

ExecuteScan ==
    /\ phase = "execute" /\ node.op = "scan"
    /\ Returns([k \in DOMAIN node.output_attrs |->
                  copy_scan(node.base_table_id, node.output_attrs[k].col)])
    /\ UNCHANGED <<plan, table>>

Incomplete(f) == Len(f.args) < 2

NextChild(join, f) == IF f.args = <<>> THEN join.left ELSE join.right

(* A join calls execute_impl for its left and then for its right input. *)
Descend ==
    /\ phase = "execute" /\ node.op = "join" /\ Incomplete(top)
    /\ frames' = Append(frames, Frame(NextChild(node, top)))
    /\ UNCHANGED <<plan, phase, root, table>>

ExecuteJoin ==
    /\ phase = "execute" /\ node.op = "join" /\ ~Incomplete(top)
    /\ \E results \in ResultsOf(node, top.args[1], top.args[2]) : Returns(results)
    /\ UNCHANGED <<plan, table>>

Fits_CopiesOnly(v, type) ==
    v.mode = "NULL" \/ v.mode = type

Fits(v, type) ==
    \/ v.mode \in {"NULL", type}
    \/ v.mode = "INT32_NO_NULL" /\ type = "INT32"

(* The string of a row is read up to the smallest offset behind its start. *)
(* An empty string ends where it starts: what is read is the next one with *)
(* characters that its page has, or nothing if there is none.              *)
StringAt(page, pos) ==
    LET ends == {i \in pos .. Len(page) : page[i] \notin {Null, Empty}}
    IN  IF ends = {} THEN Empty ELSE page[Min(ends)]

(* What is inserted for a value: nothing, if it is not of the column's     *)
(* type.                                                                   *)
Inserted(v, column) ==
    IF ~Fits(v, column.type) THEN <<>>
    ELSE IF v.mode = "VARCHAR"
         THEN <<StringAt(Input(v.table, v.column).pages[v.page + 1], v.pos + 1)>>
         ELSE <<KeyOf(v, column)>>

(* The rows that to_columnar_from_column inserts for a column. *)
Rows(column) ==
    LET values == FlattenSeq(column.pages)
    IN  FlattenSeq([i \in DOMAIN values |-> Inserted(values[i], column)])

Materialised(column) == [type |-> column.type, rows |-> Rows(column)]

ConvertColumn ==
    /\ phase = "convert" /\ Len(table) < Len(root)
    /\ table' = Append(table, Materialised(root[Len(table) + 1]))
    /\ UNCHANGED <<plan, frames, phase, root>>

Return ==
    /\ phase = "convert" /\ Len(table) = Len(root)
    /\ phase' = "returned"
    /\ UNCHANGED <<plan, frames, root, table>>

Next == ExecuteScan \/ Descend \/ ExecuteJoin \/ ConvertColumn \/ Return

Spec == Init /\ [][Next]_vars

-----------------------------------------------------------------------------
(* What the execution of a plan has to get right.                          *)

num_rows == Len(FlattenSeq(root[1].pages))

(* The columns at hand: arguments of joins to come, or the root's. *)
Results == (UNION {Range(f.args) : f \in Range(frames)}) \cup {root}

(* The columns of one result, some made by reference and some by value, of *)
(* inputs with pages of other sizes, have the same pages with as many      *)
(* values: a position in the join column is the same row of any other.     *)
ColumnsAligned ==
    \A columns \in Results : \A k, m \in DOMAIN columns :
        Shape(columns[k].pages) = Shape(columns[m].pages)

(* The flag and the pages that a column hands on through any number of     *)
(* joins are those of the values in it: all of its integers refer to the   *)
(* pages it names, and it has none when it names no pages.                 *)
ReferencesRight ==
    \A columns \in Results : \A column \in Range(columns) :
        \A v \in Range(FlattenSeq(column.pages)) :
            IF column.is_no_null
            THEN /\ v.mode = "INT32_NO_NULL"
                 /\ column.original_pages = Original(v.table, v.column)
            ELSE v.mode # "INT32_NO_NULL"

(* The relations that the nodes of a plan stand for.  A relation is a      *)
(* family of rows: those of an input are named by their numbers, those of  *)
(* a join by the pairs of names that they combine.                         *)
InputRows(columns) ==
    LET values == [c \in DOMAIN columns |-> FlattenSeq(columns[c].pages)]
    IN  [i \in DOMAIN values[1] |-> [c \in DOMAIN columns |-> values[c][i]]]

Matching(lefts, rights, join) ==
    {pair \in (DOMAIN lefts) \X (DOMAIN rights) :
        /\ lefts[pair[1]][join.left_attr + 1] # Null
        /\ lefts[pair[1]][join.left_attr + 1] = rights[pair[2]][join.right_attr + 1]}

Inner(lefts, rights, join) ==
    [pair \in Matching(lefts, rights, join) |-> lefts[pair[1]] \o rights[pair[2]]]

Projected(rows, attrs) ==
    [name \in DOMAIN rows |-> [k \in DOMAIN attrs |-> rows[name][attrs[k].col + 1]]]

Relation(p) ==
    LET Of[n \in DOMAIN p.nodes] ==
            LET the == p.nodes[n]
            IN  Projected(IF the.op = "scan" THEN InputRows(p.inputs[the.base_table_id + 1])
                          ELSE Inner(Of[the.left], Of[the.right], the),
                          the.output_attrs)
    IN  Of

Times(row, rows) == Cardinality({name \in DOMAIN rows : rows[name] = row})

(* Values of another type are never collected into a hash table. *)
JoinsIntegers(p) ==
    \A n \in DOMAIN p.nodes :
        LET the == p.nodes[n]
        IN  the.op = "join" =>
              p.nodes[the.left].output_attrs[the.left_attr + 1].type = "INT32"

(* What is not lost on the way: an integer below zero only comes through   *)
(* by reference, from a column without NULLs, an empty string not at all.  *)
Kept(column) ==
    \A page \in Range(column.pages) : \A cell \in Range(page) \ {Null} :
        IF column.type = "INT32" THEN cell < 0 => no_nulls(column) ELSE cell # Empty

InputsKept(p) == \A t \in DOMAIN p.inputs : \A c \in DOMAIN p.inputs[t] : Kept(p.inputs[t][c])

(* The table that execute returns for joins of integers holds the rows of  *)
(* the relation that the plan stands for, each as many times, whatever     *)
(* side each join builds and however its threads share the pages, unless   *)
(* the inputs hold what values cannot carry.                               *)
PlanCorrect ==
    phase = "returned" /\ JoinsIntegers(plan) /\ InputsKept(plan) =>
        LET expected == Relation(plan)[plan.root]
            rows == [i \in 1 .. num_rows |-> [k \in DOMAIN table |-> table[k].rows[i]]]
        IN  /\ \A k \in DOMAIN table : Len(table[k].rows) = num_rows
            /\ num_rows = Cardinality(DOMAIN expected)
            /\ \A row \in Range(expected) : Times(row, rows) = Times(row, expected)

(* Every column of the table has the type that the plan asks for, except   *)
(* a column of strings that is scanned without a join and has no pages.    *)
ResultTypes ==
    phase = "returned" =>
        \A k \in DOMAIN table :
            LET the == plan.nodes[plan.root]
            IN  \/ table[k].type = the.output_attrs[k].type
                \/ the.op = "scan" /\ Input(the.base_table_id, the.output_attrs[k].col).pages = <<>>
=============================================================================
