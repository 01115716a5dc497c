------------------------------ MODULE Filters ------------------------------
(***************************************************************************)
(* The filter of a scan: the columns of inner_column.h with their NULL     *)
(* bitmaps, and Statement::eval of statement.cpp on whole columns, each    *)
(* comparison and each logical operation a parallel loop of the pool.      *)
(*                                                                         *)
(* A bitmap is a sequence of bytes and a byte is the set of its one bits.  *)
(* A filter is the list of its nodes in the order in which they are        *)
(* evaluated, so that the children of a logical operation, given by their  *)
(* numbers, come before it and the root comes last.                        *)
(* The pool is what FilterThreadPool is proved to be: every slice is       *)
(* handled by one worker, in any order relative to the others.  A string   *)
(* is a sequence of character codes, a number the sequence of the number.  *)
(***************************************************************************)
EXTENDS Integers, SequencesExt, FiniteSetsExt

CONSTANTS NumThreads,    \* workers of filter_tp (12)
          BitsPerByte,   \* 8
          IntLimit,      \* 2^31: an int32_t is in -IntLimit .. IntLimit - 1
          DoubleLimit,   \* 2^53: a double holds every integer up to it
          Null           \* std::monostate

ASSUME FiltersAssumption ==
    /\ NumThreads \in Nat \ {0} /\ BitsPerByte \in Nat \ {0}
    /\ IntLimit \in Nat \ {0} /\ DoubleLimit \in Nat /\ IntLimit <= DoubleLimit

Threads == 0 .. NumThreads - 1
Bits    == 0 .. BitsPerByte - 1

VARIABLES types,      \* the types of the attributes
          columns,    \* the columns of the InnerTable
          filter,     \* the nodes of the Statement, in evaluation order
          values,     \* the bitmaps of the nodes evaluated so far
          node,       \* the node the pool is busy with, or NoNode
          operands,   \* the bitmaps it reads
          ret,        \* the bitmap it writes
          at          \* the row or byte each worker comes to next

evalVars == <<filter, values, node, operands, ret, at>>

NoNode == [op |-> "none"]

-----------------------------------------------------------------------------
(* InnerColumn.                                                            *)

EmptyColumn(type) ==
    [type |-> type, data |-> <<>>, offsets |-> <<>>, bitmap |-> <<>>]

RowsOf(c) == IF c.type = "VARCHAR" THEN Len(c.offsets) ELSE Len(c.data)

(* Does the new row, the last of c, start a byte of the bitmap? *)
NeedsByte(c) ==
    IF c.type = "VARCHAR"
    THEN (RowsOf(c) - 1) \div BitsPerByte + 1 > Len(c.bitmap)
    ELSE (RowsOf(c) + BitsPerByte - 1) \div BitsPerByte > Len(c.bitmap)

bitmap_push_back(c, not_null) ==
    LET byte  == (RowsOf(c) - 1) \div BitsPerByte + 1
        bit   == (RowsOf(c) - 1) % BitsPerByte
        grown ==
          IF NeedsByte(c) THEN Append(c.bitmap, IF not_null THEN {0} ELSE {})
          ELSE [c.bitmap EXCEPT ![byte] = IF not_null THEN @ \cup {bit} ELSE @ \ {bit}]
    IN  [c EXCEPT !.bitmap = grown]

(* A NULL takes a default value, zero or the empty string. *)
push_back(c, v) ==
    LET grown ==
          IF c.type = "VARCHAR"
          THEN LET data == IF v = Null THEN c.data ELSE c.data \o v
               IN  [c EXCEPT !.data = data, !.offsets = Append(@, Len(data))]
          ELSE [c EXCEPT !.data = Append(@, IF v = Null THEN <<0>> ELSE v)]
    IN  bitmap_push_back(grown, v # Null)

BitAt(bitmap, i) == i % BitsPerByte \in bitmap[i \div BitsPerByte + 1]

is_not_null(c, i) == BitAt(c.bitmap, i)

get(c, i) ==
    IF c.type = "VARCHAR"
    THEN SubSeq(c.data, IF i = 0 THEN 1 ELSE c.offsets[i] + 1, c.offsets[i + 1])
    ELSE c.data[i + 1]

-----------------------------------------------------------------------------
(* Comparison.                                                             *)

(* static_cast<int32_t> of the 64-bit literal. *)
int32(v) == ((v + IntLimit) % (2 * IntLimit)) - IntLimit

(* operator<, of strings by the first character that differs or the length. *)
Less(v, w) ==
    \E n \in 0 .. Min({Len(v), Len(w)}) :
        /\ SubSeq(v, 1, n) = SubSeq(w, 1, n)
        /\ n < Len(w)
        /\ n = Len(v) \/ v[n + 1] < w[n + 1]

Percent    == 37
Underscore == 95
LineFeed   == 10

(* LIKE by its regular expression: each character of the pattern matches   *)
(* the part of the string between two cuts, "%" any, "_" one character.    *)
(* Both stand for dots of the expression, which match no line feed.        *)
like_match(s, pattern) ==
    \E cut \in [0 .. Len(pattern) -> 0 .. Len(s)] :
        /\ cut[0] = 0 /\ cut[Len(pattern)] = Len(s)
        /\ \A n \in 1 .. Len(pattern) :
             LET part == SubSeq(s, cut[n - 1] + 1, cut[n])
             IN  /\ cut[n - 1] <= cut[n]
                 /\ pattern[n] # Percent => Len(part) = 1
                 /\ IF pattern[n] \in {Percent, Underscore} THEN LineFeed \notin Range(part)
                    ELSE part = <<pattern[n]>>

Satisfies(op, v, w) ==
    CASE op = "EQ"       -> v = w
      [] op = "NEQ"      -> v # w
      [] op = "LT"       -> Less(v, w)
      [] op = "GT"       -> Less(w, v)
      [] op = "LEQ"      -> ~Less(w, v)
      [] op = "GEQ"      -> ~Less(v, w)
      [] op = "LIKE"     -> like_match(v, w)
      [] op = "NOT_LIKE" -> ~like_match(v, w)

LogicalOps == {"NOT", "AND", "OR"}
NullOps    == {"IS_NULL", "IS_NOT_NULL"}

(* Is the literal of comparison n, a number or a string, of the kind that  *)
(* its column holds?                                                       *)
Matches(n) == (n.type = "VARCHAR") = (types[n.column] = "VARCHAR")

comp_value(c, n) == IF c.type = "INT32" THEN <<int32(n.value[1])>> ELSE n.value

(* Operators named operator_Fault are faulty variants that show that the   *)
(* properties notice a plausible mistake.                                  *)
selects_DefaultValue(n, i) ==
    LET c == columns[n.column] IN Satisfies(n.op, get(c, i), comp_value(c, n))

(* The bit a comparison computes for row i of its column. *)
selects(n, i) ==
    LET c == columns[n.column]
    IN  is_not_null(c, i) /\ Satisfies(n.op, get(c, i), comp_value(c, n))

-----------------------------------------------------------------------------
(* The parallel loops.  A worker of a comparison handles the rows of its   *)
(* bytes, one of a logical operation the bytes.                            *)

begin_idx(t, num_tasks) ==
    t * (num_tasks \div NumThreads) + Min({t, num_tasks % NumThreads})

slice_Rows(n, rows, bytes, t) ==
    IF n.op \in LogicalOps
    THEN [from |-> begin_idx(t, bytes), to |-> begin_idx(t + 1, bytes)]
    ELSE [from |-> begin_idx(t, rows), to |-> begin_idx(t + 1, rows)]

slice(n, rows, bytes, t) ==
    IF n.op \in LogicalOps
    THEN [from |-> begin_idx(t, bytes), to |-> begin_idx(t + 1, bytes)]
    ELSE LET tasks == (rows + BitsPerByte - 1) \div BitsPerByte
         IN  [from |-> begin_idx(t, tasks) * BitsPerByte,
              to   |-> Min({begin_idx(t + 1, tasks) * BitsPerByte, rows})]

NodeRows == RowsOf(columns[node.column])

SliceOf(t) ==
    slice(node, IF node.op \in LogicalOps THEN 0 ELSE NodeRows, Len(ret), t)

Working(t) == node # NoNode /\ at[t] < SliceOf(t).to

(* The byte of ret that worker t writes next. *)
ByteOf(t) == IF node.op \in LogicalOps THEN at[t] ELSE at[t] \div BitsPerByte

StartPass(n, read, written) ==
    LET rows == IF n.op \in LogicalOps THEN 0 ELSE RowsOf(columns[n.column])
    IN  /\ node' = n /\ operands' = read /\ ret' = written
        /\ at' = [t \in Threads |-> slice(n, rows, Len(written), t).from]

Evaluating == Len(values) < Len(filter) /\ node = NoNode

NextNode == filter[Len(values) + 1]

(* The literal is taken out of its variant as the type of the column says, *)
(* which throws when it is of another.                                     *)
Mismatched ==
    Evaluating /\ NextNode.op \notin LogicalOps \cup NullOps /\ ~Matches(NextNode)

(* Comparison::eval: a loop over the bytes of the column. *)
StartComparison ==
    /\ Evaluating /\ NextNode.op \notin LogicalOps \cup NullOps /\ Matches(NextNode)
    /\ LET bytes == Len(columns[NextNode.column].bitmap)
       IN  StartPass(NextNode, <<>>, [b \in 1 .. bytes |-> {}])
    /\ UNCHANGED <<types, columns, filter, values>>

(* IS NULL complements the bitmap of the column, bits behind the last row  *)
(* included; bitmap_not works on a copy.                                   *)
StartIsNull ==
    /\ Evaluating /\ NextNode.op = "IS_NULL"
    /\ LET bitmap == columns[NextNode.column].bitmap
       IN  StartPass([op |-> "NOT"], <<bitmap>>, bitmap)
    /\ UNCHANGED <<types, columns, filter, values>>

(* IS NOT NULL is the bitmap of the column. *)
EvalIsNotNull ==
    /\ Evaluating /\ NextNode.op = "IS_NOT_NULL"
    /\ values' = Append(values, columns[NextNode.column].bitmap)
    /\ UNCHANGED <<types, columns, filter, node, operands, ret, at>>

(* LogicalOperation::eval, when its children are evaluated. *)
StartLogical ==
    /\ Evaluating /\ NextNode.op \in LogicalOps
    /\ LET read == [k \in DOMAIN NextNode.children |-> values[NextNode.children[k]]]
       IN  StartPass(NextNode, read, read[1])
    /\ UNCHANGED <<types, columns, filter, values>>

combined_Any(b) == UNION {operands[k][b] : k \in DOMAIN operands}

(* One byte of bitmap_not, bitmap_and or bitmap_or. *)
combined(b) ==
    CASE node.op = "NOT" -> Bits \ operands[1][b]
      [] node.op = "AND" -> operands[1][b] \cap operands[2][b]
      [] node.op = "OR"  -> operands[1][b] \cup operands[2][b]

(* One iteration of the loop in a worker. *)
ApplyTask(t) ==
    /\ Working(t)
    /\ at' = [at EXCEPT ![t] = @ + 1]
    /\ LET b == ByteOf(t) + 1
       IN  ret' = [ret EXCEPT ![b] =
              IF node.op \in LogicalOps THEN combined(b)
              ELSE @ \cup {k \in {at[t] % BitsPerByte} : selects(node, at[t])}]
    /\ UNCHANGED <<types, columns, filter, values, node, operands>>

(* run() has returned. *)
FinishNode ==
    /\ node # NoNode /\ \A t \in Threads : ~Working(t)
    /\ values' = Append(values, ret)
    /\ node' = NoNode /\ operands' = <<>> /\ ret' = <<>>
    /\ UNCHANGED <<types, columns, filter, at>>

EvalStep ==
    \/ StartComparison \/ StartIsNull \/ EvalIsNotNull \/ StartLogical
    \/ \E t \in Threads : ApplyTask(t)
    \/ FinishNode

-----------------------------------------------------------------------------
(* Statement::eval on one record, the other form of the same filter.       *)

(* The distance of the doubles around v, and the double nearest to it, of  *)
(* two the one with the even significand.                                  *)
Quantum(v) ==
    Min({q \in {2^n : n \in 0 .. 10} : v \in -(DoubleLimit * q) .. DoubleLimit * q})

double(v) ==
    LET q      == Quantum(v)
        below  == v \div q
        twice  == 2 * (v % q)
        upward == twice > q \/ (twice = q /\ below % 2 = 1)
    IN  q * (IF upward THEN below + 1 ELSE below)

(* Numbers are compared as doubles, other kinds are never alike. *)
RecordSelects(n, record) ==
    LET v        == record[n.column]
        IsString == types[n.column] = "VARCHAR"
    IN  CASE n.op = "IS_NULL"     -> v = Null
          [] n.op = "IS_NOT_NULL" -> v # Null
          [] OTHER ->
               /\ v # Null /\ Matches(n)
               /\ \/ IsString /\ Satisfies(n.op, v, n.value)
                  \/ /\ ~IsString /\ n.op \notin {"LIKE", "NOT_LIKE"}
                     /\ Satisfies(n.op, <<double(v[1])>>, <<double(n.value[1])>>)

Comparisons(f) == {k \in DOMAIN f : f[k].op \notin LogicalOps}

(* The value of the last node, when compared has those of the comparisons. *)
Evaluate(f, compared) ==
    LET eval[k \in DOMAIN f] ==
          CASE f[k].op = "NOT" -> ~eval[f[k].children[1]]
            [] f[k].op = "AND" -> eval[f[k].children[1]] /\ eval[f[k].children[2]]
            [] f[k].op = "OR"  -> eval[f[k].children[1]] \/ eval[f[k].children[2]]
            [] OTHER           -> compared[k]
    IN  eval[Len(f)]

EvalRecord(f, record) ==
    Evaluate(f, [k \in Comparisons(f) |-> RecordSelects(f[k], record)])

-----------------------------------------------------------------------------
(* What a filter has to get right.                                         *)

Evaluated == Len(values) >= Len(filter) /\ node = NoNode

(* Every literal is of the kind of its column and has a value of its type. *)
LiteralsFit(f) ==
    \A k \in DOMAIN f :
        f[k].op \notin LogicalOps \cup NullOps =>
            /\ Matches(f[k])
            /\ types[f[k].column] = "INT32" => <<int32(f[k].value[1])>> = f[k].value

(* No number that the filter compares on this record is rounded. *)
ExactDoubles(f, record) ==
    \A k \in DOMAIN f :
        LET v == record[f[k].column]
        IN  f[k].op \notin LogicalOps \cup NullOps /\ types[f[k].column] # "VARCHAR"
              /\ v # Null =>
                <<double(v[1])>> = v /\ <<double(f[k].value[1])>> = f[k].value

(* The filter on exact values. *)
Meets(n, record) ==
    LET v == record[n.column]
    IN  CASE n.op = "IS_NULL"     -> v = Null
          [] n.op = "IS_NOT_NULL" -> v # Null
          [] OTHER                -> v # Null /\ Satisfies(n.op, v, n.value)

EvalExact(f, record) == Evaluate(f, [k \in Comparisons(f) |-> Meets(f[k], record)])

RecordAt(i) ==
    [c \in DOMAIN columns |->
        IF is_not_null(columns[c], i) THEN get(columns[c], i) ELSE Null]

(* Both forms of eval agree: the bit of a row in the result of the columns *)
(* is the value of the filter on that row as a record, for every filter    *)
(* whose literals fit their columns and every row whose numbers the record *)
(* form, which compares them as doubles, does not round.                   *)
RecordsAgree ==
    Evaluated /\ filter # <<>> /\ LiteralsFit(filter) =>
        \A i \in 0 .. RowsOf(columns[1]) - 1 :
            ExactDoubles(filter, RecordAt(i)) =>
                BitAt(Last(values), i) = EvalRecord(filter, RecordAt(i))

(* The three values of SQL as sets: {TRUE}, {FALSE}, and either for NULL.  *)
SqlSelects(n, record) ==
    IF n.op \in NullOps \/ record[n.column] # Null
    THEN {Meets(n, record)} ELSE BOOLEAN

EvalSql(f, record) ==
    LET eval[k \in DOMAIN f] ==
          LET Child(n) == eval[f[k].children[n]]
          IN  CASE f[k].op = "NOT" -> {~v : v \in Child(1)}
                [] f[k].op = "AND" -> {u[1] /\ u[2] : u \in Child(1) \X Child(2)}
                [] f[k].op = "OR"  -> {u[1] \/ u[2] : u \in Child(1) \X Child(2)}
                [] OTHER           -> SqlSelects(f[k], record)
    IN  eval[Len(f)]

(* A comparison with NULL is taken as false, also under a NOT, where SQL's *)
(* is unknown.  A filter without NOT still keeps exactly the rows for      *)
(* which SQL's filter is true, and with NOT no row is kept or dropped      *)
(* whose value in SQL does not depend on what the NULLs stand for.         *)
SqlRowsKept ==
    Evaluated /\ filter # <<>> /\ LiteralsFit(filter) =>
        \A i \in 0 .. RowsOf(columns[1]) - 1 :
            LET kept == BitAt(Last(values), i)
                sql  == EvalSql(filter, RecordAt(i))
            IN  /\ sql = {TRUE} => kept
                /\ sql = {FALSE} => ~kept
                /\ (\A k \in DOMAIN filter : filter[k].op # "NOT") => kept = (sql = {TRUE})

(* Two workers never write the same byte of a result, which they do with a *)
(* load and a store that no lock protects.                                 *)
BytesApart ==
    \A t, u \in Threads : t # u /\ Working(t) /\ Working(u) => ByteOf(t) # ByteOf(u)

=============================================================================
