--------------------------- MODULE MCExecutePlan ---------------------------
(***************************************************************************)
(* Instances of ExecutePlan for TLC: a scan, a join and two joins one in   *)
(* the other, over three tables with and without NULLs, whose integers and *)
(* strings lie on pages of different sizes, an empty one, one of integers  *)
(* below zero and one with what values cannot carry.                       *)
(***************************************************************************)
EXTENDS ExecutePlan

CONSTANTS s1, s2, s3

MCInts == {-1, 1, 2}
MCStrings == {s1, s2, s3, Empty}

column(type, pages) == [type |-> type, pages |-> pages]
ints(pages)    == column("INT32", pages)
strings(pages) == column("VARCHAR", pages)
attr(col, type) == [col |-> col, type |-> type]

(* A key without NULLs on two pages, strings on one. *)
Movies == << ints(<< <<1, 2>>, <<1>> >>), strings(<< <<s1, Null, s2>> >>) >>

(* Two columns of integers, the second with a NULL. *)
Roles == << ints(<< <<1, 1, 2>> >>), ints(<< <<2, Null>>, <<1>> >>) >>

Names == << strings(<< <<s3>>, <<s1>> >>), ints(<< <<2, 1>> >>) >>

Nobody == << strings(<<>>), ints(<<>>) >>

(* A key below zero without NULLs, which comes through by reference. *)
Debts == << ints(<< <<-1>>, <<2, -1>> >>), strings(<< <<s2, Null, s1>> >>) >>

(* A negative integer in a column with a NULL, and empty strings before a  *)
(* string and at the end of a page.                                        *)
Lost == << ints(<< <<-1, 2>>, <<Null>> >>), strings(<< <<Empty, s1, Empty>> >>) >>

Types(input) == [c \in DOMAIN input |-> attr(c - 1, input[c].type)]

Swapped(attrs) == [k \in DOMAIN attrs |-> attrs[Len(attrs) - k + 1]]

scan(t, attrs) == [op |-> "scan", base_table_id |-> t, output_attrs |-> attrs]

join(build_left, left, right, left_attr, right_attr, attrs) ==
    [op |-> "join", build_left |-> build_left, left |-> left, right |-> right,
     left_attr |-> left_attr, right_attr |-> right_attr, output_attrs |-> attrs]

IntColumns(attrs) == {k \in DOMAIN attrs : attrs[k].type = "INT32"}

(* The attributes of a join of two nodes: all of them, numbered on. *)
Both(l, r) == l \o [k \in DOMAIN r |-> attr(Len(l) + k - 1, r[k].type)]

Renumbered(attrs) == [k \in DOMAIN attrs |-> attr(k - 1, attrs[k].type)]

Wide(l, r) == Both(Renumbered(l), Renumbered(r))

Scans(inputs) ==
    {[inputs |-> inputs, root |-> 1, nodes |-> <<scan(0, attrs)>>] :
        attrs \in {Types(inputs[1]), Swapped(Types(inputs[1]))}}

(* The pairs of columns that may be compared. *)
KeyColumns(l, r) == {k \in (DOMAIN l) \X (DOMAIN r) : l[k[1]].type = r[k[2]].type}

JoinsOf(inputs, attrs) ==
    LET l == attrs[1]
        r == attrs[2]
    IN  {[inputs |-> inputs, root |-> 3,
          nodes |-> <<scan(0, l), scan(1, r), join(b, 1, 2, k[1] - 1, k[2] - 1, out)>>] :
            b \in BOOLEAN, k \in KeyColumns(l, r),
            out \in {Wide(l, r), Swapped(Wide(l, r)), Tail(Wide(l, r))}}

(* The inner join is the left or the right input of the outer one. *)
TwoJoins(inputs) ==
    LET l == Types(inputs[1])
        r == Types(inputs[2])
        o == Types(inputs[3])
        inner == Swapped(Wide(l, r))
        Plan(i, j, k, b, c, left) ==
            [inputs |-> inputs, root |-> 5,
             nodes |-> <<scan(0, l), scan(1, r), join(b, 1, 2, i - 1, j - 1, inner),
                         scan(2, o),
                         IF left
                         THEN join(c, 3, 4, k[1] - 1, k[2] - 1, Swapped(Wide(inner, o)))
                         ELSE join(c, 4, 3, k[2] - 1, k[1] - 1, Wide(o, inner))>>]
    IN  {Plan(i, j, k, b, c, left) :
            i \in IntColumns(l), j \in IntColumns(r),
            k \in IntColumns(inner) \X IntColumns(o),
            b \in BOOLEAN, c \in BOOLEAN, left \in BOOLEAN}

MCPlans ==
    UNION {Scans(<<t>>) : t \in {Movies, Roles, Names, Nobody, Debts, Lost}}
    \cup UNION {JoinsOf(p, <<Types(p[1]), Types(p[2])>>) :
                  p \in {<<Movies, Roles>>, <<Roles, Roles>>, <<Roles, Names>>,
                         <<Movies, Names>>, <<Names, Nobody>>, <<Debts, Debts>>,
                         <<Lost, Debts>>}}
    \cup UNION {TwoJoins(p) : p \in {<<Movies, Roles, Names>>, <<Roles, Names, Roles>>}}
=============================================================================
