--------------------------- MODULE MCTableLoader ---------------------------
(***************************************************************************)
(* Instances of TableLoader for TLC, with bytes of two bits.  Some worlds  *)
(* have one scan and every short column with every filter of a few forms,  *)
(* others a table of two columns that is scanned several times, by         *)
(* processes of every kind, one of which may be killed.                    *)
(***************************************************************************)
EXTENDS TableLoader

cmp(type, column, op, value) ==
    <<[column |-> column, op |-> op, type |-> type, value |-> value]>>

int(column, op, value)    == cmp("INT64", column, op, value)
string(column, op, value) == cmp("VARCHAR", column, op, value)

Not(f) == Append(f, [op |-> "NOT", children |-> <<Len(f)>>])

Behind(f, g) ==
    [k \in DOMAIN g |->
        IF "children" \notin DOMAIN g[k] THEN g[k]
        ELSE [g[k] EXCEPT !.children = [n \in DOMAIN @ |-> @[n] + Len(f)]]]

Both(op, f, g) ==
    (f \o Behind(f, g)) \o <<[op |-> op, children |-> <<Len(f), Len(f) + Len(g)>>]>>

And(f, g) == Both("AND", f, g)
Or(f, g)  == Both("OR", f, g)

NullTests(column) == {int(column, op, Null) : op \in {"IS_NULL", "IS_NOT_NULL"}}

Orders == {"EQ", "NEQ", "LT", "GT", "LEQ", "GEQ"}

(* With IntLimit 2, the literal 3 does not fit an INT32.  With DoubleLimit *)
(* 2, the double nearest to 3 is 4.                                        *)
IntTests == {int(1, op, v) : op \in Orders, v \in {<<0>>, <<1>>, <<3>>}} \cup NullTests(1)

Nested == {And(f, Not(g)) : f \in NullTests(1), g \in {int(1, "EQ", <<0>>)}}
          \cup {Not(Or(f, g)) : f \in {int(1, "LT", <<1>>)}, g \in NullTests(1)}
          \cup {And(f, f) : f \in {Or(int(1, "GT", <<0>>), int(1, "EQ", <<0>>))}}

a  == 97
b  == 98
ab == <<a, b>>

StringTests ==
    {string(1, op, v) : op \in Orders, v \in {<<a>>, ab}} \cup NullTests(1)
    \cup {string(1, op, v) : op \in {"LIKE", "NOT_LIKE"},
                          v \in {<<a, Percent>>, <<Percent, b>>, <<Underscore>>}}

World(t, rows, filters, n, modes, k) ==
    [types |-> t, rows |-> rows, filters |-> filters, calls |-> n,
     modes |-> modes, kills |-> k]

OneColumn(type, cells, tests) ==
    {World(<<type>>, [i \in DOMAIN s |-> <<s[i]>>], {f}, 1, {"duckdb"}, 0) :
        s \in cells, f \in tests \cup {Not(g) : g \in tests}}

Cells(s) == [i \in DOMAIN s |-> IF s[i] = Null THEN Null ELSE <<s[i]>>]

Film == << << <<0>>, <<a>> >>, <<Null, ab>>, << <<1>>, Null>> >>

FilmFilters == {<<>>, int(1, "GEQ", <<0>>), And(string(2, "LIKE", <<a, Percent>>),
                                            Not(int(1, "EQ", <<0>>)))}

Shared == World(<<"INT32", "VARCHAR">>, Film, FilmFilters, 4,
                {"build", "duckdb", "cache"}, 2)

MCWorlds ==
    OneColumn("INT32", BoundedSeq({Null, <<0>>, <<1>>}, 3)
                       \cup {Cells(<<0, Null, 1, 1, Null>>), Cells(<<1, 0, 0, Null, 1>>)},
              IntTests \cup Nested)
    \cup OneColumn("INT64", {Cells(<<0, Null, 3>>), Cells(<<3, 1, Null, 4, 3>>)}, IntTests)
    \cup OneColumn("VARCHAR", {<< <<a>>, Null, ab>>, <<Null, <<b>>, ab, <<a>>, Null>>,
                                << <<a, LineFeed>>, <<LineFeed>>, ab>>},
                   StringTests)
    \cup OneColumn("INT32", {Cells(<<0, Null>>)}, {Or(int(1, "EQ", <<0>>), string(1, "EQ", <<a>>))})
    \cup OneColumn("VARCHAR", {<< <<a>> >>}, {int(1, "NEQ", <<0>>)})
    \cup {Shared}
=============================================================================
