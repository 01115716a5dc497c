----------------------------- MODULE CSVParser -----------------------------
(***************************************************************************)
(* The CSV parser (csv_parser.cpp) below the loader of tables              *)
(* (build_table.cpp).  Table::from_csv reads a file into a buffer, piece   *)
(* by piece, calls execute for every piece and finish at the end; the      *)
(* parser calls on_field for every field, and TableParser makes records    *)
(* of the fields.  A piece may end anywhere, so whatever needs the next    *)
(* character (the character after a carriage return, an escape, a quote)   *)
(* is left to the next call.  Every attribute is a VARCHAR here.           *)
(***************************************************************************)
EXTENDS Integers, SequencesExt, FiniteSetsExt

CONSTANTS Chars,       \* the characters of a file
          Settings,    \* what callers give the parser and the loader
          Null,        \* the field without a value, std::monostate
          MaxLength    \* bound on the length of a file

ASSUME CSVAssumption ==
    /\ {",", "\n", "\r", "\""} \subseteq Chars
    /\ Settings \subseteq [escape : {"\"", "\\"} \cap Chars,
                           has_trailing_comma : BOOLEAN,
                           has_header : BOOLEAN, attributes_size : Nat \ {0}]
    /\ MaxLength \in Nat

VARIABLES settings, \* those of this parser
          input,    \* what has been read of the file
          parser,   \* the TableParser
          phase     \* "reading", "finished", "thrown" or "undefined"

vars == <<settings, input, parser, phase>>

escape_             == settings.escape   \* "\"" or "\\"
has_trailing_comma_ == settings.has_trailing_comma
has_header          == settings.has_header
attributes_size_    == settings.attributes_size

-----------------------------------------------------------------------------
(* TableParser.  Operators named operator_Fault are faulty variants that   *)
(* show that the properties notice a plausible mistake.                    *)

Fresh == [field |-> <<>>, col_idx |-> 0, row_idx |-> 0, num_cols |-> 0,
          after_first_row |-> FALSE, quoted |-> FALSE,
          after_field_sep |-> FALSE, after_record_sep |-> FALSE,
          escaping |-> FALSE, newlining |-> FALSE, error |-> "Ok",
          last_record |-> <<>>, records |-> <<>>, undefined |-> FALSE]

(* A field adds to the last record, the one of the last attribute ends it. *)
(* A column without an attribute reads past the attributes when it has a   *)
(* value, and so does add_record on a record of too many fields.           *)
on_field(p) ==
    IF has_header /\ p.row_idx = 0 THEN p
    ELSE LET record == Append(p.last_record, IF p.field = <<>> THEN Null ELSE p.field)
             stray  == p.field # <<>> /\ p.col_idx >= attributes_size_
         IN  IF p.col_idx + 1 # attributes_size_
             THEN [p EXCEPT !.last_record = record, !.undefined = @ \/ stray]
             ELSE [p EXCEPT !.last_record = <<>>, !.records = Append(@, record),
                            !.undefined = @ \/ Len(record) > attributes_size_]

-----------------------------------------------------------------------------
(* CSVParser. *)

push(p, c) == [p EXCEPT !.field = Append(@, c)]

end_field(p) == [on_field(p) EXCEPT !.field = <<>>, !.col_idx = @ + 1]

(* The end of a record: it has as many columns as the first one. *)
end_record(p) ==
    LET cols == IF has_trailing_comma_ THEN p.col_idx ELSE p.col_idx + 1
        q    == IF has_trailing_comma_ THEN p ELSE [on_field(p) EXCEPT !.field = <<>>]
    IN  CASE has_trailing_comma_ /\ ~p.after_field_sep -> [p EXCEPT !.error = "NoTrailingComma"]
          [] p.after_first_row /\ cols # p.num_cols -> [p EXCEPT !.error = "InconsistentColumns"]
          [] OTHER -> [q EXCEPT !.after_first_row = TRUE, !.num_cols = cols,
                                !.col_idx = 0, !.row_idx = @ + 1]

(* The characters that an escape may stand before. *)
Escapable(c) == c \in {"\"", escape_}

(* A step of the loop of execute at position i of the buffer: what becomes *)
(* of the parser, how many characters it takes (none: the rest is left to  *)
(* the next call), and whether it ends a field or a record.                *)
Step(p, buffer, i) ==
    LET c    == buffer[i]
        last == i = Len(buffer)
        to(q, n) == [p |-> q, taken |-> n, field |-> FALSE, record |-> FALSE]
    IN  CASE c = "," /\ ~p.quoted ->
                 [to(end_field(p), 1) EXCEPT !.field = TRUE]
          [] c = "\r" /\ ~p.quoted /\ last ->
                 to([p EXCEPT !.newlining = TRUE], 0)
          [] c \in {"\n", "\r"} /\ ~p.quoted /\ ~(c = "\r" /\ last) ->
                 [to(end_record(p), IF c = "\r" /\ buffer[i + 1] = "\n" THEN 2 ELSE 1)
                     EXCEPT !.record = TRUE]
          [] c = "\"" /\ escape_ = "\"" /\ p.quoted /\ last ->
                 to([p EXCEPT !.escaping = TRUE], 0)
          [] c = "\"" /\ escape_ = "\"" /\ p.quoted /\ ~last ->
                 IF buffer[i + 1] = "\"" THEN to(push(p, c), 2)
                                         ELSE to([p EXCEPT !.quoted = FALSE], 1)
          [] c = "\"" /\ ~(escape_ = "\"" /\ p.quoted) ->
                 to([p EXCEPT !.quoted = ~@], 1)
          [] c = "\\" /\ escape_ = "\\" /\ p.quoted /\ last ->
                 to([p EXCEPT !.escaping = TRUE], 0)
          [] c = "\\" /\ escape_ = "\\" /\ p.quoted /\ ~last ->
                 IF Escapable(buffer[i + 1]) THEN to(push(p, buffer[i + 1]), 2)
                                             ELSE to(push(p, c), 1)
          [] OTHER -> to(push(p, c), 1)

RECURSIVE Loop(_, _, _)
Loop(p, buffer, i) ==
    IF i > Len(buffer) THEN p
    ELSE LET s == Step(p, buffer, i)
         IN  IF s.taken = 0 \/ s.p.error # "Ok" THEN s.p
             ELSE Loop([s.p EXCEPT !.after_field_sep = s.field,
                                   !.after_record_sep = s.record],
                       buffer, i + s.taken)

TakeEscaped_Drops(p, buffer) ==
    IF ~p.escaping THEN [p |-> p, i |-> 1]
    ELSE LET q == [p EXCEPT !.escaping = FALSE]
         IN  IF Escapable(buffer[1]) THEN [p |-> push(q, buffer[1]), i |-> 2]
             ELSE IF escape_ = "\"" THEN [p |-> [q EXCEPT !.quoted = FALSE], i |-> 1]
             ELSE [p |-> q, i |-> 1]

(* What the escape at the end of the last buffer stood before. *)
TakeEscaped(p, buffer) ==
    IF ~p.escaping THEN [p |-> p, i |-> 1]
    ELSE LET q == [p EXCEPT !.escaping = FALSE]
         IN  IF Escapable(buffer[1]) THEN [p |-> push(q, buffer[1]), i |-> 2]
             ELSE IF escape_ = "\"" THEN [p |-> [q EXCEPT !.quoted = FALSE], i |-> 1]
             ELSE [p |-> push(q, escape_), i |-> 1]

(* The record that the carriage return at its end was to end. *)
TakeNewline(s, buffer) ==
    IF ~s.p.newlining THEN s
    ELSE LET q == end_record(s.p)
         IN  [p |-> IF q.error # "Ok" THEN q
                    ELSE [q EXCEPT !.after_record_sep = TRUE, !.newlining = FALSE],
              i |-> IF buffer # <<>> /\ buffer[1] = "\n" THEN s.i + 1 ELSE s.i]

execute(p, buffer) ==
    LET s == TakeNewline(TakeEscaped(p, buffer), buffer)
    IN  IF s.p.error # "Ok" THEN s.p ELSE Loop(s.p, buffer, s.i)

finish(p) ==
    IF p.quoted THEN [p EXCEPT !.error = "QuoteNotClosed"]
    ELSE IF p.newlining THEN execute(p, <<>>)
    ELSE IF ~p.after_record_sep THEN execute(p, <<"\n">>)
    ELSE p

-----------------------------------------------------------------------------
(* Table::from_csv. *)

Init ==
    /\ settings \in Settings
    /\ input = <<>> /\ parser = Fresh /\ phase = "reading"

After(p, otherwise) ==
    CASE p.undefined -> "undefined"
      [] ~p.undefined /\ p.error # "Ok" -> "thrown"
      [] OTHER -> otherwise

(* fread fills the buffer from the file. *)
Read ==
    /\ phase = "reading"
    /\ \E n \in 1 .. MaxLength - Len(input) : \E buffer \in [1 .. n -> Chars] :
         /\ input' = input \o buffer
         /\ parser' = execute(parser, buffer)
    /\ phase' = After(parser', "reading")
    /\ UNCHANGED settings

EndOfFile ==
    /\ phase = "reading"
    /\ parser' = finish(parser)
    /\ phase' = After(parser', "finished")
    /\ UNCHANGED <<settings, input>>

Done == phase # "reading" /\ UNCHANGED vars

Next == Read \/ EndOfFile \/ Done

Spec == Init /\ [][Next]_vars

-----------------------------------------------------------------------------
(* The lines of a file, character by character, with no buffer and nothing *)
(* to look ahead to.  ends tells whether the last character ended a line.  *)

Start == [mode |-> "plain", field |-> <<>>, line |-> <<>>, lines |-> <<>>,
          sep |-> FALSE, ends |-> FALSE]

Plain(s, c) ==
    LET line == [fields |-> Append(s.line, s.field), sep |-> s.sep]
    IN  CASE c = "," -> [s EXCEPT !.mode = "plain", !.line = Append(@, s.field),
                                  !.field = <<>>, !.sep = TRUE, !.ends = FALSE]
          [] c \in {"\n", "\r"} ->
                 [s EXCEPT !.mode = IF c = "\r" THEN "return" ELSE "plain",
                           !.lines = Append(@, line),
                           !.line = <<>>, !.field = <<>>, !.sep = FALSE, !.ends = TRUE]
          [] c = "\"" -> [s EXCEPT !.mode = "quoted", !.sep = FALSE, !.ends = FALSE]
          [] OTHER -> [s EXCEPT !.mode = "plain", !.field = Append(@, c),
                                !.sep = FALSE, !.ends = FALSE]

Quoted(s, c) ==
    CASE c = escape_ -> [s EXCEPT !.mode = "escape"]
      [] c = "\"" /\ c # escape_ -> [s EXCEPT !.mode = "plain"]
      [] OTHER -> [s EXCEPT !.mode = "quoted", !.field = Append(@, c)]

Consume(s, c) ==
    CASE s.mode = "plain" -> Plain(s, c)
      [] s.mode = "quoted" -> Quoted(s, c)
      [] s.mode = "return" ->
             IF c = "\n" THEN [s EXCEPT !.mode = "plain"] ELSE Plain(s, c)
      [] s.mode = "escape" ->
             IF Escapable(c) THEN [s EXCEPT !.mode = "quoted", !.field = Append(@, c)]
             ELSE IF escape_ = "\"" THEN Plain(s, c)
             ELSE Quoted([s EXCEPT !.field = Append(@, escape_)], c)

(* The last line need not be ended; an empty file is one empty line. *)
LinesOf(s) ==
    IF s.ends THEN s.lines
              ELSE Append(s.lines, [fields |-> Append(s.line, s.field), sep |-> s.sep])

Columns(line) ==
    IF has_trailing_comma_ THEN Front(line.fields) ELSE line.fields

WellFormed(s) ==
    LET lines == LinesOf(s)
    IN  /\ s.mode \notin {"quoted", "escape"}
        /\ \A l \in DOMAIN lines :
             /\ has_trailing_comma_ => lines[l].sep
             /\ Len(Columns(lines[l])) = Len(Columns(lines[1]))

(* The records of a file of as many columns as there are attributes.  Of a *)
(* file of fewer columns the parser makes none.                            *)
RecordsOf(s) ==
    LET lines == IF has_header THEN Tail(LinesOf(s)) ELSE LinesOf(s)
        cell(f) == IF f = <<>> THEN Null ELSE f
        record(l) == [c \in 1 .. attributes_size_ |-> cell(Columns(lines[l])[c])]
    IN  IF Len(Columns(LinesOf(s)[1])) = attributes_size_
        THEN [l \in DOMAIN lines |-> record(l)] ELSE <<>>

Reference == FoldLeft(Consume, Start, input)

(* Some line has more columns than there are attributes. *)
TooWide == \E l \in DOMAIN LinesOf(Reference) :
              Len(Columns(LinesOf(Reference)[l])) > attributes_size_

(* Wherever the file is cut into buffers, in the middle of a line end, an  *)
(* escape or a doubled quote, it is accepted if and only if it is well     *)
(* formed, and then its records are those of its lines.  No attribute is   *)
(* read that does not exist; the code has no guard against files with a    *)
(* line that is wider than the table.                                      *)
CutsDoNotMatter ==
    ~TooWide =>
        /\ phase # "undefined"
        /\ phase = "finished" =>
               WellFormed(Reference) /\ parser.records = RecordsOf(Reference)
        /\ phase = "thrown" => ~WellFormed(Reference)

=============================================================================
