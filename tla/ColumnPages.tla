---------------------------- MODULE ColumnPages ----------------------------
(***************************************************************************)
(* The pages of a column of values (column_store.h): each has room for so  *)
(* many slots, and values are appended one after the other.                *)
(***************************************************************************)
EXTENDS Integers, SequencesExt, FiniteSetsExt

(* column_t::append: onto the last page, or a new one when it is full. *)
append(pages, v, slots) ==
    IF pages = <<>> \/ Len(Last(pages)) = slots
    THEN Append(pages, <<v>>)
    ELSE Append(Front(pages), Append(Last(pages), v))

(* A loop that appends one value after the other. *)
append_all(pages, values, slots) ==
    FoldLeft(LAMBDA filled, v : append(filled, v, slots), pages, values)

(* The counts of the pages. *)
Shape(pages) == [p \in DOMAIN pages |-> Len(pages[p])]

(* No page is empty or holds more than there is room for. *)
PagesWithin(pages, slots) == \A p \in DOMAIN pages : Len(pages[p]) \in 1 .. slots

(* The slots in use: page and slot, from one. *)
Boxes(pages) == UNION {{p} \X (1 .. Len(pages[p])) : p \in DOMAIN pages}
=============================================================================
