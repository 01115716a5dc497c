--------------------------- MODULE MCInt32Column ---------------------------
(***************************************************************************)
(* Instances of Int32Column for TLC.  A page of 13 bytes holds two values  *)
(* and a bitmap of one byte, so that the ninth row of a page, a NULL, ends *)
(* it, and so does a third value; boxes of four values do not line up with *)
(* the pages.                                                              *)
(***************************************************************************)
EXTENDS Int32Column

MCInts == {-1, 2}
=============================================================================
