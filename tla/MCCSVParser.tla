---------------------------- MODULE MCCSVParser ----------------------------
(***************************************************************************)
(* The instance of CSVParser for TLC: every file of a few characters, cut  *)
(* into buffers in every way, with the settings that from_csv is called    *)
(* with and with all the others at once.                                   *)
(***************************************************************************)
EXTENDS CSVParser

MCChars == {"x", ",", "\n", "\r", "\"", "\\"}

MCSettings ==
    {[escape |-> "\\", has_trailing_comma |-> FALSE, has_header |-> FALSE,
      attributes_size |-> 2],
     [escape |-> "\"", has_trailing_comma |-> TRUE, has_header |-> TRUE,
      attributes_size |-> 1]}
=============================================================================
