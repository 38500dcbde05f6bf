-------------------------------- MODULE MCHistory --------------------------------
(***************************************************************************)
(* A small instance of History: the documents are numbers, the edits do    *)
(* not commute and some cannot be inverted, so that a replay from a wrong  *)
(* snapshot or of a wrong part of the log gives another document.          *)
(***************************************************************************)
EXTENDS History

MCEditState == 0 .. 10

MCReduce(r, e) ==
    CASE r = "add" -> (e + 1) % 11
      [] r = "double" -> (2 * e) % 11
      [] r = "clear" -> 5
=============================================================================
