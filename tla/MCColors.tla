--------------------------------- MODULE MCColors ---------------------------------
(***************************************************************************)
(* Constants for Colors: a table with one colour in it.                    *)
(***************************************************************************)
EXTENDS Colors

\* The pieces: "full" and "long" stand for 64 characters each.
MCFilling == {"full", "long"}
MCPiece == {"Success", "Red", "empty"} \cup MCFilling

\* Names that fit, names of more than 64 characters and of 64, and none.
MCName == {<<"Success">>, <<"Red">>, <<"long", "Red">>, <<"full", "empty">>, <<"empty">>}

\* A name of 64 characters, and one that fits.
MCFullName == {<<"full", "empty">>, <<"Red">>}

MCBuiltin == <<"Success">>
=============================================================================
