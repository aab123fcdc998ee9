----------------------------- MODULE MCGetLine -----------------------------
(* Values for the constants of GetLine.                                     *)
EXTENDS GetLine
============================================================================
