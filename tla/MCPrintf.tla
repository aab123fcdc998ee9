------------------------------ MODULE MCPrintf ------------------------------
(* Values for the constants of Printf: a word of 12 bits, whose buffer      *)
(* holds 12 digits and which has 3 digits in base 16.                       *)
EXTENDS Printf

StringsDef == {Fill(Other, n) : n \in {0, 1, 3}}
StarsDef == {-2, 12}
============================================================================
