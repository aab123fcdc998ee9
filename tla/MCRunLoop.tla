------------------------------ MODULE MCRunLoop ------------------------------
(* Values for the constants of RunLoop: the two sources of the emulator,   *)
(* a delegated external interrupt, and the timer, which comes first.      *)
EXTENDS RunLoop

MCSource == {1, 10}
MCInt == {"MTI", "SEI"}
MCDelegated == {"SEI"}
=============================================================================
