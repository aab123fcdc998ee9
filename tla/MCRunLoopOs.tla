----------------------------- MODULE MCRunLoopOs ----------------------------
(* The two sources of the emulator and the interrupts an S-mode kernel uses. *)
EXTENDS RunLoopOs

MCSource == {1, 10}
MCInt == {"SEI", "SSI"}
=============================================================================
