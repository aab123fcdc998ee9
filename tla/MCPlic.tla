------------------------------- MODULE MCPlic -------------------------------
(* The two interrupt ids of the emulator, viritio.rs:15 and uart.rs:19, and*)
(* as values to complete these, none (0), one no device raises, and one    *)
(* above 31 with the low bits of 1.                                        *)
EXTENDS Plic

MCSource == {1, 10}
MCCompleteValue == {0, 1, 8, 10, 33}
=============================================================================
