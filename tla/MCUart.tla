------------------------------- MODULE MCUart -------------------------------
(* Values for the constants of Uart: two bytes that can be told apart, and *)
(* one scratch register (IER).                                             *)
EXTENDS Uart

MCInput == {{0}, {1, 6}}
MCValue == {{2}}
MCOffset == {RHR, 1, LSR}
MCStoreOffset == {1}
=============================================================================
