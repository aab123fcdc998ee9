----------------------------- MODULE MCUartEcho -----------------------------
(* The bytes typed: the first and the last small letter and their          *)
(* neighbours, 0x60, 0x61, 0x7a and 0x7b, and 0xe1, a byte with bit 7.     *)
EXTENDS UartEcho

MCInput == {{5, 6}, {0, 5, 6}, {1, 3, 4, 5, 6}, {0, 1, 3, 4, 5, 6},
            {0, 5, 6, 7}}
MCValue == SUBSET (0..7)
MCOffset == {RHR, LSR}
=============================================================================
