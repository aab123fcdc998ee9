---------------------------- MODULE MCGuestHeap ----------------------------
(* Values for the constants of GuestHeap.                                   *)
EXTENDS GuestHeap
============================================================================
