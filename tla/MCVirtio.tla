------------------------------ MODULE MCVirtio ------------------------------
(* Values for the constants of Virtio.                                     *)
EXTENDS Virtio

MCOneChain == {0}       \* xv6 and every driver with one request in flight
MCTwoChains == {0, 3}   \* what xv6 uses for two
=============================================================================
