-------------------------- MODULE MCVeyaTransport --------------------------
(* Values TLC gives to the constants of VeyaTransport.                     *)
EXTENDS VeyaTransport

\* Each account has one device.
OneEach == [d \in Device |-> d]
=============================================================================
