----------------------------- MODULE MCVeyaSync -----------------------------
(* Values TLC gives to the constants of VeyaSync.                          *)
EXTENDS VeyaSync

\* A little behind, and far ahead.
SomeJumps == {-5, 9}

\* The room changes hands, and nobody picks a speed.
Transferred == {"transfer"}
=============================================================================
