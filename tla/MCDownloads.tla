----------------------------- MODULE MCDownloads ------------------------------
(* Values of the constants of Downloads for TLC.  d2 and d3 differ in nothing *)
(* but their names, and the runs that use it check no liveness.               *)
EXTENDS Downloads

CONSTANTS d1, d2, d3

Engines == {{}, {d1}}
Caps == {[concurrent |-> 1, quota |-> 0], [concurrent |-> 2, quota |-> 2]}
Alike == Permutations({d2, d3})
=============================================================================
