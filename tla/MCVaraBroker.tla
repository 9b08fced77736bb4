----------------------------- MODULE MCVaraBroker -----------------------------
(* Who connects to the broker in the runs of VaraBroker.                      *)
EXTENDS VaraBroker, TLC

CONSTANTS c1, c2, c3, a, b, d, r1, r2

\* Two apps, and a third connection that is another app's or the first one's
\* next, in the same room or in another.
Connecting ==
  c1 :> {<<a, r1>>} @@ c2 :> {<<b, r1>>} @@ c3 :> {<<a, r1>>, <<a, r2>>, <<d, r1>>}
=============================================================================
