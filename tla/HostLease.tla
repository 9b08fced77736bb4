----------------------------- MODULE HostLease -----------------------------
(***************************************************************************)
(* What the host lease of a VARA room promises to the devices that follow  *)
(* the host, whoever changes it and however: one holder per term, a term   *)
(* that rises by one with each change of holder and never otherwise, and a *)
(* lease in force when a term begins.  VaraRooms and the server half of    *)
(* VeyaTransport are shown to implement it.                                *)
(***************************************************************************)
EXTENDS Naturals

CONSTANTS
  Person,    \* who may hold the lease
  Nobody     \* stands for a holder when there is none

VARIABLES
  stage,     \* "none" before the room is created, "held", "over" once it is gone
  holder,    \* who hosts
  term,      \* host_epoch
  lease      \* "valid" or "lapsed"

leaseVars == <<stage, holder, term, lease>>

\* Nothing yet, or a room its creator has just made.
Init ==
  \/ stage = "none" /\ holder = Nobody /\ term = 0 /\ lease = "lapsed"
  \/ stage = "held" /\ holder \in Person /\ term = 1 /\ lease = "valid"

\* The room is created: its creator holds the first term.
Found(p) ==
  /\ stage = "none"
  /\ stage' = "held" /\ holder' = p /\ term' = 1 /\ lease' = "valid"

\* A claim, a transfer or a succession: the next term, held by p.
Succeed(p) ==
  /\ stage = "held"
  /\ holder' = p /\ term' = term + 1 /\ lease' = "valid"
  /\ UNCHANGED stage

\* The lease runs out, or the holder renews it: same holder, same term.
Keep ==
  /\ stage = "held"
  /\ lease' \in {"valid", "lapsed"}
  /\ UNCHANGED <<stage, holder, term>>

\* The room is deleted, for good.
End ==
  /\ stage = "held"
  /\ stage' = "over" /\ holder' = Nobody /\ term' = 0 /\ lease' = "lapsed"

Next ==
  \/ \E p \in Person : Found(p) \/ Succeed(p)
  \/ Keep
  \/ End

Spec == Init /\ [][Next]_leaseVars
=============================================================================
