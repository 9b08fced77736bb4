------------------------------ MODULE HostedRoom ------------------------------
(***************************************************************************)
(* What a room of the local broker promises to whoever is in it: one of    *)
(* its members hosts it and stays its host until it departs, when one that *)
(* is known to be reachable succeeds it; and the revision that stamps what *)
(* is published only rises while anybody is there.  VaraBroker is shown to *)
(* implement it, room by room.                                             *)
(***************************************************************************)
EXTENDS Naturals

CONSTANTS
  Guest,     \* who may be in the room
  Nobody     \* stands for the host of an empty room

VARIABLES
  known,     \* who can be reached, in whatever room
  here,      \* who the room lists
  host,
  rev        \* the last revision given

roomVars == <<here, host, rev>>

Init == here = {} /\ host = Nobody /\ rev = 0

\* Whoever enters a room that has no host hosts it.
Enter(g) ==
  /\ g \in known
  /\ here' = here \cup {g}
  /\ host' = IF host = Nobody THEN g ELSE host
  /\ UNCHANGED rev

\* Whoever departs deposes nobody else.  The host is succeeded by one that can
\* be reached, and by nobody only if none of those who stay can.
Depart(g) ==
  /\ g \in here /\ here \ {g} # {}
  /\ here' = here \ {g}
  /\ IF g = host
       THEN host' \in IF here' \cap known = {} THEN {Nobody} ELSE here' \cap known
       ELSE UNCHANGED host
  /\ UNCHANGED rev

\* The last one takes the room along: the next to enter starts afresh.
Abandon(g) ==
  /\ here = {g}
  /\ here' = {} /\ host' = Nobody /\ rev' = 0

\* A command or a state is stamped with the next revision.
Stamp ==
  /\ here # {}
  /\ rev' = rev + 1
  /\ UNCHANGED <<here, host>>

Next ==
  \/ \E g \in Guest : Enter(g) \/ Depart(g) \/ Abandon(g)
  \/ Stamp

Spec == Init /\ [][Next]_roomVars
=============================================================================
