---------------------------- MODULE MCVaraRooms ----------------------------
(* Small instances of VaraRooms.  Lease 3 and renewal threshold 2 keep the *)
(* 90 s / 60 s proportion; the room lifetime is shortened to a few units   *)
(* so that a lapsed lease and an expired room both happen within MaxTime.  *)
EXTENDS VaraRooms, TLC

\* Account 1 administers the group, 2 belongs to it, the others do not.
MCGroupRole ==
  [g \in Group |-> [u \in User |-> CASE u = 1 -> "owner"
                                     [] u = 2 -> "member"
                                     [] OTHER -> "none"]]
=============================================================================
