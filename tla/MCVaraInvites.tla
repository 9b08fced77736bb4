--------------------------- MODULE MCVaraInvites ---------------------------
(* Small instances of VaraInvites; the scaling of time is that of          *)
(* MCVaraRooms.  No group: groups reach a room only at its creation and    *)
(* its deletion, which the runs of VaraRooms cover.                        *)
EXTENDS VaraInvites, TLC

MCGroupRole == [g \in Group |-> [u \in User |-> "none"]]
=============================================================================
