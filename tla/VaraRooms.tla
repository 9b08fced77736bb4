------------------------------ MODULE VaraRooms ------------------------------
(***************************************************************************)
(* The remote VARA rooms of supabase/migrations: room rows, membership,    *)
(* the 90-second host lease with its epoch, and the opaque Realtime topic  *)
(* that is rotated whenever the membership or the host changes.            *)
(*                                                                         *)
(* One action is one RPC, run as one serial transaction; the interleaving  *)
(* of the statements of two transactions is the subject of VaraAdmission.  *)
(* Who may be admitted (friendship, invitations, links, blocks) is added   *)
(* by VaraInvites, which composes with Admit and Expel below.              *)
(*                                                                         *)
(* Abstractions.  A topic is random and never reused, so the model keeps,  *)
(* in place of its name, who holds an authorised Realtime connection to    *)
(* the CURRENT topic: rotation empties those sets.  Realtime evaluates its *)
(* policies when a client joins a topic and caches the answer for the      *)
(* connection.  Rate limits and notifications are left out.  Time is in    *)
(* units that divide the lease.                                            *)
(***************************************************************************)
EXTENDS Naturals, FiniteSets

CONSTANTS
  User,        \* accounts, numbered in the order of their uuids
  Room,        \* room ids that may ever be issued
  Group,       \* CIRA groups a room can be launched from
  NoGroup,     \* a room launched outside any group (group_id is null)
  GroupRole,   \* [Group -> [User -> role]]: fixed here, owned by CIRA
  LeaseLen,    \* interval '90 seconds'
  RenewBelow,  \* interval '60 seconds': a renewal extends only below this
  Ttls,        \* the room lifetimes callers ask for
  Caps,        \* the max_members callers ask for
  MaxTime,     \* bound: the clock stops here
  MaxEpoch     \* bound: no host change beyond this epoch

ASSUME UserAssumption == User \subseteq Nat \ {0} /\ IsFiniteSet(User)
ASSUME LeaseAssumption == LeaseLen \in Nat \ {0} /\ RenewBelow \in 0..LeaseLen
ASSUME RequestAssumption == Ttls \subseteq Nat \ {0} /\ Caps \subseteq Nat \ {0, 1}
ASSUME GroupAssumption ==
  /\ NoGroup \notin Group
  /\ GroupRole \in [Group -> [User -> {"owner", "admin", "member", "none"}]]
ASSUME BoundAssumption == MaxTime \in Nat /\ MaxEpoch \in Nat

VARIABLES
  now,      \* the database clock, now()
  room,     \* the rows of vara_rooms joined with their vara_room_members
  born,     \* room ids already issued: uuids are never issued twice
  group,    \* cira_groups: "open", "archived" or "deleted"
  deleted   \* accounts removed by cira_delete_account

vars == <<now, room, born, group, deleted>>

Account == User \ deleted

RoomRow == [status : {"absent", "active"}, owner : Nat,
            host : Nat, epoch : Nat, lease : Nat, expires : Nat, cap : Nat,
            group : Group \cup {NoGroup},
            members : SUBSET User, joinedAt : [User -> Nat],
            listening : SUBSET User, publishing : SUBSET User]

\* A room that does not exist: never created, or its row was deleted.
NoRoom == [status |-> "absent", owner |-> 0, host |-> 0, epoch |-> 0,
           lease |-> 0, expires |-> 0, cap |-> 0, group |-> NoGroup,
           members |-> {}, joinedAt |-> [u \in User |-> 0],
           listening |-> {}, publishing |-> {}]

----------------------------------------------------------------------------
(* Row operators: what one UPDATE does to a room and its members.          *)

\* topic = private.vara_new_topic(): nobody is connected to the new topic yet.
Rotate(row) == [row EXCEPT !.listening = {}, !.publishing = {}]

\* Mutants of Crown: the old epoch kept, a lapsed lease.
CrownKeepingEpoch(row, u) == Rotate([row EXCEPT !.host = u, !.lease = now + LeaseLen])
CrownLapsed(row, u) ==
  Rotate([row EXCEPT !.host = u, !.epoch = @ + 1, !.lease = now - LeaseLen])

\* A new host reigns under the next epoch, with a full lease and a new topic.
Crown(row, u) ==
  Rotate([row EXCEPT !.host = u, !.epoch = @ + 1, !.lease = now + LeaseLen])

\* order by joined_at, user_id limit 1
NextHost(row) ==
  CHOOSE u \in row.members :
    \A v \in row.members : \/ row.joinedAt[u] < row.joinedAt[v]
                           \/ row.joinedAt[u] = row.joinedAt[v] /\ u <= v

\* Mutants of Without: nobody succeeds a host; a guest leaves the topic as it is.
WithoutElection(row, u) ==
  Rotate([row EXCEPT !.members = @ \ {u}, !.joinedAt = [@ EXCEPT ![u] = 0]])
WithoutRotation(row, u) ==
  LET rest == [row EXCEPT !.members = @ \ {u}, !.joinedAt = [@ EXCEPT ![u] = 0]]
  IN  IF row.host = u THEN Crown(rest, NextHost(rest)) ELSE rest

\* Delete one membership; a departing host is succeeded by the eldest member.
Without(row, u) ==
  LET rest == [row EXCEPT !.members = @ \ {u}, !.joinedAt = [@ EXCEPT ![u] = 0]]
  IN  IF row.host = u THEN Crown(rest, NextHost(rest)) ELSE Rotate(rest)

\* Insert one membership.
With(row, u) ==
  Rotate([row EXCEPT !.members = @ \cup {u}, !.joinedAt = [@ EXCEPT ![u] = now]])

NewRoom(u, ttl, cap, g) ==
  [NoRoom EXCEPT !.status = "active", !.owner = u, !.host = u, !.epoch = 1,
                 !.lease = now + LeaseLen, !.expires = now + ttl, !.cap = cap,
                 !.group = g, !.members = {u}, !.joinedAt = [@ EXCEPT ![u] = now]]

\* delete from vara_rooms where ...: members, invites and links cascade.
Drop(R) == room' = [r \in Room |-> IF r \in R THEN NoRoom ELSE room[r]]

\* The ids whose row exists.
Live == {r \in Room : room[r].status = "active"}

Active(r) == r \in Live /\ room[r].expires > now

\* private.vara_room_json returns a row: the caller sees the current topic.
Visible(r, u) == Active(r) /\ u \in room[r].members

\* private.vara_topic_access(topic, require_host) for the current topic.
TopicAccess(r, u, requireHost) ==
  /\ Visible(r, u)
  /\ requireHost => room[r].host = u /\ room[r].lease > now

IsManager(r, u) == Visible(r, u) /\ u \in {room[r].owner, room[r].host}

\* Bound: rows whose epoch may still be incremented.
EpochLeft(r) == room[r].epoch < MaxEpoch

----------------------------------------------------------------------------
Init ==
  /\ now = 0
  /\ room = [r \in Room |-> NoRoom]
  /\ born = {}
  /\ group = [g \in Group |-> "open"]
  /\ deleted = {}

(* Room lifecycle RPCs.                                                    *)

CreateRoom(u, r, ttl, cap, g) ==
  /\ r \notin born
  /\ g # NoGroup => GroupRole[g][u] # "none" /\ group[g] = "open"
  /\ born' = born \cup {r}
  /\ room' = [room EXCEPT ![r] = NewRoom(u, ttl, cap, g)]
  /\ UNCHANGED <<now, group, deleted>>

CloseRoom(u, r) ==
  /\ r \in Live /\ room[r].owner = u
  /\ Drop({r})
  /\ UNCHANGED <<now, born, group, deleted>>

LeaveRoom(u, r) ==
  /\ u \in room[r].members
  /\ IF room[r].owner = u
       THEN Drop({r})
       ELSE /\ room[r].host = u => EpochLeft(r)
            /\ room' = [room EXCEPT ![r] = Without(@, u)]
  /\ UNCHANGED <<now, born, group, deleted>>

(* The host lease.                                                         *)

\* Mutant: the renewal adds a lease to what is left of the old one.
RenewByAdding(u, r) ==
  /\ Visible(r, u) /\ room[r].host = u
  /\ room[r].lease < now + RenewBelow
  /\ room' = [room EXCEPT ![r].lease = @ + LeaseLen]
  /\ UNCHANGED <<now, born, group, deleted>>

RenewHostLease(u, r) ==
  /\ Visible(r, u) /\ room[r].host = u
  /\ room[r].lease < now + RenewBelow
  /\ room' = [room EXCEPT ![r].lease = now + LeaseLen]
  /\ UNCHANGED <<now, born, group, deleted>>

ClaimHost(u, r) ==
  /\ Visible(r, u)
  /\ ~ (room[r].lease > now /\ room[r].host \in room[r].members)
  /\ EpochLeft(r)
  /\ room' = [room EXCEPT ![r] = Crown(@, u)]
  /\ UNCHANGED <<now, born, group, deleted>>

TransferHost(u, r, v) ==
  /\ Active(r) /\ room[r].host = u
  /\ v # u /\ v \in room[r].members
  /\ EpochLeft(r)
  /\ room' = [room EXCEPT ![r] = Crown(@, v)]
  /\ UNCHANGED <<now, born, group, deleted>>

(* Membership changes decided elsewhere.                                   *)

\* private.vara_admit_member returning true after an insert.
Admit(u, r) ==
  /\ Active(r)
  /\ u \notin room[r].members
  /\ Cardinality(room[r].members) < room[r].cap
  /\ room' = [room EXCEPT ![r] = With(@, u)]
  /\ UNCHANGED <<now, born, group, deleted>>

\* private.vara_tg_cira_block_boundary: a block separates the pair in every
\* room they share, in favour of the owner if the blocker owns the room.
Shared(b, x) == {r \in Room : {b, x} \subseteq room[r].members}

Expelled(r, b, x) == IF room[r].owner = b THEN x ELSE b

Expel(b, x) ==
  /\ \A r \in Shared(b, x) :
       room[r].host = Expelled(r, b, x) => EpochLeft(r)
  /\ room' = [r \in Room |-> IF r \in Shared(b, x)
                               THEN Without(room[r], Expelled(r, b, x))
                               ELSE room[r]]
  /\ UNCHANGED <<now, born, group, deleted>>

(* Realtime.  A client reads the topic and joins its private channel; the  *)
(* policies are evaluated once and cached for the connection.              *)

JoinChannel(u, r) ==
  /\ TopicAccess(r, u, FALSE)
  /\ room' = [room EXCEPT
       ![r].listening = @ \cup {u},
       ![r].publishing = IF TopicAccess(r, u, TRUE) THEN @ \cup {u} ELSE @]
  /\ UNCHANGED <<now, born, group, deleted>>

LeaveChannel(u, r) ==
  /\ u \in room[r].listening
  /\ room' = [room EXCEPT ![r].listening = @ \ {u}, ![r].publishing = @ \ {u}]
  /\ UNCHANGED <<now, born, group, deleted>>

(* Groups, accounts, the collector and the clock.                          *)

\* Mutant: the group is archived and its rooms go on.
ArchiveKeepingRooms(u, g) ==
  /\ GroupRole[g][u] \in {"owner", "admin"} /\ group[g] = "open"
  /\ group' = [group EXCEPT ![g] = "archived"]
  /\ UNCHANGED <<now, room, born, deleted>>

ArchiveGroup(u, g) ==
  /\ GroupRole[g][u] \in {"owner", "admin"} /\ group[g] = "open"
  /\ group' = [group EXCEPT ![g] = "archived"]
  /\ Drop({r \in Room : room[r].group = g})
  /\ UNCHANGED <<now, born, deleted>>

RestoreGroup(u, g) ==
  /\ GroupRole[g][u] \in {"owner", "admin"} /\ group[g] = "archived"
  /\ group' = [group EXCEPT ![g] = "open"]
  /\ UNCHANGED <<now, room, born, deleted>>

\* group_id ... on delete set null: the group's rooms outlive it.
DeleteGroup(u, g) ==
  /\ GroupRole[g][u] = "owner" /\ group[g] # "deleted"
  /\ group' = [group EXCEPT ![g] = "deleted"]
  /\ room' = [r \in Room |-> IF room[r].group = g
                               THEN [room[r] EXCEPT !.group = NoGroup]
                               ELSE room[r]]
  /\ UNCHANGED <<now, born, deleted>>

\* The cascade from auth.users: rooms owned or hosted by the account go, its
\* memberships elsewhere are deleted and nothing else runs on those rooms.
DeleteAccount(u) ==
  /\ u \in Account
  /\ deleted' = deleted \cup {u}
  /\ room' = [r \in Room |->
       IF u \in {room[r].owner, room[r].host} THEN NoRoom
       ELSE [room[r] EXCEPT !.members = @ \ {u}, !.joinedAt = [@ EXCEPT ![u] = 0]]]
  /\ UNCHANGED <<now, born, group>>

Expired == {r \in Live : room[r].expires <= now}

\* Mutant: = in place of <= in the collector's condition.
CollectExpiring ==
  LET expiring == {r \in Live : room[r].expires = now} IN
  /\ expiring # {}
  /\ Drop(expiring)
  /\ UNCHANGED <<now, born, group, deleted>>

CollectExpired ==
  /\ Expired # {}
  /\ Drop(Expired)
  /\ UNCHANGED <<now, born, group, deleted>>

Tick ==
  /\ now < MaxTime
  /\ now' = now + 1
  /\ UNCHANGED <<room, born, group, deleted>>

----------------------------------------------------------------------------
\* The RPCs that end in this component alone (used again by VaraInvites).
RoomStep ==
  \/ \E u \in Account, r \in Room, ttl \in Ttls, cap \in Caps,
        g \in Group \cup {NoGroup} : CreateRoom(u, r, ttl, cap, g)
  \/ \E u \in Account, r \in Room :
        \/ CloseRoom(u, r)
        \/ LeaveRoom(u, r)
        \/ RenewHostLease(u, r)
        \/ ClaimHost(u, r)
  \/ \E u \in Account, r \in Room, v \in User : TransferHost(u, r, v)
  \/ \E u \in Account, g \in Group :
        \/ ArchiveGroup(u, g)
        \/ RestoreGroup(u, g)
        \/ DeleteGroup(u, g)
  \/ CollectExpired
  \/ Tick

\* No RPC reads who is connected: a composition may leave these out.
ChannelStep ==
  \/ \E u \in Account, r \in Room : JoinChannel(u, r)
  \/ \E u \in User, r \in Room : LeaveChannel(u, r)

Next ==
  \/ RoomStep
  \/ ChannelStep
  \/ \E u \in Account, r \in Room : Admit(u, r)
  \/ \E b, x \in Account : b # x /\ Expel(b, x)
  \/ \E u \in User : DeleteAccount(u)

Spec == Init /\ [][Next]_vars

\* pg_cron runs the collector every five minutes and time passes.
FairSpec == Spec /\ WF_vars(CollectExpired) /\ WF_vars(Tick)

----------------------------------------------------------------------------
(* Properties.                                                             *)

\* Every variable keeps its type.
TypeOK ==
  /\ now \in Nat
  /\ room \in [Room -> RoomRow]
  /\ born \subseteq Room
  /\ group \in [Group -> {"open", "archived", "deleted"}]
  /\ deleted \subseteq User

\* A room's owner and host are always among its members: leaving, a block and
\* an account deletion must each re-elect a host or delete the room, or the
\* room is left with nobody able to manage it or to publish its state.
OwnerAndHostAreMembers ==
  \A r \in Live : {room[r].owner, room[r].host} \subseteq room[r].members

\* vara_admit_member, the only way in after creation, never overfills a room.
CapacityRespected ==
  \A r \in Room : Cardinality(room[r].members) <= room[r].cap

\* Only the present host can hold a connection on which Realtime accepts
\* state and snapshot messages of the current topic, although the policy was
\* evaluated earlier and the host may have changed since.
PublisherIsHost ==
  \A r \in Room : room[r].publishing \subseteq {room[r].host}

\* A connection that still receives the room's current topic belongs to a
\* member, except that an account deletion removes the member and leaves the
\* topic as it was.
ListenersAreMembersOrDeleted ==
  \A r \in Room : room[r].listening \subseteq room[r].members \cup deleted

\* What Realtime authorised once and caches stays right: whatever has changed
\* since, whoever must not publish or listen has lost the current topic.
TopicIsFenced == PublisherIsHost /\ ListenersAreMembersOrDeleted

\* No lease reaches further than one lease length ahead, so a host that
\* disappears can be replaced after at most that time.
LeaseBounded ==
  \A r \in Room : room[r].lease <= now + LeaseLen

\* Every row is what its columns and the RPCs' arithmetic allow: its types, its
\* seats and the reach of its lease.
RowsInRange == TypeOK /\ CapacityRespected /\ LeaseBounded

\* While a group is archived no room launched from it exists (the promise of
\* 20260715120000: archiving freezes the group's VARA activity).
ArchivedGroupHasNoRoom ==
  \A r \in Room : room[r].group # NoGroup => group[room[r].group] = "open"

\* The epoch fences the host: it never goes back, moves by one, and changes
\* whenever the host does, at which moment every connection to the old topic
\* is cut off and the new host has a whole lease before it.
EpochFencesHost ==
  [][\A r \in Live \cap Live' :
       /\ room'[r].epoch \in {room[r].epoch, room[r].epoch + 1}
       /\ room'[r].host # room[r].host =>
            /\ room'[r].epoch = room[r].epoch + 1
            /\ room'[r].listening = {}
            /\ room'[r].lease = now + LeaseLen]_vars

\* A room past its expiry is eventually deleted by the scheduled collector.
ExpiredRoomCollected ==
  \A r \in Room : (r \in Live /\ room[r].expires <= now) ~> r \notin Live

\* What is promised of a room's lease, as an instance of HostLease.
RoomLease(r) == INSTANCE HostLease WITH
  Person <- User, Nobody <- 0,
  stage <- IF r \in Live THEN "held" ELSE IF r \in born THEN "over" ELSE "none",
  holder <- room[r].host,
  term <- room[r].epoch,
  lease <- IF room[r].lease > now THEN "valid" ELSE "lapsed"

\* Whatever members, groups, blocks, deletions of accounts, the collector and the
\* clock do: one holder a term, a lease in force when a term begins, and no term
\* after the room is gone.  (RoomLease(r)!Spec of every room r, in one formula.)
LeasesImplemented ==
  /\ \A r \in Room : RoomLease(r)!Init
  /\ [][\A r \in Room : [RoomLease(r)!Next]_(RoomLease(r)!leaseVars)]_vars
=============================================================================
