--------------------------- MODULE VaraRoomsProofs ---------------------------
(***************************************************************************)
(* Machine-checked proofs about VaraRooms, for every number of accounts,   *)
(* rooms and groups and every lease length.                                *)
(*                                                                         *)
(* The inductive invariant says of each room row what one UPDATE must      *)
(* preserve (Sound); one lemma per row operator shows that it does, and    *)
(* the step lemma has one case per action.                                 *)
(***************************************************************************)
EXTENDS VaraRooms, FiniteSetTheorems, WellFoundedInduction, TLAPS

\* What every row satisfies, given the clock t, the deleted accounts D and
\* the groups G.
Sound(row, t, D, G) ==
  /\ row \in RoomRow
  /\ row.status # "active" => row = NoRoom
  /\ row.status = "active" => row.owner \in row.members /\ row.host \in row.members
  /\ Cardinality(row.members) <= row.cap
  /\ row.publishing \subseteq {row.host}
  /\ row.listening \subseteq row.members \cup D
  /\ row.lease <= t + LeaseLen
  /\ row.group # NoGroup => G[row.group] = "open"

IInv ==
  /\ now \in Nat
  /\ born \subseteq Room
  /\ group \in [Group -> {"open", "archived", "deleted"}]
  /\ deleted \subseteq User
  /\ room \in [Room -> RoomRow]
  /\ \A r \in Room : Sound(room[r], now, deleted, group)

----------------------------------------------------------------------------
(* The successor of a departing host exists.                               *)

\* A nonempty set of naturals has a least element.
LEMMA LeastNatural ==
  ASSUME NEW S \in SUBSET Nat, S # {}
  PROVE  \E x \in S : \A y \in S : x <= y
<1>1. \E x \in S : \A y \in S : ~ (<<y, x>> \in OpToRel(<, Nat))
  BY NatLessThanWellFounded, WFMin
<1>2. PICK x \in S : \A y \in S : ~ (<<y, x>> \in OpToRel(<, Nat))
  BY <1>1
<1>3. \A y \in S : ~ (y < x)
  BY <1>2 DEF OpToRel
<1> QED BY <1>3

\* The order "by joined_at, user_id" has a first element among the members.
LEMMA NextHostIsMember ==
  ASSUME NEW row \in RoomRow, row.members # {}
  PROVE  NextHost(row) \in row.members
<1> DEFINE M == row.members
           J == row.joinedAt
<1>1. M \in SUBSET User /\ J \in [User -> Nat] /\ User \subseteq Nat
  BY UserAssumption DEF RoomRow
<1>2. PICK j \in {J[u] : u \in M} : \A y \in {J[u] : u \in M} : j <= y
  <2>1. {J[u] : u \in M} \in SUBSET Nat /\ {J[u] : u \in M} # {}
    BY <1>1
  <2> QED BY <2>1, LeastNatural
<1>3. PICK w \in {u \in M : J[u] = j} : \A y \in {u \in M : J[u] = j} : w <= y
  <2>1. {u \in M : J[u] = j} \in SUBSET Nat /\ {u \in M : J[u] = j} # {}
    BY <1>1, <1>2
  <2> QED BY <2>1, LeastNatural
<1>4. \A v \in M : J[w] < J[v] \/ (J[w] = J[v] /\ w <= v)
  <2> TAKE v \in M
  <2>1. j \in Nat /\ J[v] \in Nat /\ j <= J[v]
    BY <1>1, <1>2
  <2>2. CASE J[v] = j
    BY <2>2, <1>3
  <2>3. CASE J[v] # j
    BY <2>1, <2>3, <1>3
  <2> QED BY <2>2, <2>3
<1> QED BY <1>3, <1>4 DEF NextHost

----------------------------------------------------------------------------
(* Each row operator keeps a row sound.                                    *)

\* Membership sets are finite, so their cardinality is a natural number.
LEMMA MembersFinite ==
  ASSUME NEW S \in SUBSET User
  PROVE  IsFiniteSet(S) /\ Cardinality(S) \in Nat
<1>1. IsFiniteSet(S)
  BY UserAssumption, FS_Subset
<1> QED BY <1>1, FS_CardinalityType

\* The absent room is a row like any other.
LEMMA NoRoomSound ==
  ASSUME NEW t \in Nat, NEW D, NEW G
  PROVE  Sound(NoRoom, t, D, G)
<1>1. NoRoom \in RoomRow
  BY DEF NoRoom, RoomRow
<1>2. Cardinality({}) = 0
  BY FS_EmptySet
<1>3. LeaseLen \in Nat
  BY LeaseAssumption
<1> QED BY <1>1, <1>2, <1>3 DEF Sound, NoRoom

\* A rotation only empties the two sets of connections.
LEMMA RotateType ==
  ASSUME NEW row \in RoomRow
  PROVE  Rotate(row) \in RoomRow
BY DEF Rotate, RoomRow

\* Electing a member u: the lease, the epoch and the topic are renewed.
LEMMA CrownSound ==
  ASSUME NEW D, NEW G, NEW row, row \in RoomRow, row.status = "active", now \in Nat,
         row.owner \in row.members, NEW u \in row.members,
         Cardinality(row.members) <= row.cap,
         row.group # NoGroup => G[row.group] = "open"
  PROVE  Sound(Crown(row, u), now, D, G)
<1> DEFINE new == Crown(row, u)
<1>1. u \in Nat /\ LeaseLen \in Nat
  BY UserAssumption, LeaseAssumption DEF RoomRow
<1>2. new \in RoomRow
  <2> DEFINE mid == [row EXCEPT !.host = u, !.epoch = @ + 1,
                                !.lease = now + LeaseLen]
  <2>1. row.epoch + 1 \in Nat /\ now + LeaseLen \in Nat
    BY <1>1 DEF RoomRow
  <2>2. mid \in RoomRow
    BY <1>1, <2>1 DEF RoomRow
  <2> HIDE DEF mid
  <2>3. Rotate(mid) \in RoomRow
    BY <2>2, RotateType
  <2> QED BY <2>3 DEF Crown, mid
<1>3. /\ new.status = "active" /\ new.owner = row.owner /\ new.host = u
      /\ new.members = row.members /\ new.cap = row.cap
      /\ new.publishing = {} /\ new.listening = {}
      /\ new.lease = now + LeaseLen /\ new.group = row.group
  BY DEF Crown, Rotate, RoomRow
<1> HIDE DEF new
<1>4. new.lease <= now + LeaseLen
  BY <1>1, <1>3
<1> QED BY <1>2, <1>3, <1>4 DEF Sound, new

\* Removing a member other than the owner: the host is still a member.
LEMMA WithoutSound ==
  ASSUME NEW D, NEW G, NEW row, now \in Nat, Sound(row, now, D, G), row.status = "active",
         NEW u \in row.members, u # row.owner
  PROVE  Sound(Without(row, u), now, D, G)
<1> DEFINE rest == [row EXCEPT !.members = @ \ {u}, !.joinedAt = [@ EXCEPT ![u] = 0]]
<1>1. row \in RoomRow
  BY DEF Sound
<1>2. rest \in RoomRow
  BY <1>1 DEF RoomRow
<1>3. /\ rest.status = "active" /\ rest.owner = row.owner /\ rest.host = row.host
      /\ rest.members = row.members \ {u} /\ rest.cap = row.cap
      /\ rest.lease = row.lease /\ rest.group = row.group
      /\ rest.listening = row.listening /\ rest.publishing = row.publishing
  BY <1>1 DEF RoomRow
<1>4. rest.owner \in rest.members
  BY <1>3 DEF Sound
<1>5. Cardinality(rest.members) <= rest.cap
  <2>1. row.members \in SUBSET User /\ row.cap \in Nat
    BY <1>1 DEF RoomRow
  <2>2. IsFiniteSet(row.members) /\ Cardinality(row.members) \in Nat
    BY <2>1, MembersFinite
  <2>3. Cardinality(row.members \ {u}) = Cardinality(row.members) - 1
    BY <2>2, FS_RemoveElement
  <2> QED BY <1>3, <2>1, <2>2, <2>3 DEF Sound
<1>6. rest.group # NoGroup => G[rest.group] = "open"
  BY <1>3 DEF Sound
<1>7. CASE row.host = u
  <2>1. NextHost(rest) \in rest.members
    BY <1>2, <1>4, NextHostIsMember
  <2>2. Without(row, u) = Crown(rest, NextHost(rest))
    BY <1>7 DEF Without
  <2> HIDE DEF rest
  <2> QED BY <1>2, <1>3, <1>4, <1>5, <1>6, <2>1, <2>2, CrownSound
<1>8. CASE row.host # u
  <2> DEFINE new == Rotate(rest)
  <2>1. Without(row, u) = new
    BY <1>8 DEF Without
  <2>2. rest.host \in rest.members /\ rest.lease <= now + LeaseLen
    BY <1>3, <1>8 DEF Sound
  <2> HIDE DEF rest
  <2>3. new \in RoomRow
    BY <1>2, RotateType
  <2>4. /\ new.status = "active" /\ new.owner = rest.owner /\ new.host = rest.host
        /\ new.members = rest.members /\ new.cap = rest.cap
        /\ new.publishing = {} /\ new.listening = {}
        /\ new.lease = rest.lease /\ new.group = rest.group
    BY <1>2, <1>3 DEF Rotate, RoomRow
  <2> HIDE DEF new
  <2> QED BY <1>4, <1>5, <1>6, <2>1, <2>2, <2>3, <2>4 DEF Sound
<1> QED BY <1>7, <1>8

\* Inserting a member when the room is not full.
LEMMA WithSound ==
  ASSUME NEW D, NEW G, NEW row, now \in Nat, Sound(row, now, D, G), row.status = "active",
         NEW u \in User, u \notin row.members,
         Cardinality(row.members) < row.cap
  PROVE  Sound(With(row, u), now, D, G)
<1> DEFINE new == With(row, u)
<1>1. row \in RoomRow
  BY DEF Sound
<1>2. new \in RoomRow
  BY <1>1 DEF With, Rotate, RoomRow
<1>3. /\ new.status = "active" /\ new.owner = row.owner /\ new.host = row.host
      /\ new.members = row.members \cup {u} /\ new.cap = row.cap
      /\ new.publishing = {} /\ new.listening = {}
      /\ new.lease = row.lease /\ new.group = row.group
  BY <1>1 DEF With, Rotate, RoomRow
<1>4. Cardinality(new.members) <= new.cap
  <2>1. row.members \in SUBSET User /\ row.cap \in Nat
    BY <1>1 DEF RoomRow
  <2>2. IsFiniteSet(row.members) /\ Cardinality(row.members) \in Nat
    BY <2>1, MembersFinite
  <2>3. Cardinality(row.members \cup {u}) = Cardinality(row.members) + 1
    BY <2>2, FS_AddElement
  <2> QED BY <1>3, <2>1, <2>2, <2>3
<1> HIDE DEF new
<1> QED BY <1>2, <1>3, <1>4 DEF Sound, new

\* A room as vara_create_room inserts it.
LEMMA NewRoomSound ==
  ASSUME NEW D, NEW G, now \in Nat, NEW u \in User, NEW ttl \in Ttls,
         NEW cap \in Caps, NEW g \in Group \cup {NoGroup},
         g # NoGroup => G[g] = "open"
  PROVE  Sound(NewRoom(u, ttl, cap, g), now, D, G)
<1> DEFINE new == NewRoom(u, ttl, cap, g)
<1>1. /\ u \in Nat /\ LeaseLen \in Nat /\ ttl \in Nat
      /\ cap \in Nat \ {0, 1}
  BY UserAssumption, LeaseAssumption, RequestAssumption
<1>2. new \in RoomRow
  <2>1. NoRoom \in RoomRow
    BY DEF NoRoom, RoomRow
  <2>2. now + LeaseLen \in Nat /\ now + ttl \in Nat /\ {u} \in SUBSET User
    BY <1>1
  <2>3. [NoRoom.joinedAt EXCEPT ![u] = now] \in [User -> Nat]
    BY <2>1 DEF RoomRow
  <2> QED BY <1>1, <2>1, <2>2, <2>3 DEF NewRoom, RoomRow
<1>3. /\ new.status = "active" /\ new.owner = u /\ new.host = u
      /\ new.members = {u} /\ new.cap = cap
      /\ new.publishing = {} /\ new.listening = {}
      /\ new.lease = now + LeaseLen /\ new.group = g
  BY DEF NewRoom, NoRoom
<1>4. Cardinality({u}) = 1
  BY FS_Singleton
<1> HIDE DEF new
<1> QED BY <1>1, <1>2, <1>3, <1>4 DEF Sound, new

----------------------------------------------------------------------------
(* The invariant holds initially and every step keeps it.                  *)

LEMMA InitIInv == Init => IInv
<1> SUFFICES ASSUME Init PROVE IInv
  OBVIOUS
<1>1. \A r \in Room : Sound(NoRoom, now, deleted, group)
  BY NoRoomSound DEF Init
<1>2. \A r \in Room : room[r] = NoRoom /\ room[r] \in RoomRow
  BY <1>1 DEF Init, Sound
<1> QED BY <1>1, <1>2 DEF Init, IInv

\* An action that writes one row of the table.
LEMMA WriteOneRow ==
  ASSUME IInv, NEW r \in Room, NEW row, Sound(row, now, deleted, group),
         room' = [room EXCEPT ![r] = row],
         born' \subseteq Room, UNCHANGED <<now, group, deleted>>
  PROVE  IInv'
<1>1. \A s \in Room : Sound(room'[s], now, deleted, group)
  BY DEF IInv
<1>2. room' \in [Room -> RoomRow]
  BY DEF IInv, Sound
<1> QED BY <1>1, <1>2 DEF IInv

\* An action that deletes rows.
LEMMA DropSound ==
  ASSUME IInv, NEW R, Drop(R), NEW G,
         \A r \in Room \ R : Sound(room[r], now, deleted, G)
  PROVE  /\ room' \in [Room -> RoomRow]
         /\ \A r \in Room : Sound(room'[r], now, deleted, G)
<1>1. now \in Nat
  BY DEF IInv
<1>2. Sound(NoRoom, now, deleted, G)
  BY <1>1, NoRoomSound
<1>3. \A r \in Room : Sound(room'[r], now, deleted, G)
  BY <1>2 DEF Drop
<1> QED BY <1>3 DEF Drop, Sound

LEMMA DropKeepsIInv ==
  ASSUME IInv, NEW R, Drop(R), UNCHANGED <<now, born, group, deleted>>
  PROVE  IInv'
<1>1. \A r \in Room \ R : Sound(room[r], now, deleted, group)
  BY DEF IInv
<1> QED BY <1>1, DropSound DEF IInv

\* A row with a member exists.
LEMMA MembersMeanLive ==
  ASSUME IInv, NEW r \in Room, room[r].members # {}
  PROVE  r \in Live
BY DEF IInv, Sound, RoomRow, NoRoom, Live

LEMMA CreateRoomIInv ==
  ASSUME IInv, NEW u \in Account, NEW r \in Room, NEW ttl \in Ttls,
         NEW cap \in Caps, NEW g \in Group \cup {NoGroup},
         CreateRoom(u, r, ttl, cap, g)
  PROVE  IInv'
<1>1. u \in User /\ now \in Nat /\ (g # NoGroup => group[g] = "open")
  BY DEF Account, CreateRoom, IInv
<1>2. Sound(NewRoom(u, ttl, cap, g), now, deleted, group)
  BY <1>1, NewRoomSound
<1>3. born' \subseteq Room
  BY DEF CreateRoom, IInv
<1> QED BY <1>2, <1>3, WriteOneRow DEF CreateRoom

LEMMA LeaveRoomIInv ==
  ASSUME IInv, NEW u \in Account, NEW r \in Room, LeaveRoom(u, r)
  PROVE  IInv'
<1>1. Sound(room[r], now, deleted, group) /\ now \in Nat /\ born \subseteq Room
  BY DEF IInv
<1>2. u \in room[r].members /\ room[r].status = "active"
  BY MembersMeanLive DEF LeaveRoom, Live
<1>3. CASE room[r].owner = u
  BY <1>3, DropKeepsIInv DEF LeaveRoom
<1>4. CASE room[r].owner # u
  <2>1. Sound(Without(room[r], u), now, deleted, group)
    BY <1>1, <1>2, <1>4, WithoutSound
  <2> QED BY <1>1, <1>4, <2>1, WriteOneRow DEF LeaveRoom
<1> QED BY <1>3, <1>4

LEMMA RenewHostLeaseIInv ==
  ASSUME IInv, NEW u \in Account, NEW r \in Room, RenewHostLease(u, r)
  PROVE  IInv'
<1> DEFINE new == [room[r] EXCEPT !.lease = now + LeaseLen]
<1>1. Sound(room[r], now, deleted, group) /\ born \subseteq Room
  BY DEF IInv
<1>2. now + LeaseLen \in Nat
  BY LeaseAssumption DEF IInv
<1>3. room[r].status = "active"
  BY DEF RenewHostLease, Visible, Active, Live
<1>4. Sound(new, now, deleted, group)
  BY <1>1, <1>2, <1>3 DEF Sound, RoomRow
<1>5. room' = [room EXCEPT ![r] = new]
  BY DEF RenewHostLease
<1> HIDE DEF new
<1> QED BY <1>1, <1>4, <1>5, WriteOneRow DEF RenewHostLease

\* A claim and a transfer both crown a member of an existing room.
LEMMA CrownIInv ==
  ASSUME IInv, NEW r \in Room, r \in Live, NEW v \in room[r].members,
         room' = [room EXCEPT ![r] = Crown(@, v)],
         UNCHANGED <<now, born, group, deleted>>
  PROVE  IInv'
<1>1. Sound(room[r], now, deleted, group) /\ now \in Nat /\ born \subseteq Room
  BY DEF IInv
<1>2. room[r].status = "active"
  BY DEF Live
<1>3. /\ room[r] \in RoomRow /\ room[r].owner \in room[r].members
      /\ Cardinality(room[r].members) <= room[r].cap
      /\ room[r].group # NoGroup => group[room[r].group] = "open"
  BY <1>1, <1>2 DEF Sound
<1>4. Sound(Crown(room[r], v), now, deleted, group)
  BY <1>1, <1>2, <1>3, CrownSound
<1> QED BY <1>1, <1>4, WriteOneRow

LEMMA AdmitIInv ==
  ASSUME IInv, NEW u \in Account, NEW r \in Room, Admit(u, r)
  PROVE  IInv'
<1>1. Sound(room[r], now, deleted, group) /\ now \in Nat /\ born \subseteq Room
  BY DEF IInv
<1>2. u \in User /\ room[r].status = "active"
  BY DEF Account, Admit, Active, Live
<1>3. Sound(With(room[r], u), now, deleted, group)
  BY <1>1, <1>2, WithSound DEF Admit
<1> QED BY <1>1, <1>3, WriteOneRow DEF Admit

\* The loop of the block trigger: in every shared room the expelled side is
\* never the owner.
LEMMA ExpelIInv ==
  ASSUME IInv, NEW b \in Account, NEW x \in Account, b # x, Expel(b, x)
  PROVE  IInv'
<1>1. ASSUME NEW r \in Room
      PROVE  Sound(room'[r], now, deleted, group)
  <2>1. Sound(room[r], now, deleted, group) /\ now \in Nat
    BY DEF IInv
  <2>2. CASE r \notin Shared(b, x)
    BY <2>1, <2>2 DEF Expel
  <2>3. CASE r \in Shared(b, x)
    <3>1. {b, x} \subseteq room[r].members
      BY <2>3 DEF Shared
    <3>2. /\ Expelled(r, b, x) \in room[r].members
          /\ Expelled(r, b, x) # room[r].owner
      BY <3>1 DEF Expelled
    <3>3. room[r].status = "active"
      BY <3>1, MembersMeanLive DEF Live
    <3>4. Sound(Without(room[r], Expelled(r, b, x)), now, deleted, group)
      BY <2>1, <3>2, <3>3, WithoutSound
    <3> QED BY <2>3, <3>4 DEF Expel
  <2> QED BY <2>2, <2>3
<1>2. room' \in [Room -> RoomRow]
  BY <1>1 DEF Expel, Sound
<1> QED BY <1>1, <1>2 DEF IInv, Expel

LEMMA JoinChannelIInv ==
  ASSUME IInv, NEW u \in Account, NEW r \in Room, JoinChannel(u, r)
  PROVE  IInv'
<1> DEFINE new == [room[r] EXCEPT
                     !.listening = @ \cup {u},
                     !.publishing = IF TopicAccess(r, u, TRUE)
                                      THEN @ \cup {u} ELSE @]
<1>1. Sound(room[r], now, deleted, group) /\ born \subseteq Room
  BY DEF IInv
<1>2. /\ u \in User /\ u \in room[r].members /\ room[r].status = "active"
      /\ TopicAccess(r, u, TRUE) => room[r].host = u
  BY DEF Account, JoinChannel, TopicAccess, Visible, Active, Live
<1>3. new \in RoomRow
  BY <1>1, <1>2 DEF Sound, RoomRow
<1>4. /\ new.status = "active" /\ new.owner = room[r].owner
      /\ new.host = room[r].host /\ new.members = room[r].members
      /\ new.cap = room[r].cap /\ new.lease = room[r].lease
      /\ new.group = room[r].group
      /\ new.listening = room[r].listening \cup {u}
      /\ new.publishing \subseteq room[r].publishing \cup {room[r].host}
  BY <1>1, <1>2 DEF Sound, RoomRow
<1>5. room' = [room EXCEPT ![r] = new]
  BY DEF JoinChannel
<1> HIDE DEF new
<1>6. Sound(new, now, deleted, group)
  BY <1>1, <1>2, <1>3, <1>4 DEF Sound
<1> QED BY <1>1, <1>5, <1>6, WriteOneRow DEF JoinChannel

LEMMA LeaveChannelIInv ==
  ASSUME IInv, NEW u \in User, NEW r \in Room, LeaveChannel(u, r)
  PROVE  IInv'
<1> DEFINE new == [room[r] EXCEPT !.listening = @ \ {u},
                                  !.publishing = @ \ {u}]
<1>1. Sound(room[r], now, deleted, group) /\ born \subseteq Room
  BY DEF IInv
<1>2. room[r].status = "active"
  BY <1>1 DEF LeaveChannel, Sound, NoRoom, RoomRow
<1>3. Sound(new, now, deleted, group)
  BY <1>1, <1>2 DEF Sound, RoomRow
<1>4. room' = [room EXCEPT ![r] = new]
  BY DEF LeaveChannel
<1> HIDE DEF new
<1> QED BY <1>1, <1>3, <1>4, WriteOneRow DEF LeaveChannel

\* Archiving closes the rooms of the group and of no other.
LEMMA ArchiveGroupIInv ==
  ASSUME IInv, NEW u \in Account, NEW g \in Group, ArchiveGroup(u, g)
  PROVE  IInv'
<1> DEFINE R == {r \in Room : room[r].group = g}
<1>1. group' \in [Group -> {"open", "archived", "deleted"}]
  BY DEF ArchiveGroup, IInv
<1>2. ASSUME NEW r \in Room \ R
      PROVE  Sound(room[r], now, deleted, group')
  <2>1. Sound(room[r], now, deleted, group)
    BY DEF IInv
  <2>2. room[r].group # NoGroup => group'[room[r].group] = "open"
    BY <2>1 DEF Sound, ArchiveGroup, IInv, RoomRow
  <2> QED BY <2>1, <2>2 DEF Sound
<1>3. Drop(R)
  BY DEF ArchiveGroup
<1> HIDE DEF R
<1>4. /\ room' \in [Room -> RoomRow]
      /\ \A r \in Room : Sound(room'[r], now, deleted, group')
  BY <1>2, <1>3, DropSound
<1> QED BY <1>1, <1>4 DEF IInv, ArchiveGroup

LEMMA RestoreGroupIInv ==
  ASSUME IInv, NEW u \in Account, NEW g \in Group, RestoreGroup(u, g)
  PROVE  IInv'
<1>1. group' \in [Group -> {"open", "archived", "deleted"}]
  BY DEF RestoreGroup, IInv
<1>2. ASSUME NEW r \in Room
      PROVE  Sound(room[r], now, deleted, group')
  <2>1. Sound(room[r], now, deleted, group)
    BY DEF IInv
  <2>2. room[r].group # NoGroup => group'[room[r].group] = "open"
    BY <2>1 DEF Sound, RestoreGroup, IInv, RoomRow
  <2> QED BY <2>1, <2>2 DEF Sound
<1> QED BY <1>1, <1>2 DEF IInv, RestoreGroup

LEMMA DeleteGroupIInv ==
  ASSUME IInv, NEW u \in Account, NEW g \in Group, DeleteGroup(u, g)
  PROVE  IInv'
<1>1. group' \in [Group -> {"open", "archived", "deleted"}]
  BY DEF DeleteGroup, IInv
<1>2. ASSUME NEW r \in Room
      PROVE  Sound(room'[r], now, deleted, group')
  <2>1. Sound(room[r], now, deleted, group)
    BY DEF IInv
  <2>2. CASE room[r].group = g
    <3> DEFINE new == [room[r] EXCEPT !.group = NoGroup]
    <3>1. room[r].status = "active"
      BY <2>1, <2>2, GroupAssumption DEF Sound, NoRoom, RoomRow
    <3>2. Sound(new, now, deleted, group')
      BY <2>1, <3>1 DEF Sound, RoomRow
    <3>3. room'[r] = new
      BY <2>2 DEF DeleteGroup
    <3> HIDE DEF new
    <3> QED BY <3>2, <3>3
  <2>3. CASE room[r].group # g
    <3>1. room'[r] = room[r]
      BY <2>3 DEF DeleteGroup
    <3>2. room[r].group # NoGroup => group'[room[r].group] = "open"
      BY <2>1, <2>3 DEF Sound, DeleteGroup, IInv, RoomRow
    <3> QED BY <2>1, <3>1, <3>2 DEF Sound
  <2> QED BY <2>2, <2>3
<1>3. room' \in [Room -> RoomRow]
  BY <1>2 DEF DeleteGroup, Sound
<1> QED BY <1>1, <1>2, <1>3 DEF IInv, DeleteGroup

\* The cascade of an account deletion: a member that is neither owner nor
\* host disappears from a room whose topic stays as it was.
LEMMA DeleteAccountIInv ==
  ASSUME IInv, NEW u \in User, DeleteAccount(u)
  PROVE  IInv'
<1>1. deleted' = deleted \cup {u} /\ deleted' \subseteq User /\ now \in Nat
  BY DEF DeleteAccount, IInv
<1>2. ASSUME NEW r \in Room
      PROVE  Sound(room'[r], now, deleted', group)
  <2>1. Sound(room[r], now, deleted, group)
    BY DEF IInv
  <2>2. CASE u \in {room[r].owner, room[r].host}
    <3>1. Sound(NoRoom, now, deleted', group)
      BY <1>1, NoRoomSound
    <3> QED BY <2>2, <3>1 DEF DeleteAccount
  <2>3. CASE u \notin {room[r].owner, room[r].host}
    <3> DEFINE new == [room[r] EXCEPT !.members = @ \ {u},
                                      !.joinedAt = [@ EXCEPT ![u] = 0]]
    <3>1. room'[r] = new
      BY <2>3 DEF DeleteAccount
    <3>2. room[r] \in RoomRow
      BY <2>1 DEF Sound
    <3>3. new \in RoomRow
      BY <3>2 DEF RoomRow
    <3>4. /\ new.status = room[r].status /\ new.owner = room[r].owner
          /\ new.host = room[r].host /\ new.members = room[r].members \ {u}
          /\ new.cap = room[r].cap /\ new.lease = room[r].lease
          /\ new.group = room[r].group
          /\ new.listening = room[r].listening
          /\ new.publishing = room[r].publishing
      BY <3>2 DEF RoomRow
    <3>5. new.status # "active" => new = NoRoom
      <4>1. [NoRoom.joinedAt EXCEPT ![u] = 0] = NoRoom.joinedAt
        BY DEF NoRoom
      <4>2. NoRoom.members \ {u} = NoRoom.members
        BY DEF NoRoom
      <4>3. room[r] = NoRoom =>
              new = [NoRoom EXCEPT !.members = @ \ {u},
                                   !.joinedAt = [@ EXCEPT ![u] = 0]]
        OBVIOUS
      <4>4. NoRoom \in RoomRow
        BY <1>1, NoRoomSound DEF Sound
      <4>5. [NoRoom EXCEPT !.members = @ \ {u},
                           !.joinedAt = [@ EXCEPT ![u] = 0]] = NoRoom
        BY <4>1, <4>2, <4>4 DEF RoomRow
      <4> QED BY <2>1, <3>4, <4>3, <4>5 DEF Sound
    <3> HIDE DEF new
    <3>6. Cardinality(new.members) <= new.cap
      <4>1. /\ IsFiniteSet(room[r].members) /\ room[r].cap \in Nat
            /\ Cardinality(room[r].members) \in Nat
        BY <3>2, MembersFinite DEF RoomRow
      <4>2. /\ Cardinality(room[r].members \ {u}) <= Cardinality(room[r].members)
            /\ Cardinality(room[r].members \ {u}) \in Nat
        BY <4>1, FS_Subset, FS_CardinalityType
      <4> QED BY <2>1, <3>4, <4>1, <4>2 DEF Sound
    <3> QED BY <1>1, <2>1, <2>3, <3>1, <3>3, <3>4, <3>5, <3>6 DEF Sound
  <2> QED BY <2>2, <2>3
<1>3. room' \in [Room -> RoomRow]
  BY <1>2 DEF DeleteAccount, Sound
<1> QED BY <1>1, <1>2, <1>3 DEF IInv, DeleteAccount

LEMMA TickIInv == IInv /\ Tick => IInv'
<1> SUFFICES ASSUME IInv, Tick PROVE IInv'
  OBVIOUS
<1>1. now \in Nat /\ now' = now + 1 /\ LeaseLen \in Nat
  BY LeaseAssumption DEF IInv, Tick
<1>2. ASSUME NEW r \in Room
      PROVE  Sound(room[r], now', deleted, group)
  <2>1. Sound(room[r], now, deleted, group)
    BY DEF IInv
  <2>2. room[r].lease \in Nat /\ room[r].lease <= now + LeaseLen
    BY <2>1 DEF Sound, RoomRow
  <2>3. room[r].lease <= now' + LeaseLen
    BY <1>1, <2>2
  <2> QED BY <2>1, <2>3 DEF Sound
<1> QED BY <1>1, <1>2 DEF IInv, Tick

LEMMA NextIInv == IInv /\ [Next]_vars => IInv'
<1> SUFFICES ASSUME IInv, [Next]_vars PROVE IInv'
  OBVIOUS
<1> USE DEF RoomStep, ChannelStep, Next
<1>1. CASE \E u \in Account, r \in Room, ttl \in Ttls, cap \in Caps,
              g \in Group \cup {NoGroup} : CreateRoom(u, r, ttl, cap, g)
  BY <1>1, CreateRoomIInv
<1>2. CASE \E u \in Account, r \in Room : CloseRoom(u, r)
  BY <1>2, DropKeepsIInv DEF CloseRoom
<1>3. CASE \E u \in Account, r \in Room : LeaveRoom(u, r)
  BY <1>3, LeaveRoomIInv
<1>4. CASE \E u \in Account, r \in Room : RenewHostLease(u, r)
  BY <1>4, RenewHostLeaseIInv
<1>5. CASE \E u \in Account, r \in Room : ClaimHost(u, r)
  BY <1>5, CrownIInv DEF ClaimHost, Visible, Active
<1>6. CASE \E u \in Account, r \in Room, v \in User : TransferHost(u, r, v)
  BY <1>6, CrownIInv DEF TransferHost, Active
<1>7. CASE \E u \in Account, g \in Group : ArchiveGroup(u, g)
  BY <1>7, ArchiveGroupIInv
<1>8. CASE \E u \in Account, g \in Group : RestoreGroup(u, g)
  BY <1>8, RestoreGroupIInv
<1>9. CASE \E u \in Account, g \in Group : DeleteGroup(u, g)
  BY <1>9, DeleteGroupIInv
<1>10. CASE CollectExpired
  BY <1>10, DropKeepsIInv DEF CollectExpired
<1>11. CASE Tick
  BY <1>11, TickIInv
<1>12. CASE \E u \in Account, r \in Room : JoinChannel(u, r)
  BY <1>12, JoinChannelIInv
<1>13. CASE \E u \in User, r \in Room : LeaveChannel(u, r)
  BY <1>13, LeaveChannelIInv
<1>14. CASE \E u \in Account, r \in Room : Admit(u, r)
  BY <1>14, AdmitIInv
<1>15. CASE \E b, x \in Account : b # x /\ Expel(b, x)
  BY <1>15, ExpelIInv
<1>16. CASE \E u \in User : DeleteAccount(u)
  BY <1>16, DeleteAccountIInv
<1>17. CASE UNCHANGED vars
  BY <1>17 DEF IInv, vars
<1> QED BY <1>1, <1>2, <1>3, <1>4, <1>5, <1>6, <1>7, <1>8, <1>9, <1>10,
           <1>11, <1>12, <1>13, <1>14, <1>15, <1>16, <1>17

\* The inductive invariant holds in every reachable state.
THEOREM Invariance == Spec => []IInv
BY InitIInv, NextIInv, PTL DEF Spec

----------------------------------------------------------------------------
(* The state invariants.                                                   *)

\* Type correctness of every reachable state.
THEOREM TypeCorrect == Spec => []TypeOK
<1>1. IInv => TypeOK
  BY DEF IInv, TypeOK
<1> QED BY <1>1, Invariance, PTL

\* Owner and host stay members through departures, blocks and deletions.
THEOREM OwnerAndHostStay == Spec => []OwnerAndHostAreMembers
<1>1. IInv => OwnerAndHostAreMembers
  BY DEF IInv, Sound, OwnerAndHostAreMembers, Live
<1> QED BY <1>1, Invariance, PTL

\* No sequence of admissions overfills a room.
THEOREM CapacityHolds == Spec => []CapacityRespected
<1>1. IInv => CapacityRespected
  BY DEF IInv, Sound, CapacityRespected
<1> QED BY <1>1, Invariance, PTL

\* Only the present host may publish on the present topic.
THEOREM OnePublisher == Spec => []PublisherIsHost
<1>1. IInv => PublisherIsHost
  BY DEF IInv, Sound, PublisherIsHost
<1> QED BY <1>1, Invariance, PTL

\* Only members, or accounts deleted since, listen on the present topic.
THEOREM ListenersStayMembers == Spec => []ListenersAreMembersOrDeleted
<1>1. IInv => ListenersAreMembersOrDeleted
  BY DEF IInv, Sound, ListenersAreMembersOrDeleted
<1> QED BY <1>1, Invariance, PTL

\* What the policies let a connection do on the present topic, its user still may.
THEOREM TopicStaysFenced == Spec => []TopicIsFenced
BY OnePublisher, ListenersStayMembers, PTL DEF TopicIsFenced

\* A lease never reaches further than one lease length ahead.
THEOREM LeasesBounded == Spec => []LeaseBounded
<1>1. IInv => LeaseBounded
  BY DEF IInv, Sound, LeaseBounded
<1> QED BY <1>1, Invariance, PTL

\* Types, seats and leases together.
THEOREM RowsStayInRange == Spec => []RowsInRange
BY TypeCorrect, CapacityHolds, LeasesBounded, PTL DEF RowsInRange

\* An archived group has no room.
THEOREM ArchivedGroupsHaveNoRoom == Spec => []ArchivedGroupHasNoRoom
<1>1. IInv => ArchivedGroupHasNoRoom
  BY DEF IInv, Sound, ArchivedGroupHasNoRoom
<1> QED BY <1>1, Invariance, PTL

----------------------------------------------------------------------------
(* How one row may evolve in one step.                                     *)

\* A reign goes on, or the next begins with nobody left on the topic.
Reigns(old, new) ==
  \/ new.epoch = old.epoch /\ new.host = old.host
  \/ new.epoch = old.epoch + 1 /\ new.listening = {} /\ new.lease = now + LeaseLen

\* The row is deleted, or it goes on and its reign with it.
Evolves(r) ==
  room'[r].status = "active" =>
    /\ room[r].status = "active"
    /\ Reigns(room[r], room'[r])

LEMMA DropEvolves ==
  ASSUME NEW R, Drop(R), NEW r \in Room
  PROVE  Evolves(r)
BY DEF Drop, Evolves, Reigns, NoRoom

LEMMA CrownFields ==
  ASSUME NEW row \in RoomRow, NEW u
  PROVE  /\ Crown(row, u).status = row.status
         /\ Crown(row, u).host = u
         /\ Crown(row, u).epoch = row.epoch + 1
         /\ Crown(row, u).members = row.members
         /\ Crown(row, u).listening = {}
         /\ Crown(row, u).lease = now + LeaseLen
BY DEF Crown, Rotate, RoomRow

\* Removing a member changes the host only if the host is the one removed.
LEMMA WithoutFields ==
  ASSUME NEW row \in RoomRow, NEW u \in User
  PROVE  /\ Without(row, u).status = row.status
         /\ Without(row, u).members = row.members \ {u}
         /\ Without(row, u).host # row.host => row.host = u
         /\ Reigns(row, Without(row, u))
<1> DEFINE rest == [row EXCEPT !.members = @ \ {u},
                               !.joinedAt = [@ EXCEPT ![u] = 0]]
<1>1. rest \in RoomRow
  BY DEF RoomRow
<1>2. /\ rest.status = row.status /\ rest.members = row.members \ {u}
      /\ rest.epoch = row.epoch /\ rest.host = row.host
  BY DEF RoomRow
<1>3. CASE row.host = u
  <2>1. Without(row, u) = Crown(rest, NextHost(rest))
    BY <1>3 DEF Without
  <2> HIDE DEF rest
  <2> QED BY <1>1, <1>2, <1>3, <2>1, CrownFields DEF Reigns
<1>4. CASE row.host # u
  <2>1. Without(row, u) = Rotate(rest)
    BY <1>4 DEF Without
  <2> HIDE DEF rest
  <2>2. /\ Rotate(rest).status = rest.status /\ Rotate(rest).host = rest.host
        /\ Rotate(rest).epoch = rest.epoch /\ Rotate(rest).members = rest.members
    BY <1>1 DEF Rotate, RoomRow
  <2> QED BY <1>2, <2>1, <2>2 DEF Reigns
<1> QED BY <1>3, <1>4

\* Every step either creates the room or makes its row evolve.
LEMMA StepEvolves ==
  ASSUME IInv, [Next]_vars, NEW r \in Room
  PROVE  Evolves(r) \/ (r \notin born /\ r \in born')
<1> USE DEF RoomStep, ChannelStep, Next
<1>0. room \in [Room -> RoomRow] /\ room[r] \in RoomRow /\ now \in Nat
  BY DEF IInv
<1>1. ASSUME NEW u \in Account, NEW s \in Room, NEW ttl \in Ttls,
             NEW cap \in Caps, NEW g \in Group \cup {NoGroup},
             CreateRoom(u, s, ttl, cap, g)
      PROVE  Evolves(r) \/ (r \notin born /\ r \in born')
  BY <1>0, <1>1 DEF CreateRoom, Evolves, Reigns
<1>2. CASE \E u \in Account, s \in Room : CloseRoom(u, s)
  BY <1>2, DropEvolves DEF CloseRoom
<1>3. ASSUME NEW u \in Account, NEW s \in Room, LeaveRoom(u, s)
      PROVE  Evolves(r)
  <2>1. CASE room[s].owner = u
    BY <1>3, <2>1, DropEvolves DEF LeaveRoom
  <2>2. CASE room[s].owner # u /\ r = s
    <3>1. room'[r] = Without(room[r], u) /\ u \in User
      BY <1>0, <1>3, <2>2 DEF LeaveRoom, Account
    <3> QED BY <1>0, <3>1, WithoutFields DEF Evolves, Reigns
  <2>3. CASE room[s].owner # u /\ r # s
    BY <1>0, <1>3, <2>3 DEF LeaveRoom, Evolves, Reigns
  <2> QED BY <2>1, <2>2, <2>3
<1>4. ASSUME NEW u \in Account, NEW s \in Room, RenewHostLease(u, s)
      PROVE  Evolves(r)
  <2>1. room'[r] \in {room[r], [room[r] EXCEPT !.lease = now + LeaseLen]}
    BY <1>0, <1>4 DEF RenewHostLease
  <2> QED BY <1>0, <2>1 DEF Evolves, Reigns, RoomRow
<1>5. ASSUME NEW u \in Account, NEW s \in Room, ClaimHost(u, s)
      PROVE  Evolves(r)
  <2>1. CASE r = s
    <3>1. room'[r] = Crown(room[r], u)
      BY <1>0, <1>5, <2>1 DEF ClaimHost
    <3> QED BY <1>0, <3>1, CrownFields DEF Evolves, Reigns
  <2>2. CASE r # s
    BY <1>0, <1>5, <2>2 DEF ClaimHost, Evolves, Reigns
  <2> QED BY <2>1, <2>2
<1>6. ASSUME NEW u \in Account, NEW s \in Room, NEW v \in User,
             TransferHost(u, s, v)
      PROVE  Evolves(r)
  <2>1. CASE r = s
    <3>1. room'[r] = Crown(room[r], v)
      BY <1>0, <1>6, <2>1 DEF TransferHost
    <3> QED BY <1>0, <3>1, CrownFields DEF Evolves, Reigns
  <2>2. CASE r # s
    BY <1>0, <1>6, <2>2 DEF TransferHost, Evolves, Reigns
  <2> QED BY <2>1, <2>2
<1>7. CASE \E u \in Account, g \in Group : ArchiveGroup(u, g)
  BY <1>7, DropEvolves DEF ArchiveGroup
<1>8. CASE \E u \in Account, g \in Group : RestoreGroup(u, g)
  BY <1>8 DEF RestoreGroup, Evolves, Reigns
<1>9. ASSUME NEW u \in Account, NEW g \in Group, DeleteGroup(u, g)
      PROVE  Evolves(r)
  <2>1. room'[r] \in {room[r], [room[r] EXCEPT !.group = NoGroup]}
    BY <1>9 DEF DeleteGroup
  <2> QED BY <1>0, <2>1 DEF Evolves, Reigns, RoomRow
<1>10. CASE CollectExpired
  BY <1>10, DropEvolves DEF CollectExpired
<1>11. CASE Tick
  BY <1>11 DEF Tick, Evolves, Reigns
<1>12. ASSUME NEW u \in Account, NEW s \in Room, JoinChannel(u, s)
       PROVE  Evolves(r)
  <2>1. /\ room'[r].status = room[r].status /\ room'[r].host = room[r].host
        /\ room'[r].epoch = room[r].epoch
    BY <1>0, <1>12 DEF JoinChannel, RoomRow
  <2> QED BY <2>1 DEF Evolves, Reigns
<1>13. ASSUME NEW u \in User, NEW s \in Room, LeaveChannel(u, s)
       PROVE  Evolves(r)
  <2>1. /\ room'[r].status = room[r].status /\ room'[r].host = room[r].host
        /\ room'[r].epoch = room[r].epoch
    BY <1>0, <1>13 DEF LeaveChannel, RoomRow
  <2> QED BY <2>1 DEF Evolves, Reigns
<1>14. ASSUME NEW u \in Account, NEW s \in Room, Admit(u, s)
       PROVE  Evolves(r)
  <2>1. room'[r] \in {room[r], With(room[r], u)}
    BY <1>0, <1>14 DEF Admit
  <2>2. /\ With(room[r], u).status = room[r].status
        /\ With(room[r], u).host = room[r].host
        /\ With(room[r], u).epoch = room[r].epoch
    BY <1>0 DEF With, Rotate, RoomRow
  <2> QED BY <2>1, <2>2 DEF Evolves, Reigns
<1>15. ASSUME NEW b \in Account, NEW x \in Account, Expel(b, x)
       PROVE  Evolves(r)
  <2>1. b \in User /\ x \in User /\ Expelled(r, b, x) \in User
    BY DEF Account, Expelled
  <2>2. room'[r] \in {room[r], Without(room[r], Expelled(r, b, x))}
    BY <1>15 DEF Expel
  <2> QED BY <1>0, <2>1, <2>2, WithoutFields DEF Evolves, Reigns
<1>16. ASSUME NEW u \in User, DeleteAccount(u)
       PROVE  Evolves(r)
  <2>1. CASE u \in {room[r].owner, room[r].host}
    BY <1>16, <2>1 DEF DeleteAccount, Evolves, Reigns, NoRoom
  <2>2. CASE u \notin {room[r].owner, room[r].host}
    <3>1. /\ room'[r].status = room[r].status /\ room'[r].host = room[r].host
          /\ room'[r].epoch = room[r].epoch
      BY <1>0, <1>16, <2>2 DEF DeleteAccount, RoomRow
    <3> QED BY <3>1 DEF Evolves, Reigns
  <2> QED BY <2>1, <2>2
<1>17. CASE UNCHANGED vars
  BY <1>17 DEF vars, Evolves, Reigns
<1> QED BY <1>1, <1>2, <1>3, <1>4, <1>5, <1>6, <1>7, <1>8, <1>9, <1>10,
           <1>11, <1>12, <1>13, <1>14, <1>15, <1>16, <1>17

\* A room id is issued before its row exists and never taken back.
LEMMA LiveIsBorn == Spec => [](Live \subseteq born)
<1>1. Init => Live \subseteq born
  BY DEF Init, Live, NoRoom
<1>2. IInv /\ Live \subseteq born /\ [Next]_vars => (Live \subseteq born)'
  <2> SUFFICES ASSUME IInv, Live \subseteq born, [Next]_vars, NEW r \in Live'
               PROVE  r \in born'
    OBVIOUS
  <2>1. r \in Room /\ room'[r].status = "active"
    BY DEF Live
  <2>2. born \subseteq born'
    BY DEF Next, RoomStep, ChannelStep, vars, CreateRoom, CloseRoom, LeaveRoom,
           RenewHostLease, ClaimHost, TransferHost, Admit, Expel, JoinChannel,
           LeaveChannel, ArchiveGroup, RestoreGroup, DeleteGroup,
           DeleteAccount, CollectExpired, Tick
  <2> QED BY <2>1, <2>2, StepEvolves DEF Live, Evolves, Reigns
<1> QED BY <1>1, <1>2, Invariance, PTL DEF Spec

\* Host changes are numbered: each reign has an epoch of its own.
THEOREM EpochsFence == Spec => EpochFencesHost
<1> DEFINE A == \A r \in Live \cap Live' :
                  /\ room'[r].epoch \in {room[r].epoch, room[r].epoch + 1}
                  /\ room'[r].host # room[r].host =>
                       /\ room'[r].epoch = room[r].epoch + 1
                       /\ room'[r].listening = {}
                       /\ room'[r].lease = now + LeaseLen
<1>1. ASSUME IInv, Live \subseteq born, [Next]_vars, NEW r \in Live \cap Live'
      PROVE  Evolves(r) /\ room'[r].status = "active"
  BY <1>1, StepEvolves DEF Live
<1>2. IInv /\ Live \subseteq born /\ [Next]_vars => A
  <2> SUFFICES ASSUME IInv, Live \subseteq born, [Next]_vars, NEW r \in Live \cap Live'
               PROVE  /\ room'[r].epoch \in {room[r].epoch, room[r].epoch + 1}
                      /\ room'[r].host # room[r].host =>
                           /\ room'[r].epoch = room[r].epoch + 1
                           /\ room'[r].listening = {}
                           /\ room'[r].lease = now + LeaseLen
    OBVIOUS
  <2> QED BY <1>1 DEF Evolves, Reigns
<1> HIDE DEF A
<1>3. IInv /\ Live \subseteq born /\ [Next]_vars => [A]_vars
  BY <1>2
<1>4. Spec => [][A]_vars
  BY <1>3, Invariance, LiveIsBorn, PTL DEF Spec
<1> QED BY <1>4 DEF EpochFencesHost, A

----------------------------------------------------------------------------
(* The rooms implement HostLease.                                          *)

\* The clock and the rows never change together.
LEMMA ClockOrRooms ==
  ASSUME [Next]_vars
  PROVE  now' = now \/ room' = room
BY DEF Next, RoomStep, ChannelStep, vars, CreateRoom, CloseRoom, LeaveRoom,
       RenewHostLease, ClaimHost, TransferHost, Admit, Expel, JoinChannel,
       LeaveChannel, ArchiveGroup, RestoreGroup, DeleteGroup,
       DeleteAccount, CollectExpired, Tick

LEMMA BornGrows ==
  ASSUME [Next]_vars
  PROVE  born \subseteq born'
BY DEF Next, RoomStep, ChannelStep, vars, CreateRoom, CloseRoom, LeaveRoom,
       RenewHostLease, ClaimHost, TransferHost, Admit, Expel, JoinChannel,
       LeaveChannel, ArchiveGroup, RestoreGroup, DeleteGroup,
       DeleteAccount, CollectExpired, Tick

\* Only a creation issues an id.
LEMMA BornByCreation ==
  ASSUME IInv, [Next]_vars, NEW r \in Room, r \notin born, r \in born'
  PROVE  /\ room'[r].status = "active" /\ room'[r].host \in User
         /\ room'[r].epoch = 1 /\ room'[r].lease = now + LeaseLen /\ now' = now
<1>1. PICK u \in Account, ttl \in Ttls, cap \in Caps, g \in Group \cup {NoGroup} :
        CreateRoom(u, r, ttl, cap, g)
  BY DEF Next, RoomStep, ChannelStep, vars, CreateRoom, CloseRoom, LeaveRoom,
         RenewHostLease, ClaimHost, TransferHost, Admit, Expel, JoinChannel,
         LeaveChannel, ArchiveGroup, RestoreGroup, DeleteGroup,
         DeleteAccount, CollectExpired, Tick
<1>2. room'[r] = NewRoom(u, ttl, cap, g) /\ now' = now /\ u \in User
  BY <1>1 DEF CreateRoom, IInv, Account
<1> QED BY <1>2 DEF NewRoom, NoRoom

LEMMA StepImplementsLease ==
  ASSUME IInv, IInv', Live \subseteq born, (Live \subseteq born)', [Next]_vars,
         NEW r \in Room
  PROVE  [RoomLease(r)!Next]_(RoomLease(r)!leaseVars)
<1> USE DEF RoomLease!leaseVars
<1>1. /\ now \in Nat /\ room[r] \in RoomRow /\ room'[r] \in RoomRow
      /\ room[r].status # "active" => room[r] = NoRoom
      /\ room'[r].status # "active" => room'[r] = NoRoom
      /\ LeaseLen \in Nat \ {0} /\ now' \in Nat
  BY LeaseAssumption DEF IInv, Sound
<1>2. /\ r \in Live <=> room[r].status = "active"
      /\ r \in Live' <=> room'[r].status = "active"
  BY DEF Live
<1>3. /\ NoRoom.host = 0 /\ NoRoom.epoch = 0 /\ NoRoom.lease = 0
  BY DEF NoRoom
<1>4. CASE r \notin born /\ r \in born'
  <2>1. RoomLease(r)!Found(room'[r].host)
    BY <1>1, <1>2, <1>4, BornByCreation DEF RoomLease!Found
  <2>2. room'[r].host \in User
    BY <1>4, BornByCreation
  <2> QED BY <2>1, <2>2 DEF RoomLease!Next
<1>5. CASE ~ (r \notin born /\ r \in born') /\ r \notin Live
  <2>1. r \notin Live'
    BY <1>2, <1>5, StepEvolves DEF Evolves
  <2> QED BY <1>1, <1>2, <1>3, <1>5, <2>1, BornGrows
<1>6. CASE r \in Live /\ r \notin Live'
  <2>1. RoomLease(r)!End
    BY <1>1, <1>2, <1>3, <1>6, BornGrows DEF RoomLease!End
  <2> QED BY <2>1 DEF RoomLease!Next
<1>7. CASE r \in Live /\ r \in Live'
  <2>1. Reigns(room[r], room'[r])
    BY <1>2, <1>7, StepEvolves DEF Evolves
  <2>2. CASE room'[r].epoch = room[r].epoch /\ room'[r].host = room[r].host
    <3>1. RoomLease(r)!Keep
      BY <1>7, <2>2 DEF RoomLease!Keep
    <3> QED BY <3>1 DEF RoomLease!Next
  <2>3. CASE room'[r].epoch = room[r].epoch + 1 /\ room'[r].lease = now + LeaseLen
    <3>1. now' = now
      BY <1>1, <2>3, ClockOrRooms DEF RoomRow
    <3>2. RoomLease(r)!Succeed(room'[r].host)
      BY <1>1, <1>7, <2>3, <3>1 DEF RoomLease!Succeed
    <3>3. room'[r].host \in User
      BY <1>2, <1>7 DEF IInv, Sound, RoomRow
    <3> QED BY <3>2, <3>3 DEF RoomLease!Next
  <2> QED BY <2>1, <2>2, <2>3 DEF Reigns
<1> QED BY <1>4, <1>5, <1>6, <1>7

\* Every room implements HostLease: whatever its members, groups, blocks,
\* deletions of accounts, the collector and the clock do, its lease has one
\* holder a term, in force when the term begins, and none once it is gone.
THEOREM LeasesHold == Spec => LeasesImplemented
<1> DEFINE A == \A r \in Room : [RoomLease(r)!Next]_(RoomLease(r)!leaseVars)
           I == \A r \in Room : RoomLease(r)!Init
<1>1. Init => I
  BY DEF Init, RoomLease!Init, Live, NoRoom
<1>2. IInv /\ IInv' /\ Live \subseteq born /\ (Live \subseteq born)' /\ [Next]_vars => A
  BY StepImplementsLease
<1> HIDE DEF A, I
<1>3. IInv /\ IInv' /\ Live \subseteq born /\ (Live \subseteq born)' /\ [Next]_vars => [A]_vars
  BY <1>2
<1>4. Spec => I /\ [][A]_vars
  BY <1>1, <1>3, Invariance, LiveIsBorn, PTL DEF Spec
<1> QED BY <1>4 DEF LeasesImplemented, A, I
=============================================================================
