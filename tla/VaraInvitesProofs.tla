-------------------------- MODULE VaraInvitesProofs --------------------------
(***************************************************************************)
(* Machine-checked proofs about VaraInvites: blocks, invitations and links *)
(* keep their promises for every number of accounts, rooms and links.      *)
(*                                                                         *)
(* Its steps are made of steps of VaraRooms, so that what is proved of the *)
(* rooms holds here too (RoomsAreRooms); what a step of                    *)
(* the rooms does to members and expiry is summed up once (RoomKept), and  *)
(* the invariants of the credentials are proved from that summary.         *)
(***************************************************************************)
EXTENDS VaraInvites, VaraRoomsProofs

\* The tables of this component have their types and nobody blocks himself.
Tables ==
  /\ friend \subseteq SUBSET User
  /\ block \subseteq User \X User
  /\ \A a \in User : <<a, a>> \notin block
  /\ invite \in [Room -> [User -> InviteRow]]
  /\ link \in [Link -> LinkRow]
  /\ issued \subseteq Link

----------------------------------------------------------------------------
(* The composition is made of steps of VaraRooms.                          *)

LEMMA AdmissionIsAdmit ==
  ASSUME NEW u \in Account, NEW r \in Room, AdmitMember(u, r)
  PROVE  [Next]_vars
BY DEF AdmitMember, Next

\* Every step is a step of VaraRooms or leaves its variables alone.
LEMMA StepImplements ==
  ASSUME Tables, [InvitesNext]_allVars
  PROVE  [Next]_vars
<1> USE DEF InvitesNext
<1>1. CASE RoomStep
  BY <1>1 DEF Next
<1>2. ASSUME NEW u \in Account, NEW r \in Room, AcceptRoomInvite(u, r)
      PROVE  [Next]_vars
  BY <1>2, AdmissionIsAdmit DEF AcceptRoomInvite
<1>3. ASSUME NEW u \in Account, NEW l \in Link, AcceptRoomLink(u, l)
      PROVE  [Next]_vars
  <2>1. link[l].room \in Room
    BY DEF Tables, LinkRow
  <2> QED BY <1>3, <2>1, AdmissionIsAdmit DEF AcceptRoomLink
<1>4. ASSUME NEW b \in Account, NEW x \in Account, BlockUser(b, x)
      PROVE  [Next]_vars
  BY <1>4 DEF BlockUser, Next
<1>5. ASSUME NEW u \in Account, RemoveAccount(u)
      PROVE  [Next]_vars
  BY <1>5 DEF RemoveAccount, Next, Account
<1>6. CASE UNCHANGED vars
  BY <1>6
<1>7. ASSUME NEW u \in Account, NEW r \in Room,
             DeclineRoomInvite(u, r) \/ ListRoomLinks(u, r)
      PROVE  UNCHANGED vars
  BY <1>7 DEF DeclineRoomInvite, ListRoomLinks
<1>8. ASSUME NEW u \in Account, NEW r \in Room, NEW v \in User,
             InviteMember(u, r, v) \/ CancelRoomInvite(u, r, v)
      PROVE  UNCHANGED vars
  BY <1>8 DEF InviteMember, CancelRoomInvite
<1>9. ASSUME NEW u \in Account, ListRoomInvites(u)
      PROVE  UNCHANGED vars
  BY <1>9 DEF ListRoomInvites
<1>10. ASSUME NEW u \in Account, NEW r \in Room, NEW l \in Link,
              NEW ttl \in LinkTtls, NEW uses \in 1..15,
              CreateRoomLink(u, r, l, ttl, uses)
       PROVE  UNCHANGED vars
  BY <1>10 DEF CreateRoomLink
<1>11. ASSUME NEW u \in Account, NEW l \in Link, RevokeRoomLink(u, l)
       PROVE  UNCHANGED vars
  BY <1>11 DEF RevokeRoomLink
<1>12. ASSUME NEW a \in Account, NEW b \in Account,
              BecomeFriends(a, b) \/ RemoveFriend(a, b) \/ UnblockUser(a, b)
       PROVE  UNCHANGED vars
  BY <1>12 DEF BecomeFriends, RemoveFriend, UnblockUser
<1>13. CASE UNCHANGED allVars
  BY <1>13 DEF allVars
<1> QED BY <1>1, <1>2, <1>3, <1>4, <1>5, <1>6, <1>7, <1>8, <1>9, <1>10,
           <1>11, <1>12, <1>13

----------------------------------------------------------------------------
(* The tables keep their types.                                            *)

LEMMA EmptyRows == NoInvite \in InviteRow /\ NoLink \in LinkRow /\ ~ (0 \in User)
BY InviteAssumption, UserAssumption DEF NoInvite, InviteRow, NoLink, LinkRow

\* An expiry is a natural number: the lesser of the room's and the request's.
LEMMA ExpiryType ==
  ASSUME IInv, NEW r \in Room, NEW ttl \in Nat
  PROVE  /\ Least(room[r].expires, now + ttl) \in Nat
         /\ Least(room[r].expires, now + ttl) <= room[r].expires
<1>1. room[r] \in RoomRow /\ now \in Nat
  BY DEF IInv
<1>2. room[r].expires \in Nat
  BY <1>1 DEF RoomRow
<1> QED BY <1>1, <1>2 DEF Least

LEMMA TablesInit == InvitesInit => Tables
BY EmptyRows DEF InvitesInit, Tables, NoInvites

LEMMA TablesStep ==
  ASSUME IInv, Tables, [InvitesNext]_allVars
  PROVE  Tables'
<1> USE EmptyRows DEF Tables
<1>a. Account \subseteq User
  BY DEF Account
<1>1. CASE RoomStep /\ Cascade /\ UNCHANGED social
  <2>1. invite' \in [Room -> [User -> InviteRow]]
    BY <1>1 DEF Cascade, NoInvites
  <2>2. link' \in [Link -> LinkRow]
    BY <1>1 DEF Cascade
  <2> QED BY <1>1, <2>1, <2>2 DEF Cascade, social
<1>2. ASSUME NEW u \in Account, NEW r \in Room,
             AcceptRoomInvite(u, r) \/ DeclineRoomInvite(u, r)
      PROVE  Tables'
  BY <1>2 DEF AcceptRoomInvite, DeclineRoomInvite, social
<1>3. ASSUME NEW u \in Account, NEW r \in Room, ListRoomLinks(u, r)
      PROVE  Tables'
  <2>1. link' \in [Link -> LinkRow]
    BY <1>3 DEF ListRoomLinks
  <2> QED BY <1>3, <2>1 DEF ListRoomLinks, social
<1>4. ASSUME NEW u \in Account, NEW r \in Room, NEW v \in User,
             InviteMember(u, r, v)
      PROVE  Tables'
  <2> DEFINE row == [by |-> u, expires |-> Least(room[r].expires, now + InviteTtl)]
  <2>1. row \in InviteRow
    BY <1>a, ExpiryType, InviteAssumption, UserAssumption DEF InviteRow
  <2>2. invite' = [invite EXCEPT ![r][v] = row]
    BY <1>4 DEF InviteMember
  <2> HIDE DEF row
  <2>3. invite' \in [Room -> [User -> InviteRow]]
    BY <2>1, <2>2
  <2> QED BY <1>4, <2>3 DEF InviteMember, social
<1>5. ASSUME NEW u \in Account, NEW r \in Room, NEW v \in User,
             CancelRoomInvite(u, r, v)
      PROVE  Tables'
  BY <1>5 DEF CancelRoomInvite, social
<1>6. ASSUME NEW u \in Account, ListRoomInvites(u)
      PROVE  Tables'
  <2>1. invite' \in [Room -> [User -> InviteRow]]
    BY <1>6 DEF ListRoomInvites
  <2> QED BY <1>6, <2>1 DEF ListRoomInvites, social
<1>7. ASSUME NEW u \in Account, RemoveAccount(u)
      PROVE  Tables'
  <2>1. invite' \in [Room -> [User -> InviteRow]]
    BY <1>7 DEF RemoveAccount
  <2>2. link' \in [Link -> LinkRow]
    BY <1>7 DEF RemoveAccount
  <2> QED BY <1>7, <2>1, <2>2 DEF RemoveAccount
<1>8. ASSUME NEW u \in Account, NEW r \in Room, NEW l \in Link,
             NEW ttl \in LinkTtls, NEW uses \in 1..15,
             CreateRoomLink(u, r, l, ttl, uses)
      PROVE  Tables'
  <2> DEFINE row == [status |-> "open", room |-> r, by |-> u, uses |-> 0,
                     maxUses |-> uses,
                     expires |-> Least(room[r].expires, now + ttl)]
  <2>1. row \in LinkRow
    BY <1>a, ExpiryType, InviteAssumption, UserAssumption DEF LinkRow
  <2>2. link' = [link EXCEPT ![l] = row]
    BY <1>8 DEF CreateRoomLink
  <2> HIDE DEF row
  <2>3. link' \in [Link -> LinkRow]
    BY <2>1, <2>2
  <2> QED BY <1>8, <2>3 DEF CreateRoomLink, social
<1>9. ASSUME NEW u \in Account, NEW l \in Link, AcceptRoomLink(u, l)
      PROVE  Tables'
  <2>1. Spent(link[l]) \in LinkRow
    BY DEF Spent, LinkRow
  <2>2. link' = [link EXCEPT ![l] = Spent(link[l])]
    BY <1>9 DEF AcceptRoomLink
  <2>3. link' \in [Link -> LinkRow]
    BY <2>1, <2>2
  <2> QED BY <1>9, <2>3 DEF AcceptRoomLink, social
<1>10. ASSUME NEW u \in Account, NEW l \in Link, RevokeRoomLink(u, l)
       PROVE  Tables'
  BY <1>10 DEF RevokeRoomLink, social
<1>11. ASSUME NEW a \in Account, NEW b \in Account,
              BecomeFriends(a, b) \/ RemoveFriend(a, b) \/ UnblockUser(a, b)
       PROVE  Tables'
  BY <1>11, <1>a DEF BecomeFriends, RemoveFriend, UnblockUser, credentials
<1>12. ASSUME NEW b \in Account, NEW x \in Account, BlockUser(b, x)
       PROVE  Tables'
  <2>1. invite' \in [Room -> [User -> InviteRow]]
    BY <1>12 DEF BlockUser
  <2> QED BY <1>12, <1>a, <2>1 DEF BlockUser
<1>13. CASE UNCHANGED allVars
  BY <1>13 DEF allVars, social, credentials
<1> QED BY <1>1, <1>2, <1>3, <1>4, <1>5, <1>6, <1>7, <1>8, <1>9, <1>10,
           <1>11, <1>12, <1>13 DEF InvitesNext

\* Both invariants hold together: the refinement needs the tables' types, the
\* types need the rooms'.
LEMMA InvitesInvariance == InvitesSpec => [](IInv /\ Tables)
<1>1. InvitesInit => IInv /\ Tables
  BY InitIInv, TablesInit DEF InvitesInit
<1>2. IInv /\ Tables /\ [InvitesNext]_allVars => (IInv /\ Tables)'
  BY StepImplements, TablesStep, NextIInv
<1> QED BY <1>1, <1>2, PTL DEF InvitesSpec

\* The composition only says which steps of VaraRooms are taken and when, so
\* that what is proved of VaraRooms holds of it.
LEMMA RoomsAreRooms == InvitesSpec => Spec
<1>1. InvitesInit => Init
  BY DEF InvitesInit
<1>2. IInv /\ Tables /\ [InvitesNext]_allVars => [Next]_vars
  BY StepImplements
<1> QED BY <1>1, <1>2, InvitesInvariance, PTL DEF InvitesSpec, Spec

\* The tables of the composition keep their types.
THEOREM InvitesTypes == InvitesSpec => []InvitesTypeOK
<1>1. InvitesSpec => []TypeOK
  BY RoomsAreRooms, TypeCorrect
<1>2. TypeOK /\ Tables => InvitesTypeOK
  BY DEF Tables, InvitesTypeOK
<1> QED BY <1>1, <1>2, InvitesInvariance, PTL

----------------------------------------------------------------------------
(* What one step does to a room's members and its expiry.                  *)

\* Nobody enters, and a room that remains expires when it did.
Kept(r) ==
  /\ room'[r].members \subseteq room[r].members
  /\ room'[r].status = "active" =>
       /\ room[r].status = "active"
       /\ room'[r].expires = room[r].expires

LEMMA CrownKeeps ==
  ASSUME NEW row \in RoomRow, NEW u
  PROVE  /\ Crown(row, u).members = row.members
         /\ Crown(row, u).status = row.status
         /\ Crown(row, u).expires = row.expires
BY DEF Crown, Rotate, RoomRow

LEMMA WithoutKeeps ==
  ASSUME NEW row \in RoomRow, NEW u
  PROVE  /\ Without(row, u).members = row.members \ {u}
         /\ Without(row, u).status = row.status
         /\ Without(row, u).expires = row.expires
<1> DEFINE rest == [row EXCEPT !.members = @ \ {u},
                               !.joinedAt = [@ EXCEPT ![u] = 0]]
<1>1. rest \in RoomRow
  BY DEF RoomRow
<1>2. /\ rest.members = row.members \ {u} /\ rest.status = row.status
      /\ rest.expires = row.expires
  BY DEF RoomRow
<1>3. Without(row, u) \in {Crown(rest, NextHost(rest)), Rotate(rest)}
  BY DEF Without
<1> HIDE DEF rest
<1>4. /\ Rotate(rest).members = rest.members /\ Rotate(rest).status = rest.status
      /\ Rotate(rest).expires = rest.expires
  BY <1>1 DEF Rotate, RoomRow
<1> QED BY <1>1, <1>2, <1>3, <1>4, CrownKeeps

LEMMA WithKeeps ==
  ASSUME NEW row \in RoomRow, NEW u \in User
  PROVE  /\ With(row, u).members = row.members \cup {u}
         /\ With(row, u).status = row.status
         /\ With(row, u).expires = row.expires
BY DEF With, Rotate, RoomRow

LEMMA DropKeeps ==
  ASSUME NEW R, Drop(R), NEW r \in Room
  PROVE  Kept(r)
BY DEF Drop, Kept, NoRoom

\* Only the creation of a room lets somebody in without an admission.
LEMMA RoomStepKeeps ==
  ASSUME IInv, RoomStep, NEW r \in Room
  PROVE  Kept(r) \/ (r \notin born /\ \E u \in User : room'[r].members = {u})
<1>0. room \in [Room -> RoomRow] /\ room[r] \in RoomRow
  BY DEF IInv
<1>1. ASSUME NEW u \in Account, NEW s \in Room, NEW ttl \in Ttls,
             NEW cap \in Caps, NEW g \in Group \cup {NoGroup},
             CreateRoom(u, s, ttl, cap, g)
      PROVE  Kept(r) \/ (r \notin born /\ \E v \in User : room'[r].members = {v})
  <2>1. CASE r = s
    <3>1. room'[r].members = {u} /\ u \in User
      BY <1>0, <1>1, <2>1 DEF CreateRoom, NewRoom, NoRoom, Account
    <3> QED BY <1>1, <2>1, <3>1 DEF CreateRoom
  <2>2. CASE r # s
    BY <1>0, <1>1, <2>2 DEF CreateRoom, Kept
  <2> QED BY <2>1, <2>2
<1>2. ASSUME NEW u \in Account, NEW s \in Room, CloseRoom(u, s)
      PROVE  Kept(r)
  BY <1>2, DropKeeps DEF CloseRoom
<1>3. ASSUME NEW u \in Account, NEW s \in Room, LeaveRoom(u, s)
      PROVE  Kept(r)
  <2>1. CASE room[s].owner = u
    BY <1>3, <2>1, DropKeeps DEF LeaveRoom
  <2>2. CASE room[s].owner # u
    <3>1. room'[r] \in {room[r], Without(room[r], u)}
      BY <1>0, <1>3, <2>2 DEF LeaveRoom
    <3> QED BY <1>0, <3>1, WithoutKeeps DEF Kept
  <2> QED BY <2>1, <2>2
<1>4. ASSUME NEW u \in Account, NEW s \in Room, RenewHostLease(u, s)
      PROVE  Kept(r)
  <2>1. room'[r] \in {room[r], [room[r] EXCEPT !.lease = now + LeaseLen]}
    BY <1>0, <1>4 DEF RenewHostLease
  <2> QED BY <1>0, <2>1 DEF Kept, RoomRow
<1>5. ASSUME NEW u \in Account, NEW s \in Room, NEW v \in User,
             ClaimHost(u, s) \/ TransferHost(u, s, v)
      PROVE  Kept(r)
  <2>1. room'[r] \in {room[r], Crown(room[r], u), Crown(room[r], v)}
    BY <1>0, <1>5 DEF ClaimHost, TransferHost
  <2> QED BY <1>0, <2>1, CrownKeeps DEF Kept
<1>6. ASSUME NEW u \in Account, NEW g \in Group, ArchiveGroup(u, g)
      PROVE  Kept(r)
  BY <1>6, DropKeeps DEF ArchiveGroup
<1>7. ASSUME NEW u \in Account, NEW g \in Group, DeleteGroup(u, g)
      PROVE  Kept(r)
  <2>1. room'[r] \in {room[r], [room[r] EXCEPT !.group = NoGroup]}
    BY <1>7 DEF DeleteGroup
  <2> QED BY <1>0, <2>1 DEF Kept, RoomRow
<1>8. CASE CollectExpired
  BY <1>8, DropKeeps DEF CollectExpired
<1>9. ASSUME UNCHANGED room
      PROVE  Kept(r)
  BY <1>9 DEF Kept
<1> QED BY <1>1, <1>2, <1>3, <1>4, <1>5, <1>6, <1>7, <1>8, <1>9
        DEF RoomStep, RestoreGroup, Tick, Account

LEMMA ExpelKeeps ==
  ASSUME IInv, NEW b \in Account, NEW x \in Account, Expel(b, x), NEW r \in Room
  PROVE  /\ Kept(r) /\ room'[r].status = room[r].status
         /\ ~ ({b, x} \subseteq room'[r].members)
<1>0. room[r] \in RoomRow
  BY DEF IInv
<1>1. CASE r \in Shared(b, x)
  <2>1. room'[r] = Without(room[r], Expelled(r, b, x))
    BY <1>1 DEF Expel
  <2>2. Expelled(r, b, x) \in {b, x}
    BY DEF Expelled
  <2> QED BY <1>0, <2>1, <2>2, WithoutKeeps DEF Kept
<1>2. CASE r \notin Shared(b, x)
  <2>1. room'[r] = room[r]
    BY <1>2 DEF Expel
  <2> QED BY <1>2, <2>1 DEF Kept, Shared
<1> QED BY <1>1, <1>2

LEMMA DeletionKeeps ==
  ASSUME IInv, NEW u \in User, DeleteAccount(u), NEW r \in Room
  PROVE  Kept(r)
<1>0. room[r] \in RoomRow
  BY DEF IInv
<1>1. CASE u \in {room[r].owner, room[r].host}
  BY <1>1 DEF DeleteAccount, Kept, NoRoom
<1>2. CASE u \notin {room[r].owner, room[r].host}
  <2>1. /\ room'[r].members = room[r].members \ {u}
        /\ room'[r].status = room[r].status /\ room'[r].expires = room[r].expires
    BY <1>0, <1>2 DEF DeleteAccount, RoomRow
  <2> QED BY <2>1 DEF Kept
<1> QED BY <1>1, <1>2

\* An admission lets one account in, across no block, and keeps the expiry.
LEMMA AdmissionKeeps ==
  ASSUME IInv, NEW u \in Account, NEW s \in Room, AdmitMember(u, s), NEW r \in Room
  PROVE  \/ room'[r] = room[r]
         \/ /\ r = s /\ room'[r].members = room[r].members \cup {u}
            /\ \A m \in room[r].members : ~ AnyBlock(u, m)
            /\ room'[r].status = room[r].status
            /\ room'[r].expires = room[r].expires
<1>0. room \in [Room -> RoomRow] /\ room[r] \in RoomRow /\ u \in User
  BY DEF IInv, Account
<1>1. CASE UNCHANGED vars
  BY <1>1 DEF vars
<1>2. CASE Admit(u, s) /\ r = s /\ \A m \in room[s].members : ~ AnyBlock(u, m)
  <2>1. room'[r] = With(room[r], u)
    BY <1>0, <1>2 DEF Admit
  <2> QED BY <1>0, <1>2, <2>1, WithKeeps
<1>3. CASE Admit(u, s) /\ r # s
  BY <1>0, <1>3 DEF Admit
<1> QED BY <1>1, <1>2, <1>3 DEF AdmitMember

----------------------------------------------------------------------------
(* No room holds both sides of a block.                                    *)

\* One step, one room: the pair that is in it afterwards has no block.
LEMMA NoBlockedPairStep ==
  ASSUME IInv, Tables, NoBlockedPairInRoom, [InvitesNext]_allVars, NEW r \in Room,
         NEW a \in room'[r].members, NEW b \in room'[r].members
  PROVE  ~ AnyBlock(a, b)'
<1>0. a \in User /\ b \in User
  <2>1. room' \in [Room -> RoomRow]
    BY StepImplements, NextIInv DEF IInv
  <2> QED BY <2>1 DEF RoomRow
<1>1. ASSUME a \in room[r].members, b \in room[r].members
      PROVE  ~ AnyBlock(a, b)
  BY <1>1 DEF NoBlockedPairInRoom
<1>2. ASSUME Kept(r), block' \subseteq block
      PROVE  ~ AnyBlock(a, b)'
  BY <1>1, <1>2 DEF Kept, AnyBlock
<1>3. CASE RoomStep /\ Cascade /\ UNCHANGED social
  <2>1. CASE Kept(r)
    BY <1>2, <1>3, <2>1 DEF social
  <2>2. CASE \E u \in User : room'[r].members = {u}
    BY <1>0, <1>3, <2>2 DEF Tables, AnyBlock, social
  <2> QED BY <1>3, <2>1, <2>2, RoomStepKeeps
<1>4. ASSUME NEW u \in Account, NEW s \in Room, AdmitMember(u, s),
             block' = block
      PROVE  ~ AnyBlock(a, b)'
  <2>1. CASE room'[r] = room[r]
    BY <1>2, <1>4, <2>1 DEF Kept
  <2>2. CASE /\ room'[r].members = room[r].members \cup {u}
             /\ \A m \in room[r].members : ~ AnyBlock(u, m)
    <3>1. ~ AnyBlock(u, u)
      BY <1>4 DEF Tables, AnyBlock, Account
    <3>2. ~ AnyBlock(a, b)
      BY <1>1, <2>2, <3>1 DEF AnyBlock
    <3> QED BY <1>4, <3>2 DEF AnyBlock
  <2> QED BY <1>4, <2>1, <2>2, AdmissionKeeps
<1>5. ASSUME NEW u \in Account, NEW s \in Room, AcceptRoomInvite(u, s)
      PROVE  ~ AnyBlock(a, b)'
  BY <1>4, <1>5 DEF AcceptRoomInvite, social
<1>6. ASSUME NEW u \in Account, NEW l \in Link, AcceptRoomLink(u, l)
      PROVE  ~ AnyBlock(a, b)'
  <2>1. link[l].room \in Room
    BY DEF Tables, LinkRow
  <2> QED BY <1>4, <1>6, <2>1 DEF AcceptRoomLink, social
<1>7. ASSUME NEW c \in Account, NEW x \in Account, BlockUser(c, x)
      PROVE  ~ AnyBlock(a, b)'
  <2>1. Kept(r) /\ ~ ({c, x} \subseteq room'[r].members)
    BY <1>7, ExpelKeeps DEF BlockUser
  <2>2. ~ AnyBlock(a, b)
    BY <1>1, <2>1 DEF Kept
  <2>3. block' = block \cup {<<c, x>>}
    BY <1>7 DEF BlockUser
  <2>4. <<a, b>> # <<c, x>> /\ <<b, a>> # <<c, x>>
    BY <2>1
  <2> QED BY <2>2, <2>3, <2>4 DEF AnyBlock
<1>8. ASSUME NEW u \in Account, RemoveAccount(u)
      PROVE  ~ AnyBlock(a, b)'
  <2>1. DeleteAccount(u) /\ u \in User /\ block' \subseteq block
    BY <1>8 DEF RemoveAccount, Account
  <2> QED BY <1>2, <2>1, DeletionKeeps
<1>9. ASSUME UNCHANGED room, block' \subseteq block
      PROVE  ~ AnyBlock(a, b)'
  BY <1>2, <1>9 DEF Kept
<1> QED BY <1>3, <1>5, <1>6, <1>7, <1>8, <1>9
        DEF InvitesNext, allVars, vars, social, credentials, DeclineRoomInvite,
            ListRoomLinks, InviteMember, CancelRoomInvite, ListRoomInvites,
            CreateRoomLink, RevokeRoomLink, BecomeFriends, RemoveFriend,
            UnblockUser

\* Whatever invitations and links are outstanding when a block is made, the
\* pair is apart from then on in every room, until one of them unblocks.
THEOREM BlockedPairsApart == InvitesSpec => []NoBlockedPairInRoom
<1>1. InvitesInit => NoBlockedPairInRoom
  BY DEF InvitesInit, Init, NoRoom, NoBlockedPairInRoom
<1>2. IInv /\ Tables /\ NoBlockedPairInRoom /\ [InvitesNext]_allVars
        => NoBlockedPairInRoom'
  <2> SUFFICES ASSUME IInv, Tables, NoBlockedPairInRoom, [InvitesNext]_allVars
               PROVE  NoBlockedPairInRoom'
    OBVIOUS
  <2>1. \A r \in Room : \A a, b \in room'[r].members : ~ AnyBlock(a, b)'
    BY NoBlockedPairStep
  <2> QED BY <2>1 DEF NoBlockedPairInRoom, AnyBlock
<1> QED BY <1>1, <1>2, InvitesInvariance, PTL DEF InvitesSpec

----------------------------------------------------------------------------
(* Nothing is pending across a block.                                      *)

\* Invitations only disappear.
Fading == \A r \in Room, u \in User : invite'[r][u] \in {invite[r][u], NoInvite}

LEMMA ListingFades ==
  ASSUME Tables, NEW u, ListRoomInvites(u)
  PROVE  Fading
BY DEF Tables, ListRoomInvites, Fading

LEMMA DepartureFades ==
  ASSUME Tables, NEW u, RemoveAccount(u)
  PROVE  Fading
BY DEF Tables, RemoveAccount, Fading

LEMMA CascadeFades ==
  ASSUME Tables, Cascade
  PROVE  Fading
BY DEF Tables, Cascade, Fading, NoInvites

LEMMA BlockFades ==
  ASSUME Tables, NEW b, NEW x, BlockUser(b, x)
  PROVE  Fading
BY DEF Tables, BlockUser, Fading

\* One step, one pair: what is behind a block afterwards is not tied.
LEMMA NoTieStep ==
  ASSUME Tables, NoTieAcrossBlock, [InvitesNext]_allVars,
         NEW a \in User, NEW b \in User, AnyBlock(a, b)'
  PROVE  {a, b} \notin friend' /\ \A r \in Room : invite'[r][b].by # a
<1> DEFINE Goal == {a, b} \notin friend' /\ \A r \in Room : invite'[r][b].by # a
<1>0. a # 0 /\ NoInvite.by = 0
  BY EmptyRows DEF NoInvite
<1>1. AnyBlock(a, b) => /\ {a, b} \notin friend
                        /\ \A r \in Room : invite[r][b].by # a
  BY DEF NoTieAcrossBlock
<1>2. ASSUME Fading, friend' \subseteq friend, block' \subseteq block
      PROVE  Goal
  BY <1>0, <1>1, <1>2 DEF Fading, AnyBlock
<1>3. CASE RoomStep /\ Cascade /\ UNCHANGED social
  BY <1>2, <1>3, CascadeFades DEF social
<1>4. ASSUME NEW u \in Account, NEW r \in Room,
             \/ AcceptRoomInvite(u, r)
             \/ DeclineRoomInvite(u, r)
             \/ \E v \in User : CancelRoomInvite(u, r, v)
      PROVE  Goal
  <2>1. Fading
    BY <1>4 DEF Tables, AcceptRoomInvite, DeclineRoomInvite, CancelRoomInvite,
                Fading, Account
  <2> QED BY <1>2, <1>4, <2>1
          DEF AcceptRoomInvite, DeclineRoomInvite, CancelRoomInvite, social
<1>5. ASSUME NEW u \in Account, NEW r \in Room, NEW v \in User,
             InviteMember(u, r, v)
      PROVE  Goal
  <2>1. u \in User /\ ~ AnyBlock(u, v) /\ friend' = friend /\ block' = block
    BY <1>5 DEF InviteMember, AreFriends, social, Account
  <2>2. AnyBlock(a, b)
    BY <2>1 DEF AnyBlock
  <2>3. \A s \in Room :
          invite'[s][b] = invite[s][b] \/ (b = v /\ invite'[s][b].by = u)
    BY <1>5 DEF InviteMember, Tables
  <2> QED BY <1>1, <2>1, <2>2, <2>3
<1>6. ASSUME NEW u \in Account, ListRoomInvites(u)
      PROVE  Goal
  BY <1>2, <1>6, ListingFades DEF ListRoomInvites, social
<1>7. ASSUME NEW u \in Account, RemoveAccount(u)
      PROVE  Goal
  <2>1. friend' \subseteq friend /\ block' \subseteq block
    BY <1>7 DEF RemoveAccount
  <2> QED BY <1>2, <1>7, <2>1, DepartureFades
<1>8. ASSUME NEW c \in Account, NEW x \in Account, BlockUser(c, x)
      PROVE  Goal
  <2>1. /\ friend' = friend \ {{c, x}} /\ block' = block \cup {<<c, x>>}
        /\ Fading
    BY <1>8, BlockFades DEF BlockUser
  <2>2. CASE {a, b} = {c, x}
    <3>1. \A r \in Room : {invite[r][b].by, b} = {c, x} => invite'[r][b] = NoInvite
      BY <1>8 DEF BlockUser
    <3>2. \A r \in Room : invite[r][b].by = a => {invite[r][b].by, b} = {c, x}
      BY <2>2
    <3> QED BY <1>0, <2>1, <2>2, <3>1, <3>2 DEF Fading
  <2>3. CASE {a, b} # {c, x}
    <3>1. AnyBlock(a, b)
      BY <2>1, <2>3 DEF AnyBlock
    <3> QED BY <1>0, <1>1, <2>1, <3>1 DEF Fading
  <2> QED BY <2>2, <2>3
<1>9. ASSUME NEW c \in Account, NEW d \in Account, BecomeFriends(c, d)
      PROVE  Goal
  <2>1. /\ friend' = friend \cup {{c, d}} /\ block' = block /\ invite' = invite
        /\ ~ AnyBlock(c, d)
    BY <1>9 DEF BecomeFriends, credentials
  <2>2. AnyBlock(a, b)
    BY <2>1 DEF AnyBlock
  <2>3. {a, b} # {c, d}
    BY <2>1, <2>2 DEF AnyBlock
  <2> QED BY <1>1, <2>1, <2>2, <2>3
<1>10. ASSUME UNCHANGED invite, friend' \subseteq friend, block' \subseteq block
       PROVE  Goal
  BY <1>2, <1>10 DEF Fading
<1> QED BY <1>3, <1>4, <1>5, <1>6, <1>7, <1>8, <1>9, <1>10
        DEF InvitesNext, allVars, social, credentials, ListRoomLinks,
            AcceptRoomLink, CreateRoomLink, RevokeRoomLink, RemoveFriend,
            UnblockUser

\* A block unties the pair at once, and nothing ties it again before it is
\* lifted, from whichever side an invitation or a friendship is offered.
THEOREM BlocksUntie == InvitesSpec => []NoTieAcrossBlock
<1>1. InvitesInit => NoTieAcrossBlock
  BY DEF InvitesInit, NoTieAcrossBlock, AnyBlock
<1>2. Tables /\ NoTieAcrossBlock /\ [InvitesNext]_allVars => NoTieAcrossBlock'
  <2> SUFFICES ASSUME Tables, NoTieAcrossBlock, [InvitesNext]_allVars
               PROVE  NoTieAcrossBlock'
    OBVIOUS
  <2>1. \A a, b \in User : AnyBlock(a, b)' =>
          {a, b} \notin friend' /\ \A r \in Room : invite'[r][b].by # a
    BY NoTieStep
  <2> QED BY <2>1 DEF NoTieAcrossBlock, AnyBlock
<1> QED BY <1>1, <1>2, InvitesInvariance, PTL DEF InvitesSpec

\* A block and whatever came before or after it leave the two with nothing in
\* common: no room, no friendship, no invitation.
THEOREM BlocksPart == InvitesSpec => []BlocksSeparate
BY BlockedPairsApart, BlocksUntie, PTL DEF BlocksSeparate

----------------------------------------------------------------------------
(* Credentials live and die with their room.                               *)

\* Every room is as alive, and expires when, it did before.
Steady == \A r \in Room : /\ room'[r].status = room[r].status
                          /\ room'[r].expires = room[r].expires

LEMMA AdmissionIsSteady ==
  ASSUME IInv, NEW u \in Account, NEW s \in Room, AdmitMember(u, s)
  PROVE  Steady
BY AdmissionKeeps DEF Steady

LEMMA ExpelIsSteady ==
  ASSUME IInv, NEW b \in Account, NEW x \in Account, Expel(b, x)
  PROVE  Steady
<1> SUFFICES ASSUME NEW r \in Room
             PROVE  /\ room'[r].status = room[r].status
                    /\ room'[r].expires = room[r].expires
  BY DEF Steady
<1>1. Kept(r) /\ room'[r].status = room[r].status
  BY ExpelKeeps
<1>2. room[r] = room'[r] \/ room'[r] = Without(room[r], Expelled(r, b, x))
  BY DEF Expel
<1> QED BY <1>1, <1>2, WithoutKeeps DEF IInv

\* Rooms that hold credentials and survive a step keep their expiry.
LEMMA SurvivorKeeps ==
  ASSUME IInv, Live \subseteq born,
         RoomStep \/ \E u \in User : DeleteAccount(u),
         NEW r \in Live, r \in Live'
  PROVE  room'[r].expires = room[r].expires
<1>1. r \in Room /\ r \in born /\ room'[r].status = "active"
  BY DEF Live
<1> QED BY <1>1, RoomStepKeeps, DeletionKeeps DEF Kept

\* Three ways an invitation can be within its room after a step.
LEMMA InvitationsStay ==
  ASSUME IInv, Tables, Live \subseteq born, CredentialsWithinRoom,
         [InvitesNext]_allVars, NEW r \in Room, NEW v \in User,
         invite'[r][v] # NoInvite
  PROVE  r \in Live' /\ invite'[r][v].expires <= room'[r].expires
<1> DEFINE Goal == r \in Live' /\ invite'[r][v].expires <= room'[r].expires
<1>1. ASSUME Fading, Steady
      PROVE  Goal
  BY <1>1 DEF Fading, Steady, CredentialsWithinRoom, Live
<1>2. ASSUME Fading, RoomStep \/ \E u \in User : DeleteAccount(u), r \in Live'
      PROVE  Goal
  <2>1. invite'[r][v] = invite[r][v] /\ r \in Live
    BY <1>2 DEF Fading, CredentialsWithinRoom
  <2> QED BY <1>2, <2>1, SurvivorKeeps DEF CredentialsWithinRoom
<1>3. CASE RoomStep /\ Cascade
  BY <1>2, <1>3, CascadeFades DEF Cascade, NoInvites
<1>4. ASSUME NEW u \in Account, RemoveAccount(u)
      PROVE  Goal
  BY <1>2, <1>4, DepartureFades DEF RemoveAccount, Account
<1>5. ASSUME NEW u \in Account, NEW s \in Room, AcceptRoomInvite(u, s)
      PROVE  Goal
  <2>1. Fading
    BY <1>5 DEF Tables, AcceptRoomInvite, Fading, Account
  <2> QED BY <1>1, <1>5, <2>1, AdmissionIsSteady DEF AcceptRoomInvite
<1>6. ASSUME NEW u \in Account, NEW l \in Link, AcceptRoomLink(u, l)
      PROVE  Goal
  <2>1. link[l].room \in Room
    BY DEF Tables, LinkRow
  <2> QED BY <1>1, <1>6, <2>1, AdmissionIsSteady DEF AcceptRoomLink, Fading
<1>7. ASSUME NEW c \in Account, NEW x \in Account, BlockUser(c, x)
      PROVE  Goal
  BY <1>1, <1>7, BlockFades, ExpelIsSteady DEF BlockUser
<1>8. ASSUME Fading, UNCHANGED room
      PROVE  Goal
  BY <1>1, <1>8 DEF Steady
<1>9. ASSUME NEW u \in Account, NEW s \in Room, NEW w \in User,
             InviteMember(u, s, w)
      PROVE  Goal
  <2>1. CASE r = s /\ v = w
    <3>1. invite'[r][v].expires = Least(room[r].expires, now + InviteTtl)
      BY <1>9, <2>1 DEF InviteMember, Tables
    <3>2. invite'[r][v].expires <= room[r].expires
      BY <3>1, ExpiryType, InviteAssumption
    <3> QED BY <1>9, <2>1, <3>2
            DEF InviteMember, IsManager, Visible, Active, vars, Live
  <2>2. CASE ~ (r = s /\ v = w)
    <3>1. invite'[r][v] = invite[r][v] /\ UNCHANGED room
      BY <1>9, <2>2 DEF InviteMember, Tables, vars
    <3> QED BY <3>1 DEF CredentialsWithinRoom, Live
  <2> QED BY <2>1, <2>2
<1>10. ASSUME NEW u \in Account, NEW s \in Room,
              \/ DeclineRoomInvite(u, s)
              \/ \E w \in User : CancelRoomInvite(u, s, w)
       PROVE  Goal
  <2>1. Fading
    BY <1>10 DEF Tables, DeclineRoomInvite, CancelRoomInvite, Fading, Account
  <2> QED BY <1>8, <1>10, <2>1 DEF DeclineRoomInvite, CancelRoomInvite, vars
<1>11. ASSUME NEW u \in Account, ListRoomInvites(u)
       PROVE  Goal
  BY <1>8, <1>11, ListingFades DEF ListRoomInvites, vars
<1>12. ASSUME UNCHANGED <<room, invite>>
       PROVE  Goal
  BY <1>8, <1>12 DEF Fading
<1> QED BY <1>3, <1>4, <1>5, <1>6, <1>7, <1>9, <1>10, <1>11, <1>12
        DEF InvitesNext, allVars, vars, credentials, ListRoomLinks,
            CreateRoomLink, RevokeRoomLink, BecomeFriends, RemoveFriend,
            UnblockUser

\* The same for a link.
LEMMA LinksStay ==
  ASSUME IInv, Tables, Live \subseteq born, CredentialsWithinRoom,
         [InvitesNext]_allVars, NEW l \in Link, link'[l].status = "open"
  PROVE  /\ link'[l].room \in Live'
         /\ link'[l].expires <= room'[link'[l].room].expires
<1> DEFINE Goal == /\ link'[l].room \in Live'
                   /\ link'[l].expires <= room'[link'[l].room].expires
           Same == /\ Open(l) /\ link'[l].room = link[l].room
                   /\ link'[l].expires = link[l].expires
<1>0. link[l].room \in Room /\ NoLink.status # "open"
  BY DEF Tables, LinkRow, NoLink
<1>1. ASSUME Same, Steady
      PROVE  Goal
  <2>1. /\ link[l].room \in Live
        /\ link[l].expires <= room[link[l].room].expires
    BY <1>1 DEF CredentialsWithinRoom
  <2> QED BY <1>0, <1>1, <2>1 DEF Steady, Live
<1>2. ASSUME Same, RoomStep \/ \E u \in User : DeleteAccount(u),
             link[l].room \in Live'
      PROVE  Goal
  <2>1. /\ link[l].room \in Live
        /\ link[l].expires <= room[link[l].room].expires
    BY <1>2 DEF CredentialsWithinRoom
  <2> QED BY <1>2, <2>1, SurvivorKeeps
<1>3. CASE RoomStep /\ Cascade
  <2>1. Same /\ link[l].room \in Live'
    BY <1>0, <1>3 DEF Cascade, Open
  <2> QED BY <1>2, <1>3, <2>1
<1>4. ASSUME NEW u \in Account, RemoveAccount(u)
      PROVE  Goal
  <2>1. Same /\ link[l].room \in Live' /\ DeleteAccount(u) /\ u \in User
    BY <1>0, <1>4 DEF RemoveAccount, Open, Account
  <2> QED BY <1>2, <2>1
<1>5. ASSUME NEW u \in Account, NEW s \in Room, AcceptRoomInvite(u, s)
      PROVE  Goal
  BY <1>1, <1>5, AdmissionIsSteady DEF AcceptRoomInvite, Open
<1>6. ASSUME NEW u \in Account, NEW k \in Link, AcceptRoomLink(u, k)
      PROVE  Goal
  <2>1. Steady
    <3>1. link[k].room \in Room
      BY DEF Tables, LinkRow
    <3> QED BY <1>6, <3>1, AdmissionIsSteady DEF AcceptRoomLink
  <2>2. link'[l] \in {link[l], Spent(link[l])}
    BY <1>6 DEF AcceptRoomLink, Tables
  <2>3. CASE link'[l] = link[l]
    BY <1>1, <2>1, <2>3 DEF Open
  <2>4. CASE link'[l] = Spent(link[l])
    <3>1. Spent(link[l]) = [link[l] EXCEPT !.uses = @ + 1]
      BY <1>0, <2>4 DEF Spent
    <3>2. Same
      BY <2>4, <3>1 DEF Open, Tables, LinkRow
    <3> QED BY <1>1, <2>1, <3>2
  <2> QED BY <2>2, <2>3, <2>4
<1>7. ASSUME NEW c \in Account, NEW x \in Account, BlockUser(c, x)
      PROVE  Goal
  BY <1>1, <1>7, ExpelIsSteady DEF BlockUser, Open
<1>8. ASSUME Same, UNCHANGED room
      PROVE  Goal
  BY <1>1, <1>8 DEF Steady
<1>9. ASSUME NEW u \in Account, NEW s \in Room, NEW k \in Link,
             NEW ttl \in LinkTtls, NEW uses \in 1..15,
             CreateRoomLink(u, s, k, ttl, uses)
      PROVE  Goal
  <2>1. CASE l = k
    <3>1. /\ link'[l].room = s
          /\ link'[l].expires = Least(room[s].expires, now + ttl)
      BY <1>9, <2>1 DEF CreateRoomLink, Tables
    <3>2. link'[l].expires <= room[s].expires
      BY <3>1, ExpiryType, InviteAssumption
    <3> QED BY <1>9, <3>1, <3>2
            DEF CreateRoomLink, IsManager, Visible, Active, vars, Live
  <2>2. CASE l # k
    <3>1. link'[l] = link[l] /\ UNCHANGED room
      BY <1>9, <2>2 DEF CreateRoomLink, Tables, vars
    <3> QED BY <1>8, <3>1 DEF Open
  <2> QED BY <2>1, <2>2
<1>10. ASSUME NEW u \in Account, NEW s \in Room, ListRoomLinks(u, s)
       PROVE  Goal
  <2>1. Same /\ UNCHANGED room
    BY <1>0, <1>10 DEF ListRoomLinks, Open, vars
  <2> QED BY <1>8, <2>1
<1>11. ASSUME NEW u \in Account, NEW k \in Link, RevokeRoomLink(u, k)
       PROVE  Goal
  <2>1. Same /\ UNCHANGED room
    BY <1>0, <1>11 DEF RevokeRoomLink, Open, vars, Tables
  <2> QED BY <1>8, <2>1
<1>12. ASSUME UNCHANGED <<room, link>>
       PROVE  Goal
  BY <1>8, <1>12 DEF Open
<1> QED BY <1>3, <1>4, <1>5, <1>6, <1>7, <1>9, <1>10, <1>11, <1>12
        DEF InvitesNext, allVars, vars, credentials, DeclineRoomInvite,
            InviteMember, CancelRoomInvite, ListRoomInvites, BecomeFriends,
            RemoveFriend, UnblockUser

\* No invitation and no link survives its room or outlives its expiry.
THEOREM CredentialsStayWithinRoom == InvitesSpec => []CredentialsWithinRoom
<1>1. InvitesInit => CredentialsWithinRoom
  BY DEF InvitesInit, CredentialsWithinRoom, Open, NoLink, NoInvites
<1>2. /\ IInv /\ Tables /\ Live \subseteq born /\ CredentialsWithinRoom
      /\ [InvitesNext]_allVars
      => CredentialsWithinRoom'
  <2> SUFFICES ASSUME IInv, Tables, Live \subseteq born, CredentialsWithinRoom,
                      [InvitesNext]_allVars
               PROVE  CredentialsWithinRoom'
    OBVIOUS
  <2>1. \A r \in Room, u \in User : invite'[r][u] # NoInvite =>
          r \in Live' /\ invite'[r][u].expires <= room'[r].expires
    BY InvitationsStay
  <2>2. \A l \in Link : link'[l].status = "open" =>
          /\ link'[l].room \in Live'
          /\ link'[l].expires <= room'[link'[l].room].expires
    BY LinksStay
  <2> QED BY <2>1, <2>2 DEF CredentialsWithinRoom, Open
<1>3. InvitesSpec => [](Live \subseteq born)
  BY RoomsAreRooms, LiveIsBorn
<1> QED BY <1>1, <1>2, <1>3, InvitesInvariance, PTL DEF InvitesSpec

\* Types of the composition and bounds of the credentials together.
THEOREM CredentialsStayInRange == InvitesSpec => []CredentialsInRange
BY InvitesTypes, CredentialsStayWithinRoom, PTL DEF CredentialsInRange

----------------------------------------------------------------------------
(* Nobody enters an existing room unvouched.                               *)

\* What vouches for u in room r: a living credential given by a friend.
Vouched(u, r) ==
  \E f \in User :
    /\ AreFriends(f, u)
    /\ \/ invite[r][u].by = f /\ invite[r][u].expires > now
       \/ \E l \in Link : /\ Open(l) /\ link[l].room = r
                          /\ link[l].by = f /\ link[l].expires > now
                          /\ f \in room[r].members

LEMMA VouchedStep ==
  ASSUME IInv, Tables, Live \subseteq born, [InvitesNext]_allVars,
         NEW r \in Live, NEW u \in room'[r].members, u \notin room[r].members
  PROVE  Vouched(u, r)
<1>0. r \in Room /\ r \in born
  BY DEF Live
<1>1. ~ Kept(r)
  BY DEF Kept
<1>2. ~ RoomStep
  BY <1>0, <1>1, RoomStepKeeps
<1>3. ASSUME NEW v \in Account, RemoveAccount(v)
      PROVE  FALSE
  BY <1>0, <1>1, <1>3, DeletionKeeps DEF RemoveAccount, Account
<1>4. ASSUME NEW b \in Account, NEW x \in Account, BlockUser(b, x)
      PROVE  FALSE
  BY <1>0, <1>1, <1>4, ExpelKeeps DEF BlockUser
<1>5. ASSUME UNCHANGED room
      PROVE  FALSE
  BY <1>5
<1>6. ASSUME NEW v \in Account, NEW s \in Room, AdmitMember(v, s)
      PROVE  s = r /\ v = u
  BY <1>0, <1>6, AdmissionKeeps
<1>7. ASSUME NEW v \in Account, NEW s \in Room, AcceptRoomInvite(v, s)
      PROVE  Vouched(u, r)
  <2>1. s = r /\ v = u
    BY <1>6, <1>7 DEF AcceptRoomInvite
  <2>2. AreFriends(invite[r][u].by, u) /\ invite[r][u].expires > now
    BY <1>7, <2>1 DEF AcceptRoomInvite
  <2>3. invite[r][u].by \in User
    BY <2>2 DEF AreFriends, Tables
  <2> QED BY <2>2, <2>3 DEF Vouched
<1>8. ASSUME NEW v \in Account, NEW l \in Link, AcceptRoomLink(v, l)
      PROVE  Vouched(u, r)
  <2>1. link[l].room \in Room
    BY DEF Tables, LinkRow
  <2>2. link[l].room = r /\ v = u
    BY <1>6, <1>8, <2>1 DEF AcceptRoomLink
  <2>3. /\ Open(l) /\ link[l].expires > now /\ AreFriends(u, link[l].by)
        /\ link[l].by \in room[r].members
    BY <1>8, <2>2 DEF AcceptRoomLink
  <2>4. link[l].by \in User /\ AreFriends(link[l].by, u)
    BY <2>3 DEF AreFriends, AnyBlock, Tables
  <2> QED BY <2>2, <2>3, <2>4 DEF Vouched
<1> QED BY <1>2, <1>3, <1>4, <1>5, <1>7, <1>8
        DEF InvitesNext, allVars, vars, credentials, DeclineRoomInvite,
            ListRoomLinks, InviteMember, CancelRoomInvite, ListRoomInvites,
            CreateRoomLink, RevokeRoomLink, BecomeFriends, RemoveFriend,
            UnblockUser

\* Every entry into an existing room rests on a credential that is alive at
\* that moment and on a friendship with the one who gave it.
THEOREM AdmissionsAreVouched == InvitesSpec => AdmissionIsVouched
<1> DEFINE A == \A r \in Room : r \in Live =>
                  \A u \in room'[r].members \ room[r].members : Vouched(u, r)
<1>1. IInv /\ Tables /\ Live \subseteq born /\ [InvitesNext]_allVars => A
  BY VouchedStep
<1>2. InvitesSpec => [](Live \subseteq born)
  BY RoomsAreRooms, LiveIsBorn
<1> HIDE DEF A
<1>3. IInv /\ Tables /\ Live \subseteq born /\ [InvitesNext]_allVars => [A]_allVars
  BY <1>1
<1>4. InvitesSpec => [][A]_allVars
  BY <1>2, <1>3, InvitesInvariance, PTL DEF InvitesSpec
<1> QED BY <1>4 DEF AdmissionIsVouched, A, Vouched
=============================================================================
