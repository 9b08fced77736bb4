----------------------------- MODULE VaraInvites -----------------------------
(***************************************************************************)
(* How an account gets into a VARA room and how a block takes it out: the  *)
(* direct invitations, the short-lived links and the block boundary of     *)
(* 20260713300000_vara_remote_invites.sql, with the friendships and blocks *)
(* of CIRA they consult.  The module composes with VaraRooms: an accepted  *)
(* invitation is an Admit of that module, a block is an Expel.             *)
(*                                                                         *)
(* A row of vara_room_invites is identified by (room, invitee), which the  *)
(* table keeps unique; a row of vara_room_links by an id never reused.     *)
(* Realtime connections are left out: no operation here reads them.        *)
(***************************************************************************)
EXTENDS VaraRooms

CONSTANTS
  Link,        \* link ids that may ever be issued
  InviteTtl,   \* interval '7 days'
  LinkTtls     \* the link lifetimes callers ask for

ASSUME InviteAssumption ==
  Room # {} /\ InviteTtl \in Nat \ {0} /\ LinkTtls \subseteq Nat \ {0}

VARIABLES
  friend,   \* accepted cira_friendships: a set of unordered pairs
  block,    \* cira_blocks: <<blocker, blocked>>
  invite,   \* vara_room_invites, by room and invitee
  link,     \* vara_room_links
  issued    \* link ids already issued

social == <<friend, block>>
credentials == <<invite, link, issued>>
allVars == <<vars, social, credentials>>

InviteRow == [by : Nat, expires : Nat]
NoInvite == [by |-> 0, expires |-> 0]
NoInvites == [u \in User |-> NoInvite]

LinkRow == [status : {"absent", "open"}, room : Room, by : Nat, uses : Nat,
            maxUses : Nat, expires : Nat]
NoLink == [status |-> "absent", room |-> CHOOSE r \in Room : TRUE, by |-> 0,
           uses |-> 0, maxUses |-> 0, expires |-> 0]

Open(l) == link[l].status = "open"

Least(a, b) == IF a <= b THEN a ELSE b

\* private.cira_any_block and private.vara_are_friends.
AnyBlock(a, b) == <<a, b>> \in block \/ <<b, a>> \in block
AreFriends(a, b) == {a, b} \in friend /\ ~ AnyBlock(a, b)

Full(r) == Cardinality(room[r].members) >= room[r].cap

\* The foreign keys of the credentials: on delete cascade with their room.
Cascade ==
  /\ invite' = [r \in Room |-> IF r \in Live' THEN invite[r] ELSE NoInvites]
  /\ link' = [l \in Link |-> IF Open(l) /\ link[l].room \notin Live'
                               THEN NoLink ELSE link[l]]
  /\ UNCHANGED issued

InvitesInit ==
  /\ Init
  /\ friend = {}
  /\ block = {}
  /\ invite = [r \in Room |-> NoInvites]
  /\ link = [l \in Link |-> NoLink]
  /\ issued = {}

----------------------------------------------------------------------------
\* Mutant: an admission without the block check.
AdmitBlocked(u, r) ==
  \/ Visible(r, u) /\ UNCHANGED vars
  \/ Admit(u, r)

\* private.vara_admit_member: TRUE for a member already in, else an insert
\* when there is room and no block with any member.
AdmitMember(u, r) ==
  \/ Visible(r, u) /\ UNCHANGED vars
  \/ /\ \A m \in room[r].members : ~ AnyBlock(u, m)
     /\ Admit(u, r)

(* Direct invitations.                                                     *)

\* Mutant: an invitation that may outlive its room.
InviteForAWeek(u, r, v) ==
  /\ IsManager(r, u)
  /\ v # u /\ AreFriends(u, v)
  /\ v \notin room[r].members /\ ~ Full(r)
  /\ invite' = [invite EXCEPT ![r][v] = [by |-> u, expires |-> now + InviteTtl]]
  /\ UNCHANGED <<vars, social, link, issued>>

InviteMember(u, r, v) ==
  /\ IsManager(r, u)
  /\ v # u /\ AreFriends(u, v)
  /\ v \notin room[r].members /\ ~ Full(r)
  /\ invite' = [invite EXCEPT ![r][v] =
       [by |-> u, expires |-> Least(room[r].expires, now + InviteTtl)]]
  /\ UNCHANGED <<vars, social, link, issued>>

AcceptRoomInvite(u, r) ==
  /\ invite[r][u] # NoInvite /\ invite[r][u].expires > now
  /\ AreFriends(invite[r][u].by, u)
  /\ AdmitMember(u, r)
  /\ invite' = [invite EXCEPT ![r][u] = NoInvite]
  /\ UNCHANGED <<social, link, issued>>

DeclineRoomInvite(u, r) ==
  /\ invite[r][u] # NoInvite
  /\ invite' = [invite EXCEPT ![r][u] = NoInvite]
  /\ UNCHANGED <<vars, social, link, issued>>

CancelRoomInvite(u, r, v) ==
  /\ invite[r][v] # NoInvite
  /\ invite[r][v].by = u \/ IsManager(r, u)
  /\ invite' = [invite EXCEPT ![r][v] = NoInvite]
  /\ UNCHANGED <<vars, social, link, issued>>

\* Listing deletes the caller's expired invitations, sent or received.
ListRoomInvites(u) ==
  /\ invite' = [r \in Room |-> [v \in User |->
       IF invite[r][v].expires <= now /\ u \in {v, invite[r][v].by}
         THEN NoInvite ELSE invite[r][v]]]
  /\ UNCHANGED <<vars, social, link, issued>>

(* Room links.                                                             *)

CreateRoomLink(u, r, l, ttl, uses) ==
  /\ l \notin issued
  /\ IsManager(r, u)
  /\ uses \in 1..Least(15, room[r].cap - 1)
  /\ issued' = issued \cup {l}
  /\ link' = [link EXCEPT ![l] =
       [status |-> "open", room |-> r, by |-> u, uses |-> 0, maxUses |-> uses,
        expires |-> Least(room[r].expires, now + ttl)]]
  /\ UNCHANGED <<vars, social, invite>>

\* Listing, a manager's right, deletes the room's expired links.
ListRoomLinks(u, r) ==
  /\ IsManager(r, u)
  /\ link' = [l \in Link |-> IF link[l].room = r /\ link[l].expires <= now
                               THEN NoLink ELSE link[l]]
  /\ UNCHANGED <<vars, social, invite, issued>>

\* One use more; the last one deletes the row.
Spent(row) ==
  IF row.uses + 1 >= row.maxUses THEN NoLink ELSE [row EXCEPT !.uses = @ + 1]

\* Mutant: a link is followed after its expiry.
AcceptLapsedLink(u, l) ==
  /\ Open(l)
  /\ link[l].uses < link[l].maxUses
  /\ AreFriends(u, link[l].by)
  /\ link[l].by \in room[link[l].room].members
  /\ AdmitMember(u, link[l].room)
  /\ link' = [link EXCEPT ![l] = Spent(@)]
  /\ UNCHANGED <<social, invite, issued>>

\* A member who follows the link again spends a use too.
AcceptRoomLink(u, l) ==
  /\ Open(l) /\ link[l].expires > now
  /\ link[l].uses < link[l].maxUses
  /\ AreFriends(u, link[l].by)
  /\ link[l].by \in room[link[l].room].members
  /\ AdmitMember(u, link[l].room)
  /\ link' = [link EXCEPT ![l] = Spent(@)]
  /\ UNCHANGED <<social, invite, issued>>

RevokeRoomLink(u, l) ==
  /\ Open(l)
  /\ link[l].by = u \/ IsManager(link[l].room, u)
  /\ link' = [link EXCEPT ![l] = NoLink]
  /\ UNCHANGED <<vars, social, invite, issued>>

(* Friendships and blocks.                                                 *)

\* A request or a CIRA invitation accepted: refused across a block.
BecomeFriends(a, b) ==
  /\ a # b /\ ~ AnyBlock(a, b)
  /\ friend' = friend \cup {{a, b}}
  /\ UNCHANGED <<vars, block, credentials>>

RemoveFriend(a, b) ==
  /\ {a, b} \in friend
  /\ friend' = friend \ {{a, b}}
  /\ UNCHANGED <<vars, block, credentials>>

\* cira_block_user with the trigger its insert fires.  Blocking again inserts
\* nothing (on conflict do nothing), so the trigger does not fire again.
BlockUser(b, x) ==
  /\ b # x /\ <<b, x>> \notin block
  /\ block' = block \cup {<<b, x>>}
  /\ friend' = friend \ {{b, x}}
  /\ invite' = [r \in Room |-> [v \in User |->
       IF {invite[r][v].by, v} = {b, x} THEN NoInvite ELSE invite[r][v]]]
  /\ Expel(b, x)
  /\ UNCHANGED <<link, issued>>

UnblockUser(b, x) ==
  /\ <<b, x>> \in block
  /\ block' = block \ {<<b, x>>}
  /\ UNCHANGED <<vars, friend, credentials>>

\* cira_delete_account: every row that names the account goes with it.
RemoveAccount(u) ==
  /\ DeleteAccount(u)
  /\ friend' = {p \in friend : u \notin p}
  /\ block' = {p \in block : u \notin {p[1], p[2]}}
  /\ invite' = [r \in Room |-> [v \in User |->
       IF r \notin Live' \/ u \in {v, invite[r][v].by}
         THEN NoInvite ELSE invite[r][v]]]
  /\ link' = [l \in Link |->
       IF Open(l) /\ (link[l].room \notin Live' \/ link[l].by = u)
         THEN NoLink ELSE link[l]]
  /\ UNCHANGED issued

----------------------------------------------------------------------------
InvitesNext ==
  \/ RoomStep /\ Cascade /\ UNCHANGED social
  \/ \E u \in Account, r \in Room :
        \/ AcceptRoomInvite(u, r)
        \/ DeclineRoomInvite(u, r)
        \/ ListRoomLinks(u, r)
  \/ \E u \in Account, r \in Room, v \in User :
        \/ InviteMember(u, r, v)
        \/ CancelRoomInvite(u, r, v)
  \/ \E u \in Account : ListRoomInvites(u) \/ RemoveAccount(u)
  \/ \E u \in Account, r \in Room, l \in Link, ttl \in LinkTtls,
        uses \in 1..15 : CreateRoomLink(u, r, l, ttl, uses)
  \/ \E u \in Account, l \in Link :
        \/ AcceptRoomLink(u, l)
        \/ RevokeRoomLink(u, l)
  \/ \E a, b \in Account :
        \/ BecomeFriends(a, b)
        \/ RemoveFriend(a, b)
        \/ BlockUser(a, b)
        \/ UnblockUser(a, b)

InvitesSpec == InvitesInit /\ [][InvitesNext]_allVars

----------------------------------------------------------------------------
(* Properties.                                                             *)

\* Every variable of the composition keeps its type.
InvitesTypeOK ==
  /\ TypeOK
  /\ friend \subseteq SUBSET User
  /\ block \subseteq User \X User
  /\ invite \in [Room -> [User -> InviteRow]]
  /\ link \in [Link -> LinkRow]
  /\ issued \subseteq Link

\* Two accounts with a block between them are never in the same room: the
\* admission check looks at every member, the trigger at every shared room,
\* and a repeated block, which fires no trigger, finds nothing left to do.
NoBlockedPairInRoom ==
  \A r \in Room : \A a, b \in room[r].members : ~ AnyBlock(a, b)

\* No invitation and no friendship is pending across a block, whichever of
\* the two came first and whoever of the pair blocked.
NoTieAcrossBlock ==
  \A a, b \in User : AnyBlock(a, b) =>
    /\ {a, b} \notin friend
    /\ \A r \in Room : invite[r][b].by # a

\* A block parts the two for good: no room, no friendship, no invitation.
BlocksSeparate == NoBlockedPairInRoom /\ NoTieAcrossBlock

\* Credentials live and die with their room: an invitation or a link exists
\* only for an existing room, and expires no later than it.
CredentialsWithinRoom ==
  /\ \A r \in Room, u \in User :
       invite[r][u] # NoInvite =>
         r \in Live /\ invite[r][u].expires <= room[r].expires
  /\ \A l \in Link :
       Open(l) =>
         link[l].room \in Live /\ link[l].expires <= room[link[l].room].expires

\* The tables keep their types and the credentials their bounds.
CredentialsInRange == InvitesTypeOK /\ CredentialsWithinRoom

\* Nobody enters an existing room without a living credential vouched for by
\* a friend: an invitation, or a link whose creator still sits in the room.
AdmissionIsVouched ==
  [][\A r \in Room : r \in Live =>
       \A u \in room'[r].members \ room[r].members : \E f \in User :
         /\ AreFriends(f, u)
         /\ \/ invite[r][u].by = f /\ invite[r][u].expires > now
            \/ \E l \in Link : /\ Open(l) /\ link[l].room = r
                               /\ link[l].by = f /\ link[l].expires > now
                               /\ f \in room[r].members]_allVars
=============================================================================
