---------------------------- MODULE VaraAdmission ----------------------------
(***************************************************************************)
(* One VARA room seen by the transactions that race on it, one PostgreSQL  *)
(* statement per step.  VaraInvites runs each RPC as a whole; here its     *)
(* statements interleave as they do under READ COMMITTED:                  *)
(*   - a statement reads what is committed when it starts;                 *)
(*   - select ... for update, update and delete lock their rows until the  *)
(*     transaction ends, and wait for a row another one holds;             *)
(*   - inserting a row takes a key-share lock on the rows its foreign keys *)
(*     name, which waits for a for-update lock on them;                    *)
(*   - writes become visible at commit, and a failed check rolls back;     *)
(*   - a cycle of waiting transactions is broken by aborting one of them.  *)
(* Locks, visibility and the deadlock detector are PostgreSQL's; the       *)
(* statements, their order and their checks are the migrations'.           *)
(*                                                                         *)
(* Left out: the host lease (read and written only under the room lock)    *)
(* and expiry.  The room's only manager who invites is its owner.          *)
(***************************************************************************)
EXTENDS Naturals, FiniteSets

CONSTANTS
  User,      \* accounts, in uuid order
  Owner,     \* owner and host of the room
  Cap,       \* its max_members
  MaxUses,   \* max_uses of its one link, created by the owner
  Tx,        \* the transactions that may run
  Kinds      \* the RPCs they may be

ASSUME AdmissionAssumption ==
  /\ User \subseteq Nat \ {0} /\ IsFiniteSet(User) /\ Owner \in User
  /\ Cap \in Nat \ {0, 1} /\ MaxUses \in Nat \ {0}
  /\ Kinds \subseteq {"accept", "acceptLink", "invite", "leave", "close",
                      "archive", "block"}

VARIABLES
  members,   \* committed vara_room_members
  invited,   \* committed vara_room_invites, all sent by the owner
  uses,      \* committed use_count of the link
  open,      \* whether the room row exists (its cascades go with it)
  friend,    \* committed cira_friendships, unordered pairs
  block,     \* committed cira_blocks, <<blocker, blocked>>
  job,       \* what each transaction is running
  locked,    \* row -> transactions holding it for update
  keyed,     \* row -> transactions holding it for key share
  sponsored  \* history: members whose direct invitation was accepted

db == <<members, invited, uses, open, friend, block, sponsored>>
vars == <<db, job, locked, keyed>>

RoomRow == <<"room", 0>>
LinkRow == <<"link", 0>>
GroupRow == <<"group", 0>>
InviteRow(u) == <<"invite", u>>
ProfileRow(u) == <<"profile", u>>
Row == {RoomRow, LinkRow, GroupRow}
         \cup {InviteRow(u) : u \in User} \cup {ProfileRow(u) : u \in User}

Lower(a, b) == IF a < b THEN a ELSE b
Upper(a, b) == IF a < b THEN b ELSE a

AnyBlock(a, b) == <<a, b>> \in block \/ <<b, a>> \in block
AreFriends(a, b) == {a, b} \in friend /\ ~ AnyBlock(a, b)

\* Where a transaction is: before a statement of its RPC, or not in one.
Statement ==
  {"lockInvite", "lockLink", "checkFriend", "lockRoom", "checkRoom", "checkBlocks",
   "insert", "upsert", "lockGroup", "cascade", "lockLow", "lockHigh", "dropInvites",
   "scanRooms", "separate", "commit"}
Rest == {"idle", "committed", "refused", "aborted"}

\* A job: its RPC, its caller, the other account it names, the statement it
\* is at, and whether the block trigger found the pair sharing the room.
Job == [kind : Kinds \cup {"none"}, by : User, to : User, at : Statement \cup Rest,
        shares : BOOLEAN]
Idle == [kind |-> "none", by |-> Owner, to |-> Owner, at |-> "idle",
         shares |-> FALSE]

At(t, kinds, label) == job[t].kind \in kinds /\ job[t].at = label

----------------------------------------------------------------------------
(* Rows, locks and waiting.                                                *)

FirstStatement(kind) ==
  CASE kind = "accept" -> "lockInvite"
    [] kind = "acceptLink" -> "lockLink"
    [] kind = "archive" -> "lockGroup"
    [] kind = "block" -> "lockLow"
    [] OTHER -> "lockRoom"

\* The invitations a block deletes: between the pair, whoever sent them.
Crossing(a, b) ==
  {u \in invited : {u, Owner} = {a, b}}

\* Mutant: cira_lock_pair locks the caller's profile first, not the lower id's.
WantsCallerFirst(t) ==
  LET j == job[t] IN
  CASE j.at = "lockInvite" -> {InviteRow(u) : u \in invited \cap {j.by}}
    [] j.at = "lockLink" -> {LinkRow}
    [] j.at = "lockGroup" -> {GroupRow}
    [] j.at \in {"lockRoom", "separate"} -> {RoomRow}
    [] j.at = "lockLow" -> {ProfileRow(j.by)}
    [] j.at = "lockHigh" -> {ProfileRow(j.to)}
    [] j.at = "dropInvites" -> {InviteRow(u) : u \in Crossing(j.by, j.to)}
    [] j.at = "upsert" -> {InviteRow(j.to)}
    [] j.at = "cascade" -> {InviteRow(u) : u \in invited} \cup {LinkRow}
    [] OTHER -> {}

\* The rows the next statement of t locks for update.
Wants(t) ==
  LET j == job[t] IN
  CASE j.at = "lockInvite" -> {InviteRow(u) : u \in invited \cap {j.by}}
    [] j.at = "lockLink" -> {LinkRow}
    [] j.at = "lockGroup" -> {GroupRow}
    [] j.at \in {"lockRoom", "separate"} -> {RoomRow}
    [] j.at = "lockLow" -> {ProfileRow(Lower(j.by, j.to))}
    [] j.at = "lockHigh" -> {ProfileRow(Upper(j.by, j.to))}
    [] j.at = "dropInvites" -> {InviteRow(u) : u \in Crossing(j.by, j.to)}
    [] j.at = "upsert" -> {InviteRow(j.to)}
    [] j.at = "cascade" -> {InviteRow(u) : u \in invited} \cup {LinkRow}
    [] OTHER -> {}

\* The rows the next statement of t key-shares through its foreign keys.
References(t) ==
  LET j == job[t] IN
  CASE j.at = "insert" -> {ProfileRow(j.by), ProfileRow(Owner)}
    [] j.at = "upsert" /\ j.to \notin invited ->
         {ProfileRow(j.by), ProfileRow(j.to)}
    [] OTHER -> {}

\* Whom t waits for before its next statement can run.
WaitsFor(t) ==
  {s \in Tx \ {t} : \/ \E row \in Wants(t) : s \in locked[row] \cup keyed[row]
                    \/ \E row \in References(t) : s \in locked[row]}

\* Run the next statement of t: take its locks and move on to label.
Run(t, j) ==
  /\ WaitsFor(t) = {}
  /\ locked' = [row \in Row |-> IF row \in Wants(t)
                                  THEN locked[row] \cup {t} ELSE locked[row]]
  /\ keyed' = [row \in Row |-> IF row \in References(t)
                                 THEN keyed[row] \cup {t} ELSE keyed[row]]
  /\ job' = [job EXCEPT ![t] = j]

Goto(t, label) == Run(t, [job[t] EXCEPT !.at = label])

\* The end of a transaction, committed or rolled back, releases its locks.
End(t, label) ==
  /\ job' = [job EXCEPT ![t] = [Idle EXCEPT !.at = label]]
  /\ locked' = [row \in Row |-> locked[row] \ {t}]
  /\ keyed' = [row \in Row |-> keyed[row] \ {t}]

Refuse(t) == End(t, "refused") /\ UNCHANGED db

\* A check of the code: refused when it fails, else on to the next statement.
Check(t, ok, next) ==
  /\ WaitsFor(t) = {}
  /\ IF ok THEN Goto(t, next) /\ UNCHANGED db ELSE Refuse(t)

----------------------------------------------------------------------------
Init ==
  /\ members \in {M \in SUBSET User : Owner \in M /\ Cardinality(M) <= Cap}
  /\ invited \in SUBSET (User \ members)
  /\ uses = 0
  /\ open = TRUE
  /\ friend = {{a, b} : a, b \in User}
  /\ block = {}
  /\ job = [t \in Tx |-> Idle]
  /\ locked = [row \in Row |-> {}]
  /\ keyed = [row \in Row |-> {}]
  /\ sponsored = {}

Begin(t, kind, u, v) ==
  /\ job[t].at = "idle"
  /\ kind \in {"invite", "close", "archive"} => u = Owner
  /\ kind \in {"accept", "acceptLink"} => u # Owner
  /\ IF kind \in {"invite", "block"} THEN v # u ELSE v = u
  /\ job' = [job EXCEPT ![t] = [kind |-> kind, by |-> u, to |-> v,
                                at |-> FirstStatement(kind), shares |-> FALSE]]
  /\ UNCHANGED <<db, locked, keyed>>

(* vara_accept_room_invite and vara_accept_room_link.                      *)

\* select ... from vara_room_invites where ... for update
LockInvite(t) ==
  /\ At(t, {"accept"}, "lockInvite")
  /\ Check(t, open /\ job[t].by \in invited, "checkFriend")

\* Mutant: the link read without for update.
ReadLink(t) ==
  /\ At(t, {"acceptLink"}, "lockLink")
  /\ IF open /\ uses < MaxUses
       THEN /\ job' = [job EXCEPT ![t].at = "checkFriend"]
            /\ UNCHANGED <<db, locked, keyed>>
       ELSE Refuse(t)

\* select ... from vara_room_links where ... for update
LockLink(t) ==
  /\ At(t, {"acceptLink"}, "lockLink")
  /\ Check(t, open /\ uses < MaxUses, "checkFriend")

\* vara_are_friends with the inviter; a link's creator must be in the room.
CheckFriend(t) ==
  /\ At(t, {"accept", "acceptLink"}, "checkFriend")
  /\ Check(t, /\ AreFriends(job[t].by, Owner)
              /\ job[t].kind = "acceptLink" => Owner \in members, "lockRoom")

(* vara_admit_member, called by both.                                      *)

AdmitLockRoom(t) ==
  /\ At(t, {"accept", "acceptLink"}, "lockRoom")
  /\ Check(t, open, "checkRoom")

\* Already a member: admitted without an insert.  Else there must be room.
AdmitCheckRoom(t) ==
  /\ At(t, {"accept", "acceptLink"}, "checkRoom")
  /\ IF job[t].by \in members
       THEN Goto(t, "commit") /\ UNCHANGED db
       ELSE Check(t, Cardinality(members) < Cap, "checkBlocks")

AdmitCheckBlocks(t) ==
  /\ At(t, {"accept", "acceptLink"}, "checkBlocks")
  /\ Check(t, \A m \in members : ~ AnyBlock(job[t].by, m), "insert")

\* insert into vara_room_members: waits for the referenced profiles.
AdmitInsert(t) ==
  /\ At(t, {"accept", "acceptLink"}, "insert")
  /\ Goto(t, "commit")
  /\ UNCHANGED db

CommitAccept(t) ==
  /\ At(t, {"accept", "acceptLink"}, "commit")
  /\ members' = members \cup {job[t].by}
  /\ IF job[t].kind = "accept"
       THEN /\ invited' = invited \ {job[t].by}
            /\ sponsored' = sponsored \cup ({job[t].by} \ members)
            /\ UNCHANGED uses
       ELSE uses' = uses + 1 /\ UNCHANGED <<invited, sponsored>>
  /\ End(t, "committed")
  /\ UNCHANGED <<open, friend, block>>

(* vara_invite_member: room row first, then the invitation's row.          *)

InviteLockRoom(t) ==
  /\ At(t, {"invite"}, "lockRoom")
  /\ Check(t, /\ open /\ AreFriends(Owner, job[t].to)
              /\ job[t].to \notin members /\ Cardinality(members) < Cap, "upsert")

InviteUpsert(t) ==
  /\ At(t, {"invite"}, "upsert")
  /\ Goto(t, "commit")
  /\ UNCHANGED db

CommitInvite(t) ==
  /\ At(t, {"invite"}, "commit")
  /\ invited' = invited \cup {job[t].to}
  /\ End(t, "committed")
  /\ UNCHANGED <<members, uses, open, friend, block, sponsored>>

(* vara_leave_room by a member other than the owner.                       *)

LeaveLockRoom(t) ==
  /\ At(t, {"leave"}, "lockRoom")
  /\ Check(t, open /\ job[t].by \in members \ {Owner}, "commit")

CommitLeave(t) ==
  /\ At(t, {"leave"}, "commit")
  /\ members' = members \ {job[t].by}
  /\ sponsored' = sponsored \ {job[t].by}
  /\ End(t, "committed")
  /\ UNCHANGED <<invited, uses, open, friend, block>>

(* vara_close_room and cira_archive_group: delete the room, then cascade.  *)

LockGroup(t) ==
  /\ At(t, {"archive"}, "lockGroup")
  /\ Goto(t, "lockRoom")
  /\ UNCHANGED db

DeleteRoomRow(t) ==
  /\ At(t, {"close", "archive"}, "lockRoom")
  /\ Check(t, open, "cascade")

\* on delete cascade: the rows of vara_room_invites and vara_room_links.
CascadeCredentials(t) ==
  /\ At(t, {"close", "archive"}, "cascade")
  /\ Goto(t, "commit")
  /\ UNCHANGED db

CommitDelete(t) ==
  /\ At(t, {"close", "archive"}, "commit")
  /\ open' = FALSE
  /\ members' = {} /\ invited' = {} /\ sponsored' = {}
  /\ End(t, "committed")
  /\ UNCHANGED <<uses, friend, block>>

(* cira_block_user and its trigger vara_tg_cira_block_boundary.            *)

\* cira_lock_pair: both profiles for update, the lower id first.
LockLow(t) ==
  /\ At(t, {"block"}, "lockLow")
  /\ Goto(t, "lockHigh")
  /\ UNCHANGED db

\* Mutant: a block that does not delete the pair's invitations first.
LockHighThenScan(t) ==
  /\ At(t, {"block"}, "lockHigh")
  /\ Goto(t, IF <<job[t].by, job[t].to>> \in block THEN "commit" ELSE "scanRooms")
  /\ UNCHANGED db

\* A pair already blocked inserts nothing, so the trigger does not fire.
LockHigh(t) ==
  /\ At(t, {"block"}, "lockHigh")
  /\ Goto(t, IF <<job[t].by, job[t].to>> \in block THEN "commit" ELSE "dropInvites")
  /\ UNCHANGED db

DropInvites(t) ==
  /\ At(t, {"block"}, "dropInvites")
  /\ Goto(t, "scanRooms")
  /\ UNCHANGED db

\* The loop's query finds the rooms the committed data shows them sharing...
ScanRooms(t) ==
  /\ At(t, {"block"}, "scanRooms")
  /\ LET shares == {job[t].by, job[t].to} \subseteq members
     IN  Run(t, [job[t] EXCEPT !.shares = shares,
                               !.at = IF shares THEN "separate" ELSE "commit"])
  /\ UNCHANGED db

\* ... and locks each before the pair is separated in it.
Separate(t) ==
  /\ At(t, {"block"}, "separate")
  /\ Goto(t, "commit")
  /\ UNCHANGED db

\* The trigger's deletions, with the block and the friendship; a block that was
\* there already fires no trigger and leaves the invitations.
CommitBlock(t) ==
  LET b == job[t].by
      x == job[t].to
      crossing == IF <<b, x>> \in block THEN {} ELSE Crossing(b, x)
      out == IF ~ job[t].shares THEN {} ELSE IF b = Owner THEN {x} ELSE {b}
  IN
  /\ At(t, {"block"}, "commit")
  /\ block' = block \cup {<<b, x>>}
  /\ friend' = friend \ {{b, x}}
  /\ invited' = invited \ crossing
  /\ members' = members \ out
  /\ sponsored' = sponsored \ out
  /\ End(t, "committed")
  /\ UNCHANGED <<uses, open>>

(* PostgreSQL.                                                             *)

\* Transactions that wait for one another in a circle.
Deadlocked(S) == \A t \in S : WaitsFor(t) \cap S # {}

\* The deadlock detector aborts a transaction of the circle.
AbortVictim(t) ==
  /\ \E S \in SUBSET Tx : t \in S /\ Deadlocked(S)
  /\ End(t, "aborted")
  /\ UNCHANGED db

----------------------------------------------------------------------------
Step(t) ==
  \/ LockInvite(t) \/ LockLink(t) \/ CheckFriend(t)
  \/ AdmitLockRoom(t) \/ AdmitCheckRoom(t) \/ AdmitCheckBlocks(t)
  \/ AdmitInsert(t) \/ CommitAccept(t)
  \/ InviteLockRoom(t) \/ InviteUpsert(t) \/ CommitInvite(t)
  \/ LeaveLockRoom(t) \/ CommitLeave(t)
  \/ LockGroup(t) \/ DeleteRoomRow(t) \/ CascadeCredentials(t) \/ CommitDelete(t)
  \/ LockLow(t) \/ LockHigh(t) \/ DropInvites(t) \/ ScanRooms(t) \/ Separate(t)
  \/ CommitBlock(t)
  \/ AbortVictim(t)

Next ==
  \/ \E t \in Tx, kind \in Kinds, u, v \in User : Begin(t, kind, u, v)
  \/ \E t \in Tx : Step(t)

Spec == Init /\ [][Next]_vars

----------------------------------------------------------------------------
(* Properties.                                                             *)

\* Every variable keeps its type, and a lock for update is exclusive.
TypeOK ==
  /\ members \subseteq User /\ invited \subseteq User /\ sponsored \subseteq User
  /\ uses \in Nat /\ open \in BOOLEAN
  /\ friend \subseteq SUBSET User /\ block \subseteq User \X User
  /\ job \in [Tx -> Job]
  /\ locked \in [Row -> SUBSET Tx] /\ keyed \in [Row -> SUBSET Tx]
  /\ \A row \in Row : Cardinality(locked[row]) <= 1

\* The room lock makes count-then-insert safe: however admissions interleave,
\* the room never holds more than max_members.
CapacityRespected == Cardinality(members) <= Cap

\* However acceptances of one link interleave, it is used max_uses times.
LinkBudget == uses <= MaxUses

\* Locks stay exclusive, seats within the room's and uses within the link's,
\* whatever statements of the transactions interleave.
BudgetsKept == TypeOK /\ CapacityRespected /\ LinkBudget

\* A block between a guest admitted by direct invitation and the inviter
\* always separates them: the trigger must first delete the invitation row,
\* which the acceptance holds.
InviterBlockSeparates ==
  \A u \in sponsored : {u, Owner} \subseteq members => ~ AnyBlock(u, Owner)

\* The RPCs lock credentials, then the room, and pairs of profiles lower id
\* first, so that they can wait in a circle only through a statement that, with
\* the room locked, asks for rows others lock before the room: the insert of a
\* member (profiles), the upsert of an invitation and the cascade of a deletion
\* (credentials).  No other circle exists: acceptances, departures and blocks
\* whose room is held by none of these three never deadlock.
DeadlocksGoThroughTheRoom ==
  \A S \in (SUBSET Tx) \ {{}} :
    Deadlocked(S) => \E t \in S : /\ t \in locked[RoomRow]
                                 /\ job[t].at \in {"insert", "upsert", "cascade"}
=============================================================================
