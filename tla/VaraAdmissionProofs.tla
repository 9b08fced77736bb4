------------------------- MODULE VaraAdmissionProofs -------------------------
(***************************************************************************)
(* Why the seats of a room and the uses of a link are never overspent, and *)
(* why a block separates a guest from whoever invited it, for any number   *)
(* of transactions and accounts.                                           *)
(*                                                                         *)
(* What a transaction has read stays true until it ends only while a lock  *)
(* of its own keeps the others from changing it.  The inductive invariant  *)
(* therefore says, for every statement a transaction may be at, which rows *)
(* it holds (Held) and which of the facts it has checked still stand       *)
(* (Known); that locks for update exclude one another makes the second     *)
(* follow from the first.                                                  *)
(***************************************************************************)
EXTENDS VaraAdmission, FiniteSetTheorems, WellFoundedInduction, TLAPS

Accepting == {"accept", "acceptLink"}
Deleting == {"close", "archive"}

\* An acceptance that holds its credential's row.
CredentialStatements ==
  {"checkFriend", "lockRoom", "checkRoom", "checkBlocks", "insert", "commit"}

\* The statements that run under the lock of the room.
RoomHeld(j) ==
  \/ j.kind \in Accepting /\ j.at \in {"checkRoom", "checkBlocks", "insert", "commit"}
  \/ j.kind = "invite" /\ j.at \in {"upsert", "commit"}
  \/ j.kind = "leave" /\ j.at = "commit"
  \/ j.kind \in Deleting /\ j.at \in {"cascade", "commit"}
  \/ j.kind = "block" /\ j.at = "commit" /\ j.shares

\* A block that holds the profiles of its pair, and one that has deleted its
\* invitations as well.
PairHeld(j) ==
  j.kind = "block" /\ j.at \in {"dropInvites", "scanRooms", "separate", "commit"}
InvitesDropped(j) ==
  /\ j.kind = "block" /\ j.at \in {"scanRooms", "separate", "commit"}
  /\ <<j.by, j.to>> \notin block

\* The rows that t holds.
Held(t) ==
  LET j == job[t] IN
  /\ RoomHeld(j) => t \in locked[RoomRow]
  /\ j.kind = "acceptLink" /\ j.at \in CredentialStatements => t \in locked[LinkRow]
  /\ j.kind = "accept" /\ j.at \in CredentialStatements => t \in locked[InviteRow(j.by)]
  /\ j.kind = "block" /\ j.at = "lockHigh" => t \in locked[ProfileRow(Lower(j.by, j.to))]
  /\ PairHeld(j) => /\ t \in locked[ProfileRow(j.by)]
                    /\ t \in locked[ProfileRow(j.to)]
  /\ j.kind = "invite" /\ j.at = "commit" =>
       \/ t \in keyed[ProfileRow(j.to)]
       \/ t \in locked[InviteRow(j.to)] /\ j.to \in invited
  /\ j.kind \in Deleting /\ j.at = "commit" => \A u \in invited : t \in locked[InviteRow(u)]
  /\ InvitesDropped(j) => \A u \in Crossing(j.by, j.to) : t \in locked[InviteRow(u)]

\* What t has checked and may still rely on.
Known(t) ==
  LET j == job[t] IN
  /\ j.kind \in Accepting => j.by # Owner
  /\ j.kind = "invite" => j.by = Owner /\ j.to # Owner
  /\ j.kind = "block" => j.by # j.to /\ (j.shares => j.at \in {"separate", "commit"})
  /\ j.kind = "block" /\ j.at = "separate" => j.shares
  /\ j.kind \in Accepting /\ j.at \in {"checkBlocks", "insert"} => Cardinality(members) < Cap
  /\ j.kind \in Accepting /\ j.at = "commit" =>
       j.by \in members \/ Cardinality(members) < Cap
  /\ j.kind = "acceptLink" /\ j.at \in CredentialStatements => uses < MaxUses
  /\ j.kind = "accept" /\ j.at \in CredentialStatements => j.by \in invited
  /\ j.kind = "accept" /\ j.at \in CredentialStatements \ {"checkFriend"} =>
       ~ AnyBlock(j.by, Owner)
  /\ InvitesDropped(j) /\ j.at = "commit" /\ ~ j.shares =>
       \A u \in sponsored : {u, Owner} = {j.by, j.to} => Owner \notin members

Typed ==
  /\ members \subseteq User /\ invited \subseteq User /\ sponsored \subseteq User
  /\ uses \in Nat /\ open \in BOOLEAN
  /\ friend \subseteq SUBSET User /\ block \subseteq User \X User
  /\ job \in [Tx -> Job]
  /\ locked \in [Row -> SUBSET Tx] /\ keyed \in [Row -> SUBSET Tx]

\* A row held for update is held by nobody else.
Exclusive ==
  \A row \in Row : \A s, t \in Tx :
    s \in locked[row] /\ t \in locked[row] \cup keyed[row] => s = t

\* What the committed data owes to the checks.
Kept ==
  /\ sponsored \subseteq members /\ Owner \notin invited
  /\ CapacityRespected /\ LinkBudget /\ InviterBlockSeparates

IInv == Typed /\ Exclusive /\ Kept /\ \A t \in Tx : Held(t) /\ Known(t)

----------------------------------------------------------------------------
(* Locks.                                                                  *)

LEMMA RowsAreRows ==
  /\ RoomRow \in Row /\ LinkRow \in Row
  /\ \A u \in User : InviteRow(u) \in Row /\ ProfileRow(u) \in Row
BY DEF Row

LEMMA JobFields ==
  ASSUME Typed, NEW t \in Tx
  PROVE  /\ job[t] \in Job /\ job[t].by \in User /\ job[t].to \in User
         /\ job[t].kind \in Kinds \cup {"none"} /\ job[t].at \in Statement \cup Rest
         /\ job[t].shares \in BOOLEAN
BY DEF Typed, Job

\* A statement that runs adds the locks it wants, and nobody else holds them.
LEMMA RunLocks ==
  ASSUME Typed, Exclusive, NEW t \in Tx, NEW j \in Job, Run(t, j)
  PROVE  /\ locked' \in [Row -> SUBSET Tx] /\ keyed' \in [Row -> SUBSET Tx]
         /\ Exclusive'
         /\ job' \in [Tx -> Job] /\ job'[t] = j
         /\ \A s \in Tx : s # t => job'[s] = job[s]
         /\ \A row \in Row, s \in Tx :
              /\ s \in locked[row] => s \in locked'[row]
              /\ s \in keyed[row] => s \in keyed'[row]
         /\ \A row \in Row :
              /\ row \in Wants(t) => t \in locked'[row]
              /\ row \in References(t) => t \in keyed'[row]
<1>1. /\ locked' = [row \in Row |-> IF row \in Wants(t)
                                      THEN locked[row] \cup {t} ELSE locked[row]]
      /\ keyed' = [row \in Row |-> IF row \in References(t)
                                     THEN keyed[row] \cup {t} ELSE keyed[row]]
      /\ job' = [job EXCEPT ![t] = j]
  BY DEF Run
<1>2. \A s \in Tx \ {t} :
        /\ \A row \in Wants(t) : s \notin locked[row] \cup keyed[row]
        /\ \A row \in References(t) : s \notin locked[row]
  BY DEF Run, WaitsFor
<1>3. locked' \in [Row -> SUBSET Tx] /\ keyed' \in [Row -> SUBSET Tx]
  BY <1>1 DEF Typed
<1>4. Exclusive'
  BY <1>1, <1>2 DEF Exclusive
<1>5. /\ job' \in [Tx -> Job] /\ job'[t] = j
      /\ \A s \in Tx : s # t => job'[s] = job[s]
  BY <1>1 DEF Typed
<1> HIDE DEF Typed
<1> QED BY <1>1, <1>3, <1>4, <1>5

\* The end of a transaction releases its locks and no other's.
LEMMA EndLocks ==
  ASSUME Typed, Exclusive, NEW t \in Tx, NEW label \in Rest, End(t, label)
  PROVE  /\ locked' \in [Row -> SUBSET Tx] /\ keyed' \in [Row -> SUBSET Tx]
         /\ Exclusive'
         /\ job' \in [Tx -> Job] /\ job'[t].kind = "none"
         /\ \A s \in Tx : s # t => job'[s] = job[s]
         /\ \A row \in Row : \A s \in Tx \ {t} :
              /\ s \in locked'[row] <=> s \in locked[row]
              /\ s \in keyed'[row] <=> s \in keyed[row]
<1>1. /\ locked' = [row \in Row |-> locked[row] \ {t}]
      /\ keyed' = [row \in Row |-> keyed[row] \ {t}]
      /\ job' = [job EXCEPT ![t] = [Idle EXCEPT !.at = label]]
  BY DEF End
<1>2. /\ [Idle EXCEPT !.at = label] \in Job
      /\ [Idle EXCEPT !.at = label].kind = "none"
  BY AdmissionAssumption DEF Idle, Job
<1>3. locked' \in [Row -> SUBSET Tx] /\ keyed' \in [Row -> SUBSET Tx]
  BY <1>1 DEF Typed
<1>4. Exclusive'
  BY <1>1 DEF Exclusive
<1>5. /\ job' \in [Tx -> Job] /\ job'[t].kind = "none"
      /\ \A s \in Tx : s # t => job'[s] = job[s]
  BY <1>1, <1>2 DEF Typed
<1> QED BY <1>1, <1>3, <1>4, <1>5

\* Two transactions never hold one row for update, nor one of them the key.
LEMMA OneHolder ==
  ASSUME Exclusive, NEW row \in Row, NEW s \in Tx, NEW t \in Tx,
         s \in locked[row], t \in locked[row] \cup keyed[row]
  PROVE  s = t
BY DEF Exclusive

----------------------------------------------------------------------------
(* Steps that change no data.                                              *)

\* A transaction that keeps its locks keeps what it holds and what it knows
\* while the data stays as it is.
LEMMA StillHolds ==
  ASSUME Typed, NEW s \in Tx, Held(s), Known(s), job'[s] = job[s],
         UNCHANGED <<members, invited, uses, block, sponsored>>,
         \A row \in Row : /\ s \in locked[row] => s \in locked'[row]
                          /\ s \in keyed[row] => s \in keyed'[row]
  PROVE  (Held(s) /\ Known(s))'
<1> DEFINE j == job[s]
<1>1. j.by \in User /\ j.to \in User /\ invited \subseteq User
  BY JobFields DEF Typed
<1>2. Lower(j.by, j.to) \in User /\ Crossing(j.by, j.to) \subseteq User
  BY <1>1 DEF Lower, Crossing
<1>3. /\ RoomHeld(job'[s]) = RoomHeld(j) /\ PairHeld(job'[s]) = PairHeld(j)
      /\ InvitesDropped(job[s])' = InvitesDropped(j)
      /\ Crossing(j.by, j.to)' = Crossing(j.by, j.to)
  BY DEF InvitesDropped, Crossing
<1>4. Held(s)'
  BY <1>1, <1>2, <1>3, RowsAreRows DEF Held
<1>5. Known(s)'
  BY <1>3 DEF Known, AnyBlock
<1> QED BY <1>4, <1>5

\* A statement is the concern of its own transaction: the others keep what
\* they hold and what they know.
LEMMA RunKeeps ==
  ASSUME IInv, NEW t \in Tx, NEW j \in Job, Run(t, j), UNCHANGED db,
         (Held(t) /\ Known(t))'
  PROVE  IInv'
<1>1. UNCHANGED <<members, invited, uses, open, friend, block, sponsored>>
  BY DEF db
<1>2. Typed' /\ Exclusive'
  BY <1>1, RunLocks DEF IInv, Typed
<1>3. Kept'
  BY <1>1 DEF IInv, Kept, CapacityRespected, LinkBudget, InviterBlockSeparates, AnyBlock
<1>4. ASSUME NEW s \in Tx, s # t
      PROVE  (Held(s) /\ Known(s))'
  <2>1. job'[s] = job[s]
    BY <1>4, RunLocks DEF IInv
  <2>2. \A row \in Row : /\ s \in locked[row] => s \in locked'[row]
                         /\ s \in keyed[row] => s \in keyed'[row]
    BY RunLocks DEF IInv
  <2> QED BY <1>1, <2>1, <2>2, StillHolds DEF IInv
<1> QED BY <1>2, <1>3, <1>4 DEF IInv

\* A transaction that ends holds and knows nothing; the rest is for the others.
LEMMA EndKeeps ==
  ASSUME IInv, NEW t \in Tx, NEW label \in Rest, End(t, label),
         members' \subseteq User, invited' \subseteq User, sponsored' \subseteq User,
         uses' \in Nat, open' \in BOOLEAN, friend' \subseteq SUBSET User,
         block' \subseteq User \X User,
         Kept', \A s \in Tx \ {t} : (Held(s) /\ Known(s))'
  PROVE  IInv'
<1>1. Typed' /\ Exclusive'
  BY EndLocks DEF IInv, Typed
<1>2. (Held(t) /\ Known(t))'
  BY EndLocks DEF IInv, Held, Known, RoomHeld, PairHeld, InvitesDropped, Accepting, Deleting
<1> QED BY <1>1, <1>2 DEF IInv

\* Refused or aborted: the data is as it was.
LEMMA RollbackKeeps ==
  ASSUME IInv, NEW t \in Tx, NEW label \in Rest, End(t, label), UNCHANGED db
  PROVE  IInv'
<1>1. UNCHANGED <<members, invited, uses, open, friend, block, sponsored>>
  BY DEF db
<1>2. Kept'
  BY <1>1 DEF IInv, Kept, CapacityRespected, LinkBudget, InviterBlockSeparates, AnyBlock
<1>3. ASSUME NEW s \in Tx, s # t
      PROVE  (Held(s) /\ Known(s))'
  <2>1. job'[s] = job[s]
    BY <1>3, EndLocks DEF IInv
  <2>2. \A row \in Row : /\ s \in locked[row] => s \in locked'[row]
                         /\ s \in keyed[row] => s \in keyed'[row]
    BY <1>3, EndLocks DEF IInv
  <2> QED BY <1>1, <2>1, <2>2, StillHolds DEF IInv
<1> QED BY <1>1, <1>2, <1>3, EndKeeps DEF IInv, Typed

LEMMA BeginKeeps ==
  ASSUME IInv, NEW t \in Tx, NEW kind \in Kinds, NEW u \in User, NEW v \in User,
         Begin(t, kind, u, v)
  PROVE  IInv'
<1> DEFINE j == [kind |-> kind, by |-> u, to |-> v,
                 at |-> FirstStatement(kind), shares |-> FALSE]
<1>1. /\ UNCHANGED <<members, invited, uses, open, friend, block, sponsored>>
      /\ UNCHANGED <<locked, keyed>>
      /\ job' = [job EXCEPT ![t] = j]
  BY DEF Begin, db
<1>2. FirstStatement(kind) \in {"lockInvite", "lockLink", "lockGroup", "lockLow", "lockRoom"}
  BY DEF FirstStatement
<1>3. j \in Job
  <2>1. FirstStatement(kind) \in Statement
    BY <1>2 DEF Statement
  <2> QED BY <2>1 DEF Job
<1>4. Typed' /\ Exclusive' /\ Kept'
  <2>1. job' \in [Tx -> Job]
    BY <1>1, <1>3 DEF IInv, Typed
  <2> HIDE DEF j
  <2> QED BY <1>1, <2>1 DEF IInv, Typed, Exclusive, Kept, CapacityRespected, LinkBudget,
             InviterBlockSeparates, AnyBlock
<1>5. job'[t] = j /\ \A s \in Tx : s # t => job'[s] = job[s]
  BY <1>1 DEF IInv, Typed
<1>6. (Held(t) /\ Known(t))'
  <2>1. Held(t)'
    BY <1>2, <1>5 DEF Held, RoomHeld, PairHeld, InvitesDropped, FirstStatement,
       CredentialStatements
  <2>2. /\ kind \in Accepting => u # Owner
        /\ kind = "invite" => u = Owner /\ v # Owner
        /\ kind = "block" => u # v
    BY DEF Begin, Accepting
  <2>3. /\ job'[t].kind = kind /\ job'[t].by = u /\ job'[t].to = v
        /\ job'[t].at = FirstStatement(kind) /\ job'[t].shares = FALSE
    BY <1>5
  <2>4. Known(t)'
    <3> HIDE DEF j
    <3>1. kind \in Accepting =>
            FirstStatement(kind) \notin CredentialStatements \cup {"insert", "commit"}
      BY DEF CredentialStatements, FirstStatement, Accepting
    <3>2. ~ InvitesDropped(job[t])'
      BY <1>2, <2>3 DEF InvitesDropped
    <3> QED BY <1>2, <2>2, <2>3, <3>1, <3>2 DEF Known, CredentialStatements, Accepting
  <2> QED BY <2>1, <2>4
<1>7. ASSUME NEW s \in Tx, s # t
      PROVE  (Held(s) /\ Known(s))'
  BY <1>1, <1>5, <1>7 DEF IInv, Held, Known, RoomHeld, PairHeld, InvitesDropped, Crossing,
     AnyBlock
<1> QED BY <1>4, <1>6, <1>7 DEF IInv

----------------------------------------------------------------------------
(* Statements.                                                             *)

\* What the next statement of t does when it moves on to label.
Moved(t, label) ==
  /\ job'[t].kind = job[t].kind /\ job'[t].by = job[t].by /\ job'[t].to = job[t].to
  /\ job'[t].shares = job[t].shares /\ job'[t].at = label
  /\ UNCHANGED <<members, invited, uses, open, block, sponsored>>
  /\ \A row \in Row :
       /\ t \in locked[row] \/ row \in Wants(t) => t \in locked'[row]
       /\ t \in keyed[row] \/ row \in References(t) => t \in keyed'[row]

LEMMA GotoMoved ==
  ASSUME IInv, NEW t \in Tx, NEW label \in Statement, Goto(t, label), UNCHANGED db
  PROVE  Moved(t, label)
<1> DEFINE j == [job[t] EXCEPT !.at = label]
<1>1. /\ j \in Job
      /\ j.kind = job[t].kind /\ j.by = job[t].by /\ j.to = job[t].to
      /\ j.shares = job[t].shares /\ j.at = label
  BY JobFields DEF IInv, Job
<1>2. Run(t, j)
  BY DEF Goto
<1> HIDE DEF j
<1> QED BY <1>1, <1>2, RunLocks DEF IInv, Moved, db

LEMMA GotoKeeps ==
  ASSUME IInv, NEW t \in Tx, NEW label \in Statement, Goto(t, label), UNCHANGED db,
         (Held(t) /\ Known(t))'
  PROVE  IInv'
<1> DEFINE j == [job[t] EXCEPT !.at = label]
<1>1. j \in Job
  BY JobFields DEF IInv, Job
<1>2. Run(t, j)
  BY DEF Goto
<1> HIDE DEF j
<1> QED BY <1>1, <1>2, RunKeeps

LEMMA RefuseKeeps ==
  ASSUME IInv, NEW t \in Tx, Refuse(t)
  PROVE  IInv'
BY RollbackKeeps DEF Refuse, Rest

LEMMA LockInviteKeeps ==
  ASSUME IInv, NEW t \in Tx, LockInvite(t)
  PROVE  IInv'
<1>1. CASE Refuse(t)
  BY <1>1, RefuseKeeps
<1>2. CASE Goto(t, "checkFriend") /\ UNCHANGED db /\ open /\ job[t].by \in invited
  <2>1. Moved(t, "checkFriend")
    BY <1>2, GotoMoved DEF Statement
  <2>2. Held(t)'
    BY <2>1, <1>2, RowsAreRows, JobFields DEF LockInvite, At, IInv, Moved, Held, RoomHeld, PairHeld,
       InvitesDropped, Wants, Accepting, Deleting, CredentialStatements
  <2>3. Known(t)'
    BY <2>1, <1>2 DEF LockInvite, At, IInv, Moved, Known, InvitesDropped,
       Accepting, CredentialStatements
  <2> QED BY <1>2, <2>2, <2>3, GotoKeeps DEF Statement
<1> QED BY <1>1, <1>2 DEF LockInvite, Check

LEMMA LockLinkKeeps ==
  ASSUME IInv, NEW t \in Tx, LockLink(t)
  PROVE  IInv'
<1>1. CASE Refuse(t)
  BY <1>1, RefuseKeeps
<1>2. CASE Goto(t, "checkFriend") /\ UNCHANGED db /\ open /\ uses < MaxUses
  <2>1. Moved(t, "checkFriend")
    BY <1>2, GotoMoved DEF Statement
  <2>2. Held(t)'
    BY <2>1, <1>2, RowsAreRows, JobFields DEF LockLink, At, IInv, Moved, Held, RoomHeld, PairHeld,
       InvitesDropped, Wants, Accepting, Deleting, CredentialStatements
  <2>3. Known(t)'
    BY <2>1, <1>2 DEF LockLink, At, IInv, Moved, Known, InvitesDropped,
       Accepting, CredentialStatements
  <2> QED BY <1>2, <2>2, <2>3, GotoKeeps DEF Statement
<1> QED BY <1>1, <1>2 DEF LockLink, Check

LEMMA CheckFriendKeeps ==
  ASSUME IInv, NEW t \in Tx, CheckFriend(t)
  PROVE  IInv'
<1>1. CASE Refuse(t)
  BY <1>1, RefuseKeeps
<1>2. CASE Goto(t, "lockRoom") /\ UNCHANGED db /\ AreFriends(job[t].by, Owner)
  <2>1. Moved(t, "lockRoom")
    BY <1>2, GotoMoved DEF Statement
  <2>2. Held(t)'
    BY <2>1, <1>2, RowsAreRows, JobFields DEF CheckFriend, At, IInv, Moved, Held, RoomHeld, PairHeld,
       InvitesDropped, Wants, Accepting, Deleting, CredentialStatements
  <2>3. Known(t)'
    BY <2>1, <1>2 DEF CheckFriend, At, IInv, Moved, Known, InvitesDropped,
       Accepting, CredentialStatements, AnyBlock, AreFriends
  <2> QED BY <1>2, <2>2, <2>3, GotoKeeps DEF Statement
<1> QED BY <1>1, <1>2 DEF CheckFriend, Check

LEMMA AdmitLockRoomKeeps ==
  ASSUME IInv, NEW t \in Tx, AdmitLockRoom(t)
  PROVE  IInv'
<1>1. CASE Refuse(t)
  BY <1>1, RefuseKeeps
<1>2. CASE Goto(t, "checkRoom") /\ UNCHANGED db
  <2>1. Moved(t, "checkRoom")
    BY <1>2, GotoMoved DEF Statement
  <2>2. Held(t)'
    BY <2>1, <1>2, RowsAreRows, JobFields DEF AdmitLockRoom, At, IInv, Moved, Held, RoomHeld, PairHeld,
       InvitesDropped, Wants, Accepting, Deleting, CredentialStatements
  <2>3. Known(t)'
    BY <2>1, <1>2 DEF AdmitLockRoom, At, IInv, Moved, Known, InvitesDropped,
       Accepting, CredentialStatements, AnyBlock
  <2> QED BY <1>2, <2>2, <2>3, GotoKeeps DEF Statement
<1> QED BY <1>1, <1>2 DEF AdmitLockRoom, Check

LEMMA InviteLockRoomKeeps ==
  ASSUME IInv, NEW t \in Tx, InviteLockRoom(t)
  PROVE  IInv'
<1>1. CASE Refuse(t)
  BY <1>1, RefuseKeeps
<1>2. CASE Goto(t, "upsert") /\ UNCHANGED db
  <2>1. Moved(t, "upsert")
    BY <1>2, GotoMoved DEF Statement
  <2>2. Held(t)'
    BY <2>1, <1>2, RowsAreRows, JobFields DEF InviteLockRoom, At, IInv, Moved, Held, RoomHeld, PairHeld,
       InvitesDropped, Wants, Accepting, Deleting, CredentialStatements
  <2>3. Known(t)'
    BY <2>1, <1>2 DEF InviteLockRoom, At, IInv, Moved, Known, InvitesDropped,
       Accepting, CredentialStatements
  <2> QED BY <1>2, <2>2, <2>3, GotoKeeps DEF Statement
<1> QED BY <1>1, <1>2 DEF InviteLockRoom, Check

LEMMA LeaveLockRoomKeeps ==
  ASSUME IInv, NEW t \in Tx, LeaveLockRoom(t)
  PROVE  IInv'
<1>1. CASE Refuse(t)
  BY <1>1, RefuseKeeps
<1>2. CASE Goto(t, "commit") /\ UNCHANGED db
  <2>1. Moved(t, "commit")
    BY <1>2, GotoMoved DEF Statement
  <2>2. Held(t)'
    BY <2>1, <1>2, RowsAreRows, JobFields DEF LeaveLockRoom, At, IInv, Moved, Held, RoomHeld, PairHeld,
       InvitesDropped, Wants, Accepting, Deleting, CredentialStatements
  <2>3. Known(t)'
    BY <2>1, <1>2 DEF LeaveLockRoom, At, IInv, Moved, Known, InvitesDropped,
       Accepting, CredentialStatements
  <2> QED BY <1>2, <2>2, <2>3, GotoKeeps DEF Statement
<1> QED BY <1>1, <1>2 DEF LeaveLockRoom, Check

LEMMA DeleteRoomRowKeeps ==
  ASSUME IInv, NEW t \in Tx, DeleteRoomRow(t)
  PROVE  IInv'
<1>1. CASE Refuse(t)
  BY <1>1, RefuseKeeps
<1>2. CASE Goto(t, "cascade") /\ UNCHANGED db
  <2>1. Moved(t, "cascade")
    BY <1>2, GotoMoved DEF Statement
  <2>2. Held(t)'
    BY <2>1, <1>2, RowsAreRows, JobFields DEF DeleteRoomRow, At, IInv, Moved, Held, RoomHeld, PairHeld,
       InvitesDropped, Wants, Accepting, Deleting, CredentialStatements
  <2>3. Known(t)'
    BY <2>1, <1>2 DEF DeleteRoomRow, At, IInv, Moved, Known, InvitesDropped,
       Accepting, CredentialStatements
  <2> QED BY <1>2, <2>2, <2>3, GotoKeeps DEF Statement
<1> QED BY <1>1, <1>2 DEF DeleteRoomRow, Check

LEMMA AdmitCheckBlocksKeeps ==
  ASSUME IInv, NEW t \in Tx, AdmitCheckBlocks(t)
  PROVE  IInv'
<1>1. CASE Refuse(t)
  BY <1>1, RefuseKeeps
<1>2. CASE Goto(t, "insert") /\ UNCHANGED db
  <2>1. Moved(t, "insert")
    BY <1>2, GotoMoved DEF Statement
  <2>2. Held(t)'
    BY <2>1, <1>2, RowsAreRows, JobFields DEF AdmitCheckBlocks, At, IInv, Moved, Held, RoomHeld, PairHeld,
       InvitesDropped, Wants, Accepting, Deleting, CredentialStatements
  <2>3. Known(t)'
    BY <2>1, <1>2 DEF AdmitCheckBlocks, At, IInv, Moved, Known, InvitesDropped,
       Accepting, CredentialStatements, AnyBlock
  <2> QED BY <1>2, <2>2, <2>3, GotoKeeps DEF Statement
<1> QED BY <1>1, <1>2 DEF AdmitCheckBlocks, Check

LEMMA AdmitInsertKeeps ==
  ASSUME IInv, NEW t \in Tx, AdmitInsert(t)
  PROVE  IInv'
<1>1. Goto(t, "commit") /\ UNCHANGED db
  BY DEF AdmitInsert
<1>2. Moved(t, "commit")
  BY <1>1, GotoMoved DEF Statement
<1>3. Held(t)'
  BY <1>2, RowsAreRows, JobFields DEF AdmitInsert, At, IInv, Moved, Held, RoomHeld, PairHeld,
       InvitesDropped, Wants, Accepting, Deleting, CredentialStatements
<1>4. Known(t)'
  BY <1>2 DEF AdmitInsert, At, IInv, Moved, Known, InvitesDropped,
       Accepting, CredentialStatements, AnyBlock
<1> QED BY <1>1, <1>3, <1>4, GotoKeeps DEF Statement

LEMMA LockGroupKeeps ==
  ASSUME IInv, NEW t \in Tx, LockGroup(t)
  PROVE  IInv'
<1>1. Goto(t, "lockRoom") /\ UNCHANGED db
  BY DEF LockGroup
<1>2. Moved(t, "lockRoom")
  BY <1>1, GotoMoved DEF Statement
<1>3. Held(t)'
  BY <1>2, RowsAreRows, JobFields DEF LockGroup, At, IInv, Moved, Held, RoomHeld, PairHeld,
       InvitesDropped, Wants, Accepting, Deleting, CredentialStatements
<1>4. Known(t)'
  BY <1>2 DEF LockGroup, At, IInv, Moved, Known, InvitesDropped,
       Accepting, CredentialStatements
<1> QED BY <1>1, <1>3, <1>4, GotoKeeps DEF Statement

LEMMA CascadeCredentialsKeeps ==
  ASSUME IInv, NEW t \in Tx, CascadeCredentials(t)
  PROVE  IInv'
<1>1. Goto(t, "commit") /\ UNCHANGED db
  BY DEF CascadeCredentials
<1>2. Moved(t, "commit")
  BY <1>1, GotoMoved DEF Statement
<1>5. \A u \in invited : u \in User /\ InviteRow(u) \in Wants(t)
  BY DEF CascadeCredentials, At, Wants, IInv, Typed
<1>3. Held(t)'
  BY <1>2, <1>5, RowsAreRows, JobFields DEF CascadeCredentials, At, IInv, Moved, Held, RoomHeld, PairHeld,
       InvitesDropped, Wants, Accepting, Deleting, CredentialStatements
<1>4. Known(t)'
  BY <1>2 DEF CascadeCredentials, At, IInv, Moved, Known, InvitesDropped,
       Accepting, CredentialStatements
<1> QED BY <1>1, <1>3, <1>4, GotoKeeps DEF Statement

LEMMA InviteUpsertKeeps ==
  ASSUME IInv, NEW t \in Tx, InviteUpsert(t)
  PROVE  IInv'
<1>1. Goto(t, "commit") /\ UNCHANGED db
  BY DEF InviteUpsert
<1>2. Moved(t, "commit")
  BY <1>1, GotoMoved DEF Statement
<1>5. /\ job[t].to \notin invited => ProfileRow(job[t].to) \in References(t)
      /\ InviteRow(job[t].to) \in Wants(t)
      /\ job[t].kind = "invite" /\ job[t].to \in User
  BY JobFields DEF InviteUpsert, At, Wants, References, IInv
<1>3. Held(t)'
  BY <1>2, <1>5, RowsAreRows, JobFields DEF InviteUpsert, At, IInv, Moved, Held, RoomHeld, PairHeld,
       InvitesDropped, Wants, Accepting, Deleting, CredentialStatements
<1>4. Known(t)'
  BY <1>2 DEF InviteUpsert, At, IInv, Moved, Known, InvitesDropped,
       Accepting, CredentialStatements
<1> QED BY <1>1, <1>3, <1>4, GotoKeeps DEF Statement

LEMMA LockLowKeeps ==
  ASSUME IInv, NEW t \in Tx, LockLow(t)
  PROVE  IInv'
<1>1. Goto(t, "lockHigh") /\ UNCHANGED db
  BY DEF LockLow
<1>2. Moved(t, "lockHigh")
  BY <1>1, GotoMoved DEF Statement
<1>5. /\ ProfileRow(Lower(job[t].by, job[t].to)) \in Wants(t)
      /\ Lower(job[t].by, job[t].to) \in User /\ job[t].kind = "block"
  BY JobFields DEF LockLow, At, Wants, IInv, Lower
<1>3. Held(t)'
  BY <1>2, <1>5, RowsAreRows, JobFields DEF LockLow, At, IInv, Moved, Held, RoomHeld, PairHeld,
       InvitesDropped, Wants, Accepting, Deleting, CredentialStatements
<1>4. Known(t)'
  BY <1>2 DEF LockLow, At, IInv, Moved, Known, InvitesDropped,
       Accepting, CredentialStatements
<1> QED BY <1>1, <1>3, <1>4, GotoKeeps DEF Statement

LEMMA DropInvitesKeeps ==
  ASSUME IInv, NEW t \in Tx, DropInvites(t)
  PROVE  IInv'
<1>1. Goto(t, "scanRooms") /\ UNCHANGED db
  BY DEF DropInvites
<1>2. Moved(t, "scanRooms")
  BY <1>1, GotoMoved DEF Statement
<1>5. /\ \A u \in Crossing(job[t].by, job[t].to) :
           u \in User /\ InviteRow(u) \in Wants(t)
      /\ Crossing(job[t].by, job[t].to)' = Crossing(job[t].by, job[t].to)
      /\ job[t].kind = "block" /\ job[t].by \in User /\ job[t].to \in User
  BY <1>2, JobFields DEF DropInvites, At, Wants, IInv, Crossing, Moved, Typed
<1>3. Held(t)'
  BY <1>2, <1>5, RowsAreRows, JobFields DEF DropInvites, At, IInv, Moved, Held, RoomHeld, PairHeld,
       InvitesDropped, Wants, Accepting, Deleting, CredentialStatements
<1>4. Known(t)'
  BY <1>2 DEF DropInvites, At, IInv, Moved, Known, InvitesDropped,
       Accepting, CredentialStatements
<1> QED BY <1>1, <1>3, <1>4, GotoKeeps DEF Statement

LEMMA SeparateKeeps ==
  ASSUME IInv, NEW t \in Tx, Separate(t)
  PROVE  IInv'
<1>1. Goto(t, "commit") /\ UNCHANGED db
  BY DEF Separate
<1>2. Moved(t, "commit")
  BY <1>1, GotoMoved DEF Statement
<1>5. /\ \A u \in Crossing(job[t].by, job[t].to) : u \in User
      /\ Crossing(job[t].by, job[t].to)' = Crossing(job[t].by, job[t].to)
      /\ job[t].kind = "block" /\ job[t].by \in User /\ job[t].to \in User
      /\ RoomRow \in Wants(t)
  BY <1>2, JobFields DEF Separate, At, Wants, IInv, Crossing, Moved, Typed
<1>3. Held(t)'
  BY <1>2, <1>5, RowsAreRows, JobFields DEF Separate, At, IInv, Moved, Held, RoomHeld, PairHeld,
       InvitesDropped, Wants, Accepting, Deleting, CredentialStatements
<1>4. Known(t)'
  BY <1>2 DEF Separate, At, IInv, Moved, Known, InvitesDropped,
       Accepting, CredentialStatements
<1> QED BY <1>1, <1>3, <1>4, GotoKeeps DEF Statement

\* A member already is admitted again without an insert.
LEMMA AdmitCheckRoomKeeps ==
  ASSUME IInv, NEW t \in Tx, AdmitCheckRoom(t)
  PROVE  IInv'
<1>1. CASE Refuse(t)
  BY <1>1, RefuseKeeps
<1>2. ASSUME NEW label \in {"commit", "checkBlocks"}, Goto(t, label), UNCHANGED db,
             IF label = "commit" THEN job[t].by \in members
                                 ELSE Cardinality(members) < Cap
      PROVE  IInv'
  <2>1. Moved(t, label)
    BY <1>2, GotoMoved DEF Statement
  <2>2. Held(t)'
    BY <2>1, <1>2, RowsAreRows, JobFields DEF AdmitCheckRoom, At, IInv, Moved, Held, RoomHeld,
       PairHeld, InvitesDropped, Wants, Accepting, Deleting, CredentialStatements
  <2>3. Known(t)'
    BY <2>1, <1>2 DEF AdmitCheckRoom, At, IInv, Moved, Known, InvitesDropped,
       Accepting, CredentialStatements, AnyBlock
  <2> QED BY <1>2, <2>2, <2>3, GotoKeeps DEF Statement
<1>3. CASE job[t].by \in members
  BY <1>2, <1>3 DEF AdmitCheckRoom
<1>4. CASE job[t].by \notin members
  BY <1>1, <1>2, <1>4 DEF AdmitCheckRoom, Check
<1> QED BY <1>3, <1>4

\* The pair's second profile; a block that is there already goes on to its end.
LEMMA LockHighKeeps ==
  ASSUME IInv, NEW t \in Tx, LockHigh(t)
  PROVE  IInv'
<1> DEFINE b == job[t].by
           x == job[t].to
<1>1. PICK label \in {"commit", "dropInvites"} :
        Goto(t, label) /\ (label = "commit" => <<b, x>> \in block)
  BY DEF LockHigh
<1>2. Moved(t, label)
  BY <1>1, GotoMoved DEF LockHigh, Statement
<1>3. /\ job[t].kind = "block" /\ job[t].at = "lockHigh" /\ b \in User /\ x \in User
      /\ job[t].shares = FALSE
  BY JobFields DEF LockHigh, At, IInv, Known
<1>4. ProfileRow(Upper(b, x)) \in Wants(t)
  BY <1>3 DEF Wants
<1>5. ProfileRow(b) \in Row /\ ProfileRow(x) \in Row
  BY <1>3, RowsAreRows
<1>6. {Lower(b, x), Upper(b, x)} = {b, x} /\ Lower(b, x) \in User
  BY <1>3 DEF Lower, Upper
<1>7. t \in locked'[ProfileRow(b)] /\ t \in locked'[ProfileRow(x)]
  <2>1. t \in locked[ProfileRow(Lower(b, x))]
    BY <1>3 DEF IInv, Held
  <2>2. /\ t \in locked'[ProfileRow(Lower(b, x))]
        /\ t \in locked'[ProfileRow(Upper(b, x))]
    <3>1. Upper(b, x) \in User
      BY <1>3 DEF Upper
    <3> QED BY <1>2, <1>4, <1>6, <2>1, <3>1, RowsAreRows DEF Moved
  <2> QED BY <1>6, <2>2 DEF Lower, Upper
<1> HIDE DEF b, x
<1>8. Held(t)'
  <2>1. ~ RoomHeld(job[t])'
    BY <1>1, <1>2, <1>3 DEF Moved, RoomHeld, Accepting, Deleting
  <2>2. ~ InvitesDropped(job[t])'
    BY <1>1, <1>2, <1>3 DEF Moved, InvitesDropped, b, x
  <2> QED BY <1>1, <1>2, <1>3, <1>7, <2>1, <2>2 DEF Moved, Held, Deleting, b, x
<1>9. Known(t)'
  <2>1. ~ InvitesDropped(job[t])'
    BY <1>1, <1>2, <1>3 DEF Moved, InvitesDropped, b, x
  <2> QED BY <1>1, <1>2, <1>3, <2>1 DEF Moved, Known, IInv, Accepting
<1> QED BY <1>1, <1>8, <1>9, GotoKeeps DEF LockHigh, Statement

\* The rooms the pair is seen to share.
LEMMA ScanRoomsKeeps ==
  ASSUME IInv, NEW t \in Tx, ScanRooms(t)
  PROVE  IInv'
<1>1. PICK j \in Job :
        /\ j.kind = job[t].kind /\ j.by = job[t].by /\ j.to = job[t].to
        /\ j.shares = ({j.by, j.to} \subseteq members)
        /\ j.at = IF j.shares THEN "separate" ELSE "commit"
        /\ Run(t, j)
  <2> DEFINE shares == {job[t].by, job[t].to} \subseteq members
             label == IF shares THEN "separate" ELSE "commit"
             j == [job[t] EXCEPT !.shares = shares, !.at = label]
  <2>1. /\ j \in Job /\ j.kind = job[t].kind /\ j.by = job[t].by /\ j.to = job[t].to
        /\ j.shares = shares /\ j.at = label
    BY JobFields DEF IInv, Job, Statement
  <2>2. Run(t, j)
    BY DEF ScanRooms
  <2> QED BY <2>1, <2>2
<1>2. UNCHANGED <<members, invited, uses, open, block, sponsored>>
  BY DEF ScanRooms, db
<1>3. /\ job[t].kind = "block" /\ job[t].at = "scanRooms"
      /\ j.by \in User /\ j.to \in User /\ j.by # j.to /\ j.kind = "block"
  BY <1>1, JobFields DEF ScanRooms, At, IInv, Known
<1>4. /\ job'[t] = j
      /\ \A row \in Row : t \in locked[row] => t \in locked'[row]
  BY <1>1, RunLocks DEF IInv
<1>5. \A u \in Crossing(j.by, j.to) : u \in User /\ InviteRow(u) \in Row
  BY RowsAreRows DEF Crossing, IInv, Typed
<1>6. Held(t)'
  <2>1. /\ t \in locked'[ProfileRow(j.by)] /\ t \in locked'[ProfileRow(j.to)]
    BY <1>1, <1>3, <1>4, RowsAreRows DEF IInv, Held, PairHeld
  <2>2. InvitesDropped(j) => \A u \in Crossing(j.by, j.to) : t \in locked'[InviteRow(u)]
    BY <1>1, <1>3, <1>4, <1>5 DEF IInv, Held, InvitesDropped
  <2>3. ~ RoomHeld(j)
    BY <1>1, <1>3 DEF RoomHeld, Accepting, Deleting
  <2>4. /\ Crossing(j.by, j.to)' = Crossing(j.by, j.to)
        /\ InvitesDropped(j)' = InvitesDropped(j)
    BY <1>2 DEF Crossing, InvitesDropped
  <2>5. j.at # "lockHigh"
    BY <1>1
  <2> QED BY <1>3, <1>4, <2>1, <2>2, <2>3, <2>4, <2>5 DEF Held, PairHeld, Deleting
<1>7. Known(t)'
  <2>1. sponsored \subseteq members
    BY DEF IInv, Kept
  <2>2. ~ j.shares => \A u \in sponsored : {u, Owner} = {j.by, j.to} => Owner \notin members
    BY <1>1, <2>1
  <2> QED BY <1>1, <1>2, <1>3, <1>4, <2>2 DEF Known, Accepting
<1>8. UNCHANGED db
  BY DEF ScanRooms
<1> QED BY <1>1, <1>6, <1>7, <1>8, RunKeeps

----------------------------------------------------------------------------
(* Commits.                                                                *)

\* Who runs under the lock of the room, of the link or of an invitation does
\* so alone.
LEMMA AloneInRoom ==
  ASSUME IInv, NEW t \in Tx, RoomHeld(job[t]), NEW s \in Tx, s # t
  PROVE  ~ RoomHeld(job[s])
BY RowsAreRows, OneHolder DEF IInv, Held

LEMMA AloneOnLink ==
  ASSUME IInv, NEW t \in Tx, job[t].kind = "acceptLink", job[t].at \in CredentialStatements,
         NEW s \in Tx, s # t, job[s].kind = "acceptLink"
  PROVE  job[s].at \notin CredentialStatements
BY RowsAreRows, OneHolder DEF IInv, Held

LEMMA AloneOnInvite ==
  ASSUME IInv, NEW t \in Tx, NEW u \in User, t \in locked[InviteRow(u)],
         NEW s \in Tx, s # t
  PROVE  /\ s \notin locked[InviteRow(u)]
         /\ job[s].kind = "accept" /\ job[s].at \in CredentialStatements => job[s].by # u
         /\ InvitesDropped(job[s]) => u \notin Crossing(job[s].by, job[s].to)
BY RowsAreRows, OneHolder DEF IInv, Held

\* The transactions that go on have what they had.
LEMMA OthersAsTheyWere ==
  ASSUME IInv, NEW t \in Tx, NEW label \in Rest, End(t, label), NEW s \in Tx, s # t
  PROVE  /\ job'[s] = job[s] /\ job[s].by \in User /\ job[s].to \in User
         /\ \A row \in Row : /\ s \in locked'[row] <=> s \in locked[row]
                             /\ s \in keyed'[row] <=> s \in keyed[row]
BY EndLocks, JobFields DEF IInv

\* Seats are freed by a smaller set of members.
LEMMA FewerSeats ==
  ASSUME IInv, members' \subseteq members
  PROVE  CapacityRespected'
<1>1. IsFiniteSet(members)
  BY AdmissionAssumption, FS_Subset DEF IInv, Typed
<1>2. /\ Cardinality(members') <= Cardinality(members)
      /\ Cardinality(members) \in Nat /\ Cardinality(members') \in Nat
  BY <1>1, FS_Subset, FS_CardinalityType
<1> QED BY <1>2, AdmissionAssumption DEF IInv, Kept, CapacityRespected

LEMMA CommitLeaveKeeps ==
  ASSUME IInv, NEW t \in Tx, CommitLeave(t)
  PROVE  IInv'
<1>1. /\ members' = members \ {job[t].by} /\ sponsored' = sponsored \ {job[t].by}
      /\ UNCHANGED <<invited, uses, open, friend, block>>
      /\ End(t, "committed") /\ "committed" \in Rest
      /\ RoomHeld(job[t])
  BY DEF CommitLeave, At, RoomHeld, Rest
<1>2. CapacityRespected'
  BY <1>1, FewerSeats
<1>3. Kept'
  BY <1>1, <1>2 DEF IInv, Kept, LinkBudget, InviterBlockSeparates, AnyBlock
<1>4. ASSUME NEW s \in Tx \ {t}
      PROVE  (Held(s) /\ Known(s))'
  <2>1. ~ RoomHeld(job[s])
    BY <1>1, AloneInRoom
  <2>2. /\ job'[s] = job[s] /\ job[s].by \in User /\ job[s].to \in User
        /\ \A row \in Row : /\ s \in locked'[row] <=> s \in locked[row]
                            /\ s \in keyed'[row] <=> s \in keyed[row]
    BY <1>1, OthersAsTheyWere
  <2>3. /\ Lower(job[s].by, job[s].to) \in User
        /\ Crossing(job[s].by, job[s].to) \subseteq User
        /\ Crossing(job[s].by, job[s].to)' = Crossing(job[s].by, job[s].to)
        /\ InvitesDropped(job[s])' <=> InvitesDropped(job[s])
    BY <1>1, <2>2 DEF Lower, Crossing, InvitesDropped, IInv, Typed
  <2>4. invited \subseteq User
    BY DEF IInv, Typed
  <2>5. Held(s)'
    BY <1>1, <2>1, <2>2, <2>3, <2>4, RowsAreRows DEF IInv, Held, RoomHeld, PairHeld
  <2>6. Known(s)'
    BY <1>1, <2>1, <2>2, <2>3 DEF IInv, Known, RoomHeld, AnyBlock
  <2> QED BY <2>5, <2>6
<1> QED BY <1>1, <1>3, <1>4, EndKeeps DEF IInv, Typed

LEMMA CommitDeleteKeeps ==
  ASSUME IInv, NEW t \in Tx, CommitDelete(t)
  PROVE  IInv'
<1>1. /\ members' = {} /\ sponsored' = {} /\ invited' = {} /\ open' = FALSE
      /\ UNCHANGED <<uses, friend, block>>
      /\ End(t, "committed") /\ "committed" \in Rest
      /\ RoomHeld(job[t]) /\ job[t].kind \in Deleting /\ job[t].at = "commit"
  BY DEF CommitDelete, At, RoomHeld, Rest, Deleting
<1>2. CapacityRespected'
  BY <1>1, FewerSeats
<1>3. Kept'
  BY <1>1, <1>2 DEF IInv, Kept, LinkBudget, InviterBlockSeparates, AnyBlock
<1>4. ASSUME NEW s \in Tx \ {t}
      PROVE  (Held(s) /\ Known(s))'
  <2>1. ~ RoomHeld(job[s])
    BY <1>1, AloneInRoom
  <2>2. /\ job'[s] = job[s] /\ job[s].by \in User /\ job[s].to \in User
        /\ \A row \in Row : /\ s \in locked'[row] <=> s \in locked[row]
                            /\ s \in keyed'[row] <=> s \in keyed[row]
    BY <1>1, OthersAsTheyWere
  <2>3. /\ Lower(job[s].by, job[s].to) \in User
        /\ Crossing(job[s].by, job[s].to)' = {}
        /\ InvitesDropped(job[s])' <=> InvitesDropped(job[s])
    BY <1>1, <2>2 DEF Lower, Crossing, InvitesDropped
  <2>4. Held(s)'
    BY <1>1, <2>1, <2>2, <2>3, RowsAreRows DEF IInv, Held, RoomHeld, PairHeld
  <2>5. ~ (job[s].kind = "accept" /\ job[s].at \in CredentialStatements)
    <3>1. \A u \in invited : t \in locked[InviteRow(u)] /\ u \in User
      BY <1>1 DEF IInv, Held, Typed
    <3>2. job[s].kind = "accept" /\ job[s].at \in CredentialStatements => job[s].by \in invited
      BY DEF IInv, Known
    <3> QED BY <3>1, <3>2, AloneOnInvite
  <2>6. Known(s)'
    BY <1>1, <2>1, <2>2, <2>3, <2>5 DEF IInv, Known, RoomHeld, AnyBlock
  <2> QED BY <2>4, <2>6
<1> QED BY <1>1, <1>3, <1>4, EndKeeps DEF IInv, Typed

\* A new invitation of a pair waits for the profiles a block of it holds.
LEMMA CommitInviteKeeps ==
  ASSUME IInv, NEW t \in Tx, CommitInvite(t)
  PROVE  IInv'
<1> DEFINE u == job[t].to
<1>1. /\ invited' = invited \cup {u}
      /\ UNCHANGED <<members, uses, open, friend, block, sponsored>>
      /\ End(t, "committed") /\ "committed" \in Rest
      /\ RoomHeld(job[t]) /\ job[t].kind = "invite" /\ job[t].at = "commit"
  BY DEF CommitInvite, At, RoomHeld, Rest
<1>2. u \in User /\ u # Owner
  BY <1>1, JobFields DEF IInv, Known
<1>3. t \in keyed[ProfileRow(u)] \/ u \in invited
  BY <1>1 DEF IInv, Held
<1>4. Kept'
  BY <1>1, <1>2 DEF IInv, Kept, CapacityRespected, LinkBudget, InviterBlockSeparates, AnyBlock
<1>5. ASSUME NEW s \in Tx \ {t}
      PROVE  (Held(s) /\ Known(s))'
  <2>1. ~ RoomHeld(job[s])
    BY <1>1, AloneInRoom
  <2>2. /\ job'[s] = job[s] /\ job[s].by \in User /\ job[s].to \in User
        /\ \A row \in Row : /\ s \in locked'[row] <=> s \in locked[row]
                            /\ s \in keyed'[row] <=> s \in keyed[row]
    BY <1>1, OthersAsTheyWere
  <2>3. /\ Lower(job[s].by, job[s].to) \in User
        /\ Crossing(job[s].by, job[s].to) \subseteq User
        /\ InvitesDropped(job[s])' <=> InvitesDropped(job[s])
    BY <1>1, <2>2 DEF Lower, Crossing, InvitesDropped, IInv, Typed
  <2>4. InvitesDropped(job[s]) =>
          Crossing(job[s].by, job[s].to)' \subseteq Crossing(job[s].by, job[s].to)
    <3>1. CASE u \in invited
      BY <1>1, <2>2, <3>1 DEF Crossing
    <3>2. CASE u \notin invited
      <4> SUFFICES ASSUME InvitesDropped(job[s])
                   PROVE  u \notin {job[s].by, job[s].to}
        BY <1>1, <2>2 DEF Crossing
      <4>1. t \in keyed[ProfileRow(u)]
        BY <1>3, <3>2
      <4>2. /\ s \in locked[ProfileRow(job[s].by)]
            /\ s \in locked[ProfileRow(job[s].to)]
        BY DEF InvitesDropped, IInv, Held, PairHeld
      <4> QED BY <1>2, <4>1, <4>2, RowsAreRows, OneHolder DEF IInv
    <3> QED BY <3>1, <3>2
  <2> HIDE DEF u
  <2>5. Held(s)'
    BY <1>1, <2>1, <2>2, <2>3, <2>4, RowsAreRows DEF IInv, Held, RoomHeld, PairHeld
  <2>6. Known(s)'
    BY <1>1, <2>1, <2>2, <2>3 DEF IInv, Known, RoomHeld, AnyBlock
  <2> QED BY <2>5, <2>6
<1>6. invited' \subseteq User
  BY <1>1, <1>2 DEF IInv, Typed
<1> QED BY <1>1, <1>4, <1>5, <1>6, EndKeeps DEF IInv, Typed

\* The member that an acceptance adds had a seat checked for it.
LEMMA SeatTaken ==
  ASSUME IInv, NEW t \in Tx, CommitAccept(t)
  PROVE  CapacityRespected'
<1> DEFINE u == job[t].by
<1>1. members' = members \cup {u} /\ (u \in members \/ Cardinality(members) < Cap)
  BY DEF CommitAccept, At, IInv, Known, Accepting
<1>2. IsFiniteSet(members) /\ Cardinality(members) \in Nat
  BY AdmissionAssumption, FS_Subset, FS_CardinalityType DEF IInv, Typed
<1>3. CASE u \in members
  <2>1. members' = members
    BY <1>1, <1>3
  <2> QED BY <2>1 DEF IInv, Kept, CapacityRespected
<1>4. CASE u \notin members
  <2>1. Cardinality(members') = Cardinality(members) + 1
    BY <1>1, <1>2, <1>4, FS_AddElement
  <2> QED BY <1>1, <1>2, <1>4, <2>1, AdmissionAssumption DEF CapacityRespected
<1> QED BY <1>3, <1>4

LEMMA CommitAcceptKeeps ==
  ASSUME IInv, NEW t \in Tx, CommitAccept(t)
  PROVE  IInv'
<1> DEFINE u == job[t].by
<1>1. /\ members' = members \cup {u}
      /\ UNCHANGED <<open, friend, block>>
      /\ End(t, "committed") /\ "committed" \in Rest
      /\ RoomHeld(job[t]) /\ job[t].kind \in Accepting /\ job[t].at = "commit"
      /\ job[t].at \in CredentialStatements
  BY DEF CommitAccept, At, RoomHeld, Rest, Accepting, CredentialStatements
<1>2. u \in User /\ u # Owner
  BY <1>1, JobFields DEF IInv, Known
<1>3. \/ /\ job[t].kind = "accept"
         /\ invited' = invited \ {u} /\ sponsored' = sponsored \cup ({u} \ members)
         /\ uses' = uses
         /\ u \in invited /\ ~ AnyBlock(u, Owner) /\ t \in locked[InviteRow(u)]
      \/ /\ job[t].kind = "acceptLink"
         /\ uses' = uses + 1 /\ uses < MaxUses
         /\ invited' = invited /\ sponsored' = sponsored
  BY <1>1 DEF CommitAccept, Accepting, IInv, Known, Held
<1> HIDE DEF u
<1>4. CapacityRespected'
  BY SeatTaken
<1>5. Kept'
  <2>1. sponsored' \subseteq members' /\ Owner \notin invited'
    BY <1>1, <1>3 DEF IInv, Kept
  <2>2. LinkBudget'
    BY <1>3, AdmissionAssumption DEF IInv, Kept, LinkBudget, Typed
  <2>3. InviterBlockSeparates'
    BY <1>1, <1>2, <1>3 DEF IInv, Kept, InviterBlockSeparates, AnyBlock
  <2> QED BY <1>4, <2>1, <2>2, <2>3 DEF Kept
<1>6. ASSUME NEW s \in Tx \ {t}
      PROVE  (Held(s) /\ Known(s))'
  <2>1. ~ RoomHeld(job[s])
    BY <1>1, AloneInRoom
  <2>2. /\ job'[s] = job[s] /\ job[s].by \in User /\ job[s].to \in User
        /\ \A row \in Row : /\ s \in locked'[row] <=> s \in locked[row]
                            /\ s \in keyed'[row] <=> s \in keyed[row]
    BY <1>1, OthersAsTheyWere
  <2>3. /\ Lower(job[s].by, job[s].to) \in User
        /\ Crossing(job[s].by, job[s].to) \subseteq User
        /\ Crossing(job[s].by, job[s].to)' \subseteq Crossing(job[s].by, job[s].to)
        /\ InvitesDropped(job[s])' <=> InvitesDropped(job[s])
    BY <1>1, <1>3, <2>2 DEF Lower, Crossing, InvitesDropped, IInv, Typed
  <2>4. Held(s)'
    BY <1>1, <2>1, <2>2, <2>3, RowsAreRows DEF IInv, Held, RoomHeld, PairHeld
  <2>5. job[s].kind = "acceptLink" /\ job[s].at \in CredentialStatements => uses' < MaxUses
    BY <1>1, <1>3, AloneOnLink DEF IInv, Known
  <2>6. job[s].kind = "accept" /\ job[s].at \in CredentialStatements => job[s].by \in invited'
    <3>1. job[s].kind = "accept" /\ job[s].at \in CredentialStatements => job[s].by \in invited
      BY DEF IInv, Known
    <3> QED BY <1>2, <1>3, <3>1, AloneOnInvite
  <2>7. ASSUME InvitesDropped(job[s]), job[s].at = "commit", ~ job[s].shares,
               NEW v \in sponsored', {v, Owner} = {job[s].by, job[s].to}
        PROVE  Owner \notin members'
    <3>1. CASE v \in sponsored
      BY <1>1, <1>2, <2>7, <3>1 DEF IInv, Known
    <3>2. CASE v \notin sponsored
      <4>1. v = u /\ job[t].kind = "accept" /\ u \in invited /\ t \in locked[InviteRow(u)]
        BY <1>3, <3>2
      <4>2. u \in Crossing(job[s].by, job[s].to)
        BY <2>7, <4>1 DEF Crossing
      <4> QED BY <1>2, <2>7, <4>1, <4>2, AloneOnInvite
    <3> QED BY <3>1, <3>2
  <2>8. Known(s)'
    BY <1>1, <2>1, <2>2, <2>3, <2>5, <2>6, <2>7 DEF IInv, Known, RoomHeld, AnyBlock
  <2> QED BY <2>4, <2>8
<1>7. /\ members' \subseteq User /\ invited' \subseteq User /\ sponsored' \subseteq User
      /\ uses' \in Nat
  BY <1>1, <1>2, <1>3 DEF IInv, Typed
<1> QED BY <1>1, <1>5, <1>6, <1>7, EndKeeps DEF IInv, Typed

\* A block finds the pair in the room, or no invitation of theirs in anybody's
\* hands.
LEMMA CommitBlockKeeps ==
  ASSUME IInv, NEW t \in Tx, CommitBlock(t)
  PROVE  IInv'
<1> DEFINE b == job[t].by
           x == job[t].to
           crossing == IF <<b, x>> \in block THEN {} ELSE Crossing(b, x)
           out == IF ~ job[t].shares THEN {} ELSE IF b = Owner THEN {x} ELSE {b}
<1>1. /\ block' = block \cup {<<b, x>>} /\ friend' = friend \ {{b, x}}
      /\ invited' = invited \ crossing
      /\ members' = members \ out /\ sponsored' = sponsored \ out
      /\ UNCHANGED <<uses, open>>
      /\ End(t, "committed") /\ "committed" \in Rest
      /\ job[t].kind = "block" /\ job[t].at = "commit"
  BY DEF CommitBlock, At, Rest
<1>2. b \in User /\ x \in User /\ b # x
  BY <1>1, JobFields DEF IInv, Known
<1>3. \A u \in crossing : u \in User /\ t \in locked[InviteRow(u)]
  BY <1>1 DEF IInv, Held, Typed, InvitesDropped, Crossing
<1>4. job[t].shares \/ (members' = members /\ sponsored' = sponsored)
  BY <1>1
<1>5. job[t].shares => RoomHeld(job[t])
  BY <1>1 DEF RoomHeld
<1>6. CapacityRespected'
  BY <1>1, FewerSeats
<1>7. InviterBlockSeparates'
  <2> SUFFICES ASSUME NEW u \in sponsored', u \in members', Owner \in members',
                      AnyBlock(u, Owner)'
               PROVE  FALSE
    BY DEF InviterBlockSeparates
  <2>1. ~ AnyBlock(u, Owner)
    BY <1>1 DEF IInv, Kept, InviterBlockSeparates
  <2>2. {u, Owner} = {b, x} /\ <<b, x>> \notin block
    BY <1>1, <2>1 DEF AnyBlock
  <2>3. CASE job[t].shares
    BY <1>1, <1>2, <2>2, <2>3
  <2>4. CASE ~ job[t].shares
    <3>1. InvitesDropped(job[t])
      BY <1>1, <2>2 DEF InvitesDropped
    <3> QED BY <1>1, <2>2, <2>4, <3>1 DEF IInv, Known
  <2> QED BY <2>3, <2>4
<1>8. Kept'
  BY <1>1, <1>6, <1>7 DEF IInv, Kept, LinkBudget
<1>9. ASSUME NEW s \in Tx \ {t}
      PROVE  (Held(s) /\ Known(s))'
  <2>1. RoomHeld(job[s]) => members' = members /\ sponsored' = sponsored
    BY <1>4, <1>5, AloneInRoom
  <2>2. /\ job'[s] = job[s] /\ job[s].by \in User /\ job[s].to \in User
        /\ \A row \in Row : /\ s \in locked'[row] <=> s \in locked[row]
                            /\ s \in keyed'[row] <=> s \in keyed[row]
    BY <1>1, OthersAsTheyWere
  <2>3. /\ Lower(job[s].by, job[s].to) \in User
        /\ Crossing(job[s].by, job[s].to) \subseteq User
        /\ Crossing(job[s].by, job[s].to)' \subseteq Crossing(job[s].by, job[s].to)
        /\ InvitesDropped(job[s])' => InvitesDropped(job[s])
        /\ invited' \subseteq invited /\ invited \subseteq User
    BY <1>1, <2>2 DEF Lower, Crossing, InvitesDropped, IInv, Typed
  <2>4. job[s].to \in invited /\ s \in locked[InviteRow(job[s].to)] => job[s].to \in invited'
    BY <1>1, <1>3, AloneOnInvite
  <2>5. job[s].kind = "accept" /\ job[s].at \in CredentialStatements =>
          job[s].by \in invited /\ job[s].by \notin crossing /\ job[s].by \in invited'
    <3>1. job[s].kind = "accept" /\ job[s].at \in CredentialStatements => job[s].by \in invited
      BY DEF IInv, Known
    <3> QED BY <1>1, <1>3, <3>1, AloneOnInvite
  <2>6. job[s].kind = "accept" /\ job[s].at \in CredentialStatements \ {"checkFriend"} =>
          ~ AnyBlock(job[s].by, Owner)'
    <3> SUFFICES ASSUME job[s].kind = "accept",
                        job[s].at \in CredentialStatements \ {"checkFriend"},
                        AnyBlock(job[s].by, Owner)'
                 PROVE  FALSE
      BY <2>2
    <3>1. ~ AnyBlock(job[s].by, Owner) /\ job[s].by \in invited /\ job[s].by \notin crossing
      BY <2>5 DEF IInv, Known
    <3>2. {job[s].by, Owner} = {b, x} /\ <<b, x>> \notin block
      BY <1>1, <2>2, <3>1 DEF AnyBlock
    <3> QED BY <3>1, <3>2 DEF Crossing
  <2> HIDE DEF b, x, crossing, out
  <2>7. Held(s)'
    BY <2>2, <2>3, <2>4, RowsAreRows DEF IInv, Held, RoomHeld, PairHeld
  <2>8. Known(s)'
    BY <1>1, <2>1, <2>2, <2>3, <2>5, <2>6 DEF IInv, Known, RoomHeld
  <2> QED BY <2>7, <2>8
<1>10. /\ members' \subseteq User /\ invited' \subseteq User /\ sponsored' \subseteq User
       /\ friend' \subseteq SUBSET User /\ block' \subseteq User \X User
  BY <1>1, <1>2 DEF IInv, Typed
<1> QED BY <1>1, <1>8, <1>9, <1>10, EndKeeps DEF IInv, Typed

----------------------------------------------------------------------------
(* The inductive invariant.                                                *)

LEMMA InitEstablishes == Init => IInv
<1> SUFFICES ASSUME Init PROVE IInv
  OBVIOUS
<1>1. job \in [Tx -> Job] /\ \A t \in Tx : job[t].kind = "none"
  BY AdmissionAssumption DEF Init, Idle, Job, Rest
<1>2. Typed /\ Exclusive
  BY <1>1 DEF Init, Typed, Exclusive
<1>3. Kept
  BY AdmissionAssumption DEF Init, Kept, CapacityRespected, LinkBudget,
     InviterBlockSeparates
<1>4. \A t \in Tx : Held(t) /\ Known(t)
  BY <1>1 DEF Held, Known, RoomHeld, PairHeld, InvitesDropped, Accepting, Deleting
<1> QED BY <1>2, <1>3, <1>4 DEF IInv

LEMMA StepKeeps ==
  ASSUME IInv, NEW t \in Tx, Step(t)
  PROVE  IInv'
<1>1. CASE LockInvite(t) \/ LockLink(t) \/ CheckFriend(t)
  BY <1>1, LockInviteKeeps, LockLinkKeeps, CheckFriendKeeps
<1>2. CASE AdmitLockRoom(t) \/ AdmitCheckRoom(t) \/ AdmitCheckBlocks(t) \/ AdmitInsert(t)
  BY <1>2, AdmitLockRoomKeeps, AdmitCheckRoomKeeps, AdmitCheckBlocksKeeps, AdmitInsertKeeps
<1>3. CASE InviteLockRoom(t) \/ InviteUpsert(t) \/ LeaveLockRoom(t)
  BY <1>3, InviteLockRoomKeeps, InviteUpsertKeeps, LeaveLockRoomKeeps
<1>4. CASE LockGroup(t) \/ DeleteRoomRow(t) \/ CascadeCredentials(t)
  BY <1>4, LockGroupKeeps, DeleteRoomRowKeeps, CascadeCredentialsKeeps
<1>5. CASE LockLow(t) \/ LockHigh(t) \/ DropInvites(t) \/ ScanRooms(t) \/ Separate(t)
  BY <1>5, LockLowKeeps, LockHighKeeps, DropInvitesKeeps, ScanRoomsKeeps, SeparateKeeps
<1>6. CASE CommitAccept(t) \/ CommitInvite(t) \/ CommitLeave(t)
  BY <1>6, CommitAcceptKeeps, CommitInviteKeeps, CommitLeaveKeeps
<1>7. CASE CommitDelete(t) \/ CommitBlock(t)
  BY <1>7, CommitDeleteKeeps, CommitBlockKeeps
<1>8. CASE AbortVictim(t)
  BY <1>8, RollbackKeeps DEF AbortVictim, Rest
<1> QED BY <1>1, <1>2, <1>3, <1>4, <1>5, <1>6, <1>7, <1>8 DEF Step

LEMMA StutterKeeps ==
  ASSUME IInv, UNCHANGED vars
  PROVE  IInv'
<1>1. /\ UNCHANGED <<members, invited, uses, open, friend, block, sponsored>>
      /\ UNCHANGED <<job, locked, keyed>>
  BY DEF vars, db
<1>2. Typed' /\ Exclusive'
  BY <1>1 DEF IInv, Typed, Exclusive
<1>3. Kept'
  BY <1>1 DEF IInv, Kept, CapacityRespected, LinkBudget, InviterBlockSeparates, AnyBlock
<1>4. ASSUME NEW s \in Tx
      PROVE  (Held(s) /\ Known(s))'
  BY <1>1, StillHolds DEF IInv
<1> QED BY <1>2, <1>3, <1>4 DEF IInv

\* Whatever statements interleave, a transaction at a statement holds the rows
\* that protect what it has checked.
THEOREM Invariance == Spec => []IInv
<1>1. Init => IInv
  BY InitEstablishes
<1>2. IInv /\ [Next]_vars => IInv'
  <2> SUFFICES ASSUME IInv, [Next]_vars PROVE IInv'
    OBVIOUS
  <2>1. ASSUME NEW t \in Tx, NEW kind \in Kinds, NEW u \in User, NEW v \in User,
               Begin(t, kind, u, v)
        PROVE  IInv'
    BY <2>1, BeginKeeps
  <2>2. ASSUME NEW t \in Tx, Step(t) PROVE IInv'
    BY <2>2, StepKeeps
  <2>3. CASE UNCHANGED vars
    BY <2>3, StutterKeeps
  <2> QED BY <2>1, <2>2, <2>3 DEF Next
<1> QED BY <1>1, <1>2, PTL DEF Spec

----------------------------------------------------------------------------
(* What it says of admissions.                                             *)

\* However many transactions race, a lock has one holder, the room holds at
\* most max_members and the link is used at most max_uses times.
THEOREM BudgetsStayKept == Spec => []BudgetsKept
<1>1. ASSUME IInv PROVE TypeOK
  <2>1. ASSUME NEW row \in Row PROVE Cardinality(locked[row]) <= 1
    <3>1. CASE locked[row] = {}
      BY <3>1, FS_EmptySet
    <3>2. CASE locked[row] # {}
      <4>1. PICK t \in locked[row] : locked[row] = {t}
        BY <1>1, <3>2 DEF IInv, Typed, Exclusive
      <4> QED BY <4>1, FS_Singleton
    <3> QED BY <3>1, <3>2
  <2> QED BY <1>1, <2>1 DEF IInv, Typed, TypeOK
<1>2. IInv => BudgetsKept
  BY <1>1 DEF IInv, Kept, BudgetsKept
<1> QED BY <1>2, Invariance, PTL

\* A block between a guest admitted by direct invitation and its inviter takes
\* the guest out, at whatever statement of whatever race it comes.
THEOREM BlocksSeparate == Spec => []InviterBlockSeparates
<1>1. IInv => InviterBlockSeparates
  BY DEF IInv, Kept
<1> QED BY <1>1, Invariance, PTL

----------------------------------------------------------------------------
(* Who can wait for whom, and how long a transaction runs.                 *)

\* The statements that a transaction of this kind may be before.
Fits(kind, at) ==
  \/ kind = "accept" /\ at \in {"lockInvite"} \cup CredentialStatements
  \/ kind = "acceptLink" /\ at \in {"lockLink"} \cup CredentialStatements
  \/ kind = "invite" /\ at \in {"lockRoom", "upsert", "commit"}
  \/ kind = "leave" /\ at \in {"lockRoom", "commit"}
  \/ kind \in Deleting /\ at \in {"lockRoom", "cascade", "commit"}
  \/ kind = "archive" /\ at = "lockGroup"
  \/ kind = "block" /\ at \in {"lockLow", "lockHigh", "dropInvites", "scanRooms",
                               "separate", "commit"}

\* At most how many steps a transaction still takes, from where it is.
Left(at) ==
  CASE at = "idle" -> 10
    [] at \in {"lockInvite", "lockLink", "lockGroup", "lockLow"} -> 9
    [] at \in {"checkFriend", "lockHigh"} -> 8
    [] at = "lockRoom" -> 7
    [] at = "dropInvites" -> 6
    [] at \in {"checkRoom", "scanRooms"} -> 5
    [] at \in {"checkBlocks", "separate"} -> 4
    [] at \in {"insert", "upsert", "cascade"} -> 3
    [] at = "commit" -> 1
    [] OTHER -> 0

\* The statements that may come next.
After(at) ==
  CASE at \in {"lockInvite", "lockLink"} -> {"checkFriend"}
    [] at \in {"checkFriend", "lockGroup"} -> {"lockRoom"}
    [] at = "lockRoom" -> {"checkRoom", "upsert", "cascade", "commit"}
    [] at = "checkRoom" -> {"checkBlocks", "commit"}
    [] at = "checkBlocks" -> {"insert"}
    [] at \in {"insert", "upsert", "cascade", "separate"} -> {"commit"}
    [] at = "lockLow" -> {"lockHigh"}
    [] at = "lockHigh" -> {"dropInvites", "commit"}
    [] at = "dropInvites" -> {"scanRooms"}
    [] at = "scanRooms" -> {"separate", "commit"}
    [] OTHER -> {}

\* A transaction is before a statement of its RPC or is none; and whoever holds
\* a row is one.
Accounted ==
  /\ \A t \in Tx : \/ Fits(job[t].kind, job[t].at)
                   \/ job[t].kind = "none" /\ job[t].at \in Rest
  /\ \A row \in Row : \A t \in locked[row] \cup keyed[row] : job[t].kind # "none"

\* The rows that t holds are no others than these: a key once its references are
\* checked, the room from its own statement on, and a block that still locks its
\* pair the profiles alone.
HoldsOnly(t) ==
  LET j == job[t] IN
  /\ \A row \in Row : t \in keyed[row] => j.at = "commit"
  /\ t \in locked[RoomRow] =>
       j.at \in {"checkRoom", "checkBlocks", "insert", "upsert", "cascade", "commit"}
  /\ j.at \in {"lockInvite", "lockLink", "lockGroup", "lockLow"} =>
       \A row \in Row : t \notin locked[row]
  /\ j.at = "lockHigh" =>
       \A row \in Row : t \in locked[row] => row = ProfileRow(Lower(j.by, j.to))
  /\ j.at = "dropInvites" =>
       \A row \in Row : t \in locked[row] => row \in {ProfileRow(j.by), ProfileRow(j.to)}

Holders == \A t \in Tx : HoldsOnly(t)

\* A step takes one transaction further and no other anywhere.
Further ==
  \E t \in Tx : /\ Left(job'[t].at) < Left(job[t].at)
                /\ \A s \in Tx \ {t} : job'[s] = job[s]

\* A transaction that moves on to its next statement, or ends.
MovesOn(t) ==
  \E j \in Job :
    /\ Run(t, j)
    /\ j.kind = job[t].kind /\ j.by = job[t].by /\ j.to = job[t].to
    /\ j.at \in After(job[t].at) /\ Fits(j.kind, j.at)
Ends(t) ==
  job[t].kind # "none" /\ \E label \in {"committed", "refused", "aborted"} : End(t, label)

LEMMA FitsStatement ==
  ASSUME NEW kind, NEW at, Fits(kind, at)
  PROVE  kind # "none" /\ at \in Statement /\ Left(at) > 0 /\ Left(at) < Left("idle")
BY DEF Fits, CredentialStatements, Deleting, Statement, Left

LEMMA AfterIsFurther ==
  ASSUME NEW at, NEW label \in After(at)
  PROVE  label \in Statement /\ Left(label) < Left(at)
BY DEF After, Left, Statement

LEMMA MovesOnAccounted ==
  ASSUME IInv, Accounted, NEW t \in Tx, MovesOn(t)
  PROVE  Accounted' /\ Further
<1>1. PICK j \in Job : /\ Run(t, j) /\ j.kind = job[t].kind
                       /\ j.at \in After(job[t].at) /\ Fits(j.kind, j.at)
  BY DEF MovesOn
<1>2. job'[t] = j /\ \A s \in Tx : s # t => job'[s] = job[s]
  BY <1>1, RunLocks DEF IInv
<1>3. \A row \in Row : /\ locked'[row] \subseteq locked[row] \cup {t}
                       /\ keyed'[row] \subseteq keyed[row] \cup {t}
  BY <1>1 DEF Run
<1>4. job'[t].kind # "none"
  BY <1>1, <1>2, FitsStatement
<1>5. Accounted'
  <2>1. \A s \in Tx : \/ Fits(job'[s].kind, job'[s].at)
                      \/ job'[s].kind = "none" /\ job'[s].at \in Rest
    BY <1>1, <1>2 DEF Accounted
  <2>2. ASSUME NEW row \in Row, NEW s \in locked'[row] \cup keyed'[row]
        PROVE  job'[s].kind # "none"
    <3>1. s = t \/ s \in locked[row] \cup keyed[row]
      BY <1>3
    <3>2. s \in Tx
      BY <3>1 DEF IInv, Typed
    <3> QED BY <1>2, <1>4, <3>1, <3>2 DEF Accounted
  <2> QED BY <2>1, <2>2 DEF Accounted
<1>6. Further
  BY <1>1, <1>2, AfterIsFurther DEF Further
<1> QED BY <1>5, <1>6

\* What a statement locks, it may hold at the next.
LEMMA MovesOnHolders ==
  ASSUME IInv, Holders, NEW t \in Tx, MovesOn(t)
  PROVE  Holders'
<1>1. PICK j \in Job : /\ Run(t, j) /\ j.kind = job[t].kind
                       /\ j.by = job[t].by /\ j.to = job[t].to
                       /\ j.at \in After(job[t].at) /\ Fits(j.kind, j.at)
  BY DEF MovesOn
<1>2. job'[t] = j /\ \A s \in Tx : s # t => job'[s] = job[s]
  BY <1>1, RunLocks DEF IInv
<1>3. \A row \in Row :
        /\ \A s \in Tx : s \in locked'[row] => s \in locked[row] \/ (s = t /\ row \in Wants(t))
        /\ \A s \in Tx : s \in keyed'[row] => s \in keyed[row] \/ (s = t /\ row \in References(t))
  BY <1>1 DEF Run
<1>4. ASSUME NEW s \in Tx, s # t PROVE HoldsOnly(s)'
  <2>1. HoldsOnly(s)
    BY DEF Holders
  <2> QED BY <1>2, <1>3, <1>4, <2>1, RowsAreRows DEF HoldsOnly
<1>5. HoldsOnly(t)'
  <2>1. HoldsOnly(t)
    BY DEF Holders
  <2>2. ASSUME NEW row \in Row, t \in keyed'[row] PROVE j.at = "commit"
    <3>1. t \in keyed[row] \/ row \in References(t)
      BY <1>3, <2>2
    <3>2. job[t].at \in {"insert", "upsert", "commit"}
      BY <2>1, <3>1 DEF HoldsOnly, References
    <3> QED BY <1>1, <3>2 DEF After
  <2>3. ASSUME t \in locked'[RoomRow]
        PROVE  j.at \in {"checkRoom", "checkBlocks", "insert", "upsert", "cascade", "commit"}
    <3>1. t \in locked[RoomRow] \/ RoomRow \in Wants(t)
      BY <1>3, <2>3, RowsAreRows
    <3>2. RoomRow \in Wants(t) => job[t].at \in {"lockRoom", "separate"}
      BY DEF Wants, RoomRow, LinkRow, GroupRow, InviteRow, ProfileRow
    <3> QED BY <1>1, <2>1, <3>1, <3>2 DEF After, HoldsOnly
  <2>4. j.at \notin {"lockInvite", "lockLink", "lockGroup", "lockLow"}
    BY <1>1 DEF After
  <2>5. ASSUME j.at = "lockHigh", NEW row \in Row, t \in locked'[row]
        PROVE  row = ProfileRow(Lower(j.by, j.to))
    <3>1. job[t].at = "lockLow"
      BY <1>1, <2>5 DEF After
    <3> QED BY <1>1, <1>3, <2>1, <2>5, <3>1 DEF HoldsOnly, Wants
  <2>6. ASSUME j.at = "dropInvites", NEW row \in Row, t \in locked'[row]
        PROVE  row \in {ProfileRow(j.by), ProfileRow(j.to)}
    <3>1. job[t].at = "lockHigh"
      BY <1>1, <2>6 DEF After
    <3> QED BY <1>1, <1>3, <2>1, <2>6, <3>1 DEF HoldsOnly, Wants, Lower, Upper
  <2> QED BY <1>2, <2>2, <2>3, <2>4, <2>5, <2>6 DEF HoldsOnly
<1> QED BY <1>4, <1>5 DEF Holders

LEMMA EndsAccounted ==
  ASSUME IInv, Accounted, NEW t \in Tx, Ends(t)
  PROVE  Accounted' /\ Further
<1>1. PICK label \in {"committed", "refused", "aborted"} : End(t, label)
  BY DEF Ends
<1>2. label \in Rest /\ Left(label) = 0
  BY DEF Rest, Left
<1>3. /\ job'[t].kind = "none" /\ \A s \in Tx : s # t => job'[s] = job[s]
      /\ job'[t].at = label
  <2>1. job'[t] = [Idle EXCEPT !.at = label]
    BY <1>1 DEF End, IInv, Typed
  <2> QED BY <1>1, <1>2, <2>1, EndLocks DEF IInv, Idle
<1>4. \A row \in Row : /\ locked'[row] = locked[row] \ {t}
                       /\ keyed'[row] = keyed[row] \ {t}
  BY <1>1 DEF End
<1>5. Accounted'
  <2>1. ASSUME NEW row \in Row, NEW s \in locked'[row] \cup keyed'[row]
        PROVE  job'[s].kind # "none"
    <3>1. s # t /\ s \in locked[row] \cup keyed[row]
      BY <1>4
    <3>2. s \in Tx
      BY <3>1 DEF IInv, Typed
    <3> QED BY <1>3, <3>1, <3>2 DEF Accounted
  <2> QED BY <1>2, <1>3, <2>1 DEF Accounted
<1>6. Left(job[t].at) > 0
  BY FitsStatement DEF Accounted, Ends
<1> QED BY <1>2, <1>3, <1>5, <1>6 DEF Further

LEMMA EndsHolders ==
  ASSUME IInv, Holders, NEW t \in Tx, Ends(t)
  PROVE  Holders'
<1>1. PICK label \in {"committed", "refused", "aborted"} : End(t, label)
  BY DEF Ends
<1>2. label \in Rest
  BY DEF Rest
<1>3. \A s \in Tx : s # t => job'[s] = job[s]
  BY <1>1, <1>2, EndLocks DEF IInv
<1>4. \A row \in Row : /\ locked'[row] = locked[row] \ {t}
                       /\ keyed'[row] = keyed[row] \ {t}
  BY <1>1 DEF End
<1>5. ASSUME NEW s \in Tx, s # t PROVE HoldsOnly(s)'
  <2>1. HoldsOnly(s)
    BY DEF Holders
  <2> QED BY <1>3, <1>4, <1>5, <2>1, RowsAreRows DEF HoldsOnly
<1>6. HoldsOnly(t)'
  BY <1>4, RowsAreRows DEF HoldsOnly
<1> QED BY <1>5, <1>6 DEF Holders

LEMMA BeginAccounted ==
  ASSUME IInv, Accounted, NEW t \in Tx, NEW kind \in Kinds, NEW u \in User, NEW v \in User,
         Begin(t, kind, u, v)
  PROVE  Accounted' /\ Further
<1> DEFINE j == [kind |-> kind, by |-> u, to |-> v,
                 at |-> FirstStatement(kind), shares |-> FALSE]
<1>1. job[t].at = "idle" /\ UNCHANGED <<locked, keyed>> /\ job' = [job EXCEPT ![t] = j]
  BY DEF Begin
<1>2. job'[t] = j /\ \A s \in Tx : s # t => job'[s] = job[s]
  BY <1>1 DEF IInv, Typed
<1>3. j.kind = kind /\ j.at = FirstStatement(kind)
  OBVIOUS
<1>4. Fits(kind, FirstStatement(kind))
  <2>1. kind \in {"accept", "acceptLink", "invite", "leave", "close", "archive", "block"}
    BY AdmissionAssumption
  <2> QED BY <2>1 DEF Fits, FirstStatement, Deleting, CredentialStatements
<1> HIDE DEF j
<1>5. Accounted'
  <2>1. job'[t].kind # "none"
    BY <1>2, <1>3, <1>4, FitsStatement
  <2>2. ASSUME NEW row \in Row, NEW s \in locked'[row] \cup keyed'[row]
        PROVE  job'[s].kind # "none"
    <3>1. s \in locked[row] \cup keyed[row] /\ s \in Tx
      BY <1>1 DEF IInv, Typed
    <3> QED BY <1>2, <2>1, <3>1 DEF Accounted
  <2> QED BY <1>2, <1>3, <1>4, <2>2 DEF Accounted
<1>6. Left(job'[t].at) < Left(job[t].at)
  BY <1>1, <1>2, <1>3, <1>4, FitsStatement
<1> QED BY <1>2, <1>5, <1>6 DEF Further

\* One that begins holds nothing: only transactions hold rows.
LEMMA BeginHolders ==
  ASSUME IInv, Accounted, Holders, NEW t \in Tx, NEW kind \in Kinds, NEW u \in User,
         NEW v \in User, Begin(t, kind, u, v)
  PROVE  Holders'
<1>1. job[t].at = "idle" /\ UNCHANGED <<locked, keyed>>
  BY DEF Begin
<1>2. \A s \in Tx : s # t => job'[s] = job[s]
  BY DEF Begin, IInv, Typed
<1>3. job[t].kind = "none"
  <2>1. ~ Fits(job[t].kind, job[t].at)
    BY <1>1 DEF Fits, CredentialStatements, Deleting
  <2> QED BY <2>1 DEF Accounted
<1>4. \A row \in Row : t \notin locked[row] \cup keyed[row]
  BY <1>3 DEF Accounted
<1>5. HoldsOnly(t)'
  BY <1>1, <1>4, RowsAreRows DEF HoldsOnly
<1>6. ASSUME NEW s \in Tx, s # t PROVE HoldsOnly(s)'
  <2>1. HoldsOnly(s)
    BY DEF Holders
  <2> QED BY <1>1, <1>2, <1>6, <2>1 DEF HoldsOnly
<1> QED BY <1>5, <1>6 DEF Holders

LEMMA GotoMovesOn ==
  ASSUME IInv, NEW t \in Tx, NEW label \in After(job[t].at), Goto(t, label),
         Fits(job[t].kind, label)
  PROVE  MovesOn(t)
<1> DEFINE j == [job[t] EXCEPT !.at = label]
<1>1. label \in Statement
  BY AfterIsFurther
<1>2. /\ j \in Job /\ j.kind = job[t].kind /\ j.at = label
      /\ j.by = job[t].by /\ j.to = job[t].to
  BY <1>1, JobFields DEF IInv, Job
<1>3. Run(t, j)
  BY DEF Goto
<1> HIDE DEF j
<1> QED BY <1>2, <1>3 DEF MovesOn

\* A check refuses or moves on.
LEMMA RefusedOrMoves ==
  ASSUME IInv, NEW t \in Tx, NEW next \in After(job[t].at), Refuse(t) \/ Goto(t, next),
         Fits(job[t].kind, next)
  PROVE  MovesOn(t) \/ Ends(t)
<1>1. CASE Refuse(t)
  BY <1>1, FitsStatement DEF Refuse, Ends
<1>2. CASE Goto(t, next)
  BY <1>2, GotoMovesOn
<1> QED BY <1>1, <1>2

\* The loop's query moves on to the room it has found, or to the end.
LEMMA ScanMovesOn ==
  ASSUME IInv, NEW t \in Tx, ScanRooms(t)
  PROVE  MovesOn(t)
<1> DEFINE found == {job[t].by, job[t].to} \subseteq members
           label == IF found THEN "separate" ELSE "commit"
           j == [job[t] EXCEPT !.shares = found, !.at = label]
<1>1. Run(t, j) /\ job[t].kind = "block" /\ job[t].at = "scanRooms"
  BY DEF ScanRooms, At
<1>2. /\ j \in Job /\ j.kind = "block" /\ j.at \in {"separate", "commit"}
      /\ j.by = job[t].by /\ j.to = job[t].to
  <2>1. PICK r \in Job : r = job[t]
    BY JobFields DEF IInv
  <2>2. found \in BOOLEAN /\ label \in {"separate", "commit"} /\ r.kind = "block"
    BY <1>1, <2>1
  <2>3. j = [r EXCEPT !.shares = found, !.at = label]
    BY <2>1
  <2> HIDE DEF j, found, label
  <2> QED BY <2>1, <2>2, <2>3 DEF Job, Statement
<1> HIDE DEF j
<1>3. j.at \in After(job[t].at) /\ Fits(j.kind, j.at)
  BY <1>1, <1>2 DEF After, Fits
<1> QED BY <1>1, <1>2, <1>3 DEF MovesOn

LEMMA StepMovesOrEnds ==
  ASSUME IInv, Accounted, NEW t \in Tx, Step(t)
  PROVE  MovesOn(t) \/ Ends(t)
<1> USE DEF At
<1>1. ASSUME LockInvite(t) \/ LockLink(t) \/ CheckFriend(t) \/ AdmitLockRoom(t)
               \/ AdmitCheckBlocks(t)
      PROVE  MovesOn(t) \/ Ends(t)
  <2>1. CASE (LockInvite(t) \/ LockLink(t)) /\ (Refuse(t) \/ Goto(t, "checkFriend"))
    BY <2>1, RefusedOrMoves DEF LockInvite, LockLink, Fits, After, CredentialStatements
  <2>2. CASE CheckFriend(t) /\ (Refuse(t) \/ Goto(t, "lockRoom"))
    BY <2>2, RefusedOrMoves DEF CheckFriend, Fits, After, CredentialStatements
  <2>3. CASE AdmitLockRoom(t) /\ (Refuse(t) \/ Goto(t, "checkRoom"))
    BY <2>3, RefusedOrMoves DEF AdmitLockRoom, Fits, After, CredentialStatements
  <2>4. CASE AdmitCheckBlocks(t) /\ (Refuse(t) \/ Goto(t, "insert"))
    BY <2>4, RefusedOrMoves DEF AdmitCheckBlocks, Fits, After, CredentialStatements
  <2> QED BY <1>1, <2>1, <2>2, <2>3, <2>4 DEF LockInvite, LockLink, CheckFriend,
             AdmitLockRoom, AdmitCheckBlocks, Check
<1>2. ASSUME InviteLockRoom(t) \/ LeaveLockRoom(t) \/ DeleteRoomRow(t)
      PROVE  MovesOn(t) \/ Ends(t)
  <2>1. CASE InviteLockRoom(t) /\ (Refuse(t) \/ Goto(t, "upsert"))
    BY <2>1, RefusedOrMoves DEF InviteLockRoom, Fits, After
  <2>2. CASE LeaveLockRoom(t) /\ (Refuse(t) \/ Goto(t, "commit"))
    BY <2>2, RefusedOrMoves DEF LeaveLockRoom, Fits, After
  <2>3. CASE DeleteRoomRow(t) /\ (Refuse(t) \/ Goto(t, "cascade"))
    BY <2>3, RefusedOrMoves DEF DeleteRoomRow, Fits, After, Deleting
  <2> QED BY <1>2, <2>1, <2>2, <2>3 DEF InviteLockRoom, LeaveLockRoom, DeleteRoomRow, Check
<1>3. ASSUME AdmitCheckRoom(t) PROVE MovesOn(t) \/ Ends(t)
  <2>1. CASE Goto(t, "commit")
    BY <1>3, <2>1, GotoMovesOn DEF AdmitCheckRoom, Fits, After, CredentialStatements
  <2>2. CASE Check(t, Cardinality(members) < Cap, "checkBlocks")
    BY <1>3, <2>2, RefusedOrMoves DEF AdmitCheckRoom, Check, Fits, After,
       CredentialStatements
  <2> QED BY <1>3, <2>1, <2>2 DEF AdmitCheckRoom
<1>4. ASSUME AdmitInsert(t) \/ InviteUpsert(t) \/ LockGroup(t) \/ CascadeCredentials(t)
      PROVE  MovesOn(t)
  BY <1>4, GotoMovesOn DEF AdmitInsert, InviteUpsert, LockGroup, CascadeCredentials,
     Fits, After, CredentialStatements, Deleting
<1>5. ASSUME LockLow(t) \/ LockHigh(t) \/ DropInvites(t) \/ Separate(t)
      PROVE  MovesOn(t)
  BY <1>5, GotoMovesOn DEF LockLow, LockHigh, DropInvites, Separate, Fits, After
<1>6. ASSUME CommitAccept(t) \/ CommitInvite(t) \/ CommitLeave(t) \/ CommitDelete(t)
               \/ CommitBlock(t)
      PROVE  Ends(t)
  BY <1>6 DEF CommitAccept, CommitInvite, CommitLeave, CommitDelete, CommitBlock, Ends
<1>7. ASSUME AbortVictim(t) PROVE Ends(t)
  <2>1. WaitsFor(t) # {}
    BY <1>7 DEF AbortVictim, Deadlocked
  <2>2. Wants(t) # {} \/ References(t) # {}
    BY <2>1 DEF WaitsFor
  <2>3. job[t].at \notin Rest
    BY <2>2 DEF Wants, References, Rest
  <2> QED BY <1>7, <2>3, FitsStatement DEF AbortVictim, Ends, Accounted
<1> QED BY <1>1, <1>2, <1>3, <1>4, <1>5, <1>6, <1>7, ScanMovesOn DEF Step

LEMMA AccountedInvariance == Spec => [](IInv /\ Accounted /\ Holders)
<1>1. Init => Accounted /\ Holders
  BY RowsAreRows DEF Init, Accounted, Holders, HoldsOnly, Idle, Rest
<1>2. IInv /\ Accounted /\ Holders /\ [Next]_vars => (Accounted /\ Holders)'
  <2> SUFFICES ASSUME IInv, Accounted, Holders, [Next]_vars PROVE (Accounted /\ Holders)'
    OBVIOUS
  <2>1. ASSUME NEW t \in Tx, NEW kind \in Kinds, NEW u \in User, NEW v \in User,
               Begin(t, kind, u, v)
        PROVE  (Accounted /\ Holders)'
    BY <2>1, BeginAccounted, BeginHolders
  <2>2. ASSUME NEW t \in Tx, Step(t) PROVE (Accounted /\ Holders)'
    BY <2>2, StepMovesOrEnds, MovesOnAccounted, MovesOnHolders, EndsAccounted, EndsHolders
  <2>3. CASE UNCHANGED vars
    BY <2>3 DEF vars, Accounted, Holders, HoldsOnly
  <2> QED BY <2>1, <2>2, <2>3 DEF Next
<1> QED BY <1>1, <1>2, Invariance, PTL DEF Spec

\* Every step takes one transaction nearer its end and moves no other, so that
\* n transactions take 10 n steps at most, in whatever order.
THEOREM EveryStepCounts == Spec => [][Further]_vars
<1>1. IInv /\ Accounted /\ [Next]_vars => [Further]_vars
  <2> SUFFICES ASSUME IInv, Accounted, Next PROVE Further
    OBVIOUS
  <2>1. ASSUME NEW t \in Tx, NEW kind \in Kinds, NEW u \in User, NEW v \in User,
               Begin(t, kind, u, v)
        PROVE  Further
    BY <2>1, BeginAccounted
  <2>2. ASSUME NEW t \in Tx, Step(t) PROVE Further
    BY <2>2, StepMovesOrEnds, MovesOnAccounted, EndsAccounted
  <2> QED BY <2>1, <2>2 DEF Next
<1> QED BY <1>1, AccountedInvariance, PTL DEF Spec

----------------------------------------------------------------------------
(* The circles in which transactions may wait.                             *)

\* Statements want rows that there are.
LEMMA RowsWanted ==
  ASSUME Typed, NEW t \in Tx
  PROVE  Wants(t) \subseteq Row /\ References(t) \subseteq Row
<1>1. job[t].by \in User /\ job[t].to \in User /\ Owner \in User /\ invited \subseteq User
  BY JobFields, AdmissionAssumption DEF Typed
<1>2. Lower(job[t].by, job[t].to) \in User /\ Upper(job[t].by, job[t].to) \in User
  BY <1>1 DEF Lower, Upper
<1>3. Crossing(job[t].by, job[t].to) \subseteq User
  BY <1>1 DEF Crossing
<1>4. GroupRow \in Row
  BY DEF Row
<1>5. Wants(t) \subseteq Row
  BY <1>1, <1>2, <1>3, <1>4, RowsAreRows DEF Wants
<1>6. References(t) \subseteq Row
  BY <1>1, RowsAreRows DEF References
<1> QED BY <1>5, <1>6

LEMMA LeastNumber ==
  ASSUME NEW N \in SUBSET Nat, N # {}
  PROVE  \E n \in N : \A m \in N : n <= m
<1>1. \E n \in N : \A m \in N : ~ (<<m, n>> \in OpToRel(<, Nat))
  BY NatLessThanWellFounded, WFMin
<1>2. PICK n \in N : \A m \in N : ~ (<<m, n>> \in OpToRel(<, Nat))
  BY <1>1
<1>3. \A m \in N : ~ (m < n)
  BY <1>2 DEF OpToRel
<1> QED BY <1>3

\* Among accounts, one has the greatest id: the fewest ids are above its own.
LEMMA GreatestUser ==
  ASSUME NEW U \in SUBSET User, U # {}
  PROVE  \E u \in U : \A v \in U : v <= u
<1> DEFINE Above(u) == {v \in User : v > u}
           N == {Cardinality(Above(u)) : u \in U}
<1>1. IsFiniteSet(User) /\ User \subseteq Nat
  BY AdmissionAssumption
<1>2. \A u \in U : IsFiniteSet(Above(u)) /\ Cardinality(Above(u)) \in Nat
  BY <1>1, FS_Subset, FS_CardinalityType
<1>3. N \in SUBSET Nat /\ N # {}
  BY <1>2
<1> HIDE DEF N
<1>4. PICK n \in N : \A m \in N : n <= m
  BY <1>3, LeastNumber
<1>5. PICK u \in U : n = Cardinality(Above(u))
  BY DEF N
<1>6. ASSUME NEW v \in U, v > u PROVE FALSE
  <2>1. Above(v) \subseteq Above(u) /\ v \in Above(u) /\ v \notin Above(v)
    <3>1. u \in Nat /\ v \in Nat /\ v \in User
      BY <1>1
    <3>2. \A w \in User : w > v => w > u
      BY <1>1, <1>6, <3>1
    <3>3. ~ (v > v)
      BY <3>1
    <3> QED BY <1>6, <3>1, <3>2, <3>3
  <2>2. /\ Cardinality(Above(v)) <= Cardinality(Above(u))
        /\ Cardinality(Above(v)) = Cardinality(Above(u)) => Above(v) = Above(u)
    BY <1>2, <2>1, FS_Subset
  <2>3. Cardinality(Above(v)) < Cardinality(Above(u))
    <3> HIDE DEF Above
    <3> QED BY <1>2, <2>1, <2>2
  <2>4. Cardinality(Above(v)) \in N
    BY DEF N
  <2> HIDE DEF Above
  <2> QED BY <1>2, <1>4, <1>5, <2>3, <2>4
<1> QED BY <1>1, <1>6

\* In a circle without such a statement all would be blocks locking the second
\* profile of their pair, each for a profile with a greater id than the last.
LEMMA CirclesNeedTheRoom ==
  ASSUME IInv, Accounted, Holders
  PROVE  DeadlocksGoThroughTheRoom
<1> SUFFICES ASSUME NEW S \in (SUBSET Tx) \ {{}}, Deadlocked(S),
                    \A t \in S : ~ /\ t \in locked[RoomRow]
                                   /\ job[t].at \in {"insert", "upsert", "cascade"}
             PROVE  FALSE
  BY DEF DeadlocksGoThroughTheRoom
<1> DEFINE Reaching == {"insert", "upsert", "cascade"}
           Waiting == {"lockInvite", "lockLink", "lockGroup", "lockRoom", "separate",
                       "lockLow", "lockHigh", "dropInvites"}
<1>1. ASSUME NEW t \in S PROVE job[t].at \in Waiting
  <2>1. WaitsFor(t) # {}
    BY DEF Deadlocked
  <2>2. job[t].at \in Waiting \cup Reaching
    BY <2>1 DEF WaitsFor, Wants, References
  <2>3. job[t].at \in Reaching => RoomHeld(job[t])
    <3>1. job[t].at \in Reaching => Fits(job[t].kind, job[t].at)
      BY DEF Accounted, Rest
    <3> QED BY <3>1 DEF Fits, RoomHeld, Accepting, Deleting, CredentialStatements
  <2>4. RoomHeld(job[t]) => t \in locked[RoomRow]
    BY DEF IInv, Held
  <2> QED BY <2>2, <2>3, <2>4
<1>2. ASSUME NEW t \in S
      PROVE  \E s \in S, row \in Row : row \in Wants(t) /\ s \in locked[row]
  <2>1. PICK s \in S : s \in WaitsFor(t)
    BY DEF Deadlocked
  <2>2. References(t) = {}
    BY <1>1 DEF References
  <2>3. PICK row \in Wants(t) : s \in locked[row] \cup keyed[row]
    BY <2>1, <2>2 DEF WaitsFor
  <2>4. row \in Row
    BY <2>3, RowsWanted DEF IInv
  <2>5. s \notin keyed[row]
    BY <1>1, <2>4 DEF Holders, HoldsOnly
  <2> QED BY <2>3, <2>4, <2>5
<1>3. ASSUME NEW s \in S PROVE s \notin locked[RoomRow]
  BY <1>1 DEF Holders, HoldsOnly
<1>4. ASSUME NEW s \in S, NEW row \in Row, s \in locked[row]
      PROVE  job[s].at \in {"lockRoom", "separate", "lockHigh", "dropInvites"}
  BY <1>1, <1>4 DEF Holders, HoldsOnly
<1>5. ASSUME NEW t \in S PROVE job[t].at \notin {"lockRoom", "separate"}
  <2>1. job[t].at \in {"lockRoom", "separate"} => Wants(t) = {RoomRow}
    BY DEF Wants
  <2> QED BY <1>2, <1>3, <2>1
<1>6. ASSUME NEW s \in S, NEW row \in Row, s \in locked[row]
      PROVE  \E u \in User : row = ProfileRow(u)
  <2>1. job[s].at \in {"lockHigh", "dropInvites"}
    BY <1>4, <1>5, <1>6
  <2>2. job[s].by \in User /\ job[s].to \in User
    BY JobFields DEF IInv
  <2> QED BY <1>6, <2>1, <2>2 DEF Holders, HoldsOnly, Lower
<1>7. ASSUME NEW t \in S PROVE job[t].at \in {"lockLow", "lockHigh"}
  <2>1. PICK row \in Wants(t), u \in User : row = ProfileRow(u)
    BY <1>2, <1>6
  <2>2. job[t].at \notin {"lockInvite", "lockLink", "lockGroup", "dropInvites"}
    BY <2>1 DEF Wants, LinkRow, GroupRow, InviteRow, ProfileRow
  <2> QED BY <1>1, <1>5, <2>2
<1>8. ASSUME NEW t \in S
      PROVE  \E s \in S : /\ job[s].at = "lockHigh"
                          /\ ProfileRow(Lower(job[s].by, job[s].to)) \in Wants(t)
  <2>1. PICK s \in S, row \in Row : row \in Wants(t) /\ s \in locked[row]
    BY <1>2
  <2>2. job[s].at = "lockHigh"
    BY <1>4, <1>7, <2>1
  <2>3. row = ProfileRow(Lower(job[s].by, job[s].to))
    BY <2>1, <2>2 DEF Holders, HoldsOnly
  <2> QED BY <2>1, <2>2, <2>3
<1> DEFINE High == {t \in S : job[t].at = "lockHigh"}
           Up(t) == Upper(job[t].by, job[t].to)
           U == {Up(t) : t \in High}
<1>9. ASSUME NEW t \in High PROVE Up(t) \in User /\ \E s \in High : Up(s) > Up(t)
  <2>1. PICK s \in S : /\ job[s].at = "lockHigh"
                       /\ ProfileRow(Lower(job[s].by, job[s].to)) \in Wants(t)
    BY <1>8
  <2>2. Up(t) = Lower(job[s].by, job[s].to)
    <3>1. Wants(t) = {ProfileRow(Up(t))}
      BY DEF Wants
    <3> QED BY <2>1, <3>1 DEF ProfileRow
  <2>3. /\ job[s].by \in Nat /\ job[s].to \in Nat
        /\ job[t].by \in User /\ job[t].to \in User
    BY JobFields, AdmissionAssumption DEF IInv
  <2>4. job[s].by # job[s].to
    <3>1. job[s].kind = "block"
      BY <2>1 DEF Accounted, Fits, Rest, CredentialStatements, Deleting
    <3> QED BY <3>1 DEF IInv, Known
  <2>5. Up(s) > Up(t)
    BY <2>2, <2>3, <2>4 DEF Lower, Upper
  <2>6. Up(t) \in User
    BY <2>3 DEF Upper
  <2> QED BY <2>1, <2>5, <2>6
<1>10. U \in SUBSET User /\ U # {}
  <2>1. High # {}
    BY <1>8
  <2> QED BY <1>9, <2>1
<1> HIDE DEF High, Up
<1>11. PICK u \in U : \A v \in U : v <= u
  BY <1>10, GreatestUser
<1>12. PICK t \in High : u = Up(t)
  BY <1>11
<1>13. PICK s \in High : Up(s) > u
  BY <1>9, <1>12
<1>14. Up(s) <= u
  BY <1>11
<1>15. Up(s) \in Nat /\ u \in Nat
  BY <1>9, <1>11, <1>10, AdmissionAssumption
<1> QED BY <1>13, <1>14, <1>15

\* Whatever races, transactions deadlock only through one that holds the room
\* and, in its insert, its upsert or its cascade, asks for rows that others lock
\* before the room; all other statements lock in one order.
THEOREM CirclesGoThroughTheRoom == Spec => []DeadlocksGoThroughTheRoom
<1>1. IInv /\ Accounted /\ Holders => DeadlocksGoThroughTheRoom
  BY CirclesNeedTheRoom
<1> QED BY <1>1, AccountedInvariance, PTL
=============================================================================
