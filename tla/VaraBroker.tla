------------------------------ MODULE VaraBroker ------------------------------
(***************************************************************************)
(* The local VARA broker (vara-broker/src): one task per connection, each  *)
(* calling the handlers of broker.rs, and each handler running under the   *)
(* one mutex that guards the clients and the rooms.  A step is one taking  *)
(* of that mutex, so a JOIN is two steps (rekey_client, handle_join) and a *)
(* LEAVE is followed by a second handle_leave when its task ends.          *)
(*                                                                         *)
(* On the other side stands the LocalTransport of each connection, which   *)
(* folds the broker's messages into a roster.  Outboxes are unbounded and  *)
(* first-in first-out, so view[c] is what LocalTransport shows once it has *)
(* read everything the broker has sent it.  Names, positions and errors    *)
(* are left out: they change no state here.                                *)
(***************************************************************************)
EXTENDS Naturals, Functions

CONSTANTS
  Conn,    \* connections; each is accepted at most once
  Client,  \* client ids sent in JOIN
  RoomId,
  None,    \* the None of an Option
  Joins,   \* [Conn -> the <<client id, room>> pairs it may send]
  MaxRev   \* bound on a room's revision

ASSUME BrokerAssumption ==
  /\ Conn \cap Client = {} /\ None \notin Conn \cup Client \cup RoomId
  /\ Joins \in [Conn -> SUBSET (Client \X RoomId)]
  /\ MaxRev \in Nat

VARIABLES
  client,   \* State.clients: client id, or the placeholder of a connection
  room,     \* State.rooms
  task,     \* the read loop of each connection
  nextSeq,  \* JOIN_SEQ
  view      \* what the LocalTransport of each connection has been told

vars == <<client, room, task, nextSeq, view>>

\* A connection is its own placeholder id.
Key == Conn \cup Client

ClientRow == [conn : Conn, room : RoomId \cup {None}, seq : Nat]
\* Room.members is a Vec read in no order: an id is pushed if it is absent.
RoomRow == [host : Key \cup {None}, rev : Nat, members : SUBSET Key,
            snap : [rev : Nat, by : Key] \cup {None}]
Task == [phase : {"none", "reading", "joining", "ending", "closed"}, key : Key,
         renamed : BOOLEAN, joins : RoomId \cup {None}]
View == [roster : SUBSET Key, hosts : SUBSET Key, rev : Nat, state : Nat]

NewRoom == [host |-> None, rev |-> 0, members |-> {}, snap |-> None]
Blank == [roster |-> {}, hosts |-> {}, rev |-> 0, state |-> 0]

Put(f, k, v) == [x \in DOMAIN f \cup {k} |-> IF x = k THEN v ELSE f[x]]
Remove(f, k) == Restrict(f, DOMAIN f \ {k})

\* st.clients.get(id) for each id: the connections a message to ids reaches.
Reached(ids) == {client[k].conn : k \in ids \cap DOMAIN client}

----------------------------------------------------------------------------
Init ==
  /\ client = <<>>
  /\ room = <<>>
  /\ task = [c \in Conn |-> [phase |-> "none", key |-> c, renamed |-> FALSE,
                             joins |-> None]]
  /\ nextSeq = 1
  /\ view = [c \in Conn |-> Blank]

\* handle_connection: a fresh connection is registered under its placeholder.
Register(c) ==
  /\ task[c].phase = "none"
  /\ client' = Put(client, c, [conn |-> c, room |-> None, seq |-> nextSeq])
  /\ nextSeq' = nextSeq + 1
  /\ task' = [task EXCEPT ![c].phase = "reading"]
  /\ UNCHANGED <<room, view>>

\* A JOIN frame.  The first one re-keys the connection from its placeholder, and
\* replaces the record that another connection has under the id; the id of a
\* later one is ignored.
RekeyClient(c, id, r) ==
  /\ task[c].phase = "reading" /\ <<id, r>> \in Joins[c]
  /\ IF task[c].renamed
       THEN /\ task' = [task EXCEPT ![c].phase = "joining", ![c].joins = r]
            /\ UNCHANGED client
       ELSE /\ task' = [task EXCEPT ![c] = [phase |-> "joining", key |-> id,
                                            renamed |-> TRUE, joins |-> r]]
            /\ client' = IF c \in DOMAIN client
                           THEN Put(Remove(client, c), id, client[c])
                           ELSE client
  /\ UNCHANGED <<room, nextSeq, view>>

\* Mutant of Joined: a member that joins again is made the host.
JoinedDeposing(row, k) ==
  [row EXCEPT !.members = @ \cup {k},
              !.host = IF @ = None \/ k \in row.members THEN k ELSE @]

\* What a room becomes when k joins it: the first member is its host.
Joined(row, k) ==
  [row EXCEPT !.members = @ \cup {k},
              !.host = IF @ = None THEN k ELSE @]

\* Mutant of Welcome: the snapshot is never adopted.
WelcomeWithoutSnapshot(row) ==
  LET known == row.members \cap DOMAIN client IN
  [roster |-> known, hosts |-> {row.host} \cap known, rev |-> row.rev, state |-> 0]

\* onWelcome: the roster is replaced, the snapshot adopted.
Welcome(row) ==
  LET known == row.members \cap DOMAIN client IN
  [roster |-> known, hosts |-> {row.host} \cap known, rev |-> row.rev,
   state |-> IF row.snap = None THEN 0 ELSE row.snap.rev]

\* memberJoined: the newcomer's entry is set, with its isHost mark.
MemberJoined(v, k, isHost) ==
  [v EXCEPT !.roster = @ \cup {k},
            !.hosts = IF isHost THEN @ \cup {k} ELSE @ \ {k}]

HandleJoin(c) ==
  LET k == task[c].key
      r == task[c].joins
      row == Joined(IF r \in DOMAIN room THEN room[r] ELSE NewRoom, k)
  IN
  /\ task[c].phase = "joining"
  /\ task' = [task EXCEPT ![c].phase = "reading", ![c].joins = None]
  /\ IF k \notin DOMAIN client
       THEN UNCHANGED <<client, room, view>>
       ELSE /\ client' = [client EXCEPT ![k].room = r]
            /\ room' = Put(room, r, row)
            /\ view' = [d \in Conn |->
                 IF d = client[k].conn THEN Welcome(row)
                 ELSE IF d \in Reached(row.members \ {k})
                   THEN MemberJoined(view[d], k, row.host = k)
                   ELSE view[d]]
  /\ UNCHANGED nextSeq

\* A command of the host: stamped with the next revision and fanned out to
\* all but its author.
HandleCmd(c, r) ==
  LET rev == room[r].rev + 1 IN
  /\ task[c].phase = "reading"
  /\ r \in DOMAIN room /\ room[r].host = task[c].key
  /\ room[r].rev < MaxRev
  /\ room' = [room EXCEPT ![r].rev = rev]
  /\ view' = [d \in Conn |->
       IF d \in Reached(room[r].members \ {task[c].key})
         THEN [view[d] EXCEPT !.rev = rev] ELSE view[d]]
  /\ UNCHANGED <<client, task, nextSeq>>

\* A state heartbeat, from whomever it comes: stamped, retained, fanned out.
HandleState(c, r) ==
  LET rev == room[r].rev + 1 IN
  /\ task[c].phase = "reading"
  /\ r \in DOMAIN room
  /\ room[r].rev < MaxRev
  /\ room' = [room EXCEPT ![r].rev = rev,
                          ![r].snap = [rev |-> rev, by |-> task[c].key]]
  /\ view' = [d \in Conn |->
       IF d \in Reached(room[r].members \ {task[c].key})
         THEN [view[d] EXCEPT !.rev = rev, !.state = rev] ELSE view[d]]
  /\ UNCHANGED <<client, task, nextSeq>>

(* handle_leave.                                                           *)

\* The lowest join_seq among those of ids that have a client record.
Oldest(ids) ==
  LET known == ids \cap DOMAIN client IN
  IF known = {} THEN None
  ELSE CHOOSE k \in known : \A m \in known : client[k].seq <= client[m].seq

\* Mutants of Departed: no succession; the member stays listed; the revision
\* starts again at an election.
DepartedHeadless(row, k) ==
  [row EXCEPT !.members = @ \ {k}]
DepartedListed(row, k) ==
  [row EXCEPT !.host = IF @ = k THEN Oldest(row.members \ {k}) ELSE @]
DepartedAfresh(row, k) ==
  LET rest == row.members \ {k} IN
  [row EXCEPT !.members = rest,
              !.host = IF @ = k THEN Oldest(rest) ELSE @,
              !.rev = IF row.host = k THEN 0 ELSE @]

\* What a room becomes when k leaves it; a departing host is succeeded.
Departed(row, k) ==
  LET rest == row.members \ {k} IN
  [row EXCEPT !.members = rest,
              !.host = IF @ = k THEN Oldest(rest) ELSE @]

\* Mutant: hostChanged is not folded into the roster.
MemberLeftOnly(v, k, row, elected) ==
  [v EXCEPT !.roster = @ \ {k}, !.hosts = @ \ {k}]

\* memberLeft, then hostChanged when the room has elected a new host.
MemberLeft(v, k, row, elected) ==
  LET roster == v.roster \ {k} IN
  [v EXCEPT !.roster = roster,
            !.hosts = IF elected THEN {row.host} \cap roster ELSE @ \ {k}]

Leave(k) ==
  IF k \in DOMAIN client /\ client[k].room \in DOMAIN room
    THEN LET r == client[k].room
             row == Departed(room[r], k)
             elected == room[r].host = k /\ row.host # None
         IN  /\ room' = IF row.members = {} THEN Remove(room, r)
                                              ELSE [room EXCEPT ![r] = row]
             /\ view' = [d \in Conn |->
                  IF d \in Reached(row.members)
                    THEN MemberLeft(view[d], k, row, elected) ELSE view[d]]
             /\ client' = Remove(client, k)
    ELSE /\ client' = Remove(client, k)
         /\ UNCHANGED <<room, view>>

\* A LEAVE frame: the handler runs and the read loop ends.
LeaveFrame(c) ==
  /\ task[c].phase = "reading"
  /\ Leave(task[c].key)
  /\ task' = [task EXCEPT ![c].phase = "ending"]
  /\ UNCHANGED nextSeq

\* End of file or a read error: the read loop ends.
Disconnect(c) ==
  /\ task[c].phase = "reading"
  /\ task' = [task EXCEPT ![c].phase = "ending"]
  /\ UNCHANGED <<client, room, nextSeq, view>>

\* Mutant: the cleanup is given the placeholder id.
CleanupPlaceholder(c) ==
  /\ task[c].phase = "ending"
  /\ Leave(c)
  /\ task' = [task EXCEPT ![c].phase = "closed"]
  /\ UNCHANGED nextSeq

\* handle_connection after its read loop: handle_leave for the effective id.
Cleanup(c) ==
  /\ task[c].phase = "ending"
  /\ Leave(task[c].key)
  /\ task' = [task EXCEPT ![c].phase = "closed"]
  /\ UNCHANGED nextSeq

----------------------------------------------------------------------------
Next ==
  \E c \in Conn :
    \/ Register(c)
    \/ \E id \in Client, r \in RoomId : RekeyClient(c, id, r)
    \/ HandleJoin(c)
    \/ \E r \in RoomId : HandleCmd(c, r) \/ HandleState(c, r)
    \/ LeaveFrame(c)
    \/ Disconnect(c)
    \/ Cleanup(c)

Spec == Init /\ [][Next]_vars

----------------------------------------------------------------------------
(* Properties.                                                             *)

\* The connections of one id may overlap: an app that has lost its connection,
\* or sent a LEAVE, connects again before the broker has cleaned up.  The JOIN
\* of the later one then takes the record over, and whichever ends first takes
\* it away.  A room goes on listing the id, though it has no record there: a
\* ghost, until the id joins that room again.

InRoom(k) == k \in DOMAIN client /\ client[k].room # None

Row(r) == IF r \in DOMAIN room THEN room[r] ELSE NewRoom

\* Who is in room r, and whom it only lists.
Here(r) == {k \in DOMAIN client : client[k].room = r}
Ghosts(r) == Row(r).members \ Here(r)

\* Whom no other room lists: nothing else is sent to it.
Settled(k) ==
  InRoom(k) /\ \A r \in DOMAIN room : k \in room[r].members => r = client[k].room

\* Every variable keeps its type; every record's key is one of the ids.
TypeOK ==
  /\ DOMAIN client \subseteq Key /\ \A k \in DOMAIN client : client[k] \in ClientRow
  /\ DOMAIN room \subseteq RoomId /\ \A r \in DOMAIN room : room[r] \in RoomRow
  /\ task \in [Conn -> Task]
  /\ nextSeq \in Nat
  /\ view \in [Conn -> View]

\* A room lists everybody who is in it, and while somebody is, it is there and
\* one of those it lists is its host: no departure, however connections of one
\* id overtake one another, takes the room from under another member.
RoomsKnowTheirs ==
  \A r \in RoomId :
    /\ Here(r) \subseteq Row(r).members
    /\ Here(r) # {} => Row(r).host \in Row(r).members
    /\ r \in DOMAIN room => /\ room[r].members # {}
                            /\ room[r].host \in room[r].members \cup {None}

\* The broker's two maps agree, and everything in them has its type.
RoomsConsistent == TypeOK /\ RoomsKnowTheirs

\* A room comes to list somebody who is not in it only when another connection
\* takes over its record, or its connection joins another room: no departure,
\* first or second, leaves a ghost behind.
NoGhostOfTheDeparted ==
  [][\A r \in RoomId : \A k \in Ghosts(r)' \ Ghosts(r) :
       /\ k \in DOMAIN client /\ k \in DOMAIN client'
       /\ \/ client'[k].conn # client[k].conn
          \/ client'[k].room \notin {r, None}]_vars

\* Everybody in a room is shown all who are in it and nobody that it does not
\* list, with exactly the broker's host marked, although this is rebuilt from a
\* welcome and from incremental joins, departures and elections.  (So all are
\* shown the same in a room that has no ghost.)
ViewsAgree ==
  \A k \in DOMAIN client : Settled(k) =>
    LET r == client[k].room
        v == view[client[k].conn]
    IN  /\ Here(r) \subseteq v.roster /\ v.roster \subseteq Row(r).members
        /\ v.hosts = {Row(r).host} \cap v.roster

\* Everybody in a room has the last state that was published in it, from a
\* message or as the snapshot of a welcome; only its author has no need of it.
StateReachesAll ==
  \A k \in DOMAIN client : Settled(k) =>
    LET snap == Row(client[k].room).snap IN
    snap # None => snap.by = k \/ view[client[k].conn].state = snap.rev

\* A connection that is over leaves no client record: one that stayed would
\* keep the broker from its idle exit for ever and block an election.
NoClientLeaks ==
  \A k \in DOMAIN client :
    task[client[k].conn].phase \in {"reading", "joining", "ending"}

\* What a member is told never goes back in revision while it is in a room,
\* whoever hosts it ("rev continuity: rev is untouched by election").
RevisionsAdvance ==
  [][\A k \in DOMAIN client \cap DOMAIN client' :
       Settled(k) /\ client'[k].room = client[k].room =>
         view'[client[k].conn].rev >= view[client[k].conn].rev]_vars

\* Each room of the broker is a hosted room, of those it lists: a host is
\* deposed by nobody but itself, and revisions rise until the room is empty.
\* (Hosted(r)!Spec of every room r, in one formula.)
Hosted(r) == INSTANCE HostedRoom WITH
  Guest <- Key, Nobody <- None, known <- DOMAIN client,
  here <- Row(r).members, host <- Row(r).host, rev <- Row(r).rev
HostsKept ==
  /\ \A r \in RoomId : Hosted(r)!Init
  /\ [][\A r \in RoomId : [Hosted(r)!Next]_(Hosted(r)!roomVars)]_vars
=============================================================================
