--------------------------- MODULE VaraBrokerProofs ---------------------------
(***************************************************************************)
(* Machine-checked proofs about VaraBroker, for every number of            *)
(* connections, ids, rooms and revisions, however the connections of one   *)
(* id overlap.                                                             *)
(*                                                                         *)
(* The inductive invariant has two parts.  Records ties each client record *)
(* to a running connection whose task goes by the record's key.  Rooms     *)
(* puts what a room lists next to who is in it, and what a member is shown *)
(* next to its room (Shown).  For the second, what each handler does to    *)
(* a row and to who is there is said once, and used for the invariant, for *)
(* the ghosts and for the hosted rooms.                                    *)
(***************************************************************************)
EXTENDS VaraBroker, WellFoundedInduction, TLAPS

\* A task knows its connection by the placeholder until it has sent a JOIN, a
\* client record is known by the key of its connection's task, and only that of
\* a task that has sent a JOIN is in a room.
Records ==
  /\ DOMAIN client \subseteq Key /\ \A k \in DOMAIN client : client[k] \in ClientRow
  /\ nextSeq \in Nat /\ task \in [Conn -> Task]
  /\ \A c \in Conn :
       /\ task[c].renamed => task[c].key \in Client
       /\ ~ task[c].renamed => task[c].key = c
       /\ task[c].phase = "none" => ~ task[c].renamed
       /\ task[c].phase = "joining" => task[c].renamed /\ task[c].joins \in RoomId
  /\ \A k \in DOMAIN client :
       /\ task[client[k].conn].key = k
       /\ client[k].room # None => task[client[k].conn].renamed
  /\ NoClientLeaks

\* What the transport of k shows, of a room with this row and these in it.
Shown(k, v, row, here) ==
  /\ here \subseteq v.roster /\ v.roster \subseteq row.members
  /\ v.hosts = {row.host} \cap v.roster
  /\ v.rev <= row.rev
  /\ row.snap # None => row.snap.by = k \/ v.state = row.snap.rev

AllShown ==
  \A k \in DOMAIN client, r \in RoomId :
    Settled(k) /\ client[k].room = r =>
      Shown(k, view[client[k].conn], Row(r), Here(r))

Rooms ==
  /\ DOMAIN room \subseteq RoomId /\ \A r \in DOMAIN room : room[r] \in RoomRow
  /\ view \in [Conn -> View]
  /\ RoomsKnowTheirs
  /\ AllShown

IInv == Records /\ Rooms

----------------------------------------------------------------------------
(* Records.                                                                *)

\* A departure removes one record and changes no other.
LEMMA LeaveClients ==
  ASSUME NEW k, Leave(k)
  PROVE  /\ DOMAIN client' = DOMAIN client \ {k}
         /\ \A m \in DOMAIN client' : client'[m] = client[m]
<1>1. client' = Remove(client, k)
  BY DEF Leave
<1> QED BY <1>1 DEF Remove, Restrict

\* A departure takes the only record that the task's connection can have.
LEMMA LeaveRecords ==
  ASSUME Records, NEW c \in Conn, Leave(task[c].key), UNCHANGED nextSeq,
         NEW phase \in {"ending", "closed"}, task' = [task EXCEPT ![c].phase = phase]
  PROVE  Records'
<1> DEFINE k == task[c].key
<1>1. /\ DOMAIN client' = DOMAIN client \ {k}
      /\ \A m \in DOMAIN client' : client'[m] = client[m]
  BY LeaveClients
<1>2. /\ task' \in [Conn -> Task]
      /\ \A d \in Conn : /\ task'[d].key = task[d].key
                         /\ task'[d].renamed = task[d].renamed
                         /\ task'[d].joins = task[d].joins
                         /\ task'[d].phase = IF d = c THEN phase ELSE task[d].phase
  BY DEF Records, Task
<1>3. \A m \in DOMAIN client' : client[m].conn \in Conn /\ client[m].conn # c
  BY <1>1 DEF Records, ClientRow
<1> HIDE DEF k
<1>4. NoClientLeaks'
  BY <1>1, <1>2, <1>3 DEF Records, NoClientLeaks
<1> QED BY <1>1, <1>2, <1>3, <1>4 DEF Records

\* The first JOIN moves the record of the connection, and may replace one.
LEMMA RekeyRecords ==
  ASSUME Records, NEW c \in Conn, NEW id \in Client, NEW r \in RoomId, RekeyClient(c, id, r)
  PROVE  Records'
<1>1. task[c].phase = "reading" /\ task[c] \in Task /\ id \in Key /\ c # id
  BY BrokerAssumption DEF RekeyClient, Records, Key
<1>2. \A m \in DOMAIN client : client[m].conn \in Conn
  BY DEF Records, ClientRow
<1>3. CASE task[c].renamed
  <2>1. UNCHANGED <<client, nextSeq>>
    BY <1>3 DEF RekeyClient
  <2>2. /\ task' \in [Conn -> Task]
        /\ \A d \in Conn : /\ task'[d].key = task[d].key
                           /\ task'[d].renamed = task[d].renamed
                           /\ task'[d].joins = IF d = c THEN r ELSE task[d].joins
                           /\ task'[d].phase = IF d = c THEN "joining" ELSE task[d].phase
    BY <1>1, <1>3 DEF RekeyClient, Records, Task
  <2>3. NoClientLeaks'
    BY <1>2, <2>1, <2>2 DEF Records, NoClientLeaks
  <2> QED BY <1>2, <1>3, <2>1, <2>2, <2>3 DEF Records
<1>4. CASE ~ task[c].renamed
  <2>1. task[c].key = c
    BY <1>4 DEF Records
  <2>2. /\ task' \in [Conn -> Task]
        /\ task'[c] = [phase |-> "joining", key |-> id, renamed |-> TRUE, joins |-> r]
        /\ \A d \in Conn : d # c => task'[d] = task[d]
    <3>1. task' = [task EXCEPT ![c] = [phase |-> "joining", key |-> id,
                                       renamed |-> TRUE, joins |-> r]]
      BY <1>4 DEF RekeyClient
    <3>2. [phase |-> "joining", key |-> id, renamed |-> TRUE, joins |-> r] \in Task
      BY <1>1 DEF Task
    <3> QED BY <3>1, <3>2 DEF Records
  <2>3. c \in DOMAIN client => client[c].conn = c
    <3> SUFFICES ASSUME c \in DOMAIN client PROVE client[c].conn = c
      OBVIOUS
    <3>1. client[c].conn \in Conn /\ task[client[c].conn].key = c
      BY <1>2 DEF Records
    <3> QED BY <3>1, BrokerAssumption DEF Records
  <2>4. \A k \in DOMAIN client : k # c => client[k].conn # c
    BY <2>1 DEF Records
  <2>5. /\ DOMAIN client' \subseteq (DOMAIN client \ {c}) \cup {id}
        /\ \A k \in DOMAIN client' :
             \/ k \in DOMAIN client \ {c} /\ client'[k] = client[k]
             \/ k = id /\ c \in DOMAIN client /\ client'[k] = client[c]
    <3>1. client' = IF c \in DOMAIN client
                      THEN Put(Remove(client, c), id, client[c]) ELSE client
      BY <1>4 DEF RekeyClient
    <3>2. CASE c \in DOMAIN client
      BY <1>1, <3>1, <3>2 DEF Put, Remove, Restrict
    <3>3. CASE c \notin DOMAIN client
      BY <3>1, <3>3
    <3> QED BY <3>2, <3>3
  <2>6. ASSUME NEW k \in DOMAIN client'
        PROVE  /\ client'[k] \in ClientRow /\ task'[client'[k].conn].key = k
               /\ client'[k].room # None => task'[client'[k].conn].renamed
               /\ task'[client'[k].conn].phase \in {"reading", "joining", "ending"}
    BY <1>2, <2>2, <2>3, <2>4, <2>5 DEF Records, NoClientLeaks
  <2>7. DOMAIN client' \subseteq Key /\ UNCHANGED nextSeq
    BY <1>1, <2>5 DEF Records, RekeyClient
  <2>8. NoClientLeaks'
    BY <2>6 DEF NoClientLeaks
  <2> QED BY <2>2, <2>6, <2>7, <2>8 DEF Records
<1> QED BY <1>3, <1>4

LEMMA StepRecords ==
  ASSUME Records, [Next]_vars
  PROVE  Records'
<1>1. \A m \in DOMAIN client : client[m].conn \in Conn
  BY DEF Records, ClientRow
<1>2. ASSUME NEW c \in Conn, Register(c) PROVE Records'
  <2>1. /\ DOMAIN client' = DOMAIN client \cup {c}
        /\ client'[c] = [conn |-> c, room |-> None, seq |-> nextSeq]
        /\ \A k \in DOMAIN client : k # c => client'[k] = client[k]
        /\ nextSeq' = nextSeq + 1 /\ task[c].phase = "none"
    BY <1>2 DEF Register, Put
  <2>2. /\ task' \in [Conn -> Task]
        /\ \A d \in Conn : /\ task'[d].key = task[d].key
                           /\ task'[d].renamed = task[d].renamed
                           /\ task'[d].joins = task[d].joins
                           /\ task'[d].phase = IF d = c THEN "reading" ELSE task[d].phase
    BY <1>2 DEF Register, Records, Task
  <2>3. task'[c].key = c
    BY <2>1, <2>2 DEF Records
  <2>4. client'[c] \in ClientRow /\ client'[c].conn = c /\ c \in Key
    BY <2>1 DEF Records, ClientRow, Key
  <2>5. ASSUME NEW k \in DOMAIN client'
        PROVE  /\ client'[k] \in ClientRow /\ task'[client'[k].conn].key = k
               /\ client'[k].room # None => task'[client'[k].conn].renamed
               /\ task'[client'[k].conn].phase \in {"reading", "joining", "ending"}
    BY <1>1, <2>1, <2>2, <2>3, <2>4 DEF Records, NoClientLeaks
  <2>6. NoClientLeaks'
    BY <2>5 DEF NoClientLeaks
  <2> QED BY <2>1, <2>2, <2>4, <2>5, <2>6 DEF Records
<1>3. ASSUME NEW c \in Conn, NEW id \in Client, NEW r \in RoomId, RekeyClient(c, id, r)
      PROVE  Records'
  BY <1>3, RekeyRecords
<1>4. ASSUME NEW c \in Conn, HandleJoin(c) PROVE Records'
  <2> DEFINE k == task[c].key
             r == task[c].joins
  <2>1. /\ task' \in [Conn -> Task]
        /\ \A d \in Conn : /\ task'[d].key = task[d].key
                           /\ task'[d].renamed = task[d].renamed
                           /\ task'[d].joins = IF d = c THEN None ELSE task[d].joins
                           /\ task'[d].phase = IF d = c THEN "reading" ELSE task[d].phase
    <3>1. /\ task' = [task EXCEPT ![c].phase = "reading", ![c].joins = None]
          /\ task \in [Conn -> Task] /\ task[c] \in Task
      BY <1>4 DEF HandleJoin, Records
    <3> QED BY <3>1 DEF Task
  <2>2. r \in RoomId /\ UNCHANGED nextSeq /\ k \in Client
    BY <1>4 DEF HandleJoin, Records
  <2>3. client' = client \/ client' = [client EXCEPT ![k].room = r]
    BY <1>4 DEF HandleJoin
  <2> HIDE DEF k, r
  <2>4. /\ DOMAIN client' = DOMAIN client
        /\ \A m \in DOMAIN client :
             /\ client'[m].conn = client[m].conn /\ client'[m] \in ClientRow
             /\ m # k => client'[m] = client[m]
    BY <2>2, <2>3 DEF Records, ClientRow
  <2>6. \A m \in DOMAIN client : m = k => task[client[m].conn].renamed
    BY <1>1, <2>2, BrokerAssumption DEF Records
  <2>5. NoClientLeaks'
    BY <1>1, <2>1, <2>4 DEF Records, NoClientLeaks
  <2> QED BY <1>1, <2>1, <2>2, <2>4, <2>5, <2>6 DEF Records
<1>5. ASSUME NEW c \in Conn, LeaveFrame(c) \/ Cleanup(c) PROVE Records'
  BY <1>5, LeaveRecords DEF LeaveFrame, Cleanup
<1>6. ASSUME NEW c \in Conn, Disconnect(c) PROVE Records'
  <2>1. /\ task' \in [Conn -> Task]
        /\ \A d \in Conn : /\ task'[d].key = task[d].key
                           /\ task'[d].renamed = task[d].renamed
                           /\ task'[d].joins = task[d].joins
                           /\ task'[d].phase = IF d = c THEN "ending" ELSE task[d].phase
    BY <1>6 DEF Disconnect, Records, Task
  <2>2. UNCHANGED <<client, nextSeq>>
    BY <1>6 DEF Disconnect
  <2>3. NoClientLeaks'
    BY <1>1, <2>1, <2>2 DEF Records, NoClientLeaks
  <2> QED BY <1>1, <2>1, <2>2, <2>3 DEF Records
<1>7. ASSUME UNCHANGED <<client, task, nextSeq>> PROVE Records'
  BY <1>7 DEF Records, NoClientLeaks
<1>8. ASSUME NEW c \in Conn, NEW r \in RoomId, HandleCmd(c, r) \/ HandleState(c, r)
      PROVE  UNCHANGED <<client, task, nextSeq>>
  BY <1>8 DEF HandleCmd, HandleState
<1>9. UNCHANGED vars => UNCHANGED <<client, task, nextSeq>>
  BY DEF vars
<1> QED BY <1>2, <1>3, <1>4, <1>5, <1>6, <1>7, <1>8, <1>9 DEF Next

LEMMA InitRecords == Init => Records
<1> SUFFICES ASSUME Init PROVE Records
  OBVIOUS
<1>1. DOMAIN client = {} /\ \A c \in Conn : c \in Key
  BY DEF Init, Key
<1> QED BY <1>1 DEF Init, Records, Task, NoClientLeaks

\* A client record never outlives its connection, whatever connections share an
\* id and however they overtake one another.
THEOREM RecordsDoNotLeak == Spec => []NoClientLeaks
<1>1. Records /\ [Next]_vars => Records'
  BY StepRecords
<1>2. Records => NoClientLeaks
  BY DEF Records
<1> QED BY InitRecords, <1>1, <1>2, PTL DEF Spec

----------------------------------------------------------------------------
(* What the handlers do to the rows.                                       *)

\* A nonempty set of naturals has a least element.
LEMMA LeastSeq ==
  ASSUME NEW S \in SUBSET Nat, S # {}
  PROVE  \E x \in S : \A y \in S : x <= y
<1>1. \E x \in S : \A y \in S : ~ (<<y, x>> \in OpToRel(<, Nat))
  BY NatLessThanWellFounded, WFMin
<1>2. PICK x \in S : \A y \in S : ~ (<<y, x>> \in OpToRel(<, Nat))
  BY <1>1
<1>3. \A y \in S : ~ (y < x)
  BY <1>2 DEF OpToRel
<1> QED BY <1>3

\* Among ids of which some have records, the oldest is one of those.
LEMMA OldestIsOne ==
  ASSUME Records, NEW ids
  PROVE  /\ ids \cap DOMAIN client # {} => Oldest(ids) \in ids \cap DOMAIN client
         /\ ids \cap DOMAIN client = {} => Oldest(ids) = None
<1> DEFINE known == ids \cap DOMAIN client
           seqs == {client[k].seq : k \in known}
<1>1. ASSUME known # {} PROVE Oldest(ids) \in known
  <2>1. seqs \in SUBSET Nat /\ seqs # {}
    BY <1>1 DEF Records, ClientRow
  <2>2. PICK x \in seqs : \A y \in seqs : x <= y
    BY <2>1, LeastSeq
  <2>3. \E k \in known : \A m \in known : client[k].seq <= client[m].seq
    BY <2>2
  <2> QED BY <1>1, <2>3 DEF Oldest
<1>2. known = {} => Oldest(ids) = None
  BY DEF Oldest
<1> QED BY <1>1, <1>2

\* None stands for no id and for no room.
LEMMA NoneIsNobody == None \notin Key /\ None \notin RoomId
BY BrokerAssumption DEF Key

\* The row of a room, there or not.
LEMMA RowFacts ==
  ASSUME Rooms, NEW r \in RoomId
  PROVE  /\ Row(r) \in RoomRow
         /\ Here(r) \subseteq Row(r).members
         /\ Here(r) # {} => Row(r).host \in Row(r).members
         /\ Row(r).host \in Row(r).members \cup {None}
         /\ r \in DOMAIN room <=> Row(r).members # {}
<1>1. NewRoom \in RoomRow /\ NewRoom.members = {} /\ NewRoom.host = None
  BY DEF NewRoom, RoomRow
<1> QED BY <1>1 DEF Rooms, RoomsKnowTheirs, Row

\* A message to ids reaches the connection of k if k is one of them.
LEMMA ReachedConn ==
  ASSUME Records, NEW k \in DOMAIN client, NEW ids
  PROVE  client[k].conn \in Conn /\ (client[k].conn \in Reached(ids) <=> k \in ids)
<1>1. \A m \in DOMAIN client : task[client[m].conn].key = m
  BY DEF Records
<1> QED BY <1>1 DEF Reached, Records, ClientRow

\* What a JOIN does to a row: the newcomer is a member, and the host if there
\* was none.
LEMMA JoinedRow ==
  ASSUME NEW row \in RoomRow, NEW k \in Key
  PROVE  /\ Joined(row, k) \in RoomRow
         /\ Joined(row, k).members = row.members \cup {k}
         /\ Joined(row, k).host = IF row.host = None THEN k ELSE row.host
         /\ Joined(row, k).rev = row.rev /\ Joined(row, k).snap = row.snap
BY DEF Joined, RoomRow

\* What a departure does to a row.
LEMMA DepartedRow ==
  ASSUME Records, NEW row \in RoomRow, NEW k
  PROVE  LET rest == row.members \ {k}
             new == Departed(row, k)
         IN  /\ new \in RoomRow
             /\ new.members = rest
             /\ new.host = IF row.host = k THEN Oldest(rest) ELSE row.host
             /\ new.rev = row.rev /\ new.snap = row.snap
<1> DEFINE rest == row.members \ {k}
<1>1. Oldest(rest) \in rest \cup {None} /\ rest \in SUBSET Key
  BY OldestIsOne DEF RoomRow
<1> QED BY <1>1 DEF Departed, RoomRow

\* handle_join of the key k of a task that has a record: it is listed in room
\* q, and in no other that did not list it.
JoinsRoom(k, q) ==
  /\ k \in DOMAIN client /\ k \in Key /\ q \in RoomId
  /\ DOMAIN client' = DOMAIN client
  /\ \A m \in DOMAIN client :
       /\ client'[m].conn = client[m].conn
       /\ client'[m].room = IF m = k THEN q ELSE client[m].room
  /\ DOMAIN room' = DOMAIN room \cup {q}
  /\ \A r \in DOMAIN room' : room'[r] \in RoomRow
  /\ \A r \in RoomId : Row(r)' = IF r = q THEN Joined(Row(q), k) ELSE Row(r)
  /\ \A r \in RoomId : Here(r)' = IF r = q THEN Here(q) \cup {k} ELSE Here(r) \ {k}

LEMMA JoinRows ==
  ASSUME Records, Rooms, NEW c \in Conn, HandleJoin(c),
         NEW k \in DOMAIN client, NEW q, k = task[c].key, q = task[c].joins
  PROVE  JoinsRoom(k, q)
<1> DEFINE row == Joined(Row(q), k)
<1>1. q \in RoomId /\ k \in Key
  <2>1. task[c] \in Task /\ task[c].phase = "joining"
    BY DEF HandleJoin, Records
  <2> QED BY <2>1 DEF Records, Task
<1>2. client' = [client EXCEPT ![k].room = q] /\ room' = Put(room, q, row)
  BY DEF HandleJoin, Row
<1>3. /\ DOMAIN room' = DOMAIN room \cup {q}
      /\ \A r \in DOMAIN room' : room'[r] = IF r = q THEN row ELSE room[r]
  <2> HIDE DEF row
  <2> QED BY <1>2 DEF Put
<1>4. row \in RoomRow
  BY <1>1, RowFacts, JoinedRow
<1>5. /\ DOMAIN client' = DOMAIN client
      /\ \A m \in DOMAIN client :
           /\ client'[m].conn = client[m].conn
           /\ client'[m].room = IF m = k THEN q ELSE client[m].room
  <2>1. \A m \in DOMAIN client : client[m] \in ClientRow
    BY DEF Records
  <2> QED BY <1>2, <2>1 DEF ClientRow
<1>6. \A r \in DOMAIN room' : room'[r] \in RoomRow
  <2> HIDE DEF row
  <2> QED BY <1>3, <1>4 DEF Rooms
<1>7. \A r \in RoomId : Row(r)' = IF r = q THEN row ELSE Row(r)
  <2> HIDE DEF row
  <2> QED BY <1>3 DEF Row
<1>8. \A r \in RoomId : Here(r)' = IF r = q THEN Here(q) \cup {k} ELSE Here(r) \ {k}
  BY <1>5 DEF Here
<1> QED BY <1>1, <1>3, <1>5, <1>6, <1>7, <1>8 DEF JoinsRoom

\* handle_leave for k: it departs from the room it is in, and the row goes with
\* the last that is listed.
LeavesRoom(k) ==
  /\ DOMAIN client' = DOMAIN client \ {k}
  /\ \A m \in DOMAIN client' : client'[m] = client[m]
  /\ DOMAIN room' \subseteq DOMAIN room
  /\ \A r \in DOMAIN room' : room'[r] \in RoomRow
  /\ \A r \in RoomId :
       /\ Here(r)' = Here(r) \ {k}
       /\ Row(r)' = IF k \notin Here(r) THEN Row(r)
                    ELSE IF Row(r).members \ {k} = {} THEN NewRoom
                    ELSE Departed(Row(r), k)
       /\ r \in DOMAIN room' <=> Row(r)'.members # {}

LEMMA LeaveRows ==
  ASSUME Records, Rooms, NEW k, Leave(k)
  PROVE  LeavesRoom(k)
<1>1. /\ DOMAIN client' = DOMAIN client \ {k}
      /\ \A m \in DOMAIN client' : client'[m] = client[m]
  BY LeaveClients
<1>2. \A r \in RoomId : Here(r)' = Here(r) \ {k}
  BY <1>1 DEF Here
<1>3. NewRoom.members = {}
  BY DEF NewRoom
<1>4. CASE k \in DOMAIN client /\ client[k].room \in DOMAIN room
  <2> DEFINE q == client[k].room
             row == Departed(Row(q), k)
             rest == Row(q).members \ {k}
  <2>1. q \in RoomId /\ q \in DOMAIN room /\ Row(q) = room[q]
    BY <1>4 DEF Rooms, Row
  <2>2. row \in RoomRow /\ row.members = rest
    BY <2>1, RowFacts, DepartedRow
  <2>3. room' = IF rest = {} THEN Remove(room, q) ELSE [room EXCEPT ![q] = row]
    BY <1>4, <2>1, <2>2 DEF Leave
  <2>4. \A r \in RoomId : k \in Here(r) <=> r = q
    BY <1>4 DEF Here
  <2> HIDE DEF q, row, rest
  <2>5. /\ DOMAIN room' = IF rest = {} THEN DOMAIN room \ {q} ELSE DOMAIN room
        /\ \A r \in DOMAIN room' : room'[r] = IF r = q THEN row ELSE room[r]
    BY <2>1, <2>3 DEF Remove, Restrict
  <2>6. \A r \in DOMAIN room' : room'[r] \in RoomRow
    BY <2>2, <2>5 DEF Rooms
  <2>7. \A r \in RoomId : Row(r)' = IF r # q THEN Row(r)
                                     ELSE IF rest = {} THEN NewRoom ELSE row
    BY <2>1, <2>5 DEF Row
  <2>8. \A r \in RoomId : r \in DOMAIN room' <=> Row(r)'.members # {}
    BY <1>3, <2>1, <2>2, <2>5, <2>7, RowFacts
  <2> QED BY <1>1, <1>2, <2>4, <2>5, <2>6, <2>7, <2>8 DEF LeavesRoom, q, row, rest
<1>5. CASE ~ (k \in DOMAIN client /\ client[k].room \in DOMAIN room)
  <2>1. room' = room
    BY <1>5 DEF Leave
  <2>2. \A r \in RoomId : k \notin Here(r)
    <3>1. \A r \in RoomId : Here(r) # {} => r \in DOMAIN room
      BY RowFacts
    <3> QED BY <1>5, <3>1 DEF Here
  <2>3. \A r \in RoomId : Row(r)' = Row(r)
    BY <2>1 DEF Row
  <2>4. \A r \in DOMAIN room' : room'[r] \in RoomRow
    BY <2>1 DEF Rooms
  <2> QED BY <1>1, <1>2, <2>1, <2>2, <2>3, <2>4, RowFacts DEF LeavesRoom
<1> QED BY <1>4, <1>5

\* A command or a heartbeat of key in room q: its revision moves, and nothing
\* else but perhaps the snapshot.
Publishes(key, q) ==
  /\ UNCHANGED client /\ q \in DOMAIN room /\ DOMAIN room' = DOMAIN room
  /\ \A r \in DOMAIN room : room'[r] \in RoomRow /\ (r # q => Row(r)' = Row(r))
  /\ \A r \in RoomId : r # q => Row(r)' = Row(r)
  /\ Row(q)'.members = Row(q).members /\ Row(q)'.host = Row(q).host
  /\ Row(q)'.rev = Row(q).rev + 1
  /\ view' \in [Conn -> View]
  /\ \A d \in Conn :
       IF d \in Reached(Row(q).members \ {key})
         THEN /\ view'[d].roster = view[d].roster /\ view'[d].hosts = view[d].hosts
              /\ view'[d].rev = Row(q)'.rev
              /\ \/ Row(q)'.snap = Row(q).snap /\ view'[d].state = view[d].state
                 \/ view'[d].state = Row(q)'.snap.rev
         ELSE view'[d] = view[d]
  /\ \/ Row(q)'.snap = Row(q).snap
     \/ Row(q)'.snap.by = key

LEMMA PublishRows ==
  ASSUME Records, Rooms, NEW c \in Conn, NEW q \in RoomId, HandleCmd(c, q) \/ HandleState(c, q)
  PROVE  Publishes(task[c].key, q)
<1> DEFINE key == task[c].key
           old == Row(q)
           rev == old.rev + 1
           told == Reached(old.members \ {key})
<1>1. UNCHANGED client /\ q \in DOMAIN room /\ Row(q) = room[q]
  BY DEF HandleCmd, HandleState, Row
<1>2. old \in RoomRow /\ rev \in Nat /\ key \in Key
  <2>1. old \in RoomRow /\ task[c] \in Task
    BY RowFacts DEF Records
  <2> QED BY <2>1 DEF RoomRow, Task
<1>3. \A d \in Conn : view[d] \in View
  BY DEF Rooms
<1>4. CASE HandleCmd(c, q)
  <2> DEFINE new == [old EXCEPT !.rev = rev]
  <2>1. /\ room' = [room EXCEPT ![q] = new]
        /\ view' = [d \in Conn |-> IF d \in told THEN [view[d] EXCEPT !.rev = rev]
                                                  ELSE view[d]]
    BY <1>1, <1>4 DEF HandleCmd
  <2>2. /\ new \in RoomRow /\ new.members = old.members /\ new.host = old.host
        /\ new.rev = rev /\ new.snap = old.snap
    <3> HIDE DEF old
    <3> QED BY <1>2 DEF RoomRow
  <2>3. view' \in [Conn -> View]
        /\ \A d \in Conn : IF d \in told
             THEN /\ view'[d].roster = view[d].roster /\ view'[d].hosts = view[d].hosts
                  /\ view'[d].rev = rev /\ view'[d].state = view[d].state
             ELSE view'[d] = view[d]
    <3> HIDE DEF old, told, rev
    <3> QED BY <1>2, <1>3, <2>1 DEF View
  <2> HIDE DEF new
  <2>4. /\ DOMAIN room' = DOMAIN room
        /\ \A r \in DOMAIN room : room'[r] = IF r = q THEN new ELSE room[r]
    BY <1>1, <2>1
  <2>5. Row(q)' = new /\ \A r \in RoomId : r # q => Row(r)' = Row(r)
    BY <1>1, <2>4 DEF Row
  <2>6. \A r \in DOMAIN room : room'[r] \in RoomRow
    BY <2>2, <2>4 DEF Rooms
  <2>7. \A r \in DOMAIN room : r \in RoomId
    BY DEF Rooms
  <2> QED BY <1>1, <2>2, <2>3, <2>4, <2>5, <2>6, <2>7 DEF Publishes
<1>5. CASE HandleState(c, q)
  <2> DEFINE snap == [rev |-> rev, by |-> key]
             new == [old EXCEPT !.rev = rev, !.snap = snap]
  <2>1. /\ room' = [room EXCEPT ![q] = new]
        /\ view' = [d \in Conn |->
             IF d \in told THEN [view[d] EXCEPT !.rev = rev, !.state = rev] ELSE view[d]]
    BY <1>1, <1>5 DEF HandleState
  <2>2. snap \in [rev : Nat, by : Key] /\ snap.rev = rev /\ snap.by = key
    BY <1>2
  <2>8. /\ new \in RoomRow /\ new.members = old.members /\ new.host = old.host
        /\ new.rev = rev /\ new.snap = snap
    <3> HIDE DEF old, snap
    <3> QED BY <1>2, <2>2 DEF RoomRow
  <2>3. view' \in [Conn -> View]
        /\ \A d \in Conn : IF d \in told
             THEN /\ view'[d].roster = view[d].roster /\ view'[d].hosts = view[d].hosts
                  /\ view'[d].rev = rev /\ view'[d].state = rev
             ELSE view'[d] = view[d]
    <3> HIDE DEF old, told, rev
    <3> QED BY <1>2, <1>3, <2>1 DEF View
  <2> HIDE DEF new
  <2>4. /\ DOMAIN room' = DOMAIN room
        /\ \A r \in DOMAIN room : room'[r] = IF r = q THEN new ELSE room[r]
    BY <1>1, <2>1
  <2>5. Row(q)' = new /\ \A r \in RoomId : r # q => Row(r)' = Row(r)
    BY <1>1, <2>4 DEF Row
  <2>6. \A r \in DOMAIN room : room'[r] \in RoomRow
    BY <2>4, <2>8 DEF Rooms
  <2>7. \A r \in DOMAIN room : r \in RoomId
    BY DEF Rooms
  <2> QED BY <1>1, <2>2, <2>3, <2>4, <2>5, <2>6, <2>7, <2>8 DEF Publishes
<1> QED BY <1>4, <1>5

----------------------------------------------------------------------------
(* The rooms and what is shown of them.                                    *)

\* Whoever is settled in a room is listed there and in no other room.
LEMMA SettledFacts ==
  ASSUME Records, Rooms, NEW k \in DOMAIN client, Settled(k)
  PROVE  /\ client[k].room \in RoomId /\ client[k].room \in DOMAIN room
         /\ k \in Here(client[k].room) /\ k \in Row(client[k].room).members
         /\ \A r \in RoomId : k \in Row(r).members => r = client[k].room
         /\ client[k].conn \in Conn
<1>1. client[k].room \in RoomId /\ client[k].conn \in Conn
  BY DEF Records, ClientRow, Settled, InRoom
<1>2. k \in Here(client[k].room)
  BY DEF Here
<1>3. k \in Row(client[k].room).members /\ client[k].room \in DOMAIN room
  BY <1>1, <1>2, RowFacts
<1>4. \A r \in RoomId : k \in Row(r).members => r = client[k].room
  BY RowFacts DEF Settled, Row
<1> QED BY <1>1, <1>2, <1>3, <1>4

\* Records that are in no room may come, go and change their key, and the
\* record of somebody in a room may be taken over.
LEMMA OutsideKeeps ==
  ASSUME Records, Rooms, UNCHANGED <<room, view>>,
         \A m \in DOMAIN client' :
           client'[m].room # None => m \in DOMAIN client /\ client'[m] = client[m]
  PROVE  Rooms'
<1>1. \A r \in RoomId : Row(r)' = Row(r) /\ Here(r)' \subseteq Here(r)
  BY NoneIsNobody DEF Row, Here
<1>2. RoomsKnowTheirs'
  BY <1>1 DEF Rooms, RoomsKnowTheirs
<1>3. AllShown'
  <2> SUFFICES ASSUME NEW m \in DOMAIN client', NEW r \in RoomId,
                      Settled(m)', client'[m].room = r
               PROVE  Shown(m, view'[client'[m].conn], Row(r)', Here(r)')
    BY DEF AllShown
  <2>1. m \in DOMAIN client /\ client'[m] = client[m] /\ Settled(m)
    BY DEF Settled, InRoom
  <2>2. Shown(m, view[client[m].conn], Row(r), Here(r))
    BY <2>1 DEF Rooms, AllShown
  <2> QED BY <1>1, <2>1, <2>2 DEF Shown
<1> QED BY <1>2, <1>3 DEF Rooms

\* What is shown to whom: the newcomer is welcomed with the row as it is, who
\* else is listed is told.
JoinTold(k, q) ==
  /\ view' \in [Conn -> View]
  /\ \E w \in View :
       /\ view'[client[k].conn] = w
       /\ w.roster = Row(q)'.members \cap DOMAIN client
       /\ w.hosts = {Row(q)'.host} \cap w.roster
       /\ w.rev = Row(q)'.rev
       /\ Row(q)'.snap # None => w.state = Row(q)'.snap.rev
  /\ \A d \in Conn : d # client[k].conn =>
       IF d \in Reached(Row(q)'.members \ {k})
         THEN /\ view'[d].roster = view[d].roster \cup {k}
              /\ view'[d].hosts = IF Row(q)'.host = k THEN view[d].hosts \cup {k}
                                                      ELSE view[d].hosts \ {k}
              /\ view'[d].rev = view[d].rev /\ view'[d].state = view[d].state
         ELSE view'[d] = view[d]

LEMMA JoinShows ==
  ASSUME Records, Rooms, NEW c \in Conn, HandleJoin(c),
         NEW k \in DOMAIN client, NEW q, k = task[c].key, q = task[c].joins
  PROVE  JoinTold(k, q)
<1> DEFINE row == Joined(Row(q), k)
<1>8. JoinsRoom(k, q)
  BY JoinRows
<1>1. q \in RoomId /\ k \in Key /\ Row(q)' = row
  BY <1>8 DEF JoinsRoom
<1>2. row \in RoomRow
  BY <1>1, RowFacts, JoinedRow
<1>3. view' = [d \in Conn |->
         IF d = client[k].conn THEN Welcome(row)
         ELSE IF d \in Reached(row.members \ {k})
           THEN MemberJoined(view[d], k, row.host = k)
           ELSE view[d]]
  BY DEF HandleJoin, Row
<1>4. client[k].conn \in Conn /\ \A d \in Conn : view[d] \in View
  BY DEF Records, ClientRow, Rooms
<1> HIDE DEF row
<1>5. /\ Welcome(row) \in View
      /\ Welcome(row).roster = row.members \cap DOMAIN client
      /\ Welcome(row).hosts = {row.host} \cap Welcome(row).roster
      /\ Welcome(row).rev = row.rev
      /\ row.snap # None => Welcome(row).state = row.snap.rev
  <2>1. /\ row.members \in SUBSET Key /\ row.rev \in Nat
        /\ row.snap # None => row.snap.rev \in Nat
    BY <1>2 DEF RoomRow
  <2> QED BY <2>1 DEF Welcome, View
<1>6. ASSUME NEW d \in Conn
      PROVE  LET v == MemberJoined(view[d], k, row.host = k) IN
             /\ v \in View /\ v.roster = view[d].roster \cup {k}
             /\ v.hosts = IF row.host = k THEN view[d].hosts \cup {k}
                                          ELSE view[d].hosts \ {k}
             /\ v.rev = view[d].rev /\ v.state = view[d].state
  BY <1>1, <1>4 DEF MemberJoined, View
<1>7. view' \in [Conn -> View]
  BY <1>3, <1>4, <1>5, <1>6
<1> QED BY <1>1, <1>3, <1>4, <1>5, <1>6, <1>7 DEF JoinTold

\* A JOIN adds its key to who is there and who is listed alike.
LEMMA JoinKeeps ==
  ASSUME Records, Rooms, NEW c \in Conn, HandleJoin(c)
  PROVE  Rooms'
<1> PICK k, q : k = task[c].key /\ q = task[c].joins
  OBVIOUS
<1>1. CASE k \notin DOMAIN client
  <2>1. UNCHANGED <<client, room, view>>
    BY <1>1 DEF HandleJoin
  <2> QED BY <2>1, OutsideKeeps
<1>2. CASE k \in DOMAIN client
  <2>1. JoinsRoom(k, q)
    BY <1>2, JoinRows
  <2>2. Row(q) \in RoomRow /\ Row(q)' = Joined(Row(q), k)
    BY <2>1, RowFacts DEF JoinsRoom
  <2>3. /\ Row(q)'.members = Row(q).members \cup {k}
        /\ Row(q)'.host = IF Row(q).host = None THEN k ELSE Row(q).host
        /\ Row(q)'.rev = Row(q).rev /\ Row(q)'.snap = Row(q).snap /\ Row(q)'.rev \in Nat
    BY <2>1, <2>2, JoinedRow DEF JoinsRoom, RoomRow
  <2>4. /\ \A r \in RoomId : r # q => Row(r)' = Row(r)
        /\ \A r \in RoomId : Here(r)' = IF r = q THEN Here(q) \cup {k} ELSE Here(r) \ {k}
        /\ k \in Key /\ q \in RoomId
    BY <2>1 DEF JoinsRoom
  <2>5. RoomsKnowTheirs'
    <3> SUFFICES ASSUME NEW r \in RoomId
                 PROVE  /\ Here(r)' \subseteq Row(r)'.members
                        /\ Here(r)' # {} => Row(r)'.host \in Row(r)'.members
                        /\ r \in DOMAIN room' =>
                             /\ room'[r].members # {}
                             /\ room'[r].host \in room'[r].members \cup {None}
      BY DEF RoomsKnowTheirs
    <3>1. /\ Here(r) \subseteq Row(r).members
          /\ Here(r) # {} => Row(r).host \in Row(r).members
          /\ Row(r).host \in Row(r).members \cup {None}
          /\ r \in DOMAIN room => Row(r).members # {}
      BY RowFacts
    <3>2. r \in DOMAIN room' => room'[r] = Row(r)' /\ (r # q => r \in DOMAIN room)
      BY <2>1 DEF Row, JoinsRoom
    <3>3. CASE r = q
      BY <2>3, <2>4, <3>1, <3>2, <3>3
    <3>4. CASE r # q
      BY <2>4, <3>1, <3>2, <3>4
    <3> QED BY <3>3, <3>4
  <2>6. JoinTold(k, q)
    BY <1>2, JoinShows
  <2>7. AllShown'
    <3> SUFFICES ASSUME NEW m \in DOMAIN client', NEW r \in RoomId,
                        Settled(m)', client'[m].room = r
                 PROVE  Shown(m, view'[client'[m].conn], Row(r)', Here(r)')
      BY DEF AllShown
    <3>1. m \in DOMAIN client /\ client'[m].conn = client[m].conn
          /\ client'[m].room = IF m = k THEN q ELSE client[m].room
      BY <2>1 DEF JoinsRoom
    <3>2. CASE m = k
      <4>1. Here(q)' \subseteq Row(q)'.members /\ Here(q)' \subseteq DOMAIN client
        BY <2>1, <2>4, <2>5 DEF RoomsKnowTheirs, Here, JoinsRoom
      <4> QED BY <2>3, <2>6, <3>1, <3>2, <4>1 DEF Shown, JoinTold
    <3>3. CASE m # k
      <4> PICK d : d = client[m].conn
        OBVIOUS
      <4>1. Settled(m)
        <5>1. InRoom(m)
          BY <3>1, <3>3 DEF Settled, InRoom
        <5>2. ASSUME NEW s \in DOMAIN room, m \in room[s].members PROVE s = r
          <6>1. s \in RoomId /\ Row(s) = room[s]
            BY <5>2 DEF Rooms, Row
          <6>2. s \in DOMAIN room' /\ room'[s] = Row(s)'
            BY <2>1, <5>2 DEF JoinsRoom, Row
          <6>3. m \in room'[s].members
            BY <2>3, <2>4, <5>2, <6>1, <6>2
          <6> QED BY <3>1, <3>3, <6>2, <6>3 DEF Settled
        <5> QED BY <3>1, <3>3, <5>1, <5>2 DEF Settled
      <4>2. Shown(m, view[d], Row(r), Here(r))
        BY <3>1, <3>3, <4>1 DEF Rooms, AllShown
      <4>3. r \in RoomId /\ m \in Row(r).members /\ d \in Conn
            /\ \A s \in RoomId : m \in Row(s).members => s = r
        BY <3>1, <3>3, <4>1, SettledFacts
      <4>4. d # client[k].conn
        BY <1>2, <3>1, <3>3 DEF Records
      <4>5. d \in Reached(Row(q)'.members \ {k}) <=> r = q
        <5>1. d \in Reached(Row(q)'.members \ {k}) <=> m \in Row(q)'.members \ {k}
          BY <3>1, ReachedConn
        <5> QED BY <2>3, <2>4, <3>3, <4>3, <5>1
      <4>6. CASE r # q
        <5>1. view'[d] = view[d] /\ Row(r)' = Row(r) /\ Here(r)' \subseteq Here(r)
          BY <2>4, <2>6, <4>3, <4>4, <4>5, <4>6 DEF JoinTold
        <5>2. Shown(m, view'[d], Row(r)', Here(r)')
          BY <4>2, <5>1 DEF Shown
        <5> QED BY <3>1, <3>3, <5>2
      <4>7. CASE r = q
        <5>1. /\ view'[d].roster = view[d].roster \cup {k}
              /\ view'[d].hosts = IF Row(q)'.host = k THEN view[d].hosts \cup {k}
                                                      ELSE view[d].hosts \ {k}
              /\ view'[d].rev = view[d].rev /\ view'[d].state = view[d].state
          BY <2>6, <4>3, <4>4, <4>5, <4>7 DEF JoinTold
        <5>2. Here(q) # {}
          BY <3>1, <3>3, <4>7 DEF Here
        <5>3. Row(q)'.host = Row(q).host
          BY <2>3, <2>4, <5>2, RowFacts, NoneIsNobody DEF RoomRow
        <5>4. Here(q)' = Here(q) \cup {k}
          BY <2>4
        <5>5. /\ Here(q) \subseteq view[d].roster /\ view[d].roster \subseteq Row(q).members
              /\ view[d].hosts = {Row(q).host} \cap view[d].roster
              /\ view[d].rev <= Row(q).rev
              /\ Row(q).snap # None => Row(q).snap.by = m \/ view[d].state = Row(q).snap.rev
          BY <4>2, <4>7 DEF Shown
        <5>6. Shown(m, view'[d], Row(q)', Here(q)')
          BY <2>3, <5>1, <5>3, <5>4, <5>5 DEF Shown
        <5> QED BY <3>1, <3>3, <4>7, <5>6
      <4> QED BY <4>6, <4>7
    <3> QED BY <3>2, <3>3
  <2> QED BY <2>1, <2>5, <2>6, <2>7 DEF Rooms, JoinsRoom, JoinTold
<1> QED BY <1>1, <1>2

\* The others in the room are told of the departure and of the election.
LeaveTold(k) ==
  /\ view' \in [Conn -> View]
  /\ \A d \in Conn : view'[d].rev = view[d].rev /\ view'[d].state = view[d].state
  /\ \A r \in RoomId, d \in Conn : k \in Here(r) =>
       IF d \in Reached(Row(r).members \ {k})
         THEN /\ view'[d].roster = view[d].roster \ {k}
              /\ view'[d].hosts =
                   IF Row(r).host = k /\ Row(r)'.host # None
                     THEN {Row(r)'.host} \cap (view[d].roster \ {k})
                     ELSE view[d].hosts \ {k}
         ELSE view'[d] = view[d]
  /\ (\A r \in RoomId : k \notin Here(r)) => view' = view

LEMMA LeaveShows ==
  ASSUME Records, Rooms, NEW k, Leave(k)
  PROVE  LeaveTold(k)
<1>1. \A d \in Conn : view[d] \in View
  BY DEF Rooms
<1>2. CASE k \in DOMAIN client /\ client[k].room \in DOMAIN room
  <2> PICK q : q = client[k].room
    OBVIOUS
  <2> DEFINE row == Departed(Row(q), k)
             rest == Row(q).members \ {k}
             elected == Row(q).host = k /\ row.host # None
  <2>1. q \in RoomId /\ q \in DOMAIN room /\ Row(q) = room[q]
    BY <1>2 DEF Rooms, Row
  <2>2. row.members = rest
    BY <2>1, RowFacts, DepartedRow
  <2>3. view' = [d \in Conn |-> IF d \in Reached(rest)
                                  THEN MemberLeft(view[d], k, row, elected) ELSE view[d]]
    BY <1>2, <2>1, <2>2 DEF Leave
  <2>4. \A r \in RoomId : k \in Here(r) <=> r = q
    BY <1>2 DEF Here
  <2>5. rest # {} => Row(q)' = row
    BY <1>2, <2>1, <2>4, LeaveRows DEF LeavesRoom
  <2>6. ASSUME NEW d \in Conn
        PROVE  LET v == MemberLeft(view[d], k, row, elected) IN
               /\ v \in View /\ v.rev = view[d].rev /\ v.state = view[d].state
               /\ v.roster = view[d].roster \ {k}
               /\ v.hosts = IF elected THEN {row.host} \cap (view[d].roster \ {k})
                                      ELSE view[d].hosts \ {k}
    <3> HIDE DEF row, elected
    <3> QED BY <1>1 DEF MemberLeft, View
  <2>7. rest = {} => Reached(rest) = {}
    BY DEF Reached
  <2>8. view' \in [Conn -> View]
        /\ \A d \in Conn : view'[d].rev = view[d].rev /\ view'[d].state = view[d].state
    <3> HIDE DEF row, elected, rest
    <3> QED BY <1>1, <2>3, <2>6
  <2>9. ASSUME NEW d \in Conn
        PROVE  IF d \in Reached(rest)
                 THEN /\ view'[d].roster = view[d].roster \ {k}
                      /\ view'[d].hosts =
                           IF Row(q).host = k /\ Row(q)'.host # None
                             THEN {Row(q)'.host} \cap (view[d].roster \ {k})
                             ELSE view[d].hosts \ {k}
                 ELSE view'[d] = view[d]
    <3>1. CASE d \notin Reached(rest)
      <4> HIDE DEF row, elected, rest
      <4> QED BY <2>3, <3>1
    <3>2. CASE d \in Reached(rest)
      <4>1. Row(q)' = row
        BY <2>5, <2>7, <3>2
      <4>2. view'[d] = MemberLeft(view[d], k, row, elected)
        <5> HIDE DEF row, elected, rest
        <5> QED BY <2>3, <3>2
      <4> QED BY <2>6, <3>2, <4>1, <4>2
    <3> QED BY <3>1, <3>2
  <2> QED BY <2>1, <2>4, <2>8, <2>9 DEF LeaveTold
<1>3. CASE ~ (k \in DOMAIN client /\ client[k].room \in DOMAIN room)
  <2>1. view' = view
    BY <1>3 DEF Leave
  <2>2. \A r \in RoomId : k \notin Here(r)
    <3>1. \A r \in RoomId : Here(r) # {} => r \in DOMAIN room
      BY RowFacts
    <3> QED BY <1>3, <3>1 DEF Here
  <2>3. view' \in [Conn -> View]
    BY <2>1 DEF Rooms
  <2> QED BY <2>1, <2>2, <2>3 DEF LeaveTold
<1> QED BY <1>2, <1>3

\* A departure takes its key off the row, off every roster of the room, and
\* hands the mark of the host on.
LEMMA LeaveKeeps ==
  ASSUME Records, Rooms, NEW k, Leave(k)
  PROVE  Rooms'
<1>1. LeavesRoom(k) /\ LeaveTold(k)
  BY LeaveRows, LeaveShows
<1>2. ASSUME NEW r \in RoomId, k \in Here(r), Row(r).members \ {k} # {}
      PROVE  LET rest == Row(r).members \ {k} IN
             /\ Row(r)'.members = rest
             /\ Row(r)'.host = IF Row(r).host = k THEN Oldest(rest) ELSE Row(r).host
             /\ Row(r)'.rev = Row(r).rev /\ Row(r)'.snap = Row(r).snap
  <2>1. Row(r)' = Departed(Row(r), k)
    BY <1>1, <1>2 DEF LeavesRoom
  <2> QED BY <2>1, RowFacts, DepartedRow
<1>3. NewRoom.members = {} /\ NewRoom.host = None
  BY DEF NewRoom
<1>4. \A r \in RoomId : Here(r) \subseteq DOMAIN client
  BY DEF Here
<1>5. ASSUME NEW r \in RoomId
      PROVE  /\ Here(r)' \subseteq Row(r)'.members
             /\ Here(r)' # {} => Row(r)'.host \in Row(r)'.members
             /\ Row(r)'.host \in Row(r)'.members \cup {None}
  <2>1. /\ Here(r) \subseteq Row(r).members
        /\ Here(r) # {} => Row(r).host \in Row(r).members
        /\ Row(r).host \in Row(r).members \cup {None}
    BY RowFacts
  <2>2. Here(r)' = Here(r) \ {k}
    BY <1>1 DEF LeavesRoom
  <2>3. CASE k \notin Here(r)
    <3>1. Row(r)' = Row(r)
      BY <1>1, <2>3 DEF LeavesRoom
    <3> QED BY <2>1, <2>2, <2>3, <3>1
  <2>4. CASE k \in Here(r) /\ Row(r).members \ {k} = {}
    <3>1. Row(r)' = NewRoom
      BY <1>1, <2>4 DEF LeavesRoom
    <3> QED BY <1>3, <2>1, <2>2, <2>4, <3>1
  <2>5. CASE k \in Here(r) /\ Row(r).members \ {k} # {}
    <3> PICK rest : rest = Row(r).members \ {k}
      OBVIOUS
    <3>1. /\ Row(r)'.members = rest
          /\ Row(r)'.host = IF Row(r).host = k THEN Oldest(rest) ELSE Row(r).host
      BY <1>2, <2>5
    <3>2. /\ rest \cap DOMAIN client # {} => Oldest(rest) \in rest
          /\ rest \cap DOMAIN client = {} => Oldest(rest) = None
      BY OldestIsOne
    <3>3. Here(r)' \subseteq rest \cap DOMAIN client
      BY <1>4, <2>1, <2>2
    <3> QED BY <2>1, <2>2, <2>5, <3>1, <3>2, <3>3
  <2> QED BY <2>3, <2>4, <2>5
<1>6. RoomsKnowTheirs'
  <2>1. \A r \in DOMAIN room' : r \in RoomId /\ room'[r] = Row(r)'
    BY <1>1 DEF LeavesRoom, Rooms, Row
  <2>2. \A r \in DOMAIN room' : Row(r)'.members # {}
    BY <1>1, <2>1 DEF LeavesRoom
  <2> QED BY <1>5, <2>1, <2>2 DEF RoomsKnowTheirs
<1>7. AllShown'
  <2> SUFFICES ASSUME NEW m \in DOMAIN client', NEW r \in RoomId,
                      Settled(m)', client'[m].room = r
               PROVE  Shown(m, view'[client'[m].conn], Row(r)', Here(r)')
    BY DEF AllShown
  <2> PICK d : d = client[m].conn
    OBVIOUS
  <2>1. m \in DOMAIN client /\ m # k /\ client'[m] = client[m]
    BY <1>1 DEF LeavesRoom
  <2>2. Settled(m)
    <3>1. InRoom(m)
      BY <2>1 DEF Settled, InRoom
    <3>2. ASSUME NEW s \in DOMAIN room, m \in room[s].members PROVE s = r
      <4>1. s \in RoomId /\ Row(s) = room[s]
        BY DEF Rooms, Row
      <4>2. m \in Row(s)'.members
        <5>1. CASE k \in Here(s)
          BY <1>2, <2>1, <3>2, <4>1, <5>1
        <5>2. CASE k \notin Here(s)
          BY <1>1, <3>2, <4>1, <5>2 DEF LeavesRoom
        <5> QED BY <5>1, <5>2
      <4>3. s \in DOMAIN room' /\ room'[s] = Row(s)'
        BY <1>1, <4>1, <4>2 DEF LeavesRoom, Row
      <4> QED BY <4>2, <4>3 DEF Settled
    <3> QED BY <2>1, <3>1, <3>2 DEF Settled
  <2>3. Shown(m, view[d], Row(r), Here(r))
    BY <2>1, <2>2 DEF Rooms, AllShown
  <2>4. m \in Row(r).members /\ m \in Here(r) /\ d \in Conn
        /\ \A s \in RoomId : m \in Row(s).members => s = r
    BY <2>1, <2>2, SettledFacts
  <2>5. Here(r)' = Here(r) \ {k}
    BY <1>1 DEF LeavesRoom
  <2>6. CASE k \notin Here(r)
    <3>1. Row(r)' = Row(r)
      BY <1>1, <2>6 DEF LeavesRoom
    <3>2. view'[d] = view[d]
      <4>1. CASE \A s \in RoomId : k \notin Here(s)
        BY <1>1, <4>1 DEF LeaveTold
      <4>2. CASE \E s \in RoomId : k \in Here(s)
        <5> PICK s \in RoomId : k \in Here(s)
          BY <4>2
        <5>1. d \notin Reached(Row(s).members \ {k})
          BY <2>1, <2>4, <2>6, ReachedConn
        <5> QED BY <1>1, <2>4, <5>1 DEF LeaveTold
      <4> QED BY <4>1, <4>2
    <3> QED BY <2>1, <2>3, <2>5, <3>1, <3>2 DEF Shown
  <2>7. CASE k \in Here(r)
    <3> PICK rest : rest = Row(r).members \ {k}
      OBVIOUS
    <3>1. d \in Reached(rest) /\ m \in rest
      BY <2>1, <2>4, ReachedConn
    <3>2. /\ view'[d].roster = view[d].roster \ {k}
          /\ view'[d].hosts =
               IF Row(r).host = k /\ Row(r)'.host # None
                 THEN {Row(r)'.host} \cap (view[d].roster \ {k})
                 ELSE view[d].hosts \ {k}
          /\ view'[d].rev = view[d].rev /\ view'[d].state = view[d].state
      BY <1>1, <2>4, <2>7, <3>1 DEF LeaveTold
    <3>3. /\ Row(r)'.members = rest
          /\ Row(r)'.host = IF Row(r).host = k THEN Oldest(rest) ELSE Row(r).host
          /\ Row(r)'.rev = Row(r).rev /\ Row(r)'.snap = Row(r).snap
      BY <1>2, <2>7, <3>1
    <3>4. Oldest(rest) \in Key
      <4>1. rest \cap DOMAIN client # {} /\ rest \subseteq Key
        BY <2>1, <3>1, RowFacts DEF RoomRow
      <4> QED BY <4>1, OldestIsOne
    <3>5. view'[d].hosts = {Row(r)'.host} \cap view'[d].roster
      <4>1. view[d].hosts = {Row(r).host} \cap view[d].roster
        BY <2>3 DEF Shown
      <4> QED BY <3>2, <3>3, <3>4, <4>1, NoneIsNobody
    <3> QED BY <2>1, <2>3, <2>5, <3>2, <3>3, <3>5 DEF Shown
  <2> QED BY <2>6, <2>7
<1> QED BY <1>1, <1>6, <1>7 DEF Rooms, LeavesRoom, LeaveTold

\* A command or a heartbeat reaches everybody in the room but its author.
LEMMA PublishKeeps ==
  ASSUME Records, Rooms, NEW key, NEW q \in RoomId, Publishes(key, q)
  PROVE  Rooms'
<1>1. /\ client' = client /\ DOMAIN room' = DOMAIN room
      /\ \A r \in RoomId : r # q => Row(r)' = Row(r)
      /\ Row(q)'.members = Row(q).members /\ Row(q)'.host = Row(q).host
      /\ Row(q)'.rev = Row(q).rev + 1
  BY DEF Publishes
<1>2. \A r \in RoomId : Here(r)' = Here(r)
  BY <1>1 DEF Here
<1>3. /\ \A r \in DOMAIN room : r \in RoomId
      /\ \A r \in DOMAIN room : room[r] = Row(r) /\ room'[r] = Row(r)'
  BY <1>1 DEF Rooms, Row
<1>4. RoomsKnowTheirs'
  <2>1. \A r \in RoomId : Row(r)'.members = Row(r).members /\ Row(r)'.host = Row(r).host
    BY <1>1
  <2> QED BY <1>1, <1>2, <1>3, <2>1 DEF RoomsKnowTheirs, Rooms
<1>5. AllShown'
  <2> SUFFICES ASSUME NEW m \in DOMAIN client, NEW r \in RoomId,
                      Settled(m)', client[m].room = r
               PROVE  Shown(m, view'[client[m].conn], Row(r)', Here(r)')
    BY <1>1 DEF AllShown
  <2> PICK d : d = client[m].conn
    OBVIOUS
  <2>1. Settled(m)
    BY <1>1, <1>3 DEF Settled, InRoom
  <2>2. Shown(m, view[d], Row(r), Here(r))
    BY <2>1 DEF Rooms, AllShown
  <2>3. m \in Row(r).members /\ d \in Conn
        /\ \A s \in RoomId : m \in Row(s).members => s = r
    BY <2>1, SettledFacts
  <2>4. d \in Reached(Row(q).members \ {key}) <=> r = q /\ m # key
    BY <2>3, ReachedConn
  <2>5. CASE r # q
    BY <1>1, <1>2, <2>2, <2>3, <2>4, <2>5 DEF Publishes
  <2>6. CASE r = q
    <3>1. view[d].rev \in Nat /\ Row(q).rev \in Nat
      BY <2>3, RowFacts DEF RoomRow, Rooms, View
    <3>2. /\ Here(q) \subseteq view[d].roster /\ view[d].roster \subseteq Row(q).members
          /\ view[d].hosts = {Row(q).host} \cap view[d].roster
          /\ view[d].rev <= Row(q).rev
          /\ Row(q).snap # None => Row(q).snap.by = m \/ view[d].state = Row(q).snap.rev
      BY <2>2, <2>6 DEF Shown
    <3>3. CASE m = key
      <4>1. view'[d] = view[d]
        BY <2>3, <2>4, <3>3 DEF Publishes
      <4>2. \/ Row(q)'.snap = Row(q).snap
            \/ Row(q)'.snap.by = m
        BY <3>3 DEF Publishes
      <4>3. view[d].rev <= Row(q)'.rev
        BY <1>1, <3>1, <3>2
      <4> QED BY <1>1, <1>2, <2>6, <3>2, <4>1, <4>2, <4>3 DEF Shown
    <3>4. CASE m # key
      <4>1. /\ view'[d].roster = view[d].roster /\ view'[d].hosts = view[d].hosts
            /\ view'[d].rev = Row(q)'.rev
            /\ \/ Row(q)'.snap = Row(q).snap /\ view'[d].state = view[d].state
               \/ view'[d].state = Row(q)'.snap.rev
        BY <2>3, <2>4, <2>6, <3>4 DEF Publishes
      <4>2. view'[d].rev <= Row(q)'.rev
        BY <1>1, <3>1, <4>1
      <4> QED BY <1>1, <1>2, <2>6, <3>2, <4>1, <4>2 DEF Shown
    <3> QED BY <3>3, <3>4
  <2> QED BY <2>5, <2>6
<1>6. \A r \in DOMAIN room' : room'[r] \in RoomRow
  BY <1>1 DEF Publishes
<1> QED BY <1>1, <1>4, <1>5, <1>6 DEF Rooms, Publishes

\* What Register, RekeyClient and Disconnect do to who is in a room: whoever is
\* there was there with the same record, and nobody leaves but one whose record
\* another connection takes over.
Outside ==
  /\ UNCHANGED <<room, view>>
  /\ \A m \in DOMAIN client' :
       client'[m].room # None => m \in DOMAIN client /\ client'[m] = client[m]
  /\ \A m \in DOMAIN client : client[m].room # None =>
       m \in DOMAIN client' /\ (client'[m] = client[m] \/ client'[m].conn # client[m].conn)

LEMMA RegisterOutside ==
  ASSUME Records, NEW c \in Conn, Register(c)
  PROVE  Outside
<1>1. task[c].phase = "none" /\ task[c].key = c
  BY DEF Records, Register
<1>2. c \notin DOMAIN client
  <2> SUFFICES ASSUME c \in DOMAIN client PROVE FALSE
    OBVIOUS
  <2>1. client[c].conn \in Conn /\ task[client[c].conn].key = c
    BY DEF Records, ClientRow
  <2>2. client[c].conn = c
    BY <2>1, BrokerAssumption DEF Records
  <2> QED BY <1>1, <2>2 DEF Records, NoClientLeaks
<1> QED BY <1>2 DEF Register, Put, Outside

LEMMA RekeyOutside ==
  ASSUME Records, NEW c \in Conn, NEW id \in Client, NEW r \in RoomId, RekeyClient(c, id, r)
  PROVE  Outside
<1>1. UNCHANGED <<room, view>>
  BY DEF RekeyClient
<1>2. CASE task[c].renamed \/ c \notin DOMAIN client
  <2>1. client' = client
    BY <1>2 DEF RekeyClient
  <2> QED BY <1>1, <2>1 DEF Outside
<1>3. CASE ~ task[c].renamed /\ c \in DOMAIN client
  <2>1. client' = Put(Remove(client, c), id, client[c]) /\ c # id
    BY <1>3, BrokerAssumption DEF RekeyClient
  <2>2. client[c].conn = c /\ client[c].room = None
    <3>1. client[c].conn \in Conn /\ task[client[c].conn].key = c
      BY <1>3 DEF Records, ClientRow
    <3>2. client[c].conn = c
      BY <3>1, BrokerAssumption DEF Records
    <3> QED BY <1>3, <3>2 DEF Records
  <2>3. /\ DOMAIN client' = (DOMAIN client \ {c}) \cup {id} /\ client'[id] = client[c]
        /\ \A k \in DOMAIN client \ {c} : k # id => client'[k] = client[k]
    BY <2>1 DEF Put, Remove, Restrict
  <2>4. id \in DOMAIN client => client[id].conn # c
    BY <1>3, <2>1 DEF Records
  <2> QED BY <1>1, <2>2, <2>3, <2>4 DEF Outside
<1> QED BY <1>2, <1>3

\* The rows are changed by a JOIN, a departure or a message, and by nothing else.
LEMMA StepRows ==
  ASSUME Records, Rooms, [Next]_vars
  PROVE  \/ Outside
         \/ \E c \in Conn : HandleJoin(c) /\ task[c].key \in DOMAIN client
         \/ \E k : Leave(k)
         \/ \E key : \E q \in RoomId : Publishes(key, q)
<1>1. ASSUME NEW c \in Conn, Register(c) PROVE Outside
  BY <1>1, RegisterOutside
<1>2. ASSUME NEW c \in Conn, NEW id \in Client, NEW r \in RoomId, RekeyClient(c, id, r)
      PROVE  Outside
  BY <1>2, RekeyOutside
<1>3. ASSUME NEW c \in Conn, HandleJoin(c), task[c].key \notin DOMAIN client PROVE Outside
  BY <1>3 DEF HandleJoin, Outside
<1>4. ASSUME NEW c \in Conn, NEW r \in RoomId, HandleCmd(c, r) \/ HandleState(c, r)
      PROVE  \E key : Publishes(key, r)
  BY <1>4, PublishRows
<1>5. ASSUME NEW c \in Conn, LeaveFrame(c) \/ Cleanup(c) PROVE \E k : Leave(k)
  BY <1>5 DEF LeaveFrame, Cleanup
<1>6. ASSUME NEW c \in Conn, Disconnect(c) PROVE Outside
  BY <1>6 DEF Disconnect, Outside
<1>7. UNCHANGED vars => Outside
  BY DEF vars, Outside
<1> QED BY <1>1, <1>2, <1>3, <1>4, <1>5, <1>6, <1>7 DEF Next

LEMMA StepRooms ==
  ASSUME Records, Rooms, [Next]_vars
  PROVE  Rooms'
<1>1. Outside => Rooms'
  BY OutsideKeeps DEF Outside
<1>2. ASSUME NEW c \in Conn, HandleJoin(c) PROVE Rooms'
  BY <1>2, JoinKeeps
<1>3. ASSUME NEW k, Leave(k) PROVE Rooms'
  BY <1>3, LeaveKeeps
<1>4. ASSUME NEW key, NEW q \in RoomId, Publishes(key, q) PROVE Rooms'
  BY <1>4, PublishKeeps
<1> QED BY <1>1, <1>2, <1>3, <1>4, StepRows

LEMMA InitRooms == Init => Rooms
<1> SUFFICES ASSUME Init PROVE Rooms
  OBVIOUS
<1>1. DOMAIN client = {} /\ DOMAIN room = {} /\ Blank \in View
  BY DEF Init, Blank, View
<1>2. \A r \in RoomId : Here(r) = {}
  BY <1>1 DEF Here
<1> QED BY <1>1, <1>2 DEF Init, Rooms, RoomsKnowTheirs, AllShown

\* The records and the rooms keep to each other, whatever apps connect and
\* however their connections overlap.
THEOREM Invariance == Spec => []IInv
<1>1. Init => IInv
  BY InitRecords, InitRooms DEF IInv
<1>2. IInv /\ [Next]_vars => IInv'
  BY StepRecords, StepRooms DEF IInv
<1> QED BY <1>1, <1>2, PTL DEF Spec

----------------------------------------------------------------------------
(* What it says of the broker.                                             *)

\* A room lists whoever is in it, and keeps a host from among those it lists.
THEOREM RoomsStayConsistent == Spec => []RoomsConsistent
<1>1. IInv => RoomsConsistent
  <2> SUFFICES ASSUME IInv PROVE RoomsConsistent
    OBVIOUS
  <2>1. TypeOK
    BY DEF IInv, Records, Rooms, TypeOK
  <2> QED BY <2>1 DEF IInv, Rooms, RoomsConsistent
<1> QED BY <1>1, Invariance, PTL

\* Whoever is in a room is shown all who are, nobody it does not list, and its
\* host, after any joins, departures, overlaps and elections.
THEOREM ViewsStayTrue == Spec => []ViewsAgree
<1>1. IInv => ViewsAgree
  <2> SUFFICES ASSUME IInv, NEW k \in DOMAIN client, Settled(k)
               PROVE  Shown(k, view[client[k].conn], Row(client[k].room),
                            Here(client[k].room))
    BY DEF ViewsAgree, Shown
  <2> QED BY SettledFacts DEF IInv, Rooms, AllShown
<1> QED BY <1>1, Invariance, PTL

\* Nobody in a room misses the last published state but its author.
THEOREM StateReachesMembers == Spec => []StateReachesAll
<1>1. IInv => StateReachesAll
  <2> SUFFICES ASSUME IInv, NEW k \in DOMAIN client, Settled(k)
               PROVE  Shown(k, view[client[k].conn], Row(client[k].room),
                            Here(client[k].room))
    BY DEF StateReachesAll, Shown
  <2> QED BY SettledFacts DEF IInv, Rooms, AllShown
<1> QED BY <1>1, Invariance, PTL

\* What a step may do to the revision that somebody in a room is told.
Onward ==
  \A k \in DOMAIN client \cap DOMAIN client' :
    Settled(k) /\ client'[k].room = client[k].room =>
      view'[client[k].conn].rev >= view[client[k].conn].rev

LEMMA StepOnward ==
  ASSUME Records, Rooms, [Next]_vars
  PROVE  Onward
<1> SUFFICES ASSUME NEW m \in DOMAIN client, Settled(m), client'[m].room = client[m].room
             PROVE  view'[client[m].conn].rev >= view[client[m].conn].rev
  BY DEF Onward
<1> PICK d, r : d = client[m].conn /\ r = client[m].room
  OBVIOUS
<1>1. /\ m \in Row(r).members /\ m \in Here(r) /\ d \in Conn /\ r \in RoomId
      /\ \A s \in RoomId : m \in Row(s).members => s = r
  BY SettledFacts
<1>2. view[d].rev <= Row(r).rev /\ view[d].rev \in Nat /\ Row(r).rev \in Nat
  BY <1>1, RowFacts DEF Rooms, AllShown, Shown, RoomRow, View
<1>3. view'[d] = view[d] \/ view'[d].rev = view[d].rev => view'[d].rev >= view[d].rev
  BY <1>2
<1>4. Outside => view'[d] = view[d]
  BY DEF Outside
<1>5. ASSUME NEW c \in Conn, HandleJoin(c), task[c].key \in DOMAIN client
      PROVE  view'[d].rev >= view[d].rev
  <2> PICK k, q : k = task[c].key /\ q = task[c].joins
    OBVIOUS
  <2>1. JoinsRoom(k, q) /\ JoinTold(k, q)
    BY <1>5, JoinRows, JoinShows
  <2>2. CASE m # k
    <3>1. d # client[k].conn
      BY <1>5, <2>2 DEF Records
    <3> QED BY <1>1, <1>3, <2>1, <3>1 DEF JoinTold
  <2>3. CASE m = k
    <3>1. r = q
      BY <2>1, <2>3 DEF JoinsRoom
    <3>2. view'[d].rev = Row(r)'.rev
      BY <2>1, <2>3, <3>1 DEF JoinTold
    <3>3. Row(r)'.rev = Row(r).rev
      BY <1>1, <2>1, <3>1, RowFacts, JoinedRow DEF JoinsRoom
    <3> QED BY <1>2, <3>2, <3>3
  <2> QED BY <2>2, <2>3
<1>6. ASSUME NEW k, Leave(k) PROVE view'[d].rev = view[d].rev
  BY <1>1, <1>6, LeaveShows DEF LeaveTold
<1>7. ASSUME NEW key, NEW q \in RoomId, Publishes(key, q)
      PROVE  view'[d].rev >= view[d].rev
  <2>1. d \in Reached(Row(q).members \ {key}) => q = r
    BY <1>1, ReachedConn
  <2>2. CASE d \in Reached(Row(q).members \ {key})
    <3>1. view'[d].rev = Row(r)'.rev /\ Row(r)'.rev = Row(r).rev + 1
      BY <1>1, <1>7, <2>1, <2>2 DEF Publishes
    <3> QED BY <1>2, <3>1
  <2>3. CASE d \notin Reached(Row(q).members \ {key})
    BY <1>1, <1>3, <1>7, <2>3 DEF Publishes
  <2> QED BY <2>2, <2>3
<1> QED BY <1>3, <1>4, <1>5, <1>6, <1>7, StepRows

\* No election and no welcome takes a member back to an earlier revision.
THEOREM RevisionsGoOn == Spec => RevisionsAdvance
<1>1. IInv /\ [Next]_vars =>
        [\A k \in DOMAIN client \cap DOMAIN client' :
           Settled(k) /\ client'[k].room = client[k].room =>
             view'[client[k].conn].rev >= view[client[k].conn].rev]_vars
  BY StepOnward DEF Onward, IInv
<1> QED BY <1>1, Invariance, PTL DEF Spec, RevisionsAdvance

\* Where the ghosts of a step come from.
Haunted ==
  \A r \in RoomId : \A k \in Ghosts(r)' \ Ghosts(r) :
    /\ k \in DOMAIN client /\ k \in DOMAIN client'
    /\ \/ client'[k].conn # client[k].conn
       \/ client'[k].room \notin {r, None}

LEMMA StepHaunted ==
  ASSUME Records, Rooms, [Next]_vars
  PROVE  Haunted
<1> SUFFICES ASSUME NEW r \in RoomId, NEW m,
                    m \in Row(r)'.members, m \notin Here(r)',
                    m \in Row(r).members => m \in Here(r)
             PROVE  /\ m \in DOMAIN client /\ m \in DOMAIN client'
                    /\ \/ client'[m].conn # client[m].conn
                       \/ client'[m].room \notin {r, None}
  BY DEF Haunted, Ghosts
<1>1. m \in Here(r) => m \in DOMAIN client /\ client[m].room = r
  BY DEF Here
<1>2. CASE Outside
  <2>1. m \in Here(r)
    BY <1>2 DEF Outside, Row
  <2>2. m \in DOMAIN client' /\ (client'[m] = client[m] \/ client'[m].conn # client[m].conn)
    BY <1>1, <1>2, <2>1, NoneIsNobody DEF Outside
  <2>3. client'[m] # client[m]
    BY <1>1, <2>1, <2>2 DEF Here
  <2> QED BY <1>1, <2>1, <2>2, <2>3
<1>3. ASSUME NEW c \in Conn, HandleJoin(c), task[c].key \in DOMAIN client
      PROVE  m \in DOMAIN client /\ m \in DOMAIN client' /\ client'[m].room \notin {r, None}
  <2> PICK k, q : k = task[c].key /\ q = task[c].joins
    OBVIOUS
  <2>1. JoinsRoom(k, q)
    BY <1>3, JoinRows
  <2>2. r # q
    <3>1. r = q => Row(r)'.members = Row(r).members \cup {k}
      BY <2>1, RowFacts, JoinedRow DEF JoinsRoom
    <3>2. r = q => Here(r)' = Here(r) \cup {k}
      BY <2>1 DEF JoinsRoom
    <3> QED BY <3>1, <3>2
  <2>3. m \in Here(r) /\ m = k
    BY <2>1, <2>2 DEF JoinsRoom
  <2> QED BY <1>1, <2>1, <2>2, <2>3, NoneIsNobody DEF JoinsRoom
<1>4. ASSUME NEW k, Leave(k) PROVE FALSE
  <2>1. LeavesRoom(k)
    BY <1>4, LeaveRows
  <2>2. NewRoom.members = {}
    BY DEF NewRoom
  <2>3. Row(r)'.members \subseteq Row(r).members
        /\ (k \in Here(r) => Row(r)'.members \subseteq Row(r).members \ {k})
    <3>1. Row(r) \in RoomRow
      BY RowFacts
    <3>2. Departed(Row(r), k).members = Row(r).members \ {k}
      BY <3>1, DepartedRow
    <3> QED BY <2>1, <2>2, <3>2 DEF LeavesRoom
  <2>4. Here(r)' = Here(r) \ {k}
    BY <2>1 DEF LeavesRoom
  <2> QED BY <2>3, <2>4
<1>5. ASSUME NEW key, NEW q \in RoomId, Publishes(key, q) PROVE FALSE
  <2>1. client' = client /\ Row(r)'.members = Row(r).members
    BY <1>5 DEF Publishes
  <2>2. Here(r)' = Here(r)
    BY <2>1 DEF Here
  <2> QED BY <2>1, <2>2
<1> QED BY <1>2, <1>3, <1>4, <1>5, StepRows

\* A departure, the first or the second of a connection, takes whom it removes
\* off the room: ghosts come from nothing but records taken over and from
\* connections that change rooms.
THEOREM DeparturesLeaveNoGhost == Spec => NoGhostOfTheDeparted
<1>1. IInv /\ [Next]_vars =>
        [\A r \in RoomId : \A k \in Ghosts(r)' \ Ghosts(r) :
           /\ k \in DOMAIN client /\ k \in DOMAIN client'
           /\ \/ client'[k].conn # client[k].conn
              \/ client'[k].room \notin {r, None}]_vars
  BY StepHaunted DEF Haunted, IInv
<1> QED BY <1>1, Invariance, PTL DEF Spec, NoGhostOfTheDeparted

----------------------------------------------------------------------------
(* Hosted rooms.                                                           *)

\* A step that changes nothing of the row of r is a stutter of it.
LEMMA KeptStutters ==
  ASSUME NEW r, Row(r)' = Row(r)
  PROVE  UNCHANGED Hosted(r)!roomVars
BY DEF Hosted!roomVars

\* A JOIN enters its room and leaves every other as it is.
LEMMA JoinEnters ==
  ASSUME Records, Rooms, NEW c \in Conn, HandleJoin(c), task[c].key \in DOMAIN client,
         NEW r \in RoomId
  PROVE  [Hosted(r)!Next]_(Hosted(r)!roomVars)
<1> PICK k, q : k = task[c].key /\ q = task[c].joins
  OBVIOUS
<1>1. JoinsRoom(k, q)
  BY JoinRows
<1>2. CASE r # q
  BY <1>1, <1>2, KeptStutters DEF JoinsRoom
<1>3. CASE r = q
  <2>1. Row(r)' = Joined(Row(r), k) /\ k \in Key /\ k \in DOMAIN client
    BY <1>1, <1>3 DEF JoinsRoom
  <2>2. /\ Row(r)'.members = Row(r).members \cup {k}
        /\ Row(r)'.host = IF Row(r).host = None THEN k ELSE Row(r).host
        /\ Row(r)'.rev = Row(r).rev
    BY <2>1, RowFacts, JoinedRow
  <2>3. Hosted(r)!Enter(k)
    BY <2>1, <2>2 DEF Hosted!Enter
  <2> QED BY <2>1, <2>3 DEF Hosted!Next
<1> QED BY <1>2, <1>3

\* A command or a heartbeat stamps its room.
LEMMA PublishStamps ==
  ASSUME Records, Rooms, NEW key, NEW q \in RoomId, Publishes(key, q), NEW r \in RoomId
  PROVE  [Hosted(r)!Next]_(Hosted(r)!roomVars)
<1>1. CASE r # q
  BY <1>1, KeptStutters DEF Publishes
<1>2. CASE r = q
  <2>1. /\ Row(r)'.members = Row(r).members /\ Row(r)'.host = Row(r).host
        /\ Row(r)'.rev = Row(r).rev + 1 /\ r \in DOMAIN room
    BY <1>2 DEF Publishes
  <2>2. Row(r).members # {}
    BY <2>1, RowFacts
  <2>3. Hosted(r)!Stamp
    BY <2>1, <2>2 DEF Hosted!Stamp
  <2> QED BY <2>3 DEF Hosted!Next
<1> QED BY <1>1, <1>2

\* handle_leave departs from its room, or takes it along.
LEMMA LeaveDeparts ==
  ASSUME Records, Rooms, NEW k, Leave(k), NEW r \in RoomId
  PROVE  [Hosted(r)!Next]_(Hosted(r)!roomVars)
<1>1. LeavesRoom(k)
  BY LeaveRows
<1>2. CASE k \notin Here(r)
  BY <1>1, <1>2, KeptStutters DEF LeavesRoom
<1>3. CASE k \in Here(r)
  <2> PICK rest : rest = Row(r).members \ {k}
    OBVIOUS
  <2>1. k \in Row(r).members /\ k \in Key
    BY <1>3, RowFacts DEF RoomRow
  <2>2. CASE rest = {}
    <3>1. Row(r)' = NewRoom
      BY <1>1, <1>3, <2>2 DEF LeavesRoom
    <3>2. Row(r).members = {k}
      BY <2>1, <2>2
    <3>3. Hosted(r)!Abandon(k)
      BY <3>1, <3>2 DEF Hosted!Abandon, NewRoom
    <3> QED BY <2>1, <3>3 DEF Hosted!Next
  <2>3. CASE rest # {}
    <3>1. Row(r)' = Departed(Row(r), k)
      BY <1>1, <1>3, <2>3 DEF LeavesRoom
    <3>2. /\ Row(r)'.members = rest /\ Row(r)'.rev = Row(r).rev
          /\ Row(r)'.host = IF Row(r).host = k THEN Oldest(rest) ELSE Row(r).host
      BY <3>1, RowFacts, DepartedRow
    <3>3. Oldest(rest) \in IF rest \cap DOMAIN client = {} THEN {None}
                                                         ELSE rest \cap DOMAIN client
      BY OldestIsOne
    <3>4. Hosted(r)!Depart(k)
      BY <2>1, <2>3, <3>2, <3>3 DEF Hosted!Depart
    <3> QED BY <2>1, <3>4 DEF Hosted!Next
  <2> QED BY <2>2, <2>3
<1> QED BY <1>2, <1>3

LEMMA StepHosted ==
  ASSUME Records, Rooms, [Next]_vars, NEW r \in RoomId
  PROVE  [Hosted(r)!Next]_(Hosted(r)!roomVars)
<1>1. Outside => UNCHANGED Hosted(r)!roomVars
  <2>1. Outside => Row(r)' = Row(r)
    BY DEF Outside, Row
  <2> QED BY <2>1, KeptStutters
<1>2. ASSUME NEW c \in Conn, HandleJoin(c), task[c].key \in DOMAIN client
      PROVE  [Hosted(r)!Next]_(Hosted(r)!roomVars)
  BY <1>2, JoinEnters
<1>3. ASSUME NEW k, Leave(k) PROVE [Hosted(r)!Next]_(Hosted(r)!roomVars)
  BY <1>3, LeaveDeparts
<1>4. ASSUME NEW key, NEW q \in RoomId, Publishes(key, q)
      PROVE  [Hosted(r)!Next]_(Hosted(r)!roomVars)
  BY <1>4, PublishStamps
<1> QED BY <1>1, <1>2, <1>3, <1>4, StepRows

\* Every room is a hosted room of those it lists: whatever joins, departures,
\* overlapping connections, commands and heartbeats there are, nobody deposes
\* its host but the host, somebody who can be reached succeeds it if anybody
\* can, and its revision rises until it is empty.
THEOREM RoomsStayHosted == Spec => HostsKept
<1> DEFINE A == \A r \in RoomId : [Hosted(r)!Next]_(Hosted(r)!roomVars)
           I == \A r \in RoomId : Hosted(r)!Init
<1>1. Init => I
  BY DEF Init, Hosted!Init, Row, NewRoom
<1>2. IInv /\ [Next]_vars => A
  BY StepHosted DEF IInv
<1> HIDE DEF A, I
<1>3. IInv /\ [Next]_vars => [A]_vars
  BY <1>2
<1>4. Spec => I /\ [][A]_vars
  BY <1>1, <1>3, Invariance, PTL DEF Spec
<1> QED BY <1>4 DEF HostsKept, A, I
=============================================================================
