------------------------ MODULE VeyaTransportProofs ------------------------
(***************************************************************************)
(* Machine-checked proofs about VeyaTransport, for every set of devices    *)
(* and accounts and without the bounds that keep TLC's instance small: the *)
(* room implements HostLease whatever the devices ask of it, a device that *)
(* left keeps nothing, and one that is in the room is never forgotten.     *)
(***************************************************************************)
EXTENDS VeyaTransport, TLAPS

\* The row has its type, without bounds.
Row == [state : {"open", "gone"}, members : SUBSET User, host : User,
        epoch : Nat \ {0}, topic : Nat \ {0}, lease : {"valid", "lapsed"}]
RowOK == srv \in Row

----------------------------------------------------------------------------
(* The room implements HostLease.                                          *)

\* What an RPC may do to the row.
Served ==
  \/ UNCHANGED srv
  \/ /\ srv.state = "open" /\ srv'.state = "open"
     /\ \/ srv'.host = srv.host /\ srv'.epoch = srv.epoch
        \/ srv'.epoch = srv.epoch + 1 /\ srv'.lease = "valid"
  \/ srv.state = "open" /\ srv'.state = "gone"

LEMMA InRoomIsUser ==
  ASSUME RowOK, NEW u, InRoom(u)
  PROVE  u \in User /\ srv.state = "open"
BY DEF RowOK, Row, InRoom

LEMMA RotatedIsRow ==
  ASSUME RowOK
  PROVE  /\ Rotated \in Row /\ Rotated.state = srv.state
         /\ Rotated.host = srv.host /\ Rotated.epoch = srv.epoch
BY DEF RowOK, Row, Rotated

LEMMA CrownedIsRow ==
  ASSUME RowOK, srv.state = "open", NEW u \in User
  PROVE  /\ Crowned(u) \in Row /\ Crowned(u).state = "open"
         /\ Crowned(u).epoch = srv.epoch + 1 /\ Crowned(u).lease = "valid"
<1>1. Rotated \in Row /\ Rotated.state = "open" /\ Rotated.epoch = srv.epoch
  BY RotatedIsRow
<1>2. Crowned(u) \in Row
  <2>1. ASSUME NEW row \in Row, NEW e \in Nat \ {0}
        PROVE  [row EXCEPT !.host = u, !.epoch = e, !.lease = "valid"] \in Row
    BY DEF Row
  <2>2. Rotated.epoch + 1 \in Nat \ {0}
    BY <1>1 DEF Row
  <2>3. Crowned(u) = [Rotated EXCEPT !.host = u, !.epoch = Rotated.epoch + 1, !.lease = "valid"]
    BY DEF Crowned
  <2>4. [Rotated EXCEPT !.host = u, !.epoch = Rotated.epoch + 1, !.lease = "valid"] \in Row
    BY <1>1, <2>1, <2>2, Zenon
  <2> QED BY <2>3, <2>4, Zenon
<1>3. /\ Crowned(u).state = "open" /\ Crowned(u).epoch = srv.epoch + 1
      /\ Crowned(u).lease = "valid"
  BY <1>1 DEF Row, Crowned
<1> QED BY <1>2, <1>3

LEMMA CrownedServes ==
  ASSUME RowOK, srv.state = "open", NEW u \in User, srv' = Crowned(u)
  PROVE  RowOK' /\ Served
BY CrownedIsRow DEF RowOK, Served

\* Every step keeps the row's type and treats the lease as HostLease allows.
LEMMA StepServes ==
  ASSUME TransportAssumption, RowOK, [Next]_vars
  PROVE  RowOK' /\ Served
<1> USE DEF TransportAssumption
<1>1. ASSUME UNCHANGED srv
      PROVE  RowOK' /\ Served
  BY <1>1 DEF RowOK, Served
<1>2. ASSUME NEW d \in Device,
             Join(d) \/ Leave(d) \/ Close(d) \/ Publish(d) \/ Machinery(d)
               \/ ChannelFails(d) \/ LosePing(d)
      PROVE  UNCHANGED srv
  BY <1>2 DEF Join, Leave, Close, Publish, Machinery, ChannelFails, LosePing,
              AnswerConnect, ConnectReturns, ChannelAnswers, ReconnectTimer, Changed,
              RefreshReturns, LeaseReturns
<1>3. ASSUME NEW d \in Device, Renew(d)
      PROVE  RowOK' /\ Served
  <2>1. CASE UNCHANGED srv
    BY <2>1, <1>1
  <2>2. CASE InRoom(Owner[d]) /\ srv' = [srv EXCEPT !.lease = "valid"]
    BY <2>2, InRoomIsUser DEF RowOK, Row, Served
  <2> QED BY <1>3, <2>1, <2>2 DEF Renew
<1>4. ASSUME NEW d \in Device, Claim(d) \/ ClaimFails(d)
      PROVE  RowOK' /\ Served
  <2>1. CASE UNCHANGED srv
    BY <2>1, <1>1
  <2>2. CASE Claimable(Owner[d]) /\ srv' = Crowned(Owner[d])
    <3>1. Owner[d] \in User /\ srv.state = "open"
      BY <2>2, InRoomIsUser DEF Claimable
    <3> QED BY <2>2, <3>1, CrownedServes
  <2> QED BY <1>4, <2>1, <2>2 DEF Claim, ClaimFails
<1>5. CASE Lapse
  BY <1>5 DEF Lapse, RowOK, Row, Served
<1>6. ASSUME NEW u \in User, Transfer(u)
      PROVE  RowOK' /\ Served
  BY <1>6, CrownedServes DEF Transfer
<1>7. ASSUME NEW u \in User, Remove(u) \/ Admit(u)
      PROVE  RowOK' /\ Served
  <2>1. PICK M \in SUBSET User : srv.state = "open" /\ srv' = [Rotated EXCEPT !.members = M]
    <3>1. CASE Remove(u)
      BY <3>1, RotatedIsRow, InRoomIsUser DEF Remove, RowOK, Row
    <3>2. CASE Admit(u)
      BY <3>2, RotatedIsRow DEF Admit, RowOK, Row
    <3> QED BY <1>7, <3>1, <3>2
  <2> QED BY <2>1, RotatedIsRow DEF RowOK, Row, Served
<1>8. ASSUME NEW u \in User, RemoveHost(u)
      PROVE  RowOK' /\ Served
  <2>1. srv.state = "open"
    BY <1>8, InRoomIsUser DEF RemoveHost
  <2>2. /\ Crowned(u) \in Row /\ Crowned(u).state = "open"
        /\ Crowned(u).epoch = srv.epoch + 1 /\ Crowned(u).lease = "valid"
    BY <2>1, CrownedIsRow
  <2> QED BY <1>8, <2>1, <2>2 DEF RemoveHost, RowOK, Row, Served
<1>9. CASE CloseRoom \/ Expire
  BY <1>9 DEF CloseRoom, Expire, NoRow, RowOK, Row, Served
<1>10. CASE UNCHANGED vars
  BY <1>10, <1>1 DEF vars
<1> QED BY <1>1, <1>2, <1>3, <1>4, <1>5, <1>6, <1>7, <1>8, <1>9, <1>10 DEF Next

LEMMA InitServes ==
  ASSUME TransportAssumption, Init
  PROVE  RowOK /\ Lease!Init
BY DEF TransportAssumption, Init, RowOK, Row, Lease!Init

LEMMA ServedIsLeaseStep ==
  ASSUME RowOK, RowOK', Served
  PROVE  [Lease!Next]_(Lease!leaseVars)
<1>1. CASE UNCHANGED srv
  BY <1>1 DEF Lease!leaseVars
<1>2. CASE srv.state = "open" /\ srv'.state = "gone"
  <2>1. Lease!End
    BY <1>2 DEF Lease!End
  <2> QED BY <2>1 DEF Lease!Next
<1>3. CASE /\ srv.state = "open" /\ srv'.state = "open"
           /\ srv'.host = srv.host /\ srv'.epoch = srv.epoch
  <2>1. Lease!Keep
    BY <1>3 DEF Lease!Keep, RowOK, Row
  <2> QED BY <2>1 DEF Lease!Next
<1>4. CASE /\ srv.state = "open" /\ srv'.state = "open"
           /\ srv'.epoch = srv.epoch + 1 /\ srv'.lease = "valid"
  <2>1. srv'.host \in User /\ Lease!Succeed(srv'.host)
    BY <1>4 DEF Lease!Succeed, RowOK, Row
  <2> QED BY <2>1 DEF Lease!Next
<1> QED BY <1>1, <1>2, <1>3, <1>4 DEF Served

\* The server half of the transport implements HostLease: claims, renewals,
\* transfers, departures and closings, in whatever order the devices' calls
\* arrive, keep one holder a term.
THEOREM TransportKeepsLease ==
  ASSUME TransportAssumption
  PROVE  Spec => LeaseSpec
<1>1. Init => RowOK /\ Lease!Init
  BY InitServes
<1>2. RowOK /\ [Next]_vars => RowOK'
  BY StepServes
<1>3. RowOK /\ RowOK' /\ [Next]_vars => [Lease!Next]_(Lease!leaseVars)
  BY StepServes, ServedIsLeaseStep
<1> QED BY <1>1, <1>2, <1>3, PTL DEF Spec, LeaseSpec, Lease!Spec

----------------------------------------------------------------------------
(* A device and its channel.                                               *)

\* The fields of a transport, without bounds; an answer that succeeds carries a
\* topic.
Desc == [topic : Nat, host : User \cup {0}, epoch : Nat]
NewDesc == [topic : Nat \ {0}, host : User, epoch : Nat]
Call == [is : {"idle", "asked", "gone", "down"}, desc : Desc] \cup [is : {"ok"}, desc : NewDesc]
Chan == [topic : Nat, status : {"none", "joining", "subscribed", "failed"},
         handlers : {"live", "dead"}, rights : {"none", "guest", "host"}]
Transport ==
  [stay : {"out", "in", "closed"}, desc : Desc, chan : Chan, connect : Call,
   refreshes : SUBSET Call, lease : Call, timer : {"off", "on"},
   inbox : {"deaf", "quiet", "changed"}, seq : Nat, heard : [rev : Nat, by : Nat]]

\* LeftMeansQuiet and NoneForgotten of a transport t.
Quiet(t) ==
  /\ t.chan = NoChannel /\ t.desc = NoDesc
  /\ t.timer = "off" /\ t.connect = Idle /\ t.refreshes = {}
Kept(t) ==
  \/ t.chan.handlers = "live" \/ t.connect # Idle \/ t.timer = "on"
  \/ t.chan = NoChannel /\ t.desc = NoDesc

Sound(t) ==
  /\ t \in Transport
  /\ t.stay # "in" => Quiet(t)
  /\ t.stay = "in" => Kept(t)

\* The inductive invariant: every transport is sound, the row is typed.
IInv ==
  /\ RowOK
  /\ DOMAIN dev = Device
  /\ \A d \in Device : Sound(dev[d])

LEMMA CallsTyped ==
  ASSUME TransportAssumption, RowOK
  PROVE  /\ NoDesc \in Desc /\ NoChannel \in Chan
         /\ {Idle, Asked, Gone, Down} \subseteq Call
         /\ Descriptor \in NewDesc
         /\ \A u : GetRoom(u) \in Call
<1>1. NoDesc \in Desc /\ NoChannel \in Chan
  BY DEF NoDesc, Desc, NoChannel, Chan
<1>2. Descriptor \in NewDesc
  BY DEF RowOK, Row, Descriptor, NewDesc
<1>3. {Idle, Asked, Gone, Down} \subseteq Call
  BY <1>1 DEF Idle, Asked, Gone, Down, Call
<1>4. ASSUME NEW u
      PROVE  GetRoom(u) \in Call
  BY <1>2, <1>3 DEF GetRoom, Call
<1> QED BY <1>1, <1>2, <1>3, <1>4

LEMMA CallKinds ==
  /\ \A c \in Call : c.is = "ok" => c.desc \in NewDesc
  /\ \A c \in Call : c.desc \in Desc
  /\ NewDesc \subseteq Desc
  /\ Asked # Idle
BY DEF Call, NewDesc, Desc, Asked, Idle

----------------------------------------------------------------------------
(* The private methods.                                                    *)

LEMMA ReconnectSound ==
  ASSUME TransportAssumption, RowOK, NEW t \in Transport
  PROVE  /\ Reconnect(t) \in Transport
         /\ Reconnect(t).connect # Idle
         /\ Reconnect(t).stay = t.stay
<1>1. Bump(t) \in Transport /\ Bump(t).stay = t.stay
  BY CallsTyped DEF Transport, Chan, Bump
<1> QED BY <1>1, CallsTyped, CallKinds DEF Transport, Reconnect

LEMMA DepartSound ==
  ASSUME TransportAssumption, RowOK, NEW t \in Transport
  PROVE  Depart(t) \in Transport /\ Depart(t).stay = "out" /\ Quiet(Depart(t))
<1>1. /\ Bump(t) \in Transport /\ Bump(t).connect = Idle /\ Bump(t).refreshes = {}
  BY CallsTyped DEF Transport, Chan, Bump
<1>2. /\ RemoveRoomChannel(Bump(t)) \in Transport
      /\ RemoveRoomChannel(Bump(t)).chan = NoChannel
      /\ RemoveRoomChannel(Bump(t)).connect = Idle
      /\ RemoveRoomChannel(Bump(t)).refreshes = {}
  BY <1>1, CallsTyped DEF Transport, RemoveRoomChannel
<1> QED BY <1>2, CallsTyped DEF Transport, Depart, Quiet

LEMMA ScheduleSound ==
  ASSUME NEW t \in Transport, t.stay = "in"
  PROVE  /\ ScheduleReconnect(t) \in Transport /\ ScheduleReconnect(t).stay = "in"
         /\ ScheduleReconnect(t).timer = "on"
BY DEF Transport, ScheduleReconnect

----------------------------------------------------------------------------
(* The steps.                                                              *)

LEMMA PutSound ==
  ASSUME IInv, NEW d \in Device, NEW t, Sound(t), Put(d, t)
  PROVE  DOMAIN dev' = Device /\ \A e \in Device : Sound(dev'[e])
BY DEF IInv, Put

LEMMA SameSound ==
  ASSUME IInv, UNCHANGED dev
  PROVE  DOMAIN dev' = Device /\ \A e \in Device : Sound(dev'[e])
BY DEF IInv

LEMMA InboxSound ==
  ASSUME NEW t, Sound(t), NEW s \in {"deaf", "quiet", "changed"}
  PROVE  Sound([t EXCEPT !.inbox = s])
BY DEF Sound, Transport, Quiet, Kept

LEMMA LeaseSound ==
  ASSUME NEW t, Sound(t), NEW c \in Call
  PROVE  Sound([t EXCEPT !.lease = c])
BY DEF Sound, Transport, Quiet, Kept

\* A ping touches the inboxes alone.
LEMMA PingedSound ==
  ASSUME NEW D, \A e \in Device : Sound(D[e]), NEW U
  PROVE  DOMAIN Pinged(D, U) = Device /\ \A e \in Device : Sound(Pinged(D, U)[e])
BY InboxSound DEF Pinged

LEMMA JoinSound ==
  ASSUME TransportAssumption, IInv, NEW d \in Device, Join(d)
  PROVE  DOMAIN dev' = Device /\ \A e \in Device : Sound(dev'[e])
<1> DEFINE r == Reconnect(dev[d])
           t == [r EXCEPT !.stay = "in", !.seq = 0,
                          !.inbox = IF @ = "deaf" THEN "quiet" ELSE @]
<1>1. dev[d] \in Transport /\ RowOK
  BY DEF IInv, Sound
<1>2. r \in Transport /\ r.connect # Idle
  BY <1>1, ReconnectSound
<1>3. t \in Transport /\ t.stay = "in" /\ t.connect # Idle
  BY <1>2 DEF Transport
<1>4. Sound(t)
  BY <1>3 DEF Sound, Kept
<1> QED BY <1>4, PutSound DEF Join

LEMMA UnwiredSound ==
  ASSUME NEW t, Sound(t)
  PROVE  Sound(Unwired(t)) /\ Unwired(t).stay = t.stay
BY DEF Sound, Transport, Quiet, Kept, Unwired, Device0

LEMMA DepartedSound ==
  ASSUME TransportAssumption, IInv, NEW d \in Device
  PROVE  /\ Sound(Unwired(Depart(dev[d])))
         /\ Sound([Unwired(Depart(dev[d])) EXCEPT !.stay = "closed", !.inbox = "deaf"])
<1>1. /\ Depart(dev[d]) \in Transport /\ Depart(dev[d]).stay = "out"
      /\ Quiet(Depart(dev[d]))
  BY DepartSound DEF IInv, Sound
<1>2. Sound(Unwired(Depart(dev[d]))) /\ Unwired(Depart(dev[d])).stay = "out"
  BY <1>1, UnwiredSound DEF Sound
<1>3. ASSUME NEW t, Sound(t), t.stay = "out"
      PROVE  Sound([t EXCEPT !.stay = "closed", !.inbox = "deaf"])
  BY <1>3 DEF Sound, Transport, Quiet, Kept
<1> QED BY <1>2, <1>3

LEMMA PublishSound ==
  ASSUME TransportAssumption, IInv, NEW d \in Device, Publish(d)
  PROVE  DOMAIN dev' = Device /\ \A e \in Device : Sound(dev'[e])
<1> DEFINE said == [dev[d] EXCEPT !.seq = NextSeq(dev[d])]
<1>1. Sound(dev[d]) /\ dev[d].stay = "in"
  BY DEF IInv, Sound, Quiet, Publish
<1>2. NextSeq(dev[d]) \in Nat
  BY <1>1 DEF Sound, Transport, NextSeq, TransportAssumption
<1>3. Sound(said) /\ said.stay = "in" /\ said \in Transport
  BY <1>1, <1>2 DEF Sound, Transport, Quiet, Kept
<1>4. Sound(ScheduleReconnect(said))
  BY <1>3, ScheduleSound DEF Sound, Kept
<1>5. Rev(said) \in Nat /\ d \in Nat
  BY <1>3 DEF Rev, Transport, Desc, TransportAssumption
<1>6. ASSUME NEW e \in Device
      PROVE  Sound([dev[e] EXCEPT !.heard = [rev |-> Rev(said), by |-> d]])
  BY <1>5 DEF IInv, Sound, Transport, Quiet, Kept
<1>7. CASE dev[d].chan.rights = "host"
  BY <1>3, <1>6, <1>7 DEF IInv, Publish
<1>8. CASE dev[d].chan.rights # "host"
  BY <1>4, <1>8, PutSound DEF Publish
<1> QED BY <1>7, <1>8

LEMMA ConnectSound ==
  ASSUME TransportAssumption, IInv, NEW d \in Device,
         AnswerConnect(d) \/ ConnectReturns(d)
  PROVE  DOMAIN dev' = Device /\ \A e \in Device : Sound(dev'[e])
<1>1. Sound(dev[d]) /\ dev[d].stay = "in" /\ dev[d] \in Transport
  BY DEF IInv, Sound, Quiet, AnswerConnect, ConnectReturns, Idle, Asked
<1>2. CASE AnswerConnect(d)
  <2>1. PICK c \in Call : c # Idle /\ Put(d, [dev[d] EXCEPT !.connect = c])
    <3>1. GetRoom(Owner[d]) # Idle /\ Down # Idle
      BY DEF GetRoom, Gone, Down, Idle
    <3> QED BY <1>2, <3>1, CallsTyped DEF AnswerConnect, IInv
  <2>2. Sound([dev[d] EXCEPT !.connect = c])
    BY <1>1, <2>1 DEF Sound, Kept, Transport
  <2> QED BY <2>1, <2>2, PutSound
<1>3. CASE ConnectReturns(d)
  <2> DEFINE reply == dev[d].connect
             t == [dev[d] EXCEPT !.connect = Idle]
  <2>1. t \in Transport /\ t.stay = "in" /\ reply \in Call
    BY <1>1, CallsTyped DEF Transport, IInv
  <2>2. CASE reply.is = "ok"
    <3> DEFINE n == [t EXCEPT !.desc = reply.desc, !.chan = Opened(reply.desc.topic)]
    <3>1. reply.desc \in Desc
      BY <2>1, CallKinds
    <3>2. Opened(reply.desc.topic) \in Chan /\ Opened(reply.desc.topic).handlers = "live"
      BY <3>1 DEF Desc, Chan, Opened
    <3>3. n \in Transport /\ n.stay = "in" /\ n.chan.handlers = "live"
      BY <2>1, <3>1, <3>2 DEF Transport
    <3>4. Sound(n)
      BY <3>3 DEF Sound, Kept
    <3> QED BY <1>3, <2>2, <3>4, PutSound DEF ConnectReturns
  <2>3. CASE reply.is = "gone"
    <3>1. Sound(Depart(t))
      BY <2>1, DepartSound DEF IInv, Sound
    <3> QED BY <1>3, <2>3, <3>1, PutSound DEF ConnectReturns
  <2>4. CASE reply.is \notin {"ok", "gone"}
    <3>1. Sound(ScheduleReconnect(t))
      BY <2>1, ScheduleSound DEF Sound, Kept
    <3> QED BY <1>3, <2>4, <3>1, PutSound DEF ConnectReturns
  <2> QED BY <2>2, <2>3, <2>4
<1> QED BY <1>2, <1>3

LEMMA ChannelSound ==
  ASSUME TransportAssumption, IInv, NEW d \in Device,
         ChannelAnswers(d) \/ ChannelFails(d) \/ ReconnectTimer(d)
  PROVE  DOMAIN dev' = Device /\ \A e \in Device : Sound(dev'[e])
<1>1. Sound(dev[d]) /\ dev[d].stay = "in" /\ dev[d] \in Transport
  BY DEF IInv, Sound, Quiet, ChannelAnswers, ChannelFails, ReconnectTimer, NoChannel
<1> DEFINE failed == [dev[d] EXCEPT !.chan.status = "failed"]
<1>2. Sound(ScheduleReconnect(failed))
  <2>1. failed \in Transport /\ failed.stay = "in"
    BY <1>1 DEF Transport, Chan
  <2> QED BY <2>1, ScheduleSound DEF Sound, Kept
<1>3. ASSUME NEW rights \in {"guest", "host"}, dev[d].chan.handlers = "live"
      PROVE  Sound([dev[d] EXCEPT !.chan.status = "subscribed", !.chan.rights = rights])
  BY <1>1, <1>3 DEF Sound, Kept, Transport, Chan
<1>4. CASE ChannelAnswers(d)
  BY <1>2, <1>3, <1>4, PutSound DEF ChannelAnswers, Rights
<1>5. CASE ChannelFails(d)
  BY <1>2, <1>5, PutSound DEF ChannelFails
<1>6. CASE ReconnectTimer(d)
  <2> DEFINE t == [dev[d] EXCEPT !.timer = "off"]
  <2>1. t \in Transport /\ t.stay = "in"
    BY <1>1 DEF Transport
  <2>2. Sound(Reconnect(t))
    BY <2>1, ReconnectSound DEF IInv, Sound, Kept
  <2> QED BY <1>6, <2>2, PutSound DEF ReconnectTimer
<1> QED BY <1>4, <1>5, <1>6

\* A refresh is only issued by a device that is in the room.
LEMMA AskSound ==
  ASSUME TransportAssumption, IInv, NEW d \in Device, NEW t, Sound(t), AskRefresh(d, t)
  PROVE  DOMAIN dev' = Device /\ \A e \in Device : Sound(dev'[e])
<1>1. ASSUME NEW c \in Call, t.stay = "in"
      PROVE  Sound([t EXCEPT !.refreshes = @ \cup {c}])
  BY <1>1 DEF Sound, Kept, Transport
<1>2. GetRoom(Owner[d]) \in Call /\ Down \in Call
  BY CallsTyped DEF IInv
<1>3. PICK c \in Call : Refreshing(d, t, c)
  BY <1>2 DEF AskRefresh
<1> QED BY <1>1, <1>3, PutSound DEF Refreshing

LEMMA RefreshReturnsSound ==
  ASSUME TransportAssumption, IInv, NEW d \in Device, RefreshReturns(d)
  PROVE  DOMAIN dev' = Device /\ \A e \in Device : Sound(dev'[e])
<1>1. PICK reply \in dev[d].refreshes :
        LET t == [dev[d] EXCEPT !.refreshes = @ \ {reply}]
            next == [t EXCEPT !.desc = reply.desc]
        IN Put(d, IF reply.is # "ok" THEN [RemoveRoomChannel(t) EXCEPT !.desc = NoDesc]
                  ELSE IF reply.desc.topic # t.desc.topic THEN Reconnect(next) ELSE next)
  BY DEF RefreshReturns
<1> DEFINE t == [dev[d] EXCEPT !.refreshes = @ \ {reply}]
           next == [t EXCEPT !.desc = reply.desc]
<1>2. Sound(dev[d]) /\ dev[d].stay = "in" /\ dev[d] \in Transport
  BY <1>1 DEF IInv, Sound, Quiet
<1>3. reply \in Call /\ t \in Transport /\ t.stay = "in" /\ Kept(t)
  BY <1>2 DEF Sound, Transport, Kept
<1>4. CASE reply.is # "ok"
  <2>1. RemoveRoomChannel(t) \in Transport /\ RemoveRoomChannel(t).stay = "in"
        /\ RemoveRoomChannel(t).chan = NoChannel
    BY <1>3, CallsTyped DEF IInv, Transport, RemoveRoomChannel
  <2>2. Sound([RemoveRoomChannel(t) EXCEPT !.desc = NoDesc])
    BY <2>1, CallsTyped DEF IInv, Transport, Sound, Kept
  <2> QED BY <1>1, <1>4, <2>2, PutSound
<1>5. CASE reply.is = "ok"
  <2>1. reply.desc \in NewDesc /\ reply.desc \in Desc
    BY <1>3, <1>5, CallKinds
  <2>2. next \in Transport /\ next.stay = "in"
    BY <1>3, <2>1 DEF Transport
  <2>3. CASE reply.desc.topic # t.desc.topic
    <3>1. Sound(Reconnect(next))
      BY <2>2, ReconnectSound DEF IInv, Sound, Kept
    <3> QED BY <1>1, <1>5, <2>3, <3>1, PutSound
  <2>4. CASE reply.desc.topic = t.desc.topic
    <3>1. t.desc # NoDesc
      BY <2>1, <2>4 DEF NewDesc, NoDesc
    <3>2. Kept(next)
      BY <1>3, <3>1, <2>1 DEF Kept, Transport
    <3>3. Sound(next)
      BY <2>2, <3>2 DEF Sound
    <3> QED BY <1>1, <1>5, <2>4, <3>3, PutSound
  <2> QED BY <2>3, <2>4
<1> QED BY <1>4, <1>5

LEMMA LeaseReturnsSound ==
  ASSUME TransportAssumption, IInv, NEW d \in Device, LeaseReturns(d)
  PROVE  DOMAIN dev' = Device /\ \A e \in Device : Sound(dev'[e])
<1> DEFINE reply == dev[d].lease
           t == [dev[d] EXCEPT !.lease = Idle]
           n == [t EXCEPT !.desc = reply.desc, !.seq = 0]
<1>1. Sound(t) /\ t \in Transport /\ reply \in Call
  BY LeaseSound, CallsTyped DEF IInv, Sound, Transport
<1>2. CASE reply.is = "ok" /\ t.stay = "in"
  <2>1. n \in Transport /\ n.stay = "in"
    BY <1>1, <1>2, CallKinds DEF Transport
  <2>2. Sound(Reconnect(n))
    BY <2>1, ReconnectSound DEF IInv, Sound, Kept
  <2> QED BY <1>2, <2>2, PutSound DEF LeaseReturns
<1>3. CASE reply.is = "ok" /\ t.stay # "in"
  BY <1>1, <1>3, PutSound DEF LeaseReturns
<1>4. CASE reply.is # "ok"
  BY <1>1, <1>4, AskSound DEF LeaseReturns
<1> QED BY <1>2, <1>3, <1>4

LEMMA LeaseCallSound ==
  ASSUME TransportAssumption, IInv, NEW d \in Device,
         Renew(d) \/ Claim(d) \/ ClaimFails(d)
  PROVE  DOMAIN dev' = Device /\ \A e \in Device : Sound(dev'[e])
<1>1. Gone \in Call /\ Down \in Call
  BY CallsTyped DEF IInv
<1>2. ASSUME NEW c \in Call
      PROVE  /\ Sound([dev[d] EXCEPT !.lease = c])
             /\ \A e \in Device : Sound([dev EXCEPT ![d].lease = c][e])
  BY LeaseSound DEF IInv
<1>3. ASSUME NEW c \in Call, NEW U, dev' = Pinged([dev EXCEPT ![d].lease = c], U)
      PROVE  DOMAIN dev' = Device /\ \A e \in Device : Sound(dev'[e])
  BY <1>2, <1>3, PingedSound
<1>4. CASE Renew(d)
  BY <1>1, <1>2, <1>4, PutSound, SameSound DEF Renew
<1>5. CASE Claim(d)
  <2>1. CASE Claimable(Owner[d])
    <3>1. RowOK'
      BY <1>5, <2>1, InRoomIsUser, CrownedServes DEF Claim, Claimable, IInv
    <3>2. [topic |-> srv'.topic, host |-> srv'.host, epoch |-> srv'.epoch] \in NewDesc
      BY <3>1 DEF RowOK, Row, NewDesc
    <3>3. [is |-> "ok", desc |-> [topic |-> srv'.topic, host |-> srv'.host,
                                  epoch |-> srv'.epoch]] \in Call
      BY <3>2 DEF Call
    <3> QED BY <1>5, <2>1, <3>3, <1>3 DEF Claim
  <2>2. CASE ~ Claimable(Owner[d])
    BY <1>1, <1>2, <1>5, <2>2, PutSound DEF Claim
  <2> QED BY <2>1, <2>2
<1>6. CASE ClaimFails(d)
  BY <1>1, <1>2, <1>3, <1>6, PutSound DEF ClaimFails
<1> QED BY <1>4, <1>5, <1>6

LEMMA StepSound ==
  ASSUME TransportAssumption, IInv, [Next]_vars
  PROVE  IInv'
<1>0. RowOK'
  BY StepServes DEF IInv
<1> SUFFICES DOMAIN dev' = Device /\ \A e \in Device : Sound(dev'[e])
  BY <1>0 DEF IInv
<1>1. ASSUME NEW d \in Device, Join(d) \/ Publish(d)
      PROVE  DOMAIN dev' = Device /\ \A e \in Device : Sound(dev'[e])
  BY <1>1, JoinSound, PublishSound
<1>2. ASSUME NEW d \in Device, Leave(d) \/ Close(d)
      PROVE  DOMAIN dev' = Device /\ \A e \in Device : Sound(dev'[e])
  BY <1>2, DepartedSound, PutSound DEF Leave, Close
<1>3. ASSUME NEW d \in Device, Machinery(d)
      PROVE  DOMAIN dev' = Device /\ \A e \in Device : Sound(dev'[e])
  <2>1. CASE Changed(d)
    <3>1. Sound([dev[d] EXCEPT !.inbox = "quiet"])
      BY InboxSound DEF IInv
    <3> QED BY <2>1, <3>1, AskSound DEF Changed
  <2> QED BY <1>3, <2>1, ConnectSound, ChannelSound, RefreshReturnsSound,
             LeaseReturnsSound DEF Machinery
<1>4. ASSUME NEW d \in Device, ChannelFails(d)
      PROVE  DOMAIN dev' = Device /\ \A e \in Device : Sound(dev'[e])
  BY <1>4, ChannelSound
<1>5. ASSUME NEW d \in Device, LosePing(d)
      PROVE  DOMAIN dev' = Device /\ \A e \in Device : Sound(dev'[e])
  BY <1>5, InboxSound, PutSound DEF LosePing, IInv
<1>6. ASSUME NEW d \in Device, Renew(d) \/ Claim(d) \/ ClaimFails(d)
      PROVE  DOMAIN dev' = Device /\ \A e \in Device : Sound(dev'[e])
  BY <1>6, LeaseCallSound
<1>7. CASE Lapse \/ Expire
  BY <1>7, SameSound DEF Lapse, Expire
<1>8. ASSUME NEW u \in User, Transfer(u) \/ Remove(u) \/ RemoveHost(u) \/ Admit(u)
      PROVE  DOMAIN dev' = Device /\ \A e \in Device : Sound(dev'[e])
  BY <1>8, PingedSound DEF Transfer, Remove, RemoveHost, Admit, IInv
<1>9. CASE CloseRoom
  BY <1>9, PingedSound DEF CloseRoom, IInv
<1>10. CASE UNCHANGED vars
  BY <1>10, SameSound DEF vars
<1> QED BY <1>1, <1>2, <1>3, <1>4, <1>5, <1>6, <1>7, <1>8, <1>9, <1>10 DEF Next

LEMMA InitSound ==
  ASSUME TransportAssumption, Init
  PROVE  IInv
<1>1. RowOK
  BY InitServes
<1>2. Device0 \in Transport /\ Device0.stay = "out" /\ Quiet(Device0)
  BY <1>1, CallsTyped DEF Device0, Transport, Quiet
<1> QED BY <1>1, <1>2 DEF Init, IInv, Sound

LEMMA Invariance ==
  ASSUME TransportAssumption
  PROVE  Spec => []IInv
<1>1. Init => IInv
  BY InitSound
<1>2. IInv /\ [Next]_vars => IInv'
  BY StepSound
<1> QED BY <1>1, <1>2, PTL DEF Spec

\* Nothing that was in flight when a device left the room brings back a channel,
\* a descriptor, a timer or a call.
THEOREM LeftStaysQuiet ==
  ASSUME TransportAssumption
  PROVE  Spec => []LeftMeansQuiet
<1>1. IInv => LeftMeansQuiet
  BY DEF IInv, Sound, Quiet, LeftMeansQuiet
<1> QED BY <1>1, Invariance, PTL

\* A device that is in the room has a channel, a connection or a retry under
\* way, unless a failed refresh dropped its channel.
THEOREM NobodyForgotten ==
  ASSUME TransportAssumption
  PROVE  Spec => []NoneForgotten
<1>1. IInv => NoneForgotten
  BY DEF IInv, Sound, Kept, Transport, NoneForgotten, Attached, Dropped
<1> QED BY <1>1, Invariance, PTL

----------------------------------------------------------------------------
(* The fields keep their types, within the bounds.  The claim's topic is   *)
(* the one TopicLeft keeps: a lease that has run out leaves one.           *)

RowFits ==
  /\ srv.topic <= MaxTopic /\ srv.epoch <= srv.topic
  /\ srv.state = "open" => /\ srv.host \in srv.members
                           /\ srv.lease = "lapsed" => srv.topic < MaxTopic

LastHeard == (MaxTopic + 1) * RevEpochSize

Fits(t) ==
  /\ t.desc \in DescType /\ t.chan.topic <= MaxTopic
  /\ t.connect \in CallType /\ t.lease \in CallType /\ t.refreshes \subseteq CallType
  /\ t.seq < RevEpochSize
  /\ t.heard.rev <= LastHeard

BInv ==
  /\ IInv /\ RowFits
  /\ \A d \in Device : Fits(dev[d])
  /\ ignored \subseteq Device

LEMMA RowFitsNext ==
  ASSUME TransportAssumption, RowOK, RowFits, [Next]_vars
  PROVE  RowFits'
<1> USE DEF TransportAssumption
<1>1. CASE UNCHANGED srv
  BY <1>1 DEF RowFits
<1>2. ASSUME NEW d \in Device,
             Join(d) \/ Leave(d) \/ Close(d) \/ Publish(d) \/ Machinery(d)
               \/ ChannelFails(d) \/ LosePing(d)
      PROVE  UNCHANGED srv
  BY <1>2 DEF Join, Leave, Close, Publish, Machinery, ChannelFails, LosePing,
              AnswerConnect, ConnectReturns, ChannelAnswers, ReconnectTimer, Changed,
              RefreshReturns, LeaseReturns
<1>3. ASSUME NEW u \in User, srv.state = "open", srv.topic < MaxTopic, u \in srv.members,
             NEW M, u \in M, srv' = Crowned(u) \/ srv' = [Crowned(u) EXCEPT !.members = M]
      PROVE  RowFits'
  <2>1. /\ srv'.topic = srv.topic + 1 /\ srv'.epoch = srv.epoch + 1
        /\ srv'.host = u /\ srv'.lease = "valid"
        /\ srv'.members = srv.members \/ srv'.members = M
    BY <1>3 DEF RowOK, Row, Crowned, Rotated
  <2>2. srv.topic \in Nat /\ srv.epoch \in Nat
    BY DEF RowOK, Row
  <2> QED BY <1>3, <2>1, <2>2 DEF RowFits
<1>4. ASSUME NEW d \in Device, Renew(d)
      PROVE  RowFits'
  <2>1. CASE InRoom(Owner[d]) /\ srv' = [srv EXCEPT !.lease = "valid"]
    BY <2>1 DEF RowOK, Row, RowFits
  <2> QED BY <1>1, <1>4, <2>1 DEF Renew
<1>5. ASSUME NEW d \in Device, Claim(d) \/ ClaimFails(d)
      PROVE  RowFits'
  <2>1. CASE Claimable(Owner[d]) /\ srv' = Crowned(Owner[d])
    <3>1. srv.state = "open" /\ Owner[d] \in srv.members /\ srv.lease # "valid"
      BY <2>1 DEF Claimable, InRoom, RowFits
    <3>2. srv.topic < MaxTopic
      BY <3>1 DEF RowOK, Row, RowFits
    <3> QED BY <1>3, <2>1, <3>1, <3>2
  <2> QED BY <1>1, <1>5, <2>1 DEF Claim, ClaimFails
<1>6. CASE Lapse
  BY <1>6 DEF Lapse, RowOK, Row, RowFits
<1>7. ASSUME NEW u \in User, Transfer(u) \/ RemoveHost(u)
      PROVE  RowFits'
  <2>1. srv.topic < MaxTopic /\ srv.state = "open" /\ u \in srv.members /\ u # srv.host
    BY <1>7 DEF Transfer, RemoveHost, TopicLeft, InRoom, RowOK, Row
  <2>2. CASE Transfer(u)
    BY <1>3, <2>1, <2>2 DEF Transfer
  <2>3. CASE RemoveHost(u)
    <3>1. Crowned(u).members = srv.members
      BY DEF Crowned, Rotated, RowOK, Row
    <3>2. srv' = [Crowned(u) EXCEPT !.members = srv.members \ {srv.host}]
      BY <2>3, <3>1 DEF RemoveHost
    <3> QED BY <1>3, <2>1, <3>2
  <2> QED BY <1>7, <2>2, <2>3
<1>8. ASSUME NEW u \in User, Remove(u) \/ Admit(u)
      PROVE  RowFits'
  <2>1. srv.topic < MaxTopic - 1 /\ srv.state = "open" /\ srv.topic \in Nat
    BY <1>8 DEF Remove, Admit, TopicLeft, InRoom, RowOK, Row
  <2>2. /\ srv'.topic = srv.topic + 1 /\ srv'.epoch = srv.epoch /\ srv'.host = srv.host
        /\ srv.host \in srv.members => srv'.host \in srv'.members
    BY <1>8 DEF Remove, Admit, Rotated, RowOK, Row
  <2> QED BY <2>1, <2>2 DEF RowFits, RowOK, Row
<1>9. CASE CloseRoom \/ Expire
  BY <1>9 DEF CloseRoom, Expire, NoRow, RowOK, Row, RowFits
<1> QED BY <1>1, <1>2, <1>4, <1>5, <1>6, <1>7, <1>8, <1>9 DEF Next, vars

LEMMA CallsFit ==
  ASSUME TransportAssumption, RowOK, RowFits
  PROVE  /\ NoDesc \in DescType /\ Descriptor \in DescType
         /\ {Idle, Asked, Gone, Down} \subseteq CallType
         /\ \A u : GetRoom(u) \in CallType
         /\ \A c \in CallType : c.desc \in DescType
<1>1. NoDesc \in DescType
  BY DEF NoDesc, DescType, TransportAssumption
<1>2. Descriptor \in DescType
  BY DEF RowOK, Row, RowFits, Descriptor, DescType, TransportAssumption
<1>3. {Idle, Asked, Gone, Down} \subseteq CallType
  BY <1>1 DEF Idle, Asked, Gone, Down, CallType
<1>4. \A u : GetRoom(u) \in CallType
  BY <1>2, <1>3 DEF GetRoom, CallType
<1> QED BY <1>1, <1>2, <1>3, <1>4 DEF CallType

\* What the private methods leave of a transport that fits.
LEMMA MethodsFit ==
  ASSUME TransportAssumption, RowOK, RowFits, NEW t \in Transport, Fits(t)
  PROVE  /\ Fits(Reconnect(t)) /\ Fits(Depart(t)) /\ Fits(ScheduleReconnect(t))
         /\ Fits(Unwired(t)) /\ Fits(RemoveRoomChannel(t))
<1> USE CallsFit
<1>1. Bump(t) \in Transport /\ Fits(Bump(t))
  <2>1. /\ Bump(t) \in Transport /\ Bump(t).chan.topic = t.chan.topic /\ Bump(t).desc = t.desc
        /\ Bump(t).connect = Idle /\ Bump(t).refreshes = {} /\ Bump(t).lease = t.lease
        /\ Bump(t).seq = t.seq /\ Bump(t).heard = t.heard
    BY CallsTyped DEF Transport, Chan, Bump
  <2> QED BY <2>1 DEF Fits
<1>2. ASSUME NEW s \in Transport, Fits(s)
      PROVE  Fits(RemoveRoomChannel(s)) /\ RemoveRoomChannel(s) \in Transport
  BY <1>2, CallsTyped DEF RemoveRoomChannel, Transport, Fits, NoChannel, TransportAssumption
<1>3. Fits(Reconnect(t))
  BY <1>1 DEF Reconnect, Transport, Fits
<1>4. Fits(Depart(t))
  <2>1. Fits(RemoveRoomChannel(Bump(t))) /\ RemoveRoomChannel(Bump(t)) \in Transport
    BY <1>1, <1>2
  <2> QED BY <2>1 DEF Depart, Transport, Fits
<1>5. Fits(ScheduleReconnect(t))
  BY DEF ScheduleReconnect, Transport, Fits
<1>6. Fits(Unwired(t))
  <2>1. 0 <= LastHeard
    BY DEF LastHeard, TransportAssumption
  <2> QED BY <2>1 DEF Unwired, Device0, Transport, Fits
<1> QED BY <1>2, <1>3, <1>4, <1>5, <1>6

\* A field that is not of its bounds may take any value.
LEMMA FieldsFit ==
  ASSUME NEW t \in Transport, Fits(t)
  PROVE  /\ \A s : Fits([t EXCEPT !.inbox = s])
         /\ \A s : Fits([t EXCEPT !.timer = s])
         /\ \A s : Fits([t EXCEPT !.chan.status = s])
         /\ \A s, r : Fits([t EXCEPT !.chan.status = s, !.chan.rights = r])
         /\ \A s, i : Fits([t EXCEPT !.stay = s, !.inbox = i])
         /\ \A c \in CallType : /\ Fits([t EXCEPT !.connect = c]) /\ Fits([t EXCEPT !.lease = c])
                                /\ Fits([t EXCEPT !.refreshes = @ \cup {c}])
         /\ \A c : Fits([t EXCEPT !.refreshes = @ \ {c}])
         /\ \A g \in DescType : Fits([t EXCEPT !.desc = g])
BY DEF Transport, Chan, Fits

LEMMA PutFits ==
  ASSUME IInv, \A e \in Device : Fits(dev[e]), NEW d \in Device, NEW t, Fits(t), Put(d, t)
  PROVE  \A e \in Device : Fits(dev'[e])
BY DEF IInv, Put

LEMMA PingedFits ==
  ASSUME NEW D, \A e \in Device : D[e] \in Transport /\ Fits(D[e]), NEW U
  PROVE  \A e \in Device : Fits(Pinged(D, U)[e])
BY FieldsFit DEF Pinged

\* A revision: the epoch's part and a sequence number below the next epoch.
LEMMA RevisionFits ==
  ASSUME TransportAssumption, NEW t \in Transport, Fits(t)
  PROVE  Rev(t) <= LastHeard
<1>1. /\ t.desc.epoch \in Nat /\ t.desc.epoch <= MaxTopic /\ t.seq \in Nat /\ t.seq < RevEpochSize
      /\ RevEpochSize \in Nat /\ MaxTopic \in Nat
  BY DEF Fits, DescType, Transport, TransportAssumption
<1>2. ASSUME NEW a \in Nat, NEW b \in Nat, NEW c \in Nat, a <= b
      PROVE  a * c <= b * c
  <2>1. PICK k \in Nat : b = a + k
    BY <1>2
  <2>2. b * c = a * c + k * c /\ k * c \in Nat /\ a * c \in Nat
    BY <2>1
  <2> QED BY <2>2
<1>3. t.desc.epoch * RevEpochSize <= MaxTopic * RevEpochSize
  BY <1>1, <1>2
<1>4. LastHeard = MaxTopic * RevEpochSize + RevEpochSize
  BY <1>1 DEF LastHeard
<1> QED BY <1>1, <1>3, <1>4 DEF Rev


LEMMA JoinFits ==
  ASSUME TransportAssumption, BInv, NEW d \in Device, Join(d) \/ Leave(d) \/ Close(d)
  PROVE  \A e \in Device : Fits(dev'[e])
<1>1. dev[d] \in Transport /\ Fits(dev[d]) /\ RowOK /\ RowFits
  BY DEF BInv, IInv, Sound
<1>2. CASE Join(d)
  <2> DEFINE r == Reconnect(dev[d])
             t == [r EXCEPT !.stay = "in", !.seq = 0,
                            !.inbox = IF @ = "deaf" THEN "quiet" ELSE @]
  <2>1. r \in Transport /\ Fits(r)
    BY <1>1, ReconnectSound, MethodsFit
  <2>2. Put(d, t)
    BY <1>2 DEF Join
  <2> HIDE DEF r
  <2>3. Fits(t)
    BY <2>1 DEF Transport, Fits, TransportAssumption
  <2> HIDE DEF t
  <2> QED BY <2>2, <2>3, PutFits DEF BInv
<1>3. CASE Leave(d) \/ Close(d)
  <2> DEFINE t == Unwired(Depart(dev[d]))
  <2>1. Depart(dev[d]) \in Transport /\ Fits(Depart(dev[d])) /\ Sound(Depart(dev[d]))
    BY <1>1, DepartSound, MethodsFit DEF Sound
  <2>2. t \in Transport /\ Fits(t)
    BY <1>1, <2>1, UnwiredSound, MethodsFit DEF Sound
  <2>3. Put(d, t) \/ Put(d, [t EXCEPT !.stay = "closed", !.inbox = "deaf"])
    BY <1>3 DEF Leave, Close
  <2> HIDE DEF t
  <2> QED BY <2>2, <2>3, FieldsFit, PutFits DEF BInv
<1> QED BY <1>2, <1>3

LEMMA PublishFits ==
  ASSUME TransportAssumption, BInv, NEW d \in Device, Publish(d)
  PROVE  (\A e \in Device : Fits(dev'[e])) /\ ignored' \subseteq Device
<1> DEFINE said == [dev[d] EXCEPT !.seq = NextSeq(dev[d])]
<1>1. \A e \in Device : dev[e] \in Transport /\ Fits(dev[e])
  BY DEF BInv, IInv, Sound
<1>2. NextSeq(dev[d]) \in Nat /\ NextSeq(dev[d]) < RevEpochSize
  BY <1>1 DEF Transport, NextSeq, TransportAssumption
<1>3. said \in Transport /\ Fits(said)
  BY <1>1, <1>2 DEF Transport, Fits
<1>4. \/ /\ dev' = [e \in Device |-> IF e = d THEN said ELSE dev'[e]]
         /\ ignored' \subseteq Device
         /\ \A e \in Device \ {d} :
              dev'[e] \in {dev[e], [dev[e] EXCEPT !.heard = [rev |-> Rev(said), by |-> d]]}
      \/ Put(d, ScheduleReconnect(said)) /\ ignored' \subseteq Device
  BY DEF Publish, BInv
<1> HIDE DEF said
<1>5. Fits(ScheduleReconnect(said)) /\ RowOK /\ RowFits
  BY <1>3, MethodsFit DEF BInv, IInv
<1>6. Rev(said) <= LastHeard
  BY <1>3, RevisionFits
<1>7. \A e \in Device : Fits([dev[e] EXCEPT !.heard = [rev |-> Rev(said), by |-> d]])
  BY <1>1, <1>6 DEF Transport, Fits
<1>8. CASE Put(d, ScheduleReconnect(said))
  BY <1>4, <1>5, <1>8, PutFits DEF BInv
<1>9. CASE ~ Put(d, ScheduleReconnect(said))
  BY <1>1, <1>3, <1>4, <1>7, <1>9
<1> QED BY <1>4, <1>8, <1>9

LEMMA ConnectFits ==
  ASSUME TransportAssumption, BInv, NEW d \in Device, AnswerConnect(d) \/ ConnectReturns(d)
  PROVE  \A e \in Device : Fits(dev'[e])
<1>1. dev[d] \in Transport /\ Fits(dev[d]) /\ RowOK /\ RowFits
  BY DEF BInv, IInv, Sound
<1>2. CASE AnswerConnect(d)
  <2>1. PICK c \in CallType : Put(d, [dev[d] EXCEPT !.connect = c])
    BY <1>1, <1>2, CallsFit DEF AnswerConnect
  <2> QED BY <1>1, <2>1, FieldsFit, PutFits DEF BInv
<1>3. CASE ConnectReturns(d)
  <2> DEFINE reply == dev[d].connect
             t == [dev[d] EXCEPT !.connect = Idle]
             n == [t EXCEPT !.desc = reply.desc, !.chan = Opened(reply.desc.topic)]
  <2>1. t \in Transport /\ Fits(t) /\ reply.desc \in DescType
    BY <1>1, CallsFit, CallsTyped, FieldsFit DEF Transport, Fits
  <2>2. Put(d, n) \/ Put(d, Depart(t)) \/ Put(d, ScheduleReconnect(t))
    BY <1>3 DEF ConnectReturns
  <2>3. Fits(n)
    <3>1. Opened(reply.desc.topic).topic = reply.desc.topic /\ reply.desc.topic <= MaxTopic
      BY <2>1 DEF Opened, DescType
    <3> HIDE DEF t, reply
    <3>2. /\ n.desc = reply.desc /\ n.chan = Opened(reply.desc.topic) /\ n.connect = t.connect
          /\ n.lease = t.lease /\ n.refreshes = t.refreshes /\ n.seq = t.seq /\ n.heard = t.heard
      BY <2>1 DEF Transport
    <3> QED BY <2>1, <3>1, <3>2 DEF Fits
  <2>4. Fits(Depart(t)) /\ Fits(ScheduleReconnect(t))
    BY <1>1, <2>1, MethodsFit
  <2> HIDE DEF t, n
  <2> QED BY <2>2, <2>3, <2>4, PutFits DEF BInv
<1> QED BY <1>2, <1>3

LEMMA ChannelFits ==
  ASSUME TransportAssumption, BInv, NEW d \in Device,
         ChannelAnswers(d) \/ ChannelFails(d) \/ ReconnectTimer(d)
  PROVE  \A e \in Device : Fits(dev'[e])
<1>1. dev[d] \in Transport /\ Fits(dev[d]) /\ RowOK /\ RowFits
  BY DEF BInv, IInv, Sound
<1> DEFINE failed == [dev[d] EXCEPT !.chan.status = "failed"]
           off == [dev[d] EXCEPT !.timer = "off"]
           in(r) == [dev[d] EXCEPT !.chan.status = "subscribed", !.chan.rights = r]
<1>2. failed \in Transport /\ off \in Transport
  BY <1>1 DEF Transport, Chan
<1>3. Fits(failed) /\ Fits(off) /\ \A r : Fits(in(r))
  BY <1>1, FieldsFit
<1>4. Put(d, ScheduleReconnect(failed)) \/ Put(d, Reconnect(off)) \/ \E r : Put(d, in(r))
  BY DEF ChannelAnswers, ChannelFails, ReconnectTimer
<1> HIDE DEF failed, off, in
<1>5. Fits(ScheduleReconnect(failed)) /\ Fits(Reconnect(off))
  BY <1>1, <1>2, <1>3, MethodsFit
<1> QED BY <1>3, <1>4, <1>5, PutFits DEF BInv

LEMMA AskFits ==
  ASSUME TransportAssumption, BInv, NEW d \in Device, NEW t \in Transport, Fits(t),
         AskRefresh(d, t)
  PROVE  \A e \in Device : Fits(dev'[e])
<1>1. PICK c \in CallType : Refreshing(d, t, c)
  BY CallsFit DEF AskRefresh, BInv, IInv
<1>2. Put(d, t) \/ Put(d, [t EXCEPT !.refreshes = @ \cup {c}])
  BY <1>1 DEF Refreshing
<1> QED BY <1>2, FieldsFit, PutFits DEF BInv

LEMMA RefreshFits ==
  ASSUME TransportAssumption, BInv, NEW d \in Device,
         Changed(d) \/ LosePing(d) \/ RefreshReturns(d)
  PROVE  \A e \in Device : Fits(dev'[e])
<1>1. dev[d] \in Transport /\ Fits(dev[d]) /\ RowOK /\ RowFits
  BY DEF BInv, IInv, Sound
<1>2. CASE Changed(d) \/ LosePing(d)
  <2> DEFINE t == [dev[d] EXCEPT !.inbox = "quiet"]
  <2>1. t \in Transport /\ Fits(t)
    BY <1>1, FieldsFit DEF Transport
  <2>2. AskRefresh(d, t) \/ Put(d, t)
    BY <1>2 DEF Changed, LosePing
  <2> HIDE DEF t
  <2> QED BY <2>1, <2>2, AskFits, PutFits DEF BInv
<1>3. CASE RefreshReturns(d)
  <2>1. PICK reply \in dev[d].refreshes :
          LET t == [dev[d] EXCEPT !.refreshes = @ \ {reply}]
              next == [t EXCEPT !.desc = reply.desc]
          IN Put(d, IF reply.is # "ok" THEN [RemoveRoomChannel(t) EXCEPT !.desc = NoDesc]
                    ELSE IF reply.desc.topic # t.desc.topic THEN Reconnect(next) ELSE next)
    BY <1>3 DEF RefreshReturns
  <2> DEFINE t == [dev[d] EXCEPT !.refreshes = @ \ {reply}]
             next == [t EXCEPT !.desc = reply.desc]
             bare == RemoveRoomChannel(t)
  <2>2. reply \in Call /\ reply \in CallType /\ reply.desc \in DescType
    BY <1>1, <2>1, CallsFit DEF Transport, Fits
  <2>3. t \in Transport /\ Fits(t)
    <3>1. Fits(t)
      BY <1>1, FieldsFit
    <3> QED BY <1>1, <3>1 DEF Transport
  <2>4. next \in Transport /\ Fits(next)
    <3>1. reply.desc \in Desc
      BY <2>2, CallKinds
    <3> HIDE DEF t
    <3> QED BY <2>2, <2>3, <3>1, FieldsFit DEF Transport
  <2>5. bare \in Transport /\ Fits(bare)
    <3> HIDE DEF t
    <3>1. Fits(bare)
      BY <1>1, <2>3, MethodsFit
    <3> QED BY <1>1, <2>3, <3>1, CallsTyped DEF RemoveRoomChannel, Transport
  <2>6. Put(d, [bare EXCEPT !.desc = NoDesc]) \/ Put(d, Reconnect(next)) \/ Put(d, next)
    BY <2>1
  <2> HIDE DEF t, next, bare
  <2>7. Fits([bare EXCEPT !.desc = NoDesc]) /\ Fits(Reconnect(next))
    BY <1>1, <2>4, <2>5, CallsFit, FieldsFit, MethodsFit
  <2> QED BY <2>4, <2>6, <2>7, PutFits DEF BInv
<1> QED BY <1>2, <1>3

LEMMA LeaseReturnsFits ==
  ASSUME TransportAssumption, BInv, NEW d \in Device, LeaseReturns(d)
  PROVE  \A e \in Device : Fits(dev'[e])
<1> DEFINE reply == dev[d].lease
           t == [dev[d] EXCEPT !.lease = Idle]
           n == [t EXCEPT !.desc = reply.desc, !.seq = 0]
<1>1. dev[d] \in Transport /\ Fits(dev[d]) /\ RowOK /\ RowFits
  BY DEF BInv, IInv, Sound
<1>2. /\ t \in Transport /\ Fits(t) /\ reply \in Call /\ reply.desc \in DescType
      /\ reply.desc \in Desc
  <2>1. Fits(t) /\ reply.desc \in DescType /\ reply \in Call
    BY <1>1, CallsFit, FieldsFit DEF Transport, Fits
  <2> QED BY <1>1, <2>1, CallsTyped, CallKinds DEF Transport
<1>3. Put(d, Reconnect(n)) \/ Put(d, t) \/ AskRefresh(d, t)
  BY DEF LeaseReturns
<1> HIDE DEF t, reply
<1>4. n \in Transport /\ Fits(n)
  <2>1. n \in Transport
    BY <1>2 DEF Transport
  <2>2. /\ n.desc = reply.desc /\ n.seq = 0 /\ n.chan = t.chan /\ n.connect = t.connect
        /\ n.lease = t.lease /\ n.refreshes = t.refreshes /\ n.heard = t.heard
    BY <1>2 DEF Transport
  <2> HIDE DEF n
  <2> QED BY <1>2, <2>1, <2>2 DEF Fits, TransportAssumption
<1> HIDE DEF n
<1>5. Fits(Reconnect(n))
  BY <1>1, <1>4, MethodsFit
<1> QED BY <1>2, <1>3, <1>5, AskFits, PutFits DEF BInv

LEMMA LeaseCallFits ==
  ASSUME TransportAssumption, BInv, NEW d \in Device, Renew(d) \/ Claim(d) \/ ClaimFails(d),
         RowOK', RowFits'
  PROVE  \A e \in Device : Fits(dev'[e])
<1>1. \A e \in Device : dev[e] \in Transport /\ Fits(dev[e])
  BY DEF BInv, IInv, Sound
<1>2. \A c \in CallType : Fits([dev[d] EXCEPT !.lease = c])
  BY <1>1, FieldsFit
<1>3. Gone \in CallType /\ Down \in CallType
  BY CallsFit DEF BInv, IInv
<1>4. ASSUME NEW c \in CallType, c \in Call, NEW U, dev' = Pinged([dev EXCEPT ![d].lease = c], U)
      PROVE  \A e \in Device : Fits(dev'[e])
  <2> DEFINE D == [dev EXCEPT ![d].lease = c]
  <2>1. \A e \in Device : D[e] \in Transport /\ Fits(D[e])
    BY <1>1, <1>2, <1>4 DEF Transport, BInv, IInv
  <2> HIDE DEF D
  <2> QED BY <1>4, <2>1, PingedFits DEF D
<1>5. CASE Renew(d)
  BY <1>1, <1>2, <1>3, <1>5, PutFits DEF Renew, BInv
<1>6. CASE Claim(d)
  <2> DEFINE won == [is |-> "ok", desc |-> [topic |-> srv'.topic, host |-> srv'.host,
                                            epoch |-> srv'.epoch]]
  <2>1. won \in CallType
    BY DEF RowOK, Row, RowFits, CallType, DescType, TransportAssumption
  <2>2. won \in Call
    BY DEF RowOK, Row, Call, NewDesc
  <2>3. dev' = Pinged([dev EXCEPT ![d].lease = won], srv.members) \/ Put(d, [dev[d] EXCEPT !.lease = Gone])
    BY <1>6 DEF Claim
  <2> HIDE DEF won
  <2> QED BY <1>2, <1>3, <1>4, <2>1, <2>2, <2>3, PutFits DEF BInv
<1>7. CASE ClaimFails(d)
  <2>1. \/ dev' = Pinged([dev EXCEPT ![d].lease = Down], srv.members)
        \/ Put(d, [dev[d] EXCEPT !.lease = Down])
    BY <1>7 DEF ClaimFails
  <2>2. Down \in Call
    BY CallsTyped DEF BInv, IInv
  <2> QED BY <1>2, <1>3, <1>4, <2>1, <2>2, PutFits DEF BInv
<1> QED BY <1>5, <1>6, <1>7

LEMMA StepFits ==
  ASSUME TransportAssumption, BInv, [Next]_vars
  PROVE  BInv'
<1>1. IInv' /\ RowFits' /\ RowOK'
  BY StepSound, RowFitsNext DEF BInv, IInv
<1>2. \A e \in Device : dev[e] \in Transport /\ Fits(dev[e])
  BY DEF BInv, IInv, Sound
<1>3. ignored' \subseteq Device
  <2>1. CASE UNCHANGED ignored
    BY <2>1 DEF BInv
  <2>2. ASSUME NEW d \in Device, Publish(d)
        PROVE  ignored' \subseteq Device
    BY <2>2, PublishFits
  <2> QED BY <2>1, <2>2 DEF Next, vars, Join, Leave, Close, Machinery, AnswerConnect,
        ConnectReturns, ChannelAnswers, ReconnectTimer, Changed, RefreshReturns, LeaseReturns,
        ChannelFails, LosePing, Renew, Claim, ClaimFails, Lapse, Transfer, Remove, RemoveHost,
        Admit, CloseRoom, Expire
<1>4. \A e \in Device : Fits(dev'[e])
  <2>1. ASSUME NEW d \in Device, Join(d) \/ Leave(d) \/ Close(d) \/ Publish(d)
        PROVE  \A e \in Device : Fits(dev'[e])
    BY <2>1, JoinFits, PublishFits
  <2>2. ASSUME NEW d \in Device, Machinery(d) \/ ChannelFails(d) \/ LosePing(d)
        PROVE  \A e \in Device : Fits(dev'[e])
    BY <2>2, ConnectFits, ChannelFits, RefreshFits, LeaseReturnsFits DEF Machinery
  <2>3. ASSUME NEW d \in Device, Renew(d) \/ Claim(d) \/ ClaimFails(d)
        PROVE  \A e \in Device : Fits(dev'[e])
    BY <1>1, <2>3, LeaseCallFits
  <2>4. CASE UNCHANGED dev
    BY <1>2, <2>4
  <2>5. ASSUME NEW U, dev' = Pinged(dev, U)
        PROVE  \A e \in Device : Fits(dev'[e])
    BY <1>2, <2>5, PingedFits
  <2> QED BY <2>1, <2>2, <2>3, <2>4, <2>5
        DEF Next, vars, Lapse, Transfer, Remove, RemoveHost, Admit, CloseRoom, Expire
<1> QED BY <1>1, <1>3, <1>4 DEF BInv

LEMMA InitFits ==
  ASSUME TransportAssumption, Init
  PROVE  BInv
<1>1. IInv /\ RowOK
  BY InitSound DEF IInv
<1>2. RowFits
  BY DEF Init, RowFits, TransportAssumption
<1>3. Fits(Device0)
  <2>1. 0 <= LastHeard /\ 0 < RevEpochSize /\ 0 <= MaxTopic
    BY DEF LastHeard, TransportAssumption
  <2> QED BY <1>1, <1>2, <2>1, CallsFit DEF Fits, Device0, NoChannel
<1> QED BY <1>1, <1>2, <1>3 DEF Init, BInv

\* The fields of the room and of every transport keep their types: in particular
\* no epoch outruns the room's topics, and a sequence number saturates below the
\* next epoch, so that a revision stays within what its epoch may say.
THEOREM FieldsKeepTypes ==
  ASSUME TransportAssumption
  PROVE  Spec => []TypeOK
<1>1. Init => BInv
  BY InitFits
<1>2. BInv /\ [Next]_vars => BInv'
  BY StepFits
<1>3. BInv => TypeOK
  <2> SUFFICES ASSUME BInv PROVE TypeOK
    OBVIOUS
  <2>1. srv \in [state : {"open", "gone"}, members : SUBSET User, host : User,
                 epoch : 1 .. MaxTopic, topic : 1 .. MaxTopic, lease : {"valid", "lapsed"}]
    <3>1. srv.topic \in 1 .. MaxTopic /\ srv.epoch \in 1 .. MaxTopic
      BY DEF BInv, IInv, RowOK, Row, RowFits, TransportAssumption
    <3> QED BY <3>1 DEF BInv, IInv, RowOK, Row
  <2>2. ASSUME NEW d \in Device
        PROVE  /\ dev[d] \in Transport /\ Fits(dev[d])
               /\ dev[d].chan \in [topic : 0 .. MaxTopic, handlers : {"live", "dead"},
                                   status : {"none", "joining", "subscribed", "failed"},
                                   rights : {"none", "guest", "host"}]
               /\ dev[d].seq \in 0 .. RevEpochSize - 1
               /\ dev[d].heard.rev \in 0 .. LastHeard
    <3>1. dev[d] \in Transport /\ Fits(dev[d])
      BY DEF BInv, IInv, Sound
    <3>2. LastHeard \in Nat
      BY DEF LastHeard, TransportAssumption
    <3> QED BY <3>1, <3>2 DEF Transport, Chan, Fits, TransportAssumption
  <2> QED BY <2>1, <2>2 DEF TypeOK, Transport, Fits, BInv, LastHeard
<1> QED BY <1>1, <1>2, <1>3, PTL DEF Spec

=============================================================================
