--------------------------- MODULE VeyaTransport ---------------------------
(***************************************************************************)
(* WebSocketTransport (src/src/lib/together/sync/websocket-transport.ts):  *)
(* how one device of a member gets onto the private channel of a room,     *)
(* stays on it while the room's topic rotates, keeps or takes the host     *)
(* lease, and stamps what it publishes.  Several devices, possibly of one  *)
(* account, share a room kept by the RPCs of VaraRooms, here reduced to    *)
(* what a descriptor shows.                                                *)
(*                                                                         *)
(* The transport's generation counter only serves to tell a continuation   *)
(* of the present connection from one of an earlier connection: every time *)
(* it is incremented, the calls in flight are forgotten and the channel's  *)
(* handlers die.  A lease call has no such check and outlives it.          *)
(*                                                                         *)
(* Clients compare a copy of the lease with their own clock: whether a     *)
(* guest's tick finds its copy lapsed is left open.                        *)
(***************************************************************************)
EXTENDS Naturals, FiniteSets

CONSTANTS
  Device,        \* client ids, numbers so that they can be sorted
  User,          \* accounts, numbers other than 0
  Owner,         \* [Device -> User], the account each device is signed in to
  FirstHost,     \* the creator of the room
  RevEpochSize,  \* REV_EPOCH_SIZE
  MaxTopic,      \* bound: topics the room goes through
  MaxRefreshes,  \* bound: answers to refreshDescriptor in flight for a device
  MaxJoins,      \* bound: times a device joins
  MaxFaults,     \* bound: failed calls, broken channels, lost pings and lapsed leases
  Faulty         \* the kinds: among "get", "refresh", "lease", "channel", "ping", "lapse"

ASSUME TransportAssumption ==
  /\ Device \subseteq Nat
  /\ User \subseteq Nat \ {0}
  /\ Owner \in [Device -> User]
  /\ FirstHost \in User
  /\ RevEpochSize \in Nat \ {0}
  /\ MaxTopic \in Nat \ {0} /\ MaxRefreshes \in Nat /\ MaxJoins \in Nat /\ MaxFaults \in Nat

VARIABLES
  srv,       \* the room's row: [state, members, host, epoch, topic, lease]
  dev,       \* [Device -> the fields of its transport]
  joins,     \* [Device -> times it has joined], for the bound only
  faults,    \* faults so far, for the bound only
  ignored    \* devices that have discarded a state published by the authority

vars == <<srv, dev, joins, faults, ignored>>

----------------------------------------------------------------------------
NoDesc == [topic |-> 0, host |-> 0, epoch |-> 0]

NoChannel == [topic |-> 0, status |-> "none", handlers |-> "dead", rights |-> "none"]

\* A getRoom call: none in flight, in flight, or answered.
Idle == [is |-> "idle", desc |-> NoDesc]
Asked == [is |-> "asked", desc |-> NoDesc]
Gone == [is |-> "gone", desc |-> NoDesc]
Down == [is |-> "down", desc |-> NoDesc]

Device0 ==
  [stay |-> "out",          \* roomId: "out" null, "in" set; "closed"
   desc |-> NoDesc, chan |-> NoChannel,
   connect |-> Idle,        \* connect's getRoom
   refreshes |-> {},        \* answers to refreshDescriptor on their way
   lease |-> Idle,          \* the answer of a lease call on its way
   timer |-> "off",         \* reconnectTimer
   inbox |-> "deaf",        \* invalidationChannel: "deaf", "quiet", "changed"
   seq |-> 0,               \* revSeq
   heard |-> [rev |-> 0, by |-> 0]]  \* the wiring's appliedRev, and its author

----------------------------------------------------------------------------
(* The room.                                                               *)

Descriptor == [topic |-> srv.topic, host |-> srv.host, epoch |-> srv.epoch]

InRoom(u) == srv.state = "open" /\ u \in srv.members

\* vara_get_room: a caller outside the room and a room that is gone look alike.
GetRoom(u) == IF InRoom(u) THEN [is |-> "ok", desc |-> Descriptor] ELSE Gone

\* Bound: the last topic is kept for a claim.
TopicLeft == srv.topic < MaxTopic - 1

\* vara_topic_access, evaluated once for a connection.
Rights(u, topic) ==
  IF ~ InRoom(u) \/ topic # srv.topic THEN "none"
  ELSE IF srv.host = u /\ srv.lease = "valid" THEN "host" ELSE "guest"

\* cira_notify: one ping per account, on each of its devices that listens.
Pinged(D, U) ==
  [d \in Device |-> IF Owner[d] \in U /\ D[d].inbox = "quiet"
                      THEN [D[d] EXCEPT !.inbox = "changed"] ELSE D[d]]

Rotated == [srv EXCEPT !.topic = @ + 1]

\* Mutant: a claim that keeps the epoch.
CrownedSameEpoch(u) == [Rotated EXCEPT !.host = u, !.lease = "valid"]

Crowned(u) == [Rotated EXCEPT !.host = u, !.epoch = @ + 1, !.lease = "valid"]

----------------------------------------------------------------------------
(* The transport's private methods, as functions of its fields t.          *)

\* this.generation += 1
Bump(t) == [t EXCEPT !.chan.handlers = "dead", !.connect = Idle, !.refreshes = {}]

\* this.generation += 1; void this.connect(this.generation)
Reconnect(t) == [Bump(t) EXCEPT !.connect = Asked]

RemoveRoomChannel(t) == [t EXCEPT !.chan = NoChannel]

ScheduleReconnect(t) == IF t.stay = "in" THEN [t EXCEPT !.timer = "on"] ELSE t

\* teardownUnavailable, and what leave and close share with it.
Depart(t) ==
  [RemoveRoomChannel(Bump(t)) EXCEPT !.timer = "off", !.desc = NoDesc, !.stay = "out"]

\* The player's wiring is made again for the next room.
Unwired(t) == [t EXCEPT !.heard = Device0.heard]

\* Mutant: the sequence number runs into the next epoch.
NextSeqUnbounded(t) == t.seq + 1

\* nextRev: the sequence number saturates below the next epoch.
NextSeq(t) == IF t.seq + 1 < RevEpochSize THEN t.seq + 1 ELSE RevEpochSize - 1

Rev(t) == t.desc.epoch * RevEpochSize + t.seq

Subscribed(d, topic) == dev[d].chan.topic = topic /\ dev[d].chan.status = "subscribed"

\* The devices of d's account in the presence of d's channel.
SameAccount(d) ==
  {e \in Device : Owner[e] = Owner[d] /\ Subscribed(e, dev[d].chan.topic)}

\* isAuthorityClient: the first of the host's devices.
IsAuthorityClient(d) ==
  /\ dev[d].desc.host = Owner[d]
  /\ d \in SameAccount(d)
  /\ \A e \in SameAccount(d) : d <= e

Put(d, t) == dev' = [dev EXCEPT ![d] = t]

MayFail(kind) ==
  /\ kind \in Faulty
  /\ faults < MaxFaults
  /\ faults' = faults + 1

----------------------------------------------------------------------------
Init ==
  /\ srv = [state |-> "open", members |-> User, host |-> FirstHost, epoch |-> 1,
            topic |-> 1, lease |-> "valid"]
  /\ dev = [d \in Device |-> Device0]
  /\ joins = [d \in Device |-> 0]
  /\ faults = 0
  /\ ignored = {}

(* Calls of the interface.                                                 *)

Join(d) ==
  /\ dev[d].stay # "closed"
  /\ ~ (dev[d].stay = "in" /\ dev[d].chan # NoChannel)
  /\ joins[d] < MaxJoins
  /\ joins' = [joins EXCEPT ![d] = @ + 1]
  /\ Put(d, [Reconnect(dev[d]) EXCEPT
               !.stay = "in", !.seq = 0,
               !.inbox = IF @ = "deaf" THEN "quiet" ELSE @])
  /\ UNCHANGED <<srv, faults, ignored>>

Leave(d) ==
  /\ dev[d].stay = "in"
  /\ Put(d, Unwired(Depart(dev[d])))
  /\ UNCHANGED <<srv, joins, faults, ignored>>

Close(d) ==
  /\ dev[d].stay # "closed"
  /\ Put(d, [Unwired(Depart(dev[d])) EXCEPT !.stay = "closed", !.inbox = "deaf"])
  /\ UNCHANGED <<srv, joins, faults, ignored>>

\* publishState, and what it does to the devices whose handlers it reaches.
Publish(d) ==
  LET said == [dev[d] EXCEPT !.seq = NextSeq(dev[d])]
      reached == {e \in Device \ {d} :
                    Subscribed(e, dev[d].chan.topic) /\ dev[e].chan.handlers = "live"}
      newer == {e \in reached : Rev(said) > dev[e].heard.rev}
  IN
  /\ dev[d].chan # NoChannel /\ dev[d].desc # NoDesc
  /\ IsAuthorityClient(d)
  /\ IF dev[d].chan.rights = "host"
       THEN /\ dev' = [e \in Device |->
                         IF e = d THEN said
                         ELSE IF e \in newer
                           THEN [dev[e] EXCEPT !.heard = [rev |-> Rev(said), by |-> d]]
                           ELSE dev[e]]
            /\ ignored' = ignored \cup (reached \ newer)
       ELSE /\ Put(d, ScheduleReconnect(said))
            /\ UNCHANGED ignored
  /\ UNCHANGED <<srv, joins, faults>>

----------------------------------------------------------------------------
(* connect.                                                                *)

\* The server answers connect's getRoom, or the call fails on the way.
AnswerConnect(d) ==
  /\ dev[d].connect = Asked
  /\ \/ /\ Put(d, [dev[d] EXCEPT !.connect = GetRoom(Owner[d])])
        /\ UNCHANGED faults
     \/ /\ MayFail("get")
        /\ Put(d, [dev[d] EXCEPT !.connect = Down])
  /\ UNCHANGED <<srv, joins, ignored>>

Opened(topic) ==
  [topic |-> topic, status |-> "joining", handlers |-> "live", rights |-> "none"]

\* Mutant: a failure that is not permanent is not retried.
ConnectReturnsOnce(d) ==
  LET reply == dev[d].connect
      t == [dev[d] EXCEPT !.connect = Idle]
  IN
  /\ reply.is \in {"ok", "gone", "down"}
  /\ Put(d, CASE reply.is = "ok" -> [t EXCEPT !.desc = reply.desc, !.chan = Opened(reply.desc.topic)]
              [] reply.is = "gone" -> Depart(t)
              [] OTHER -> t)
  /\ UNCHANGED <<srv, joins, faults, ignored>>

\* Mutant: a permanent failure is retried like any other.
ConnectReturnsForever(d) ==
  LET reply == dev[d].connect
      t == [dev[d] EXCEPT !.connect = Idle]
  IN
  /\ reply.is \in {"ok", "gone", "down"}
  /\ Put(d, CASE reply.is = "ok" -> [t EXCEPT !.desc = reply.desc, !.chan = Opened(reply.desc.topic)]
              [] OTHER -> ScheduleReconnect(t))
  /\ UNCHANGED <<srv, joins, faults, ignored>>

ConnectReturns(d) ==
  LET reply == dev[d].connect
      t == [dev[d] EXCEPT !.connect = Idle]
  IN
  /\ reply.is \in {"ok", "gone", "down"}
  /\ Put(d, CASE reply.is = "ok" -> [t EXCEPT !.desc = reply.desc, !.chan = Opened(reply.desc.topic)]
              [] reply.is = "gone" -> Depart(t)
              [] OTHER -> ScheduleReconnect(t))
  /\ UNCHANGED <<srv, joins, faults, ignored>>

\* The subscribe callback: SUBSCRIBED for whom the policies let in.
ChannelAnswers(d) ==
  LET rights == Rights(Owner[d], dev[d].chan.topic) IN
  /\ dev[d].chan.status = "joining" /\ dev[d].chan.handlers = "live"
  /\ Put(d, IF rights = "none"
              THEN ScheduleReconnect([dev[d] EXCEPT !.chan.status = "failed"])
              ELSE [dev[d] EXCEPT !.chan.status = "subscribed", !.chan.rights = rights])
  /\ UNCHANGED <<srv, joins, faults, ignored>>

\* CHANNEL_ERROR, TIMED_OUT or CLOSED of an open channel.
ChannelFails(d) ==
  /\ dev[d].chan.status \in {"joining", "subscribed"}
  /\ dev[d].chan.handlers = "live"
  /\ MayFail("channel")
  /\ Put(d, ScheduleReconnect([dev[d] EXCEPT !.chan.status = "failed"]))
  /\ UNCHANGED <<srv, joins, ignored>>

ReconnectTimer(d) ==
  /\ dev[d].timer = "on"
  /\ Put(d, Reconnect([dev[d] EXCEPT !.timer = "off"]))
  /\ UNCHANGED <<srv, joins, faults, ignored>>

----------------------------------------------------------------------------
(* refreshDescriptor.                                                      *)

\* The call is issued and served; only its answer takes time.
Refreshing(d, t, reply) ==
  Put(d, IF t.stay = "in" THEN [t EXCEPT !.refreshes = @ \cup {reply}] ELSE t)

AskRefresh(d, t) ==
  \/ Refreshing(d, t, GetRoom(Owner[d])) /\ UNCHANGED faults
  \/ MayFail("refresh") /\ Refreshing(d, t, Down)

\* The "changed" ping.
Changed(d) ==
  /\ dev[d].inbox = "changed"
  /\ Cardinality(dev[d].refreshes) < MaxRefreshes
  /\ AskRefresh(d, [dev[d] EXCEPT !.inbox = "quiet"])
  /\ UNCHANGED <<srv, joins, ignored>>

LosePing(d) ==
  /\ dev[d].inbox = "changed"
  /\ MayFail("ping")
  /\ Put(d, [dev[d] EXCEPT !.inbox = "quiet"])
  /\ UNCHANGED <<srv, joins, ignored>>

RefreshReturns(d) == \E reply \in dev[d].refreshes :
  LET t == [dev[d] EXCEPT !.refreshes = @ \ {reply}]
      next == [t EXCEPT !.desc = reply.desc]
  IN
  /\ Put(d, IF reply.is # "ok" THEN [RemoveRoomChannel(t) EXCEPT !.desc = NoDesc]
            ELSE IF reply.desc.topic # t.desc.topic THEN Reconnect(next) ELSE next)
  /\ UNCHANGED <<srv, joins, faults, ignored>>

----------------------------------------------------------------------------
(* tickLease.  Bound: one lease call of a device in flight.                *)

TickLease(d) ==
  /\ dev[d].stay = "in" /\ dev[d].desc # NoDesc /\ dev[d].lease = Idle

\* renewHostLease; an answer that succeeds changes nothing that is kept here.
Renew(d) ==
  /\ TickLease(d) /\ dev[d].desc.host = Owner[d]
  /\ \/ /\ IF InRoom(Owner[d]) /\ srv.host = Owner[d]
             THEN srv' = [srv EXCEPT !.lease = "valid"] /\ UNCHANGED dev
             ELSE Put(d, [dev[d] EXCEPT !.lease = Gone]) /\ UNCHANGED srv
        /\ UNCHANGED faults
     \/ MayFail("lease") /\ Put(d, [dev[d] EXCEPT !.lease = Down]) /\ UNCHANGED srv
  /\ UNCHANGED <<joins, ignored>>

Claimable(u) ==
  InRoom(u) /\ ~ (srv.lease = "valid" /\ srv.host \in srv.members)

\* claimHost, by a guest whose copy of the lease has run out.
Claim(d) ==
  /\ TickLease(d) /\ dev[d].desc.host # Owner[d]
  /\ IF Claimable(Owner[d])
       THEN /\ srv' = Crowned(Owner[d])
            /\ LET won == [is |-> "ok", desc |-> [topic |-> srv'.topic, host |-> srv'.host,
                                                  epoch |-> srv'.epoch]]
               IN  dev' = Pinged([dev EXCEPT ![d].lease = won], srv.members)
       ELSE UNCHANGED srv /\ Put(d, [dev[d] EXCEPT !.lease = Gone])
  /\ UNCHANGED <<joins, faults, ignored>>

\* The claim or its answer is lost on the way.
ClaimFails(d) ==
  /\ TickLease(d) /\ dev[d].desc.host # Owner[d]
  /\ MayFail("lease")
  /\ \/ UNCHANGED srv /\ Put(d, [dev[d] EXCEPT !.lease = Down])
     \/ /\ Claimable(Owner[d])
        /\ srv' = Crowned(Owner[d])
        /\ dev' = Pinged([dev EXCEPT ![d].lease = Down], srv.members)
  /\ UNCHANGED <<joins, ignored>>

\* Mutant: a claim that returns after the room was left takes effect.
LeaseReturnsAnyway(d) ==
  LET reply == dev[d].lease
      t == [dev[d] EXCEPT !.lease = Idle]
  IN
  /\ reply # Idle
  /\ IF reply.is = "ok"
       THEN /\ Put(d, Reconnect([t EXCEPT !.desc = reply.desc, !.seq = 0]))
            /\ UNCHANGED faults
       ELSE AskRefresh(d, t)
  /\ UNCHANGED <<srv, joins, ignored>>

LeaseReturns(d) ==
  LET reply == dev[d].lease
      t == [dev[d] EXCEPT !.lease = Idle]
  IN
  /\ reply # Idle
  /\ IF reply.is = "ok"
       THEN /\ Put(d, IF t.stay = "in"
                        THEN Reconnect([t EXCEPT !.desc = reply.desc, !.seq = 0]) ELSE t)
            /\ UNCHANGED faults
       ELSE AskRefresh(d, t)
  /\ UNCHANGED <<srv, joins, ignored>>

----------------------------------------------------------------------------
(* What the others do to the room, through the RPCs of VaraRooms.          *)

\* The lease runs out: the host's device sleeps or is gone.
Lapse ==
  /\ srv.state = "open" /\ srv.lease = "valid"
  /\ srv.topic < MaxTopic
  /\ MayFail("lapse")
  /\ srv' = [srv EXCEPT !.lease = "lapsed"]
  /\ UNCHANGED <<dev, joins, ignored>>

Transfer(u) ==
  /\ srv.state = "open" /\ u \in srv.members \ {srv.host}
  /\ TopicLeft
  /\ srv' = Crowned(u)
  /\ dev' = Pinged(dev, srv.members)
  /\ UNCHANGED <<joins, faults, ignored>>

\* A guest leaves on another device or is separated by a block.
Remove(u) ==
  /\ InRoom(u) /\ u # srv.host
  /\ TopicLeft
  /\ srv' = [Rotated EXCEPT !.members = @ \ {u}]
  /\ dev' = Pinged(dev, srv.members)
  /\ UNCHANGED <<joins, faults, ignored>>

\* The host leaves on another device: a member succeeds.
RemoveHost(u) ==
  /\ InRoom(u) /\ u # srv.host
  /\ TopicLeft
  /\ srv' = [Crowned(u) EXCEPT !.members = @ \ {srv.host}]
  /\ dev' = Pinged(dev, srv.members)
  /\ UNCHANGED <<joins, faults, ignored>>

Admit(u) ==
  /\ srv.state = "open" /\ u \notin srv.members
  /\ TopicLeft
  /\ srv' = [Rotated EXCEPT !.members = @ \cup {u}]
  /\ dev' = Pinged(dev, srv'.members)
  /\ UNCHANGED <<joins, faults, ignored>>

NoRow == [srv EXCEPT !.state = "gone", !.members = {}]

\* vara_close_room pings the members; an expiry pings nobody.
CloseRoom ==
  /\ srv.state = "open"
  /\ srv' = NoRow
  /\ dev' = Pinged(dev, srv.members)
  /\ UNCHANGED <<joins, faults, ignored>>

Expire ==
  /\ srv.state = "open"
  /\ srv' = NoRow
  /\ UNCHANGED <<dev, joins, faults, ignored>>

----------------------------------------------------------------------------
\* What the runtime, the network and the server's answers bring about.
Machinery(d) ==
  \/ AnswerConnect(d)
  \/ ConnectReturns(d)
  \/ ChannelAnswers(d)
  \/ ReconnectTimer(d)
  \/ Changed(d)
  \/ RefreshReturns(d)
  \/ LeaseReturns(d)

Next ==
  \/ \E d \in Device :
       \/ Join(d) \/ Leave(d) \/ Close(d) \/ Publish(d)
       \/ Machinery(d)
       \/ ChannelFails(d) \/ LosePing(d)
       \/ Renew(d) \/ Claim(d) \/ ClaimFails(d)
  \/ Lapse
  \/ \E u \in User : Transfer(u) \/ Remove(u) \/ RemoveHost(u) \/ Admit(u)
  \/ CloseRoom
  \/ Expire

Spec == Init /\ [][Next]_vars

\* Calls are answered, timers and the lease interval fire.  A reconnection waits a
\* second or more (RECONNECT_DELAYS_MS): it does not overtake every answer for ever.
Fairness ==
  \A d \in Device :
    /\ SF_vars(AnswerConnect(d)) /\ SF_vars(ConnectReturns(d))
    /\ SF_vars(ChannelAnswers(d)) /\ WF_vars(ReconnectTimer(d))
    /\ WF_vars(Changed(d)) /\ WF_vars(RefreshReturns(d)) /\ WF_vars(LeaseReturns(d))
    /\ WF_vars(Renew(d)) /\ WF_vars(Claim(d))

FairSpec == Spec /\ Fairness

----------------------------------------------------------------------------
(* Properties.                                                             *)

DescType == [topic : 0 .. MaxTopic, host : User \cup {0}, epoch : 0 .. MaxTopic]

CallType == [is : {"idle", "asked", "ok", "gone", "down"}, desc : DescType]

\* The fields keep their types.
TypeOK ==
  /\ srv \in [state : {"open", "gone"}, members : SUBSET User, host : User,
              epoch : 1 .. MaxTopic, topic : 1 .. MaxTopic, lease : {"valid", "lapsed"}]
  /\ \A d \in Device :
       /\ dev[d].stay \in {"out", "in", "closed"}
       /\ dev[d].desc \in DescType
       /\ dev[d].chan \in [topic : 0 .. MaxTopic, handlers : {"live", "dead"},
                           status : {"none", "joining", "subscribed", "failed"},
                           rights : {"none", "guest", "host"}]
       /\ {dev[d].connect, dev[d].lease} \cup dev[d].refreshes \subseteq CallType
       /\ dev[d].timer \in {"off", "on"}
       /\ dev[d].inbox \in {"deaf", "quiet", "changed"}
       /\ dev[d].seq \in 0 .. RevEpochSize - 1
       /\ dev[d].heard.rev \in 0 .. (MaxTopic + 1) * RevEpochSize
  /\ ignored \subseteq Device

\* Whatever was in flight when a device left the room, nothing of it brings
\* back a channel, a descriptor, a timer or a call.
LeftMeansQuiet ==
  \A d \in Device : dev[d].stay # "in" =>
    /\ dev[d].chan = NoChannel /\ dev[d].desc = NoDesc
    /\ dev[d].timer = "off" /\ dev[d].connect = Idle /\ dev[d].refreshes = {}

\* The catch of refreshDescriptor: no channel, no descriptor and nothing under way.
Dropped(d) ==
  /\ dev[d].stay = "in" /\ dev[d].chan = NoChannel /\ dev[d].desc = NoDesc
  /\ dev[d].connect = Idle /\ dev[d].timer = "off"

\* A device that is in the room has a channel whose handlers are alive, or a
\* connection or a retry under way, unless a refresh dropped it.
Attached(d) ==
  \/ dev[d].chan.handlers = "live"
  \/ dev[d].connect # Idle
  \/ dev[d].timer = "on"
NoneForgotten == \A d \in Device : dev[d].stay = "in" => Attached(d) \/ Dropped(d)

\* Every state the authority publishes is newer than what its listeners have
\* applied: "rev" is a monotone room revision.
HostIsHeard == ignored = {}

OnTopic(d) ==
  /\ Subscribed(d, srv.topic) /\ dev[d].chan.handlers = "live"

\* The host's device has lost the ping of a rotation: its renewals succeed, and
\* nothing else tells it.
Unaware(d) ==
  /\ srv.host = Owner[d] /\ dev[d].desc.host = Owner[d]
  /\ dev[d].desc.topic # srv.topic

\* Once the room stops changing, a device of a member ends up on the current
\* topic with live handlers, unless a refresh dropped it or it hosts unaware; a
\* device whose room is gone, or that is no longer a member, ends up without a
\* channel, even when no ping told it so.
Settles ==
  \A d \in Device :
    <>[](dev[d].stay = "in" =>
           IF InRoom(Owner[d]) THEN OnTopic(d) \/ Dropped(d) \/ Unaware(d)
           ELSE Dropped(d))

\* The room's host, epoch and lease as an instance of HostLease.
Lease == INSTANCE HostLease WITH
  Person <- User, Nobody <- 0,
  stage <- IF srv.state = "open" THEN "held" ELSE "over",
  holder <- IF srv.state = "open" THEN srv.host ELSE 0,
  term <- IF srv.state = "open" THEN srv.epoch ELSE 0,
  lease <- IF srv.state = "open" THEN srv.lease ELSE "lapsed"

\* Claims, renewals, transfers, departures and expiries, whatever the devices ask
\* and in whatever order, amount to a lease with one holder a term.
LeaseSpec == Lease!Spec
=============================================================================
