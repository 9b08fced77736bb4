------------------------------ MODULE VeyaSync ------------------------------
(***************************************************************************)
(* Playback kept in step: createVeyaWiring of                              *)
(* src/src/views/player/hooks/use-veya-sync.ts on every peer of a room,    *)
(* with reconcile.ts and anti-loop.ts, the heartbeat of player.tsx and the *)
(* controls of use-playback-controls.ts.                                   *)
(*                                                                         *)
(* Positions are relative to the authority's: what it plays does not move  *)
(* them, and a position further than Far away is as good as Far.  A state  *)
(* on its way carries the position it will be extrapolated to, which moves *)
(* like a player of its own (extrapolateTarget, under clocks that agree).  *)
(* Revisions are ranks up to the authority's own count, since shouldApply  *)
(* only compares them; one above it, which only a join of the authority's  *)
(* transport anew leaves there, is told by how far it is ahead.            *)
(*                                                                         *)
(* The room, its one authority and the ordered broadcast are the           *)
(* transport's (VeyaTransport).  A message arrives before the next tick (a *)
(* second), which also ends the suppress window (370 ms); a slower or a    *)
(* lost message is a trouble.                                              *)
(***************************************************************************)
EXTENDS Integers, Sequences, FiniteSets

CONSTANTS
  Peer,
  FirstHost,
  Title,       \* what a player may show (contentKey)
  Normal,      \* distance played in a tick at rate 1
  Rates,       \* the speeds a user may pick, as such distances
  Soft, Hard,  \* SOFT_DRIFT, HARD_DRIFT
  Far,         \* bound: the largest distance told apart
  Jumps,       \* how far a user seeks, or a player that stalls falls behind
  Beat,        \* ticks between two heartbeats
  MaxLag,      \* bound: revisions out of use that a transport gives once more
  Allowed,     \* bound: the disturbances of a run
  MaxEvents    \* bound: users' intents, stalls, losses and disturbances

\* What may happen besides stalls, losses and what users do to playback.
Disturbance == {"hostRate", "guestRate", "title", "transfer", "rewire", "rejoin", "snapshot"}

ASSUME SyncAssumption ==
  /\ FirstHost \in Peer /\ Title # {}
  /\ {Normal, Soft, Hard, Far, Beat, MaxEvents} \subseteq Nat \ {0}
  /\ Soft < Hard /\ Hard < Far
  /\ Rates \subseteq Nat \ {0} /\ Jumps \subseteq Int /\ MaxLag \in Nat
  /\ Allowed \subseteq Disturbance

VARIABLES
  authority,
  player,      \* [Peer -> its PlayerBridge and what it shows]
  wiring,      \* [Peer -> the closure of createVeyaWiring]
  last,        \* [Peer -> its transport's lastPublishedState]
  count,       \* the revision the authority's transport gave last
  wire,        \* [Peer -> messages on their way to it]
  beat,        \* ticks until the authority's next heartbeat
  anew,        \* whether it has joined anew since it leads the room
  events       \* intents, stalls, losses and disturbances so far

vars == <<authority, player, wiring, last, count, wire, beat, anew, events>>

----------------------------------------------------------------------------
(* Positions and messages.                                                 *)

Clip(x) == IF x > Far THEN Far ELSE IF x < -Far THEN -Far ELSE x

Distance(x, y) == IF x < y THEN y - x ELSE x - y

\* What one tick plays: a player, or the extrapolation of a state.
Speed(s) == IF s.playing = "yes" /\ s.buffering = "no" THEN s.rate ELSE 0

Moved(s, d) == [s EXCEPT !.at = Clip(@ + d)]

Older(s, d) == IF s.kind = "none" THEN s ELSE Moved(s, d)

NoState == [kind |-> "none", playing |-> "no", buffering |-> "no", at |-> 0,
            rate |-> Normal, rev |-> 0, title |-> "none", corr |-> <<FirstHost, 0, 0>>]

Commands == {"play", "pause", "seek"}

Wired(p) == wiring[p].on = "yes"

\* Messages to everyone but their sender, or to nobody.
Sent(queues, p, m, lost) ==
  [q \in Peer |-> IF q = p \/ lost THEN queues[q] ELSE Append(queues[q], m)]

\* Positions are told from where the authority a is now.
Play(a, pl, queues) ==
  LET d == pl[a].at IN
  /\ player' = [p \in Peer |-> Moved(pl[p], -d)]
  /\ wire' = [p \in Peer |-> [k \in DOMAIN queues[p] |-> Moved(queues[p][k], -d)]]
  /\ last' = [p \in Peer |-> Older(last[p], -d)]

\* Counted against the bounds.
Event == events < MaxEvents /\ events' = events + 1

Disturbed(d) == d \in Allowed /\ Event

----------------------------------------------------------------------------
(* The wiring, as functions of the pair s = [pl |-> player, w |-> wiring]  *)
(* of one peer.                                                            *)

\* setBridgeRate
SetBridgeRate(s, rate) ==
  IF rate = s.w.pushed THEN s ELSE [s EXCEPT !.pl.rate = rate, !.w.pushed = rate]

ClearSoftNudge(s) == SetBridgeRate(s, s.w.base)

\* driftAction
DriftAction(here, target, buffering) ==
  CASE buffering = "yes" -> "suspend"
    [] buffering = "no" /\ Distance(here, target) < Soft -> "none"
    [] buffering = "no" /\ Distance(here, target) \in Soft .. Hard - 1 -> "soft"
    [] OTHER -> "hard"

\* Mutant: the nudge starts from the last one.
NudgedFurther(s, m) ==
  SetBridgeRate(s, IF s.pl.at > m.at THEN s.w.pushed - 1 ELSE s.w.pushed + 1)

\* 5 % around the authority's rate; here the smallest distance.
Nudged(s, m) == SetBridgeRate(s, IF s.pl.at > m.at THEN s.w.base - 1 ELSE s.w.base + 1)

Seek(s, at) == [s EXCEPT !.pl.at = at]

\* play and pause of the bridge: a player that loads goes on loading, or is paused.
SetPlaying(s, playing) ==
  IF playing = "yes" /\ s.pl.playing = "loading" THEN s
  ELSE [s EXCEPT !.pl.playing = playing]

Mismatch(s, m) == s.pl.title # m.title

\* Mutant: a command is known by its number.
HasNumber(w, corr) == \E known \in w.lru : known[2] = corr[2]

\* CorrLru: a command is known by its member and its number.  (64 are
\* remembered, more than a run sends.)
Has(w, corr) == \E known \in w.lru : known[1] = corr[1] /\ known[2] = corr[2]

OpenSuppress(s) == [s EXCEPT !.w.quiet = "yes"]

ApplyCommand(s, m) ==
  IF Mismatch(s, m) \/ Has(s.w, m.corr) THEN s
  ELSE LET heard == OpenSuppress([s EXCEPT !.w.lru = @ \cup {m.corr}]) IN
       CASE m.kind = "play" -> SetPlaying(heard, "yes")
         [] m.kind = "pause" -> SetPlaying(heard, "no")
         [] m.kind = "seek" -> Seek(ClearSoftNudge(heard), m.at)

\* Whether a state is applied: the same title, and shouldApply.
Refused(s, m) == Mismatch(s, m) \/ m.rev <= s.w.applied

Taken(s, m) == OpenSuppress([s EXCEPT !.w.applied = m.rev, !.w.base = m.rate])

\* Mutant: no play and pause after a seek.
ApplyStateSeekOnly(s, m) ==
  IF Refused(s, m) THEN s
  ELSE LET t == Taken(s, m)
           action == DriftAction(s.pl.at, m.at, m.buffering)
       IN CASE action = "suspend" -> ClearSoftNudge(t)
            [] action = "none" -> SetPlaying(ClearSoftNudge(t), m.playing)
            [] action = "soft" -> SetPlaying(Nudged(t, m), m.playing)
            [] action = "hard" -> Seek(ClearSoftNudge(t), m.at)

ApplyState(s, m) ==
  IF Refused(s, m) THEN s
  ELSE LET t == Taken(s, m)
           action == DriftAction(s.pl.at, m.at, m.buffering)
       IN CASE action = "suspend" -> ClearSoftNudge(t)
            [] action = "none" -> SetPlaying(ClearSoftNudge(t), m.playing)
            [] action = "soft" -> SetPlaying(Nudged(t, m), m.playing)
            [] action = "hard" -> SetPlaying(Seek(ClearSoftNudge(t), m.at), m.playing)

ApplySnapshot(s, m) ==
  IF Refused(s, m) THEN s
  ELSE SetPlaying(Seek(ClearSoftNudge(Taken(s, m)), m.at), m.playing)

Apply(s, m) ==
  IF m.kind \in Commands THEN ApplyCommand(s, m)
  ELSE IF m.kind = "state" THEN ApplyState(s, m) ELSE ApplySnapshot(s, m)

\* shouldForward
CanSend(w) == w.on = "yes" /\ w.quiet = "no"

NewWiring(life) ==
  [on |-> "yes", quiet |-> "no", seq |-> 0, applied |-> 0, base |-> Normal,
   pushed |-> Normal, lru |-> {}, life |-> life]

----------------------------------------------------------------------------
(* Initial states: the host plays, its guests join with the title open.    *)

Init ==
  /\ authority = FirstHost
  /\ player = [p \in Peer |->
       [playing |-> IF p = FirstHost THEN "yes" ELSE "no", buffering |-> "no",
        at |-> IF p = FirstHost THEN 0 ELSE -Far, rate |-> Normal,
        title |-> CHOOSE t \in Title : TRUE]]
  /\ wiring = [p \in Peer |-> NewWiring(1)]
  /\ last = [p \in Peer |-> NoState] /\ count = 0
  /\ wire = [p \in Peer |-> <<>>]
  /\ beat = 0 /\ events = 0 /\ anew = "no"

----------------------------------------------------------------------------
(* Time: everyone plays; the next heartbeat is due every Beat ticks.       *)

Arrived == \A p \in Peer : wire[p] = <<>>

Tick ==
  /\ beat > 0
  /\ IF Arrived THEN UNCHANGED events ELSE Event
  /\ LET d == Speed(player[authority])
         on == [p \in Peer |-> Moved(player[p], Speed(player[p]) - d)]
         ahead == [p \in Peer |-> [k \in DOMAIN wire[p] |->
                     Moved(wire[p][k], Speed(wire[p][k]) - d)]]
     IN /\ player' = on
        /\ wire' = ahead
        /\ last' = [p \in Peer |-> Older(last[p], Speed(last[p]) - d)]
  /\ wiring' = [p \in Peer |-> [wiring[p] EXCEPT !.quiet = "no"]]
  /\ beat' = beat - 1
  /\ UNCHANGED <<authority, count, anew>>

\* Revisions in use.
InUse == ({wiring[p].applied : p \in Peer} \cup {last[p].rev : p \in Peer}
            \cup UNION {{wire[p][k].rev : k \in DOMAIN wire[p]} : p \in Peer})
         \ {0}

\* Those the authority's count has passed, up to rev.
Passed(rev) == {r \in InUse : r <= rev /\ r <= count}

\* A revision as its rank, one above the count as far above it as before.
Rank(rev) == Cardinality(Passed(rev)) + IF rev > count THEN rev - count ELSE 0

Ranked(s) == [s EXCEPT !.rev = Rank(@)]

\* publishState: the count goes on by one.
Published(p) ==
  [NoState EXCEPT !.kind = "state", !.playing = player[p].playing,
     !.buffering = player[p].buffering, !.rate = player[p].rate,
     !.rev = Cardinality(Passed(count)) + 1, !.title = player[p].title]

\* The interval of player.tsx, on the authority's client while it is in the room
\* and has loaded its title.
Heartbeat(lost) ==
  /\ beat = 0
  /\ beat' = Beat
  /\ IF lost THEN Event ELSE UNCHANGED events
  /\ IF Wired(authority) /\ player[authority].playing # "loading"
       THEN LET m == Published(authority)
                queues == [p \in Peer |-> [k \in DOMAIN wire[p] |-> Ranked(wire[p][k])]]
            IN /\ last' = [[p \in Peer |-> Ranked(last[p])] EXCEPT ![authority] = m]
               /\ count' = m.rev
               /\ wire' = Sent(queues, authority, m, lost)
               /\ wiring' = [p \in Peer |->
                               [wiring[p] EXCEPT !.applied = Rank(@)]]
       ELSE UNCHANGED <<last, count, wire, wiring>>
  /\ UNCHANGED <<authority, player, anew>>

----------------------------------------------------------------------------
(* A message arrives; without a wiring nobody is subscribed.               *)

Deliver(p) ==
  /\ wire[p] # <<>>
  /\ LET m == Head(wire[p])
         s == [pl |-> player[p], w |-> wiring[p]]
         t == IF Wired(p) THEN Apply(s, m) ELSE s
     IN /\ wiring' = [wiring EXCEPT ![p] = t.w]
        /\ Play(authority, [player EXCEPT ![p] = t.pl], [wire EXCEPT ![p] = Tail(@)])
  /\ UNCHANGED <<authority, count, beat, anew, events>>

----------------------------------------------------------------------------
(* Users: playPauseToggle, seekStep and seekTo send, then apply locally.   *)

Intent(p, kind, at, lost) ==
  /\ Event
  /\ LET w == wiring[p]
         corr == <<p, w.seq + 1, w.life>>
         m == [NoState EXCEPT !.kind = kind, !.at = at, !.title = player[p].title, !.corr = corr]
         s == [pl |-> player[p], w |-> w]
         t == CASE kind = "play" -> SetPlaying(s, "yes")
                [] kind = "pause" -> SetPlaying(s, "no")
                [] kind = "seek" -> Seek(s, at)
     IN IF CanSend(w)
          THEN /\ wiring' = [wiring EXCEPT ![p].seq = @ + 1, ![p].lru = @ \cup {corr}]
               /\ Play(authority, [player EXCEPT ![p] = t.pl], Sent(wire, p, m, lost))
          ELSE /\ ~ lost
               /\ wiring' = wiring
               /\ Play(authority, [player EXCEPT ![p] = t.pl], wire)
  /\ UNCHANGED <<authority, count, beat, anew>>

\* shouldResume: the player does not play, or waits for data.
ShouldResume(p) == player[p].playing # "yes" \/ player[p].buffering = "yes"

Toggle(p, lost) ==
  Intent(p, IF ShouldResume(p) THEN "play" ELSE "pause", player[p].at, lost)

SeekStep(p, lost) == \E d \in Jumps : Intent(p, "seek", Clip(player[p].at + d), lost)

----------------------------------------------------------------------------
(* Troubles.                                                               *)

\* A player falls behind.
Stall(p) ==
  /\ Event
  /\ \E d \in Jumps : d < 0 /\ Play(authority, [player EXCEPT ![p] = Moved(@, d)], wire)
  /\ UNCHANGED <<authority, wiring, count, beat, anew>>

\* A player runs out of data.
Buffer(p) ==
  /\ Event
  /\ player[p].buffering = "no"
  /\ player' = [player EXCEPT ![p].buffering = "yes"]
  /\ UNCHANGED <<authority, wiring, last, count, wire, beat, anew>>

Refill(p) ==
  /\ player[p].buffering = "yes"
  /\ player' = [player EXCEPT ![p].buffering = "no"]
  /\ UNCHANGED <<authority, wiring, last, count, wire, beat, anew, events>>

\* The speed menu and the shortcuts of use-keyboard-shortcuts.ts, on the player.
PickRate(p) ==
  /\ Disturbed(IF p = authority THEN "hostRate" ELSE "guestRate")
  /\ \E r \in Rates \ {player[p].rate} : player' = [player EXCEPT ![p].rate = r]
  /\ UNCHANGED <<authority, wiring, last, count, wire, beat, anew>>

\* Another title, from its start; the player loads it, and then plays.
Show(p) ==
  /\ Disturbed("title")
  /\ \E t \in Title \ {player[p].title} :
       Play(authority,
            [player EXCEPT ![p].title = t, ![p].at = -Far, ![p].playing = "loading"], wire)
  /\ UNCHANGED <<authority, wiring, count, beat, anew>>

Load(p) ==
  /\ player[p].playing = "loading"
  /\ player' = [player EXCEPT ![p].playing = "yes"]
  /\ UNCHANGED <<authority, wiring, last, count, wire, beat, anew, events>>

\* Another account leads the room, in an epoch of its own, whose revisions are
\* above all others; positions are told from its player.  (Its interval has a
\* phase of its own; here it is as far as the one before.)
Transfer(p) ==
  /\ Disturbed("transfer")
  /\ p # authority
  /\ authority' = p
  /\ count' \in InUse \cup {count} /\ \A r \in InUse \cup {count} : r <= count'
  /\ anew' = "no"
  /\ Play(p, player, wire)
  /\ UNCHANGED <<wiring, beat>>

\* The effect of useVeyaSync is cleaned up and runs again: out of the room
\* and back, or a player opened anew.
Unwire(p) ==
  /\ Disturbed("rewire")
  /\ Wired(p)
  /\ wiring' = [wiring EXCEPT ![p].on = "no"]
  /\ UNCHANGED <<authority, player, last, count, wire, beat, anew>>

\* The effect that publishes runs at once.
Wire(p) ==
  /\ ~ Wired(p)
  /\ wiring' = [wiring EXCEPT ![p] = NewWiring(wiring[p].life + 1)]
  /\ beat' = IF p = authority THEN 0 ELSE beat
  /\ UNCHANGED <<authority, player, last, count, wire, anew, events>>

\* The transport leaves the room and joins it again: what was on its way to it is
\* lost, what it published is forgotten, and its count starts over.
RejoinGuest(p) ==
  /\ Disturbed("rejoin")
  /\ p # authority
  /\ wire' = [wire EXCEPT ![p] = <<>>]
  /\ last' = [last EXCEPT ![p] = NoState]
  /\ UNCHANGED <<authority, player, wiring, count, beat, anew>>

\* The authority's count starts over within its epoch: revisions up to k are of
\* earlier epochs, and the others were n more than those still in use.
Later(rev, k, n) == IF rev > k THEN rev + n ELSE rev

RejoinAuthority ==
  /\ Disturbed("rejoin")
  /\ \E k \in 0 .. count, n \in 0 .. MaxLag :
       /\ count' = k
       /\ wire' = [p \in Peer |-> IF p = authority THEN <<>>
                     ELSE [j \in DOMAIN wire[p] |->
                             [wire[p][j] EXCEPT !.rev = Later(@, k, n)]]]
       /\ last' = [p \in Peer |-> IF p = authority THEN NoState
                     ELSE [last[p] EXCEPT !.rev = Later(@, k, n)]]
       /\ wiring' = [p \in Peer |-> [wiring[p] EXCEPT !.applied = Later(@, k, n)]]
  /\ anew' = "yes"
  /\ UNCHANGED <<authority, player, beat>>

\* snapshot-request, of a peer that (re)subscribes: the authority answers the
\* whole channel with what it published last.
Snapshot ==
  /\ Disturbed("snapshot")
  /\ last[authority].kind # "none"
  /\ wire' = Sent(wire, authority, [last[authority] EXCEPT !.kind = "snapshot"], FALSE)
  /\ UNCHANGED <<authority, player, wiring, last, count, beat, anew>>

----------------------------------------------------------------------------

Next ==
  \/ Tick
  \/ \E lost \in BOOLEAN : Heartbeat(lost)
  \/ \E p \in Peer :
       \/ Deliver(p)
       \/ \E lost \in BOOLEAN : Toggle(p, lost) \/ SeekStep(p, lost)
       \/ Stall(p) \/ Buffer(p) \/ Refill(p) \/ PickRate(p) \/ Show(p) \/ Load(p)
       \/ Transfer(p) \/ Unwire(p) \/ Wire(p) \/ RejoinGuest(p)
  \/ RejoinAuthority
  \/ Snapshot

Spec == Init /\ [][Next]_vars

\* Time goes on, the interval fires, messages arrive, a peer that unwired comes
\* back, a player that ran out of data gets some and one that loads has loaded.
FairSpec ==
  /\ Spec
  /\ WF_vars(Tick /\ Arrived)
  /\ WF_vars(Heartbeat(FALSE))
  /\ \A p \in Peer : /\ WF_vars(Deliver(p)) /\ WF_vars(Wire(p))
                     /\ WF_vars(Refill(p)) /\ WF_vars(Load(p))

----------------------------------------------------------------------------
(* Properties.                                                             *)

Positions == -Far .. Far
YesNo == {"yes", "no"}
Status == YesNo \cup {"loading"}
TypeOfCorr == Peer \X (0 .. MaxEvents) \X (1 .. MaxEvents + 1)
Pace == {r + n : r \in Rates \cup {Normal}, n \in -MaxEvents - 1 .. MaxEvents + 1}

\* Types, and what the module relies on: positions are told from the
\* authority's player; unless the authority has joined anew, nothing is newer than
\* what it gave last, so that its next state is new to everyone; the rate
\* pushed to the bridge is the base or one nudge off it (clearSoftNudge,
\* setBridgeRate), and players run at a picked rate or as many nudges off one as
\* the room can have changed hands; what is remembered as heard was sent.
TypeOK ==
  /\ authority \in Peer /\ player[authority].at = 0
  /\ player \in [Peer -> [playing : Status, buffering : YesNo, at : Positions,
                          rate : Pace, title : Title]]
  /\ \A p \in Peer :
       /\ wiring[p].on \in YesNo /\ wiring[p].quiet \in YesNo
       /\ wiring[p].seq \in 0 .. MaxEvents /\ wiring[p].life \in 1 .. MaxEvents + 1
       /\ {wiring[p].base, wiring[p].pushed} \subseteq Pace
       /\ Distance(wiring[p].base, wiring[p].pushed) <= 1
       /\ wiring[p].lru \subseteq TypeOfCorr
       /\ last[p].at \in Positions /\ last[p].kind \in {"none", "state"}
       /\ \A k \in DOMAIN wire[p] : wire[p][k].at \in Positions
  /\ count \in Nat
  /\ anew = "no" => \A r \in InUse : r <= count
  /\ beat \in 0 .. Beat /\ events \in 0 .. MaxEvents /\ anew \in YesNo

\* A command that arrives where its title is shown is applied, whatever else was
\* said there before: its number is told from those of other members.  (Of a
\* wiring that was made again the numbers start over, and so these are left out.)
CommandsHeard ==
  [][\A p \in Peer :
       LET m == Head(wire[p]) IN
       (/\ Deliver(p) /\ Wired(p)
        /\ m.kind \in Commands /\ m.title = player[p].title /\ m.corr[3] = 1)
         => m.corr \in wiring'[p].lru \ wiring[p].lru]_vars

\* A guest in the room with the authority's title open.
Follows(p) ==
  /\ p # authority /\ Wired(p) /\ Wired(authority)
  /\ player[p].title = player[authority].title

\* Its player runs at a speed that its wiring did not give: one that its user
\* picked, or one left over from before the room or from an earlier wiring.
OwnSpeed(p) == player[p].rate # wiring[p].pushed

\* A nudge moves nothing while playback is paused: a guest may then stay between
\* the two thresholds.
InStep(p) ==
  LET off == Distance(player[p].at, player[authority].at) IN
  /\ player[p].playing = player[authority].playing
  /\ player[authority].playing = "yes" => off < Soft /\ player[p].rate = player[authority].rate
  /\ player[authority].playing = "no" => off < Hard

\* Whatever was lost, whoever leads the room or joined it anew and whatever the
\* users did, guests end up playing what the authority plays, where it plays it and
\* as fast, and stay there: a nudge is dropped, a command that was lost or that
\* raced a heartbeat is made good, and a count that starts over catches up.  Guests
\* of a speed of their own are left out: setBridgeRate compares with what it pushed
\* itself, so theirs stays, and every heartbeat seeks them.  (An authority without
\* data claims nothing.)
Converges ==
  <>[](\A p \in Peer :
         Follows(p) => player[authority].buffering = "yes" \/ OwnSpeed(p) \/ InStep(p))

\* "Small, bounded, and always reset to 1.0 once converged": while nobody picks a
\* speed, whoever plays does so at rate 1 in the end.
NudgesEnd ==
  <>[](\A p \in Peer : Wired(p) /\ Speed(player[authority]) # 0 => player[p].rate = Normal)

=============================================================================
