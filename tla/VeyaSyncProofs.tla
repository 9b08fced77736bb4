---------------------------- MODULE VeyaSyncProofs ----------------------------
(***************************************************************************)
(* Machine-checked proofs about VeyaSync, for any number of peers, titles, *)
(* speeds, thresholds and events: the types and what the module relies on, *)
(* and that no command is taken for another.                               *)
(*                                                                         *)
(* A message keeps what it says from where it is sent to where it is read; *)
(* only its position and its rank change under way.  So the invariant has  *)
(* a part about values (Typed), in which the authority's own player is one *)
(* nudge closer to a picked speed than the others, one about revisions     *)
(* (Newest), and one about the order in which the commands of one peer     *)
(* were numbered (Numbered).                                               *)
(***************************************************************************)
EXTENDS VeyaSync, FiniteSetTheorems, TLAPS

Kind == {"none", "state", "snapshot"} \cup Commands

\* Speeds at most n nudges off a picked one.
Near(n) == {r + k : r \in Rates \cup {Normal}, k \in -n .. n}

Numbers(e) == Peer \X (0 .. e) \X (0 .. e + 1)

Players(n) == [playing : Status, buffering : YesNo, at : Positions, rate : Near(n), title : Title]

Wirings(e) ==
  [on : YesNo, quiet : YesNo, seq : 0 .. e, applied : Nat, base : Near(e), pushed : Near(e + 1),
   lru : SUBSET Numbers(e), life : 1 .. e + 1]

Messages(e) ==
  [kind : Kind, playing : YesNo, buffering : YesNo, at : Positions, rate : Near(e), rev : Nat,
   title : Title \cup {"none"}, corr : Numbers(e)]

\* What is on its way to the authority is of a time when it was not yet that.
FromBefore(q, e) ==
  \A k \in DOMAIN q : q[k].kind \notin Commands => q[k].rate \in Near(e - 1)

\* setBridgeRate is called for the base and for one nudge off it.
OneNudge(w) == Distance(w.base, w.pushed) <= 1

Typed ==
  /\ authority \in Peer /\ events \in 0 .. MaxEvents /\ beat \in 0 .. Beat
  /\ count \in Nat /\ anew \in YesNo
  /\ player \in [Peer -> Players(events + 1)]
  /\ player[authority].at = 0 /\ player[authority].rate \in Near(events)
  /\ wiring \in [Peer -> Wirings(events)]
  /\ \A p \in Peer : /\ OneNudge(wiring[p])
                     /\ ~ Wired(p) => wiring[p].life <= events
  /\ last \in [Peer -> Messages(events)]
  /\ \A p \in Peer : last[p].kind \in {"none", "state"}
  /\ wire \in [Peer -> Seq(Messages(events))]
  /\ FromBefore(wire[authority], events)

\* Nothing is newer than c.
UpTo(w, l, queues, c) ==
  \A p \in Peer : /\ w[p].applied <= c /\ l[p].rev <= c
                  /\ \A k \in DOMAIN queues[p] : queues[p][k].rev <= c

\* Until its transport joins anew, nothing is newer than what the authority gave last.
Newest == anew = "no" => UpTo(wiring, last, wire, count)

\* The numbers that the wiring w of peer q has given.
Given(c, q, w) ==
  c[1] = q => /\ 1 <= c[3] /\ c[3] <= w.life
              /\ c[3] = w.life => c[2] <= w.seq

Before(c, d) == c[1] = d[1] => c[3] < d[3] \/ (c[3] = d[3] /\ c[2] < d[2])

IsCommand(m) == m.kind \in Commands

\* With the wirings w: what p has heard, and what is on its way to it in the queue q.
Numbered(w, p, q) ==
  /\ \A c \in w[p].lru : \A o \in Peer : Given(c, o, w[o])
  /\ \A k \in DOMAIN q : IsCommand(q[k]) =>
       /\ q[k].corr[1] # p
       /\ \A o \in Peer : Given(q[k].corr, o, w[o])
       /\ \A c \in w[p].lru : Before(c, q[k].corr)
       /\ \A j \in DOMAIN q : j < k /\ IsCommand(q[j]) => Before(q[j].corr, q[k].corr)

AllNumbered == \A p \in Peer : Numbered(wiring, p, wire[p])

IInv == Typed /\ Newest /\ AllNumbered

----------------------------------------------------------------------------
(* Speeds, positions and messages.                                         *)

LEMMA Constants ==
  /\ Normal \in Nat /\ Rates \subseteq Nat /\ Far \in Nat \ {0} /\ Beat \in Nat /\ MaxEvents \in Nat
  /\ Soft \in Nat /\ Hard \in Nat /\ Jumps \subseteq Int
  /\ FirstHost \in Peer
BY SyncAssumption

LEMMA NearSpeeds ==
  ASSUME NEW n \in Int
  PROVE  /\ Near(n) \subseteq Int
         /\ \A m \in Int : n <= m => Near(n) \subseteq Near(m)
         /\ \A x \in Near(n) : x - 1 \in Near(n + 1) /\ x + 1 \in Near(n + 1)
         /\ 0 <= n => Rates \cup {Normal} \subseteq Near(n)
<1>0. Rates \cup {Normal} \subseteq Int
  BY Constants
<1>1. Near(n) \subseteq Int
  BY <1>0 DEF Near
<1>2. ASSUME NEW m \in Int, n <= m PROVE Near(n) \subseteq Near(m)
  <2>1. -n .. n \subseteq -m .. m
    BY <1>2
  <2> QED BY <2>1 DEF Near
<1>3. ASSUME NEW x \in Near(n) PROVE x - 1 \in Near(n + 1) /\ x + 1 \in Near(n + 1)
  <2>1. PICK r \in Rates \cup {Normal}, k \in -n .. n : x = r + k
    BY DEF Near
  <2>2. k - 1 \in -(n + 1) .. n + 1 /\ k + 1 \in -(n + 1) .. n + 1
    OBVIOUS
  <2>3. x - 1 = r + (k - 1) /\ x + 1 = r + (k + 1)
    BY <1>0, <2>1
  <2> QED BY <2>2, <2>3 DEF Near
<1>4. ASSUME 0 <= n, NEW r \in Rates \cup {Normal} PROVE r \in Near(n)
  <2>1. 0 \in -n .. n /\ r = r + 0
    BY <1>0, <1>4
  <2> QED BY <2>1 DEF Near
<1> QED BY <1>1, <1>2, <1>3, <1>4

\* Types grow with the events.
LEMMA TypesGrow ==
  ASSUME NEW e \in Nat, NEW f \in Nat, e <= f
  PROVE  /\ Numbers(e) \subseteq Numbers(f) /\ Players(e) \subseteq Players(f)
         /\ Players(e + 1) \subseteq Players(f + 1)
         /\ Wirings(e) \subseteq Wirings(f) /\ Messages(e) \subseteq Messages(f)
         /\ \A q : FromBefore(q, e) => FromBefore(q, f)
<1>1. Near(e) \subseteq Near(f) /\ Near(e + 1) \subseteq Near(f + 1) /\ Near(e - 1) \subseteq Near(f - 1)
  <2>1. e + 1 <= f + 1 /\ e - 1 <= f - 1
    OBVIOUS
  <2> QED BY <2>1, NearSpeeds
<1>2. Numbers(e) \subseteq Numbers(f)
  <2>1. 0 .. e \subseteq 0 .. f /\ 0 .. e + 1 \subseteq 0 .. f + 1
    OBVIOUS
  <2> QED BY <2>1 DEF Numbers
<1>3. 0 .. e \subseteq 0 .. f /\ 1 .. e + 1 \subseteq 1 .. f + 1
  OBVIOUS
<1>4. Players(e) \subseteq Players(f) /\ Players(e + 1) \subseteq Players(f + 1)
  BY <1>1 DEF Players
<1>5. Wirings(e) \subseteq Wirings(f)
  BY <1>1, <1>2, <1>3 DEF Wirings
<1>6. Messages(e) \subseteq Messages(f)
  BY <1>1, <1>2 DEF Messages
<1>7. \A q : FromBefore(q, e) => FromBefore(q, f)
  BY <1>1 DEF FromBefore
<1> QED BY <1>2, <1>4, <1>5, <1>6, <1>7

LEMMA ClipFits ==
  /\ Positions \subseteq Int /\ 0 \in Positions /\ -Far \in Positions /\ Clip(0) = 0
  /\ \A x \in Int : Clip(x) \in Positions
BY Constants DEF Positions, Clip

LEMMA PlacesAreNumbers == \A x \in Positions : x \in Int
BY ClipFits

LEMMA MovedPlayer ==
  ASSUME NEW n, NEW s \in Players(n), NEW d \in Int
  PROVE  /\ Moved(s, d) \in Players(n) /\ Moved(s, d).at = Clip(s.at + d)
         /\ Moved(s, d).rate = s.rate
<1>1. s.at + d \in Int
  <2>1. s.at \in Positions
    BY DEF Players
  <2>2. s.at \in Int
    BY <2>1, PlacesAreNumbers
  <2> QED BY <2>2
<1>2. Clip(s.at + d) \in Positions
  BY <1>1, ClipFits
<1> QED BY <1>2 DEF Players, Moved

LEMMA MovedMessage ==
  ASSUME NEW e, NEW m \in Messages(e), NEW d \in Int
  PROVE  /\ Moved(m, d) \in Messages(e)
         /\ Moved(m, d).kind = m.kind /\ Moved(m, d).rate = m.rate
         /\ Moved(m, d).rev = m.rev /\ Moved(m, d).corr = m.corr
<1>1. m.at + d \in Int
  <2>1. m.at \in Positions
    BY DEF Messages
  <2>2. m.at \in Int
    BY <2>1, PlacesAreNumbers
  <2> QED BY <2>2
<1>2. Clip(m.at + d) \in Positions
  BY <1>1, ClipFits
<1> QED BY <1>2 DEF Messages, Moved

LEMMA OlderState ==
  ASSUME NEW e, NEW m \in Messages(e), NEW d \in Int
  PROVE  /\ Older(m, d) \in Messages(e)
         /\ Older(m, d).kind = m.kind /\ Older(m, d).rate = m.rate /\ Older(m, d).rev = m.rev
BY MovedMessage DEF Older

LEMMA SpeedIsNumber ==
  ASSUME NEW e \in Nat, NEW s, s \in Players(e) \/ s \in Messages(e)
  PROVE  Speed(s) \in Int
<1>1. s.rate \in Int
  BY NearSpeeds DEF Players, Messages
<1> QED BY <1>1 DEF Speed

----------------------------------------------------------------------------
(* Queues.                                                                 *)

\* The same messages, further on; their ranks may have changed.
Alike(q, r) ==
  /\ DOMAIN r = DOMAIN q
  /\ \A k \in DOMAIN q :
       r[k].kind = q[k].kind /\ r[k].rate = q[k].rate /\ r[k].corr = q[k].corr

\* No command more, and those that are left where they were.
NoCommandMore(q, r) ==
  \A k \in DOMAIN r : IsCommand(r[k]) =>
    k \in DOMAIN q /\ IsCommand(q[k]) /\ r[k].corr = q[k].corr

LEMMA MovedQueue ==
  ASSUME NEW e, NEW q \in Seq(Messages(e)), NEW f, \A k \in DOMAIN q : f[k] \in Int,
         NEW r, r = [k \in DOMAIN q |-> Moved(q[k], f[k])]
  PROVE  /\ r \in Seq(Messages(e)) /\ Alike(q, r)
         /\ \A k \in DOMAIN q : r[k].rev = q[k].rev
<1>1. ASSUME NEW k \in DOMAIN q
      PROVE  /\ r[k] \in Messages(e) /\ r[k].rev = q[k].rev
             /\ r[k].kind = q[k].kind /\ r[k].rate = q[k].rate /\ r[k].corr = q[k].corr
  <2>1. q[k] \in Messages(e) /\ f[k] \in Int
    OBVIOUS
  <2>2. r[k] = Moved(q[k], f[k])
    OBVIOUS
  <2> QED BY <2>1, <2>2, MovedMessage
<1>2. PICK n \in Nat : DOMAIN q = 1 .. n
  OBVIOUS
<1>3. r \in [1 .. n -> Messages(e)]
  BY <1>1, <1>2
<1>4. r \in Seq(Messages(e))
  BY <1>3
<1> QED BY <1>1, <1>4 DEF Alike

LEMMA AlikeQueues ==
  ASSUME NEW q, NEW r, Alike(q, r)
  PROVE  /\ \A e : FromBefore(q, e) => FromBefore(r, e)
         /\ NoCommandMore(q, r)
BY DEF Alike, FromBefore, NoCommandMore, IsCommand

PlayersTyped(pl, n) == pl \in [Peer -> Players(n)]
QueuesTyped(queues, e) == queues \in [Peer -> Seq(Messages(e))]
StatesTyped(l, e) == l \in [Peer -> Messages(e)]

\* What the players, the queues and the last states become when positions are
\* told from a's player.
PlayLeaves(a, pl, queues, n, e) ==
  /\ player' \in [Peer -> Players(n)] /\ player'[a].at = 0
  /\ \A p \in Peer : player'[p].rate = pl[p].rate
  /\ wire' \in [Peer -> Seq(Messages(e))]
  /\ \A p \in Peer : /\ Alike(queues[p], wire'[p])
                     /\ \A k \in DOMAIN queues[p] : wire'[p][k].rev = queues[p][k].rev
  /\ last' \in [Peer -> Messages(e)]
  /\ \A p \in Peer : last'[p].kind = last[p].kind /\ last'[p].rev = last[p].rev

LEMMA Played ==
  ASSUME NEW a \in Peer, NEW n, NEW e, NEW pl, PlayersTyped(pl, n),
         NEW queues, QueuesTyped(queues, e), StatesTyped(last, e), Play(a, pl, queues)
  PROVE  PlayLeaves(a, pl, queues, n, e)
<1>0. /\ pl \in [Peer -> Players(n)] /\ queues \in [Peer -> Seq(Messages(e))]
      /\ last \in [Peer -> Messages(e)]
  BY DEF PlayersTyped, QueuesTyped, StatesTyped
<1>1. PICK d : d = -pl[a].at
  OBVIOUS
<1>2. d \in Int /\ pl[a].at + d = 0
  <2>1. pl[a].at \in Int
    BY <1>0, ClipFits DEF Players
  <2> QED BY <1>1, <2>1
<1>3. /\ player' = [p \in Peer |-> Moved(pl[p], d)]
      /\ wire' = [p \in Peer |-> [k \in DOMAIN queues[p] |-> Moved(queues[p][k], d)]]
      /\ last' = [p \in Peer |-> Older(last[p], d)]
  BY <1>1 DEF Play
<1>4. ASSUME NEW p \in Peer
      PROVE  player'[p] \in Players(n) /\ player'[p].rate = pl[p].rate
  BY <1>0, <1>2, <1>3, MovedPlayer
<1>5. player'[a].at = 0
  BY <1>0, <1>2, <1>3, MovedPlayer, ClipFits
<1>6. ASSUME NEW p \in Peer
      PROVE  /\ wire'[p] \in Seq(Messages(e)) /\ Alike(queues[p], wire'[p])
             /\ \A k \in DOMAIN queues[p] : wire'[p][k].rev = queues[p][k].rev
  <2>1. PICK q : q = queues[p]
    OBVIOUS
  <2>2. PICK f : f = [k \in DOMAIN q |-> d]
    OBVIOUS
  <2>3. q \in Seq(Messages(e)) /\ \A k \in DOMAIN q : f[k] \in Int
    BY <1>0, <1>2, <2>1, <2>2
  <2>4. wire'[p] = [k \in DOMAIN q |-> Moved(q[k], f[k])]
    BY <1>3, <2>1, <2>2
  <2>5. PICK r : r = wire'[p]
    OBVIOUS
  <2>6. /\ r \in Seq(Messages(e)) /\ Alike(q, r)
        /\ \A k \in DOMAIN q : r[k].rev = q[k].rev
    BY <2>3, <2>4, <2>5, MovedQueue
  <2> QED BY <2>1, <2>5, <2>6
<1>7. ASSUME NEW p \in Peer
      PROVE  last'[p] \in Messages(e) /\ last'[p].kind = last[p].kind /\ last'[p].rev = last[p].rev
  BY <1>0, <1>2, <1>3, OlderState
<1> QED BY <1>3, <1>4, <1>5, <1>6, <1>7 DEF PlayLeaves

----------------------------------------------------------------------------
(* What a message does to the peer that reads it.                          *)

Fit(s, n, e) == s \in [pl : Players(n), w : Wirings(e)]

\* What only the peer's own commands and its effect change.
SameSender(v, w) == w.on = v.on /\ w.seq = v.seq /\ w.life = v.life

SameReader(v, w) == w.applied = v.applied /\ w.lru = v.lru

LEMMA Rated ==
  ASSUME NEW n, NEW e \in Nat, NEW s, Fit(s, n, e), NEW rate \in Near(n), rate \in Near(e + 1),
         Distance(s.w.base, rate) <= 1, NEW t, t = SetBridgeRate(s, rate)
  PROVE  /\ Fit(t, n, e) /\ OneNudge(t.w) /\ SameSender(s.w, t.w) /\ SameReader(s.w, t.w)
<1>1. CASE rate = s.w.pushed
  BY <1>1 DEF SetBridgeRate, OneNudge, SameSender, SameReader
<1>2. CASE rate # s.w.pushed
  <2>1. PICK pl, w : pl = [s.pl EXCEPT !.rate = rate] /\ w = [s.w EXCEPT !.pushed = rate]
    OBVIOUS
  <2>2. s.pl \in Players(n) /\ s.w \in Wirings(e) /\ s = [pl |-> s.pl, w |-> s.w]
    BY DEF Fit
  <2>3. t = [pl |-> pl, w |-> w]
    BY <1>2, <2>1, <2>2 DEF SetBridgeRate
  <2>4. pl \in Players(n)
    BY <2>1, <2>2 DEF Players
  <2>5. /\ w \in Wirings(e) /\ w.pushed = rate /\ w.base = s.w.base
        /\ SameSender(s.w, w) /\ SameReader(s.w, w)
    BY <2>1, <2>2 DEF Wirings, SameSender, SameReader
  <2> QED BY <2>3, <2>4, <2>5 DEF Fit, OneNudge
<1> QED BY <1>1, <1>2

\* The bridge at the base again, or one nudge off it.
LEMMA RateCleared ==
  ASSUME NEW n, NEW e \in Nat, NEW s, Fit(s, n, e), Near(e) \subseteq Near(n),
         NEW t, t = ClearSoftNudge(s)
  PROVE  Fit(t, n, e) /\ OneNudge(t.w) /\ SameSender(s.w, t.w) /\ SameReader(s.w, t.w)
<1>1. PICK r : r = s.w.base
  OBVIOUS
<1>2. r \in Near(e)
  BY <1>1 DEF Fit, Wirings
<1>3. r \in Near(n) /\ r \in Near(e + 1) /\ r \in Int
  <2>1. e <= e + 1 /\ e \in Int /\ e + 1 \in Int
    OBVIOUS
  <2> QED BY <1>2, <2>1, NearSpeeds
<1>4. Distance(s.w.base, r) <= 1
  BY <1>1, <1>3 DEF Distance
<1>5. t = SetBridgeRate(s, r)
  BY <1>1 DEF ClearSoftNudge
<1> QED BY <1>3, <1>4, <1>5, Rated

LEMMA RateNudged ==
  ASSUME NEW n, NEW e \in Nat, NEW s, Fit(s, n, e),
         s.w.base - 1 \in Near(n), s.w.base + 1 \in Near(n),
         NEW m, NEW t, t = Nudged(s, m)
  PROVE  Fit(t, n, e) /\ OneNudge(t.w) /\ SameSender(s.w, t.w) /\ SameReader(s.w, t.w)
<1>1. PICK r : r = (IF s.pl.at > m.at THEN s.w.base - 1 ELSE s.w.base + 1)
  OBVIOUS
<1>2. s.w.base \in Near(e) /\ s.w.base \in Int
  <2>1. s.w.base \in Near(e)
    BY DEF Fit, Wirings
  <2>2. e \in Int
    OBVIOUS
  <2> QED BY <2>1, <2>2, NearSpeeds
<1>3. r \in Near(n) /\ r \in Near(e + 1)
  <2>1. s.w.base - 1 \in Near(e + 1) /\ s.w.base + 1 \in Near(e + 1)
    BY <1>2, NearSpeeds
  <2> QED BY <1>1, <2>1
<1>4. Distance(s.w.base, r) <= 1
  BY <1>1, <1>2 DEF Distance
<1>5. t = SetBridgeRate(s, r)
  BY <1>1 DEF Nudged
<1> QED BY <1>3, <1>4, <1>5, Rated

LEMMA Steered ==
  ASSUME NEW n, NEW e, NEW s, Fit(s, n, e), NEW at \in Positions, NEW playing \in YesNo
  PROVE  /\ Fit(Seek(s, at), n, e) /\ Seek(s, at).w = s.w
         /\ Fit(SetPlaying(s, playing), n, e) /\ SetPlaying(s, playing).w = s.w
<1>1. s.pl \in Players(n) /\ s.w \in Wirings(e) /\ s = [pl |-> s.pl, w |-> s.w]
  BY DEF Fit
<1>2. Seek(s, at) = [pl |-> [s.pl EXCEPT !.at = at], w |-> s.w]
  BY <1>1 DEF Seek
<1>3. \/ SetPlaying(s, playing) = s
      \/ SetPlaying(s, playing) = [pl |-> [s.pl EXCEPT !.playing = playing], w |-> s.w]
  BY <1>1 DEF SetPlaying
<1>4. /\ [s.pl EXCEPT !.at = at] \in Players(n)
      /\ [s.pl EXCEPT !.playing = playing] \in Players(n)
  BY <1>1 DEF Players, Status
<1> QED BY <1>1, <1>2, <1>3, <1>4 DEF Fit

\* What reading m leaves of the wiring v.
Read(v, w, m) ==
  /\ SameSender(v, w)
  /\ w.applied \in {v.applied, m.rev}
  /\ w.lru = v.lru \/ (IsCommand(m) /\ w.lru = v.lru \cup {m.corr})

LEMMA CommandApplied ==
  ASSUME NEW n, NEW e \in Nat, NEW s, Fit(s, n, e), OneNudge(s.w), Near(e) \subseteq Near(n),
         NEW m \in Messages(e), IsCommand(m), NEW t, t = ApplyCommand(s, m)
  PROVE  /\ Fit(t, n, e) /\ OneNudge(t.w) /\ Read(s.w, t.w, m)
         /\ ~ Mismatch(s, m) /\ ~ Has(s.w, m.corr) => m.corr \in t.w.lru
<1>1. CASE Mismatch(s, m) \/ Has(s.w, m.corr)
  BY <1>1 DEF ApplyCommand, Read, SameSender
<1>2. CASE ~ (Mismatch(s, m) \/ Has(s.w, m.corr))
  <2>1. PICK h : h = OpenSuppress([s EXCEPT !.w.lru = @ \cup {m.corr}])
    OBVIOUS
  <2>2. s.pl \in Players(n) /\ s.w \in Wirings(e) /\ s = [pl |-> s.pl, w |-> s.w]
    BY DEF Fit
  <2>3. h = [pl |-> s.pl, w |-> [s.w EXCEPT !.lru = @ \cup {m.corr}, !.quiet = "yes"]]
    BY <2>1, <2>2 DEF OpenSuppress
  <2>4. m.corr \in Numbers(e) /\ m.at \in Positions
    BY DEF Messages
  <2>5. /\ h.w \in Wirings(e) /\ h.w.base = s.w.base /\ h.w.pushed = s.w.pushed
        /\ h.w.lru = s.w.lru \cup {m.corr} /\ h.w.applied = s.w.applied
        /\ SameSender(s.w, h.w)
    BY <2>2, <2>3, <2>4 DEF Wirings, YesNo, SameSender
  <2>6. Fit(h, n, e) /\ OneNudge(h.w)
    BY <2>2, <2>3, <2>5 DEF Fit, OneNudge
  <2>7. m.kind = "play" \/ m.kind = "pause" \/ m.kind = "seek"
    BY DEF IsCommand, Commands
  <2>8. ASSUME m.kind # "seek" PROVE Fit(t, n, e) /\ t.w = h.w
    <3>1. \/ t = SetPlaying(h, "yes") \/ t = SetPlaying(h, "no")
      BY <1>2, <2>1, <2>7, <2>8 DEF ApplyCommand
    <3>2. "yes" \in YesNo /\ "no" \in YesNo
      BY DEF YesNo
    <3> QED BY <2>6, <2>4, <3>1, <3>2, Steered
  <2>9. ASSUME m.kind = "seek"
        PROVE  Fit(t, n, e) /\ OneNudge(t.w) /\ SameSender(h.w, t.w) /\ SameReader(h.w, t.w)
    <3>1. t = Seek(ClearSoftNudge(h), m.at)
      BY <1>2, <2>1, <2>9 DEF ApplyCommand
    <3>2. PICK u : u = ClearSoftNudge(h)
      OBVIOUS
    <3>3. Fit(u, n, e) /\ OneNudge(u.w) /\ SameSender(h.w, u.w) /\ SameReader(h.w, u.w)
      BY <2>6, <3>2, RateCleared
    <3>4. "yes" \in YesNo
      BY DEF YesNo
    <3> QED BY <2>4, <3>1, <3>2, <3>3, <3>4, Steered
  <2>10. Fit(t, n, e) /\ OneNudge(t.w) /\ SameSender(h.w, t.w) /\ SameReader(h.w, t.w)
    BY <2>6, <2>8, <2>9 DEF SameSender, SameReader
  <2> QED BY <2>5, <2>10 DEF Read, SameSender, SameReader
<1> QED BY <1>1, <1>2

LEMMA TakenFits ==
  ASSUME NEW n, NEW e \in Nat, NEW s, Fit(s, n, e), NEW m \in Messages(e),
         NEW t, t = Taken(s, m)
  PROVE  /\ Fit(t, n, e) /\ t.w.base = m.rate
         /\ SameSender(s.w, t.w) /\ t.w.applied = m.rev /\ t.w.lru = s.w.lru
<1>1. s.pl \in Players(n) /\ s.w \in Wirings(e) /\ s = [pl |-> s.pl, w |-> s.w]
  BY DEF Fit
<1>2. t = [pl |-> s.pl, w |-> [s.w EXCEPT !.applied = m.rev, !.base = m.rate, !.quiet = "yes"]]
  BY <1>1 DEF Taken, OpenSuppress
<1>3. m.rev \in Nat /\ m.rate \in Near(e)
  BY DEF Messages
<1>4. PICK v, r, x : /\ v = [s.w EXCEPT !.applied = r, !.base = x, !.quiet = "yes"]
                     /\ r = m.rev /\ x = m.rate
  OBVIOUS
<1>5. r \in Nat /\ x \in Near(e) /\ "yes" \in YesNo
  BY <1>3, <1>4 DEF YesNo
<1>6. v \in Wirings(e) /\ v.base = x /\ v.applied = r /\ v.lru = s.w.lru
  BY <1>1, <1>4, <1>5 DEF Wirings
<1>7. SameSender(s.w, v)
  BY <1>1, <1>4 DEF Wirings, SameSender
<1>8. t = [pl |-> s.pl, w |-> v] /\ t.w = v
  BY <1>2, <1>4
<1>9. Fit(t, n, e)
  BY <1>1, <1>6, <1>8 DEF Fit
<1> QED BY <1>4, <1>6, <1>7, <1>8, <1>9

LEMMA StateApplied ==
  ASSUME NEW n, NEW e \in Nat, NEW s, Fit(s, n, e), OneNudge(s.w), Near(e) \subseteq Near(n),
         NEW m \in Messages(e), m.rate - 1 \in Near(n), m.rate + 1 \in Near(n),
         NEW t, t = ApplyState(s, m) \/ t = ApplySnapshot(s, m)
  PROVE  Fit(t, n, e) /\ OneNudge(t.w) /\ Read(s.w, t.w, m)
<1>1. CASE Refused(s, m)
  BY <1>1 DEF ApplyState, ApplySnapshot, Read, SameSender
<1>2. CASE ~ Refused(s, m)
  <2>1. PICK h : h = Taken(s, m)
    OBVIOUS
  <2>2. /\ Fit(h, n, e) /\ h.w.base = m.rate
        /\ SameSender(s.w, h.w) /\ h.w.applied = m.rev /\ h.w.lru = s.w.lru
    BY <2>1, TakenFits
  <2>3. PICK c : c = ClearSoftNudge(h)
    OBVIOUS
  <2>4. Fit(c, n, e) /\ OneNudge(c.w) /\ SameSender(h.w, c.w) /\ SameReader(h.w, c.w)
    BY <2>2, <2>3, RateCleared
  <2>5. PICK d : d = Nudged(h, m)
    OBVIOUS
  <2>6. Fit(d, n, e) /\ OneNudge(d.w) /\ SameSender(h.w, d.w) /\ SameReader(h.w, d.w)
    BY <2>2, <2>5, RateNudged
  <2>7. m.at \in Positions /\ m.playing \in YesNo
    BY DEF Messages
  <2>8. DriftAction(s.pl.at, m.at, m.buffering) \in {"suspend", "none", "soft", "hard"}
    BY DEF DriftAction
  <2>9. \/ t = c \/ t = SetPlaying(c, m.playing) \/ t = SetPlaying(d, m.playing)
        \/ t = SetPlaying(Seek(c, m.at), m.playing)
    <3>1. CASE t = ApplySnapshot(s, m)
      BY <1>2, <2>1, <2>3, <3>1 DEF ApplySnapshot
    <3>2. CASE t = ApplyState(s, m)
      BY <1>2, <2>1, <2>3, <2>5, <2>8, <3>2 DEF ApplyState
    <3> QED BY <3>1, <3>2
  <2>10. PICK u : u = Seek(c, m.at)
    OBVIOUS
  <2>11. Fit(u, n, e) /\ u.w = c.w
    BY <2>4, <2>7, <2>10, Steered
  <2>12. Fit(t, n, e) /\ (t.w = c.w \/ t.w = d.w)
    BY <2>4, <2>6, <2>7, <2>9, <2>10, <2>11, Steered
  <2> QED BY <2>2, <2>4, <2>6, <2>12 DEF Read, SameSender, SameReader
<1> QED BY <1>1, <1>2

\* Speeds stay near enough if what a state says of the authority's is nearer.
LEMMA Applied ==
  ASSUME NEW n, NEW e \in Nat, NEW s, Fit(s, n, e), OneNudge(s.w), Near(e) \subseteq Near(n),
         NEW m \in Messages(e),
         ~ IsCommand(m) => m.rate - 1 \in Near(n) /\ m.rate + 1 \in Near(n),
         NEW t, t = Apply(s, m)
  PROVE  Fit(t, n, e) /\ OneNudge(t.w) /\ Read(s.w, t.w, m)
<1>1. CASE IsCommand(m)
  BY <1>1, CommandApplied DEF Apply, IsCommand
<1>2. CASE ~ IsCommand(m)
  <2>1. t = ApplyState(s, m) \/ t = ApplySnapshot(s, m)
    BY <1>2 DEF Apply, IsCommand
  <2> QED BY <1>2, <2>1, StateApplied
<1> QED BY <1>1, <1>2

----------------------------------------------------------------------------
(* Types.                                                                  *)

LEMMA Queues ==
  ASSUME NEW e, NEW q \in Seq(Messages(e))
  PROVE  /\ \A k \in DOMAIN q : q[k] \in Messages(e)
         /\ q # <<>> => /\ Head(q) \in Messages(e) /\ Tail(q) \in Seq(Messages(e))
                        /\ Head(q) = q[1] /\ 1 \in DOMAIN q
                        /\ \A k \in DOMAIN Tail(q) : k + 1 \in DOMAIN q /\ Tail(q)[k] = q[k + 1]
         /\ \A m \in Messages(e) :
              /\ Append(q, m) \in Seq(Messages(e))
              /\ \A k \in DOMAIN Append(q, m) :
                   (k \in DOMAIN q /\ Append(q, m)[k] = q[k])
                   \/ (k = Len(q) + 1 /\ Append(q, m)[k] = m)
<1>1. \A k \in DOMAIN q : q[k] \in Messages(e)
  OBVIOUS
<1>2. ASSUME q # <<>>
      PROVE  /\ Head(q) \in Messages(e) /\ Tail(q) \in Seq(Messages(e))
             /\ Head(q) = q[1] /\ 1 \in DOMAIN q
             /\ \A k \in DOMAIN Tail(q) : k + 1 \in DOMAIN q /\ Tail(q)[k] = q[k + 1]
  BY <1>2
<1>3. ASSUME NEW m \in Messages(e)
      PROVE  /\ Append(q, m) \in Seq(Messages(e))
             /\ \A k \in DOMAIN Append(q, m) :
                  (k \in DOMAIN q /\ Append(q, m)[k] = q[k])
                  \/ (k = Len(q) + 1 /\ Append(q, m)[k] = m)
  OBVIOUS
<1> QED BY <1>1, <1>2, <1>3

LEMMA FromBeforeQueues ==
  ASSUME NEW e, NEW q \in Seq(Messages(e)), FromBefore(q, e)
  PROVE  /\ q # <<>> => FromBefore(Tail(q), e)
         /\ \A m \in Messages(e) : IsCommand(m) => FromBefore(Append(q, m), e)
<1>1. ASSUME q # <<>> PROVE FromBefore(Tail(q), e)
  BY <1>1, Queues DEF FromBefore
<1>2. ASSUME NEW m \in Messages(e), IsCommand(m) PROVE FromBefore(Append(q, m), e)
  BY <1>2, Queues DEF FromBefore, IsCommand
<1> QED BY <1>1, <1>2

LEMMA NoStateFits ==
  ASSUME NEW e \in Nat
  PROVE  NoState \in Messages(e) /\ NoState.rev = 0
<1>1. Normal \in Near(e)
  <2>1. e \in Int /\ 0 <= e
    OBVIOUS
  <2> QED BY <2>1, NearSpeeds
<1>2. <<FirstHost, 0, 0>> \in Numbers(e)
  <2>1. 0 \in 0 .. e /\ 0 \in 0 .. e + 1
    OBVIOUS
  <2> QED BY <2>1, Constants DEF Numbers
<1>3. 0 \in Positions
  BY ClipFits
<1> QED BY <1>1, <1>2, <1>3 DEF NoState, Messages, Kind, YesNo

\* What every type is after f events.
TypedAt(f) ==
  /\ player \in [Peer -> Players(f + 1)] /\ player[authority].rate \in Near(f)
  /\ wiring \in [Peer -> Wirings(f)]
  /\ \A p \in Peer : OneNudge(wiring[p]) /\ (~ Wired(p) => wiring[p].life <= f)
  /\ last \in [Peer -> Messages(f)]
  /\ \A p \in Peer : last[p].kind \in {"none", "state"}
  /\ wire \in [Peer -> Seq(Messages(f))]
  /\ FromBefore(wire[authority], f)

LEMMA MoreMessages ==
  ASSUME NEW S, NEW T, S \subseteq T, NEW q \in Seq(S)
  PROVE  q \in Seq(T)
OBVIOUS

LEMMA TypedLater ==
  ASSUME Typed, NEW f \in Nat, events <= f
  PROVE  TypedAt(f)
<1>0. events \in Nat /\ authority \in Peer
  BY Constants DEF Typed
<1>1. /\ Players(events + 1) \subseteq Players(f + 1)
      /\ Wirings(events) \subseteq Wirings(f) /\ Messages(events) \subseteq Messages(f)
      /\ FromBefore(wire[authority], f)
  BY <1>0, TypesGrow DEF Typed
<1>2. Near(events) \subseteq Near(f)
  BY <1>0, NearSpeeds
<1>3. wire \in [Peer -> Seq(Messages(f))]
  <2>1. ASSUME NEW p \in Peer PROVE wire[p] \in Seq(Messages(f))
    BY <1>1, MoreMessages DEF Typed
  <2> QED BY <2>1 DEF Typed
<1>4. ASSUME NEW p \in Peer
      PROVE  OneNudge(wiring[p]) /\ (~ Wired(p) => wiring[p].life <= f)
  <2>1. wiring[p].life \in Int
    BY <1>0 DEF Typed, Wirings
  <2> QED BY <1>0, <2>1 DEF Typed
<1>5. player \in [Peer -> Players(f + 1)] /\ wiring \in [Peer -> Wirings(f)] /\ last \in [Peer -> Messages(f)]
  BY <1>1 DEF Typed
<1> QED BY <1>1, <1>2, <1>3, <1>4, <1>5 DEF Typed, TypedAt

Counted ==
  events' \in {events, events + 1} /\ events' \in 0 .. MaxEvents /\ count' \in Nat /\ anew' \in YesNo

LEMMA Counts ==
  ASSUME Typed
  PROVE  /\ Event /\ UNCHANGED <<count, anew>> => Counted /\ events' = events + 1
         /\ UNCHANGED <<count, anew, events>> => Counted
         /\ \A d : Disturbed(d) /\ UNCHANGED <<count, anew>> => Counted /\ events' = events + 1
         /\ \A d : Disturbed(d) => events' = events + 1 /\ events' \in 0 .. MaxEvents
BY Constants DEF Typed, Counted, Event, Disturbed

LEMMA CountedLater ==
  ASSUME Typed, Counted
  PROVE  /\ events' \in Nat /\ events \in Nat /\ events <= events' /\ TypedAt(events')
BY Constants, TypedLater DEF Typed, Counted

\* The wirings after a step.
WiringsTyped(w, f) ==
  /\ w \in [Peer -> Wirings(f)]
  /\ \A p \in Peer : OneNudge(w[p]) /\ (w[p].on # "yes" => w[p].life <= f)

LEMMA PlayTyped ==
  ASSUME Typed, Counted, NEW e \in Nat, e = events', NEW a \in Peer, authority' = a,
         NEW pl, PlayersTyped(pl, e + 1), pl[a].rate \in Near(e),
         NEW queues, QueuesTyped(queues, e), FromBefore(queues[a], e),
         Play(a, pl, queues), WiringsTyped(wiring', e), beat' \in 0 .. Beat
  PROVE  Typed'
<1>1. TypedAt(events')
  BY CountedLater
<1>2. StatesTyped(last, e)
  BY <1>1 DEF TypedAt, StatesTyped
<1>3. PICK n : n = e + 1
  OBVIOUS
<1>4. PlayersTyped(pl, n)
  BY <1>3
<1>5. PlayLeaves(a, pl, queues, n, e)
  BY ONLY <1>2, <1>4, QueuesTyped(queues, e), a \in Peer, Play(a, pl, queues), Played
<1>6. /\ player' \in [Peer -> Players(n)] /\ player'[a].at = 0
      /\ \A p \in Peer : player'[p].rate = pl[p].rate
      /\ wire' \in [Peer -> Seq(Messages(e))]
      /\ \A p \in Peer : Alike(queues[p], wire'[p])
      /\ last' \in [Peer -> Messages(e)]
      /\ \A p \in Peer : last'[p].kind = last[p].kind
  BY <1>5 DEF PlayLeaves
<1>7. FromBefore(wire'[a], e)
  BY <1>6, AlikeQueues
<1>8. \A p \in Peer : last'[p].kind \in {"none", "state"}
  BY <1>6 DEF Typed
<1> QED BY <1>3, <1>6, <1>7, <1>8 DEF Typed, Counted, WiringsTyped, Wired

LEMMA SameWirings ==
  ASSUME Typed, Counted, NEW e \in Nat, e = events'
  PROVE  TypedAt(e) /\ WiringsTyped(wiring, e) /\ authority \in Peer /\ events \in Nat /\ events <= e
<1>1. TypedAt(events') /\ events \in Nat /\ events <= events'
  BY CountedLater
<1>2. TypedAt(e) /\ events <= e
  BY <1>1 DEF TypedAt
<1> QED BY <1>1, <1>2 DEF Typed, TypedAt, WiringsTyped, Wired

\* For steps that leave the queues and the last states alone.
LEMMA StillTyped ==
  ASSUME Typed, Counted, NEW e \in Nat, e = events',
         UNCHANGED <<authority, last, wire>>, beat' \in 0 .. Beat,
         PlayersTyped(player', e + 1), player'[authority].at = 0,
         player'[authority].rate \in Near(e), WiringsTyped(wiring', e)
  PROVE  Typed'
<1>1. TypedAt(e)
  BY SameWirings
<1>2. /\ last' \in [Peer -> Messages(e)]
      /\ \A p \in Peer : last'[p].kind \in {"none", "state"}
      /\ wire' \in [Peer -> Seq(Messages(e))]
      /\ FromBefore(wire'[authority'], e)
  BY <1>1 DEF TypedAt
<1> QED BY <1>2 DEF Typed, Counted, WiringsTyped, Wired, PlayersTyped

----------------------------------------------------------------------------
(* Typed, action by action.                                                *)

\* A peer's player and wiring in a step.
LEMMA OneOfAll ==
  ASSUME NEW f \in Nat, TypedAt(f), NEW p \in Peer
  PROVE  /\ player[p] \in Players(f + 1) /\ wiring[p] \in Wirings(f) /\ OneNudge(wiring[p])
         /\ wire[p] \in Seq(Messages(f))
         /\ Fit([pl |-> player[p], w |-> wiring[p]], f + 1, f)
         /\ p = authority => Fit([pl |-> player[p], w |-> wiring[p]], f, f)
<1>1. player[p] \in Players(f + 1) /\ wiring[p] \in Wirings(f) /\ OneNudge(wiring[p])
  BY DEF TypedAt
<1>2. p = authority => player[p] \in Players(f)
  BY <1>1 DEF TypedAt, Players
<1> QED BY <1>1, <1>2 DEF Fit, TypedAt

LEMMA InitTyped ==
  Init => Typed
<1> SUFFICES ASSUME Init PROVE Typed
  OBVIOUS
<1>1. NoState \in Messages(0) /\ NoState.kind = "none"
  BY NoStateFits DEF NoState
<1>2. Normal \in Near(0) /\ Normal \in Near(1)
  <2>1. 0 \in Int /\ 1 \in Int /\ 0 <= 0 /\ 0 <= 1
    OBVIOUS
  <2> QED BY <2>1, NearSpeeds
<1>3. NewWiring(1) \in Wirings(0) /\ OneNudge(NewWiring(1)) /\ NewWiring(1).on = "yes"
  <2>1. {} \in SUBSET Numbers(0) /\ 0 + 1 = 1
    OBVIOUS
  <2>2. Distance(Normal, Normal) <= 1
    BY Constants DEF Distance
  <2> QED BY <1>2, <2>1, <2>2 DEF NewWiring, Wirings, OneNudge, YesNo
<1>4. (CHOOSE t \in Title : TRUE) \in Title
  BY SyncAssumption
<1>5. 0 \in Positions /\ -Far \in Positions
  BY ClipFits
<1>6. player \in [Peer -> Players(1)] /\ player[authority].at = 0 /\ player[authority].rate \in Near(0)
  BY <1>2, <1>4, <1>5, Constants DEF Init, Players, YesNo, Status
<1>7. /\ authority \in Peer /\ events = 0 /\ events \in 0 .. MaxEvents /\ beat \in 0 .. Beat
      /\ count \in Nat /\ anew \in YesNo
  BY Constants DEF Init, YesNo
<1>8. wire \in [Peer -> Seq(Messages(0))] /\ FromBefore(wire[authority], 0)
  <2>1. <<>> \in Seq(Messages(0)) /\ DOMAIN <<>> = {}
    OBVIOUS
  <2> QED BY <1>7, <2>1 DEF Init, FromBefore
<1>9. events + 1 = 1
  BY <1>7
<1> QED BY <1>1, <1>3, <1>6, <1>7, <1>8, <1>9 DEF Init, Typed, Wired

LEMMA TickTyped ==
  ASSUME Typed, Tick
  PROVE  Typed'
<1>1. Counted
  BY Counts DEF Tick
<1>2. PICK e \in Nat : e = events'
  BY <1>1, CountedLater
<1>3. TypedAt(e) /\ authority \in Peer /\ e + 1 \in Nat
  <2>1. TypedAt(events')
    BY <1>1, CountedLater
  <2>2. authority \in Peer
    BY DEF Typed
  <2>3. TypedAt(e)
    BY <1>2, <2>1 DEF TypedAt
  <2>4. e + 1 \in Nat
    OBVIOUS
  <2> QED BY <2>2, <2>3, <2>4
<1>4. PICK d : d = Speed(player[authority])
  OBVIOUS
<1>5. d \in Int
  <2>1. player[authority] \in Players(e + 1)
    BY <1>2, <1>3, OneOfAll
  <2>2. PICK s : s = player[authority]
    OBVIOUS
  <2>3. Speed(s) \in Int
    BY <1>3, <2>1, <2>2, SpeedIsNumber
  <2> QED BY <1>4, <2>2, <2>3
<1>6. /\ player' = [p \in Peer |-> Moved(player[p], Speed(player[p]) - d)]
      /\ wire' = [p \in Peer |-> [k \in DOMAIN wire[p] |->
                     Moved(wire[p][k], Speed(wire[p][k]) - d)]]
      /\ last' = [p \in Peer |-> Older(last[p], Speed(last[p]) - d)]
      /\ authority' = authority /\ beat > 0 /\ beat' = beat - 1
      /\ wiring' = [p \in Peer |-> [wiring[p] EXCEPT !.quiet = "no"]]
  BY <1>4 DEF Tick
<1>7. ASSUME NEW p \in Peer
      PROVE  player'[p] \in Players(e + 1) /\ player'[p].rate = player[p].rate
             /\ (p = authority => player'[p].at = 0)
  <2>1. player[p] \in Players(e + 1)
    BY <1>3, OneOfAll, <1>2
  <2>2. Speed(player[p]) \in Int
    BY <1>3, <2>1, SpeedIsNumber
  <2>3. PICK x \in Int : x = Speed(player[p]) - d
    BY <1>5, <2>2
  <2>4. player'[p] = Moved(player[p], x)
    BY <1>6, <2>3
  <2>5. ASSUME p = authority PROVE player[p].at + x = 0
    <3>1. x = 0 /\ player[p].at = 0
      BY <1>4, <1>5, <2>3, <2>5 DEF Typed
    <3> QED BY <3>1
  <2> QED BY <2>1, <2>4, <2>5, MovedPlayer, ClipFits
<1>8. ASSUME NEW p \in Peer
      PROVE  wire'[p] \in Seq(Messages(e)) /\ Alike(wire[p], wire'[p])
  <2>1. PICK q : q = wire[p]
    OBVIOUS
  <2>2. q \in Seq(Messages(e))
    BY <1>2, <1>3, <2>1, OneOfAll
  <2>3. PICK g : g = [k \in DOMAIN q |-> Speed(q[k]) - d]
    OBVIOUS
  <2>4. ASSUME NEW k \in DOMAIN q PROVE g[k] \in Int
    <3>1. q[k] \in Messages(e)
      BY <2>2, Queues
    <3>2. Speed(q[k]) \in Int
      BY <1>2, <3>1, SpeedIsNumber
    <3> QED BY <1>5, <2>3, <3>2
  <2>5. wire'[p] = [k \in DOMAIN q |-> Moved(q[k], g[k])]
    BY <1>6, <2>1, <2>3
  <2>6. PICK r : r = wire'[p]
    OBVIOUS
  <2>7. r \in Seq(Messages(e)) /\ Alike(q, r)
    BY <2>2, <2>4, <2>5, <2>6, MovedQueue
  <2> QED BY <2>1, <2>6, <2>7
<1>9. ASSUME NEW p \in Peer
      PROVE  last'[p] \in Messages(e) /\ last'[p].kind = last[p].kind
  <2>1. last[p] \in Messages(e)
    BY <1>3 DEF TypedAt
  <2>2. Speed(last[p]) - d \in Int
    <3>1. Speed(last[p]) \in Int
      BY <1>2, <2>1, SpeedIsNumber
    <3> QED BY <1>5, <3>1
  <2> QED BY <1>6, <2>1, <2>2, OlderState
<1>10. WiringsTyped(wiring', e)
  <2>1. WiringsTyped(wiring, e)
    BY <1>1, <1>2, SameWirings
  <2>2. ASSUME NEW p \in Peer
        PROVE  /\ wiring'[p] \in Wirings(e) /\ OneNudge(wiring'[p])
               /\ wiring'[p].on # "yes" => wiring'[p].life <= e
    <3>1. wiring'[p] = [wiring[p] EXCEPT !.quiet = "no"]
      BY <1>6
    <3>2. wiring[p] \in Wirings(e) /\ OneNudge(wiring[p]) /\ (wiring[p].on # "yes" => wiring[p].life <= e)
      BY <2>1 DEF WiringsTyped
    <3> QED BY <3>1, <3>2 DEF Wirings, YesNo, OneNudge
  <2> QED BY <1>6, <2>2 DEF WiringsTyped
<1>11. beat' \in 0 .. Beat
  BY <1>6, Constants DEF Typed
<1>12. FromBefore(wire'[authority], e) /\ player'[authority].rate \in Near(e)
  BY <1>3, <1>7, <1>8, AlikeQueues DEF TypedAt
<1>13. /\ player' \in [Peer -> Players(e + 1)] /\ wire' \in [Peer -> Seq(Messages(e))]
       /\ last' \in [Peer -> Messages(e)]
  BY <1>6, <1>7, <1>8, <1>9
<1> QED BY <1>1, <1>2, <1>3, <1>6, <1>7, <1>9, <1>10, <1>11, <1>12, <1>13
        DEF Typed, Counted, WiringsTyped, Wired

\* The highest rank.
Top == Cardinality(Passed(count))

\* Nothing newer than the authority gave, as ranks.
Low(x) == anew = "no" => x <= Top

LEMMA UsedAreNumbers ==
  ASSUME Typed
  PROVE  InUse \subseteq Nat
<1>0. SUFFICES ASSUME NEW x \in InUse PROVE x \in Nat
  OBVIOUS
<1>1. CASE \E p \in Peer : x = wiring[p].applied
  BY <1>1 DEF Typed, Wirings
<1>2. CASE \E p \in Peer : x = last[p].rev
  BY <1>2 DEF Typed, Messages
<1>3. CASE \E p \in Peer : \E k \in DOMAIN wire[p] : x = wire[p][k].rev
  <2>1. PICK p \in Peer : \E k \in DOMAIN wire[p] : x = wire[p][k].rev
    BY <1>3
  <2>2. PICK k \in DOMAIN wire[p] : x = wire[p][k].rev
    BY <2>1
  <2>3. wire[p] \in Seq(Messages(events))
    BY DEF Typed
  <2>4. wire[p][k] \in Messages(events)
    BY <2>3, Queues
  <2> QED BY <2>2, <2>4 DEF Messages
<1> QED BY <1>1, <1>2, <1>3 DEF InUse

LEMMA RevisionsCounted ==
  ASSUME Typed
  PROVE  /\ Top \in Nat
         /\ \A rev \in Nat : /\ Rank(rev) \in Nat
                             /\ (anew = "no" => rev <= count) => Low(Rank(rev))
<1>1. count \in Nat
  BY DEF Typed
<1>2. InUse \subseteq Nat
  BY UsedAreNumbers
<1>3. ASSUME NEW rev
      PROVE  /\ IsFiniteSet(Passed(rev)) /\ Cardinality(Passed(rev)) \in Nat
             /\ Passed(rev) \subseteq Passed(count)
  <2>1. \A x \in Passed(rev) : x \in Nat /\ x <= count
    BY <1>2 DEF Passed
  <2>2. IsFiniteSet(Passed(rev))
    BY <1>1, <2>1, FS_BoundedSetOfNaturals
  <2>3. Passed(rev) \subseteq Passed(count)
    BY DEF Passed
  <2> QED BY <2>2, <2>3, FS_CardinalityType
<1>4. ASSUME NEW rev \in Nat
      PROVE  Rank(rev) \in Nat /\ ((anew = "no" => rev <= count) => Low(Rank(rev)))
  <2>1. PICK n : n = Cardinality(Passed(rev))
    OBVIOUS
  <2>2. n \in Nat /\ n <= Top /\ Top \in Nat
    BY <1>3, <2>1, FS_Subset DEF Top
  <2>3. Rank(rev) = n + (IF rev > count THEN rev - count ELSE 0)
    BY <2>1 DEF Rank
  <2>4. Rank(rev) \in Nat
    BY <1>1, <2>2, <2>3
  <2>5. rev <= count => Rank(rev) <= Top
    BY <1>1, <2>2, <2>3
  <2> QED BY <2>4, <2>5 DEF Low
<1> QED BY <1>3, <1>4 DEF Top

LEMMA RankedMessage ==
  ASSUME Typed, NEW e, NEW m \in Messages(e), anew = "no" => m.rev <= count
  PROVE  /\ Ranked(m) \in Messages(e) /\ Ranked(m).kind = m.kind /\ Ranked(m).rate = m.rate
         /\ Ranked(m).corr = m.corr /\ Low(Ranked(m).rev)
<1>1. m.rev \in Nat
  BY DEF Messages
<1>2. PICK r \in Nat : r = Rank(m.rev) /\ Low(r)
  BY <1>1, RevisionsCounted
<1>3. Ranked(m) = [m EXCEPT !.rev = r]
  BY <1>2 DEF Ranked
<1>4. Ranked(m).rev = r
  BY <1>3 DEF Messages
<1> QED BY <1>2, <1>3, <1>4 DEF Messages

\* What a heartbeat leaves of a queue that m is added to, or not.
LEMMA RankedQueue ==
  ASSUME Typed, NEW e, NEW q \in Seq(Messages(e)), NEW r,
         anew = "no" => \A k \in DOMAIN q : q[k].rev <= count,
         r = [k \in DOMAIN q |-> Ranked(q[k])]
  PROVE  /\ r \in Seq(Messages(e)) /\ Alike(q, r)
         /\ \A k \in DOMAIN r : Low(r[k].rev)
<1>1. ASSUME NEW k \in DOMAIN q
      PROVE  /\ r[k] \in Messages(e) /\ Low(r[k].rev)
             /\ r[k].kind = q[k].kind /\ r[k].rate = q[k].rate /\ r[k].corr = q[k].corr
  <2>1. PICK m \in Messages(e) : m = q[k]
    OBVIOUS
  <2>2. r[k] = Ranked(m) /\ (anew = "no" => m.rev <= count)
    BY <2>1
  <2> QED BY <2>1, <2>2, RankedMessage
<1>2. PICK n \in Nat : DOMAIN q = 1 .. n
  OBVIOUS
<1>3. r \in [1 .. n -> Messages(e)]
  BY <1>1, <1>2
<1>4. r \in Seq(Messages(e)) /\ DOMAIN r = DOMAIN q
  BY <1>2, <1>3
<1> QED BY <1>1, <1>4 DEF Alike

\* The authority's client is in the room and has loaded its title.
Publishes == Wired(authority) /\ player[authority].playing # "loading"

LEMMA PublishedFits ==
  ASSUME Typed, Publishes
  PROVE  /\ Published(authority) \in Messages(events) /\ Published(authority).kind = "state"
         /\ Published(authority).rev = Top + 1
<1>1. events \in Nat /\ authority \in Peer
  BY Constants DEF Typed
<1>2. NoState \in Messages(events)
  BY <1>1, NoStateFits
<1>3. PICK s : s = player[authority]
  OBVIOUS
<1>4. s.playing \in YesNo /\ s.buffering \in YesNo /\ s.title \in Title /\ s.rate \in Near(events)
  BY <1>1, <1>3 DEF Typed, Players, Publishes, Status
<1>5. PICK n \in Nat : n = Top + 1
  BY RevisionsCounted
<1>6. Published(authority) =
        [NoState EXCEPT !.kind = "state", !.playing = s.playing, !.buffering = s.buffering,
           !.rate = s.rate, !.rev = n, !.title = s.title]
  BY <1>3, <1>5 DEF Published, Top
<1>7. "state" \in Kind
  BY DEF Kind
<1> QED BY <1>2, <1>4, <1>5, <1>6, <1>7 DEF Messages

\* A heartbeat, peer by peer.
LEMMA HeartbeatLeaves ==
  ASSUME Typed, Newest, NEW lost \in BOOLEAN, Heartbeat(lost), Publishes, NEW p \in Peer
  PROVE  /\ last'[p] \in Messages(events) /\ last'[p].kind \in {"none", "state"}
         /\ Low(last'[p].rev) \/ last'[p].rev = Top + 1
         /\ wire'[p] \in Seq(Messages(events)) /\ NoCommandMore(wire[p], wire'[p])
         /\ p = authority => Alike(wire[p], wire'[p])
         /\ \A k \in DOMAIN wire'[p] : Low(wire'[p][k].rev) \/ wire'[p][k].rev = Top + 1
         /\ wiring'[p] \in Wirings(events) /\ Low(wiring'[p].applied)
         /\ SameSender(wiring[p], wiring'[p]) /\ wiring'[p].lru = wiring[p].lru
         /\ OneNudge(wiring'[p])
         /\ count' = Top + 1
<1>1. PICK m \in Messages(events) : m = Published(authority)
  BY PublishedFits
<1>2. m.kind = "state" /\ m.rev = Top + 1
  BY <1>1, PublishedFits
<1>3. /\ last' = [[o \in Peer |-> Ranked(last[o])] EXCEPT ![authority] = m]
      /\ wire' = Sent([o \in Peer |-> [k \in DOMAIN wire[o] |-> Ranked(wire[o][k])]],
                      authority, m, lost)
      /\ wiring' = [o \in Peer |-> [wiring[o] EXCEPT !.applied = Rank(@)]]
      /\ count' = m.rev
  BY <1>1 DEF Heartbeat, Publishes
<1>4. /\ anew = "no" => last[p].rev <= count /\ wiring[p].applied <= count
      /\ anew = "no" => \A k \in DOMAIN wire[p] : wire[p][k].rev <= count
  BY DEF Newest, UpTo
<1>5. /\ last'[p] \in Messages(events) /\ last'[p].kind \in {"none", "state"}
      /\ Low(last'[p].rev) \/ last'[p].rev = Top + 1
  <2>1. PICK l \in Messages(events) : l = last[p] /\ l.kind \in {"none", "state"}
    BY DEF Typed
  <2>2. last'[p] = IF p = authority THEN m ELSE Ranked(l)
    BY <1>3, <2>1
  <2>3. Ranked(l) \in Messages(events) /\ Ranked(l).kind = l.kind /\ Low(Ranked(l).rev)
    BY <1>4, <2>1, RankedMessage
  <2> QED BY <1>2, <2>1, <2>2, <2>3
<1>6. PICK q : q = wire[p]
  OBVIOUS
<1>7. q \in Seq(Messages(events))
  BY <1>6 DEF Typed
<1>8. PICK r : r = [k \in DOMAIN q |-> Ranked(q[k])]
  OBVIOUS
<1>9. /\ r \in Seq(Messages(events)) /\ Alike(q, r)
      /\ \A k \in DOMAIN r : Low(r[k].rev)
  BY <1>4, <1>6, <1>7, <1>8, RankedQueue
<1>10. wire'[p] = IF p = authority \/ lost THEN r ELSE Append(r, m)
  BY <1>3, <1>6, <1>8 DEF Sent
<1>11. /\ wire'[p] \in Seq(Messages(events)) /\ NoCommandMore(wire[p], wire'[p])
       /\ p = authority => Alike(wire[p], wire'[p])
       /\ \A k \in DOMAIN wire'[p] : Low(wire'[p][k].rev) \/ wire'[p][k].rev = Top + 1
  <2>1. NoCommandMore(q, r)
    BY <1>9, AlikeQueues
  <2>3. CASE p = authority \/ lost
    BY <1>6, <1>9, <1>10, <2>1, <2>3
  <2>4. CASE ~ (p = authority \/ lost)
    <3>1. PICK a : a = Append(r, m)
      OBVIOUS
    <3>2. /\ a \in Seq(Messages(events))
          /\ \A k \in DOMAIN a : (k \in DOMAIN r /\ a[k] = r[k]) \/ (k = Len(r) + 1 /\ a[k] = m)
      BY <1>9, <3>1, Queues
    <3>3. ~ IsCommand(m)
      BY <1>2 DEF IsCommand, Commands
    <3>4. NoCommandMore(q, a)
      BY <2>1, <3>2, <3>3 DEF NoCommandMore
    <3>5. \A k \in DOMAIN a : Low(a[k].rev) \/ a[k].rev = Top + 1
      BY <1>2, <1>9, <3>2
    <3> QED BY <1>6, <1>10, <2>4, <3>1, <3>2, <3>4, <3>5
  <2> QED BY <2>3, <2>4
<1>12. /\ wiring'[p] \in Wirings(events) /\ Low(wiring'[p].applied)
       /\ SameSender(wiring[p], wiring'[p]) /\ wiring'[p].lru = wiring[p].lru
       /\ OneNudge(wiring'[p])
  <2>1. PICK v \in Wirings(events) : v = wiring[p] /\ OneNudge(v)
    BY DEF Typed
  <2>2. v.applied \in Nat /\ (anew = "no" => v.applied <= count)
    BY <1>4, <2>1 DEF Wirings
  <2>3. PICK x \in Nat : x = Rank(v.applied) /\ Low(x)
    BY <2>2, RevisionsCounted
  <2>4. wiring'[p] = [v EXCEPT !.applied = x]
    BY <1>3, <2>1, <2>3
  <2>5. wiring'[p] \in Wirings(events) /\ wiring'[p].applied = x
    BY <2>1, <2>3, <2>4 DEF Wirings
  <2> QED BY <2>1, <2>3, <2>4, <2>5 DEF Wirings, SameSender, OneNudge
<1> QED BY <1>2, <1>3, <1>5, <1>11, <1>12

\* A heartbeat counts.
LEMMA HeartbeatCounted ==
  ASSUME Typed, NEW lost \in BOOLEAN, Heartbeat(lost)
  PROVE  Counted
<1>1. (Event \/ UNCHANGED events) /\ anew' = anew
  BY DEF Heartbeat
<1>2. count' \in Nat
  <2>1. CASE Publishes
    <3>1. count' = Published(authority).rev
      BY <2>1 DEF Heartbeat, Publishes
    <3> QED BY <2>1, <3>1, PublishedFits, RevisionsCounted
  <2>2. CASE ~ Publishes
    BY <2>2 DEF Heartbeat, Publishes, Typed
  <2> QED BY <2>1, <2>2
<1> QED BY <1>1, <1>2, Constants DEF Counted, Event, Typed

LEMMA HeartbeatTyped ==
  ASSUME Typed, Newest, NEW lost \in BOOLEAN, Heartbeat(lost)
  PROVE  Typed'
<1>1. Counted
  BY HeartbeatCounted
<1>2. beat' \in 0 .. Beat /\ UNCHANGED <<authority, player>>
  BY Constants DEF Heartbeat
<1>3. PICK e \in Nat : e = events'
  BY <1>1, CountedLater
<1>4. authority \in Peer /\ events \in Nat /\ events <= e
  BY <1>1, <1>3, CountedLater DEF Typed
<1>5. TypedAt(e)
  BY <1>3, <1>4, TypedLater
<1>6. WiringsTyped(wiring, e)
  BY <1>1, <1>3, SameWirings
<1>7. CASE ~ Publishes
  <2>1. UNCHANGED <<last, wire, wiring>>
    BY <1>7 DEF Heartbeat, Publishes
  <2>2. PlayersTyped(player', e + 1) /\ player'[authority].at = 0
        /\ player'[authority].rate \in Near(e) /\ WiringsTyped(wiring', e)
    BY <1>2, <1>5, <1>6, <2>1 DEF PlayersTyped, TypedAt, Typed
  <2> QED BY <1>1, <1>2, <1>3, <2>1, <2>2, StillTyped
<1>8. CASE Publishes
  <2>1. /\ Messages(events) \subseteq Messages(e) /\ Wirings(events) \subseteq Wirings(e)
        /\ \A q : FromBefore(q, events) => FromBefore(q, e)
    BY <1>3, <1>4, TypesGrow
  <2>2. ASSUME NEW p \in Peer
        PROVE  /\ last'[p] \in Messages(e) /\ last'[p].kind \in {"none", "state"}
               /\ wire'[p] \in Seq(Messages(e)) /\ wiring'[p] \in Wirings(e)
               /\ OneNudge(wiring'[p]) /\ SameSender(wiring[p], wiring'[p])
    <3>1. /\ last'[p] \in Messages(events) /\ last'[p].kind \in {"none", "state"}
          /\ wire'[p] \in Seq(Messages(events)) /\ wiring'[p] \in Wirings(events)
          /\ OneNudge(wiring'[p]) /\ SameSender(wiring[p], wiring'[p])
      BY <1>8, HeartbeatLeaves
    <3>2. wire'[p] \in Seq(Messages(e))
      BY <2>1, <3>1, MoreMessages
    <3> QED BY <2>1, <3>1, <3>2
  <2>3. FromBefore(wire'[authority], e)
    <3>1. Alike(wire[authority], wire'[authority])
      BY <1>4, <1>8, HeartbeatLeaves
    <3>2. FromBefore(wire[authority], e)
      BY <2>1 DEF Typed
    <3> QED BY <3>1, <3>2, AlikeQueues
  <2>4. DOMAIN last' = Peer /\ DOMAIN wire' = Peer /\ DOMAIN wiring' = Peer
        /\ last' = [p \in Peer |-> last'[p]] /\ wire' = [p \in Peer |-> wire'[p]]
        /\ wiring' = [p \in Peer |-> wiring'[p]]
    BY <1>8 DEF Heartbeat, Sent, Publishes
  <2>5. /\ last' \in [Peer -> Messages(e)] /\ wire' \in [Peer -> Seq(Messages(e))]
        /\ wiring' \in [Peer -> Wirings(e)]
    BY <2>2, <2>4
  <2>6. \A p \in Peer : wiring'[p].on # "yes" => wiring'[p].life <= e
    BY <1>3, <1>6, <2>2 DEF WiringsTyped, SameSender
  <2>7. player' \in [Peer -> Players(e + 1)] /\ player'[authority'].at = 0
        /\ player'[authority'].rate \in Near(e)
    BY <1>2, <1>5 DEF TypedAt, Typed
  <2> QED BY <1>1, <1>2, <1>3, <1>4, <2>2, <2>3, <2>5, <2>6, <2>7 DEF Typed, Counted, Wired
<1> QED BY <1>7, <1>8

\* One peer's player, wiring or queue replaced.
LEMMA OnePlayer ==
  ASSUME NEW e \in Nat, TypedAt(e), NEW p \in Peer, NEW x \in Players(e + 1),
         p = authority => x.rate \in Near(e),
         NEW pl, pl = [player EXCEPT ![p] = x]
  PROVE  PlayersTyped(pl, e + 1) /\ pl[authority].rate \in Near(e) /\ pl[p] = x
BY DEF TypedAt, PlayersTyped

LEMMA OneWiring ==
  ASSUME NEW e \in Nat, WiringsTyped(wiring, e), NEW p \in Peer, NEW v \in Wirings(e),
         OneNudge(v), v.on # "yes" => v.life <= e,
         NEW w, w = [wiring EXCEPT ![p] = v]
  PROVE  WiringsTyped(w, e)
BY DEF WiringsTyped

LEMMA SameQueues ==
  ASSUME NEW e \in Nat, TypedAt(e)
  PROVE  QueuesTyped(wire, e) /\ FromBefore(wire[authority], e)
BY DEF TypedAt, QueuesTyped

LEMMA DeliverTyped ==
  ASSUME Typed, NEW p \in Peer, Deliver(p)
  PROVE  Typed'
<1>1. Counted
  BY Counts DEF Deliver
<1>2. PICK e \in Nat : e = events'
  BY <1>1, CountedLater
<1>3. TypedAt(e) /\ WiringsTyped(wiring, e) /\ authority \in Peer
  BY <1>1, <1>2, SameWirings
<1>4. PICK q : q = wire[p]
  OBVIOUS
<1>5. q \in Seq(Messages(e)) /\ q # <<>>
  BY <1>2, <1>3, <1>4, OneOfAll DEF Deliver
<1>6. PICK m \in Messages(e) : m = Head(q)
  BY <1>5, Queues
<1>7. PICK s : s = [pl |-> player[p], w |-> wiring[p]]
  OBVIOUS
<1>8. PICK t : t = IF Wired(p) THEN Apply(s, m) ELSE s
  OBVIOUS
<1>9. PICK pl, queues : /\ pl = [player EXCEPT ![p] = t.pl]
                        /\ queues = [wire EXCEPT ![p] = Tail(q)]
  OBVIOUS
<1>10. /\ wiring' = [wiring EXCEPT ![p] = t.w] /\ Play(authority, pl, queues)
       /\ authority' = authority /\ beat' = beat
  BY <1>4, <1>6, <1>7, <1>8, <1>9 DEF Deliver
<1>11. /\ Fit(t, e + 1, e) /\ OneNudge(t.w) /\ SameSender(s.w, t.w)
       /\ p = authority => Fit(t, e, e)
  <2>1. /\ Fit(s, e + 1, e) /\ OneNudge(s.w) /\ (p = authority => Fit(s, e, e))
    <3>1. OneNudge(wiring[p])
      BY <1>2, <1>3, OneOfAll
    <3> QED BY <1>2, <1>3, <1>7, <3>1, OneOfAll
  <2>2. /\ e + 1 \in Int /\ e - 1 \in Int /\ e \in Int /\ e <= e + 1 /\ e - 1 <= e
        /\ (e - 1) + 1 = e
    OBVIOUS
  <2>3. Near(e) \subseteq Near(e + 1) /\ Near(e) \subseteq Near(e)
    BY <2>2, NearSpeeds
  <2>4. ~ Wired(p) => t = s
    BY <1>8
  <2>5. Wired(p) => t = Apply(s, m)
    BY <1>8
  <2>6. m.rate - 1 \in Near(e + 1) /\ m.rate + 1 \in Near(e + 1)
    <3>1. m.rate \in Near(e)
      BY DEF Messages
    <3> QED BY <2>2, <3>1, NearSpeeds
  <2>7. ASSUME p = authority, ~ IsCommand(m)
        PROVE  m.rate - 1 \in Near(e) /\ m.rate + 1 \in Near(e)
    <3>1. m = q[1] /\ 1 \in DOMAIN q
      BY <1>5, <1>6, Queues
    <3>2. FromBefore(q, e)
      BY <1>3, <1>4, <2>7 DEF TypedAt
    <3>3. m.rate \in Near(e - 1)
      BY <2>7, <3>1, <3>2 DEF FromBefore, IsCommand
    <3> QED BY <2>2, <3>3, NearSpeeds
  <2>8. CASE ~ Wired(p)
    BY <2>1, <2>4, <2>8 DEF SameSender
  <2>9. CASE Wired(p)
    <3>1. Fit(t, e + 1, e) /\ OneNudge(t.w) /\ Read(s.w, t.w, m)
      BY <2>1, <2>2, <2>3, <2>5, <2>6, <2>9, Applied
    <3>2. ASSUME p = authority PROVE Fit(t, e, e)
      BY <2>1, <2>2, <2>3, <2>5, <2>7, <2>9, <3>2, Applied
    <3> QED BY <3>1, <3>2 DEF Read
  <2> QED BY <2>8, <2>9
<1>12. PICK x, v : x = t.pl /\ v = t.w
  OBVIOUS
<1>13. x \in Players(e + 1) /\ v \in Wirings(e) /\ (p = authority => x.rate \in Near(e))
  BY <1>11, <1>12 DEF Fit, Players
<1>14. pl = [player EXCEPT ![p] = x] /\ wiring' = [wiring EXCEPT ![p] = v]
  BY <1>9, <1>10, <1>12
<1>15. PlayersTyped(pl, e + 1) /\ pl[authority].rate \in Near(e)
  BY <1>3, <1>13, <1>14, OnePlayer
<1>16. WiringsTyped(wiring', e)
  <2>1. OneNudge(v) /\ (v.on # "yes" => v.life <= e)
    BY <1>3, <1>7, <1>11, <1>12 DEF SameSender, WiringsTyped
  <2>2. PICK w : w = wiring'
    OBVIOUS
  <2> QED BY <1>3, <1>13, <1>14, <2>1, <2>2, OneWiring
<1>17. QueuesTyped(queues, e) /\ FromBefore(queues[authority], e)
  <2>1. Tail(q) \in Seq(Messages(e)) /\ (FromBefore(q, e) => FromBefore(Tail(q), e))
    BY <1>5, Queues, FromBeforeQueues
  <2> QED BY <1>3, <1>4, <1>9, <2>1 DEF TypedAt, QueuesTyped
<1>18. beat' \in 0 .. Beat
  BY <1>10 DEF Typed
<1> QED BY <1>1, <1>2, <1>3, <1>10, <1>15, <1>16, <1>17, <1>18, PlayTyped

\* A command that a user sends, and what it does to the user's own player.
Said(p, kind, at) ==
  [NoState EXCEPT !.kind = kind, !.at = at, !.title = player[p].title,
     !.corr = <<p, wiring[p].seq + 1, wiring[p].life>>]

LEMMA SaidFits ==
  ASSUME NEW e \in Nat, Typed, e = events + 1, NEW p \in Peer,
         NEW kind \in Commands, NEW at \in Positions,
         NEW m, m = Said(p, kind, at)
  PROVE  /\ m \in Messages(e) /\ IsCommand(m) /\ m.rev = 0
         /\ m.corr = <<p, wiring[p].seq + 1, wiring[p].life>> /\ m.corr \in Numbers(e)
<1>1. NoState \in Messages(e) /\ NoState.rev = 0
  BY NoStateFits
<1>2. PICK c : c = <<p, wiring[p].seq + 1, wiring[p].life>>
  OBVIOUS
<1>3. wiring[p].seq + 1 \in 0 .. e /\ wiring[p].life \in 0 .. e + 1
  <2>1. wiring[p].seq \in 0 .. events /\ wiring[p].life \in 1 .. events + 1 /\ events \in Nat
    BY Constants DEF Typed, Wirings
  <2> QED BY <2>1
<1>4. c \in Numbers(e)
  BY <1>2, <1>3 DEF Numbers
<1>5. PICK x : x = player[p].title
  OBVIOUS
<1>6. x \in Title
  BY <1>5 DEF Typed, Players
<1>7. m = [NoState EXCEPT !.kind = kind, !.at = at, !.title = x, !.corr = c]
  BY <1>2, <1>5 DEF Said
<1>8. kind \in Kind
  BY DEF Kind
<1>9. m \in Messages(e) /\ m.kind = kind /\ m.rev = 0 /\ m.corr = c
  BY <1>1, <1>4, <1>6, <1>7, <1>8 DEF Messages
<1> QED BY <1>2, <1>4, <1>9 DEF IsCommand

\* An intent: m is said or not, and the player of p becomes x.
IntentDoes(p, at, lost, m, x) ==
  /\ Event /\ UNCHANGED <<authority, count, beat, anew>>
  /\ \/ x = player[p]
     \/ x = [player[p] EXCEPT !.playing = "yes"]
     \/ x = [player[p] EXCEPT !.playing = "no"]
     \/ x = [player[p] EXCEPT !.at = at]
  /\ \/ /\ CanSend(wiring[p])
        /\ wiring' = [wiring EXCEPT ![p].seq = @ + 1, ![p].lru = @ \cup {m.corr}]
        /\ Play(authority, [player EXCEPT ![p] = x], Sent(wire, p, m, lost))
     \/ /\ wiring' = wiring
        /\ Play(authority, [player EXCEPT ![p] = x], wire)

LEMMA IntentSays ==
  ASSUME NEW p \in Peer, NEW kind \in Commands, NEW at, NEW lost \in BOOLEAN,
         Intent(p, kind, at, lost), NEW m, m = Said(p, kind, at)
  PROVE  \E x : IntentDoes(p, at, lost, m, x)
<1>2. m.corr = <<p, wiring[p].seq + 1, wiring[p].life>>
  BY DEF Said, NoState
<1>3. PICK s : s = [pl |-> player[p], w |-> wiring[p]]
  OBVIOUS
<1>4. PICK t : t = CASE kind = "play" -> SetPlaying(s, "yes")
                     [] kind = "pause" -> SetPlaying(s, "no")
                     [] kind = "seek" -> Seek(s, at)
  OBVIOUS
<1>5. \/ t.pl = player[p]
      \/ t.pl = [player[p] EXCEPT !.playing = "yes"]
      \/ t.pl = [player[p] EXCEPT !.playing = "no"]
      \/ t.pl = [player[p] EXCEPT !.at = at]
  BY <1>3, <1>4 DEF Commands, SetPlaying, Seek
<1>6. IF CanSend(wiring[p])
        THEN /\ wiring' = [wiring EXCEPT ![p].seq = @ + 1, ![p].lru = @ \cup {m.corr}]
             /\ Play(authority, [player EXCEPT ![p] = t.pl], Sent(wire, p, m, lost))
        ELSE /\ wiring' = wiring
             /\ Play(authority, [player EXCEPT ![p] = t.pl], wire)
  BY <1>2, <1>3, <1>4 DEF Intent, Said
<1>7. Event /\ UNCHANGED <<authority, count, beat, anew>>
  BY DEF Intent
<1>8. PICK x : x = t.pl
  OBVIOUS
<1>9. IntentDoes(p, at, lost, m, x)
  BY <1>5, <1>6, <1>7, <1>8 DEF IntentDoes
<1> QED BY <1>9

LEMMA IntentTyped ==
  ASSUME Typed, NEW p \in Peer, NEW kind \in Commands, NEW at \in Positions, NEW lost \in BOOLEAN,
         Intent(p, kind, at, lost)
  PROVE  Typed'
<1>1. Counted /\ events' = events + 1
  BY Counts DEF Intent
<1>2. PICK e \in Nat : e = events'
  BY <1>1, CountedLater
<1>3. TypedAt(e) /\ WiringsTyped(wiring, e) /\ authority \in Peer
  BY <1>1, <1>2, SameWirings
<1>4. PICK m \in Messages(e) : m = Said(p, kind, at)
  BY <1>1, <1>2, SaidFits
<1>5. IsCommand(m) /\ m.corr \in Numbers(e)
  BY <1>1, <1>2, <1>4, SaidFits
<1>6. PICK x : IntentDoes(p, at, lost, m, x)
  BY <1>4, IntentSays
<1>0. UNCHANGED <<authority, beat>>
  BY <1>6 DEF IntentDoes
<1>7. x \in Players(e + 1) /\ (p = authority => x.rate \in Near(e))
  <2>1. player[p] \in Players(e + 1)
    BY <1>2, <1>3, OneOfAll
  <2>2. x \in Players(e + 1) /\ x.rate = player[p].rate
    BY <1>6, <2>1 DEF IntentDoes, Players, YesNo, Status
  <2> QED BY <1>3, <2>2 DEF TypedAt
<1>8. PICK pl : pl = [player EXCEPT ![p] = x]
  OBVIOUS
<1>9. PlayersTyped(pl, e + 1) /\ pl[authority].rate \in Near(e)
  BY <1>3, <1>7, <1>8, OnePlayer
<1>10. beat' \in 0 .. Beat
  BY <1>0 DEF Typed
<1>11. CASE /\ wiring' = wiring
            /\ Play(authority, [player EXCEPT ![p] = x], wire)
  <2>1. QueuesTyped(wire, e) /\ FromBefore(wire[authority], e)
    BY <1>3, SameQueues
  <2>2. WiringsTyped(wiring', e)
    BY <1>3, <1>11 DEF WiringsTyped
  <2> QED BY <1>1, <1>2, <1>3, <1>0, <1>8, <1>9, <1>10, <1>11, <2>1, <2>2, PlayTyped
<1>12. CASE /\ wiring' = [wiring EXCEPT ![p].seq = @ + 1, ![p].lru = @ \cup {m.corr}]
            /\ Play(authority, [player EXCEPT ![p] = x], Sent(wire, p, m, lost))
  <2>1. PICK queues : queues = Sent(wire, p, m, lost)
    OBVIOUS
  <2>2. QueuesTyped(queues, e) /\ FromBefore(queues[authority], e)
    <3>1. ASSUME NEW o \in Peer
          PROVE  /\ queues[o] \in Seq(Messages(e))
                 /\ FromBefore(wire[o], e) => FromBefore(queues[o], e)
      <4>1. wire[o] \in Seq(Messages(e))
        BY <1>3 DEF TypedAt
      <4>2. queues[o] = wire[o] \/ queues[o] = Append(wire[o], m)
        BY <2>1 DEF Sent
      <4>3. PICK q \in Seq(Messages(e)) : q = wire[o]
        BY <4>1
      <4>4. /\ Append(q, m) \in Seq(Messages(e))
            /\ FromBefore(q, e) => FromBefore(Append(q, m), e)
        BY <1>5, Queues, FromBeforeQueues
      <4> QED BY <4>1, <4>2, <4>3, <4>4
    <3>2. queues = [o \in Peer |-> queues[o]]
      BY <2>1 DEF Sent
    <3> QED BY <1>3, <3>1, <3>2 DEF QueuesTyped, TypedAt
  <2>3. PICK v : v = [wiring[p] EXCEPT !.seq = @ + 1, !.lru = @ \cup {m.corr}]
    OBVIOUS
  <2>4. wiring' = [wiring EXCEPT ![p] = v]
    BY <1>3, <1>12, <2>3 DEF WiringsTyped
  <2>5. v \in Wirings(e) /\ OneNudge(v) /\ (v.on # "yes" => v.life <= e)
    <3>1. wiring[p] \in Wirings(e) /\ wiring[p].seq \in 0 .. events /\ events \in Nat
      BY <1>3, Constants DEF WiringsTyped, Typed, Wirings
    <3>2. wiring[p].seq + 1 \in 0 .. e
      BY <1>1, <1>2, <3>1
    <3>3. v \in Wirings(e) /\ v.base = wiring[p].base /\ v.pushed = wiring[p].pushed
          /\ v.on = wiring[p].on /\ v.life = wiring[p].life
      BY <1>5, <2>3, <3>1, <3>2 DEF Wirings
    <3> QED BY <1>3, <3>3 DEF WiringsTyped, OneNudge
  <2>6. WiringsTyped(wiring', e)
    <3>1. PICK w : w = wiring'
      OBVIOUS
    <3> QED BY <1>3, <2>4, <2>5, <3>1, OneWiring
  <2>7. Play(authority, pl, queues)
    BY <1>8, <1>12, <2>1
  <2> QED BY <1>1, <1>2, <1>3, <1>0, <1>9, <1>10, <2>2, <2>6, <2>7, PlayTyped
<1> QED BY <1>6, <1>11, <1>12 DEF IntentDoes

\* Toggle and SeekStep are intents.
LEMMA Intents ==
  ASSUME Typed, NEW p \in Peer, NEW lost \in BOOLEAN, Toggle(p, lost) \/ SeekStep(p, lost)
  PROVE  \E kind \in Commands, at \in Positions : Intent(p, kind, at, lost)
<1>1. player[p].at \in Positions /\ player[p].at \in Int
  <2>1. player[p].at \in Positions
    BY DEF Typed, Players
  <2> QED BY <2>1, PlacesAreNumbers
<1>2. CASE Toggle(p, lost)
  BY <1>1, <1>2 DEF Toggle, Commands
<1>3. CASE SeekStep(p, lost)
  <2>1. PICK d \in Jumps : Intent(p, "seek", Clip(player[p].at + d), lost)
    BY <1>3 DEF SeekStep
  <2>2. player[p].at + d \in Int
    BY <1>1, Constants
  <2>3. Clip(player[p].at + d) \in Positions
    BY <2>2, ClipFits
  <2> QED BY <2>1, <2>3 DEF Commands
<1> QED BY <1>2, <1>3

\* For steps that only play on, with one player replaced.
LEMMA PlayedOn ==
  ASSUME Typed, Counted, NEW e \in Nat, e = events', NEW p \in Peer, NEW x \in Players(e + 1),
         p = authority => x.rate \in Near(e),
         NEW pl, pl = [player EXCEPT ![p] = x], Play(authority, pl, wire),
         UNCHANGED <<authority, wiring, beat>>
  PROVE  Typed'
<1>1. TypedAt(e) /\ WiringsTyped(wiring, e) /\ authority \in Peer
  BY SameWirings
<1>2. PlayersTyped(pl, e + 1) /\ pl[authority].rate \in Near(e)
  BY <1>1, OnePlayer
<1>3. QueuesTyped(wire, e) /\ FromBefore(wire[authority], e)
  BY <1>1, SameQueues
<1>4. beat' \in 0 .. Beat /\ WiringsTyped(wiring', e)
  BY <1>1 DEF Typed, WiringsTyped
<1> QED BY <1>1, <1>2, <1>3, <1>4, PlayTyped

LEMMA StallTyped ==
  ASSUME Typed, NEW p \in Peer, Stall(p)
  PROVE  Typed'
<1>1. Counted
  BY Counts DEF Stall
<1>2. PICK e \in Nat : e = events'
  BY <1>1, CountedLater
<1>3. TypedAt(e)
  BY <1>1, <1>2, SameWirings
<1>4. PICK d \in Jumps : Play(authority, [player EXCEPT ![p] = Moved(@, d)], wire)
  BY DEF Stall
<1>5. PICK x : x = Moved(player[p], d)
  OBVIOUS
<1>6. player[p] \in Players(e + 1) /\ d \in Int
  BY <1>2, <1>3, Constants, OneOfAll
<1>7. x \in Players(e + 1) /\ x.rate = player[p].rate
  BY <1>5, <1>6, MovedPlayer
<1>8. PICK pl : pl = [player EXCEPT ![p] = x]
  OBVIOUS
<1>9. Play(authority, pl, wire)
  <2>1. pl = [player EXCEPT ![p] = Moved(@, d)]
    BY <1>3, <1>5, <1>8 DEF TypedAt
  <2> QED BY <1>4, <2>1
<1>10. p = authority => x.rate \in Near(e)
  BY <1>3, <1>7 DEF TypedAt
<1>11. UNCHANGED <<authority, wiring, beat>>
  BY DEF Stall
<1> QED BY <1>1, <1>2, <1>7, <1>8, <1>9, <1>10, <1>11, PlayedOn

LEMMA ShowTyped ==
  ASSUME Typed, NEW p \in Peer, Show(p)
  PROVE  Typed'
<1>1. Counted
  BY Counts DEF Show
<1>2. PICK e \in Nat : e = events'
  BY <1>1, CountedLater
<1>3. TypedAt(e)
  BY <1>1, <1>2, SameWirings
<1>4. PICK t \in Title :
        Play(authority,
             [player EXCEPT ![p].title = t, ![p].at = -Far, ![p].playing = "loading"], wire)
  BY DEF Show
<1>5. PICK x : x = [player[p] EXCEPT !.title = t, !.at = -Far, !.playing = "loading"]
  OBVIOUS
<1>6. player[p] \in Players(e + 1)
  BY <1>2, <1>3, OneOfAll
<1>7. x \in Players(e + 1) /\ x.rate = player[p].rate
  BY <1>5, <1>6, ClipFits DEF Players, Status
<1>8. PICK pl : pl = [player EXCEPT ![p] = x]
  OBVIOUS
<1>9. Play(authority, pl, wire)
  <2>1. pl = [player EXCEPT ![p].title = t, ![p].at = -Far, ![p].playing = "loading"]
    BY <1>3, <1>5, <1>8 DEF TypedAt
  <2> QED BY <1>4, <2>1
<1>10. p = authority => x.rate \in Near(e)
  BY <1>3, <1>7 DEF TypedAt
<1>11. UNCHANGED <<authority, wiring, beat>>
  BY DEF Show
<1> QED BY <1>1, <1>2, <1>7, <1>8, <1>9, <1>10, <1>11, PlayedOn

LEMMA TransferCounted ==
  ASSUME Typed, NEW p \in Peer, Transfer(p)
  PROVE  Counted /\ events' = events + 1 /\ anew' = "no"
<1>1. events' = events + 1 /\ events' \in 0 .. MaxEvents
  BY Counts DEF Transfer
<1>2. count' \in InUse \cup {count} /\ anew' = "no"
  BY DEF Transfer
<1>3. count' \in Nat
  BY <1>2, UsedAreNumbers DEF Typed
<1> QED BY <1>1, <1>2, <1>3 DEF Counted, YesNo

\* The new authority's speed and what is on its way to it are of before.
LEMMA TransferTyped ==
  ASSUME Typed, NEW p \in Peer, Transfer(p)
  PROVE  Typed'
<1>1. Counted /\ events' = events + 1
  BY TransferCounted
<1>2. PICK e \in Nat : e = events'
  BY <1>1, CountedLater
<1>3. TypedAt(e) /\ WiringsTyped(wiring, e)
  BY <1>1, <1>2, SameWirings
<1>4. player[p].rate \in Near(e)
  BY <1>1, <1>2 DEF Typed, Players
<1>5. PlayersTyped(player, e + 1) /\ QueuesTyped(wire, e)
  BY <1>3 DEF TypedAt, PlayersTyped, QueuesTyped
<1>6. FromBefore(wire[p], e)
  <2>1. wire[p] \in Seq(Messages(events)) /\ e - 1 = events
    BY <1>1, <1>2, Constants DEF Typed
  <2>2. \A k \in DOMAIN wire[p] : wire[p][k].rate \in Near(events)
    BY <2>1, Queues DEF Messages
  <2> QED BY <2>1, <2>2 DEF FromBefore
<1>7. /\ authority' = p /\ Play(p, player, wire) /\ WiringsTyped(wiring', e)
      /\ beat' \in 0 .. Beat
  BY <1>3 DEF Transfer, WiringsTyped, Typed
<1> QED BY <1>1, <1>2, <1>4, <1>5, <1>6, <1>7, PlayTyped

\* For steps that replace a player or a wiring only.
LEMMA PlayerReplaced ==
  ASSUME Typed, Counted, NEW e \in Nat, e = events', NEW p \in Peer, NEW x \in Players(e + 1),
         p = authority => x.rate \in Near(e) /\ x.at = player[p].at,
         player' = [player EXCEPT ![p] = x],
         UNCHANGED <<authority, wiring, last, wire, beat>>
  PROVE  Typed'
<1>1. TypedAt(e) /\ WiringsTyped(wiring, e) /\ authority \in Peer
  BY SameWirings
<1>2. PICK pl : pl = player'
  OBVIOUS
<1>3. PlayersTyped(pl, e + 1) /\ pl[authority].rate \in Near(e)
  <2>1. pl = [player EXCEPT ![p] = x] /\ (p = authority => x.rate \in Near(e))
    BY <1>2
  <2> QED BY <1>1, <2>1, OnePlayer
<1>4. player'[authority].at = 0
  BY <1>1 DEF TypedAt, Typed
<1>5. beat' \in 0 .. Beat /\ WiringsTyped(wiring', e)
  BY <1>1 DEF Typed, WiringsTyped
<1>6. PlayersTyped(player', e + 1) /\ player'[authority].rate \in Near(e)
  BY <1>2, <1>3 DEF PlayersTyped
<1> QED BY <1>4, <1>5, <1>6, StillTyped

LEMMA PlayersOnlyTyped ==
  ASSUME Typed, NEW p \in Peer, Buffer(p) \/ Refill(p) \/ PickRate(p) \/ Load(p)
  PROVE  Typed'
<1>1. Counted
  BY Counts DEF Buffer, Refill, PickRate, Load
<1>2. PICK e \in Nat : e = events'
  BY <1>1, CountedLater
<1>3. TypedAt(e)
  BY <1>1, <1>2, SameWirings
<1>4. PICK x : /\ player' = [player EXCEPT ![p] = x]
               /\ \/ x = [player[p] EXCEPT !.buffering = "yes"]
                  \/ x = [player[p] EXCEPT !.buffering = "no"]
                  \/ x = [player[p] EXCEPT !.playing = "yes"]
                  \/ \E r \in Rates : x = [player[p] EXCEPT !.rate = r]
  <2>1. player = [o \in Peer |-> player[o]]
    BY <1>3 DEF TypedAt
  <2>2. CASE Buffer(p)
    BY <2>1, <2>2 DEF Buffer
  <2>3. CASE Refill(p)
    BY <2>1, <2>3 DEF Refill
  <2>4. CASE PickRate(p)
    <3>1. PICK r \in Rates : player' = [player EXCEPT ![p].rate = r]
      BY <2>4 DEF PickRate
    <3>2. PICK x : x = [player[p] EXCEPT !.rate = r]
      OBVIOUS
    <3>3. player' = [player EXCEPT ![p] = x]
      BY <2>1, <3>1, <3>2
    <3> QED BY <3>2, <3>3
  <2>5. CASE Load(p)
    BY <2>1, <2>5 DEF Load
  <2> QED BY <2>2, <2>3, <2>4, <2>5
<1>5. player[p] \in Players(e + 1)
  BY <1>2, <1>3, OneOfAll
<1>6. Rates \subseteq Near(e) /\ Rates \subseteq Near(e + 1)
  <2>1. e \in Int /\ e + 1 \in Int /\ 0 <= e /\ 0 <= e + 1
    OBVIOUS
  <2> QED BY <2>1, NearSpeeds
<1>7. /\ x \in Players(e + 1) /\ x.at = player[p].at
      /\ x.rate = player[p].rate \/ x.rate \in Near(e)
  BY <1>4, <1>5, <1>6 DEF Players, YesNo, Status
<1>8. p = authority => x.rate \in Near(e)
  BY <1>3, <1>7 DEF TypedAt
<1>9. UNCHANGED <<authority, wiring, last, wire, beat>>
  BY DEF Buffer, Refill, PickRate, Load
<1> QED BY <1>1, <1>2, <1>4, <1>7, <1>8, <1>9, PlayerReplaced

LEMMA WiringReplaced ==
  ASSUME Typed, Counted, NEW e \in Nat, e = events', NEW p \in Peer, NEW v \in Wirings(e),
         OneNudge(v), v.on # "yes" => v.life <= e,
         wiring' = [wiring EXCEPT ![p] = v],
         UNCHANGED <<authority, player, last, wire>>, beat' \in 0 .. Beat
  PROVE  Typed'
<1>1. TypedAt(e) /\ WiringsTyped(wiring, e) /\ authority \in Peer
  BY SameWirings
<1>2. PICK w : w = wiring'
  OBVIOUS
<1>3. WiringsTyped(w, e)
  BY <1>1, <1>2, OneWiring
<1>4. PlayersTyped(player', e + 1) /\ player'[authority].rate \in Near(e)
      /\ player'[authority].at = 0
  BY <1>1 DEF Typed, TypedAt, PlayersTyped
<1>5. WiringsTyped(wiring', e)
  BY <1>2, <1>3 DEF WiringsTyped
<1> QED BY <1>4, <1>5, StillTyped

LEMMA UnwireTyped ==
  ASSUME Typed, NEW p \in Peer, Unwire(p)
  PROVE  Typed'
<1>1. Counted /\ events' = events + 1
  BY Counts DEF Unwire
<1>2. PICK e \in Nat : e = events'
  BY <1>1, CountedLater
<1>3. WiringsTyped(wiring, e) /\ events \in Nat
  BY <1>1, <1>2, SameWirings
<1>4. PICK v : v = [wiring[p] EXCEPT !.on = "no"]
  OBVIOUS
<1>5. wiring[p] \in Wirings(e) /\ OneNudge(wiring[p]) /\ wiring[p].life \in 1 .. events + 1
  BY <1>3 DEF WiringsTyped, Typed, Wirings
<1>6. v \in Wirings(e) /\ v.life = wiring[p].life /\ OneNudge(v)
  BY <1>4, <1>5 DEF Wirings, YesNo, OneNudge
<1>7. v.life <= e
  BY <1>1, <1>2, <1>3, <1>5, <1>6
<1>8. wiring' = [wiring EXCEPT ![p] = v]
  BY <1>3, <1>4 DEF Unwire, WiringsTyped
<1>9. UNCHANGED <<authority, player, last, wire>> /\ beat' \in 0 .. Beat
  BY DEF Unwire, Typed
<1> QED BY <1>1, <1>2, <1>6, <1>7, <1>8, <1>9, WiringReplaced

LEMMA NewWiringFits ==
  ASSUME NEW e \in Nat, NEW n \in 1 .. e + 1
  PROVE  NewWiring(n) \in Wirings(e) /\ OneNudge(NewWiring(n)) /\ NewWiring(n).on = "yes"
<1>1. Normal \in Near(e) /\ Normal \in Near(e + 1)
  <2>1. e \in Int /\ e + 1 \in Int /\ 0 <= e /\ 0 <= e + 1
    OBVIOUS
  <2> QED BY <2>1, NearSpeeds
<1>2. Distance(Normal, Normal) <= 1
  BY Constants DEF Distance
<1>3. {} \in SUBSET Numbers(e) /\ 0 \in 0 .. e /\ 0 \in Nat
  OBVIOUS
<1> QED BY <1>1, <1>2, <1>3 DEF NewWiring, Wirings, OneNudge, YesNo

\* An effect is cleaned up once for each time it runs again: lives are counted.
LEMMA WireTyped ==
  ASSUME Typed, NEW p \in Peer, Wire(p)
  PROVE  Typed'
<1>1. Counted /\ events' = events
  BY Counts DEF Wire
<1>2. PICK e \in Nat : e = events'
  BY <1>1, CountedLater
<1>3. PICK n : n = wiring[p].life + 1
  OBVIOUS
<1>4. n \in 1 .. e + 1
  <2>1. ~ Wired(p) /\ wiring[p].life \in 1 .. events + 1
    BY DEF Wire, Typed, Wirings
  <2>2. wiring[p].life <= events
    BY <2>1 DEF Typed
  <2>3. events \in Nat
    BY Constants DEF Typed
  <2> QED BY <1>1, <1>2, <1>3, <2>1, <2>2, <2>3
<1>5. PICK v : v = NewWiring(n)
  OBVIOUS
<1>6. v \in Wirings(e) /\ OneNudge(v) /\ v.on = "yes"
  BY <1>4, <1>5, NewWiringFits
<1>7. /\ wiring' = [wiring EXCEPT ![p] = v] /\ UNCHANGED <<authority, player, last, wire>>
      /\ beat' \in 0 .. Beat
  BY <1>3, <1>5, Constants DEF Wire, Typed
<1> QED BY <1>1, <1>2, <1>6, <1>7, WiringReplaced

\* The answer to a snapshot-request, queue by queue.
LEMMA SnapshotLeaves ==
  ASSUME Typed, Snapshot, NEW e \in Nat, TypedAt(e), NEW p \in Peer
  PROVE  /\ wire'[p] \in Seq(Messages(e)) /\ NoCommandMore(wire[p], wire'[p])
         /\ p = authority => wire'[p] = wire[p]
         /\ \A k \in DOMAIN wire'[p] :
              wire'[p][k].rev = last[authority].rev
              \/ (k \in DOMAIN wire[p] /\ wire'[p][k].rev = wire[p][k].rev)
<1>1. PICK m : m = [last[authority] EXCEPT !.kind = "snapshot"]
  OBVIOUS
<1>2. last[authority] \in Messages(e) /\ "snapshot" \in Kind
  BY DEF Typed, TypedAt, Kind
<1>3. m \in Messages(e) /\ m.kind = "snapshot" /\ m.rev = last[authority].rev
  BY <1>1, <1>2 DEF Messages
<1>4. ~ IsCommand(m)
  BY <1>3 DEF IsCommand, Commands
<1>5. PICK q \in Seq(Messages(e)) : q = wire[p]
  BY DEF TypedAt
<1>6. wire'[p] = IF p = authority THEN q ELSE Append(q, m)
  BY <1>1, <1>5 DEF Snapshot, Sent
<1>7. CASE p = authority
  BY <1>5, <1>6, <1>7 DEF NoCommandMore
<1>8. CASE p # authority
  <2>1. PICK a : a = Append(q, m)
    OBVIOUS
  <2>2. /\ a \in Seq(Messages(e))
        /\ \A k \in DOMAIN a : (k \in DOMAIN q /\ a[k] = q[k]) \/ (k = Len(q) + 1 /\ a[k] = m)
    BY <1>3, <2>1, Queues
  <2>3. NoCommandMore(q, a)
    BY <1>4, <2>2 DEF NoCommandMore
  <2> QED BY <1>3, <1>5, <1>6, <1>8, <2>1, <2>2, <2>3
<1> QED BY <1>7, <1>8

LEMMA SnapshotTyped ==
  ASSUME Typed, Snapshot
  PROVE  Typed'
<1>1. Counted
  BY Counts DEF Snapshot
<1>2. PICK e \in Nat : e = events'
  BY <1>1, CountedLater
<1>3. TypedAt(e) /\ WiringsTyped(wiring, e) /\ authority \in Peer
  BY <1>1, <1>2, SameWirings
<1>4. wire' = [p \in Peer |-> wire'[p]]
  BY DEF Snapshot, Sent
<1>5. wire' \in [Peer -> Seq(Messages(e))] /\ FromBefore(wire'[authority], e)
  <2>1. \A p \in Peer : wire'[p] \in Seq(Messages(e))
    BY <1>2, <1>3, SnapshotLeaves
  <2>2. wire'[authority] = wire[authority]
    BY <1>2, <1>3, SnapshotLeaves
  <2> QED BY <1>3, <1>4, <2>1, <2>2 DEF TypedAt
<1>6. UNCHANGED <<authority, player, wiring, last, beat>>
  BY DEF Snapshot
<1> QED BY <1>1, <1>2, <1>3, <1>5, <1>6 DEF Typed, Counted, TypedAt, WiringsTyped, Wired

\* For steps that replace queues and last states.
LEMMA QueuesReplaced ==
  ASSUME Typed, Counted, NEW e \in Nat, e = events', UNCHANGED <<authority, player, beat>>,
         WiringsTyped(wiring', e), wire' = [p \in Peer |-> wire'[p]],
         last' = [p \in Peer |-> last'[p]],
         \A p \in Peer : /\ wire'[p] \in Seq(Messages(e))
                        /\ last'[p] \in Messages(e) /\ last'[p].kind \in {"none", "state"},
         FromBefore(wire'[authority], e)
  PROVE  Typed'
<1>1. TypedAt(e) /\ authority \in Peer
  BY SameWirings
<1>2. wire' \in [Peer -> Seq(Messages(e))] /\ last' \in [Peer -> Messages(e)]
  OBVIOUS
<1> QED BY <1>1, <1>2 DEF Typed, Counted, TypedAt, WiringsTyped, Wired

LEMMA RejoinGuestTyped ==
  ASSUME Typed, NEW p \in Peer, RejoinGuest(p)
  PROVE  Typed'
<1>1. Counted
  BY Counts DEF RejoinGuest
<1>2. PICK e \in Nat : e = events'
  BY <1>1, CountedLater
<1>3. TypedAt(e) /\ WiringsTyped(wiring, e)
  BY <1>1, <1>2, SameWirings
<1>4. NoState \in Messages(e) /\ NoState.kind = "none" /\ <<>> \in Seq(Messages(e))
  BY NoStateFits DEF NoState
<1>5. /\ wire' = [o \in Peer |-> IF o = p THEN <<>> ELSE wire[o]]
      /\ last' = [o \in Peer |-> IF o = p THEN NoState ELSE last[o]]
      /\ UNCHANGED <<authority, player, wiring, beat>> /\ p # authority
  BY <1>3 DEF RejoinGuest, TypedAt
<1>6. ASSUME NEW o \in Peer
      PROVE  /\ wire'[o] \in Seq(Messages(e))
             /\ last'[o] \in Messages(e) /\ last'[o].kind \in {"none", "state"}
  BY <1>3, <1>4, <1>5 DEF TypedAt
<1>7. FromBefore(wire'[authority], e) /\ WiringsTyped(wiring', e)
  BY <1>3, <1>5 DEF TypedAt, Typed, WiringsTyped
<1>8. wire' = [o \in Peer |-> wire'[o]] /\ last' = [o \in Peer |-> last'[o]]
  BY <1>5
<1> QED BY <1>1, <1>2, <1>5, <1>6, <1>7, <1>8, QueuesReplaced

\* The authority's join anew, peer by peer: only revisions change, and what the
\* authority itself published or would have read is gone.
LEMMA RejoinLeaves ==
  ASSUME Typed, RejoinAuthority, NEW e \in Nat, TypedAt(e), NEW p \in Peer
  PROVE  /\ wire'[p] \in Seq(Messages(e)) /\ NoCommandMore(wire[p], wire'[p])
         /\ p = authority => wire'[p] = <<>>
         /\ last'[p] \in Messages(e) /\ last'[p].kind \in {"none", "state"}
         /\ wiring'[p] \in Wirings(e) /\ OneNudge(wiring'[p])
         /\ SameSender(wiring[p], wiring'[p]) /\ wiring'[p].lru = wiring[p].lru
<1>1. PICK k \in 0 .. count, n \in 0 .. MaxLag :
        /\ wire' = [o \in Peer |-> IF o = authority THEN <<>>
                      ELSE [j \in DOMAIN wire[o] |->
                              [wire[o][j] EXCEPT !.rev = Later(@, k, n)]]]
        /\ last' = [o \in Peer |-> IF o = authority THEN NoState
                      ELSE [last[o] EXCEPT !.rev = Later(@, k, n)]]
        /\ wiring' = [o \in Peer |-> [wiring[o] EXCEPT !.applied = Later(@, k, n)]]
  BY DEF RejoinAuthority
<1>2. k \in Nat /\ n \in Nat
  BY SyncAssumption DEF Typed
<1>3. \A rev \in Nat : Later(rev, k, n) \in Nat
  BY <1>2 DEF Later
<1>4. ASSUME NEW m \in Messages(e), NEW r, r = [m EXCEPT !.rev = Later(@, k, n)]
      PROVE  r \in Messages(e) /\ r.kind = m.kind /\ r.corr = m.corr
  <2>1. PICK x \in Nat : x = Later(m.rev, k, n)
    BY <1>3 DEF Messages
  <2>2. r = [m EXCEPT !.rev = x]
    BY <1>4, <2>1
  <2> QED BY <2>2 DEF Messages
<1>5. /\ wire'[p] \in Seq(Messages(e)) /\ NoCommandMore(wire[p], wire'[p])
      /\ p = authority => wire'[p] = <<>>
  <2>1. CASE p = authority
    BY <1>1, <2>1 DEF NoCommandMore
  <2>2. CASE p # authority
    <3>1. PICK q \in Seq(Messages(e)) : q = wire[p]
      BY DEF TypedAt
    <3>2. PICK r : r = [j \in DOMAIN q |-> [q[j] EXCEPT !.rev = Later(@, k, n)]]
      OBVIOUS
    <3>3. wire'[p] = r
      BY <1>1, <2>2, <3>1, <3>2
    <3>4. ASSUME NEW j \in DOMAIN q
          PROVE  r[j] \in Messages(e) /\ r[j].kind = q[j].kind /\ r[j].corr = q[j].corr
      <4>1. PICK m \in Messages(e) : m = q[j]
        BY Queues
      <4>2. r[j] = [m EXCEPT !.rev = Later(@, k, n)]
        BY <3>2, <4>1
      <4>3. PICK x : x = r[j]
        OBVIOUS
      <4> QED BY <1>4, <4>1, <4>2, <4>3
    <3>5. PICK l \in Nat : DOMAIN q = 1 .. l
      OBVIOUS
    <3>6. r \in [1 .. l -> Messages(e)]
      BY <3>2, <3>4, <3>5
    <3>7. r \in Seq(Messages(e)) /\ DOMAIN r = DOMAIN q
      BY <3>5, <3>6
    <3>8. NoCommandMore(q, r)
      BY <3>4, <3>7 DEF NoCommandMore, IsCommand
    <3> QED BY <2>2, <3>1, <3>3, <3>7, <3>8
  <2> QED BY <2>1, <2>2
<1>6. last'[p] \in Messages(e) /\ last'[p].kind \in {"none", "state"}
  <2>1. CASE p = authority
    BY <1>1, <2>1, NoStateFits DEF NoState
  <2>2. CASE p # authority
    <3>1. PICK m \in Messages(e) : m = last[p] /\ m.kind \in {"none", "state"}
      BY DEF TypedAt
    <3>2. PICK r : r = last'[p]
      OBVIOUS
    <3>3. r = [m EXCEPT !.rev = Later(@, k, n)]
      BY <1>1, <2>2, <3>1, <3>2
    <3> QED BY <1>4, <3>1, <3>2, <3>3
  <2> QED BY <2>1, <2>2
<1>7. /\ wiring'[p] \in Wirings(e) /\ OneNudge(wiring'[p])
      /\ SameSender(wiring[p], wiring'[p]) /\ wiring'[p].lru = wiring[p].lru
  <2>1. PICK v \in Wirings(e) : v = wiring[p] /\ OneNudge(v)
    BY DEF TypedAt
  <2>2. PICK x \in Nat : x = Later(v.applied, k, n)
    BY <1>3 DEF Wirings
  <2>3. wiring'[p] = [v EXCEPT !.applied = x]
    BY <1>1, <2>1, <2>2
  <2> QED BY <2>1, <2>3 DEF Wirings, SameSender, OneNudge
<1> QED BY <1>5, <1>6, <1>7

LEMMA RejoinCounted ==
  ASSUME Typed, RejoinAuthority
  PROVE  Counted /\ anew' = "yes"
<1>1. events' = events + 1 /\ events' \in 0 .. MaxEvents
  BY Counts DEF RejoinAuthority
<1>2. PICK k \in 0 .. count : count' = k
  BY DEF RejoinAuthority
<1>3. count' \in Nat
  BY <1>2 DEF Typed
<1> QED BY <1>1, <1>3 DEF RejoinAuthority, Counted, YesNo

LEMMA RejoinAuthorityTyped ==
  ASSUME Typed, RejoinAuthority
  PROVE  Typed'
<1>1. Counted
  BY RejoinCounted
<1>2. PICK e \in Nat : e = events'
  BY <1>1, CountedLater
<1>3. TypedAt(e) /\ WiringsTyped(wiring, e) /\ authority \in Peer
  BY <1>1, <1>2, SameWirings
<1>4. /\ UNCHANGED <<authority, player, beat>>
      /\ wire' = [p \in Peer |-> wire'[p]] /\ last' = [p \in Peer |-> last'[p]]
      /\ wiring' = [p \in Peer |-> wiring'[p]]
  BY DEF RejoinAuthority
<1>5. ASSUME NEW p \in Peer
      PROVE  /\ wire'[p] \in Seq(Messages(e)) /\ (p = authority => wire'[p] = <<>>)
             /\ last'[p] \in Messages(e) /\ last'[p].kind \in {"none", "state"}
             /\ wiring'[p] \in Wirings(e) /\ OneNudge(wiring'[p])
             /\ SameSender(wiring[p], wiring'[p])
  BY <1>2, <1>3, RejoinLeaves
<1>6. WiringsTyped(wiring', e)
  BY <1>3, <1>4, <1>5 DEF WiringsTyped, SameSender
<1>7. FromBefore(wire'[authority], e)
  BY <1>3, <1>5 DEF FromBefore
<1> QED BY <1>1, <1>2, <1>4, <1>5, <1>6, <1>7, QueuesReplaced

LEMMA StepTyped ==
  ASSUME Typed, Newest, [Next]_vars
  PROVE  Typed'
<1>1. CASE UNCHANGED vars
  BY <1>1 DEF vars, Typed, Wired
<1>2. CASE Tick
  BY <1>2, TickTyped
<1>3. CASE \E lost \in BOOLEAN : Heartbeat(lost)
  BY <1>3, HeartbeatTyped
<1>4. ASSUME NEW p \in Peer, Deliver(p) PROVE Typed'
  BY <1>4, DeliverTyped
<1>5. ASSUME NEW p \in Peer, NEW lost \in BOOLEAN, Toggle(p, lost) \/ SeekStep(p, lost)
      PROVE  Typed'
  BY <1>5, Intents, IntentTyped
<1>6. ASSUME NEW p \in Peer, Stall(p) PROVE Typed'
  BY <1>6, StallTyped
<1>7. ASSUME NEW p \in Peer, Buffer(p) \/ Refill(p) \/ PickRate(p) \/ Load(p) PROVE Typed'
  BY <1>7, PlayersOnlyTyped
<1>8. ASSUME NEW p \in Peer, Show(p) PROVE Typed'
  BY <1>8, ShowTyped
<1>9. ASSUME NEW p \in Peer, Transfer(p) PROVE Typed'
  BY <1>9, TransferTyped
<1>10. ASSUME NEW p \in Peer, Unwire(p) PROVE Typed'
  BY <1>10, UnwireTyped
<1>11. ASSUME NEW p \in Peer, Wire(p) PROVE Typed'
  BY <1>11, WireTyped
<1>12. CASE Snapshot
  BY <1>12, SnapshotTyped
<1>13. ASSUME NEW p \in Peer, RejoinGuest(p) PROVE Typed'
  BY <1>13, RejoinGuestTyped
<1>14. CASE RejoinAuthority
  BY <1>14, RejoinAuthorityTyped
<1> QED BY <1>1, <1>2, <1>3, <1>4, <1>5, <1>6, <1>7, <1>8, <1>9, <1>10, <1>11, <1>12, <1>13, <1>14
        DEF Next

----------------------------------------------------------------------------
(* The numbers of commands.                                                *)

LEMMA NumberParts ==
  ASSUME NEW e \in Nat, NEW c \in Numbers(e)
  PROVE  c[1] \in Peer /\ c[2] \in Int /\ c[3] \in Int
BY DEF Numbers

\* A wiring only counts up.
Grown(v, w) ==
  /\ {v.seq, v.life, w.seq, w.life} \subseteq Int
  /\ (w.life = v.life /\ v.seq <= w.seq) \/ v.life < w.life

LEMMA GivenStays ==
  ASSUME NEW e \in Nat, NEW c \in Numbers(e), NEW o, NEW v, NEW w, Grown(v, w), Given(c, o, v)
  PROVE  Given(c, o, w)
<1>1. c[2] \in Int /\ c[3] \in Int
  BY NumberParts
<1> QED BY <1>1 DEF Given, Grown

LEMMA NumberedStays ==
  ASSUME NEW e \in Nat, NEW v, NEW w, NEW p \in Peer, NEW q \in Seq(Messages(e)), NEW r,
         Numbered(v, p, q), v[p].lru \subseteq Numbers(e),
         \A o \in Peer : Grown(v[o], w[o]), w[p].lru \subseteq v[p].lru, NoCommandMore(q, r)
  PROVE  Numbered(w, p, r)
<1>1. ASSUME NEW c \in w[p].lru, NEW o \in Peer PROVE Given(c, o, w[o])
  <2>1. c \in v[p].lru /\ c \in Numbers(e) /\ Grown(v[o], w[o])
    BY <1>1
  <2>2. Given(c, o, v[o])
    BY <1>1, <2>1 DEF Numbered
  <2>3. PICK x, y : x = v[o] /\ y = w[o]
    OBVIOUS
  <2> QED BY <2>1, <2>2, <2>3, GivenStays
<1>2. ASSUME NEW k \in DOMAIN r, IsCommand(r[k])
      PROVE  /\ r[k].corr[1] # p
             /\ \A o \in Peer : Given(r[k].corr, o, w[o])
             /\ \A c \in w[p].lru : Before(c, r[k].corr)
             /\ \A j \in DOMAIN r : j < k /\ IsCommand(r[j]) => Before(r[j].corr, r[k].corr)
  <2>1. PICK d : d = r[k].corr
    OBVIOUS
  <2>2. k \in DOMAIN q /\ IsCommand(q[k]) /\ d = q[k].corr
    BY <1>2, <2>1 DEF NoCommandMore
  <2>3. d \in Numbers(e)
    BY <2>2, Queues DEF Messages
  <2>4. /\ d[1] # p /\ \A o \in Peer : Given(d, o, v[o])
        /\ \A c \in v[p].lru : Before(c, d)
        /\ \A j \in DOMAIN q : j < k /\ IsCommand(q[j]) => Before(q[j].corr, d)
    BY <2>2 DEF Numbered
  <2>5. ASSUME NEW o \in Peer PROVE Given(d, o, w[o])
    <3>1. PICK x, y : x = v[o] /\ y = w[o]
      OBVIOUS
    <3> QED BY <2>3, <2>4, <3>1, GivenStays
  <2>6. \A j \in DOMAIN r : j < k /\ IsCommand(r[j]) => Before(r[j].corr, d)
    BY <2>4 DEF NoCommandMore
  <2> QED BY <2>1, <2>4, <2>5, <2>6
<1> QED BY <1>1, <1>2 DEF Numbered

LEMMA NumberedRead ==
  ASSUME NEW e \in Nat, NEW v, NEW w, NEW p \in Peer, NEW q \in Seq(Messages(e)), q # <<>>,
         Numbered(v, p, q), \A o \in Peer : w[o].seq = v[o].seq /\ w[o].life = v[o].life,
         NEW m, m = Head(q),
         w[p].lru = v[p].lru \/ (IsCommand(m) /\ w[p].lru = v[p].lru \cup {m.corr}),
         NEW r, r = Tail(q)
  PROVE  Numbered(w, p, r)
<1>1. m = q[1] /\ 1 \in DOMAIN q /\ \A k \in DOMAIN r : k + 1 \in DOMAIN q /\ r[k] = q[k + 1]
  BY Queues
<1>2. r \in Seq(Messages(e))
  BY Queues
<1>3. \A c, o : Given(c, o, v[o]) /\ o \in Peer => Given(c, o, w[o])
  BY DEF Given
<1>4. \A c \in w[p].lru : \A o \in Peer : Given(c, o, w[o])
  BY <1>1, <1>3 DEF Numbered
<1>5. ASSUME NEW k \in DOMAIN r, IsCommand(r[k])
      PROVE  /\ r[k].corr[1] # p
             /\ \A o \in Peer : Given(r[k].corr, o, w[o])
             /\ \A c \in w[p].lru : Before(c, r[k].corr)
             /\ \A j \in DOMAIN r : j < k /\ IsCommand(r[j]) => Before(r[j].corr, r[k].corr)
  <2>1. k \in Int /\ 1 < k + 1 /\ k + 1 \in DOMAIN q /\ r[k] = q[k + 1]
    BY <1>1, <1>2
  <2>2. /\ r[k].corr[1] # p
        /\ \A o \in Peer : Given(r[k].corr, o, v[o])
        /\ \A c \in v[p].lru : Before(c, r[k].corr)
        /\ \A j \in DOMAIN q : j < k + 1 /\ IsCommand(q[j]) => Before(q[j].corr, r[k].corr)
    BY <1>5, <2>1 DEF Numbered
  <2>3. IsCommand(m) => Before(m.corr, r[k].corr)
    BY <1>1, <2>1, <2>2
  <2>4. ASSUME NEW j \in DOMAIN r, j < k, IsCommand(r[j])
        PROVE  Before(r[j].corr, r[k].corr)
    <3>1. j \in Int /\ j + 1 < k + 1
      BY <1>2, <2>1, <2>4
    <3> QED BY <1>1, <2>2, <2>4, <3>1
  <2> QED BY <1>3, <2>2, <2>3, <2>4
<1> QED BY <1>4, <1>5 DEF Numbered

\* p numbers a command and sends it to q's owner o, or it is lost.
LEMMA NumberedSaid ==
  ASSUME NEW e \in Nat, NEW v, NEW w, NEW p \in Peer, NEW o \in Peer,
         NEW q \in Seq(Messages(e)), Numbered(v, o, q), v[o].lru \subseteq Numbers(e),
         \A x \in Peer : Grown(v[x], w[x]),
         1 <= v[p].life, w[p].seq = v[p].seq + 1, w[p].life = v[p].life,
         NEW m \in Messages(e), m.corr = <<p, v[p].seq + 1, v[p].life>>,
         w[o].lru = IF o = p THEN v[o].lru \cup {m.corr} ELSE v[o].lru,
         NEW r, r = q \/ (o # p /\ r = Append(q, m))
  PROVE  Numbered(w, o, r)
<1>1. PICK c : c = m.corr
  OBVIOUS
<1>2. c \in Numbers(e) /\ c[1] = p /\ c[2] = v[p].seq + 1 /\ c[3] = v[p].life
  BY <1>1 DEF Messages
<1>3. {v[p].seq, v[p].life, w[p].seq, w[p].life} \subseteq Int
  BY DEF Grown
<1>4. \A x \in Peer : Given(c, x, w[x])
  BY <1>2, <1>3 DEF Given
<1>5. ASSUME NEW d \in Numbers(e), NEW x \in Peer, Given(d, x, v[x])
      PROVE  Given(d, x, w[x])
  <2>1. PICK y, z : y = v[x] /\ z = w[x]
    OBVIOUS
  <2> QED BY <1>5, <2>1, GivenStays
<1>6. ASSUME NEW d \in Numbers(e), Given(d, p, v[p]) PROVE Before(d, c)
  <2>1. d[2] \in Int /\ d[3] \in Int
    BY NumberParts
  <2> QED BY <1>2, <1>3, <1>6, <2>1 DEF Given, Before
<1>7. ASSUME NEW d \in w[o].lru
      PROVE  \A x \in Peer : Given(d, x, w[x])
  BY <1>1, <1>4, <1>5, <1>7 DEF Numbered
<1>8. ASSUME NEW k \in DOMAIN q, IsCommand(q[k])
      PROVE  /\ q[k].corr \in Numbers(e) /\ q[k].corr[1] # o
             /\ \A x \in Peer : Given(q[k].corr, x, v[x])
             /\ \A x \in Peer : Given(q[k].corr, x, w[x])
             /\ \A d \in v[o].lru : Before(d, q[k].corr)
             /\ \A j \in DOMAIN q : j < k /\ IsCommand(q[j]) => Before(q[j].corr, q[k].corr)
  <2>1. q[k].corr \in Numbers(e)
    BY Queues DEF Messages
  <2>2. /\ q[k].corr[1] # o
        /\ \A x \in Peer : Given(q[k].corr, x, v[x])
        /\ \A d \in v[o].lru : Before(d, q[k].corr)
        /\ \A j \in DOMAIN q : j < k /\ IsCommand(q[j]) => Before(q[j].corr, q[k].corr)
    BY <1>8 DEF Numbered
  <2> QED BY <1>5, <2>1, <2>2
<1>9. CASE r = q
  <2>1. ASSUME NEW k \in DOMAIN q, IsCommand(q[k]), NEW d \in w[o].lru
        PROVE  Before(d, q[k].corr)
    <3>1. CASE d \in v[o].lru
      BY <1>8, <2>1, <3>1
    <3>2. CASE o = p /\ d = c
      BY <1>2, <1>8, <2>1, <3>2 DEF Before
    <3> QED BY <1>1, <2>1, <3>1, <3>2
  <2> QED BY <1>7, <1>8, <1>9, <2>1 DEF Numbered
<1>10. CASE o # p /\ r = Append(q, m)
  <2>1. \A k \in DOMAIN r : (k \in DOMAIN q /\ r[k] = q[k]) \/ (k = Len(q) + 1 /\ r[k] = m)
    BY <1>10, Queues
  <2>2. \A k \in DOMAIN q : k \in Int /\ k < Len(q) + 1
    OBVIOUS
  <2>3. Len(q) \in Nat
    OBVIOUS
  <2>4. ASSUME NEW k \in DOMAIN r, IsCommand(r[k])
        PROVE  /\ r[k].corr[1] # o
               /\ \A x \in Peer : Given(r[k].corr, x, w[x])
               /\ \A d \in w[o].lru : Before(d, r[k].corr)
               /\ \A j \in DOMAIN r : j < k /\ IsCommand(r[j]) => Before(r[j].corr, r[k].corr)
    <3>1. CASE k \in DOMAIN q /\ r[k] = q[k]
      <4>1. \A j \in DOMAIN r : j < k => j \in DOMAIN q /\ r[j] = q[j]
        BY <2>1, <2>2, <2>3, <3>1
      <4> QED BY <1>8, <1>10, <2>4, <3>1, <4>1
    <3>2. CASE k = Len(q) + 1 /\ r[k] = m
      <4>1. \A j \in DOMAIN r : j < k => j \in DOMAIN q /\ r[j] = q[j]
        BY <2>1, <2>2, <2>3, <3>2
      <4>2. \A d \in v[o].lru : Before(d, c)
        BY <1>6 DEF Numbered
      <4>3. \A j \in DOMAIN q : IsCommand(q[j]) => Before(q[j].corr, c)
        BY <1>6, <1>8
      <4> QED BY <1>1, <1>2, <1>4, <1>10, <3>2, <4>1, <4>2, <4>3
    <3> QED BY <2>1, <3>1, <3>2
  <2> QED BY <1>7, <2>4 DEF Numbered
<1> QED BY <1>9, <1>10

----------------------------------------------------------------------------
(* Ranks and numbers, action by action.                                    *)

LEMMA StillNewest ==
  ASSUME Typed, Newest, UNCHANGED <<count, anew>>,
         \A p \in Peer : last'[p].rev \in {0, last[p].rev},
         \A p \in Peer : \/ wiring'[p].applied \in {0, wiring[p].applied}
                         \/ \E k \in DOMAIN wire[p] : wiring'[p].applied = wire[p][k].rev,
         \A p \in Peer : \A k \in DOMAIN wire'[p] :
           \/ wire'[p][k].rev = 0
           \/ \E o \in Peer : wire'[p][k].rev = last[o].rev
           \/ \E j \in DOMAIN wire[p] : wire'[p][k].rev = wire[p][j].rev
  PROVE  Newest'
<1>1. SUFFICES ASSUME anew = "no" PROVE UpTo(wiring', last', wire', count)
  BY DEF Newest
<1>2. UpTo(wiring, last, wire, count) /\ 0 <= count
  BY <1>1 DEF Newest, Typed
<1>3. ASSUME NEW p \in Peer
      PROVE  /\ wiring'[p].applied <= count /\ last'[p].rev <= count
             /\ \A k \in DOMAIN wire'[p] : wire'[p][k].rev <= count
  BY <1>2 DEF UpTo
<1> QED BY <1>3 DEF UpTo

\* What the lemmas on numbers ask of the wirings.
LEMMA SendersTyped ==
  ASSUME Typed, Counted, NEW e \in Nat, e = events', NEW p \in Peer
  PROVE  /\ wire[p] \in Seq(Messages(e)) /\ wiring[p].lru \subseteq Numbers(e)
         /\ {wiring[p].seq, wiring[p].life, wiring[p].applied} \subseteq Int /\ 1 <= wiring[p].life
<1>1. TypedAt(e)
  BY SameWirings
<1>2. wire[p] \in Seq(Messages(e)) /\ wiring[p] \in Wirings(e)
  BY <1>1 DEF TypedAt
<1> QED BY <1>2 DEF Wirings

\* A step that sends no command, reads nothing, and leaves the states as new as
\* they are.
Quiet ==
  /\ UNCHANGED <<count, anew>>
  /\ \A p \in Peer :
       /\ wiring'[p].seq = wiring[p].seq /\ wiring'[p].life = wiring[p].life
       /\ wiring'[p].lru = wiring[p].lru /\ wiring'[p].applied = wiring[p].applied
       /\ last'[p].rev \in {0, last[p].rev}
       /\ NoCommandMore(wire[p], wire'[p])
       /\ \A k \in DOMAIN wire'[p] :
            wire'[p][k].rev = last[authority].rev
            \/ (k \in DOMAIN wire[p] /\ wire'[p][k].rev = wire[p][k].rev)

LEMMA NumbersKept ==
  ASSUME Typed, Counted, AllNumbered,
         \A p \in Peer : /\ wiring'[p].seq = wiring[p].seq /\ wiring'[p].life = wiring[p].life
                         /\ wiring'[p].lru = wiring[p].lru
                         /\ NoCommandMore(wire[p], wire'[p])
  PROVE  AllNumbered'
<1>1. PICK e \in Nat : e = events'
  BY CountedLater
<1>2. PICK v, w : v = wiring /\ w = wiring'
  OBVIOUS
<1>3. \A o \in Peer : Grown(v[o], w[o])
  BY <1>1, <1>2, SendersTyped DEF Grown
<1>4. ASSUME NEW p \in Peer PROVE Numbered(wiring', p, wire'[p])
  <2>1. PICK q, r : q = wire[p] /\ r = wire'[p]
    OBVIOUS
  <2>2. q \in Seq(Messages(e)) /\ v[p].lru \subseteq Numbers(e)
    BY <1>1, <1>2, <2>1, SendersTyped
  <2>3. Numbered(v, p, q)
    BY <1>2, <2>1 DEF AllNumbered
  <2>4. w[p].lru \subseteq v[p].lru /\ NoCommandMore(q, r)
    BY <1>2, <2>1
  <2>5. Numbered(w, p, r)
    BY <1>3, <2>2, <2>3, <2>4, NumberedStays
  <2> QED BY <1>2, <2>1, <2>5
<1> QED BY <1>4 DEF AllNumbered

LEMMA QuietKeeps ==
  ASSUME Typed, Newest, AllNumbered, Counted, Quiet
  PROVE  Newest' /\ AllNumbered'
<1>1. AllNumbered'
  BY NumbersKept DEF Quiet
<1>2. Newest'
  <2>1. authority \in Peer
    BY DEF Typed
  <2>2. UNCHANGED <<count, anew>> /\ \A p \in Peer : last'[p].rev \in {0, last[p].rev}
    BY DEF Quiet
  <2>3. \A p \in Peer : wiring'[p].applied \in {0, wiring[p].applied}
    BY DEF Quiet
  <2>4. ASSUME NEW p \in Peer, NEW k \in DOMAIN wire'[p]
        PROVE  \/ \E o \in Peer : wire'[p][k].rev = last[o].rev
               \/ \E j \in DOMAIN wire[p] : wire'[p][k].rev = wire[p][j].rev
    BY <2>1 DEF Quiet
  <2> QED BY <2>2, <2>3, <2>4, StillNewest
<1> QED BY <1>1, <1>2

\* Playing on changes positions only.
LEMMA PlayKeeps ==
  ASSUME Typed, Counted, NEW e \in Nat, e = events', NEW a, NEW pl, NEW queues,
         Play(a, pl, queues), NEW p \in Peer, queues[p] \in Seq(Messages(e))
  PROVE  /\ last'[p].rev = last[p].rev /\ NoCommandMore(queues[p], wire'[p])
         /\ DOMAIN wire'[p] = DOMAIN queues[p]
         /\ \A k \in DOMAIN queues[p] : wire'[p][k].rev = queues[p][k].rev
<1>1. PICK d : d = -pl[a].at
  OBVIOUS
<1>2. /\ wire'[p] = [k \in DOMAIN queues[p] |-> Moved(queues[p][k], d)]
      /\ last'[p] = Older(last[p], d)
  BY <1>1 DEF Play
<1>3. TypedAt(e)
  BY SameWirings
<1>4. \A m \in Messages(e) : /\ Moved(m, d).kind = m.kind /\ Moved(m, d).rev = m.rev
                            /\ Moved(m, d).corr = m.corr
  BY DEF Messages, Moved
<1>5. last'[p].rev = last[p].rev
  BY <1>2, <1>3, <1>4 DEF TypedAt, Older
<1>6. ASSUME NEW k \in DOMAIN queues[p]
      PROVE  /\ wire'[p][k].rev = queues[p][k].rev /\ wire'[p][k].kind = queues[p][k].kind
             /\ wire'[p][k].corr = queues[p][k].corr
  <2>1. queues[p][k] \in Messages(e)
    BY Queues
  <2> QED BY <1>2, <1>4, <2>1
<1>7. DOMAIN wire'[p] = DOMAIN queues[p]
  BY <1>2
<1> QED BY <1>5, <1>6, <1>7 DEF NoCommandMore, IsCommand

LEMMA TickKeeps ==
  ASSUME Typed, Newest, AllNumbered, Tick
  PROVE  Newest' /\ AllNumbered'
<1>1. Counted
  BY Counts DEF Tick
<1>2. PICK e \in Nat : e = events'
  BY <1>1, CountedLater
<1>3. TypedAt(e)
  BY <1>1, <1>2, SameWirings
<1>4. \A d : \A m \in Messages(e) :
        /\ Moved(m, d).kind = m.kind /\ Moved(m, d).rev = m.rev /\ Moved(m, d).corr = m.corr
        /\ Older(m, d).rev = m.rev
  BY DEF Messages, Moved, Older
<1>5. PICK d : d = Speed(player[authority])
  OBVIOUS
<1>6. /\ wire' = [p \in Peer |-> [k \in DOMAIN wire[p] |->
                     Moved(wire[p][k], Speed(wire[p][k]) - d)]]
      /\ last' = [p \in Peer |-> Older(last[p], Speed(last[p]) - d)]
      /\ wiring' = [p \in Peer |-> [wiring[p] EXCEPT !.quiet = "no"]]
  BY <1>5 DEF Tick
<1>7. ASSUME NEW p \in Peer
      PROVE  /\ wiring'[p].seq = wiring[p].seq /\ wiring'[p].life = wiring[p].life
             /\ wiring'[p].lru = wiring[p].lru /\ wiring'[p].applied = wiring[p].applied
             /\ last'[p].rev = last[p].rev
             /\ NoCommandMore(wire[p], wire'[p]) /\ DOMAIN wire'[p] = DOMAIN wire[p]
             /\ \A k \in DOMAIN wire[p] : wire'[p][k].rev = wire[p][k].rev
  <2>1. wiring[p] \in Wirings(e) /\ last[p] \in Messages(e) /\ wire[p] \in Seq(Messages(e))
    BY <1>3 DEF TypedAt
  <2>2. /\ wiring'[p].seq = wiring[p].seq /\ wiring'[p].life = wiring[p].life
        /\ wiring'[p].lru = wiring[p].lru /\ wiring'[p].applied = wiring[p].applied
    BY <1>6, <2>1 DEF Wirings
  <2>3. last'[p].rev = last[p].rev
    BY <1>4, <1>6, <2>1
  <2>4. DOMAIN wire'[p] = DOMAIN wire[p]
    BY <1>6
  <2>5. ASSUME NEW k \in DOMAIN wire[p]
        PROVE  /\ wire'[p][k].rev = wire[p][k].rev /\ wire'[p][k].kind = wire[p][k].kind
               /\ wire'[p][k].corr = wire[p][k].corr
    <3>1. wire[p][k] \in Messages(e)
      BY <2>1, Queues
    <3> QED BY <1>4, <1>6, <3>1
  <2> QED BY <2>2, <2>3, <2>4, <2>5 DEF NoCommandMore, IsCommand
<1>8. Quiet
  BY <1>7 DEF Quiet, Tick
<1> QED BY <1>1, <1>8, QuietKeeps

\* Stall and Show, and an intent that is not sent.
LEMMA PlayedOnKeeps ==
  ASSUME Typed, Newest, AllNumbered, Counted, UNCHANGED <<wiring, count, anew>>,
         NEW a, NEW pl, Play(a, pl, wire)
  PROVE  Newest' /\ AllNumbered'
<1>1. PICK e \in Nat : e = events'
  BY CountedLater
<1>2. ASSUME NEW p \in Peer
      PROVE  /\ last'[p].rev = last[p].rev /\ NoCommandMore(wire[p], wire'[p])
             /\ DOMAIN wire'[p] = DOMAIN wire[p]
             /\ \A k \in DOMAIN wire[p] : wire'[p][k].rev = wire[p][k].rev
  <2>1. wire[p] \in Seq(Messages(e))
    BY <1>1, SendersTyped
  <2>2. PICK queues : queues = wire
    OBVIOUS
  <2> QED BY <1>1, <2>1, PlayKeeps
<1>3. Quiet
  BY <1>2 DEF Quiet
<1> QED BY <1>3, QuietKeeps

\* Steps that leave queues and states alone.
LEMMA StillKeeps ==
  ASSUME Typed, Newest, AllNumbered, Counted, UNCHANGED <<last, wire, count, anew>>,
         \A p \in Peer : /\ wiring'[p].seq = wiring[p].seq /\ wiring'[p].life = wiring[p].life
                         /\ wiring'[p].lru = wiring[p].lru
                         /\ wiring'[p].applied = wiring[p].applied
  PROVE  Newest' /\ AllNumbered'
<1>1. Quiet
  BY DEF Quiet, NoCommandMore
<1> QED BY <1>1, QuietKeeps

LEMMA SnapshotKeeps ==
  ASSUME Typed, Newest, AllNumbered, Snapshot
  PROVE  Newest' /\ AllNumbered'
<1>1. Counted
  BY Counts DEF Snapshot
<1>2. PICK e \in Nat : e = events'
  BY <1>1, CountedLater
<1>3. TypedAt(e)
  BY <1>1, <1>2, SameWirings
<1>4. \A p \in Peer :
        /\ NoCommandMore(wire[p], wire'[p])
        /\ \A k \in DOMAIN wire'[p] :
             wire'[p][k].rev = last[authority].rev
             \/ (k \in DOMAIN wire[p] /\ wire'[p][k].rev = wire[p][k].rev)
  BY <1>3, SnapshotLeaves
<1>5. UNCHANGED <<wiring, last, count, anew>>
  BY DEF Snapshot
<1>6. Quiet
  BY <1>4, <1>5 DEF Quiet
<1> QED BY <1>1, <1>6, QuietKeeps

\* Another account's count begins at what was given before.
LEMMA TransferKeeps ==
  ASSUME Typed, Newest, AllNumbered, NEW p \in Peer, Transfer(p)
  PROVE  Newest' /\ AllNumbered'
<1>1. Counted /\ wiring' = wiring /\ Play(p, player, wire)
  BY TransferCounted DEF Transfer
<1>2. PICK e \in Nat : e = events'
  BY <1>1, CountedLater
<1>3. ASSUME NEW o \in Peer
      PROVE  /\ last'[o].rev = last[o].rev /\ NoCommandMore(wire[o], wire'[o])
             /\ DOMAIN wire'[o] = DOMAIN wire[o]
             /\ \A k \in DOMAIN wire[o] : wire'[o][k].rev = wire[o][k].rev
  <2>1. wire[o] \in Seq(Messages(e))
    BY <1>1, <1>2, SendersTyped
  <2>2. PICK pl, queues : pl = player /\ queues = wire
    OBVIOUS
  <2> QED BY <1>1, <1>2, <2>1, <2>2, PlayKeeps
<1>4. AllNumbered'
  BY <1>1, <1>3, NumbersKept
<1>5. \A r \in InUse \cup {0} : r <= count'
  <2>1. \A r \in InUse : r <= count'
    BY DEF Transfer
  <2>2. count' \in Nat
    BY <1>1 DEF Counted
  <2> QED BY <2>1, <2>2
<1>6. ASSUME NEW o \in Peer
      PROVE  /\ wiring'[o].applied <= count' /\ last'[o].rev <= count'
             /\ \A k \in DOMAIN wire'[o] : wire'[o][k].rev <= count'
  <2>1. wiring[o].applied \in InUse \cup {0} /\ last[o].rev \in InUse \cup {0}
    BY DEF InUse
  <2>2. \A k \in DOMAIN wire[o] : wire[o][k].rev \in InUse \cup {0}
    BY DEF InUse
  <2> QED BY <1>1, <1>3, <1>5, <2>1, <2>2
<1> QED BY <1>4, <1>6 DEF Newest, UpTo

\* A guest's transport knows no state any more.
LEMMA RejoinGuestKeeps ==
  ASSUME Typed, Newest, AllNumbered, NEW p \in Peer, RejoinGuest(p)
  PROVE  Newest' /\ AllNumbered'
<1>1. Counted
  BY Counts DEF RejoinGuest
<1>2. /\ wire' = [wire EXCEPT ![p] = <<>>] /\ last' = [last EXCEPT ![p] = NoState]
      /\ UNCHANGED <<wiring, count, anew>>
  BY DEF RejoinGuest
<1>3. ASSUME NEW o \in Peer
      PROVE  /\ last'[o].rev \in {0, last[o].rev} /\ NoCommandMore(wire[o], wire'[o])
             /\ \A k \in DOMAIN wire'[o] : k \in DOMAIN wire[o] /\ wire'[o][k].rev = wire[o][k].rev
  <2>1. wire'[o] = <<>> \/ wire'[o] = wire[o]
    BY <1>2 DEF Typed
  <2>2. last'[o] = NoState \/ last'[o] = last[o]
    BY <1>2 DEF Typed
  <2>3. DOMAIN <<>> = {}
    OBVIOUS
  <2>4. NoState.rev = 0
    BY DEF NoState
  <2> QED BY <2>1, <2>2, <2>3, <2>4 DEF NoCommandMore
<1>4. Quiet
  BY <1>2, <1>3 DEF Quiet
<1> QED BY <1>1, <1>4, QuietKeeps

LEMMA RejoinAuthorityKeeps ==
  ASSUME Typed, Newest, AllNumbered, RejoinAuthority
  PROVE  Newest' /\ AllNumbered'
<1>1. Counted /\ anew' = "yes"
  BY RejoinCounted
<1>2. PICK e \in Nat : e = events'
  BY <1>1, CountedLater
<1>3. TypedAt(e)
  BY <1>1, <1>2, SameWirings
<1>4. \A p \in Peer : /\ wiring'[p].seq = wiring[p].seq /\ wiring'[p].life = wiring[p].life
                      /\ wiring'[p].lru = wiring[p].lru
                      /\ NoCommandMore(wire[p], wire'[p])
  BY <1>3, RejoinLeaves DEF SameSender
<1> QED BY <1>1, <1>4, NumbersKept DEF Newest

\* The authority has the newest state then.
LEMMA HeartbeatKeeps ==
  ASSUME Typed, Newest, AllNumbered, NEW lost \in BOOLEAN, Heartbeat(lost)
  PROVE  Newest' /\ AllNumbered'
<1>1. Counted /\ anew' = anew
  BY HeartbeatCounted DEF Heartbeat
<1>2. CASE ~ Publishes
  <2>1. UNCHANGED <<last, wire, wiring, count, anew>>
    BY <1>2 DEF Heartbeat, Publishes
  <2> QED BY <1>1, <2>1, StillKeeps
<1>3. CASE Publishes
  <2>1. ASSUME NEW p \in Peer
        PROVE  /\ wiring'[p].seq = wiring[p].seq /\ wiring'[p].life = wiring[p].life
               /\ wiring'[p].lru = wiring[p].lru /\ NoCommandMore(wire[p], wire'[p])
    BY <1>3, HeartbeatLeaves DEF SameSender
  <2>2. AllNumbered'
    BY <1>1, <2>1, NumbersKept
  <2>3. ASSUME anew = "no", NEW p \in Peer
        PROVE  /\ wiring'[p].applied <= count' /\ last'[p].rev <= count'
               /\ \A k \in DOMAIN wire'[p] : wire'[p][k].rev <= count'
    <3>1. PICK n \in Nat : n = Top
      BY RevisionsCounted
    <3>2. /\ count' = n + 1 /\ wiring'[p] \in Wirings(events) /\ wiring'[p].applied <= n
          /\ last'[p] \in Messages(events) /\ (last'[p].rev <= n \/ last'[p].rev = n + 1)
          /\ wire'[p] \in Seq(Messages(events))
          /\ \A k \in DOMAIN wire'[p] : wire'[p][k].rev <= n \/ wire'[p][k].rev = n + 1
      BY <1>3, <2>3, <3>1, HeartbeatLeaves DEF Low
    <3>3. wiring'[p].applied \in Nat /\ last'[p].rev \in Nat
      BY <3>2 DEF Wirings, Messages
    <3>4. \A k \in DOMAIN wire'[p] : wire'[p][k].rev \in Nat
      BY <3>2, Queues DEF Messages
    <3> QED BY <3>2, <3>3, <3>4
  <2>4. Newest'
    BY <1>1, <2>3 DEF Newest, UpTo
  <2> QED BY <2>2, <2>4
<1> QED BY <1>2, <1>3

\* What reading the next message leaves of the reader's wiring.
LEMMA DeliverReads ==
  ASSUME Typed, NEW p \in Peer, Deliver(p), NEW e \in Nat, TypedAt(e)
  PROVE  /\ Read(wiring[p], wiring'[p], Head(wire[p]))
         /\ \A o \in Peer : o # p => wiring'[o] = wiring[o]
<1>1. PICK m, s : m = Head(wire[p]) /\ s = [pl |-> player[p], w |-> wiring[p]]
  OBVIOUS
<1>2. PICK t : t = IF Wired(p) THEN Apply(s, m) ELSE s
  OBVIOUS
<1>3. wiring' = [wiring EXCEPT ![p] = t.w]
  BY <1>1, <1>2 DEF Deliver
<1>4. wire[p] # <<>> /\ wire[p] \in Seq(Messages(e)) /\ OneNudge(wiring[p])
      /\ Fit(s, e + 1, e)
  BY <1>1, OneOfAll DEF Deliver
<1>5. m \in Messages(e)
  BY <1>1, <1>4, Queues
<1>6. CASE ~ Wired(p)
  <2>1. t.w = wiring[p]
    BY <1>1, <1>2, <1>6
  <2> QED BY <1>3, <2>1 DEF TypedAt, Read, SameSender
<1>7. CASE Wired(p)
  <2>1. e \in Int /\ e + 1 \in Int /\ e <= e + 1
    OBVIOUS
  <2>2. Near(e) \subseteq Near(e + 1) /\ m.rate - 1 \in Near(e + 1) /\ m.rate + 1 \in Near(e + 1)
    <3>1. m.rate \in Near(e)
      BY <1>5 DEF Messages
    <3> QED BY <2>1, <3>1, NearSpeeds
  <2>3. t = Apply(s, m) /\ OneNudge(s.w)
    BY <1>1, <1>2, <1>4, <1>7
  <2>4. Read(s.w, t.w, m)
    BY <1>4, <1>5, <2>1, <2>2, <2>3, Applied
  <2> QED BY <1>1, <1>3, <2>4 DEF TypedAt
<1> QED BY <1>6, <1>7

LEMMA DeliverKeeps ==
  ASSUME Typed, Newest, AllNumbered, NEW p \in Peer, Deliver(p)
  PROVE  Newest' /\ AllNumbered'
<1>1. Counted
  BY Counts DEF Deliver
<1>2. PICK e \in Nat : e = events'
  BY <1>1, CountedLater
<1>3. TypedAt(e)
  BY <1>1, <1>2, SameWirings
<1>4. PICK q : q = wire[p]
  OBVIOUS
<1>5. q \in Seq(Messages(e)) /\ q # <<>>
  BY <1>2, <1>3, <1>4, OneOfAll DEF Deliver
<1>6. PICK m : m = Head(q)
  OBVIOUS
<1>7. PICK r : r = Tail(q)
  OBVIOUS
<1>8. /\ r \in Seq(Messages(e)) /\ m = q[1] /\ 1 \in DOMAIN q
      /\ \A k \in DOMAIN r : k + 1 \in DOMAIN q /\ r[k] = q[k + 1]
  BY <1>5, <1>6, <1>7, Queues
<1>9. Read(wiring[p], wiring'[p], m) /\ \A o \in Peer : o # p => wiring'[o] = wiring[o]
  BY <1>2, <1>3, <1>4, <1>6, DeliverReads
<1>10. PICK pl, queues : Play(authority, pl, queues) /\ queues = [wire EXCEPT ![p] = r]
  BY <1>4, <1>7 DEF Deliver
<1>11. \A o \in Peer : queues[o] = IF o = p THEN r ELSE wire[o]
  BY <1>3, <1>10 DEF TypedAt
<1>15. \A o \in Peer : queues[o] \in Seq(Messages(e))
  BY <1>3, <1>8, <1>11 DEF TypedAt
<1>12. ASSUME NEW o \in Peer
       PROVE  /\ last'[o].rev = last[o].rev /\ NoCommandMore(queues[o], wire'[o])
              /\ DOMAIN wire'[o] = DOMAIN queues[o]
              /\ \A k \in DOMAIN queues[o] : wire'[o][k].rev = queues[o][k].rev
  <2>1. queues[o] \in Seq(Messages(e))
    BY <1>15
  <2>2. Play(authority, pl, queues)
    BY <1>10
  <2> QED BY ONLY Typed, <1>1, <1>2, e \in Nat, o \in Peer, <2>1, <2>2, PlayKeeps
<1>13. Newest'
  <2>1. \A o \in Peer : \/ wiring'[o].applied \in {0, wiring[o].applied}
                        \/ \E k \in DOMAIN wire[o] : wiring'[o].applied = wire[o][k].rev
    <3>1. wiring'[p].applied \in {wiring[p].applied, m.rev}
      BY <1>9 DEF Read
    <3> QED BY <1>4, <1>8, <1>9, <3>1
  <2>2. ASSUME NEW o \in Peer, NEW k \in DOMAIN wire'[o]
        PROVE  \E j \in DOMAIN wire[o] : wire'[o][k].rev = wire[o][j].rev
    <3>1. k \in DOMAIN queues[o] /\ wire'[o][k].rev = queues[o][k].rev
      BY <1>12, <2>2
    <3>2. CASE o = p
      BY <1>4, <1>8, <1>11, <3>1, <3>2
    <3>3. CASE o # p
      BY <1>11, <3>1, <3>3
    <3> QED BY <3>2, <3>3
  <2>3. UNCHANGED <<count, anew>>
    BY DEF Deliver
  <2> QED BY <1>12, <2>1, <2>2, <2>3, StillNewest
<1>14. AllNumbered'
  <2>1. PICK v, w : v = wiring /\ w = wiring'
    OBVIOUS
  <2>2. \A o \in Peer : w[o].seq = v[o].seq /\ w[o].life = v[o].life
    BY <1>9, <2>1 DEF Read, SameSender
  <2>3. ASSUME NEW o \in Peer
        PROVE  Grown(v[o], w[o]) /\ Grown(w[o], w[o]) /\ v[o].lru \subseteq Numbers(e)
    <3>1. {v[o].seq, v[o].life} \subseteq Int /\ v[o].lru \subseteq Numbers(e)
      BY <1>1, <1>2, <2>1, SendersTyped
    <3> QED BY <2>2, <3>1 DEF Grown
  <2>4. w[p].lru = v[p].lru \/ (IsCommand(m) /\ w[p].lru = v[p].lru \cup {m.corr})
    BY <1>9, <2>1 DEF Read
  <2>5. Numbered(v, p, q)
    BY <1>4, <2>1 DEF AllNumbered
  <2>6. Numbered(w, p, r)
    BY <1>5, <1>6, <1>7, <2>2, <2>4, <2>5, NumberedRead
  <2>7. w[p].lru \subseteq Numbers(e)
    <3>1. m.corr \in Numbers(e)
      BY <1>5, <1>8, Queues DEF Messages
    <3> QED BY <2>3, <2>4, <3>1
  <2>8. ASSUME NEW o \in Peer PROVE Numbered(wiring', o, wire'[o])
    <3>1. PICK x, y : x = queues[o] /\ y = wire'[o]
      OBVIOUS
    <3>2. x \in Seq(Messages(e)) /\ NoCommandMore(x, y)
      BY <1>12, <1>15, <3>1
    <3>3. CASE o = p
      <4>1. Numbered(w, p, x) /\ w[p].lru \subseteq w[p].lru
        BY <1>11, <2>6, <3>1, <3>3
      <4>2. Numbered(w, p, y)
        BY <2>3, <2>7, <3>2, <4>1, NumberedStays
      <4> QED BY <2>1, <3>1, <3>3, <4>2
    <3>4. CASE o # p
      <4>1. Numbered(v, o, x) /\ w[o].lru \subseteq v[o].lru
        BY <1>9, <1>11, <2>1, <3>1, <3>4 DEF AllNumbered
      <4>2. Numbered(w, o, y)
        BY <2>3, <3>2, <4>1, NumberedStays
      <4> QED BY <2>1, <3>1, <4>2
    <3> QED BY <3>3, <3>4
  <2> QED BY <2>8 DEF AllNumbered
<1> QED BY <1>13, <1>14

LEMMA IntentKeeps ==
  ASSUME Typed, Newest, AllNumbered, NEW p \in Peer, NEW kind \in Commands,
         NEW at \in Positions, NEW lost \in BOOLEAN, Intent(p, kind, at, lost)
  PROVE  Newest' /\ AllNumbered'
<1>1. Counted /\ events' = events + 1
  BY Counts DEF Intent
<1>2. PICK e \in Nat : e = events'
  BY <1>1, CountedLater
<1>3. TypedAt(e)
  BY <1>1, <1>2, SameWirings
<1>4. PICK m \in Messages(e) : m = Said(p, kind, at)
  BY <1>1, <1>2, SaidFits
<1>5. m.rev = 0 /\ m.corr = <<p, wiring[p].seq + 1, wiring[p].life>>
  BY <1>1, <1>2, <1>4, SaidFits
<1>6. PICK x : IntentDoes(p, at, lost, m, x)
  BY <1>4, IntentSays
<1>7. PICK pl : pl = [player EXCEPT ![p] = x]
  OBVIOUS
<1>10. UNCHANGED <<count, anew>>
  BY DEF Intent
<1>8. CASE wiring' = wiring /\ Play(authority, [player EXCEPT ![p] = x], wire)
  <2>1. Play(authority, pl, wire)
    BY <1>7, <1>8
  <2> QED BY <1>1, <1>8, <1>10, <2>1, PlayedOnKeeps
<1>9. CASE /\ wiring' = [wiring EXCEPT ![p].seq = @ + 1, ![p].lru = @ \cup {m.corr}]
           /\ Play(authority, [player EXCEPT ![p] = x], Sent(wire, p, m, lost))
  <2>1. PICK queues : queues = Sent(wire, p, m, lost)
    OBVIOUS
  <2>2. \A o \in Peer : queues[o] = wire[o] \/ (o # p /\ queues[o] = Append(wire[o], m))
    BY <2>1 DEF Sent
  <2>3. ASSUME NEW o \in Peer
        PROVE  /\ queues[o] \in Seq(Messages(e))
               /\ \A k \in DOMAIN queues[o] :
                    queues[o][k].rev = 0
                    \/ (k \in DOMAIN wire[o] /\ queues[o][k].rev = wire[o][k].rev)
    <3>1. PICK q, r : q = wire[o] /\ r = queues[o]
      OBVIOUS
    <3>2. q \in Seq(Messages(e)) /\ (r = q \/ r = Append(q, m))
      BY <1>3, <2>2, <3>1 DEF TypedAt
    <3>3. /\ r \in Seq(Messages(e))
          /\ \A k \in DOMAIN r : r[k].rev = 0 \/ (k \in DOMAIN q /\ r[k].rev = q[k].rev)
      BY <1>5, <3>2, Queues
    <3> QED BY <3>1, <3>3
  <2>4. ASSUME NEW o \in Peer
        PROVE  /\ last'[o].rev = last[o].rev /\ NoCommandMore(queues[o], wire'[o])
               /\ DOMAIN wire'[o] = DOMAIN queues[o]
               /\ \A k \in DOMAIN queues[o] : wire'[o][k].rev = queues[o][k].rev
    <3>1. queues[o] \in Seq(Messages(e))
      BY <2>3
    <3>2. Play(authority, pl, queues)
      BY <1>7, <1>9, <2>1
    <3> QED BY ONLY Typed, <1>1, <1>2, e \in Nat, o \in Peer, <3>1, <3>2, PlayKeeps
  <2>5. PICK v, w : v = wiring /\ w = wiring'
    OBVIOUS
  <2>6. /\ w[p].seq = v[p].seq + 1 /\ w[p].life = v[p].life /\ w[p].lru = v[p].lru \cup {m.corr}
        /\ w[p].applied = v[p].applied
        /\ \A o \in Peer : o # p => w[o] = v[o]
    BY <1>3, <1>9, <2>5 DEF TypedAt, Wirings
  <2>7. Newest'
    <3>1. \A o \in Peer : wiring'[o].applied \in {0, wiring[o].applied}
      BY <2>5, <2>6
    <3>2. ASSUME NEW o \in Peer, NEW k \in DOMAIN wire'[o]
          PROVE  wire'[o][k].rev = 0 \/ \E j \in DOMAIN wire[o] : wire'[o][k].rev = wire[o][j].rev
      BY <2>3, <2>4, <3>2
    <3> QED BY <1>10, <2>4, <3>1, <3>2, StillNewest
  <2>8. AllNumbered'
    <3>1. ASSUME NEW o \in Peer
          PROVE  /\ {v[o].seq, v[o].life} \subseteq Int /\ v[o].lru \subseteq Numbers(e)
                 /\ 1 <= v[o].life
      BY <1>1, <1>2, <2>5, SendersTyped
    <3>2. \A o \in Peer : Grown(v[o], w[o])
      BY <2>6, <3>1 DEF Grown
    <3>3. \A o \in Peer : Grown(w[o], w[o])
      BY <3>2 DEF Grown
    <3>4. m.corr \in Numbers(e)
      BY DEF Messages
    <3>5. ASSUME NEW o \in Peer PROVE Numbered(wiring', o, wire'[o])
      <4>1. PICK q, r, y : q = wire[o] /\ r = queues[o] /\ y = wire'[o]
        OBVIOUS
      <4>2. /\ q \in Seq(Messages(e)) /\ r \in Seq(Messages(e)) /\ NoCommandMore(r, y)
            /\ r = q \/ (o # p /\ r = Append(q, m))
        BY <1>3, <2>2, <2>3, <2>4, <4>1 DEF TypedAt
      <4>3. Numbered(v, o, q)
        BY <2>5, <4>1 DEF AllNumbered
      <4>4. /\ w[o].lru = IF o = p THEN v[o].lru \cup {m.corr} ELSE v[o].lru
            /\ m.corr = <<p, v[p].seq + 1, v[p].life>>
            /\ v[o].lru \subseteq Numbers(e) /\ 1 <= v[p].life
        BY <1>5, <2>5, <2>6, <3>1
      <4>5. Numbered(w, o, r)
        <5>1. /\ w[p].seq = v[p].seq + 1 /\ w[p].life = v[p].life
              /\ e \in Nat /\ p \in Peer /\ o \in Peer /\ m \in Messages(e)
          BY <2>6
        <5> QED BY ONLY <3>2, <4>2, <4>3, <4>4, <5>1, NumberedSaid
      <4>6. w[o].lru \subseteq Numbers(e)
        BY <3>4, <4>4
      <4>7. Numbered(w, o, y)
        BY <3>3, <4>2, <4>5, <4>6, NumberedStays
      <4> QED BY <2>5, <4>1, <4>7
    <3> QED BY <3>5 DEF AllNumbered
  <2> QED BY <2>7, <2>8
<1> QED BY <1>6, <1>8, <1>9 DEF IntentDoes

\* A wiring made again begins a new life.
LEMMA WireKeeps ==
  ASSUME Typed, Newest, AllNumbered, NEW p \in Peer, Wire(p)
  PROVE  Newest' /\ AllNumbered'
<1>1. Counted
  BY Counts DEF Wire
<1>2. PICK e \in Nat : e = events'
  BY <1>1, CountedLater
<1>3. TypedAt(e)
  BY <1>1, <1>2, SameWirings
<1>4. PICK v, w : v = wiring /\ w = wiring'
  OBVIOUS
<1>5. w = [v EXCEPT ![p] = NewWiring(v[p].life + 1)] /\ UNCHANGED <<last, wire, count, anew>>
  BY <1>4 DEF Wire
<1>6. /\ w[p].seq = 0 /\ w[p].life = v[p].life + 1 /\ w[p].lru = {} /\ w[p].applied = 0
      /\ \A o \in Peer : o # p => w[o] = v[o]
  BY <1>3, <1>4, <1>5 DEF TypedAt, NewWiring
<1>7. Newest'
  <2>1. \A o \in Peer : wiring'[o].applied \in {0, wiring[o].applied}
    BY <1>4, <1>6
  <2> QED BY <1>5, <2>1, StillNewest
<1>8. ASSUME NEW o \in Peer PROVE Numbered(wiring', o, wire'[o])
  <2>1. \A x \in Peer : Grown(v[x], w[x])
    BY <1>1, <1>2, <1>4, <1>6, SendersTyped DEF Grown
  <2>2. PICK q : q = wire[o]
    OBVIOUS
  <2>3. q \in Seq(Messages(e)) /\ v[o].lru \subseteq Numbers(e)
    BY <1>1, <1>2, <1>4, <2>2, SendersTyped
  <2>4. Numbered(v, o, q)
    BY <1>4, <2>2 DEF AllNumbered
  <2>5. w[o].lru \subseteq v[o].lru /\ NoCommandMore(q, q)
    BY <1>6 DEF NoCommandMore
  <2>6. Numbered(w, o, q)
    BY <2>1, <2>3, <2>4, <2>5, NumberedStays
  <2> QED BY <1>4, <1>5, <2>2, <2>6
<1> QED BY <1>7, <1>8 DEF AllNumbered

LEMMA StepKeeps ==
  ASSUME IInv, [Next]_vars
  PROVE  IInv'
<1> USE DEF IInv
<1>1. Typed'
  BY StepTyped
<1>2. Newest' /\ AllNumbered'
  <2>1. CASE UNCHANGED vars
    BY <2>1 DEF vars, Newest, UpTo, AllNumbered
  <2>2. CASE Tick
    BY <2>2, TickKeeps
  <2>3. CASE \E lost \in BOOLEAN : Heartbeat(lost)
    BY <2>3, HeartbeatKeeps
  <2>4. ASSUME NEW p \in Peer, Deliver(p) PROVE Newest' /\ AllNumbered'
    BY <2>4, DeliverKeeps
  <2>5. ASSUME NEW p \in Peer, NEW lost \in BOOLEAN, Toggle(p, lost) \/ SeekStep(p, lost)
        PROVE  Newest' /\ AllNumbered'
    BY <2>5, Intents, IntentKeeps
  <2>6. ASSUME NEW p \in Peer, Stall(p) PROVE Newest' /\ AllNumbered'
    <3>1. Counted /\ UNCHANGED <<wiring, count, anew>>
      BY <2>6, Counts DEF Stall
    <3>2. PICK pl : Play(authority, pl, wire)
      BY <2>6 DEF Stall
    <3> QED BY <3>1, <3>2, PlayedOnKeeps
  <2>7. ASSUME NEW p \in Peer, Show(p) PROVE Newest' /\ AllNumbered'
    <3>1. Counted /\ UNCHANGED <<wiring, count, anew>>
      BY <2>7, Counts DEF Show
    <3>2. PICK pl : Play(authority, pl, wire)
      BY <2>7 DEF Show
    <3> QED BY <3>1, <3>2, PlayedOnKeeps
  <2>8. ASSUME NEW p \in Peer, Transfer(p) PROVE Newest' /\ AllNumbered'
    BY <2>8, TransferKeeps
  <2>9. ASSUME NEW p \in Peer, Buffer(p) \/ Refill(p) \/ PickRate(p) \/ Load(p) \/ Unwire(p)
        PROVE  Newest' /\ AllNumbered'
    <3>1. Counted
      BY <2>9, Counts DEF Buffer, Refill, PickRate, Load, Unwire
    <3>2. UNCHANGED <<last, wire, count, anew>>
      BY <2>9 DEF Buffer, Refill, PickRate, Load, Unwire
    <3>3. \A o \in Peer : /\ wiring'[o].seq = wiring[o].seq /\ wiring'[o].life = wiring[o].life
                          /\ wiring'[o].lru = wiring[o].lru
                          /\ wiring'[o].applied = wiring[o].applied
      <4>1. CASE Unwire(p)
        <5>1. wiring' = [wiring EXCEPT ![p].on = "no"] /\ wiring \in [Peer -> Wirings(events)]
          BY <4>1 DEF Unwire, Typed
        <5> QED BY <5>1 DEF Wirings
      <4>2. CASE wiring' = wiring
        BY <4>2
      <4> QED BY <2>9, <4>1, <4>2 DEF Buffer, Refill, PickRate, Load
    <3> QED BY <3>1, <3>2, <3>3, StillKeeps
  <2>10. ASSUME NEW p \in Peer, Wire(p) PROVE Newest' /\ AllNumbered'
    BY <2>10, WireKeeps
  <2>11. CASE Snapshot
    BY <2>11, SnapshotKeeps
  <2>12. ASSUME NEW p \in Peer, RejoinGuest(p) PROVE Newest' /\ AllNumbered'
    BY <2>12, RejoinGuestKeeps
  <2>13. CASE RejoinAuthority
    BY <2>13, RejoinAuthorityKeeps
  <2> QED BY <2>1, <2>2, <2>3, <2>4, <2>5, <2>6, <2>7, <2>8, <2>9, <2>10, <2>11, <2>12, <2>13
          DEF Next
<1> QED BY <1>1, <1>2

LEMMA InitHolds ==
  Init => IInv
<1> SUFFICES ASSUME Init PROVE IInv
  OBVIOUS
<1>1. Newest
  <2>1. \A p \in Peer : wiring[p].applied = 0 /\ last[p].rev = 0 /\ wire[p] = <<>>
    BY DEF Init, NewWiring, NoState
  <2>2. count = 0
    BY DEF Init
  <2> QED BY <2>1, <2>2 DEF Newest, UpTo
<1>2. AllNumbered
  <2>1. \A p \in Peer : wiring[p].lru = {} /\ wire[p] = <<>>
    BY DEF Init, NewWiring
  <2> QED BY <2>1 DEF AllNumbered, Numbered
<1> QED BY <1>1, <1>2, InitTyped DEF IInv

LEMMA Invariance ==
  Spec => []IInv
<1>1. Init => IInv
  BY InitHolds
<1>2. IInv /\ [Next]_vars => IInv'
  BY StepKeeps
<1> QED BY <1>1, <1>2, PTL DEF Spec

----------------------------------------------------------------------------
(* What a reader should know.                                              *)

\* Whatever the users do and the network loses, and however often the room
\* changes hands: positions stay told from the authority's player, the bridge
\* within one nudge of the base, and until the authority's transport joins anew
\* nothing in the room is newer than what it gave last.
THEOREM TypesKept ==
  Spec => []TypeOK
<1>1. IInv => TypeOK
  <2> SUFFICES ASSUME IInv PROVE TypeOK
    OBVIOUS
  <2>1. Typed /\ Newest /\ events \in Nat /\ MaxEvents \in Nat /\ events <= MaxEvents
    BY Constants DEF IInv, Typed
  <2>2. PICK n \in Nat : n = MaxEvents
    BY <2>1
  <2>3. TypedAt(n)
    BY <2>1, <2>2, TypedLater
  <2>4. \A k \in {-n, -n - 1, n + 1} : k \in Int
    BY <2>2
  <2>5. Near(n + 1) = Pace
    <3>1. \A k : k \in -(n + 1) .. n + 1 <=> k \in -MaxEvents - 1 .. MaxEvents + 1
      BY <2>2
    <3>2. ASSUME NEW x \in Near(n + 1) PROVE x \in Pace
      <4>1. PICK r \in Rates \cup {Normal}, k \in -(n + 1) .. n + 1 : x = r + k
        BY DEF Near
      <4> QED BY <3>1, <4>1 DEF Pace
    <3>3. ASSUME NEW x \in Pace PROVE x \in Near(n + 1)
      <4>1. PICK r \in Rates \cup {Normal}, k \in -MaxEvents - 1 .. MaxEvents + 1 : x = r + k
        BY DEF Pace
      <4> QED BY <3>1, <4>1 DEF Near
    <3> QED BY <3>2, <3>3
  <2>6. Near(n) \subseteq Pace
    <3>1. n \in Int /\ n + 1 \in Int /\ n <= n + 1
      OBVIOUS
    <3> QED BY <2>5, <3>1, NearSpeeds
  <2>7. Numbers(n) = Peer \X (0 .. MaxEvents) \X (0 .. MaxEvents + 1)
    BY <2>2 DEF Numbers
  <2>8. player \in [Peer -> [playing : Status, buffering : YesNo, at : Positions,
                             rate : Pace, title : Title]]
    BY <2>3, <2>5 DEF TypedAt, Players
  <2>9. ASSUME NEW p \in Peer, NEW c \in wiring[p].lru PROVE c \in TypeOfCorr
    <3>1. c \in Numbers(n)
      BY <2>3 DEF TypedAt, Wirings
    <3>2. c[1] \in Peer /\ c[2] \in 0 .. n /\ c[3] \in 0 .. n + 1 /\ c = <<c[1], c[2], c[3]>>
      BY <3>1 DEF Numbers
    <3>3. Given(c, c[1], wiring[c[1]])
      BY <3>2 DEF IInv, AllNumbered, Numbered
    <3>4. c[3] \in 1 .. n + 1
      BY <3>2, <3>3 DEF Given
    <3> QED BY <2>2, <3>2, <3>4 DEF TypeOfCorr
  <2>10. ASSUME NEW p \in Peer
         PROVE  /\ wiring[p].on \in YesNo /\ wiring[p].quiet \in YesNo
                /\ wiring[p].seq \in 0 .. MaxEvents /\ wiring[p].life \in 1 .. MaxEvents + 1
                /\ {wiring[p].base, wiring[p].pushed} \subseteq Pace
                /\ Distance(wiring[p].base, wiring[p].pushed) <= 1
                /\ wiring[p].lru \subseteq TypeOfCorr
                /\ last[p].at \in Positions /\ last[p].kind \in {"none", "state"}
                /\ \A k \in DOMAIN wire[p] : wire[p][k].at \in Positions
    <3>1. wiring[p] \in Wirings(n) /\ last[p] \in Messages(n) /\ wire[p] \in Seq(Messages(n))
          /\ OneNudge(wiring[p]) /\ last[p].kind \in {"none", "state"}
      BY <2>3 DEF TypedAt
    <3>2. \A k \in DOMAIN wire[p] : wire[p][k].at \in Positions
      BY <3>1, Queues DEF Messages
    <3>3. wiring[p].base \in Near(n) /\ wiring[p].pushed \in Near(n + 1) /\ last[p].at \in Positions
      BY <3>1 DEF Wirings, Messages
    <3>4. /\ wiring[p].on \in YesNo /\ wiring[p].quiet \in YesNo
          /\ wiring[p].seq \in 0 .. MaxEvents /\ wiring[p].life \in 1 .. MaxEvents + 1
      BY <2>2, <3>1 DEF Wirings
    <3> QED BY <2>5, <2>6, <2>9, <3>1, <3>2, <3>3, <3>4 DEF OneNudge
  <2>11. anew = "no" => \A r \in InUse : r <= count
    BY <2>1 DEF Newest, UpTo, InUse
  <2>12. authority \in Peer /\ player[authority].at = 0 /\ beat \in 0 .. Beat
         /\ events \in 0 .. MaxEvents /\ count \in Nat /\ anew \in YesNo
    BY <2>1 DEF Typed
  <2> QED BY <2>8, <2>10, <2>11, <2>12 DEF TypeOK
<1> QED BY <1>1, Invariance, PTL

\* CorrLru takes no command for another: what is remembered of a peer was
\* numbered before what still comes from it, so a command that arrives where its
\* title is shown is always applied.
THEOREM EveryCommandHeard ==
  Spec => CommandsHeard
<1>1. ASSUME IInv, [Next]_vars, NEW p \in Peer, NEW m, m = Head(wire[p]),
             Deliver(p), Wired(p), m.kind \in Commands, m.title = player[p].title, m.corr[3] = 1
      PROVE  m.corr \in wiring'[p].lru \ wiring[p].lru
  <2>1. Typed /\ Numbered(wiring, p, wire[p]) /\ events \in Nat
    BY <1>1, Constants DEF IInv, AllNumbered, Typed
  <2>2. PICK e \in Nat : e = events
    BY <2>1
  <2>3. TypedAt(e)
    BY <2>1, <2>2, TypedLater
  <2>4. PICK q \in Seq(Messages(e)) : q = wire[p]
    BY <2>3 DEF TypedAt
  <2>5. q # <<>> /\ m \in Messages(e) /\ m = q[1] /\ 1 \in DOMAIN q /\ IsCommand(m)
    BY <1>1, <2>4, Queues DEF Deliver, IsCommand
  <2>6. ASSUME NEW c \in wiring[p].lru, c[1] = m.corr[1]
        PROVE  c[2] < m.corr[2] /\ c[2] \in Int /\ m.corr[2] \in Int
    <3>1. c \in Numbers(e) /\ m.corr \in Numbers(e)
      BY <2>3, <2>5 DEF TypedAt, Wirings, Messages
    <3>2. c[1] \in Peer /\ c[2] \in Int /\ c[3] \in Int /\ m.corr[2] \in Int
      BY <3>1, NumberParts
    <3>3. Given(c, c[1], wiring[c[1]]) /\ Before(c, m.corr)
      BY <2>1, <2>4, <2>5, <3>2 DEF Numbered
    <3> QED BY <1>1, <2>6, <3>2, <3>3 DEF Given, Before
  <2>7. ~ Has(wiring[p], m.corr) /\ m.corr \notin wiring[p].lru
    BY <2>6 DEF Has
  <2>8. PICK s, t : s = [pl |-> player[p], w |-> wiring[p]] /\ t = ApplyCommand(s, m)
    OBVIOUS
  <2>9. ~ Mismatch(s, m) /\ ~ Has(s.w, m.corr)
    BY <1>1, <2>7, <2>8 DEF Mismatch
  <2>10. m.corr \in t.w.lru
    <3>1. Fit(s, e + 1, e) /\ OneNudge(s.w)
      BY <2>3, <2>8, OneOfAll
    <3>2. Near(e) \subseteq Near(e + 1)
      <4>1. e \in Int /\ e + 1 \in Int /\ e <= e + 1
        OBVIOUS
      <4> QED BY <4>1, NearSpeeds
    <3> QED BY <2>5, <2>8, <2>9, <3>1, <3>2, CommandApplied
  <2>11. wiring' = [wiring EXCEPT ![p] = t.w]
    BY <1>1, <2>8 DEF Deliver, Apply
  <2>12. wiring'[p] = t.w
    BY <2>3, <2>11 DEF TypedAt
  <2> QED BY <2>7, <2>10, <2>12
<1>2. ASSUME IInv, [Next]_vars
      PROVE  \A p \in Peer :
               LET m == Head(wire[p]) IN
               (/\ Deliver(p) /\ Wired(p)
                /\ m.kind \in Commands /\ m.title = player[p].title /\ m.corr[3] = 1)
                 => m.corr \in wiring'[p].lru \ wiring[p].lru
  BY <1>1, <1>2
<1> QED BY <1>2, Invariance, PTL DEF Spec, CommandsHeard

=============================================================================
