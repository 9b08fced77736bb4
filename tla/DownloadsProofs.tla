-------------------------- MODULE DownloadsProofs ---------------------------
(***************************************************************************)
(* Machine-checked proofs about Downloads, for any number of downloads,    *)
(* names, slots and quotas: the list stays consistent with its copies, the *)
(* limit on running copies holds, no free slot is forgotten, no file has   *)
(* two owners, torrents are held exactly as long as needed, and the quota  *)
(* is kept.                                                                *)
(*                                                                         *)
(* A step of the store is a composition of a few functions of the store;   *)
(* each is shown to keep Sound, and to move items only Forward.  What      *)
(* relates the store to the calls, names and files then follows from       *)
(* Forward.                                                                *)
(***************************************************************************)
EXTENDS Downloads, FiniteSetTheorems, WellFoundedInduction, TLAPS

Startable == {"queued", "paused", "interrupted", "error"}
Ended == {"absent", "done", "canceled", "removal-error"}

Listing(q) == q \in Seq(Download) /\ IsInjective(q)

Fields(s) ==
  s = [item |-> s.item, handles |-> s.handles, aborted |-> s.aborted, copy |-> s.copy,
       cap |-> s.cap, reserved |-> s.reserved, waiting |-> s.waiting,
       resume |-> s.resume, held |-> s.held]

Typed(s) ==
  /\ Fields(s)
  /\ s.item \in [Download -> Item] /\ s.copy \in [Download -> Copy]
  /\ Listing(s.handles) /\ Listing(s.waiting)
  /\ s.aborted \subseteq Download /\ s.resume \subseteq Download /\ s.held \subseteq engine

\* What relates an item to its handle and its hold.
Fit(s, d) ==
  /\ s.copy[d] # "none" <=> HasHandle(s, d)
  /\ Is(s, d, "downloading") => HasHandle(s, d)
  /\ s.item[d].status \in {"queued", "absent"} => ~ HasHandle(s, d)
  /\ Is(s, d, "absent") <=> s.item[d].path = NoName
  /\ Is(s, d, "absent") => s.item[d].received = 0
  /\ d \in engine /\ HasHandle(s, d) => d \in s.held
  /\ d \in s.held /\ ~ HasHandle(s, d) => s.item[d].status \notin Ended

Sound(s) == Typed(s) /\ \A d \in Download : Fit(s, d)

Shown(s) == {d \in Download : Is(s, d, "downloading")}
Active(s, p) == Cardinality(Shown(s)) <= p.concurrent

\* pump has nothing to do.
Idle(s, p) == s.waiting = <<>> \/ Len(s.handles) >= p.concurrent \/ ~ HasBudget(s, p)

\* What starting or queueing downloads does to a list.
Forward(s, t) ==
  \A d \in Download :
    /\ t.item[d].path = s.item[d].path
    /\ \/ t.item[d].status = s.item[d].status /\ t.copy[d] = s.copy[d]
       \/ s.item[d].status \in Startable /\ t.item[d].status \in {"queued", "downloading", "error"}

\* How the call that enqueues d, its removal and its release relate to its item.
Follows(s, c, m, cl, d) ==
  /\ c[d].at \in {"new", "checking"} => Is(s, d, "absent") /\ d \notin cl
  /\ c[d].at = "new" => c[d].path = NoName
  /\ c[d].at = "checking" => c[d].path \in Name
  /\ c[d].at = "retaining" => d \in engine
  /\ m[d] # "none" => Is(s, d, "removing")
  /\ m[d] = "deleting" => ~ HasHandle(s, d)
  /\ d \in cl => s.item[d].status \in Ended \cup {"removing"} /\ ~ HasHandle(s, d)

Calls == [Download -> [at : {"new", "checking", "retaining", "returned"},
                       path : Name \cup {NoName}]]
Removals == [Download -> {"none", "stopping", "deleting"}]

Context(s, c, m, cl) ==
  /\ c \in Calls /\ m \in Removals /\ cl \subseteq Download
  /\ \A d \in Download : Follows(s, c, m, cl, d)

\* The name and the file of a download are its own, and a name that a call has
\* reserved is nobody's.
OwnsAlone(s, c, nm, dk, d) ==
  /\ s.item[d].path # NoName =>
       \A e \in Download : e # d => s.item[e].path # s.item[d].path
  /\ \A n \in Name : dk[n] = d => s.item[d].path = n
  /\ Is(s, d, "done") => dk[s.item[d].path] = d
  /\ c[d].at = "checking" =>
       /\ c[d].path \in nm
       /\ \A e \in Download : s.item[e].path # c[d].path
       /\ \A e \in Download : e # d /\ c[e].at = "checking" => c[e].path # c[d].path

\* Foreign files stay out of it; the rest is about direct downloads.
Files(s, c, nm, dk) ==
  /\ nm \subseteq Name /\ dk \in [Name -> Download \cup {Nobody, Foreign}]
  /\ \A n \in Name : dk[n] = Foreign <=> n \in Taken
  /\ \A d \in Download : s.item[d].path \notin Taken
  /\ engine = {} => \A d \in Download : OwnsAlone(s, c, nm, dk, d)

IInv ==
  /\ policy \in Policies /\ engine \subseteq Download
  /\ Sound(store) /\ Active(store, policy)
  /\ closing # {} \/ Idle(store, policy)
  /\ Context(store, call, removal, closing)
  /\ Files(store, call, names, disk)

----------------------------------------------------------------------------
(* Induction, and the loop of pump.                                        *)

LEMMA SetInduction ==
  ASSUME NEW S, 0 \in S, \A n \in Nat : n \in S => n + 1 \in S
  PROVE  Nat \subseteq S
<1> DEFINE R == OpToRel(<, Nat)
           T == Nat \ S
<1>1. IsWellFoundedOn(R, Nat)
  BY NatLessThanWellFounded
<1>2. \A x, y \in Nat : y < x => <<y, x>> \in R
  BY DEF OpToRel
<1> HIDE DEF R
<1>3. ASSUME T # {} PROVE FALSE
  <2>1. PICK x \in T : \A y \in T : ~ (<<y, x>> \in R)
    BY <1>1, <1>3, WFMin
  <2>2. x - 1 \in Nat /\ x - 1 < x
    BY <2>1
  <2>3. x - 1 \notin S
    <3>1. (x - 1) + 1 = x /\ x \notin S
      BY <2>1, <2>2
    <3> QED BY <2>2, <3>1
  <2> QED BY <1>2, <2>1, <2>2, <2>3
<1> QED BY <1>3

\* A set of numbers has a least one.
LEMMA LeastNumber ==
  ASSUME NEW S \in SUBSET Nat, S # {}
  PROVE  \E n \in S : \A m \in S : n <= m
<1> DEFINE R == OpToRel(<, Nat)
<1>1. IsWellFoundedOn(R, Nat)
  BY NatLessThanWellFounded
<1>2. \A x, y \in Nat : y < x => <<y, x>> \in R
  BY DEF OpToRel
<1> HIDE DEF R
<1>3. PICK x \in S : \A y \in S : ~ (<<y, x>> \in R)
  BY <1>1, WFMin
<1>4. ASSUME NEW m \in S PROVE x <= m
  <2>1. m \in Nat /\ x \in Nat /\ ~ (m < x)
    BY <1>2, <1>3
  <2> QED BY <2>1
<1> QED BY <1>4

\* A bounded one has a greatest one.
LEMMA GreatestNumber ==
  ASSUME NEW S \in SUBSET Nat, S # {}, NEW b \in Nat, \A n \in S : n <= b
  PROVE  \E n \in S : \A m \in S : m <= n
<1> DEFINE U == {n \in Nat : \A m \in S : m <= n}
<1>1. PICK n \in U : \A m \in U : n <= m
  <2>1. b \in U
    OBVIOUS
  <2> HIDE DEF U
  <2> QED BY <2>1, LeastNumber DEF U
<1>2. CASE n \in S
  BY <1>1, <1>2
<1>3. CASE n \notin S
  <2>1. PICK m \in S : TRUE
    OBVIOUS
  <2>2. n - 1 \in Nat /\ \A k \in S : k <= n - 1
    <3>1. \A k \in S : k < n
      BY <1>1, <1>3
    <3> QED BY <1>1, <2>1, <3>1
  <2> QED BY <1>1, <2>2
<1> QED BY <1>2, <1>3

\* The turns of pump's loop.
LEMMA PumpingSteps ==
  ASSUME NEW s, NEW p
  PROVE  /\ Pumping(s, p)[0] = [s EXCEPT !.waiting = ByPriority(s)]
         /\ \A n \in Nat : Pumping(s, p)[n + 1] = PumpOne(Pumping(s, p)[n], p)
<1> DEFINE Start == [s EXCEPT !.waiting = ByPriority(s)]
           Upto(n, g) == g = [k \in 0 .. n |-> IF k = 0 THEN Start ELSE PumpOne(g[k - 1], p)]
           S == {n \in Nat : \E g : Upto(n, g)}
           Full(g) == g = [k \in Nat |-> IF k = 0 THEN Start ELSE PumpOne(g[k - 1], p)]
<1> HIDE DEF Start
<1>1. 0 \in S
  <2>1. Upto(0, [k \in 0 .. 0 |-> Start])
    OBVIOUS
  <2> QED BY <2>1
<1>2. ASSUME NEW n \in Nat, n \in S PROVE n + 1 \in S
  <2>1. PICK g : Upto(n, g)
    BY <1>2
  <2> DEFINE h == [k \in 0 .. n + 1 |-> IF k = n + 1 THEN PumpOne(g[n], p) ELSE g[k]]
  <2>2. ASSUME NEW k \in 0 .. n + 1
        PROVE  h[k] = IF k = 0 THEN Start ELSE PumpOne(h[k - 1], p)
    <3>1. CASE k = 0
      BY <2>1, <3>1
    <3>2. CASE k = n + 1
      BY <3>2
    <3>3. CASE k \in 1 .. n
      <4>1. h[k] = g[k] /\ h[k - 1] = g[k - 1] /\ k \in 0 .. n
        BY <3>3
      <4> QED BY <2>1, <3>3, <4>1
    <3> QED BY <3>1, <3>2, <3>3
  <2>3. Upto(n + 1, h)
    BY <2>2
  <2> HIDE DEF Upto, h
  <2> QED BY <2>3
<1> HIDE DEF S
<1>3. Nat \subseteq S
  BY <1>1, <1>2, SetInduction
<1>4. \A n \in Nat : \E g : Upto(n, g)
  BY <1>3 DEF S
<1>5. ASSUME NEW n \in Nat, NEW g, NEW h, NEW m \in Nat, n <= m, Upto(n, g), Upto(m, h)
      PROVE  g[n] = h[n]
  <2> DEFINE E == {k \in Nat : k <= n => g[k] = h[k]}
  <2>1. 0 \in E
    BY <1>5
  <2>2. ASSUME NEW k \in Nat, k \in E PROVE k + 1 \in E
    BY <1>5, <2>2
  <2> HIDE DEF E
  <2>3. Nat \subseteq E
    BY <2>1, <2>2, SetInduction
  <2> QED BY <2>3 DEF E
<1> DEFINE at(n) == CHOOSE g : Upto(n, g)
<1>6. \A n \in Nat : Upto(n, at(n))
  BY <1>4
<1> HIDE DEF at
<1>7. PICK f : f = [n \in Nat |-> at(n)[n]]
  OBVIOUS
<1>8. ASSUME NEW n \in Nat PROVE f[n] = IF n = 0 THEN Start ELSE PumpOne(f[n - 1], p)
  <2>1. f[n] = at(n)[n] /\ at(n)[n] = IF n = 0 THEN Start ELSE PumpOne(at(n)[n - 1], p)
    BY <1>6, <1>7
  <2>2. CASE n # 0
    <3>1. n - 1 \in Nat /\ n - 1 <= n
      BY <2>2
    <3>2. Upto(n, at(n)) /\ Upto(n - 1, at(n - 1))
      BY <1>6, <3>1
    <3> HIDE DEF Upto
    <3>3. at(n - 1)[n - 1] = at(n)[n - 1]
      BY <1>5, <3>1, <3>2
    <3> QED BY <1>7, <2>1, <2>2, <3>1, <3>3
  <2> QED BY <2>1, <2>2
<1>9. Full(f)
  BY <1>7, <1>8
<1>10. Full(Pumping(s, p))
  BY <1>9 DEF Pumping, Start
<1> QED BY <1>10 DEF Start

----------------------------------------------------------------------------
(* The lists of ids.                                                       *)

LEMMA Concatenated ==
  ASSUME NEW a \in Seq(Download), NEW b \in Seq(Download)
  PROVE  /\ a \o b \in Seq(Download) /\ Len(a \o b) = Len(a) + Len(b)
         /\ \A k \in 1 .. Len(a) + Len(b) :
              (a \o b)[k] = IF k <= Len(a) THEN a[k] ELSE b[k - Len(a)]
OBVIOUS

LEMMA Parts ==
  ASSUME NEW q \in Seq(Download), NEW p \in 1 .. Len(q)
  PROVE  /\ SubSeq(q, 1, p - 1) \in Seq(Download) /\ Len(SubSeq(q, 1, p - 1)) = p - 1
         /\ \A k \in 1 .. p - 1 : SubSeq(q, 1, p - 1)[k] = q[k]
         /\ SubSeq(q, p + 1, Len(q)) \in Seq(Download) /\ Len(SubSeq(q, p + 1, Len(q))) = Len(q) - p
         /\ \A k \in 1 .. Len(q) - p : SubSeq(q, p + 1, Len(q))[k] = q[p + k]
<1>1. /\ SubSeq(q, 1, p - 1) \in Seq(Download) /\ Len(SubSeq(q, 1, p - 1)) = p - 1
      /\ \A k \in 1 .. p - 1 : SubSeq(q, 1, p - 1)[k] = q[k]
  OBVIOUS
<1>2. \A n \in 1 .. Len(q) + 1 :
         /\ SubSeq(q, n, Len(q)) \in Seq(Download) /\ Len(SubSeq(q, n, Len(q))) = Len(q) - n + 1
         /\ \A k \in 1 .. Len(q) - n + 1 : SubSeq(q, n, Len(q))[k] = q[n + k - 1]
  OBVIOUS
<1>3. PICK n \in 1 .. Len(q) + 1 : n = p + 1
  OBVIOUS
<1>4. /\ SubSeq(q, n, Len(q)) \in Seq(Download) /\ Len(SubSeq(q, n, Len(q))) = Len(q) - p
      /\ \A k \in 1 .. Len(q) - p : SubSeq(q, n, Len(q))[k] = q[p + k]
  <2>1. Len(q) \in Nat /\ Len(q) - n + 1 = Len(q) - p
    BY <1>3
  <2>2. \A k \in 1 .. Len(q) - p : k \in 1 .. Len(q) - n + 1 /\ n + k - 1 = p + k
    BY <1>3, <2>1
  <2> QED BY <1>2, <2>1, <2>2
<1> QED BY <1>1, <1>3, <1>4

\* A list without one of its entries.
LEMMA Shorter ==
  ASSUME NEW q \in Seq(Download), NEW p \in 1 .. Len(q)
  PROVE  /\ RemoveAt(q, p) \in Seq(Download) /\ Len(RemoveAt(q, p)) = Len(q) - 1
         /\ \A k \in 1 .. Len(q) - 1 : RemoveAt(q, p)[k] = IF k < p THEN q[k] ELSE q[k + 1]
<1> DEFINE a == SubSeq(q, 1, p - 1)
           b == SubSeq(q, p + 1, Len(q))
           w == RemoveAt(q, p)
<1>1. p \in Int /\ Len(q) \in Int /\ p >= 1 /\ p <= Len(q)
  OBVIOUS
<1>2. w = a \o b
  BY DEF RemoveAt
<1>3. /\ a \in Seq(Download) /\ Len(a) = p - 1 /\ \A k \in 1 .. p - 1 : a[k] = q[k]
      /\ b \in Seq(Download) /\ Len(b) = Len(q) - p /\ \A k \in 1 .. Len(q) - p : b[k] = q[p + k]
  BY Parts
<1> HIDE DEF a, b, w
<1>4. /\ a \o b \in Seq(Download) /\ Len(a \o b) = Len(a) + Len(b)
      /\ \A k \in 1 .. Len(a) + Len(b) :
           (a \o b)[k] = IF k <= Len(a) THEN a[k] ELSE b[k - Len(a)]
  BY <1>3, Concatenated
<1>5. /\ w \in Seq(Download) /\ Len(w) = Len(q) - 1
      /\ \A k \in 1 .. Len(q) - 1 : w[k] = IF k <= p - 1 THEN a[k] ELSE b[k - (p - 1)]
  <2>1. Len(a) + Len(b) = Len(q) - 1 /\ Len(a) = p - 1
    BY <1>1, <1>3
  <2> QED BY <1>2, <1>4, <2>1
<1>6. ASSUME NEW k \in 1 .. Len(q) - 1
      PROVE  w[k] = IF k < p THEN q[k] ELSE q[k + 1]
  <2>1. CASE k < p
    BY <1>1, <1>3, <1>5, <2>1
  <2>2. CASE k >= p
    <3>1. k - (p - 1) \in 1 .. Len(q) - p /\ p + (k - (p - 1)) = k + 1 /\ ~ (k <= p - 1)
      BY <1>1, <2>2
    <3>2. w[k] = b[k - (p - 1)] /\ b[k - (p - 1)] = q[p + (k - (p - 1))]
      BY <1>3, <1>5, <3>1
    <3> QED BY <2>2, <3>1, <3>2, <1>1
  <2> QED BY <1>1, <2>1, <2>2
<1> QED BY <1>5, <1>6 DEF w

LEMMA WithoutOne ==
  ASSUME NEW q, Listing(q), NEW d
  PROVE  /\ Listing(Without(q, d))
         /\ Len(Without(q, d)) <= Len(q)
         /\ \A e : Contains(Without(q, d), e) <=> Contains(q, e) /\ e # d
<1>8. q \in Seq(Download)
  BY DEF Listing
<1>0. q \in Seq(Download) /\ Len(q) \in Nat /\ DOMAIN q = 1 .. Len(q)
      /\ \A i, j \in 1 .. Len(q) : q[i] = q[j] => i = j
  BY DEF Listing, IsInjective
<1>1. CASE ~ Contains(q, d)
  BY <1>0, <1>1 DEF Without, Contains
<1>2. CASE Contains(q, d)
  <2>1. PICK p \in 1 .. Len(q) : q[p] = d /\ Without(q, d) = RemoveAt(q, p)
    BY <1>0, <1>2 DEF Without, Contains
  <2>2. PICK w : w = Without(q, d)
    OBVIOUS
  <2>3. /\ w \in Seq(Download) /\ Len(w) = Len(q) - 1
        /\ \A k \in 1 .. Len(q) - 1 : w[k] = IF k < p THEN q[k] ELSE q[k + 1]
    <3>1. /\ RemoveAt(q, p) \in Seq(Download) /\ Len(RemoveAt(q, p)) = Len(q) - 1
          /\ \A k \in 1 .. Len(q) - 1 : RemoveAt(q, p)[k] = IF k < p THEN q[k] ELSE q[k + 1]
      BY <1>8, Shorter
    <3> QED BY <2>1, <2>2, <3>1
  <2>4. ASSUME NEW i \in 1 .. Len(w), NEW j \in 1 .. Len(w), w[i] = w[j] PROVE i = j
    <3>1. PICK x \in 1 .. Len(q) : w[i] = q[x] /\ (i < p => x = i) /\ (i >= p => x = i + 1)
      BY <1>0, <2>1, <2>3
    <3>2. PICK y \in 1 .. Len(q) : w[j] = q[y] /\ (j < p => y = j) /\ (j >= p => y = j + 1)
      BY <1>0, <2>1, <2>3
    <3>3. x = y
      BY <1>0, <2>4, <3>1, <3>2
    <3> QED BY <1>0, <2>3, <3>1, <3>2, <3>3
  <2>5. Listing(w)
    BY <2>3, <2>4 DEF Listing, IsInjective
  <2>6. ASSUME NEW e, Contains(w, e) PROVE Contains(q, e) /\ e # d
    <3>1. PICK i \in 1 .. Len(w) : w[i] = e
      BY <2>6 DEF Contains
    <3>2. PICK x \in 1 .. Len(q) : w[i] = q[x] /\ x # p
      <4>1. i \in 1 .. Len(q) - 1 /\ i \in 1 .. Len(q) /\ i + 1 \in 1 .. Len(q)
        BY <1>0, <2>3
      <4>2. CASE i < p
        BY <2>1, <2>3, <4>1, <4>2
      <4>3. CASE i >= p
        BY <2>1, <2>3, <4>1, <4>3
      <4> QED BY <2>1, <4>1, <4>2, <4>3
    <3> QED BY <1>0, <2>1, <3>1, <3>2 DEF Contains
  <2>7. ASSUME NEW e, Contains(q, e), e # d PROVE Contains(w, e)
    <3>1. PICK x \in 1 .. Len(q) : q[x] = e /\ x # p
      BY <2>1, <2>7 DEF Contains
    <3>2. CASE x < p
      BY <1>0, <2>1, <2>3, <3>1, <3>2 DEF Contains
    <3>3. CASE x > p
      <4>1. x - 1 \in 1 .. Len(w) /\ w[x - 1] = q[(x - 1) + 1] /\ (x - 1) + 1 = x
        BY <1>0, <2>1, <2>3, <3>1, <3>3
      <4> QED BY <3>1, <4>1 DEF Contains
    <3> QED BY <3>1, <3>2, <3>3
  <2>8. Len(w) <= Len(q)
    BY <1>0, <2>3
  <2> QED BY <2>2, <2>5, <2>6, <2>7, <2>8
<1> QED BY <1>1, <1>2

LEMMA WithOne ==
  ASSUME NEW q, Listing(q), NEW d \in Download, ~ Contains(q, d)
  PROVE  /\ Listing(Append(q, d)) /\ Len(Append(q, d)) = Len(q) + 1
         /\ \A e : Contains(Append(q, d), e) <=> Contains(q, e) \/ e = d
<1>0. q \in Seq(Download) /\ Len(q) \in Nat /\ \A i, j \in 1 .. Len(q) : q[i] = q[j] => i = j
  BY DEF Listing, IsInjective
<1>1. PICK w : w = Append(q, d)
  OBVIOUS
<1>2. /\ w \in Seq(Download) /\ Len(w) = Len(q) + 1 /\ w[Len(q) + 1] = d
      /\ \A k \in 1 .. Len(q) : w[k] = q[k]
  BY <1>0, <1>1
<1>3. \A i, j \in 1 .. Len(w) : w[i] = w[j] => i = j
  BY <1>0, <1>2 DEF Contains
<1>4. Listing(w)
  BY <1>2, <1>3 DEF Listing, IsInjective
<1>5. ASSUME NEW e PROVE Contains(w, e) <=> Contains(q, e) \/ e = d
  <2>1. Contains(w, e) => Contains(q, e) \/ e = d
    BY <1>0, <1>2 DEF Contains
  <2>2. Contains(q, e) => Contains(w, e)
    BY <1>0, <1>2 DEF Contains
  <2>3. Contains(w, d)
    BY <1>0, <1>2 DEF Contains
  <2> QED BY <2>1, <2>2, <2>3
<1> QED BY <1>1, <1>2, <1>4, <1>5

LEMMA Popped ==
  ASSUME NEW q, Listing(q), q # <<>>
  PROVE  /\ Listing(Tail(q)) /\ Len(Tail(q)) = Len(q) - 1 /\ Head(q) \in Download
         /\ \A e : Contains(Tail(q), e) => Contains(q, e)
<1>0. q \in Seq(Download) /\ Len(q) \in Nat \ {0} /\ \A i, j \in 1 .. Len(q) : q[i] = q[j] => i = j
  BY DEF Listing, IsInjective
<1>1. /\ Tail(q) \in Seq(Download) /\ Len(Tail(q)) = Len(q) - 1 /\ Head(q) \in Download
      /\ \A k \in 1 .. Len(q) - 1 : Tail(q)[k] = q[k + 1]
  BY <1>0
<1>2. PICK w : w = Tail(q)
  OBVIOUS
<1>3. \A i, j \in 1 .. Len(w) : w[i] = w[j] => i = j
  <2> SUFFICES ASSUME NEW i \in 1 .. Len(w), NEW j \in 1 .. Len(w), w[i] = w[j] PROVE i = j
    OBVIOUS
  <2>1. q[i + 1] = q[j + 1] /\ i + 1 \in 1 .. Len(q) /\ j + 1 \in 1 .. Len(q)
    BY <1>0, <1>1, <1>2
  <2>2. i + 1 = j + 1
    BY <1>0, <2>1
  <2> QED BY <1>0, <2>2
<1>4. ASSUME NEW e, Contains(w, e) PROVE Contains(q, e)
  <2>1. PICK i \in 1 .. Len(w) : w[i] = e
    BY <1>4 DEF Contains
  <2>2. i + 1 \in 1 .. Len(q) /\ q[i + 1] = e
    BY <1>0, <1>1, <1>2, <2>1
  <2> QED BY <2>2 DEF Contains
<1>5. Listing(w)
  BY <1>1, <1>2, <1>3 DEF Listing, IsInjective
<1> QED BY <1>1, <1>2, <1>4, <1>5

\* No more ids than entries.
LEMMA Entries ==
  ASSUME NEW q \in Seq(Download), NEW n \in 0 .. Len(q), NEW S,
         \A d \in S : \E k \in 1 .. n : q[k] = d
  PROVE  IsFiniteSet(S) /\ Cardinality(S) <= n
<1> DEFINE at(d) == CHOOSE k \in 1 .. n : q[k] = d
           f == [d \in S |-> at(d)]
<1>1. IsFiniteSet(1 .. n) /\ Cardinality(1 .. n) = n
  BY FS_Interval
<1>2. \A d \in S : at(d) \in 1 .. n /\ q[at(d)] = d
  OBVIOUS
<1> HIDE DEF at
<1>3. f \in Injection(S, 1 .. n)
  BY <1>2 DEF Injection, IsInjective
<1> HIDE DEF f
<1> QED BY <1>1, <1>3, FS_Injection

\* The sort of pump loses and repeats nothing.
LEMMA Sorted ==
  ASSUME NEW s, s.item \in [Download -> Item], Listing(s.waiting)
  PROVE  /\ Listing(ByPriority(s)) /\ Len(ByPriority(s)) = Len(s.waiting)
         /\ \A d : Contains(ByPriority(s), d) <=> Contains(s.waiting, d)
<1> DEFINE q == s.waiting
           L == Len(q)
           I == 1 .. L
           above(j, k) == s.item[q[j]].priority > s.item[q[k]].priority
           ahead(j, k) == above(j, k) \/ (j < k /\ ~ above(k, j))
           Ahead(k) == {j \in I : ahead(j, k)}
           place(k) == 1 + Cardinality(Ahead(k))
<1>1. /\ q \in Seq(Download) /\ L \in Nat /\ DOMAIN q = I
      /\ \A i, j \in I : q[i] = q[j] => i = j
  BY DEF Listing, IsInjective
<1>2. \A k \in I : s.item[q[k]].priority \in Int
  BY <1>1, DownloadsAssumption DEF Item
<1>3. \A j, k \in I : j # k => (ahead(j, k) \/ ahead(k, j))
  BY <1>1, <1>2
<1>4. \A k \in I : ~ ahead(k, k)
  BY <1>1, <1>2
<1>5. \A i, j, k \in I : ahead(i, j) /\ ahead(j, k) => ahead(i, k)
  BY <1>1, <1>2
<1>6. ByPriority(s) = [n \in I |-> q[CHOOSE k \in I : place(k) = n]]
  BY <1>1 DEF ByPriority
<1> HIDE DEF ahead
<1>7. IsFiniteSet(I) /\ Cardinality(I) = L
  BY <1>1, FS_Interval
<1>8. \A k \in I : /\ Ahead(k) \in SUBSET (I \ {k}) /\ IsFiniteSet(Ahead(k))
                   /\ Cardinality(Ahead(k)) \in 0 .. L - 1
  <2> SUFFICES ASSUME NEW k \in I
               PROVE  /\ Ahead(k) \in SUBSET (I \ {k}) /\ IsFiniteSet(Ahead(k))
                      /\ Cardinality(Ahead(k)) \in 0 .. L - 1
    OBVIOUS
  <2>1. Ahead(k) \in SUBSET (I \ {k})
    BY <1>4
  <2>2. IsFiniteSet(I \ {k}) /\ Cardinality(I \ {k}) = L - 1
    BY <1>7, FS_RemoveElement
  <2> HIDE DEF Ahead, I
  <2>3. IsFiniteSet(Ahead(k)) /\ Cardinality(Ahead(k)) <= Cardinality(I \ {k})
    BY <2>1, <2>2, FS_Subset
  <2>4. Cardinality(Ahead(k)) \in Nat
    BY <2>3, FS_CardinalityType
  <2> QED BY <1>1, <2>1, <2>2, <2>3, <2>4
<1>9. ASSUME NEW j \in I, NEW k \in I, ahead(j, k) PROVE place(j) # place(k)
  <2>1. Ahead(j) \subseteq Ahead(k) /\ j \in Ahead(k) /\ j \notin Ahead(j)
    BY <1>4, <1>5, <1>9
  <2> HIDE DEF Ahead
  <2>2. Cardinality(Ahead(j)) <= Cardinality(Ahead(k)) /\ Cardinality(Ahead(j)) # Cardinality(Ahead(k))
    BY <1>8, <2>1, FS_Subset
  <2> QED BY <1>8, <2>2
<1>10. PICK f : f = [k \in I |-> place(k)]
  OBVIOUS
<1>11. f \in [I -> I] /\ \A j, k \in I : f[j] = f[k] => j = k
  <2>1. ASSUME NEW k \in I PROVE place(k) \in I
    <3>1. Cardinality(Ahead(k)) \in 0 .. L - 1
      BY <1>8
    <3> HIDE DEF Ahead
    <3> QED BY <1>1, <3>1
  <2> HIDE DEF place
  <2>2. f \in [I -> I]
    BY <1>10, <2>1
  <2>3. ASSUME NEW j \in I, NEW k \in I, f[j] = f[k] PROVE j = k
    BY <1>3, <1>9, <1>10, <2>3
  <2> QED BY <2>2, <2>3
<1>12. ByPriority(s) = [n \in I |-> q[CHOOSE k \in I : f[k] = n]]
  BY <1>6, <1>10
<1> HIDE DEF place, Ahead, q
<1>13. \A n \in I : \E k \in I : f[k] = n
  <2> HIDE DEF I
  <2>1. f \in Injection(I, I)
    BY <1>11 DEF Injection, IsInjective
  <2>2. f \in Surjection(I, I)
    BY <1>7, <2>1, FS_Injection
  <2> QED BY <2>2 DEF Surjection
<1> DEFINE g(n) == CHOOSE k \in I : f[k] = n
<1>14. \A n \in I : g(n) \in I /\ f[g(n)] = n
  BY <1>13
<1>15. PICK r : r = ByPriority(s)
  OBVIOUS
<1>16. r = [n \in I |-> q[g(n)]]
  BY <1>12, <1>15
<1> HIDE DEF g
<1>17. r \in Seq(Download) /\ Len(r) = L
  <2>1. \A n \in I : q[g(n)] \in Download
    BY <1>1, <1>14
  <2> QED BY <1>1, <1>16, <2>1
<1>18. ASSUME NEW m \in I, NEW n \in I, r[m] = r[n] PROVE m = n
  BY <1>1, <1>14, <1>16, <1>18
<1>19. ASSUME NEW d PROVE Contains(r, d) <=> Contains(q, d)
  <2>1. Contains(r, d) => Contains(q, d)
    BY <1>14, <1>16, <1>17 DEF Contains
  <2>2. ASSUME NEW k \in I, q[k] = d PROVE \E n \in I : r[n] = d
    BY <1>11, <1>14, <1>16, <2>2
  <2> QED BY <1>17, <2>1, <2>2 DEF Contains
<1>20. Listing(r)
  BY <1>17, <1>18 DEF Listing, IsInjective
<1> QED BY <1>15, <1>17, <1>19, <1>20 DEF q

----------------------------------------------------------------------------
(* Sums over the downloads.  The community module adds the values of a     *)
(* function in an order of its own; Sums is the recursive function that    *)
(* does so.                                                                *)

Least(u) == CHOOSE x \in u : TRUE
Adds(f, S, g) ==
  g = [u \in SUBSET S |-> IF u = {} THEN 0 ELSE f[Least(u)] + g[u \ {Least(u)}]]
Sums(f, S) == CHOOSE g : Adds(f, S, g)

LEMMA Subsets ==
  ASSUME NEW S, IsFiniteSet(S), NEW u \in SUBSET S
  PROVE  /\ Cardinality(u) \in Nat /\ Cardinality(u) <= Cardinality(S)
         /\ Cardinality(u) = 0 <=> u = {}
         /\ u # {} => /\ Least(u) \in u /\ u \ {Least(u)} \in SUBSET S
                      /\ Cardinality(u \ {Least(u)}) = Cardinality(u) - 1
<1>1. IsFiniteSet(u) /\ Cardinality(u) <= Cardinality(S)
  BY FS_Subset
<1>2. u # {} => Least(u) \in u
  BY DEF Least
<1>3. Cardinality(u) \in Nat
  BY <1>1, FS_CardinalityType
<1>4. Cardinality(u) = 0 <=> u = {}
  BY <1>1, FS_EmptySet
<1>5. u # {} => Cardinality(u \ {Least(u)}) = Cardinality(u) - 1
  BY <1>1, <1>2, FS_RemoveElement
<1> QED BY <1>1, <1>2, <1>3, <1>4, <1>5

LEMMA SumsDefined ==
  ASSUME NEW S, IsFiniteSet(S), NEW f
  PROVE  /\ SumFunctionOnSet(f, S) = Sums(f, S)[S]
         /\ Sums(f, S)[{}] = 0
         /\ \A u \in SUBSET S : u # {} => Sums(f, S)[u] = f[Least(u)] + Sums(f, S)[u \ {Least(u)}]
<1>0. PICK U : U = SUBSET S
  OBVIOUS
<1> DEFINE Value(u, g) == IF u = {} THEN 0 ELSE f[Least(u)] + g[u \ {Least(u)}]
           Upto(n, g) == \A u \in U : Cardinality(u) <= n => g[u] = Value(u, g)
           R == {n \in Nat : \E g : Upto(n, g)}
<1>1. ASSUME NEW u \in U
      PROVE  /\ Cardinality(u) \in Nat /\ Cardinality(u) <= Cardinality(S)
             /\ Cardinality(u) = 0 <=> u = {}
             /\ u # {} => /\ Least(u) \in u /\ u \ {Least(u)} \in U
                          /\ Cardinality(u \ {Least(u)}) = Cardinality(u) - 1
  BY <1>0, Subsets
<1>2. 0 \in R
  <2>0. ASSUME NEW u \in U, Cardinality(u) <= 0 PROVE u = {}
    <3>1. Cardinality(u) \in Nat
      BY <1>1
    <3>2. Cardinality(u) = 0 <=> u = {}
      BY <1>1
    <3>3. Cardinality(u) = 0
      BY <3>1, <2>0
    <3> QED BY <3>2, <3>3
  <2>1. \A u \in U : Cardinality(u) <= 0 => u = {}
    BY <2>0
  <2>2. Upto(0, [u \in U |-> 0])
    BY <2>1
  <2> HIDE DEF Upto
  <2> QED BY <2>2
<1>3. ASSUME NEW n \in Nat, n \in R PROVE n + 1 \in R
  <2>1. PICK g : Upto(n, g)
    BY <1>3
  <2> DEFINE h == [u \in U |-> IF Cardinality(u) = n + 1 THEN Value(u, g) ELSE g[u]]
  <2>2. ASSUME NEW u \in U, Cardinality(u) <= n + 1
        PROVE  h[u] = Value(u, h)
    <3>1. CASE u = {}
      <4>1. Cardinality(u) = 0
        BY <1>1, <3>1
      <4>2. h[u] = g[u] /\ g[u] = Value(u, g)
        BY <2>1, <4>1
      <4> QED BY <3>1, <4>2
    <3>2. CASE u # {}
      <4> DEFINE v == u \ {Least(u)}
      <4>1. v \in U /\ Cardinality(v) \in Nat /\ Cardinality(v) <= n
        BY <1>1, <2>2, <3>2
      <4>2. h[v] = g[v]
        BY <4>1
      <4>3. Value(u, h) = Value(u, g)
        BY <3>2, <4>2
      <4>4. Cardinality(u) = n + 1 \/ Cardinality(u) <= n
        <5>1. Cardinality(u) \in Nat
          BY <1>1
        <5> QED BY <2>2, <5>1
      <4>5. h[u] = Value(u, g)
        BY <2>1, <4>4
      <4> QED BY <4>3, <4>5
    <3> QED BY <3>1, <3>2
  <2>3. Upto(n + 1, h)
    BY <2>2
  <2> HIDE DEF Upto, h
  <2> QED BY <2>3
<1>4. Nat \subseteq R
  <2> HIDE DEF R
  <2> QED BY <1>2, <1>3, SetInduction
<1>5. PICK g : Upto(Cardinality(S), g)
  <2>1. Cardinality(S) \in R
    BY <1>0, <1>1, <1>4
  <2> HIDE DEF Upto
  <2> QED BY <2>1
<1>6. Adds(f, S, [u \in SUBSET S |-> g[u]])
  <2>1. \A u \in U : g[u] = Value(u, g)
    BY <1>1, <1>5
  <2>2. \A u \in U : Value(u, g) = Value(u, [w \in U |-> g[w]])
    BY <1>1
  <2> QED BY <1>0, <2>1, <2>2 DEF Adds
<1>7. Adds(f, S, Sums(f, S))
  BY <1>6 DEF Sums
<1>8. SumFunctionOnSet(f, S) = Sums(f, S)[S]
  BY DEF SumFunctionOnSet, FoldFunctionOnSet, MapThenFoldSet, Sums, Adds, Least
<1> QED BY <1>7, <1>8 DEF Adds

\* The library's sum of a function, by the places of its domain.
LEMMA SumsOf ==
  ASSUME NEW S, IsFiniteSet(S), NEW f, DOMAIN f = S
  PROVE  /\ SumFunction(f) = Sums(f, S)[S]
         /\ Sums(f, S)[{}] = 0
         /\ \A u \in SUBSET S : u # {} => Sums(f, S)[u] = f[Least(u)] + Sums(f, S)[u \ {Least(u)}]
<1>1. /\ SumFunctionOnSet(f, S) = Sums(f, S)[S] /\ Sums(f, S)[{}] = 0
      /\ \A u \in SUBSET S : u # {} => Sums(f, S)[u] = f[Least(u)] + Sums(f, S)[u \ {Least(u)}]
  BY SumsDefined
<1> QED BY <1>1 DEF SumFunction

\* A sum of naturals is one, and changes as its parts do.
LEMMA SumOfNaturals ==
  ASSUME NEW S, IsFiniteSet(S), NEW f \in [S -> Nat]
  PROVE  SumFunction(f) \in Nat
<1>0. PICK U : U = SUBSET S
  OBVIOUS
<1> DEFINE F == Sums(f, S)
           R == {n \in Nat : \A u \in U : Cardinality(u) = n => F[u] \in Nat}
<1>1. /\ F[{}] = 0 /\ SumFunction(f) = F[S]
      /\ \A u \in U : u # {} => F[u] = f[Least(u)] + F[u \ {Least(u)}]
  <2>1. /\ SumFunction(f) = F[S] /\ F[{}] = 0
        /\ \A u \in SUBSET S : u # {} => F[u] = f[Least(u)] + F[u \ {Least(u)}]
    BY SumsOf
  <2> HIDE DEF F
  <2> QED BY <1>0, <2>1
<1> HIDE DEF F
<1>2. 0 \in R
  <2>1. ASSUME NEW u \in U, Cardinality(u) = 0 PROVE F[u] \in Nat
    <3>1. u = {}
      BY <1>0, <2>1, Subsets
    <3> QED BY <1>1, <3>1
  <2> QED BY <2>1
<1>3. ASSUME NEW n \in Nat, n \in R PROVE n + 1 \in R
  <2> SUFFICES ASSUME NEW u \in U, Cardinality(u) = n + 1 PROVE F[u] \in Nat
    OBVIOUS
  <2>1. u # {} /\ Least(u) \in u /\ u \ {Least(u)} \in U /\ Cardinality(u \ {Least(u)}) = n
    BY <1>0, Subsets
  <2>2. F[u \ {Least(u)}] \in Nat
    BY <1>3, <2>1
  <2>3. f[Least(u)] \in Nat
    <3>1. Least(u) \in S
      BY <1>0, <2>1
    <3> QED BY <3>1
  <2> QED BY <1>1, <2>1, <2>2, <2>3
<1> HIDE DEF R
<1>4. Nat \subseteq R
  BY <1>2, <1>3, SetInduction
<1>5. Cardinality(S) \in R /\ S \in U
  BY <1>0, <1>4, FS_CardinalityType
<1> QED BY <1>1, <1>5 DEF R

LEMMA SumMoves ==
  ASSUME NEW S, IsFiniteSet(S), NEW f \in [S -> Nat], NEW g \in [S -> Nat], NEW d \in S,
         \A e \in S : e # d => g[e] = f[e]
  PROVE  SumFunction(g) + f[d] = SumFunction(f) + g[d]
<1> DEFINE F == Sums(f, S)
           G == Sums(g, S)
<1>0. PICK U : U = SUBSET S
  OBVIOUS
<1>1. /\ F[{}] = 0 /\ SumFunction(f) = F[S]
      /\ \A u \in U : u # {} => F[u] = f[Least(u)] + F[u \ {Least(u)}]
  <2>1. /\ SumFunction(f) = F[S] /\ F[{}] = 0
        /\ \A u \in SUBSET S : u # {} => F[u] = f[Least(u)] + F[u \ {Least(u)}]
    BY SumsOf
  <2> HIDE DEF F
  <2> QED BY <1>0, <2>1
<1>2. /\ G[{}] = 0 /\ SumFunction(g) = G[S]
      /\ \A u \in U : u # {} => G[u] = g[Least(u)] + G[u \ {Least(u)}]
  <2>1. /\ SumFunction(g) = G[S] /\ G[{}] = 0
        /\ \A u \in SUBSET S : u # {} => G[u] = g[Least(u)] + G[u \ {Least(u)}]
    BY SumsOf
  <2> HIDE DEF G
  <2> QED BY <1>0, <2>1
<1> HIDE DEF F, G
<1> DEFINE Right(u) == /\ F[u] \in Nat /\ G[u] \in Nat
                       /\ d \notin u => G[u] = F[u]
                       /\ d \in u => G[u] + f[d] = F[u] + g[d]
           R == {n \in Nat : \A u \in U : Cardinality(u) = n => Right(u)}
<1>3. 0 \in R
  <2>1. ASSUME NEW u \in U, Cardinality(u) = 0 PROVE Right(u)
    <3>1. u = {}
      BY <1>0, <2>1, Subsets
    <3> QED BY <1>1, <1>2, <3>1
  <2> HIDE DEF Right
  <2> QED BY <2>1
<1>4. ASSUME NEW n \in Nat, n \in R PROVE n + 1 \in R
  <2> SUFFICES ASSUME NEW u \in U, Cardinality(u) = n + 1 PROVE Right(u)
    OBVIOUS
  <2>1. PICK x, v : x = Least(u) /\ v = u \ {Least(u)}
    OBVIOUS
  <2>2. u # {} /\ x \in u /\ v \in U /\ Cardinality(v) = n
    BY <1>0, <2>1, Subsets
  <2>3. Right(v)
    BY <1>4, <2>2
  <2>4. F[u] = f[x] + F[v] /\ G[u] = g[x] + G[v]
    BY <1>1, <1>2, <2>1, <2>2
  <2>5. x \in S
    BY <1>0, <2>2
  <2>6. f[x] \in Nat /\ g[x] \in Nat /\ f[d] \in Nat /\ g[d] \in Nat
    BY <2>5
  <2>7. /\ x = d => d \notin v /\ d \in u
        /\ x # d => f[x] = g[x] /\ (d \in u <=> d \in v)
    BY <2>1, <2>2, <2>5
  <2> QED BY <2>3, <2>4, <2>6, <2>7
<1> HIDE DEF R
<1>5. Nat \subseteq R
  BY <1>3, <1>4, SetInduction
<1>6. Cardinality(S) \in R /\ S \in U
  BY <1>0, <1>5, FS_CardinalityType
<1>7. Right(S)
  <2> HIDE DEF Right
  <2> QED BY <1>6 DEF R
<1> QED BY <1>1, <1>2, <1>7

LEMMA SumBelow ==
  ASSUME NEW S, IsFiniteSet(S), NEW f \in [S -> Nat], NEW g \in [S -> Nat], \A e \in S : g[e] <= f[e]
  PROVE  SumFunction(g) <= SumFunction(f)
<1> DEFINE F == Sums(f, S)
           G == Sums(g, S)
<1>0. PICK U : U = SUBSET S
  OBVIOUS
<1>1. /\ F[{}] = 0 /\ SumFunction(f) = F[S]
      /\ \A u \in U : u # {} => F[u] = f[Least(u)] + F[u \ {Least(u)}]
  <2>1. /\ SumFunction(f) = F[S] /\ F[{}] = 0
        /\ \A u \in SUBSET S : u # {} => F[u] = f[Least(u)] + F[u \ {Least(u)}]
    BY SumsOf
  <2> HIDE DEF F
  <2> QED BY <1>0, <2>1
<1>2. /\ G[{}] = 0 /\ SumFunction(g) = G[S]
      /\ \A u \in U : u # {} => G[u] = g[Least(u)] + G[u \ {Least(u)}]
  <2>1. /\ SumFunction(g) = G[S] /\ G[{}] = 0
        /\ \A u \in SUBSET S : u # {} => G[u] = g[Least(u)] + G[u \ {Least(u)}]
    BY SumsOf
  <2> HIDE DEF G
  <2> QED BY <1>0, <2>1
<1> HIDE DEF F, G
<1> DEFINE Below(u) == F[u] \in Nat /\ G[u] \in Nat /\ G[u] <= F[u]
           R == {n \in Nat : \A u \in U : Cardinality(u) = n => Below(u)}
<1>3. 0 \in R
  <2>1. ASSUME NEW u \in U, Cardinality(u) = 0 PROVE Below(u)
    <3>1. u = {}
      BY <1>0, <2>1, Subsets
    <3> QED BY <1>1, <1>2, <3>1
  <2> HIDE DEF Below
  <2> QED BY <2>1
<1>4. ASSUME NEW n \in Nat, n \in R PROVE n + 1 \in R
  <2> SUFFICES ASSUME NEW u \in U, Cardinality(u) = n + 1 PROVE Below(u)
    OBVIOUS
  <2>1. PICK x, v : x = Least(u) /\ v = u \ {Least(u)}
    OBVIOUS
  <2>2. u # {} /\ x \in u /\ v \in U /\ Cardinality(v) = n
    BY <1>0, <2>1, Subsets
  <2>3. Below(v)
    BY <1>4, <2>2
  <2>4. F[u] = f[x] + F[v] /\ G[u] = g[x] + G[v]
    BY <1>1, <1>2, <2>1, <2>2
  <2>5. x \in S
    BY <1>0, <2>2
  <2>6. f[x] \in Nat /\ g[x] \in Nat /\ g[x] <= f[x]
    BY <2>5
  <2> QED BY <2>3, <2>4, <2>6
<1> HIDE DEF R
<1>5. Nat \subseteq R
  BY <1>3, <1>4, SetInduction
<1>6. Cardinality(S) \in R /\ S \in U
  BY <1>0, <1>5, FS_CardinalityType
<1>7. Below(S)
  <2> HIDE DEF Below
  <2> QED BY <1>6 DEF R
<1> QED BY <1>1, <1>2, <1>7

----------------------------------------------------------------------------
(* The functions of the store.                                             *)

\* What a function that changes one download leaves of the others.
Same(s, t, e) ==
  /\ t.item[e].status = s.item[e].status /\ t.item[e].path = s.item[e].path
  /\ t.item[e].received = s.item[e].received
  /\ t.copy[e] = s.copy[e] /\ (HasHandle(t, e) <=> HasHandle(s, e))
  /\ t.held \cap {e} = s.held \cap {e}

LEMMA FitStays ==
  ASSUME NEW s, NEW t, NEW e, Fit(s, e), Same(s, t, e)
  PROVE  Fit(t, e)
BY DEF Fit, Same, Is

LEMMA OneDownload ==
  ASSUME NEW s, NEW t, NEW d, Sound(s), Typed(t), Fit(t, d),
         \A e \in Download : e # d => Same(s, t, e)
  PROVE  Sound(t)
BY FitStays DEF Sound

\* The items are those of s but for the status of d.
Restated(s, t, d, status) ==
  t.item = [s.item EXCEPT ![d].status = status]

LEMMA RestatedItems ==
  ASSUME NEW s, s.item \in [Download -> Item], NEW d \in Download, NEW status \in Status,
         NEW t, Restated(s, t, d, status)
  PROVE  /\ t.item \in [Download -> Item]
         /\ t.item[d].status = status /\ t.item[d].path = s.item[d].path
         /\ t.item[d].received = s.item[d].received /\ t.item[d].priority = s.item[d].priority
         /\ \A e \in Download : e # d => t.item[e] = s.item[e]
BY DEF Restated, Item

LEMMA PatchedFields ==
  ASSUME NEW s, Fields(s), NEW d, NEW status, NEW t, t = Patch(s, d, status)
  PROVE  /\ Fields(t) /\ Restated(s, t, d, status)
         /\ t.handles = s.handles /\ t.aborted = s.aborted /\ t.copy = s.copy /\ t.cap = s.cap
         /\ t.reserved = s.reserved /\ t.waiting = s.waiting /\ t.resume = s.resume /\ t.held = s.held
BY DEF Fields, Patch, Restated

\* Bytes are counted by what items have received and what is set aside.
LEMMA SameBytes ==
  ASSUME NEW s, NEW t,
         \A d \in Download : t.item[d].received = s.item[d].received /\ t.reserved[d] = s.reserved[d]
  PROVE  /\ Committed(t) = Committed(s)
         /\ \A p : HasBudget(t, p) <=> HasBudget(s, p)
<1>1. [d \in Download |-> t.item[d].received + t.reserved[d]]
        = [d \in Download |-> s.item[d].received + s.reserved[d]]
  OBVIOUS
<1>2. Committed(t) = Committed(s)
  BY <1>1 DEF Committed
<1> QED BY <1>2 DEF HasBudget

\* beginDownload, as its callers call it: for want of budget the item fails.
Refused(s, t, d) ==
  /\ Restated(s, t, d, "error")
  /\ t.handles = s.handles /\ t.copy = s.copy /\ t.held = s.held
  /\ t.cap = s.cap /\ t.reserved = s.reserved

\* Or its copy starts.
Started(s, t, d, p) ==
  /\ Restated(s, t, d, "downloading")
  /\ t.handles = Append(s.handles, d)
  /\ \E at \in {"selecting", "writing"} : t.copy = [s.copy EXCEPT ![d] = at]
  /\ t.held = s.held \cup ({d} \cap engine)
  /\ t.cap = [s.cap EXCEPT ![d] = IF p.quota = 0 THEN Unlimited
                                 ELSE s.item[d].received + (p.quota - Committed(s))]
  /\ t.reserved = [s.reserved EXCEPT ![d] = IF p.quota = 0 THEN @ ELSE p.quota - Committed(s)]

LEMMA Begins ==
  ASSUME NEW s, Fields(s), s.item \in [Download -> Item], NEW d \in Download, NEW p,
         NEW t, t = Begin(Patch(s, d, "downloading"), d, p)
  PROVE  /\ Fields(t)
         /\ t.aborted = s.aborted /\ t.resume = s.resume /\ t.waiting = s.waiting
         /\ IF HasBudget(s, p) THEN Started(s, t, d, p) ELSE Refused(s, t, d)
<1>1. PICK r : r = Patch(s, d, "downloading")
  OBVIOUS
<1>2. /\ Fields(r) /\ Restated(s, r, d, "downloading")
      /\ r.handles = s.handles /\ r.aborted = s.aborted /\ r.copy = s.copy /\ r.cap = s.cap
      /\ r.reserved = s.reserved /\ r.waiting = s.waiting /\ r.resume = s.resume /\ r.held = s.held
  BY <1>1, PatchedFields
<1>3. /\ HasBudget(r, p) <=> HasBudget(s, p)
      /\ Committed(r) = Committed(s) /\ r.item[d].received = s.item[d].received
  <2>1. \A e \in Download : r.item[e].received = s.item[e].received /\ r.reserved[e] = s.reserved[e]
    BY <1>2, RestatedItems DEF Status
  <2> QED BY <2>1, SameBytes
<1>4. t = Begin(r, d, p)
  BY <1>1
<1>5. CASE ~ HasBudget(r, p)
  <2>1. t = Patch(r, d, "error")
    BY <1>4, <1>5 DEF Begin
  <2>2. /\ Fields(t) /\ Restated(r, t, d, "error")
        /\ t.handles = r.handles /\ t.aborted = r.aborted /\ t.copy = r.copy /\ t.cap = r.cap
        /\ t.reserved = r.reserved /\ t.waiting = r.waiting /\ t.resume = r.resume /\ t.held = r.held
    BY <1>2, <2>1, PatchedFields
  <2>3. Restated(s, t, d, "error")
    BY <1>2, <2>2 DEF Restated, Item
  <2>4. ~ HasBudget(s, p)
    BY <1>3, <1>5
  <2> QED BY <1>2, <2>2, <2>3, <2>4 DEF Refused
<1>6. CASE HasBudget(r, p)
  <2>1. /\ Fields(t) /\ t.item = r.item
        /\ t.aborted = r.aborted /\ t.resume = r.resume /\ t.waiting = r.waiting
        /\ t.handles = Append(r.handles, d)
        /\ t.copy = [r.copy EXCEPT ![d] = IF d \in engine THEN "selecting" ELSE "writing"]
        /\ t.held = IF d \in engine THEN r.held \cup {d} ELSE r.held
        /\ t.cap = [r.cap EXCEPT ![d] = IF p.quota = 0 THEN Unlimited
                                       ELSE r.item[d].received + (p.quota - Committed(r))]
        /\ t.reserved = [r.reserved EXCEPT ![d] = IF p.quota = 0 THEN r.reserved[d]
                                                 ELSE p.quota - Committed(r)]
    <3> DEFINE spare == p.quota - Committed(r)
               cap == IF p.quota = 0 THEN Unlimited ELSE r.item[d].received + spare
               set == IF p.quota = 0 THEN r.reserved[d] ELSE spare
    <3>1. t = [r EXCEPT !.handles = Append(@, d), !.cap[d] = cap, !.reserved[d] = set,
                        !.copy[d] = IF d \in engine THEN "selecting" ELSE "writing",
                        !.held = IF d \in engine THEN @ \cup {d} ELSE @]
      BY <1>4, <1>6 DEF Begin
    <3> HIDE DEF cap, set
    <3>2. /\ Fields(t) /\ t.item = r.item
          /\ t.aborted = r.aborted /\ t.resume = r.resume /\ t.waiting = r.waiting
          /\ t.handles = Append(r.handles, d)
          /\ t.copy = [r.copy EXCEPT ![d] = IF d \in engine THEN "selecting" ELSE "writing"]
          /\ t.held = IF d \in engine THEN r.held \cup {d} ELSE r.held
          /\ t.cap = [r.cap EXCEPT ![d] = cap] /\ t.reserved = [r.reserved EXCEPT ![d] = set]
      BY <1>2, <3>1 DEF Fields
    <3> QED BY <3>2 DEF cap, set
  <2>2. Started(s, t, d, p)
    BY <1>2, <1>3, <2>1 DEF Started, Restated
  <2> QED BY <1>2, <1>3, <1>6, <2>1, <2>2
<1> QED BY <1>5, <1>6

\* What Begin keeps, for a startable download without a handle.
LEMMA BeginKeeps ==
  ASSUME NEW s, Sound(s), NEW d \in Download, NEW p, ~ HasHandle(s, d),
         s.item[d].status \in Startable,
         NEW t, t = Begin(Patch(s, d, "downloading"), d, p)
  PROVE  /\ Sound(t) /\ Forward(s, t)
         /\ t.aborted = s.aborted /\ t.resume = s.resume /\ t.waiting = s.waiting
         /\ \/ t.handles = s.handles /\ Shown(t) \subseteq Shown(s) /\ ~ HasBudget(s, p)
                 /\ (HasBudget(t, p) <=> HasBudget(s, p))
            \/ HasBudget(s, p) /\ Len(t.handles) = Len(s.handles) + 1
<1>1. /\ Fields(t)
      /\ t.aborted = s.aborted /\ t.resume = s.resume /\ t.waiting = s.waiting
      /\ IF HasBudget(s, p) THEN Started(s, t, d, p) ELSE Refused(s, t, d)
  BY Begins DEF Sound, Typed
<1>2. Typed(s) /\ Fit(s, d)
  BY DEF Sound
<1>3. s.copy[d] = "none" /\ ~ Is(s, d, "absent")
  BY <1>2 DEF Fit, Startable, Is
<1>4. CASE Refused(s, t, d) /\ ~ HasBudget(s, p)
  <2>1. /\ t.item \in [Download -> Item]
        /\ t.item[d].status = "error" /\ t.item[d].path = s.item[d].path
        /\ \A e \in Download : t.item[e].received = s.item[e].received
        /\ \A e \in Download : e # d => t.item[e] = s.item[e]
    BY <1>2, <1>4, RestatedItems DEF Refused, Typed, Status
  <2>2. Typed(t)
    BY <1>1, <1>2, <1>4, <2>1 DEF Refused, Typed
  <2>3. Fit(t, d)
    BY <1>2, <1>3, <1>4, <2>1 DEF Refused, Fit, Is, HasHandle, Ended
  <2>4. \A e \in Download : e # d => Same(s, t, e)
    BY <1>4, <2>1 DEF Refused, Same, HasHandle
  <2>5. Sound(t)
    BY <2>2, <2>3, <2>4, OneDownload
  <2>6. Forward(s, t)
    BY <1>4, <2>1 DEF Forward, Refused
  <2>7. Shown(t) \subseteq Shown(s)
    BY <2>1 DEF Shown, Is
  <2>8. HasBudget(t, p) <=> HasBudget(s, p)
    BY <1>4, <2>1, SameBytes DEF Refused
  <2> QED BY <1>1, <1>4, <2>5, <2>6, <2>7, <2>8 DEF Refused
<1>5. CASE HasBudget(s, p) /\ Started(s, t, d, p)
  <2>1. /\ t.item \in [Download -> Item]
        /\ t.item[d].status = "downloading" /\ t.item[d].path = s.item[d].path
        /\ \A e \in Download : e # d => t.item[e] = s.item[e]
    BY <1>2, <1>5, RestatedItems DEF Started, Typed, Status
  <2>2. /\ Listing(t.handles) /\ Len(t.handles) = Len(s.handles) + 1
        /\ \A e : HasHandle(t, e) <=> HasHandle(s, e) \/ e = d
    <3>1. Listing(s.handles) /\ ~ Contains(s.handles, d) /\ t.handles = Append(s.handles, d)
      BY <1>2, <1>5 DEF Started, Typed, HasHandle
    <3>2. /\ Listing(Append(s.handles, d)) /\ Len(Append(s.handles, d)) = Len(s.handles) + 1
          /\ \A e : Contains(Append(s.handles, d), e) <=> Contains(s.handles, e) \/ e = d
      BY <3>1, WithOne
    <3>3. \A e : Contains(t.handles, e) <=> Contains(s.handles, e) \/ e = d
      BY <3>1, <3>2, Zenon
    <3> QED BY <3>1, <3>2, <3>3 DEF HasHandle
  <2>3. t.copy \in [Download -> Copy] /\ t.copy[d] # "none"
        /\ \A e \in Download : e # d => t.copy[e] = s.copy[e]
    BY <1>2, <1>5 DEF Started, Typed, Copy
  <2>4. Typed(t)
    BY <1>1, <1>2, <1>5, <2>1, <2>2, <2>3 DEF Started, Typed
  <2>5. Fit(t, d)
    BY <1>2, <1>3, <1>5, <2>1, <2>2, <2>3 DEF Started, Fit, Is
  <2>6. \A e \in Download : e # d => Same(s, t, e)
    BY <1>5, <2>1, <2>2, <2>3 DEF Started, Same
  <2>7. Sound(t)
    BY <2>4, <2>5, <2>6, OneDownload
  <2>8. Forward(s, t)
    BY <2>1, <2>3 DEF Forward
  <2> QED BY <1>1, <1>5, <2>2, <2>7, <2>8
<1> QED BY <1>1, <1>4, <1>5

----------------------------------------------------------------------------
(* The budget.                                                             *)

\* What d holds back: nothing without a copy, and else at least what its copy
\* may still receive.
Promised(s, d) ==
  /\ ~ HasHandle(s, d) => s.reserved[d] = 0
  /\ HasHandle(s, d) /\ s.cap[d] # Unlimited =>
       (IF d \in Sized /\ Size <= s.cap[d] THEN Size ELSE s.cap[d])
         <= s.item[d].received + s.reserved[d]

Budgeted(s) ==
  /\ s.reserved \in [Download -> Nat] /\ s.cap \in [Download -> Nat \cup {Unlimited}]
  /\ \A d \in Download : Promised(s, d)

Limited(s) == \A d \in Download : s.cap[d] # Unlimited

Within(s, t, p) == Committed(t) <= p.quota \/ Committed(t) <= Committed(s)

\* A change of the list that overspends no quota.
Spends(s, t, p) == Budgeted(s) => Budgeted(t) /\ (p.quota # 0 => Within(s, t, p))

\* The same, unless copies from before there was a quota run on.
Thrifty(s, t, p) == Budgeted(s) => Budgeted(t) /\ (p.quota # 0 /\ Limited(s) => Within(s, t, p))

LEMMA CommittedMoves ==
  ASSUME NEW s, s.item \in [Download -> Item], s.reserved \in [Download -> Nat],
         NEW t, t.item \in [Download -> Item], t.reserved \in [Download -> Nat], NEW d \in Download,
         \A e \in Download : e # d =>
           t.item[e].received = s.item[e].received /\ t.reserved[e] = s.reserved[e]
  PROVE  /\ Committed(s) \in Nat /\ Committed(t) \in Nat
         /\ Committed(t) + (s.item[d].received + s.reserved[d])
              = Committed(s) + (t.item[d].received + t.reserved[d])
<1>0. Size \in Nat /\ IsFiniteSet(Download)
  BY DownloadsAssumption
<1>1. PICK f, g : /\ f = [e \in Download |-> s.item[e].received + s.reserved[e]]
                  /\ g = [e \in Download |-> t.item[e].received + t.reserved[e]]
  OBVIOUS
<1>2. /\ \A e \in Download : s.item[e].received \in Nat
      /\ \A e \in Download : t.item[e].received \in Nat
  BY <1>0 DEF Item
<1>3. f \in [Download -> Nat]
  BY <1>1, <1>2
<1>4. g \in [Download -> Nat]
  BY <1>1, <1>2
<1>5. \A e \in Download : e # d => g[e] = f[e]
  BY <1>1
<1>6. SumFunction(f) \in Nat /\ SumFunction(g) \in Nat
  BY <1>0, <1>3, <1>4, SumOfNaturals
<1>7. SumFunction(g) + f[d] = SumFunction(f) + g[d]
  BY <1>0, <1>3, <1>4, <1>5, SumMoves
<1>8. Committed(s) = SumFunction(f) /\ Committed(t) = SumFunction(g)
  BY <1>1 DEF Committed
<1> QED BY <1>1, <1>6, <1>7, <1>8

LEMMA CommittedIsNumber ==
  ASSUME NEW s, s.item \in [Download -> Item], s.reserved \in [Download -> Nat]
  PROVE  Committed(s) \in Nat
<1>0. Size \in Nat /\ IsFiniteSet(Download)
  BY DownloadsAssumption
<1>1. PICK f : f = [e \in Download |-> s.item[e].received + s.reserved[e]]
  OBVIOUS
<1>2. f \in [Download -> Nat]
  BY <1>0, <1>1 DEF Item
<1>3. SumFunction(f) \in Nat
  BY <1>0, <1>2, SumOfNaturals
<1> QED BY <1>1, <1>3 DEF Committed

\* A change that leaves bytes, promises and handles alone.
LEMMA SpendsNothing ==
  ASSUME NEW s, s.item \in [Download -> Item], NEW t, t.reserved = s.reserved, t.cap = s.cap,
         \A d \in Download : t.item[d].received = s.item[d].received,
         \A d \in Download : HasHandle(t, d) <=> HasHandle(s, d)
  PROVE  \A p : Spends(s, t, p)
<1> SUFFICES ASSUME NEW p, Budgeted(s) PROVE Budgeted(t) /\ Within(s, t, p)
  BY DEF Spends
<1>1. Budgeted(t)
  BY DEF Budgeted, Promised
<1>2. Committed(t) = Committed(s)
  BY SameBytes
<1>3. Committed(s) \in Nat
  BY CommittedIsNumber DEF Budgeted
<1> QED BY <1>1, <1>2, <1>3 DEF Within

LEMMA WithinTwice ==
  ASSUME NEW r, NEW s, NEW t, NEW p \in Policies, Within(r, s, p), Within(s, t, p),
         Committed(r) \in Nat, Committed(s) \in Nat, Committed(t) \in Nat
  PROVE  Within(r, t, p)
<1>1. p.quota \in Nat
  BY DownloadsAssumption
<1> QED BY <1>1 DEF Within

LEMMA SpendsTwice ==
  ASSUME NEW r, Typed(r), NEW s, Typed(s), NEW t, Typed(t), NEW p \in Policies, Spends(s, t, p)
  PROVE  /\ Spends(r, s, p) => Spends(r, t, p)
         /\ Thrifty(r, s, p) => Thrifty(r, t, p)
<1> SUFFICES ASSUME Budgeted(r), Budgeted(s), Budgeted(t), p.quota # 0, Within(r, s, p), Within(s, t, p)
             PROVE  Within(r, t, p)
  BY DEF Spends, Thrifty
<1>1. Committed(r) \in Nat /\ Committed(s) \in Nat /\ Committed(t) \in Nat
  BY CommittedIsNumber DEF Typed, Budgeted
<1> QED BY <1>1, WithinTwice

\* A copy is promised what is left of the quota.
LEMMA BeginSpends ==
  ASSUME NEW s, Sound(s), NEW d \in Download, NEW p \in Policies, ~ HasHandle(s, d),
         NEW t, t = Begin(Patch(s, d, "downloading"), d, p)
  PROVE  Spends(s, t, p)
<1> SUFFICES ASSUME Budgeted(s) PROVE Budgeted(t) /\ (p.quota # 0 => Within(s, t, p))
  BY DEF Spends
<1>1. IF HasBudget(s, p) THEN Started(s, t, d, p) ELSE Refused(s, t, d)
  BY Begins DEF Sound, Typed
<1>2. s.item \in [Download -> Item] /\ Listing(s.handles) /\ s.reserved[d] = 0
      /\ s.reserved \in [Download -> Nat] /\ s.cap \in [Download -> Nat \cup {Unlimited}]
      /\ p.quota \in Nat /\ Size \in Nat
  BY DownloadsAssumption DEF Sound, Typed, Budgeted, Promised
<1>3. CASE ~ HasBudget(s, p)
  <2>1. /\ \A e \in Download : t.item[e].received = s.item[e].received
        /\ t.handles = s.handles /\ t.cap = s.cap /\ t.reserved = s.reserved
    <3>1. Refused(s, t, d)
      BY <1>1, <1>3
    <3>2. /\ t.item[d].received = s.item[d].received
          /\ \A e \in Download : e # d => t.item[e] = s.item[e]
      BY <1>2, <3>1, RestatedItems DEF Refused, Status
    <3> QED BY <3>1, <3>2 DEF Refused
  <2>2. Spends(s, t, p)
    BY <1>2, <2>1, SpendsNothing DEF HasHandle
  <2> QED BY <2>2 DEF Spends
<1>4. CASE HasBudget(s, p)
  <2>1. Started(s, t, d, p)
    BY <1>1, <1>4
  <2>2. /\ t.item \in [Download -> Item]
        /\ \A e \in Download : t.item[e].received = s.item[e].received
    <3>1. /\ t.item \in [Download -> Item] /\ t.item[d].received = s.item[d].received
          /\ \A e \in Download : e # d => t.item[e] = s.item[e]
      BY <1>2, <2>1, RestatedItems DEF Started, Status
    <3> QED BY <3>1
  <2>3. \A e : HasHandle(t, e) <=> HasHandle(s, e) \/ e = d
    <3>1. /\ ~ Contains(s.handles, d) /\ t.handles = Append(s.handles, d)
      BY <2>1 DEF Started, HasHandle
    <3>2. \A e : Contains(Append(s.handles, d), e) <=> Contains(s.handles, e) \/ e = d
      BY <1>2, <3>1, WithOne
    <3>3. \A e : Contains(t.handles, e) <=> Contains(s.handles, e) \/ e = d
      BY <3>1, <3>2, Zenon
    <3> QED BY <3>3 DEF HasHandle
  <2>4. Committed(s) \in Nat
    BY <1>2, CommittedIsNumber
  <2>5. s.item[d].received \in Nat
    BY <1>2 DEF Item
  <2>6. CASE p.quota = 0
    <3>1. t.cap = [s.cap EXCEPT ![d] = Unlimited] /\ t.reserved = s.reserved
      BY <1>2, <2>1, <2>6 DEF Started
    <3>2. t.cap \in [Download -> Nat \cup {Unlimited}] /\ t.reserved \in [Download -> Nat]
      BY <1>2, <3>1
    <3>3. ASSUME NEW e \in Download PROVE Promised(t, e)
      <4>1. Promised(s, e)
        BY DEF Budgeted
      <4>2. CASE e = d
        BY <1>2, <2>3, <3>1, <4>2 DEF Promised
      <4>3. CASE e # d
        BY <1>2, <2>2, <2>3, <3>1, <4>1, <4>3 DEF Promised
      <4> QED BY <4>2, <4>3
    <3> QED BY <2>6, <3>2, <3>3 DEF Budgeted
  <2>7. CASE p.quota # 0
    <3>1. PICK spare : spare = p.quota - Committed(s)
      OBVIOUS
    <3>2. spare \in Nat /\ Committed(s) + spare = p.quota
      BY <1>2, <1>4, <2>4, <2>7, <3>1 DEF HasBudget
    <3>3. /\ t.cap = [s.cap EXCEPT ![d] = s.item[d].received + spare]
          /\ t.reserved = [s.reserved EXCEPT ![d] = spare]
      BY <2>1, <2>7, <3>1 DEF Started
    <3>4. t.cap \in [Download -> Nat \cup {Unlimited}] /\ t.reserved \in [Download -> Nat]
      BY <1>2, <2>5, <3>2, <3>3
    <3>5. t.cap[d] = s.item[d].received + spare /\ t.reserved[d] = spare
      BY <1>2, <3>3
    <3>6. ASSUME NEW e \in Download PROVE Promised(t, e)
      <4>1. Promised(s, e)
        BY DEF Budgeted
      <4>2. CASE e = d
        <5>1. t.item[d].received = s.item[d].received /\ HasHandle(t, d)
          BY <2>2, <2>3
        <5> QED BY <1>2, <2>5, <3>2, <3>5, <4>2, <5>1 DEF Promised
      <4>3. CASE e # d
        BY <1>2, <2>2, <2>3, <3>3, <4>1, <4>3 DEF Promised
      <4> QED BY <4>2, <4>3
    <3>7. /\ Committed(t) \in Nat
          /\ Committed(t) + (s.item[d].received + s.reserved[d])
               = Committed(s) + (t.item[d].received + t.reserved[d])
      <4>1. \A e \in Download : e # d =>
              t.item[e].received = s.item[e].received /\ t.reserved[e] = s.reserved[e]
        BY <1>2, <2>2, <3>3
      <4> QED BY <1>2, <2>2, <3>4, <4>1, CommittedMoves
    <3>8. t.item[d].received = s.item[d].received
      BY <2>2
    <3>9. Committed(t) = p.quota
      BY <1>2, <2>4, <2>5, <3>2, <3>5, <3>7, <3>8
    <3> QED BY <1>2, <3>4, <3>6, <3>9 DEF Budgeted, Within
  <2> QED BY <2>6, <2>7
<1> QED BY <1>3, <1>4

\* A download without a copy keeps no promise.
LEMMA SpendsLess ==
  ASSUME NEW s, s.item \in [Download -> Item], NEW t, t.item \in [Download -> Item], NEW d \in Download,
         t.cap \in {s.cap, [s.cap EXCEPT ![d] = 0]},
         \/ t.reserved = [s.reserved EXCEPT ![d] = 0]
         \/ t.reserved = s.reserved /\ ~ HasHandle(s, d),
         ~ HasHandle(t, d), t.item[d].received <= s.item[d].received,
         \A e \in Download : e # d => t.item[e].received = s.item[e].received,
         \A e \in Download : e # d => (HasHandle(t, e) <=> HasHandle(s, e))
  PROVE  \A p : Spends(s, t, p)
<1> SUFFICES ASSUME NEW p, Budgeted(s) PROVE Budgeted(t) /\ Within(s, t, p)
  BY DEF Spends
<1>1. /\ s.reserved \in [Download -> Nat] /\ s.cap \in [Download -> Nat \cup {Unlimited}]
      /\ \A e \in Download : Promised(s, e)
  BY DEF Budgeted
<1>2. /\ t.reserved \in [Download -> Nat] /\ t.reserved[d] = 0
      /\ \A e \in Download : e # d => t.reserved[e] = s.reserved[e]
  BY <1>1 DEF Promised
<1>3. /\ t.cap \in [Download -> Nat \cup {Unlimited}]
      /\ \A e \in Download : e # d => t.cap[e] = s.cap[e]
  BY <1>1
<1>4. ASSUME NEW e \in Download PROVE Promised(t, e)
  <2>1. CASE e = d
    BY <1>2, <2>1 DEF Promised
  <2>2. CASE e # d
    BY <1>1, <1>2, <1>3, <2>2 DEF Promised
  <2> QED BY <2>1, <2>2
<1>5. /\ Committed(s) \in Nat /\ Committed(t) \in Nat
      /\ Committed(t) + (s.item[d].received + s.reserved[d])
           = Committed(s) + (t.item[d].received + t.reserved[d])
  BY <1>1, <1>2, CommittedMoves
<1>6. s.item[d].received \in Nat /\ t.item[d].received \in Nat /\ s.reserved[d] \in Nat
  BY <1>1, DownloadsAssumption DEF Item
<1>7. Committed(t) <= Committed(s)
  BY <1>2, <1>5, <1>6
<1> QED BY <1>2, <1>3, <1>4, <1>7 DEF Budgeted, Within

\* A running copy receives what it was promised.
LEMMA ReceivedSpends ==
  ASSUME NEW s, s.item \in [Download -> Item], NEW t, t.item \in [Download -> Item], NEW d \in Download,
         NEW set, t.cap = s.cap, t.reserved = [s.reserved EXCEPT ![d] = set], HasHandle(s, d),
         \A e \in Download : HasHandle(t, e) <=> HasHandle(s, e),
         \A e \in Download : e # d => t.item[e].received = s.item[e].received,
         t.item[d].received = s.item[d].received + 1,
         t.item[d].received <= s.cap[d], d \in Sized => Size <= s.cap[d],
         set = IF s.cap[d] = Unlimited THEN s.reserved[d]
               ELSE Min({IF d \in Sized THEN Size ELSE s.cap[d], s.cap[d]}) - t.item[d].received
  PROVE  \A p : Thrifty(s, t, p)
<1> SUFFICES ASSUME NEW p, Budgeted(s) PROVE Budgeted(t) /\ (Limited(s) => Within(s, t, p))
  BY DEF Thrifty
<1>1. /\ s.reserved \in [Download -> Nat] /\ s.cap \in [Download -> Nat \cup {Unlimited}]
      /\ \A e \in Download : Promised(s, e)
  BY DEF Budgeted
<1>2. Size \in Nat /\ s.item[d].received \in 0 .. Size /\ t.item[d].received \in 0 .. Size
  BY DownloadsAssumption DEF Item
<1>3. PICK had, got : had = s.item[d].received /\ got = t.item[d].received
  OBVIOUS
<1>4. had \in 0 .. Size /\ got \in 0 .. Size /\ got = had + 1 /\ s.reserved[d] \in Nat
  BY <1>1, <1>2, <1>3
<1>5. ASSUME s.cap[d] # Unlimited
      PROVE  /\ set \in Nat /\ got + set <= had + s.reserved[d]
             /\ (IF d \in Sized /\ Size <= s.cap[d] THEN Size ELSE s.cap[d]) <= got + set
  <2>1. PICK b, c : b = (IF d \in Sized THEN Size ELSE s.cap[d]) /\ c = s.cap[d]
    OBVIOUS
  <2>2. c \in Nat /\ b \in Nat /\ b <= c /\ got <= b
    BY <1>1, <1>2, <1>3, <1>4, <1>5, <2>1
  <2>3. Min({b, c}) = b
    <3>1. \A n \in {b, c} : b <= n
      BY <2>2
    <3>2. \A m \in {b, c} : (\A n \in {b, c} : m <= n) => m = b
      BY <2>2
    <3> QED BY <3>1, <3>2 DEF Min
  <2>4. set = b - got
    BY <1>3, <1>5, <2>1, <2>3
  <2>5. b <= had + s.reserved[d]
    BY <1>1, <1>3, <1>5, <2>1, <2>2 DEF Promised
  <2>6. (IF d \in Sized /\ Size <= s.cap[d] THEN Size ELSE s.cap[d]) = b
    BY <2>1
  <2> QED BY <1>4, <2>2, <2>4, <2>5, <2>6
<1>6. set \in Nat
  BY <1>4, <1>5
<1>7. /\ t.reserved \in [Download -> Nat] /\ t.reserved[d] = set
      /\ \A e \in Download : e # d => t.reserved[e] = s.reserved[e]
  BY <1>1, <1>6
<1>8. ASSUME NEW e \in Download PROVE Promised(t, e)
  <2>1. Promised(s, e)
    BY <1>1
  <2>2. CASE e = d
    BY <1>3, <1>5, <1>7, <2>2 DEF Promised
  <2>3. CASE e # d
    BY <1>7, <2>1, <2>3 DEF Promised
  <2> QED BY <2>2, <2>3
<1>9. ASSUME s.cap[d] # Unlimited PROVE Committed(t) <= Committed(s)
  <2>1. /\ Committed(s) \in Nat /\ Committed(t) \in Nat
        /\ Committed(t) + (had + s.reserved[d]) = Committed(s) + (got + set)
    <3>1. /\ Committed(s) \in Nat /\ Committed(t) \in Nat
          /\ Committed(t) + (s.item[d].received + s.reserved[d])
               = Committed(s) + (t.item[d].received + t.reserved[d])
      <4>1. \A e \in Download : e # d =>
              t.item[e].received = s.item[e].received /\ t.reserved[e] = s.reserved[e]
        BY <1>7
      <4>2. s.item \in [Download -> Item] /\ t.item \in [Download -> Item]
        OBVIOUS
      <4>3. s.reserved \in [Download -> Nat] /\ t.reserved \in [Download -> Nat]
        BY <1>1, <1>7
      <4> QED BY ONLY <4>1, <4>2, <4>3, d \in Download, CommittedMoves
    <3> QED BY <1>3, <1>7, <3>1
  <2> QED BY <1>4, <1>5, <1>6, <1>9, <2>1
<1> QED BY <1>1, <1>7, <1>8, <1>9 DEF Budgeted, Limited, Within

\* Every item that shows as downloading has a handle.
LEMMA ShownHaveHandles ==
  ASSUME NEW s, Sound(s)
  PROVE  IsFiniteSet(Shown(s)) /\ Cardinality(Shown(s)) <= Len(s.handles)
<1> DEFINE q == s.handles
           n == Len(q)
<1>1. q \in Seq(Download) /\ n \in 0 .. Len(q)
  BY DEF Sound, Typed, Listing
<1>2. ASSUME NEW d \in Shown(s) PROVE \E k \in 1 .. n : q[k] = d
  <2>1. HasHandle(s, d)
    BY DEF Sound, Fit, Shown
  <2> QED BY <2>1 DEF HasHandle, Contains
<1> HIDE DEF q, n
<1>3. IsFiniteSet(Shown(s)) /\ Cardinality(Shown(s)) <= n
  BY <1>1, <1>2, Entries
<1> QED BY <1>3 DEF q, n

LEMMA FewerShown ==
  ASSUME NEW s, NEW t, Sound(s), NEW p \in Policies, Active(s, p), Shown(t) \subseteq Shown(s)
  PROVE  Active(t, p)
<1>1. IsFiniteSet(Shown(s))
  BY ShownHaveHandles
<1>2. IsFiniteSet(Shown(t)) /\ Cardinality(Shown(t)) <= Cardinality(Shown(s))
  BY <1>1, FS_Subset
<1>3. Cardinality(Shown(s)) \in Nat /\ Cardinality(Shown(t)) \in Nat /\ p.concurrent \in Nat
  BY <1>1, <1>2, FS_CardinalityType, DownloadsAssumption
<1> QED BY <1>2, <1>3 DEF Active

LEMMA WithinSlots ==
  ASSUME NEW s, Sound(s), NEW p \in Policies, Len(s.handles) <= p.concurrent
  PROVE  Active(s, p)
<1>1. IsFiniteSet(Shown(s)) /\ Cardinality(Shown(s)) <= Len(s.handles)
  BY ShownHaveHandles
<1>2. Len(s.handles) \in Nat /\ Cardinality(Shown(s)) \in Nat /\ p.concurrent \in Nat
  BY <1>1, FS_CardinalityType, DownloadsAssumption DEF Sound, Typed, Listing
<1> QED BY <1>1, <1>2 DEF Active

\* A new queue changes nothing else.
LEMMA Requeued ==
  ASSUME NEW s, Sound(s), NEW w, Listing(w), NEW t, t = [s EXCEPT !.waiting = w]
  PROVE  /\ Sound(t) /\ Forward(s, t) /\ Shown(t) = Shown(s)
         /\ t.waiting = w /\ t.item = s.item /\ t.handles = s.handles /\ t.copy = s.copy
         /\ t.aborted = s.aborted /\ t.resume = s.resume /\ t.held = s.held
         /\ t.cap = s.cap /\ t.reserved = s.reserved
         /\ \A p : HasBudget(t, p) <=> HasBudget(s, p)
         /\ \A p : Spends(s, t, p)
<1>1. /\ Fields(t)
      /\ t.waiting = w /\ t.item = s.item /\ t.handles = s.handles /\ t.copy = s.copy
      /\ t.aborted = s.aborted /\ t.resume = s.resume /\ t.held = s.held
      /\ t.cap = s.cap /\ t.reserved = s.reserved
  BY DEF Sound, Typed, Fields
<1>2. Typed(t)
  BY <1>1 DEF Sound, Typed
<1>3. ASSUME NEW e \in Download PROVE Fit(t, e)
  BY <1>1, FitStays DEF Sound, Same, HasHandle
<1>4. Forward(s, t)
  BY <1>1 DEF Forward
<1>5. Shown(t) = Shown(s)
  BY <1>1 DEF Shown, Is
<1>6. \A p : HasBudget(t, p) <=> HasBudget(s, p)
  BY <1>1, SameBytes
<1>7. \A p : Spends(s, t, p)
  BY <1>1, SpendsNothing DEF Sound, Typed, HasHandle
<1> QED BY <1>1, <1>2, <1>3, <1>4, <1>5, <1>6, <1>7 DEF Sound

LEMMA ForwardTwice ==
  ASSUME NEW r, NEW s, NEW t, Forward(r, s), Forward(s, t)
  PROVE  Forward(r, t)
BY DEF Forward, Startable

\* A status that is neither an end nor bound to a handle.
LEMMA Repatched ==
  ASSUME NEW s, Sound(s), NEW d \in Download, NEW status \in Status \ (Ended \cup {"downloading"}),
         ~ Is(s, d, "absent"), status = "queued" => ~ HasHandle(s, d),
         NEW t, t = Patch(s, d, status)
  PROVE  /\ Sound(t) /\ Shown(t) \subseteq Shown(s)
         /\ t.handles = s.handles /\ t.waiting = s.waiting /\ t.copy = s.copy
         /\ t.aborted = s.aborted /\ t.resume = s.resume /\ t.held = s.held
         /\ t.cap = s.cap /\ t.reserved = s.reserved
         /\ t.item[d].status = status
         /\ \A e \in Download : t.item[e].path = s.item[e].path /\ t.item[e].received = s.item[e].received
         /\ \A e \in Download : e # d => t.item[e] = s.item[e]
         /\ \A p : HasBudget(t, p) <=> HasBudget(s, p)
         /\ \A p : Spends(s, t, p)
<1>1. /\ Fields(t) /\ Restated(s, t, d, status)
      /\ t.handles = s.handles /\ t.aborted = s.aborted /\ t.copy = s.copy /\ t.cap = s.cap
      /\ t.reserved = s.reserved /\ t.waiting = s.waiting /\ t.resume = s.resume /\ t.held = s.held
  BY PatchedFields DEF Sound, Typed
<1>2. /\ t.item \in [Download -> Item]
      /\ t.item[d].status = status /\ t.item[d].path = s.item[d].path
      /\ t.item[d].received = s.item[d].received
      /\ \A e \in Download : e # d => t.item[e] = s.item[e]
  BY <1>1, RestatedItems DEF Sound, Typed
<1>3. Typed(t)
  BY <1>1, <1>2 DEF Sound, Typed
<1>4. Fit(t, d)
  BY <1>1, <1>2 DEF Sound, Fit, Is, HasHandle, Ended
<1>5. \A e \in Download : e # d => Same(s, t, e)
  BY <1>1, <1>2 DEF Same, HasHandle
<1>6. Sound(t)
  BY <1>3, <1>4, <1>5, OneDownload
<1>7. Shown(t) \subseteq Shown(s)
  BY <1>2 DEF Shown, Is
<1>8. \A p : HasBudget(t, p) <=> HasBudget(s, p)
  BY <1>1, <1>2, SameBytes
<1>9. \A p : Spends(s, t, p)
  BY <1>1, <1>2, SpendsNothing DEF Sound, Typed, HasHandle
<1> QED BY <1>1, <1>2, <1>6, <1>7, <1>8, <1>9

\* What starting or queueing one download, or handing on the free slots, keeps.
Kept(s, t, p) ==
  /\ Sound(t) /\ Forward(s, t) /\ Active(t, p)
  /\ t.aborted = s.aborted /\ t.resume = s.resume
  /\ Spends(s, t, p)

LEMMA NothingSpent ==
  ASSUME NEW s, Sound(s)
  PROVE  \A p : Spends(s, s, p) /\ Thrifty(s, s, p)
<1>1. \A p : Spends(s, s, p)
  BY SpendsNothing DEF Sound, Typed
<1> QED BY <1>1 DEF Spends, Thrifty

LEMMA StartOrQueueKeeps ==
  ASSUME NEW s, Sound(s), NEW d \in Download, NEW p \in Policies, Active(s, p),
         s.item[d].status \in Startable,
         NEW t, t = StartOrQueue(s, d, p)
  PROVE  Kept(s, t, p) /\ (Idle(s, p) => Idle(t, p))
<1>1. CASE Is(s, d, "absent") \/ HasHandle(s, d)
  <2>1. t = s
    BY <1>1 DEF StartOrQueue
  <2>2. Forward(s, s) /\ Spends(s, s, p)
    BY NothingSpent DEF Forward
  <2> QED BY <2>1, <2>2 DEF Kept
<1> DEFINE Fits == Len(s.handles) < p.concurrent /\ (HasBudget(s, p) \/ s.handles = <<>>)
<1>2. CASE ~ (Is(s, d, "absent") \/ HasHandle(s, d)) /\ Fits
  <2>1. t = Begin(Patch(s, d, "downloading"), d, p)
    BY <1>2 DEF StartOrQueue
  <2>2. /\ Sound(t) /\ Forward(s, t)
        /\ t.aborted = s.aborted /\ t.resume = s.resume /\ t.waiting = s.waiting
        /\ \/ t.handles = s.handles /\ Shown(t) \subseteq Shown(s) /\ ~ HasBudget(s, p)
                /\ (HasBudget(t, p) <=> HasBudget(s, p))
           \/ HasBudget(s, p) /\ Len(t.handles) = Len(s.handles) + 1
    BY <1>2, <2>1, BeginKeeps
  <2>3. Len(s.handles) \in Nat /\ p.concurrent \in Nat
    BY DownloadsAssumption DEF Sound, Typed, Listing
  <2>4. Active(t, p)
    <3>1. CASE Shown(t) \subseteq Shown(s)
      BY <3>1, FewerShown
    <3>2. CASE Len(t.handles) = Len(s.handles) + 1
      <4>1. Len(t.handles) <= p.concurrent
        BY <1>2, <2>3, <3>2
      <4> QED BY <2>2, <4>1, WithinSlots
    <3> QED BY <2>2, <3>1, <3>2
  <2>5. Idle(s, p) => Idle(t, p)
    <3>1. Idle(s, p) => s.waiting = <<>> \/ ~ HasBudget(s, p)
      BY <1>2, <2>3 DEF Idle
    <3>2. s.waiting = <<>> => Idle(t, p)
      BY <2>2 DEF Idle
    <3>3. ~ HasBudget(s, p) => Idle(t, p)
      <4>1. CASE ~ HasBudget(t, p)
        BY <4>1 DEF Idle
      <4> QED BY <2>2, <4>1
    <3> QED BY <3>1, <3>2, <3>3
  <2>6. Spends(s, t, p)
    BY <1>2, <2>1, BeginSpends
  <2> QED BY <2>2, <2>4, <2>5, <2>6 DEF Kept
<1>3. CASE ~ (Is(s, d, "absent") \/ HasHandle(s, d)) /\ ~ Fits
  <2> DEFINE w == IF Contains(s.waiting, d) THEN s.waiting ELSE Append(s.waiting, d)
             r == [s EXCEPT !.waiting = w]
  <2>1. t = Patch(r, d, "queued")
    BY <1>3 DEF StartOrQueue
  <2>2. Listing(s.waiting)
    BY DEF Sound, Typed
  <2>3. Listing(w)
    BY <2>2, WithOne
  <2> HIDE DEF w
  <2>4. /\ Sound(r) /\ Forward(s, r) /\ Shown(r) = Shown(s)
        /\ r.waiting = w /\ r.item = s.item /\ r.handles = s.handles /\ r.copy = s.copy
        /\ r.aborted = s.aborted /\ r.resume = s.resume /\ r.held = s.held
        /\ \A x : HasBudget(r, x) <=> HasBudget(s, x)
        /\ Spends(s, r, p)
    BY <2>3, Requeued
  <2> HIDE DEF r
  <2>5. ~ Is(r, d, "absent") /\ ~ HasHandle(r, d)
    BY <1>3, <2>4 DEF Is, HasHandle
  <2>6. /\ Sound(t) /\ Shown(t) \subseteq Shown(r)
        /\ t.handles = r.handles /\ t.copy = r.copy /\ t.aborted = r.aborted /\ t.resume = r.resume
        /\ t.item[d].status = "queued"
        /\ \A e \in Download : t.item[e].path = r.item[e].path
        /\ \A e \in Download : e # d => t.item[e] = r.item[e]
        /\ \A x : HasBudget(t, x) <=> HasBudget(r, x)
        /\ Spends(r, t, p)
    BY <2>1, <2>4, <2>5, Repatched DEF Status, Ended
  <2>7. Forward(s, t)
    BY <2>4, <2>6 DEF Forward
  <2>8. Active(t, p)
    BY <2>4, <2>6, FewerShown
  <2>9. Len(s.handles) \in Nat /\ p.concurrent \in Nat
    BY DownloadsAssumption DEF Sound, Typed, Listing
  <2>10. Idle(t, p)
    BY <1>3, <2>4, <2>6, <2>9 DEF Idle
  <2>11. Spends(s, t, p)
    BY <2>4, <2>6, SpendsTwice DEF Sound
  <2> QED BY <2>4, <2>6, <2>7, <2>8, <2>10, <2>11 DEF Kept
<1> QED BY <1>1, <1>2, <1>3

\* One turn of pump's loop.
LEMMA PumpOneKeeps ==
  ASSUME NEW s, Sound(s), NEW p \in Policies, Active(s, p), NEW t, t = PumpOne(s, p)
  PROVE  /\ Kept(s, t, p)
         /\ IF Idle(s, p) THEN t = s ELSE Len(t.waiting) = Len(s.waiting) - 1
<1>0. Forward(s, s) /\ Spends(s, s, p)
  BY NothingSpent DEF Forward
<1>1. CASE Idle(s, p)
  BY <1>0, <1>1 DEF Idle, PumpOne, Kept
<1>2. CASE ~ Idle(s, p)
  <2> DEFINE d == Head(s.waiting)
             w == Tail(s.waiting)
             r == [s EXCEPT !.waiting = w]
  <2>1. t = IF Is(s, d, "queued") THEN Begin(Patch(r, d, "downloading"), d, p) ELSE r
    BY <1>2 DEF PumpOne, Idle
  <2>2. Listing(s.waiting) /\ s.waiting # <<>>
    BY <1>2 DEF Sound, Typed, Idle
  <2>3. Listing(w) /\ Len(w) = Len(s.waiting) - 1 /\ d \in Download
    BY <2>2, Popped
  <2> HIDE DEF d, w
  <2>4. /\ Sound(r) /\ Forward(s, r) /\ Shown(r) = Shown(s)
        /\ r.waiting = w /\ r.item = s.item /\ r.handles = s.handles
        /\ r.aborted = s.aborted /\ r.resume = s.resume
        /\ Spends(s, r, p)
    BY <2>3, Requeued
  <2> HIDE DEF r
  <2>5. Active(r, p)
    BY <2>4 DEF Active
  <2>6. CASE ~ Is(s, d, "queued")
    BY <1>2, <2>1, <2>3, <2>4, <2>5, <2>6 DEF Kept
  <2>7. CASE Is(s, d, "queued")
    <3>1. ~ HasHandle(r, d) /\ r.item[d].status \in Startable
      BY <2>3, <2>4, <2>7 DEF Sound, Fit, Is, HasHandle, Startable
    <3>2. t = Begin(Patch(r, d, "downloading"), d, p)
      BY <2>1, <2>7
    <3>3. /\ Sound(t) /\ Forward(r, t)
          /\ t.aborted = r.aborted /\ t.resume = r.resume /\ t.waiting = r.waiting
          /\ \/ t.handles = r.handles /\ Shown(t) \subseteq Shown(r)
             \/ Len(t.handles) = Len(r.handles) + 1
      BY <2>3, <2>4, <3>1, <3>2, BeginKeeps
    <3>4. Forward(s, t)
      BY <2>4, <3>3, ForwardTwice
    <3>5. Active(t, p)
      <4>1. CASE Shown(t) \subseteq Shown(r)
        BY <2>4, <2>5, <4>1, FewerShown
      <4>2. CASE Len(t.handles) = Len(r.handles) + 1
        <5>1. Len(s.handles) \in Nat /\ p.concurrent \in Nat
          BY DownloadsAssumption DEF Sound, Typed, Listing
        <5>2. Len(t.handles) <= p.concurrent
          BY <1>2, <2>4, <4>2, <5>1 DEF Idle
        <5> QED BY <3>3, <5>2, WithinSlots
      <4> QED BY <3>3, <4>1, <4>2
    <3>6. Spends(r, t, p)
      BY <2>3, <2>4, <3>1, <3>2, BeginSpends
    <3>7. Spends(s, t, p)
      BY <2>4, <3>3, <3>6, SpendsTwice DEF Sound
    <3> QED BY <1>2, <2>3, <2>4, <3>3, <3>4, <3>5, <3>7 DEF Kept
  <2> QED BY <2>6, <2>7
<1> QED BY <1>1, <1>2

\* The whole loop: when it ends nothing more can be started.
LEMMA PumpKeeps ==
  ASSUME NEW s, Sound(s), NEW p \in Policies, Active(s, p)
  PROVE  Kept(s, Pump(s, p), p) /\ Idle(Pump(s, p), p)
<1> DEFINE q == ByPriority(s)
           at(n) == Pumping(s, p)[n]
           Good(n) == Kept(s, at(n), p) /\ (Idle(at(n), p) \/ Len(at(n).waiting) = Len(s.waiting) - n)
           S == {n \in Nat : Good(n)}
<1>1. at(0) = [s EXCEPT !.waiting = q] /\ \A n \in Nat : at(n + 1) = PumpOne(at(n), p)
  BY PumpingSteps
<1>2. Listing(q) /\ Len(q) = Len(s.waiting)
  BY Sorted DEF Sound, Typed
<1>3. Len(s.waiting) \in Nat
  BY DEF Sound, Typed, Listing
<1> HIDE DEF q, at
<1>4. 0 \in S
  <2>1. /\ Sound(at(0)) /\ Forward(s, at(0)) /\ Shown(at(0)) = Shown(s)
        /\ at(0).waiting = q /\ at(0).aborted = s.aborted /\ at(0).resume = s.resume
        /\ Spends(s, at(0), p)
    BY <1>1, <1>2, Requeued
  <2>2. Active(at(0), p)
    BY <2>1 DEF Active
  <2> QED BY <1>2, <1>3, <2>1, <2>2 DEF Kept
<1>5. ASSUME NEW n \in Nat, n \in S PROVE n + 1 \in S
  <2>1. Good(n)
    BY <1>5
  <2>2. PICK r, t : r = at(n) /\ t = at(n + 1)
    OBVIOUS
  <2>3. t = PumpOne(r, p) /\ Sound(r) /\ Active(r, p)
    BY <1>1, <2>1, <2>2 DEF Kept
  <2>4. Kept(r, t, p) /\ IF Idle(r, p) THEN t = r ELSE Len(t.waiting) = Len(r.waiting) - 1
    BY <2>3, PumpOneKeeps
  <2>5. Kept(s, t, p)
    <3>1. Forward(s, t)
      BY <2>1, <2>2, <2>4, ForwardTwice DEF Kept
    <3>2. Spends(s, r, p) /\ Spends(r, t, p) /\ Typed(s) /\ Typed(r) /\ Typed(t)
      BY <2>1, <2>2, <2>4 DEF Kept, Sound
    <3>3. Spends(s, t, p)
      BY <3>2, SpendsTwice
    <3> QED BY <2>1, <2>2, <2>4, <3>1, <3>3 DEF Kept
  <2>6. Idle(t, p) \/ Len(t.waiting) = Len(s.waiting) - (n + 1)
    BY <1>3, <2>1, <2>2, <2>4
  <2> QED BY <2>2, <2>5, <2>6
<1> HIDE DEF S
<1>6. Nat \subseteq S
  BY <1>4, <1>5, SetInduction
<1>7. Good(Len(s.waiting))
  BY <1>3, <1>6 DEF S
<1>8. Pump(s, p) = at(Len(s.waiting))
  BY DEF Pump, at
<1>9. PICK t : t = Pump(s, p)
  OBVIOUS
<1>10. Idle(t, p)
  <2>1. Idle(t, p) \/ Len(t.waiting) = 0
    BY <1>3, <1>7, <1>8, <1>9
  <2>2. t.waiting \in Seq(Download)
    BY <1>7, <1>8, <1>9 DEF Kept, Sound, Typed, Listing
  <2>3. Len(t.waiting) = 0 => t.waiting = <<>>
    BY <2>2
  <2> QED BY <2>1, <2>3 DEF Idle
<1> QED BY <1>7, <1>8, <1>9, <1>10

----------------------------------------------------------------------------
(* The other functions of the store.                                       *)

\* What relates the list to the rest follows from Forward.
LEMMA ContextForward ==
  ASSUME NEW s, NEW t, Sound(s), Sound(t), Forward(s, t), NEW c, NEW m, NEW cl, Context(s, c, m, cl)
  PROVE  Context(t, c, m, cl)
<1>1. ASSUME NEW d \in Download PROVE Follows(t, c, m, cl, d)
  <2>1. Follows(s, c, m, cl, d) /\ Fit(s, d) /\ Fit(t, d)
    BY DEF Context, Sound
  <2>2. CASE t.item[d].status = s.item[d].status /\ t.copy[d] = s.copy[d]
    <3>1. HasHandle(t, d) <=> HasHandle(s, d)
      BY <2>1, <2>2 DEF Fit
    <3> QED BY <2>1, <2>2, <3>1 DEF Follows, Is
  <2>3. CASE s.item[d].status \in Startable
    BY <2>1, <2>3 DEF Follows, Is, Startable, Ended
  <2> QED BY <2>2, <2>3 DEF Forward
<1> QED BY <1>1 DEF Context

\* The files only depend on names and on what is done.
LEMMA FilesStay ==
  ASSUME NEW s, NEW t, NEW c, NEW c2, NEW nm, NEW nm2, NEW dk, Files(s, c, nm, dk), nm2 \subseteq Name,
         \A d \in Download : t.item[d].path = s.item[d].path,
         engine = {} => \A d \in Download :
           /\ Is(t, d, "done") => Is(s, d, "done") \/ dk[t.item[d].path] = d
           /\ c2[d].at = "checking" => c2[d] = c[d] /\ c2[d].path \in nm2
  PROVE  Files(t, c2, nm2, dk)
<1>1. ASSUME engine = {}, NEW d \in Download PROVE OwnsAlone(t, c2, nm2, dk, d)
  <2>1. \A e \in Download : OwnsAlone(s, c, nm, dk, e)
    BY <1>1 DEF Files
  <2>2. ASSUME c2[d].at = "checking", NEW e \in Download, e # d, c2[e].at = "checking"
        PROVE  c2[e].path # c2[d].path
    <3>1. c2[d] = c[d] /\ c2[e] = c[e]
      BY <1>1, <2>2
    <3> QED BY <2>1, <2>2, <3>1 DEF OwnsAlone
  <2>3. OwnsAlone(s, c, nm, dk, d)
    BY <2>1
  <2> QED BY <1>1, <2>2, <2>3 DEF OwnsAlone
<1> QED BY <1>1 DEF Files

LEMMA FilesForward ==
  ASSUME NEW s, NEW t, Forward(s, t), NEW c, NEW nm, NEW dk, Files(s, c, nm, dk)
  PROVE  Files(t, c, nm, dk)
<1>1. nm \subseteq Name /\ \A d \in Download : t.item[d].path = s.item[d].path
  BY DEF Forward, Files
<1>2. ASSUME engine = {}, NEW d \in Download
      PROVE  /\ Is(t, d, "done") => Is(s, d, "done") \/ dk[t.item[d].path] = d
             /\ c[d].at = "checking" => c[d] = c[d] /\ c[d].path \in nm
  BY <1>2 DEF Forward, Startable, Is, Files, OwnsAlone
<1> QED BY <1>1, <1>2, FilesStay

\* One download changes; what relates it to the rest is to be shown.
LEMMA ContextOne ==
  ASSUME NEW s, NEW t, NEW c, NEW c2, NEW m, NEW m2, NEW cl, NEW cl2, Context(s, c, m, cl),
         c2 \in Calls, m2 \in Removals, cl2 \subseteq Download,
         NEW d \in Download, Follows(t, c2, m2, cl2, d),
         \A e \in Download : e # d =>
           /\ Same(s, t, e) /\ c2[e] = c[e] /\ m2[e] = m[e] /\ (e \in cl2 => e \in cl)
  PROVE  Context(t, c2, m2, cl2)
<1>1. ASSUME NEW e \in Download, e # d PROVE Follows(t, c2, m2, cl2, e)
  <2>1. Same(s, t, e) /\ c2[e] = c[e] /\ m2[e] = m[e] /\ (e \in cl2 => e \in cl)
    BY <1>1
  <2> QED BY <2>1 DEF Context, Follows, Same, Is
<1> QED BY <1>1 DEF Context

\* What every step is shown to do.
Preserved == IInv' /\ Thrifty(store, store', policy')

\* The invariant after a step, from its parts.
LEMMA After ==
  ASSUME UNCHANGED engine, engine \subseteq Download, policy' \in Policies,
         Sound(store'), Active(store', policy'),
         closing' # {} \/ Idle(store', policy'),
         Context(store', call', removal', closing'), Files(store', call', names', disk'),
         Thrifty(store, store', policy')
  PROVE  Preserved
<1>1. Sound(store)'
  BY DEF Sound, Typed, Fit
<1>2. Active(store, policy)' /\ (closing # {} \/ Idle(store, policy))'
  BY DEF Active, Shown, Idle, Is, HasBudget, Committed
<1>3. Context(store, call, removal, closing)'
  BY DEF Context, Follows
<1>4. Files(store, call, names, disk)'
  BY DEF Files, OwnsAlone
<1> QED BY <1>1, <1>2, <1>3, <1>4 DEF IInv, Preserved

\* A step that ends in a pump, from what it pumps.
LEMMA AfterPump ==
  ASSUME IInv, UNCHANGED engine, engine \subseteq Download, policy' \in Policies,
         NEW s, Sound(s), Active(s, policy'), store' = Pump(s, policy'), Thrifty(store, s, policy'),
         Context(s, call', removal', closing'), Files(s, call', names', disk')
  PROVE  Preserved
<1>1. Kept(s, store', policy') /\ Idle(store', policy')
  BY PumpKeeps
<1>2. Context(store', call', removal', closing')
  BY <1>1, ContextForward DEF Kept
<1>3. Files(store', call', names', disk')
  BY <1>1, FilesForward DEF Kept
<1>4. Thrifty(store, store', policy')
  BY <1>1, SpendsTwice DEF Kept, IInv, Sound
<1> QED BY <1>1, <1>2, <1>3, <1>4, After DEF Kept

\* A step that ends by starting or queueing a download.
LEMMA AfterStart ==
  ASSUME IInv, UNCHANGED engine, engine \subseteq Download, policy' \in Policies,
         NEW s, Sound(s), Active(s, policy'), Thrifty(store, s, policy'), NEW d \in Download, s.item[d].status \in Startable,
         store' = StartOrQueue(s, d, policy'), closing' # {} \/ Idle(s, policy'),
         Context(s, call', removal', closing'), Files(s, call', names', disk')
  PROVE  Preserved
<1>1. Kept(s, store', policy') /\ (Idle(s, policy') => Idle(store', policy'))
  BY StartOrQueueKeeps
<1>2. Context(store', call', removal', closing')
  BY <1>1, ContextForward DEF Kept
<1>3. Files(store', call', names', disk')
  BY <1>1, FilesForward DEF Kept
<1>4. Thrifty(store, store', policy')
  BY <1>1, SpendsTwice DEF Kept, IInv, Sound
<1> QED BY <1>1, <1>2, <1>3, <1>4, After DEF Kept

----------------------------------------------------------------------------
(* The steps of enqueueDownload.                                           *)

LEMMA NamesApart == NoName \notin Name /\ Taken \subseteq Name /\ Name \subseteq Nat
BY DownloadsAssumption DEF NoName, Name

LEMMA InitKeeps == Init => IInv
<1> SUFFICES ASSUME Init PROVE IInv
  OBVIOUS
<1> DEFINE s == EmptyStore
<1>1. /\ Fields(s) /\ s.item = [d \in Download |-> NoItem] /\ s.handles = <<>> /\ s.aborted = {}
      /\ s.copy = [d \in Download |-> "none"] /\ s.waiting = <<>> /\ s.resume = {} /\ s.held = {}
  BY DEF EmptyStore, Fields
<1> HIDE DEF s
<1>2. NoItem \in Item
  BY DownloadsAssumption DEF NoItem, Item, Status, NoName
<1>3. Typed(s)
  BY <1>1, <1>2 DEF Typed, Listing, IsInjective, Copy
<1>4. ASSUME NEW d \in Download PROVE Fit(s, d)
  BY <1>1 DEF Fit, HasHandle, Contains, Is, NoItem
<1>5. Sound(s)
  BY <1>3, <1>4 DEF Sound
<1>6. Active(s, policy) /\ policy \in Policies
  <2>1. Shown(s) = {}
    BY <1>1 DEF Shown, Is, NoItem
  <2>2. policy \in Policies /\ policy.concurrent \in Nat
    BY DownloadsAssumption DEF Init
  <2> QED BY <2>1, <2>2, FS_EmptySet DEF Active
<1>7. ASSUME NEW d \in Download PROVE Follows(s, call, removal, closing, d)
  BY <1>1 DEF Init, Follows, Is, NoItem
<1>8. call \in Calls /\ removal \in Removals /\ closing \subseteq Download
  BY DEF Init, Calls, Removals
<1>9. Context(s, call, removal, closing)
  BY <1>7, <1>8 DEF Context
<1>10. /\ disk \in [Name -> Download \cup {Nobody, Foreign}]
       /\ \A n \in Name : disk[n] = Foreign <=> n \in Taken
       /\ \A n \in Name : disk[n] \notin Download
  BY DownloadsAssumption DEF Init, Foreign, Nobody
<1>11. ASSUME NEW d \in Download PROVE OwnsAlone(s, call, names, disk, d)
  BY <1>1, <1>10 DEF Init, OwnsAlone, Is, NoItem
<1>12. Files(s, call, names, disk)
  <2>1. \A d \in Download : s.item[d].path = NoName
    BY <1>1 DEF NoItem
  <2>2. names = {} /\ NoName \notin Taken
    BY NamesApart DEF Init
  <2> QED BY <1>10, <1>11, <2>1, <2>2 DEF Files
<1> QED BY <1>1, <1>5, <1>6, <1>9, <1>12, DownloadsAssumption DEF IInv, Init, Idle, s

\* The name reservePath returns is unowned, or there is none.
LEMMA NextNameUnowned ==
  ASSUME NEW n
  PROVE  NextName(n) = NoName \/ (NextName(n) \in Name /\ Unowned(NextName(n)))
<1> DEFINE free == {m \in Name : m >= n /\ Unowned(m)}
<1>1. CASE free = {}
  BY <1>1 DEF NextName
<1>2. CASE free # {}
  <2>1. free \in SUBSET Nat
    BY NamesApart
  <2>2. \E x \in free : \A y \in free : x <= y
    <3> HIDE DEF free
    <3> QED BY <1>2, <2>1, LeastNumber
  <2>3. NextName(n) = Min(free)
    BY <1>2 DEF NextName
  <2>4. NextName(n) \in free
    <3> HIDE DEF free
    <3> QED BY <2>2, <2>3 DEF Min
  <2> QED BY <2>4
<1> QED BY <1>1, <1>2

\* A call of enqueueDownload moves on: its old name is given back, and a new
\* one is nobody's.
LEMMA CallMoves ==
  ASSUME NEW s, NEW c, NEW m, NEW cl, NEW nm, NEW nm2, NEW dk, Context(s, c, m, cl), Files(s, c, nm, dk),
         NEW d \in Download, c[d].at # "returned", NEW r, NEW c2, c2 = [c EXCEPT ![d] = r],
         nm2 \subseteq Name, nm \ {c[d].path} \subseteq nm2,
         r.at = "checking" =>
           r.path \in nm2 /\ r.path \notin nm /\ \A e \in Download : s.item[e].path # r.path
  PROVE  Files(s, c2, nm2, dk)
<1>1. c \in Calls
  BY DEF Context
<1>2. c2[d] = r /\ \A e \in Download : e # d => c2[e] = c[e]
  BY <1>1 DEF Calls
<1>3. ASSUME engine = {}, NEW e \in Download PROVE OwnsAlone(s, c2, nm2, dk, e)
  <2>1. \A x \in Download : OwnsAlone(s, c, nm, dk, x) /\ Follows(s, c, m, cl, x)
    BY <1>3 DEF Files, Context
  <2>2. c[d].at \in {"new", "checking"}
    BY <1>1, <1>3, <2>1 DEF Follows, Calls
  <2>3. CASE e = d
    BY <1>2, <2>1, <2>3 DEF OwnsAlone
  <2>4. CASE e # d
    <3>1. c[e].at = "checking" => c[e].path # c[d].path
      BY <2>1, <2>2, <2>4, NamesApart DEF OwnsAlone, Follows
    <3>2. c[e].at = "checking" => c[e].path \in nm2
      BY <2>1, <3>1 DEF OwnsAlone
    <3>3. c[e].at = "checking" /\ r.at = "checking" => c[e].path # r.path
      BY <2>1 DEF OwnsAlone
    <3> QED BY <1>2, <2>1, <2>4, <3>2, <3>3 DEF OwnsAlone
  <2> QED BY <2>3, <2>4
<1> QED BY <1>3 DEF Files

LEMMA Unchanged ==
  ASSUME IInv, UNCHANGED <<store, engine, policy, closing>>,
         Context(store, call', removal', closing), Files(store, call', names', disk')
  PROVE  Preserved
<1>1. store' = store /\ engine' = engine /\ policy' = policy /\ closing' = closing
  OBVIOUS
<1>2. /\ policy' \in Policies /\ engine \subseteq Download /\ Sound(store') /\ Active(store', policy')
      /\ closing' # {} \/ Idle(store', policy')
      /\ Context(store', call', removal', closing') /\ Files(store', call', names', disk')
  BY <1>1 DEF IInv
<1>3. Thrifty(store, store', policy')
  BY <1>1, NothingSpent DEF IInv
<1> QED BY <1>1, <1>2, <1>3, After

LEMMA CallContext ==
  ASSUME NEW s, NEW c, NEW m, NEW cl, Context(s, c, m, cl), NEW d \in Download,
         c[d].at # "returned", NEW r,
         \/ r \in [at : {"returned"}, path : {NoName}]
         \/ r \in [at : {"checking"}, path : Name] /\ c[d].at \in {"new", "checking"}
  PROVE  Context(s, [c EXCEPT ![d] = r], m, cl)
<1>1. PICK c2 : c2 = [c EXCEPT ![d] = r]
  OBVIOUS
<1>2. c \in Calls /\ m \in Removals /\ cl \subseteq Download /\ Follows(s, c, m, cl, d)
  BY DEF Context
<1>3. c2 \in Calls /\ c2[d] = r /\ \A e \in Download : e # d => c2[e] = c[e]
  BY <1>1, <1>2 DEF Calls
<1>4. Follows(s, c2, m, cl, d)
  BY <1>2, <1>3 DEF Follows
<1>5. \A e \in Download : Same(s, s, e)
  BY DEF Same
<1>6. Context(s, c2, m, cl)
  BY <1>2, <1>3, <1>4, <1>5, ContextOne
<1> QED BY <1>1, <1>6

LEMMA TryNameKeeps ==
  ASSUME IInv, NEW d \in Download, call[d].at \in {"new", "checking"}, NEW n, TryName(d, NextName(n)),
         UNCHANGED <<store, engine, policy, removal, closing, disk>>
  PROVE  Preserved
<1> DEFINE x == NextName(n)
<1>1. Context(store, call, removal, closing) /\ Files(store, call, names, disk)
  BY DEF IInv
<1>2. names \subseteq Name
  BY <1>1 DEF Files
<1>3. CASE x = NoName
  <2> DEFINE r == [at |-> "returned", path |-> NoName]
  <2>1. call' = [call EXCEPT ![d] = r] /\ names' = names \ {call[d].path}
    BY <1>3 DEF TryName
  <2>2. Context(store, call', removal, closing)
    BY <1>1, <2>1, CallContext
  <2>3. Files(store, call', names', disk)
    BY <1>1, <1>2, <2>1, CallMoves
  <2> QED BY <2>2, <2>3, Unchanged
<1>4. CASE x # NoName
  <2> DEFINE r == [at |-> "checking", path |-> x]
  <2>1. call' = [call EXCEPT ![d] = r] /\ names' = (names \ {call[d].path}) \cup {x}
    BY <1>4 DEF TryName
  <2>2. x \in Name /\ Unowned(x)
    BY <1>4, NextNameUnowned
  <2> HIDE DEF x
  <2>3. Context(store, call', removal, closing)
    BY <1>1, <2>1, <2>2, CallContext
  <2>4. Files(store, call', names', disk)
    BY <1>1, <1>2, <2>1, <2>2, CallMoves DEF Unowned
  <2> QED BY <2>3, <2>4, Unchanged
<1> QED BY <1>3, <1>4

LEMMA ReturnKeeps ==
  ASSUME NEW s, NEW d \in Download, Context(s, call, removal, closing), Files(s, call, names, disk),
         call[d].at # "returned", Return(d)
  PROVE  Context(s, call', removal, closing) /\ Files(s, call', names', disk)
<1> DEFINE r == [at |-> "returned", path |-> NoName]
<1>1. call' = [call EXCEPT ![d] = r] /\ names' = names \ {call[d].path}
  BY DEF Return
<1>2. Context(s, call', removal, closing)
  BY <1>1, CallContext
<1>3. names \subseteq Name
  BY DEF Files
<1>4. Files(s, call', names', disk)
  BY <1>1, <1>3, CallMoves
<1> QED BY <1>2, <1>4

LEMMA EnqueueKeeps ==
  ASSUME IInv, NEW d \in Download, Enqueue(d) \/ NameExists(d) \/ CheckFails(d)
  PROVE  Preserved
<1>1. CASE Enqueue(d)
  BY <1>1, TryNameKeeps DEF Enqueue
<1>2. CASE NameExists(d)
  BY <1>2, TryNameKeeps DEF NameExists
<1>3. CASE CheckFails(d)
  BY <1>3, ReturnKeeps, Unchanged DEF CheckFails, IInv
<1> QED BY <1>1, <1>2, <1>3

\* An item is listed under the name its call has reserved.
Listed(s, t, d, path) ==
  /\ Fields(t)
  /\ t.item = [s.item EXCEPT ![d] = [NoItem EXCEPT !.status = "queued", !.path = path]]
  /\ t.held = s.held \cup ({d} \cap engine)
  /\ t.handles = s.handles /\ t.copy = s.copy /\ t.waiting = s.waiting
  /\ t.aborted = s.aborted /\ t.resume = s.resume /\ t.reserved = s.reserved /\ t.cap = s.cap

LEMMA ListedKeeps ==
  ASSUME IInv, NEW d \in Download, call[d].at = "checking", disk[call[d].path] = Nobody,
         NEW t, Listed(store, t, d, call[d].path),
         NEW r, \/ r = [at |-> "returned", path |-> NoName]
                \/ d \in engine /\ r = [at |-> "retaining", path |-> call[d].path],
         call' = [call EXCEPT ![d] = r], names' \subseteq Name, names \ {call[d].path} \subseteq names'
  PROVE  /\ Sound(t) /\ Active(t, policy) /\ (Idle(store, policy) => Idle(t, policy))
         /\ Is(t, d, "queued") /\ Thrifty(store, t, policy)
         /\ Context(t, call', removal, closing) /\ Files(t, call', names', disk)
<1> DEFINE p == call[d].path
<1>1. /\ Typed(store) /\ Fit(store, d) /\ Follows(store, call, removal, closing, d)
      /\ call \in Calls /\ removal \in Removals /\ closing \subseteq Download
  BY DEF IInv, Sound, Context
<1>2. /\ Is(store, d, "absent") /\ d \notin closing /\ p \in Name
      /\ store.item[d].path = NoName /\ store.item[d].received = 0 /\ ~ HasHandle(store, d)
      /\ d \notin store.held /\ store.copy[d] = "none"
  BY <1>1 DEF Follows, Fit, Is, Ended
<1>3. NoItem \in Item
  BY DownloadsAssumption DEF NoItem, Item, Status, NoName
<1>4. /\ t.item \in [Download -> Item] /\ t.item[d].status = "queued"
      /\ t.item[d].path = p /\ t.item[d].received = 0
      /\ \A e \in Download : e # d => t.item[e] = store.item[e]
  <2> DEFINE new == [NoItem EXCEPT !.status = "queued", !.path = p]
  <2>1. new.status = "queued" /\ new.path = p /\ new.received = 0 /\ new \in Item
    <3>1. PICK none : none = NoItem
      OBVIOUS
    <3>2. none \in Item /\ none.received = 0
      BY <1>3, <3>1 DEF NoItem
    <3>3. new = [none EXCEPT !.status = "queued", !.path = p]
      BY <3>1
    <3> HIDE DEF p, new
    <3> QED BY <1>2, <3>2, <3>3 DEF Item, Status
  <2>2. t.item = [store.item EXCEPT ![d] = new] /\ store.item \in [Download -> Item]
    BY <1>1 DEF Listed, Typed
  <2> HIDE DEF new
  <2> QED BY <2>1, <2>2
<1> HIDE DEF p
<1>5. Typed(t)
  <2>1. t.held \subseteq engine
    BY <1>1 DEF Listed, Typed
  <2> QED BY <1>1, <1>4, <2>1 DEF Listed, Typed
<1>6. Fit(t, d)
  BY <1>2, <1>4, NamesApart DEF Listed, Fit, Is, HasHandle, Ended
<1>7. \A e \in Download : e # d => Same(store, t, e)
  BY <1>4 DEF Listed, Same, HasHandle
<1>8. Sound(t)
  BY <1>5, <1>6, <1>7, OneDownload DEF IInv
<1>9. Active(t, policy)
  <2>1. Shown(t) \subseteq Shown(store)
    BY <1>4 DEF Shown, Is
  <2> QED BY <2>1, FewerShown DEF IInv
<1>10. Idle(store, policy) => Idle(t, policy)
  <2>1. \A e \in Download : t.item[e].received = store.item[e].received /\ t.reserved[e] = store.reserved[e]
    BY <1>2, <1>4 DEF Listed
  <2>2. HasBudget(t, policy) <=> HasBudget(store, policy)
    BY <2>1, SameBytes
  <2>3. t.waiting = store.waiting /\ t.handles = store.handles
    BY DEF Listed
  <2> QED BY <2>2, <2>3 DEF Idle
<1>11. /\ call' \in Calls /\ call'[d] = r /\ call'[d].at # "checking"
       /\ \A e \in Download : e # d => call'[e] = call[e]
  BY <1>1, <1>2 DEF Calls, p
<1>12. Context(t, call', removal, closing)
  <2>1. Follows(t, call', removal, closing, d)
    BY <1>1, <1>2, <1>11 DEF Follows, Is
  <2>2. Context(store, call, removal, closing)
    BY DEF IInv
  <2>3. \A e \in Download : e # d =>
          /\ Same(store, t, e) /\ call'[e] = call[e] /\ removal[e] = removal[e]
          /\ (e \in closing => e \in closing)
    BY <1>7, <1>11
  <2>4. PICK c2 : c2 = call'
    OBVIOUS
  <2>5. /\ c2 \in Calls /\ Follows(t, c2, removal, closing, d)
        /\ \A e \in Download : e # d =>
             Same(store, t, e) /\ c2[e] = call[e] /\ removal[e] = removal[e] /\ (e \in closing => e \in closing)
    BY <1>11, <2>1, <2>3, <2>4
  <2>6. removal \in Removals /\ closing \subseteq Download
    BY <1>1
  <2>7. Context(t, c2, removal, closing)
    BY <2>2, <2>5, <2>6, ContextOne
  <2> QED BY <2>4, <2>7
<1>13. p \notin Taken
  <2>1. Nobody # Foreign
    BY DEF Nobody, Foreign
  <2> QED BY <1>2, <2>1 DEF IInv, Files, p
<1>14. ASSUME engine = {}, NEW e \in Download PROVE OwnsAlone(t, call', names', disk, e)
  <2>1. \A x \in Download : OwnsAlone(store, call, names, disk, x)
    BY <1>14 DEF IInv, Files
  <2>2. OwnsAlone(store, call, names, disk, d)
    BY <2>1
  <2>3. \A x \in Download : store.item[x].path # p
    BY <2>2 DEF OwnsAlone, p
  <2>4. CASE e = d
    <3>1. \A n \in Name : disk[n] # d
      BY <1>2, <2>2, NamesApart DEF OwnsAlone
    <3> QED BY <1>4, <1>11, <2>3, <2>4, <3>1 DEF OwnsAlone, Is
  <2>5. CASE e # d
    <3>1. OwnsAlone(store, call, names, disk, e)
      BY <2>1
    <3>2. call[e].at = "checking" => call[e].path # p
      BY <2>2, <2>5 DEF OwnsAlone, p
    <3>3. call'[e].at = "checking" =>
            /\ call'[e].path \in names'
            /\ \A x \in Download : t.item[x].path # call'[e].path
            /\ \A x \in Download : x # e /\ call'[x].at = "checking" => call'[x].path # call'[e].path
      <4>1. SUFFICES ASSUME call[e].at = "checking"
                     PROVE  /\ call[e].path \in names'
                            /\ \A x \in Download : t.item[x].path # call[e].path
                            /\ \A x \in Download : x # e /\ call'[x].at = "checking" => call'[x].path # call[e].path
        BY <1>11, <2>5
      <4>2. call[e].path \in names'
        BY <3>1, <3>2, <4>1 DEF OwnsAlone, p
      <4>3. ASSUME NEW x \in Download PROVE t.item[x].path # call[e].path
        BY <1>4, <3>1, <3>2, <4>1 DEF OwnsAlone
      <4>4. ASSUME NEW x \in Download, x # e, call'[x].at = "checking" PROVE call'[x].path # call[e].path
        BY <1>11, <3>1, <4>1, <4>4 DEF OwnsAlone
      <4> QED BY <4>2, <4>3, <4>4
    <3>4. t.item[e].path # NoName => \A x \in Download : x # e => t.item[x].path # t.item[e].path
      BY <1>4, <2>3, <2>5, <3>1 DEF OwnsAlone
    <3> QED BY <1>4, <2>5, <3>1, <3>3, <3>4 DEF OwnsAlone, Is
  <2> QED BY <2>4, <2>5
<1>15. Files(t, call', names', disk)
  <2>1. \A e \in Download : t.item[e].path \notin Taken
    BY <1>4, <1>13 DEF IInv, Files
  <2> QED BY <1>14, <2>1 DEF IInv, Files
<1>16. Thrifty(store, t, policy)
  <2>1. \A e \in Download : t.item[e].received = store.item[e].received
    BY <1>2, <1>4
  <2>2. \A e \in Download : HasHandle(t, e) <=> HasHandle(store, e)
    BY DEF Listed, HasHandle
  <2>3. Spends(store, t, policy)
    BY <1>1, <2>1, <2>2, SpendsNothing DEF Listed, Typed
  <2> QED BY <2>3 DEF Spends, Thrifty
<1> QED BY <1>4, <1>8, <1>9, <1>10, <1>12, <1>15, <1>16 DEF Is

LEMMA RegisterKeeps ==
  ASSUME IInv, NEW d \in Download, Register(d)
  PROVE  Preserved
<1> DEFINE p == call[d].path
           listed == [store EXCEPT !.item[d] = [NoItem EXCEPT !.status = "queued", !.path = p]]
           held == [listed EXCEPT !.held = @ \cup {d}]
<1>1. call[d].at = "checking" /\ disk[p] = Nobody /\ call \in Calls
  BY DEF Register, IInv, Context
<1>2. UNCHANGED <<engine, policy, removal, closing, disk>> /\ policy \in Policies /\ engine \subseteq Download
  BY DEF Register, IInv
<1>3. names \subseteq Name
  BY DEF IInv, Files
<1>4. CASE d \in engine
  <2> DEFINE r == [at |-> "retaining", path |-> p]
  <2>1. store' = held /\ call' = [call EXCEPT ![d].at = "retaining"] /\ names' = names
    BY <1>4 DEF Register
  <2>2. call' = [call EXCEPT ![d] = r]
    <3>1. [call[d] EXCEPT !.at = "retaining"] = r
      BY <1>1 DEF Calls
    <3> QED BY <2>1, <3>1
  <2>3. Listed(store, store', d, p)
    BY <1>4, <2>1 DEF Listed, IInv, Sound, Typed, Fields
  <2>4. names' \subseteq Name
    BY <2>1 DEF IInv, Files
  <2>5. /\ Sound(store') /\ Active(store', policy) /\ (Idle(store, policy) => Idle(store', policy))
        /\ Thrifty(store, store', policy)
        /\ Context(store', call', removal, closing) /\ Files(store', call', names', disk)
    BY <1>1, <1>4, <2>1, <2>2, <2>3, <2>4, ListedKeeps
  <2>6. closing # {} \/ Idle(store', policy)
    BY <2>5 DEF IInv
  <2> QED BY <1>2, <2>5, <2>6, After
<1>5. CASE d \notin engine
  <2> DEFINE r == [at |-> "returned", path |-> NoName]
  <2>1. store' = StartOrQueue(listed, d, policy) /\ call' = [call EXCEPT ![d] = r] /\ names' = names \ {p}
    BY <1>5 DEF Register, Return
  <2>2. Listed(store, listed, d, p)
    BY <1>5 DEF Listed, IInv, Sound, Typed, Fields
  <2> HIDE DEF listed
  <2>3. names' \subseteq Name
    BY <2>1 DEF IInv, Files
  <2>4. /\ Sound(listed) /\ Active(listed, policy) /\ (Idle(store, policy) => Idle(listed, policy))
        /\ Is(listed, d, "queued") /\ Thrifty(store, listed, policy)
        /\ Context(listed, call', removal, closing) /\ Files(listed, call', names', disk)
    BY <1>1, <2>1, <2>2, <2>3, ListedKeeps
  <2>5. closing # {} \/ Idle(listed, policy)
    BY <2>4 DEF IInv
  <2>6. listed.item[d].status \in Startable
    BY <2>4 DEF Is, Startable
  <2> QED BY <1>2, <2>1, <2>4, <2>5, <2>6, AfterStart
<1> QED BY <1>4, <1>5

LEMMA RetainedKeeps ==
  ASSUME IInv, NEW d \in Download, NEW ok \in BOOLEAN, Retained(d, ok)
  PROVE  Preserved
<1>1. /\ UNCHANGED <<engine, policy, removal, closing, disk>> /\ policy \in Policies /\ engine \subseteq Download
      /\ Sound(store) /\ Active(store, policy)
  BY DEF Retained, IInv
<1>2. Context(store, call', removal, closing) /\ Files(store, call', names', disk)
  BY ReturnKeeps DEF Retained, IInv
<1>3. (closing # {} \/ Idle(store, policy)) /\ Thrifty(store, store, policy)
  BY <1>1, NothingSpent DEF IInv
<1>4. CASE ~ Is(store, d, "queued")
  <2>1. store' = store
    BY <1>4 DEF Retained
  <2> QED BY <1>1, <1>2, <2>1, Unchanged
<1>5. CASE Is(store, d, "queued") /\ ok
  <2>1. store' = StartOrQueue(store, d, policy)
    BY <1>5 DEF Retained
  <2> QED BY <1>1, <1>2, <1>3, <1>5, <2>1, AfterStart DEF Is, Startable
<1>6. CASE Is(store, d, "queued") /\ ~ ok
  <2>1. store' = Patch(store, d, "error")
    BY <1>6 DEF Retained
  <2>2. /\ Sound(store') /\ Shown(store') \subseteq Shown(store)
        /\ store'.handles = store.handles /\ store'.waiting = store.waiting /\ store'.copy = store.copy
        /\ store'.item[d].status = "error"
        /\ \A e \in Download : store'.item[e].path = store.item[e].path
        /\ \A e \in Download : e # d => store'.item[e] = store.item[e]
        /\ HasBudget(store', policy) <=> HasBudget(store, policy)
        /\ Spends(store, store', policy)
    BY <1>1, <1>6, <2>1, Repatched DEF Status, Ended, Is
  <2>3. Forward(store, store')
    BY <1>6, <2>2 DEF Forward, Startable, Is
  <2>4. Context(store', call', removal, closing) /\ Files(store', call', names', disk)
    BY <1>1, <1>2, <2>2, <2>3, ContextForward, FilesForward
  <2>5. Active(store', policy)
    BY <1>1, <2>2, FewerShown
  <2>6. closing # {} \/ Idle(store', policy)
    BY <1>3, <2>2 DEF Idle
  <2>7. Thrifty(store, store', policy)
    BY <2>2 DEF Spends, Thrifty
  <2> QED BY <1>1, <2>2, <2>4, <2>5, <2>6, <2>7, After
<1> QED BY <1>4, <1>5, <1>6

----------------------------------------------------------------------------
(* The calls of the interface.                                             *)

\* An item changes its status, and with it what is kept beside the list.
Edited(s, t, d, status) ==
  /\ Fields(t) /\ Restated(s, t, d, status)
  /\ t.handles = s.handles /\ t.copy = s.copy /\ t.reserved = s.reserved /\ t.cap = s.cap
  /\ Listing(t.waiting) /\ t.aborted \subseteq Download /\ t.resume \subseteq Download
  /\ t.held \subseteq s.held /\ s.held \ {d} \subseteq t.held

LEMMA EditedKeeps ==
  ASSUME NEW s, Sound(s), NEW d \in Download, NEW status \in Status \ {"absent", "downloading"},
         NEW t, Edited(s, t, d, status), ~ Is(s, d, "absent"),
         status = "queued" => ~ HasHandle(s, d),
         d \in engine /\ HasHandle(s, d) => d \in t.held,
         d \in t.held /\ ~ HasHandle(s, d) => status \notin Ended
  PROVE  /\ Sound(t) /\ Shown(t) \subseteq Shown(s) /\ t.item[d].status = status
         /\ \A p : HasBudget(t, p) <=> HasBudget(s, p)
         /\ \A e \in Download : t.item[e].path = s.item[e].path
         /\ \A e \in Download : e # d => Same(s, t, e)
         /\ HasHandle(t, d) <=> HasHandle(s, d)
         /\ \A p : Thrifty(s, t, p)
<1>1. Typed(s) /\ Fit(s, d)
  BY DEF Sound
<1>2. /\ t.item \in [Download -> Item]
      /\ t.item[d].status = status /\ t.item[d].path = s.item[d].path
      /\ t.item[d].received = s.item[d].received
      /\ \A e \in Download : e # d => t.item[e] = s.item[e]
  BY <1>1, RestatedItems DEF Edited, Typed
<1>3. Typed(t)
  BY <1>1, <1>2 DEF Edited, Typed
<1>4. Fit(t, d)
  BY <1>1, <1>2 DEF Edited, Fit, Is, HasHandle
<1>5. \A e \in Download : e # d => Same(s, t, e)
  BY <1>2 DEF Edited, Same, HasHandle
<1>6. Sound(t)
  BY <1>3, <1>4, <1>5, OneDownload
<1>7. Shown(t) \subseteq Shown(s)
  BY <1>2 DEF Shown, Is
<1>8. \A p : HasBudget(t, p) <=> HasBudget(s, p)
  BY <1>2, SameBytes DEF Edited
<1>9. \A p : Thrifty(s, t, p)
  <2>1. \A e \in Download : t.item[e].received = s.item[e].received
    BY <1>2
  <2>2. \A e \in Download : HasHandle(t, e) <=> HasHandle(s, e)
    BY DEF Edited, HasHandle
  <2>3. \A p : Spends(s, t, p)
    BY <1>1, <2>1, <2>2, SpendsNothing DEF Edited, Typed
  <2> QED BY <2>3 DEF Spends, Thrifty
<1> QED BY <1>2, <1>5, <1>6, <1>7, <1>8, <1>9 DEF Edited, HasHandle

LEMMA EditedContext ==
  ASSUME NEW s, NEW t, NEW d \in Download, NEW c, NEW m, NEW m2, NEW cl, Context(s, c, m, cl),
         \A e \in Download : e # d => Same(s, t, e) /\ m2[e] = m[e],
         ~ Is(s, d, "absent"), m2 \in Removals,
         d \in cl => t.item[d].status \in Ended \cup {"removing"},
         HasHandle(t, d) <=> HasHandle(s, d),
         m2[d] # "none" => t.item[d].status = "removing",
         m2[d] = "deleting" => ~ HasHandle(t, d)
  PROVE  Context(t, c, m2, cl)
<1>1. c \in Calls /\ cl \subseteq Download /\ Follows(s, c, m, cl, d)
  BY DEF Context
<1>2. Follows(t, c, m2, cl, d)
  BY <1>1 DEF Follows, Is
<1>3. \A e \in Download : e # d =>
        Same(s, t, e) /\ c[e] = c[e] /\ m2[e] = m[e] /\ (e \in cl => e \in cl)
  OBVIOUS
<1> QED BY <1>1, <1>2, <1>3, ContextOne

LEMMA EditedFiles ==
  ASSUME NEW s, NEW t, NEW d \in Download, NEW c, NEW nm, NEW nm2, NEW dk, Files(s, c, nm, dk),
         \A e \in Download : t.item[e].path = s.item[e].path,
         \A e \in Download : e # d => Same(s, t, e),
         t.item[d].status # "done" \/ dk[t.item[d].path] = d, nm \subseteq nm2, nm2 \subseteq Name
  PROVE  Files(t, c, nm2, dk)
<1>1. ASSUME engine = {}, NEW e \in Download
      PROVE  /\ Is(t, e, "done") => Is(s, e, "done") \/ dk[t.item[e].path] = e
             /\ c[e].at = "checking" => c[e] = c[e] /\ c[e].path \in nm2
  BY <1>1 DEF Files, OwnsAlone, Same, Is
<1> QED BY <1>1, FilesStay

LEMMA DropFields ==
  ASSUME NEW s, Typed(s), NEW d
  PROVE  /\ Listing(DropFromQueue(s, d).waiting) /\ Fields(DropFromQueue(s, d))
         /\ s.waiting = <<>> => DropFromQueue(s, d).waiting = <<>>
         /\ DropFromQueue(s, d) = [s EXCEPT !.waiting = Without(s.waiting, d)]
<1>1. Fields(s) /\ Listing(s.waiting)
  BY DEF Typed
<1>2. DropFromQueue(s, d) = [s EXCEPT !.waiting = Without(s.waiting, d)]
  BY DEF DropFromQueue
<1>3. DropFromQueue(s, d).waiting = Without(s.waiting, d) /\ Fields(DropFromQueue(s, d))
  BY <1>1, <1>2 DEF Fields
<1>4. s.waiting = <<>> => Without(s.waiting, d) = <<>>
  BY DEF Without, Contains
<1> QED BY <1>1, <1>2, <1>3, <1>4, WithoutOne

\* pauseDownload of copies that run.
LEMMA PauseKeeps ==
  ASSUME NEW s, Sound(s), NEW D \in SUBSET Download, NEW t, t = PauseCopies(s, D)
  PROVE  /\ Sound(t) /\ Shown(t) \subseteq Shown(s) \ D
         /\ t.handles = s.handles /\ t.waiting = s.waiting
         /\ \A p : HasBudget(t, p) <=> HasBudget(s, p)
         /\ \A d \in Download : t.item[d].path = s.item[d].path
         /\ \A d \in Download :
              Same(s, t, d) \/ (t.item[d].status = "paused" /\ Is(s, d, "downloading"))
         /\ \A p : Thrifty(s, t, p)
<1> DEFINE running == {d \in D : Is(s, d, "downloading")}
           item == [d \in Download |-> IF d \in running THEN [s.item[d] EXCEPT !.status = "paused"]
                                       ELSE s.item[d]]
<1>1. Typed(s)
  BY DEF Sound
<1>2. t = [s EXCEPT !.item = item, !.aborted = @ \cup running]
  BY DEF PauseCopies
<1>3. ASSUME NEW d \in Download
      PROVE  /\ item[d] \in Item
             /\ item[d].path = s.item[d].path /\ item[d].received = s.item[d].received
             /\ d \in running => item[d].status = "paused" /\ Is(s, d, "downloading")
             /\ d \notin running => item[d] = s.item[d]
  <2>1. s.item[d] \in Item
    BY <1>1 DEF Typed
  <2> QED BY <2>1 DEF Item, Status
<1>4. item \in [Download -> Item]
  BY <1>3
<1> HIDE DEF item
<1>5. /\ Fields(t) /\ t.item = item /\ t.aborted = s.aborted \cup running
      /\ t.handles = s.handles /\ t.copy = s.copy /\ t.cap = s.cap /\ t.reserved = s.reserved
      /\ t.waiting = s.waiting /\ t.resume = s.resume /\ t.held = s.held
  BY <1>1, <1>2 DEF Typed, Fields
<1>6. Typed(t)
  BY <1>1, <1>4, <1>5 DEF Typed
<1>7. ASSUME NEW d \in Download
      PROVE  Same(s, t, d) \/ (t.item[d].status = "paused" /\ Is(s, d, "downloading"))
  BY <1>3, <1>5 DEF Same, HasHandle
<1>8. ASSUME NEW d \in Download PROVE Fit(t, d)
  <2>1. Fit(s, d)
    BY DEF Sound
  <2>2. CASE Same(s, t, d)
    BY <2>1, <2>2, FitStays
  <2>3. CASE t.item[d].status = "paused" /\ Is(s, d, "downloading")
    BY <1>3, <1>5, <2>1, <2>3 DEF Fit, Is, HasHandle, Ended
  <2> QED BY <1>7, <2>2, <2>3
<1>9. Shown(t) \subseteq Shown(s) \ D
  BY <1>3, <1>5 DEF Shown, Is
<1>10. \A p : HasBudget(t, p) <=> HasBudget(s, p)
  BY <1>3, <1>5, SameBytes
<1>11. \A p : Thrifty(s, t, p)
  <2>1. \A d \in Download : t.item[d].received = s.item[d].received
    BY <1>3, <1>5
  <2>2. \A d \in Download : HasHandle(t, d) <=> HasHandle(s, d)
    BY <1>5 DEF HasHandle
  <2>3. \A p : Spends(s, t, p)
    BY <1>1, <1>5, <2>1, <2>2, SpendsNothing DEF Typed
  <2> QED BY <2>3 DEF Spends, Thrifty
<1> QED BY <1>3, <1>5, <1>6, <1>7, <1>8, <1>9, <1>10, <1>11 DEF Sound

LEMMA PauseLeaves ==
  ASSUME NEW s, NEW t, Sound(s), Sound(t), NEW c, NEW m, NEW cl, NEW nm, NEW dk,
         Context(s, c, m, cl), Files(s, c, nm, dk),
         \A d \in Download : t.item[d].path = s.item[d].path,
         \A d \in Download :
           Same(s, t, d) \/ (t.item[d].status = "paused" /\ Is(s, d, "downloading"))
  PROVE  Context(t, c, m, cl) /\ Files(t, c, nm, dk)
<1>1. ASSUME NEW d \in Download PROVE Follows(t, c, m, cl, d)
  <2>1. Follows(s, c, m, cl, d)
    BY DEF Context
  <2>2. CASE Same(s, t, d)
    BY <2>1, <2>2 DEF Follows, Same, Is
  <2>3. CASE t.item[d].status = "paused" /\ Is(s, d, "downloading")
    BY <2>1, <2>3 DEF Follows, Is, Ended
  <2> QED BY <2>2, <2>3
<1>2. ASSUME engine = {}, NEW d \in Download
      PROVE  /\ Is(t, d, "done") => Is(s, d, "done") \/ dk[t.item[d].path] = d
             /\ c[d].at = "checking" => c[d] = c[d] /\ c[d].path \in nm
  BY <1>2 DEF Files, OwnsAlone, Same, Is
<1>3. nm \subseteq Name
  BY DEF Files
<1>4. Files(t, c, nm, dk)
  BY <1>2, <1>3, FilesStay
<1> QED BY <1>1, <1>4 DEF Context

\* A step of the interface that leaves calls and files alone.
LEMMA Quiet ==
  ASSUME IInv, UNCHANGED <<policy, names, removal>>, UNCHANGED ui
  PROVE  /\ UNCHANGED engine /\ engine \subseteq Download /\ policy' = policy /\ policy' \in Policies
         /\ closing' = closing /\ removal' = removal /\ call' = call /\ names' = names /\ disk' = disk
         /\ Sound(store) /\ Active(store, policy') /\ (closing' # {} \/ Idle(store, policy'))
         /\ Context(store, call', removal', closing') /\ Files(store, call', names', disk')
         /\ names' \subseteq Name /\ call' \in Calls /\ removal' \in Removals
<1>1. UNCHANGED <<policy, names, removal, engine, call, closing, disk>>
  BY DEF ui
<1> QED BY <1>1 DEF IInv, Files, Context

LEMMA PauseStepKeeps ==
  ASSUME IInv, NEW d \in Download, Pause(d)
  PROVE  Preserved
<1>0. /\ UNCHANGED engine /\ engine \subseteq Download /\ policy' = policy /\ policy' \in Policies
      /\ closing' = closing /\ removal' = removal /\ call' = call /\ names' = names /\ disk' = disk
      /\ Sound(store) /\ Active(store, policy') /\ (closing' # {} \/ Idle(store, policy'))
      /\ Context(store, call', removal', closing') /\ Files(store, call', names', disk')
      /\ names' \subseteq Name /\ call' \in Calls /\ removal' \in Removals
  BY Quiet DEF Pause
<1>1. CASE Is(store, d, "queued")
  <2> DEFINE q == DropFromQueue(store, d)
             r == Patch(q, d, "paused")
  <2>1. store' = Pump(r, policy')
    BY <1>0, <1>1 DEF Pause
  <2>2. Fields(store) /\ Typed(store) /\ Fit(store, d)
    BY <1>0 DEF Sound, Typed
  <2>3. Listing(q.waiting) /\ Fields(q) /\ q = [store EXCEPT !.waiting = Without(store.waiting, d)]
    BY <2>2, DropFields
  <2> HIDE DEF q
  <2>4. /\ Fields(r) /\ Restated(q, r, d, "paused")
        /\ r.handles = q.handles /\ r.aborted = q.aborted /\ r.copy = q.copy
        /\ r.reserved = q.reserved /\ r.waiting = q.waiting /\ r.resume = q.resume /\ r.held = q.held
        /\ r.cap = q.cap
    <3>1. Fields(q) /\ r = Patch(q, d, "paused")
      BY <2>3
    <3> HIDE DEF r
    <3> QED BY <3>1, PatchedFields
  <2> HIDE DEF r
  <2>5. Edited(store, r, d, "paused")
    BY <2>2, <2>3, <2>4 DEF Edited, Restated, Fields, Typed
  <2>6. ~ HasHandle(store, d) /\ ~ Is(store, d, "absent")
    BY <1>1, <2>2 DEF Fit, Is
  <2>7. /\ Sound(r) /\ Shown(r) \subseteq Shown(store) /\ r.item[d].status = "paused"
        /\ \A e \in Download : r.item[e].path = store.item[e].path
        /\ \A e \in Download : e # d => Same(store, r, e)
        /\ HasHandle(r, d) <=> HasHandle(store, d)
        /\ Thrifty(store, r, policy')
    BY <1>0, <2>5, <2>6, EditedKeeps DEF Status, Ended
  <2>8. Follows(store, call', removal', closing', d)
    BY <1>0 DEF Context
  <2>9. Context(r, call', removal', closing')
    BY <1>0, <1>1, <2>6, <2>7, <2>8, EditedContext DEF Follows, Is, Ended
  <2>10. Files(r, call', names', disk')
    BY <1>0, <2>7, EditedFiles
  <2>11. Active(r, policy')
    BY <1>0, <2>7, FewerShown
  <2> QED BY <1>0, <2>1, <2>7, <2>9, <2>10, <2>11, AfterPump
<1>2. CASE ~ Is(store, d, "queued")
  <2>1. store' = PauseCopies(store, {d})
    BY <1>2 DEF Pause
  <2>2. /\ Sound(store') /\ Shown(store') \subseteq Shown(store) \ {d}
        /\ store'.handles = store.handles /\ store'.waiting = store.waiting
        /\ \A p : HasBudget(store', p) <=> HasBudget(store, p)
        /\ \A e \in Download : store'.item[e].path = store.item[e].path
        /\ \A e \in Download :
             Same(store, store', e) \/ (store'.item[e].status = "paused" /\ Is(store, e, "downloading"))
        /\ Thrifty(store, store', policy')
    BY <1>0, <2>1, PauseKeeps
  <2>3. Context(store', call', removal', closing') /\ Files(store', call', names', disk')
    BY <1>0, <2>2, PauseLeaves
  <2>4. Active(store', policy')
    BY <1>0, <2>2, FewerShown
  <2>5. closing' # {} \/ Idle(store', policy')
    BY <1>0, <2>2 DEF Idle
  <2> QED BY <1>0, <2>2, <2>3, <2>4, <2>5, After
<1> QED BY <1>1, <1>2

\* What is kept beside the list changes; no item does.
LEMMA BesideKeeps ==
  ASSUME NEW s, Sound(s), NEW t, Fields(t), t.item = s.item, t.handles = s.handles, t.copy = s.copy,
         t.waiting = s.waiting, t.reserved = s.reserved, t.cap = s.cap, t.held = s.held,
         t.aborted \subseteq Download, t.resume \subseteq Download
  PROVE  /\ Sound(t) /\ Forward(s, t) /\ Shown(t) = Shown(s)
         /\ \A p : HasBudget(t, p) <=> HasBudget(s, p)
         /\ \A p : Spends(s, t, p) /\ Thrifty(s, t, p)
<1>1. Typed(t)
  BY DEF Sound, Typed
<1>2. ASSUME NEW d \in Download PROVE Fit(t, d)
  <2>1. Fit(s, d) /\ Same(s, t, d)
    BY DEF Sound, Same, HasHandle
  <2> QED BY <2>1, FitStays
<1>3. Forward(s, t) /\ Shown(t) = Shown(s)
  BY DEF Forward, Shown, Is
<1>4. \A p : HasBudget(t, p) <=> HasBudget(s, p)
  BY SameBytes
<1>5. \A p : Spends(s, t, p)
  BY SpendsNothing DEF Sound, Typed, HasHandle
<1>6. \A p : Thrifty(s, t, p)
  BY <1>5 DEF Spends, Thrifty
<1> QED BY <1>1, <1>2, <1>3, <1>4, <1>5, <1>6 DEF Sound

LEMMA ResumeKeeps ==
  ASSUME IInv, NEW d \in Download, Resume(d)
  PROVE  Preserved
<1>0. /\ UNCHANGED engine /\ engine \subseteq Download /\ policy' = policy /\ policy' \in Policies
      /\ closing' = closing /\ removal' = removal /\ call' = call /\ names' = names /\ disk' = disk
      /\ Sound(store) /\ Active(store, policy') /\ (closing' # {} \/ Idle(store, policy'))
      /\ Context(store, call', removal', closing') /\ Files(store, call', names', disk')
      /\ names' \subseteq Name /\ call' \in Calls /\ removal' \in Removals
  BY Quiet DEF Resume
<1>1. CASE HasHandle(store, d)
  <2>1. store' = [store EXCEPT !.resume = @ \cup {d}]
    BY <1>1 DEF Resume
  <2>2. /\ Fields(store') /\ store'.item = store.item /\ store'.handles = store.handles
        /\ store'.copy = store.copy /\ store'.waiting = store.waiting
        /\ store'.reserved = store.reserved /\ store'.cap = store.cap /\ store'.held = store.held
        /\ store'.aborted \subseteq Download /\ store'.resume \subseteq Download
    BY <1>0, <2>1 DEF Sound, Typed, Fields
  <2>3. /\ Sound(store') /\ Forward(store, store') /\ Shown(store') = Shown(store)
        /\ \A p : HasBudget(store', p) <=> HasBudget(store, p)
        /\ Thrifty(store, store', policy')
    BY <1>0, <2>2, BesideKeeps
  <2>4. Context(store', call', removal', closing') /\ Files(store', call', names', disk')
    BY <1>0, <2>3, ContextForward, FilesForward
  <2>5. Active(store', policy') /\ (closing' # {} \/ Idle(store', policy'))
    BY <1>0, <2>2, <2>3 DEF Active, Idle
  <2> QED BY <1>0, <2>3, <2>4, <2>5, After
<1>2. CASE ~ HasHandle(store, d)
  <2>1. store' = StartOrQueue(store, d, policy')
    BY <1>0, <1>2 DEF Resume
  <2>2. store.item[d].status \in Startable /\ Thrifty(store, store, policy')
    BY <1>0, NothingSpent DEF Resume, Startable
  <2> QED BY <1>0, <2>1, <2>2, AfterStart
<1> QED BY <1>1, <1>2

\* A step that edits one item and starts nothing.
LEMMA EditStep ==
  ASSUME IInv, UNCHANGED <<engine, policy, closing, call, disk>>, NEW d \in Download,
         NEW status \in Status \ {"absent", "downloading", "queued", "done"},
         Edited(store, store', d, status), ~ Is(store, d, "absent"),
         store.waiting = <<>> => store'.waiting = <<>>,
         d \in engine /\ HasHandle(store, d) => d \in store'.held,
         d \in store'.held /\ ~ HasHandle(store, d) => status \notin Ended,
         removal' \in Removals, \A e \in Download : e # d => removal'[e] = removal[e],
         d \in closing => status \in Ended \cup {"removing"},
         removal'[d] # "none" => status = "removing",
         removal'[d] = "deleting" => ~ HasHandle(store, d),
         names \subseteq names', names' \subseteq Name
  PROVE  Preserved
<1>0. /\ UNCHANGED engine /\ policy' = policy /\ closing' = closing /\ call' = call /\ disk' = disk
      /\ engine \subseteq Download /\ policy \in Policies /\ Sound(store) /\ Active(store, policy)
      /\ (closing # {} \/ Idle(store, policy))
      /\ Context(store, call, removal, closing) /\ Files(store, call, names, disk)
  BY DEF IInv
<1>1. /\ Sound(store') /\ Shown(store') \subseteq Shown(store) /\ store'.item[d].status = status
      /\ \A p : HasBudget(store', p) <=> HasBudget(store, p)
      /\ \A e \in Download : store'.item[e].path = store.item[e].path
      /\ \A e \in Download : e # d => Same(store, store', e)
      /\ HasHandle(store', d) <=> HasHandle(store, d)
      /\ Thrifty(store, store', policy')
  BY <1>0, EditedKeeps
<1>2. Context(store', call, removal', closing)
  BY <1>0, <1>1, EditedContext
<1>3. Files(store', call, names', disk)
  BY <1>0, <1>1, EditedFiles
<1>4. Active(store', policy)
  BY <1>0, <1>1, FewerShown
<1>5. store'.handles = store.handles
  BY DEF Edited
<1>6. closing # {} \/ Idle(store', policy)
  BY <1>0, <1>1, <1>5 DEF Idle
<1> QED BY <1>0, <1>1, <1>2, <1>3, <1>4, <1>6, After

LEMMA CancelKeeps ==
  ASSUME IInv, NEW d \in Download, CancelDownload(d)
  PROVE  Preserved
<1>0. /\ UNCHANGED <<engine, policy, closing, call, disk>> /\ names' = names /\ removal' = removal
      /\ Typed(store) /\ Fields(store) /\ Fit(store, d) /\ Follows(store, call, removal, closing, d)
      /\ removal \in Removals /\ names \subseteq Name
      /\ store.item[d].status \notin {"absent", "removing", "removal-error"}
  BY DEF CancelDownload, ui, IInv, Sound, Typed, Context, Files
<1>1. removal[d] = "none" /\ ~ Is(store, d, "absent")
  BY <1>0 DEF Follows, Is
<1>2. CASE HasHandle(store, d) /\ store' = Abort(Patch([store EXCEPT !.resume = @ \ {d}], d, "canceled"), d)
  <2>1. store' = [store EXCEPT !.resume = @ \ {d}, !.item[d].status = "canceled", !.aborted = @ \cup {d}]
    BY <1>2 DEF Abort, Patch
  <2>2. /\ Fields(store') /\ Restated(store, store', d, "canceled")
        /\ store'.handles = store.handles /\ store'.copy = store.copy /\ store'.reserved = store.reserved
        /\ store'.cap = store.cap /\ store'.waiting = store.waiting /\ store'.held = store.held
        /\ store'.aborted = store.aborted \cup {d} /\ store'.resume = store.resume \ {d}
    BY <1>0, <2>1 DEF Fields, Restated
  <2>3. Edited(store, store', d, "canceled")
    BY <1>0, <2>2 DEF Edited, Typed
  <2>4. d \in engine => d \in store'.held
    BY <1>0, <1>2, <2>2 DEF Fit
  <2> QED BY <1>0, <1>1, <1>2, <2>2, <2>3, <2>4, EditStep DEF Status, Ended
<1>3. CASE /\ ~ HasHandle(store, d)
           /\ store' = Patch([DropFromQueue(store, d) EXCEPT !.held = @ \ {d}], d, "canceled")
  <2> DEFINE q == DropFromQueue(store, d)
  <2>1. /\ Listing(q.waiting) /\ Fields(q) /\ (store.waiting = <<>> => q.waiting = <<>>)
        /\ q = [store EXCEPT !.waiting = Without(store.waiting, d)]
    BY <1>0, DropFields
  <2>2. store' = [q EXCEPT !.held = @ \ {d}, !.item[d].status = "canceled"]
    BY <1>3 DEF Patch
  <2> HIDE DEF q
  <2>3. /\ q.item = store.item /\ q.handles = store.handles /\ q.copy = store.copy
        /\ q.reserved = store.reserved /\ q.cap = store.cap /\ q.aborted = store.aborted /\ q.resume = store.resume
        /\ q.held = store.held
    BY <1>0, <2>1 DEF Fields
  <2>4. /\ Fields(store') /\ Restated(q, store', d, "canceled")
        /\ store'.handles = q.handles /\ store'.copy = q.copy /\ store'.reserved = q.reserved
        /\ store'.cap = q.cap /\ store'.waiting = q.waiting /\ store'.held = q.held \ {d}
        /\ store'.aborted = q.aborted /\ store'.resume = q.resume
    BY <2>1, <2>2 DEF Fields, Restated
  <2>5. Edited(store, store', d, "canceled")
    BY <1>0, <2>1, <2>3, <2>4 DEF Edited, Typed, Restated
  <2>6. d \notin store'.held
    BY <2>4
  <2> QED BY <1>0, <1>1, <1>3, <2>1, <2>4, <2>5, <2>6, EditStep DEF Status, Ended
<1> QED BY <1>2, <1>3 DEF CancelDownload

LEMMA RemoveKeeps ==
  ASSUME IInv, NEW d \in Download, RemoveDownload(d)
  PROVE  Preserved
<1>0. /\ UNCHANGED <<engine, policy, closing, call, disk>>
      /\ names' = names \cup {store.item[d].path}
      /\ removal' = [removal EXCEPT ![d] = IF HasHandle(store, d) THEN "stopping" ELSE "deleting"]
      /\ Typed(store) /\ Fields(store) /\ Fit(store, d) /\ Follows(store, call, removal, closing, d)
      /\ removal \in Removals /\ names \subseteq Name /\ ~ Is(store, d, "absent")
  BY DEF RemoveDownload, ui, IInv, Sound, Typed, Context, Files
<1>1. names \subseteq names' /\ names' \subseteq Name
  <2>1. store.item[d] \in Item
    BY <1>0 DEF Typed
  <2> QED BY <1>0, <2>1 DEF Fit, Item
<1>2. /\ removal' \in Removals /\ \A e \in Download : e # d => removal'[e] = removal[e]
      /\ removal'[d] = "deleting" => ~ HasHandle(store, d)
  BY <1>0 DEF Removals
<1> DEFINE q == DropFromQueue(store, d)
           leaving == Patch([q EXCEPT !.resume = @ \ {d}], d, "removing")
<1>3. store' = IF HasHandle(store, d) THEN Abort(leaving, d) ELSE leaving
  BY DEF RemoveDownload
<1>4. /\ Listing(q.waiting) /\ Fields(q) /\ (store.waiting = <<>> => q.waiting = <<>>)
      /\ q = [store EXCEPT !.waiting = Without(store.waiting, d)]
  BY <1>0, DropFields
<1>5. leaving = [q EXCEPT !.resume = @ \ {d}, !.item[d].status = "removing"]
  BY DEF Patch
<1> HIDE DEF q
<1>6. /\ q.item = store.item /\ q.handles = store.handles /\ q.copy = store.copy
      /\ q.reserved = store.reserved /\ q.cap = store.cap /\ q.aborted = store.aborted /\ q.resume = store.resume
      /\ q.held = store.held
  BY <1>0, <1>4 DEF Fields
<1> HIDE DEF leaving
<1>7. /\ Fields(leaving) /\ Restated(q, leaving, d, "removing")
      /\ leaving.handles = q.handles /\ leaving.copy = q.copy /\ leaving.reserved = q.reserved
      /\ leaving.cap = q.cap /\ leaving.waiting = q.waiting /\ leaving.held = q.held
      /\ leaving.aborted = q.aborted /\ leaving.resume = q.resume \ {d}
  BY <1>4, <1>5 DEF Fields, Restated
<1>8. /\ Fields(store') /\ store'.item = leaving.item
      /\ store'.handles = leaving.handles /\ store'.copy = leaving.copy
      /\ store'.reserved = leaving.reserved /\ store'.cap = leaving.cap /\ store'.waiting = leaving.waiting
      /\ store'.held = leaving.held /\ store'.resume = leaving.resume
      /\ store'.aborted \subseteq leaving.aborted \cup {d}
  <2>1. CASE HasHandle(store, d)
    <3>1. store' = [leaving EXCEPT !.aborted = @ \cup {d}]
      BY <1>3, <2>1 DEF Abort
    <3> QED BY <1>7, <3>1 DEF Fields
  <2>2. CASE ~ HasHandle(store, d)
    BY <1>3, <1>7, <2>2
  <2> QED BY <2>1, <2>2
<1>9. Edited(store, store', d, "removing")
  BY <1>0, <1>4, <1>6, <1>7, <1>8 DEF Edited, Typed, Restated
<1>10. /\ d \in engine /\ HasHandle(store, d) => d \in store'.held
       /\ store.waiting = <<>> => store'.waiting = <<>>
  BY <1>0, <1>4, <1>6, <1>7, <1>8 DEF Fit
<1> QED BY <1>0, <1>1, <1>2, <1>9, <1>10, EditStep DEF Status, Ended

LEMMA ConfigureKeeps ==
  ASSUME IInv, NEW p \in Policies, Configure(p)
  PROVE  Preserved
<1> DEFINE q == store.handles
           L == Len(q)
           beyond == {q[k] : k \in p.concurrent + 1..L}
           D == IF Tightened(p) THEN Range(q) ELSE beyond
           paused == PauseCopies(store, D)
<1>1. /\ UNCHANGED <<engine, call, closing, disk, names, removal>> /\ policy' = p
      /\ engine \subseteq Download /\ Sound(store)
      /\ Context(store, call, removal, closing) /\ Files(store, call, names, disk)
  BY DEF Configure, ui, IInv
<1>2. store' = Pump(paused, policy')
  BY <1>1 DEF Configure
<1>3. q \in Seq(Download) /\ L \in Nat /\ DOMAIN q = 1 .. L /\ p.concurrent \in Nat
  BY <1>1, DownloadsAssumption DEF Sound, Typed, Listing
<1>4. D \in SUBSET Download
  <2>1. Range(q) \subseteq Download
    BY <1>3 DEF Range
  <2>2. \A k \in p.concurrent + 1 .. L : k \in 1 .. L
    BY <1>3
  <2>3. beyond \subseteq Download
    BY <1>3, <2>2
  <2> QED BY <2>1, <2>3
<1> HIDE DEF paused
<1>5. PICK t : t = paused
  OBVIOUS
<1>6. /\ Sound(t) /\ Shown(t) \subseteq Shown(store) \ D
      /\ t.handles = store.handles /\ t.waiting = store.waiting
      /\ \A d \in Download : t.item[d].path = store.item[d].path
      /\ \A d \in Download :
           Same(store, t, d) \/ (t.item[d].status = "paused" /\ Is(store, d, "downloading"))
      /\ Thrifty(store, t, p)
  <2>1. t = PauseCopies(store, D)
    BY <1>5 DEF paused
  <2> HIDE DEF D
  <2> QED BY <1>1, <1>4, <2>1, PauseKeeps
<1>7. Context(t, call, removal, closing) /\ Files(t, call, names, disk)
  BY <1>1, <1>6, PauseLeaves
<1>8. PICK n \in 0 .. L : n <= p.concurrent /\ (n = L \/ n = p.concurrent)
  <2>1. CASE L <= p.concurrent
    BY <1>3, <2>1
  <2>2. CASE p.concurrent <= L
    BY <1>3, <2>2
  <2> QED BY <1>3, <2>1, <2>2
<1>9. ASSUME NEW d \in Shown(t) PROVE \E k \in 1 .. n : q[k] = d
  <2>1. d \in Download /\ HasHandle(store, d) /\ d \notin D
    BY <1>1, <1>6 DEF Sound, Fit, Shown
  <2>2. PICK k \in 1 .. L : q[k] = d
    BY <2>1 DEF HasHandle, Contains
  <2>3. ~ Tightened(p)
    BY <1>3, <2>1, <2>2 DEF Range
  <2>4. k \notin p.concurrent + 1 .. L
    BY <2>1, <2>2, <2>3
  <2>5. k \in 1 .. n
    BY <1>3, <1>8, <2>4
  <2> QED BY <2>2, <2>5
<1>10. Active(t, p)
  <2> HIDE DEF q
  <2>1. IsFiniteSet(Shown(t)) /\ Cardinality(Shown(t)) <= n
    BY <1>3, <1>8, <1>9, Entries DEF L
  <2>2. Cardinality(Shown(t)) \in Nat
    BY <2>1, FS_CardinalityType
  <2>3. n \in Nat /\ n <= p.concurrent /\ p.concurrent \in Nat
    BY <1>3, <1>8
  <2>4. Cardinality(Shown(t)) <= p.concurrent
    BY <2>1, <2>2, <2>3
  <2> QED BY <2>4 DEF Active
<1> QED BY <1>1, <1>2, <1>5, <1>6, <1>7, <1>10, AfterPump

LEMMA PrioritizeKeeps ==
  ASSUME IInv, NEW d \in Download, Prioritize(d)
  PROVE  Preserved
<1> DEFINE priorities == {store.item[e].priority : e \in Download}
           top == Max(priorities)
           t == [store EXCEPT !.item[d].priority = top + 1]
<1>0. /\ UNCHANGED engine /\ engine \subseteq Download /\ policy' = policy /\ policy' \in Policies
      /\ closing' = closing /\ removal' = removal /\ call' = call /\ names' = names /\ disk' = disk
      /\ Sound(store) /\ Active(store, policy') /\ (closing' # {} \/ Idle(store, policy'))
      /\ Context(store, call', removal', closing') /\ Files(store, call', names', disk')
      /\ names' \subseteq Name /\ call' \in Calls /\ removal' \in Removals
  BY Quiet DEF Prioritize
<1>1. store' = Pump(t, policy') /\ top < MaxPriority
  BY <1>0 DEF Prioritize
<1>2. top \in Nat
  <2>1. \A e \in Download : store.item[e].priority \in 0 .. MaxPriority
    BY <1>0 DEF Sound, Typed, Item
  <2>2. priorities \in SUBSET Nat /\ priorities # {} /\ \A n \in priorities : n <= MaxPriority
    BY <2>1, DownloadsAssumption
  <2> HIDE DEF priorities
  <2>3. \E n \in priorities : \A m \in priorities : m <= n
    BY <2>2, GreatestNumber, DownloadsAssumption
  <2>4. top \in priorities
    BY <2>2, <2>3 DEF Max
  <2> QED BY <2>2, <2>4
<1> HIDE DEF top
<1>3. /\ Fields(t) /\ t.item = [store.item EXCEPT ![d].priority = top + 1]
      /\ t.handles = store.handles /\ t.aborted = store.aborted /\ t.copy = store.copy
      /\ t.reserved = store.reserved /\ t.waiting = store.waiting /\ t.resume = store.resume
      /\ t.held = store.held /\ t.cap = store.cap
  BY <1>0 DEF Sound, Typed, Fields
<1> HIDE DEF t
<1>4. /\ t.item \in [Download -> Item]
      /\ \A e \in Download : /\ t.item[e].status = store.item[e].status
                             /\ t.item[e].path = store.item[e].path
                             /\ t.item[e].received = store.item[e].received
  <2>1. store.item \in [Download -> Item] /\ top + 1 \in 0 .. MaxPriority
    BY <1>0, <1>1, <1>2, DownloadsAssumption DEF Sound, Typed
  <2> QED BY <1>3, <2>1 DEF Item
<1>5. Typed(t)
  BY <1>0, <1>3, <1>4 DEF Sound, Typed
<1>6. \A e \in Download : Same(store, t, e)
  BY <1>3, <1>4 DEF Same, HasHandle
<1>7. Sound(t)
  BY <1>0, <1>5, <1>6, FitStays DEF Sound
<1>8. Active(t, policy')
  <2>1. Shown(t) = Shown(store)
    BY <1>4 DEF Shown, Is
  <2> QED BY <1>0, <2>1 DEF Active
<1>9. Forward(store, t)
  BY <1>3, <1>4 DEF Forward
<1>10. Context(t, call', removal', closing') /\ Files(t, call', names', disk')
  BY <1>0, <1>7, <1>9, ContextForward, FilesForward
<1>11. Thrifty(store, t, policy')
  <2>1. \A e \in Download : HasHandle(t, e) <=> HasHandle(store, e)
    BY <1>3 DEF HasHandle
  <2>2. Spends(store, t, policy')
    BY <1>0, <1>3, <1>4, <2>1, SpendsNothing DEF Sound, Typed
  <2> QED BY <2>2 DEF Spends, Thrifty
<1> QED BY <1>0, <1>1, <1>7, <1>8, <1>10, <1>11, AfterPump

----------------------------------------------------------------------------
(* The copies.                                                             *)

\* The rest of the finally clause: the download is resumed if that was asked
\* for, and the free slots are handed on.
LEMMA ConcludeKeeps ==
  ASSUME IInv, UNCHANGED engine, engine \subseteq Download, policy' \in Policies,
         NEW s, Sound(s), Active(s, policy'), Thrifty(store, s, policy'), NEW d \in Download, store' = Conclude(s, d, policy'),
         Context(s, call', removal', closing'), Files(s, call', names', disk')
  PROVE  Preserved
<1> DEFINE settled == [s EXCEPT !.resume = @ \ {d}]
           next == IF d \in s.resume /\ Is(s, d, "paused") THEN StartOrQueue(settled, d, policy')
                   ELSE settled
<1>1. store' = Pump(next, policy')
  BY DEF Conclude
<1>2. /\ Fields(settled) /\ settled.item = s.item /\ settled.handles = s.handles
      /\ settled.copy = s.copy /\ settled.waiting = s.waiting
      /\ settled.reserved = s.reserved /\ settled.cap = s.cap /\ settled.held = s.held
      /\ settled.aborted \subseteq Download /\ settled.resume \subseteq Download
  BY DEF Sound, Typed, Fields
<1> HIDE DEF settled
<1>3. /\ Sound(settled) /\ Forward(s, settled) /\ Shown(settled) = Shown(s)
      /\ Spends(s, settled, policy')
  BY <1>2, BesideKeeps
<1>4. Active(settled, policy')
  BY <1>3 DEF Active
<1>5. Sound(next) /\ Forward(s, next) /\ Active(next, policy') /\ Spends(s, next, policy')
  <2>1. CASE d \in s.resume /\ Is(s, d, "paused")
    <3>1. settled.item[d].status \in Startable
      BY <1>2, <2>1 DEF Is, Startable
    <3>2. Kept(settled, next, policy')
      BY <1>3, <1>4, <2>1, <3>1, StartOrQueueKeeps
    <3>3. Spends(s, next, policy')
      BY <1>3, <3>2, SpendsTwice DEF Kept, Sound
    <3> QED BY <1>3, <3>2, <3>3, ForwardTwice DEF Kept
  <2>2. CASE ~ (d \in s.resume /\ Is(s, d, "paused"))
    BY <1>3, <1>4, <2>2
  <2> QED BY <2>1, <2>2
<1> HIDE DEF next
<1>6. Context(next, call', removal', closing') /\ Files(next, call', names', disk')
  BY <1>5, ContextForward, FilesForward
<1>7. Thrifty(store, next, policy')
  BY <1>5, SpendsTwice DEF IInv, Sound
<1> QED BY <1>1, <1>5, <1>6, <1>7, AfterPump

\* The writer of d writes its file.
LEMMA WrittenFiles ==
  ASSUME NEW s, Sound(s), NEW c, NEW nm, NEW dk, Files(s, c, nm, dk),
         NEW d \in Download, ~ Is(s, d, "absent"), NEW dk2, dk2 = [dk EXCEPT ![s.item[d].path] = d]
  PROVE  Files(s, c, nm, dk2) /\ dk2[s.item[d].path] = d
<1> DEFINE p == s.item[d].path
<1>1. p \in Name /\ p \notin Taken /\ p # NoName
  <2>1. s.item[d] \in Item /\ Fit(s, d)
    BY DEF Sound, Typed
  <2> QED BY <2>1 DEF Fit, Item, Files
<1>2. /\ dk \in [Name -> Download \cup {Nobody, Foreign}]
      /\ \A n \in Name : dk[n] = Foreign <=> n \in Taken
  BY DEF Files
<1> HIDE DEF p
<1>3. /\ dk2 \in [Name -> Download \cup {Nobody, Foreign}]
      /\ dk2[p] = d /\ \A n \in Name : n # p => dk2[n] = dk[n]
  BY <1>1, <1>2 DEF p
<1>4. \A n \in Name : dk2[n] = Foreign <=> n \in Taken
  BY <1>1, <1>2, <1>3, DownloadsAssumption
<1>5. ASSUME engine = {}, NEW e \in Download PROVE OwnsAlone(s, c, nm, dk2, e)
  <2>1. OwnsAlone(s, c, nm, dk, e) /\ OwnsAlone(s, c, nm, dk, d)
    BY <1>5 DEF Files
  <2>2. \A n \in Name : dk2[n] = e => s.item[e].path = n
    BY <1>3, <2>1 DEF OwnsAlone, p
  <2>3. Is(s, e, "done") => dk2[s.item[e].path] = e
    <3>1. CASE e = d
      BY <1>3, <3>1 DEF p
    <3>2. CASE e # d /\ Is(s, e, "done")
      <4>1. s.item[e].path # p
        BY <1>1, <2>1, <3>2 DEF OwnsAlone, p
      <4>2. s.item[e] \in Item /\ Fit(s, e)
        BY DEF Sound, Typed
      <4>3. s.item[e].path \in Name
        BY <3>2, <4>2 DEF Fit, Is, Item
      <4> QED BY <1>3, <2>1, <3>2, <4>1, <4>3 DEF OwnsAlone
    <3> QED BY <3>1, <3>2
  <2> QED BY <2>1, <2>2, <2>3 DEF OwnsAlone
<1>6. Files(s, c, nm, dk2)
  BY <1>3, <1>4, <1>5 DEF Files
<1> QED BY <1>3, <1>6 DEF p

\* A copy settles.
LEMMA SettleKeeps ==
  ASSUME IInv, UNCHANGED <<engine, policy, call, names>>, NEW d \in Download, NEW how,
         store.copy[d] # "none", Settle(d, how), Files(store, call, names, disk'),
         how = "done" => disk'[store.item[d].path] = d
  PROVE  Preserved
<1> DEFINE status == Outcome(store, d, how)
           gone == Patch([store EXCEPT !.handles = Without(@, d),
                                       !.aborted = @ \ {d}, !.copy[d] = "none",
                                       !.cap[d] = 0, !.reserved[d] = 0], d, status)
           releases == status \in {"done", "canceled"} /\ d \in store.held
           released == [gone EXCEPT !.held = @ \ {d}]
           left == IF releases THEN released ELSE gone
<1>1. /\ IF releases THEN store' = released ELSE store' = Conclude(gone, d, policy)
      /\ closing' = IF releases THEN closing \cup {d} ELSE closing
      /\ removal' = IF removal[d] = "stopping" THEN [removal EXCEPT ![d] = "deleting"] ELSE removal
  BY Zenon DEF Settle
<1>2. /\ Typed(store) /\ Fields(store) /\ Fit(store, d) /\ Follows(store, call, removal, closing, d)
      /\ removal \in Removals /\ closing \subseteq Download /\ call \in Calls /\ names \subseteq Name
      /\ policy \in Policies /\ engine \subseteq Download /\ Sound(store) /\ Active(store, policy)
      /\ Context(store, call, removal, closing)
  BY DEF IInv, Sound, Typed, Context, Files
<1>3. HasHandle(store, d) /\ ~ Is(store, d, "absent") /\ d \notin closing
  BY <1>2 DEF Fit, Is, Follows
<1>4. /\ status \in {"removing", "done", "error", "paused", "canceled"}
      /\ status = "removing" <=> Is(store, d, "removing")
      /\ status = "done" => how = "done"
  BY DEF Outcome
<1> HIDE DEF status
<1>5. PICK cap, set :
        /\ cap = [store.cap EXCEPT ![d] = 0] /\ set = [store.reserved EXCEPT ![d] = 0]
        /\ gone = [store EXCEPT !.handles = Without(store.handles, d),
                                      !.aborted = store.aborted \ {d}, !.copy = [store.copy EXCEPT ![d] = "none"],
                                      !.cap = cap, !.reserved = set,
                                      !.item = [store.item EXCEPT ![d].status = status]]
  <2> DEFINE c == [store.cap EXCEPT ![d] = 0]
             v == [store.reserved EXCEPT ![d] = 0]
  <2>1. gone = [store EXCEPT !.handles = Without(store.handles, d),
                          !.aborted = store.aborted \ {d}, !.copy = [store.copy EXCEPT ![d] = "none"],
                          !.cap = c, !.reserved = v,
                          !.item = [store.item EXCEPT ![d].status = status]]
    BY <1>2 DEF Patch, Fields
  <2> QED BY <2>1
<1> HIDE DEF gone
<1>6. /\ Fields(gone) /\ Restated(store, gone, d, status)
      /\ gone.handles = Without(store.handles, d) /\ gone.copy = [store.copy EXCEPT ![d] = "none"]
      /\ gone.waiting = store.waiting /\ gone.held = store.held
      /\ gone.aborted = store.aborted \ {d} /\ gone.resume = store.resume
      /\ gone.cap = cap /\ gone.reserved = set
  BY <1>2, <1>5 DEF Fields, Restated
<1>7. /\ Fields(left) /\ left.item = gone.item /\ left.handles = gone.handles /\ left.copy = gone.copy
      /\ left.waiting = gone.waiting /\ left.aborted = gone.aborted /\ left.resume = gone.resume
      /\ left.held = IF releases THEN store.held \ {d} ELSE store.held
      /\ left.cap = gone.cap /\ left.reserved = gone.reserved
  BY <1>6 DEF Fields
<1> HIDE DEF left, releases
<1>8. /\ Listing(left.handles)
      /\ \A e \in Download : HasHandle(left, e) <=> HasHandle(store, e) /\ e # d
  <2>1. /\ Listing(Without(store.handles, d))
        /\ \A e : Contains(Without(store.handles, d), e) <=> Contains(store.handles, e) /\ e # d
    BY <1>2, WithoutOne DEF Typed
  <2> QED BY <1>6, <1>7, <2>1 DEF HasHandle
<1>9. /\ left.item \in [Download -> Item]
      /\ left.item[d].status = status /\ left.item[d].path = store.item[d].path
      /\ left.item[d].received = store.item[d].received
      /\ \A e \in Download : e # d => left.item[e] = store.item[e]
  <2>1. Restated(store, left, d, status) /\ status \in Status /\ store.item \in [Download -> Item]
    BY <1>2, <1>4, <1>6, <1>7 DEF Restated, Status, Typed
  <2> QED BY <2>1, RestatedItems
<1>10. Typed(left)
  <2>1. left.copy \in [Download -> Copy] /\ left.held \subseteq engine
    BY <1>2, <1>6, <1>7 DEF Typed, Copy
  <2> QED BY <1>2, <1>6, <1>7, <1>8, <1>9, <2>1 DEF Typed
<1>11. left.copy[d] = "none" /\ \A e \in Download : e # d => left.copy[e] = store.copy[e]
  BY <1>2, <1>6, <1>7 DEF Typed
<1>12. Fit(left, d)
  BY <1>2, <1>3, <1>4, <1>7, <1>8, <1>9, <1>11 DEF Fit, Is, Ended, releases
<1>13. \A e \in Download : e # d => Same(store, left, e)
  BY <1>7, <1>8, <1>9, <1>11 DEF Same
<1>14. Sound(left)
  BY <1>2, <1>10, <1>12, <1>13, OneDownload
<1>15. Active(left, policy)
  <2>1. Shown(left) \subseteq Shown(store)
    BY <1>4, <1>9 DEF Shown, Is
  <2> QED BY <1>2, <2>1, FewerShown
<1>16. Context(left, call, removal', closing')
  <2>1. removal' \in Removals /\ \A e \in Download : e # d => removal'[e] = removal[e]
    BY <1>1, <1>2 DEF Removals
  <2>2. closing' \subseteq Download /\ \A e \in Download : e # d => (e \in closing' => e \in closing)
    BY <1>1, <1>2
  <2>3. d \in closing' => status \in {"done", "canceled"}
    BY <1>1, <1>3 DEF releases
  <2>4. removal'[d] # "none" => status = "removing"
    BY <1>1, <1>2, <1>4 DEF Removals, Follows
  <2>5. Follows(left, call, removal', closing', d)
    BY <1>2, <1>3, <1>8, <1>9, <2>3, <2>4 DEF Follows, Is, Ended
  <2> QED BY <1>2, <1>13, <2>1, <2>2, <2>5, ContextOne
<1>17. Files(left, call, names, disk')
  <2>1. \A e \in Download : left.item[e].path = store.item[e].path
    BY <1>9
  <2>2. left.item[d].status # "done" \/ disk'[left.item[d].path] = d
    BY <1>4, <1>9
  <2> QED BY <1>2, <1>13, <2>1, <2>2, EditedFiles
<1>18. call' = call /\ names' = names /\ policy' = policy /\ UNCHANGED engine
  OBVIOUS
<1>21. Thrifty(store, left, policy)
  <2>1. /\ \A e \in Download : e # d => left.item[e].received = store.item[e].received
        /\ \A e \in Download : e # d => (HasHandle(left, e) <=> HasHandle(store, e))
        /\ ~ HasHandle(left, d)
    BY <1>8, <1>9
  <2>2. left.cap = [store.cap EXCEPT ![d] = 0] /\ left.reserved = [store.reserved EXCEPT ![d] = 0]
    BY <1>5, <1>6, <1>7
  <2>3. left.item[d].received <= store.item[d].received
    <3>1. store.item[d].received \in 0 .. Size
      BY <1>2 DEF Typed, Item
    <3> QED BY <1>9, <3>1
  <2>4. Spends(store, left, policy)
    BY <1>2, <1>9, <2>1, <2>2, <2>3, SpendsLess DEF Typed
  <2> QED BY <2>4 DEF Spends, Thrifty
<1>19. CASE releases
  <2>1. store' = left /\ closing' # {}
    BY <1>1, <1>19 DEF left
  <2> QED BY <1>2, <1>14, <1>15, <1>16, <1>17, <1>18, <1>21, <2>1, After
<1>20. CASE ~ releases
  <2>1. store' = Conclude(left, d, policy')
    BY <1>1, <1>18, <1>20 DEF left
  <2> QED BY <1>2, <1>14, <1>15, <1>16, <1>17, <1>18, <1>21, <2>1, ConcludeKeeps
<1> QED BY <1>19, <1>20

\* A copy of the list has a handle, and its name is one.
LEMMA CopyOf ==
  ASSUME IInv, NEW d \in Download, store.copy[d] # "none"
  PROVE  /\ ~ Is(store, d, "absent") /\ HasHandle(store, d) /\ Sound(store)
         /\ Files(store, call, names, disk) /\ policy \in Policies /\ engine \subseteq Download
BY DEF IInv, Sound, Fit, Is

LEMMA EndKeeps ==
  ASSUME IInv, NEW d \in Download, Finish(d) \/ Fail(d) \/ Stop(d)
  PROVE  Preserved
<1>1. /\ ~ Is(store, d, "absent") /\ HasHandle(store, d) /\ Sound(store)
      /\ Files(store, call, names, disk) /\ store.copy[d] # "none"
  BY CopyOf DEF Finish, Fail, Stop
<1>2. CASE Finish(d)
  <2>1. disk' = [disk EXCEPT ![store.item[d].path] = d]
    BY <1>2 DEF Finish
  <2>3. Files(store, call, names, disk')
    BY <1>1, <2>1, WrittenFiles
  <2>4. disk'[store.item[d].path] = d
    <3>1. store.item[d] \in Item /\ Fit(store, d)
      BY <1>1 DEF Sound, Typed
    <3>2. store.item[d].path \in Name
      BY <1>1, <3>1 DEF Fit, Item
    <3>3. disk \in [Name -> Download \cup {Nobody, Foreign}]
      BY <1>1 DEF Files
    <3> QED BY <2>1, <3>2, <3>3
  <2>2. UNCHANGED <<engine, policy, call, names>> /\ Settle(d, "done")
    BY <1>2 DEF Finish, copies
  <2> QED BY <1>1, <2>2, <2>3, <2>4, SettleKeeps
<1>3. CASE Fail(d)
  <2>1. UNCHANGED <<engine, policy, call, names>> /\ disk' = disk /\ Settle(d, "failed")
    BY <1>3 DEF Fail, copies
  <2> QED BY <1>1, <2>1, SettleKeeps
<1>4. CASE Stop(d)
  <2>1. UNCHANGED <<engine, policy, call, names>> /\ disk' = disk /\ Settle(d, "aborted")
    BY <1>4 DEF Stop, copies
  <2> QED BY <1>1, <2>1, SettleKeeps
<1> QED BY <1>2, <1>3, <1>4

LEMMA SelectedKeeps ==
  ASSUME IInv, NEW d \in Download, NEW ok \in BOOLEAN, Selected(d, ok)
  PROVE  Preserved
<1>1. /\ ~ Is(store, d, "absent") /\ HasHandle(store, d) /\ Sound(store) /\ store.copy[d] # "none"
      /\ Files(store, call, names, disk) /\ policy \in Policies /\ engine \subseteq Download
  BY CopyOf DEF Selected
<1>2. UNCHANGED <<engine, policy, call, names, disk>>
  BY DEF Selected, copies
<1>3. CASE ~ (ok /\ d \notin store.aborted)
  <2>1. Settle(d, "failed")
    BY <1>3 DEF Selected
  <2> QED BY <1>1, <1>2, <2>1, SettleKeeps
<1>4. CASE ok /\ d \notin store.aborted
  <2>1. store' = [store EXCEPT !.copy[d] = "writing"] /\ UNCHANGED <<removal, closing>>
    BY <1>4 DEF Selected
  <2>2. /\ Fields(store') /\ store'.item = store.item /\ store'.handles = store.handles
        /\ store'.copy = [store.copy EXCEPT ![d] = "writing"]
        /\ store'.waiting = store.waiting /\ store'.reserved = store.reserved
        /\ store'.aborted = store.aborted /\ store'.resume = store.resume /\ store'.held = store.held
    BY <1>1, <2>1 DEF Sound, Typed, Fields
  <2>3. /\ store'.copy \in [Download -> Copy] /\ store'.copy[d] # "none"
        /\ \A e \in Download : e # d => store'.copy[e] = store.copy[e]
    BY <1>1, <2>2 DEF Sound, Typed, Copy
  <2>4. Typed(store')
    BY <1>1, <2>2, <2>3 DEF Sound, Typed
  <2>5. Fit(store', d)
    BY <1>1, <2>2, <2>3 DEF Sound, Fit, Is, HasHandle
  <2>6. \A e \in Download : e # d => Same(store, store', e)
    BY <2>2, <2>3 DEF Same, HasHandle
  <2>7. Sound(store')
    BY <1>1, <2>4, <2>5, <2>6, OneDownload
  <2>8. Follows(store', call, removal, closing, d)
    <3>1. Follows(store, call, removal, closing, d)
      BY DEF IInv, Context
    <3> QED BY <2>2, <3>1 DEF Follows, Is, HasHandle
  <2>9. Context(store', call, removal, closing)
    <3>1. \A e \in Download : e # d =>
            /\ Same(store, store', e) /\ call[e] = call[e] /\ removal[e] = removal[e]
            /\ (e \in closing => e \in closing)
      BY <2>6
    <3>2. Context(store, call, removal, closing) /\ call \in Calls /\ removal \in Removals /\ closing \subseteq Download
      BY DEF IInv, Context
    <3> QED BY <2>8, <3>1, <3>2, ContextOne
  <2>10. Files(store', call, names, disk)
    <3>1. ASSUME engine = {}, NEW e \in Download
          PROVE  /\ Is(store', e, "done") => Is(store, e, "done") \/ disk[store'.item[e].path] = e
                 /\ call[e].at = "checking" => call[e] = call[e] /\ call[e].path \in names
      BY <1>1, <2>2, <3>1 DEF Files, OwnsAlone, Is
    <3>2. names \subseteq Name /\ \A e \in Download : store'.item[e].path = store.item[e].path
      BY <1>1, <2>2 DEF Files
    <3> QED BY <1>1, <3>1, <3>2, FilesStay
  <2>11. Active(store', policy)
    BY <2>2 DEF IInv, Active, Shown, Is
  <2>12. closing # {} \/ Idle(store', policy)
    <3>1. HasBudget(store', policy) <=> HasBudget(store, policy)
      BY <2>2, SameBytes
    <3> QED BY <2>2, <3>1 DEF IInv, Idle
  <2>13. Thrifty(store, store', policy')
    <3>1. /\ \A e \in Download : HasHandle(store', e) <=> HasHandle(store, e)
          /\ store'.cap = store.cap
      BY <1>1, <2>1, <2>2 DEF Sound, Typed, Fields, HasHandle
    <3>2. Spends(store, store', policy')
      BY <1>1, <2>2, <3>1, SpendsNothing DEF Sound, Typed
    <3> QED BY <3>2 DEF Spends, Thrifty
  <2> QED BY <1>1, <1>2, <2>1, <2>7, <2>9, <2>10, <2>11, <2>12, <2>13, After
<1> QED BY <1>3, <1>4

LEMMA ProgressKeeps ==
  ASSUME IInv, NEW d \in Download, Progress(d)
  PROVE  Preserved
<1> DEFINE got == store.item[d].received + 1
           bound == IF d \in Sized THEN Size ELSE store.cap[d]
           set == IF store.cap[d] = Unlimited THEN store.reserved[d]
                  ELSE Min({bound, store.cap[d]}) - got
           t == [store EXCEPT !.item[d].received = got, !.reserved[d] = set]
<1>1. /\ ~ Is(store, d, "absent") /\ HasHandle(store, d) /\ Sound(store) /\ store.copy[d] # "none"
      /\ Files(store, call, names, disk) /\ policy \in Policies /\ engine \subseteq Download
  BY CopyOf DEF Progress
<1>2. UNCHANGED <<engine, policy, call, names, removal, closing>> /\ got \in 1 .. Size
  BY DEF Progress, copies, Room
<1>3. store' = Pump(t, policy') /\ disk' = [disk EXCEPT ![store.item[d].path] = d]
  BY <1>2 DEF Progress
<1>15. got \in Room(d)
  BY DEF Progress
<1> HIDE DEF got
<1>4. /\ Fields(t) /\ t.item = [store.item EXCEPT ![d].received = got]
      /\ t.handles = store.handles /\ t.aborted = store.aborted /\ t.copy = store.copy
      /\ t.waiting = store.waiting /\ t.resume = store.resume /\ t.held = store.held
      /\ t.cap = store.cap /\ t.reserved = [store.reserved EXCEPT ![d] = set]
  <2>1. PICK v : v = [store.reserved EXCEPT ![d] = set]
    OBVIOUS
  <2>2. Fields(store)
    BY <1>1 DEF Sound, Typed
  <2>3. t = [store EXCEPT !.item = [store.item EXCEPT ![d].received = got], !.reserved = v]
    BY <2>1, <2>2 DEF Fields
  <2> HIDE DEF t
  <2> QED BY <2>1, <2>2, <2>3 DEF Fields
<1> HIDE DEF t
<1>5. /\ t.item \in [Download -> Item]
      /\ \A e \in Download : /\ t.item[e].status = store.item[e].status
                             /\ t.item[e].path = store.item[e].path
      /\ \A e \in Download : e # d => t.item[e] = store.item[e]
  <2>1. store.item \in [Download -> Item] /\ got \in 0 .. Size
    BY <1>1, <1>2 DEF Sound, Typed
  <2> QED BY <1>4, <2>1 DEF Item
<1>6. Typed(t)
  BY <1>1, <1>4, <1>5 DEF Sound, Typed
<1>7. \A e \in Download : e # d => Same(store, t, e)
  BY <1>4, <1>5 DEF Same, HasHandle
<1>8. Fit(t, d)
  BY <1>1, <1>4, <1>5 DEF Sound, Fit, Is, HasHandle
<1>9. Sound(t)
  BY <1>1, <1>6, <1>7, <1>8, OneDownload
<1>10. Active(t, policy')
  BY <1>2, <1>5 DEF IInv, Active, Shown, Is
<1>11. Forward(store, t)
  BY <1>4, <1>5 DEF Forward
<1>12. Context(t, call', removal', closing')
  BY <1>1, <1>2, <1>9, <1>11, ContextForward DEF IInv
<1>13. Files(t, call', names', disk')
  <2>1. Files(store, call, names, disk')
    BY <1>1, <1>3, WrittenFiles
  <2> QED BY <1>2, <1>11, <2>1, FilesForward
<1>14. Thrifty(store, t, policy')
  <2>1. t.item[d].received = got /\ got = store.item[d].received + 1
    BY <1>1, <1>4 DEF Sound, Typed, got, Item
  <2>2. got <= store.cap[d] /\ (d \in Sized => Size <= store.cap[d])
    BY <1>15 DEF Room
  <2>3. set = IF store.cap[d] = Unlimited THEN store.reserved[d]
              ELSE Min({IF d \in Sized THEN Size ELSE store.cap[d], store.cap[d]}) - t.item[d].received
    BY <2>1 DEF set, bound
  <2> HIDE DEF set, bound
  <2>4. /\ \A e \in Download : HasHandle(t, e) <=> HasHandle(store, e)
        /\ \A e \in Download : e # d => t.item[e].received = store.item[e].received
    BY <1>4, <1>5 DEF HasHandle
  <2>5. \A p : Thrifty(store, t, p)
    <3>1. store.item \in [Download -> Item]
      BY <1>1 DEF Sound, Typed
    <3>2. t.item[d].received = store.item[d].received + 1 /\ t.item[d].received <= store.cap[d]
      BY <2>1, <2>2
    <3>3. t.item \in [Download -> Item] /\ HasHandle(store, d) /\ (d \in Sized => Size <= store.cap[d])
      BY <1>1, <1>5, <2>2
    <3>4. t.cap = store.cap /\ t.reserved = [store.reserved EXCEPT ![d] = set]
      BY <1>4
    <3> QED BY ONLY <2>3, <2>4, <3>1, <3>2, <3>3, <3>4, d \in Download, ReceivedSpends
  <2> QED BY <2>5
<1> QED BY <1>1, <1>2, <1>3, <1>9, <1>10, <1>12, <1>13, <1>14, AfterPump

LEMMA ReleasedKeeps ==
  ASSUME IInv, NEW d \in Download, Released(d)
  PROVE  Preserved
<1>1. /\ UNCHANGED <<engine, policy, call, names, removal, disk>> /\ closing' = closing \ {d}
      /\ policy \in Policies /\ engine \subseteq Download /\ Sound(store) /\ Active(store, policy)
      /\ Context(store, call, removal, closing) /\ Files(store, call, names, disk)
      /\ store' = Conclude(store, d, policy)
  BY DEF Released, copies, IInv
<1>2. Context(store, call, removal, closing')
  BY <1>1 DEF Context, Follows
<1>3. Thrifty(store, store, policy)
  BY <1>1, NothingSpent
<1> QED BY <1>1, <1>2, <1>3, ConcludeKeeps

\* The answer to a removal: the item goes with its file, or stays and says so.
LEMMA DeletedKeeps ==
  ASSUME IInv, NEW d \in Download, NEW ok \in BOOLEAN, Deleted(d, ok)
  PROVE  Preserved
<1> DEFINE left == [store EXCEPT !.held = @ \ {d}]
           p == store.item[d].path
           t == IF ok THEN [left EXCEPT !.item[d] = NoItem] ELSE Patch(left, d, "removal-error")
<1>1. /\ UNCHANGED <<engine, policy, call, closing>> /\ removal[d] = "deleting"
      /\ disk' = (IF ok THEN [disk EXCEPT ![p] = Nobody] ELSE disk)
      /\ removal' = [removal EXCEPT ![d] = "none"] /\ names' = names \ {p}
      /\ store' = Pump(t, policy')
  BY DEF Deleted
<1>2. /\ policy \in Policies /\ engine \subseteq Download /\ Sound(store) /\ Active(store, policy)
      /\ Context(store, call, removal, closing) /\ Files(store, call, names, disk)
      /\ Typed(store) /\ Fields(store) /\ Fit(store, d) /\ Follows(store, call, removal, closing, d)
      /\ call \in Calls /\ removal \in Removals /\ closing \subseteq Download /\ names \subseteq Name
  BY DEF IInv, Sound, Typed, Context, Files
<1>3. Is(store, d, "removing") /\ ~ HasHandle(store, d) /\ ~ Is(store, d, "absent") /\ p \in Name /\ p # NoName
  <2>1. store.item[d] \in Item
    BY <1>2 DEF Typed
  <2> QED BY <1>1, <1>2, <2>1 DEF Follows, Fit, Is, Item
<1>4. removal' \in Removals /\ removal'[d] = "none" /\ \A e \in Download : e # d => removal'[e] = removal[e]
  BY <1>1, <1>2 DEF Removals
<1> DEFINE new == IF ok THEN NoItem ELSE [store.item[d] EXCEPT !.status = "removal-error"]
<1>5. /\ Fields(t) /\ t.item = [store.item EXCEPT ![d] = new] /\ t.held = store.held \ {d}
      /\ t.handles = store.handles /\ t.aborted = store.aborted /\ t.copy = store.copy
      /\ t.reserved = store.reserved /\ t.waiting = store.waiting /\ t.resume = store.resume
      /\ t.cap = store.cap
  BY <1>2 DEF Patch, Fields
<1>6. /\ new \in Item /\ new.status = IF ok THEN "absent" ELSE "removal-error"
      /\ new.path = IF ok THEN NoName ELSE p
      /\ ok => new.received = 0
  <2>1. NoItem \in Item
    BY DownloadsAssumption DEF NoItem, Item, Status, NoName
  <2>2. store.item[d] \in Item
    BY <1>2 DEF Typed
  <2> QED BY <2>1, <2>2 DEF NoItem, Item, Status
<1> HIDE DEF t, new
<1>7. /\ t.item \in [Download -> Item] /\ t.item[d] = new
      /\ \A e \in Download : e # d => t.item[e] = store.item[e]
  BY <1>2, <1>5, <1>6 DEF Typed
<1>8. Typed(t)
  BY <1>2, <1>5, <1>7 DEF Typed
<1>9. \A e \in Download : e # d => Same(store, t, e)
  BY <1>5, <1>7 DEF Same, HasHandle
<1>10. Fit(t, d)
  <2>1. ~ HasHandle(t, d) /\ t.copy[d] = "none" /\ d \notin t.held
    BY <1>2, <1>3, <1>5 DEF HasHandle, Fit
  <2>2. Is(t, d, "absent") <=> t.item[d].path = NoName
    BY <1>3, <1>6, <1>7 DEF Is
  <2>3. ~ Is(t, d, "downloading") /\ (Is(t, d, "absent") => t.item[d].received = 0)
    BY <1>6, <1>7 DEF Is
  <2> QED BY <2>1, <2>2, <2>3 DEF Fit
<1>11. Sound(t)
  BY <1>2, <1>8, <1>9, <1>10, OneDownload
<1>12. Active(t, policy')
  <2>1. Shown(t) \subseteq Shown(store)
    BY <1>6, <1>7 DEF Shown, Is
  <2> QED BY <1>1, <1>2, <2>1, FewerShown
<1>13. Context(t, call', removal', closing')
  <2>1. Follows(t, call, removal', closing, d)
    <3>1. ~ HasHandle(t, d) /\ t.item[d].status \in Ended
      BY <1>3, <1>5, <1>6, <1>7 DEF HasHandle, Ended
    <3>2. call[d].at \notin {"new", "checking"}
      BY <1>2, <1>3 DEF Follows
    <3> QED BY <1>2, <1>4, <3>1, <3>2 DEF Follows
  <2>2. \A e \in Download : e # d =>
          /\ Same(store, t, e) /\ call[e] = call[e] /\ removal'[e] = removal[e]
          /\ (e \in closing => e \in closing)
    BY <1>4, <1>9
  <2>3. Context(t, call, removal', closing)
    BY <1>2, <1>4, <2>1, <2>2, ContextOne
  <2> QED BY <1>1, <2>3
<1>14. /\ disk' \in [Name -> Download \cup {Nobody, Foreign}]
       /\ \A n \in Name : n # p => disk'[n] = disk[n]
       /\ disk'[p] = IF ok THEN Nobody ELSE disk[p]
  BY <1>1, <1>2, <1>3 DEF Files
<1>15. \A n \in Name : disk'[n] = Foreign <=> n \in Taken
  <2>1. p \notin Taken /\ Nobody # Foreign
    BY <1>2 DEF Files, Nobody, Foreign
  <2> QED BY <1>2, <1>14, <2>1 DEF Files
<1>16. ASSUME engine = {}, NEW e \in Download PROVE OwnsAlone(t, call, names', disk', e)
  <2>1. \A x \in Download : OwnsAlone(store, call, names, disk, x)
    BY <1>2, <1>16 DEF Files
  <2>2. OwnsAlone(store, call, names, disk, d) /\ OwnsAlone(store, call, names, disk, e)
    BY <2>1
  <2>3. \A x \in Download : x # d => store.item[x].path # p
    BY <1>3, <2>2 DEF OwnsAlone
  <2>4. \A x \in Download : t.item[x].path \in {store.item[x].path, NoName}
    BY <1>6, <1>7
  <2>5. t.item[e].path # NoName => \A x \in Download : x # e => t.item[x].path # t.item[e].path
    BY <2>2, <2>4 DEF OwnsAlone
  <2>6. call[e].at = "checking" =>
          /\ call[e].path \in names' /\ call[e].path # NoName
          /\ \A x \in Download : t.item[x].path # call[e].path
          /\ \A x \in Download : x # e /\ call[x].at = "checking" => call[x].path # call[e].path
    <3>1. call[e].at = "checking" => call[e].path \in Name
      BY <1>2 DEF Context, Follows
    <3>2. call[e].at = "checking" => call[e].path # p
      BY <2>2 DEF OwnsAlone
    <3> QED BY <1>1, <2>2, <2>4, <3>1, <3>2, NamesApart DEF OwnsAlone
  <2>7. ASSUME NEW n \in Name, disk'[n] = e PROVE t.item[e].path = n
    <3>1. CASE n # p
      <4>1. store.item[e].path = n
        BY <1>14, <2>2, <2>7, <3>1 DEF OwnsAlone
      <4> QED BY <1>7, <3>1, <4>1
    <3>2. CASE n = p
      <4>1. ~ ok /\ disk[p] = e
        BY <1>14, <2>7, <3>2, DownloadsAssumption
      <4>2. store.item[e].path = p
        BY <1>3, <2>2, <4>1 DEF OwnsAlone
      <4> QED BY <1>6, <1>7, <3>2, <4>1, <4>2
    <3> QED BY <3>1, <3>2
  <2>8. ASSUME Is(t, e, "done") PROVE disk'[t.item[e].path] = e
    <3>1. e # d
      BY <1>6, <1>7, <2>8 DEF Is
    <3>2. t.item[e] = store.item[e] /\ disk[store.item[e].path] = e /\ store.item[e].path # p
      BY <1>7, <2>2, <2>3, <2>8, <3>1 DEF OwnsAlone, Is
    <3>3. store.item[e].path \in Name
      <4>1. store.item[e] \in Item /\ Fit(store, e)
        BY <1>2 DEF Sound, Typed
      <4> QED BY <2>8, <3>2, <4>1 DEF Fit, Is, Item
    <3> QED BY <1>14, <3>2, <3>3
  <2> QED BY <2>5, <2>6, <2>7, <2>8 DEF OwnsAlone
<1>17. Files(t, call', names', disk')
  <2>1. \A e \in Download : t.item[e].path \notin Taken
    <3>1. \A e \in Download : store.item[e].path \notin Taken
      BY <1>2 DEF Files
    <3>2. \A e \in Download : t.item[e].path \in {store.item[e].path, NoName}
      BY <1>6, <1>7
    <3>3. NoName \notin Taken
      BY NamesApart
    <3> QED BY <3>1, <3>2, <3>3
  <2> QED BY <1>1, <1>2, <1>14, <1>15, <1>16, <2>1 DEF Files
<1>18. Thrifty(store, t, policy)
  <2>1. t.item[d].received <= store.item[d].received
    <3>1. store.item[d] \in Item /\ store.item[d].received \in 0 .. Size
      BY <1>2 DEF Typed, Item
    <3>2. ~ ok => t.item[d].received = store.item[d].received
      BY <1>7, <3>1 DEF new, Item
    <3> QED BY <1>6, <1>7, <3>1, <3>2
  <2>2. \A e \in Download : HasHandle(t, e) <=> HasHandle(store, e)
    BY <1>5 DEF HasHandle
  <2>3. \A e \in Download : e # d => t.item[e].received = store.item[e].received
    BY <1>7
  <2>4. Spends(store, t, policy)
    BY <1>2, <1>3, <1>5, <1>7, <2>1, <2>2, <2>3, SpendsLess DEF Typed
  <2> QED BY <2>4 DEF Spends, Thrifty
<1> QED BY <1>1, <1>2, <1>11, <1>12, <1>13, <1>17, <1>18, AfterPump

----------------------------------------------------------------------------
(* Restarts, and the theorems.                                             *)

LEMMA RestartKeeps ==
  ASSUME IInv, Restart
  PROVE  Preserved
<1>1. PICK lost \in SUBSET Behind : Hydrate(lost)
  BY DEF Restart
<1> DEFINE New(d) == [store.item[d] EXCEPT !.status = Hydrated(@),
                                           !.received = IF d \in lost THEN @ - 1 ELSE @]
           new == [d \in Download |-> New(d)]
<1>2. /\ UNCHANGED <<engine, policy, disk>> /\ names' = {} /\ closing' = {}
      /\ removal' = [d \in Download |-> "none"]
      /\ call' = [d \in Download |-> IF call[d].at = "new" THEN call[d]
                                     ELSE [at |-> "returned", path |-> NoName]]
      /\ store' = [EmptyStore EXCEPT !.item = new]
  BY <1>1 DEF Hydrate
<1>3. /\ policy \in Policies /\ engine \subseteq Download /\ Sound(store) /\ Typed(store)
      /\ call \in Calls /\ Files(store, call, names, disk)
      /\ \A d \in Download : Fit(store, d) /\ Follows(store, call, removal, closing, d)
  BY DEF IInv, Sound, Context
<1>4. ASSUME NEW d \in Download
      PROVE  /\ New(d) \in Item
             /\ New(d).status = Hydrated(store.item[d].status)
             /\ New(d).path = store.item[d].path
             /\ Is(store, d, "absent") => New(d).received = 0
  <2>1. store.item[d] \in Item
    BY <1>3 DEF Typed
  <2>2. Hydrated(store.item[d].status) \in Status
    BY <2>1 DEF Hydrated, Status, Item
  <2>3. d \in lost => HasHandle(store, d) /\ store.item[d].received > 0
    BY <1>1 DEF Behind
  <2>4. /\ (IF d \in lost THEN store.item[d].received - 1 ELSE store.item[d].received) \in 0 .. Size
        /\ Is(store, d, "absent") => d \notin lost /\ store.item[d].received = 0
    BY <1>3, <2>1, <2>3, DownloadsAssumption DEF Item, Fit, Is
  <2> QED BY <2>1, <2>2, <2>4 DEF Item
<1> HIDE DEF New
<1>5. /\ Fields(store') /\ store'.item = new /\ store'.handles = <<>> /\ store'.waiting = <<>>
      /\ store'.aborted = {} /\ store'.resume = {} /\ store'.held = {}
      /\ store'.copy = [d \in Download |-> "none"]
  BY <1>2 DEF EmptyStore, Fields
<1>6. \A st : /\ Hydrated(st) \notin {"queued", "downloading", "removing"}
              /\ Hydrated(st) = "absent" <=> st = "absent"
              /\ Hydrated(st) = "done" <=> st = "done"
  BY DEF Hydrated
<1>7. Sound(store')
  <2>1. Listing(<<>>)
    BY DEF Listing, IsInjective
  <2>2. new \in [Download -> Item]
    BY <1>4
  <2>3. Typed(store')
    BY <1>5, <2>1, <2>2 DEF Typed, Copy
  <2>4. ASSUME NEW d \in Download PROVE Fit(store', d)
    <3>1. ~ HasHandle(store', d) /\ store'.copy[d] = "none" /\ d \notin store'.held
      BY <1>5 DEF HasHandle, Contains
    <3>2. store'.item[d] = New(d)
      BY <1>5
    <3>3. Is(store', d, "absent") <=> Is(store, d, "absent")
      BY <1>4, <1>6, <3>2 DEF Is
    <3>4. ~ Is(store', d, "downloading")
      BY <1>4, <1>6, <3>2 DEF Is
    <3>5. /\ Is(store', d, "absent") <=> store'.item[d].path = NoName
          /\ Is(store', d, "absent") => store'.item[d].received = 0
      BY <1>3, <1>4, <3>2, <3>3 DEF Fit
    <3> QED BY <3>1, <3>4, <3>5 DEF Fit
  <2> QED BY <2>3, <2>4 DEF Sound
<1>8. Active(store', policy') /\ Idle(store', policy')
  <2>1. Shown(store') = {}
    BY <1>4, <1>5, <1>6 DEF Shown, Is
  <2>2. policy' \in Policies /\ policy'.concurrent \in Nat
    BY <1>2, <1>3, DownloadsAssumption
  <2> QED BY <1>5, <2>1, <2>2, FS_EmptySet DEF Active, Idle
<1>9. \A d \in Download : /\ call'[d].at \in {"new", "returned"}
                          /\ call'[d].at = "new" => call'[d] = call[d] /\ call[d].at = "new"
  BY <1>2
<1>10. Context(store', call', removal', closing')
  <2>1. call' \in Calls /\ removal' \in Removals
    BY <1>2, <1>3 DEF Calls, Removals
  <2>2. ASSUME NEW d \in Download PROVE Follows(store', call', removal', closing', d)
    <3>1. removal'[d] = "none" /\ d \notin closing'
      BY <1>2
    <3>2. call'[d].at = "new" => Is(store', d, "absent") /\ call'[d].path = NoName
      BY <1>3, <1>4, <1>5, <1>6, <1>9 DEF Follows, Is
    <3>3. call'[d].at \in {"new", "returned"}
      BY <1>9
    <3> QED BY <3>1, <3>2, <3>3 DEF Follows
  <2> QED BY <1>2, <2>1, <2>2 DEF Context
<1>11. Files(store', call', names', disk')
  <2>1. \A d \in Download : store'.item[d].path = store.item[d].path
    BY <1>4, <1>5
  <2>2. ASSUME engine = {}, NEW d \in Download
        PROVE  /\ Is(store', d, "done") => Is(store, d, "done") \/ disk[store'.item[d].path] = d
               /\ call'[d].at = "checking" => call'[d] = call[d] /\ call'[d].path \in names'
    BY <1>4, <1>5, <1>6, <1>9 DEF Is
  <2>3. names' \subseteq Name
    BY <1>2
  <2>4. Files(store', call', names', disk)
    BY <1>3, <2>1, <2>2, <2>3, FilesStay
  <2> QED BY <1>2, <2>4
<1>12. Thrifty(store, store', policy')
  <2>1. ASSUME NEW d \in Download
        PROVE  /\ store'.item[d].received <= store.item[d].received
               /\ store'.reserved[d] = 0 /\ store'.cap[d] = 0 /\ ~ HasHandle(store', d)
    <3>1. store.item[d].received \in 0 .. Size /\ Size \in Nat
      BY <1>3, DownloadsAssumption DEF Typed, Item
    <3>2. New(d).received \in {store.item[d].received, store.item[d].received - 1}
      BY <1>3 DEF New, Typed, Item
    <3>3. store'.reserved[d] = 0 /\ store'.cap[d] = 0 /\ ~ HasHandle(store', d)
      BY <1>2, <1>5 DEF EmptyStore, HasHandle, Contains
    <3> QED BY <1>5, <3>1, <3>2, <3>3
  <2>2. store'.reserved = [d \in Download |-> 0] /\ store'.cap = [d \in Download |-> 0]
    BY <1>2 DEF EmptyStore
  <2>3. Budgeted(store')
    BY <2>1, <2>2 DEF Budgeted, Promised
  <2>4. ASSUME Budgeted(store) PROVE Committed(store') <= Committed(store)
    <3>1. store.reserved \in [Download -> Nat] /\ store'.reserved \in [Download -> Nat]
      BY <2>2, <2>4 DEF Budgeted
    <3>2. store.item \in [Download -> Item] /\ store'.item \in [Download -> Item]
      BY <1>3, <1>7 DEF Sound, Typed
    <3>3. PICK f, g : /\ f = [d \in Download |-> store.item[d].received + store.reserved[d]]
                      /\ g = [d \in Download |-> store'.item[d].received + store'.reserved[d]]
      OBVIOUS
    <3>4. ASSUME NEW d \in Download PROVE f[d] \in Nat /\ g[d] \in Nat /\ g[d] <= f[d]
      <4>1. /\ store.item[d].received \in Nat /\ store'.item[d].received \in Nat
            /\ store.reserved[d] \in Nat
        BY <3>1, <3>2, DownloadsAssumption DEF Item
      <4>2. f[d] = store.item[d].received + store.reserved[d] /\ g[d] = store'.item[d].received
        BY <2>1, <3>3, <4>1
      <4> QED BY <2>1, <4>1, <4>2
    <3>5. f \in [Download -> Nat] /\ g \in [Download -> Nat]
      BY <3>3, <3>4
    <3>6. SumFunction(g) <= SumFunction(f)
      BY <3>4, <3>5, SumBelow, DownloadsAssumption
    <3> QED BY <3>3, <3>6 DEF Committed
  <2> QED BY <2>3, <2>4 DEF Thrifty, Within
<1> QED BY <1>2, <1>3, <1>7, <1>8, <1>10, <1>11, <1>12, After

LEMMA StepKeeps ==
  ASSUME IInv, [Next]_vars
  PROVE  Preserved
<1>1. CASE UNCHANGED vars
  <2>1. IInv'
    BY <1>1 DEF vars, IInv, Sound, Typed, Fields, Fit, Is, HasHandle, Active, Shown, Idle, HasBudget,
                Committed, Context, Follows, Files, OwnsAlone
  <2>2. Thrifty(store, store', policy')
    BY <1>1, NothingSpent DEF IInv, vars
  <2> QED BY <2>1, <2>2 DEF Preserved
<1>2. ASSUME NEW d \in Download, User(d) PROVE Preserved
  BY <1>2, EnqueueKeeps, PauseStepKeeps, ResumeKeeps, CancelKeeps, RemoveKeeps, PrioritizeKeeps DEF User
<1>3. ASSUME NEW d \in Download, Answer(d) PROVE Preserved
  BY <1>3, EnqueueKeeps, RegisterKeeps, ReleasedKeeps, RetainedKeeps, SelectedKeeps, DeletedKeeps
     DEF Answer
<1>4. ASSUME NEW d \in Download, CopyStep(d) PROVE Preserved
  BY <1>4, ProgressKeeps, EndKeeps DEF CopyStep
<1>5. ASSUME NEW p \in Policies, Configure(p) PROVE Preserved
  BY <1>5, ConfigureKeeps
<1>6. CASE Restart
  BY <1>6, RestartKeeps
<1> QED BY <1>1, <1>2, <1>3, <1>4, <1>5, <1>6 DEF Next

\* The invariants all of the theorems below rest on.
THEOREM Invariance == Spec => []IInv
<1>1. IInv /\ [Next]_vars => IInv'
  BY StepKeeps DEF Preserved
<1> QED BY <1>1, InitKeeps, PTL DEF Spec

THEOREM Promises == Spec => []Budgeted(store)
<1>1. Init => Budgeted(store)
  <2> SUFFICES ASSUME Init PROVE Budgeted(store)
    OBVIOUS
  <2>1. \A d \in Download : ~ HasHandle(store, d)
    BY DEF Init, EmptyStore, HasHandle, Contains
  <2>2. store.reserved = [d \in Download |-> 0] /\ store.cap = [d \in Download |-> 0]
    BY DEF Init, EmptyStore
  <2> QED BY <2>1, <2>2 DEF Budgeted, Promised
<1>2. IInv /\ Budgeted(store) /\ [Next]_vars => Budgeted(store)'
  <2> SUFFICES ASSUME IInv, Budgeted(store), [Next]_vars PROVE Budgeted(store)'
    OBVIOUS
  <2>1. Budgeted(store')
    BY StepKeeps DEF Preserved, Thrifty
  <2> QED BY <2>1 DEF Budgeted, Promised, HasHandle
<1> QED BY <1>1, <1>2, Invariance, PTL DEF Spec

\* Nothing of the list is started, or deleted, beside a copy that still
\* writes, whatever is queued, paused, resumed, removed or restarted.
THEOREM WritersStayConsistent == Spec => []WritersConsistent
<1>1. IInv => WritersConsistent
  <2> SUFFICES ASSUME IInv PROVE WritersConsistent
    OBVIOUS
  <2>1. TypeOK
    BY DEF IInv, Sound, Typed, Listing, Context, Calls, Removals, Files, TypeOK
  <2>2. QueuedHasNoWriter
    BY DEF IInv, Sound, Fit, Context, Follows, Is, Ended, QueuedHasNoWriter
  <2>3. WriterStopsFirst
    BY DEF IInv, Sound, Fit, Context, Follows, Is, WriterStopsFirst
  <2> QED BY <2>1, <2>2, <2>3 DEF WritersConsistent
<1> QED BY <1>1, Invariance, PTL

\* An item shows as downloading only with a copy of its own, and no more of
\* them do than the user allows, also after the limit is lowered.
THEOREM LimitStaysKept == Spec => []ActiveWithinLimit
<1>1. IInv => ActiveWithinLimit
  BY DEF IInv, Sound, Fit, Active, Shown, ActiveWithinLimit
<1> QED BY <1>1, Invariance, PTL

\* No lost wake-up: every way of freeing a slot or budget hands it on.
THEOREM SlotsAreHandedOn == Spec => []NoIdleSlot
<1>1. IInv => NoIdleSlot
  <2> SUFFICES ASSUME IInv, NEW d \in Download, Contains(store.waiting, d),
                      Len(store.handles) < policy.concurrent, HasBudget(store, policy)
               PROVE  closing # {}
    BY DEF NoIdleSlot
  <2>1. store.waiting # <<>>
    BY DEF Contains
  <2>2. ~ (Len(store.handles) >= policy.concurrent)
    <3>1. Len(store.handles) \in Nat /\ policy.concurrent \in Nat
      BY DownloadsAssumption DEF IInv, Sound, Typed, Listing
    <3> QED BY <3>1
  <2> QED BY <2>1, <2>2 DEF IInv, Idle
<1> QED BY <1>1, Invariance, PTL

\* Without torrents every file has one item that names it, a finished download
\* has its file, and no file that was there before is touched.
THEOREM FilesStayConsistent == Spec => []FilesConsistent
<1>1. IInv => FilesConsistent
  <2> SUFFICES ASSUME IInv PROVE FilesConsistent
    OBVIOUS
  <2>1. DirectPathsExclusive
    BY DEF IInv, Sound, Fit, Files, OwnsAlone, DirectPathsExclusive
  <2>2. FilesOwned
    <3>1. \A n \in Name : (disk[n] = Foreign) = (n \in Taken)
      BY DEF IInv, Files
    <3> QED BY <3>1 DEF IInv, Files, OwnsAlone, FilesOwned
  <2>3. DoneHasFile
    BY DEF IInv, Files, OwnsAlone, DoneHasFile
  <2> QED BY <2>1, <2>2, <2>3 DEF FilesConsistent
<1> QED BY <1>1, Invariance, PTL

\* A torrent is held while a copy of it runs, and no longer than its download.
THEOREM HoldsStayMatched == Spec => []HoldsMatchCopies
<1>1. IInv => HoldsMatchCopies
  BY DEF IInv, Sound, Typed, Fit, Ended, HoldsMatchCopies
<1> QED BY <1>1, Invariance, PTL

\* What is on disk and what running copies were promised never outgrow the
\* quota, whatever starts, settles, resumes or restarts together.
THEOREM QuotaStaysKept == Spec => BudgetNeverOverspent
<1> DEFINE A == policy'.quota # 0 /\ (\A d \in Download : store.cap[d] # Unlimited)
                  => Committed(store') <= Max({policy'.quota, Committed(store)})
<1>1. IInv /\ Budgeted(store) /\ [Next]_vars => A
  <2> SUFFICES ASSUME IInv, Budgeted(store), [Next]_vars, policy'.quota # 0, Limited(store)
               PROVE  Committed(store') <= Max({policy'.quota, Committed(store)})
    BY DEF Limited
  <2>1. IInv' /\ Thrifty(store, store', policy')
    BY StepKeeps DEF Preserved
  <2>2. Within(store, store', policy') /\ Budgeted(store')
    BY <2>1 DEF Thrifty
  <2>3. policy' \in Policies /\ store'.item \in [Download -> Item] /\ store.item \in [Download -> Item]
    BY <2>1 DEF IInv, Sound, Typed
  <2>4. PICK q, x, y : q = policy'.quota /\ x = Committed(store) /\ y = Committed(store')
    OBVIOUS
  <2>5. q \in Nat /\ x \in Nat /\ y \in Nat
    BY <2>2, <2>3, <2>4, CommittedIsNumber, DownloadsAssumption DEF Budgeted
  <2>6. /\ Max({q, x}) \in {q, x} /\ q <= Max({q, x}) /\ x <= Max({q, x})
    <3>1. \E m \in {q, x} : \A n \in {q, x} : n <= m
      BY <2>5
    <3> QED BY <3>1 DEF Max
  <2>7. y <= q \/ y <= x
    BY <2>2, <2>4 DEF Within
  <2>8. y <= Max({q, x})
    BY <2>5, <2>6, <2>7
  <2> QED BY <2>4, <2>8
<1>2. Spec => [][A]_vars
  BY <1>1, Invariance, Promises, PTL DEF Spec
<1> QED BY <1>2 DEF BudgetNeverOverspent
=============================================================================
