-------------------------- MODULE LumaStoreProofs --------------------------
(***************************************************************************)
(* Machine-checked proofs about LumaStore, for any number of windows, any  *)
(* queue and any damage: a newer schema is never overwritten, a window     *)
(* that has recovered leaves a sane copy to recover from, queues stay      *)
(* sound in memory and on disk, a lone window that is ready is saved, and  *)
(* the progress it has not saved is at most one throttle old.              *)
(*                                                                         *)
(* Three invariants: IInv speaks of the two stored copies, QInv of what    *)
(* the documents say and of a lone window's agreement with the disk, Clock *)
(* of the time a progress timer has left.                                  *)
(***************************************************************************)
EXTENDS LumaStore, TLAPS

Sane == {"valid", "future"}

\* The fields of the two stored values and of a window's store are there.
DiskFields(d) == d \in [main : {d.main}, backup : {d.backup}]
Fields(r) ==
  r \in [persistence : {r.persistence}, doc : {r.doc}, pending : {r.pending},
         error : {r.error}, timer : {r.timer}]

\* What a window has recovered from is still there.
Recoverable(r, d) == Fields(r) /\ (r.persistence = "recovered" => d.backup.is \in Sane)

IInv ==
  /\ DiskFields(disk)
  /\ DOMAIN win = Window
  /\ \A w \in Window : Recoverable(win[w], disk)

----------------------------------------------------------------------------
(* The disk.                                                               *)

\* What a save may make of the disk: a sane last-good copy stays sane, and a
\* newer schema stays.
Preserved(d) ==
  /\ DiskFields(d)
  /\ disk.backup.is \in Sane => d.backup.is \in Sane
  /\ disk.main.is = "future" => d.main = disk.main

LEMMA SecuredPreserves ==
  ASSUME DiskFields(disk)
  PROVE  Preserved(Secured)
BY DEF Secured, Preserved, DiskFields, Sane

LEMMA SavePreserves ==
  ASSUME DiskFields(disk), NEW doc, NEW out \in SaveOutcomes(doc)
  PROVE  Preserved(out.disk)
<1>1. Preserved(disk) /\ Preserved(Secured)
  BY SecuredPreserves DEF Preserved
<1>2. CASE ~ Writable
  BY <1>1, <1>2 DEF SaveOutcomes, Outcome
<1>3. CASE Writable
  <2>1. ASSUME NEW d, Preserved(d)
        PROVE  Preserved([d EXCEPT !.main = Valid(doc)])
    BY <1>3, <2>1 DEF Preserved, DiskFields, Writable
  <2> QED BY <1>1, <1>3, <2>1 DEF SaveOutcomes, Outcome
<1> QED BY <1>2, <1>3

----------------------------------------------------------------------------
(* The steps, by what they do to one window.                               *)

\* A window's store becomes r and the disk is preserved.
LEMMA OneWindow ==
  ASSUME IInv, NEW w \in Window, NEW r, Fields(r), win' = [win EXCEPT ![w] = r],
         r.persistence = "recovered" => disk'.backup.is \in Sane,
         Preserved(disk')
  PROVE  IInv'
<1>1. ASSUME NEW v \in Window
      PROVE  Recoverable(win'[v], disk')
  <2>1. CASE v = w
    BY <2>1 DEF Recoverable, IInv
  <2>2. CASE v # w
    BY <2>2 DEF Recoverable, IInv, Preserved
  <2> QED BY <2>1, <2>2
<1> QED BY <1>1 DEF IInv, Preserved

LEMMA SameDisk ==
  ASSUME IInv, UNCHANGED disk
  PROVE  Preserved(disk')
BY DEF IInv, Preserved

\* No save makes a window recovered that was not.
LEMMA SavedKeeps ==
  ASSUME IInv, NEW w \in Window, NEW doc, NEW out \in SaveOutcomes(doc), NEW r,
         Fields(r), r.persistence = "recovered" => win[w].persistence = "recovered",
         Saved(w, out, r)
  PROVE  IInv'
<1>1. Preserved(disk')
  BY SavePreserves DEF IInv, Saved
<1>2. win[w].persistence = "recovered" => disk'.backup.is \in Sane
  BY <1>1 DEF IInv, Recoverable, Preserved
<1> QED BY <1>1, <1>2, OneWindow DEF Saved

\* What commit and flushProgress leave in a window.
Committed(r, doc, state, error) == [r EXCEPT !.doc = doc, !.persistence = state, !.error = error]
Flushed(r, state, error) == [r EXCEPT !.timer = "off", !.persistence = state, !.error = error]

LEMMA FieldsStay ==
  ASSUME NEW r, Fields(r), NEW doc, NEW state, NEW error
  PROVE  /\ Fields(Committed(r, doc, state, error))
         /\ Committed(r, doc, state, error).persistence = state
         /\ Fields(Flushed(r, state, error))
         /\ Flushed(r, state, error).persistence = state
BY DEF Fields, Committed, Flushed

LEMMA CommitKeeps ==
  ASSUME IInv, NEW w \in Window, NEW r, NEW document, Fields(r),
         r.persistence = "recovered" => win[w].persistence = "recovered",
         Commit(w, r, document)
  PROVE  IInv'
<1> DEFINE next == [document EXCEPT !.rev = @ + 1]
           state(out) == IF out.saved = "no" THEN "volatile"
                         ELSE IF r.persistence = "recovered" THEN "recovered" ELSE "ready"
           error(out) == IF out.saved = "no" THEN "storage" ELSE "none"
           left(out) == Committed(r, next, state(out), error(out))
<1>1. PICK out \in SaveOutcomes(next) : Saved(w, out, left(out))
  BY DEF Commit, Committed
<1>2. state(out) = "recovered" => r.persistence = "recovered"
  OBVIOUS
<1> HIDE DEF next, state, error
<1>3. Fields(left(out)) /\ left(out).persistence = state(out)
  BY FieldsStay
<1> HIDE DEF left
<1> QED BY <1>1, <1>2, <1>3, SavedKeeps

LEMMA FlushKeeps ==
  ASSUME IInv, NEW w \in Window, NEW r, Fields(r),
         r.persistence = win[w].persistence, Flush(w, r)
  PROVE  IInv'
<1> DEFINE state(out) ==
             IF out.saved = "no" THEN "volatile"
             ELSE IF r.persistence = "volatile" /\ r.error = "storage" THEN "ready"
             ELSE r.persistence
           error(out) ==
             IF out.saved = "no" THEN "storage"
             ELSE IF r.persistence = "volatile" /\ r.error = "storage" THEN "none"
             ELSE r.error
           left(out) == Flushed(r, state(out), error(out))
<1>1. PICK out \in SaveOutcomes(r.doc) : Saved(w, out, left(out))
  BY DEF Flush, Flushed
<1>2. state(out) = "recovered" => r.persistence = "recovered"
  OBVIOUS
<1> HIDE DEF state, error
<1>3. Fields(left(out)) /\ left(out).persistence = state(out)
  BY FieldsStay
<1> HIDE DEF left
<1> QED BY <1>1, <1>2, <1>3, SavedKeeps

LEMMA EditsKeep ==
  ASSUME IInv, NEW w \in Window, NEW i,
         \/ Add(w, i) \/ RemoveItem(w, i) \/ ClearQueue(w) \/ SetPreference(w)
         \/ (\E to : Move(w, i, to)) \/ Rendered(w, i)
         \/ (\E flag : SetRememberActivity(w, flag)) \/ ClearResume(w)
  PROVE  IInv'
<1>1. Fields(win[w])
  BY DEF IInv, Recoverable
<1>2. ASSUME NEW x
      PROVE  /\ Fields([win[w] EXCEPT !.pending = x])
             /\ [win[w] EXCEPT !.pending = x].persistence = win[w].persistence
  BY <1>1 DEF Fields
<1>3. PICK r, document :
        /\ Commit(w, r, document)
        /\ Fields(r) /\ r.persistence = win[w].persistence
  BY <1>1, <1>2 DEF Add, RemoveItem, ClearQueue, SetPreference, Move, Rendered,
                    SetRememberActivity, ClearResume
<1> QED BY <1>3, CommitKeeps

LEMMA OpenKeeps ==
  ASSUME IInv, NEW w \in Window, Open(w) \/ OpenUnread(w)
  PROVE  IInv'
<1>1. ASSUME NEW state, NEW doc, NEW error, Opened(w, state, doc, error), UNCHANGED disk,
             state = "recovered" => disk.backup.is = "valid"
      PROVE  IInv'
  <2> DEFINE r == [Closed EXCEPT !.persistence = state, !.doc = doc, !.error = error]
  <2>1. Fields(r) /\ r.persistence = state
    BY DEF Fields, Closed
  <2> HIDE DEF r
  <2>2. win' = [win EXCEPT ![w] = r]
    BY <1>1 DEF Opened, r
  <2> QED BY <1>1, <2>1, <2>2, OneWindow, SameDisk DEF Sane
<1>2. CASE OpenUnread(w)
  BY <1>1, <1>2 DEF OpenUnread
<1>3. CASE Open(w)
  <2>1. \/ \E state, doc, error :
             /\ Opened(w, state, doc, error) /\ UNCHANGED disk
             /\ state = "recovered" => disk.backup.is = "valid"
        \/ \E document : Commit(w, [Closed EXCEPT !.persistence = "ready"], document)
    BY <1>3 DEF Open
  <2>2. /\ Fields([Closed EXCEPT !.persistence = "ready"])
        /\ [Closed EXCEPT !.persistence = "ready"].persistence = "ready"
    BY DEF Fields, Closed
  <2> QED BY <1>1, <2>1, <2>2, CommitKeeps
<1> QED BY <1>2, <1>3

LEMMA StorageEventKeeps ==
  ASSUME IInv, NEW w \in Window, StorageEvent(w)
  PROVE  IInv'
<1>1. Fields(win[w]) /\ UNCHANGED disk
  BY DEF IInv, Recoverable, StorageEvent
<1>2. CASE win' = win
  BY <1>1, <1>2 DEF IInv, Recoverable, DiskFields
<1>3. CASE win' = [win EXCEPT ![w].doc = Head(events[w]), ![w].persistence = "ready",
                              ![w].error = "none"]
  <2> DEFINE r == Committed(win[w], Head(events[w]), "ready", "none")
  <2>1. Fields(r) /\ r.persistence = "ready"
    BY <1>1, FieldsStay
  <2>2. win' = [win EXCEPT ![w] = r]
    BY <1>3 DEF Committed, IInv
  <2> HIDE DEF r
  <2> QED BY <1>1, <2>1, <2>2, OneWindow, SameDisk
<1> QED BY <1>2, <1>3 DEF StorageEvent

\* What beginNext and a rejection leave in a window.
Reserving(r, item, error) == [r EXCEPT !.pending = item, !.error = error]

LEMMA ReservingKeeps ==
  ASSUME IInv, NEW w \in Window, NEW item, NEW error, UNCHANGED disk,
         win' = [win EXCEPT ![w] = Reserving(win[w], item, error)]
  PROVE  IInv'
<1> DEFINE r == Reserving(win[w], item, error)
<1>1. Fields(win[w]) /\ (win[w].persistence = "recovered" => disk.backup.is \in Sane)
  BY DEF IInv, Recoverable
<1>2. Fields(r) /\ r.persistence = win[w].persistence
  BY <1>1 DEF Fields, Reserving
<1>3. Preserved(disk')
  BY SameDisk
<1> HIDE DEF r
<1> QED BY <1>1, <1>2, <1>3, OneWindow DEF r

LEMMA ReservationsKeep ==
  ASSUME IInv, NEW w \in Window, BeginNext(w) \/ RejectStart(w)
  PROVE  IInv'
<1>1. CASE BeginNext(w)
  <2>1. win' = [win EXCEPT ![w] = Reserving(win[w], Head(win[w].doc.queue), "none")]
    BY <1>1 DEF BeginNext, IInv, Reserving
  <2> QED BY <1>1, <2>1, ReservingKeeps DEF BeginNext
<1>2. CASE RejectStart(w)
  <2>1. win' = [win EXCEPT ![w] = Reserving(win[w], NoItem, "other")]
    BY <1>2 DEF RejectStart, IInv, Reserving
  <2> QED BY <1>2, <2>1, ReservingKeeps DEF RejectStart
<1> QED BY <1>1, <1>2

LEMMA ProgressKeeps ==
  ASSUME IInv, NEW w \in Window,
         FlushTimer(w) \/ \E at : RecordProgress(w, at)
  PROVE  IInv'
<1>1. Fields(win[w])
  BY DEF IInv, Recoverable
<1>2. CASE FlushTimer(w)
  BY <1>1, <1>2, FlushKeeps DEF FlushTimer
<1>3. ASSUME NEW at, RecordProgress(w, at)
      PROVE  IInv'
  <2> DEFINE r == [win[w] EXCEPT !.doc.at = at, !.doc.rev = @ + 1]
             s == [r EXCEPT !.timer = "on"]
  <2>1. Fields(r) /\ r.persistence = win[w].persistence
    BY <1>1 DEF Fields
  <2>2. Fields(s) /\ s.persistence = win[w].persistence
    BY <2>1 DEF Fields
  <2>3. \/ Flush(w, r)
        \/ win' = [win EXCEPT ![w] = s] /\ UNCHANGED disk
    BY <1>3 DEF RecordProgress
  <2> HIDE DEF r, s
  <2> QED BY <2>1, <2>2, <2>3, FlushKeeps, OneWindow, SameDisk DEF IInv, Recoverable
<1> QED BY <1>2, <1>3

----------------------------------------------------------------------------
(* What happens around the store.                                          *)

LEMMA CrashKeeps ==
  ASSUME IInv, NEW w \in Window, Crash(w)
  PROVE  IInv'
<1>1. Preserved(disk')
  BY SecuredPreserves, SameDisk DEF IInv, Crash
<1>2. Fields(Closed) /\ Closed.persistence # "recovered"
  BY DEF Fields, Closed
<1> QED BY <1>1, <1>2, OneWindow DEF Crash

\* The windows stay and what they have recovered from stays.
LEMMA OnlyDisk ==
  ASSUME IInv, UNCHANGED win, DiskFields(disk'),
         disk.backup.is \in Sane => disk'.backup.is \in Sane
  PROVE  IInv'
BY DEF IInv, Recoverable

LEMMA OthersKeep ==
  ASSUME IInv, Tick \/ Damage \/ NewerVersion \/ UNCHANGED vars
  PROVE  IInv'
<1>1. DiskFields(disk)
  BY DEF IInv
<1>2. CASE Damage
  <2>1. DiskFields(disk') /\ disk'.backup = disk.backup
    BY <1>1, <1>2 DEF Damage, DiskFields
  <2> QED BY <1>2, <2>1, OnlyDisk DEF Damage
<1>3. CASE NewerVersion
  <2>1. /\ DiskFields(disk')
        /\ disk'.backup = IF disk.main.is \in Sane THEN disk.main ELSE disk.backup
    BY <1>3 DEF NewerVersion, DiskFields, Sane
  <2> QED BY <1>3, <2>1, OnlyDisk DEF NewerVersion
<1>4. CASE UNCHANGED vars \/ Tick
  BY <1>1, <1>4, OnlyDisk DEF vars, Tick
<1> QED BY <1>2, <1>3, <1>4

----------------------------------------------------------------------------
(* The theorems.                                                           *)

LEMMA InitKeeps == Init => IInv
BY DEF Init, IInv, DiskFields, Recoverable, Fields, Closed

LEMMA StepKeeps == IInv /\ [Next]_vars => IInv'
<1> SUFFICES ASSUME IInv, [Next]_vars PROVE IInv'
  OBVIOUS
<1>1. CASE Tick \/ Damage \/ NewerVersion \/ UNCHANGED vars
  BY <1>1, OthersKeep
<1>2. ASSUME NEW w \in Window,
             \/ Open(w) \/ OpenUnread(w) \/ StorageEvent(w)
             \/ \E i \in Item : \/ Add(w, i) \/ RemoveItem(w, i)
                                \/ \E to \in 1 .. Len(win[w].doc.queue) : Move(w, i, to)
             \/ ClearQueue(w) \/ SetPreference(w)
             \/ BeginNext(w) \/ RejectStart(w)
             \/ \E m \in Range(Ref) : Rendered(w, m)
             \/ \E flag \in {"yes", "no"} : SetRememberActivity(w, flag)
             \/ ClearResume(w)
             \/ \E at \in 0 .. MaxAt : RecordProgress(w, at)
             \/ FlushTimer(w)
             \/ Crash(w)
      PROVE  IInv'
  <2>1. CASE Open(w) \/ OpenUnread(w)
    BY <2>1, OpenKeeps
  <2>2. CASE StorageEvent(w)
    BY <2>2, StorageEventKeeps
  <2>3. CASE \/ ClearQueue(w) \/ SetPreference(w) \/ ClearResume(w)
             \/ \E flag \in {"yes", "no"} : SetRememberActivity(w, flag)
    BY <2>3, EditsKeep
  <2>4. ASSUME NEW i, \/ Add(w, i) \/ RemoveItem(w, i) \/ Rendered(w, i)
                      \/ \E to \in 1 .. Len(win[w].doc.queue) : Move(w, i, to)
        PROVE  IInv'
    BY <2>4, EditsKeep
  <2>5. CASE BeginNext(w) \/ RejectStart(w)
    BY <2>5, ReservationsKeep
  <2>6. CASE FlushTimer(w) \/ \E at \in 0 .. MaxAt : RecordProgress(w, at)
    BY <2>6, ProgressKeeps
  <2>7. CASE Crash(w)
    BY <2>7, CrashKeeps
  <2> QED BY <1>2, <2>1, <2>2, <2>3, <2>4, <2>5, <2>6, <2>7
<1> QED BY <1>1, <1>2 DEF Next

\* Whatever is saved, and whatever is not, a newer schema stays unless it is
\* damaged.
MainStays == disk.main.is = "future" => disk'.main.is \in {"future", "invalid"}

LEMMA SaveLeavesMain ==
  ASSUME IInv, NEW w, NEW r, NEW doc, Commit(w, r, doc) \/ Flush(w, r)
  PROVE  MainStays
<1>1. PICK d : \E out \in SaveOutcomes(d) : \E s : Saved(w, out, s)
  BY DEF Commit, Flush
<1> QED BY <1>1, SavePreserves DEF IInv, Preserved, Saved, MainStays

LEMMA WindowLeavesMain ==
  ASSUME IInv, NEW w \in Window,
         \/ Open(w) \/ OpenUnread(w) \/ StorageEvent(w)
         \/ \E i \in Item : \/ Add(w, i) \/ RemoveItem(w, i)
                            \/ \E to \in 1 .. Len(win[w].doc.queue) : Move(w, i, to)
         \/ ClearQueue(w) \/ SetPreference(w)
         \/ BeginNext(w) \/ RejectStart(w)
         \/ \E m \in Range(Ref) : Rendered(w, m)
         \/ \E flag \in {"yes", "no"} : SetRememberActivity(w, flag)
         \/ ClearResume(w)
         \/ \E at \in 0 .. MaxAt : RecordProgress(w, at)
         \/ FlushTimer(w)
         \/ Crash(w)
  PROVE  MainStays
<1>1. CASE \/ OpenUnread(w) \/ StorageEvent(w) \/ BeginNext(w) \/ RejectStart(w)
  BY <1>1 DEF MainStays, OpenUnread, StorageEvent, BeginNext, RejectStart
<1>2. CASE Open(w)
  <2>1. UNCHANGED disk \/ \E document : Commit(w, [Closed EXCEPT !.persistence = "ready"], document)
    BY <1>2 DEF Open
  <2> QED BY <2>1, SaveLeavesMain DEF MainStays
<1>3. CASE \/ ClearQueue(w) \/ SetPreference(w) \/ ClearResume(w)
           \/ \E flag \in {"yes", "no"} : SetRememberActivity(w, flag)
  BY <1>3, SaveLeavesMain DEF ClearQueue, SetPreference, ClearResume, SetRememberActivity
<1>4. ASSUME NEW i, \/ Add(w, i) \/ RemoveItem(w, i) \/ Rendered(w, i)
                    \/ \E to \in 1 .. Len(win[w].doc.queue) : Move(w, i, to)
      PROVE  MainStays
  BY <1>4, SaveLeavesMain DEF Add, RemoveItem, Rendered, Move
<1>5. CASE FlushTimer(w) \/ \E at \in 0 .. MaxAt : RecordProgress(w, at)
  <2>1. (\E r : Flush(w, r)) \/ UNCHANGED disk
    BY <1>5 DEF FlushTimer, RecordProgress
  <2> QED BY <2>1, SaveLeavesMain DEF MainStays
<1>6. CASE Crash(w)
  BY <1>6, SecuredPreserves DEF IInv, Preserved, Crash, MainStays
<1> QED BY <1>1, <1>2, <1>3, <1>4, <1>5, <1>6

LEMMA StepLeavesMain == IInv /\ [Next]_vars => MainStays
<1> SUFFICES ASSUME IInv, [Next]_vars PROVE MainStays
  OBVIOUS
<1>1. CASE Tick \/ Damage \/ NewerVersion \/ UNCHANGED vars
  BY <1>1 DEF IInv, DiskFields, Tick, Damage, NewerVersion, Future, Damaged, Copy, MainStays,
     vars
<1> QED BY <1>1, WindowLeavesMain DEF Next

LEMMA Invariance == Spec => []IInv
BY InitKeeps, StepKeeps, PTL DEF Spec

\* A window that recovered from the last-good copy (loadLumaDocument) can lose the
\* main document again and again: the copy it came from stays sane, because a save
\* only copies a document it has found valid.
THEOREM RecoveryStays == Spec => []OneSaneCopy
<1>1. IInv => OneSaneCopy
  BY DEF IInv, Recoverable, Sane, OneSaneCopy
<1> QED BY <1>1, Invariance, PTL

\* An older version of the program never overwrites the document of a newer one,
\* whatever its windows do (saveLumaDocument refuses it).
THEOREM NewerSchemaStays == Spec => FutureKept
<1> DEFINE Kept == disk.main.is = "future" => disk'.main.is \in {"future", "invalid"}
<1>1. IInv /\ [Next]_vars => [Kept]_vars
  BY StepLeavesMain DEF MainStays
<1> HIDE DEF Kept
<1>2. Spec => [][Kept]_vars
  BY <1>1, Invariance, PTL DEF Spec
<1> QED BY <1>2 DEF FutureKept, Kept

----------------------------------------------------------------------------
(* The queue.  A second invariant: every document anywhere is sound, and a *)
(* lone window agrees with the disk and with its own reservation.          *)

LEMMA ListedAt ==
  ASSUME NEW doc, doc.queue \in Seq(Item), NEW i
  PROVE  i \in Listed(doc) <=> \E p \in 1 .. Len(doc.queue) : doc.queue[p] = i
BY DEF Listed, Range

LEMMA Concatenated ==
  ASSUME NEW a \in Seq(Item), NEW b \in Seq(Item)
  PROVE  /\ a \o b \in Seq(Item) /\ Len(a \o b) = Len(a) + Len(b)
         /\ \A k \in 1 .. Len(a) + Len(b) :
              (a \o b)[k] = IF k <= Len(a) THEN a[k] ELSE b[k - Len(a)]
OBVIOUS

\* The entries before a place, and from a place on.
LEMMA Parts ==
  ASSUME NEW q \in Seq(Item), NEW p \in 1 .. Len(q) + 1
  PROVE  /\ SubSeq(q, 1, p - 1) \in Seq(Item) /\ Len(SubSeq(q, 1, p - 1)) = p - 1
         /\ \A k \in 1 .. p - 1 : SubSeq(q, 1, p - 1)[k] = q[k]
         /\ SubSeq(q, p, Len(q)) \in Seq(Item) /\ Len(SubSeq(q, p, Len(q))) = Len(q) - p + 1
         /\ \A k \in 1 .. Len(q) - p + 1 : SubSeq(q, p, Len(q))[k] = q[p + k - 1]
OBVIOUS

\* A queue without its one entry i.
LEMMA WithoutOne ==
  ASSUME NEW q \in Seq(Item), NEW i, \E p \in 1 .. Len(q) : q[p] = i
  PROVE  \E p \in 1 .. Len(q) :
           /\ q[p] = i
           /\ Without(q, i) \in Seq(Item) /\ Len(Without(q, i)) = Len(q) - 1
           /\ \A k \in 1 .. Len(q) - 1 :
                Without(q, i)[k] = IF k < p THEN q[k] ELSE q[k + 1]
<1> DEFINE p == CHOOSE p \in DOMAIN q : q[p] = i
           a == SubSeq(q, 1, p - 1)
           b == SubSeq(q, p + 1, Len(q))
<1>1. p \in 1 .. Len(q) /\ q[p] = i
  OBVIOUS
<1>2. Without(q, i) = a \o b
  BY DEF Without, RemoveAt
<1> HIDE DEF p
<1>3. p \in Int /\ Len(q) \in Int /\ p >= 1 /\ p <= Len(q)
  BY <1>1
<1>4. a \in Seq(Item) /\ Len(a) = p - 1 /\ \A k \in 1 .. p - 1 : a[k] = q[k]
  BY <1>1, Parts
<1>5. b \in Seq(Item) /\ Len(b) = Len(q) - p /\ \A k \in 1 .. Len(q) - p : b[k] = q[p + k]
  <2> DEFINE n == p + 1
  <2>1. n \in 1 .. Len(q) + 1 /\ n = p + 1
    BY <1>3
  <2> HIDE DEF n
  <2>2. /\ SubSeq(q, n, Len(q)) \in Seq(Item) /\ Len(SubSeq(q, n, Len(q))) = Len(q) - n + 1
        /\ \A k \in 1 .. Len(q) - n + 1 : SubSeq(q, n, Len(q))[k] = q[n + k - 1]
    BY <2>1, Parts
  <2>3. \A k \in 1 .. Len(q) - p : k \in 1 .. Len(q) - n + 1 /\ n + k - 1 = p + k
    BY <1>3, <2>1
  <2>4. Len(q) - n + 1 = Len(q) - p
    BY <1>3, <2>1
  <2> QED BY <2>1, <2>2, <2>3, <2>4
<1> HIDE DEF a, b
<1>6. /\ a \o b \in Seq(Item) /\ Len(a \o b) = Len(a) + Len(b)
      /\ \A k \in 1 .. Len(a) + Len(b) :
           (a \o b)[k] = IF k <= Len(a) THEN a[k] ELSE b[k - Len(a)]
  BY <1>4, <1>5, Concatenated
<1> DEFINE w == Without(q, i)
<1>7. /\ w \in Seq(Item) /\ Len(w) = Len(q) - 1
      /\ \A k \in 1 .. Len(q) - 1 : w[k] = IF k <= p - 1 THEN a[k] ELSE b[k - (p - 1)]
  <2>1. Len(a) + Len(b) = Len(q) - 1 /\ Len(a) = p - 1
    BY <1>3, <1>4, <1>5
  <2> QED BY <1>2, <1>6, <2>1
<1> HIDE DEF w
<1>8. ASSUME NEW k \in 1 .. Len(q) - 1
      PROVE  w[k] = IF k < p THEN q[k] ELSE q[k + 1]
  <2>1. CASE k < p
    BY <1>3, <1>4, <1>7, <2>1
  <2>2. CASE k >= p
    <3>1. k - (p - 1) \in 1 .. Len(q) - p /\ p + (k - (p - 1)) = k + 1 /\ ~ (k <= p - 1)
      BY <1>3, <2>2
    <3>2. w[k] = b[k - (p - 1)] /\ b[k - (p - 1)] = q[p + (k - (p - 1))]
      BY <1>5, <1>7, <3>1
    <3> QED BY <2>2, <3>1, <3>2, <1>3
  <2> QED BY <1>3, <2>1, <2>2
<1> QED BY <1>1, <1>7, <1>8 DEF w

\* A queue with i put at a place.
LEMMA InsertedOne ==
  ASSUME NEW q \in Seq(Item), NEW i \in Item, NEW p \in 1 .. Len(q) + 1
  PROVE  /\ InsertAt(q, p, i) \in Seq(Item) /\ Len(InsertAt(q, p, i)) = Len(q) + 1
         /\ \A k \in 1 .. Len(q) + 1 :
              InsertAt(q, p, i)[k] = IF k < p THEN q[k] ELSE IF k = p THEN i ELSE q[k - 1]
<1> DEFINE a == SubSeq(q, 1, p - 1)
           b == SubSeq(q, p, Len(q))
           c == <<i>>
           ac == a \o c
           w == InsertAt(q, p, i)
<1>1. w = ac \o b
  BY DEF InsertAt
<1>2. p \in Int /\ Len(q) \in Int /\ p >= 1 /\ p <= Len(q) + 1
  OBVIOUS
<1>3. a \in Seq(Item) /\ Len(a) = p - 1 /\ \A k \in 1 .. p - 1 : a[k] = q[k]
  BY Parts
<1>4. /\ b \in Seq(Item) /\ Len(b) = Len(q) - p + 1
      /\ \A k \in 1 .. Len(q) - p + 1 : b[k] = q[p + k - 1]
  BY Parts
<1>5. c \in Seq(Item) /\ Len(c) = 1 /\ c[1] = i
  OBVIOUS
<1> HIDE DEF a, b, c
<1>6. /\ ac \in Seq(Item) /\ Len(ac) = Len(a) + Len(c)
      /\ \A k \in 1 .. Len(a) + Len(c) : ac[k] = IF k <= Len(a) THEN a[k] ELSE c[k - Len(a)]
  BY <1>3, <1>5, Concatenated
<1> HIDE DEF ac
<1>7. Len(ac) = p /\ \A k \in 1 .. p : ac[k] = IF k = p THEN i ELSE q[k]
  <2>1. Len(a) + Len(c) = p /\ p - (p - 1) = 1
    BY <1>2, <1>3, <1>5
  <2>2. ASSUME NEW k \in 1 .. p PROVE ac[k] = IF k = p THEN i ELSE q[k]
    <3>1. CASE k = p
      BY <1>2, <1>3, <1>5, <1>6, <2>1, <3>1
    <3>2. CASE k # p
      <4>1. k \in 1 .. p - 1 /\ k <= Len(a)
        BY <1>2, <1>3, <3>2
      <4> QED BY <1>3, <1>6, <2>1, <3>2, <4>1
    <3> QED BY <3>1, <3>2
  <2> QED BY <1>6, <2>1, <2>2
<1> HIDE DEF w
<1>8. /\ w \in Seq(Item) /\ Len(w) = Len(ac) + Len(b)
      /\ \A k \in 1 .. Len(ac) + Len(b) : w[k] = IF k <= Len(ac) THEN ac[k] ELSE b[k - Len(ac)]
  <2>1. ac \in Seq(Item) /\ b \in Seq(Item)
    BY <1>4, <1>6
  <2>2. /\ ac \o b \in Seq(Item) /\ Len(ac \o b) = Len(ac) + Len(b)
        /\ \A k \in 1 .. Len(ac) + Len(b) :
             (ac \o b)[k] = IF k <= Len(ac) THEN ac[k] ELSE b[k - Len(ac)]
    BY <2>1, Concatenated
  <2> QED BY <1>1, <2>2
<1>9. Len(w) = Len(q) + 1 /\ Len(ac) + Len(b) = Len(q) + 1
  BY <1>2, <1>4, <1>7, <1>8
<1>10. ASSUME NEW k \in 1 .. Len(q) + 1
       PROVE  w[k] = IF k < p THEN q[k] ELSE IF k = p THEN i ELSE q[k - 1]
  <2>1. w[k] = IF k <= p THEN ac[k] ELSE b[k - p]
    BY <1>7, <1>8, <1>9
  <2>2. CASE k <= p
    BY <1>2, <1>7, <2>1, <2>2
  <2>3. CASE k > p
    <3>1. k - p \in 1 .. Len(q) - p + 1 /\ p + (k - p) - 1 = k - 1 /\ ~ (k <= p)
      BY <1>2, <2>3
    <3>2. b[k - p] = q[p + (k - p) - 1]
      BY <1>4, <3>1
    <3> QED BY <1>2, <2>1, <2>3, <3>1, <3>2
  <2> QED BY <1>2, <2>2, <2>3
<1> QED BY <1>8, <1>9, <1>10 DEF w

\* No media is listed twice.
Distinct(q) == \A a, b \in 1 .. Len(q) : Ref[q[a]] = Ref[q[b]] => a = b
SoundQueue(q) == q \in Seq(Item) /\ Len(q) <= QueueLimit /\ Distinct(q)

\* The entries of a queue.
Entries(q) == {q[p] : p \in 1 .. Len(q)}

LEMMA ListedEntries ==
  ASSUME NEW doc, doc.queue \in Seq(Item)
  PROVE  Listed(doc) = Entries(doc.queue)
BY DEF Listed, Entries, Range

LEMMA RemovedQueue ==
  ASSUME NEW q, SoundQueue(q), NEW i \in Entries(q)
  PROVE  SoundQueue(Without(q, i)) /\ Entries(Without(q, i)) = Entries(q) \ {i}
<1>1. PICK p \in 1 .. Len(q) :
        /\ q[p] = i
        /\ Without(q, i) \in Seq(Item) /\ Len(Without(q, i)) = Len(q) - 1
        /\ \A k \in 1 .. Len(q) - 1 : Without(q, i)[k] = IF k < p THEN q[k] ELSE q[k + 1]
  BY WithoutOne DEF SoundQueue, Entries
<1> DEFINE w == Without(q, i)
<1>2. w \in Seq(Item) /\ Len(w) = Len(q) - 1 /\ q \in Seq(Item) /\ Len(q) <= QueueLimit
      /\ \A k \in 1 .. Len(q) - 1 : w[k] = IF k < p THEN q[k] ELSE q[k + 1]
  BY <1>1 DEF SoundQueue
<1> HIDE DEF w
<1>3. Distinct(w)
  <2> SUFFICES ASSUME NEW a \in 1 .. Len(w), NEW b \in 1 .. Len(w), Ref[w[a]] = Ref[w[b]]
               PROVE  a = b
    BY DEF Distinct
  <2>0. ASSUME NEW k \in 1 .. Len(w)
        PROVE  \E c \in 1 .. Len(q) : w[k] = q[c] /\ c = IF k < p THEN k ELSE k + 1
    <3>1. k \in 1 .. Len(q) - 1 /\ w[k] = IF k < p THEN q[k] ELSE q[k + 1]
      BY <1>2
    <3>2. k \in 1 .. Len(q) /\ k + 1 \in 1 .. Len(q)
      BY <1>2, <3>1
    <3>3. CASE k < p
      BY <3>1, <3>2, <3>3
    <3>4. CASE ~ (k < p)
      BY <3>1, <3>2, <3>4
    <3> QED BY <3>3, <3>4
  <2>1. PICK c \in 1 .. Len(q) : w[a] = q[c] /\ c = IF a < p THEN a ELSE a + 1
    BY <2>0
  <2>2. PICK d \in 1 .. Len(q) : w[b] = q[d] /\ d = IF b < p THEN b ELSE b + 1
    BY <2>0
  <2>3. c = d
    BY <2>1, <2>2 DEF SoundQueue, Distinct
  <2> QED BY <1>1, <1>2, <2>1, <2>2, <2>3
<1>4. ASSUME NEW x PROVE x \in Entries(w) <=> x \in Entries(q) /\ x # i
  <2>1. ASSUME NEW k \in 1 .. Len(w), x = w[k]
        PROVE  x \in Entries(q) /\ x # i
    <3>1. PICK m \in 1 .. Len(q) : m # p /\ x = q[m]
      BY <1>1, <1>2, <2>1
    <3> QED BY <1>1, <3>1 DEF SoundQueue, Distinct, Entries
  <2>2. ASSUME NEW m \in 1 .. Len(q), x = q[m], x # i
        PROVE  x \in Entries(w)
    <3>1. CASE m < p
      BY <1>2, <2>2, <3>1 DEF Entries
    <3>2. CASE m > p
      <4>1. m - 1 \in 1 .. Len(w) /\ w[m - 1] = q[m]
        BY <1>2, <3>2
      <4> QED BY <2>2, <4>1 DEF Entries
    <3> QED BY <1>1, <2>2, <3>1, <3>2
  <2> QED BY <2>1, <2>2 DEF Entries
<1>5. Len(w) <= QueueLimit
  BY <1>2, LumaAssumption
<1> QED BY <1>2, <1>3, <1>4, <1>5 DEF w, SoundQueue

LEMMA AppendedQueue ==
  ASSUME NEW q, SoundQueue(q), NEW i \in Item, Len(q) < QueueLimit,
         \A x \in Entries(q) : Ref[x] # Ref[i]
  PROVE  SoundQueue(Append(q, i)) /\ Entries(q) \subseteq Entries(Append(q, i))
<1> DEFINE w == Append(q, i)
<1>1. /\ w \in Seq(Item) /\ Len(w) = Len(q) + 1 /\ q \in Seq(Item)
      /\ \A k \in 1 .. Len(w) : w[k] = IF k = Len(w) THEN i ELSE q[k]
  BY DEF SoundQueue
<1> HIDE DEF w
<1>2. \A k \in 1 .. Len(q) : q[k] \in Entries(q)
  BY DEF Entries
<1>3. Distinct(w)
  BY <1>1, <1>2 DEF SoundQueue, Distinct
<1>4. Entries(q) \subseteq Entries(w)
  BY <1>1 DEF Entries
<1>5. Len(w) <= QueueLimit
  BY <1>1, LumaAssumption
<1> QED BY <1>1, <1>3, <1>4, <1>5 DEF w, SoundQueue

LEMMA MovedQueue ==
  ASSUME NEW q, SoundQueue(q), NEW i \in Entries(q), NEW to \in 1 .. Len(q)
  PROVE  /\ SoundQueue(InsertAt(Without(q, i), to, i))
         /\ Entries(InsertAt(Without(q, i), to, i)) = Entries(q)
<1> DEFINE r == Without(q, i)
           w == InsertAt(r, to, i)
<1>1. SoundQueue(r) /\ Entries(r) = Entries(q) \ {i} /\ i \in Item
  <2>1. i \in Item
    BY DEF SoundQueue, Entries
  <2> QED BY <2>1, RemovedQueue
<1>2. Len(r) = Len(q) - 1 /\ q \in Seq(Item) /\ Len(q) <= QueueLimit
  BY WithoutOne DEF SoundQueue, Entries
<1> HIDE DEF r
<1>3. to \in 1 .. Len(r) + 1 /\ r \in Seq(Item)
  BY <1>1, <1>2 DEF SoundQueue
<1>4. /\ w \in Seq(Item) /\ Len(w) = Len(r) + 1
      /\ \A k \in 1 .. Len(r) + 1 :
           w[k] = IF k < to THEN r[k] ELSE IF k = to THEN i ELSE r[k - 1]
  BY <1>1, <1>3, InsertedOne
<1> HIDE DEF w
<1>5. \A k \in 1 .. Len(r) : r[k] \in Entries(q) /\ Ref[r[k]] # Ref[i]
  <2>1. \A k \in 1 .. Len(r) : r[k] \in Entries(q) \ {i}
    BY <1>1 DEF Entries
  <2> QED BY <2>1 DEF SoundQueue, Distinct, Entries
<1>6. Distinct(w)
  <2> SUFFICES ASSUME NEW a \in 1 .. Len(w), NEW b \in 1 .. Len(w), Ref[w[a]] = Ref[w[b]]
               PROVE  a = b
    BY DEF Distinct
  <2>1. CASE a = to \/ b = to
    <3>1. ASSUME NEW k \in 1 .. Len(w), k # to PROVE Ref[w[k]] # Ref[i]
      <4>1. PICK m \in 1 .. Len(r) : w[k] = r[m]
        BY <1>3, <1>4, <3>1
      <4> QED BY <1>5, <4>1
    <3>2. w[to] = i
      BY <1>3, <1>4
    <3> QED BY <2>1, <3>1, <3>2
  <2>2. CASE a # to /\ b # to
    <3>0. ASSUME NEW k \in 1 .. Len(w), k # to
          PROVE  \E c \in 1 .. Len(r) : w[k] = r[c] /\ c = IF k < to THEN k ELSE k - 1
      <4>1. CASE k < to
        <5>1. k \in 1 .. Len(r) /\ w[k] = r[k]
          BY <1>3, <1>4, <4>1
        <5> QED BY <4>1, <5>1
      <4>2. CASE ~ (k < to)
        <5>1. k - 1 \in 1 .. Len(r) /\ w[k] = r[k - 1]
          BY <1>3, <1>4, <3>0, <4>2
        <5> QED BY <4>2, <5>1
      <4> QED BY <4>1, <4>2
    <3>1. PICK c \in 1 .. Len(r) : w[a] = r[c] /\ c = IF a < to THEN a ELSE a - 1
      BY <2>2, <3>0
    <3>2. PICK d \in 1 .. Len(r) : w[b] = r[d] /\ d = IF b < to THEN b ELSE b - 1
      BY <2>2, <3>0
    <3>3. c = d
      BY <1>1, <3>1, <3>2 DEF SoundQueue, Distinct
    <3> QED BY <1>3, <1>4, <2>2, <3>1, <3>2, <3>3
  <2> QED BY <2>1, <2>2
<1>7. ASSUME NEW x PROVE x \in Entries(w) <=> x \in Entries(r) \/ x = i
  <2>1. ASSUME NEW m \in 1 .. Len(r) PROVE r[m] \in Entries(w)
    <3>1. CASE m < to
      BY <1>3, <1>4, <3>1 DEF Entries
    <3>2. CASE m >= to
      <4>1. m + 1 \in 1 .. Len(w) /\ w[m + 1] = r[m]
        BY <1>3, <1>4, <3>2
      <4> QED BY <4>1 DEF Entries
    <3> QED BY <1>3, <3>1, <3>2
  <2>2. i \in Entries(w)
    BY <1>3, <1>4 DEF Entries
  <2>3. ASSUME NEW k \in 1 .. Len(w) PROVE w[k] \in Entries(r) \cup {i}
    BY <1>3, <1>4 DEF Entries
  <2> QED BY <2>1, <2>2, <2>3 DEF Entries
<1>8. Len(w) <= QueueLimit
  BY <1>2, <1>3, <1>4
<1> QED BY <1>1, <1>4, <1>6, <1>7, <1>8 DEF r, w, SoundQueue

----------------------------------------------------------------------------
(* Windows, documents and events.                                          *)

States == {"closed", "ready", "recovered", "volatile", "future-schema"}

\* A window's store: its fields have their types and its document is sound.
Store(r) ==
  /\ Fields(r)
  /\ r.persistence \in States /\ r.pending \in Item \cup {NoItem}
  /\ r.timer \in {"on", "off"} /\ Sound(r.doc)
  /\ r.persistence = "closed" => r = Closed

SavedCopy(copy) == copy \in CopyType /\ Sound(copy.doc)
Disk(d) == DiskFields(d) /\ SavedCopy(d.main) /\ SavedCopy(d.backup)

\* Documents on their way are sound.
Mail(mail) == mail \in Seq(DocType) /\ \A k \in 1 .. Len(mail) : Sound(mail[k])

\* What a lone window says of its queue, its reservation and the disk is so.
Agrees(r, d) ==
  /\ r.pending # NoItem => r.pending \in Listed(r.doc)
  /\ r.persistence \in {"ready", "recovered"} /\ d.main.is = "valid" =>
       /\ d.main.doc.queue = r.doc.queue
       /\ r.timer = "off" => d.main.doc = r.doc

\* Alone: nothing is open beside w, and no event is on its way.
Lone(w) == \A v \in Window : (v # w => ~ IsOpen(v)) /\ events[v] = <<>>

QInv ==
  /\ Disk(disk)
  /\ DOMAIN win = Window /\ \A w \in Window : Store(win[w])
  /\ DOMAIN events = Window /\ \A w \in Window : Mail(events[w])
  /\ alone \in {"yes", "no"}
  /\ alone = "yes" => \A w \in Window : /\ events[w] = <<>>
                                        /\ IsOpen(w) => Lone(w)
                                        /\ Agrees(win[w], disk)

LEMMA SoundDocument ==
  ASSUME NEW doc, doc \in DocType
  PROVE  Sound(doc) <=> SoundQueue(doc.queue)
BY DEF Sound, SoundQueue, Distinct, DocType

LEMMA EmptySound == Sound(EmptyDocument) /\ Store(Closed)
<1>1. EmptyDocument \in DocType
  BY LumaAssumption DEF EmptyDocument, DocType
<1>2. Sound(EmptyDocument)
  BY <1>1, LumaAssumption DEF EmptyDocument, Sound
<1> QED BY <1>2 DEF Store, Closed, Fields, States

\* The next revision of a sound document, and a sound queue put into one.
LEMMA NextSound ==
  ASSUME NEW doc, Sound(doc), NEW next, next = [doc EXCEPT !.rev = @ + 1],
         next.rev <= LastRev
  PROVE  Sound(next) /\ next.queue = doc.queue
<1>1. LastRev \in Nat /\ LastRev <= MaxRev /\ MaxRev \in Nat
  BY LumaAssumption DEF LastRev
<1>2. doc \in DocType /\ doc.rev \in Nat
  BY DEF Sound, DocType
<1>3. next.rev = doc.rev + 1 /\ next.queue = doc.queue
  BY <1>2 DEF DocType
<1>4. doc.rev + 1 \in 0 .. MaxRev
  BY <1>1, <1>2, <1>3
<1>5. next \in DocType
  BY <1>2, <1>4 DEF DocType
<1> QED BY <1>2, <1>3, <1>5, SoundDocument

LEMMA QueueEdited ==
  ASSUME NEW doc, Sound(doc), NEW q, SoundQueue(q)
  PROVE  /\ Sound([doc EXCEPT !.queue = q]) /\ [doc EXCEPT !.queue = q].queue = q
         /\ Listed([doc EXCEPT !.queue = q]) = Entries(q)
<1>1. /\ [doc EXCEPT !.queue = q] \in DocType /\ [doc EXCEPT !.queue = q].queue = q
      /\ q \in Seq(Item)
  BY DEF Sound, DocType, SoundQueue
<1> QED BY <1>1, SoundDocument, ListedEntries

LEMMA SoundParts ==
  ASSUME NEW doc, Sound(doc)
  PROVE  /\ doc \in DocType /\ SoundQueue(doc.queue) /\ Listed(doc) = Entries(doc.queue)
         /\ doc.queue \in Seq(Item)
<1>1. doc \in DocType /\ doc.queue \in Seq(Item)
  BY DEF Sound, DocType
<1> QED BY <1>1, SoundDocument, ListedEntries

LEMMA ClosedAgrees == \A d : Agrees(Closed, d)
BY DEF Agrees, Closed

----------------------------------------------------------------------------
(* Steps of one window.                                                    *)

\* What alone stays alone needs: nobody else is open, no event is on its way.
AloneAfter(w) ==
  /\ alone' \in {"yes", "no"}
  /\ alone' = "yes" => /\ alone = "yes"
                       /\ \A v \in Window : v # w => ~ IsOpen(v)

LEMMA OpenAlone ==
  ASSUME QInv, NEW w \in Window, IsOpen(w), UNCHANGED alone
  PROVE  AloneAfter(w)
BY DEF QInv, AloneAfter, Lone

LEMMA OneStore ==
  ASSUME QInv, NEW w \in Window, NEW r, Store(r), win' = [win EXCEPT ![w] = r],
         Disk(disk'), DOMAIN events' = Window, \A v \in Window : Mail(events'[v]),
         AloneAfter(w),
         alone' = "yes" => (\A v \in Window : events'[v] = <<>>) /\ Agrees(r, disk')
  PROVE  QInv'
<1>1. DOMAIN win' = Window /\ win'[w] = r /\ \A v \in Window : v # w => win'[v] = win[v]
  BY DEF QInv
<1>2. \A v \in Window : Store(win'[v])
  BY <1>1 DEF QInv
<1>3. ASSUME alone' = "yes", NEW v \in Window
      PROVE  /\ events'[v] = <<>> /\ (IsOpen(v)' => Lone(v)') /\ Agrees(win'[v], disk')
  <2>1. \A u \in Window : u # w => win'[u] = Closed
    BY <1>1, <1>3 DEF AloneAfter, QInv, Store, IsOpen
  <2>2. \A u \in Window : u # w => ~ IsOpen(u)'
    BY <2>1 DEF IsOpen, Closed
  <2> QED BY <1>1, <1>3, <2>1, <2>2, ClosedAgrees DEF Lone
<1> QED BY <1>1, <1>2, <1>3 DEF QInv, AloneAfter

\* A step that neither saves nor announces.
LEMMA OnlyMemory ==
  ASSUME QInv, NEW w \in Window, NEW r, Store(r), win' = [win EXCEPT ![w] = r],
         UNCHANGED <<disk, events>>, AloneAfter(w), alone' = "yes" => Agrees(r, disk)
  PROVE  QInv'
BY OneStore DEF QInv, AloneAfter

LEMMA SaveSound ==
  ASSUME Disk(disk), NEW doc, Sound(doc), NEW out \in SaveOutcomes(doc)
  PROVE  /\ Disk(out.disk) /\ out.saved \in {"yes", "no"}
         /\ out.saved = "yes" => out.disk.main = Valid(doc)
<1>1. SavedCopy(Valid(doc))
  BY DEF Sound, SavedCopy, CopyType, Valid, Copy
<1>2. Disk(Secured)
  BY DEF Disk, DiskFields, Secured
<1>3. ASSUME NEW d, Disk(d)
      PROVE  /\ Disk([d EXCEPT !.main = Valid(doc)])
             /\ [d EXCEPT !.main = Valid(doc)].main = Valid(doc)
  BY <1>1, <1>3 DEF Disk, DiskFields
<1>4. CASE out.saved = "yes"
  <2>1. PICK d : Disk(d) /\ out.disk = [d EXCEPT !.main = Valid(doc)]
    BY <1>2, <1>4 DEF SaveOutcomes, Outcome
  <2> QED BY <1>3, <1>4, <2>1
<1>5. CASE out.saved # "yes"
  BY <1>2, <1>5 DEF SaveOutcomes, Outcome
<1> QED BY <1>4, <1>5

LEMMA MailGrows ==
  ASSUME NEW mail, Mail(mail), NEW doc, Sound(doc)
  PROVE  Mail(Append(mail, doc))
<1>1. doc \in DocType /\ mail \in Seq(DocType)
  BY DEF Sound, Mail
<1>2. /\ Append(mail, doc) \in Seq(DocType) /\ Len(Append(mail, doc)) = Len(mail) + 1
      /\ \A k \in 1 .. Len(mail) + 1 :
           Append(mail, doc)[k] = IF k = Len(mail) + 1 THEN doc ELSE mail[k]
  BY <1>1
<1> QED BY <1>1, <1>2 DEF Mail

LEMMA SavedSound ==
  ASSUME QInv, NEW w \in Window, NEW doc, Sound(doc), NEW out \in SaveOutcomes(doc),
         NEW r, Store(r), r.doc = doc, Saved(w, out, r), AloneAfter(w),
         out.saved = "no" => r.persistence = "volatile",
         alone' = "yes" /\ r.pending # NoItem => r.pending \in Listed(doc)
  PROVE  QInv'
<1>1. /\ Disk(disk') /\ disk' = out.disk /\ out.saved \in {"yes", "no"}
      /\ out.saved = "yes" => disk'.main = Valid(doc)
  BY SaveSound DEF QInv, Saved
<1>2. events' = Announced(w, out) /\ Sound(out.disk.main.doc)
  BY <1>1 DEF Saved, Disk, SavedCopy
<1>3. DOMAIN events' = Window /\ \A v \in Window : Mail(events'[v])
  BY <1>2, MailGrows DEF Announced, QInv
<1>4. alone' = "yes" => \A v \in Window : events'[v] = <<>>
  BY <1>2 DEF Announced, AloneAfter, QInv
<1>5. alone' = "yes" => Agrees(r, disk')
  BY <1>1 DEF Agrees, Valid, Copy
<1> QED BY <1>1, <1>3, <1>4, <1>5, OneStore DEF Saved

LEMMA FieldsAfter ==
  ASSUME NEW r, Fields(r), NEW doc, NEW state, NEW error
  PROVE  /\ Committed(r, doc, state, error).doc = doc
         /\ Committed(r, doc, state, error).pending = r.pending
         /\ Committed(r, doc, state, error).timer = r.timer
         /\ Flushed(r, state, error).doc = r.doc
         /\ Flushed(r, state, error).pending = r.pending
         /\ Flushed(r, state, error).timer = "off"
BY DEF Fields, Committed, Flushed

\* The store that commit and flushProgress start from.
Draft(r) ==
  /\ Fields(r) /\ r.persistence \in States \ {"closed"}
  /\ r.pending \in Item \cup {NoItem} /\ r.timer \in {"on", "off"}

LEMMA CommitSound ==
  ASSUME QInv, NEW w \in Window, NEW r, Draft(r), NEW document, Sound(document),
         Commit(w, r, document), AloneAfter(w),
         alone' = "yes" /\ r.pending # NoItem => r.pending \in Listed(document)
  PROVE  QInv'
<1> DEFINE next == [document EXCEPT !.rev = @ + 1]
           state(out) == IF out.saved = "no" THEN "volatile"
                         ELSE IF r.persistence = "recovered" THEN "recovered" ELSE "ready"
           error(out) == IF out.saved = "no" THEN "storage" ELSE "none"
           left(out) == Committed(r, next, state(out), error(out))
<1>1. PICK out \in SaveOutcomes(next) : Saved(w, out, left(out))
  BY DEF Commit, Committed
<1>2. Sound(next) /\ next.queue = document.queue
  BY NextSound DEF Commit
<1>3. state(out) \in States \ {"closed"} /\ (out.saved = "no" => state(out) = "volatile")
  BY DEF States
<1>4. Listed(next) = Listed(document)
  BY <1>2, SoundParts
<1> HIDE DEF next, state, error
<1>5. /\ Fields(left(out)) /\ left(out).persistence = state(out)
      /\ left(out).doc = next /\ left(out).pending = r.pending /\ left(out).timer = r.timer
  BY FieldsStay, FieldsAfter DEF Draft
<1> HIDE DEF left
<1>6. Store(left(out))
  BY <1>2, <1>3, <1>5 DEF Store, Draft
<1> QED BY <1>1, <1>2, <1>3, <1>4, <1>5, <1>6, SavedSound

LEMMA FlushSound ==
  ASSUME QInv, NEW w \in Window, NEW r, Draft(r), Sound(r.doc), Flush(w, r), AloneAfter(w),
         alone' = "yes" /\ r.pending # NoItem => r.pending \in Listed(r.doc)
  PROVE  QInv'
<1> DEFINE state(out) ==
             IF out.saved = "no" THEN "volatile"
             ELSE IF r.persistence = "volatile" /\ r.error = "storage" THEN "ready"
             ELSE r.persistence
           error(out) ==
             IF out.saved = "no" THEN "storage"
             ELSE IF r.persistence = "volatile" /\ r.error = "storage" THEN "none"
             ELSE r.error
           left(out) == Flushed(r, state(out), error(out))
<1>1. PICK out \in SaveOutcomes(r.doc) : Saved(w, out, left(out))
  BY DEF Flush, Flushed
<1>2. state(out) \in States \ {"closed"} /\ (out.saved = "no" => state(out) = "volatile")
  BY DEF States, Draft
<1> HIDE DEF state, error
<1>3. /\ Fields(left(out)) /\ left(out).persistence = state(out)
      /\ left(out).doc = r.doc /\ left(out).pending = r.pending /\ left(out).timer = "off"
  BY FieldsStay, FieldsAfter DEF Draft
<1> HIDE DEF left
<1>4. Store(left(out))
  BY <1>2, <1>3 DEF Store, Draft
<1> QED BY <1>1, <1>2, <1>3, <1>4, SavedSound

----------------------------------------------------------------------------
(* The actions of a window.                                                *)

\* An open window's store can be committed from, with its reservation kept,
\* dropped or changed.
LEMMA OpenDraft ==
  ASSUME QInv, NEW w \in Window, IsOpen(w), NEW i \in Item \cup {NoItem}
  PROVE  /\ Draft(win[w]) /\ Sound(win[w].doc)
         /\ Draft([win[w] EXCEPT !.pending = i])
         /\ [win[w] EXCEPT !.pending = i].pending = i
BY DEF QInv, Store, IsOpen, Draft, Fields

LEMMA LoneReservation ==
  ASSUME QInv, NEW w \in Window, alone = "yes", win[w].pending # NoItem
  PROVE  win[w].pending \in Listed(win[w].doc)
BY DEF QInv, Agrees

\* The queue becomes q and the reservation i.
LEMMA QueueCommitted ==
  ASSUME QInv, NEW w \in Window, IsOpen(w), NEW i, UNCHANGED alone,
         NEW q, SoundQueue(q),
         Commit(w, [win[w] EXCEPT !.pending = i], [win[w].doc EXCEPT !.queue = q]),
         i \in {NoItem, win[w].pending}, alone = "yes" /\ i # NoItem => i \in Entries(q)
  PROVE  QInv'
<1> DEFINE r == [win[w] EXCEPT !.pending = i]
           document == [win[w].doc EXCEPT !.queue = q]
<1>1. i \in Item \cup {NoItem}
  BY DEF QInv, Store
<1>2. Draft(r) /\ r.pending = i /\ Sound(win[w].doc)
  BY <1>1, OpenDraft
<1>3. Sound(document) /\ Listed(document) = Entries(q)
  BY <1>2, QueueEdited
<1>4. AloneAfter(w)
  BY OpenAlone
<1> HIDE DEF r, document
<1>5. Commit(w, r, document)
  BY DEF r, document
<1> QED BY <1>2, <1>3, <1>4, <1>5, CommitSound DEF AloneAfter

LEMMA PendingKept ==
  ASSUME QInv, NEW w \in Window
  PROVE  [win[w] EXCEPT !.pending = win[w].pending] = win[w]
BY DEF QInv, Store, Fields

LEMMA AddSound ==
  ASSUME QInv, NEW w \in Window, NEW i \in Item, Add(w, i)
  PROVE  QInv'
<1> DEFINE doc == win[w].doc
<1>1. IsOpen(w) /\ UNCHANGED alone /\ Ref[i] \notin Keys(doc) /\ Len(doc.queue) < QueueLimit
  BY DEF Add
<1>2. SoundQueue(doc.queue) /\ Listed(doc) = Entries(doc.queue)
  BY <1>1, OpenDraft, SoundParts
<1>3. \A x \in Entries(doc.queue) : Ref[x] # Ref[i]
  BY <1>1, <1>2 DEF Keys
<1>4. /\ SoundQueue(Append(doc.queue, i))
      /\ Entries(doc.queue) \subseteq Entries(Append(doc.queue, i))
  BY <1>1, <1>2, <1>3, AppendedQueue
<1>5. Commit(w, [win[w] EXCEPT !.pending = win[w].pending],
             [doc EXCEPT !.queue = Append(doc.queue, i)])
  BY PendingKept DEF Add
<1>6. alone = "yes" /\ win[w].pending # NoItem =>
        win[w].pending \in Entries(Append(doc.queue, i))
  BY <1>2, <1>4, LoneReservation
<1> QED BY <1>1, <1>4, <1>5, <1>6, QueueCommitted

LEMMA RemovalsSound ==
  ASSUME QInv, NEW w \in Window, NEW i,
         RemoveItem(w, i) \/ (i = win[w].pending /\ \E m : Rendered(w, m))
  PROVE  QInv'
<1> DEFINE doc == win[w].doc
           p == IF win[w].pending = i THEN NoItem ELSE win[w].pending
<1>1. /\ IsOpen(w) /\ UNCHANGED alone /\ i \in Listed(doc)
      /\ Commit(w, [win[w] EXCEPT !.pending = p], [doc EXCEPT !.queue = Without(doc.queue, i)])
  BY DEF RemoveItem, Rendered
<1>2. SoundQueue(doc.queue) /\ Listed(doc) = Entries(doc.queue)
  BY <1>1, OpenDraft, SoundParts
<1>3. /\ SoundQueue(Without(doc.queue, i))
      /\ Entries(Without(doc.queue, i)) = Entries(doc.queue) \ {i}
  BY <1>1, <1>2, RemovedQueue
<1>4. /\ p \in {NoItem, win[w].pending}
      /\ alone = "yes" /\ p # NoItem => p \in Entries(Without(doc.queue, i))
  BY <1>2, <1>3, LoneReservation
<1> HIDE DEF p
<1> QED BY <1>1, <1>3, <1>4, QueueCommitted

LEMMA ClearSound ==
  ASSUME QInv, NEW w \in Window, ClearQueue(w)
  PROVE  QInv'
<1>1. SoundQueue(<<>>)
  BY LumaAssumption DEF SoundQueue, Distinct
<1> QED BY <1>1, QueueCommitted DEF ClearQueue

LEMMA MoveSound ==
  ASSUME QInv, NEW w \in Window, NEW i, NEW to \in 1 .. Len(win[w].doc.queue), Move(w, i, to)
  PROVE  QInv'
<1> DEFINE doc == win[w].doc
           q == InsertAt(Without(doc.queue, i), to, i)
<1>1. IsOpen(w) /\ UNCHANGED alone /\ i \in Listed(doc)
  BY DEF Move
<1>2. SoundQueue(doc.queue) /\ Listed(doc) = Entries(doc.queue)
  BY <1>1, OpenDraft, SoundParts
<1>3. SoundQueue(q) /\ Entries(q) = Entries(doc.queue)
  BY <1>1, <1>2, MovedQueue
<1>4. Commit(w, [win[w] EXCEPT !.pending = win[w].pending], [doc EXCEPT !.queue = q])
  BY PendingKept DEF Move
<1>5. alone = "yes" /\ win[w].pending # NoItem => win[w].pending \in Entries(q)
  BY <1>2, <1>3, LoneReservation
<1> HIDE DEF q
<1> QED BY <1>1, <1>3, <1>4, <1>5, QueueCommitted

\* The queue stays as it is.
LEMMA PreferencesSound ==
  ASSUME QInv, NEW w \in Window,
         \/ SetPreference(w) \/ ClearResume(w)
         \/ \E flag \in {"yes", "no"} : SetRememberActivity(w, flag)
  PROVE  QInv'
<1> DEFINE doc == win[w].doc
<1>1. IsOpen(w) /\ UNCHANGED alone
  BY DEF SetPreference, ClearResume, SetRememberActivity
<1>2. Draft(win[w]) /\ Sound(doc)
  BY <1>1, OpenDraft
<1>3. PICK document : /\ Commit(w, win[w], document)
                      /\ Sound(document) /\ document.queue = doc.queue
  <2>1. CASE SetPreference(w)
    BY <1>2, <2>1 DEF SetPreference
  <2>2. ASSUME NEW flag \in {"yes", "no"}, NEW at \in 0 .. MaxAt
        PROVE  /\ Sound([doc EXCEPT !.remember = flag, !.at = at])
               /\ [doc EXCEPT !.remember = flag, !.at = at].queue = doc.queue
               /\ Sound([doc EXCEPT !.at = at]) /\ [doc EXCEPT !.at = at].queue = doc.queue
    <3>1. /\ [doc EXCEPT !.remember = flag, !.at = at] \in DocType
          /\ [doc EXCEPT !.remember = flag, !.at = at].queue = doc.queue
          /\ [doc EXCEPT !.at = at] \in DocType /\ [doc EXCEPT !.at = at].queue = doc.queue
      BY <1>2 DEF Sound, DocType
    <3> QED BY <1>2, <3>1, SoundDocument, SoundParts
  <2>3. 0 \in 0 .. MaxAt /\ doc.at \in 0 .. MaxAt
    BY <1>2, LumaAssumption DEF Sound, DocType
  <2>4. CASE ClearResume(w)
    BY <2>2, <2>3, <2>4 DEF ClearResume
  <2>5. ASSUME NEW flag \in {"yes", "no"}, SetRememberActivity(w, flag)
        PROVE  \E document : /\ Commit(w, win[w], document)
                             /\ Sound(document) /\ document.queue = doc.queue
    <3> DEFINE at == IF flag = "yes" THEN doc.at ELSE 0
    <3>1. at \in 0 .. MaxAt
      BY <2>3
    <3>2. Commit(w, win[w], [doc EXCEPT !.remember = flag, !.at = at])
      BY <2>5 DEF SetRememberActivity
    <3> HIDE DEF at
    <3> QED BY <2>2, <3>1, <3>2
  <2> QED BY <2>1, <2>4, <2>5
<1>4. Listed(document) = Listed(doc)
  BY <1>2, <1>3, SoundParts
<1>5. alone = "yes" /\ win[w].pending # NoItem => win[w].pending \in Listed(document)
  BY <1>4, LoneReservation
<1>6. AloneAfter(w)
  BY <1>1, OpenAlone
<1> QED BY <1>1, <1>2, <1>3, <1>5, <1>6, CommitSound

LEMMA LegacySound == Sound([EmptyDocument EXCEPT !.queue = Legacy])
<1>1. SoundQueue(Legacy)
  BY LumaAssumption DEF SoundQueue, Distinct
<1> QED BY <1>1, EmptySound, QueueEdited

LEMMA OpenSound ==
  ASSUME QInv, NEW w \in Window, Open(w) \/ OpenUnread(w)
  PROVE  QInv'
<1>1. AloneAfter(w)
  BY DEF Open, OpenUnread, Accompanied, Beside, AloneAfter, QInv
<1>2. ASSUME NEW state \in States \ {"closed"}, NEW doc, Sound(doc), NEW error,
             Opened(w, state, doc, error), UNCHANGED <<disk, events>>,
             state \in {"ready", "recovered"} /\ disk.main.is = "valid" => disk.main.doc = doc
      PROVE  QInv'
  <2> DEFINE r == [Closed EXCEPT !.persistence = state, !.doc = doc, !.error = error]
  <2>1. Store(r) /\ r.persistence = state /\ r.doc = doc /\ r.pending = NoItem
    <3>1. Sound(doc) /\ state \in States \ {"closed"}
      BY <1>2
    <3> QED BY <3>1 DEF Store, Fields, Closed
  <2>2. win' = [win EXCEPT ![w] = r]
    BY <1>2 DEF Opened
  <2> HIDE DEF r
  <2>3. Agrees(r, disk)
    BY <1>2, <2>1 DEF Agrees
  <2> QED BY <1>1, <1>2, <2>1, <2>2, <2>3, OnlyMemory
<1>3. Sound(disk.main.doc) /\ Sound(disk.backup.doc) /\ Sound(EmptyDocument)
  BY EmptySound DEF QInv, Disk, SavedCopy
<1>4. CASE OpenUnread(w)
  BY <1>2, <1>3, <1>4 DEF OpenUnread, States
<1>5. CASE Open(w)
  <2> DEFINE c == [Closed EXCEPT !.persistence = "ready"]
             fresh == [EmptyDocument EXCEPT !.queue = Legacy]
  <2>1. \/ \E state \in States \ {"closed"} : \E doc, error :
             /\ Opened(w, state, doc, error) /\ UNCHANGED <<disk, events>>
             /\ Sound(doc)
             /\ state \in {"ready", "recovered"} /\ disk.main.is = "valid" => disk.main.doc = doc
        \/ Commit(w, c, fresh)
    BY <1>3, <1>5 DEF Open, States
  <2>2. Draft(c) /\ c.pending = NoItem /\ Sound(fresh)
    BY LegacySound DEF Draft, Fields, Closed, States
  <2> HIDE DEF c, fresh
  <2> QED BY <1>1, <1>2, <2>1, <2>2, CommitSound
<1> QED BY <1>4, <1>5

LEMMA StorageEventSound ==
  ASSUME QInv, NEW w \in Window, StorageEvent(w)
  PROVE  QInv'
<1>1. /\ events[w] # <<>> /\ events' = [events EXCEPT ![w] = Tail(@)]
      /\ UNCHANGED <<disk, alone>> /\ IsOpen(w) /\ Mail(events[w])
  BY DEF StorageEvent, QInv
<1>2. Sound(Head(events[w])) /\ Mail(Tail(events[w]))
  <2> DEFINE mail == events[w]
  <2>1. mail \in Seq(DocType) /\ mail # <<>> /\ \A k \in 1 .. Len(mail) : Sound(mail[k])
    BY <1>1 DEF Mail
  <2> HIDE DEF mail
  <2>2. /\ Head(mail) = mail[1] /\ 1 \in 1 .. Len(mail)
        /\ Tail(mail) \in Seq(DocType) /\ Len(Tail(mail)) = Len(mail) - 1
        /\ \A k \in 1 .. Len(mail) - 1 : Tail(mail)[k] = mail[k + 1] /\ k + 1 \in 1 .. Len(mail)
    BY <2>1
  <2> QED BY <2>1, <2>2 DEF mail, Mail
<1>3. DOMAIN events' = Window /\ \A v \in Window : Mail(events'[v])
  BY <1>1, <1>2 DEF QInv
<1>4. alone' # "yes" /\ AloneAfter(w)
  BY <1>1 DEF QInv, AloneAfter
<1>5. CASE win' = win
  BY <1>1, <1>3, <1>4, <1>5 DEF QInv
<1>6. CASE win' = [win EXCEPT ![w].doc = Head(events[w]), ![w].persistence = "ready",
                              ![w].error = "none"]
  <2> DEFINE r == Committed(win[w], Head(events[w]), "ready", "none")
  <2>1. Fields(win[w]) /\ win[w].pending \in Item \cup {NoItem} /\ win[w].timer \in {"on", "off"}
    BY DEF QInv, Store
  <2>2. /\ Fields(r) /\ r.persistence = "ready" /\ r.doc = Head(events[w])
        /\ r.pending = win[w].pending /\ r.timer = win[w].timer
    BY <2>1, FieldsStay, FieldsAfter
  <2>3. win' = [win EXCEPT ![w] = r]
    BY <1>6 DEF Committed, QInv
  <2> HIDE DEF r
  <2>4. Store(r)
    BY <1>2, <2>1, <2>2 DEF Store, States
  <2> QED BY <1>1, <1>3, <1>4, <2>3, <2>4, OneStore DEF QInv
<1> QED BY <1>5, <1>6 DEF StorageEvent

\* Reservations change nothing but themselves.
LEMMA ReservationsSound ==
  ASSUME QInv, NEW w \in Window, BeginNext(w) \/ RejectStart(w)
  PROVE  QInv'
<1>1. IsOpen(w) /\ UNCHANGED <<disk, events, alone>>
  BY EmptySound DEF BeginNext, RejectStart, IsOpen, QInv, Store, Closed
<1>2. Store(win[w]) /\ Fields(win[w]) /\ AloneAfter(w)
  BY <1>1, OpenAlone DEF QInv, Store
<1>3. ASSUME NEW i, NEW error, (i \in Item /\ i \in Listed(win[w].doc)) \/ i = NoItem,
             win' = [win EXCEPT ![w] = Reserving(win[w], i, error)]
      PROVE  QInv'
  <2> DEFINE r == Reserving(win[w], i, error)
  <2>1. /\ Fields(r) /\ r.persistence = win[w].persistence /\ r.pending = i
        /\ r.doc = win[w].doc /\ r.timer = win[w].timer
    BY <1>2 DEF Reserving, Fields
  <2> HIDE DEF r
  <2>2. Store(r)
    BY <1>1, <1>2, <1>3, <2>1 DEF Store, IsOpen
  <2>3. alone = "yes" => Agrees(r, disk)
    BY <1>3, <2>1 DEF Agrees, QInv
  <2> QED BY <1>1, <1>2, <1>3, <2>2, <2>3, OnlyMemory DEF r
<1>4. CASE BeginNext(w)
  <2> DEFINE q == win[w].doc.queue
  <2>1. q \in Seq(Item) /\ q # <<>> /\ Listed(win[w].doc) = Entries(q)
    BY <1>2, <1>4, SoundParts DEF BeginNext, Store
  <2>2. Head(q) \in Item /\ Head(q) \in Entries(q)
    <3> HIDE DEF q
    <3>1. Head(q) = q[1] /\ 1 \in 1 .. Len(q)
      BY <2>1
    <3> QED BY <2>1, <3>1 DEF Entries
  <2>3. win' = [win EXCEPT ![w] = Reserving(win[w], Head(q), "none")]
    BY <1>4 DEF BeginNext, QInv, Reserving
  <2> QED BY <1>3, <2>1, <2>2, <2>3
<1>5. CASE RejectStart(w)
  <2>1. win' = [win EXCEPT ![w] = Reserving(win[w], NoItem, "other")]
    BY <1>5 DEF RejectStart, QInv, Reserving
  <2> QED BY <1>3, <2>1
<1> QED BY <1>4, <1>5

LEMMA ProgressSound ==
  ASSUME QInv, NEW w \in Window,
         FlushTimer(w) \/ \E at \in 0 .. MaxAt : RecordProgress(w, at)
  PROVE  QInv'
<1>1. IsOpen(w) /\ UNCHANGED alone
  <2>1. win[w].timer = "on" => IsOpen(w)
    <3>1. win[w].persistence = "closed" => win[w].timer = "off"
      BY DEF QInv, Store, Closed
    <3> QED BY <3>1 DEF IsOpen
  <2> QED BY <2>1 DEF FlushTimer, RecordProgress
<1>2. AloneAfter(w) /\ Draft(win[w]) /\ Sound(win[w].doc)
  BY <1>1, OpenAlone, OpenDraft
<1>3. CASE FlushTimer(w)
  BY <1>1, <1>2, <1>3, FlushSound, LoneReservation DEF FlushTimer
<1>4. ASSUME NEW at \in 0 .. MaxAt, RecordProgress(w, at)
      PROVE  QInv'
  <2> DEFINE r == [win[w] EXCEPT !.doc.at = at, !.doc.rev = @ + 1]
             s == [r EXCEPT !.timer = "on"]
             placed == [win[w].doc EXCEPT !.at = at]
             next == [placed EXCEPT !.rev = @ + 1]
  <2>1. Sound(placed) /\ placed.queue = win[w].doc.queue
    <3>1. placed \in DocType /\ placed.queue = win[w].doc.queue
      BY <1>2 DEF Sound, DocType
    <3> QED BY <1>2, <3>1, SoundDocument, SoundParts
  <2>2. /\ r.doc = next /\ r.pending = win[w].pending /\ r.timer = win[w].timer
        /\ r.persistence = win[w].persistence /\ Fields(r)
    <3>1. win[w].doc \in DocType /\ Fields(win[w])
      BY <1>2 DEF Sound, Draft
    <3> QED BY <3>1 DEF Fields, DocType
  <2>3. /\ s.doc = r.doc /\ s.pending = r.pending /\ s.timer = "on"
        /\ s.persistence = r.persistence /\ Fields(s)
    BY <2>2 DEF Fields
  <2>4. /\ \/ Flush(w, r)
           \/ win' = [win EXCEPT ![w] = s] /\ UNCHANGED <<disk, events>>
        /\ r.doc.rev <= LastRev
    BY <1>4 DEF RecordProgress
  <2> HIDE DEF r, s, placed
  <2>5. Sound(next) /\ next.queue = placed.queue
    BY <2>1, <2>2, <2>4, NextSound
  <2>6. Listed(next) = Listed(win[w].doc)
    BY <1>2, <2>1, <2>5, SoundParts
  <2> HIDE DEF next
  <2>7. Draft(r) /\ (alone = "yes" /\ r.pending # NoItem => r.pending \in Listed(r.doc))
    BY <1>2, <2>2, <2>6, LoneReservation DEF Draft
  <2>8. CASE Flush(w, r)
    BY <1>1, <1>2, <2>2, <2>5, <2>7, <2>8, FlushSound
  <2>9. CASE win' = [win EXCEPT ![w] = s] /\ UNCHANGED <<disk, events>>
    <3>1. Store(s)
      BY <1>2, <2>2, <2>3, <2>5 DEF Store, Draft
    <3>2. alone = "yes" => Agrees(s, disk)
      BY <2>1, <2>2, <2>3, <2>5, <2>7 DEF Agrees, QInv
    <3> QED BY <1>1, <1>2, <2>9, <3>1, <3>2, OnlyMemory
  <2> QED BY <2>4, <2>8, <2>9
<1> QED BY <1>3, <1>4

----------------------------------------------------------------------------
(* What happens around the store.                                          *)

LEMMA SecuredSound ==
  ASSUME Disk(disk)
  PROVE  Disk(Secured) /\ Secured.main = disk.main
BY DEF Disk, DiskFields, Secured

LEMMA CrashSound ==
  ASSUME QInv, NEW w \in Window, Crash(w)
  PROVE  QInv'
<1>1. /\ win' = [win EXCEPT ![w] = Closed] /\ events' = [events EXCEPT ![w] = <<>>]
      /\ UNCHANGED alone /\ IsOpen(w)
  BY DEF Crash
<1>2. Disk(disk')
  BY SecuredSound DEF Crash, QInv
<1>3. Mail(<<>>)
  BY DEF Mail
<1>4. /\ DOMAIN events' = Window /\ \A v \in Window : Mail(events'[v])
      /\ alone = "yes" => \A v \in Window : events'[v] = <<>>
  BY <1>1, <1>3 DEF QInv
<1> QED BY <1>1, <1>2, <1>4, OpenAlone, EmptySound, ClosedAgrees, OneStore

LEMMA AroundSound ==
  ASSUME QInv, Tick \/ Damage \/ NewerVersion \/ UNCHANGED vars
  PROVE  QInv'
<1>1. UNCHANGED <<win, events, alone>>
  BY DEF Tick, Damage, NewerVersion, vars
<1>2. Disk(disk') /\ (disk'.main.is = "valid" => disk' = disk)
  <2>1. SavedCopy(Damaged) /\ SavedCopy(Future) /\ Damaged.is = "invalid" /\ Future.is = "future"
    BY EmptySound DEF SavedCopy, CopyType, Damaged, Future, Copy, Sound
  <2>2. Disk(Secured) /\ Disk(disk)
    BY SecuredSound DEF QInv
  <2>3. ASSUME NEW d, Disk(d), NEW copy, SavedCopy(copy)
        PROVE  Disk([d EXCEPT !.main = copy]) /\ [d EXCEPT !.main = copy].main = copy
    BY <2>3 DEF Disk, DiskFields
  <2>4. CASE Damage
    BY <2>1, <2>2, <2>3, <2>4 DEF Damage
  <2>5. CASE NewerVersion
    BY <2>1, <2>2, <2>5 DEF NewerVersion, Disk, DiskFields
  <2>6. CASE Tick \/ UNCHANGED vars
    BY <2>2, <2>6 DEF vars, Tick
  <2> QED BY <2>4, <2>5, <2>6
<1>3. \A v \in Window : Agrees(win[v], disk) => Agrees(win[v], disk')
  BY <1>2 DEF Agrees
<1> QED BY <1>1, <1>2, <1>3 DEF QInv, Lone, IsOpen

----------------------------------------------------------------------------
(* The second invariant.                                                   *)

LEMMA InitSound == Init => QInv
<1> SUFFICES ASSUME Init PROVE QInv
  OBVIOUS
<1>1. Disk(disk)
  BY EmptySound DEF Init, Disk, DiskFields, SavedCopy, CopyType, NoCopy, Copy, Sound
<1>2. Mail(<<>>)
  BY DEF Mail
<1> QED BY <1>1, <1>2, EmptySound, ClosedAgrees DEF Init, QInv, IsOpen, Closed

LEMMA StepSound == QInv /\ [Next]_vars => QInv'
<1> SUFFICES ASSUME QInv, [Next]_vars PROVE QInv'
  OBVIOUS
<1>1. CASE Tick \/ Damage \/ NewerVersion \/ UNCHANGED vars
  BY <1>1, AroundSound
<1>2. ASSUME NEW w \in Window, Open(w) \/ OpenUnread(w) \/ StorageEvent(w) \/ Crash(w)
      PROVE  QInv'
  BY <1>2, OpenSound, StorageEventSound, CrashSound
<1>3. ASSUME NEW w \in Window, NEW i \in Item,
             \/ Add(w, i) \/ RemoveItem(w, i)
             \/ \E to \in 1 .. Len(win[w].doc.queue) : Move(w, i, to)
      PROVE  QInv'
  BY <1>3, AddSound, RemovalsSound, MoveSound
<1>4. ASSUME NEW w \in Window,
             \/ ClearQueue(w) \/ SetPreference(w) \/ ClearResume(w)
             \/ \E flag \in {"yes", "no"} : SetRememberActivity(w, flag)
             \/ \E m \in Range(Ref) : Rendered(w, m)
      PROVE  QInv'
  BY <1>4, ClearSound, PreferencesSound, RemovalsSound
<1>5. ASSUME NEW w \in Window,
             \/ BeginNext(w) \/ RejectStart(w) \/ FlushTimer(w)
             \/ \E at \in 0 .. MaxAt : RecordProgress(w, at)
      PROVE  QInv'
  BY <1>5, ReservationsSound, ProgressSound
<1> QED BY <1>1, <1>2, <1>3, <1>4, <1>5 DEF Next

LEMMA Soundness == Spec => []QInv
BY InitSound, StepSound, PTL DEF Spec

----------------------------------------------------------------------------
(* The third invariant: a timer that runs fires when the last write is one *)
(* throttle old, whatever is recorded meanwhile.                           *)

Clock ==
  /\ since \in [Window -> 0 .. Throttle + 1] /\ due \in [Window -> 0 .. Throttle]
  /\ \A w \in Window : win[w].timer = "on" => since[w] + due[w] = Throttle

\* What a save leaves of the timer.
LEMMA SaveTimer ==
  ASSUME QInv, NEW w \in Window, NEW r, Fields(r)
  PROVE  /\ \A document : Commit(w, r, document) =>
              /\ win'[w].timer = r.timer
              /\ \A v \in Window : v # w => win'[v] = win[v]
         /\ Flush(w, r) =>
              /\ win'[w].timer = "off"
              /\ \A v \in Window : v # w => win'[v] = win[v]
              /\ since' = since \/ since' = [since EXCEPT ![w] = 0]
              /\ due' = [due EXCEPT ![w] = 0]
<1>1. DOMAIN win = Window
  BY DEF QInv
<1>2. ASSUME NEW document, Commit(w, r, document)
      PROVE  win'[w].timer = r.timer /\ \A v \in Window : v # w => win'[v] = win[v]
  <2> DEFINE next == [document EXCEPT !.rev = @ + 1]
             state(out) == IF out.saved = "no" THEN "volatile"
                           ELSE IF r.persistence = "recovered" THEN "recovered" ELSE "ready"
             error(out) == IF out.saved = "no" THEN "storage" ELSE "none"
             left(out) == Committed(r, next, state(out), error(out))
  <2>1. PICK out : Saved(w, out, left(out))
    BY <1>2 DEF Commit, Committed
  <2> HIDE DEF next, state, error
  <2>2. left(out).timer = r.timer
    BY FieldsAfter
  <2> HIDE DEF left
  <2> QED BY <1>1, <2>1, <2>2 DEF Saved
<1>3. ASSUME Flush(w, r)
      PROVE  /\ win'[w].timer = "off" /\ \A v \in Window : v # w => win'[v] = win[v]
             /\ since' = since \/ since' = [since EXCEPT ![w] = 0]
             /\ due' = [due EXCEPT ![w] = 0]
  <2>1. PICK state, error : win' = [win EXCEPT ![w] = Flushed(r, state, error)]
    BY <1>3 DEF Flush, Saved, Flushed
  <2>2. Flushed(r, state, error).timer = "off"
    BY FieldsAfter
  <2>3. /\ since' = since \/ since' = [since EXCEPT ![w] = 0]
        /\ due' = [due EXCEPT ![w] = 0]
    BY <1>3 DEF Flush, Written
  <2> QED BY <1>1, <2>1, <2>2, <2>3
<1> QED BY <1>2, <1>3

\* No time passes and no timer starts.
LEMMA TimersStay ==
  ASSUME Clock, UNCHANGED clock, \A v \in Window : win'[v].timer \in {"off", win[v].timer}
  PROVE  Clock'
BY DEF Clock, clock

LEMMA FlushClock ==
  ASSUME QInv, Clock, NEW w \in Window, NEW r, Fields(r), Flush(w, r)
  PROVE  Clock'
<1>1. /\ win'[w].timer = "off" /\ \A v \in Window : v # w => win'[v] = win[v]
      /\ since' = since \/ since' = [since EXCEPT ![w] = 0]
      /\ due' = [due EXCEPT ![w] = 0]
  BY SaveTimer
<1>2. 0 \in 0 .. Throttle + 1 /\ 0 \in 0 .. Throttle
  BY LumaAssumption
<1> QED BY <1>1, <1>2 DEF Clock

LEMMA EditClock ==
  ASSUME QInv, Clock, NEW w \in Window, NEW i,
         \/ Add(w, i) \/ RemoveItem(w, i) \/ ClearQueue(w) \/ SetPreference(w)
         \/ (\E to : Move(w, i, to)) \/ Rendered(w, i)
         \/ (\E flag : SetRememberActivity(w, flag)) \/ ClearResume(w)
  PROVE  Clock'
<1>1. Fields(win[w])
  BY DEF QInv, Store
<1>2. ASSUME NEW x
      PROVE  /\ Fields([win[w] EXCEPT !.pending = x])
             /\ [win[w] EXCEPT !.pending = x].timer = win[w].timer
  BY <1>1 DEF Fields
<1>3. PICK r, document : Commit(w, r, document) /\ Fields(r) /\ r.timer = win[w].timer
  BY <1>1, <1>2 DEF Add, RemoveItem, ClearQueue, SetPreference, Move, Rendered,
                    SetRememberActivity, ClearResume
<1>4. UNCHANGED clock
  BY DEF Add, RemoveItem, ClearQueue, SetPreference, Move, Rendered,
         SetRememberActivity, ClearResume
<1> QED BY <1>3, <1>4, SaveTimer, TimersStay

LEMMA OpenClock ==
  ASSUME QInv, Clock, NEW w \in Window, Open(w) \/ OpenUnread(w)
  PROVE  Clock'
<1>1. UNCHANGED clock
  BY DEF Open, OpenUnread
<1>2. CASE \E state, doc, error : Opened(w, state, doc, error)
  <2>1. PICK state, doc, error :
          win' = [win EXCEPT ![w] = [Closed EXCEPT !.persistence = state, !.doc = doc,
                                                   !.error = error]]
    BY <1>2 DEF Opened
  <2>2. [Closed EXCEPT !.persistence = state, !.doc = doc, !.error = error].timer = "off"
    BY DEF Closed
  <2>3. \A v \in Window : win'[v].timer \in {"off", win[v].timer}
    BY <2>1, <2>2 DEF QInv
  <2> QED BY <1>1, <2>3, TimersStay
<1>3. CASE \E document : Commit(w, [Closed EXCEPT !.persistence = "ready"], document)
  <2>1. /\ Fields([Closed EXCEPT !.persistence = "ready"])
        /\ [Closed EXCEPT !.persistence = "ready"].timer = "off"
    BY DEF Fields, Closed
  <2> QED BY <1>1, <1>3, <2>1, SaveTimer, TimersStay
<1> QED BY <1>2, <1>3 DEF Open, OpenUnread

\* A document or a reservation comes or goes; the timer stays.
LEMMA MemoryClock ==
  ASSUME QInv, Clock, NEW w \in Window, StorageEvent(w) \/ BeginNext(w) \/ RejectStart(w)
  PROVE  Clock'
<1>1. UNCHANGED clock
  BY DEF StorageEvent, BeginNext, RejectStart
<1>2. Fields(win[w]) /\ DOMAIN win = Window
  BY DEF QInv, Store
<1>3. CASE \E i, error : win' = [win EXCEPT ![w] = Reserving(win[w], i, error)]
  <2>1. \A i, error : Reserving(win[w], i, error).timer = win[w].timer
    BY <1>2 DEF Reserving, Fields
  <2> QED BY <1>1, <1>2, <1>3, <2>1, TimersStay
<1>4. CASE \E doc : win' = [win EXCEPT ![w] = Committed(win[w], doc, "ready", "none")]
  BY <1>1, <1>2, <1>4, FieldsAfter, TimersStay
<1>5. CASE win' = win
  BY <1>1, <1>5, TimersStay
<1>6. CASE StorageEvent(w)
  BY <1>2, <1>4, <1>5, <1>6 DEF StorageEvent, Committed
<1>7. CASE BeginNext(w)
  <2>1. win' = [win EXCEPT ![w] = Reserving(win[w], Head(win[w].doc.queue), "none")]
    BY <1>2, <1>7 DEF BeginNext, Reserving
  <2> QED BY <1>3, <2>1
<1>8. CASE RejectStart(w)
  <2>1. win' = [win EXCEPT ![w] = Reserving(win[w], NoItem, "other")]
    BY <1>2, <1>8 DEF RejectStart, Reserving
  <2> QED BY <1>3, <2>1
<1> QED BY <1>6, <1>7, <1>8

\* A report within the throttle arms the timer for its end, once.
LEMMA ProgressClock ==
  ASSUME QInv, Clock, NEW w \in Window, NEW at, RecordProgress(w, at)
  PROVE  Clock'
<1> DEFINE r == [win[w] EXCEPT !.doc.at = at, !.doc.rev = @ + 1]
           s == [r EXCEPT !.timer = "on"]
<1>1. Fields(win[w]) /\ DOMAIN win = Window
  BY DEF QInv, Store
<1>2. Fields(r)
  BY <1>1 DEF Fields
<1>3. s.timer = "on"
  BY <1>2 DEF Fields
<1>4. IF since[w] >= Throttle THEN Flush(w, r)
      ELSE /\ win' = [win EXCEPT ![w] = s]
           /\ due' = IF win[w].timer = "on" THEN due
                     ELSE [due EXCEPT ![w] = Throttle - since[w]]
           /\ UNCHANGED since
  BY DEF RecordProgress
<1> HIDE DEF r, s
<1>5. CASE since[w] >= Throttle
  BY <1>2, <1>4, <1>5, FlushClock
<1>6. CASE ~ (since[w] >= Throttle)
  <2>1. since[w] \in Nat /\ Throttle \in Nat
    BY LumaAssumption DEF Clock
  <2>2. Throttle - since[w] \in 0 .. Throttle /\ since[w] + (Throttle - since[w]) = Throttle
    BY <1>6, <2>1
  <2>3. /\ win'[w].timer = "on" /\ \A v \in Window : v # w => win'[v] = win[v]
        /\ UNCHANGED since
    BY <1>1, <1>3, <1>4, <1>6
  <2>4. CASE win[w].timer = "on"
    BY <1>4, <1>6, <2>3, <2>4 DEF Clock
  <2>5. CASE ~ (win[w].timer = "on")
    <3>1. due' = [due EXCEPT ![w] = Throttle - since[w]]
      BY <1>4, <1>6, <2>5
    <3>2. due' \in [Window -> 0 .. Throttle] /\ due'[w] = Throttle - since[w]
      BY <2>2, <3>1 DEF Clock
    <3> QED BY <2>2, <2>3, <3>1, <3>2 DEF Clock
  <2> QED BY <2>4, <2>5
<1> QED BY <1>5, <1>6

LEMMA TickClock ==
  ASSUME Clock, Tick
  PROVE  Clock'
<1>1. Throttle \in Nat
  BY LumaAssumption
<1>2. ASSUME NEW w \in Window
      PROVE  /\ since'[w] \in 0 .. Throttle + 1 /\ due'[w] \in 0 .. Throttle
             /\ win'[w].timer = "on" => since'[w] + due'[w] = Throttle
  <2>1. /\ since[w] \in 0 .. Throttle + 1 /\ due[w] \in 0 .. Throttle
        /\ win[w].timer = "on" => due[w] > 0 /\ since[w] + due[w] = Throttle
    BY DEF Clock, Tick
  <2>2. /\ since'[w] = IF since[w] > Throttle THEN since[w] ELSE since[w] + 1
        /\ due'[w] = IF win[w].timer = "on" THEN due[w] - 1 ELSE due[w]
        /\ win' = win
    BY DEF Tick
  <2>3. CASE win[w].timer = "on"
    BY <1>1, <2>1, <2>2, <2>3
  <2>4. CASE ~ (win[w].timer = "on")
    BY <1>1, <2>1, <2>2, <2>4
  <2> QED BY <2>3, <2>4
<1>3. since' = [w \in Window |-> since'[w]] /\ due' = [w \in Window |-> due'[w]]
  BY DEF Tick
<1> QED BY <1>2, <1>3 DEF Clock

LEMMA CrashClock ==
  ASSUME QInv, Clock, NEW w \in Window, Crash(w)
  PROVE  Clock'
<1>1. /\ win' = [win EXCEPT ![w] = Closed] /\ DOMAIN win = Window /\ Closed.timer = "off"
      /\ since' = [since EXCEPT ![w] = Throttle + 1] /\ due' = [due EXCEPT ![w] = 0]
  BY DEF Crash, QInv, Closed
<1>2. Throttle + 1 \in 0 .. Throttle + 1 /\ 0 \in 0 .. Throttle
  BY LumaAssumption
<1> QED BY <1>1, <1>2 DEF Clock

LEMMA StepClock == QInv /\ Clock /\ [Next]_vars => Clock'
<1> SUFFICES ASSUME QInv, Clock, [Next]_vars PROVE Clock'
  OBVIOUS
<1>1. CASE Damage \/ NewerVersion \/ UNCHANGED vars
  BY <1>1 DEF Damage, NewerVersion, vars, clock, Clock
<1>2. CASE Tick
  BY <1>2, TickClock
<1>3. ASSUME NEW w \in Window,
             \/ Open(w) \/ OpenUnread(w) \/ StorageEvent(w) \/ Crash(w)
             \/ BeginNext(w) \/ RejectStart(w)
      PROVE  Clock'
  BY <1>3, OpenClock, MemoryClock, CrashClock
<1>4. ASSUME NEW w \in Window, NEW i,
             \/ Add(w, i) \/ RemoveItem(w, i)
             \/ \E to \in 1 .. Len(win[w].doc.queue) : Move(w, i, to)
      PROVE  Clock'
  BY <1>4, EditClock
<1>5. ASSUME NEW w \in Window,
             \/ ClearQueue(w) \/ SetPreference(w) \/ ClearResume(w)
             \/ \E flag \in {"yes", "no"} : SetRememberActivity(w, flag)
             \/ \E m \in Range(Ref) : Rendered(w, m)
      PROVE  Clock'
  BY <1>5, EditClock
<1>6. ASSUME NEW w \in Window, FlushTimer(w) PROVE Clock'
  BY <1>6, FlushClock DEF FlushTimer, QInv, Store
<1>7. ASSUME NEW w \in Window, NEW at \in 0 .. MaxAt, RecordProgress(w, at) PROVE Clock'
  BY <1>7, ProgressClock
<1> QED BY <1>1, <1>2, <1>3, <1>4, <1>5, <1>6, <1>7 DEF Next

LEMMA ClockInvariance == Spec => [](QInv /\ Clock)
<1>1. Init => Clock
  BY LumaAssumption DEF Init, Clock, Closed
<1> QED BY <1>1, StepClock, Soundness, PTL DEF Spec

----------------------------------------------------------------------------
(* What they say.                                                          *)

\* Whatever windows, damage and refused writes do, no document in memory or on
\* disk lists a media twice or too many, and what a lone window has reserved is
\* in its queue.
THEOREM QueueStaysConsistent == Spec => []QueueConsistent
<1>1. ASSUME QInv, Clock PROVE TypeOK
  <2>1. disk \in [main : CopyType, backup : CopyType]
    BY <1>1 DEF QInv, Disk, DiskFields, SavedCopy
  <2> QED BY <1>1, <2>1 DEF QInv, Clock, Disk, SavedCopy, Store, States, TypeOK
<1>2. QInv => ReservedIsListed
  BY DEF QInv, Agrees, ReservedIsListed
<1>3. QInv /\ Clock => QueueConsistent
  BY <1>1, <1>2 DEF QueueConsistent
<1> QED BY <1>3, ClockInvariance, PTL

\* A lone window that is "ready" or "recovered" has told the truth: its queue is on disk, and
\* its whole document once no progress waits for the timer.
THEOREM ReadyStaysSaved == Spec => []ReadyMeansSaved
<1>1. QInv => ReadyMeansSaved
  BY DEF QInv, Agrees, ReadyMeansSaved
<1> QED BY <1>1, Soundness, PTL

\* However often a lone window records progress (recordProgress), what it has not
\* saved is at most one throttle old: the timer is never put off.
THEOREM ProgressIsSaved == Spec => []ProgressReachesDisk
<1>1. ASSUME QInv, Clock, alone = "yes", NEW w \in Window,
             win[w].persistence \in {"ready", "recovered"}, disk.main.is = "valid",
             disk.main.doc # win[w].doc
      PROVE  since[w] <= Throttle
  <2>1. win[w].timer = "on"
    BY <1>1 DEF QInv, Agrees, Store
  <2> QED BY <1>1, <2>1, LumaAssumption DEF Clock
<1>2. QInv /\ Clock => ProgressReachesDisk
  BY <1>1 DEF ProgressReachesDisk
<1> QED BY <1>2, ClockInvariance, PTL
=============================================================================
