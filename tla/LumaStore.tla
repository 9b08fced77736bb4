----------------------------- MODULE LumaStore -----------------------------
(***************************************************************************)
(* The LUMA queue of a profile (src/src/lib/luma/store.ts, storage.ts): a  *)
(* document each window keeps in memory, saves to localStorage with a      *)
(* last-good copy, and takes from another window's storage events when its *)
(* revision is newer.  Windows are the tabs or windows of one origin.      *)
(*                                                                         *)
(* A document is its revision, its queue, whether activity is remembered   *)
(* and one resume position.  The other preferences change nothing but the  *)
(* revision.  A reload or a crash of a window loses what it has not saved: *)
(* nothing calls dispose.                                                  *)
(***************************************************************************)
EXTENDS Naturals, Sequences, FiniteSets, SequencesExt

CONSTANTS
  Window,
  Item,        \* ids of queue entries
  Ref,         \* [Item -> media], lumaRefKey
  Legacy,      \* the queue migrateLegacyQueue reads, a sequence of items
  QueueLimit,  \* LUMA_QUEUE_LIMIT
  MaxRev,      \* bound: revisions while no two windows have been open
  MaxShared,   \* bound: revisions from then on
  MaxAt,       \* bound: resume positions
  Throttle,    \* the four seconds between two writes of progress, in ticks
  MaxEvents,   \* bound: storage events on their way to a window
  MaxFaults    \* bound: damage, refused writes, reloads, newer versions, second windows

ASSUME LumaAssumption ==
  /\ QueueLimit \in Nat \ {0}
  /\ Legacy \in Seq(Item) /\ Len(Legacy) <= QueueLimit
  /\ \A a, b \in 1 .. Len(Legacy) : Ref[Legacy[a]] = Ref[Legacy[b]] => a = b
  /\ MaxRev \in Nat /\ MaxShared \in 0 .. MaxRev
  /\ MaxAt \in Nat /\ Throttle \in Nat \ {0} /\ MaxEvents \in Nat /\ MaxFaults \in Nat

VARIABLES
  disk,        \* [main, backup]: the two localStorage values
  win,         \* [Window -> its LumaStore]
  since,       \* [Window -> ticks since its last write of progress, to Throttle + 1]
  due,         \* [Window -> ticks until its progress timer fires]
  events,      \* [Window -> documents of the storage events on their way to it]
  used,        \* ids given so far
  dismissed,   \* items the user has removed, or seen rendered
  alone,       \* "yes" until two windows are open at a time
  faults

clock == <<since, due>>
vars == <<disk, win, clock, events, used, dismissed, alone, faults>>

----------------------------------------------------------------------------
NoItem == 0

EmptyDocument == [rev |-> 0, queue |-> <<>>, remember |-> "yes", at |-> 0]

Copy(kind, doc) == [is |-> kind, doc |-> doc]
NoCopy == Copy("none", EmptyDocument)
Damaged == Copy("invalid", EmptyDocument)
Future == Copy("future", EmptyDocument)
Valid(doc) == Copy("valid", doc)

Closed == [persistence |-> "closed", doc |-> EmptyDocument, pending |-> NoItem,
           error |-> "none", timer |-> "off"]

Listed(doc) == Range(doc.queue)
Keys(doc) == {Ref[i] : i \in Listed(doc)}
\* The filter by id: ids are unique, so one entry goes.
Without(queue, i) == RemoveAt(queue, CHOOSE p \in DOMAIN queue : queue[p] = i)

\* Bound.
LastRev == IF alone = "yes" THEN MaxRev ELSE MaxShared

IsOpen(w) == win[w].persistence # "closed"
Blocked(w) == win[w].persistence = "future-schema"

----------------------------------------------------------------------------
(* saveLumaDocument: the present document becomes the last-good copy, then *)
(* the new one is written; a newer schema is left alone.  Each write may   *)
(* be refused, and the process may die between the two.                    *)

\* Mutant: the copy is made without a look at it.
SecuredBlindly == [disk EXCEPT !.backup = disk.main]

Secured == IF disk.main.is = "valid" THEN [disk EXCEPT !.backup = disk.main] ELSE disk

\* Mutant: the schema is not looked at.
WritableAlways == TRUE

Writable == disk.main.is # "future"

Outcome(d, saved, cost) == [disk |-> d, saved |-> saved, cost |-> cost]

SaveOutcomes(doc) ==
  IF ~ Writable THEN {Outcome(disk, "no", 0)}
  ELSE {Outcome([Secured EXCEPT !.main = Valid(doc)], "yes", 0),
        Outcome([disk EXCEPT !.main = Valid(doc)], "yes", 1),
        Outcome(Secured, "no", 1),
        Outcome(disk, "no", 1)}

\* The storage event of the main key in the other windows.
Announced(w, out) ==
  [v \in Window |-> IF v # w /\ IsOpen(v) /\ out.disk.main # disk.main
                      THEN Append(events[v], out.disk.main.doc) ELSE events[v]]

\* Store the outcome of a save and the window it leaves.  Bounds: faults, events.
Saved(w, out, r) ==
  /\ faults + out.cost <= MaxFaults
  /\ disk' = out.disk
  /\ events' = Announced(w, out)
  /\ \A v \in Window : Len(events'[v]) <= MaxEvents
  /\ win' = [win EXCEPT ![w] = r]
  /\ faults' = faults + out.cost

\* commit, on window fields r.
Commit(w, r, document) ==
  LET next == [document EXCEPT !.rev = @ + 1] IN
  /\ next.rev <= LastRev
  /\ \E out \in SaveOutcomes(next) :
       Saved(w, out,
         [r EXCEPT !.doc = next,
                   !.persistence = IF out.saved = "no" THEN "volatile"
                                   ELSE IF @ = "recovered" THEN "recovered" ELSE "ready",
                   !.error = IF out.saved = "no" THEN "storage" ELSE "none"])

----------------------------------------------------------------------------
Init ==
  /\ disk = [main |-> NoCopy, backup |-> NoCopy]
  /\ win = [w \in Window |-> Closed]
  /\ since = [w \in Window |-> Throttle + 1]
  /\ due = [w \in Window |-> 0]
  /\ events = [w \in Window |-> <<>>]
  /\ used = Range(Legacy)
  /\ dismissed = {}
  /\ alone = "yes"
  /\ faults = 0

Opened(w, persistence, doc, error) ==
  win' = [win EXCEPT ![w] = [Closed EXCEPT !.persistence = persistence, !.doc = doc,
                                           !.error = error]]

\* Bound: a second window counts as a fault.
Beside == IF \A v \in Window : ~ IsOpen(v) THEN 0 ELSE 1

Accompanied == IF Beside = 0 THEN alone ELSE "no"

\* loadLumaDocument and the constructor.
Open(w) ==
  LET main == disk.main
      backup == disk.backup
      fresh == [EmptyDocument EXCEPT !.queue = Legacy]
  IN
  /\ ~ IsOpen(w)
  /\ faults + Beside <= MaxFaults
  /\ alone' = Accompanied
  /\ \/ /\ \/ /\ main.is = "valid"
              /\ Opened(w, "ready", main.doc, "none")
           \/ /\ main.is = "future" \/ (main.is # "valid" /\ backup.is = "future")
              /\ Opened(w, "future-schema", EmptyDocument, "future")
           \/ /\ main.is \in {"none", "invalid"} /\ backup.is = "valid"
              /\ Opened(w, "recovered", backup.doc, "none")
        /\ faults' = faults + Beside
        /\ UNCHANGED <<disk, events>>
     \/ /\ main.is \in {"none", "invalid"} /\ backup.is \in {"none", "invalid"}
        /\ Commit(w, [Closed EXCEPT !.persistence = "ready"], fresh)
  /\ UNCHANGED <<clock, used, dismissed>>

\* localStorage cannot be read at this moment.
OpenUnread(w) ==
  /\ ~ IsOpen(w)
  /\ faults' = faults + 1 + Beside /\ faults' <= MaxFaults
  /\ Opened(w, "volatile", EmptyDocument, "none")
  /\ alone' = Accompanied
  /\ UNCHANGED <<clock, disk, events, used, dismissed>>

\* replaceFromStorage, for the oldest event.
StorageEvent(w) ==
  /\ IsOpen(w) /\ events[w] # <<>>
  /\ events' = [events EXCEPT ![w] = Tail(@)]
  /\ win' = IF Head(events[w]).rev <= win[w].doc.rev THEN win
            ELSE [win EXCEPT ![w].doc = Head(events[w]), ![w].persistence = "ready",
                             ![w].error = "none"]
  /\ UNCHANGED <<clock, disk, used, dismissed, alone, faults>>

----------------------------------------------------------------------------
(* The queue.                                                              *)

Add(w, i) ==
  LET doc == win[w].doc IN
  /\ IsOpen(w) /\ ~ Blocked(w)
  /\ i \notin used
  /\ Ref[i] \notin Keys(doc)
  /\ Len(doc.queue) < QueueLimit
  /\ Commit(w, win[w], [doc EXCEPT !.queue = Append(@, i)])
  /\ used' = used \cup {i}
  /\ UNCHANGED <<clock, dismissed, alone>>

\* Mutant: a reserved item that is removed stays reserved.
RemoveItemReserved(w, i) ==
  LET doc == win[w].doc IN
  /\ IsOpen(w) /\ ~ Blocked(w)
  /\ i \in Listed(doc)
  /\ Commit(w, win[w], [doc EXCEPT !.queue = Without(@, i)])
  /\ dismissed' = dismissed \cup {i}
  /\ UNCHANGED <<clock, used, alone>>

\* remove, and toggle for a media that is queued.
RemoveItem(w, i) ==
  LET doc == win[w].doc IN
  /\ IsOpen(w) /\ ~ Blocked(w)
  /\ i \in Listed(doc)
  /\ Commit(w, [win[w] EXCEPT !.pending = IF @ = i THEN NoItem ELSE @],
            [doc EXCEPT !.queue = Without(@, i)])
  /\ dismissed' = dismissed \cup {i}
  /\ UNCHANGED <<clock, used, alone>>

ClearQueue(w) ==
  /\ IsOpen(w) /\ ~ Blocked(w)
  /\ win[w].doc.queue # <<>>
  /\ Commit(w, [win[w] EXCEPT !.pending = NoItem], [win[w].doc EXCEPT !.queue = <<>>])
  /\ dismissed' = dismissed \cup Listed(win[w].doc)
  /\ UNCHANGED <<clock, used, alone>>

\* move: one item to another place.
Move(w, i, to) ==
  LET rest == Without(win[w].doc.queue, i) IN
  /\ IsOpen(w) /\ ~ Blocked(w)
  /\ i \in Listed(win[w].doc) /\ win[w].doc.queue[to] # i
  /\ Commit(w, win[w], [win[w].doc EXCEPT !.queue = InsertAt(rest, to, i)])
  /\ UNCHANGED <<clock, used, dismissed, alone>>

\* setAutoAdvance, and a reorder that changes nothing.
SetPreference(w) ==
  /\ IsOpen(w) /\ ~ Blocked(w)
  /\ Commit(w, win[w], win[w].doc)
  /\ UNCHANGED <<clock, used, dismissed, alone>>

\* beginNext under the solo authority.
BeginNext(w) ==
  /\ IsOpen(w) /\ win[w].doc.queue # <<>>
  /\ win' = [win EXCEPT ![w].pending = Head(win[w].doc.queue), ![w].error = "none"]
  /\ UNCHANGED <<clock, disk, events, used, dismissed, alone, faults>>

\* A frame of media m is rendered: the player acknowledges the reserved item if
\* it is still listed and is that media.
Rendered(w, m) ==
  LET i == win[w].pending IN
  /\ IsOpen(w) /\ i \in Listed(win[w].doc) /\ Ref[i] = m
  /\ Commit(w, [win[w] EXCEPT !.pending = NoItem], [win[w].doc EXCEPT !.queue = Without(@, i)])
  /\ dismissed' = dismissed \cup {i}
  /\ UNCHANGED <<clock, used, alone>>

\* The source cannot be resolved.
RejectStart(w) ==
  /\ IsOpen(w) /\ win[w].pending # NoItem
  /\ win' = [win EXCEPT ![w].pending = NoItem, ![w].error = "other"]
  /\ UNCHANGED <<clock, disk, events, used, dismissed, alone, faults>>

----------------------------------------------------------------------------
(* Activity.                                                               *)

SetRememberActivity(w, flag) ==
  /\ IsOpen(w) /\ ~ Blocked(w)
  /\ Commit(w, win[w], [win[w].doc EXCEPT !.remember = flag,
                                          !.at = IF flag = "yes" THEN @ ELSE 0])
  /\ UNCHANGED <<clock, used, dismissed, alone>>

ClearResume(w) ==
  /\ IsOpen(w) /\ ~ Blocked(w)
  /\ Commit(w, win[w], [win[w].doc EXCEPT !.at = 0])
  /\ UNCHANGED <<clock, used, dismissed, alone>>

\* A write of progress clears the timer, and counts when it is not refused.
Written(w, out) ==
  /\ since' = IF out.saved = "yes" THEN [since EXCEPT ![w] = 0] ELSE since
  /\ due' = [due EXCEPT ![w] = 0]

\* Mutant: a refused write goes unnoticed.
FlushUnchecked(w, r) == \E out \in SaveOutcomes(r.doc) :
  /\ Saved(w, out,
       [r EXCEPT !.timer = "off",
                 !.persistence = IF @ = "volatile" /\ r.error = "storage" THEN "ready" ELSE @,
                 !.error = IF r.persistence = "volatile" /\ @ = "storage" THEN "none" ELSE @])
  /\ Written(w, out)

\* flushProgress, on window fields r.
Flush(w, r) == \E out \in SaveOutcomes(r.doc) :
  /\ Saved(w, out,
       [r EXCEPT !.timer = "off",
                 !.persistence = IF out.saved = "no" THEN "volatile"
                                 ELSE IF @ = "volatile" /\ r.error = "storage" THEN "ready" ELSE @,
                 !.error = IF out.saved = "no" THEN "storage"
                           ELSE IF r.persistence = "volatile" /\ @ = "storage" THEN "none" ELSE @])
  /\ Written(w, out)

\* Mutant: a debounce, which each call arms anew.
RecordProgressDebounced(w, at) ==
  LET r == [win[w] EXCEPT !.doc.at = at, !.doc.rev = @ + 1] IN
  /\ IsOpen(w) /\ ~ Blocked(w)
  /\ win[w].doc.remember = "yes" /\ r.doc.rev <= LastRev
  /\ IF since[w] >= Throttle THEN Flush(w, r)
     ELSE /\ win' = [win EXCEPT ![w] = [r EXCEPT !.timer = "on"]]
          /\ due' = [due EXCEPT ![w] = Throttle]
          /\ UNCHANGED <<disk, since, events, faults>>
  /\ UNCHANGED <<used, dismissed, alone>>

\* recordProgress: written at once when the last write is a throttle old, else
\* by the timer, which is armed for that moment and not again while it runs.
RecordProgress(w, at) ==
  LET r == [win[w] EXCEPT !.doc.at = at, !.doc.rev = @ + 1] IN
  /\ IsOpen(w) /\ ~ Blocked(w)
  /\ win[w].doc.remember = "yes" /\ r.doc.rev <= LastRev
  /\ IF since[w] >= Throttle THEN Flush(w, r)
     ELSE /\ win' = [win EXCEPT ![w] = [r EXCEPT !.timer = "on"]]
          /\ due' = IF win[w].timer = "on" THEN due
                    ELSE [due EXCEPT ![w] = Throttle - since[w]]
          /\ UNCHANGED <<disk, since, events, faults>>
  /\ UNCHANGED <<used, dismissed, alone>>

FlushTimer(w) ==
  /\ win[w].timer = "on" /\ due[w] = 0
  /\ Flush(w, win[w])
  /\ UNCHANGED <<used, dismissed, alone>>

\* Time passes; a timer that is due fires first.
Tick ==
  /\ \A w \in Window : win[w].timer = "on" => due[w] > 0
  /\ since' = [w \in Window |-> IF since[w] > Throttle THEN since[w] ELSE since[w] + 1]
  /\ due' = [w \in Window |-> IF win[w].timer = "on" THEN due[w] - 1 ELSE due[w]]
  /\ UNCHANGED <<disk, win, events, used, dismissed, alone, faults>>

----------------------------------------------------------------------------
(* What happens around the store.                                          *)

Fault == faults < MaxFaults /\ faults' = faults + 1

\* A reload or a crash; when it strikes inside a save, the copy is made and the
\* document is not written.
Crash(w) ==
  /\ IsOpen(w)
  /\ Fault
  /\ win' = [win EXCEPT ![w] = Closed]
  /\ events' = [events EXCEPT ![w] = <<>>]
  /\ disk' \in {disk} \cup (IF Blocked(w) \/ ~ Writable THEN {} ELSE {Secured})
  /\ since' = [since EXCEPT ![w] = Throttle + 1]
  /\ due' = [due EXCEPT ![w] = 0]
  /\ UNCHANGED <<used, dismissed, alone>>

\* The main document is damaged, of whatever schema it is.
Damage ==
  /\ disk.main.is \in {"valid", "future"}
  /\ Fault
  /\ disk' = [disk EXCEPT !.main = Damaged]
  /\ UNCHANGED <<clock, win, events, used, dismissed, alone>>

\* A newer VAYRA saves its own schema.  It can read both, so that from its
\* second save on the last-good copy is of its schema too.
NewerVersion ==
  /\ Fault
  /\ disk' = [main |-> Future,
              backup |-> IF disk.main.is \in {"valid", "future"} THEN disk.main
                         ELSE disk.backup]
  /\ UNCHANGED <<clock, win, events, used, dismissed, alone>>

----------------------------------------------------------------------------
Next ==
  \/ \E w \in Window :
       \/ Open(w) \/ OpenUnread(w) \/ StorageEvent(w)
       \/ \E i \in Item : \/ Add(w, i) \/ RemoveItem(w, i)
                          \/ \E to \in 1 .. Len(win[w].doc.queue) : Move(w, i, to)
       \/ ClearQueue(w) \/ SetPreference(w)
       \/ BeginNext(w) \/ RejectStart(w)
       \/ \E m \in Range(Ref) : Rendered(w, m)
       \/ \E flag \in {"yes", "no"} : SetRememberActivity(w, flag)
       \/ ClearResume(w)
       \/ \E at \in 0 .. MaxAt : RecordProgress(w, at)
       \/ FlushTimer(w)
       \/ Crash(w)
  \/ Tick
  \/ Damage
  \/ NewerVersion

Spec == Init /\ [][Next]_vars

----------------------------------------------------------------------------
(* Properties.                                                             *)

DocType == [rev : 0 .. MaxRev, queue : Seq(Item), remember : {"yes", "no"}, at : 0 .. MaxAt]
CopyType == [is : {"none", "valid", "invalid", "future"}, doc : DocType]

\* The variables keep their types, and no document, in memory or saved, lists a
\* media twice or exceeds the limit.
Sound(doc) ==
  /\ doc \in DocType
  /\ Len(doc.queue) <= QueueLimit
  /\ \A a, b \in 1 .. Len(doc.queue) : Ref[doc.queue[a]] = Ref[doc.queue[b]] => a = b
TypeOK ==
  /\ disk \in [main : CopyType, backup : CopyType]
  /\ \A w \in Window :
       /\ win[w].persistence \in {"closed", "ready", "recovered", "volatile", "future-schema"}
       /\ win[w].pending \in Item \cup {NoItem}
       /\ win[w].timer \in {"on", "off"}
       /\ Sound(win[w].doc)
       /\ since[w] \in 0 .. Throttle + 1 /\ due[w] \in 0 .. Throttle
  /\ Sound(disk.main.doc) /\ Sound(disk.backup.doc)

\* However often the main document is damaged, once a window has recovered from
\* the last-good copy there is a sane copy to recover from again.
OneSaneCopy ==
  \A w \in Window :
    win[w].persistence = "recovered" => disk.backup.is \in {"valid", "future"}

\* A lone window that says its document is stored has its queue on disk, and all
\* of it when no progress waits for the timer; damage and newer versions aside.
ReadyMeansSaved ==
  alone = "yes" => \A w \in Window :
    win[w].persistence \in {"ready", "recovered"} /\ disk.main.is = "valid" =>
      /\ disk.main.doc.queue = win[w].doc.queue
      /\ win[w].timer = "off" => disk.main.doc = win[w].doc

\* The reserved item is one of the queue: what the player acknowledges or rejects
\* is always there to be acted upon.  (A document that arrives from another window
\* leaves the reservation as it is.)
ReservedIsListed ==
  alone = "yes" => \A w \in Window : win[w].pending # NoItem => win[w].pending \in Listed(win[w].doc)

\* Each copy of the queue is within its limit and without duplicates, and a
\* reservation points into it.
QueueConsistent == TypeOK /\ ReservedIsListed

\* A main document of a newer schema is never overwritten by one of this schema:
\* it only goes when it is damaged.
FutureKept ==
  [][disk.main.is = "future" => disk'.main.is \in {"future", "invalid"}]_vars

\* A reserved item leaves the queue on disk only when the user has removed it or
\* a frame of it was rendered, even when every storage event has been handled.
ReservedStays ==
  [][\A w \in Window :
       LET i == win[w].pending IN
       (/\ \A v \in Window : events[v] = <<>>
        /\ i \in Listed(disk.main.doc)
        /\ disk'.main.is = "valid"
        /\ i \notin Listed(disk'.main.doc))
         => i \in dismissed']_vars

\* Progress a lone window has recorded never waits longer than the throttle for
\* the disk, unless the window says that it cannot store: however often the
\* player reports it, the write is on a fixed throttle and not put off by each
\* report.  (What is not on disk was recorded after the last write of progress.)
ProgressReachesDisk ==
  alone = "yes" => \A w \in Window :
    /\ win[w].persistence \in {"ready", "recovered"} /\ disk.main.is = "valid"
    /\ disk.main.doc # win[w].doc
    => since[w] <= Throttle
=============================================================================
