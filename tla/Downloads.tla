------------------------------- MODULE Downloads -------------------------------
(***************************************************************************)
(* The download list (src/lib/download/downloads-store.ts) with the native *)
(* copies it starts (video-download.ts, src-tauri/src/download.rs) and the *)
(* torrents it holds (torrent/local-engine.ts).                            *)
(*                                                                         *)
(* JavaScript runs one task at a time, so an action is what runs between   *)
(* two awaits: a call of the interface, an answer of the backend, an event *)
(* of a copy.  The functions of the store call one another (a pause pumps, *)
(* a pump begins), which is why its maps are one record, store, and each   *)
(* function maps a store to the next one.                                  *)
(*                                                                         *)
(* Every download asks for the same name, the case that name reservation   *)
(* is for; candidate n is that name with the suffix (n), and stands for    *)
(* its .part and resume file too.  Bytes are counted in coarse units.      *)
(* Headers, speeds, titles and the directory lookup are left out.          *)
(***************************************************************************)
EXTENDS Naturals, FiniteSets, Sequences, SequencesExt, FiniteSetsExt

CONSTANTS
  Download,     \* ids; randomId never repeats, so each is enqueued once
  Candidates,   \* how many names are tried (1000 in the code)
  Taken,        \* candidates that exist on disk before the app starts
  EngineCases,  \* sets of downloads whose URL is one of the local engine
  Sized,        \* downloads whose source announces its length
  Size,         \* the length of every file
  Policies,     \* the settings a user may choose; quota 0 is unlimited
  MaxCalls,     \* bound on the interface's calls other than enqueueDownload
  MaxPriority,  \* bound on "Move to front"
  MaxFaults     \* bound on restarts of the app

Name == 1..Candidates
NoName == 0
Unlimited == 1 + Size + Max({p.quota : p \in Policies})  \* above any cap
Foreign == "foreign"
Nobody == "nobody"

ASSUME DownloadsAssumption ==
  /\ IsFiniteSet(Download) /\ Nobody \notin Download /\ Foreign \notin Download
  /\ Candidates \in Nat /\ Taken \subseteq Name /\ Size \in Nat \ {0}
  /\ EngineCases \subseteq SUBSET Download /\ Sized \subseteq Download
  /\ IsFiniteSet(Policies) /\ Policies \subseteq [concurrent : Nat \ {0}, quota : Nat] /\ Policies # {}
  /\ MaxCalls \in Nat /\ MaxPriority \in Nat /\ MaxFaults \in Nat

VARIABLES
  store,    \* items, handles, reserved, waiting and resumeWhenSettled
  engine,   \* the downloads served by the local engine (never changes)
  policy,   \* the settings
  call,     \* each enqueueDownload: where it waits, and the name it reserved
  names,    \* reservedPaths
  removal,  \* each removeDownload: where it waits
  closing,  \* settled copies whose torrent is being released
  disk,     \* who wrote the file of each name
  spent     \* interface calls and faults so far (bounds only)

vars == <<store, engine, policy, call, names, removal, closing, disk, spent>>

Status == {"absent", "queued", "downloading", "paused", "done", "error", "canceled",
           "removing", "removal-error", "interrupted"}
\* Where a handle's promise is: awaiting the torrent, or the native copy.
Copy == {"none", "selecting", "writing"}

Item == [status : Status, path : Name \cup {NoName}, received : 0..Size,
         priority : 0..MaxPriority]
NoItem == [status |-> "absent", path |-> NoName, received |-> 0, priority |-> 0]

EmptyStore ==
  [item |-> [d \in Download |-> NoItem], handles |-> <<>>,
   aborted |-> {}, copy |-> [d \in Download |-> "none"],
   cap |-> [d \in Download |-> 0], reserved |-> [d \in Download |-> 0], waiting |-> <<>>, resume |-> {}, held |-> {}]

----------------------------------------------------------------------------
(* The functions of the store.                                              *)

Is(s, d, status) == s.item[d].status = status
HasHandle(s, d) == Contains(s.handles, d)
Patch(s, d, status) == [s EXCEPT !.item[d].status = status]

\* An id is listed once.
Without(q, d) == IF Contains(q, d) THEN RemoveAt(q, CHOOSE k \in DOMAIN q : q[k] = d) ELSE q
DropFromQueue(s, d) == [s EXCEPT !.waiting = Without(@, d)]

\* Bytes on disk and bytes promised to running copies.
Committed(s) == SumFunction([d \in Download |-> s.item[d].received + s.reserved[d]])

HasBudget(s, p) == p.quota = 0 \/ Committed(s) < p.quota

\* Mutant: the bytes promised to a copy are not set aside.
BeginUnreserved(s, d, p) ==
  [Patch(s, d, "downloading") EXCEPT
     !.handles = Append(@, d), !.copy[d] = "writing",
     !.cap[d] = IF p.quota = 0 THEN Unlimited
                ELSE s.item[d].received + (p.quota - Committed(s))]

\* beginDownload; the handle's function runs up to its first await.
Begin(s, d, p) ==
  IF ~HasBudget(s, p) THEN Patch(s, d, "error")
  ELSE LET spare == p.quota - Committed(s) IN
       [s EXCEPT !.handles = Append(@, d),
                 !.cap[d] = IF p.quota = 0 THEN Unlimited
                            ELSE s.item[d].received + spare,
                 !.reserved[d] = IF p.quota = 0 THEN @ ELSE spare,
                 !.copy[d] = IF d \in engine THEN "selecting" ELSE "writing",
                 !.held = IF d \in engine THEN @ \cup {d} ELSE @]

StartOrQueue(s, d, p) ==
  IF Is(s, d, "absent") \/ HasHandle(s, d) THEN s
  ELSE IF Len(s.handles) < p.concurrent /\ (HasBudget(s, p) \/ s.handles = <<>>)
       THEN Begin(Patch(s, d, "downloading"), d, p)
       ELSE Patch([s EXCEPT !.waiting = IF Contains(@, d) THEN @ ELSE Append(@, d)],
                  d, "queued")

\* The sort of pump, which keeps the order of equal priorities: the k-th entry
\* goes behind those above it and those beside it that came first.
ByPriority(s) ==
  LET above(j, k) == s.item[s.waiting[j]].priority > s.item[s.waiting[k]].priority
      place(k) == 1 + Cardinality({j \in DOMAIN s.waiting : above(j, k) \/ (j < k /\ ~above(k, j))})
  IN  [n \in DOMAIN s.waiting |-> s.waiting[CHOOSE k \in DOMAIN s.waiting : place(k) = n]]

PumpOne(s, p) ==
  IF s.waiting = <<>> \/ Len(s.handles) >= p.concurrent \/ ~HasBudget(s, p) THEN s
  ELSE LET d == Head(s.waiting)
           popped == [s EXCEPT !.waiting = Tail(@)] IN
       IF Is(s, d, "queued") THEN Begin(Patch(popped, d, "downloading"), d, p)
       ELSE popped

\* pump after n turns of its loop; a turn takes one id out of the list.
Pumping(s, p) ==
  LET after[n \in Nat] == IF n = 0 THEN [s EXCEPT !.waiting = ByPriority(s)]
                          ELSE PumpOne(after[n - 1], p)
  IN  after

Pump(s, p) == Pumping(s, p)[Len(s.waiting)]

\* handle.abort sets the flag and calls download_cancel if a copy was started.
Abort(s, d) == [s EXCEPT !.aborted = @ \cup {d}]

\* pauseDownload of items that have a handle, as configureDownloads calls it.
PauseCopies(s, D) ==
  LET running == {d \in D : Is(s, d, "downloading")} IN
  [s EXCEPT !.item = [d \in Download |-> IF d \in running THEN [@[d] EXCEPT !.status = "paused"]
                                         ELSE @[d]],
            !.aborted = @ \cup running]

\* reservePath of the candidates from n on: the first that no reservation and
\* no item of the list owns.
Unowned(n) == n \notin names /\ \A d \in Download : store.item[d].path # n
NextName(n) ==
  LET free == {m \in Name : m >= n /\ Unowned(m)}
  IN  IF free = {} THEN NoName ELSE Min(free)

----------------------------------------------------------------------------
Init ==
  /\ store = EmptyStore
  /\ engine \in EngineCases
  /\ policy \in Policies
  /\ call = [d \in Download |-> [at |-> "new", path |-> NoName]]
  /\ names = {}
  /\ removal = [d \in Download |-> "none"]
  /\ closing = {}
  /\ disk = [n \in Name |-> IF n \in Taken THEN Foreign ELSE Nobody]
  /\ spent = [calls |-> 0, faults |-> 0]

\* enqueueDownload waits for the existence check of the name it has reserved,
\* or gives up when no name is left.
TryName(d, n) ==
  IF n = NoName
  THEN /\ call' = [call EXCEPT ![d] = [at |-> "returned", path |-> NoName]]
       /\ names' = names \ {call[d].path}
  ELSE /\ call' = [call EXCEPT ![d] = [at |-> "checking", path |-> n]]
       /\ names' = (names \ {call[d].path}) \cup {n}

Return(d) ==
  /\ call' = [call EXCEPT ![d] = [at |-> "returned", path |-> NoName]]
  /\ names' = names \ {call[d].path}

Enqueue(d) ==
  /\ call[d].at = "new"
  /\ TryName(d, NextName(1))
  /\ UNCHANGED <<store, engine, policy, removal, closing, disk, spent>>

NameExists(d) ==
  /\ call[d].at = "checking"
  /\ disk[call[d].path] # Nobody
  /\ TryName(d, NextName(call[d].path + 1))
  /\ UNCHANGED <<store, engine, policy, removal, closing, disk, spent>>

CheckFails(d) ==
  /\ call[d].at = "checking"
  /\ Return(d)
  /\ UNCHANGED <<store, engine, policy, removal, closing, disk, spent>>

\* The name is free: the item is listed.  A torrent is held from now on, and
\* the call, with its reservation, waits for the engine to select the file.
Register(d) ==
  /\ call[d].at = "checking"
  /\ disk[call[d].path] = Nobody
  /\ LET listed == [store EXCEPT !.item[d] = [NoItem EXCEPT !.status = "queued",
                                                            !.path = call[d].path]]
     IN  IF d \in engine
         THEN /\ store' = [listed EXCEPT !.held = @ \cup {d}]
              /\ call' = [call EXCEPT ![d].at = "retaining"]
              /\ UNCHANGED names
         ELSE /\ store' = StartOrQueue(listed, d, policy)
              /\ Return(d)
  /\ UNCHANGED <<engine, policy, removal, closing, disk, spent>>

\* The selection is answered; the finally clause gives the name back.
Retained(d, ok) ==
  /\ call[d].at = "retaining"
  /\ store' = IF ~Is(store, d, "queued") THEN store
              ELSE IF ok THEN StartOrQueue(store, d, policy)
              ELSE Patch(store, d, "error")
  /\ Return(d)
  /\ UNCHANGED <<engine, policy, removal, closing, disk, spent>>

----------------------------------------------------------------------------
(* Calls of the interface.                                                  *)

ui == <<engine, call, closing, disk>>

\* A call of the interface, counted.
Called ==
  /\ spent.calls < MaxCalls
  /\ spent' = [spent EXCEPT !.calls = @ + 1]

Pause(d) ==
  /\ store' = IF Is(store, d, "queued")
              THEN Pump(Patch(DropFromQueue(store, d), d, "paused"), policy)
              ELSE PauseCopies(store, {d})
  /\ store.item[d].status \in {"queued", "downloading"}
  /\ UNCHANGED <<policy, names, removal>> /\ UNCHANGED ui /\ Called

Resume(d) ==
  /\ store.item[d].status \in {"paused", "interrupted", "error"}
  /\ store' = IF HasHandle(store, d) THEN [store EXCEPT !.resume = @ \cup {d}]
              ELSE StartOrQueue(store, d, policy)
  /\ UNCHANGED <<policy, names, removal>> /\ UNCHANGED ui /\ Called

\* Mutant: a download canceled before its copy starts keeps its torrent.
CancelKeepingTorrent(d) ==
  /\ store.item[d].status \in {"queued", "paused", "error"}
  /\ ~HasHandle(store, d)
  /\ store' = Patch(DropFromQueue(store, d), d, "canceled")
  /\ UNCHANGED <<policy, names, removal>> /\ UNCHANGED ui /\ Called

CancelDownload(d) ==
  /\ store.item[d].status \notin {"absent", "removing", "removal-error"}
  /\ \/ /\ HasHandle(store, d)
        /\ store' = Abort(Patch([store EXCEPT !.resume = @ \ {d}], d, "canceled"), d)
     \/ /\ ~HasHandle(store, d)
        /\ store.item[d].status \notin {"done", "canceled"}
        /\ store' = Patch([DropFromQueue(store, d) EXCEPT !.held = @ \ {d}], d, "canceled")
  /\ UNCHANGED <<policy, names, removal>> /\ UNCHANGED ui /\ Called

\* Mutant: the file is deleted without waiting for the copy to stop.
RemoveAtOnce(d) ==
  /\ removal[d] = "none"
  /\ ~Is(store, d, "absent")
  /\ store' = Abort(Patch(DropFromQueue(store, d), d, "removing"), d)
  /\ removal' = [removal EXCEPT ![d] = "deleting"]
  /\ UNCHANGED <<policy, names>> /\ UNCHANGED ui /\ Called

\* removeDownload up to its first await: the name is kept from newcomers until
\* the file is gone.
RemoveDownload(d) ==
  /\ removal[d] = "none"
  /\ ~Is(store, d, "absent")
  /\ LET leaving == Patch([DropFromQueue(store, d) EXCEPT !.resume = @ \ {d}], d, "removing")
     IN  store' = IF HasHandle(store, d) THEN Abort(leaving, d) ELSE leaving
  /\ names' = names \cup {store.item[d].path}
  /\ removal' = [removal EXCEPT ![d] = IF HasHandle(store, d) THEN "stopping" ELSE "deleting"]
  /\ UNCHANGED policy /\ UNCHANGED ui /\ Called

Tightened(p) == p.quota # 0 /\ (policy.quota = 0 \/ p.quota < policy.quota)

\* Mutant: a lower limit does not pause the copies beyond it.
ConfigureLater(p) ==
  /\ p # policy
  /\ policy' = p
  /\ store' = Pump(store, p)
  /\ UNCHANGED <<names, removal>> /\ UNCHANGED ui /\ Called

Configure(p) ==
  /\ p # policy
  /\ policy' = p
  /\ LET beyond == {store.handles[k] : k \in p.concurrent + 1..Len(store.handles)}
         paused == PauseCopies(store, IF Tightened(p) THEN Range(store.handles) ELSE beyond)
     IN  store' = Pump(paused, p)
  /\ UNCHANGED <<names, removal>> /\ UNCHANGED ui /\ Called

Prioritize(d) ==
  LET top == Max({store.item[e].priority : e \in Download}) IN
  /\ Is(store, d, "queued")
  /\ top < MaxPriority
  /\ store' = Pump([store EXCEPT !.item[d].priority = top + 1], policy)
  /\ UNCHANGED <<policy, names, removal>> /\ UNCHANGED ui /\ Called

----------------------------------------------------------------------------
(* The copies.                                                              *)

\* Mutant: the freed slot is not handed on.
ConcludeWithoutPump(s, d, p) ==
  IF d \in s.resume /\ Is(s, d, "paused")
  THEN StartOrQueue([s EXCEPT !.resume = @ \ {d}], d, p)
  ELSE [s EXCEPT !.resume = @ \ {d}]

\* The rest of the finally clause of beginDownload.
Conclude(s, d, p) ==
  LET settled == [s EXCEPT !.resume = @ \ {d}] IN
  Pump(IF d \in s.resume /\ Is(s, d, "paused") THEN StartOrQueue(settled, d, p) ELSE settled, p)

\* handle.promise settles: then or catch, finally, and what awaits it.
Outcome(s, d, how) ==
  IF Is(s, d, "removing") THEN "removing"
  ELSE IF how = "done" THEN "done"
  ELSE IF how = "failed" /\ d \notin s.aborted THEN "error"
  ELSE IF Is(s, d, "paused") THEN "paused" ELSE "canceled"

Settle(d, how) ==
  LET status == Outcome(store, d, how)
      gone == Patch([store EXCEPT !.handles = Without(@, d),
                                  !.aborted = @ \ {d}, !.copy[d] = "none",
                                  !.cap[d] = 0, !.reserved[d] = 0], d, status)
      releases == status \in {"done", "canceled"} /\ d \in store.held
  IN  /\ store' = IF releases THEN [gone EXCEPT !.held = @ \ {d}]
                  ELSE Conclude(gone, d, policy)
      /\ closing' = IF releases THEN closing \cup {d} ELSE closing
      /\ removal' = IF removal[d] = "stopping" THEN [removal EXCEPT ![d] = "deleting"]
                    ELSE removal

copies == <<engine, policy, call, names, spent>>

\* The engine answers retainTorrentForDownload.
Selected(d, ok) ==
  /\ store.copy[d] = "selecting"
  /\ IF ok /\ d \notin store.aborted
     THEN /\ store' = [store EXCEPT !.copy[d] = "writing"]
          /\ UNCHANGED <<removal, closing>>
     ELSE Settle(d, "failed")
  /\ UNCHANGED <<disk>> /\ UNCHANGED copies

\* What a copy may receive: a source that announces too much is refused.
Room(d) == {n \in 1..Size : n <= store.cap[d] /\ (d \in Sized => Size <= store.cap[d])}

Progress(d) ==
  LET got == store.item[d].received + 1
      bound == IF d \in Sized THEN Size ELSE store.cap[d]
  IN  /\ store.copy[d] = "writing"
      /\ got \in Room(d)
      /\ store' = Pump([store EXCEPT !.item[d].received = got,
                          !.reserved[d] = IF store.cap[d] = Unlimited THEN @
                                          ELSE Min({bound, store.cap[d]}) - got], policy)
      /\ disk' = [disk EXCEPT ![store.item[d].path] = d]
      /\ UNCHANGED <<removal, closing>> /\ UNCHANGED copies

Finish(d) ==
  /\ store.copy[d] = "writing"
  /\ store.item[d].received = Size /\ Size <= store.cap[d]
  /\ disk' = [disk EXCEPT ![store.item[d].path] = d]
  /\ Settle(d, "done")
  /\ UNCHANGED copies

Fail(d) ==
  /\ store.copy[d] = "writing"
  /\ Settle(d, "failed")
  /\ UNCHANGED disk /\ UNCHANGED copies

\* The writer sees download_cancel.  It need not: the command may reach the
\* backend before download_start has put the flag in its table, and be lost.
Stop(d) ==
  /\ store.copy[d] = "writing" /\ d \in store.aborted
  /\ Settle(d, "aborted")
  /\ UNCHANGED disk /\ UNCHANGED copies

\* releaseTorrentForDownload returns to the finally clause.
Released(d) ==
  /\ d \in closing
  /\ closing' = closing \ {d}
  /\ store' = Conclude(store, d, policy)
  /\ UNCHANGED <<removal, disk>> /\ UNCHANGED copies

\* Mutant: the entry goes even when its file could not be deleted.
DeletedAnyway(d, ok) ==
  /\ removal[d] = "deleting"
  /\ disk' = IF ok THEN [disk EXCEPT ![store.item[d].path] = Nobody] ELSE disk
  /\ store' = [store EXCEPT !.item[d] = NoItem, !.held = @ \ {d}]
  /\ removal' = [removal EXCEPT ![d] = "none"]
  /\ names' = names \ {store.item[d].path}
  /\ UNCHANGED <<engine, policy, call, closing, spent>>

\* download_remove_file unlinks the file, or fails; a file unlinked in
\* part counts as still there, since its item still owns the name.
Deleted(d, ok) ==
  LET left == [store EXCEPT !.held = @ \ {d}] IN
  /\ removal[d] = "deleting"
  /\ disk' = IF ok THEN [disk EXCEPT ![store.item[d].path] = Nobody] ELSE disk
  /\ store' = Pump(IF ok THEN [left EXCEPT !.item[d] = NoItem]
                   ELSE Patch(left, d, "removal-error"), policy)
  /\ removal' = [removal EXCEPT ![d] = "none"]
  /\ names' = names \ {store.item[d].path}
  /\ UNCHANGED <<engine, policy, call, closing, spent>>

----------------------------------------------------------------------------
(* The app restarts.  (A page that reloads alone leaves native copies behind that *)
(* nobody follows: not modelled.)                                             *)

Hydrated(status) ==
  CASE status = "removing" -> "removal-error"
    [] status \in {"queued", "downloading"} -> "interrupted"
    [] OTHER -> status

\* Byte counts are persisted a second late: what running copies received last
\* may be forgotten.
Hydrate(lost) ==
  /\ store' = [EmptyStore EXCEPT !.item = [d \in Download |->
       [store.item[d] EXCEPT !.status = Hydrated(@),
                             !.received = IF d \in lost THEN @ - 1 ELSE @]]]
  /\ call' = [d \in Download |->
       IF call[d].at = "new" THEN call[d] ELSE [at |-> "returned", path |-> NoName]]
  /\ names' = {}
  /\ removal' = [d \in Download |-> "none"]
  /\ closing' = {}
  /\ UNCHANGED <<engine, policy, disk>>

Behind == {d \in Download : HasHandle(store, d) /\ store.item[d].received > 0}

Restart ==
  /\ spent.faults < MaxFaults
  /\ spent' = [spent EXCEPT !.faults = @ + 1]
  /\ \E lost \in SUBSET Behind : Hydrate(lost)

----------------------------------------------------------------------------
User(d) ==
  \/ Enqueue(d) \/ Pause(d) \/ Resume(d) \/ CancelDownload(d) \/ RemoveDownload(d)
  \/ Prioritize(d)

\* The backend answers what it is asked, and a copy comes to an end.
Answer(d) ==
  \/ NameExists(d) \/ Register(d) \/ CheckFails(d) \/ Released(d)
  \/ \E ok \in BOOLEAN : Retained(d, ok) \/ Selected(d, ok) \/ Deleted(d, ok)

CopyStep(d) == Progress(d) \/ Finish(d) \/ Fail(d) \/ Stop(d)

Next ==
  \/ \E d \in Download : User(d) \/ Answer(d) \/ CopyStep(d)
  \/ \E p \in Policies : Configure(p)
  \/ Restart

Spec == Init /\ [][Next]_vars

----------------------------------------------------------------------------
(* Properties.                                                              *)

\* The store is made of the values its types allow; the running copies are
\* those with a handle, once each, and nothing else holds a reservation.
TypeOK ==
  /\ store.item \in [Download -> Item]
  /\ store.handles \in Seq(Download) /\ store.waiting \in Seq(Download)
  /\ store.copy \in [Download -> Copy]
  /\ store.aborted \subseteq Download /\ store.resume \subseteq Download
  /\ store.held \subseteq engine
  /\ policy \in Policies /\ names \subseteq Name /\ disk \in [Name -> Download \cup {Nobody, Foreign}]
  /\ call \in [Download -> [at : {"new", "checking", "retaining", "returned"},
                            path : Name \cup {NoName}]]
  /\ removal \in [Download -> {"none", "stopping", "deleting"}]
  /\ closing \subseteq Download
  /\ IsInjective(store.handles) /\ IsInjective(store.waiting)

\* Whatever is paused, resumed, removed or reconfigured, an item shows as
\* downloading only while a copy of its own runs for it, and no more of
\* them run than the user allows (policy.concurrent).
ActiveWithinLimit ==
  /\ \A d \in Download : Is(store, d, "downloading") => HasHandle(store, d)
  /\ Cardinality({d \in Download : Is(store, d, "downloading")}) <= policy.concurrent

\* A download in the queue has no copy running: what pump starts next never
\* writes beside an older copy of the same download that is still stopping.
QueuedHasNoWriter ==
  \A d \in Download : Is(store, d, "queued") => store.copy[d] = "none" /\ d \notin closing

\* A file is unlinked only once the copy its item knows of has stopped.
WriterStopsFirst ==
  \A d \in Download : removal[d] = "deleting" => store.copy[d] = "none"

\* The list is well formed, and nothing of it is started, or deleted, beside a
\* copy that still writes.
WritersConsistent == TypeOK /\ QueuedHasNoWriter /\ WriterStopsFirst

\* No lost wake-up: nothing startable is left waiting while a slot and budget
\* are free, except until the release that a settled copy awaits returns.
NoIdleSlot ==
  \A d \in Download :
    /\ Is(store, d, "queued") /\ Contains(store.waiting, d)
    /\ Len(store.handles) < policy.concurrent /\ HasBudget(store, policy)
    => closing # {}

\* Two items never share a file name, so neither writes into nor deletes the
\* other's file (reservePath), as long as no download is a torrent's.
DirectPathsExclusive ==
  engine = {} =>
    \A d, e \in Download :
      d # e /\ ~Is(store, d, "absent") /\ ~Is(store, e, "absent")
      => store.item[d].path # store.item[e].path

\* The same promise for downloads of any kind; see the comment of reservedPaths.
PathsExclusive ==
  \A d, e \in Download :
    d # e /\ ~Is(store, d, "absent") /\ ~Is(store, e, "absent")
    => store.item[d].path # store.item[e].path

\* No file is left on disk that the list does not own, through removals, failed
\* removals and restarts; a file that was there first is never replaced.
FilesOwned ==
  /\ \A n \in Name : (disk[n] = Foreign) = (n \in Taken)
  /\ engine = {} => \A n \in Name : disk[n] \in Download =>
       store.item[disk[n]].path = n

\* A finished download has its file.
DoneHasFile ==
  engine = {} => \A d \in Download :
    Is(store, d, "done") => disk[store.item[d].path] = d

\* Every file on disk belongs to one item that names it, and to no other.
FilesConsistent == DirectPathsExclusive /\ FilesOwned /\ DoneHasFile

\* A running copy of a torrent's file holds the torrent, and no hold outlives
\* the download it is for: the engine would keep the torrent for ever.
HoldsMatchCopies ==
  /\ \A d \in engine : store.copy[d] # "none" => d \in store.held
  /\ \A d \in store.held : ~HasHandle(store, d) =>
       store.item[d].status \notin {"absent", "done", "canceled", "removal-error"}

\* What is on disk and what running copies were promised never grow beyond the
\* quota, whatever step is taken and even when the quota was lowered below what
\* is there.  Copies started before there was a quota are excepted; setting one
\* stops them.
BudgetNeverOverspent ==
  [][ policy'.quota # 0 /\ (\A d \in Download : store.cap[d] # Unlimited)
      => Committed(store') <= Max({policy'.quota, Committed(store)}) ]_vars
=============================================================================
