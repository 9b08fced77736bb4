# Formal models of VAYRA's shared viewing

VAYRA is a media player (TypeScript interface, Rust/Tauri shell) with a social
layer in PostgreSQL (Supabase). Its distributed logic is the shared viewing:
**VARA** rooms, which decide who is in a room and who hosts it, and **VEYA**
playback synchronisation on top of them. Two parts of one machine are as
concurrent: the **download** list with the native copies it starts, and the
**LUMA** queue that several windows share. This directory models these in TLA+,
checks them with TLC on small instances, and proves the main results with TLAPS
for every instance.

## 1. Inventory

| Component | Code | State it keeps | Operations | Hard behaviour | What makes it correct |
|---|---|---|---|---|---|
| VARA room RPCs | `supabase/migrations/20260713290000`, `20260715120000`, `20260716090000` | rooms, members, host lease and epoch, topic | create, close, leave, renew, claim, transfer, collect | succession, lease expiry, cached authorisation | host is a member; epoch and topic fence former hosts and members |
| VARA invitations and links | `20260713300000` | invitations, links | invite, accept, decline, cancel, list, create/accept/revoke link, block trigger | concurrent transactions, stale credentials, blocks | capacity, single use, blocked pairs apart |
| VARA Realtime policies | `20260713290000` | (Realtime's cache per connection) | join a channel | evaluated once, cached | only members receive, only the host publishes |
| Local broker | `vara-broker/src/broker.rs`, `server.rs` | clients, rooms, revisions, snapshot | register, join, cmd, state, leave | one task per connection over one mutex | one host, same roster for all, monotone revisions |
| LocalTransport | `src/lib/together/sync/local-transport.ts` | roster | fold of the broker's messages | incremental updates | roster equals the broker's |
| Broker lifecycle | `vara-broker/src/server.rs`, `main.rs` | socket, idle clock | bind, idle exit | two brokers starting, lost wake-ups | at most one broker, none dies with clients |
| Sync client | `src-tauri/src/vara_client.rs` | writer slot | connect, send, read | reconnection, a reader clearing a newer writer | a JOIN is delivered or an error shown |
| VEYA transport | `src/lib/together/sync/websocket-transport.ts` | descriptor, channel, generation, revision | join, leave, close, publish, refresh, lease tick, reconnect | state used after an await, topic rotation, lost pings | one host a term, monotone revisions, it recovers, it stops when it left |
| VEYA wiring | `use-veya-sync.ts`, `anti-loop.ts`, `reconcile.ts`, the heartbeat and controls of `views/player` | last revision, suppression window, nudge, recent ids | apply, publish, reconcile | echoes, commands that cross states, nudges | no feedback loop, guests converge |
| VARA provider, repository | `src/lib/vara/` | open room, invitations shown | the RPCs | responses out of order | the room shown is one the user is in |
| CIRA friendships | `20260713171656_cira_rpc.sql`, `20260714090000` | requests, receipts, invitations, blocks | send, accept, decline, cancel, remove, block | crossed requests, pair locks | one relation per pair, none across a block |
| CIRA groups | `20260713230000`, `-240000`, `-250000`, `20260714100000`, `-200000`, `-210000` | groups, roles, invitations, archive | create, invite, roles, transfer, archive, delete | lock order, block against join | exactly one owner, who is a member |
| CIRA presence, inbox | `20260713200000`, `-260000`, `-270000` | presence rows | heartbeat, list | hints only | - |
| Account deletion | `20260718193000` | - | cascade | nothing but foreign keys runs | nothing dangles |
| VARA collections | `20260714120000`, `-220000` | collections, ordered items | add, move, remove | concurrent edits | positions stay a permutation |
| Together relay and client | `src-tauri/relay/worker.js`, `src/lib/together/client.ts` | peers, host, state | hello, claim, cmd, state | hibernation, reconnects | one host |
| LUMA queue | `src/lib/luma/` | a revisioned document in local storage, its backup, a reserved entry | add, move, remove, begin, reject, progress, flush | several windows, damage, later schemas, a throttle | a readable copy remains, nothing said to be saved is lost |
| Downloads | `src/lib/download/`, `src-tauri/src/download.rs`, `torrent/local-engine.ts` | items, handles, waiting list, names, budget, torrent holds | enqueue, pause, resume, cancel, remove, configure, pump | every await; a cancellation the writer may miss | limits kept, no idle slot, one file a name, holds released |
| Credential storage | `credential_queue.rs`, `credential_chunks.rs` | queue, chunks | read, write | crash between chunks | nothing lost |
| Room machine | `together/sync/room-machine.ts` | - | - | only its test imports it | - |
| Player, torrents, streaming, casting, recording, settings, interface, site | `src-tauri/src`, `src/views`, ... | engines, files, devices | - | I/O around third-party engines | not modelled |

Interactions. An interface calls the RPCs through the VARA repository and gets a
room descriptor (members, host, epoch, topic). VEYA joins the topic's private
channel, which Realtime authorises with the policies; a change of membership or
of host rotates the topic and a `cira:<user>` broadcast makes clients fetch the
descriptor again. The wiring applies what the transport receives to the player
and sends the player's intents and heartbeats through it. The player
acknowledges the entry it took from the LUMA queue when its first frame is
rendered. Downloads of torrents hold the torrent in the local engine. Blocks and
group archives of CIRA act on the rooms through a trigger and an RPC. The local broker is the older, same-machine counterpart:
instances of the application connect through a socket and LocalTransport folds
its messages.

## 2. Modules

| Module | Models | Composes |
|---|---|---|
| `HostLease` | abstract: one host a term, a term that rises by one with each change of host | implemented by `VaraRooms` and by `VeyaTransport` |
| `VaraRooms` | rooms, members, lease, epoch, topic, policies, group archive, account deletion, collector; one RPC a step | refines `HostLease`, room by room |
| `VaraInvites` | friendships, blocks, invitations, links | extends `VaraRooms`: an acceptance is its `Admit`, a block its `Expel` |
| `VaraAdmission` | the same admission, invitation, departure, closing, archive and block transactions, one SQL statement a step with row locks | - |
| `HostedRoom` | abstract: a room hosted by one of its members until that one departs and a member that can be reached succeeds it, revisions that rise until it is empty | implemented by `VaraBroker` |
| `VaraBroker` | the broker's handlers, connection tasks, and the rosters LocalTransport builds | refines `HostedRoom`, room by room |
| `VeyaTransport` | `WebSocketTransport` on every device, with the room's row and its RPCs | refines `HostLease` |
| `VeyaSync` | the wiring, its player and the channel of every peer | assumes the ordered broadcast and single authority of a transport |
| `Downloads` | the download list and its native copies | - |
| `LumaStore` | the queue's store in every window over one local storage | - |
| `VaraRoomsProofs`, `VaraInvitesProofs`, `VaraAdmissionProofs`, `VaraBrokerProofs`, `VeyaTransportProofs`, `VeyaSyncProofs`, `DownloadsProofs`, `LumaStoreProofs` | theorems | each extends its module |
| `MC...` | values of the constants for TLC | each extends its module |

**State and code.** In `VaraRooms`, `room[r]` is a row of `vara_rooms` with its
`vara_room_members`. A topic is an unguessable name that is never used again, so
what matters of it is who holds an authorised connection to the current one:
`listening` and `publishing`, which a rotation empties. `Rotate`, `Crown`,
`Without` and `With` are the updates the RPCs share; every RPC is an action with
the conditions it raises on as its guard, and a refused call leaves the state as
it was. `DeleteAccount` is the cascade of the foreign keys and nothing more.
`VaraInvites` adds the credentials; `Cascade` is their foreign key to the room.

`VaraAdmission` gives each transaction a program counter (`job[t].at`), holds
row locks until the transaction ends (`locked`, and `keyed` for the key-share
locks that inserts take through foreign keys), reads committed data, and lets
the deadlock detector abort one of a cycle. It knows one room, one link and the
owner's invitations; leases are left out because they are read and written only
under the room lock. Rate-limit rows, which only calls of one account share, are
left out too. A block of a pair that is blocked already leaves invitations alone, since the
trigger that cancels them runs on an insert.

In `VaraBroker` a step is one acquisition of the broker's mutex. `client` is
keyed by placeholder or client id as in the code, so a second connection with
the same id overwrites the first one's record. `Joins` says what JOIN frames
each connection may send. Outboxes are unbounded queues read in order, so
`view[c]` is the roster the application shows when it has read everything.
Connections of one client id may overlap in any way, since nothing in
`vara_client.rs` or `server.rs` waits for the cleanup of an earlier one: the JOIN
of the later one takes the record over, and the first of them to end takes it
away. A room may then list an id that has no record there, a ghost (`Ghosts`);
the properties speak of who is in a room (`Here`) and of whom it lists. The
members of a room are a set, because an id is pushed only if it is absent.

`VeyaTransport` has one record a device: `stay` (in, out, closed), `desc`,
`chan`, the calls it awaits (`connect`, `lease`, `refreshes`), `timer` and `seq`.
An action is what runs between two awaits. The generation counter is not a
number: the code compares it only to tell continuations of an older attempt, so
raising it (`Bump`) drops the calls it would invalidate and kills the handlers
of the old channel. The lease tick has no such check and its call outlives it,
as in the code. `srv` is the room as the RPCs of `VaraRooms` leave it, reduced to
what a descriptor shows; other accounts act through `Transfer`, `Remove` and the
claims and departures. Presence is taken as up to date.

`VeyaSync` counts positions relative to the authority's and rates as distance
played in a tick; a message on its way ages as the target extrapolated from it
does, which takes the clocks to agree. Revisions are ranks up to `count`, what the
authority's transport gave last, because the code only compares them. When that
transport leaves and joins again its count starts over (`RejoinAuthority`), and
revisions above it are told by how far they are ahead, at most `MaxLag` more than
are in use. `ApplyState`, `ApplyCommand` and `ApplySnapshot` are the three
callbacks; `Intent` is the sender with its suppress window. A player shows
another title by loading it (`Show`, `Load`), and the heartbeat skips a player
that loads.

In `Downloads`, `store` is the module's maps and each function of the code that
calls others is an operator from one store to the next (`Begin`, `StartOrQueue`,
`Pump`, `Conclude`), so that a pause, a settled copy or a changed limit pumps in
the same step, as the code does. `call` and `removal` hold the continuations of
the two functions that wait. `Stop` is the native writer noticing the
cancellation; a copy may finish or fail instead. Three downloads want one name.
`Pumping` starts one waiting download after the other as a recursive function
over how many are left. `Outcome` tests in the code's order, as more than one of
its conditions may hold.

In `LumaStore`, `win[w]` is the store of a window and `disk` the two keys.
`SaveOutcomes` are the ends a save may come to: refused, written, or stopped
between the backup and the document. `Commit` and `Flush` are the code's two
ways to save. Time passes in ticks (`Tick`), a timer that is due fires first, and
`Throttle` ticks are the four seconds between two writes of progress: `since` and
`due` are `lastProgressWriteAt` and the timer's delay. `NewerVersion` is a save of
a later version, whose second save makes the backup one of its schema too. An
entry leaves the queue by its place. `Legacy`, the queue of an earlier version,
has no medium twice, because its import skips repeats.

The operators commented as mutants are small bugs (a guard dropped, a reset
forgotten); each replaces its original in a run that must then fail, which shows
that the property depends on that code.

## 3. Runs

| Run | Instance | Question |
|---|---|---|
| `rooms` | 1 room, 1 group, 3 accounts, capacities 2 and 3, clock to 4, epoch to 3 | succession, lease, epoch, topic, capacity; archive and collection; refinement of `HostLease` |
| `invites` | 1 room, 1 link, 3 accounts, clock to 2 | credentials, blocks, vouching |
| `admission` | 3 transactions of 7 kinds, 3 accounts, one free seat | capacity, link budget, block against inviter, which deadlocks there are |
| `broker` | 3 connections, two of which may be one app's and overlap, 2 rooms, revisions to 1 | rosters, host, snapshot, revisions, no leaked record, no ghost of a departure, refinement of `HostedRoom` |
| `downloads` | 3 downloads, one a torrent or none, 2 policies, 3 calls besides enqueueing, 1 restart | limits, queue, budget, names, files, torrent holds |
| `downloads_names` | the same, no fault | **violated**: see findings |
| `veya_transport` | 1 device and another account, 4 topics, 2 joins, 2 faults | what a departure leaves, recovery, learning that it is over, refinement of `HostLease` |
| `veya_revisions` | 2 devices, no fault | **violated**: see findings |
| `veya_sync` | 2 peers, 2 titles, 2 speeds, all 7 kinds of disturbance, 3 events | convergence, no command taken for a duplicate |
| `veya_nudge` | 2 peers, a transfer, 2 events | **violated**: see findings |
| `luma` | 2 windows, 3 entries of 2 media, legacy queue, 4 revisions, 3 faults, a throttle of 2 ticks | recovery, later schemas, what "saved" means, throttled progress |
| `luma_windows` | 2 windows, no damage | **violated**: see findings |

Some properties are conjunctions of parts that are defined and named one by one:
`RowsInRange`, `TopicIsFenced`, `CredentialsInRange`, `BlocksSeparate`,
`BudgetsKept`, `RoomsConsistent`, `WritersConsistent`, `FilesConsistent`,
`QueueConsistent`. Each includes the module's type invariant or the parts that
speak of the same data, and has a mutant that breaks one of them.

**Bounds.** `MaxTime` stops the clock after the lease and the room have had time
to expire; `MaxEpoch` allows two successions after the first host, enough for a
former host to come back; the broker's `MaxRev` allows each room one state or
command, before or after any join, departure or election. Three accounts are the least with an owner, a host other
than the owner and a guest, or a pair to block and a bystander. Three
transactions let two race while a third frees or fills the seat. Link uses go to
`max_members - 1` as in the code.
Three downloads are one that runs, one that waits and one that takes a name the
others let go; three calls allow a pause, a resume and a removal. Two faults of
the transport are a lost ping and a failed call, or a lapse between the two; the
claims, transfers and departures of others are the second account's. In
`veya_sync` any three of these may meet in one behaviour: intents, stalls, lost or
slow messages, a speed picked by the host or by a guest, titles, transfers,
wirings made again, transports that join anew and late joiners. `Allowed`
narrows them for `veya_nudge`, whose claim is about rooms where nobody picks a
speed. `MaxLag` is 1, since a count that is behind by two catches up as one that
is behind by one, a heartbeat later. `Far` is one more than `Hard`: what is further
is sought all the same.
`RevEpochSize` is 2 where the end of an epoch's range must be reached, and 8
where it must not. In `luma`, three faults damage the queue twice, or let a later
version save twice and its main copy be damaged; a second window counts as a
fault, and the revisions are fewer (`MaxShared`) from then on.
Deadlock checking is off in every run because the bounded clock, epochs, ids,
transactions, connections, calls and events do run out.

**Symmetry** is used in `admission`, on transactions, in the two runs of
downloads, on the two that differ in nothing, and in the two of `LumaStore`, on
windows; none of them checks liveness.
Accounts and devices are ordered (locks, successions and authority go by id).

**Fairness.** No run assumes that a user or a client ever acts.
- `rooms`: weak, of the collector, which pg_cron runs every five minutes
  (`20260716090000`), and of the clock.
- `admission` needs none, as it checks invariants.
- `veya_transport`: weak, of timers, of the lease tick and of answers. Strong, of
  a connection attempt's two answers, because another rotation or retry may
  start the attempt anew before they arrive; retries are seconds apart
  (`RECONNECT_DELAYS_MS`), longer than an answer takes.
- `veya_sync`: weak, of time, of the heartbeat, of delivery, of a player that
  loads or runs dry getting its data and of a wiring being made again.
- `luma` needs none: a timer fires at its tick, so that what must reach the disk
  in time is an invariant (`ProgressReachesDisk`).

### Findings

1. *Names of downloads* (`downloads_names`). An enqueued torrent is registered
   and then waits for the engine; if it is removed meanwhile, its removal
   releases the name, another enqueue reserves it and waits for the file check,
   and then the first one's `finally` releases it again
   (`downloads-store.ts:310`). A third takes the same name. Without torrents
   the reservation holds (`DirectPathsExclusive`, in `FilesConsistent`).
2. *Revisions start over* (`veya_revisions`). `join` resets the sequence number
   (`websocket-transport.ts:177`) while the epoch stays, so a host that leaves
   and joins again is ignored by those who heard more of it before.
3. *A nudge becomes the room's speed* (`veya_nudge`). A guest that takes over
   while its speed is nudged is never corrected again and publishes that speed.
4. *Windows of the queue* (`luma_windows`). Progress not yet written raises the
   revision of one window's copy, which then ignores another window's write of
   the same revision and replaces it with its own next one, a reserved entry
   included.

The hazards in `PROJECT.json` note further known divergences that have no run of
their own:

- *Account deletion* keeps the topic (`ListenersAreMembersOrDeleted` names the
  exception).
- *A block* misses a concurrent admission of anyone but the inviter's own invitee.
- *Deadlocks* exist, archiving against accepting among them; PostgreSQL aborts one
  transaction. `DeadlocksGoThroughTheRoom` says which ones there are: in each
  circle somebody holds the room and inserts a member, upserts an invitation or
  cascades a deletion. It knows one room, and not how RPCs of two rooms meet.
- *The broker's cleanups* go by client id. An app that connects again before its
  last connection is cleaned up (a LEAVE ends the socket before the second
  `handle_leave`, `server.rs:215`) has its newer record removed by that cleanup:
  it then sits in no room, and if its JOIN comes in between, the room it was in
  may list it as a ghost, even as its host, until it joins again.
  `server.rs:210-211` says that the cleanup "targets the right record". So
  `RoomsKnowTheirs` and `ViewsAgree` ask that all who are in a room are listed and
  shown, and not that all who are listed are in it; `NoGhostOfTheDeparted` says
  where ghosts come from.
- *A failed refresh* leaves a device without channel or timer, and a lost ping
  leaves one unaware (`Dropped`, `Unaware`, excepted by name in `NoneForgotten`
  and `Settles`).
- *A saturated host* (a million messages in one epoch) is no longer heard.
- *A guest's own speed* is never corrected, because `setBridgeRate`
  (`use-veya-sync.ts:115-119`) compares with what it pushed itself: such a guest
  is sought at every heartbeat (`OwnSpeed`, excepted by name in `Converges`).
- *A backup of a later schema* is overwritten by the saves of this version once the
  main copy has been damaged, against `docs/luma.md:51-52` ("n'est jamais
  écrasé"); `FutureKept` covers the main copy.

## 4. Proofs

`VaraRoomsProofs` proves, for all accounts, rooms, groups, lease lengths,
lifetimes, capacities and bounds that satisfy the `ASSUME`s of `VaraRooms`:

- `TypeOK`, `OwnerAndHostAreMembers`, `CapacityRespected`, `PublisherIsHost`,
  `ListenersAreMembersOrDeleted`, `LeaseBounded` and `ArchivedGroupHasNoRoom`
  as invariants of `Spec`;
- `RowsInRange` and `TopicIsFenced`, which the run checks: types, seats and
  leases together, and what connections may still do;
- `EpochFencesHost` as an action property of `Spec`;
- `LeasesImplemented`: each room refines `HostLease`.

The invariants hold together as `IInv`, because they need one another: a
succession picks a member with `NextHost`, which exists only if the owner is
still there once the host has left (`OwnerAndHostAreMembers`), finitely many
members have a least one (`LeastNatural`), and cardinalities make sense only of
finite sets; that `publishing` belongs to the host follows from its being part
of `listening`; a live room was born, so that its id is not created twice
(`LiveIsBorn`). `IInv` is not inductive without its per-row part, which also
says what the row of a missing room looks like. The proof has one lemma per row
operator (`CrownSound`, `WithoutSound`, `WithSound`, `NewRoomSound`), one for
writing one row and one for dropping rows, and one per action; `NextIInv`
combines them. The action property follows from lemmas on how each action
changes a row's host and epoch (`StepEvolves`).

`VaraInvitesProofs` proves, for every number of links as well:

- `InvitesTypeOK`, `NoBlockedPairInRoom`, `NoTieAcrossBlock` and
  `CredentialsWithinRoom` as invariants (the first and the last are the run's
  `CredentialsInRange`), `AdmissionIsVouched` as an action property of
  `InvitesSpec`.

Its actions are those of `VaraRooms` or leave the rooms alone, by construction
(`RoomsAreRooms`), so everything above holds of the composition too; this is no
claim about the code. Rooms and types need each other (the link followed names a
room because `link` has its type, expiries are numbers because the rooms have
theirs), so `IInv /\ Tables` is the inductive invariant, `Tables` being the types
and that nobody blocks himself. `RoomStepKeeps`, `ExpelKeeps`, `DeletionKeeps` and
`AdmissionKeeps` say what a step does to one room's members and expiry (`Kept`);
`Fading` says that a step only deletes invitations. The four properties follow
from these summaries without looking at rows again. The run `invites` has one
room; `BlockedPairsApart` covers a pair that shares many, which the trigger
must separate everywhere at once.

What is proved of blocks holds of serial transactions. `VaraAdmission` drops
that assumption; of a block, only `InviterBlockSeparates` survives.

`VeyaTransportProofs` proves, for every set of devices and accounts and every
choice of faults:

- `LeaseSpec`: the room the devices act on refines `HostLease`. `StepServes`
  reduces every action to one of three effects on the row (nothing; the same host
  and epoch, or the next epoch with a valid lease; the end), and `ServedIsLeaseStep`
  maps these to steps of `HostLease`;
- `LeftMeansQuiet` and `NoneForgotten`, from one invariant on each device's record
  (`IInv`: all are `Sound`). Neither is inductive without the types, in which an
  answer that succeeds carries a topic: the channel it opens is then not the
  missing one. One lemma per operator on records, one per action.

- `TypeOK`, from `BInv`: each device's record keeps its types and the model's
  bounds (`Fits`), which one lemma per operator on records passes on.

`LumaStoreProofs` proves for any windows, items and bounds:

- `OneSaneCopy` and `FutureKept`. `IInv` ties each recovered window to the
  backup; it is inductive because a save replaces the backup only by a main copy
  that could be read (`SecuredPreserves`) and every action is one save or none
  (`OneWindow`, `SameDisk`);
- `QueueConsistent` and `ReadyMeansSaved`, from `QInv`: the queue of every
  document, in a store, on disk or in a storage event, has no entry twice and at
  most `QueueLimit`, and while one window is open its store and the disk differ
  only in what its state (`persistence`, `pending`, the timer) says;
- `ProgressReachesDisk`, from `QInv` and `Clock`: a timer that runs is due when the
  last write of progress is a throttle old, which no report of the player puts
  off.

`VaraAdmissionProofs` proves, for any transactions, accounts and rows, that
statements that interleave overspend nothing: `BudgetsKept` and
`InviterBlockSeparates`. The invariant follows the statements. `Held(t)` says
which rows the transaction has locked at the statement it is at, `Known(t)` which
of the facts it has read still stand, and `Exclusive` that a lock for update has
one holder; so whoever could falsify what a transaction knows would have to hold
what that transaction holds (`AloneInRoom`, `AloneOnLink`, `AloneOnInvite`). There
is one lemma per statement and one per kind of commit, where the facts are used.

It also proves which deadlocks there are (`CirclesGoThroughTheRoom`, the run's
`DeadlocksGoThroughTheRoom`). `Accounted` says that a transaction is before a
statement of its RPC or is none, and `Holders` which rows it can hold at each. In a
circle without a member at one of the three statements that lock backwards,
nobody holds the room, so nobody waits for it; what its members hold is then
profiles, so all of them are blocks that lock their pair, each holding the lower
id and waiting for the higher, and none of them can wait for the greatest
(`CirclesNeedTheRoom`). `Left` bounds the statements a transaction still has
before it; each step lowers it for one transaction and leaves the others where
they are (`EveryStepCounts`), so `n` transactions take at most `10 n` steps.

`VaraBrokerProofs` proves `RoomsConsistent`, `ViewsAgree`, `StateReachesAll` and
`NoClientLeaks` as invariants, `RevisionsAdvance` and `NoGhostOfTheDeparted` as
action properties and the refinement `HostsKept`, for any connections, ids and
rooms and with no hypothesis on how connections overlap. `Records` ties a record
to the connection whose task goes by its key; it is inductive alone and gives
`NoClientLeaks`. `Rooms` adds that a room lists whoever is in it
(`RoomsKnowTheirs`) and that what a member is shown is true of its room
(`AllShown`). It speaks of members that no other room lists (`Settled`), because
an id that is a ghost elsewhere is sent that room's messages too. What a handler
does to a row is said once (`JoinRows`, `LeaveRows`, `PublishRows`) and used for
the invariant, for the ghosts (`StepHaunted`) and for the refinement: a JOIN is
`Enter` of its room (`JoinEnters`), a command or heartbeat `Stamp`
(`PublishStamps`), a departure `Depart`, or `Abandon` of the last member
(`LeaveDeparts`), and everything else stutters.

`DownloadsProofs` proves, for any downloads, names, slots, sizes and quotas,
every property of the run: `WritersConsistent`, `ActiveWithinLimit`, `NoIdleSlot`,
`FilesConsistent`, `HoldsMatchCopies` and `BudgetNeverOverspent`. A step is a
composition of functions from store to store; each keeps `Sound` (what relates a
download's status, handle, copy, hold and place in the waiting list) and moves
downloads only `Forward`, from which follow the parts on calls and removals
(`Context`) and on names and files (`Files`). That nothing idles (`Idle`) is true
after a pump only, so the lemma on the pump (`PumpKeeps`) turns a store where
slots may be free into one where none is left unused; it goes by induction on
the number of downloads that wait, as a least counterexample of a set of numbers
(`SetInduction`). The quota needs sums over sets: `SumsOf` and `SumMoves` say what
one changed term does to a sum, `SumBelow` that a sum over fewer or smaller terms
is no larger, and `Thrifty` that no part of a step commits more than it may. The
property holds of every step, a lowered quota and a restart included.

`VeyaSyncProofs` proves, for any peers, titles, speeds, thresholds and numbers of
events, `TypeOK` and `CommandsHeard`. `Typed` bounds how far a speed can be from
one that somebody picked: a guest's player is at most one nudge further off than
what the authority says, so the bound grows by one only when the room changes
hands, and what is still on its way to a new authority is from before
(`FromBefore`). `Newest` says that nothing applied, published or under way is newer
than the count of the authority's transport, until that one joins anew; `Low` and
`Top` say the same of the ranks that a heartbeat renews. `AllNumbered` says that a peer's
commands are numbered, life by life of its wiring, in the order they arrive, and
that what a peer remembers as heard was numbered before what still comes; so
`CorrLru` cannot take a new command for a known one. The code tells commands
apart by member and number and not by life, which is why the property speaks of a
peer's first wiring.

Two properties changed because a proof of them failed. `VeyaSync`'s `TypeOK` used
to bound what a peer has applied by the number of revisions in use, which three
peers can violate (a heartbeat renews the ranks and then replaces a state, which
leaves a gap); its clause on revisions now says what the next heartbeat relies
on, that its state will be new to everyone. `BudgetNeverOverspent` used to speak
of starts only.

Model-checked only: liveness (`ExpiredRoomCollected`, `Settles`, `Converges`),
which is not within the prover's reach. Of what TLC checks in the passing runs
everything else is proved. The properties of the runs that expect a violation are false.

## 5. Plan

1. `BrokerLifecycle` and `VaraClient`, the latter composed with `VaraBroker`.
2. `CiraFriendships`, `CiraGroups` (with `ArchiveGroup` shared with
   `VaraRooms`), `VaraCollections`.
3. `Downloads` with writers that outlive their page; `VaraProvider`;
   `CredentialQueue`; `TogetherRelay`.
4. Proofs: of each new module its invariants; of `VeyaSync`, the steps that
   convergence is made of (an applied state leaves a guest in step or nudged
   towards it).

### Not modelled

The room machine has no caller in the program. The player, torrent, streaming,
casting and recording parts wrap third-party engines and devices; ranking is a
pure function of its input; settings have one writer; views, themes and
translations, most of the source, render the state of the parts above. The
components named in the plan are left for later because the parts they would
join (the database's locks, the player, the broker) come first.
