# GeoTrack: a verification of its concurrent core

GeoTrack is a modular monolith on NestJS and PostgreSQL/PostGIS: users draw and edit
geometry features, every change of a feature becomes a version, devices send GPS points
into tracking sessions, and features are filed in a tree of folders. An API runs in 2 to 10
replicas next to one outbox worker; all of them share one database and talk to each other
through a transactional outbox.

The TLA+ modules here model the parts whose correctness depends on interleavings, failures
and orderings. TLC checks them on small instances; TLAPS proves their safety properties
for every instance. Paths below are relative to the repository (`libs/...`, `src/modules/...`).

**What interleaves.** Node runs one callback at a time, so a handler is atomic between two
`await`s. Everything it read before an `await` may be stale after it: other requests of the
same process and of other replicas run in between. PostgreSQL runs at READ COMMITTED, so a
statement sees what is committed when it starts, and a transaction's writes appear when it
commits. An action of the models is therefore the code from one `await` on a *writing*
statement (or one transaction) to the next; reads that follow each other without a write in
between are joined to one step.

## Inventory

| Component | State | Operations | What is hard | What makes it correct |
|---|---|---|---|---|
| Transactional outbox and relay (`libs/core/src/outbox`) | `outbox`, `outbox_dlq`; per process `isRelaying` and a loop in memory | `publishEvent`, `relayEvents` every second, `cleanupPublishedEvents` every hour | several relays poll one table; `emit` runs before COMMIT; the interactive transaction may time out under the loop; crashes | no event lost or in two places, none settled unretried, or unheard where somebody listens, duplicates only from losses, everything settles |
| Inbox (`libs/core/src/outbox/inbox.service.ts`) | `inbox` rows | `processOnce`; `isProcessed`/`markProcessed` | copies of an event handled at once; a handler that throws; a compensating DELETE that fails; death in a handler | processed at most once; claims outlive the work |
| Geometry writes (`src/modules/geometry`) | `geometry.features` | create, update, delete, get | stale read before the UPDATE; several clients; lost answers | no overwrite of unseen data, versions count up, events tell the whole story |
| Geometry queries | none | spatial and list queries | PostGIS evaluates them | - |
| Versioning (`src/modules/versioning`) | `versioning.versions` | three event handlers, revert, the queries | events duplicated and out of order; a revert computed from a stale row; payloads that agree by convention only | the queries show what the feature was; every change gets a version |
| Tracking sessions (`src/modules/tracking`) | `tracking.sessions`, `location_points` | start, ingest, end; the queries | whole-entity upserts that overwrite each other; two transactions per ingest | counters backed by points; acknowledged points stored; one active session; ended means ended; the overview counts the trail |
| Tracking stream (Kafka consumer, batch processor, Redis state store) | the partition's committed offset, `location_history`, `location.dlq`; a hash per device, a geo set per region | a batch message by message, or in one INSERT; pipelines of one script | poison messages, throws after half the work, restarts with and without a commit; late and repeated messages in overlapping pipelines | no commit passes a batch that is not stored or a poison message that is not dead-lettered; a device shows its latest message |
| Catalog folders (`src/modules/catalog`) | `catalog.folders`: `parent_id`, `path`, `level`, `feature_count`; `features.folder_id` | create, update (rename, move), delete, assign, remove | no transactions: path, level and parent are three accounts of one tree; cycle checks on stale reads; half-done moves and deletions | a tree; path and level match it; counts match the features |
| Import and export (`src/modules/catalog`) | `import_jobs`, `geometry.features`, `feature_count` | parse a CSV or GeoJSON file, one transaction per import; export | quoting; overlapping imports; constraints that refuse the job row; lost acknowledgements | every row accounted for; all or nothing, and the answer says which; the count follows; an export parses back |
| Identity (`src/modules/identity`) | `identity.users`, `refresh_tokens` | register, login, refresh, logout, purge | refreshes of one session racing each other and its end; no transactions; a login that saves a stale row | one live token per session; an ended session stays ended; a suspended user stays out |
| Resilience (`libs/core/src/resilience`) | circuit state per process | execute, retry, request timeout | calls in flight while the state changes; a handler that goes on after its request timed out | opens after the threshold; recovers; every call ends |
| Platform | - | configuration, logging, errors, health, Prisma, Redis | - | wiring and I/O |

How they interact: Geometry writes a feature and an outbox row in one transaction; a relay
emits the row to the in-memory `EventEmitter` of *its own process*; the listeners there
(Versioning) run under the inbox; Versioning's revert writes Geometry's table directly and
without an event. Catalog writes `geometry.features.folder_id` and, when it imports, whole
features, without events. Identity and Tracking stand alone.

## Modules

| Module | Models | Uses |
|---|---|---|
| `EventDelivery` | what the outbox promises: every accepted event is settled once, delivered (after at least one copy) or buried | |
| `OutboxRelay` | outbox, dead letters, relays of several processes, producers, cleanup | implements `EventDelivery` |
| `Inbox` | `InboxService` with concurrent invocations | |
| `FeatureEditing` | one feature's row and events under several clients, whose requests may time out | |
| `FeatureHistory` | the composition: edits, at-least-once delivery, handlers under the inbox, versions, reverts, the version queries | extends `FeatureEditing`, instantiates `Inbox`; its hand-overs implement the safe contract of `EventDelivery` |
| `TrackingSessions` | sessions and their points, and the queries about them | |
| `LocationStream` | a partition of location messages, its consumer group, and the state store | |
| `CatalogFolders` | the tree of folders and the filing of features | |
| `FileParsers` | what the CSV and the GeoJSON parser make of a file, as operators | |
| `CatalogImport` | imports into a folder, and exports of it | extends `FileParsers` |
| `UserSessions` | accounts, logins and the refresh tokens of their sessions | |
| `Resilience` | the circuit breaker of a process and the retries of its callers | |
| `OutboxProofs` | theorems | of `OutboxRelay` (with `EventDelivery`) and of `Inbox` |
| `FeatureHistoryProofs` | theorems | of `FeatureEditing` and of `FeatureHistory` |
| `TrackingSessionsProofs`, `LocationStreamProofs`, `CatalogFoldersProofs`, `CatalogImportProofs`, `UserSessionsProofs`, `ResilienceProofs` | theorems | of the module of that name |
| `MC...` | symmetry sets and constants for TLC | |

### Correspondence with the code

*OutboxRelay.* `Poll` is the SELECT ... FOR UPDATE SKIP LOCKED at the head of `relayEvents`;
`EmitOk` and `EmitThrows` are one turn of its loop (the latter with `incrementRetry` or
`moveToDeadLetter`, whose effects are invisible until `Commit`); `Commit` is `markPublished`
and the end of `$transaction`. `LoseTx` is the server giving the transaction up (interactive
timeout, connection loss) while the loop runs on: its `emit`s still happen, its writes never
do. `isRelaying` is "a relay has at most one run". `Listening` are the processes whose module
graph has the consumers (the API, not the outbox worker), `publishers` records who marked an
event published. A producer's row gets its id when it is
inserted and becomes visible when its transaction commits (`PublishEvent`, `CommitProducer`),
so ids may commit out of order. Variables after "History" only record what happened.

*Inbox.* `Claim`/`Skip` are the two outcomes of INSERT ... ON CONFLICT DO NOTHING, `Release`
the DELETE after a throw, `Die` a process that dies (or whose claiming INSERT throws). The
class comment's other usage is modelled for the events in `Checked`.

*FeatureEditing.* `UpdateRead` ends at the `await` before the transaction of `save`;
`UpdateWrite` and `UpdateConflict` are its two outcomes. `seen` is what a client knows: the
version it sends as `expectedVersion`. Content is named by the commit that wrote it.
`RequestTimesOut` is the global `TimeoutInterceptor`: the client has its 408 and may read,
edit and retry, while the update it gave up waits in `late` for its UPDATE (`LateWrite`) or
an error nobody hears (`LateFails`). The other calls need no such action: a create or a
delete is one transaction here, and giving it up is the lost answer that `Answered` has. In
`TrackingSessions` and `CatalogFolders` calls have no client, so one that was given up is a
call like any other.

*FeatureHistory.* `HandOver` is the contract of `EventDelivery` at the listener: any
committed event, any order, up to `MaxCopies` copies. `Carries` and `Reads` are the payload
fields the producer writes and the consumer passes to NOT NULL columns. `RevertReadsTarget`,
`RevertReadsRow`, `RevertWrites` are the three database visits of a revert. `GetVersion`,
`DiffVersions`, `GetTimeline` and `ListVersions` are the queries, as operators on what is
recorded (the ORDER BY of a timeline is the `Rank` of a number); `HistoryReadsBack` is stated
through them. `shown` remembers which content the row had at which version.

*TrackingSessions.* `Begin` records the devices that ever had two calls in flight
together (`overlapped`); the properties named `...InTurn` are about the other devices and their
sessions, whatever happens to those meanwhile.

`ListSessions`, `GetSessionOverview` and `GetTrail` are the queries the promises are stated
through. `GetTrail` counts the points of a session: none is ever marked `is_filtered`.

*LocationStream.* `handler` chooses which of the two `eachBatch` functions the group runs;
nothing in the application decides. `Fetch` and `EndBatch` are KafkaJS as these functions use
it: a batch is some of what follows the first unresolved offset, and
`commitOffsetsIfNecessary` commits the resolved offset or does not. `TakeLocation` changes no
table, because `processMessageDatabase`, which it calls, is empty (`GivenToStub`). `Throw` is any error of
the handler with its work done or not, `Restart` a crash or rebalance: the group goes on at
its commit, or, having none, at the end of the log (`fromBeginning: false`). `skipped` records
the offsets such a start jumped over. A script of a pipeline is one step (`RunScript`), the
pipeline is not. Hashes and geo sets hold the offset of the message they show.

*FileParsers.* A CSV file is the table its author meant; `Line` writes it as lines with
quotes, and `ParseCsvRow` is the parser's loop over the characters of a line, folded with
`NextChar`. `RowFate` is one turn of the loop over rows, and `InOrder` what is left of a loop with
`continue`: the positions not skipped, in order. GeoJSON documents are a root and items.

*CatalogImport.* `InsertFeature`, `CountFeatures` and `RecordJob` are the statements of the
import's transaction, whose rows stay in `call` until `Commit`; `folder.lockedBy` is the row
lock that the UPDATE of the count takes. `database` is one of those the repository makes: by
the migrations up to the one written by hand (`HandWritten`: the features have `geometry` and
`folder_id`, `import_jobs_format_check` refuses the list of geometry types that the code writes
into `file_format`, a folder's jobs go with it), by those up to the regenerated one
(`Regenerated`: no such columns, the CHECK, jobs keep the folder) or from `schema.prisma`
(`FromSchema`: neither columns nor CHECK). The first two refuse every import, the last one
those that have a feature to store. `Assumed` has the columns, which the schema says are "managed via raw
SQL migrations", and not the CHECK: there imports can succeed. `UnfileFeatures` and
`DeleteFolder` are the first and the last statements of a folder's deletion, between which it
may end. Exported documents are among the files that can be uploaded.

*UserSessions.* One action per statement: `RefreshReads`, `RefreshChecksUser`,
`RefreshRevokes` and `IssueToken` are a refresh, `LoginReads`, `LoginSaves` and `IssueToken` a
login. A family is named by its first token. `expired` and `old` are the two dates that
`purgeExpired` compares. `Suspend` is an administrator's UPDATE, which the code reads but has
no call for. `contended`, `ended` and `closed` record which overlaps happened, so that each
property can name the overlap it excludes.

*CatalogFolders.* A path is the sequence of ids after `root`. Each writing statement is an
action (`CreateInserts`, `MoveSubtree`, `UpdateSaves`, `DeleteUnfiles`, `DeleteDescendant`,
`DeleteSelf`, `AssignFiles`, `AssignAdds`, `RemoveFeature`, `RemoveCounts`); `Allowed` is the
foreign key, the depth CHECK and the unique indexes, tested by the database with each
statement; a statement they refuse ends its call (`StatementRefused`). `Rebased` is
`updateSubtreePaths`: `replace` is exact because ids are unique and every path begins with
`root`. `Deleted` includes what ON DELETE SET NULL does to children and features. `selfMoved`
records whether the cycle check ever let a folder be its own new parent.

*Resilience.* `Admit` and `Reject` are `CircuitBreakerService.execute` up to `await fn()`,
`Succeed` and `Fail` the rest of it with the catch block of `RetryService.execute`
(`AfterError`), `Execute` and `Wake` the turns of the retry loop. `sinceFailure` is the age of
`lastFailureTime`, stopped at the first value beyond the timeout, and `failureCount` stops
one above the threshold: nothing in the code tells larger values apart. The breaker guards
nothing in the application yet; the library is modelled as it is offered. Two things its
documents say differently: a success in CLOSED does not reset the count, so the failures that
trip it need not be consecutive; and a call let through earlier that succeeds late closes an
open breaker without HALF_OPEN, which is why `AsDrawnInTurn` is about calls in turn.

## Runs

| Run | Module, configuration | Shows |
|---|---|---|
| `outbox` | `MCOutboxRelay`, `MCOutboxRelay.cfg` | an API replica, which listens, and the worker, which does not, three events of which the second may make `emit` throw, `MaxRetries` 1, batches of 2, one lost transaction or crash: conservation, no early dead letter, duplicates only after losses, nothing the replica publishes unheard; under fairness every committed event settles, and the relay implements `EventDelivery` with its fairness |
| `inbox_once` | `MCInbox`, `MCInbox.cfg` | three invocations, two `processOnce` events and one of the other usage, three copies each: handlers of one event apart, processed at most once, only processed events recorded |
| `history` | `MCFeatureHistory`, `MCHistory.cfg` | one client, one reverter, two handlers, four commits, two copies, one fault: what the version queries answer is what the feature was, the row agrees with its history, every claim left behind took a fault, and without one no creation is lost |
| `history_live` | same, `MCHistoryLive.cfg` | two clients, four commits, one update at a time that goes on after its request timed out, no faults, no reverts: optimistic locking, complete events; a creation that was handed over and an in-order deletion eventually get their version |
| `history_updates` | same, `MCHistoryUpdates.cfg` | **violated:** an update never gets its version |
| `revert_version` | same, `MCRevertVersion.cfg` | **violated:** a revert that read the row before an update takes the version back |
| `tracking` | `MCTrackingSessions`, `MCTracking.cfg` | three calls about two devices, overlapping and failing half-way: counters backed, acknowledged points stored; for a device whose own calls came in turn: all of the documents' promises |
| `stream` | `MCLocationStream`, `MCStream.cfg` | three messages of one device, good, poison or empty, with two timestamps, either consumer, two throws or restarts, two pipelines of two writers into two regions: no commit passes a batch that is not stored, or a poison message that is not dead-lettered; a device shows its latest message |
| `catalog` | `MCCatalogFolders`, `MCCatalog.cfg` | two callers, four folders, two names, one feature, five calls, one failure: level and path agree always; in turn, and without a folder made its own parent, paths follow parents and a recursive deletion takes its subtree; an assignment leaves the exact count |
| `import` | `MCCatalogImport`, `MCImport.cfg` | two imports of any of 62 files (commas, quotes, blank lines, missing columns and coordinates, features of three geometry types) into one folder of any of four databases, exports, renames, unfilings, deletions, failures, lost acknowledgements: rows accounted for, answers true, the count exact, exported documents parsed back |
| `sessions` | `MCUserSessions`, `MCSessions.cfg` | two calls in flight, three tokens, registration to purge, failures between any two statements: a rotated token is dead, a session has one live token, an ended session and a suspended user stay so, each but for the overlap the property names |
| `resilience` | `MCResilience`, `MCResilience.cfg` | three callers (one with a fallback, one with a `retryOn`), threshold 2, two retries, timeout 1 tick, a dependency that comes and goes: the breaker's fields agree, calls in turn follow the documented arrows; under fairness every call ends and a dependency that stays up is used again |

The violated runs are the findings of `PROJECT.json`, each with the sentence of the
repository it contradicts. A violated safety property also marks where the passing runs are
restricted, and nowhere else:

- `history` has one reverter: with two between their read of the row and their write
  (`~RevertsInTurn`), the one that read first can record a snapshot under a number the row then
  has with other content. Any number of reverters is fine as long as those spans do not meet.
  With reverts in flight `VersionNeverDecreases` and `NoOverwriteUnseen` fail, so
  `history_live` has none.
- The `...InTurn` properties of `tracking` fail for overlapping calls about one device: two
  starts both find no active session, a batch is stored after the session ended, the slower of
  two batches writes the older time.
- `PathsInTurn` and `DeletionTakesSubtree` fail for overlapping calls, after calls that end
  half-way, and once a folder was made its own parent: a folder's descendants do not include
  the folder itself, so the code accepts that move, in turn as well. `InOrder` excludes
  behaviours with any of the three. It looks back over the behaviour because the damage does
  not stay where it was done: a later move copies the wrong path to other folders, and mends
  neither.
- `PublishedWasHeard` leaves out what a process without listeners published.
- `CommittedIsSettled` leaves out the locations that the handler of single messages gives to
  its empty method, and offsets that a start without a commit skips.
- `LossesNeedFaults` allows one claim left behind for each fault. A copy is no remedy then: it
  is skipped while the first handler has the claim, and when that one fails afterwards the
  event is lost with both.
- `AssignedCountExact` is about uninterrupted assignments. Nothing of the kind holds for
  removals: `removeFeature` of the controller always *adds* one
  (`currentCount - (currentCount - 1)`).
- `OneLivePerSession` leaves out sessions that two refreshes used at once: both find the token
  live, both revoke it, and both issue a successor. `EndedSessionsStayEnded` leaves out a
  refresh in flight, which issues a token for the session just revoked.
  `SuspendedStaysOut` leaves out a login in flight, whose save writes the status it read.
- `AnswersTrue` leaves out the import whose COMMIT lost its acknowledgement: it answers
  "failed" and is stored.
- `CountMatchesRows` counts the rows imported, filed or not. A deletion of the folder unfiles
  its features first and may then be refused by its import jobs (ON DELETE RESTRICT) or fail,
  which leaves a folder that counts features it no longer has.
- `ExportParsesBack` ends with the parser. The import of an exported document is refused like
  any other: for its columns or its job's format in the databases the repository makes, and in
  any other when its geometry types are longer than `file_format`, VARCHAR(20), as those of a
  folder with a point, a line and a polygon are.
- `CsvRowsAccounted` is about files with a latitude and a longitude column. With a WKT column
  or a latitude alone the parser accepts the file and drops its rows without an error.

### Disagreements without a run of their own

Three more properties are stated in the modules and do not hold; each fails in a run's
configuration when it is added there.

- `EveryPublishedHeard` (`OutboxRelay`): as INVARIANT of `MCOutboxRelay.cfg`, after five steps. The
  worker imports `OutboxModule` and no consumer, so it marks published what nobody heard,
  although `outbox-worker.ts:9` says that the relay "emits them to consumers". What can be said
  of such a deployment is `PublishedWasHeard`.
- `EndedStaysEnded` (`TrackingSessions`): as PROPERTY of `MCTracking.cfg`, after seven steps. A
  batch that read the session before it ended saves it back to active, although
  `tracking-session.entity.ts:66` treats an ended session as final.
- `NoCycles` (`CatalogFolders`): as INVARIANT of `MCCatalog.cfg`, after six steps of one caller: a
  creation, and a move of the folder into itself, which the cycle check lets pass, although
  `docs/02-architecture-domain-design.md:755` promises "cycle detection on moves". Without such
  a move two that check before either saves put two folders into each other.

And one that no property is needed to see: `tracking.consumer.ts:29` speaks of
"high-reliability scenarios", but the method that should store a message (`:81`) is empty, so
under this handler every location is committed and none is stored or dead-lettered.

### Bounds, and why they are enough

Every bound is a constant in a guard and named in the module. Two relays are enough for
every race the outbox can have: a relay interacts with the others through row locks, which
are symmetric and pairwise. Three events with batches of two give a full batch, a rest, and
an event claimed while its neighbours are settled; one retry distinguishes the first failure
from the last. The inbox's races are between two invocations of one event; the third one is
there to disturb both. Four commits of a feature allow create, update, update, delete with
a revert in between; two copies are the least duplication. Three tracking calls are two
overwriting each other and a third between them, about the same device or another; two
devices are one in turn beside one that is not. Four folders are the least in which a move
has to take a grandchild along (from under a parent to the root), and five calls build that
tree and move it. Three messages are a poison one between two others, with two times the
latest of them may be in front; two pipelines are the least that interleave. Three tokens are
a login and two refreshes, or two sessions; two calls are every race of the identity module,
which has no lock that a third could wait for. Two imports overlap in one folder, with at most
two further changes. The files of `import` have up to two rows, and cells that are empty or
hold quotes, a comma between quotes or a space. A second update given up by its client
(`MaxLate` 2) adds only a loser of the same race. Symmetry is used for identities the modules
treat alike, and only in runs without liveness properties.

### Fairness

`OutboxRelay`: weak fairness of each relay's next step: the scheduler calls `relayEvents`
every second in every process, and a run that began is never left waiting, each of its steps
being synchronous code or a statement that returns or fails. Nothing is assumed of producers,
cleanup or losses. `FeatureHistory`: weak fairness of each handler's next statement, which is a
statement that returns or fails. Nothing is assumed of clients, reverters or hand-overs: that
an event reaches a listener is a premise of `CreationRecorded` and `UpdatesRecorded` (and
`DeletionRecordedInOrder` begins where a handler is about to claim one), because the worker
may publish it where nobody listens. With one fault (`MaxFaults` 1 in `MCHistoryLive.cfg`)
`CreationRecorded` fails, because `emit` returned and the event was published before its
handler failed (`outbox-relay.service.ts:73`), although `inbox.service.ts:88` releases the claim
"so the event can be retried". `Resilience`: time passes, timers fire and every `fn` settles (the
statements and requests the library wraps have timeouts of their own); nothing is assumed of
callers or of the dependency.

No fairness is assumed in the other modules, whose properties are all safety.

Deadlock is checked for the outbox, where polling never stops, and for the resilience
library. The other systems may stop
(all bounded calls done), so their configurations say `CHECK_DEADLOCK FALSE`.

## Proofs

TLAPS checks, for all values of the constants that satisfy the modules' named assumptions:

- **`OutboxProofs`**, the relay: type correctness; `EventsConserved` and, beside the
  runs, `ClaimsExclusive` (no two relays hold one event, on which `DuplicatesNeedLosses` rests),
  from the joint invariant `Books`, whose third part `RowsHeld` says which rows exist where (a
  published row is in the outbox, an uncommitted row is not accepted, a batch is of accepted
  rows): without it neither survives a `Commit`. `DuplicatesNeedLosses` from `CopiesBooked`
  (each copy is accounted for by a publication done or about to be committed, or by a loss),
  `DeadLetterAfterRetries` from `RetriesBooked` (each retry on a row answers a throw),
  `PublishedWasHeard` from `SentWasHeard` (what a listening process emitted was heard) in any
  deployment, `SettledForGood`, and that every step is a
  step of `EventDelivery` or a stutter (`KeepsSafeContract`). The inbox: type correctness;
  `HandlersApart`, `CompletedOnce` and `ClaimsKept` from `ClaimsBooked` (an owner has its
  event claimed; a completed event is claimed and has no owner); `RecordedWasProcessed` from
  `MarksEarned`.
- **`FeatureHistoryProofs`**, editing alone (`EditSpec`): type correctness;
  `NoOverwriteUnseen`, `VersionNeverDecreases`, `VersionNamesContent`, `DeletionIsFinal` and
  `EventsTellVersions`, from `VersionCountsCommits` (without reverts a row's version counts its
  commits, so equal versions are equal states) and `ClientsLagBehind` (a client's pending
  update is one ahead of what it last saw, one it gave up at most one ahead).
- **`FeatureHistoryProofs`**, with deliveries and reverts (`HistorySpec`), where that no
  longer holds as a whole: `HistoryReadsBack` for any number of reverts in flight,
  from `HistoryInv`. An event tells what the row showed (`EventsTrue`), so a snapshot of it
  does (`VersionsTrue`), and a snapshot of a revert is of a version that did; the unique index
  makes a number one snapshot, whoever wrote it. `RowMatchesHistory` needs more, and more is
  true only of one revert at a time: `HistoryBehindRow` says that the history never runs
  ahead of the row, so the number a revert took is still free of snapshots when it
  writes. `RowAgreesInTurn` takes only what that needs: of any number of reverters, no two are
  between their read of the row and their write (`RevertsInTurn`); without it the invariant
  fails (see the runs). `RowAgreesWithHistory` is its corollary for one reverter, the instance
  of `history`. `HistoryImplementsEditing`: without reverters every behaviour of the composition is
  one of `FeatureEditing`, which carries the five theorems above over to it; and with reverts
  and faults every behaviour is one of `Inbox` (`HistoryImplementsInbox`), which does the same
  for the theorems about `processOnce`. `HistoryImplementsDelivery`: what the composition does
  with the events of the features API is what `EventDelivery` promises of any of them: an
  event is accepted in the transaction of its edit, handed over only afterwards, and is
  handled (its `process` returned) only after a hand-over. The relay and the composition so
  meet in one contract: `KeepsSafeContract` from the side that delivers, this theorem from the
  side that receives. No event is buried here: that a listener's failures do not reach the
  relay is the finding noted under *Fairness*.
  `LossesNeedFaults`, from `LossInv`: claims and hand-overs are of committed events
  (`ClaimsCommitted`), and from its hand-over a creation is claimed, about to be claimed by a handler, or recorded,
  as long as no handler failed (`CreationUnderWay`).
  `NoUpdateRecorded` generalises a finding: in no instance is a version of kind `updated` ever
  written, because the payload of `FeatureUpdated` lacks a field that the consumer requires.
- **`TrackingSessionsProofs`**: type correctness, and for calls in any order
  `TotalsBackedByPoints`, from `EntitiesBacked` (the entities in memory are covered too), and
  `AcceptedPointsStored`, from `AnswersCovered`: the points acknowledged and those stored but
  not yet acknowledged, counted one by one over all batches in flight, are never more than the
  table holds. For a device whose calls came in turn, whatever overlaps and fails elsewhere,
  `OneActiveInTurn`, `TotalsExactInTurn`, `EndIsFinalInTurn` and `ClockMovesOnInTurn`, from
  `TurnInv`: of the calls about such a device at most one is in flight, and what it read of its
  session or its device still holds (`Undisturbed`, `StillTrue`). That other devices cannot
  disturb it is a lemma of its own: a step is about one device (`About`, `StepAbout`), because a
  call in flight carries the device of its session and a row never changes its device
  (`DevicesKept`), so it leaves the rows, points and calls of all others (`OtherDevices`).
- **`LocationStreamProofs`**: `CommittedIsSettled` and `LatestKept`, from `StreamInv`, for any
  log, batches, faults and pipelines. The consumer's part is that everything below the first
  unresolved offset is settled or was given to the empty method, whatever the batch in hand
  (`ConsumerBooks`); the state store's is that pipelines carry messages of the log
  (`PipelinesCarry`), of which a script keeps the later one. The two share only the log, which
  grows.
- **`CatalogFoldersProofs`**: type correctness, which includes that no level goes below 0 or
  beyond `MaxDepth`, and `LevelCountsPath`, for calls in any order. The invariant `IInv` says of
  the rows *in memory* what it says of the table, and of a move that it shifts levels by as
  much as it lengthens paths; `RebasedPath` is the lemma on sequences behind
  `updateSubtreePaths`. Moves of a folder into itself, failures and refused statements are
  covered.
  For calls in turn: `AssignedCountExact`, from `CountTrue` (the count a call read is
  the folder's until it adds to it); `PathsInTurn` and `DeletionTakesSubtree`, from
  `FoldersInTurn`: paths match parents but for what the one call in flight is about to save
  (`WriteTrue`) or to delete (`DeleteTrue`). Their lemmas are about trees of any size: moving
  a subtree and saving its top leaves consistent paths (`MovedConsistent`), what is below a
  folder is below its parent (`BelowParent`), and a folder without children has no descendants
  (`NoDescendants`, by its shortest counterexample). `TreeInTurn` says what follows for
  `NoCycles`, which fails only with an overlap, a call that ended half-way or a self-move:
  where paths follow parents there is no cycle. These three are theorems of the specification
  without hypotheses; what they exclude is in the properties (`InOrder`), as in the run.
- **`CatalogImportProofs`**: `AnswersTrue` and `CountMatchesRows`, from `ImportInv`, whatever
  the parsers make of a file: every import has a number of its own, a transaction's rows bear
  it, none of an import in flight is in a row, an answer or a job, and who has updated the
  folder's count holds its lock with as many rows in hand as were counted.
  `ExportParsesBack`, from `ExportInv`: a feature that came out of either parser has a name and
  a geometry and keeps them through transaction, table and export, so the parser takes every
  item of the document back, in order and unchanged (`ParsesBack`).
  `CsvRowsAccounted`, from the same invariant (what is uploaded is a file) and from what the
  parser makes of any file: `LineReadsBack` walks the scanner along the pieces of a line
  (`Layout`: where each stands in it), in and out of quotes (`ReadsPlain`, `ReadsBody`), and
  finds each cell as it was written; `LinesReadBack` adds that a line is dropped exactly when
  its row is blank; `InOrderAt`, that a row comes as many places down the features, or down
  the errors, as rows of its fate precede it. The folds of the scanner are recursive
  functions, unfolded one position at a time, and the inductions run over positions of a text
  by the least one that fails (`UpTo`).
  Assumed of the constants: a file's items and cells are of the kinds `IsFile` lists, and
  nobody renames a feature to no name at all (`name` is NOT NULL).
- **`UserSessionsProofs`**: all four properties of the `sessions` run, from `SessionInv`. Its
  parts say what a call in flight may still rely on: `RevokedFirst` (the token to be replaced
  is dead before its successor exists), `RefreshedAlone` (the only live token of an
  uncontended session is the one its refresh holds), `EndedAlone` and `ClosedAlone` (no call
  that could undo an end is under way), and `IdsInOrder`.
- **`ResilienceProofs`**: type correctness, `TrippedExactly` and `AsDrawnInTurn`, from `IInv`:
  with them, a sleeping call has an attempt left (`SleepersRetry`), and as long as no two
  calls overlapped at most one is in flight, none of them while the breaker is open
  (`InTurn`). No bound on callers, thresholds, retries or delays.

Each inductive invariant stands at the end of its module or at the head of its proofs, and
was checked with TLC on the instance of the module's run before it was proved.

Only model-checked:

- everything under fairness (`EveryEventSettles`, the fair half of `KeepsContract`,
  `CreationRecorded`, `DeletionRecordedInOrder`, `EveryCallEnds`, `RecoversWhenUp`), which
  needs ENABLED, beyond the prover's backends;
- the two violated properties, which are counterexamples.

Every other property of a passing run is a theorem, some under a hypothesis that the run
satisfies too: `RowMatchesHistory` (`RevertsInTurn`) and the properties of `history_live`,
proved of `EditSpec`, which `HistoryImplementsEditing` makes the same where nothing is
reverted.

## Not modelled

- **Migrations.** `20260511092316` drops `geometry`, `snapshot_geometry` and `folder_id`
  columns and sorts before `XXX_add_catalog_schema`, which creates the catalog. That the two
  cannot both be run in that order is not modelled; `CatalogFolders` takes the tables of the
  latter, `CatalogImport` either, as the code's queries use them.
- **`LocationCacheService`** (`tracking/infrastructure/circuit-breaker.service.ts`): it reads
  keys `loc:<id>` that nothing writes (the state store writes `device:<id>`), through a
  library's breaker. That a device which expires or changes its region stays in the old
  region's geo set is in `LocationStream`, and no property forbids it.
- **`getLocations`** of the tracking queries: a SELECT. It filters the 5min and 1hr aggregates
  by a column `time` that they do not have (`tracking-queries.service.ts:29`), so such a query
  with `from` or `to` fails; there is nothing in it to explore.
- **Geometry's spatial and list queries**: SQL that PostGIS evaluates, with no state of its own.
- **Platform, guards, DTOs**: wiring, stateless checks of one request, declarations.
- **The metrics and diff columns of versions**, and the filters by time of their queries.
- A folder deletion that stops on a name conflict is modelled, but no property demands that
  it succeed: deleting a descendant sets its children's parent to NULL, and a root folder of
  the same name then forbids it, so a tree such as `a/b/a` cannot be deleted recursively when
  `b` comes before the inner `a`.

## Plan

`CatalogFolders`: which of the in-turn promises survive calls that overlap in different parts
of the tree. Two moves of disjoint subtrees can still meet under a common target, and a
deletion lists its descendants before it deletes any, so the condition is about the folders
that each call in flight has read and not only about those it was called with.
