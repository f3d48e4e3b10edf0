---------------------------- MODULE FeatureHistory ----------------------------
(***************************************************************************)
(* One feature and its version history across three modules of GeoTrack:   *)
(* Geometry writes the row and its events (FeatureEditing), the outbox     *)
(* hands committed events to the handlers at least once and in any order   *)
(* (the contract of EventDelivery), and Versioning records a snapshot per  *)
(* event, each handler under processOnce (Inbox), and reverts the feature  *)
(* to a recorded snapshot.                                                 *)
(*                                                                         *)
(* Interleaving: each statement outside a transaction is a step.  A revert *)
(* reads the target and the row before the transaction that writes both    *)
(* tables.  Faults (a statement or its answer lost, a process dying in a   *)
(* handler) are bounded by MaxFaults.                                      *)
(*                                                                         *)
(* Left out: authors, messages, the metrics columns and the diff.          *)
(***************************************************************************)
EXTENDS FeatureEditing, Sequences

CONSTANTS
  Handlers,     (* handler invocations in flight                             *)
  MaxCopies,    (* bound: copies the outbox hands over of an event           *)
  Reverters,    (* callers of the revert API                                 *)
  MaxFaults     (* bound: faults of handlers                                 *)

ASSUME HistoryAssumption == MaxCopies \in Nat \ {0} /\ MaxFaults \in Nat

VARIABLES
  inbox, handler, handed, completed,    (* of Inbox                          *)
  versions,     (* rows of versioning.versions                               *)
  revert,       (* where each revert call is                                 *)
  faults,       (* faults so far                                             *)
  shown         (* history: the version and content the row has had          *)

INSTANCE Inbox WITH Checked <- {}, Events <- 1..MaxCommits, NoEvent <- 0

deliveryVars == <<inbox, handler, handed, completed>>
historyVars == <<editVars, deliveryVars, versions, revert, faults, shown>>

NoRevert == [pc |-> "idle", target |-> 0, version |-> 0]

------------------------------------------------------------------------------
(* The payload fields that PrismaFeatureRepository writes with an event ...  *)
Carries_NoName(type) ==
  CASE type = "FeatureCreated" -> {"geometry", "createdBy"}
    [] type = "FeatureUpdated" -> {"newVersion", "geometry", "updatedBy"}
    [] type = "FeatureDeleted" -> {"lastVersion", "deletedBy"}
Carries(type) ==
  CASE type = "FeatureCreated" -> {"name", "geometry", "createdBy"}
    [] type = "FeatureUpdated" -> {"newVersion", "geometry", "updatedBy"}
    [] type = "FeatureDeleted" -> {"lastVersion", "deletedBy"}

(* ... and those that VersioningConsumer passes to columns that are NOT NULL *)
(* (properties has a default).                                               *)
Reads(type) ==
  CASE type = "FeatureCreated" -> {"name", "createdBy"}
    [] type = "FeatureUpdated" -> {"versionNumber", "name", "updatedBy"}
    [] type = "FeatureDeleted" -> {"lastVersion", "deletedBy"}

Version(number, kind, content) == [number |-> number, kind |-> kind, content |-> content]

Recorded(number) == \E v \in versions : v.number = number

(* The rows that the INSERT of an event's handler adds; for a deletion it    *)
(* copies the row of the last version, and adds none if there is none.       *)
Inserted_DeletionInPlace(e) ==
  CASE e.type = "FeatureCreated" -> {Version(1, "created", e.content)}
    [] e.type = "FeatureUpdated" -> {Version(e.version, "updated", e.content)}
    [] e.type = "FeatureDeleted" -> {Version(v.number, "deleted", v.content) :
                                       v \in {w \in versions : w.number = e.version}}
Inserted_LatestContent(e) ==
  CASE e.type = "FeatureCreated" -> {Version(1, "created", row.content)}
    [] e.type = "FeatureUpdated" -> {Version(e.version, "updated", row.content)}
    [] e.type = "FeatureDeleted" -> {Version(v.number + 1, "deleted", v.content) :
                                       v \in {w \in versions : w.number = e.version}}
Inserted(e) ==
  CASE e.type = "FeatureCreated" -> {Version(1, "created", e.content)}
    [] e.type = "FeatureUpdated" -> {Version(e.version, "updated", e.content)}
    [] e.type = "FeatureDeleted" -> {Version(v.number + 1, "deleted", v.content) :
                                       v \in {w \in versions : w.number = e.version}}

(* NOT NULL, and UNIQUE (feature_id, version_number). *)
Violates(e) ==
  \/ ~(Reads(e.type) \subseteq Carries(e.type))
  \/ \E v \in Inserted(e) : Recorded(v.number)

EventOf(h) == CHOOSE e \in events : e.id = handler[h].event

------------------------------------------------------------------------------
(* The outbox hands a committed event to a listener. *)
HandOver(h, e) ==
  /\ e \in {f.id : f \in events}
  /\ Deliver(h, e)
  /\ UNCHANGED <<editVars, versions, revert, faults, shown>>

ClaimOrSkip(h) ==
  /\ Claim(h) \/ Skip(h)
  /\ UNCHANGED <<editVars, versions, revert, faults, shown>>

RecordVersion(h) ==
  /\ At(h, "working")
  /\ ~Violates(EventOf(h))
  /\ versions' = versions \cup Inserted(EventOf(h))
  /\ Succeed(h)
  /\ UNCHANGED <<editVars, revert, faults, shown>>

RecordViolates(h) ==
  /\ At(h, "working")
  /\ Violates(EventOf(h))
  /\ Throw(h)
  /\ UNCHANGED <<editVars, versions, revert, faults, shown>>

ReleaseClaim(h) ==
  /\ Release(h)
  /\ UNCHANGED <<editVars, versions, revert, faults, shown>>

Fault == faults < MaxFaults /\ faults' = faults + 1

(* The INSERT fails, or it commits and its answer is lost. *)
RecordFails(h) ==
  /\ Fault
  /\ Throw(h)
  /\ \/ versions' = versions
     \/ ~Violates(EventOf(h)) /\ versions' = versions \cup Inserted(EventOf(h))
  /\ UNCHANGED <<editVars, revert, shown>>

HandlerDies(h) ==
  /\ Fault
  /\ ReleaseFails(h) \/ Die(h)
  /\ UNCHANGED <<editVars, versions, revert, shown>>

------------------------------------------------------------------------------
(* A call of the features API, and what the row shows after it. *)
Edit(c) ==
  /\ EditStep(c)
  /\ shown' = shown \cup {<<row'.version, row'.content>>}
  /\ UNCHANGED <<deliveryVars, versions, revert, faults>>

(* getVersion finds the target. *)
Targets == versions

RevertReadsTarget(r) ==
  /\ revert[r].pc = "idle"
  /\ \E v \in Targets :
       revert' = [revert EXCEPT ![r] = [pc |-> "targeted", target |-> v.number, version |-> 0]]
  /\ UNCHANGED <<editVars, deliveryVars, versions, faults, shown>>

(* SELECT current_version ... AND is_deleted = FALSE; otherwise not found. *)
RevertReadsRow(r) ==
  /\ revert[r].pc = "targeted"
  /\ revert' = IF row.state = "live"
               THEN [revert EXCEPT ![r].pc = "writing", ![r].version = row.version + 1]
               ELSE [revert EXCEPT ![r] = NoRevert]
  /\ UNCHANGED <<editVars, deliveryVars, versions, faults, shown>>

Target(r) == CHOOSE v \in versions : v.number = revert[r].target

RevertedRow_OtherContent(r) == {Version(revert[r].version, "revert", row.content)}
RevertedRow(r) == {Version(revert[r].version, "revert", Target(r).content)}

(* executeRevertTransaction: UPDATE features ... WHERE id, and the new row;  *)
(* no event.                                                                 *)
RevertWrites(r) ==
  /\ revert[r].pc = "writing"
  /\ ~Recorded(revert[r].version)
  /\ commits < MaxCommits
  /\ commits' = commits + 1
  /\ row' = [row EXCEPT !.version = revert[r].version, !.content = Target(r).content]
  /\ versions' = versions \cup RevertedRow(r)
  /\ shown' = shown \cup {<<row'.version, row'.content>>}
  /\ revert' = [revert EXCEPT ![r] = NoRevert]
  /\ UNCHANGED <<call, late, events, seen, deliveryVars, faults>>

(* The version number is taken (the transaction rolls back), or a statement  *)
(* fails.                                                                    *)
RevertFails(r) ==
  /\ revert[r].pc # "idle"
  /\ revert' = [revert EXCEPT ![r] = NoRevert]
  /\ UNCHANGED <<editVars, deliveryVars, versions, faults, shown>>

------------------------------------------------------------------------------
(* What the queries answer; authors and times are left out, so are the filters *)
(* by time.                                                                    *)
GetVersion(n) == CHOOSE v \in versions : v.number = n

DiffVersions(n, m) == [from |-> GetVersion(n).content, to |-> GetVersion(m).content]

(* ORDER BY version_number ASC: the k-th row is the one with k rows up to it. *)
Rank(v) == Cardinality({w \in versions : w.number <= v.number})
GetTimeline == [k \in 1..Cardinality(versions) |-> CHOOSE v \in versions : Rank(v) = k]

(* hasMore: versions.length === limit *)
HasMore(data, limit) == Len(data) = limit

(* ORDER BY version_number DESC LIMIT *)
ListVersions(limit) ==
  LET oldest == GetTimeline
      newest == [k \in DOMAIN oldest |-> oldest[Len(oldest) + 1 - k]]
      data == IF Len(newest) > limit THEN SubSeq(newest, 1, limit) ELSE newest
  IN [data |-> data, hasMore |-> HasMore(data, limit)]

------------------------------------------------------------------------------
HistoryInit ==
  /\ EditInit
  /\ InboxInit
  /\ versions = {}
  /\ revert = [r \in Reverters |-> NoRevert]
  /\ faults = 0
  /\ shown = {}

HandlerStep(h) ==
  ClaimOrSkip(h) \/ RecordVersion(h) \/ RecordViolates(h) \/ ReleaseClaim(h)

HistoryNext ==
  \/ \E c \in Clients : Edit(c)
  \/ \E h \in Handlers :
       \/ \E e \in 1..MaxCommits : HandOver(h, e)
       \/ HandlerStep(h) \/ RecordFails(h) \/ HandlerDies(h)
  \/ \E r \in Reverters :
       RevertReadsTarget(r) \/ RevertReadsRow(r) \/ RevertWrites(r) \/ RevertFails(r)

HistorySpec == HistoryInit /\ [][HistoryNext]_historyVars

(* A handler that runs goes on to its next statement.  That an event is ever  *)
(* handed over is not assumed: a relay of the outbox worker marks events       *)
(* published with nobody listening, so the properties start at a hand-over.    *)
HistoryFairness == \A h \in Handlers : WF_historyVars(HandlerStep(h))

FairHistorySpec == HistorySpec /\ HistoryFairness

------------------------------------------------------------------------------
(* Every variable of the composition has its type. *)
HistoryTypeOK ==
  /\ EditTypeOK
  /\ InboxTypeOK
  /\ versions \subseteq
       [number : Nat \ {0}, kind : {"created", "updated", "deleted", "revert"}, content : Nat]
  /\ revert \in [Reverters -> {NoRevert} \cup
       [pc : {"targeted", "writing"}, target : Nat \ {0}, version : Nat]]
  /\ \A r \in Reverters : revert[r].pc # "idle" => Recorded(revert[r].target)
  /\ faults \in 0..MaxFaults
  /\ shown \subseteq Nat \X Nat

(* What clients read of the history is true, whatever the order of events,     *)
(* duplicates, faults and reverts: both sides of a difference are what the      *)
(* feature really was at those versions (a deletion repeats the version before  *)
(* it), and a page of versions that tells of no more leaves none out.           *)
Was(v, content) ==
  <<IF v.kind = "deleted" THEN v.number - 1 ELSE v.number, content>> \in shown

DiffsTell ==
  \A v, w \in versions :
    LET diff == DiffVersions(v.number, w.number)
    IN Was(v, diff.from) /\ Was(w, diff.to)

PagesTell ==
  \A limit \in 1..MaxCommits :
    LET page == ListVersions(limit)
    IN ~page.hasMore => versions \subseteq {page.data[k] : k \in DOMAIN page.data}

HistoryReadsBack == DiffsTell /\ PagesTell

(* The history agrees with the feature: if the row's current version is in   *)
(* the history, it is recorded with the row's current content.               *)
RowMatchesHistory ==
  \A v \in versions : v.number = row.version => v.content = row.content

Handling(e) == \E h \in Handlers : ~At(h, "idle") /\ handler[h].event = e

(* Claimed by nobody who is still at it, and not done: every later copy of   *)
(* the event will be skipped.                                                *)
Stranded ==
  {e \in inbox : completed[e] = 0 /\ \A h \in Handlers : Owns(h) => handler[h].event # e}

(* "We delete the inbox entry so the event can be retried": it takes a fault *)
(* for each claim that is left behind, and as long as there was none a       *)
(* creation that was handed over, however many copies race for it, is still  *)
(* being handled or has its version.                                         *)
LossesNeedFaults ==
  /\ Cardinality(Stranded) <= faults
  /\ faults = 0 =>
       \A e \in events :
         e.type = "FeatureCreated" /\ handed[e.id] > 0 /\ ~Handling(e.id) => Recorded(1)

(* Without faults, a creation that was handed over to a listener eventually  *)
(* has its version.                                                          *)
CreationRecorded ==
  (\E e \in events : e.type = "FeatureCreated" /\ handed[e.id] > 0) ~> Recorded(1)

(* "Updated (v2) -> Version 2 (snapshot)": an update that was handed over to *)
(* a listener eventually has its version.                                    *)
UpdatesRecorded ==
  \A n \in 1..MaxCommits :
    (\E e \in events : e.type = "FeatureUpdated" /\ e.version = n /\ handed[e.id] > 0)
      ~> Recorded(n)

(* A deletion that a handler is about to claim when the version it deletes   *)
(* is recorded eventually has its own record.                                *)
DeletionRecordedInOrder ==
  (\E e \in events, h \in Handlers :
     /\ e.type = "FeatureDeleted" /\ Recorded(e.version)
     /\ At(h, "arrived") /\ handler[h].event = e.id /\ Unclaimed(h))
    ~> \E v \in versions : v.kind = "deleted"

(***************************************************************************)
(* What makes these inductive.                                             *)
(***************************************************************************)
(* Nothing comes before the creation, and versions count from 1. *)
CreationFirst ==
  /\ row.state = "none" =>
       events = {} /\ versions = {} /\ \A r \in Reverters : revert[r].pc = "idle"
  /\ row.state # "none" => row.version > 0
  /\ \A r \in Reverters : revert[r].pc = "writing" => revert[r].version > 1

(* An event is named by its commit and tells what the row showed; there is   *)
(* one deletion, after which the row is never live again.                    *)
EventsTrue ==
  /\ \A e \in events : e.id \in 1..commits
  /\ \A d, e \in events : d.id = e.id => d = e
  /\ \A e \in events :
       IF e.type = "FeatureDeleted" THEN row.state = "deleted"
       ELSE <<e.version, e.content>> \in shown
  /\ \A e \in events : e.type = "FeatureCreated" => e.version = 1
  /\ \A d, e \in events : d.type = "FeatureDeleted" /\ e.type = "FeatureDeleted" => d = e

(* Handlers are busy with events, and have completed events. *)
HandledCommitted ==
  /\ \A h \in Handlers : ~At(h, "idle") => \E e \in events : e.id = handler[h].event
  /\ \A n \in 1..MaxCommits : completed[n] > 0 => \E e \in events : e.id = n

(* A number names one snapshot, of what the feature was; a deletion's is the *)
(* number after the one it deleted.                                          *)
VersionsTrue ==
  /\ \A v, w \in versions : v.number = w.number => v = w
  /\ \A v \in versions : Was(v, v.content)
  /\ \A v \in versions : v.kind = "deleted" =>
       \E e \in events : e.type = "FeatureDeleted" /\ v.number = e.version + 1

HistoryInv ==
  HistoryTypeOK /\ CreationFirst /\ EventsTrue /\ HandledCommitted /\ VersionsTrue

(* A claim whose handler is gone was left by a fault; without any, a copy of  *)
(* the creation is on its way to the claim, or its claim to the version.      *)
CreationUnderWay ==
  faults = 0 /\ ~Recorded(1) =>
    \A e \in events : e.type = "FeatureCreated" =>
      /\ e.id \in 1..MaxCommits
      /\ e.id \in inbox =>
           \E h \in Handlers : At(h, "working") /\ handler[h].event = e.id
      /\ handed[e.id] > 0 =>
           \E h \in Handlers :
             (At(h, "arrived") \/ At(h, "working")) /\ handler[h].event = e.id

ClaimsCommitted ==
  \A n \in 1..MaxCommits : n \in inbox \/ handed[n] > 0 => \E e \in events : e.id = n

LossInv == Cardinality(Stranded) <= faults /\ ClaimsCommitted /\ CreationUnderWay

(* While no two reverts are between their read of the row and their write,   *)
(* the history never runs ahead of the row: a revert takes the next number,  *)
(* which no snapshot has until it writes; only a deletion is recorded beyond *)
(* the row's version, which it keeps.                                        *)
RevertsInTurn ==
  \A q, r \in Reverters : revert[q].pc = "writing" /\ revert[r].pc = "writing" => q = r

OneReverter == \A q, r \in Reverters : q = r

HistoryBehindRow ==
  /\ \A v \in versions :
       IF v.kind = "deleted" THEN v.number > row.version ELSE v.number <= row.version
  /\ \A r \in Reverters : revert[r].pc = "writing" =>
       /\ revert[r].version <= row.version + 1
       /\ \A v \in versions : v.kind # "deleted" => v.number < revert[r].version
  /\ \A e \in events : e.type = "FeatureDeleted" =>
       /\ row.version <= e.version \/ (row.version = e.version + 1 /\ Recorded(row.version))
       /\ \A r \in Reverters : revert[r].pc = "writing" => revert[r].version <= e.version + 1
  /\ row.version = 1 =>
       \A e \in events : e.type = "FeatureCreated" => e.content = row.content
==============================================================================
