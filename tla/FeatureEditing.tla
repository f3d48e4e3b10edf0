--------------------------- MODULE FeatureEditing ---------------------------
(***************************************************************************)
(* The write side of the Geometry module: the life of one feature under    *)
(* the calls of several clients.  A client sees the feature, works on what *)
(* it saw and calls update or delete with the version it saw.              *)
(*                                                                         *)
(* Interleaving: UpdateFeatureUseCase reads the row, awaits, and writes in *)
(* a transaction later; create and delete are one transaction each (delete *)
(* locks the row it checks).  A transaction commits the row and its outbox *)
(* event together, so each is one step here.  A call may fail anywhere,    *)
(* and its answer may be lost after it took effect.  TimeoutInterceptor    *)
(* answers a slow request with an error and leaves its handler running:    *)
(* the client may go on while the update it gave up is still under way.    *)
(*                                                                         *)
(* Content (name, geometry, properties, ...) is the number of the commit   *)
(* that wrote it.  Calls refused before they write (not found, a conflict  *)
(* with expectedVersion, an invalid body) change nothing and are left out. *)
(***************************************************************************)
EXTENDS Integers, FiniteSets

CONSTANTS
  Clients,      (* callers of the features API                               *)
  MaxCommits,   (* bound: committed writes of the feature's row              *)
  MaxLate       (* bound: updates under way after their requests timed out   *)

ASSUME EditingAssumption == MaxCommits \in Nat /\ MaxLate \in Nat

VARIABLES
  row,          (* the row of geometry.features                              *)
  call,         (* where each client's call is                               *)
  late,         (* updates that go on after their request timed out          *)
  events        (* committed rows of the outbox                              *)

(* What a client knows, and history no action of the server reads. *)
VARIABLES
  seen,         (* the version a client last saw, and the commit it was at   *)
  commits       (* writes of the row so far                                  *)

editVars == <<row, call, late, events, seen, commits>>

NoCall == [pc |-> "idle", version |-> 0]
NoRow  == [state |-> "none", version |-> 0, content |-> 0]
Unseen == [version |-> 0, commit |-> 0]

EventTypes == {"FeatureCreated", "FeatureUpdated", "FeatureDeleted"}

(* The commit that wrote the event identifies it (its correlation id). *)
Event(type, version) ==
  [id |-> commits + 1, type |-> type, version |-> version, content |-> commits + 1]

(* One transaction: the row, its event, and one more commit of the row. *)
CommitRow(new, event) ==
  /\ commits < MaxCommits
  /\ row' = new
  /\ events' = events \cup {event}
  /\ commits' = commits + 1

(* The client learns the version of the row it wrote, or its answer is lost. *)
Answered(c) ==
  \/ seen' = [seen EXCEPT ![c] = [version |-> row'.version, commit |-> commits']]
  \/ seen' = seen

(* GET /features/:id *)
GetFeature(c) ==
  /\ call[c].pc = "idle"
  /\ row.state = "live"
  /\ seen' = [seen EXCEPT ![c] = [version |-> row.version, commit |-> commits]]
  /\ UNCHANGED <<row, call, late, events, commits>>

CreateFeature(c) ==
  /\ call[c].pc = "idle"
  /\ row.state = "none"
  /\ CommitRow([state |-> "live", version |-> 1, content |-> commits + 1],
               Event("FeatureCreated", 1))
  /\ Answered(c)
  /\ UNCHANGED <<call, late>>

Expected_Ignored(c) == seen[c].version > 0
Expected(c) == row.version = seen[c].version

(* findById, the check of expectedVersion, and incrementVersion on the       *)
(* entity in memory.                                                         *)
UpdateRead(c) ==
  /\ call[c].pc = "idle"
  /\ row.state = "live"
  /\ Expected(c)
  /\ call' = [call EXCEPT ![c] = [pc |-> "updating", version |-> row.version + 1]]
  /\ UNCHANGED <<row, late, events, seen, commits>>

(* WHERE current_version = new - 1 AND is_deleted = FALSE *)
StillCurrent_AnyVersion(version) == row.state = "live"
StillCurrent_DeletedToo(version) == row.version = version - 1
StillCurrent(version) == row.state = "live" /\ row.version = version - 1

CommitUpdate(version) ==
  /\ StillCurrent(version)
  /\ CommitRow([row EXCEPT !.version = version, !.content = commits + 1],
               Event("FeatureUpdated", version))

UpdateWrite(c) ==
  /\ call[c].pc = "updating"
  /\ CommitUpdate(call[c].version)
  /\ Answered(c)
  /\ call' = [call EXCEPT ![c] = NoCall]
  /\ UNCHANGED late

(* No row matched: ConflictError. *)
UpdateConflict(c) ==
  /\ call[c].pc = "updating"
  /\ ~StillCurrent(call[c].version)
  /\ call' = [call EXCEPT ![c] = NoCall]
  /\ UNCHANGED <<row, late, events, seen, commits>>

(* A geometry of another type, a failed statement, a crash of the process. *)
UpdateFails(c) ==
  /\ call[c].pc = "updating"
  /\ call' = [call EXCEPT ![c] = NoCall]
  /\ UNCHANGED <<row, late, events, seen, commits>>

(* 408 after 30 seconds; what the handler awaits is not cancelled. *)
RequestTimesOut(c) ==
  /\ call[c].pc = "updating"
  /\ Cardinality(late) < MaxLate
  /\ late' = late \cup {[client |-> c, version |-> call[c].version]}
  /\ call' = [call EXCEPT ![c] = NoCall]
  /\ UNCHANGED <<row, events, seen, commits>>

(* The handler gets to its UPDATE after all, or it ends in an error nobody hears. *)
LateWrite(w) ==
  /\ CommitUpdate(w.version)
  /\ late' = late \ {w}
  /\ UNCHANGED <<call, seen>>

LateFails(w) ==
  /\ late' = late \ {w}
  /\ UNCHANGED <<row, call, events, seen, commits>>

(* The event carries lastVersion; the row keeps its version and content. *)
DeleteFeature(c) ==
  /\ call[c].pc = "idle"
  /\ row.state = "live"
  /\ Expected(c)
  /\ CommitRow([row EXCEPT !.state = "deleted"], Event("FeatureDeleted", row.version))
  /\ UNCHANGED <<call, late, seen>>

------------------------------------------------------------------------------
EditInit ==
  /\ row = NoRow
  /\ call = [c \in Clients |-> NoCall]
  /\ late = {}
  /\ events = {}
  /\ seen = [c \in Clients |-> Unseen]
  /\ commits = 0

EditStep(c) ==
  \/ GetFeature(c) \/ CreateFeature(c)
  \/ UpdateRead(c) \/ UpdateWrite(c) \/ UpdateConflict(c) \/ UpdateFails(c)
  \/ RequestTimesOut(c)
  \/ \E w \in late : w.client = c /\ (LateWrite(w) \/ LateFails(w))
  \/ DeleteFeature(c)

EditNext == \E c \in Clients : EditStep(c)

EditSpec == EditInit /\ [][EditNext]_editVars

------------------------------------------------------------------------------
(* Every variable has its type. *)
EditTypeOK ==
  /\ row \in [state : {"none", "live", "deleted"}, version : Nat, content : Nat]
  /\ call \in [Clients -> [pc : {"idle", "updating"}, version : Nat]]
  /\ late \subseteq [client : Clients, version : Nat]
  /\ events \subseteq [id : Nat, type : EventTypes, version : Nat \ {0}, content : Nat]
  /\ seen \in [Clients -> [version : Nat, commit : Nat]]
  /\ commits \in Nat

(* "Optimistic locking to prevent overwrites": an update or a deletion that  *)
(* commits, however late after its own read, or after its client gave it up  *)
(* and read, wrote or tried again, replaces exactly the state that its       *)
(* client last saw.                                                          *)
NoOverwriteUnseen ==
  [][/\ \A c \in Clients : UpdateWrite(c) \/ DeleteFeature(c) => seen[c].commit = commits
     /\ \A w \in late : LateWrite(w) => seen[w.client].commit = commits]_editVars

(* "currentVersion is monotonically increasing, never decremented". *)
VersionNeverDecreases == [][row'.version >= row.version]_editVars

(* A version number names one content: no two calls that started from the    *)
(* same version both succeed.                                                *)
VersionNamesContent ==
  [][row'.content # row.content => row'.version # row.version]_editVars

(* A deleted feature is never written again, by no call still in flight. *)
DeletionIsFinal == [][row.state = "deleted" => row' = row]_editVars

(* The outbox tells the whole story: the events of a feature, in the order of *)
(* their commits, carry the versions 1, 2, 3, ... without a gap or a repeat, *)
(* and a deletion comes last, with the version it deleted.                   *)
EventsTellVersions ==
  /\ {e.id : e \in events} = 1..commits
  /\ \A e \in events :
       e.version = IF e.type = "FeatureDeleted" THEN e.id - 1 ELSE e.id
  /\ \A d, e \in events : d.type = "FeatureDeleted" => e.id <= d.id
  /\ \A e \in events : e.type = "FeatureCreated" <=> e.id = 1

(***************************************************************************)
(* What makes these inductive: the row counts its own commits, so the      *)
(* version a client saw determines the commit it saw.                      *)
(***************************************************************************)
VersionCountsCommits ==
  /\ row.state = "none" => row = NoRow /\ commits = 0
  /\ row.state = "live" => row.version = commits /\ commits > 0
  /\ row.state = "deleted" => row.version + 1 = commits /\ commits > 1

ClientsLagBehind ==
  /\ \A c \in Clients : seen[c].commit = seen[c].version /\ seen[c].version <= commits
  /\ \A c \in Clients : call[c].pc = "updating" =>
       call[c].version = seen[c].version + 1
  /\ \A w \in late : w.version <= seen[w.client].version + 1

EditInv == EditTypeOK /\ VersionCountsCommits /\ ClientsLagBehind
==============================================================================
