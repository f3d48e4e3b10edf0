------------------------ MODULE FeatureHistoryProofs ------------------------
(***************************************************************************)
(* A feature and its history, for every set of clients, handlers and       *)
(* reverters and any number of commits, copies and faults.                 *)
(*                                                                         *)
(* Editing alone (EditSpec).  What optimistic locking guarantees.  The key *)
(* is VersionCountsCommits: as long as nothing else writes the row, its    *)
(* version is a count of its commits, so equal versions mean equal states. *)
(*                                                                         *)
(* With deliveries and reverts (HistorySpec).  Reverts take that away, and *)
(* what is left is what the snapshots say: HistoryInv for any number of    *)
(* reverts in flight, HistoryBehindRow for one at a time.                  *)
(***************************************************************************)
EXTENDS FeatureHistory, FiniteSetTheorems, SequenceTheorems, TLAPS

------------------------------------------------------------------------------
(* Editing alone. *)


(* What a committing call does to the row, its event list and the counter,   *)
(* and what its client may learn.                                            *)
LEMMA CreateCommits ==
  ASSUME EditInv, NEW c \in Clients, CreateFeature(c)
  PROVE  /\ row = NoRow /\ commits = 0 /\ commits' = 1
         /\ row' = [state |-> "live", version |-> 1, content |-> 1]
         /\ events' = events \cup {[id |-> 1, type |-> "FeatureCreated",
                                    version |-> 1, content |-> 1]}
         /\ \/ seen' = [seen EXCEPT ![c] = [version |-> 1, commit |-> 1]]
            \/ seen' = seen
         /\ call' = call /\ late' = late
BY DEF EditInv, VersionCountsCommits, CreateFeature, CommitRow, Answered, Event

LEMMA CommitUpdateCommits ==
  ASSUME EditInv, NEW version \in Nat, CommitUpdate(version)
  PROVE  /\ row.state = "live" /\ row.version = commits /\ commits > 0
         /\ version = commits + 1 /\ commits' = commits + 1
         /\ row' = [state |-> "live", version |-> commits + 1, content |-> commits + 1]
         /\ events' = events \cup {[id |-> commits + 1, type |-> "FeatureUpdated",
                                    version |-> commits + 1, content |-> commits + 1]}
<1>1. row.state = "live" /\ row.version = commits /\ commits > 0 /\ commits \in Nat
  BY DEF EditInv, EditTypeOK, VersionCountsCommits, CommitUpdate, StillCurrent
<1>2. version = commits + 1
  BY <1>1 DEF CommitUpdate, StillCurrent
<1>3. row \in [state : {"none", "live", "deleted"}, version : Nat, content : Nat]
  BY DEF EditInv, EditTypeOK
<1> QED
  BY <1>1, <1>2, <1>3 DEF CommitUpdate, CommitRow, Event

LEMMA UpdateCommits ==
  ASSUME EditInv, NEW c \in Clients, UpdateWrite(c)
  PROVE  /\ row.state = "live" /\ row.version = commits /\ commits > 0
         /\ commits' = commits + 1
         /\ row' = [state |-> "live", version |-> commits + 1, content |-> commits + 1]
         /\ events' = events \cup {[id |-> commits + 1, type |-> "FeatureUpdated",
                                    version |-> commits + 1, content |-> commits + 1]}
         /\ \/ seen' = [seen EXCEPT ![c] = [version |-> commits + 1, commit |-> commits + 1]]
            \/ seen' = seen
         /\ call' = [call EXCEPT ![c] = NoCall] /\ late' = late
         /\ seen[c].commit = commits
<1>1. call[c].version \in Nat /\ CommitUpdate(call[c].version)
  BY DEF EditInv, EditTypeOK, UpdateWrite
<1>2. seen[c] \in [version : Nat, commit : Nat]
  BY DEF EditInv, EditTypeOK
<1>3. call[c].version = seen[c].version + 1 /\ seen[c].commit = seen[c].version
  BY DEF EditInv, ClientsLagBehind, UpdateWrite
<1>4. commits \in Nat
  BY DEF EditInv, EditTypeOK
<1>5. seen[c].commit = commits
  BY <1>1, <1>2, <1>3, <1>4, CommitUpdateCommits
<1> QED
  BY <1>1, <1>5, CommitUpdateCommits DEF UpdateWrite, Answered

(* A late update finds the version it read only if its client, whatever it   *)
(* did meanwhile, has not seen a newer one.                                  *)
LEMMA LateCommits ==
  ASSUME EditInv, NEW w \in late, LateWrite(w)
  PROVE  /\ row.state = "live" /\ row.version = commits /\ commits > 0
         /\ commits' = commits + 1
         /\ row' = [state |-> "live", version |-> commits + 1, content |-> commits + 1]
         /\ events' = events \cup {[id |-> commits + 1, type |-> "FeatureUpdated",
                                    version |-> commits + 1, content |-> commits + 1]}
         /\ seen' = seen /\ call' = call /\ late' = late \ {w}
         /\ seen[w.client].commit = commits
<1>1. w.client \in Clients /\ w.version \in Nat /\ CommitUpdate(w.version) /\ commits \in Nat
  BY DEF EditInv, EditTypeOK, LateWrite
<1>2. seen[w.client] \in [version : Nat, commit : Nat]
  BY <1>1 DEF EditInv, EditTypeOK
<1>3. /\ w.version <= seen[w.client].version + 1
      /\ seen[w.client].commit = seen[w.client].version
      /\ seen[w.client].version <= commits
  BY <1>1 DEF EditInv, ClientsLagBehind
<1>4. seen[w.client].commit = commits
  BY <1>1, <1>2, <1>3, CommitUpdateCommits
<1> QED
  BY <1>1, <1>4, CommitUpdateCommits DEF LateWrite

LEMMA DeleteCommits ==
  ASSUME EditInv, NEW c \in Clients, DeleteFeature(c)
  PROVE  /\ row.state = "live" /\ row.version = commits /\ commits > 0
         /\ commits' = commits + 1
         /\ row' = [row EXCEPT !.state = "deleted"]
         /\ events' = events \cup {[id |-> commits + 1, type |-> "FeatureDeleted",
                                    version |-> commits, content |-> commits + 1]}
         /\ seen' = seen /\ call' = call /\ late' = late
         /\ seen[c].commit = commits
<1>1. row.state = "live" /\ row.version = commits /\ commits > 0
  BY DEF EditInv, VersionCountsCommits, DeleteFeature
<1>2. seen[c].commit = commits
  BY <1>1 DEF EditInv, ClientsLagBehind, DeleteFeature, Expected
<1> QED
  BY <1>1, <1>2 DEF DeleteFeature, CommitRow, Event

(* A client that learns of the newest commit, or of none, is not ahead. *)
LEMMA SeenStep ==
  ASSUME EditInv, commits' \in Nat, commits <= commits', NEW c \in Clients,
         \/ seen' = [seen EXCEPT ![c] = [version |-> commits', commit |-> commits']]
         \/ seen' = seen
  PROVE  \A d \in Clients : seen'[d].commit = seen'[d].version /\ seen'[d].version <= commits'
<1> SUFFICES ASSUME NEW d \in Clients
             PROVE  seen'[d].commit = seen'[d].version /\ seen'[d].version <= commits'
  OBVIOUS
<1>1. /\ seen \in [Clients -> [version : Nat, commit : Nat]] /\ commits \in Nat
      /\ seen[d].commit = seen[d].version /\ seen[d].version <= commits
  BY DEF EditInv, EditTypeOK, ClientsLagBehind
<1>2. seen[d].version \in Nat
  BY <1>1
<1>3. CASE seen' = seen
  BY <1>1, <1>2, <1>3
<1>4. CASE seen' = [seen EXCEPT ![c] = [version |-> commits', commit |-> commits']]
  <2>1. CASE d = c
    BY <1>1, <1>4, <2>1
  <2>2. CASE d # c
    BY <1>1, <1>2, <1>4, <2>2
  <2> QED
    BY <2>1, <2>2
<1> QED
  BY <1>3, <1>4

(* What a client may learn from a commit has the type of what it has seen. *)
LEMMA SeenType ==
  ASSUME EditTypeOK, NEW n \in Nat, NEW c \in Clients,
         \/ seen' = [seen EXCEPT ![c] = [version |-> n, commit |-> n]]
         \/ seen' = seen
  PROVE  seen' \in [Clients -> [version : Nat, commit : Nat]]
<1>1. [version |-> n, commit |-> n] \in [version : Nat, commit : Nat]
  OBVIOUS
<1> QED
  BY <1>1 DEF EditTypeOK

(* What clients learn leaves late updates behind as they were. *)
LEMMA LateStep ==
  ASSUME EditInv, late' \subseteq late, NEW n \in Nat, commits <= n, NEW c \in Clients,
         \/ seen' = [seen EXCEPT ![c] = [version |-> n, commit |-> n]]
         \/ seen' = seen
  PROVE  \A w \in late' : w.version <= seen'[w.client].version + 1
<1> SUFFICES ASSUME NEW w \in late'
             PROVE  w.version <= seen'[w.client].version + 1
  OBVIOUS
<1>1. /\ w.client \in Clients /\ w.version \in Nat /\ commits \in Nat
      /\ seen \in [Clients -> [version : Nat, commit : Nat]]
  BY DEF EditInv, EditTypeOK
<1>2. w.version <= seen[w.client].version + 1 /\ seen[w.client].version <= commits
  BY <1>1 DEF EditInv, ClientsLagBehind
<1>3. seen[w.client].version \in Nat
  BY <1>1
<1>4. CASE seen' = seen
  BY <1>2, <1>4
<1>5. CASE seen' = [seen EXCEPT ![c] = [version |-> n, commit |-> n]]
  <2>1. CASE w.client = c
    BY <1>1, <1>2, <1>3, <1>5, <2>1
  <2>2. CASE w.client # c
    BY <1>1, <1>2, <1>5, <2>2
  <2> QED
    BY <2>1, <2>2
<1> QED
  BY <1>4, <1>5

(* A call under way is not disturbed by what other clients learn. *)
LEMMA CallStep ==
  ASSUME EditInv, NEW c \in Clients, call'[c].pc = "idle",
         call' = call \/ call' = [call EXCEPT ![c] = NoCall],
         \A d \in Clients \ {c} : seen'[d] = seen[d]
  PROVE  \A d \in Clients : call'[d].pc = "updating" =>
           call'[d].version = seen'[d].version + 1
<1> SUFFICES ASSUME NEW d \in Clients, call'[d].pc = "updating"
             PROVE  call'[d].version = seen'[d].version + 1
  OBVIOUS
<1>1. d # c
  OBVIOUS
<1>2. call'[d] = call[d] /\ seen'[d] = seen[d]
  BY <1>1 DEF EditInv, EditTypeOK
<1> QED
  BY <1>2 DEF EditInv, ClientsLagBehind

(* The types, the count of the row and the clients' lag are inductive together. *)
LEMMA EditInvariant == EditSpec => []EditInv
<1>1. EditInit => EditInv
  BY DEF EditInit, EditInv, EditTypeOK, VersionCountsCommits, ClientsLagBehind,
         NoRow, NoCall, Unseen
<1>2. EditInv /\ [EditNext]_editVars => EditInv'
  <2> SUFFICES ASSUME EditInv, [EditNext]_editVars PROVE EditInv'
    OBVIOUS
  <2> USE DEF EditInv
  <2>1. ASSUME NEW c \in Clients, GetFeature(c) PROVE EditInv'
    <3>1. row.version = commits /\ commits \in Nat
      BY <2>1 DEF GetFeature, EditTypeOK, VersionCountsCommits
    <3>2. EditTypeOK' /\ VersionCountsCommits'
      BY <2>1, <3>1 DEF GetFeature, EditTypeOK, VersionCountsCommits
    <3>3. \A w \in late' : w.version <= seen'[w.client].version + 1
      <4>1. /\ seen' = [seen EXCEPT ![c] = [version |-> commits, commit |-> commits]]
            /\ late' \subseteq late /\ commits <= commits
        BY <2>1, <3>1 DEF GetFeature
      <4> QED
        BY <3>1, <4>1, LateStep
    <3> QED
      BY <2>1, <3>1, <3>2, <3>3 DEF GetFeature, EditTypeOK, ClientsLagBehind
  <2>2. ASSUME NEW c \in Clients, CreateFeature(c) PROVE EditInv'
    <3>1. EditTypeOK'
      <4>1. /\ row' \in [state : {"none", "live", "deleted"}, version : Nat, content : Nat]
            /\ call' \in [Clients -> [pc : {"idle", "updating"}, version : Nat]]
            /\ commits' \in Nat
        BY <2>2, CreateCommits DEF EditTypeOK
      <4>2. events' \subseteq
              [id : Nat, type : EventTypes, version : Nat \ {0}, content : Nat]
        BY <2>2, CreateCommits DEF EditTypeOK, EventTypes
      <4>3. seen' \in [Clients -> [version : Nat, commit : Nat]]
        BY <2>2, CreateCommits, SeenType
      <4>4. late' \subseteq [client : Clients, version : Nat]
        BY <2>2, CreateCommits DEF EditTypeOK
      <4> QED
        BY <4>1, <4>2, <4>3, <4>4 DEF EditTypeOK
    <3>2. VersionCountsCommits'
      BY <2>2, CreateCommits DEF VersionCountsCommits, NoRow
    <3>3. \A d \in Clients : seen'[d].commit = seen'[d].version /\ seen'[d].version <= commits'
      BY <2>2, CreateCommits, SeenStep
    <3>4. call[c].pc = "idle" /\ call'[c].pc = "idle"
      BY <2>2, CreateCommits DEF CreateFeature
    <3>5. \A d \in Clients \ {c} : seen'[d] = seen[d]
      BY <2>2, CreateCommits DEF EditTypeOK
    <3>6. \A d \in Clients : call'[d].pc = "updating" =>
            call'[d].version = seen'[d].version + 1
      BY <2>2, <3>4, <3>5, CreateCommits, CallStep
    <3>7. \A w \in late' : w.version <= seen'[w.client].version + 1
      BY <2>2, CreateCommits, LateStep
    <3> QED
      BY <3>1, <3>2, <3>3, <3>6, <3>7 DEF ClientsLagBehind
  <2>3. ASSUME NEW c \in Clients, UpdateRead(c) PROVE EditInv'
    <3>1. /\ row.version \in Nat /\ row.version = seen[c].version
          /\ call' = [call EXCEPT ![c] = [pc |-> "updating", version |-> row.version + 1]]
          /\ UNCHANGED <<row, late, events, seen, commits>>
      BY <2>3 DEF UpdateRead, Expected, EditTypeOK
    <3>2. EditTypeOK' /\ VersionCountsCommits'
      BY <3>1 DEF EditTypeOK, VersionCountsCommits
    <3>3. \A d \in Clients : call'[d].pc = "updating" =>
            call'[d].version = seen'[d].version + 1
      BY <3>1 DEF EditTypeOK, ClientsLagBehind
    <3> QED
      BY <3>1, <3>2, <3>3 DEF ClientsLagBehind
  <2>4. ASSUME NEW c \in Clients, UpdateWrite(c) PROVE EditInv'
    <3>1. EditTypeOK'
      <4>1. /\ row' \in [state : {"none", "live", "deleted"}, version : Nat, content : Nat]
            /\ call' \in [Clients -> [pc : {"idle", "updating"}, version : Nat]]
            /\ commits' \in Nat
        BY <2>4, UpdateCommits, SMTT(30) DEF EditTypeOK, NoCall
      <4>2. events' \subseteq
              [id : Nat, type : EventTypes, version : Nat \ {0}, content : Nat]
        BY <2>4, UpdateCommits DEF EditTypeOK, EventTypes
      <4>3. seen' \in [Clients -> [version : Nat, commit : Nat]]
        <5>1. commits + 1 \in Nat
          BY DEF EditTypeOK
        <5> QED
          BY <2>4, <5>1, UpdateCommits, SeenType
      <4>4. late' \subseteq [client : Clients, version : Nat]
        BY <2>4, UpdateCommits DEF EditTypeOK
      <4> QED
        BY <4>1, <4>2, <4>3, <4>4 DEF EditTypeOK
    <3>2. VersionCountsCommits'
      BY <2>4, UpdateCommits DEF VersionCountsCommits, EditTypeOK
    <3>3. \A d \in Clients : seen'[d].commit = seen'[d].version /\ seen'[d].version <= commits'
      <4>1. commits \in Nat /\ commits' = commits + 1
        BY <2>4, UpdateCommits DEF EditTypeOK
      <4> QED
        BY <2>4, <4>1, UpdateCommits, SeenStep
    <3>4. call'[c].pc = "idle"
      BY <2>4, UpdateCommits DEF EditTypeOK, NoCall
    <3>5. \A d \in Clients \ {c} : seen'[d] = seen[d]
      BY <2>4, UpdateCommits DEF EditTypeOK
    <3>6. \A d \in Clients : call'[d].pc = "updating" =>
            call'[d].version = seen'[d].version + 1
      BY <2>4, <3>4, <3>5, UpdateCommits, CallStep
    <3>7. \A w \in late' : w.version <= seen'[w.client].version + 1
      <4>1. commits + 1 \in Nat /\ commits <= commits + 1
        BY DEF EditTypeOK
      <4> QED
        BY <2>4, <4>1, UpdateCommits, LateStep
    <3> QED
      BY <3>1, <3>2, <3>3, <3>6, <3>7 DEF ClientsLagBehind
  <2>5. ASSUME NEW c \in Clients, UpdateConflict(c) \/ UpdateFails(c) PROVE EditInv'
    <3>1. /\ call' = [call EXCEPT ![c] = NoCall]
          /\ UNCHANGED <<row, late, events, seen, commits>>
      BY <2>5 DEF UpdateConflict, UpdateFails
    <3>2. call'[c].pc = "idle" /\ EditTypeOK'
      BY <3>1 DEF EditTypeOK, NoCall
    <3> QED
      BY <3>1, <3>2, CallStep DEF VersionCountsCommits, ClientsLagBehind
  <2>6. ASSUME NEW c \in Clients, DeleteFeature(c) PROVE EditInv'
    <3>1. EditTypeOK'
      BY <2>6, DeleteCommits DEF EditTypeOK, EventTypes
    <3>2. VersionCountsCommits'
      BY <2>6, DeleteCommits DEF VersionCountsCommits, EditTypeOK
    <3>3. ClientsLagBehind'
      BY <2>6, DeleteCommits DEF ClientsLagBehind, EditTypeOK
    <3> QED
      BY <3>1, <3>2, <3>3
  <2>7. ASSUME NEW c \in Clients, RequestTimesOut(c) PROVE EditInv'
    <3>1. /\ call' = [call EXCEPT ![c] = NoCall]
          /\ late' = late \cup {[client |-> c, version |-> call[c].version]}
          /\ UNCHANGED <<row, events, seen, commits>>
      BY <2>7 DEF RequestTimesOut
    <3>2. EditTypeOK' /\ VersionCountsCommits'
      BY <3>1 DEF EditTypeOK, VersionCountsCommits, NoCall
    <3>3. call'[c].pc = "idle"
      BY <3>1 DEF EditTypeOK, NoCall
    <3>4. \A d \in Clients : call'[d].pc = "updating" =>
            call'[d].version = seen'[d].version + 1
      BY <3>1, <3>3, CallStep
    <3>5. call[c].version \in Nat /\ call[c].version = seen[c].version + 1
      BY <2>7 DEF RequestTimesOut, EditTypeOK, ClientsLagBehind
    <3>6. \A w \in late' : w.version <= seen'[w.client].version + 1
      BY <3>1, <3>5 DEF ClientsLagBehind
    <3> QED
      BY <3>1, <3>2, <3>4, <3>6 DEF ClientsLagBehind
  <2>8. ASSUME NEW w \in late, LateWrite(w) PROVE EditInv'
    <3>1. EditTypeOK'
      BY <2>8, LateCommits DEF EditTypeOK, EventTypes
    <3>2. VersionCountsCommits'
      BY <2>8, LateCommits DEF VersionCountsCommits, EditTypeOK
    <3>3. ClientsLagBehind'
      BY <2>8, LateCommits DEF ClientsLagBehind, EditTypeOK
    <3> QED
      BY <3>1, <3>2, <3>3
  <2>9. ASSUME NEW w \in late, LateFails(w) PROVE EditInv'
    BY <2>9 DEF LateFails, EditTypeOK, VersionCountsCommits, ClientsLagBehind
  <2>10. CASE UNCHANGED editVars
    BY <2>10 DEF editVars, EditTypeOK, VersionCountsCommits, ClientsLagBehind
  <2> QED
    BY <2>1, <2>2, <2>3, <2>4, <2>5, <2>6, <2>7, <2>8, <2>9, <2>10 DEF EditNext, EditStep
<1> QED
  BY <1>1, <1>2, PTL DEF EditSpec

(* Every variable keeps its type. *)
THEOREM EditTypesCorrect == EditSpec => []EditTypeOK
BY EditInvariant, PTL DEF EditInv

(* No client ever overwrites a state it has not seen. *)
THEOREM NoLostUpdate == EditSpec => NoOverwriteUnseen
<1>1. EditInv /\ [EditNext]_editVars =>
        [/\ \A c \in Clients : UpdateWrite(c) \/ DeleteFeature(c) => seen[c].commit = commits
         /\ \A w \in late : LateWrite(w) => seen[w.client].commit = commits]_editVars
  BY UpdateCommits, DeleteCommits, LateCommits
<1> QED
  BY <1>1, EditInvariant, PTL DEF EditSpec, NoOverwriteUnseen

(* The row's version never decreases, and new content gets a new version. *)
THEOREM VersionsMonotonic == EditSpec => VersionNeverDecreases /\ VersionNamesContent
<1> DEFINE Step == /\ row'.version >= row.version
                   /\ row'.content # row.content => row'.version # row.version
<1>1. EditInv /\ [EditNext]_editVars => [Step]_editVars
  <2> SUFFICES ASSUME EditInv, EditNext PROVE Step
    OBVIOUS
  <2>0. /\ row \in [state : {"none", "live", "deleted"}, version : Nat, content : Nat]
        /\ commits \in Nat
    BY DEF EditInv, EditTypeOK
  <2>1. ASSUME NEW c \in Clients, CreateFeature(c) PROVE Step
    BY <2>1, CreateCommits DEF NoRow
  <2>2. ASSUME NEW c \in Clients, UpdateWrite(c) PROVE Step
    BY <2>0, <2>2, UpdateCommits
  <2>3. ASSUME NEW c \in Clients, DeleteFeature(c) PROVE Step
    BY <2>0, <2>3, DeleteCommits
  <2>4. ASSUME NEW c \in Clients,
               \/ GetFeature(c) \/ UpdateRead(c) \/ UpdateConflict(c) \/ UpdateFails(c)
               \/ RequestTimesOut(c)
        PROVE Step
    BY <2>0, <2>4 DEF GetFeature, UpdateRead, UpdateConflict, UpdateFails, RequestTimesOut
  <2>5. ASSUME NEW w \in late, LateWrite(w) PROVE Step
    BY <2>0, <2>5, LateCommits
  <2>6. ASSUME NEW w \in late, LateFails(w) PROVE Step
    BY <2>0, <2>6 DEF LateFails
  <2> QED
    BY <2>1, <2>2, <2>3, <2>4, <2>5, <2>6 DEF EditNext, EditStep
<1>2. [Step]_editVars => /\ [row'.version >= row.version]_editVars
                         /\ [row'.content # row.content =>
                               row'.version # row.version]_editVars
  OBVIOUS
<1> QED
  BY <1>1, <1>2, EditInvariant, PTL DEF EditSpec, VersionNeverDecreases, VersionNamesContent

(* A deleted feature stays as it was deleted. *)
THEOREM DeletedForGood == EditSpec => DeletionIsFinal
<1>1. EditInv /\ [EditNext]_editVars => [row.state = "deleted" => row' = row]_editVars
  BY DEF EditNext, EditStep, GetFeature, CreateFeature, UpdateRead, UpdateWrite,
         CommitUpdate, StillCurrent, UpdateConflict, UpdateFails, RequestTimesOut,
         LateWrite, LateFails, DeleteFeature
<1> QED
  BY <1>1, EditInvariant, PTL DEF EditSpec, DeletionIsFinal

(* The ids after one more event. *)
LEMMA OneMoreEvent ==
  ASSUME NEW n \in Nat, NEW S, {e.id : e \in S} = 1..n, NEW x, x.id = n + 1
  PROVE  {e.id : e \in S \cup {x}} = 1..n + 1
<1>1. {e.id : e \in S \cup {x}} = {e.id : e \in S} \cup {x.id}
  OBVIOUS
<1>2. 1..n + 1 = (1..n) \cup {n + 1}
  OBVIOUS
<1> QED
  BY <1>1, <1>2

(* The events number the versions without a gap, and a deletion is the last. *)
THEOREM OutboxTellsVersions == EditSpec => []EventsTellVersions
<1> DEFINE LastIsDeletion == row.state # "deleted" =>
             \A e \in events : e.type # "FeatureDeleted"
           Tale == EventsTellVersions /\ LastIsDeletion
<1>1. EditInit => Tale
  BY DEF EditInit, EventsTellVersions, NoRow
<1>2. EditInv /\ Tale /\ [EditNext]_editVars => Tale'
  <2> SUFFICES ASSUME EditInv, Tale, [EditNext]_editVars PROVE Tale'
    OBVIOUS
  <2>0. /\ commits \in Nat
        /\ events \subseteq [id : Nat, type : EventTypes, version : Nat \ {0}, content : Nat]
        /\ \A e \in events : e.id \in 1..commits
    BY DEF EditInv, EditTypeOK, EventsTellVersions
  <2>1. ASSUME NEW c \in Clients, CreateFeature(c) PROVE Tale'
    <3>1. events = {}
      BY <2>0, <2>1, CreateCommits
    <3> DEFINE new == [id |-> 1, type |-> "FeatureCreated", version |-> 1, content |-> 1]
    <3>2. events' = {new} /\ commits' = 1 /\ row'.state = "live"
      BY <2>1, <3>1, CreateCommits
    <3>3. {e.id : e \in events'} = 1..commits'
      <4>1. {e.id : e \in {new}} = {1} /\ 1..1 = {1}
        OBVIOUS
      <4> QED
        BY <3>2, <4>1
    <3> QED
      BY <3>2, <3>3 DEF EventsTellVersions
  <2>2. ASSUME NEW c \in Clients, UpdateWrite(c) PROVE Tale'
    <3>1. LastIsDeletion'
      BY <2>2, UpdateCommits
    <3> DEFINE new == [id |-> commits + 1, type |-> "FeatureUpdated",
                       version |-> commits + 1, content |-> commits + 1]
    <3>4. events' = events \cup {new} /\ commits' = commits + 1
      BY <2>2, UpdateCommits
    <3>2. {e.id : e \in events'} = 1..commits'
      BY <2>0, <3>4, OneMoreEvent DEF EventsTellVersions
    <3>3. \A e \in events : e.type # "FeatureDeleted"
      BY <2>2, UpdateCommits
    <3>5. commits > 0
      BY <2>2, UpdateCommits
    <3> QED
      BY <2>0, <3>1, <3>2, <3>3, <3>4, <3>5 DEF EventsTellVersions
  <2>3. ASSUME NEW c \in Clients, DeleteFeature(c) PROVE Tale'
    <3>1. LastIsDeletion'
      BY <2>3, DeleteCommits DEF EditInv, EditTypeOK
    <3> DEFINE new == [id |-> commits + 1, type |-> "FeatureDeleted",
                       version |-> commits, content |-> commits + 1]
    <3>4. events' = events \cup {new} /\ commits' = commits + 1
      BY <2>3, DeleteCommits
    <3>2. {e.id : e \in events'} = 1..commits'
      BY <2>0, <3>4, OneMoreEvent DEF EventsTellVersions
    <3>3. \A e \in events : e.type # "FeatureDeleted"
      BY <2>3, DeleteCommits
    <3>5. commits > 0 /\ row'.state = "deleted"
      BY <2>3, DeleteCommits DEF EditInv, EditTypeOK
    <3> QED
      BY <2>0, <3>1, <3>2, <3>3, <3>4, <3>5 DEF EventsTellVersions
  <2>4. ASSUME NEW c \in Clients,
               \/ GetFeature(c) \/ UpdateRead(c) \/ UpdateConflict(c) \/ UpdateFails(c)
               \/ RequestTimesOut(c)
        PROVE Tale'
    BY <2>4 DEF GetFeature, UpdateRead, UpdateConflict, UpdateFails, RequestTimesOut,
                EventsTellVersions
  <2>5. ASSUME NEW w \in late, LateWrite(w) PROVE Tale'
    <3>1. LastIsDeletion'
      BY <2>5, LateCommits
    <3> DEFINE new == [id |-> commits + 1, type |-> "FeatureUpdated",
                       version |-> commits + 1, content |-> commits + 1]
    <3>4. events' = events \cup {new} /\ commits' = commits + 1
      BY <2>5, LateCommits
    <3>2. {e.id : e \in events'} = 1..commits'
      BY <2>0, <3>4, OneMoreEvent DEF EventsTellVersions
    <3>3. \A e \in events : e.type # "FeatureDeleted"
      BY <2>5, LateCommits
    <3>5. commits > 0
      BY <2>5, LateCommits
    <3> QED
      BY <2>0, <3>1, <3>2, <3>3, <3>4, <3>5 DEF EventsTellVersions
  <2>6. ASSUME NEW w \in late, LateFails(w) PROVE Tale'
    BY <2>6 DEF LateFails, EventsTellVersions
  <2>7. CASE UNCHANGED editVars
    BY <2>7 DEF editVars, EventsTellVersions
  <2> QED
    BY <2>1, <2>2, <2>3, <2>4, <2>5, <2>6, <2>7 DEF EditNext, EditStep
<1> QED
  BY <1>1, <1>2, EditInvariant, PTL DEF EditSpec

------------------------------------------------------------------------------
(* The history. *)

(* What a call of the features API does to the row and its events. *)
EditRests == UNCHANGED <<row, events, commits>>
EditCreates ==
  /\ row.state = "none" /\ commits < MaxCommits
  /\ row' = [state |-> "live", version |-> 1, content |-> commits + 1]
  /\ events' = events \cup {Event("FeatureCreated", 1)}
  /\ commits' = commits + 1
EditUpdates ==
  /\ row.state = "live" /\ commits < MaxCommits
  /\ row' = [state |-> "live", version |-> row.version + 1, content |-> commits + 1]
  /\ events' = events \cup {Event("FeatureUpdated", row.version + 1)}
  /\ commits' = commits + 1
EditDeletes ==
  /\ row.state = "live" /\ commits < MaxCommits
  /\ row' = [state |-> "deleted", version |-> row.version, content |-> row.content]
  /\ events' = events \cup {Event("FeatureDeleted", row.version)}
  /\ commits' = commits + 1

LEMMA CommitUpdateEffect ==
  ASSUME EditTypeOK, NEW version \in Nat, CommitUpdate(version)
  PROVE  EditUpdates
<1>1. /\ row \in [state : {"none", "live", "deleted"}, version : Nat, content : Nat]
      /\ commits \in Nat
  BY DEF EditTypeOK
<1>2. row.state = "live" /\ version = row.version + 1
  BY <1>1 DEF CommitUpdate, StillCurrent
<1> QED
  BY <1>1, <1>2 DEF CommitUpdate, CommitRow, EditUpdates

LEMMA EditEffect ==
  ASSUME EditTypeOK, NEW c \in Clients, EditStep(c)
  PROVE  EditRests \/ EditCreates \/ EditUpdates \/ EditDeletes
<1>1. row \in [state : {"none", "live", "deleted"}, version : Nat, content : Nat]
  BY DEF EditTypeOK
<1>2. CASE GetFeature(c) \/ UpdateRead(c) \/ UpdateConflict(c) \/ UpdateFails(c)
             \/ RequestTimesOut(c)
  BY <1>2 DEF GetFeature, UpdateRead, UpdateConflict, UpdateFails, RequestTimesOut, EditRests
<1>3. CASE CreateFeature(c)
  BY <1>3 DEF CreateFeature, CommitRow, EditCreates
<1>4. CASE UpdateWrite(c)
  <2>1. call[c].version \in Nat /\ CommitUpdate(call[c].version)
    BY <1>4 DEF EditTypeOK, UpdateWrite
  <2> QED
    BY <2>1, CommitUpdateEffect
<1>5. CASE DeleteFeature(c)
  <2>1. [row EXCEPT !.state = "deleted"]
          = [state |-> "deleted", version |-> row.version, content |-> row.content]
    BY <1>1
  <2> QED
    BY <1>5, <2>1 DEF DeleteFeature, CommitRow, EditDeletes
<1>6. ASSUME NEW w \in late, LateWrite(w) PROVE EditUpdates
  <2>1. w.version \in Nat /\ CommitUpdate(w.version)
    BY <1>6 DEF EditTypeOK, LateWrite
  <2> QED
    BY <2>1, CommitUpdateEffect
<1>7. ASSUME NEW w \in late, LateFails(w) PROVE EditRests
  BY <1>7 DEF LateFails, EditRests
<1> QED
  BY <1>2, <1>3, <1>4, <1>5, <1>6, <1>7 DEF EditStep

(* The types of the editing half, also when reverts have moved its row. *)
LEMMA EditTypesStep ==
  ASSUME EditTypeOK, CreationFirst, NEW c \in Clients, EditStep(c)
  PROVE  EditTypeOK'
<1>0. /\ row \in [state : {"none", "live", "deleted"}, version : Nat, content : Nat]
      /\ call \in [Clients -> [pc : {"idle", "updating"}, version : Nat]]
      /\ late \subseteq [client : Clients, version : Nat]
      /\ events \subseteq [id : Nat, type : EventTypes, version : Nat \ {0}, content : Nat]
      /\ seen \in [Clients -> [version : Nat, commit : Nat]]
      /\ commits \in Nat
  BY DEF EditTypeOK
<1>1. /\ row' \in [state : {"none", "live", "deleted"}, version : Nat, content : Nat]
      /\ events' \subseteq [id : Nat, type : EventTypes, version : Nat \ {0}, content : Nat]
      /\ commits' \in Nat
  <2>1. CASE EditRests
    BY <1>0, <2>1 DEF EditRests
  <2>2. CASE EditCreates
    BY <1>0, <2>2 DEF EditCreates, Event, EventTypes
  <2>3. CASE EditUpdates
    BY <1>0, <2>3 DEF EditUpdates, Event, EventTypes
  <2>4. CASE EditDeletes
    <3>1. row.version \in Nat \ {0}
      BY <1>0, <2>4 DEF EditDeletes, CreationFirst
    <3> QED
      BY <1>0, <2>4, <3>1 DEF EditDeletes, Event, EventTypes
  <2> QED
    BY <2>1, <2>2, <2>3, <2>4, EditEffect
<1>2. call' \in [Clients -> [pc : {"idle", "updating"}, version : Nat]]
  <2>1. \/ call' = call \/ call' = [call EXCEPT ![c] = NoCall]
        \/ call' = [call EXCEPT ![c] = [pc |-> "updating", version |-> row.version + 1]]
    BY DEF EditStep, GetFeature, CreateFeature, UpdateRead, UpdateWrite, UpdateConflict,
           UpdateFails, RequestTimesOut, LateWrite, LateFails, DeleteFeature
  <2>2. row.version + 1 \in Nat
    BY <1>0
  <2> QED
    BY <1>0, <2>1, <2>2 DEF NoCall
<1>3. late' \subseteq [client : Clients, version : Nat]
  <2>1. late' \subseteq late \cup {[client |-> c, version |-> call[c].version]}
    BY DEF EditStep, GetFeature, CreateFeature, UpdateRead, UpdateWrite, UpdateConflict,
           UpdateFails, RequestTimesOut, LateWrite, LateFails, DeleteFeature
  <2> QED
    BY <1>0, <2>1
<1>4. seen' \in [Clients -> [version : Nat, commit : Nat]]
  <2>1. \/ seen' = seen
        \/ seen' = [seen EXCEPT ![c] = [version |-> row.version, commit |-> commits]]
        \/ seen' = [seen EXCEPT ![c] = [version |-> row'.version, commit |-> commits']]
    BY DEF EditStep, GetFeature, CreateFeature, UpdateRead, UpdateWrite, UpdateConflict,
           UpdateFails, RequestTimesOut, LateWrite, LateFails, DeleteFeature, Answered
  <2>2. row.version \in Nat /\ row'.version \in Nat
    BY <1>0, <1>1
  <2> QED
    BY <1>0, <1>1, <2>1, <2>2
<1> QED
  BY <1>1, <1>2, <1>3, <1>4 DEF EditTypeOK

(* A step of one handler that writes no version: it moves on with its event, *)
(* begins with a committed one, or is idle again.                            *)
HandlerMoves(h) ==
  \/ \E e \in 1..MaxCommits : HandOver(h, e)
  \/ ClaimOrSkip(h) \/ RecordViolates(h) \/ ReleaseClaim(h)
  \/ RecordFails(h) \/ HandlerDies(h)

LEMMA HandlerGoes ==
  ASSUME InboxTypeOK, NEW h \in Handlers, ~At(h, "idle"), NEW pc \in Steps, Goto(h, pc)
  PROVE  handler' = [handler EXCEPT ![h] = [pc |-> pc, event |-> handler[h].event]]
<1>1. handler[h] \in [pc : Steps, event : 1..MaxCommits]
  BY DEF InboxTypeOK, At, Idle
<1>2. [handler[h] EXCEPT !.pc = pc] = [pc |-> pc, event |-> handler[h].event]
  BY <1>1
<1>3. handler' = [handler EXCEPT ![h] = [handler[h] EXCEPT !.pc = pc]]
  BY DEF Goto
<1> QED
  BY <1>2, <1>3

LEMMA HandlerEffect ==
  ASSUME InboxTypeOK, NEW h \in Handlers, HandlerMoves(h)
  PROVE  /\ InboxTypeOK'
         /\ completed' = completed
         /\ UNCHANGED <<editVars, revert, shown>>
         /\ \A g \in Handlers \ {h} : handler'[g] = handler[g]
         /\ \/ handler'[h].pc = "idle"
            \/ ~At(h, "idle") /\ handler'[h].event = handler[h].event
            \/ \E e \in events : e.id = handler'[h].event
<1>1. ASSUME NEW e \in 1..MaxCommits, HandOver(h, e)
      PROVE  /\ InboxTypeOK'
             /\ \A g \in Handlers \ {h} : handler'[g] = handler[g]
             /\ \E f \in events : f.id = handler'[h].event
  BY <1>1 DEF HandOver, Deliver, InboxTypeOK, Steps
<1>2. ASSUME ~At(h, "idle"), NEW pc \in Steps, Goto(h, pc), inbox' \subseteq 1..MaxCommits,
             handed' = handed, completed' = completed
      PROVE  /\ InboxTypeOK'
             /\ \A g \in Handlers \ {h} : handler'[g] = handler[g]
             /\ handler'[h].event = handler[h].event
  <2>1. handler' = [handler EXCEPT ![h] = [pc |-> pc, event |-> handler[h].event]]
    BY <1>2, HandlerGoes
  <2>2. handler[h].event \in 1..MaxCommits
    BY <1>2 DEF InboxTypeOK, At, Idle
  <2> QED
    BY <1>2, <2>1, <2>2 DEF InboxTypeOK
<1>3. ASSUME Finish(h), inbox' \subseteq 1..MaxCommits, handed' = handed, completed' = completed
      PROVE  /\ InboxTypeOK'
             /\ \A g \in Handlers \ {h} : handler'[g] = handler[g]
             /\ handler'[h].pc = "idle"
  BY <1>3 DEF Finish, InboxTypeOK, Idle
<1>4. ~At(h, "idle") => handler[h].event \in 1..MaxCommits
  BY DEF InboxTypeOK, At, Idle
<1>5. CASE ClaimOrSkip(h)
  <2>1. CASE Claim(h)
    <3>1. /\ ~At(h, "idle") /\ "working" \in Steps /\ Goto(h, "working")
          /\ inbox' = inbox \cup {handler[h].event} /\ handed' = handed /\ completed' = completed
      BY <2>1 DEF Claim, At, Steps
    <3>2. inbox' \subseteq 1..MaxCommits
      BY <1>4, <3>1 DEF InboxTypeOK
    <3> QED
      BY <1>2, <1>5, <3>1, <3>2 DEF ClaimOrSkip
  <2>2. CASE Skip(h)
    BY <1>3, <1>5, <2>2 DEF ClaimOrSkip, Skip, InboxTypeOK
  <2> QED
    BY <1>5, <2>1, <2>2 DEF ClaimOrSkip
<1>6. CASE RecordViolates(h) \/ RecordFails(h)
  <2>1. /\ ~At(h, "idle") /\ "releasing" \in Steps /\ Goto(h, "releasing")
        /\ inbox' = inbox /\ handed' = handed /\ completed' = completed
    BY <1>6 DEF RecordViolates, RecordFails, Throw, AfterThrow, Checks, At, Steps
  <2>2. inbox' \subseteq 1..MaxCommits
    BY <2>1 DEF InboxTypeOK
  <2> QED
    BY <1>2, <1>6, <2>1, <2>2 DEF RecordViolates, RecordFails
<1>7. CASE ReleaseClaim(h)
  BY <1>3, <1>7 DEF ReleaseClaim, Release, InboxTypeOK
<1>8. CASE HandlerDies(h)
  BY <1>3, <1>8 DEF HandlerDies, ReleaseFails, Die, InboxTypeOK
<1> QED
  BY <1>1, <1>5, <1>6, <1>7, <1>8 DEF HandlerMoves, HandOver, Deliver

(* The handler that records finishes, and its event counts as completed. *)
LEMMA RecordEffect ==
  ASSUME InboxTypeOK, NEW h \in Handlers, RecordVersion(h)
  PROVE  /\ InboxTypeOK'
         /\ UNCHANGED <<editVars, revert, shown>>
         /\ \A g \in Handlers \ {h} : handler'[g] = handler[g]
         /\ handler'[h].pc = "idle"
         /\ completed' = [completed EXCEPT ![handler[h].event] = @ + 1]
<1>1. handler[h].event \in 1..MaxCommits
  BY DEF RecordVersion, InboxTypeOK, At, Idle
<1>2. Finish(h) /\ inbox' = inbox /\ handed' = handed
      /\ completed' = [completed EXCEPT ![handler[h].event] = @ + 1]
  BY DEF RecordVersion, Succeed, Checks
<1> QED
  BY <1>1, <1>2 DEF RecordVersion, Finish, InboxTypeOK, Idle

(* The event a busy handler has at hand. *)
LEMMA EventAtHand ==
  ASSUME HandledCommitted, NEW h \in Handlers, ~At(h, "idle")
  PROVE  EventOf(h) \in events /\ EventOf(h).id = handler[h].event
BY DEF HandledCommitted, EventOf

(* No snapshot of an update is ever inserted: its payload has no             *)
(* versionNumber.  What is inserted has a number of its own.                 *)
LEMMA InsertsNew ==
  ASSUME HistoryInv, NEW e \in events, ~Violates(e)
  PROVE  /\ e.type # "FeatureUpdated"
         /\ e.type = "FeatureCreated" =>
              ~Recorded(1) /\ Inserted(e) = {Version(1, "created", e.content)}
         /\ e.type = "FeatureDeleted" =>
              \A x \in Inserted(e) :
                /\ ~Recorded(x.number) /\ x.number = e.version + 1 /\ x.kind = "deleted"
                /\ \E w \in versions : w.number = e.version /\ x = Version(e.version + 1, "deleted", w.content)
<1>1. e \in [id : Nat, type : EventTypes, version : Nat \ {0}, content : Nat]
  BY DEF HistoryInv, HistoryTypeOK, EditTypeOK
<1>2. e.type # "FeatureUpdated"
  BY DEF Violates, Reads, Carries
<1>3. CASE e.type = "FeatureCreated"
  <2>1. Inserted(e) = {Version(1, "created", e.content)}
    BY <1>3 DEF Inserted
  <2> QED
    BY <1>3, <2>1 DEF Violates, Version
<1>4. CASE e.type = "FeatureDeleted"
  <2>1. Inserted(e) = {Version(v.number + 1, "deleted", v.content) :
                         v \in {w \in versions : w.number = e.version}}
    BY <1>4 DEF Inserted
  <2>2. ASSUME NEW x \in Inserted(e)
        PROVE  /\ ~Recorded(x.number) /\ x.number = e.version + 1 /\ x.kind = "deleted"
               /\ \E w \in versions : w.number = e.version /\ x = Version(e.version + 1, "deleted", w.content)
    <3>1. PICK w \in versions : w.number = e.version /\ x = Version(w.number + 1, "deleted", w.content)
      BY <2>1
    <3>2. ~Recorded(x.number)
      BY DEF Violates
    <3> QED
      BY <3>1, <3>2 DEF Version
  <2> QED
    BY <1>4, <2>2
<1> QED
  BY <1>1, <1>2, <1>3, <1>4 DEF EventTypes

(* One more snapshot with a number of its own, of what the feature was. *)
LEMMA OneMoreTrue ==
  ASSUME HistoryInv, NEW S, versions' = versions \cup S,
         shown \subseteq shown', events \subseteq events',
         \A x \in S : /\ ~Recorded(x.number) /\ Was(x, x.content)'
                      /\ x.kind = "deleted" =>
                           \E e \in events : e.type = "FeatureDeleted" /\ x.number = e.version + 1,
         \A x, y \in S : x = y
  PROVE  VersionsTrue'
<1>1. \A v, w \in versions' : v.number = w.number => v = w
  BY DEF HistoryInv, VersionsTrue, Recorded
<1>2. \A v \in versions' : Was(v, v.content)'
  BY DEF HistoryInv, VersionsTrue, Was
<1>3. \A v \in versions' : v.kind = "deleted" =>
        \E e \in events' : e.type = "FeatureDeleted" /\ v.number = e.version + 1
  BY DEF HistoryInv, VersionsTrue
<1> QED
  BY <1>1, <1>2, <1>3 DEF VersionsTrue

(* What a handler inserts is true. *)
LEMMA InsertsTrue ==
  ASSUME HistoryInv, NEW e \in events, ~Violates(e), versions' = versions \cup Inserted(e),
         UNCHANGED <<row, events, shown>>
  PROVE  /\ VersionsTrue'
         /\ versions' \subseteq
              [number : Nat \ {0}, kind : {"created", "updated", "deleted", "revert"}, content : Nat]
<1>0. /\ e \in [id : Nat, type : EventTypes, version : Nat \ {0}, content : Nat]
      /\ versions \subseteq
           [number : Nat \ {0}, kind : {"created", "updated", "deleted", "revert"}, content : Nat]
      /\ \A v \in versions : v.content \in Nat /\ v.number \in Nat
  BY DEF HistoryInv, HistoryTypeOK, EditTypeOK
<1>1. CASE e.type = "FeatureCreated"
  <2> DEFINE x == Version(1, "created", e.content)
  <2>1. Inserted(e) = {x} /\ ~Recorded(1)
    BY <1>1, InsertsNew
  <2>2. <<1, e.content>> \in shown
    BY <1>1 DEF HistoryInv, EventsTrue
  <2>3. Was(x, x.content)' /\ x.kind = "created" /\ x.number = 1
    BY <2>2 DEF Was, Version
  <2>4. x \in [number : Nat \ {0}, kind : {"created", "updated", "deleted", "revert"}, content : Nat]
    BY <1>0 DEF Version
  <2> HIDE DEF x
  <2> QED
    BY <1>0, <2>1, <2>3, <2>4, OneMoreTrue
<1>2. CASE e.type = "FeatureDeleted"
  <2>1. \A x \in Inserted(e) :
          /\ ~Recorded(x.number) /\ x.number = e.version + 1 /\ x.kind = "deleted"
          /\ \E w \in versions : w.number = e.version /\ x = Version(e.version + 1, "deleted", w.content)
    BY <1>2, InsertsNew
  <2>2. \A x, y \in Inserted(e) : x = y
    BY <2>1 DEF HistoryInv, VersionsTrue
  <2>3. ASSUME NEW x \in Inserted(e) PROVE Was(x, x.content)'
    <3>1. PICK w \in versions : w.number = e.version /\ x = Version(e.version + 1, "deleted", w.content)
      BY <2>1
    <3>2. w.kind # "deleted"
      <4>1. SUFFICES ASSUME w.kind = "deleted" PROVE FALSE
        OBVIOUS
      <4>2. PICK d \in events : d.type = "FeatureDeleted" /\ w.number = d.version + 1
        BY <4>1 DEF HistoryInv, VersionsTrue
      <4>3. d = e
        BY <1>2, <4>2 DEF HistoryInv, EventsTrue
      <4>4. e.version \in Nat /\ w.number = e.version /\ w.number = e.version + 1
        BY <1>0, <3>1, <4>2, <4>3
      <4> QED
        BY <4>4
    <3>3. <<e.version, w.content>> \in shown
      BY <3>1, <3>2 DEF HistoryInv, VersionsTrue, Was
    <3>4. x.number - 1 = e.version /\ x.kind = "deleted" /\ x.content = w.content
      BY <1>0, <3>1 DEF Version
    <3> QED
      BY <3>3, <3>4 DEF Was
  <2>4. \A x \in Inserted(e) :
          x \in [number : Nat \ {0}, kind : {"created", "updated", "deleted", "revert"}, content : Nat]
    BY <1>0, <2>1 DEF Version
  <2> QED
    BY <1>0, <1>2, <2>1, <2>2, <2>3, <2>4, OneMoreTrue
<1> QED
  BY <1>0, <1>1, <1>2, InsertsNew DEF EventTypes

(* A call of the features API keeps the invariant: it touches no snapshot,   *)
(* and what its event tells the row has just shown.                          *)
LEMMA EditKeeps ==
  ASSUME HistoryInv, NEW c \in Clients, Edit(c)
  PROVE  HistoryInv'
<1>0. /\ row \in [state : {"none", "live", "deleted"}, version : Nat, content : Nat]
      /\ events \subseteq [id : Nat, type : EventTypes, version : Nat \ {0}, content : Nat]
      /\ commits \in Nat /\ completed \in [1..MaxCommits -> Nat] /\ MaxCommits \in Nat
  BY EditingAssumption DEF HistoryInv, HistoryTypeOK, EditTypeOK, InboxTypeOK
<1>1. /\ UNCHANGED <<inbox, handler, handed, completed, versions, revert, faults>>
      /\ shown' = shown \cup {<<row'.version, row'.content>>}
  BY DEF Edit, deliveryVars
<1>2. EditRests \/ EditCreates \/ EditUpdates \/ EditDeletes
  BY EditEffect DEF Edit, HistoryInv, HistoryTypeOK
<1>3. HistoryTypeOK'
  <2>1. EditTypeOK'
    BY EditTypesStep DEF Edit, HistoryInv, HistoryTypeOK
  <2>2. row'.version \in Nat /\ row'.content \in Nat
    BY <2>1 DEF EditTypeOK
  <2> QED
    BY <1>1, <2>1, <2>2 DEF HistoryInv, HistoryTypeOK, InboxTypeOK, Recorded
<1>4. CreationFirst'
  BY <1>0, <1>1, <1>2 DEF HistoryInv, CreationFirst, EditRests, EditCreates, EditUpdates, EditDeletes
<1>5. EventsTrue'
  <2>1. CASE EditRests
    BY <1>1, <2>1 DEF EditRests, HistoryInv, EventsTrue
  <2>2. CASE EditCreates
    <3>1. events = {}
      BY <2>2 DEF EditCreates, HistoryInv, CreationFirst
    <3>2. events' = {[id |-> commits + 1, type |-> "FeatureCreated", version |-> 1, content |-> commits + 1]}
      BY <2>2, <3>1 DEF EditCreates, Event
    <3>3. <<1, commits + 1>> \in shown' /\ commits' = commits + 1
      BY <1>1, <2>2 DEF EditCreates
    <3> QED
      BY <1>0, <3>2, <3>3 DEF EventsTrue
  <2>3. CASE EditUpdates
    <3> DEFINE new == [id |-> commits + 1, type |-> "FeatureUpdated",
                       version |-> row.version + 1, content |-> commits + 1]
    <3>1. events' = events \cup {new} /\ commits' = commits + 1
      BY <2>3 DEF EditUpdates, Event
    <3>2. <<new.version, new.content>> \in shown'
      BY <1>1, <2>3 DEF EditUpdates
    <3>3. \A e \in events : e.type # "FeatureDeleted" /\ e.id \in 1..commits
      BY <2>3 DEF EditUpdates, HistoryInv, EventsTrue
    <3>4. \A d, e \in events : d.id = e.id => d = e
      BY DEF HistoryInv, EventsTrue
    <3> QED
      BY <1>0, <1>1, <3>1, <3>2, <3>3, <3>4 DEF HistoryInv, EventsTrue
  <2>4. CASE EditDeletes
    <3> DEFINE new == [id |-> commits + 1, type |-> "FeatureDeleted",
                       version |-> row.version, content |-> commits + 1]
    <3>1. events' = events \cup {new} /\ commits' = commits + 1 /\ row'.state = "deleted"
      BY <2>4 DEF EditDeletes, Event
    <3>3. \A e \in events : e.type # "FeatureDeleted" /\ e.id \in 1..commits
      BY <2>4 DEF EditDeletes, HistoryInv, EventsTrue
    <3> QED
      BY <1>0, <1>1, <3>1, <3>3 DEF HistoryInv, EventsTrue
  <2> QED
    BY <1>2, <2>1, <2>2, <2>3, <2>4
<1>6. events \subseteq events'
  BY <1>2 DEF EditRests, EditCreates, EditUpdates, EditDeletes
<1>7. HandledCommitted'
  BY <1>1, <1>6 DEF HistoryInv, HandledCommitted, At
<1>8. VersionsTrue'
  BY <1>1, <1>6 DEF HistoryInv, VersionsTrue, Was
<1> QED
  BY <1>3, <1>4, <1>5, <1>7, <1>8 DEF HistoryInv

(* So does a step of a handler, ... *)
LEMMA HandlerKeeps ==
  ASSUME HistoryInv, NEW h \in Handlers, HandlerMoves(h) \/ RecordVersion(h)
  PROVE  HistoryInv'
<1>0. InboxTypeOK /\ MaxFaults \in Nat /\ faults \in 0..MaxFaults
  BY HistoryAssumption DEF HistoryInv, HistoryTypeOK
<1>1. /\ InboxTypeOK'
      /\ UNCHANGED <<editVars, revert, shown>>
      /\ \A g \in Handlers \ {h} : handler'[g] = handler[g]
      /\ \/ handler'[h].pc = "idle"
         \/ ~At(h, "idle") /\ handler'[h].event = handler[h].event
         \/ \E e \in events : e.id = handler'[h].event
  BY <1>0, HandlerEffect, RecordEffect
<1>2. faults' \in 0..MaxFaults
  BY <1>0 DEF HandlerMoves, HandOver, ClaimOrSkip, RecordVersion, RecordViolates, ReleaseClaim,
              RecordFails, HandlerDies, Fault
<1>3. \/ versions' = versions
      \/ /\ ~At(h, "idle") /\ ~Violates(EventOf(h))
         /\ versions' = versions \cup Inserted(EventOf(h))
  BY DEF HandlerMoves, HandOver, ClaimOrSkip, RecordVersion, RecordViolates, ReleaseClaim,
         RecordFails, HandlerDies, Throw, At
<1>4. /\ VersionsTrue' /\ versions \subseteq versions'
      /\ versions' \subseteq
           [number : Nat \ {0}, kind : {"created", "updated", "deleted", "revert"}, content : Nat]
      /\ versions' # versions => events # {}
  <2>0. UNCHANGED <<row, events, shown>>
    BY <1>1 DEF editVars
  <2>1. CASE versions' = versions
    BY <2>0, <2>1 DEF HistoryInv, HistoryTypeOK, VersionsTrue, Was
  <2>2. CASE ~At(h, "idle") /\ ~Violates(EventOf(h)) /\ versions' = versions \cup Inserted(EventOf(h))
    BY <2>0, <2>2, EventAtHand, InsertsTrue DEF HistoryInv
  <2> QED
    BY <1>3, <2>1, <2>2
<1>5. \A n : Recorded(n) => Recorded(n)'
  BY <1>4 DEF Recorded
<1>6. HistoryTypeOK'
  <2>1. EditTypeOK'
    BY <1>1 DEF HistoryInv, HistoryTypeOK, EditTypeOK, editVars
  <2> QED
    BY <1>1, <1>2, <1>4, <1>5, <2>1 DEF HistoryInv, HistoryTypeOK
<1>7. CreationFirst'
  BY <1>1, <1>4 DEF HistoryInv, CreationFirst, editVars
<1>8. EventsTrue'
  BY <1>1 DEF HistoryInv, EventsTrue, editVars
<1>9. HandledCommitted'
  <2>1. events' = events
    BY <1>1 DEF editVars
  <2>2. \A g \in Handlers : ~At(g, "idle")' => \E e \in events' : e.id = handler'[g].event
    BY <1>1, <2>1 DEF HistoryInv, HandledCommitted, At
  <2>3. CASE completed' = completed
    BY <2>1, <2>2, <2>3 DEF HistoryInv, HandledCommitted
  <2>4. CASE RecordVersion(h)
    <3>1. /\ completed' = [completed EXCEPT ![handler[h].event] = @ + 1]
          /\ completed \in [1..MaxCommits -> Nat] /\ ~At(h, "idle")
      BY <1>0, <2>4, RecordEffect DEF InboxTypeOK, RecordVersion, At
    <3>2. EventOf(h) \in events /\ EventOf(h).id = handler[h].event
      BY <3>1, EventAtHand DEF HistoryInv
    <3>3. \A n \in 1..MaxCommits : completed'[n] > 0 => \E e \in events' : e.id = n
      BY <2>1, <3>1, <3>2 DEF HistoryInv, HandledCommitted
    <3> QED
      BY <2>2, <3>3 DEF HandledCommitted
  <2> QED
    BY <1>0, <2>3, <2>4, HandlerEffect
<1> QED
  BY <1>4, <1>6, <1>7, <1>8, <1>9 DEF HistoryInv

LEMMA RevertTakesNext ==
  ASSUME NEW p, p \in [pc : {"targeted", "writing"}, target : Nat \ {0}, version : Nat],
         NEW n \in Nat, NEW q, q = [p EXCEPT !.pc = "writing", !.version = n]
  PROVE  q = [pc |-> "writing", target |-> p.target, version |-> n]
OBVIOUS

(* ... and a step of a revert, which writes the number it took only while no *)
(* snapshot has it.                                                          *)
LEMMA RevertKeeps ==
  ASSUME HistoryInv, NEW r \in Reverters,
         RevertReadsTarget(r) \/ RevertReadsRow(r) \/ RevertWrites(r) \/ RevertFails(r)
  PROVE  HistoryInv'
<1> DEFINE Rows == [number : Nat \ {0}, kind : {"created", "updated", "deleted", "revert"}, content : Nat]
           Calls == {NoRevert} \cup
                      [pc : {"targeted", "writing"}, target : Nat \ {0}, version : Nat]
<1>0. /\ row \in [state : {"none", "live", "deleted"}, version : Nat, content : Nat]
      /\ versions \subseteq Rows /\ revert \in [Reverters -> Calls] /\ commits \in Nat
      /\ \A q \in Reverters : revert[q].pc # "idle" => Recorded(revert[q].target)
      /\ NoRevert.pc = "idle"
  BY DEF HistoryInv, HistoryTypeOK, EditTypeOK, NoRevert
<1>1. ASSUME UNCHANGED <<editVars, deliveryVars, versions, faults, shown>>,
             NEW new \in Calls, revert' = [revert EXCEPT ![r] = new],
             new.pc # "idle" => Recorded(new.target) /\ row.state # "none",
             new.pc = "writing" => new.version > 1
      PROVE  HistoryInv'
  <2>1. /\ UNCHANGED <<row, call, late, events, seen, commits, inbox, handler, handed, completed,
                       versions, faults, shown>>
        /\ \A n : Recorded(n)' <=> Recorded(n)
    BY <1>1 DEF editVars, deliveryVars, Recorded
  <2>2. revert' \in [Reverters -> Calls] /\ revert'[r] = new
        /\ \A q \in Reverters \ {r} : revert'[q] = revert[q]
    BY <1>0, <1>1
  <2>3. HistoryTypeOK'
    BY <1>0, <1>1, <2>1, <2>2, SMTT(30) DEF HistoryInv, HistoryTypeOK, EditTypeOK, InboxTypeOK
  <2>4. CreationFirst'
    BY <1>0, <1>1, <2>1, <2>2 DEF HistoryInv, CreationFirst
  <2>5. EventsTrue' /\ HandledCommitted' /\ VersionsTrue'
    BY <2>1 DEF HistoryInv, EventsTrue, HandledCommitted, At, VersionsTrue, Was
  <2> QED
    BY <2>3, <2>4, <2>5 DEF HistoryInv
<1>2. NoRevert \in Calls
  OBVIOUS
<1>3. CASE RevertReadsTarget(r)
  <2>1. PICK v \in versions :
          revert' = [revert EXCEPT ![r] = [pc |-> "targeted", target |-> v.number, version |-> 0]]
    BY <1>3 DEF RevertReadsTarget, Targets
  <2> DEFINE new == [pc |-> "targeted", target |-> v.number, version |-> 0]
  <2>2. new \in Calls /\ new.pc = "targeted" /\ new.target = v.number
    BY <1>0
  <2>3. Recorded(v.number) /\ row.state # "none"
    BY DEF Recorded, HistoryInv, CreationFirst
  <2> HIDE DEF new, Calls
  <2>4. revert' = [revert EXCEPT ![r] = new]
    BY <2>1 DEF new
  <2> QED
    BY <1>1, <1>3, <2>2, <2>3, <2>4 DEF RevertReadsTarget
<1>4. CASE RevertReadsRow(r)
  <2>1. CASE row.state = "live"
    <3> DEFINE new == [pc |-> "writing", target |-> revert[r].target, version |-> row.version + 1]
    <3>1. revert[r] \in [pc : {"targeted", "writing"}, target : Nat \ {0}, version : Nat]
      BY <1>0, <1>4 DEF RevertReadsRow
    <3>2. revert' = [revert EXCEPT ![r] = new]
      <4>1. [revert[r] EXCEPT !.pc = "writing", !.version = row.version + 1] = new
        <5>1. row.version + 1 \in Nat
          BY <1>0
        <5> QED
          BY ONLY <3>1, <5>1, RevertTakesNext
      <4>2. revert' = [revert EXCEPT ![r] = [revert[r] EXCEPT !.pc = "writing", !.version = row.version + 1]]
        BY <1>4, <2>1 DEF RevertReadsRow
      <4> QED
        BY <4>1, <4>2
    <3>3. new \in Calls /\ new.pc = "writing" /\ new.target = revert[r].target /\ new.version > 1
      BY <1>0, <2>1, <3>1 DEF HistoryInv, CreationFirst
    <3>4. Recorded(revert[r].target)
      BY <1>0, <1>4 DEF RevertReadsRow
    <3> HIDE DEF new, Calls
    <3> QED
      BY <1>1, <1>4, <2>1, <3>2, <3>3, <3>4 DEF RevertReadsRow
  <2>2. CASE row.state # "live"
    BY <1>0, <1>1, <1>2, <1>4, <2>2 DEF RevertReadsRow
  <2> QED
    BY <2>1, <2>2
<1>5. CASE RevertFails(r)
  BY <1>0, <1>1, <1>2, <1>5 DEF RevertFails
<1>6. CASE RevertWrites(r)
  <2>0. PICK n \in {revert[r].version} : TRUE
    OBVIOUS
  <2>1. revert[r] \in [pc : {"targeted", "writing"}, target : Nat \ {0}, version : Nat]
        /\ n \in Nat /\ n > 1 /\ ~Recorded(n) /\ row.state # "none"
    BY <1>0, <1>6, <2>0 DEF RevertWrites, HistoryInv, CreationFirst
  <2>2. Target(r) \in versions /\ Target(r).content \in Nat
    <3>1. \E v \in versions : v.number = revert[r].target
      BY <1>0, <1>6 DEF RevertWrites, Recorded
    <3> QED
      BY <1>0, <3>1 DEF Target
  <2>12. PICK x : x = Version(n, "revert", Target(r).content)
    OBVIOUS
  <2>3. /\ row' = [state |-> row.state, version |-> n, content |-> x.content]
        /\ commits' = commits + 1
        /\ versions' = versions \cup {x}
        /\ revert' = [revert EXCEPT ![r] = NoRevert]
        /\ UNCHANGED <<call, late, events, seen, inbox, handler, handed, completed, faults>>
    BY <1>0, <1>6, <2>0, <2>12 DEF RevertWrites, RevertedRow, deliveryVars, Version
  <2>4. shown' = shown \cup {<<n, x.content>>}
    <3>1. row'.version = n /\ row'.content = x.content
      BY <2>3
    <3>2. shown' = shown \cup {<<row'.version, row'.content>>}
      BY <1>6 DEF RevertWrites
    <3> QED
      BY <3>1, <3>2
  <2>5. x \in Rows /\ x.number = n /\ x.kind = "revert" /\ x.content \in Nat
    BY <2>1, <2>2, <2>12 DEF Version
  <2>6. \A m : Recorded(m) => Recorded(m)'
    BY <2>3 DEF Recorded
  <2>7. revert' \in [Reverters -> Calls] /\ revert'[r] = NoRevert
        /\ \A q \in Reverters \ {r} : revert'[q] = revert[q]
    BY <1>0, <2>3
  <2> HIDE DEF Rows, Calls
  <2>8. HistoryTypeOK'
    <3>1. EditTypeOK'
      BY <1>0, <2>1, <2>3, <2>5 DEF HistoryInv, HistoryTypeOK, EditTypeOK
    <3>2. (\A q \in Reverters : revert[q].pc # "idle" => Recorded(revert[q].target))'
      BY <1>0, <2>6, <2>7
    <3> QED
      BY <1>0, <2>1, <2>3, <2>4, <2>5, <2>7, <3>1, <3>2, SMTT(30)
         DEF HistoryInv, HistoryTypeOK, InboxTypeOK, Rows, Calls
  <2>9. CreationFirst'
    BY <1>0, <2>1, <2>3, <2>7 DEF HistoryInv, CreationFirst
  <2>10. EventsTrue' /\ HandledCommitted'
    BY <1>0, <2>3, <2>4, <2>6 DEF HistoryInv, EventsTrue, HandledCommitted, At
  <2>11. VersionsTrue'
    <3>1. Was(x, x.content)'
      BY <2>4, <2>5 DEF Was
    <3>0. PICK S : S = {x}
      OBVIOUS
    <3>2. \A y, z \in S : y = z
      BY <3>0
    <3>3. shown \subseteq shown' /\ events \subseteq events'
      BY <2>3, <2>4
    <3>4. \A y \in S : ~Recorded(y.number) /\ Was(y, y.content)' /\ y.kind # "deleted"
      BY <2>1, <2>5, <3>0, <3>1
    <3>5. versions' = versions \cup S
      BY <2>3, <3>0
    <3> QED
      BY <3>2, <3>3, <3>4, <3>5, OneMoreTrue
  <2> QED
    BY <2>8, <2>9, <2>10, <2>11 DEF HistoryInv
<1> QED
  BY <1>3, <1>4, <1>5, <1>6

LEMMA HistoryStart == HistoryInit => HistoryInv
<1> SUFFICES ASSUME HistoryInit PROVE HistoryInv
  OBVIOUS
<1>1. /\ row = NoRow /\ events = {} /\ versions = {} /\ shown = {} /\ faults = 0 /\ inbox = {}
      /\ revert = [r \in Reverters |-> NoRevert]
      /\ handler = [h \in Handlers |-> Idle]
      /\ handed = [e \in 1..MaxCommits |-> 0] /\ completed = [e \in 1..MaxCommits |-> 0]
  BY DEF HistoryInit, EditInit, InboxInit
<1>2. EditTypeOK
  BY DEF HistoryInit, EditInit, EditTypeOK, NoRow, NoCall, Unseen
<1>3. InboxTypeOK
  BY <1>1 DEF InboxTypeOK
<1>4. \A r \in Reverters : revert[r] = NoRevert /\ NoRevert.pc = "idle"
  BY <1>1 DEF NoRevert
<1>5. HistoryTypeOK
  BY <1>1, <1>2, <1>3, <1>4, HistoryAssumption DEF HistoryTypeOK
<1> QED
  BY <1>1, <1>4, <1>5 DEF HistoryInv, CreationFirst, EventsTrue, HandledCommitted, At, Idle,
       VersionsTrue, NoRow

LEMMA HistoryStep ==
  ASSUME HistoryInv, [HistoryNext]_historyVars
  PROVE  HistoryInv'
<1>1. CASE UNCHANGED historyVars
  BY <1>1, SMTT(30)
          DEF historyVars, editVars, deliveryVars, HistoryInv, HistoryTypeOK, EditTypeOK, InboxTypeOK,
              CreationFirst, EventsTrue, HandledCommitted, At, VersionsTrue, Was,
              Recorded
<1>2. ASSUME NEW h \in Handlers,
             \/ \E e \in 1..MaxCommits : HandOver(h, e)
             \/ HandlerStep(h) \/ RecordFails(h) \/ HandlerDies(h)
      PROVE  HandlerMoves(h) \/ RecordVersion(h)
  BY <1>2 DEF HandlerStep, HandlerMoves
<1> QED
  BY <1>1, <1>2, EditKeeps, HandlerKeeps, RevertKeeps DEF HistoryNext

LEMMA HistoryInvariant == HistorySpec => []HistoryInv
<1> QED
  BY HistoryStart, HistoryStep, PTL DEF HistorySpec

(* Every variable of the composition has its type. *)
THEOREM HistoryTypesCorrect == HistorySpec => []HistoryTypeOK
<1>1. HistoryInv => HistoryTypeOK
  BY DEF HistoryInv
<1> QED
  BY <1>1, HistoryInvariant, PTL

(* One more element at most makes a finite set larger by one at most. *)
LEMMA OneMoreAtMost ==
  ASSUME NEW S, IsFiniteSet(S), NEW x, NEW T, T \subseteq S \cup {x}
  PROVE  Cardinality(T) <= Cardinality(S) + 1
<1>0. Cardinality(S) \in Nat
  BY FS_CardinalityType
<1>1. IsFiniteSet(S \cup {x}) /\ Cardinality(S \cup {x}) <= Cardinality(S) + 1
  BY <1>0, FS_AddElement
<1>2. Cardinality(T) <= Cardinality(S \cup {x}) /\ Cardinality(T) \in Nat
  BY <1>1, FS_Subset, FS_CardinalityType
<1>3. Cardinality(S \cup {x}) \in Nat
  BY <1>1, FS_CardinalityType
<1> QED
  BY <1>0, <1>1, <1>2, <1>3

(* What a handler's step does to claims and hand-overs, fault or none. *)
Delivers(h) == \E e \in 1..MaxCommits : HandOver(h, e)
Faulty(h) == RecordFails(h) \/ HandlerDies(h)

LEMMA ArrivalEffect ==
  ASSUME InboxTypeOK, NEW h \in Handlers, NEW e \in 1..MaxCommits, HandOver(h, e)
  PROVE  /\ At(h, "idle") /\ handler'[h] = [pc |-> "arrived", event |-> e]
         /\ \E f \in events : f.id = e
         /\ \A n \in 1..MaxCommits \ {e} : handed'[n] = handed[n]
         /\ UNCHANGED <<inbox, completed, versions, faults>>
BY DEF HandOver, Deliver, InboxTypeOK

LEMMA ClaimEffect ==
  ASSUME InboxTypeOK, NEW h \in Handlers, ClaimOrSkip(h)
  PROVE  /\ At(h, "arrived") /\ UNCHANGED <<handed, completed, versions, faults>>
         /\ \/ /\ inbox' = inbox \cup {handler[h].event}
               /\ handler'[h] = [pc |-> "working", event |-> handler[h].event]
            \/ handler[h].event \in inbox /\ inbox' = inbox /\ handler'[h] = Idle
<1>1. CASE Claim(h)
  <2>1. ~At(h, "idle") /\ Goto(h, "working") /\ "working" \in Steps
    BY <1>1 DEF Claim, At, Steps
  <2>2. handler' = [handler EXCEPT ![h] = [pc |-> "working", event |-> handler[h].event]]
    BY <2>1, HandlerGoes
  <2>3. handler'[h] = [pc |-> "working", event |-> handler[h].event]
    BY <2>2 DEF InboxTypeOK
  <2> QED
    BY <1>1, <2>3 DEF Claim, ClaimOrSkip
<1>2. CASE Skip(h)
  BY <1>2 DEF Skip, Unclaimed, Finish, ClaimOrSkip, InboxTypeOK
<1> QED
  BY <1>1, <1>2 DEF ClaimOrSkip

LEMMA ViolationEffect ==
  ASSUME InboxTypeOK, NEW h \in Handlers, RecordViolates(h)
  PROVE  /\ At(h, "working") /\ Violates(EventOf(h))
         /\ UNCHANGED <<inbox, handed, completed, versions, faults>>
         /\ handler'[h] = [pc |-> "releasing", event |-> handler[h].event]
<1>1. ~At(h, "idle") /\ Goto(h, "releasing") /\ "releasing" \in Steps
  BY DEF RecordViolates, Throw, AfterThrow, Checks, At, Steps
<1>2. handler' = [handler EXCEPT ![h] = [pc |-> "releasing", event |-> handler[h].event]]
  BY <1>1, HandlerGoes
<1>3. handler'[h] = [pc |-> "releasing", event |-> handler[h].event]
  BY <1>2 DEF InboxTypeOK
<1> QED
  BY <1>3 DEF RecordViolates, Throw

LEMMA ReleaseEffect ==
  ASSUME InboxTypeOK, NEW h \in Handlers, ReleaseClaim(h)
  PROVE  /\ At(h, "releasing") /\ inbox' = inbox \ {handler[h].event} /\ handler'[h] = Idle
         /\ UNCHANGED <<handed, completed, versions, faults>>
BY DEF ReleaseClaim, Release, Released, Finish, InboxTypeOK

LEMMA FaultEffect ==
  ASSUME HistoryTypeOK, NEW h \in Handlers, Faulty(h)
  PROVE  /\ faults' = faults + 1
         /\ UNCHANGED <<inbox, handed, completed>>
         /\ \/ handler'[h] = Idle
            \/ At(h, "working") /\ handler'[h] = [pc |-> "releasing", event |-> handler[h].event]
<1>1. CASE RecordFails(h)
  <2>1. ~At(h, "idle") /\ Goto(h, "releasing") /\ "releasing" \in Steps /\ InboxTypeOK
    BY <1>1 DEF RecordFails, Throw, AfterThrow, Checks, At, Steps, HistoryTypeOK
  <2>2. handler' = [handler EXCEPT ![h] = [pc |-> "releasing", event |-> handler[h].event]]
    BY <2>1, HandlerGoes
  <2>3. handler'[h] = [pc |-> "releasing", event |-> handler[h].event]
    BY <2>1, <2>2 DEF InboxTypeOK
  <2> QED
    BY <1>1, <2>3 DEF RecordFails, Fault, Throw
<1>2. CASE HandlerDies(h)
  BY <1>2 DEF HandlerDies, Fault, ReleaseFails, Die, Finish, HistoryTypeOK, InboxTypeOK
<1> QED
  BY <1>1, <1>2 DEF Faulty

(* A claim is left behind by a fault, and by nothing else. *)
LEMMA StrandedByFaults ==
  ASSUME HistoryInv, NEW h \in Handlers, HandlerMoves(h) \/ RecordVersion(h),
         Cardinality(Stranded) <= faults
  PROVE  Cardinality(Stranded') <= faults'
<1>0. /\ InboxTypeOK /\ HistoryTypeOK /\ faults \in Nat /\ Stranded \subseteq 1..MaxCommits
      /\ completed \in [1..MaxCommits -> Nat]
  <2>1. InboxTypeOK /\ HistoryTypeOK
    BY DEF HistoryInv, HistoryTypeOK
  <2>2. faults \in Nat
    BY <2>1, HistoryAssumption DEF HistoryTypeOK
  <2> QED
    BY <2>1, <2>2 DEF InboxTypeOK, Stranded
<1>1. IsFiniteSet(Stranded) /\ Cardinality(Stranded) \in Nat
  <2>1. IsFiniteSet(1..MaxCommits)
    BY EditingAssumption, FS_Interval
  <2>2. IsFiniteSet(Stranded)
    BY <1>0, <2>1, FS_Subset
  <2> QED
    BY <2>2, FS_CardinalityType
<1>2. \A g \in Handlers \ {h} : handler'[g] = handler[g]
  BY <1>0, HandlerEffect, RecordEffect
<1>3. ASSUME Stranded' \subseteq Stranded, faults' = faults
      PROVE  Cardinality(Stranded') <= faults'
  <2>1. Cardinality(Stranded') <= Cardinality(Stranded) /\ Cardinality(Stranded') \in Nat
    BY <1>1, <1>3, FS_Subset, FS_CardinalityType
  <2> QED
    BY <1>0, <1>1, <1>3, <2>1
<1>4. ASSUME NEW e \in 1..MaxCommits, HandOver(h, e) PROVE Stranded' \subseteq Stranded /\ faults' = faults
  <2>1. ~Owns(h)
    BY <1>0, <1>4, ArrivalEffect DEF Owns, At
  <2> QED
    BY <1>0, <1>2, <1>4, <2>1, ArrivalEffect DEF Stranded, Owns, At, Checks
<1>5. CASE ClaimOrSkip(h)
  <2>1. ~Owns(h) /\ UNCHANGED <<completed, faults>>
    BY <1>0, <1>5, ClaimEffect DEF Owns, At
  <2>2. CASE /\ inbox' = inbox \cup {handler[h].event}
             /\ handler'[h] = [pc |-> "working", event |-> handler[h].event]
    <3>1. Owns(h)' /\ handler'[h].event = handler[h].event
      BY <2>2 DEF Owns, At, Checks
    <3>2. handler[h].event \notin Stranded'
      BY <3>1 DEF Stranded
    <3> QED
      BY <1>2, <1>3, <2>1, <2>2, <3>2 DEF Stranded, Owns, At, Checks
  <2>3. CASE inbox' = inbox
    BY <1>2, <1>3, <2>1, <2>3 DEF Stranded, Owns, At, Checks
  <2> QED
    BY <1>0, <1>5, <2>2, <2>3, ClaimEffect
<1>6. CASE RecordViolates(h)
  <2>1. /\ handler'[h] = [pc |-> "releasing", event |-> handler[h].event]
        /\ UNCHANGED <<inbox, completed, faults>>
    BY <1>0, <1>6, ViolationEffect
  <2>2. Stranded' \subseteq Stranded
    BY <1>2, <2>1 DEF Stranded, Owns, At, Checks
  <2> QED
    BY <1>3, <2>1, <2>2
<1>7. CASE ReleaseClaim(h)
  <2>1. inbox' = inbox \ {handler[h].event} /\ UNCHANGED <<completed, faults>>
    BY <1>0, <1>7, ReleaseEffect
  <2>2. Stranded' \subseteq Stranded
    BY <1>2, <2>1 DEF Stranded, Owns, At, Checks
  <2> QED
    BY <1>3, <2>1, <2>2
<1>8. CASE RecordVersion(h)
  <2>1. completed' = [completed EXCEPT ![handler[h].event] = @ + 1]
        /\ handler[h].event \in 1..MaxCommits
    BY <1>0, <1>8, RecordEffect DEF RecordVersion, InboxTypeOK, At, Idle
  <2>2. inbox' = inbox /\ faults' = faults
    BY <1>8 DEF RecordVersion, Succeed
  <2>3. handler[h].event \notin Stranded'
    BY <1>0, <2>1 DEF Stranded
  <2>4. \A n \in 1..MaxCommits \ {handler[h].event} : completed'[n] = completed[n]
    BY <1>0, <2>1
  <2>5. Stranded' \subseteq Stranded
    <3>1. inbox \subseteq 1..MaxCommits
      BY <1>0 DEF InboxTypeOK
    <3>2. ASSUME NEW e \in Stranded' PROVE e \in Stranded
      <4>1. e \in inbox /\ e # handler[h].event /\ completed[e] = 0
        BY <2>2, <2>3, <2>4, <3>1, <3>2 DEF Stranded
      <4>2. ASSUME NEW g \in Handlers, Owns(g) PROVE handler[g].event # e
        <5>1. CASE g = h
          BY <4>1, <5>1
        <5>2. CASE g # h
          BY <1>2, <3>2, <4>2, <5>2 DEF Stranded, Owns, At, Checks
        <5> QED
          BY <5>1, <5>2
      <4> QED
        BY <4>1, <4>2 DEF Stranded
    <3> QED
      BY <3>2
  <2> QED
    BY <1>3, <2>2, <2>5
<1>9. CASE Faulty(h)
  <2>1. faults' = faults + 1 /\ UNCHANGED <<inbox, completed>>
    BY <1>0, <1>9, FaultEffect
  <2>2. ASSUME NEW e \in Stranded', e # handler[h].event PROVE e \in Stranded
    <3>1. ASSUME NEW g \in Handlers, Owns(g) PROVE handler[g].event # e
      <4>1. CASE g = h
        BY <2>2, <4>1
      <4>2. CASE g # h
        BY <1>2, <2>2, <3>1, <4>2 DEF Stranded, Owns, At, Checks
      <4> QED
        BY <4>1, <4>2
    <3> QED
      BY <2>1, <2>2, <3>1 DEF Stranded
  <2>3. Cardinality(Stranded') <= Cardinality(Stranded) + 1
    BY <1>1, <2>2, OneMoreAtMost
  <2>4. Cardinality(Stranded') \in Nat
    <3>1. IsFiniteSet(Stranded \cup {handler[h].event})
      BY <1>1, FS_AddElement
    <3>2. IsFiniteSet(Stranded')
      BY <2>2, <3>1, FS_Subset
    <3> QED
      BY <3>2, FS_CardinalityType
  <2> QED
    BY <1>0, <1>1, <2>1, <2>3, <2>4
<1> QED
  BY <1>3, <1>4, <1>5, <1>6, <1>7, <1>8, <1>9 DEF HandlerMoves, Faulty

(* A creation waits for nothing but its own handlers: of several copies one  *)
(* holds the claim until the version is recorded.                            *)
LEMMA CreationStaysUnderWay ==
  ASSUME HistoryInv, NEW h \in Handlers, HandlerMoves(h) \/ RecordVersion(h), CreationUnderWay
  PROVE  CreationUnderWay'
<1>0. InboxTypeOK /\ HistoryTypeOK /\ faults \in Nat
  BY HistoryAssumption DEF HistoryInv, HistoryTypeOK
<1>1. events' = events /\ \A g \in Handlers \ {h} : handler'[g] = handler[g]
  BY <1>0, HandlerEffect, RecordEffect DEF editVars
<1>2. SUFFICES ASSUME faults' = 0, ~Recorded(1)', NEW e \in events, e.type = "FeatureCreated"
               PROVE  /\ e.id \in 1..MaxCommits
                      /\ e.id \in inbox' =>
                           \E g \in Handlers : At(g, "working")' /\ handler'[g].event = e.id
                      /\ handed'[e.id] > 0 =>
                           \E g \in Handlers :
                             (At(g, "arrived")' \/ At(g, "working")') /\ handler'[g].event = e.id
  BY <1>1 DEF CreationUnderWay
<1>3. versions \subseteq versions'
  BY DEF HandlerMoves, HandOver, ClaimOrSkip, RecordVersion, RecordViolates, ReleaseClaim,
         RecordFails, HandlerDies
<1>4. ~Faulty(h) /\ ~Recorded(1)
  <2>1. Faulty(h) => faults' = faults + 1
    BY <1>0, FaultEffect
  <2> QED
    BY <1>0, <1>2, <1>3, <2>1 DEF Recorded
<1>5. faults = 0
  BY <1>2, <1>4 DEF HandlerMoves, HandOver, ClaimOrSkip, RecordVersion, RecordViolates,
         ReleaseClaim, Faulty
<1>6. /\ e.id \in 1..MaxCommits
      /\ e.id \in inbox => \E g \in Handlers : At(g, "working") /\ handler[g].event = e.id
      /\ handed[e.id] > 0 =>
           \E g \in Handlers : (At(g, "arrived") \/ At(g, "working")) /\ handler[g].event = e.id
  BY <1>2, <1>4, <1>5 DEF CreationUnderWay
<1>7. ~At(h, "idle") /\ handler[h].event = e.id => EventOf(h) = e
  BY EventAtHand DEF HistoryInv, EventsTrue
<1>8. ASSUME NEW d \in 1..MaxCommits, HandOver(h, d)
      PROVE  /\ e.id \in inbox' =>
                  \E g \in Handlers : At(g, "working")' /\ handler'[g].event = e.id
             /\ handed'[e.id] > 0 =>
                  \E g \in Handlers :
                    (At(g, "arrived")' \/ At(g, "working")') /\ handler'[g].event = e.id
  <2>1. /\ At(h, "idle") /\ handler'[h] = [pc |-> "arrived", event |-> d] /\ inbox' = inbox
        /\ \A n \in 1..MaxCommits \ {d} : handed'[n] = handed[n]
    BY <1>0, <1>8, ArrivalEffect
  <2> QED
    BY <1>1, <1>6, <2>1 DEF At
<1>9. CASE ClaimOrSkip(h)
  <2>1. At(h, "arrived") /\ handed' = handed
    BY <1>0, <1>9, ClaimEffect
  <2>2. CASE /\ inbox' = inbox \cup {handler[h].event}
             /\ handler'[h] = [pc |-> "working", event |-> handler[h].event]
    <3>1. CASE handler[h].event = e.id
      BY <1>6, <2>2, <3>1 DEF At
    <3>2. CASE handler[h].event # e.id
      BY <1>1, <1>6, <2>1, <2>2, <3>2 DEF At
    <3> QED
      BY <1>6, <3>1, <3>2
  <2>3. CASE handler[h].event \in inbox /\ inbox' = inbox /\ handler'[h] = Idle
    <3>1. CASE handler[h].event = e.id
      <4>1. PICK g \in Handlers : At(g, "working") /\ handler[g].event = e.id
        BY <1>6, <2>3, <3>1
      <4>2. g # h
        BY <2>1, <4>1 DEF At
      <4>3. At(g, "working")' /\ handler'[g].event = e.id
        BY <1>1, <4>1, <4>2 DEF At
      <4> QED
        BY <1>6, <4>3
    <3>2. CASE handler[h].event # e.id
      BY <1>1, <1>6, <2>1, <2>3, <3>2 DEF At
    <3> QED
      BY <3>1, <3>2
  <2> QED
    BY <1>0, <1>6, <1>9, <2>2, <2>3, ClaimEffect
<1>10. CASE RecordViolates(h)
  <2>1. handler[h].event # e.id
    <3>1. SUFFICES ASSUME EventOf(h) = e PROVE FALSE
      BY <1>0, <1>7, <1>10, ViolationEffect DEF At
    <3>2. Violates(e)
      BY <1>0, <1>10, <3>1, ViolationEffect
    <3>3. Inserted(e) = {Version(1, "created", e.content)} /\ Reads(e.type) \subseteq Carries(e.type)
      BY <1>2 DEF Inserted, Reads, Carries
    <3> QED
      BY <1>4, <3>2, <3>3 DEF Violates, Version
  <2> QED
    BY <1>0, <1>1, <1>6, <1>10, <2>1, ViolationEffect DEF At
<1>11. CASE ReleaseClaim(h)
  BY <1>0, <1>1, <1>6, <1>11, ReleaseEffect DEF At
<1>12. CASE RecordVersion(h)
  <2>1. At(h, "working") /\ ~Violates(EventOf(h)) /\ versions' = versions \cup Inserted(EventOf(h))
        /\ inbox' = inbox /\ handed' = handed
    BY <1>12 DEF RecordVersion, Succeed
  <2>2. handler[h].event # e.id
    <3>1. SUFFICES ASSUME EventOf(h) = e PROVE FALSE
      BY <1>7, <2>1 DEF At
    <3>2. Version(1, "created", e.content) \in versions'
      BY <1>2, <2>1, <3>1, InsertsNew
    <3> QED
      BY <1>2, <3>2 DEF Recorded, Version
  <2> QED
    BY <1>1, <1>6, <2>1, <2>2 DEF At
<1> QED
  BY <1>4, <1>6, <1>8, <1>9, <1>10, <1>11, <1>12 DEF HandlerMoves, Faulty

(* What claims and hand-overs there are belong to committed events. *)
LEMMA ClaimsStayCommitted ==
  ASSUME HistoryInv, NEW h \in Handlers, HandlerMoves(h) \/ RecordVersion(h), ClaimsCommitted
  PROVE  ClaimsCommitted'
<1>0. InboxTypeOK /\ HistoryTypeOK
  BY DEF HistoryInv, HistoryTypeOK
<1>1. events' = events
  BY <1>0, HandlerEffect, RecordEffect DEF editVars
<1>2. ~At(h, "idle") => \E e \in events : e.id = handler[h].event
  BY DEF HistoryInv, HandledCommitted
<1>3. ASSUME NEW n \in 1..MaxCommits, n \in inbox' \/ handed'[n] > 0, ~(n \in inbox \/ handed[n] > 0)
      PROVE  \E e \in events : e.id = n
  <2>1. ASSUME NEW d \in 1..MaxCommits, HandOver(h, d) PROVE \E e \in events : e.id = n
    BY <1>0, <1>3, <2>1, ArrivalEffect
  <2>2. CASE ClaimOrSkip(h)
    <3>1. ~At(h, "idle") /\ handed' = handed /\ inbox' \subseteq inbox \cup {handler[h].event}
      BY <1>0, <2>2, ClaimEffect DEF At
    <3> QED
      BY <1>2, <1>3, <3>1
  <2>3. CASE RecordViolates(h) \/ ReleaseClaim(h) \/ RecordVersion(h) \/ Faulty(h)
    <3>1. handed' = handed /\ inbox' \subseteq inbox
      BY <1>0, <2>3, ViolationEffect, ReleaseEffect, FaultEffect DEF RecordVersion, Succeed
    <3> QED
      BY <1>3, <3>1
  <2> QED
    BY <2>1, <2>2, <2>3 DEF HandlerMoves, Faulty
<1> QED
  BY <1>1, <1>3 DEF ClaimsCommitted

LEMMA LossInvariant == HistorySpec => []LossInv
<1>1. HistoryInit => LossInv
  <2> SUFFICES ASSUME HistoryInit PROVE LossInv
    OBVIOUS
  <2>1. inbox = {} /\ handed = [e \in 1..MaxCommits |-> 0] /\ events = {} /\ faults = 0
    BY DEF HistoryInit, EditInit, InboxInit
  <2>2. Cardinality(Stranded) = 0
    BY <2>1, FS_EmptySet DEF Stranded
  <2> QED
    BY <2>1, <2>2 DEF LossInv, ClaimsCommitted, CreationUnderWay
<1>2. ASSUME HistoryInv, LossInv, [HistoryNext]_historyVars PROVE LossInv'
  <2>1. ASSUME NEW h \in Handlers, HandlerMoves(h) \/ RecordVersion(h) PROVE LossInv'
    BY <1>2, <2>1, StrandedByFaults, CreationStaysUnderWay, ClaimsStayCommitted DEF LossInv
  <2>2. ASSUME UNCHANGED <<inbox, handler, handed, completed, faults>>, events \subseteq events',
               versions \subseteq versions',
               \A e \in events' \ events : e.type = "FeatureCreated" => events = {} /\ e.id \in 1..MaxCommits
        PROVE  LossInv'
    <3>1. Stranded' = Stranded
      BY <2>2 DEF Stranded, Owns, At, Checks
    <3>2. ClaimsCommitted'
      BY <1>2, <2>2 DEF LossInv, ClaimsCommitted
    <3>3. ~Recorded(1)' => ~Recorded(1)
      BY <2>2 DEF Recorded
    <3>4. ASSUME NEW e \in events' \ events, e.type = "FeatureCreated"
          PROVE  e.id \notin inbox /\ ~(handed[e.id] > 0)
      BY <1>2, <2>2, <3>4 DEF LossInv, ClaimsCommitted
    <3>5. CreationUnderWay'
      BY <1>2, <2>2, <3>3, <3>4 DEF LossInv, CreationUnderWay, At
    <3> QED
      BY <1>2, <2>2, <3>1, <3>2, <3>5 DEF LossInv
  <2>3. ASSUME NEW c \in Clients, Edit(c) PROVE LossInv'
    <3>1. UNCHANGED <<inbox, handler, handed, completed, faults, versions>>
      BY <2>3 DEF Edit, deliveryVars
    <3>2. EditRests \/ EditCreates \/ EditUpdates \/ EditDeletes
      BY <1>2, <2>3, EditEffect DEF Edit, HistoryInv, HistoryTypeOK
    <3>3. commits \in Nat /\ MaxCommits \in Nat
      BY <1>2, EditingAssumption DEF HistoryInv, HistoryTypeOK, EditTypeOK
    <3>4. EditCreates => events = {}
      BY <1>2 DEF EditCreates, HistoryInv, CreationFirst
    <3> QED
      BY <2>2, <3>1, <3>2, <3>3, <3>4
         DEF EditRests, EditCreates, EditUpdates, EditDeletes, Event
  <2>4. ASSUME NEW r \in Reverters,
               RevertReadsTarget(r) \/ RevertReadsRow(r) \/ RevertWrites(r) \/ RevertFails(r)
        PROVE  LossInv'
    BY <2>2, <2>4 DEF RevertReadsTarget, RevertReadsRow, RevertWrites, RevertFails,
                      editVars, deliveryVars
  <2>5. CASE UNCHANGED historyVars
    BY <2>2, <2>5 DEF historyVars, editVars, deliveryVars
  <2> QED
    BY <1>2, <2>1, <2>3, <2>4, <2>5 DEF HistoryNext, HandlerStep, HandlerMoves
<1> QED
  BY <1>1, <1>2, HistoryInvariant, PTL DEF HistorySpec

(* For any numbers of copies, handlers and faults: no more claims are left   *)
(* behind than faults occurred, and without faults a creation that was       *)
(* handed over is being handled or recorded.                                 *)
THEOREM LossesAreFaults == HistorySpec => []LossesNeedFaults
<1>1. LossInv => LossesNeedFaults
  BY DEF LossInv, LossesNeedFaults, CreationUnderWay, Handling, At
<1> QED
  BY <1>1, LossInvariant, PTL

(* The history is finite: a statement adds one snapshot at most. *)
LEMMA HistoryFinite == HistorySpec => []IsFiniteSet(versions)
<1>1. HistoryInit => IsFiniteSet(versions)
  BY FS_EmptySet DEF HistoryInit
<1>2. ASSUME HistoryInv, IsFiniteSet(versions), [HistoryNext]_historyVars
      PROVE  IsFiniteSet(versions)'
  <2>1. ASSUME NEW S, versions' = versions \cup S, \A x, y \in S : x = y
        PROVE  IsFiniteSet(versions)'
    <3>1. CASE S = {}
      BY <1>2, <2>1, <3>1
    <3>2. ASSUME NEW x \in S PROVE S = {x}
      BY <2>1
    <3> QED
      BY <1>2, <2>1, <3>1, <3>2, FS_AddElement
  <2>2. ASSUME NEW h \in Handlers, ~At(h, "idle"), ~Violates(EventOf(h)),
               versions' = versions \cup Inserted(EventOf(h))
        PROVE  IsFiniteSet(versions)'
    <3>1. PICK e \in events : e = EventOf(h)
      BY <1>2, <2>2, EventAtHand DEF HistoryInv
    <3>2. e.type \in EventTypes
      BY <1>2 DEF HistoryInv, HistoryTypeOK, EditTypeOK
    <3>3. \A x, y \in Inserted(e) : x = y
      <4>1. CASE e.type = "FeatureCreated"
        BY <1>2, <2>2, <3>1, <4>1, InsertsNew
      <4>2. CASE e.type = "FeatureDeleted"
        BY <1>2, <2>2, <3>1, <4>2, InsertsNew DEF HistoryInv, VersionsTrue
      <4> QED
        BY <1>2, <2>2, <3>1, <3>2, <4>1, <4>2, InsertsNew DEF EventTypes
    <3> QED
      BY <2>1, <2>2, <3>1, <3>3
  <2>3. ASSUME NEW r \in Reverters, RevertWrites(r) PROVE IsFiniteSet(versions)'
    BY <1>2, <2>3, FS_AddElement DEF RevertWrites, RevertedRow
  <2>4. \/ versions' = versions
        \/ \E h \in Handlers : /\ ~At(h, "idle") /\ ~Violates(EventOf(h))
                               /\ versions' = versions \cup Inserted(EventOf(h))
        \/ \E r \in Reverters : RevertWrites(r)
    BY <1>2 DEF HistoryNext, historyVars, Edit, HandlerStep, HandOver, ClaimOrSkip, RecordVersion,
                RecordViolates, ReleaseClaim, RecordFails, HandlerDies, Throw, At,
                RevertReadsTarget, RevertReadsRow, RevertFails
  <2> QED
    BY <1>2, <2>2, <2>3, <2>4
<1> QED
  BY <1>1, <1>2, HistoryInvariant, PTL DEF HistorySpec

(* The k-th snapshot is the one of rank k: ranks are the places 1, 2, ... and *)
(* no two snapshots share one.                                                *)
LEMMA RankIsAPlace ==
  ASSUME HistoryInv, IsFiniteSet(versions), NEW v \in versions
  PROVE  /\ Rank(v) \in 1..Cardinality(versions) /\ Cardinality(versions) \in Nat
         /\ \A w \in versions : Rank(w) = Rank(v) => w = v
<1> DEFINE UpTo(x) == {w \in versions : w.number <= x.number}
<1>0. \A w \in versions : w.number \in Nat
  BY DEF HistoryInv, HistoryTypeOK
<1>1. \A x \in versions : IsFiniteSet(UpTo(x)) /\ Cardinality(UpTo(x)) \in Nat
  BY FS_Subset, FS_CardinalityType
<1>2. Cardinality(versions) \in Nat /\ Cardinality(UpTo(v)) <= Cardinality(versions)
  BY FS_Subset, FS_CardinalityType
<1>3. Cardinality(UpTo(v)) # 0
  <2>1. v \in UpTo(v)
    BY <1>0
  <2> QED
    BY <1>1, <2>1, FS_EmptySet
<1>4. ASSUME NEW x \in versions, NEW y \in versions, x.number < y.number
      PROVE  Cardinality(UpTo(x)) # Cardinality(UpTo(y))
  <2>1. UpTo(x) \in SUBSET UpTo(y) /\ y \in UpTo(y) /\ y \notin UpTo(x)
    BY <1>0, <1>4
  <2> QED
    BY <1>1, <2>1, FS_Subset
<1>5. ASSUME NEW w \in versions, Rank(w) = Rank(v) PROVE w = v
  <2>1. w.number = v.number
    BY <1>0, <1>4, <1>5 DEF Rank
  <2> QED
    BY <2>1 DEF HistoryInv, VersionsTrue
<1> QED
  BY <1>1, <1>2, <1>3, <1>5 DEF Rank

LEMMA TimelineLists ==
  ASSUME HistoryInv, IsFiniteSet(versions)
  PROVE  /\ DOMAIN GetTimeline = 1..Cardinality(versions) /\ Len(GetTimeline) = Cardinality(versions)
         /\ \A v \in versions : GetTimeline[Rank(v)] = v
<1>1. Cardinality(versions) \in Nat
  BY FS_CardinalityType
<1>2. DOMAIN GetTimeline = 1..Cardinality(versions)
  BY DEF GetTimeline
<1>3. Len(GetTimeline) = Cardinality(versions)
  BY <1>1 DEF GetTimeline
<1>4. ASSUME NEW v \in versions PROVE GetTimeline[Rank(v)] = v
  <2>1. /\ Rank(v) \in 1..Cardinality(versions)
        /\ \A w \in versions : Rank(w) = Rank(v) => w = v
    BY <1>4, RankIsAPlace
  <2>2. GetTimeline[Rank(v)] = CHOOSE w \in versions : Rank(w) = Rank(v)
    BY <2>1 DEF GetTimeline
  <2> QED
    BY <1>4, <2>1, <2>2
<1> QED
  BY <1>2, <1>3, <1>4

(* What clients read of the history is true (differences) and complete       *)
(* (pages that tell of no more), whatever the order of events, duplicates,   *)
(* faults and reverts.                                                       *)
THEOREM HistoryTellsTruth == HistorySpec => []HistoryReadsBack
<1>1. ASSUME HistoryInv PROVE DiffsTell
  <2> SUFFICES ASSUME NEW v \in versions, NEW w \in versions
               PROVE  Was(v, DiffVersions(v.number, w.number).from)
                        /\ Was(w, DiffVersions(v.number, w.number).to)
    BY DEF DiffsTell
  <2>1. GetVersion(v.number) = v /\ GetVersion(w.number) = w
    BY <1>1 DEF HistoryInv, VersionsTrue, GetVersion
  <2> QED
    BY <1>1, <2>1 DEF HistoryInv, VersionsTrue, DiffVersions
<1>2. ASSUME HistoryInv, IsFiniteSet(versions) PROVE PagesTell
  <2> SUFFICES ASSUME NEW limit \in 1..MaxCommits, ~ListVersions(limit).hasMore, NEW v \in versions
               PROVE  \E k \in DOMAIN ListVersions(limit).data : ListVersions(limit).data[k] = v
    BY DEF PagesTell
  <2> DEFINE N == Cardinality(versions)
             newest == [k \in 1..N |-> GetTimeline[N + 1 - k]]
             data == IF Len(newest) > limit THEN SubSeq(newest, 1, limit) ELSE newest
  <2>1. N \in Nat /\ DOMAIN GetTimeline = 1..N /\ Len(GetTimeline) = N
    BY <1>2, TimelineLists, FS_CardinalityType
  <2>2. ListVersions(limit).data = data /\ ListVersions(limit).hasMore = (Len(data) = limit)
    BY <2>1 DEF ListVersions, HasMore
  <2>3. limit \in Nat /\ limit > 0
    BY EditingAssumption
  <2>4. DOMAIN newest = 1..N /\ Len(newest) = N
    BY <2>1
  <2>5. Len(newest) > limit => Len(SubSeq(newest, 1, limit)) = limit
    BY <2>1, <2>3, <2>4, SubSeqProperties
  <2>6. data = newest
    BY <2>2, <2>5
  <2>7. Rank(v) \in 1..N /\ GetTimeline[Rank(v)] = v
    BY <1>2, RankIsAPlace, TimelineLists
  <2>8. N + 1 - Rank(v) \in 1..N /\ newest[N + 1 - Rank(v)] = v
    <3>1. N + 1 - Rank(v) \in 1..N /\ N + 1 - (N + 1 - Rank(v)) = Rank(v)
      BY <2>1, <2>7
    <3> QED
      BY <2>7, <3>1
  <2> QED
    BY <2>2, <2>4, <2>6, <2>8
<1>3. HistoryInv /\ IsFiniteSet(versions) => HistoryReadsBack
  BY <1>1, <1>2 DEF HistoryReadsBack
<1> QED
  BY <1>3, HistoryInvariant, HistoryFinite, PTL

(* With reverts in turn, the steps that touch the row or the history         *)
(* keep the history behind the row and the row in agreement with it.         *)
Behind == HistoryBehindRow /\ RowMatchesHistory

LEMMA EditKeepsBehind ==
  ASSUME HistoryInv, Behind, NEW c \in Clients, Edit(c)
  PROVE  Behind'
<1>0. /\ row \in [state : {"none", "live", "deleted"}, version : Nat, content : Nat]
      /\ events \subseteq [id : Nat, type : EventTypes, version : Nat \ {0}, content : Nat]
      /\ \A v \in versions : v.number \in Nat
      /\ \A r \in Reverters : revert[r].pc = "writing" => revert[r].version \in Nat
  BY DEF HistoryInv, HistoryTypeOK, EditTypeOK, NoRevert
<1>1. versions' = versions /\ revert' = revert
  BY DEF Edit
<1>2. CASE EditRests
  BY <1>1, <1>2 DEF EditRests, Behind, HistoryBehindRow, RowMatchesHistory, Recorded
<1>3. CASE EditCreates
  <2>1. versions = {} /\ events = {} /\ \A r \in Reverters : revert[r].pc = "idle"
    BY <1>3 DEF EditCreates, HistoryInv, CreationFirst
  <2>2. /\ row'.version = 1 /\ row'.content = commits + 1
        /\ \A e \in events' : e.type = "FeatureCreated" /\ e.content = commits + 1
    BY <1>3, <2>1 DEF EditCreates, Event
  <2> QED
    BY <1>1, <2>1, <2>2 DEF Behind, HistoryBehindRow, RowMatchesHistory
<1>4. CASE EditUpdates
  <2>1. /\ row.version > 0 /\ row'.version = row.version + 1
        /\ \A e \in events' : e.type # "FeatureDeleted"
    <3>1. row.version > 0 /\ row'.version = row.version + 1
      BY <1>4 DEF EditUpdates, HistoryInv, CreationFirst
    <3>2. \A e \in events : e.type # "FeatureDeleted"
      BY <1>4 DEF EditUpdates, HistoryInv, EventsTrue
    <3>3. \A e \in events' : e \in events \/ e.type = "FeatureUpdated"
      BY <1>4 DEF EditUpdates, Event
    <3> QED
      BY <3>1, <3>2, <3>3
  <2>2. \A v \in versions : v.kind # "deleted" /\ v.number <= row.version
    BY <1>4 DEF EditUpdates, HistoryInv, EventsTrue, VersionsTrue, Behind, HistoryBehindRow
  <2> QED
    BY <1>0, <1>1, <2>1, <2>2 DEF Behind, HistoryBehindRow, RowMatchesHistory
<1>5. CASE EditDeletes
  <2>1. /\ row'.version = row.version /\ row'.content = row.content
        /\ \A e \in events : e.type # "FeatureDeleted"
    BY <1>5 DEF EditDeletes, HistoryInv, EventsTrue
  <2>2. \A e \in events' : \/ e \in events
                           \/ e.type = "FeatureDeleted" /\ e.version = row.version
    BY <1>5 DEF EditDeletes, Event
  <2>3. \A e \in events' : e.type = "FeatureDeleted" => e.version = row.version
    BY <2>1, <2>2
  <2>4. \A e \in events' : e.type = "FeatureCreated" => e \in events
    BY <2>2
  <2> QED
    BY <1>0, <1>1, <2>1, <2>3, <2>4 DEF Behind, HistoryBehindRow, RowMatchesHistory
<1> QED
  BY <1>2, <1>3, <1>4, <1>5, EditEffect DEF Edit, HistoryInv, HistoryTypeOK

LEMMA HandlerKeepsBehind ==
  ASSUME HistoryInv, Behind, NEW h \in Handlers, HandlerMoves(h) \/ RecordVersion(h)
  PROVE  Behind'
<1>0. /\ row.version \in Nat
      /\ \A e \in events : e.version \in Nat /\ e.type \in EventTypes
      /\ \A r \in Reverters : revert[r].pc = "writing" => revert[r].version \in Nat
  BY DEF HistoryInv, HistoryTypeOK, EditTypeOK, NoRevert
<1>1. UNCHANGED <<row, events, revert>>
  BY HandlerEffect, RecordEffect DEF HistoryInv, HistoryTypeOK, editVars
<1>2. \/ versions' = versions
      \/ /\ ~At(h, "idle") /\ ~Violates(EventOf(h))
         /\ versions' = versions \cup Inserted(EventOf(h))
  BY DEF HandlerMoves, HandOver, ClaimOrSkip, RecordVersion, RecordViolates, ReleaseClaim,
         RecordFails, HandlerDies, Throw, At
<1>3. CASE versions' = versions
  BY <1>1, <1>3 DEF Behind, HistoryBehindRow, RowMatchesHistory, Recorded
<1>4. CASE ~At(h, "idle") /\ ~Violates(EventOf(h)) /\ versions' = versions \cup Inserted(EventOf(h))
  <2>1. PICK e \in events : e = EventOf(h)
    BY <1>4, EventAtHand DEF HistoryInv
  <2>2. CASE e.type = "FeatureCreated"
    <3>1. PICK x : x = Version(1, "created", e.content)
      OBVIOUS
    <3>2. versions' = versions \cup {x} /\ x.number = 1 /\ x.kind = "created" /\ x.content = e.content
      BY <1>4, <2>1, <2>2, <3>1, InsertsNew DEF Version
    <3>3. /\ row.version >= 1
          /\ \A r \in Reverters : revert[r].pc = "writing" => revert[r].version > 1
          /\ row.version = 1 => x.content = row.content
      BY <1>0, <2>2, <3>2 DEF HistoryInv, CreationFirst, Behind, HistoryBehindRow
    <3> QED
      BY <1>0, <1>1, <3>2, <3>3 DEF Behind, HistoryBehindRow, RowMatchesHistory, Recorded
  <2>3. CASE e.type = "FeatureDeleted"
    <3>1. \A x \in Inserted(e) : ~Recorded(x.number) /\ x.number = e.version + 1 /\ x.kind = "deleted"
      BY <1>4, <2>1, <2>3, InsertsNew
    <3>2. \A x \in Inserted(e) : x.number > row.version /\ x.kind = "deleted"
      BY <1>0, <2>3, <3>1 DEF Behind, HistoryBehindRow
    <3>3. versions' = versions \cup Inserted(e)
      BY <1>4, <2>1
    <3> QED
      BY <1>0, <1>1, <3>2, <3>3 DEF Behind, HistoryBehindRow, RowMatchesHistory, Recorded
  <2> QED
    BY <1>0, <1>4, <2>1, <2>2, <2>3, InsertsNew DEF EventTypes
<1> QED
  BY <1>2, <1>3, <1>4

LEMMA RevertKeepsBehind ==
  ASSUME HistoryInv, Behind, RevertsInTurn, RevertsInTurn', NEW r \in Reverters,
         RevertReadsTarget(r) \/ RevertReadsRow(r) \/ RevertWrites(r) \/ RevertFails(r)
  PROVE  Behind'
<1>0. /\ row \in [state : {"none", "live", "deleted"}, version : Nat, content : Nat]
      /\ revert \in [Reverters -> {NoRevert} \cup
                       [pc : {"targeted", "writing"}, target : Nat \ {0}, version : Nat]]
      /\ \A v \in versions : v.number \in Nat
      /\ \A e \in events : e.version \in Nat
  BY DEF HistoryInv, HistoryTypeOK, EditTypeOK
<1>1. \A q \in Reverters : q # r => revert'[q] = revert[q]
  BY <1>0 DEF RevertReadsTarget, RevertReadsRow, RevertWrites, RevertFails
<1>2. CASE RevertReadsTarget(r)
  <2>1. revert'[r].pc = "targeted" /\ UNCHANGED <<row, events, versions>>
    BY <1>0, <1>2 DEF RevertReadsTarget, editVars
  <2> QED
    BY <1>0, <1>1, <2>1 DEF Behind, HistoryBehindRow, RowMatchesHistory, Recorded
<1>3. CASE RevertFails(r) \/ (RevertReadsRow(r) /\ row.state # "live")
  <2>1. revert'[r].pc = "idle" /\ UNCHANGED <<row, events, versions>>
    BY <1>0, <1>3 DEF RevertFails, RevertReadsRow, editVars, NoRevert
  <2> QED
    BY <1>0, <1>1, <2>1 DEF Behind, HistoryBehindRow, RowMatchesHistory, Recorded
<1>4. CASE RevertReadsRow(r) /\ row.state = "live"
  <2>1. UNCHANGED <<row, events, versions>> /\ \A e \in events : e.type # "FeatureDeleted"
    BY <1>4 DEF RevertReadsRow, editVars, HistoryInv, EventsTrue
  <2>2. revert'[r].version = row.version + 1
    <3>1. /\ revert[r] \in [pc : {"targeted", "writing"}, target : Nat \ {0}, version : Nat]
          /\ revert' = [revert EXCEPT ![r] = [revert[r] EXCEPT !.pc = "writing", !.version = row.version + 1]]
      <4>1. revert[r].pc = "targeted"
        BY <1>4 DEF RevertReadsRow
      <4>2. revert[r] \in [pc : {"targeted", "writing"}, target : Nat \ {0}, version : Nat]
        BY <1>0, <4>1 DEF NoRevert
      <4> QED
        BY <1>4, <4>2 DEF RevertReadsRow
    <3> QED
      BY <1>0, <3>1
  <2>3. \A q \in Reverters : revert'[q].pc = "writing" => q = r
    <3>1. revert'[r].pc = "writing"
      BY <1>0, <1>4 DEF RevertReadsRow, NoRevert
    <3> QED
      BY <3>1 DEF RevertsInTurn
  <2>4. \A v \in versions : v.kind # "deleted" /\ v.number <= row.version
    BY <2>1 DEF HistoryInv, VersionsTrue, Behind, HistoryBehindRow
  <2> QED
    BY <1>0, <2>1, <2>2, <2>4, <2>3 DEF Behind, HistoryBehindRow, RowMatchesHistory
<1>5. CASE RevertWrites(r)
  <2>1. PICK n : n = revert[r].version
    OBVIOUS
  <2>2. PICK x : x = Version(n, "revert", Target(r).content)
    OBVIOUS
  <2>3. n \in Nat /\ n > 1 /\ ~Recorded(n) /\ revert[r].pc = "writing"
    BY <1>0, <1>5, <2>1 DEF RevertWrites, NoRevert, HistoryInv, CreationFirst
  <2>4. /\ row'.version = n /\ row'.content = x.content /\ events' = events
        /\ versions' = versions \cup {x} /\ x.number = n /\ x.kind = "revert"
        /\ revert'[r].pc = "idle"
    BY <1>0, <1>5, <2>1, <2>2 DEF RevertWrites, RevertedRow, Version, NoRevert
  <2>5. \A q \in Reverters : revert'[q].pc # "writing"
    <3>1. \A q \in Reverters : revert[q].pc = "writing" => q = r
      BY <2>3 DEF RevertsInTurn
    <3> QED
      BY <1>1, <2>4, <3>1
  <2>6. \A v \in versions : IF v.kind = "deleted" THEN v.number > n ELSE v.number < n
    <3>1. \A v \in versions : v.kind # "deleted" => v.number < n
      BY <2>1, <2>3 DEF Behind, HistoryBehindRow
    <3>2. ASSUME NEW v \in versions, v.kind = "deleted" PROVE v.number > n
      <4>1. PICK e \in events : e.type = "FeatureDeleted" /\ v.number = e.version + 1
        BY <3>2 DEF HistoryInv, VersionsTrue
      <4>2. n <= e.version + 1
        BY <2>1, <2>3, <4>1 DEF Behind, HistoryBehindRow
      <4>3. v.number # n
        BY <2>3 DEF Recorded
      <4> QED
        BY <1>0, <2>3, <4>1, <4>2, <4>3
    <3> QED
      BY <3>1, <3>2
  <2>7. \A e \in events : e.type = "FeatureDeleted" => n <= e.version + 1
    BY <2>1, <2>3 DEF Behind, HistoryBehindRow
  <2>8. Recorded(row.version)'
    BY <2>4 DEF Recorded
  <2>9. (\A v \in versions :
           IF v.kind = "deleted" THEN v.number > row.version ELSE v.number <= row.version)'
    BY <1>0, <2>3, <2>4, <2>6
  <2>10. RowMatchesHistory'
    BY <1>0, <2>3, <2>4, <2>6 DEF RowMatchesHistory
  <2> QED
    BY <1>0, <2>3, <2>4, <2>7, <2>8, <2>9, <2>10, <2>5 DEF Behind, HistoryBehindRow
<1> QED
  BY <1>2, <1>3, <1>4, <1>5

(* As long as no revert reads the row while another is about to write it, the *)
(* row and its history agree on the row's current version, whatever edits,     *)
(* deletions, duplicates and faults come between the steps of the reverts and  *)
(* of the handlers, and however many callers revert.                           *)
THEOREM RowAgreesInTurn == HistorySpec /\ []RevertsInTurn => []RowMatchesHistory
<1>1. HistoryInit => Behind
  <2> SUFFICES ASSUME HistoryInit PROVE Behind
    OBVIOUS
  <2>1. versions = {} /\ events = {} /\ \A r \in Reverters : revert[r].pc = "idle"
    BY DEF HistoryInit, EditInit, NoRevert
  <2> QED
    BY <2>1 DEF Behind, HistoryBehindRow, RowMatchesHistory
<1>2. ASSUME HistoryInv, Behind, RevertsInTurn, RevertsInTurn', [HistoryNext]_historyVars
      PROVE  Behind'
  <2>1. CASE UNCHANGED historyVars
    BY <1>2, <2>1 DEF historyVars, editVars, Behind, HistoryBehindRow, RowMatchesHistory, Recorded
  <2>2. ASSUME NEW h \in Handlers,
               \/ \E e \in 1..MaxCommits : HandOver(h, e)
               \/ HandlerStep(h) \/ RecordFails(h) \/ HandlerDies(h)
        PROVE  HandlerMoves(h) \/ RecordVersion(h)
    BY <2>2 DEF HandlerStep, HandlerMoves
  <2> QED
    BY <1>2, <2>1, <2>2, EditKeepsBehind, HandlerKeepsBehind, RevertKeepsBehind DEF HistoryNext
<1>3. Behind => RowMatchesHistory
  BY DEF Behind
<1> QED
  BY <1>1, <1>2, <1>3, HistoryInvariant, PTL DEF HistorySpec

(* So it is where a single caller reverts, as in the run. *)
THEOREM RowAgreesWithHistory == OneReverter => (HistorySpec => []RowMatchesHistory)
<1> SUFFICES ASSUME OneReverter PROVE HistorySpec => []RowMatchesHistory
  OBVIOUS
<1>1. RevertsInTurn
  BY DEF OneReverter, RevertsInTurn
<1> QED
  BY <1>1, RowAgreesInTurn, PTL

(* Handlers write no row: without reverts, the composition behaves for its   *)
(* clients as the features API alone does, and all that is proved of         *)
(* EditSpec holds of it.                                                     *)
THEOREM HistoryImplementsEditing == Reverters = {} => (HistorySpec => EditSpec)
<1> SUFFICES ASSUME Reverters = {} PROVE HistorySpec => EditSpec
  OBVIOUS
<1>1. HistoryInit => EditInit
  BY DEF HistoryInit
<1>2. ASSUME [HistoryNext]_historyVars PROVE [EditNext]_editVars
  <2>1. ASSUME NEW c \in Clients, Edit(c) PROVE EditNext
    BY <2>1 DEF Edit, EditNext
  <2>2. ASSUME NEW h \in Handlers,
               \/ \E e \in 1..MaxCommits : HandOver(h, e)
               \/ HandlerStep(h) \/ RecordFails(h) \/ HandlerDies(h)
        PROVE  UNCHANGED editVars
    BY <2>2 DEF HandlerStep, HandOver, ClaimOrSkip, RecordVersion, RecordViolates, ReleaseClaim,
                RecordFails, HandlerDies
  <2>3. CASE UNCHANGED historyVars
    BY <2>3 DEF historyVars
  <2> QED
    BY <1>2, <2>1, <2>2, <2>3 DEF HistoryNext
<1> QED
  BY <1>1, <1>2, PTL DEF HistorySpec, EditSpec

(* The three event handlers run under processOnce and touch its variables in *)
(* no other way, and edits and reverts leave them alone: all that is proved  *)
(* of InboxSpec (one handler of an event at a time, none to its end twice)   *)
(* holds of the composition.                                                 *)
THEOREM HistoryImplementsInbox == HistorySpec => InboxSpec
<1>1. HistoryInit => InboxInit
  BY DEF HistoryInit
<1>2. ASSUME [HistoryNext]_historyVars PROVE [InboxNext]_inboxVars
  <2>1. ASSUME NEW h \in Handlers, NEW e \in 1..MaxCommits, HandOver(h, e) PROVE InboxNext
    BY <2>1 DEF HandOver, InboxNext
  <2>2. ASSUME NEW h \in Handlers, HandlerStep(h) \/ RecordFails(h) \/ HandlerDies(h)
        PROVE  InboxNext
    <3>1. InboxStep(h) \/ Die(h)
      BY <2>2 DEF HandlerStep, ClaimOrSkip, RecordVersion, RecordViolates, ReleaseClaim,
                  RecordFails, HandlerDies, InboxStep
    <3> QED
      BY <3>1 DEF InboxNext
  <2>3. ASSUME \/ \E c \in Clients : Edit(c)
               \/ \E r \in Reverters : RevertReadsTarget(r) \/ RevertReadsRow(r)
                                         \/ RevertWrites(r) \/ RevertFails(r)
               \/ UNCHANGED historyVars
        PROVE  UNCHANGED inboxVars
    BY <2>3 DEF Edit, RevertReadsTarget, RevertReadsRow, RevertWrites, RevertFails,
                historyVars, deliveryVars, inboxVars
  <2> QED
    BY <1>2, <2>1, <2>2, <2>3 DEF HistoryNext
<1> QED
  BY <1>1, <1>2, PTL DEF HistorySpec, InboxSpec

(* The handler of updates reads a field that no event carries: whatever the  *)
(* order, the duplicates and the faults, no update ever gets its snapshot.   *)
THEOREM NoUpdateRecorded == HistorySpec => [](\A v \in versions : v.kind # "updated")
<1> DEFINE NoUpdate == \A v \in versions : v.kind # "updated"
<1>1. HistoryInit => NoUpdate
  BY DEF HistoryInit
<1>2. ASSUME HistoryInv, NoUpdate, [HistoryNext]_historyVars PROVE NoUpdate'
  <2>1. ASSUME NEW h \in Handlers, ~At(h, "idle"), ~Violates(EventOf(h)),
               versions' = versions \cup Inserted(EventOf(h))
        PROVE  NoUpdate'
    <3>1. PICK e \in events : e = EventOf(h)
      BY <1>2, <2>1, EventAtHand DEF HistoryInv
    <3>2. e.type \in EventTypes
      BY <1>2 DEF HistoryInv, HistoryTypeOK, EditTypeOK
    <3>3. \A x \in Inserted(e) : x.kind \in {"created", "deleted"}
      BY <1>2, <2>1, <3>1, <3>2, InsertsNew DEF EventTypes, Version
    <3> QED
      BY <1>2, <2>1, <3>1, <3>3
  <2>2. ASSUME NEW r \in Reverters, RevertWrites(r) PROVE NoUpdate'
    BY <1>2, <2>2 DEF RevertWrites, RevertedRow, Version
  <2>3. \/ versions' = versions
        \/ \E h \in Handlers : /\ ~At(h, "idle") /\ ~Violates(EventOf(h))
                               /\ versions' = versions \cup Inserted(EventOf(h))
        \/ \E r \in Reverters : RevertWrites(r)
    BY <1>2 DEF HistoryNext, historyVars, Edit, HandlerStep, HandOver, ClaimOrSkip, RecordVersion,
                RecordViolates, ReleaseClaim, RecordFails, HandlerDies, Throw, At,
                RevertReadsTarget, RevertReadsRow, RevertFails
  <2> QED
    BY <1>2, <2>1, <2>2, <2>3
<1> QED
  BY <1>1, <1>2, HistoryInvariant, PTL DEF HistorySpec
------------------------------------------------------------------------------
(* The outbox's promise, seen from versioning: an event of the row is        *)
(* accepted with it, and needs no further delivery once a handler of it has  *)
(* returned, for the inbox then skips every copy.                            *)
Accepted == {e.id : e \in events}
Handled == {n \in 1..MaxCommits : completed[n] > 0}

Contract == INSTANCE EventDelivery
  WITH Ids <- 1..MaxCommits, accepted <- Accepted, delivered <- Handled, buried <- {},
       copies <- handed

(* Who is busy with an event was handed it. *)
BusyHanded == \A h \in Handlers : ~At(h, "idle") => handed[handler[h].event] > 0

(* What a step of a handler does to the deliveries. *)
LEMMA HandedStep ==
  ASSUME InboxTypeOK, NEW h \in Handlers, HandlerMoves(h) \/ RecordVersion(h)
  PROVE  \/ \E e \in Accepted \cap 1..MaxCommits :
              /\ handed' = [handed EXCEPT ![e] = @ + 1] /\ completed' = completed
              /\ ~At(h, "idle")' => handler'[h].event = e
         \/ /\ handed' = handed
            /\ ~At(h, "idle")' => ~At(h, "idle") /\ handler'[h].event = handler[h].event
<1>1. ASSUME NEW e \in 1..MaxCommits, HandOver(h, e)
      PROVE  /\ e \in Accepted /\ handed' = [handed EXCEPT ![e] = @ + 1] /\ completed' = completed
             /\ handler'[h].event = e
  BY <1>1 DEF HandOver, Deliver, Accepted, InboxTypeOK
<1>2. CASE \/ ClaimOrSkip(h) \/ RecordViolates(h) \/ ReleaseClaim(h) \/ RecordVersion(h)
           \/ RecordFails(h) \/ HandlerDies(h)
  <2>1. handed' = handed
    BY <1>2 DEF ClaimOrSkip, Claim, Skip, RecordViolates, RecordFails, Throw, ReleaseClaim, Release,
                RecordVersion, Succeed, HandlerDies, ReleaseFails, Die
  <2>2. CASE Finish(h)
    <3>1. handler'[h].pc = "idle"
      BY <2>2 DEF Finish, InboxTypeOK, Idle
    <3> QED
      BY <2>1, <3>1 DEF At
  <2>3. ASSUME ~At(h, "idle"), NEW pc \in Steps, Goto(h, pc)
        PROVE  handler'[h].event = handler[h].event
    <3>1. handler' = [handler EXCEPT ![h] = [pc |-> pc, event |-> handler[h].event]]
      BY <2>3, HandlerGoes
    <3> QED
      BY <3>1 DEF InboxTypeOK
  <2>4. Finish(h) \/ (~At(h, "idle") /\ \E pc \in Steps : Goto(h, pc))
    BY <1>2 DEF ClaimOrSkip, Claim, Skip, RecordViolates, RecordFails, Throw, AfterThrow, Checks,
                ReleaseClaim, Release, RecordVersion, Succeed, HandlerDies, ReleaseFails, Die,
                At, Steps
  <2> QED
    BY <2>1, <2>2, <2>3, <2>4
<1> QED
  BY <1>1, <1>2 DEF HandlerMoves

(* A handler's step is a delivery, a settlement or neither. *)
LEMMA HandlerDelivers ==
  ASSUME HistoryInv, BusyHanded, NEW h \in Handlers, HandlerMoves(h) \/ RecordVersion(h)
  PROVE  BusyHanded' /\ [Contract!Next]_(Contract!vars)
<1>0. InboxTypeOK
  BY DEF HistoryInv, HistoryTypeOK
<1>1. /\ InboxTypeOK' /\ UNCHANGED events
      /\ \A g \in Handlers \ {h} : handler'[g] = handler[g]
  BY <1>0, HandlerEffect, RecordEffect DEF editVars
<1>2. Accepted' = Accepted
  BY <1>1 DEF Accepted
<1>3. ASSUME NEW e \in Accepted \cap 1..MaxCommits,
             handed' = [handed EXCEPT ![e] = @ + 1], completed' = completed,
             ~At(h, "idle")' => handler'[h].event = e
      PROVE  BusyHanded' /\ Contract!Next
  <2>1. /\ \A n \in 1..MaxCommits : handed'[n] \in Nat /\ handed'[n] >= handed[n]
        /\ handed'[e] > 0
    BY <1>0, <1>3 DEF InboxTypeOK
  <2>2. ASSUME NEW g \in Handlers, ~At(g, "idle")' PROVE handed'[handler'[g].event] > 0
    <3>1. CASE g = h
      BY <1>3, <2>1, <2>2, <3>1
    <3>2. CASE g # h
      <4>1. handler'[g] = handler[g] /\ ~At(g, "idle")
        BY <1>1, <2>2, <3>2 DEF At
      <4>2. handler[g].event \in 1..MaxCommits /\ handed[handler[g].event] > 0
        BY <1>0, <4>1 DEF BusyHanded, InboxTypeOK, At, Idle
      <4>3. handed[handler[g].event] \in Nat
        BY <1>0, <4>2 DEF InboxTypeOK
      <4> QED
        BY <2>1, <4>1, <4>2, <4>3
    <3> QED
      BY <3>1, <3>2
  <2>3. Handled' = Handled
    BY <1>3 DEF Handled
  <2>4. Contract!HandOver(e)
    BY <1>2, <1>3, <2>3 DEF Contract!HandOver
  <2> QED
    BY <1>3, <2>2, <2>4 DEF BusyHanded, Contract!Next
<1>4. ASSUME handed' = handed,
             ~At(h, "idle")' => ~At(h, "idle") /\ handler'[h].event = handler[h].event
      PROVE  BusyHanded' /\ [Contract!Next]_(Contract!vars)
  <2>1. BusyHanded'
    <3> SUFFICES ASSUME NEW g \in Handlers, ~At(g, "idle")' PROVE handed'[handler'[g].event] > 0
      BY DEF BusyHanded
    <3>1. ~At(g, "idle") /\ handler'[g].event = handler[g].event
      BY <1>1, <1>4 DEF At
    <3> QED
      BY <1>4, <3>1 DEF BusyHanded
  <2>2. CASE completed' = completed
    <3>1. Handled' = Handled
      BY <2>2 DEF Handled
    <3> QED
      BY <1>2, <1>4, <2>1, <3>1 DEF Contract!vars
  <2>3. CASE RecordVersion(h)
    <3>1. PICK n \in 1..MaxCommits : n = handler[h].event /\ ~At(h, "idle")
      BY <1>0, <2>3 DEF RecordVersion, InboxTypeOK, At, Idle
    <3>2. completed' = [completed EXCEPT ![n] = @ + 1]
      BY <1>0, <2>3, <3>1, RecordEffect
    <3>3. Handled' = Handled \cup {n}
      BY <1>0, <3>2 DEF InboxTypeOK, Handled
    <3>4. n \in Accepted /\ handed[n] > 0
      BY <3>1 DEF BusyHanded, HistoryInv, HandledCommitted, Accepted
    <3>5. CASE n \in Handled
      <4>1. Handled' = Handled
        BY <3>3, <3>5
      <4> QED
        BY <1>2, <1>4, <2>1, <4>1 DEF Contract!vars
    <3>6. CASE n \notin Handled
      <4>1. Contract!Settle({n}, {})
        BY <1>2, <1>4, <3>3, <3>4, <3>6 DEF Contract!Settle, Contract!Settled
      <4>2. {n} \in SUBSET (1..MaxCommits) /\ {} \in SUBSET (1..MaxCommits)
        OBVIOUS
      <4> QED
        BY <2>1, <4>1, <4>2 DEF Contract!Next
    <3> QED
      BY <3>5, <3>6
  <2> QED
    BY <1>0, <2>2, <2>3, HandlerEffect
<1> QED
  BY <1>0, <1>3, <1>4, HandedStep

(* An edit commits one event with the row, or none. *)
LEMMA EditAccepts ==
  ASSUME HistoryInv, NEW c \in Clients, Edit(c)
  PROVE  [Contract!Next]_(Contract!vars)
<1>1. EditTypeOK /\ EventsTrue /\ commits \in Nat
  BY DEF HistoryInv, HistoryTypeOK, EditTypeOK
<1>2. EditStep(c) /\ handed' = handed /\ completed' = completed
  BY DEF Edit, deliveryVars
<1>3. Handled' = Handled
  BY <1>2 DEF Handled
<1>4. CASE EditRests
  BY <1>2, <1>3, <1>4 DEF EditRests, Accepted, Contract!vars
<1>5. CASE EditCreates \/ EditUpdates \/ EditDeletes
  <2>1. PICK new : new.id = commits + 1 /\ events' = events \cup {new} /\ commits < MaxCommits
    BY <1>5 DEF EditCreates, EditUpdates, EditDeletes, Event
  <2>2. commits + 1 \in 1..MaxCommits
    BY <1>1, <2>1, EditingAssumption
  <2>3. Accepted' = Accepted \cup {commits + 1}
    BY <2>1 DEF Accepted
  <2>4. commits + 1 \notin Accepted
    BY <1>1 DEF EventsTrue, Accepted
  <2>5. Contract!Accept(commits + 1)
    BY <1>2, <1>3, <2>2, <2>3, <2>4 DEF Contract!Accept
  <2> QED
    BY <2>2, <2>5 DEF Contract!Next
<1> QED
  BY <1>1, <1>2, <1>4, <1>5, EditEffect

(* Delivered at least once by the outbox and recorded under processOnce, an  *)
(* event of the feature is accepted once, settled once, never unsettled, and *)
(* only after it was handed over: versioning is a client that the contract   *)
(* of the outbox allows for, whatever order, copies, reverts and faults.     *)
THEOREM HistoryImplementsDelivery == HistorySpec => Contract!SafeSpec
<1>1. HistoryInit => Contract!Init /\ BusyHanded
  <2> SUFFICES ASSUME HistoryInit PROVE Contract!Init /\ BusyHanded
    OBVIOUS
  <2>1. /\ events = {} /\ handed = [n \in 1..MaxCommits |-> 0]
        /\ completed = [n \in 1..MaxCommits |-> 0] /\ handler = [h \in Handlers |-> Idle]
    BY DEF HistoryInit, EditInit, InboxInit
  <2> QED
    BY <2>1 DEF Contract!Init, BusyHanded, Accepted, Handled, At, Idle
<1>2. ASSUME HistoryInv, BusyHanded, [HistoryNext]_historyVars
      PROVE  BusyHanded' /\ [Contract!Next]_(Contract!vars)
  <2>1. ASSUME NEW c \in Clients, Edit(c) PROVE BusyHanded' /\ [Contract!Next]_(Contract!vars)
    <3>1. BusyHanded'
      BY <1>2, <2>1 DEF Edit, deliveryVars, BusyHanded, At
    <3> QED
      BY <1>2, <2>1, <3>1, EditAccepts
  <2>2. ASSUME NEW h \in Handlers,
               \/ \E e \in 1..MaxCommits : HandOver(h, e)
               \/ HandlerStep(h) \/ RecordFails(h) \/ HandlerDies(h)
        PROVE  BusyHanded' /\ [Contract!Next]_(Contract!vars)
    <3>1. HandlerMoves(h) \/ RecordVersion(h)
      BY <2>2 DEF HandlerStep, HandlerMoves
    <3> QED
      BY <1>2, <3>1, HandlerDelivers
  <2>3. ASSUME \/ \E r \in Reverters : RevertReadsTarget(r) \/ RevertReadsRow(r)
                                         \/ RevertWrites(r) \/ RevertFails(r)
               \/ UNCHANGED historyVars
        PROVE  BusyHanded' /\ UNCHANGED Contract!vars
    <3>1. UNCHANGED <<events, handler, handed, completed>>
      BY <2>3 DEF RevertReadsTarget, RevertReadsRow, RevertWrites, RevertFails, historyVars,
                  deliveryVars, editVars
    <3> QED
      BY <1>2, <3>1 DEF BusyHanded, At, Accepted, Handled, Contract!vars
  <2> QED
    BY <1>2, <2>1, <2>2, <2>3 DEF HistoryNext
<1> QED
  BY <1>1, <1>2, HistoryInvariant, PTL DEF HistorySpec, Contract!SafeSpec
==============================================================================
