------------------------ MODULE TrackingSessionsProofs ------------------------
(***************************************************************************)
(* What survives the lost updates of TrackingSessions for every set of     *)
(* sessions, devices, concurrent calls and batches.                        *)
(***************************************************************************)
EXTENDS TrackingSessions, FiniteSetTheorems, TLAPS

(* An entity in memory, in the terms of its call. *)
LEMMA CallFields ==
  ASSUME TypeOK, NEW k \in Calls
  PROVE  /\ Running(k, "starting") => call[k].device \in Devices
         /\ Running(k, "storing") \/ Running(k, "saving") =>
              /\ call[k].session \in Sessions /\ call[k].entity \in Entities
              /\ call[k].points \in BatchSizes
         /\ Running(k, "storing") => call[k].time \in Times
         /\ Running(k, "ending") =>
              call[k].session \in Sessions /\ call[k].entity \in Entities
BY DEF TypeOK, CallStates, Running, NoCall

(* Another request's call state. *)
LEMMA CallStep ==
  ASSUME TypeOK, NEW k \in Calls, NEW next \in CallStates, Goto(k, next),
         next.pc = "storing" => next.entity.status = "active"
  PROVE  /\ call' \in [Calls -> CallStates]
         /\ \A j \in Calls : Running(j, "storing")' => call'[j].entity.status = "active"
         /\ call'[k] = next /\ \A j \in Calls \ {k} : call'[j] = call[j]
BY DEF TypeOK, Goto, Running

LEMMA BeginStep ==
  ASSUME TypeOK, NEW k \in Calls, NEW d \in Devices, NEW next, Begin(k, d, next)
  PROVE  Goto(k, next) /\ overlapped' \subseteq Devices
BY DEF Begin, TypeOK

(* The entity after updateLatestLocation. *)
LEMMA LocatedEntity ==
  ASSUME NEW entity \in Entities, NEW n \in BatchSizes, NEW t \in Times
  PROVE  /\ Located(entity, n, t) \in Entities
         /\ Located(entity, n, t).total = entity.total + n
<1>1. n \in Nat /\ entity.total \in Nat
  BY TrackingAssumption DEF Entities
<1> DEFINE total == entity.total + n
           lastAt == IF t > entity.lastAt THEN t ELSE entity.lastAt
<1>2. total \in Nat /\ lastAt \in Times \cup {NoTime}
  BY <1>1 DEF Entities
<1>3. Located(entity, n, t) = [entity EXCEPT !.total = total, !.lastAt = lastAt]
  BY DEF Located
<1> HIDE DEF total, lastAt
<1>4. Located(entity, n, t) \in Entities /\ Located(entity, n, t).total = total
  BY <1>2, <1>3 DEF Entities
<1> QED
  BY <1>4 DEF total

(* Every variable keeps its type. *)
THEOREM TypeCorrect == Spec => []TypeOK
<1>1. Init => TypeOK
  <2> SUFFICES ASSUME Init PROVE TypeOK
    OBVIOUS
  <2> QED
    BY DEF Init, TypeOK, CallStates, Running, NoCall
<1>2. TypeOK /\ [Next]_vars => TypeOK'
  <2> SUFFICES ASSUME TypeOK, [Next]_vars PROVE TypeOK'
    OBVIOUS
  <2>0. NoCall \in CallStates /\ NoCall.pc = "idle"
    BY DEF CallStates, NoCall
  <2>1. ASSUME NEW k \in Calls, StartChecks(k) PROVE TypeOK'
    <3>1. PICK d \in Devices : Begin(k, d, [pc |-> "starting", device |-> d])
      BY <2>1 DEF StartChecks
    <3>2. [pc |-> "starting", device |-> d] \in CallStates
      BY DEF CallStates
    <3> QED
      BY <2>1, <3>1, <3>2, BeginStep, CallStep DEF StartChecks, TypeOK
  <2>2. ASSUME NEW k \in Calls, StartSaves(k) PROVE TypeOK'
    <3>1. NewSession(call[k].device) \in Entities
      BY <2>2, CallFields DEF StartSaves, NewSession, Entities
    <3> QED
      BY <2>0, <2>2, <3>1, CallStep DEF StartSaves, TypeOK
  <2>3. ASSUME NEW k \in Calls, IngestReads(k) PROVE TypeOK'
    <3>1. PICK s \in Sessions, n \in BatchSizes, t \in Times :
            /\ IsActive(s)
            /\ Begin(k, row[s].device, [pc |-> "storing", session |-> s, entity |-> row[s],
                                        points |-> n, time |-> t])
      BY <2>3 DEF IngestReads
    <3>2. row[s] \in Entities /\ row[s].status = "active" /\ row[s].device \in Devices
      BY <3>1 DEF IsActive, TypeOK, Absent, Entities
    <3>3. [pc |-> "storing", session |-> s, entity |-> row[s], points |-> n, time |-> t]
            \in CallStates
      BY <3>2 DEF CallStates
    <3> QED
      BY <2>3, <3>1, <3>2, <3>3, BeginStep, CallStep DEF IngestReads, TypeOK
  <2>4. ASSUME NEW k \in Calls, IngestStores(k) PROVE TypeOK'
    <3> DEFINE c == call[k]
               next == [pc |-> "saving", session |-> c.session, points |-> c.points,
                        entity |-> Located(c.entity, c.points, c.time)]
    <3>1. /\ c.session \in Sessions /\ c.entity \in Entities
          /\ c.points \in BatchSizes /\ c.time \in Times
      BY <2>4, CallFields DEF IngestStores
    <3>2. next \in CallStates
      BY <3>1, LocatedEntity DEF CallStates
    <3>3. Goto(k, next) /\ next.pc = "saving"
      BY <2>4 DEF IngestStores
    <3>4. stored' \in [Sessions -> Nat]
      <4>1. c.points \in Nat /\ stored[c.session] \in Nat
        BY <3>1, TrackingAssumption DEF TypeOK
      <4>2. Batched(stored[c.session], c.points) \in Nat
        BY <4>1 DEF Batched
      <4>3. stored' = [stored EXCEPT ![c.session] = Batched(stored[c.session], c.points)]
        BY <2>4 DEF IngestStores
      <4> HIDE DEF c
      <4> QED
        BY <4>2, <4>3 DEF TypeOK
    <3> QED
      BY <2>4, <3>2, <3>3, <3>4, CallStep DEF IngestStores, TypeOK
  <2>5. ASSUME NEW k \in Calls, IngestSaves(k) PROVE TypeOK'
    <3>1. /\ call[k].session \in Sessions /\ call[k].entity \in Entities
          /\ call[k].points \in Nat
      BY <2>5, CallFields, TrackingAssumption DEF IngestSaves
    <3>2. row' \in [Sessions -> {Absent} \cup Entities] /\ accepted' \in [Sessions -> Nat]
      BY <2>5, <3>1 DEF IngestSaves, TypeOK
    <3> QED
      BY <2>0, <2>5, <3>2, CallStep DEF IngestSaves, TypeOK
  <2>6. ASSUME NEW k \in Calls, EndReads(k) PROVE TypeOK'
    <3>1. PICK s \in Sessions :
            /\ IsActive(s)
            /\ Begin(k, row[s].device, [pc |-> "ending", session |-> s, entity |-> Ended(row[s])])
      BY <2>6 DEF EndReads
    <3>2. row[s] \in Entities /\ row[s].device \in Devices
      BY <3>1 DEF IsActive, TypeOK, Absent, Entities
    <3>3. [pc |-> "ending", session |-> s, entity |-> Ended(row[s])] \in CallStates
      BY <3>2 DEF CallStates, Entities, Ended
    <3> QED
      BY <2>6, <3>1, <3>2, <3>3, BeginStep, CallStep DEF EndReads, TypeOK
  <2>7. ASSUME NEW k \in Calls, EndSaves(k) PROVE TypeOK'
    <3>1. call[k].session \in Sessions /\ call[k].entity \in Entities
      BY <2>7, CallFields DEF EndSaves
    <3> QED
      BY <2>0, <2>7, <3>1, CallStep DEF EndSaves, TypeOK
  <2>8. ASSUME NEW k \in Calls, CallFails(k) PROVE TypeOK'
    BY <2>0, <2>8, CallStep DEF CallFails, TypeOK
  <2>9. CASE UNCHANGED vars
    BY <2>9 DEF vars, TypeOK, Running
  <2> QED
    BY <2>1, <2>2, <2>3, <2>4, <2>5, <2>6, <2>7, <2>8, <2>9 DEF Next
<1> QED
  BY <1>1, <1>2, PTL DEF Spec

(* The counters never run ahead of the stored points: every entity in memory *)
(* was covered when it was read, and points are only ever added.             *)
THEOREM TotalsBacked == Spec => []TotalsBackedByPoints
<1> DEFINE Inv == TotalsBackedByPoints /\ EntitiesBacked
<1>1. Init => Inv
  BY DEF Init, TotalsBackedByPoints, EntitiesBacked, Absent, NoCall
<1>2. TypeOK /\ TypeOK' /\ Inv /\ [Next]_vars => Inv'
  <2> SUFFICES ASSUME TypeOK, TypeOK', Inv, [Next]_vars PROVE Inv'
    OBVIOUS
  <2>a. ASSUME stored' = stored,
               \A s \in Sessions : row'[s].total <= stored[s],
               \A k \in Calls : \/ call'[k] = call[k]
                                \/ call'[k].pc \notin {"storing", "saving", "ending"}
                                \/ call'[k].entity.total <= stored[call'[k].session]
        PROVE  Inv'
    BY <2>a DEF TotalsBackedByPoints, EntitiesBacked
  <2>1. ASSUME NEW k \in Calls, StartChecks(k) PROVE Inv'
    <3>1. \A j \in Calls : call'[j] = call[j] \/ call'[j].pc = "starting"
      BY <2>1 DEF StartChecks, Begin, Goto, TypeOK
    <3> QED
      BY <2>1, <2>a, <3>1 DEF StartChecks, TotalsBackedByPoints
  <2>2. ASSUME NEW k \in Calls, StartSaves(k) PROVE Inv'
    <3>1. \A j \in Calls : call'[j] = call[j] \/ call'[j].pc = "idle"
      BY <2>2 DEF StartSaves, Goto, TypeOK, NoCall
    <3>2. \A s \in Sessions : row'[s].total <= stored[s]
      BY <2>2 DEF StartSaves, TypeOK, TotalsBackedByPoints, NewSession
    <3> QED
      BY <2>2, <2>a, <3>1, <3>2 DEF StartSaves
  <2>3. ASSUME NEW k \in Calls, IngestReads(k) PROVE Inv'
    <3>1. PICK s \in Sessions, n \in BatchSizes, t \in Times :
            Goto(k, [pc |-> "storing", session |-> s, entity |-> row[s],
                     points |-> n, time |-> t])
      BY <2>3 DEF IngestReads, Begin
    <3>2. \A j \in Calls : \/ call'[j] = call[j]
                           \/ call'[j].entity = row[s] /\ call'[j].session = s
      BY <3>1 DEF Goto, TypeOK
    <3> QED
      BY <2>3, <2>a, <3>2 DEF IngestReads, TotalsBackedByPoints
  <2>4. ASSUME NEW k \in Calls, IngestStores(k) PROVE Inv'
    <3> DEFINE c == call[k]
    <3>1. /\ c.session \in Sessions /\ c.entity \in Entities
          /\ c.points \in BatchSizes /\ c.time \in Times
      BY <2>4, CallFields DEF IngestStores
    <3>2. c.points \in Nat /\ c.entity.total \in Nat /\ c.entity.total <= stored[c.session]
      BY <2>4, <3>1, TrackingAssumption DEF EntitiesBacked, IngestStores, Running, Entities
    <3>3. /\ call'[k].entity = Located(c.entity, c.points, c.time)
          /\ call'[k].session = c.session
          /\ \A j \in Calls \ {k} : call'[j] = call[j]
      BY <2>4, <3>1 DEF IngestStores, Goto, TypeOK
    <3>4. /\ stored'[c.session] = stored[c.session] + c.points
          /\ \A s \in Sessions : stored[s] <= stored'[s]
      BY <2>4, <3>1, <3>2 DEF IngestStores, Batched, TypeOK
    <3>5. call'[k].entity.total <= stored'[call'[k].session]
      BY <3>1, <3>2, <3>3, <3>4, LocatedEntity DEF TypeOK
    <3>6. \A s \in Sessions : row[s].total \in Nat
      BY DEF TypeOK, Absent, Entities
    <3>7. TotalsBackedByPoints'
      BY <2>4, <3>4, <3>6 DEF IngestStores, TotalsBackedByPoints, TypeOK
    <3>8. ASSUME NEW j \in Calls \ {k}, call[j].pc \in {"storing", "saving", "ending"}
          PROVE  call[j].entity.total <= stored'[call[j].session]
      <4>1. call[j].session \in Sessions /\ call[j].entity.total \in Nat
        BY <3>8, CallFields DEF Running, Entities
      <4>2. call[j].entity.total <= stored[call[j].session]
        BY <3>8 DEF EntitiesBacked
      <4> QED
        BY <3>4, <4>1, <4>2 DEF TypeOK
    <3> QED
      BY <3>3, <3>5, <3>7, <3>8 DEF EntitiesBacked
  <2>5. ASSUME NEW k \in Calls, IngestSaves(k) \/ EndSaves(k) PROVE Inv'
    <3>1. \A j \in Calls : call'[j] = call[j] \/ call'[j].pc = "idle"
      BY <2>5 DEF IngestSaves, EndSaves, Goto, TypeOK, NoCall
    <3>2. call[k].entity.total <= stored[call[k].session]
      BY <2>5 DEF IngestSaves, EndSaves, Running, EntitiesBacked
    <3>3. \A s \in Sessions : row'[s].total <= stored[s]
      BY <2>5, <3>2 DEF IngestSaves, EndSaves, TypeOK, TotalsBackedByPoints
    <3> QED
      BY <2>5, <2>a, <3>1, <3>3 DEF IngestSaves, EndSaves
  <2>6. ASSUME NEW k \in Calls, EndReads(k) PROVE Inv'
    <3>1. PICK s \in Sessions :
            /\ IsActive(s)
            /\ Goto(k, [pc |-> "ending", session |-> s, entity |-> Ended(row[s])])
      BY <2>6 DEF EndReads, Begin
    <3>2. row[s] \in Entities /\ row[s].device \in Devices
      BY <3>1 DEF IsActive, TypeOK, Absent, Entities
    <3>3. \A j \in Calls : \/ call'[j] = call[j]
                           \/ call'[j].entity = Ended(row[s]) /\ call'[j].session = s
      BY <3>1 DEF Goto, TypeOK
    <3>4. Ended(row[s]).total = row[s].total
      BY <3>2 DEF Ended, Entities
    <3> QED
      BY <2>6, <2>a, <3>3, <3>4 DEF EndReads, TotalsBackedByPoints
  <2>7. ASSUME NEW k \in Calls, CallFails(k) PROVE Inv'
    <3>1. \A j \in Calls : call'[j] = call[j] \/ call'[j].pc = "idle"
      BY <2>7 DEF CallFails, Goto, TypeOK, NoCall
    <3> QED
      BY <2>7, <2>a, <3>1 DEF CallFails, TotalsBackedByPoints
  <2>8. CASE UNCHANGED vars
    BY <2>8 DEF vars, TotalsBackedByPoints, EntitiesBacked
  <2> QED
    BY <2>1, <2>2, <2>3, <2>4, <2>5, <2>6, <2>7, <2>8 DEF Next
<1> QED
  BY <1>1, <1>2, TypeCorrect, PTL DEF Spec

------------------------------------------------------------------------------
(* Points stored and not answered yet, counted one by one. *)

(* The points of one ingest. *)
PointsOf(k, n) == {k} \X (1..n)

LEMMA PointsCounted ==
  ASSUME NEW k, NEW n \in Nat
  PROVE  IsFiniteSet(PointsOf(k, n)) /\ Cardinality(PointsOf(k, n)) = n
<1>1. IsFiniteSet({k}) /\ Cardinality({k}) = 1
  BY FS_Singleton
<1>2. IsFiniteSet(1..n) /\ Cardinality(1..n) = n
  BY FS_Interval
<1> DEFINE S == {k}
           T == 1..n
<1> HIDE DEF S, T
<1>3. IsFiniteSet(S) /\ Cardinality(S) = 1 /\ IsFiniteSet(T) /\ Cardinality(T) = n
  BY <1>1, <1>2 DEF S, T
<1>4. IsFiniteSet(S \X T) /\ Cardinality(S \X T) = Cardinality(S) * Cardinality(T)
  BY <1>3, FS_Product
<1>5. IsFiniteSet(S \X T) /\ Cardinality(S \X T) = n
  BY <1>3, <1>4
<1> QED
  BY <1>5 DEF PointsOf, S, T

(* They join the unanswered ones, or leave them. *)
LEMMA JoinOthers ==
  ASSUME NEW S, IsFiniteSet(S), NEW k, NEW n \in Nat, S \cap PointsOf(k, n) = {}
  PROVE  /\ IsFiniteSet(S \cup PointsOf(k, n)) /\ Cardinality(S) \in Nat
         /\ Cardinality(S \cup PointsOf(k, n)) = Cardinality(S) + n
<1>1. IsFiniteSet(PointsOf(k, n)) /\ Cardinality(PointsOf(k, n)) = n
  BY PointsCounted
<1>2. Cardinality(S) \in Nat
  BY FS_CardinalityType
<1>3. /\ IsFiniteSet(S \cup PointsOf(k, n))
      /\ Cardinality(S \cup PointsOf(k, n))
           = Cardinality(S) + Cardinality(PointsOf(k, n)) - Cardinality(S \cap PointsOf(k, n))
  BY <1>1, FS_Union
<1>4. Cardinality(S \cap PointsOf(k, n)) = 0
  BY FS_EmptySet
<1> QED
  BY <1>1, <1>2, <1>3, <1>4

(* What is unanswered of a session, call by call. *)
LEMMA UnansweredOf ==
  ASSUME NEW s \in Sessions
  PROVE  \A u : u \in Unanswered(s) <=>
           \E k \in Calls : /\ Running(k, "saving") /\ call[k].session = s
                            /\ u \in PointsOf(k, call[k].points)
BY DEF Unanswered, Saving, PointsOf

(* A step that begins or ends no saving leaves it as it is. *)
LEMMA UnansweredSame ==
  ASSUME \A k \in Calls : \/ call'[k] = call[k]
                          \/ call[k].pc # "saving" /\ call'[k].pc # "saving"
  PROVE  \A s \in Sessions : Unanswered(s)' = Unanswered(s)
<1> SUFFICES ASSUME NEW s \in Sessions PROVE Unanswered(s)' = Unanswered(s)
  OBVIOUS
<1>1. Saving(s)' = Saving(s) /\ \A k \in Saving(s) : call'[k] = call[k]
  BY DEF Saving, Running
<1>2. ASSUME NEW u PROVE u \in Unanswered(s)' <=> u \in Unanswered(s)
  BY <1>1 DEF Unanswered
<1> QED
  BY <1>2

(* An ingest that stores its points leaves them unanswered.  (Session and    *)
(* points are those of the call before the step.)                            *)
LEMMA StoresUnanswered ==
  ASSUME TypeOK, NEW k \in Calls, IngestStores(k), NEW t \in Sessions, t = call[k].session,
         NEW n, n = call[k].points
  PROVE  /\ Unanswered(t)' = Unanswered(t) \cup PointsOf(k, n)
         /\ Unanswered(t) \cap PointsOf(k, n) = {}
         /\ \A s \in Sessions \ {t} : Unanswered(s)' = Unanswered(s)
<1>1. /\ call[k].pc = "storing" /\ call'[k].pc = "saving" /\ call'[k].session = t /\ call'[k].points = n
      /\ \A j \in Calls \ {k} : call'[j] = call[j]
  BY DEF IngestStores, Goto, Running, TypeOK
<1>2. Saving(t)' = Saving(t) \cup {k} /\ k \notin Saving(t)
  BY <1>1 DEF Saving, Running
<1>3. \A s \in Sessions \ {t} : Saving(s)' = Saving(s) /\ k \notin Saving(s)
  BY <1>1 DEF Saving, Running
<1>4. \A s \in Sessions \ {t} : Unanswered(s)' = Unanswered(s)
  <2> SUFFICES ASSUME NEW s \in Sessions \ {t} PROVE Unanswered(s)' = Unanswered(s)
    OBVIOUS
  <2>1. \A j \in Saving(s) : call'[j] = call[j]
    BY <1>1, <1>3 DEF Saving
  <2>2. ASSUME NEW u PROVE u \in Unanswered(s)' <=> u \in Unanswered(s)
    BY <1>3, <2>1 DEF Unanswered
  <2> QED
    BY <2>2
<1>5. \A j \in Saving(t) : call'[j] = call[j]
  BY <1>1, <1>2 DEF Saving
<1>6. ASSUME NEW u PROVE u \in Unanswered(t)' <=> u \in Unanswered(t) \cup PointsOf(k, n)
  BY <1>1, <1>2, <1>5 DEF Unanswered, PointsOf
<1>7. Unanswered(t) \cap PointsOf(k, n) = {}
  BY <1>2 DEF Unanswered, PointsOf
<1> QED
  BY <1>4, <1>6, <1>7

(* A call that saved, answered its points; one that failed, never will. *)
LEMMA LeavesUnanswered ==
  ASSUME TypeOK, NEW k \in Calls, Running(k, "saving"), Goto(k, NoCall),
         NEW t \in Sessions, t = call[k].session, NEW n, n = call[k].points
  PROVE  /\ Unanswered(t) = Unanswered(t)' \cup PointsOf(k, n)
         /\ Unanswered(t)' \cap PointsOf(k, n) = {}
         /\ \A s \in Sessions \ {t} : Unanswered(s)' = Unanswered(s)
<1>1. /\ call[k].pc = "saving" /\ call'[k].pc = "idle"
      /\ \A j \in Calls \ {k} : call'[j] = call[j]
  BY DEF Goto, Running, TypeOK, NoCall
<1>2. Saving(t) = Saving(t)' \cup {k} /\ k \notin Saving(t)'
  BY <1>1 DEF Saving, Running
<1>3. \A s \in Sessions \ {t} : Saving(s)' = Saving(s) /\ k \notin Saving(s)
  BY <1>1 DEF Saving, Running
<1>4. \A s \in Sessions \ {t} : Unanswered(s)' = Unanswered(s)
  <2> SUFFICES ASSUME NEW s \in Sessions \ {t} PROVE Unanswered(s)' = Unanswered(s)
    OBVIOUS
  <2>1. \A j \in Saving(s) : call'[j] = call[j]
    BY <1>1, <1>3 DEF Saving
  <2>2. ASSUME NEW u PROVE u \in Unanswered(s)' <=> u \in Unanswered(s)
    BY <1>3, <2>1 DEF Unanswered
  <2> QED
    BY <2>2
<1>5. \A j \in Saving(t)' : call'[j] = call[j]
  BY <1>1, <1>2 DEF Saving
<1>6. ASSUME NEW u PROVE u \in Unanswered(t) <=> u \in Unanswered(t)' \cup PointsOf(k, n)
  BY <1>1, <1>2, <1>5 DEF Unanswered, PointsOf
<1>7. Unanswered(t)' \cap PointsOf(k, n) = {}
  BY <1>2 DEF Unanswered, PointsOf
<1> QED
  BY <1>4, <1>6, <1>7

(* A call that neither stores nor leaves a saving changes nothing there. *)
LEMMA OtherStepsUnanswered ==
  ASSUME TypeOK, NEW k \in Calls, NEW next, Goto(k, next), next.pc # "saving", call[k].pc # "saving"
  PROVE  \A s \in Sessions : Unanswered(s)' = Unanswered(s)
<1>1. \A j \in Calls : \/ call'[j] = call[j]
                       \/ call[j].pc # "saving" /\ call'[j].pc # "saving"
  BY DEF Goto, TypeOK
<1> QED
  BY <1>1, UnansweredSame

LEMMA AnswersCoveredStep ==
  ASSUME TypeOK, AnswersCovered, [Next]_vars
  PROVE  AnswersCovered'
<1>0. /\ stored \in [Sessions -> Nat] /\ accepted \in [Sessions -> Nat]
      /\ \A s \in Sessions : /\ IsFiniteSet(Unanswered(s)) /\ Cardinality(Unanswered(s)) \in Nat
                             /\ accepted[s] + Cardinality(Unanswered(s)) <= stored[s]
      /\ NoCall.pc = "idle"
  BY FS_CardinalityType DEF TypeOK, AnswersCovered, NoCall
<1>a. ASSUME UNCHANGED <<stored, accepted>>, \A s \in Sessions : Unanswered(s)' = Unanswered(s)
      PROVE  AnswersCovered'
  BY <1>0, <1>a DEF AnswersCovered
<1>1. ASSUME NEW k \in Calls, StartChecks(k) \/ IngestReads(k) \/ EndReads(k) PROVE AnswersCovered'
  <2>1. /\ UNCHANGED <<stored, accepted>> /\ call[k].pc # "saving"
        /\ \E next : next.pc # "saving" /\ Goto(k, next)
    BY <1>1 DEF StartChecks, IngestReads, EndReads, Begin, Running
  <2> QED
    BY <1>a, <2>1, OtherStepsUnanswered
<1>2. ASSUME NEW k \in Calls,
             StartSaves(k) \/ EndSaves(k) \/ (CallFails(k) /\ ~Running(k, "saving"))
      PROVE AnswersCovered'
  <2>1. UNCHANGED <<stored, accepted>> /\ call[k].pc # "saving" /\ Goto(k, NoCall)
    BY <1>2 DEF StartSaves, EndSaves, CallFails, Running
  <2> QED
    BY <1>0, <1>a, <2>1, OtherStepsUnanswered
<1>3. ASSUME NEW k \in Calls, IngestStores(k) PROVE AnswersCovered'
  <2>1. PICK t \in Sessions, n \in Nat : t = call[k].session /\ n = call[k].points
    BY <1>3, CallFields, TrackingAssumption DEF IngestStores
  <2>2. /\ stored'[t] = stored[t] + n /\ accepted' = accepted
        /\ \A s \in Sessions \ {t} : stored'[s] = stored[s]
    BY <1>0, <1>3, <2>1 DEF IngestStores, Batched
  <2>3. /\ Unanswered(t)' = Unanswered(t) \cup PointsOf(k, n)
        /\ Unanswered(t) \cap PointsOf(k, n) = {}
        /\ \A s \in Sessions \ {t} : Unanswered(s)' = Unanswered(s)
    BY <1>3, <2>1, StoresUnanswered
  <2>4. /\ IsFiniteSet(Unanswered(t)')
        /\ Cardinality(Unanswered(t)') = Cardinality(Unanswered(t)) + n
    BY <1>0, <2>3, JoinOthers
  <2>6. ASSUME NEW s \in Sessions
        PROVE  /\ IsFiniteSet(Unanswered(s)')
               /\ accepted'[s] + Cardinality(Unanswered(s)') <= stored'[s]
    <3>1. CASE s = t
      BY <1>0, <2>2, <2>3, <2>4, <3>1
    <3>2. CASE s # t
      BY <1>0, <2>2, <2>3, <2>4, <3>2
    <3> QED
      BY <3>1, <3>2
  <2> QED
    BY <2>6 DEF AnswersCovered
<1>4. ASSUME NEW k \in Calls, IngestSaves(k) \/ (CallFails(k) /\ Running(k, "saving"))
      PROVE  AnswersCovered'
  <2>1. PICK t \in Sessions, n \in Nat : t = call[k].session /\ n = call[k].points
    BY <1>4, CallFields, TrackingAssumption DEF IngestSaves
  <2>2. /\ stored' = stored
        /\ accepted'[t] = accepted[t] \/ accepted'[t] = accepted[t] + n
        /\ \A s \in Sessions \ {t} : accepted'[s] = accepted[s]
    BY <1>0, <1>4, <2>1 DEF IngestSaves, CallFails
  <2>3. /\ Unanswered(t) = Unanswered(t)' \cup PointsOf(k, n)
        /\ Unanswered(t)' \cap PointsOf(k, n) = {}
        /\ \A s \in Sessions \ {t} : Unanswered(s)' = Unanswered(s)
    BY <1>4, <2>1, LeavesUnanswered DEF IngestSaves, CallFails
  <2>4. IsFiniteSet(Unanswered(t)')
    BY <1>0, <2>3, FS_Subset
  <2>5. /\ Cardinality(Unanswered(t)') \in Nat
        /\ Cardinality(Unanswered(t)) = Cardinality(Unanswered(t)') + n
    BY <2>3, <2>4, JoinOthers
  <2>6. ASSUME NEW s \in Sessions
        PROVE  /\ IsFiniteSet(Unanswered(s)')
               /\ accepted'[s] + Cardinality(Unanswered(s)') <= stored'[s]
    <3>1. CASE s = t
      <4>1. /\ accepted[t] \in Nat /\ stored'[t] \in Nat
            /\ accepted[t] + Cardinality(Unanswered(t)) <= stored'[t]
        BY <1>0, <2>2
      <4> QED
        BY <2>1, <2>2, <2>4, <2>5, <3>1, <4>1
    <3>2. CASE s # t
      BY <1>0, <2>2, <2>3, <2>4, <2>5, <3>2
    <3> QED
      BY <3>1, <3>2
  <2> QED
    BY <2>6 DEF AnswersCovered
<1>5. CASE UNCHANGED vars
  BY <1>5, <1>a, UnansweredSame DEF vars
<1> QED
  BY <1>1, <1>2, <1>3, <1>4, <1>5 DEF Next

LEMMA NothingUnanswered ==
  ASSUME \A k \in Calls : Running(k, "idle"), NEW s \in Sessions
  PROVE  IsFiniteSet(Unanswered(s)) /\ Cardinality(Unanswered(s)) = 0
<1>1. Unanswered(s) = {}
  BY DEF Unanswered, Saving, Running
<1> QED
  BY <1>1, FS_EmptySet

LEMMA AnswersCounted == Spec => []AnswersCovered
<1>1. Init => AnswersCovered
  <2> SUFFICES ASSUME Init PROVE AnswersCovered
    OBVIOUS
  <2>1. \A k \in Calls : Running(k, "idle")
    BY DEF Init, NoCall, Running
  <2> QED
    BY <2>1, NothingUnanswered DEF Init, AnswersCovered
<1> QED
  BY <1>1, AnswersCoveredStep, TypeCorrect, PTL DEF Spec

(* A point answered with 202 is stored, however calls overlap, overwrite     *)
(* each other's totals and fail.                                             *)
THEOREM AcceptedAreStored == Spec => []AcceptedPointsStored
<1>1. TypeOK /\ AnswersCovered => AcceptedPointsStored
  <2> SUFFICES ASSUME TypeOK, AnswersCovered, NEW s \in Sessions PROVE accepted[s] <= stored[s]
    BY DEF AcceptedPointsStored
  <2>1. /\ accepted[s] \in Nat /\ stored[s] \in Nat /\ Cardinality(Unanswered(s)) \in Nat
        /\ accepted[s] + Cardinality(Unanswered(s)) <= stored[s]
    BY FS_CardinalityType DEF TypeOK, AnswersCovered
  <2> QED
    BY <2>1
<1> QED
  BY <1>1, AnswersCounted, TypeCorrect, PTL

------------------------------------------------------------------------------
(* Calls in turn. *)

(* Times, no time and batch sizes are natural numbers.                       *)
LEMMA Natural ==
  /\ \A t \in Times \cup {NoTime} : t \in Nat
  /\ \A n \in BatchSizes : n \in Nat
<1>1. 0 \in Nat /\ \A i \in Nat \ {0} : i \in Nat
  OBVIOUS
<1>2. \A t \in Times : t \in Nat
  BY <1>1, TrackingAssumption, Zenon
<1>3. \A n \in BatchSizes : n \in Nat
  BY <1>1, TrackingAssumption, Zenon
<1> QED
  BY <1>1, <1>2, <1>3, Zenon DEF NoTime

(* updateLatestLocation keeps whose session it is and moves no clock back. *)
LEMMA LocatedKeeps ==
  ASSUME NEW entity \in Entities, NEW n \in BatchSizes, NEW t \in Times
  PROVE  /\ Located(entity, n, t).status = entity.status
         /\ Located(entity, n, t).device = entity.device
         /\ Located(entity, n, t).lastAt >= entity.lastAt
<1>1. n \in Nat /\ entity.total \in Nat /\ t \in Nat /\ entity.lastAt \in Nat
  BY Natural DEF Entities
<1> DEFINE total == entity.total + n
           lastAt == IF t > entity.lastAt THEN t ELSE entity.lastAt
<1>2. total \in Nat /\ lastAt \in Nat /\ lastAt >= entity.lastAt
  BY <1>1
<1>3. Located(entity, n, t) = [entity EXCEPT !.total = total, !.lastAt = lastAt]
  BY DEF Located
<1> HIDE DEF total, lastAt
<1>4. /\ Located(entity, n, t).status = entity.status
      /\ Located(entity, n, t).device = entity.device
      /\ Located(entity, n, t).lastAt = lastAt
  BY <1>3 DEF Entities
<1> QED
  BY <1>2, <1>4

LEMMA EndedKeeps ==
  ASSUME NEW entity \in Entities
  PROVE  /\ Ended(entity).status = "ended" /\ Ended(entity).total = entity.total
         /\ Ended(entity).lastAt = entity.lastAt /\ Ended(entity).device = entity.device
BY DEF Ended, Entities

LEMMA RowTypes ==
  ASSUME TypeOK, NEW s \in Sessions
  PROVE  /\ row[s].total \in Nat /\ row[s].lastAt \in Nat
         /\ IsActive(s) => row[s] \in Entities
         /\ row[s].status = "absent" => row[s] = Absent
         /\ row[s].device \in Devices => row[s].status # "absent"
         /\ row[s].device \in Devices \cup {NoDevice}
<1>1. row[s] \in {Absent} \cup Entities
  BY DEF TypeOK
<1>2. CASE row[s] = Absent
  BY <1>2, TrackingAssumption DEF Absent, NoTime, IsActive
<1>3. CASE row[s] \in Entities
  <2>1. /\ row[s].total \in Nat /\ row[s].lastAt \in Times \cup {NoTime}
        /\ row[s].status \in {"active", "ended"} /\ row[s].device \in Devices
    BY <1>3 DEF Entities
  <2>2. row[s].lastAt \in Nat
    BY <2>1, Natural
  <2> QED
    BY <1>3, <2>1, <2>2
<1> QED
  BY <1>1, <1>2, <1>3

LEMMA GoesTo ==
  ASSUME TypeOK, NEW k \in Calls, NEW next, Goto(k, next)
  PROVE  call'[k] = next /\ \A j \in Calls \ {k} : call'[j] = call[j]
BY DEF Goto, TypeOK

Acts(k) ==
  \/ StartChecks(k) \/ StartSaves(k)
  \/ IngestReads(k) \/ IngestStores(k) \/ IngestSaves(k)
  \/ EndReads(k) \/ EndSaves(k)
  \/ CallFails(k)

(* What a step of call k about device d leaves to other calls and devices. *)
About(k, d) ==
  /\ \A j \in Calls \ {k} : call'[j] = call[j]
  /\ ~Running(k, "idle") => DeviceOf(k) = d
  /\ ~Running(k, "idle")' => DeviceOf(k)' = d
  /\ \A s \in Sessions :
       row'[s] = row[s] \/ (row[s].device \in {d, NoDevice} /\ row'[s].device = d)
  /\ \A s \in Sessions : row[s].device # d => stored'[s] = stored[s]
  /\ overlapped \subseteq overlapped' /\ overlapped' \subseteq overlapped \cup {d}
  /\ d \notin overlapped' => ~Running(k, "idle") \/ InFlight(d) = {}
  /\ failures' = 0 => failures = 0

LEMMA BeginsAbout ==
  ASSUME TypeOK, NEW k \in Calls, Running(k, "idle"), NEW d \in Devices, NEW next,
         Begin(k, d, next), UNCHANGED <<row, stored, failures>>,
         DeviceOf(k)' = d
  PROVE  About(k, d)
<1>1. \A j \in Calls \ {k} : call'[j] = call[j]
  BY GoesTo DEF Begin
<1> QED
  BY <1>1 DEF About, Begin

LEMMA StepAbout ==
  ASSUME TypeOK, DevicesKept, NEW k \in Calls, Acts(k)
  PROVE  \E d \in Devices : About(k, d)
<1>0. /\ row \in [Sessions -> {Absent} \cup Entities] /\ stored \in [Sessions -> Nat]
      /\ failures \in Nat /\ NoCall.pc = "idle" /\ Absent.device = NoDevice
  BY DEF TypeOK, NoCall, Absent
<1>1. CASE StartChecks(k)
  <2>1. PICK d \in Devices : Begin(k, d, [pc |-> "starting", device |-> d])
    BY <1>1 DEF StartChecks
  <2>2. DeviceOf(k)' = d
    BY <2>1, GoesTo DEF Begin, DeviceOf, Running
  <2> QED
    BY <1>1, <2>1, <2>2, BeginsAbout DEF StartChecks
<1>2. CASE IngestReads(k)
  <2>1. PICK s \in Sessions, n \in BatchSizes, t \in Times :
          /\ IsActive(s)
          /\ Begin(k, row[s].device,
                   [pc |-> "storing", session |-> s, entity |-> row[s], points |-> n, time |-> t])
    BY <1>2 DEF IngestReads
  <2>2. DeviceOf(k)' = row[s].device /\ row[s].device \in Devices
    BY <2>1, GoesTo, RowTypes DEF Begin, DeviceOf, Running, Entities
  <2> QED
    BY <1>2, <2>1, <2>2, BeginsAbout DEF IngestReads
<1>3. CASE EndReads(k)
  <2>1. PICK s \in Sessions :
          /\ IsActive(s)
          /\ Begin(k, row[s].device, [pc |-> "ending", session |-> s, entity |-> Ended(row[s])])
    BY <1>3 DEF EndReads
  <2>2. DeviceOf(k)' = row[s].device /\ row[s].device \in Devices
    BY <2>1, GoesTo, RowTypes, EndedKeeps DEF Begin, DeviceOf, Running, Entities
  <2> QED
    BY <1>3, <2>1, <2>2, BeginsAbout DEF EndReads
<1>4. CASE StartSaves(k)
  <2>1. PICK s \in Sessions : /\ row[s].status = "absent"
                              /\ row' = [row EXCEPT ![s] = NewSession(call[k].device)]
    BY <1>4 DEF StartSaves
  <2>2. DeviceOf(k) = call[k].device /\ DeviceOf(k) \in Devices /\ ~Running(k, "idle")
    BY <1>4, CallFields DEF StartSaves, DeviceOf, Running
  <2>3. /\ row[s].device = NoDevice /\ row'[s].device = DeviceOf(k)
        /\ \A r \in Sessions \ {s} : row'[r] = row[r]
    BY <1>0, <2>1, <2>2, RowTypes DEF NewSession
  <2>4. Running(k, "idle")' /\ \A j \in Calls \ {k} : call'[j] = call[j]
    BY <1>0, <1>4, GoesTo DEF StartSaves, Running
  <2> QED
    BY <1>4, <2>2, <2>3, <2>4 DEF StartSaves, About
<1>5. CASE IngestStores(k)
  <2>1. PICK s \in Sessions, n \in BatchSizes, t \in Times :
          /\ s = call[k].session /\ n = call[k].points /\ t = call[k].time
          /\ call[k].entity \in Entities
    BY <1>5, CallFields DEF IngestStores
  <2>2. /\ DeviceOf(k) = call[k].entity.device /\ DeviceOf(k) \in Devices /\ ~Running(k, "idle")
        /\ row[s].device = DeviceOf(k)
    BY <1>5, <2>1 DEF IngestStores, DeviceOf, Running, Entities, DevicesKept
  <2>3. /\ call'[k] = [pc |-> "saving", session |-> s, points |-> n,
                       entity |-> Located(call[k].entity, n, t)]
        /\ \A j \in Calls \ {k} : call'[j] = call[j]
    BY <1>5, <2>1, GoesTo DEF IngestStores
  <2>4. DeviceOf(k)' = DeviceOf(k)
    BY <2>1, <2>2, <2>3, LocatedKeeps DEF DeviceOf, Running
  <2>5. \A r \in Sessions \ {s} : stored'[r] = stored[r]
    BY <1>0, <1>5, <2>1 DEF IngestStores
  <2> QED
    BY <1>5, <2>2, <2>3, <2>4, <2>5 DEF IngestStores, About
<1>6. CASE IngestSaves(k) \/ EndSaves(k)
  <2>1. PICK s \in Sessions : s = call[k].session /\ call[k].entity \in Entities
    BY <1>6, CallFields DEF IngestSaves, EndSaves
  <2>2. /\ DeviceOf(k) = call[k].entity.device /\ DeviceOf(k) \in Devices /\ ~Running(k, "idle")
        /\ row[s].device = DeviceOf(k)
    BY <1>6, <2>1 DEF IngestSaves, EndSaves, DeviceOf, Running, Entities, DevicesKept
  <2>3. row'[s].device = DeviceOf(k) /\ \A r \in Sessions \ {s} : row'[r] = row[r]
    BY <1>0, <1>6, <2>1, <2>2 DEF IngestSaves, EndSaves
  <2>4. Running(k, "idle")' /\ \A j \in Calls \ {k} : call'[j] = call[j]
    BY <1>0, <1>6, GoesTo DEF IngestSaves, EndSaves, Running
  <2> QED
    BY <1>6, <2>2, <2>3, <2>4 DEF IngestSaves, EndSaves, About
<1>7. CASE CallFails(k)
  <2>1. ~Running(k, "idle") /\ DeviceOf(k) \in Devices
    BY <1>7 DEF CallFails, TypeOK, CallStates, DeviceOf, Running, NoCall, Entities
  <2>2. Running(k, "idle")' /\ \A j \in Calls \ {k} : call'[j] = call[j]
    BY <1>0, <1>7, GoesTo DEF CallFails, Running
  <2> QED
    BY <1>0, <1>7, <2>1, <2>2 DEF CallFails, About
<1> QED
  BY <1>1, <1>2, <1>3, <1>4, <1>5, <1>6, <1>7 DEF Acts

(* A call in flight is about a session that is there. *)
LEMMA SessionThere ==
  ASSUME TypeOK, DevicesKept, NEW k \in Calls, call[k].pc \in {"storing", "saving", "ending"}
  PROVE  /\ DeviceOf(k) = call[k].entity.device /\ DeviceOf(k) \in Devices
         /\ call[k].session \in Sessions /\ row[call[k].session].device = DeviceOf(k)
         /\ row[call[k].session].status # "absent"
<1>1. call[k].session \in Sessions /\ call[k].entity \in Entities
  BY CallFields DEF Running
<1>2. DeviceOf(k) = call[k].entity.device /\ DeviceOf(k) \in Devices
  BY <1>1 DEF DeviceOf, Running, Entities
<1>3. row[call[k].session].device = DeviceOf(k)
  BY <1>2 DEF DevicesKept
<1> QED
  BY <1>1, <1>2, <1>3, RowTypes

(* A session that is not there has no points under way. *)
LEMMA NothingUnderWay ==
  ASSUME TypeOK, DevicesKept, NEW s \in Sessions, row[s].status = "absent"
  PROVE  stored[s] = 0 /\ Unanswered(s) = {}
<1>1. Saving(s) = {}
  BY SessionThere DEF Saving, Running
<1> QED
  BY <1>1 DEF DevicesKept, Unanswered

LEMMA DevicesKeptStep ==
  ASSUME TypeOK, TypeOK', DevicesKept, NEW k \in Calls, Acts(k)
  PROVE  DevicesKept'
<1>0. PICK d \in Devices : About(k, d)
  BY StepAbout
<1>1. ASSUME NEW s \in Sessions, row'[s].status = "absent" PROVE stored'[s] = 0
  <2>1. row'[s].device = NoDevice /\ d # NoDevice
    BY <1>1, TrackingAssumption DEF TypeOK, Absent, Entities
  <2>2. row'[s] = row[s]
    BY <1>0, <2>1 DEF About
  <2> QED
    BY <1>0, <1>1, <2>1, <2>2 DEF About, DevicesKept
<1>2. ASSUME NEW j \in Calls \ {k}, call'[j].pc \in {"storing", "saving", "ending"}
      PROVE  row'[call'[j].session].device = call'[j].entity.device
  <2>1. call'[j] = call[j]
    BY <1>0 DEF About
  <2>2. /\ call[j].session \in Sessions /\ row[call[j].session].device = call[j].entity.device
        /\ row[call[j].session].device # NoDevice
    BY <1>2, <2>1, SessionThere, TrackingAssumption
  <2> QED
    BY <1>0, <2>1, <2>2 DEF About
<1>3. ASSUME call'[k].pc \in {"storing", "saving", "ending"}
      PROVE  row'[call'[k].session].device = call'[k].entity.device
  <2>1. CASE IngestReads(k)
    <3>1. PICK s \in Sessions, n \in BatchSizes, t \in Times :
            Goto(k, [pc |-> "storing", session |-> s, entity |-> row[s], points |-> n, time |-> t])
      BY <2>1 DEF IngestReads, Begin
    <3> QED
      BY <2>1, <3>1, GoesTo DEF IngestReads
  <2>2. CASE IngestStores(k)
    <3>1. /\ call'[k].session = call[k].session /\ row' = row
          /\ call'[k].entity = Located(call[k].entity, call[k].points, call[k].time)
          /\ call[k].pc = "storing"
      BY <2>2, GoesTo DEF IngestStores, Running
    <3> QED
      BY <3>1, CallFields, LocatedKeeps DEF DevicesKept, Running
  <2>3. CASE EndReads(k)
    <3>1. PICK s \in Sessions :
            IsActive(s) /\ Goto(k, [pc |-> "ending", session |-> s, entity |-> Ended(row[s])])
      BY <2>3 DEF EndReads, Begin
    <3> QED
      BY <2>3, <3>1, GoesTo, RowTypes, EndedKeeps DEF EndReads
  <2>4. CASE StartChecks(k)
    <3>1. call'[k].pc = "starting"
      BY <2>4, GoesTo DEF StartChecks, Begin
    <3> QED
      BY <1>3, <3>1
  <2>5. CASE StartSaves(k) \/ IngestSaves(k) \/ EndSaves(k) \/ CallFails(k)
    <3>1. call'[k].pc = "idle"
      BY <2>5, GoesTo DEF StartSaves, IngestSaves, EndSaves, CallFails, NoCall
    <3> QED
      BY <1>3, <3>1
  <2> QED
    BY <2>1, <2>2, <2>3, <2>4, <2>5 DEF Acts
<1> QED
  BY <1>1, <1>2, <1>3 DEF DevicesKept

(* A step about one device leaves the others as they were. *)
LEMMA OtherDevices ==
  ASSUME TypeOK, TypeOK', DevicesKept, DevicesKept', NEW k \in Calls, NEW d \in Devices, About(k, d),
         NEW e \in Devices \ {d}, Undisturbed(e)
  PROVE  Undisturbed(e)'
<1>1. k \notin InFlight(e) /\ k \notin InFlight(e)' /\ \A j \in Calls \ {k} : call'[j] = call[j]
  BY DEF About, InFlight
<1>2. InFlight(e)' = InFlight(e)
  BY <1>1 DEF InFlight, Running, DeviceOf
<1>3. ASSUME NEW s \in Sessions, row[s].device = e \/ row'[s].device = e
      PROVE  /\ row'[s] = row[s] /\ stored'[s] = stored[s] /\ row[s].device = e
             /\ Unanswered(s)' = Unanswered(s)
  <2>1. row'[s] = row[s] /\ row[s].device = e /\ stored'[s] = stored[s]
    BY <1>3, TrackingAssumption DEF About
  <2>2. k \notin Saving(s) /\ k \notin Saving(s)'
    <3>1. ASSUME k \in Saving(s) PROVE FALSE
      BY <1>1, <2>1, <3>1, SessionThere DEF Saving, Running, InFlight
    <3>2. ASSUME k \in Saving(s)' PROVE FALSE
      <4>1. /\ call'[k].pc = "saving" /\ call'[k].session = s
            /\ call'[k].entity.device = e
        BY <2>1, <3>2 DEF Saving, Running, DevicesKept
      <4>2. k \in InFlight(e)'
        BY <4>1 DEF InFlight, Running, DeviceOf
      <4> QED
        BY <1>1, <4>2
    <3> QED
      BY <3>1, <3>2
  <2>3. Saving(s)' = Saving(s) /\ \A j \in Saving(s) : call'[j] = call[j]
    BY <1>1, <2>2 DEF Saving, Running
  <2>4. ASSUME NEW u PROVE u \in Unanswered(s)' <=> u \in Unanswered(s)
    BY <2>3 DEF Unanswered
  <2> QED
    BY <2>1, <2>4
<1>4. Busy(e)' <=> Busy(e)
  BY <1>3 DEF Busy
<1>5. ASSUME NEW j \in InFlight(e) PROVE StillTrue(j)'
  <2>1. StillTrue(j) /\ call'[j] = call[j] /\ j \in Calls /\ DeviceOf(j) = e
    BY <1>1, <1>5 DEF Undisturbed, InFlight
  <2>2. CASE Running(j, "starting")
    BY <1>4, <2>1, <2>2 DEF StillTrue, Running, DeviceOf
  <2>3. CASE call[j].pc \in {"storing", "saving", "ending"}
    <3>1. call[j].session \in Sessions /\ row'[call[j].session] = row[call[j].session]
      BY <1>3, <2>1, <2>3, SessionThere
    <3> QED
      BY <2>1, <2>3, <3>1 DEF StillTrue, Running, IsActive
  <2>4. CASE call[j].pc \notin {"starting", "storing", "saving", "ending"}
    BY <2>1, <2>4 DEF StillTrue, Running
  <2> QED
    BY <2>2, <2>3, <2>4 DEF Running
<1>6. OneActive(e)'
  BY <1>3 DEF Undisturbed, OneActive, ListSessions
<1>7. TotalsExact(e)'
  BY <1>3 DEF Undisturbed, TotalsExact, About
<1> QED
  BY <1>2, <1>5, <1>6, <1>7 DEF Undisturbed

(* Of calls in turn the one that steps is alone. *)
LEMMA AloneAbout ==
  ASSUME TurnInv, NEW k \in Calls, NEW d \in Devices, About(k, d), d \notin overlapped'
  PROVE  Undisturbed(d) /\ InFlight(d) \subseteq {k} /\ InFlight(d)' \subseteq {k}
<1>1. Undisturbed(d)
  BY DEF TurnInv, InTurn, About
<1>2. InFlight(d) \subseteq {k}
  <2>1. CASE Running(k, "idle")
    BY <2>1 DEF About
  <2>2. CASE ~Running(k, "idle")
    <3>1. k \in InFlight(d)
      BY <2>2 DEF About, InFlight
    <3> QED
      BY <1>1, <3>1 DEF Undisturbed
  <2> QED
    BY <2>1, <2>2
<1>3. ASSUME NEW j \in Calls \ {k}, j \in InFlight(d)' PROVE FALSE
  <2>1. call'[j] = call[j]
    BY <1>3 DEF About
  <2>2. j \in InFlight(d)
    BY <1>3, <2>1 DEF InFlight, Running, DeviceOf
  <2> QED
    BY <1>2, <1>3, <2>2
<1>4. InFlight(d)' \subseteq Calls
  BY DEF InFlight
<1> QED
  BY <1>1, <1>2, <1>3, <1>4

(* What the step leaves of its own device. *)
StillKept(k, d) == (~Running(k, "idle")' => StillTrue(k)') /\ OneActive(d)' /\ TotalsExact(d)'

(* It neither stores points nor answers them, and totals stay. *)
LEMMA TotalsKept ==
  ASSUME TypeOK, NEW k \in Calls, NEW next, Goto(k, next), ~Running(k, "saving"), next.pc # "saving",
         UNCHANGED <<stored, failures>>, NEW d, TotalsExact(d),
         \A s \in Sessions : row'[s].device = d => row[s].device = d /\ row'[s].total = row[s].total
  PROVE  TotalsExact(d)'
<1>1. \A s \in Sessions : Unanswered(s)' = Unanswered(s)
  BY OtherStepsUnanswered DEF Running
<1> QED
  BY <1>1 DEF TotalsExact

LEMMA ChecksKept ==
  ASSUME TypeOK, NEW k \in Calls, NEW d \in Devices, Undisturbed(d),
         StartChecks(k) \/ IngestReads(k) \/ EndReads(k)
  PROVE  StillKept(k, d)
<1>0. OneActive(d) /\ TotalsExact(d)
  BY DEF Undisturbed
<1>a. ASSUME NEW next, Goto(k, next), next.pc # "saving", Running(k, "idle"),
             UNCHANGED <<row, stored, failures>>, StillTrue(k)'
      PROVE  StillKept(k, d)
  <2>1. ~Running(k, "saving")
    BY <1>a DEF Running
  <2>2. TotalsExact(d)'
    BY <1>0, <1>a, <2>1, TotalsKept
  <2> QED
    BY <1>0, <1>a, <2>2 DEF StillKept, OneActive, ListSessions
<1>1. CASE StartChecks(k)
  <2>1. PICK e \in Devices : ~Busy(e) /\ Goto(k, [pc |-> "starting", device |-> e])
    BY <1>1 DEF StartChecks, Begin
  <2> DEFINE next == [pc |-> "starting", device |-> e]
  <2>2. call'[k] = next /\ UNCHANGED <<row, stored, failures>> /\ Running(k, "idle")
    BY <1>1, <2>1, GoesTo DEF StartChecks
  <2>3. StillTrue(k)'
    BY <2>1, <2>2 DEF StillTrue, Running, Busy
  <2> QED
    BY <1>a, <2>1, <2>2, <2>3
<1>2. CASE IngestReads(k)
  <2>1. PICK s \in Sessions, n \in BatchSizes, t \in Times :
          /\ IsActive(s)
          /\ Goto(k, [pc |-> "storing", session |-> s, entity |-> row[s], points |-> n, time |-> t])
    BY <1>2 DEF IngestReads, Begin
  <2> DEFINE next == [pc |-> "storing", session |-> s, entity |-> row[s], points |-> n, time |-> t]
  <2>2. call'[k] = next /\ UNCHANGED <<row, stored, failures>> /\ Running(k, "idle")
    BY <1>2, <2>1, GoesTo DEF IngestReads
  <2>3. StillTrue(k)'
    BY <2>1, <2>2 DEF StillTrue, Running, IsActive
  <2> QED
    BY <1>a, <2>1, <2>2, <2>3
<1>3. CASE EndReads(k)
  <2>1. PICK s \in Sessions :
          IsActive(s) /\ Goto(k, [pc |-> "ending", session |-> s, entity |-> Ended(row[s])])
    BY <1>3 DEF EndReads, Begin
  <2> DEFINE next == [pc |-> "ending", session |-> s, entity |-> Ended(row[s])]
  <2>2. call'[k] = next /\ UNCHANGED <<row, stored, failures>> /\ Running(k, "idle")
    BY <1>3, <2>1, GoesTo DEF EndReads
  <2>3. StillTrue(k)'
    BY <2>1, <2>2 DEF StillTrue, Running, IsActive
  <2> QED
    BY <1>a, <2>1, <2>2, <2>3
<1> QED
  BY <1>1, <1>2, <1>3

(* The new session is the only active one of its device, and has no points.  *)
LEMMA StartKept ==
  ASSUME TypeOK, DevicesKept, NEW k \in Calls, NEW d \in Devices, DeviceOf(k) = d,
         Undisturbed(d), StartSaves(k)
  PROVE  StillKept(k, d)
<1>1. PICK s \in Sessions : /\ row[s].status = "absent"
                            /\ row' = [row EXCEPT ![s] = NewSession(call[k].device)]
  BY DEF StartSaves
<1>2. /\ Goto(k, NoCall) /\ call[k].pc = "starting" /\ call[k].device = d /\ NoCall.pc = "idle"
      /\ UNCHANGED <<stored, failures>>
  BY DEF StartSaves, Running, DeviceOf, NoCall
<1>3. ~Busy(d) /\ OneActive(d) /\ TotalsExact(d)
  <2>1. k \in InFlight(d)
    BY <1>2 DEF InFlight, Running
  <2> QED
    BY <1>2, <2>1 DEF Undisturbed, StillTrue, Running
<1>4. /\ row'[s].total = 0 /\ \A r \in Sessions \ {s} : row'[r] = row[r]
  BY <1>1 DEF TypeOK, NewSession
<1>5. \A r \in Sessions : Unanswered(r)' = Unanswered(r)
  BY <1>2, OtherStepsUnanswered
<1>6. stored[s] = 0 /\ Cardinality(Unanswered(s)) = 0
  BY <1>1, NothingUnderWay, FS_EmptySet
<1>7. TotalsExact(d)'
  <2> SUFFICES ASSUME failures = 0, NEW r \in Sessions, row'[r].device = d
               PROVE  stored[r] = row'[r].total + Cardinality(Unanswered(r))
    BY <1>2, <1>5 DEF TotalsExact
  <2>1. CASE r = s
    BY <1>4, <1>6, <2>1
  <2>2. CASE r # s
    BY <1>3, <1>4, <2>2 DEF TotalsExact
  <2> QED
    BY <2>1, <2>2
<1>8. OneActive(d)'
  BY <1>3, <1>4 DEF OneActive, ListSessions, Busy
<1>9. Running(k, "idle")'
  BY <1>2, GoesTo DEF Running
<1> QED
  BY <1>7, <1>8, <1>9 DEF StillKept

LEMMA StoresKept ==
  ASSUME TypeOK, AnswersCovered, DevicesKept, NEW k \in Calls, NEW d \in Devices, DeviceOf(k) = d,
         Undisturbed(d), IngestStores(k)
  PROVE  StillKept(k, d)
<1>1. PICK s \in Sessions, n \in BatchSizes, t \in Times :
        s = call[k].session /\ n = call[k].points /\ t = call[k].time
  BY CallFields DEF IngestStores
<1>2. /\ call[k].pc = "storing" /\ row' = row /\ failures' = failures
      /\ stored' = [stored EXCEPT ![s] = @ + n]
      /\ call'[k] = [pc |-> "saving", session |-> s, points |-> n,
                     entity |-> Located(call[k].entity, n, t)]
  BY <1>1, GoesTo DEF IngestStores, Running, Batched
<1>3. call[k].entity = row[s] /\ IsActive(s) /\ OneActive(d) /\ TotalsExact(d)
  <2>1. k \in InFlight(d)
    BY <1>2 DEF InFlight, Running
  <2> QED
    BY <1>1, <1>2, <2>1 DEF Undisturbed, StillTrue, Running
<1>4. StillTrue(k)'
  <2>1. call'[k].entity = Located(row'[s], n, t) /\ row'[s].status = "active"
    BY <1>2, <1>3 DEF IsActive
  <2> QED
    BY <1>2, <2>1 DEF StillTrue, Running, IsActive
<1>5. TotalsExact(d)'
  <2>1. /\ Unanswered(s)' = Unanswered(s) \cup PointsOf(k, n)
        /\ Unanswered(s) \cap PointsOf(k, n) = {}
        /\ \A r \in Sessions \ {s} : Unanswered(r)' = Unanswered(r)
    BY <1>1, StoresUnanswered
  <2>2. n \in Nat /\ IsFiniteSet(Unanswered(s))
    BY Natural DEF AnswersCovered
  <2>3. /\ Cardinality(Unanswered(s)) \in Nat
        /\ Cardinality(Unanswered(s)') = Cardinality(Unanswered(s)) + n
    BY <2>1, <2>2, JoinOthers
  <2>4. /\ stored'[s] = stored[s] + n /\ stored[s] \in Nat /\ row[s].total \in Nat
        /\ \A r \in Sessions \ {s} : stored'[r] = stored[r]
    BY <1>2, <2>2, RowTypes DEF TypeOK
  <2> SUFFICES ASSUME failures = 0, NEW r \in Sessions, row[r].device = d
               PROVE  stored'[r] = row[r].total + Cardinality(Unanswered(r)')
    BY <1>2 DEF TotalsExact
  <2>5. stored[r] = row[r].total + Cardinality(Unanswered(r))
    BY <1>3 DEF TotalsExact
  <2>6. CASE r = s
    BY <2>2, <2>3, <2>4, <2>5, <2>6
  <2>7. CASE r # s
    BY <2>1, <2>4, <2>5, <2>7
  <2> QED
    BY <2>6, <2>7
<1> QED
  BY <1>2, <1>3, <1>4, <1>5 DEF StillKept, OneActive, ListSessions

(* The points answered are counted now. *)
LEMMA IngestKept ==
  ASSUME TypeOK, AnswersCovered, DevicesKept, NEW k \in Calls, NEW d \in Devices, DeviceOf(k) = d,
         Undisturbed(d), IngestSaves(k)
  PROVE  StillKept(k, d)
<1>1. PICK s \in Sessions, n \in BatchSizes : s = call[k].session /\ n = call[k].points
  BY CallFields DEF IngestSaves
<1>2. /\ call[k].pc = "saving" /\ Goto(k, NoCall) /\ UNCHANGED <<stored, failures>>
      /\ row' = [row EXCEPT ![s] = call[k].entity] /\ NoCall.pc = "idle"
  BY <1>1 DEF IngestSaves, Running, NoCall
<1>3. OneActive(d) /\ TotalsExact(d) /\ StillTrue(k)
  <2>1. k \in InFlight(d)
    BY <1>2 DEF InFlight, Running
  <2> QED
    BY <2>1 DEF Undisturbed
<1>4. PICK t \in Times : call[k].entity = Located(row[s], n, t) /\ IsActive(s)
  BY <1>1, <1>2, <1>3 DEF StillTrue, Running
<1>5. /\ row'[s].status = row[s].status /\ row'[s].device = row[s].device
      /\ row'[s].total = row[s].total + n
      /\ \A r \in Sessions \ {s} : row'[r] = row[r]
  BY <1>2, <1>4, RowTypes, LocatedEntity, LocatedKeeps DEF TypeOK
<1>6. TotalsExact(d)'
  <2>1. /\ Unanswered(s) = Unanswered(s)' \cup PointsOf(k, n)
        /\ Unanswered(s)' \cap PointsOf(k, n) = {}
        /\ \A r \in Sessions \ {s} : Unanswered(r)' = Unanswered(r)
    BY <1>1, <1>2, LeavesUnanswered DEF Running
  <2>2. n \in Nat /\ row[s].total \in Nat /\ IsFiniteSet(Unanswered(s)')
    BY <2>1, Natural, RowTypes, FS_Subset DEF AnswersCovered
  <2>3. /\ Cardinality(Unanswered(s)') \in Nat
        /\ Cardinality(Unanswered(s)) = Cardinality(Unanswered(s)') + n
    BY <2>1, <2>2, JoinOthers
  <2> SUFFICES ASSUME failures = 0, NEW r \in Sessions, row'[r].device = d
               PROVE  stored[r] = row'[r].total + Cardinality(Unanswered(r)')
    BY <1>2 DEF TotalsExact
  <2>4. stored[r] = row[r].total + Cardinality(Unanswered(r))
    BY <1>3, <1>5 DEF TotalsExact
  <2>5. CASE r = s
    BY <1>5, <2>2, <2>3, <2>4, <2>5
  <2>6. CASE r # s
    BY <1>5, <2>1, <2>4, <2>6
  <2> QED
    BY <2>5, <2>6
<1>7. Running(k, "idle")' /\ OneActive(d)'
  BY <1>2, <1>3, <1>5, GoesTo DEF OneActive, ListSessions, Running
<1> QED
  BY <1>6, <1>7 DEF StillKept

LEMMA EndKept ==
  ASSUME TypeOK, DevicesKept, NEW k \in Calls, NEW d \in Devices, DeviceOf(k) = d,
         Undisturbed(d), EndSaves(k)
  PROVE  StillKept(k, d)
<1>1. PICK s \in Sessions : s = call[k].session
  BY CallFields DEF EndSaves
<1>2. /\ call[k].pc = "ending" /\ Goto(k, NoCall) /\ UNCHANGED <<stored, failures>>
      /\ row' = [row EXCEPT ![s] = call[k].entity] /\ NoCall.pc = "idle"
  BY <1>1 DEF EndSaves, Running, NoCall
<1>3. OneActive(d) /\ TotalsExact(d) /\ StillTrue(k)
  <2>1. k \in InFlight(d)
    BY <1>2 DEF InFlight, Running
  <2> QED
    BY <2>1 DEF Undisturbed
<1>4. call[k].entity = Ended(row[s]) /\ IsActive(s)
  BY <1>1, <1>2, <1>3 DEF StillTrue, Running
<1>5. /\ row'[s].status = "ended" /\ row'[s].total = row[s].total /\ row'[s].device = row[s].device
      /\ \A r \in Sessions \ {s} : row'[r] = row[r]
  BY <1>2, <1>4, RowTypes, EndedKeeps DEF TypeOK
<1>6. TotalsExact(d)'
  BY <1>2, <1>3, <1>5, TotalsKept DEF Running
<1>7. Running(k, "idle")' /\ OneActive(d)'
  BY <1>2, <1>3, <1>5, GoesTo DEF OneActive, ListSessions, Running
<1> QED
  BY <1>6, <1>7 DEF StillKept

LEMMA FailKept ==
  ASSUME TypeOK, NEW k \in Calls, NEW d \in Devices, Undisturbed(d), CallFails(k)
  PROVE  StillKept(k, d)
<1>1. Goto(k, NoCall) /\ row' = row /\ failures' = failures + 1 /\ failures \in Nat /\ OneActive(d)
  BY DEF CallFails, TypeOK, Undisturbed
<1>2. Running(k, "idle")'
  BY <1>1, GoesTo DEF Running, NoCall
<1> QED
  BY <1>1, <1>2 DEF StillKept, TotalsExact, OneActive, ListSessions

LEMMA TurnInvStep ==
  ASSUME TypeOK, TypeOK', AnswersCovered, TurnInv, [Next]_vars
  PROVE  TurnInv'
<1>1. CASE UNCHANGED vars
  <2>1. \A s \in Sessions : Unanswered(s)' = Unanswered(s)
    BY <1>1, UnansweredSame DEF vars
  <2>2. DevicesKept'
    BY <1>1 DEF vars, TurnInv, DevicesKept
  <2>3. ASSUME NEW d \in Devices, InTurn(d)' PROVE Undisturbed(d)'
    <3>1. Undisturbed(d)
      BY <1>1, <2>3 DEF vars, TurnInv, InTurn
    <3>2. InFlight(d)' = InFlight(d)
      BY <1>1 DEF vars, InFlight, Running, DeviceOf
    <3>3. \A k \in InFlight(d) : StillTrue(k)'
      BY <1>1, <3>1 DEF vars, Undisturbed, StillTrue, Running, Busy, IsActive
    <3>4. OneActive(d)' /\ TotalsExact(d)'
      BY <1>1, <2>1, <3>1 DEF vars, Undisturbed, OneActive, ListSessions, TotalsExact
    <3> QED
      BY <3>1, <3>2, <3>3, <3>4 DEF Undisturbed
  <2> QED
    BY <2>2, <2>3 DEF TurnInv
<1>2. ASSUME NEW k \in Calls, Acts(k) PROVE TurnInv'
  <2>1. DevicesKept /\ DevicesKept'
    BY <1>2, DevicesKeptStep DEF TurnInv
  <2>2. PICK d \in Devices : About(k, d)
    BY <1>2, <2>1, StepAbout
  <2>3. ASSUME NEW e \in Devices \ {d}, InTurn(e)' PROVE Undisturbed(e)'
    <3>1. Undisturbed(e)
      BY <2>2, <2>3 DEF TurnInv, InTurn, About
    <3> QED
      BY <2>1, <2>2, <3>1, OtherDevices
  <2>4. ASSUME InTurn(d)' PROVE Undisturbed(d)'
    <3>1. Undisturbed(d) /\ InFlight(d)' \subseteq {k}
      BY <2>2, <2>4, AloneAbout DEF InTurn
    <3>2. ~Running(k, "idle") => DeviceOf(k) = d
      BY <2>2 DEF About
    <3>3. StillKept(k, d)
      <4>1. CASE StartChecks(k) \/ IngestReads(k) \/ EndReads(k)
        BY <3>1, <4>1, ChecksKept
      <4>2. CASE StartSaves(k)
        BY <2>1, <3>1, <3>2, <4>2, StartKept DEF StartSaves, Running
      <4>3. CASE IngestStores(k)
        BY <2>1, <3>1, <3>2, <4>3, StoresKept DEF IngestStores, Running
      <4>4. CASE IngestSaves(k)
        BY <2>1, <3>1, <3>2, <4>4, IngestKept DEF IngestSaves, Running
      <4>5. CASE EndSaves(k)
        BY <2>1, <3>1, <3>2, <4>5, EndKept DEF EndSaves, Running
      <4>6. CASE CallFails(k)
        BY <3>1, <4>6, FailKept
      <4> QED
        BY <1>2, <4>1, <4>2, <4>3, <4>4, <4>5, <4>6 DEF Acts
    <3>4. \A j \in InFlight(d)' : j = k /\ StillTrue(j)'
      BY <3>1, <3>3 DEF StillKept, InFlight
    <3> QED
      BY <3>3, <3>4 DEF StillKept, Undisturbed
  <2> QED
    BY <2>1, <2>3, <2>4 DEF TurnInv
<1> QED
  BY <1>1, <1>2 DEF Next, Acts

LEMMA TurnInvAlways == Spec => []TurnInv
<1>1. Init => TurnInv
  <2> SUFFICES ASSUME Init PROVE TurnInv
    OBVIOUS
  <2>1. /\ \A k \in Calls : call[k].pc = "idle"
        /\ \A s \in Sessions : /\ row[s].status = "absent" /\ row[s].device = NoDevice
                               /\ stored[s] = 0
    BY DEF Init, NoCall, Absent
  <2>2. DevicesKept
    BY <2>1 DEF DevicesKept
  <2>3. ASSUME NEW d \in Devices PROVE Undisturbed(d)
    <3>1. InFlight(d) = {}
      BY <2>1 DEF InFlight, Running
    <3>2. OneActive(d)
      BY <2>1 DEF OneActive, ListSessions
    <3>3. TotalsExact(d)
      BY <2>1, <2>3, TrackingAssumption DEF TotalsExact
    <3> QED
      BY <3>1, <3>2, <3>3 DEF Undisturbed
  <2> QED
    BY <2>2, <2>3 DEF TurnInv
<1> QED
  BY <1>1, TurnInvStep, AnswersCounted, TypeCorrect, PTL DEF Spec

(* A device whose calls came in turn has one active session at most,         *)
(* whatever calls about other devices do meanwhile: what findActiveByDevice  *)
(* found is still so when the new session is saved.                          *)
THEOREM OneActiveUnlessOverlapped == Spec => []OneActiveInTurn
<1>1. TurnInv => OneActiveInTurn
  BY DEF TurnInv, Undisturbed, OneActiveInTurn
<1> QED
  BY <1>1, TurnInvAlways, PTL

(* Nothing of a session is unanswered while no call is about its device. *)
LEMMA RestAnswered ==
  ASSUME TypeOK, DevicesKept, NEW s \in Sessions, InFlight(row[s].device) = {}
  PROVE  Unanswered(s) = {}
<1>1. ASSUME NEW k \in Saving(s) PROVE FALSE
  <2>1. k \in Calls /\ call[k].pc = "saving" /\ call[k].session = s
    BY DEF Saving, Running
  <2>2. k \in InFlight(row[s].device)
    BY <2>1, SessionThere DEF InFlight, Running
  <2> QED
    BY <2>2
<1> QED
  BY <1>1 DEF Unanswered

(* While no call about its device is in flight, and the calls about it came  *)
(* in turn and none failed, the overview of a session counts the points of   *)
(* its trail.                                                                *)
THEOREM TotalsExactUnlessOverlapped == Spec => []TotalsExactInTurn
<1>1. TypeOK /\ TurnInv => TotalsExactInTurn
  <2> SUFFICES ASSUME TypeOK, TurnInv, NEW s \in Sessions, InTurn(row[s].device),
                      InFlight(row[s].device) = {}, failures = 0
               PROVE  row[s].total = stored[s]
    BY DEF TotalsExactInTurn, GetSessionOverview, GetTrail
  <2>0. DevicesKept
    BY DEF TurnInv
  <2>1. Cardinality(Unanswered(s)) = 0
    BY <2>0, RestAnswered, FS_EmptySet
  <2>2. CASE row[s].status = "absent"
    BY <2>0, <2>2, NothingUnderWay, RowTypes DEF Absent
  <2>3. CASE row[s].status # "absent"
    <3>1. row[s].device \in Devices
      BY <2>3 DEF TypeOK, Absent, Entities
    <3>2. stored[s] = row[s].total + Cardinality(Unanswered(s))
      BY <3>1 DEF TurnInv, Undisturbed, TotalsExact
    <3> QED
      BY <2>1, <3>2, RowTypes
  <2> QED
    BY <2>2, <2>3
<1> QED
  BY <1>1, TurnInvAlways, TypeCorrect, PTL

(* What a call about a device in turn is about to write is still true. *)
LEMMA SavesWhatHolds ==
  ASSUME TypeOK, TurnInv, NEW k \in Calls, call[k].pc \in {"storing", "saving", "ending"},
         NEW s \in Sessions, s = call[k].session, InTurn(row[s].device)
  PROVE  StillTrue(k)
<1>1. row[s].device \in Devices /\ k \in InFlight(row[s].device)
  BY SessionThere DEF TurnInv, InFlight, Running
<1> QED
  BY <1>1 DEF TurnInv, Undisturbed

(* Only the three saves write a row.  Of calls in turn the start fills one   *)
(* that was absent, and the others write one that was active: the entity     *)
(* read from it, with a total and a time that went on, or ended.             *)
LEMMA SavesInTurn ==
  ASSUME TypeOK, TurnInv, Next, NEW s \in Sessions, InTurn(row[s].device)', row'[s] # row[s]
  PROVE  row[s].status # "ended" /\ row'[s].lastAt >= row[s].lastAt
<1>0. row \in [Sessions -> {Absent} \cup Entities]
  BY DEF TypeOK
<1>1. ASSUME NEW k \in Calls, StartSaves(k)
      PROVE  row[s].status # "ended" /\ row'[s].lastAt >= row[s].lastAt
  <2>1. PICK r \in Sessions : /\ row[r].status = "absent"
                              /\ row' = [row EXCEPT ![r] = NewSession(call[k].device)]
    BY <1>1 DEF StartSaves
  <2>2. r = s /\ row'[s] = NewSession(call[k].device)
    BY <1>0, <2>1
  <2>3. row'[s].lastAt = NoTime /\ row[s].lastAt = NoTime
    BY <2>1, <2>2, RowTypes DEF NewSession, Absent
  <2> QED
    BY <2>1, <2>2, <2>3 DEF NoTime
<1>2. ASSUME NEW k \in Calls, IngestSaves(k) \/ EndSaves(k)
      PROVE  row[s].status # "ended" /\ row'[s].lastAt >= row[s].lastAt
  <2>1. /\ call[k].pc \in {"saving", "ending"} /\ overlapped' = overlapped
        /\ row' = [row EXCEPT ![call[k].session] = call[k].entity]
    BY <1>2 DEF IngestSaves, EndSaves, Running
  <2>2. s = call[k].session /\ row'[s] = call[k].entity
    BY <1>0, <2>1
  <2>3. row'[s].device = row[s].device
    BY <2>1, <2>2, SessionThere DEF TurnInv
  <2>4. StillTrue(k)
    BY <2>1, <2>2, <2>3, SavesWhatHolds DEF InTurn
  <2>5. CASE Running(k, "saving")
    <3>1. PICK n \in BatchSizes : n = call[k].points
      BY <2>5, CallFields
    <3>2. PICK t \in Times : call[k].entity = Located(row[s], n, t) /\ IsActive(s)
      BY <2>2, <2>4, <2>5, <3>1 DEF StillTrue, Running
    <3> QED
      BY <2>2, <3>2, RowTypes, LocatedKeeps DEF IsActive
  <2>6. CASE Running(k, "ending")
    <3>1. call[k].entity = Ended(row[s]) /\ IsActive(s)
      BY <2>2, <2>4, <2>6 DEF StillTrue, Running
    <3> QED
      BY <2>2, <3>1, RowTypes, EndedKeeps DEF IsActive
  <2> QED
    BY <2>1, <2>5, <2>6 DEF Running
<1> QED
  BY <1>1, <1>2 DEF Next, StartChecks, IngestReads, IngestStores, EndReads, CallFails

(* Of the calls about a device in turn none writes to a session that ended.  *)
THEOREM EndFinalUnlessOverlapped == Spec => EndIsFinalInTurn
<1>1. TypeOK /\ TurnInv /\ [Next]_vars
        => [\A s \in Sessions : InTurn(row[s].device)' => EndIsFinal(s)]_vars
  BY SavesInTurn DEF EndIsFinal, vars
<1> QED
  BY <1>1, TurnInvAlways, TypeCorrect, PTL DEF Spec, EndIsFinalInTurn

(* Of the calls about a device in turn an ingest adds points to active       *)
(* sessions only, and none moves the time of a session's last location back. *)
THEOREM ClockMovesOnUnlessOverlapped == Spec => ClockMovesOnInTurn
<1>1. ASSUME TypeOK, TurnInv, Next, NEW s \in Sessions, InTurn(row[s].device)'
      PROVE  PointsWhileActive(s)
  <2> SUFFICES ASSUME stored'[s] # stored[s] PROVE row[s].status = "active"
    BY DEF PointsWhileActive
  <2>1. PICK k \in Calls : IngestStores(k)
    BY <1>1 DEF Next, StartChecks, StartSaves, IngestReads, IngestSaves, EndReads, EndSaves, CallFails
  <2>2. /\ s = call[k].session /\ call[k].pc = "storing"
        /\ row' = row /\ overlapped' = overlapped
    BY <1>1, <2>1 DEF IngestStores, TypeOK, Running
  <2>3. StillTrue(k)
    BY <1>1, <2>2, SavesWhatHolds DEF InTurn
  <2> QED
    BY <2>2, <2>3 DEF StillTrue, IsActive
<1>2. ASSUME TypeOK, TurnInv, Next, NEW s \in Sessions, InTurn(row[s].device)'
      PROVE  ClockMovesOn(s)
  <2>1. CASE row'[s] = row[s]
    BY <1>2, <2>1, RowTypes DEF ClockMovesOn
  <2>2. CASE row'[s] # row[s]
    BY <1>2, <2>2, SavesInTurn DEF ClockMovesOn
  <2> QED
    BY <2>1, <2>2
<1>3. TypeOK /\ TurnInv /\ [Next]_vars
        => [\A s \in Sessions : InTurn(row[s].device)' => PointsWhileActive(s) /\ ClockMovesOn(s)]_vars
  BY <1>1, <1>2
<1> QED
  BY <1>3, TurnInvAlways, TypeCorrect, PTL DEF Spec, ClockMovesOnInTurn
==============================================================================
