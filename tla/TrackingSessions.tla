--------------------------- MODULE TrackingSessions ---------------------------
(***************************************************************************)
(* Tracking: the start, ingest and end use cases of GPS sessions.  Each    *)
(* loads a session entity, decides and changes it in memory, and upserts   *)
(* the whole entity; a statement is awaited in between, so the calls of    *)
(* devices and users interleave there and the last save wins.              *)
(*                                                                         *)
(* Times are the device timestamps of batches; a batch has a number of     *)
(* points.  Positions, distances (always 0 in the code) and the session    *)
(* configuration are left out.  Calls refused before they write (unknown   *)
(* or inactive session, device busy, empty batch) change nothing.          *)
(***************************************************************************)
EXTENDS Naturals, FiniteSets

CONSTANTS
  Sessions,     (* session ids                                               *)
  Devices,
  NoDevice,     (* no device: the row does not exist                         *)
  Calls,        (* requests in flight                                        *)
  BatchSizes,   (* points per ingest request                                 *)
  Times,        (* device timestamps                                         *)
  MaxPoints,    (* bound: points stored for a session                        *)
  MaxFailures   (* bound: calls that fail half-way                           *)

ASSUME TrackingAssumption ==
  /\ NoDevice \notin Devices
  /\ BatchSizes \subseteq Nat \ {0}
  /\ Times \subseteq Nat \ {0}
  /\ MaxPoints \in Nat
  /\ MaxFailures \in Nat

VARIABLES
  row,          (* tracking.sessions                                         *)
  stored,       (* number of tracking.location_points of each session        *)
  call          (* each request: where it is, and the entity it holds        *)

(* History, not read by any action of the code. *)
VARIABLES
  accepted,     (* points answered with 202, per session                     *)
  failures,     (* calls that failed half-way                                *)
  overlapped    (* devices with two calls in flight together at some time    *)

vars == <<row, stored, call, accepted, failures, overlapped>>

NoTime   == 0                 (* lastLocationAt is null                      *)
Absent   == [status |-> "absent", device |-> NoDevice, total |-> 0, lastAt |-> NoTime]

Entities == [status : {"active", "ended"}, device : Devices, total : Nat,
             lastAt : Times \cup {NoTime}]

NoCall == [pc |-> "idle"]
Running(k, pc) == call[k].pc = pc
Goto(k, next)  == call' = [call EXCEPT ![k] = next]

(* The device a call is about. *)
DeviceOf(k) == IF Running(k, "starting") THEN call[k].device ELSE call[k].entity.device
InFlight(d) == {k \in Calls : ~Running(k, "idle") /\ DeviceOf(k) = d}

(* A call about device d begins, and perhaps others about it are in flight. *)
Begin(k, d, next) ==
  /\ Goto(k, next)
  /\ overlapped' = IF InFlight(d) = {} THEN overlapped ELSE overlapped \cup {d}

(* TrackingSession.create *)
NewSession(d) == [status |-> "active", device |-> d, total |-> 0, lastAt |-> NoTime]

(* endSession *)
Ended(entity) == [entity EXCEPT !.status = "ended"]

(* updateLatestLocation *)
Located_AnyTime(entity, n, t) == [entity EXCEPT !.total = @ + n, !.lastAt = t]
Located_CountTwice(entity, n, t) ==
  [entity EXCEPT !.total = @ + 2 * n, !.lastAt = IF t > @ THEN t ELSE @]
Located(entity, n, t) ==
  [entity EXCEPT !.total = @ + n, !.lastAt = IF t > @ THEN t ELSE @]

------------------------------------------------------------------------------
(* findActiveByDevice *)
Busy_WrongStatus(d) == \E s \in Sessions : row[s].device = d /\ row[s].status = "ended"
Busy(d) == \E s \in Sessions : row[s].device = d /\ row[s].status = "active"

StartChecks(k) ==
  /\ Running(k, "idle")
  /\ \E d \in Devices :
       /\ ~Busy(d)
       /\ Begin(k, d, [pc |-> "starting", device |-> d])
  /\ UNCHANGED <<row, stored, accepted, failures>>

(* The upsert of a fresh id inserts. *)
StartSaves(k) ==
  /\ Running(k, "starting")
  /\ \E s \in Sessions :
       /\ row[s].status = "absent"
       /\ row' = [row EXCEPT ![s] = NewSession(call[k].device)]
  /\ Goto(k, NoCall)
  /\ UNCHANGED <<stored, accepted, failures, overlapped>>

IsActive_Exists(s) == row[s].status # "absent"
IsActive(s) == row[s].status = "active"

IngestReads(k) ==
  /\ Running(k, "idle")
  /\ \E s \in Sessions, n \in BatchSizes, t \in Times :
       /\ IsActive(s)
       /\ Begin(k, row[s].device, [pc |-> "storing", session |-> s, entity |-> row[s],
                                   points |-> n, time |-> t])
  /\ UNCHANGED <<row, stored, accepted, failures>>

(* saveBatch: one INSERT of all rows. *)
Batched_OneRow(count, n) == count + 1
Batched(count, n) == count + n

(* saveBatch commits; then the entity in memory is brought up to date. *)
IngestStores(k) ==
  /\ Running(k, "storing")
  /\ LET c == call[k] IN
       /\ stored[c.session] + c.points <= MaxPoints
       /\ stored' = [stored EXCEPT ![c.session] = Batched(@, c.points)]
       /\ Goto(k, [pc |-> "saving", session |-> c.session, points |-> c.points,
                   entity |-> Located(c.entity, c.points, c.time)])
  /\ UNCHANGED <<row, accepted, failures, overlapped>>

IngestSaves(k) ==
  /\ Running(k, "saving")
  /\ row' = [row EXCEPT ![call[k].session] = call[k].entity]
  /\ accepted' = [accepted EXCEPT ![call[k].session] = @ + call[k].points]
  /\ Goto(k, NoCall)
  /\ UNCHANGED <<stored, failures, overlapped>>

EndReads(k) ==
  /\ Running(k, "idle")
  /\ \E s \in Sessions :
       /\ IsActive(s)
       /\ Begin(k, row[s].device, [pc |-> "ending", session |-> s, entity |-> Ended(row[s])])
  /\ UNCHANGED <<row, stored, accepted, failures>>

EndSaves(k) ==
  /\ Running(k, "ending")
  /\ row' = [row EXCEPT ![call[k].session] = call[k].entity]
  /\ Goto(k, NoCall)
  /\ UNCHANGED <<stored, accepted, failures, overlapped>>

(* A statement fails, or the process dies: the rest of the call is gone. *)
CallFails(k) ==
  /\ ~Running(k, "idle")
  /\ failures < MaxFailures
  /\ failures' = failures + 1
  /\ Goto(k, NoCall)
  /\ UNCHANGED <<row, stored, accepted, overlapped>>

------------------------------------------------------------------------------
(* What the queries answer. *)
ListSessions(status) == {s \in Sessions : row[s].status = status}

(* The columns of the session. *)
GetSessionOverview(s) == [status |-> row[s].status, totalPoints |-> row[s].total]

(* COUNT over the points; none is ever marked is_filtered. *)
GetTrail(s) == [pointCount |-> stored[s]]

------------------------------------------------------------------------------
Init ==
  /\ row = [s \in Sessions |-> Absent]
  /\ stored = [s \in Sessions |-> 0]
  /\ call = [k \in Calls |-> NoCall]
  /\ accepted = [s \in Sessions |-> 0]
  /\ failures = 0
  /\ overlapped = {}

Next ==
  \E k \in Calls :
    \/ StartChecks(k) \/ StartSaves(k)
    \/ IngestReads(k) \/ IngestStores(k) \/ IngestSaves(k)
    \/ EndReads(k) \/ EndSaves(k)
    \/ CallFails(k)

Spec == Init /\ [][Next]_vars

------------------------------------------------------------------------------
(* Every variable has its type. *)
CallStates ==
  {NoCall}
    \cup [pc : {"starting"}, device : Devices]
    \cup [pc : {"storing"}, session : Sessions, entity : Entities,
          points : BatchSizes, time : Times]
    \cup [pc : {"saving"}, session : Sessions, entity : Entities, points : BatchSizes]
    \cup [pc : {"ending"}, session : Sessions, entity : Entities]

TypeOK ==
  /\ row \in [Sessions -> {Absent} \cup Entities]
  /\ stored \in [Sessions -> Nat]
  /\ call \in [Calls -> CallStates]
  /\ \A k \in Calls : Running(k, "storing") => call[k].entity.status = "active"
  /\ accepted \in [Sessions -> Nat]
  /\ failures \in Nat
  /\ overlapped \subseteq Devices

(* However saves overwrite each other and calls fail, the counter of a       *)
(* session never claims a point that is not stored ...                       *)
TotalsBackedByPoints == \A s \in Sessions : row[s].total <= stored[s]

(* ... and a point answered with 202 is stored.                              *)
AcceptedPointsStored == \A s \in Sessions : accepted[s] <= stored[s]

(***************************************************************************)
(* What the documents promise of a session, as steps and states.           *)
(***************************************************************************)
(* "Only one active session per device at a time". *)
OneActive(d) ==
  \A s, t \in ListSessions("active") : row[s].device = d /\ row[t].device = d => s = t

(* "A session must be in `active` status to accept location points". *)
PointsWhileActive(s) == stored'[s] # stored[s] => row[s].status = "active"

(* Ending a session is final, with the totals it was ended with. *)
EndIsFinal(s) == row[s].status = "ended" => row'[s] = row[s]

(* "Only update timestamp if it's newer": lastLocationAt never moves back. *)
ClockMovesOn(s) == row'[s].lastAt >= row[s].lastAt

(* A device whose calls came one after the other keeps these promises,       *)
(* whatever the calls of others do meanwhile ...                             *)
InTurn(d) == d \notin overlapped

OneActiveInTurn == \A d \in Devices : InTurn(d) => OneActive(d)

EndIsFinalInTurn == [][\A s \in Sessions : InTurn(row[s].device)' => EndIsFinal(s)]_vars

ClockMovesOnInTurn ==
  [][\A s \in Sessions : InTurn(row[s].device)' => PointsWhileActive(s) /\ ClockMovesOn(s)]_vars

(* ... and the overview of its session at rest then counts the points of its *)
(* trail; only a call that fails between its two transactions can leave some *)
(* uncounted.                                                                *)
TotalsExactInTurn ==
  \A s \in Sessions :
    InTurn(row[s].device) /\ InFlight(row[s].device) = {} /\ failures = 0 =>
      GetSessionOverview(s).totalPoints = GetTrail(s).pointCount

(* The same promise as EndIsFinalInTurn, of calls in whatever order. *)
EndedStaysEnded == [][\A s \in Sessions : EndIsFinal(s)]_vars

(***************************************************************************)
(* What makes these inductive.  The entities in memory are covered by      *)
(* stored points as well, and an ingest's points are stored before it      *)
(* saves; those of a session that are stored and not answered yet are      *)
(* counted one by one.                                                     *)
(***************************************************************************)
EntitiesBacked ==
  \A k \in Calls : call[k].pc \in {"storing", "saving", "ending"} =>
    call[k].entity.total <= stored[call[k].session]

Saving(s) == {k \in Calls : Running(k, "saving") /\ call[k].session = s}
Unanswered(s) == UNION {{k} \X (1..call[k].points) : k \in Saving(s)}

AnswersCovered ==
  \A s \in Sessions :
    IsFiniteSet(Unanswered(s)) /\ accepted[s] + Cardinality(Unanswered(s)) <= stored[s]

(* A call in flight is about the device of its session, whose row is there;  *)
(* before that nothing refers to it.                                         *)
DevicesKept ==
  /\ \A k \in Calls : call[k].pc \in {"storing", "saving", "ending"} =>
       row[call[k].session].device = call[k].entity.device
  /\ \A s \in Sessions : row[s].status = "absent" => stored[s] = 0

(* Of the calls about a device in turn one at most is in flight, and what it *)
(* read of its session, or of the sessions of its device, still holds.       *)
StillTrue(k) ==
  /\ Running(k, "starting") => ~Busy(call[k].device)
  /\ Running(k, "storing") => call[k].entity = row[call[k].session]
  /\ Running(k, "saving") => \E t \in Times :
       call[k].entity = Located(row[call[k].session], call[k].points, t)
  /\ Running(k, "ending") => call[k].entity = Ended(row[call[k].session])
  /\ call[k].pc \in {"storing", "saving", "ending"} => IsActive(call[k].session)

TotalsExact(d) ==
  failures = 0 => \A s \in Sessions : row[s].device = d =>
    stored[s] = row[s].total + Cardinality(Unanswered(s))

Undisturbed(d) ==
  /\ \A j, k \in InFlight(d) : j = k
  /\ \A k \in InFlight(d) : StillTrue(k)
  /\ OneActive(d)
  /\ TotalsExact(d)

TurnInv == DevicesKept /\ \A d \in Devices : InTurn(d) => Undisturbed(d)
==============================================================================
