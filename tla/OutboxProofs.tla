---------------------------- MODULE OutboxProofs ----------------------------
(***************************************************************************)
(* The two halves of libs/core/src/outbox, for every set of processes and  *)
(* events and any number of failures.                                      *)
(*                                                                         *)
(* The relay (OutboxRelay) in layers: the types, then who holds which row  *)
(* (Books), then one invariant each for the copies, the retries and the    *)
(* listeners, which use the layers below, and last the step simulation of  *)
(* EventDelivery.                                                          *)
(*                                                                         *)
(* The inbox (Inbox): an event consumed under processOnce is worked on by  *)
(* one invocation at a time and completed at most once; an event consumed  *)
(* the other way is recorded only after it was processed.                  *)
(***************************************************************************)
EXTENDS OutboxRelay, Inbox, TLAPS

------------------------------------------------------------------------------
(* The relay. *)


(* Replacing one relay's run by a well-formed one keeps all of them so. *)
LEMMA OneRun ==
  ASSUME TypeOK, NEW r \in Relays, NEW run \in Runs, RunOK(run),
         relay' = [relay EXCEPT ![r] = run]
  PROVE  relay' \in [Relays -> Runs] /\ \A q \in Relays : RunOK(relay'[q])
BY DEF TypeOK

(* The run of an idle relay is well-formed. *)
LEMMA NoRunOK == NoRun \in Runs /\ RunOK(NoRun)
BY DEF NoRun, Runs, RunOK

(* Every variable keeps its type, and a run keeps its piles apart. *)
THEOREM TypeCorrect == SafeSpec => []TypeOK
<1>1. Init => TypeOK
  BY RelayAssumption DEF Init, TypeOK, RunOK, NoRun, Runs, Ids
<1>2. TypeOK /\ [Next]_vars => TypeOK'
  <2> SUFFICES ASSUME TypeOK, [Next]_vars PROVE TypeOK'
    OBVIOUS
  <2>1. CASE PublishEvent
    <3>1. nextId \in Ids /\ nextId' \in 1..MaxEvents + 1 /\ writing' \subseteq Ids
      BY <2>1, RelayAssumption DEF PublishEvent, TypeOK, Ids
    <3> QED
      BY <2>1, <3>1 DEF PublishEvent, TypeOK, history
  <2>2. ASSUME NEW e \in Ids, CommitProducer(e) PROVE TypeOK'
    BY <2>2 DEF CommitProducer, TypeOK
  <2>3. ASSUME NEW e \in Ids, RollbackProducer(e) PROVE TypeOK'
    BY <2>3 DEF RollbackProducer, TypeOK, history
  <2>4. ASSUME NEW r \in Relays, Poll(r) PROVE TypeOK'
    <3>1. PICK B \in SUBSET Ids :
            relay' = [relay EXCEPT ![r] = [NoRun EXCEPT !.pc = "loop", !.batch = B]]
      BY <2>4 DEF Poll, Batches, Claimable, Unpublished, TypeOK
    <3>2. LET run == [NoRun EXCEPT !.pc = "loop", !.batch = B]
          IN  run \in Runs /\ RunOK(run)
      BY DEF NoRun, Runs, RunOK
    <3>3. relay' \in [Relays -> Runs] /\ \A q \in Relays : RunOK(relay'[q])
      BY <3>1, <3>2, OneRun
    <3> QED
      BY <2>4, <3>3 DEF Poll, TypeOK, tables, history
  <2>5. ASSUME NEW r \in Relays, EmptyPoll(r) PROVE TypeOK'
    BY <2>5 DEF EmptyPoll, TypeOK, vars, tables, history
  <2>6. ASSUME NEW r \in Relays, EmitOk(r) PROVE TypeOK'
    <3>1. PICK e \in Todo(r) :
            /\ relay' = [relay EXCEPT ![r] = [relay[r] EXCEPT !.sent = @ \cup {e}]]
            /\ copies' = [copies EXCEPT ![e] = @ + 1]
            /\ heard' = IF r \in Listening THEN heard \cup {e} ELSE heard
      BY <2>6 DEF EmitOk, Lowest, TypeOK, Runs
    <3>6. UNCHANGED <<tables, accepted, cleaned, publishers, throws, orphaned, losses>>
      BY <2>6 DEF EmitOk
    <3>2. relay[r] \in Runs /\ RunOK(relay[r]) /\ relay[r].pc = "loop"
      BY <2>6 DEF TypeOK, EmitOk
    <3>3. e \in Ids /\ e \in relay[r].batch /\ e \notin Handled(r)
      BY <3>1, <3>2 DEF Todo, Runs
    <3>4. LET run == [relay[r] EXCEPT !.sent = @ \cup {e}]
          IN  run \in Runs /\ RunOK(run)
      BY <3>2, <3>3 DEF Runs, RunOK, Handled
    <3>5. relay' \in [Relays -> Runs] /\ \A q \in Relays : RunOK(relay'[q])
      BY <3>1, <3>4, OneRun
    <3>7. heard' \subseteq Ids /\ copies' \in [Ids -> Nat]
      BY <3>1, <3>3 DEF TypeOK
    <3> QED
      BY <3>5, <3>6, <3>7 DEF TypeOK, tables
  <2>7. ASSUME NEW r \in Relays, EmitThrows(r) PROVE TypeOK'
    <3>1. PICK e \in Todo(r) :
            /\ throws' = [throws EXCEPT ![e] = @ + 1]
            /\ \/ relay' = [relay EXCEPT ![r] = NoRun]
               \/ relay' = [relay EXCEPT ![r] = [relay[r] EXCEPT !.dead = @ \cup {e}]]
               \/ relay' = [relay EXCEPT ![r] = [relay[r] EXCEPT !.retried = @ \cup {e}]]
      BY <2>7 DEF EmitThrows, Lowest, TypeOK, Runs
    <3>7. UNCHANGED <<tables, accepted, cleaned, copies, heard, publishers, orphaned, losses>>
      BY <2>7 DEF EmitThrows
    <3>2. relay[r] \in Runs /\ RunOK(relay[r]) /\ relay[r].pc = "loop"
      BY <2>7 DEF TypeOK, EmitThrows
    <3>3. e \in Ids /\ e \in relay[r].batch /\ e \notin Handled(r)
      BY <3>1, <3>2 DEF Todo, Runs
    <3>4. LET run == [relay[r] EXCEPT !.dead = @ \cup {e}]
          IN  run \in Runs /\ RunOK(run)
      BY <3>2, <3>3 DEF Runs, RunOK, Handled
    <3>5. LET run == [relay[r] EXCEPT !.retried = @ \cup {e}]
          IN  run \in Runs /\ RunOK(run)
      BY <3>2, <3>3 DEF Runs, RunOK, Handled
    <3>6. relay' \in [Relays -> Runs] /\ \A q \in Relays : RunOK(relay'[q])
      BY <3>1, <3>4, <3>5, NoRunOK, OneRun
    <3> QED
      BY <3>1, <3>3, <3>6, <3>7 DEF TypeOK, tables
  <2>8. ASSUME NEW r \in Relays, Commit(r) PROVE TypeOK'
    <3>1. relay[r] \in Runs
      BY DEF TypeOK
    <3>2. relay' \in [Relays -> Runs] /\ \A q \in Relays : RunOK(relay'[q])
      BY <2>8, NoRunOK, OneRun DEF Commit
    <3> QED
      BY <2>8, <3>1, <3>2 DEF Commit, Published, Retried, Removed, Runs, TypeOK, history
  <2>9. ASSUME NEW r \in Relays, CommitFails(r) PROVE TypeOK'
    BY <2>9, NoRunOK, OneRun DEF CommitFails, TypeOK, tables, history
  <2>10. ASSUME NEW r \in Relays, LoseTx(r) PROVE TypeOK'
    <3>1. relay[r] \in Runs /\ RunOK(relay[r]) /\ relay[r].pc = "loop"
      BY <2>10 DEF TypeOK, LoseTx
    <3>2. LET run == [relay[r] EXCEPT !.tx = "lost"]
          IN  run \in Runs /\ RunOK(run)
      BY <3>1 DEF Runs, RunOK
    <3>3. relay' = [relay EXCEPT ![r] = [relay[r] EXCEPT !.tx = "lost"]]
      BY <2>10 DEF LoseTx, TypeOK, Runs
    <3>4. relay' \in [Relays -> Runs] /\ \A q \in Relays : RunOK(relay'[q])
      BY <3>2, <3>3, OneRun
    <3> QED
      BY <2>10, <3>1, <3>4, SMTT(30) DEF LoseTx, Runs, TypeOK, tables
  <2>11. ASSUME NEW r \in Relays, Crash(r) PROVE TypeOK'
    <3>1. relay[r] \in Runs
      BY DEF TypeOK
    <3>2. relay' \in [Relays -> Runs] /\ \A q \in Relays : RunOK(relay'[q])
      BY <2>11, NoRunOK, OneRun DEF Crash
    <3> QED
      BY <2>11, <3>1, <3>2 DEF Crash, Runs, TypeOK, tables
  <2>12. CASE CleanupPublishedEvents
    BY <2>12 DEF CleanupPublishedEvents, Cleanable, TypeOK
  <2>13. CASE UNCHANGED vars
    BY <2>13 DEF TypeOK, vars, tables, history
  <2> QED
    BY <2>1, <2>2, <2>3, <2>4, <2>5, <2>6, <2>7, <2>8, <2>9, <2>10, <2>11, <2>12, <2>13
    DEF Next, RelayStep
<1> QED
  BY <1>1, <1>2, PTL DEF SafeSpec

------------------------------------------------------------------------------
(* The events a relay still has to emit, or just emitted, are its batch.     *)
LEMMA Piles ==
  ASSUME TypeOK, NEW r \in Relays
  PROVE  /\ relay[r] \in Runs /\ relay[r].batch \subseteq Ids
         /\ Handled(r) \subseteq relay[r].batch
         /\ relay[r].pc = "idle" => relay[r] = NoRun
BY DEF TypeOK, Runs, RunOK, Handled

(* A run whose transaction is lost is the same run but for that.             *)
LEMMA LostRun ==
  ASSUME TypeOK, NEW r \in Relays, NEW run, run = [relay[r] EXCEPT !.tx = "lost"]
  PROVE  /\ run \in Runs /\ run.tx # "open" /\ run.batch = relay[r].batch
         /\ run.sent = relay[r].sent
<1>1. relay[r] \in Runs
  BY DEF TypeOK
<1> QED
  BY <1>1 DEF Runs

(* A step of a relay that leaves the tables alone and keeps its claim, or    *)
(* drops it, keeps the books.                                                *)
LEMMA ClaimKept ==
  ASSUME TypeOK, Books, NEW r \in Relays, NEW run \in Runs,
         relay' = [relay EXCEPT ![r] = run],
         UNCHANGED <<tables, accepted, cleaned>>,
         \/ run.batch = {}
         \/ run.batch = relay[r].batch /\ (run.tx = "open" => Alive(r))
  PROVE  Books'
<1>1. /\ \A q \in Relays \ {r} : relay'[q] = relay[q]
      /\ relay'[r] = run
  BY DEF TypeOK
<1>2. RowsHeld'
  BY <1>1 DEF Books, RowsHeld, tables
<1>3. EventsConserved'
  BY DEF Books, EventsConserved, tables
<1>4. ClaimsExclusive'
  BY <1>1 DEF Books, ClaimsExclusive, Unpublished, Alive, tables
<1> QED
  BY <1>2, <1>3, <1>4 DEF Books

(* No row is lost or doubled and no two live transactions share one. *)
LEMMA BooksStep == TypeOK /\ Books /\ [Next]_vars => Books'
<1> SUFFICES ASSUME TypeOK, Books, [Next]_vars PROVE Books'
  OBVIOUS
<1>1. CASE PublishEvent
  <2>1. RowsHeld'
    BY <1>1, RelayAssumption DEF PublishEvent, Books, RowsHeld, TypeOK, Ids, history
  <2> QED
    BY <1>1, <2>1 DEF PublishEvent, Books, EventsConserved, ClaimsExclusive, Unpublished, history
<1>2. ASSUME NEW e \in Ids, CommitProducer(e) PROVE Books'
  <2>1. RowsHeld'
    BY <1>2 DEF CommitProducer, Books, RowsHeld, EventsConserved
  <2>2. EventsConserved'
    BY <1>2 DEF CommitProducer, Books, RowsHeld, EventsConserved
  <2>3. ClaimsExclusive'
    BY <1>2 DEF CommitProducer, Books, ClaimsExclusive, Unpublished
  <2> QED
    BY <2>1, <2>2, <2>3 DEF Books
<1>3. ASSUME NEW e \in Ids, RollbackProducer(e) PROVE Books'
  BY <1>3 DEF RollbackProducer, Books, RowsHeld, EventsConserved, ClaimsExclusive, Unpublished, history
<1>4. ASSUME NEW r \in Relays, Poll(r) PROVE Books'
  <2>1. PICK B \in SUBSET Claimable :
          relay' = [relay EXCEPT ![r] = [NoRun EXCEPT !.pc = "loop", !.batch = B]]
    BY <1>4 DEF Poll, Batches
  <2>2. UNCHANGED <<tables, history>>
    BY <1>4 DEF Poll
  <2>3. /\ \A q \in Relays \ {r} : relay'[q] = relay[q]
        /\ relay'[r].batch = B /\ relay'[r].tx = "open"
    BY <2>1 DEF TypeOK, NoRun
  <2>4. B \subseteq Unpublished /\ B \cap Locked = {}
    BY DEF Claimable
  <2>5. \A q \in Relays : relay[q].tx = "open" => B \cap relay[q].batch = {}
    BY <2>4 DEF Locked
  <2>6. RowsHeld'
    BY <2>2, <2>3, <2>4 DEF Books, RowsHeld, EventsConserved, Unpublished, tables, history
  <2>7. EventsConserved'
    BY <2>2 DEF Books, EventsConserved, tables, history
  <2>8. ClaimsExclusive'
    BY <2>2, <2>3, <2>4, <2>5 DEF Books, ClaimsExclusive, Unpublished, tables
  <2> QED
    BY <2>6, <2>7, <2>8 DEF Books
<1>5. ASSUME NEW r \in Relays, EmitOk(r) PROVE Books'
  <2>1. PICK e \in Todo(r) :
          relay' = [relay EXCEPT ![r] = [relay[r] EXCEPT !.sent = @ \cup {e}]]
    BY <1>5 DEF EmitOk, Lowest, TypeOK, Runs
  <2>2. UNCHANGED <<tables, accepted, cleaned>>
    BY <1>5 DEF EmitOk
  <2>3. LET run == [relay[r] EXCEPT !.sent = @ \cup {e}]
        IN  run \in Runs /\ run.batch = relay[r].batch /\ run.tx = relay[r].tx
    BY Piles DEF Runs, Todo
  <2> QED
    BY <2>1, <2>2, <2>3, ClaimKept DEF Alive
<1>6. ASSUME NEW r \in Relays, EmitThrows(r) PROVE Books'
  <2>1. PICK e \in Todo(r) :
          \/ relay' = [relay EXCEPT ![r] = NoRun]
          \/ relay' = [relay EXCEPT ![r] = [relay[r] EXCEPT !.dead = @ \cup {e}]]
          \/ relay' = [relay EXCEPT ![r] = [relay[r] EXCEPT !.retried = @ \cup {e}]]
    BY <1>6 DEF EmitThrows, Lowest, TypeOK, Runs
  <2>2. UNCHANGED <<tables, accepted, cleaned>>
    BY <1>6 DEF EmitThrows
  <2>3. LET run == [relay[r] EXCEPT !.dead = @ \cup {e}]
        IN  run \in Runs /\ run.batch = relay[r].batch /\ run.tx = relay[r].tx
    BY Piles DEF Runs, Todo
  <2>4. LET run == [relay[r] EXCEPT !.retried = @ \cup {e}]
        IN  run \in Runs /\ run.batch = relay[r].batch /\ run.tx = relay[r].tx
    BY Piles DEF Runs, Todo
  <2>5. NoRun \in Runs /\ NoRun.batch = {}
    BY DEF NoRun, Runs
  <2> QED
    BY <2>1, <2>2, <2>3, <2>4, <2>5, ClaimKept DEF Alive
<1>7. ASSUME NEW r \in Relays, Commit(r) PROVE Books'
  <2>1. /\ \A q \in Relays \ {r} : relay'[q] = relay[q]
        /\ relay'[r].batch = {}
    BY <1>7 DEF Commit, TypeOK, NoRun
  <2>2. /\ relay[r].sent \subseteq relay[r].batch
        /\ relay[r].dead \subseteq relay[r].batch
        /\ relay[r].sent \cap relay[r].dead = {}
    BY DEF TypeOK, RunOK
  <2>3. relay[r].batch \subseteq Unpublished
    BY <1>7 DEF Books, ClaimsExclusive, Commit
  <2>4. /\ outbox' = outbox \ relay[r].dead
        /\ dlq' = dlq \cup relay[r].dead
        /\ publishedAt' \subseteq publishedAt \cup relay[r].sent
        /\ UNCHANGED <<nextId, writing, accepted, cleaned>>
    BY <1>7 DEF Commit, Removed, Published, Retried, history
  <2>5. RowsHeld'
    BY <2>1, <2>2, <2>3, <2>4 DEF Books, RowsHeld, Unpublished
  <2>6. EventsConserved'
    BY <2>2, <2>3, <2>4 DEF Books, EventsConserved, Unpublished
  <2>7. ASSUME NEW q \in Relays, relay'[q].tx = "open"
        PROVE  relay'[q].batch \subseteq Unpublished'
    <3>1. CASE q = r
      BY <2>1, <3>1
    <3>2. CASE q # r
      <4>1. relay[q].batch \cap relay[r].batch = {} /\ relay[q].batch \subseteq Unpublished
        BY <1>7, <2>1, <2>7, <3>2 DEF Books, ClaimsExclusive, Commit
      <4> QED
        BY <2>1, <2>2, <2>4, <3>2, <4>1 DEF Unpublished
    <3> QED
      BY <3>1, <3>2
  <2>8. ClaimsExclusive'
    BY <2>1, <2>7 DEF Books, ClaimsExclusive
  <2> QED
    BY <2>5, <2>6, <2>8 DEF Books
<1>8. ASSUME NEW r \in Relays, CommitFails(r) \/ Crash(r) PROVE Books'
  <2>1. NoRun \in Runs /\ NoRun.batch = {}
    BY DEF NoRun, Runs
  <2>2. UNCHANGED <<tables, accepted, cleaned>>
    BY <1>8 DEF CommitFails, Crash, history
  <2> QED
    BY <1>8, <2>1, <2>2, ClaimKept DEF CommitFails, Crash
<1>9. ASSUME NEW r \in Relays, LoseTx(r) PROVE Books'
  <2>1. relay' = [relay EXCEPT ![r] = [relay[r] EXCEPT !.tx = "lost"]]
    BY <1>9 DEF LoseTx, TypeOK, Runs
  <2>2. LET run == [relay[r] EXCEPT !.tx = "lost"]
        IN  run \in Runs /\ run.batch = relay[r].batch /\ run.tx # "open"
    BY LostRun
  <2>3. UNCHANGED <<tables, accepted, cleaned>>
    BY <1>9 DEF LoseTx
  <2> QED
    BY <2>1, <2>2, <2>3, ClaimKept
<1>10. CASE CleanupPublishedEvents
  BY <1>10 DEF CleanupPublishedEvents, Cleanable, Books, RowsHeld, EventsConserved, ClaimsExclusive, Unpublished
<1>11. CASE UNCHANGED vars
  BY <1>11 DEF vars, tables, history, Books, RowsHeld, EventsConserved, ClaimsExclusive, Unpublished
<1> QED
  BY <1>1, <1>2, <1>3, <1>4, <1>5, <1>6, <1>7, <1>8, <1>9, <1>10, <1>11
  DEF Next, RelayStep, EmptyPoll

(* EventsConserved and ClaimsExclusive hold, with the row bookkeeping. *)
THEOREM BooksCorrect == SafeSpec => []Books
<1>1. Init => Books
  BY DEF Init, Books, RowsHeld, EventsConserved, ClaimsExclusive, Unpublished, NoRun
<1> QED
  BY <1>1, BooksStep, TypeCorrect, PTL DEF SafeSpec

(* Every committed event is in exactly one place, whatever fails. *)
THEOREM NoEventLost == SafeSpec => []EventsConserved
<1>1. Books => EventsConserved
  BY DEF Books
<1> QED
  BY <1>1, BooksCorrect, PTL

(* Two live relay transactions never share an event. *)
THEOREM NoSharedClaim == SafeSpec => []ClaimsExclusive
<1>1. Books => ClaimsExclusive
  BY DEF Books
<1> QED
  BY <1>1, BooksCorrect, PTL

------------------------------------------------------------------------------
(* The copies handed over are accounted for, and a second one only ever goes *)
(* to an event that a lost transaction had claimed.                          *)
Copies == CopiesBooked /\ DuplicatesNeedLosses

LEMMA CopiesStep == TypeOK /\ Books /\ Copies /\ [Next]_vars => Copies'
<1> SUFFICES ASSUME TypeOK, Books, Copies, [Next]_vars PROVE Copies'
  OBVIOUS
<1> USE DEF Copies, CopiesBooked, DuplicatesNeedLosses, Alive
<1>1. CASE UNCHANGED <<publishedAt, relay, cleaned, copies, orphaned>>
  BY <1>1
<1>2. ASSUME NEW r \in Relays, Poll(r) PROVE Copies'
  <2>1. PICK B \in SUBSET Ids :
          relay' = [relay EXCEPT ![r] = [NoRun EXCEPT !.pc = "loop", !.batch = B]]
    BY <1>2 DEF Poll, Batches, Claimable, Unpublished, TypeOK
  <2>2. UNCHANGED <<tables, history>>
    BY <1>2 DEF Poll
  <2>3. /\ \A q \in Relays \ {r} : relay'[q] = relay[q]
        /\ relay'[r].sent = {} /\ relay'[r].tx = "open"
    BY <2>1 DEF TypeOK, NoRun
  <2>4. relay[r].sent = {}
    BY <1>2 DEF Poll, TypeOK, RunOK, NoRun
  <2> QED
    BY <2>2, <2>3, <2>4 DEF tables, history
<1>3. ASSUME NEW r \in Relays, EmitOk(r) PROVE Copies'
  <2>1. PICK e \in Todo(r) :
          /\ relay' = [relay EXCEPT ![r] = [relay[r] EXCEPT !.sent = @ \cup {e}]]
          /\ copies' = [copies EXCEPT ![e] = @ + 1]
    BY <1>3 DEF EmitOk, Lowest, TypeOK, Runs
  <2>2. UNCHANGED <<publishedAt, cleaned, orphaned>>
    BY <1>3 DEF EmitOk, tables
  <2>3. /\ \A q \in Relays \ {r} : relay'[q] = relay[q]
        /\ relay'[r].sent = relay[r].sent \cup {e}
        /\ relay'[r].tx = relay[r].tx
        /\ relay'[r].batch = relay[r].batch
    BY <2>1 DEF TypeOK, Runs
  <2>4. e \in Ids /\ e \in relay[r].batch /\ e \notin relay[r].sent
    BY Piles DEF Todo, Handled
  <2>5. /\ copies'[e] = copies[e] + 1 /\ copies[e] \in Nat
        /\ \A f \in Ids \ {e} : copies'[f] = copies[f]
        /\ \A f \in Ids : copies[f] \in Nat
    BY <2>1, <2>4 DEF TypeOK
  <2>6. ASSUME e \notin orphaned PROVE copies[e] = 0 /\ Alive(r)
    <3>1. Alive(r)
      BY <2>4, <2>6 DEF TypeOK
    <3>2. e \notin publishedAt \cup cleaned
      BY <2>4, <3>1 DEF Books, ClaimsExclusive, EventsConserved, Unpublished
    <3>3. ASSUME NEW q \in Relays, Alive(q), e \in relay[q].sent PROVE FALSE
      <4>1. e \in relay[q].batch
        BY <3>3, Piles DEF Handled
      <4>2. q # r
        BY <2>4, <3>3
      <4> QED
        BY <2>4, <3>1, <3>3, <4>1, <4>2 DEF Books, ClaimsExclusive
    <3> QED
      BY <2>4, <2>5, <2>6, <3>1, <3>2, <3>3
  <2>7. \A q \in Relays : \A f \in relay'[q].sent : copies'[f] > 0
    BY <2>3, <2>4, <2>5, Piles DEF Handled
  <2>8. \A f \in publishedAt \cup cleaned : copies'[f] > 0
    BY <2>5 DEF TypeOK
  <2>9. ASSUME NEW f \in Ids, copies'[f] > 0, f \notin orphaned \cup publishedAt \cup cleaned
        PROVE  \E q \in Relays : relay'[q].tx = "open" /\ f \in relay'[q].sent
    <3>1. CASE f = e
      BY <2>3, <2>6, <2>9, <3>1
    <3>2. CASE f # e
      <4>1. PICK q \in Relays : Alive(q) /\ f \in relay[q].sent
        BY <2>5, <2>9, <3>2
      <4> QED
        BY <2>3, <4>1
    <3> QED
      BY <3>1, <3>2
  <2>10. DuplicatesNeedLosses'
    BY <2>2, <2>4, <2>5, <2>6
  <2> QED
    BY <2>2, <2>3, <2>7, <2>8, <2>9, <2>10
<1>4. ASSUME NEW r \in Relays, EmitThrows(r) PROVE Copies'
  <2>1. PICK e \in Todo(r) :
          IF relay[r].tx = "lost" THEN relay' = [relay EXCEPT ![r] = NoRun]
          ELSE \/ relay' = [relay EXCEPT ![r] = [relay[r] EXCEPT !.dead = @ \cup {e}]]
               \/ relay' = [relay EXCEPT ![r] = [relay[r] EXCEPT !.retried = @ \cup {e}]]
    BY <1>4 DEF EmitThrows, Lowest, TypeOK, Runs
  <2>2. UNCHANGED <<publishedAt, cleaned, orphaned, copies>>
    BY <1>4 DEF EmitThrows, tables
  <2>3. \A q \in Relays \ {r} : relay'[q] = relay[q]
    BY <2>1 DEF TypeOK
  <2>4. CASE relay[r].tx = "lost"
    <3>1. relay'[r].sent = {} /\ relay'[r].tx = "open"
      BY <2>1, <2>4 DEF TypeOK, NoRun
    <3> QED
      BY <2>2, <2>3, <2>4, <3>1
  <2>5. CASE relay[r].tx # "lost"
    <3>1. relay'[r].sent = relay[r].sent /\ relay'[r].tx = relay[r].tx
          /\ relay'[r].batch = relay[r].batch
      BY <2>1, <2>5 DEF TypeOK, Runs
    <3> QED
      BY <2>2, <2>3, <3>1
  <2> QED
    BY <2>4, <2>5
<1>5. ASSUME NEW r \in Relays, Commit(r) PROVE Copies'
  <2>1. /\ \A q \in Relays \ {r} : relay'[q] = relay[q]
        /\ relay'[r].sent = {} /\ relay'[r].tx = "open"
    BY <1>5 DEF Commit, TypeOK, NoRun
  <2>2. /\ publishedAt' = (publishedAt \ relay[r].retried) \cup relay[r].sent
        /\ UNCHANGED <<cleaned, copies, orphaned>>
    BY <1>5 DEF Commit, Retried, Published, history
  <2>3. relay[r].retried \cap publishedAt = {}
    BY <1>5, Piles DEF Commit, Handled, Books, ClaimsExclusive, Unpublished
  <2> QED
    BY <2>1, <2>2, <2>3
<1>6. ASSUME NEW r \in Relays, CommitFails(r) PROVE Copies'
  <2>1. /\ \A q \in Relays \ {r} : relay'[q] = relay[q]
        /\ relay'[r].sent = {} /\ relay'[r].tx = "open"
        /\ ~Alive(r)
    BY <1>6 DEF CommitFails, TypeOK, NoRun
  <2>2. UNCHANGED <<publishedAt, cleaned, orphaned, copies>>
    BY <1>6 DEF CommitFails, tables, history
  <2> QED
    BY <2>1, <2>2
<1>7. ASSUME NEW r \in Relays, Crash(r) PROVE Copies'
  <2>1. /\ \A q \in Relays \ {r} : relay'[q] = relay[q]
        /\ relay'[r].sent = {} /\ relay'[r].tx = "open"
        /\ orphaned' = orphaned \cup relay[r].batch
        /\ relay[r].sent \subseteq relay[r].batch
    BY <1>7, Piles DEF Crash, TypeOK, NoRun, Handled
  <2>2. UNCHANGED <<publishedAt, cleaned, copies>>
    BY <1>7 DEF Crash, tables
  <2> QED
    BY <2>1, <2>2
<1>8. ASSUME NEW r \in Relays, LoseTx(r) PROVE Copies'
  <2>1. /\ \A q \in Relays \ {r} : relay'[q] = relay[q]
        /\ relay'[r].sent = relay[r].sent /\ relay'[r].batch = relay[r].batch
        /\ orphaned' = orphaned \cup relay[r].batch
        /\ relay[r].sent \subseteq relay[r].batch
    BY <1>8, Piles DEF LoseTx, TypeOK, Runs, Handled
  <2>2. UNCHANGED <<publishedAt, cleaned, copies>>
    BY <1>8 DEF LoseTx, tables
  <2> QED
    BY <2>1, <2>2
<1>9. CASE CleanupPublishedEvents
  BY <1>9 DEF CleanupPublishedEvents, Cleanable
<1> QED
  BY <1>1, <1>2, <1>3, <1>4, <1>5, <1>6, <1>7, <1>8, <1>9
  DEF Next, RelayStep, EmptyPoll, PublishEvent, CommitProducer, RollbackProducer,
      vars, tables, history

(* Consumers are handed an event twice only after a transaction that had     *)
(* claimed it was lost.                                                      *)
THEOREM NoSpontaneousDuplicate == SafeSpec => []DuplicatesNeedLosses
<1>1. Init => Copies
  BY DEF Init, Copies, CopiesBooked, DuplicatesNeedLosses, NoRun, Alive
<1>2. Copies => DuplicatesNeedLosses
  BY DEF Copies
<1> QED
  BY <1>1, <1>2, CopiesStep, TypeCorrect, BooksCorrect, PTL DEF SafeSpec

------------------------------------------------------------------------------
(* The retry column never runs ahead of the failures it stands for.          *)
Retries == RetriesBooked /\ DeadLetterAfterRetries

LEMMA RetriesStep == TypeOK /\ Books /\ Retries /\ [Next]_vars => Retries'
<1> SUFFICES ASSUME TypeOK, Books, Retries, [Next]_vars PROVE Retries'
  OBVIOUS
<1> USE DEF Retries, RetriesBooked, DeadLetterAfterRetries, Alive
<1>1. CASE UNCHANGED <<retryCount, dlq, relay, throws>>
  BY <1>1
<1>2. ASSUME NEW r \in Relays, NEW run \in Runs,
             relay' = [relay EXCEPT ![r] = run],
             run.tx = "open" => /\ run.retried = {} \/ (Alive(r) /\ run.retried = relay[r].retried)
                                /\ run.dead = {} \/ (Alive(r) /\ run.dead = relay[r].dead),
             UNCHANGED <<retryCount, dlq, throws>>
      PROVE  Retries'
  BY <1>2 DEF TypeOK
<1>3. ASSUME NEW r \in Relays, Poll(r) PROVE Retries'
  <2>1. PICK B \in SUBSET Ids :
          relay' = [relay EXCEPT ![r] = [NoRun EXCEPT !.pc = "loop", !.batch = B]]
    BY <1>3 DEF Poll, Batches, Claimable, Unpublished, TypeOK
  <2>2. LET run == [NoRun EXCEPT !.pc = "loop", !.batch = B]
        IN  run \in Runs /\ run.retried = {} /\ run.dead = {}
    BY DEF NoRun, Runs
  <2> QED
    BY <1>2, <1>3, <2>1, <2>2 DEF Poll, tables, history
<1>4. ASSUME NEW r \in Relays, EmitOk(r) PROVE Retries'
  <2>1. PICK e \in Todo(r) :
          relay' = [relay EXCEPT ![r] = [relay[r] EXCEPT !.sent = @ \cup {e}]]
    BY <1>4 DEF EmitOk, Lowest, TypeOK, Runs
  <2>2. LET run == [relay[r] EXCEPT !.sent = @ \cup {e}]
        IN  /\ run \in Runs /\ run.tx = relay[r].tx
            /\ run.retried = relay[r].retried /\ run.dead = relay[r].dead
    BY Piles DEF Runs, Todo
  <2> QED
    BY <1>2, <1>4, <2>1, <2>2 DEF EmitOk, tables
<1>5. ASSUME NEW r \in Relays, EmitThrows(r) PROVE Retries'
  <2>1. PICK e \in Todo(r) :
          /\ throws' = [throws EXCEPT ![e] = @ + 1]
          /\ IF relay[r].tx = "lost" THEN relay' = [relay EXCEPT ![r] = NoRun]
             ELSE IF retryCount[e] >= MaxRetries
             THEN relay' = [relay EXCEPT ![r] = [relay[r] EXCEPT !.dead = @ \cup {e}]]
             ELSE relay' = [relay EXCEPT ![r] = [relay[r] EXCEPT !.retried = @ \cup {e}]]
    BY <1>5 DEF EmitThrows, Exhausted, Lowest, TypeOK, Runs
  <2>2. UNCHANGED <<retryCount, dlq>>
    BY <1>5 DEF EmitThrows, tables
  <2>3. e \in Ids
    BY Piles DEF Todo
  <2>4. /\ throws'[e] = throws[e] + 1
        /\ \A f \in Ids : /\ throws'[f] >= throws[f] /\ throws[f] \in Nat
                          /\ throws'[f] \in Nat /\ retryCount[f] \in Nat
    BY <2>1, <2>3 DEF TypeOK
  <2>5. \A q \in Relays \ {r} : relay'[q] = relay[q]
    BY <2>1 DEF TypeOK
  <2>6. \A q \in Relays : relay[q].retried \subseteq Ids /\ relay[q].dead \subseteq Ids
    BY DEF TypeOK, Runs
  <2>7. ASSUME Alive(r)'
        PROVE  /\ \A f \in relay'[r].retried :
                    retryCount[f] < MaxRetries /\ throws'[f] > retryCount[f]
               /\ \A f \in relay'[r].dead : throws'[f] > MaxRetries
    <3>1. CASE relay[r].tx = "lost"
      BY <2>1, <3>1 DEF TypeOK, NoRun
    <3>2. CASE relay[r].tx # "lost" /\ retryCount[e] >= MaxRetries
      <4>1. /\ relay'[r].retried = relay[r].retried
            /\ relay'[r].dead = relay[r].dead \cup {e}
        BY <2>1, <3>2 DEF TypeOK, Runs
      <4>2. Alive(r)
        BY <3>2 DEF TypeOK, Runs
      <4> QED
        BY <2>3, <2>4, <2>6, <3>2, <4>1, <4>2, RelayAssumption DEF TypeOK
    <3>3. CASE relay[r].tx # "lost" /\ ~(retryCount[e] >= MaxRetries)
      <4>1. /\ relay'[r].retried = relay[r].retried \cup {e}
            /\ relay'[r].dead = relay[r].dead
        BY <2>1, <3>3 DEF TypeOK, Runs
      <4>2. Alive(r)
        BY <3>3 DEF TypeOK, Runs
      <4> QED
        BY <2>3, <2>4, <2>6, <3>3, <4>1, <4>2, RelayAssumption DEF TypeOK
    <3> QED
      BY <3>1, <3>2, <3>3
  <2>8. \A q \in Relays \ {r} : Alive(q)' =>
          /\ \A f \in relay'[q].retried :
               retryCount[f] < MaxRetries /\ throws'[f] > retryCount[f]
          /\ \A f \in relay'[q].dead : throws'[f] > MaxRetries
    BY <2>4, <2>5, <2>6, RelayAssumption
  <2>9. DeadLetterAfterRetries'
    BY <2>2, <2>4, RelayAssumption DEF TypeOK
  <2> QED
    BY <2>2, <2>4, <2>7, <2>8, <2>9
<1>6. ASSUME NEW r \in Relays, Commit(r) PROVE Retries'
  <2>1. /\ \A q \in Relays \ {r} : relay'[q] = relay[q]
        /\ relay'[r].retried = {} /\ relay'[r].dead = {}
    BY <1>6 DEF Commit, TypeOK, NoRun
  <2>2. /\ retryCount' = [e \in Ids |-> IF e \in relay[r].retried THEN retryCount[e] + 1
                                        ELSE retryCount[e]]
        /\ dlq' = dlq \cup relay[r].dead
        /\ throws' = throws
    BY <1>6 DEF Commit, Retried, history
  <2>3. ASSUME NEW q \in Relays \ {r}, Alive(q)
        PROVE  \A f \in relay[q].retried : f \in Ids /\ retryCount'[f] = retryCount[f]
    <3>1. relay[q].batch \cap relay[r].batch = {}
      BY <1>6, <2>3 DEF Books, ClaimsExclusive, Commit
    <3>2. /\ relay[q].retried \subseteq relay[q].batch /\ relay[q].batch \subseteq Ids
          /\ relay[r].retried \subseteq relay[r].batch
      BY Piles DEF Handled
    <3> QED
      BY <2>2, <3>1, <3>2
  <2>4. \A e \in Ids : throws[e] \in Nat /\ retryCount[e] \in Nat
    BY DEF TypeOK
  <2>5. Alive(r)
    BY <1>6 DEF Commit
  <2>6. RetriesBooked'
    BY <2>1, <2>2, <2>3, <2>4, <2>5
  <2>7. DeadLetterAfterRetries'
    BY <2>2, <2>4, <2>5, RelayAssumption
  <2> QED
    BY <2>6, <2>7
<1>7. ASSUME NEW r \in Relays, CommitFails(r) \/ Crash(r) PROVE Retries'
  <2>1. NoRun \in Runs /\ NoRun.retried = {} /\ NoRun.dead = {}
    BY DEF NoRun, Runs
  <2>2. relay' = [relay EXCEPT ![r] = NoRun] /\ UNCHANGED <<retryCount, dlq, throws>>
    BY <1>7 DEF CommitFails, Crash, tables, history
  <2> QED
    BY <1>2, <2>1, <2>2
<1>8. ASSUME NEW r \in Relays, LoseTx(r) PROVE Retries'
  <2>1. LET run == [relay[r] EXCEPT !.tx = "lost"]
        IN  relay' = [relay EXCEPT ![r] = run] /\ run \in Runs /\ run.tx # "open"
    BY <1>8, LostRun DEF LoseTx
  <2>2. UNCHANGED <<retryCount, dlq, throws>>
    BY <1>8 DEF LoseTx, tables
  <2> QED
    BY <1>2, <2>1, <2>2
<1> QED
  BY <1>1, <1>3, <1>4, <1>5, <1>6, <1>7, <1>8
  DEF Next, RelayStep, EmptyPoll, PublishEvent, CommitProducer, RollbackProducer,
      CleanupPublishedEvents, vars, tables, history

(* An event reaches the dead-letter table only after MaxRetries + 1 throws,  *)
(* and its retry column never exceeds MaxRetries.                            *)
THEOREM DeadLettersEarned == SafeSpec => []DeadLetterAfterRetries
<1>1. Init => Retries
  BY RelayAssumption
  DEF Init, Retries, RetriesBooked, DeadLetterAfterRetries, NoRun, Alive
<1>2. Retries => DeadLetterAfterRetries
  BY DEF Retries
<1> QED
  BY <1>1, <1>2, RetriesStep, TypeCorrect, BooksCorrect, PTL DEF SafeSpec

------------------------------------------------------------------------------
(* What a process that listens emits, and so what it publishes, was heard.   *)
Hearing == SentWasHeard /\ PublishedWasHeard

LEMMA HearingStep ==
  TypeOK /\ Hearing /\ [Next]_vars => Hearing'
<1> SUFFICES ASSUME TypeOK, Hearing, [Next]_vars PROVE Hearing'
  OBVIOUS
<1> USE DEF Hearing, SentWasHeard, PublishedWasHeard
<1>0. Listening \subseteq Relays
  BY RelayAssumption
<1>1. CASE UNCHANGED <<publishedAt, cleaned, relay, heard, publishers>>
  BY <1>1
<1>2. ASSUME NEW r \in Relays, NEW run, relay' = [relay EXCEPT ![r] = run],
             run.sent \subseteq relay[r].sent,
             UNCHANGED <<publishedAt, cleaned, heard, publishers>>
      PROVE  Hearing'
  BY <1>0, <1>2 DEF TypeOK
<1>3. ASSUME NEW r \in Relays, Poll(r) PROVE Hearing'
  <2>1. PICK B : relay' = [relay EXCEPT ![r] = [NoRun EXCEPT !.pc = "loop", !.batch = B]]
    BY <1>3 DEF Poll
  <2>2. [NoRun EXCEPT !.pc = "loop", !.batch = B].sent = {}
    BY DEF NoRun
  <2> QED
    BY <1>2, <1>3, <2>1, <2>2 DEF Poll, tables, history
<1>4. ASSUME NEW r \in Relays, EmitOk(r) PROVE Hearing'
  <2>1. PICK e \in Todo(r) :
          /\ relay' = [relay EXCEPT ![r].sent = @ \cup {e}]
          /\ heard' = IF r \in Listening THEN heard \cup {e} ELSE heard
    BY <1>4 DEF EmitOk, Lowest
  <2>2. /\ \A q \in Relays \ {r} : relay'[q] = relay[q]
        /\ relay'[r].sent = relay[r].sent \cup {e}
    BY <2>1 DEF TypeOK, Runs
  <2>3. UNCHANGED <<publishedAt, cleaned, publishers>>
    BY <1>4 DEF EmitOk, tables
  <2> QED
    BY <1>0, <2>1, <2>2, <2>3
<1>5. ASSUME NEW r \in Relays, EmitThrows(r) PROVE Hearing'
  <2>1. PICK e \in Todo(r) :
          \/ relay' = [relay EXCEPT ![r] = NoRun]
          \/ relay' = [relay EXCEPT ![r] = [relay[r] EXCEPT !.dead = @ \cup {e}]]
          \/ relay' = [relay EXCEPT ![r] = [relay[r] EXCEPT !.retried = @ \cup {e}]]
    BY <1>5 DEF EmitThrows, Lowest, TypeOK, Runs
  <2>2. UNCHANGED <<publishedAt, cleaned, heard, publishers>>
    BY <1>5 DEF EmitThrows, tables
  <2>3. /\ [relay[r] EXCEPT !.dead = @ \cup {e}].sent = relay[r].sent
        /\ [relay[r] EXCEPT !.retried = @ \cup {e}].sent = relay[r].sent
        /\ NoRun.sent = {}
    BY DEF TypeOK, Runs, NoRun
  <2> QED
    BY <1>2, <2>1, <2>2, <2>3
<1>6. ASSUME NEW r \in Relays, Commit(r) PROVE Hearing'
  <2>1. /\ \A q \in Relays \ {r} : relay'[q] = relay[q]
        /\ relay'[r].sent = {}
        /\ publishedAt' \subseteq publishedAt \cup relay[r].sent
        /\ UNCHANGED <<cleaned, heard>>
    BY <1>6 DEF Commit, Published, Retried, TypeOK, NoRun
  <2>2. /\ publishedAt \cup cleaned \subseteq Ids /\ publishedAt' \cup cleaned' \subseteq Ids
        /\ relay[r].sent \subseteq Ids
    BY <2>1 DEF TypeOK, Runs
  <2>3. \A e \in Ids : publishers'[e] =
          IF e \in relay[r].sent THEN publishers[e] \cup {r} ELSE publishers[e]
    BY <1>6 DEF Commit, Published
  <2>4. SentWasHeard'
    BY <1>0, <2>1
  <2>5. ASSUME NEW e \in publishedAt' \cup cleaned', publishers'[e] \subseteq Listening
        PROVE  e \in heard'
    <3>1. CASE e \in relay[r].sent
      BY <2>1, <2>2, <2>3, <2>5, <3>1
    <3>2. CASE e \notin relay[r].sent
      BY <2>1, <2>2, <2>3, <2>5, <3>2
    <3> QED
      BY <3>1, <3>2
  <2> QED
    BY <2>4, <2>5
<1>7. ASSUME NEW r \in Relays, CommitFails(r) \/ Crash(r) PROVE Hearing'
  <2>1. /\ relay' = [relay EXCEPT ![r] = NoRun]
        /\ UNCHANGED <<publishedAt, cleaned, heard, publishers>>
    BY <1>7 DEF CommitFails, Crash, tables, history
  <2>2. NoRun.sent = {}
    BY DEF NoRun
  <2> QED
    BY <1>2, <2>1, <2>2
<1>8. ASSUME NEW r \in Relays, LoseTx(r) PROVE Hearing'
  <2>1. LET run == [relay[r] EXCEPT !.tx = "lost"]
        IN  relay' = [relay EXCEPT ![r] = run] /\ run.sent = relay[r].sent
    BY <1>8, LostRun DEF LoseTx
  <2> QED
    BY <1>2, <1>8, <2>1 DEF LoseTx, tables
<1>9. CASE CleanupPublishedEvents
  BY <1>9 DEF CleanupPublishedEvents, Cleanable
<1> QED
  BY <1>1, <1>3, <1>4, <1>5, <1>6, <1>7, <1>8, <1>9
  DEF Next, RelayStep, EmptyPoll, PublishEvent, CommitProducer, RollbackProducer,
      vars, tables, history

(* No event is marked published, or cleaned up, without having reached a     *)
(* consumer, but for those published by a process that has none: losses and  *)
(* concurrent relays, deaf ones among them, take nothing from the listeners  *)
(* of a process that publishes what it emitted.                              *)
THEOREM PublishedReachesListeners == SafeSpec => []PublishedWasHeard
<1>1. Init => Hearing
  BY RelayAssumption DEF Init, Hearing, SentWasHeard, PublishedWasHeard, NoRun
<1>2. Hearing => PublishedWasHeard
  BY DEF Hearing
<1>3. TypeOK /\ Hearing /\ [Next]_vars => Hearing'
  BY HearingStep, SMTT(30)
<1> QED
  BY <1>1, <1>2, <1>3, TypeCorrect, PTL DEF SafeSpec

------------------------------------------------------------------------------
(* Published events are never reopened and dead letters never come back.     *)
THEOREM SettledStaysSettled == SafeSpec => SettledForGood
<1>1. ASSUME TypeOK, Books, Books', [Next]_vars
      PROVE  [ /\ publishedAt \cup cleaned \subseteq publishedAt' \cup cleaned'
               /\ dlq \subseteq dlq' /\ dlq' \cap outbox' = {} ]_vars
  <2>1. dlq' \cap outbox' = {}
    BY <1>1 DEF Books, EventsConserved
  <2>2. ASSUME NEW r \in Relays, Commit(r)
        PROVE  publishedAt \cup cleaned \subseteq publishedAt' \cup cleaned' /\ dlq \subseteq dlq'
    <3>1. relay[r].retried \cap publishedAt = {}
      BY <1>1, <2>2, Piles DEF Commit, Handled, Books, ClaimsExclusive, Unpublished
    <3> QED
      BY <2>2, <3>1 DEF Commit, Retried, history
  <2>3. CASE CleanupPublishedEvents
    BY <2>1, <2>3 DEF CleanupPublishedEvents
  <2> QED
    BY <1>1, <2>1, <2>2, <2>3, ZenonT(60)
    DEF Next, RelayStep, Poll, EmptyPoll, EmitOk, EmitThrows, CommitFails, LoseTx, Crash,
        PublishEvent, CommitProducer, RollbackProducer, vars, tables, history
<1> QED
  BY <1>1, TypeCorrect, BooksCorrect, PTL DEF SafeSpec, SettledForGood

------------------------------------------------------------------------------
(* Every step of the relay is a step of EventDelivery or leaves it alone.    *)
LEMMA Simulation ==
  TypeOK /\ Books /\ Copies /\ [Next]_vars => [Contract!Next]_(Contract!vars)
<1> SUFFICES ASSUME TypeOK, Books, Copies, [Next]_vars
             PROVE  [Contract!Next]_(Contract!vars)
  OBVIOUS
<1>1. CASE UNCHANGED <<accepted, publishedAt, cleaned, dlq, copies>>
  BY <1>1 DEF Contract!vars
<1>2. ASSUME NEW e \in Ids, CommitProducer(e) PROVE Contract!Accept(e)
  BY <1>2 DEF CommitProducer, Contract!Accept, Books, RowsHeld
<1>3. ASSUME NEW r \in Relays, EmitOk(r) PROVE \E e \in Ids : Contract!HandOver(e)
  <2>1. PICK e \in Todo(r) : copies' = [copies EXCEPT ![e] = @ + 1]
    BY <1>3 DEF EmitOk, Lowest
  <2>2. e \in Ids /\ e \in accepted
    BY Piles DEF Todo, Books, RowsHeld
  <2> QED
    BY <1>3, <2>1, <2>2 DEF EmitOk, Contract!HandOver, tables
<1>4. ASSUME NEW r \in Relays, Commit(r) PROVE Contract!Settle(relay[r].sent, relay[r].dead)
  <2>1. /\ relay[r].batch \subseteq Unpublished
        /\ relay[r].sent \cup relay[r].dead \cup relay[r].retried \subseteq relay[r].batch
        /\ relay[r].sent \cap relay[r].dead = {}
    BY <1>4 DEF Commit, Books, ClaimsExclusive, TypeOK, RunOK
  <2>2. relay[r].sent \cup relay[r].dead \subseteq accepted \ ((publishedAt \cup cleaned) \cup dlq)
    BY <2>1 DEF Books, EventsConserved, Unpublished
  <2>3. \A e \in relay[r].sent : copies[e] > 0
    BY DEF Copies, CopiesBooked
  <2>4. /\ publishedAt' \cup cleaned' = (publishedAt \cup cleaned) \cup relay[r].sent
        /\ dlq' = dlq \cup relay[r].dead
        /\ UNCHANGED <<accepted, copies>>
    BY <1>4, <2>1 DEF Commit, Published, Retried, Unpublished, history
  <2> QED
    BY <2>1, <2>2, <2>3, <2>4 DEF Contract!Settle, Contract!Settled
<1>5. ASSUME CleanupPublishedEvents
      PROVE  UNCHANGED <<accepted, publishedAt \cup cleaned, dlq, copies>>
  BY <1>5 DEF CleanupPublishedEvents, Cleanable
<1>6. \A r \in Relays : relay[r].sent \in SUBSET Ids /\ relay[r].dead \in SUBSET Ids
  BY DEF TypeOK, Runs
<1> QED
  <2>1. (\E e \in Ids : CommitProducer(e)) => Contract!Next
    BY <1>2 DEF Contract!Next
  <2>2. (\E r \in Relays : EmitOk(r)) => Contract!Next
    BY <1>3 DEF Contract!Next
  <2>3. (\E r \in Relays : Commit(r)) => Contract!Next
    BY <1>4, <1>6 DEF Contract!Next
  <2>4. CleanupPublishedEvents => UNCHANGED Contract!vars
    BY <1>5 DEF Contract!vars
  <2> QED
    BY <1>1, <2>1, <2>2, <2>3, <2>4
    DEF Next, RelayStep, Poll, EmptyPoll, EmitThrows, CommitFails, LoseTx, Crash,
        PublishEvent, RollbackProducer, vars, tables, history

(* The outbox and its relay implement the promise of EventDelivery (its      *)
(* fairness aside).                                                          *)
THEOREM KeepsSafeContract == SafeSpec => Contract!SafeSpec
<1>1. Init => Contract!Init
  BY DEF Init, Contract!Init
<1>2. Init => Copies
  BY DEF Init, Copies, CopiesBooked, DuplicatesNeedLosses, NoRun, Alive
<1> QED
  BY <1>1, <1>2, Simulation, CopiesStep, TypeCorrect, BooksCorrect, PTL
  DEF SafeSpec, Contract!SafeSpec

------------------------------------------------------------------------------
(* The inbox. *)


ClaimInv == InboxTypeOK /\ ClaimsBooked /\ MarksEarned /\ HandlersApart

(* One invocation moves on: the others and their claims are as they were. *)
LEMMA OneMoves ==
  ASSUME InboxTypeOK, NEW h \in Handlers, NEW to,
         handler' = [handler EXCEPT ![h] = to]
  PROVE  /\ handler'[h] = to
         /\ \A g \in Handlers \ {h} : handler'[g] = handler[g]
BY DEF InboxTypeOK

(* What a busy invocation holds is an event. *)
LEMMA BusyHasEvent ==
  ASSUME InboxTypeOK, NEW h \in Handlers, ~At(h, "idle")
  PROVE  handler[h].event \in Events /\ handler[h] = [pc |-> handler[h].pc, event |-> handler[h].event]
BY DEF InboxTypeOK, At, Idle

(* A step to another place of the same invocation, in one form. *)
LEMMA GotoMoves ==
  ASSUME InboxTypeOK, NEW h \in Handlers, ~At(h, "idle"), NEW pc \in Steps, Goto(h, pc)
  PROVE  handler' = [handler EXCEPT ![h] = [pc |-> pc, event |-> handler[h].event]]
<1>1. handler[h] \in [pc : Steps, event : Events]
  BY DEF InboxTypeOK, At, Idle
<1>2. [handler[h] EXCEPT !.pc = pc] = [pc |-> pc, event |-> handler[h].event]
  BY <1>1
<1>3. handler' = [handler EXCEPT ![h] = [handler[h] EXCEPT !.pc = pc]]
  BY DEF Goto
<1> QED
  BY <1>2, <1>3

LEMMA TypesStep == InboxTypeOK /\ [InboxNext]_inboxVars => InboxTypeOK'
<1> SUFFICES ASSUME InboxTypeOK, [InboxNext]_inboxVars PROVE InboxTypeOK'
  OBVIOUS
<1>1. ASSUME NEW h \in Handlers, NEW e \in Events, Deliver(h, e) PROVE InboxTypeOK'
  BY <1>1 DEF Deliver, InboxTypeOK, Steps
<1>2. ASSUME NEW h \in Handlers, Claim(h) \/ Check(h) PROVE InboxTypeOK'
  <2>1. ~At(h, "idle") /\ Goto(h, "working") /\ "working" \in Steps
    BY <1>2 DEF Claim, Check, At, Steps
  <2>2. handler[h].event \in Events
    BY <2>1, BusyHasEvent
  <2> QED
    BY <1>2, <2>1, <2>2, GotoMoves DEF Claim, Check, InboxTypeOK
<1>3. ASSUME NEW h \in Handlers, Succeed(h) PROVE InboxTypeOK'
  <2>1. ~At(h, "idle") /\ "marking" \in Steps
    BY <1>3 DEF Succeed, At, Steps
  <2>2. handler[h].event \in Events
    BY <2>1, BusyHasEvent
  <2>3. completed' \in [Events -> Nat]
    BY <1>3, <2>2 DEF Succeed, InboxTypeOK
  <2> QED
    BY <1>3, <2>1, <2>2, <2>3, GotoMoves DEF Succeed, Finish, InboxTypeOK
<1>4. ASSUME NEW h \in Handlers, Throw(h) PROVE InboxTypeOK'
  <2>1. ~At(h, "idle") /\ "releasing" \in Steps
    BY <1>4 DEF Throw, At, Steps
  <2>2. handler[h].event \in Events
    BY <2>1, BusyHasEvent
  <2> QED
    BY <1>4, <2>1, <2>2, GotoMoves DEF Throw, AfterThrow, Finish, InboxTypeOK
<1>5. ASSUME NEW h \in Handlers, Skip(h) \/ Release(h) \/ ReleaseFails(h) \/ Die(h)
      PROVE InboxTypeOK'
  BY <1>5 DEF Skip, Release, ReleaseFails, Die, Finish, InboxTypeOK
<1>6. ASSUME NEW h \in Handlers, Mark(h) PROVE InboxTypeOK'
  <2>1. handler[h].event \in Events
    BY <1>6, BusyHasEvent DEF Mark, At
  <2> QED
    BY <1>6, <2>1 DEF Mark, Finish, InboxTypeOK
<1>7. CASE UNCHANGED inboxVars
  BY <1>7 DEF inboxVars, InboxTypeOK
<1> QED
  BY <1>1, <1>2, <1>3, <1>4, <1>5, <1>6, <1>7 DEF InboxNext, InboxStep

Claims == ClaimsBooked /\ MarksEarned /\ HandlersApart

(* An invocation that ends up idle, or busy without a claim, disturbs nothing. *)
LEMMA QuietStep ==
  ASSUME Claims, NEW h \in Handlers, inbox \subseteq inbox', completed' = completed,
         \A g \in Handlers \ {h} : handler'[g] = handler[g],
         ~Owns(h)', ~At(h, "releasing")', ~At(h, "marking")'
  PROVE  Claims'
BY DEF Claims, ClaimsBooked, MarksEarned, HandlersApart, Owns, At, Checks

LEMMA FinishMoves ==
  ASSUME InboxTypeOK, NEW h \in Handlers, Finish(h)
  PROVE  /\ handler'[h] = Idle
         /\ \A g \in Handlers \ {h} : handler'[g] = handler[g]
         /\ ~Owns(h)' /\ ~At(h, "releasing")' /\ ~At(h, "marking")'
<1>1. handler'[h] = Idle /\ \A g \in Handlers \ {h} : handler'[g] = handler[g]
  BY OneMoves DEF Finish
<1> QED
  BY <1>1 DEF Owns, At, Idle

LEMMA ClaimsStep ==
  ASSUME ClaimInv, [InboxNext]_inboxVars
  PROVE  Claims'
<1>a. InboxTypeOK /\ Claims
  BY DEF ClaimInv, Claims
<1>b. InboxTypeOK'
  BY <1>a, TypesStep
<1>1. ASSUME NEW h \in Handlers, NEW e \in Events, Deliver(h, e) PROVE Claims'
  <2>1. handler'[h].pc = "arrived" /\ \A g \in Handlers \ {h} : handler'[g] = handler[g]
    BY <1>1, <1>a DEF Deliver, InboxTypeOK
  <2>2. ~Owns(h)' /\ ~At(h, "releasing")' /\ ~At(h, "marking")'
    BY <2>1 DEF Owns, At
  <2> QED
    BY <1>1, <1>a, <2>1, <2>2, QuietStep DEF Deliver
<1>2. ASSUME NEW h \in Handlers, Claim(h) PROVE Claims'
  <2>1. ~At(h, "idle") /\ Goto(h, "working") /\ "working" \in Steps
    BY <1>2 DEF Claim, At, Steps
  <2>2. /\ handler'[h] = [pc |-> "working", event |-> handler[h].event]
        /\ \A g \in Handlers \ {h} : handler'[g] = handler[g]
    BY <1>a, <2>1, GotoMoves, OneMoves
  <2>3. \A g \in Handlers \ {h} : Owns(g)' => handler'[g].event # handler'[h].event
    BY <1>2, <1>a, <2>2 DEF Claim, Unclaimed, Claims, ClaimsBooked, Owns, At, Checks
  <2>4. HandlersApart'
    BY <1>a, <2>2, <2>3 DEF Claims, HandlersApart, Owns, At, Checks
  <2>5. handler[h].event \in Events \ Checked
    BY <1>2, <1>a, <2>1, BusyHasEvent DEF Claim, Checks
  <2>6. ~(completed[handler[h].event] > 0)
    BY <1>2, <1>a, <2>5 DEF Claim, Unclaimed, Claims, ClaimsBooked
  <2>7. /\ \A g \in Handlers : Owns(g)' => handler'[g].event \in inbox'
        /\ \A g \in Handlers : At(g, "releasing")' => ~Checks(g)'
    BY <1>2, <1>a, <2>2 DEF Claim, Claims, ClaimsBooked, Owns, At, Checks
  <2>8. \A e \in Events \ Checked : completed'[e] > 0 =>
          e \in inbox' /\ \A g \in Handlers : Owns(g)' => handler'[g].event # e
    BY <1>2, <1>a, <2>2, <2>6 DEF Claim, Claims, ClaimsBooked, Owns, At, Checks
  <2>9. MarksEarned'
    BY <1>2, <1>a, <2>2 DEF Claim, Claims, MarksEarned, At, Checks
  <2> QED
    BY <2>4, <2>7, <2>8, <2>9 DEF Claims, ClaimsBooked
<1>3. ASSUME NEW h \in Handlers, Check(h) PROVE Claims'
  <2>1. ~At(h, "idle") /\ Goto(h, "working") /\ "working" \in Steps
    BY <1>3 DEF Check, At, Steps
  <2>2. /\ handler'[h] = [pc |-> "working", event |-> handler[h].event]
        /\ \A g \in Handlers \ {h} : handler'[g] = handler[g]
    BY <1>a, <2>1, GotoMoves, OneMoves
  <2>3. ~Owns(h)' /\ ~At(h, "releasing")' /\ ~At(h, "marking")'
    BY <1>3, <2>2 DEF Check, Owns, At, Checks
  <2> QED
    BY <1>3, <1>a, <2>2, <2>3, QuietStep DEF Check
<1>4. ASSUME NEW h \in Handlers, Succeed(h), ~Checks(h) PROVE Claims'
  <2>1. Finish(h) /\ inbox' = inbox /\ Owns(h)
    BY <1>4 DEF Succeed, Owns, At
  <2>2. /\ \A g \in Handlers \ {h} : handler'[g] = handler[g]
        /\ ~Owns(h)' /\ ~At(h, "releasing")' /\ ~At(h, "marking")'
    BY <1>a, <2>1, FinishMoves
  <2>3. \A g \in Handlers : Owns(g)' =>
          /\ handler'[g].event \in inbox'
          /\ handler'[g].event # handler[h].event
    BY <1>a, <2>1, <2>2 DEF Claims, ClaimsBooked, HandlersApart, Owns, At, Checks
  <2>4. ASSUME NEW e \in Events \ Checked, completed'[e] > 0
        PROVE  e \in inbox' /\ \A g \in Handlers : Owns(g)' => handler'[g].event # e
    <3>1. CASE e = handler[h].event
      BY <1>a, <2>1, <2>3, <3>1 DEF Claims, ClaimsBooked
    <3>2. CASE e # handler[h].event
      <4>1. completed[e] > 0
        BY <1>4, <1>a, <2>4, <3>2 DEF Succeed, InboxTypeOK
      <4> QED
        BY <1>a, <2>1, <2>2, <4>1 DEF Claims, ClaimsBooked, Owns, At, Checks
    <3> QED
      BY <3>1, <3>2
  <2>5. HandlersApart' /\ \A g \in Handlers : At(g, "releasing")' => ~Checks(g)'
    BY <1>a, <2>2 DEF Claims, ClaimsBooked, HandlersApart, Owns, At, Checks
  <2>6. ASSUME NEW g \in Handlers, At(g, "marking")'
        PROVE  Checks(g)' /\ completed'[handler'[g].event] > 0
    <3>1. g # h /\ At(g, "marking") /\ handler'[g] = handler[g]
      BY <2>2, <2>6 DEF At
    <3>2. Checks(g) /\ handler[g].event # handler[h].event
      BY <1>4, <1>a, <3>1 DEF Claims, MarksEarned, Checks
    <3> QED
      BY <1>4, <1>a, <3>1, <3>2 DEF Succeed, Claims, MarksEarned, InboxTypeOK, Checks
  <2> QED
    BY <2>3, <2>4, <2>5, <2>6 DEF Claims, ClaimsBooked, MarksEarned
<1>5. ASSUME NEW h \in Handlers, Succeed(h), Checks(h) PROVE Claims'
  <2>1. ~At(h, "idle") /\ Goto(h, "marking") /\ "marking" \in Steps /\ inbox' = inbox
    BY <1>5 DEF Succeed, At, Steps
  <2>2. /\ handler'[h] = [pc |-> "marking", event |-> handler[h].event]
        /\ \A g \in Handlers \ {h} : handler'[g] = handler[g]
    BY <1>a, <2>1, GotoMoves, OneMoves
  <2>3. handler[h].event \in Checked /\ handler[h].event \in Events
    BY <1>5, <1>a, <2>1, BusyHasEvent DEF Checks
  <2>4. /\ \A e \in Events \ Checked : completed'[e] = completed[e]
        /\ \A e \in Events : completed[e] > 0 => completed'[e] > 0
        /\ completed'[handler[h].event] > 0
    BY <1>5, <1>a, <2>3 DEF Succeed, InboxTypeOK
  <2>5. ~Owns(h)' /\ ~At(h, "releasing")'
    BY <2>2, <2>3 DEF Owns, At, Checks
  <2>6. ClaimsBooked' /\ HandlersApart'
    BY <1>a, <2>1, <2>2, <2>4, <2>5 DEF Claims, ClaimsBooked, HandlersApart, Owns, At, Checks
  <2>7. ASSUME NEW g \in Handlers, At(g, "marking")'
        PROVE  Checks(g)' /\ completed'[handler'[g].event] > 0
    <3>1. CASE g = h
      BY <2>2, <2>3, <2>4, <3>1 DEF Checks
    <3>2. CASE g # h
      <4>1. At(g, "marking") /\ handler'[g] = handler[g]
        BY <2>2, <2>7, <3>2 DEF At
      <4>2. handler[g].event \in Events
        BY <1>a, <4>1, BusyHasEvent DEF At
      <4> QED
        BY <1>a, <2>4, <4>1, <4>2 DEF Claims, MarksEarned, Checks
    <3> QED
      BY <3>1, <3>2
  <2> QED
    BY <2>6, <2>7 DEF Claims, MarksEarned
<1>6. ASSUME NEW h \in Handlers, Throw(h), ~Checks(h) PROVE Claims'
  <2>1. ~At(h, "idle") /\ Goto(h, "releasing") /\ "releasing" \in Steps /\ Owns(h)
    BY <1>6 DEF Throw, AfterThrow, At, Owns, Steps
  <2>2. /\ handler'[h] = [pc |-> "releasing", event |-> handler[h].event]
        /\ \A g \in Handlers \ {h} : handler'[g] = handler[g]
    BY <1>a, <2>1, GotoMoves, OneMoves
  <2> QED
    BY <1>6, <1>a, <2>1, <2>2
    DEF Throw, Claims, ClaimsBooked, MarksEarned, HandlersApart, Owns, At, Checks
<1>7. ASSUME NEW h \in Handlers,
             Skip(h) \/ ReleaseFails(h) \/ Die(h) \/ Mark(h) \/ (Throw(h) /\ Checks(h))
      PROVE  Claims'
  <2>1. Finish(h) /\ inbox \subseteq inbox' /\ completed' = completed
    BY <1>7 DEF Skip, ReleaseFails, Die, Mark, Throw, AfterThrow
  <2> QED
    BY <1>a, <2>1, FinishMoves, QuietStep
<1>8. ASSUME NEW h \in Handlers, Release(h) PROVE Claims'
  <2>1. Finish(h) /\ Owns(h)
    BY <1>8, <1>a DEF Release, Claims, ClaimsBooked, Owns, At
  <2>2. /\ \A g \in Handlers \ {h} : handler'[g] = handler[g]
        /\ ~Owns(h)' /\ ~At(h, "releasing")' /\ ~At(h, "marking")'
    BY <1>a, <2>1, FinishMoves
  <2>3. HandlersApart' /\ MarksEarned'
    BY <1>8, <1>a, <2>2 DEF Release, Claims, HandlersApart, MarksEarned, Owns, At, Checks
  <2>4. /\ \A g \in Handlers : Owns(g)' => handler'[g].event \in inbox'
        /\ \A g \in Handlers : At(g, "releasing")' => ~Checks(g)'
    BY <1>8, <1>a, <2>1, <2>2
    DEF Release, Released, Claims, ClaimsBooked, HandlersApart, Owns, At, Checks
  <2>5. \A e \in Events \ Checked : completed'[e] > 0 =>
          e \in inbox' /\ \A g \in Handlers : Owns(g)' => handler'[g].event # e
    BY <1>8, <1>a, <2>1, <2>2
    DEF Release, Released, Claims, ClaimsBooked, Owns, At, Checks
  <2> QED
    BY <2>3, <2>4, <2>5 DEF Claims, ClaimsBooked
<1>9. CASE UNCHANGED inboxVars
  BY <1>9, <1>a
  DEF inboxVars, Claims, ClaimsBooked, MarksEarned, HandlersApart, Owns, At, Checks
<1> QED
  BY <1>1, <1>2, <1>3, <1>4, <1>5, <1>6, <1>7, <1>8, <1>9 DEF InboxNext, InboxStep

(* Every variable keeps its type, however the handlers are written. *)
THEOREM InboxTypesCorrect == InboxSpec => []InboxTypeOK
<1>1. InboxInit => InboxTypeOK
  BY DEF InboxInit, InboxTypeOK, Idle
<1> QED
  BY <1>1, TypesStep, PTL DEF InboxSpec

LEMMA ClaimInvariant == InboxSpec => []ClaimInv
<1>1. InboxInit => ClaimInv
  BY DEF InboxInit, ClaimInv, InboxTypeOK, ClaimsBooked, MarksEarned, HandlersApart, Owns,
         At, Idle
<1>2. ClaimInv /\ [InboxNext]_inboxVars => ClaimInv'
  BY TypesStep, ClaimsStep DEF ClaimInv, Claims
<1> QED
  BY <1>1, <1>2, PTL DEF InboxSpec

(* No two invocations work on one event at the same time. *)
THEOREM NoRace == InboxSpec => []HandlersApart
BY ClaimInvariant, PTL DEF ClaimInv

(* An event is processed to the end at most once. *)
THEOREM ProcessedAtMostOnce == InboxSpec => []CompletedOnce
<1>1. InboxInit => CompletedOnce
  BY DEF InboxInit, CompletedOnce
<1>2. ClaimInv /\ CompletedOnce /\ [InboxNext]_inboxVars => CompletedOnce'
  <2> SUFFICES ASSUME ClaimInv, CompletedOnce, [InboxNext]_inboxVars PROVE CompletedOnce'
    OBVIOUS
  <2>1. ASSUME NEW h \in Handlers, Succeed(h) PROVE CompletedOnce'
    <3>1. handler[h].event \in Events
      BY <2>1, BusyHasEvent DEF Succeed, At, ClaimInv
    <3>2. ~Checks(h) => completed[handler[h].event] = 0
      BY <2>1, <3>1 DEF Succeed, ClaimInv, ClaimsBooked, InboxTypeOK, Owns, At, Checks
    <3> QED
      BY <2>1, <3>1, <3>2 DEF Succeed, CompletedOnce, ClaimInv, InboxTypeOK, Checks
  <2>2. CASE completed' = completed
    BY <2>2 DEF CompletedOnce
  <2> QED
    BY <2>1, <2>2 DEF InboxNext, InboxStep, inboxVars, Deliver, Claim, Skip, Check, Throw,
                      Release, ReleaseFails, Mark, Die
<1> QED
  BY <1>1, <1>2, ClaimInvariant, PTL DEF InboxSpec

(* Only the handler that has an event claimed, and has not completed it, can *)
(* take the claim back.                                                      *)
THEOREM ClaimsOutliveWork == InboxSpec => ClaimsKept
<1> DEFINE Kept == \A e \in inbox \ inbox' :
              e \notin Checked /\ completed[e] = 0 /\ \E h \in Handlers : handler[h].event = e /\ Owns(h)
<1>1. ClaimInv /\ [InboxNext]_inboxVars => [Kept]_inboxVars
  <2> SUFFICES ASSUME ClaimInv, InboxNext PROVE Kept
    OBVIOUS
  <2>1. ASSUME NEW h \in Handlers, Release(h) PROVE Kept
    <3>1. Owns(h) /\ handler[h].event \in Events \ Checked
      BY <2>1, BusyHasEvent DEF Release, Owns, At, Checks, ClaimInv, ClaimsBooked
    <3>2. completed[handler[h].event] = 0
      BY <3>1 DEF ClaimInv, ClaimsBooked, InboxTypeOK
    <3> QED
      BY <2>1, <3>1, <3>2 DEF Release, Released
  <2>2. CASE inbox \subseteq inbox'
    BY <2>2
  <2> QED
    BY <2>1, <2>2 DEF InboxNext, InboxStep, Deliver, Claim, Skip, Check, Succeed, Throw,
                      ReleaseFails, Mark, Die
<1> QED
  BY <1>1, ClaimInvariant, PTL DEF InboxSpec, ClaimsKept

(* In the other usage, an event that is recorded was processed. *)
THEOREM RecordsEarned == InboxSpec => []RecordedWasProcessed
<1>1. InboxInit => RecordedWasProcessed
  BY DEF InboxInit, RecordedWasProcessed
<1>2. ClaimInv /\ RecordedWasProcessed /\ [InboxNext]_inboxVars => RecordedWasProcessed'
  <2> SUFFICES ASSUME ClaimInv, RecordedWasProcessed, [InboxNext]_inboxVars
      PROVE  RecordedWasProcessed'
    OBVIOUS
  <2>1. ASSUME NEW h \in Handlers, Mark(h) PROVE RecordedWasProcessed'
    BY <2>1 DEF Mark, ClaimInv, MarksEarned, RecordedWasProcessed
  <2>2. ASSUME NEW h \in Handlers, Claim(h) PROVE RecordedWasProcessed'
    BY <2>2 DEF Claim, Checks, RecordedWasProcessed
  <2>3. ASSUME NEW h \in Handlers, Succeed(h) PROVE RecordedWasProcessed'
    <3>1. \A e \in inbox' : e \in Events /\ e \in inbox
      BY <2>3 DEF Succeed, ClaimInv, InboxTypeOK
    <3> QED
      BY <2>3, <3>1 DEF Succeed, RecordedWasProcessed, ClaimInv, InboxTypeOK
  <2>4. CASE inbox' \subseteq inbox /\ completed' = completed
    BY <2>4 DEF RecordedWasProcessed
  <2> QED
    BY <2>1, <2>2, <2>3, <2>4 DEF InboxNext, InboxStep, inboxVars, Deliver, Skip, Check, Throw,
                                  Release, ReleaseFails, Die
<1> QED
  BY <1>1, <1>2, ClaimInvariant, PTL DEF InboxSpec
=============================================================================
