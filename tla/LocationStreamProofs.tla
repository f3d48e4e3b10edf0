------------------------- MODULE LocationStreamProofs -------------------------
(***************************************************************************)
(* The location stream, for every set of devices, regions and writers, any *)
(* log and any number of faults and pipelines.                             *)
(*                                                                         *)
(* The consumer group and the state store share only the log, which grows: *)
(* a step of one keeps the books of the other, and a new message comes     *)
(* after everything either of them has in hand.                            *)
(***************************************************************************)
EXTENDS LocationStream, SequenceTheorems, TLAPS

(* What the proofs use of the log. *)
LEMMA LogOffsets ==
  ASSUME StreamTypeOK
  PROVE  /\ Len(log) \in Nat /\ Offsets = 1..Len(log)
         /\ \A i \in Offsets : log[i] \in Messages /\ log[i].time \in Nat /\ log[i].device \in Devices
                                 /\ log[i].kind \in Kinds /\ log[i].time \in Times
<1>1. log \in Seq(Messages)
  BY DEF StreamTypeOK
<1>2. Len(log) \in Nat /\ Offsets = 1..Len(log)
  BY <1>1, LenProperties DEF Offsets
<1>3. \A i \in Offsets : log[i] \in Messages
  BY <1>1, <1>2, ElementOfSeq
<1> QED
  BY <1>2, <1>3, StreamAssumption DEF Messages

(* What a commit may pass: a settled message, and a location of "messages". *)
Passable(i) == Settled(i) \/ GivenToStub(i)

(* A message stays so as the tables and the dead letters grow. *)
LEMMA PassableStays ==
  ASSUME log' = log, handler' = handler, stored \subseteq stored', dlq \subseteq dlq',
         StreamTypeOK, NEW i \in Offsets, Passable(i)
  PROVE  Passable(i)'
<1>0. log[i].kind \in Kinds
  BY LogOffsets
<1>1. CASE log[i].kind = "empty"
  BY <1>1 DEF Settled, GivenToStub, Passable
<1>2. CASE log[i].kind = "location"
  BY <1>2 DEF Settled, GivenToStub, Passable, Key
<1>3. CASE log[i].kind = "poison"
  BY <1>3 DEF Settled, GivenToStub, Passable
<1> QED
  BY <1>0, <1>1, <1>2, <1>3 DEF Kinds

------------------------------------------------------------------------------
(* A new message. *)
LEMMA ProduceKeeps ==
  ASSUME StreamInv, NEW m \in Messages, Produce(m)
  PROVE  StreamInv'
<1>0. /\ StreamTypeOK /\ Len(log) \in Nat /\ Offsets = 1..Len(log)
  BY LogOffsets DEF StreamInv
<1>1. /\ log' \in Seq(Messages) /\ Len(log') = Len(log) + 1 /\ Offsets' = 1..Len(log) + 1
      /\ \A i \in Offsets : log'[i] = log[i]
  <2>1. log \in Seq(Messages) /\ log' = Append(log, m)
    BY <1>0 DEF StreamTypeOK, Produce
  <2>2. /\ Append(log, m) \in Seq(Messages) /\ Len(Append(log, m)) = Len(log) + 1
        /\ \A i \in 1..Len(log) : Append(log, m)[i] = log[i]
    BY <2>1, AppendProperties
  <2> QED
    BY <1>0, <2>1, <2>2, LenProperties DEF Offsets
<1>2. Offsets \subseteq Offsets'
  BY <1>0, <1>1
<1>3. /\ UNCHANGED <<handler, next, committed, batch, stored, dlq, skipped, faults,
                     latest, located, pipe, since, pipelines>>
  BY DEF Produce, consumer, state
<1>4. StreamTypeOK'
  <2>1. since' \in [Devices -> SUBSET Offsets']
    BY <1>0, <1>2, <1>3 DEF StreamTypeOK
  <2>2. dlq' \subseteq Offsets' /\ skipped' \subseteq Offsets'
    BY <1>0, <1>2, <1>3 DEF StreamTypeOK
  <2> QED
    BY <1>0, <1>1, <1>3, <2>1, <2>2 DEF StreamTypeOK
<1>5. ConsumerBooks'
  <2>1. ASSUME NEW n \in Nat, n <= Len(log) + 1, SettledBefore(n)
        PROVE  \A i \in Offsets' : i < n /\ i \notin skipped' => Passable(i)'
    <3> SUFFICES ASSUME NEW i \in Offsets', i < n, i \notin skipped'
                 PROVE  Passable(i)'
      OBVIOUS
    <3>1. i \in Offsets /\ log'[i] = log[i]
      BY <1>0, <1>1, <2>1
    <3>2. Passable(i)
      BY <1>3, <2>1, <3>1 DEF SettledBefore, Passable
    <3> QED
      BY <1>3, <3>1, <3>2 DEF Settled, GivenToStub, Passable, Key
  <2>2. next \in Nat /\ next <= Len(log) + 1
    BY <1>0 DEF StreamTypeOK, StreamInv, ConsumerBooks
  <2>3. batch.at \in Nat /\ batch.at <= Len(log) + 1
    BY <1>0 DEF StreamTypeOK, StreamInv, ConsumerBooks, NoBatch
  <2>4. SettledBefore(next)' /\ SettledBefore(batch.at)'
    BY <1>3, <2>1, <2>2, <2>3 DEF StreamInv, ConsumerBooks, SettledBefore, Passable
  <2> QED
    BY <1>0, <1>1, <1>3, <2>2, <2>4 DEF StreamInv, StreamTypeOK, ConsumerBooks
<1>6. PipelinesCarry'
  BY <1>2, <1>3 DEF StreamInv, PipelinesCarry
<1>7. LatestKept'
  <2> SUFFICES ASSUME NEW d \in Devices, latest[d] # 0
               PROVE  \A i \in since[d] : log'[i].time <= log'[latest[d]].time
    BY <1>3 DEF StreamInv, LatestKept
  <2>1. since[d] \subseteq Offsets /\ latest[d] \in since[d]
        /\ \A i \in since[d] : log[i].time <= log[latest[d]].time
    BY <1>0 DEF StreamInv, StreamTypeOK, LatestKept
  <2> QED
    BY <1>1, <2>1
<1> QED
  BY <1>4, <1>5, <1>6, <1>7 DEF StreamInv

------------------------------------------------------------------------------
(* The consumer group. *)
ConsumerStep ==
  \/ \E last \in Offsets : Fetch(last)
  \/ TakeEmpty \/ TakeLocation \/ TakePoison \/ InsertBatch
  \/ EndBatch \/ Throw \/ Restart

(* What a batch in hand means for its first unresolved message. *)
LEMMA InHand ==
  ASSUME StreamInv, InBatch
  PROVE  /\ batch.at \in Offsets /\ batch.last \in Offsets /\ batch # NoBatch
         /\ next <= batch.at /\ batch.at <= batch.last /\ batch.last <= Len(log)
         /\ \A i \in batch.at..batch.last : i \in Offsets /\ i > 0
BY LogOffsets DEF StreamInv, StreamTypeOK, ConsumerBooks, InBatch, NoBatch

LEMMA ConsumerTypes ==
  ASSUME StreamInv, ConsumerStep
  PROVE  StreamTypeOK'
<1>0. /\ StreamTypeOK /\ Len(log) \in Nat /\ Offsets = 1..Len(log)
      /\ \A i \in Offsets : log[i].device \in Devices /\ log[i].time \in Times
  BY LogOffsets DEF StreamInv
<1>1. UNCHANGED <<log, handler, latest, located, pipe, since, pipelines>> /\ Offsets' = Offsets
  BY DEF ConsumerStep, Fetch, TakeEmpty, TakeLocation, TakePoison, InsertBatch, EndBatch, Throw,
         Restart, state, Offsets
<1>2. next' \in Nat \ {0} /\ committed' \in Nat
  <2>1. CASE TakeLocation \/ TakePoison \/ InsertBatch
    BY <1>0, <2>1 DEF TakeLocation, TakePoison, InsertBatch, Resolve, StreamTypeOK, Parses,
                      Taking, InBatch
  <2>2. CASE Restart
    BY <1>0, <2>2 DEF Restart, StreamTypeOK
  <2>3. CASE ~(TakeLocation \/ TakePoison \/ InsertBatch \/ Restart)
    BY <1>0, <2>3 DEF ConsumerStep, Fetch, TakeEmpty, EndBatch, Throw, StreamTypeOK
  <2> QED
    BY <2>1, <2>2, <2>3
<1>3. batch' \in [at : Nat \ {0}, last : Nat]
  <2>1. ASSUME NEW last \in Offsets, Fetch(last) PROVE batch' \in [at : Nat \ {0}, last : Nat]
    BY <1>0, <2>1 DEF Fetch, StreamTypeOK
  <2>2. CASE TakeEmpty \/ TakeLocation \/ TakePoison
    BY <1>0, <2>2 DEF TakeEmpty, TakeLocation, TakePoison, Resolve, StreamTypeOK
  <2>3. CASE InsertBatch
    <3>1. batch \in [at : Nat \ {0}, last : Nat] /\ batch.last + 1 \in Nat \ {0}
      BY <1>0 DEF StreamTypeOK
    <3>2. batch' = [batch EXCEPT !.at = batch.last + 1]
      BY <2>3 DEF InsertBatch, Resolve
    <3> QED
      BY <3>1, <3>2
  <2>4. CASE EndBatch \/ Throw \/ Restart
    BY <2>4 DEF EndBatch, Throw, Restart, NoBatch
  <2> QED
    BY <2>1, <2>2, <2>3, <2>4 DEF ConsumerStep
<1>4. faults' \in 0..MaxFaults
  BY <1>0, StreamAssumption DEF ConsumerStep, Fetch, TakeEmpty, TakeLocation, TakePoison, InsertBatch,
         EndBatch, Throw, Restart, StreamTypeOK
<1>5. InBatch => Inserted \subseteq Devices \X Times
  BY <1>0, InHand DEF Inserted, Key, StreamTypeOK
<1>6. stored' \subseteq Devices \X Times
  BY <1>0, <1>5 DEF ConsumerStep, Fetch, TakeEmpty, TakeLocation, TakePoison, InsertBatch,
         EndBatch, Throw, Restart, StreamTypeOK, Parses
<1>7. dlq' \subseteq Offsets
  <2>1. dlq \subseteq Offsets
    BY <1>0 DEF StreamTypeOK
  <2>2. CASE Taking("poison") /\ dlq' \subseteq dlq \cup {batch.at}
    BY <2>1, <2>2, InHand DEF Taking
  <2>3. dlq' = dlq \/ (Taking("poison") /\ dlq' \subseteq dlq \cup {batch.at})
    <3>1. CASE Throw
      BY <3>1 DEF Throw, DeadLettered
    <3>2. CASE TakePoison
      BY <3>2 DEF TakePoison, DeadLettered
    <3>3. CASE ~Throw /\ ~TakePoison
      BY <3>3 DEF ConsumerStep, Fetch, TakeEmpty, TakeLocation, InsertBatch, EndBatch, Restart
    <3> QED
      BY <3>1, <3>2, <3>3
  <2> QED
    BY <2>1, <2>2, <2>3
<1>8. skipped' \subseteq Offsets
  BY <1>0 DEF ConsumerStep, Fetch, TakeEmpty, TakeLocation, TakePoison, InsertBatch,
         EndBatch, Throw, Restart, StreamTypeOK
<1> QED
  BY <1>0, <1>1, <1>2, <1>3, <1>4, <1>6, <1>7, <1>8 DEF StreamTypeOK

(* Everything a step resolves or passes over is settled by then. *)
LEMMA ConsumerSettles ==
  ASSUME StreamInv, ConsumerStep
  PROVE  ConsumerBooks'
<1>0. /\ StreamTypeOK /\ ConsumerBooks /\ Len(log) \in Nat /\ Offsets = 1..Len(log)
      /\ next \in Nat \ {0} /\ committed \in Nat /\ batch.at \in Nat \ {0} /\ batch.last \in Nat
      /\ batch \in [at : Nat \ {0}, last : Nat]
      /\ \A i \in Offsets : log[i].kind \in Kinds
  BY LogOffsets DEF StreamInv, StreamTypeOK
<1>1. UNCHANGED <<log, handler>> /\ Offsets' = Offsets
  BY DEF ConsumerStep, Fetch, TakeEmpty, TakeLocation, TakePoison, InsertBatch, EndBatch, Throw,
         Restart, Offsets
<1>2. stored \subseteq stored' /\ dlq \subseteq dlq' /\ skipped \subseteq skipped'
  BY DEF ConsumerStep, Fetch, TakeEmpty, TakeLocation, TakePoison, InsertBatch, EndBatch, Throw,
         Restart, Inserted, DeadLettered
<1>3. ASSUME NEW n \in Nat, SettledBefore(n)
      PROVE  \A i \in Offsets : i < n /\ i \notin skipped' => Passable(i)'
  BY <1>0, <1>1, <1>2, <1>3, PassableStays DEF SettledBefore, Passable
<1>4. NoBatch.at = 1 /\ \A i \in Offsets : ~(i < 1)
  BY <1>0 DEF NoBatch
<1>5. ASSUME NEW last \in Offsets, Fetch(last) PROVE ConsumerBooks'
  <2>1. /\ next' = next /\ committed' = committed /\ skipped' = skipped
        /\ batch'.at = next /\ batch'.last = last /\ next <= last /\ last <= Len(log)
    BY <1>5 DEF Fetch
  <2> QED
    BY <1>0, <1>1, <1>3, <2>1, SMTT(30) DEF ConsumerBooks, SettledBefore, Passable
<1>6. CASE TakeEmpty
  <2>1. /\ next' = next /\ committed' = committed /\ InBatch /\ log[batch.at].kind = "empty"
        /\ batch'.at = batch.at + 1 /\ batch'.last = batch.last
    BY <1>0, <1>6 DEF TakeEmpty, Taking
  <2>2. Passable(batch.at)
    BY <2>1 DEF Settled, GivenToStub, Passable
  <2>3. \A i \in Offsets : i < batch.at + 1 /\ i \notin skipped' => Passable(i)'
    <3> SUFFICES ASSUME NEW i \in Offsets, i < batch.at + 1, i \notin skipped'
                 PROVE  Passable(i)'
      OBVIOUS
    <3>1. CASE i = batch.at
      BY <1>0, <1>1, <1>2, <2>1, <2>2, <3>1, InHand, PassableStays
    <3>2. CASE i < batch.at
      BY <1>0, <1>3, <3>2 DEF ConsumerBooks
    <3> QED
      BY <1>0, <3>1, <3>2
  <2>4. SettledBefore(next)' /\ SettledBefore(batch.at)'
    BY <1>0, <1>1, <1>3, <2>1, <2>3 DEF ConsumerBooks, SettledBefore, Passable
  <2> QED
    BY <1>0, <1>1, <2>1, <2>4, InHand DEF ConsumerBooks, StreamInv
<1>7. CASE TakeLocation \/ TakePoison
  <2>1. /\ next' = batch.at + 1 /\ committed' = committed /\ InBatch
        /\ batch'.at = batch.at + 1 /\ batch'.last = batch.last
    BY <1>0, <1>7 DEF TakeLocation, TakePoison, Taking, Resolve
  <2>3. \A i \in Offsets : i < batch.at + 1 /\ i \notin skipped' => Passable(i)'
    <3> SUFFICES ASSUME NEW i \in Offsets, i < batch.at + 1, i \notin skipped'
                 PROVE  Passable(i)'
      OBVIOUS
    <3>1. CASE i = batch.at
      BY <1>1, <1>7, <3>1 DEF TakeLocation, TakePoison, Taking, Settled, GivenToStub, Passable, DeadLettered
    <3>2. CASE i < batch.at
      BY <1>0, <1>3, <3>2 DEF ConsumerBooks
    <3> QED
      BY <1>0, <3>1, <3>2
  <2>4. SettledBefore(next)' /\ SettledBefore(batch.at)'
    BY <1>0, <1>1, <2>1, <2>3 DEF SettledBefore, Passable
  <2> QED
    BY <1>0, <1>1, <2>1, <2>4, InHand DEF ConsumerBooks, StreamInv
<1>8. CASE InsertBatch
  <2>1. /\ next' = batch.last + 1 /\ committed' = committed /\ InBatch
        /\ batch'.at = batch.last + 1 /\ batch'.last = batch.last
        /\ stored' = Inserted /\ \A i \in batch.at..batch.last : log[i].kind # "poison"
    BY <1>0, <1>8 DEF InsertBatch, Parses, Resolve
  <2>2. \A i \in Offsets : i < batch.last + 1 /\ i \notin skipped' => Passable(i)'
    <3> SUFFICES ASSUME NEW i \in Offsets, i < batch.last + 1, i \notin skipped'
                 PROVE  Passable(i)'
      OBVIOUS
    <3>1. CASE i < batch.at
      BY <1>0, <1>3, <3>1 DEF ConsumerBooks
    <3>2. CASE i \in batch.at..batch.last
      <4>1. log[i].kind = "location" => Key(i) \in stored'
        BY <2>1, <3>2 DEF Inserted
      <4> QED
        BY <1>0, <1>1, <2>1, <3>2, <4>1 DEF Settled, GivenToStub, Passable, Key, Kinds
    <3> QED
      BY <1>0, <3>1, <3>2
  <2>3. SettledBefore(next)' /\ SettledBefore(batch.at)'
    BY <1>0, <1>1, <2>1, <2>2 DEF SettledBefore, Passable
  <2> QED
    BY <1>0, <1>1, <2>1, <2>3, InHand DEF ConsumerBooks, StreamInv
<1>9. CASE EndBatch \/ Throw
  <2>1. /\ next' = next /\ committed' \in {committed, next} /\ batch' = NoBatch /\ skipped' = skipped
    BY <1>9 DEF EndBatch, Throw
  <2> QED
    BY <1>0, <1>1, <1>3, <1>4, <2>1, SMTT(30) DEF ConsumerBooks, SettledBefore, Passable
<1>10. CASE Restart
  <2>1. CASE committed = 0
    <3>1. /\ next' = Len(log) + 1 /\ committed' = committed /\ batch' = NoBatch
          /\ skipped' = skipped \cup next..Len(log)
      BY <1>10, <2>1 DEF Restart
    <3>2. \A i \in Offsets : i \notin skipped' => i < next
      BY <1>0, <3>1
    <3>3. SettledBefore(next)
      BY <1>0 DEF ConsumerBooks
    <3>4. \A i \in Offsets : i \notin skipped' => Passable(i)'
      BY <1>0, <1>3, <3>2, <3>3
    <3> QED
      BY <1>0, <1>1, <3>1, <3>4 DEF ConsumerBooks, SettledBefore, Passable
  <2>2. CASE committed # 0
    <3>1. /\ next' = committed /\ committed' = committed /\ batch' = NoBatch /\ skipped' = skipped
      BY <1>10, <2>2 DEF Restart
    <3>2. SettledBefore(committed)
      BY <1>0 DEF ConsumerBooks, SettledBefore, Passable
    <3> QED
      BY <1>0, <1>1, <1>3, <1>4, <3>1, <3>2, SMTT(30) DEF ConsumerBooks, SettledBefore, Passable
  <2> QED
    BY <2>1, <2>2
<1> QED
  BY <1>5, <1>6, <1>7, <1>8, <1>9, <1>10 DEF ConsumerStep

LEMMA ConsumerKeeps ==
  ASSUME StreamInv, ConsumerStep
  PROVE  StreamInv'
<1>1. UNCHANGED <<log, latest, located, pipe, since>>
  BY DEF ConsumerStep, Fetch, TakeEmpty, TakeLocation, TakePoison, InsertBatch, EndBatch, Throw,
         Restart, state
<1>2. PipelinesCarry' /\ LatestKept'
  BY <1>1 DEF StreamInv, PipelinesCarry, LatestKept, Offsets
<1> QED
  BY <1>2, ConsumerTypes, ConsumerSettles DEF StreamInv

------------------------------------------------------------------------------
(* The state store. *)
LEMMA SendKeeps ==
  ASSUME StreamInv, NEW w \in Writers, NEW r \in Regions, NEW first \in Offsets,
         NEW last \in Offsets, first <= last, SendPipeline(w, r, first, last)
  PROVE  StreamInv'
<1>0. /\ StreamTypeOK /\ Len(log) \in Nat /\ Offsets = 1..Len(log) /\ MaxPipelines \in Nat
      /\ pipe \in [Writers -> {NoPipeline} \cup [region : Regions, todo : Seq(Nat)]]
  BY LogOffsets, StreamAssumption DEF StreamInv, StreamTypeOK
<1> DEFINE n == last + 1 - first
<1>1. PICK todo : todo = [k \in 1..n |-> first + k - 1]
  OBVIOUS
<1>2. n \in Nat \ {0} /\ DOMAIN todo = 1..n /\ \A k \in 1..n : todo[k] \in Offsets /\ todo[k] \in Nat
  BY <1>0, <1>1
<1>3. todo \in Seq(Nat) /\ Len(todo) = n
  <2>1. todo \in [1..n -> Nat]
    BY <1>1, <1>2
  <2> QED
    BY <1>2, <2>1
<1>4. /\ pipe' = [pipe EXCEPT ![w] = [region |-> r, todo |-> todo]]
      /\ pipelines < MaxPipelines /\ pipelines' = pipelines + 1
      /\ UNCHANGED <<log, handler, next, committed, batch, stored, dlq, skipped, faults,
                     latest, located, since>>
  BY <1>1 DEF SendPipeline, consumer
<1>5. Offsets' = Offsets
  BY <1>4 DEF Offsets
<1>6. pipe' \in [Writers -> {NoPipeline} \cup [region : Regions, todo : Seq(Nat)]]
  BY <1>0, <1>3, <1>4
<1>7. StreamTypeOK'
  BY <1>0, <1>4, <1>5, <1>6 DEF StreamTypeOK
<1>8. PipelinesCarry'
  <2>1. pipe'[w].todo = todo /\ \A g \in Writers \ {w} : pipe'[g] = pipe[g]
    BY <1>0, <1>4
  <2> QED
    BY <1>2, <1>3, <1>5, <2>1 DEF StreamInv, PipelinesCarry
<1>9. ConsumerBooks' /\ LatestKept'
  BY <1>4, <1>5 DEF StreamInv, ConsumerBooks, SettledBefore, Settled, GivenToStub, Passable, Key, LatestKept
<1> QED
  BY <1>7, <1>8, <1>9 DEF StreamInv

(* A script leaves the hash at the later of two messages. *)
LEMMA RunKeeps ==
  ASSUME StreamInv, NEW w \in Writers, RunScript(w)
  PROVE  StreamInv'
<1>0. /\ StreamTypeOK /\ Len(log) \in Nat /\ Offsets = 1..Len(log)
      /\ pipe \in [Writers -> {NoPipeline} \cup [region : Regions, todo : Seq(Nat)]]
      /\ latest \in [Devices -> Nat] /\ located \in [Regions -> [Devices -> Nat]]
      /\ since \in [Devices -> SUBSET Offsets]
      /\ \A i \in Offsets : log[i].time \in Nat /\ log[i].device \in Devices /\ i \in Nat /\ i # 0
  <2>1. StreamTypeOK
    BY DEF StreamInv
  <2>2. /\ Len(log) \in Nat /\ Offsets = 1..Len(log)
        /\ \A i \in Offsets : log[i].time \in Nat /\ log[i].device \in Devices
    BY <2>1, LogOffsets
  <2>3. /\ pipe \in [Writers -> {NoPipeline} \cup [region : Regions, todo : Seq(Nat)]]
        /\ latest \in [Devices -> Nat] /\ located \in [Regions -> [Devices -> Nat]]
        /\ since \in [Devices -> SUBSET Offsets]
    BY <2>1 DEF StreamTypeOK
  <2>4. \A i \in Offsets : i \in Nat /\ i # 0
    BY <2>2
  <2> QED
    BY <2>1, <2>2, <2>3, <2>4
<1>1. PICK todo \in Seq(Nat), r \in Regions :
        /\ pipe[w] = [region |-> r, todo |-> todo] /\ Len(todo) > 0
        /\ \A k \in 1..Len(todo) : todo[k] \in Offsets
  <2>1. pipe[w] \in [region : Regions, todo : Seq(Nat)]
    BY <1>0 DEF RunScript
  <2> QED
    BY <2>1 DEF RunScript, StreamInv, PipelinesCarry
<1>2. PICK i \in Offsets : i = Head(todo)
  <2>1. Head(todo) = todo[1] /\ 1 \in 1..Len(todo)
    BY <1>1, SMTT(30)
  <2>2. todo[1] \in Offsets
    BY <1>1, <2>1, SMTT(30)
  <2> QED
    BY <2>1, <2>2
<1>3. PICK d \in Devices : d = log[i].device
  BY <1>0, <1>2, SMTT(30)
<1>4. /\ IF NotOlder(i, d)
         THEN /\ latest' = [latest EXCEPT ![d] = i]
              /\ located' = [located EXCEPT ![r] = [@ EXCEPT ![d] = i]]
         ELSE UNCHANGED <<latest, located>>
      /\ since' = [since EXCEPT ![d] = @ \cup {i}]
      /\ pipe' = [pipe EXCEPT ![w] = Rest(@)]
      /\ UNCHANGED <<log, handler, next, committed, batch, stored, dlq, skipped, faults, pipelines>>
  <2>1. pipe[w].todo = todo /\ pipe[w].region = r
    BY <1>1
  <2>2. i = Head(pipe[w].todo) /\ d = log[Head(pipe[w].todo)].device
    BY <1>2, <1>3, <2>1
  <2>3. IF NotOlder(i, d)
        THEN /\ latest' = [latest EXCEPT ![d] = i]
             /\ located' = [located EXCEPT ![r] = [@ EXCEPT ![d] = i]]
        ELSE UNCHANGED <<latest, located>>
    BY <2>1, <2>2 DEF RunScript
  <2>4. since' = [since EXCEPT ![d] = @ \cup {i}]
    BY <2>2 DEF RunScript
  <2> QED
    BY <2>3, <2>4 DEF RunScript, consumer
<1>5. Offsets' = Offsets
  BY <1>4 DEF Offsets
<1>6. PICK p : p = IF Len(todo) = 1 THEN NoPipeline ELSE [region |-> r, todo |-> Tail(todo)]
  OBVIOUS
<1>7. pipe' = [pipe EXCEPT ![w] = p]
  BY <1>1, <1>4, <1>6 DEF Rest
<1>8. /\ Len(todo) # 1 => Tail(todo) \in Seq(Nat) /\ Len(Tail(todo)) > 0
      /\ \A k \in 1..Len(Tail(todo)) : Tail(todo)[k] \in Offsets
  <2>1. todo # <<>> /\ Len(todo) \in Nat
    BY <1>1
  <2>2. /\ Tail(todo) \in Seq(Nat) /\ Len(Tail(todo)) = Len(todo) - 1
        /\ \A k \in 1..Len(Tail(todo)) : Tail(todo)[k] = todo[k + 1]
    BY <2>1, HeadTailProperties
  <2> QED
    BY <1>1, <2>1, <2>2
<1>9. StreamTypeOK'
  <2>1. pipe' \in [Writers -> {NoPipeline} \cup [region : Regions, todo : Seq(Nat)]]
    BY <1>0, <1>6, <1>7, <1>8
  <2>2. latest' \in [Devices -> Nat] /\ located' \in [Regions -> [Devices -> Nat]]
    <3>1. CASE NotOlder(i, d)
      <4>1. PICK row : row = [located[r] EXCEPT ![d] = i]
        OBVIOUS
      <4>2. row \in [Devices -> Nat] /\ located' = [located EXCEPT ![r] = row]
        BY <1>0, <1>4, <3>1, <4>1
      <4> QED
        BY <1>0, <1>4, <3>1, <4>2
    <3>2. CASE ~NotOlder(i, d)
      BY <1>0, <1>4, <3>2
    <3> QED
      BY <3>1, <3>2
  <2>3. since' \in [Devices -> SUBSET Offsets]
    BY <1>0, <1>4
  <2> QED
    BY <1>0, <1>4, <1>5, <2>1, <2>2, <2>3 DEF StreamTypeOK
<1>10. PipelinesCarry'
  BY <1>0, <1>5, <1>6, <1>7, <1>8 DEF StreamInv, PipelinesCarry
<1>11. ConsumerBooks'
  BY <1>4, <1>5 DEF StreamInv, ConsumerBooks, SettledBefore, Settled, GivenToStub, Passable, Key
<1>12. LatestKept'
  <2> SUFFICES ASSUME NEW e \in Devices
               PROVE  IF latest'[e] = 0 THEN since'[e] = {}
                      ELSE /\ latest'[e] \in since'[e]
                           /\ \A j \in since'[e] : log[j].time <= log[latest'[e]].time
                           /\ \E q \in Regions : located'[q][e] = latest'[e]
    BY <1>4 DEF LatestKept
  <2>0. IF latest[e] = 0 THEN since[e] = {}
        ELSE /\ latest[e] \in since[e]
             /\ \A j \in since[e] : log[j].time <= log[latest[e]].time
             /\ \E q \in Regions : located[q][e] = latest[e]
    BY DEF StreamInv, LatestKept
  <2>1. CASE e # d
    <3>1. /\ latest'[e] = latest[e] /\ since'[e] = since[e]
          /\ \A q \in Regions : located'[q][e] = located[q][e]
      <4>1. PICK row : row = [located[r] EXCEPT ![d] = i]
        OBVIOUS
      <4>2. located' = located \/ located' = [located EXCEPT ![r] = row]
        BY <1>4, <4>1
      <4>3. row[e] = located[r][e]
        BY <1>0, <2>1, <4>1
      <4>4. \A q \in Regions : located'[q][e] = located[q][e]
        BY <1>0, <4>2, <4>3
      <4> QED
        BY <1>0, <1>4, <2>1, <4>4
    <3> QED
      BY <2>0, <3>1
  <2>2. CASE e = d /\ NotOlder(i, d)
    <3>1. latest'[d] = i /\ located'[r][d] = i /\ since'[d] = since[d] \cup {i}
      BY <1>0, <1>4, <2>2
    <3>2. \A j \in since[d] : log[j].time <= log[i].time
      <4>1. since[d] \subseteq Offsets
        BY <1>0
      <4>2. latest[d] # 0 => latest[d] \in Offsets
        BY <2>0, <2>2, <4>1
      <4> QED
        BY <1>0, <2>0, <2>2, <4>1, <4>2 DEF NotOlder
    <3> QED
      BY <1>0, <2>2, <3>1, <3>2
  <2>3. CASE e = d /\ ~NotOlder(i, d)
    <3>1. latest' = latest /\ located' = located /\ since'[d] = since[d] \cup {i}
      BY <1>0, <1>4, <2>3
    <3>2. latest[d] # 0 /\ latest[d] \in Offsets /\ log[i].time <= log[latest[d]].time
      BY <1>0, <2>0, <2>3 DEF NotOlder
    <3> QED
      BY <2>0, <2>3, <3>1, <3>2
  <2> QED
    BY <2>1, <2>2, <2>3
<1> QED
  BY <1>9, <1>10, <1>11, <1>12 DEF StreamInv

LEMMA DropKeeps ==
  ASSUME StreamInv, NEW w \in Writers, PipelineFails(w)
  PROVE  StreamInv'
<1>1. /\ pipe' = [pipe EXCEPT ![w] = NoPipeline]
      /\ UNCHANGED <<log, handler, next, committed, batch, stored, dlq, skipped, faults,
                     latest, located, since, pipelines>> /\ Offsets' = Offsets
  BY DEF PipelineFails, consumer, Offsets
<1>2. StreamTypeOK'
  BY <1>1 DEF StreamInv, StreamTypeOK
<1>3. PipelinesCarry'
  BY <1>1 DEF StreamInv, StreamTypeOK, PipelinesCarry
<1>4. ConsumerBooks' /\ LatestKept'
  BY <1>1 DEF StreamInv, ConsumerBooks, SettledBefore, Settled, GivenToStub, Passable, Key, LatestKept
<1> QED
  BY <1>2, <1>3, <1>4 DEF StreamInv

LEMMA ExpireKeeps ==
  ASSUME StreamInv, NEW d \in Devices, Expire(d)
  PROVE  StreamInv'
<1>1. /\ latest' = [latest EXCEPT ![d] = 0] /\ since' = [since EXCEPT ![d] = {}]
      /\ UNCHANGED <<log, handler, next, committed, batch, stored, dlq, skipped, faults,
                     located, pipe, pipelines>> /\ Offsets' = Offsets
  BY DEF Expire, consumer, Offsets
<1>2. StreamTypeOK'
  BY <1>1 DEF StreamInv, StreamTypeOK
<1>3. LatestKept'
  BY <1>1 DEF StreamInv, StreamTypeOK, LatestKept
<1>4. ConsumerBooks' /\ PipelinesCarry'
  BY <1>1 DEF StreamInv, ConsumerBooks, SettledBefore, Settled, GivenToStub, Passable, Key, PipelinesCarry
<1> QED
  BY <1>2, <1>3, <1>4 DEF StreamInv

------------------------------------------------------------------------------
LEMMA StreamStart == Init => StreamInv
<1> SUFFICES ASSUME Init PROVE StreamInv
  OBVIOUS
<1>1. /\ log = <<>> /\ Len(log) = 0 /\ Offsets = {} /\ log \in Seq(Messages)
  BY EmptySeq DEF Init, Offsets
<1>2. StreamTypeOK
  BY <1>1, StreamAssumption DEF Init, StreamTypeOK, NoBatch
<1> QED
  BY <1>1, <1>2 DEF Init, StreamInv, ConsumerBooks, SettledBefore, Passable, PipelinesCarry, LatestKept, NoBatch

LEMMA StreamInvariant == Spec => []StreamInv
<1>1. ASSUME StreamInv, [Next]_vars PROVE StreamInv'
  <2>1. CASE UNCHANGED vars
    <3>1. /\ UNCHANGED <<log, handler, next, committed, batch, stored, dlq, skipped, faults,
                         latest, located, pipe, since, pipelines>> /\ Offsets' = Offsets
      BY <2>1 DEF vars, consumer, state, Offsets
    <3>2. StreamTypeOK'
      BY <1>1, <3>1 DEF StreamInv, StreamTypeOK
    <3>3. ConsumerBooks' /\ PipelinesCarry' /\ LatestKept'
      BY <1>1, <3>1 DEF StreamInv, ConsumerBooks, SettledBefore, Settled, GivenToStub, Passable, Key, PipelinesCarry, LatestKept
    <3> QED
      BY <3>2, <3>3 DEF StreamInv
  <2> QED
    BY <1>1, <2>1, ProduceKeeps, ConsumerKeeps, SendKeeps, RunKeeps, DropKeeps, ExpireKeeps
       DEF Next, ConsumerStep
<1> QED
  BY <1>1, StreamStart, PTL DEF Spec

(* But for what a start without a commit jumps over, a batch consumer commits *)
(* no offset before all up to it are stored and none past what does not parse, *)
(* and the consumer of single messages none before what does not parse is in  *)
(* the dead-letter topic, whatever it throws at, redelivers and restarts from. *)
(* Of the locations the latter hands to its empty method nothing is said.     *)
THEOREM NothingCommittedUnsettled == Spec => []CommittedIsSettled
<1>1. StreamInv => CommittedIsSettled
  <2> SUFFICES ASSUME StreamInv, NEW i \in Offsets, i < committed, i \notin skipped
               PROVE  Passable(i)
    BY DEF CommittedIsSettled, Passable
  <2>1. i < next
    BY LogOffsets, SMTT(30) DEF StreamInv, StreamTypeOK, ConsumerBooks
  <2> QED
    BY <2>1 DEF StreamInv, ConsumerBooks, SettledBefore, Passable
<1> QED
  BY <1>1, StreamInvariant, PTL

(* The hash of a device is the latest of the messages written to it since it  *)
(* was last gone, and some geo set has the position of the same message, in   *)
(* whatever order pipelines deliver, overlap and break off.                   *)
THEOREM LatestIsKept == Spec => []LatestKept
<1>1. StreamInv => LatestKept
  BY DEF StreamInv
<1> QED
  BY <1>1, StreamInvariant, PTL
===============================================================================
