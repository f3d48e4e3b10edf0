----------------------------- MODULE LocationStream -----------------------------
(***************************************************************************)
(* Tracking: the stream of location messages.  One partition of the topic  *)
(* is read by a consumer group that runs either of two handlers:           *)
(*   "messages": ResilientTrackingConsumer takes one message after the     *)
(*               other and sends those that do not parse to a dead-letter  *)
(*               topic; what it does with the others is an empty method;   *)
(*   "batches":  TrackingBatchProcessor inserts a batch in one statement.  *)
(* StateStoreService keeps the latest message of each device in Redis, in  *)
(* pipelines of scripts that run one by one between those of others.       *)
(*                                                                         *)
(* No module of the application provides these classes, and nothing calls  *)
(* the state store: its writers take any part of the log, in any order and *)
(* any number of times.  Positions, speeds and states are their message.   *)
(***************************************************************************)
EXTENDS Naturals, Sequences

CONSTANTS
  Devices, Regions,
  Times,        (* timestamps of devices, not of arrival                     *)
  Writers,      (* callers of updateCurrentStateBatch                        *)
  MaxLog,       (* bound: messages in the partition                          *)
  MaxFaults,    (* bound: throws and restarts of the consumer                *)
  MaxPipelines  (* bound: pipelines sent to Redis                            *)

ASSUME StreamAssumption ==
  Times \subseteq Nat /\ MaxLog \in Nat /\ MaxFaults \in Nat /\ MaxPipelines \in Nat

VARIABLES
  log,          (* the partition, by offset                                  *)
  handler,      (* which of the two eachBatch functions the group runs       *)
  next,         (* the first offset that is not resolved                     *)
  committed,    (* the offset a restart begins at, 0 before the first commit *)
  batch,        (* the batch in hand: the offset it is at, and its last one  *)
  stored,       (* location_history: <<device, time>>, its primary key       *)
  dlq,          (* offsets of the messages in location.dlq                   *)
  latest,       (* the hash of each device: an offset, 0 when there is none  *)
  located,      (* the geo set of each region: the same, for each device     *)
  pipe          (* each writer: its region and the offsets still to be sent  *)

(* History, not read by any action of the code. *)
VARIABLES
  skipped,      (* offsets that a start without a commit jumped over         *)
  since,        (* offsets handed to the scripts of a device's present hash  *)
  faults, pipelines

consumer == <<next, committed, batch, stored, dlq, skipped, faults>>
state == <<latest, located, pipe, since, pipelines>>
vars == <<log, handler, consumer, state>>

Kinds == {"location", "poison", "empty"}
Messages == [kind : Kinds, device : Devices, time : Times]
Offsets == DOMAIN log

NoBatch == [at |-> 1, last |-> 0]
NoPipeline == [region |-> "none", todo |-> <<>>]
InBatch == batch.at <= batch.last
Key(i) == <<log[i].device, log[i].time>>

(* Devices send late and more than once. *)
Produce(m) ==
  /\ Len(log) < MaxLog
  /\ log' = Append(log, m)
  /\ UNCHANGED <<handler, consumer, state>>

------------------------------------------------------------------------------
(* The consumer group. *)

(* KafkaJS hands over some of what is there from the first unresolved offset. *)
Fetch(last) ==
  /\ batch = NoBatch
  /\ last \in next..Len(log)
  /\ batch' = [at |-> next, last |-> last]
  /\ UNCHANGED <<log, handler, next, committed, stored, dlq, skipped, faults, state>>

(* resolveOffset *)
Resolve(i) == next' = i + 1 /\ batch' = [batch EXCEPT !.at = i + 1]

Taking(kind) == handler = "messages" /\ InBatch /\ log[batch.at].kind = kind

(* if (!message.value) continue: not resolved. *)
TakeEmpty ==
  /\ Taking("empty")
  /\ batch' = [batch EXCEPT !.at = @ + 1]
  /\ UNCHANGED <<log, handler, next, committed, stored, dlq, skipped, faults, state>>

(* JSON.parse, processMessageDatabase *)
TakeLocation ==
  /\ Taking("location")
  /\ Resolve(batch.at)
  /\ UNCHANGED <<log, handler, committed, stored, dlq, skipped, faults, state>>

(* catch: dlqProducer.send, then the offset is resolved as for any other. *)
DeadLettered_Logged(i) == dlq
DeadLettered(i) == dlq \cup {i}

TakePoison ==
  /\ Taking("poison")
  /\ dlq' = DeadLettered(batch.at)
  /\ Resolve(batch.at)
  /\ UNCHANGED <<log, handler, committed, stored, skipped, faults, state>>

(* INSERT ... SELECT FROM UNNEST ... ON CONFLICT DO NOTHING *)
Inserted ==
  stored \cup {Key(i) : i \in {j \in batch.at..batch.last : log[j].kind = "location"}}

(* processBatch: one message that does not parse fails them all. *)
Parses == handler = "batches" /\ InBatch /\ \A i \in batch.at..batch.last : log[i].kind # "poison"

InsertBatch ==
  /\ Parses
  /\ stored' = Inserted
  /\ Resolve(batch.last)
  /\ UNCHANGED <<log, handler, committed, dlq, skipped, faults, state>>

(* commitOffsetsIfNecessary: KafkaJS decides whether it is. *)
EndBatch ==
  /\ batch # NoBatch /\ ~InBatch
  /\ committed' \in {committed, next}
  /\ batch' = NoBatch
  /\ UNCHANGED <<log, handler, next, stored, dlq, skipped, faults, state>>

(* The handler throws (a parse error, a statement or a send that fails, its work *)
(* done or not, a lost session): the next fetch begins at the unresolved offset. *)
Throw ==
  /\ batch # NoBatch
  /\ faults < MaxFaults /\ faults' = faults + 1
  /\ stored' \in IF Parses THEN {stored, Inserted} ELSE {stored}
  /\ dlq' \in IF Taking("poison") THEN {dlq, DeadLettered(batch.at)} ELSE {dlq}
  /\ batch' = NoBatch
  /\ UNCHANGED <<log, handler, next, committed, skipped, state>>

(* A crash or a rebalance: the group goes on at its commit; fromBeginning: false *)
(* puts a group that never committed at the end of the log.                      *)
Restart ==
  /\ faults < MaxFaults /\ faults' = faults + 1
  /\ batch' = NoBatch
  /\ next' = IF committed = 0 THEN Len(log) + 1 ELSE committed
  /\ skipped' = IF committed = 0 THEN skipped \cup next..Len(log) ELSE skipped
  /\ UNCHANGED <<log, handler, committed, stored, dlq, state>>

------------------------------------------------------------------------------
(* The state store. *)

(* updateCurrentStateBatch *)
SendPipeline(w, region, first, last) ==
  /\ pipelines < MaxPipelines /\ pipelines' = pipelines + 1
  /\ pipe[w] = NoPipeline
  /\ \A i \in first..last : log[i].kind = "location"
  /\ pipe' = [pipe EXCEPT ![w] =
       [region |-> region, todo |-> [k \in 1..(last + 1 - first) |-> first + k - 1]]]
  /\ UNCHANGED <<log, handler, consumer, latest, located, since>>

(* new_ts >= current_ts, a missing hash counting as 0 *)
NotOlder_Always(i, d) == TRUE
NotOlder(i, d) == latest[d] = 0 \/ log[i].time >= log[latest[d]].time

Rest(p) ==
  IF Len(p.todo) = 1 THEN NoPipeline ELSE [region |-> p.region, todo |-> Tail(p.todo)]

(* UPSERT_LUA, one script of a pipeline. *)
RunScript(w) ==
  /\ pipe[w] # NoPipeline
  /\ LET i == Head(pipe[w].todo)
         d == log[i].device
     IN /\ IF NotOlder(i, d)
           THEN /\ latest' = [latest EXCEPT ![d] = i]
                /\ located' = [located EXCEPT ![pipe[w].region] = [@ EXCEPT ![d] = i]]
           ELSE UNCHANGED <<latest, located>>
        /\ since' = [since EXCEPT ![d] = @ \cup {i}]
  /\ pipe' = [pipe EXCEPT ![w] = Rest(@)]
  /\ UNCHANGED <<log, handler, consumer, pipelines>>

(* exec fails with some scripts run; the error is logged. *)
PipelineFails(w) ==
  /\ pipe[w] # NoPipeline
  /\ pipe' = [pipe EXCEPT ![w] = NoPipeline]
  /\ UNCHANGED <<log, handler, consumer, latest, located, since, pipelines>>

(* EXPIRE 86400: the hash goes, the geo sets keep the device. *)
Expire(d) ==
  /\ latest[d] # 0
  /\ latest' = [latest EXCEPT ![d] = 0]
  /\ since' = [since EXCEPT ![d] = {}]
  /\ UNCHANGED <<log, handler, consumer, located, pipe, pipelines>>

------------------------------------------------------------------------------
Init ==
  /\ log = <<>> /\ handler \in {"messages", "batches"}
  /\ next = 1 /\ committed = 0 /\ batch = NoBatch
  /\ stored = {} /\ dlq = {} /\ skipped = {} /\ faults = 0
  /\ latest = [d \in Devices |-> 0]
  /\ located = [r \in Regions |-> [d \in Devices |-> 0]]
  /\ pipe = [w \in Writers |-> NoPipeline]
  /\ since = [d \in Devices |-> {}] /\ pipelines = 0

Next ==
  \/ \E m \in Messages : Produce(m)
  \/ \E last \in Offsets : Fetch(last)
  \/ TakeEmpty \/ TakeLocation \/ TakePoison \/ InsertBatch
  \/ EndBatch \/ Throw \/ Restart
  \/ \E w \in Writers :
       \/ \E r \in Regions, first, last \in Offsets :
            first <= last /\ SendPipeline(w, r, first, last)
       \/ RunScript(w) \/ PipelineFails(w)
  \/ \E d \in Devices : Expire(d)

Spec == Init /\ [][Next]_vars

------------------------------------------------------------------------------
(* What became of the message at offset i: nothing is asked of an empty one, a   *)
(* location is in the table, and what does not parse is in the dead-letter topic, *)
(* to which only "messages" writes.                                               *)
Settled(i) ==
  CASE log[i].kind = "empty" -> TRUE
    [] log[i].kind = "location" -> Key(i) \in stored
    [] log[i].kind = "poison" -> handler = "messages" /\ i \in dlq

(* processMessageDatabase is an empty method: a location it was given is neither  *)
(* stored nor dead-lettered, ever, and nothing is claimed of it here.             *)
GivenToStub(i) == handler = "messages" /\ log[i].kind = "location"

(* Whatever the consumer throws at, redelivers and restarts from, but for the     *)
(* offsets that a start without a commit skipped: under "batches" no offset is    *)
(* committed before the messages up to it are stored, and none past a message     *)
(* that does not parse; under "messages" none before those that do not parse are  *)
(* in the dead-letter topic.  For locations "messages" promises nothing, though   *)
(* its class calls itself high-reliability.                                       *)
CommittedIsSettled ==
  \A i \in Offsets : i < committed /\ i \notin skipped => Settled(i) \/ GivenToStub(i)

(* A device's hash is the latest of the messages that were written to it, in    *)
(* whatever order pipelines deliver, overlap and break off; and the position in *)
(* a geo set is that of the same message.                                       *)
LatestKept ==
  \A d \in Devices :
    IF latest[d] = 0 THEN since[d] = {}
    ELSE /\ latest[d] \in since[d]
         /\ \A i \in since[d] : log[i].time <= log[latest[d]].time
         /\ \E r \in Regions : located[r][d] = latest[d]

(***************************************************************************)
(* What makes these inductive: everything before the offset in hand is     *)
(* settled, resolved or not, and a commit never passes what is resolved;   *)
(* hashes, and the scripts still to run, are of messages in the log.       *)
(***************************************************************************)
StreamTypeOK ==
  /\ log \in Seq(Messages) /\ handler \in {"messages", "batches"}
  /\ next \in Nat \ {0} /\ committed \in Nat
  /\ batch \in [at : Nat \ {0}, last : Nat]
  /\ faults \in 0..MaxFaults /\ pipelines \in 0..MaxPipelines
  /\ stored \subseteq Devices \X Times /\ dlq \subseteq Offsets /\ skipped \subseteq Offsets
  /\ latest \in [Devices -> Nat] /\ located \in [Regions -> [Devices -> Nat]]
  /\ pipe \in [Writers -> {NoPipeline} \cup [region : Regions, todo : Seq(Nat)]]
  /\ since \in [Devices -> SUBSET Offsets]

SettledBefore(n) == \A i \in Offsets : i < n /\ i \notin skipped => Settled(i) \/ GivenToStub(i)

ConsumerBooks ==
  /\ committed <= next /\ next <= Len(log) + 1
  /\ batch # NoBatch =>
       next <= batch.at /\ batch.at <= batch.last + 1 /\ batch.last <= Len(log)
  /\ SettledBefore(next) /\ SettledBefore(batch.at)

PipelinesCarry ==
  \A w \in Writers : pipe[w] # NoPipeline =>
    Len(pipe[w].todo) > 0 /\ \A k \in 1..Len(pipe[w].todo) : pipe[w].todo[k] \in Offsets

StreamInv == StreamTypeOK /\ ConsumerBooks /\ PipelinesCarry /\ LatestKept
=================================================================================
