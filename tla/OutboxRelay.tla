----------------------------- MODULE OutboxRelay -----------------------------
(***************************************************************************)
(* The transactional outbox of libs/core: producers insert event rows in   *)
(* their own transactions, and the relay of every process polls the table, *)
(* hands the rows to its in-memory EventEmitter and settles them, all in   *)
(* one interactive transaction per poll.                                   *)
(*                                                                         *)
(* Interleaving: a relay runs alone inside its process (isRelaying) but    *)
(* against the relays of the other processes; what it writes is visible to *)
(* them only when its transaction commits, its row locks hold until then.  *)
(* The transaction may be lost at any point (interactive-transaction       *)
(* timeout, connection loss) while the loop in memory runs on, and the     *)
(* process may crash.                                                      *)
(*                                                                         *)
(* Left out: payloads, aggregate ids, error texts, the last_error and      *)
(* failed_at columns.                                                      *)
(***************************************************************************)
EXTENDS Integers, FiniteSets

CONSTANTS
  Relays,       (* processes that run OutboxRelayService                     *)
  Listening,    (* those whose module graph also registers the consumers     *)
  MaxEvents,    (* bound: producers insert the rows 1..MaxEvents             *)
  Flaky,        (* events for which emit() may throw synchronously           *)
  MaxRetries,   (* outbox.max_retries                                        *)
  BatchLimit,   (* LIMIT of the polling query                                *)
  MaxLosses     (* bound: transactions lost and crashes                      *)

Ids == 1..MaxEvents

ASSUME RelayAssumption ==
  /\ Listening \subseteq Relays
  /\ MaxEvents \in Nat
  /\ Flaky \subseteq Ids
  /\ MaxRetries \in Nat
  /\ BatchLimit \in Nat \ {0}
  /\ MaxLosses \in Nat

VARIABLES
  nextId,       (* the sequence behind outbox.id                             *)
  writing,      (* rows inserted by producer transactions still open         *)
  outbox,       (* committed rows of infrastructure.outbox                   *)
  publishedAt,  (* the rows whose published_at is set                        *)
  retryCount,   (* the retry_count column                                    *)
  dlq,          (* rows of infrastructure.outbox_dlq, by original_id         *)
  relay         (* each relay's run: its transaction and the loop in memory  *)

(* History, not read by any action. *)
VARIABLES
  accepted,     (* events whose producing transaction committed              *)
  cleaned,      (* rows the hourly cleanup deleted                           *)
  copies,       (* successful emit() calls per event                         *)
  heard,        (* events emitted at least once in a process that listens    *)
  publishers,   (* the processes that marked each event published            *)
  throws,       (* emit() calls that threw, per event                        *)
  orphaned,     (* events that were in the batch of a transaction lost       *)
  losses        (* transactions lost, including those of crashed processes   *)

tables  == <<nextId, writing, outbox, publishedAt, retryCount, dlq>>
history == <<accepted, cleaned, copies, heard, publishers, throws, orphaned, losses>>
vars    == <<tables, relay, history>>

(* A run: "idle" (isRelaying is false) or "loop"; the transaction's health;  *)
(* the locked batch; and what the loop did with its events so far.           *)
NoRun == [pc |-> "idle", tx |-> "open", batch |-> {},
          sent |-> {}, retried |-> {}, dead |-> {}]

Handled(r) == relay[r].sent \cup relay[r].retried \cup relay[r].dead
Todo(r)    == relay[r].batch \ Handled(r)
Lowest(S)  == {e \in S : \A f \in S : e <= f}

(***************************************************************************)
(* Producers                                                               *)
(***************************************************************************)

(* publishEvent inside the caller's transaction: the id is drawn now, the    *)
(* row is seen by others when the transaction commits.                       *)
PublishEvent ==
  /\ nextId <= MaxEvents
  /\ writing' = writing \cup {nextId}
  /\ nextId' = nextId + 1
  /\ UNCHANGED <<outbox, publishedAt, retryCount, dlq, relay, history>>

CommitProducer(e) ==
  /\ e \in writing
  /\ writing' = writing \ {e}
  /\ outbox' = outbox \cup {e}
  /\ accepted' = accepted \cup {e}
  /\ UNCHANGED <<nextId, publishedAt, retryCount, dlq, relay,
                 cleaned, copies, heard, publishers, throws, orphaned, losses>>

RollbackProducer(e) ==
  /\ e \in writing
  /\ writing' = writing \ {e}
  /\ UNCHANGED <<nextId, outbox, publishedAt, retryCount, dlq, relay, history>>

(***************************************************************************)
(* The relay                                                               *)
(***************************************************************************)

(* Row locks of the transactions still alive on the server. *)
Locked_NoSkipLocked == {}
Locked == UNION {relay[r].batch : r \in {q \in Relays : relay[q].tx = "open"}}

Unpublished == outbox \ publishedAt

Claimable_FirstTryOnly == {e \in Unpublished \ Locked : retryCount[e] = 0}
Claimable == Unpublished \ Locked

(* ORDER BY id ASC LIMIT: the lowest ids, as many as the limit allows. *)
Batches ==
  {B \in SUBSET Claimable :
     /\ Cardinality(B) <= BatchLimit
     /\ Cardinality(B) < BatchLimit => B = Claimable
     /\ \A b \in B, c \in Claimable \ B : b < c}

Poll(r) ==
  /\ relay[r].pc = "idle"
  /\ \E B \in Batches \ {{}} :
       relay' = [relay EXCEPT ![r] = [NoRun EXCEPT !.pc = "loop", !.batch = B]]
  /\ UNCHANGED <<tables, history>>

(* A tick that finds no event returns at once. *)
EmptyPoll(r) ==
  /\ relay[r].pc = "idle"
  /\ Claimable = {}
  /\ UNCHANGED vars

(* emit() returns: every listener of this process has been started. *)
EmitOk(r) ==
  /\ relay[r].pc = "loop"
  /\ \E e \in Lowest(Todo(r)) :
       /\ relay' = [relay EXCEPT ![r].sent = @ \cup {e}]
       /\ copies' = [copies EXCEPT ![e] = @ + 1]
       /\ heard' = IF r \in Listening THEN heard \cup {e} ELSE heard
  /\ UNCHANGED <<tables, accepted, cleaned, publishers, throws, orphaned, losses>>

Exhausted_OneEarly(e) == retryCount[e] + 1 >= MaxRetries
Exhausted(e) == retryCount[e] >= MaxRetries

(* emit() throws: the event goes to the dead-letter table or is retried on   *)
(* a later poll; both are statements of the transaction, so when that is     *)
(* gone the statement throws out of the loop and the run ends.               *)
EmitThrows(r) ==
  /\ relay[r].pc = "loop"
  /\ \E e \in Lowest(Todo(r)) :
       /\ e \in Flaky
       /\ throws' = [throws EXCEPT ![e] = @ + 1]
       /\ relay' =
            IF relay[r].tx = "lost" THEN [relay EXCEPT ![r] = NoRun]
            ELSE IF Exhausted(e) THEN [relay EXCEPT ![r].dead = @ \cup {e}]
            ELSE [relay EXCEPT ![r].retried = @ \cup {e}]
  /\ UNCHANGED <<tables, accepted, cleaned, copies, heard, publishers, orphaned, losses>>

(* markPublished gets the ids whose emit() returned. *)
Published_WholeBatch(r) == relay[r].batch \ relay[r].dead
Published(r) == relay[r].sent

(* incrementRetry also resets published_at. *)
Retried(r) == relay[r].retried

(* The rows moveToDeadLetter deletes from the outbox. *)
Removed_Kept(r) == {}
Removed(r) == relay[r].dead

(* markPublished and COMMIT. *)
Commit(r) ==
  /\ relay[r].pc = "loop"
  /\ relay[r].tx = "open"
  /\ Todo(r) = {}
  /\ outbox' = outbox \ Removed(r)
  /\ dlq' = dlq \cup relay[r].dead
  /\ publishedAt' = (publishedAt \ Retried(r)) \cup Published(r)
  /\ retryCount' = [e \in Ids |-> IF e \in Retried(r) THEN retryCount[e] + 1
                                  ELSE retryCount[e]]
  /\ publishers' = [e \in Ids |-> IF e \in Published(r) THEN publishers[e] \cup {r}
                                  ELSE publishers[e]]
  /\ relay' = [relay EXCEPT ![r] = NoRun]
  /\ UNCHANGED <<nextId, writing, accepted, cleaned, copies, heard, throws, orphaned, losses>>

(* The next statement, or the COMMIT, of a transaction that is gone fails;   *)
(* finally resets isRelaying.                                                *)
CommitFails(r) ==
  /\ relay[r].pc = "loop"
  /\ relay[r].tx = "lost"
  /\ Todo(r) = {}
  /\ relay' = [relay EXCEPT ![r] = NoRun]
  /\ UNCHANGED <<tables, history>>

(* The server rolls the transaction back; the loop does not notice yet. *)
LoseTx(r) ==
  /\ relay[r].pc = "loop"
  /\ relay[r].tx = "open"
  /\ losses < MaxLosses
  /\ losses' = losses + 1
  /\ orphaned' = orphaned \cup relay[r].batch
  /\ relay' = [relay EXCEPT ![r].tx = "lost"]
  /\ UNCHANGED <<tables, accepted, cleaned, copies, heard, publishers, throws>>

(* The process dies and is restarted: its transaction rolls back. *)
Crash(r) ==
  /\ relay[r].pc = "loop"
  /\ losses < MaxLosses
  /\ losses' = losses + 1
  /\ orphaned' = orphaned \cup relay[r].batch
  /\ relay' = [relay EXCEPT ![r] = NoRun]
  /\ UNCHANGED <<tables, accepted, cleaned, copies, heard, publishers, throws>>

(* The rows the hourly cleanup may take; which of them are older than 24     *)
(* hours is left open.                                                       *)
Cleanable_AnyRow == outbox
Cleanable == publishedAt

CleanupPublishedEvents ==
  /\ \E S \in SUBSET Cleanable :
       /\ S # {}
       /\ outbox' = outbox \ S
       /\ publishedAt' = publishedAt \ S
       /\ cleaned' = cleaned \cup S
  /\ UNCHANGED <<nextId, writing, retryCount, dlq, relay,
                 accepted, copies, heard, publishers, throws, orphaned, losses>>

------------------------------------------------------------------------------
Init ==
  /\ nextId = 1
  /\ writing = {} /\ outbox = {} /\ publishedAt = {} /\ dlq = {}
  /\ retryCount = [e \in Ids |-> 0]
  /\ relay = [r \in Relays |-> NoRun]
  /\ accepted = {} /\ cleaned = {} /\ heard = {} /\ orphaned = {}
  /\ copies = [e \in Ids |-> 0]
  /\ publishers = [e \in Ids |-> {}]
  /\ throws = [e \in Ids |-> 0]
  /\ losses = 0

RelayStep(r) ==
  Poll(r) \/ EmitOk(r) \/ EmitThrows(r) \/ Commit(r) \/ CommitFails(r)

Next ==
  \/ PublishEvent
  \/ \E e \in Ids : CommitProducer(e) \/ RollbackProducer(e)
  \/ \E r \in Relays : RelayStep(r) \/ EmptyPoll(r) \/ LoseTx(r) \/ Crash(r)
  \/ CleanupPublishedEvents

SafeSpec == Init /\ [][Next]_vars

(* The scheduler calls relayEvents every second in every process, and a run  *)
(* that has started is never left waiting: each of its steps is either       *)
(* synchronous or a statement that returns or fails.                         *)
Fairness == \A r \in Relays : WF_vars(RelayStep(r))

Spec == SafeSpec /\ Fairness

------------------------------------------------------------------------------
(* Every variable has its type; a run puts each event of its batch in one    *)
(* pile only, and an idle relay holds nothing.                               *)
Runs == [pc : {"idle", "loop"}, tx : {"open", "lost"}, batch : SUBSET Ids,
         sent : SUBSET Ids, retried : SUBSET Ids, dead : SUBSET Ids]

RunOK(run) ==
  /\ run.sent \cup run.retried \cup run.dead \subseteq run.batch
  /\ run.sent \cap run.retried = {}
  /\ run.sent \cap run.dead = {}
  /\ run.retried \cap run.dead = {}
  /\ run.pc = "idle" => run = NoRun

TypeOK ==
  /\ nextId \in 1..MaxEvents + 1
  /\ writing \subseteq Ids
  /\ outbox \subseteq Ids
  /\ publishedAt \subseteq Ids
  /\ dlq \subseteq Ids
  /\ retryCount \in [Ids -> Nat]
  /\ relay \in [Relays -> Runs]
  /\ \A r \in Relays : RunOK(relay[r])
  /\ accepted \subseteq Ids
  /\ cleaned \subseteq Ids
  /\ heard \subseteq Ids
  /\ publishers \in [Ids -> SUBSET Relays]
  /\ orphaned \subseteq Ids
  /\ copies \in [Ids -> Nat]
  /\ throws \in [Ids -> Nat]
  /\ losses \in Nat

(* No committed event is lost or doubled by the relay, the dead-letter move  *)
(* or the cleanup: it is in exactly one of the outbox, the dead-letter table *)
(* and the rows deleted after publication.                                   *)
EventsConserved ==
  /\ accepted = outbox \cup dlq \cup cleaned
  /\ outbox \cap dlq = {}
  /\ outbox \cap cleaned = {}
  /\ dlq \cap cleaned = {}

(* FOR UPDATE SKIP LOCKED: two live relay transactions never work on the     *)
(* same event, and what they work on is still unpublished.                   *)
ClaimsExclusive ==
  \A r \in Relays : relay[r].tx = "open" =>
    /\ relay[r].batch \subseteq Unpublished
    /\ \A q \in Relays \ {r} :
         relay[q].tx = "open" => relay[q].batch \cap relay[r].batch = {}

(* "Only marks events as published after successful emission": an event that *)
(* is published, or was cleaned up after it, reached a listener, unless a    *)
(* process that has none published it, as the outbox worker does.            *)
PublishedWasHeard ==
  \A e \in publishedAt \cup cleaned : publishers[e] \subseteq Listening => e \in heard

(* An event is given up only after every retry it is entitled to, and no     *)
(* event is retried beyond them.                                             *)
DeadLetterAfterRetries ==
  \A e \in Ids :
    /\ retryCount[e] <= MaxRetries
    /\ e \in dlq => throws[e] > MaxRetries

(* Consumers see an event a second time only when a transaction that had     *)
(* claimed it was lost: concurrent relays and retries never duplicate.       *)
DuplicatesNeedLosses == \A e \in Ids : copies[e] > 1 => e \in orphaned

(* Settling is final: published rows are not reopened (incrementRetry resets *)
(* published_at) and dead letters do not come back.                          *)
SettledForGood ==
  [][ /\ publishedAt \cup cleaned \subseteq publishedAt' \cup cleaned'
      /\ dlq \subseteq dlq' /\ dlq' \cap outbox' = {} ]_vars

(* Every committed event is eventually published or given up. *)
EveryEventSettles ==
  \A e \in Ids : e \in accepted ~> e \in publishedAt \cup cleaned \cup dlq

(***************************************************************************)
(* What makes the invariants above inductive.                              *)
(***************************************************************************)

Alive(r) == relay[r].tx = "open"

(* Which rows exist where, and whose they are. *)
RowsHeld ==
  /\ publishedAt \subseteq outbox
  /\ writing \cap accepted = {}
  /\ \A e \in writing \cup accepted : e < nextId
  /\ \A r \in Relays : relay[r].batch \subseteq accepted

(* A copy of an event that no lost transaction claimed is accounted for by   *)
(* its publication, done or about to be committed by a live transaction.     *)
CopiesBooked ==
  /\ \A r \in Relays : ~Alive(r) => relay[r].batch \subseteq orphaned
  /\ \A r \in Relays : \A e \in relay[r].sent : copies[e] > 0
  /\ \A e \in publishedAt \cup cleaned : copies[e] > 0
  /\ \A e \in Ids : copies[e] > 0 =>
       \/ e \in orphaned \cup publishedAt \cup cleaned
       \/ \E r \in Relays : Alive(r) /\ e \in relay[r].sent

(* Each retry on the row, committed or about to be, answers a throw. *)
RetriesBooked ==
  /\ \A e \in Ids : throws[e] >= retryCount[e]
  /\ \A r \in Relays : Alive(r) =>
       /\ \A e \in relay[r].retried :
            retryCount[e] < MaxRetries /\ throws[e] > retryCount[e]
       /\ \A e \in relay[r].dead : throws[e] > MaxRetries

SentWasHeard == \A r \in Listening : relay[r].sent \subseteq heard

Books == RowsHeld /\ EventsConserved /\ ClaimsExclusive

(* The relay keeps the promise of EventDelivery. *)
Contract == INSTANCE EventDelivery
  WITH delivered <- publishedAt \cup cleaned, buried <- dlq

KeepsContract == Contract!Spec
==============================================================================
