-------------------------------- MODULE Inbox --------------------------------
(***************************************************************************)
(* InboxService of libs/core: how the handlers of domain events keep from  *)
(* processing an event twice.  processOnce claims the event by inserting   *)
(* its id, runs the handler and takes the claim back if the handler        *)
(* throws; each of these is a statement of its own that commits at once,   *)
(* so other handlers run between them and the process may die there.       *)
(*                                                                         *)
(* The class comment also documents another usage, isProcessed before the  *)
(* handler and markProcessed after it: Checked are the events whose        *)
(* consumer is written that way (a consumer has one way or the other).     *)
(*                                                                         *)
(* What a handler does is left to the modules that use this one; here it   *)
(* returns or throws (and may have written before it throws, when only the *)
(* answer to its statement was lost).                                      *)
(***************************************************************************)
EXTENDS Naturals

CONSTANTS
  Handlers,   (* handler invocations that may be in flight at once           *)
  Events,     (* event ids (the correlation id of the domain event)          *)
  Checked,    (* those consumed with isProcessed/markProcessed               *)
  NoEvent,    (* no event at hand                                            *)
  MaxCopies   (* bound: copies the relay hands over of one event             *)

ASSUME InboxAssumption ==
  /\ Checked \subseteq Events
  /\ NoEvent \notin Events
  /\ MaxCopies \in Nat

VARIABLES
  inbox,      (* event ids in infrastructure.inbox                           *)
  handler,    (* where each invocation is, and with which event              *)
  handed,     (* history: how often the event was handed over                *)
  completed   (* history: how often a handler of the event returned          *)

inboxVars == <<inbox, handler, handed, completed>>

Idle    == [pc |-> "idle", event |-> NoEvent]

Steps == {"arrived", "working", "releasing", "marking"}

At(h, pc) == handler[h].pc = pc
Checks(h) == handler[h].event \in Checked
Goto(h, pc) == handler' = [handler EXCEPT ![h].pc = pc]
Finish(h) == handler' = [handler EXCEPT ![h] = Idle]

(* The emitter calls a listener with an event, first copy or not. *)
Deliver(h, e) ==
  /\ At(h, "idle")
  /\ handed[e] < MaxCopies
  /\ handed' = [handed EXCEPT ![e] = @ + 1]
  /\ handler' = [handler EXCEPT ![h] = [pc |-> "arrived", event |-> e]]
  /\ UNCHANGED <<inbox, completed>>

(* INSERT ... ON CONFLICT DO NOTHING: a row, or a duplicate to skip. *)
Unclaimed_Unchecked(h) == TRUE
Unclaimed(h) == handler[h].event \notin inbox

Claim(h) ==
  /\ ~Checks(h)
  /\ At(h, "arrived")
  /\ Unclaimed(h)
  /\ inbox' = inbox \cup {handler[h].event}
  /\ Goto(h, "working")
  /\ UNCHANGED <<handed, completed>>

Skip(h) ==
  /\ At(h, "arrived")
  /\ ~Unclaimed(h)
  /\ Finish(h)
  /\ UNCHANGED <<inbox, handed, completed>>

(* isProcessed finds no row. *)
Check(h) ==
  /\ Checks(h)
  /\ At(h, "arrived")
  /\ Unclaimed(h)
  /\ Goto(h, "working")
  /\ UNCHANGED <<inbox, handed, completed>>

Succeed(h) ==
  /\ At(h, "working")
  /\ completed' = [completed EXCEPT ![handler[h].event] = @ + 1]
  /\ IF Checks(h) THEN Goto(h, "marking") ELSE Finish(h)
  /\ UNCHANGED <<inbox, handed>>

(* Where a handler goes that threw: to the DELETE, or out. *)
AfterThrow_MarkAnyway(h) == Goto(h, IF Checks(h) THEN "marking" ELSE "releasing")
AfterThrow(h) == IF Checks(h) THEN Finish(h) ELSE Goto(h, "releasing")

Throw(h) ==
  /\ At(h, "working")
  /\ AfterThrow(h)
  /\ UNCHANGED <<inbox, handed, completed>>

(* DELETE FROM inbox, then rethrow; the emitter's wrapper logs the error.    *)
Released_Kept(h) == {}
Released(h) == {handler[h].event}

Release(h) ==
  /\ At(h, "releasing")
  /\ inbox' = inbox \ Released(h)
  /\ Finish(h)
  /\ UNCHANGED <<handed, completed>>

(* The DELETE itself fails: the claim stays. *)
ReleaseFails(h) ==
  /\ At(h, "releasing")
  /\ Finish(h)
  /\ UNCHANGED <<inbox, handed, completed>>

(* markProcessed: a row that exists already is no error. *)
Mark(h) ==
  /\ At(h, "marking")
  /\ inbox' = inbox \cup {handler[h].event}
  /\ Finish(h)
  /\ UNCHANGED <<handed, completed>>

(* The process dies, or the claiming statement fails: the invocation is over *)
(* and a claim it has made stays.                                            *)
Die(h) ==
  /\ ~At(h, "idle")
  /\ Finish(h)
  /\ UNCHANGED <<inbox, handed, completed>>

InboxInit ==
  /\ inbox = {}
  /\ handler = [h \in Handlers |-> Idle]
  /\ handed = [e \in Events |-> 0]
  /\ completed = [e \in Events |-> 0]

InboxStep(h) ==
  \/ Claim(h) \/ Skip(h) \/ Check(h)
  \/ Succeed(h) \/ Throw(h)
  \/ Release(h) \/ ReleaseFails(h) \/ Mark(h)

InboxNext ==
  \E h \in Handlers : InboxStep(h) \/ Die(h) \/ \E e \in Events : Deliver(h, e)

InboxSpec == InboxInit /\ [][InboxNext]_inboxVars

------------------------------------------------------------------------------
(* Every variable has its type. *)
InboxTypeOK ==
  /\ inbox \subseteq Events
  /\ handler \in [Handlers -> {Idle} \cup [pc : Steps, event : Events]]
  /\ handed \in [Events -> Nat]
  /\ completed \in [Events -> Nat]

(* h has its event claimed and is not done with it. *)
Owns(h) == ~Checks(h) /\ (At(h, "working") \/ At(h, "releasing"))

(* "Atomic - no TOCTOU race": two invocations never run the handler of one   *)
(* event at the same time, however the copies of the event arrive.           *)
HandlersApart ==
  \A g, h \in Handlers :
    g # h /\ Owns(g) /\ Owns(h) => handler[g].event # handler[h].event

(* Under processOnce an event is processed to the end at most once, whatever *)
(* throws or dies.                                                           *)
CompletedOnce == \A e \in Events \ Checked : completed[e] <= 1

(* A claim is taken back only while its own handler has it: the claim of an  *)
(* event that was processed stays, so a late copy is still recognised.       *)
ClaimsKept ==
  [][\A e \in inbox \ inbox' :
       e \notin Checked /\ completed[e] = 0 /\ \E h \in Handlers : handler[h].event = e /\ Owns(h)]_inboxVars

(* The usage of the class comment instead never records an event that was    *)
(* not processed: it repeats work, and loses none.                           *)
RecordedWasProcessed ==
  \A e \in inbox \cap Checked : completed[e] > 0

(***************************************************************************)
(* What makes these inductive: an owner has its event claimed, an event    *)
(* that was completed is claimed for good, with no owner, and what is      *)
(* about to be marked was completed.                                       *)
(***************************************************************************)
ClaimsBooked ==
  /\ \A h \in Handlers : Owns(h) => handler[h].event \in inbox
  /\ \A h \in Handlers : At(h, "releasing") => ~Checks(h)
  /\ \A e \in Events \ Checked : completed[e] > 0 =>
       e \in inbox /\ \A h \in Handlers : Owns(h) => handler[h].event # e

MarksEarned ==
  \A h \in Handlers : At(h, "marking") => Checks(h) /\ completed[handler[h].event] > 0
==============================================================================
