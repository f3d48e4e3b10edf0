---------------------------- MODULE EventDelivery ----------------------------
(***************************************************************************)
(* What the transactional outbox promises to the modules of GeoTrack that  *)
(* write domain events with it, whatever the relay behind it looks like:   *)
(* an accepted event is settled exactly once, either delivered (and then   *)
(* at least one copy of it was handed over) or buried in the dead-letter   *)
(* table, and a settled event stays settled.  Copies may be handed over    *)
(* any number of times: delivery is at least once.                         *)
(***************************************************************************)
EXTENDS Naturals

CONSTANT Ids    (* the events that producers may ever write *)

VARIABLES
  accepted,     (* events whose producing transaction committed *)
  delivered,    (* events that need no further delivery         *)
  buried,       (* events given up as undeliverable             *)
  copies        (* how often each event was handed over         *)

vars == <<accepted, delivered, buried, copies>>

Settled == delivered \cup buried

Init ==
  /\ accepted = {}
  /\ delivered = {}
  /\ buried = {}
  /\ copies = [e \in Ids |-> 0]

Accept(e) ==
  /\ e \in Ids \ accepted
  /\ accepted' = accepted \cup {e}
  /\ UNCHANGED <<delivered, buried, copies>>

HandOver(e) ==
  /\ e \in accepted
  /\ copies' = [copies EXCEPT ![e] = @ + 1]
  /\ UNCHANGED <<accepted, delivered, buried>>

(* A transaction of the relay settles several events at once. *)
Settle(D, B) ==
  /\ D \cap B = {}
  /\ D \cup B \subseteq accepted \ Settled
  /\ \A e \in D : copies[e] > 0
  /\ delivered' = delivered \cup D
  /\ buried' = buried \cup B
  /\ UNCHANGED <<accepted, copies>>

Next ==
  \/ \E e \in Ids : Accept(e) \/ HandOver(e)
  \/ \E D, B \in SUBSET Ids : Settle(D, B)

(* No accepted event waits for ever. *)
Fairness ==
  \A e \in Ids : WF_vars(\E D, B \in SUBSET Ids : e \in D \cup B /\ Settle(D, B))

SafeSpec == Init /\ [][Next]_vars
Spec == SafeSpec /\ Fairness
==============================================================================
