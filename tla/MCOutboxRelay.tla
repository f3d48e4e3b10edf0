---------------------------- MODULE MCOutboxRelay ----------------------------
(* Instances of OutboxRelay for TLC. *)
EXTENDS OutboxRelay

(* The event in the middle of a batch may make emit() throw. *)
MiddleEvent == {2}
==============================================================================
