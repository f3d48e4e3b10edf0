------------------------------- MODULE MCInbox -------------------------------
(* Instances of Inbox for TLC. *)
EXTENDS Inbox, TLC

InboxSymmetry == Permutations(Handlers) \cup Permutations(Events \ Checked)
==============================================================================
