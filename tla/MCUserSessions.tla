---------------------------- MODULE MCUserSessions ----------------------------
(* Instances of UserSessions for TLC. *)
EXTENDS UserSessions, TLC

SessionSymmetry == Permutations(Users) \cup Permutations(Callers)
==============================================================================
