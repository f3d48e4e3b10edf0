-------------------------- MODULE MCTrackingSessions --------------------------
(* Instances of TrackingSessions for TLC. *)
EXTENDS TrackingSessions, TLC

TrackingSymmetry ==
  Permutations(Sessions) \cup Permutations(Devices) \cup Permutations(Calls)
==============================================================================
