---------------------------- MODULE MCLocationStream ----------------------------
(* Instances of LocationStream for TLC. *)
EXTENDS LocationStream, TLC

StreamSymmetry == Permutations(Writers) \cup Permutations(Regions)
=================================================================================
