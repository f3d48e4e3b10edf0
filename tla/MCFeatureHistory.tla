--------------------------- MODULE MCFeatureHistory ---------------------------
(* Instances of FeatureHistory for TLC. *)
EXTENDS FeatureHistory, TLC

HistorySymmetry ==
  Permutations(Clients) \cup Permutations(Handlers) \cup Permutations(Reverters)
==============================================================================
