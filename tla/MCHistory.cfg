\* Edits, reverts, duplicated events and a fault together.
CONSTANTS
  Clients = {alice}
  MaxCommits = 4
  MaxLate = 0
  Handlers = {h1, h2}
  MaxCopies = 2
  Reverters = {rev}
  MaxFaults = 1
SPECIFICATION HistorySpec
CHECK_DEADLOCK FALSE
SYMMETRY HistorySymmetry
INVARIANTS HistoryReadsBack RowMatchesHistory LossesNeedFaults
