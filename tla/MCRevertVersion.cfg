\* A revert that read the row before an update.
CONSTANTS
  Clients = {alice}
  MaxCommits = 4
  MaxLate = 0
  Handlers = {h1}
  MaxCopies = 1
  Reverters = {rev}
  MaxFaults = 0
SPECIFICATION HistorySpec
CHECK_DEADLOCK FALSE
PROPERTY VersionNeverDecreases
