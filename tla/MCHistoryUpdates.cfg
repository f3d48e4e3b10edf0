\* The same: does an update get its version?
CONSTANTS
  Clients = {alice}
  MaxCommits = 2
  MaxLate = 0
  Handlers = {h1}
  MaxCopies = 1
  Reverters = {}
  MaxFaults = 0
SPECIFICATION FairHistorySpec
CHECK_DEADLOCK FALSE
PROPERTY UpdatesRecorded
