\* Two clients, three updates or two and a deletion, no faults: what clients may rely on,
\* and what the history is certain to get.
CONSTANTS
  Clients = {alice, bob}
  MaxCommits = 4
  MaxLate = 1
  Handlers = {h1, h2}
  MaxCopies = 1
  Reverters = {}
  MaxFaults = 0
SPECIFICATION FairHistorySpec
CHECK_DEADLOCK FALSE
INVARIANTS EventsTellVersions
PROPERTIES
  NoOverwriteUnseen
  CreationRecorded
  DeletionRecordedInOrder
