\* Three messages of one device, two times, two writers to the state store.
CONSTANTS
  Devices = {d1}
  Regions = {east, west}
  Times = {1, 2}
  Writers = {w1, w2}
  MaxLog = 3
  MaxFaults = 2
  MaxPipelines = 2
SPECIFICATION Spec
SYMMETRY StreamSymmetry
CHECK_DEADLOCK FALSE
INVARIANTS
  CommittedIsSettled
  LatestKept
