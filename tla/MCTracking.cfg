\* Three calls in flight about two devices that overwrite each other and fail half-way, or come in
\* turn for one device or both.
CONSTANTS
  Sessions = {s1, s2}
  Devices = {d1, d2}
  NoDevice = NoDevice
  Calls = {k1, k2, k3}
  BatchSizes = {2}
  Times = {1, 2}
  MaxPoints = 4
  MaxFailures = 1
SPECIFICATION Spec
SYMMETRY TrackingSymmetry
CHECK_DEADLOCK FALSE
INVARIANTS TotalsBackedByPoints AcceptedPointsStored OneActiveInTurn TotalsExactInTurn
PROPERTIES EndIsFinalInTurn ClockMovesOnInTurn
