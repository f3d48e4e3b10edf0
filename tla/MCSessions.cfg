\* Two calls in flight over the sessions of one account, three tokens in all.
CONSTANTS
  Users = {ann}
  NoUser = NoUser
  Callers = {c1, c2}
  MaxTokens = 3
SPECIFICATION Spec
SYMMETRY SessionSymmetry
CHECK_DEADLOCK FALSE
INVARIANTS
  RotatedNotLive
  OneLivePerSession
  EndedSessionsStayEnded
PROPERTY SuspendedStaysOut
