\* Three invocations over two events of processOnce and one of the other usage, each handed over up to three
\* times: two handlers of one event race while the third, of any event, throws or dies.
CONSTANTS
  Handlers = {h1, h2, h3}
  Events = {e1, e2, checked}
  Checked = {checked}
  NoEvent = NoEvent
  MaxCopies = 3
SPECIFICATION InboxSpec
SYMMETRY InboxSymmetry
CHECK_DEADLOCK FALSE
INVARIANTS HandlersApart CompletedOnce RecordedWasProcessed
