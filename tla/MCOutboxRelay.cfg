\* An API replica, which listens, and the outbox worker, which does not; one of the three events may make emit() throw.
CONSTANTS
  Relays = {api, worker}
  Listening = {api}
  MaxEvents = 3
  Flaky <- MiddleEvent
  MaxRetries = 1
  BatchLimit = 2
  MaxLosses = 1
SPECIFICATION Spec
INVARIANTS
  EventsConserved
  DeadLetterAfterRetries
  DuplicatesNeedLosses
  PublishedWasHeard
PROPERTIES
  EveryEventSettles
  KeepsContract
