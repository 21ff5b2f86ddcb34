SPECIFICATION Spec
CONSTANTS
  MaxConns = 2
  MaxMsgs = 2
  MaxAnims = 1
  Letters = 1
INVARIANTS
  RegistryIsExact
  LostOnlyByOverlap
  QueuedReachesOne
CHECK_DEADLOCK FALSE
PROPERTIES
  CommandsAreServed
