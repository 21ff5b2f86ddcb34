SPECIFICATION Spec
CONSTANTS
  Confs <- MCConfs
  MaxFaults = 1
  MaxServer = 1
  MaxMic = 1
INVARIANTS
  HandleIsSafe
  EventsInOrder
  MessagesAreWhole
  WakeupNotLost
PROPERTIES
  PongTimeoutIsHonest
  CallsReturn
  BrokenIsNoticed
