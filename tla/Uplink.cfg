\* Two recordings of two frames over three connections, with two faults.
CONSTANTS
  Chunks = 2
  MaxRecordings = 2
  MaxConns = 3
  MaxFaults = 2
SPECIFICATION Spec
INVARIANTS
  SubmittedWholeOnce
  PendingIsOnFlash
PROPERTIES
  UploadEnds
  DeliveredWithoutFault
CHECK_DEADLOCK FALSE
