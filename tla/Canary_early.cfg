\* One recording, no crash and no failing statement.
CONSTANTS
  Recordings = {r1}
  NoJob = NoJob
  QueueMaxsize = 1
  MaxStops = 0
  MaxStoreErrors = 0
  PollMayExpire = FALSE
SPECIFICATION CSpec
INVARIANTS
  UnavailableIsFinal
CHECK_DEADLOCK FALSE
