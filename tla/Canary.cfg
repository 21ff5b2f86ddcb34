\* Two recordings, one stop of the orchestrator, one failing statement.
CONSTANTS
  Recordings = {r1, r2}
  NoJob = NoJob
  QueueMaxsize = 1
  MaxStops = 1
  MaxStoreErrors = 1
  PollMayExpire = TRUE
SPECIFICATION CSpec
INVARIANTS
  OneVerdict
  VerdictIsTrue
PROPERTIES
  NoCallsAfterResult
  EverySubmissionEnds
CHECK_DEADLOCK FALSE
