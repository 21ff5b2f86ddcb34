\* A queue of one, two stops, no failing statement.
CONSTANTS
  Recordings = {r1, r2, r3}
  NoJob = NoJob
  QueueMaxsize = 1
  MaxStops = 2
  MaxStoreErrors = 0
SPECIFICATION FairSpec
PROPERTIES
  TakenJobsSettle
  AcceptedSettlesWithoutBacklog
