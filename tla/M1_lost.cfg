\* One crash between the INSERT and the 409 of a second recording.
CONSTANTS
  Recordings = {r1, r2}
  NoJob = NoJob
  QueueMaxsize = 1
  MaxStops = 1
  MaxStoreErrors = 0
SPECIFICATION FairSpec
PROPERTIES
  EveryAcceptedJobSettles
