\* A queue of two and four recordings, so that one stop or one failing statement
\* leaves fewer unfinished rows than there are recordings; two failing
\* statements, so that the recording of a failure can fail too.
CONSTANTS
  Recordings = {r1, r2, r3, r4}
  NoJob = NoJob
  QueueMaxsize = 2
  MaxStops = 1
  MaxStoreErrors = 2
SYMMETRY Symmetry
SPECIFICATION Spec
INVARIANTS
  InFlightIsExact
  InFlightIsSound
  RowIsCoherent
  RefusedNeverRuns
  ProvidersOncePerLife
  DroppedOnlyByStore
  BacklogIsBounded
PROPERTIES
  TerminalIsFinal
  ImplementsLedger
