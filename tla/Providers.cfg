\* The default settings; up to three waits of a request last its timeout.
CONSTANTS
  MaxRetries <- DefaultRetries
  Timeout <- DefaultTimeout
  PollTimeout = 180
  MaxWaits = 3
SPECIFICATION Spec
INVARIANTS
  RequestsAreSound
  LateOnlyByOverrun
CHECK_DEADLOCK FALSE
