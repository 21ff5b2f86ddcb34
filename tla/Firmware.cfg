\* One frame per recording; a recording of two ticks, an image stable after one.
CONSTANTS
  Chunks = 1
  RecordingLimit = 2
  StableTime = 1
SPECIFICATION Spec
INVARIANTS
  UploadOwnsFile
  OneRecordingPerPress
PROPERTIES
  MicOnlyInUse
  ConfirmedAfterStable
  MicLostOnlyToOta
  NothingStarves
