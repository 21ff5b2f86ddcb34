SPECIFICATION Spec
CONSTANTS
  Bases <- MCBases
  BufferSize = 3
  ReadSize = 2
  DropCount = 3
  MaxSamples = 10
  MaxLines = 2
  MaxChars = 2
  MaxText = 6
INVARIANTS
  RecordingIsTheSpeech
  ReplyIsShown
CHECK_DEADLOCK FALSE
