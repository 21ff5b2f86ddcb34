--------------------------- MODULE FirmwareProofs ---------------------------
(***************************************************************************)
(* TLAPS proofs about Firmware: the microphone, the stored recording, the  *)
(* press of the button and the confirmation of an image, for every length  *)
(* of a recording, every recording limit and every stable time.            *)
(***************************************************************************)
EXTENDS Firmware, TLAPS

-----------------------------------------------------------------------------
(* The inductive invariant. *)

\* What makes the properties of Firmware inductive.  A running recording has its
\* file ...
RecordingHasFile == btnHeld => flash = 1
\* ... a press that made its recording is still being held, and is either
\* recorded or marked as used up ...
PressIsUsedUp ==
  /\ ~pressed => perPress = 0
  /\ perPress # 0 => btnHeld \/ recordingTimedOut
\* ... and the stable time of an image is never longer than the time its
\* socket has been open; a socket opened again starts from 0.
StableIsOnline ==
  /\ ~firmwareValidated /\ Connected => stableFor <= onlineFor + 1
  /\ ~firmwareValidated /\ socket = "header" /\ pc # "validate"
       => stableFor = 0

IInv ==
  /\ TypeOK /\ MicHasUser /\ UploadOwnsFile /\ OneRecordingPerPress
  /\ RecordingHasFile /\ PressIsUsedUp /\ StableIsOnline

-----------------------------------------------------------------------------
(* What the shared pieces of the loop do.                                   *)

\* However a recording is stopped, the microphone is off, and an upload is
\* begun only of a file that exists.
LEMMA StopIsSafe ==
  ASSUME IInv, StopRecording, btnHeld
  PROVE  /\ upload' \in UploadStates /\ pos' = pos /\ flash' = flash
         /\ ~btnHeld' /\ btnDown' = "unset" /\ ~i2sActive'
         /\ recordingAge' = recordingAge /\ captured' = captured
         /\ upload' # "IDLE" => flash' = 1
<1>1. upload = "IDLE" /\ flash = 1
  BY DEF IInv, UploadOwnsFile, RecordingHasFile
<1> QED
  BY <1>1 DEF StopRecording, UploadStates

\* A call of processAudioUpload that finds a pending upload either leaves it
\* pending with its file, or ends it.
LEMMA UploadKeepsFile ==
  ASSUME TypeOK, UploadOwnsFile,
         SendFrame(TRUE) \/ SendFrame(FALSE) \/ EndOfFile \/ OpenFails
  PROVE  /\ upload' \in UploadStates /\ pos' \in 0..Chunks
         /\ flash' \in {0, 1}
         /\ ~btnHeld
         /\ upload' # "IDLE" => flash' = 1
<1>1. upload # "IDLE"
  BY DEF SendFrame, SendStart, SendChunk, SendStop, EndOfFile, OpenFails
<1>2. ~btnHeld /\ flash = 1
  BY <1>1 DEF UploadOwnsFile
<1>3. CASE SendFrame(TRUE)
  BY <1>2, <1>3, ChunksAssumption DEF TypeOK, CountsOK, SendFrame, SendStart,
     SendChunk, SendStop, UploadStates
<1>4. CASE SendFrame(FALSE)
  BY <1>2, <1>4 DEF TypeOK, CountsOK, SendFrame, SendStart, SendChunk, SendStop,
     RestartUpload, UploadStates
<1>5. CASE EndOfFile \/ OpenFails
  BY <1>2, <1>5 DEF TypeOK, CountsOK, EndOfFile, OpenFails, UploadStates
<1> QED
  BY <1>3, <1>4, <1>5

\* The flags stay TRUE or FALSE.
LEMMA FlagsKept ==
  ASSUME FlagsOK, [Next]_vars
  PROVE  FlagsOK'
<1>1. CASE Booted
  BY <1>1 DEF Booted, FlagsOK
<1>2. CASE NoNet \/ SocketStep \/ CommandArrives \/ Validate
  <2>1. CASE NoNet
    BY <2>1 DEF NoNet, button, recording, validation, world, FlagsOK
  <2>2. CASE SocketStep
    BY <2>2 DEF SocketStep, button, recording, validation, world, FlagsOK
  <2>3. CASE CommandArrives
    BY <2>3 DEF CommandArrives, button, recording, validation, world, FlagsOK
  <2>4. CASE Validate
    BY <2>4 DEF Validate, button, recording, validation, world, FlagsOK
  <2> QED
    BY <1>2, <2>1, <2>2, <2>3, <2>4
<1>3. CASE NoOta \/ OtaFails \/ NoUpload \/ ProcessUpload
  BY <1>3 DEF NoOta, OtaFails, NoUpload, ProcessUpload, button, recording,
     validation, world, FlagsOK
<1>4. ASSUME StopRecording
      PROVE  btnHeld' \in BOOLEAN /\ i2sActive' \in BOOLEAN
             /\ captured' \in BOOLEAN
  BY <1>4 DEF StopRecording, FlagsOK
<1>5. buttonArmed' = (buttonArmed \/ ~pressed) => buttonArmed' \in BOOLEAN
  OBVIOUS
<1>6. CASE WifiLost
  BY <1>4, <1>5, <1>6 DEF WifiLost, SeeButton, recording, validation, world,
     FlagsOK
<1>7. CASE Release
  BY <1>4, <1>5, <1>7 DEF Release, SeeButton, recording, validation, world,
     FlagsOK
<1>8. CASE Timeout
  BY <1>4, <1>8 DEF Timeout, recording, validation, world, FlagsOK
<1>9. CASE PressBegins \/ StartRecording \/ StartFails \/ NoButton
  BY <1>9 DEF PressBegins, StartRecording, StartFails, NoButton, button,
     recording, validation, world, FlagsOK
<1>10. CASE Capture \/ MicTest
  BY <1>10 DEF Capture, MicTest, button, recording, validation, world, FlagsOK
<1>11. CASE Tick \/ Finger \/ Radio \/ UNCHANGED vars
  BY <1>11 DEF Tick, Finger, Radio, vars, button, recording, validation, world,
     FlagsOK
<1> QED
  BY <1>1, <1>2, <1>3, <1>6, <1>7, <1>8, <1>9, <1>10, <1>11
     DEF Next, LoopStep, OtaSucceeds, PowerLoss

-----------------------------------------------------------------------------
(* The rest of IInv is inductive: one lemma for each section of the loop.   *)

\* IInv without the flags.
Rest ==
  /\ CountsOK /\ MicHasUser /\ UploadOwnsFile /\ OneRecordingPerPress
  /\ RecordingHasFile /\ PressIsUsedUp /\ StableIsOnline

\* A boot forgets everything but the file.
LEMMA InitEstablishes ==
  ASSUME Init
  PROVE  IInv
<1>1. FlagsOK
  BY DEF Init, FlagsOK
<1>2. CountsOK
  BY LimitsAssumption, ChunksAssumption DEF Init, UploadInit, UploadStates,
     Sections, SocketStates, CountsOK
<1>3. MicHasUser /\ UploadOwnsFile /\ RecordingHasFile
  BY DEF Init, UploadInit, MicHasUser, UploadOwnsFile, RecordingHasFile
<1>4. OneRecordingPerPress /\ PressIsUsedUp
  BY DEF Init, OneRecordingPerPress, PressIsUsedUp
<1>5. StableIsOnline
  BY DEF Init, StableIsOnline, Connected
<1> QED
  BY <1>1, <1>2, <1>3, <1>4, <1>5 DEF IInv, TypeOK

LEMMA StepBooted ==
  ASSUME IInv, Booted
  PROVE  Rest'
<1>1. CountsOK'
  BY LimitsAssumption, ChunksAssumption DEF Booted, UploadStates, Sections,
     SocketStates, IInv, TypeOK, CountsOK
<1>2. MicHasUser' /\ UploadOwnsFile' /\ RecordingHasFile'
  BY DEF Booted, MicHasUser, UploadOwnsFile, RecordingHasFile
<1>3. OneRecordingPerPress' /\ PressIsUsedUp'
  BY DEF Booted, OneRecordingPerPress, PressIsUsedUp
<1>4. StableIsOnline'
  BY DEF Booted, StableIsOnline, Connected
<1> QED
  BY <1>1, <1>2, <1>3, <1>4 DEF Rest

\* The sections before the button leave the recording alone; a socket that
\* opens has been closed, so its image has not been stable for any time.
LEMMA StepNet ==
  ASSUME IInv, NoNet \/ SocketStep \/ CommandArrives
  PROVE  Rest'
<1>1. CountsOK'
  BY LimitsAssumption DEF NoNet, SocketStep, CommandArrives, Section, Sections,
     SocketStates, device, button, recording, validation, IInv, TypeOK, CountsOK
<1>2. MicHasUser' /\ UploadOwnsFile' /\ OneRecordingPerPress'
      /\ RecordingHasFile' /\ PressIsUsedUp'
  BY DEF NoNet, SocketStep, CommandArrives, device, button, recording,
     world, IInv, MicHasUser, UploadOwnsFile, OneRecordingPerPress,
     RecordingHasFile, PressIsUsedUp
<1>3. StableIsOnline'
  <2>1. stableFor \in Nat /\ onlineFor \in Nat
    BY LimitsAssumption DEF IInv, TypeOK, CountsOK
  <2>2. CASE NoNet
    BY <2>2 DEF NoNet, Section, validation, world, IInv, StableIsOnline,
       Connected
  <2>3. CASE SocketStep
    <3>1. pc = "net" /\ pc' = "validate" /\ UNCHANGED <<firmwareValidated, stableFor>>
      BY <2>3 DEF SocketStep, Section, validation
    <3>2. CASE socket = "open"
      BY <2>1, <2>3, <3>1, <3>2 DEF SocketStep, IInv, StableIsOnline, Connected
    <3>3. CASE socket = "header"
      BY <2>1, <2>3, <3>1, <3>3 DEF SocketStep, IInv, StableIsOnline, Connected
    <3>4. CASE socket = "closed"
      BY <2>1, <2>3, <3>1, <3>4 DEF SocketStep, IInv, StableIsOnline, Connected
    <3> QED
      BY <3>2, <3>3, <3>4 DEF IInv, TypeOK, CountsOK, SocketStates
  <2>4. CASE CommandArrives
    BY <2>4 DEF CommandArrives, Section, validation, world, IInv,
       StableIsOnline, Connected
  <2> QED
    BY <2>2, <2>3, <2>4
<1> QED
  BY <1>1, <1>2, <1>3 DEF Rest

\* The clock of an image starts at 1 and is reset when the socket is not open.
LEMMA StepValidate ==
  ASSUME IInv, Validate
  PROVE  Rest'
<1>1. /\ stableFor \in 0..(StableTime + 1) /\ onlineFor \in 0..StableTime
      /\ StableTime \in Nat \ {0}
  BY LimitsAssumption DEF IInv, TypeOK, CountsOK
<1>2. CountsOK'
  BY <1>1 DEF Validate, Section, Sections, device, button, recording, validation,
     IInv, TypeOK, CountsOK
<1>3. MicHasUser' /\ UploadOwnsFile' /\ OneRecordingPerPress'
      /\ RecordingHasFile' /\ PressIsUsedUp'
  BY DEF Validate, device, button, recording, world, IInv, MicHasUser,
     UploadOwnsFile, OneRecordingPerPress, RecordingHasFile, PressIsUsedUp
<1>4. StableIsOnline'
  <2>1. socket' = socket /\ onlineFor' = onlineFor
    BY DEF Validate
  <2>2. CASE firmwareValidated
    BY <2>2 DEF Validate, validation, StableIsOnline
  <2>3. CASE ~firmwareValidated /\ wifi /\ Connected
    BY <1>1, <2>1, <2>3 DEF Validate, IInv, StableIsOnline, Connected
  <2>4. CASE ~firmwareValidated /\ ~(wifi /\ Connected)
    BY <1>1, <2>1, <2>4 DEF Validate, StableIsOnline, Connected
  <2> QED
    BY <2>2, <2>3, <2>4
<1> QED
  BY <1>2, <1>3, <1>4 DEF Rest

\* A failed update takes the microphone away; a failed send the socket.
LEMMA StepOtaAndUpload ==
  ASSUME IInv, NoOta \/ OtaFails \/ NoUpload \/ ProcessUpload
  PROVE  Rest'
<1>1. CASE NoOta \/ NoUpload \/ OtaFails
  <2>1. CountsOK'
    BY <1>1 DEF NoOta, NoUpload, OtaFails, Section, Sections, device, button,
       recording, validation, IInv, TypeOK, CountsOK
  <2>2. /\ MicHasUser' /\ UploadOwnsFile' /\ OneRecordingPerPress'
        /\ RecordingHasFile' /\ PressIsUsedUp'
    BY <1>1 DEF NoOta, NoUpload, OtaFails, device, button, recording, world,
       IInv, MicHasUser, UploadOwnsFile, OneRecordingPerPress,
       RecordingHasFile, PressIsUsedUp
  <2>3. StableIsOnline'
    BY <1>1 DEF NoOta, NoUpload, OtaFails, Section, validation, IInv,
       StableIsOnline, Connected
  <2> QED
    BY <2>1, <2>2, <2>3 DEF Rest
<1>2. CASE ProcessUpload
  <2>1. /\ upload' \in UploadStates /\ pos' \in 0..Chunks /\ flash' \in {0, 1}
        /\ ~btnHeld
        /\ upload' # "IDLE" => flash' = 1
    BY <1>2, UploadKeepsFile DEF IInv, ProcessUpload
  <2>2. CountsOK'
    <3>1. /\ pc' \in Sections /\ socket' \in {socket, "closed"}
          /\ onlineFor' \in {onlineFor, 0}
          /\ UNCHANGED <<button, recording, micTest, validation>>
      BY <1>2 DEF ProcessUpload, Section, Sections
    <3> QED
      BY <2>1, <3>1, LimitsAssumption DEF SocketStates, button, recording,
         validation, IInv, TypeOK, CountsOK
  <2>3. btnHeld' = btnHeld
    BY <1>2 DEF ProcessUpload, recording
  <2>4. UploadOwnsFile' /\ RecordingHasFile'
    BY <2>1, <2>3 DEF UploadOwnsFile, RecordingHasFile
  <2>5. MicHasUser' /\ OneRecordingPerPress' /\ PressIsUsedUp'
    BY <1>2, <2>3 DEF ProcessUpload, button, world, IInv, MicHasUser,
       OneRecordingPerPress, PressIsUsedUp
  <2>6. StableIsOnline'
    BY <1>2 DEF ProcessUpload, Section, validation, IInv, Connected,
       StableIsOnline
  <2> QED
    BY <2>2, <2>4, <2>5, <2>6 DEF Rest
<1> QED
  BY <1>1, <1>2

\* WiFi loss, the release and the limit end a recording by StopRecording.
LEMMA StepStop ==
  ASSUME IInv, WifiLost \/ Release \/ Timeout
  PROVE  Rest'
<1>1. ASSUME btnHeld, StopRecording
      PROVE  CountsOK' /\ MicHasUser' /\ UploadOwnsFile' /\ RecordingHasFile'
  <2>1. CountsOK'
    BY <1>1, StopIsSafe DEF WifiLost, Release, Timeout, Section, Sections,
       validation, IInv, TypeOK, CountsOK
  <2>2. MicHasUser' /\ UploadOwnsFile' /\ RecordingHasFile'
    BY <1>1, StopIsSafe DEF MicHasUser, UploadOwnsFile, RecordingHasFile
  <2> QED
    BY <2>1, <2>2
<1>2. ASSUME UNCHANGED <<device, recording, i2sActive>>
      PROVE  CountsOK' /\ MicHasUser' /\ UploadOwnsFile' /\ RecordingHasFile'
  <2>1. CountsOK'
    BY <1>2 DEF WifiLost, Release, Timeout, StopRecording, Section, Sections,
       device, recording, validation, IInv, TypeOK, CountsOK
  <2>2. MicHasUser' /\ UploadOwnsFile' /\ RecordingHasFile'
    BY <1>2 DEF WifiLost, Release, Timeout, device, recording, IInv,
       MicHasUser, UploadOwnsFile, RecordingHasFile
  <2> QED
    BY <2>1, <2>2
<1>3. (btnHeld /\ StopRecording) \/ UNCHANGED <<device, recording, i2sActive>>
  BY DEF WifiLost, Release, Timeout
<1>4. OneRecordingPerPress' /\ PressIsUsedUp'
  <2>1. perPress' = perPress /\ pressed' = pressed
    BY DEF WifiLost, Release, Timeout, world
  <2>2. ~pressed \/ recordingTimedOut'
          \/ (btnHeld' = btnHeld /\ recordingTimedOut' = recordingTimedOut)
    BY DEF WifiLost, Release, Timeout, recording
  <2> QED
    BY <2>1, <2>2 DEF IInv, OneRecordingPerPress, PressIsUsedUp
<1>5. StableIsOnline'
  BY DEF WifiLost, Release, Timeout, Section, validation, world, IInv,
     StableIsOnline, Connected
<1>6. CountsOK' /\ MicHasUser' /\ UploadOwnsFile' /\ RecordingHasFile'
  BY <1>1, <1>2, <1>3
<1> QED
  BY <1>4, <1>5, <1>6 DEF Rest

\* A recording is begun by a press that has not made one, with no upload
\* pending.
LEMMA StepPress ==
  ASSUME IInv, PressBegins \/ StartRecording \/ StartFails \/ NoButton
  PROVE  Rest'
<1>1. CountsOK'
  BY LimitsAssumption DEF PressBegins, StartRecording, StartFails, NoButton,
     Section, Sections, device, button, recording, validation, IInv, TypeOK,
     CountsOK
<1>2. MicHasUser' /\ UploadOwnsFile' /\ RecordingHasFile'
  BY DEF PressBegins, StartRecording, StartFails, NoButton, MayRecord, device,
     recording, IInv, MicHasUser, UploadOwnsFile, RecordingHasFile
<1>3. OneRecordingPerPress' /\ PressIsUsedUp'
  <2>1. CASE StartRecording
    <3>1. /\ perPress = 0 /\ perPress' = perPress + 1 /\ btnHeld'
          /\ pressed /\ pressed' = pressed
      BY <2>1 DEF StartRecording, MayRecord, world, IInv, PressIsUsedUp
    <3> QED
      BY <3>1 DEF OneRecordingPerPress, PressIsUsedUp
  <2>2. CASE PressBegins
    BY <2>2 DEF PressBegins, recording, world, IInv, OneRecordingPerPress,
       PressIsUsedUp
  <2>3. CASE StartFails
    BY <2>3 DEF StartFails, recording, world, IInv, OneRecordingPerPress,
       PressIsUsedUp
  <2>4. CASE NoButton
    BY <2>4 DEF NoButton, button, recording, world, IInv, OneRecordingPerPress,
       PressIsUsedUp
  <2> QED
    BY <2>1, <2>2, <2>3, <2>4
<1>4. StableIsOnline'
  BY DEF PressBegins, StartRecording, StartFails, NoButton, Section,
     validation, IInv, StableIsOnline, Connected
<1> QED
  BY <1>1, <1>2, <1>3, <1>4 DEF Rest

\* The microphone is switched off when the test is over, unless it records.
LEMMA StepMic ==
  ASSUME IInv, Capture \/ MicTest
  PROVE  Rest'
<1>1. CountsOK'
  BY DEF Capture, MicTest, Section, Sections, device, button, recording,
     validation, IInv, TypeOK, CountsOK
<1>2. MicHasUser'
  <2>1. CASE Capture
    BY <2>1 DEF Capture, IInv, MicHasUser
  <2>2. CASE MicTest
    <3>1. btnHeld' = btnHeld
      BY <2>2 DEF MicTest, recording
    <3>2. CASE micTest = "over"
      BY <2>2, <3>1, <3>2 DEF MicTest, MicHasUser
    <3>3. CASE micTest = "on"
      BY <2>2, <3>1, <3>3 DEF MicTest, MicHasUser
    <3>4. CASE micTest \notin {"on", "over"}
      BY <2>2, <3>1, <3>4 DEF MicTest, IInv, MicHasUser
    <3> QED
      BY <3>2, <3>3, <3>4
  <2> QED
    BY <2>1, <2>2
<1>3. /\ UploadOwnsFile' /\ RecordingHasFile' /\ OneRecordingPerPress'
      /\ PressIsUsedUp'
  <2>1. /\ UNCHANGED <<device, button, world>> /\ btnHeld' = btnHeld
    BY DEF Capture, MicTest, recording
  <2> QED
    BY <2>1 DEF device, button, world, IInv, UploadOwnsFile, RecordingHasFile,
       OneRecordingPerPress, PressIsUsedUp
<1>4. StableIsOnline'
  BY DEF Capture, MicTest, Section, validation, IInv, StableIsOnline, Connected
<1> QED
  BY <1>1, <1>2, <1>3, <1>4 DEF Rest

\* Time adds the same to both clocks; a finger that lifts ends the press.
LEMMA StepWorld ==
  ASSUME IInv, Tick \/ Finger \/ Radio
  PROVE  Rest'
<1>1. CASE Tick
  <2>1. /\ stableFor \in 0..(StableTime + 1) /\ onlineFor \in 0..StableTime
        /\ recordingAge \in 0..RecordingLimit
        /\ StableTime \in Nat /\ RecordingLimit \in Nat
    BY LimitsAssumption DEF IInv, TypeOK, CountsOK
  <2>2. CountsOK'
    BY <1>1, <2>1 DEF Tick, Capped, Connected, device, IInv, TypeOK, CountsOK
  <2>3. /\ MicHasUser' /\ UploadOwnsFile' /\ OneRecordingPerPress'
        /\ RecordingHasFile' /\ PressIsUsedUp'
    BY <1>1 DEF Tick, device, world, IInv, MicHasUser, UploadOwnsFile,
       OneRecordingPerPress, RecordingHasFile, PressIsUsedUp
  <2>4. StableIsOnline'
    <3>1. /\ UNCHANGED <<pc, socket, firmwareValidated>>
          /\ stableFor = 0 => stableFor' = 0
          /\ Connected /\ stableFor <= onlineFor + 1
               => stableFor' <= onlineFor' + 1
      BY <1>1, <2>1 DEF Tick, Capped
    <3> QED
      BY <3>1 DEF IInv, StableIsOnline, Connected
  <2> QED
    BY <2>2, <2>3, <2>4 DEF Rest
<1>2. CASE Finger
  <2>1. CountsOK'
    BY <1>2 DEF Finger, device, recording, validation, IInv, TypeOK, CountsOK
  <2>2. MicHasUser' /\ UploadOwnsFile' /\ RecordingHasFile' /\ StableIsOnline'
    BY <1>2 DEF Finger, device, recording, validation, IInv, MicHasUser,
       UploadOwnsFile, RecordingHasFile, StableIsOnline, Connected
  <2>3. OneRecordingPerPress' /\ PressIsUsedUp'
    BY <1>2 DEF Finger, recording, IInv, OneRecordingPerPress, PressIsUsedUp
  <2> QED
    BY <2>1, <2>2, <2>3 DEF Rest
<1>3. CASE Radio
  <2>1. CountsOK'
    BY <1>3 DEF Radio, device, button, recording, validation, IInv, TypeOK,
       CountsOK
  <2>2. /\ MicHasUser' /\ UploadOwnsFile' /\ RecordingHasFile'
        /\ StableIsOnline' /\ OneRecordingPerPress' /\ PressIsUsedUp'
    BY <1>3 DEF Radio, device, button, recording, validation, IInv,
       MicHasUser, UploadOwnsFile, RecordingHasFile, StableIsOnline,
       OneRecordingPerPress, PressIsUsedUp, Connected
  <2> QED
    BY <2>1, <2>2 DEF Rest
<1> QED
  BY <1>1, <1>2, <1>3

\* No step breaks the invariant.
LEMMA StepPreserves ==
  ASSUME IInv, [Next]_vars
  PROVE  IInv'
<1>1. Rest'
  <2>1. CASE UNCHANGED vars
    <3>1. CountsOK'
      BY <2>1 DEF vars, device, button, recording, validation, IInv, TypeOK,
         CountsOK
    <3>2. /\ MicHasUser' /\ UploadOwnsFile' /\ RecordingHasFile'
          /\ StableIsOnline' /\ OneRecordingPerPress' /\ PressIsUsedUp'
      BY <2>1 DEF vars, device, button, recording, validation, world, IInv,
         MicHasUser, UploadOwnsFile, RecordingHasFile, StableIsOnline,
         OneRecordingPerPress, PressIsUsedUp, Connected
    <3> QED
      BY <3>1, <3>2 DEF Rest
  <2>2. CASE Next
    BY <2>2, StepBooted, StepNet, StepValidate, StepOtaAndUpload, StepStop,
       StepPress, StepMic, StepWorld
       DEF Next, LoopStep, OtaSucceeds, PowerLoss
  <2> QED
    BY <2>1, <2>2
<1>2. FlagsOK'
  BY FlagsKept DEF IInv, TypeOK
<1> QED
  BY <1>1, <1>2 DEF IInv, TypeOK, Rest

-----------------------------------------------------------------------------
(* The theorems.                                                            *)

\* The inductive invariant holds in every reachable state.
THEOREM InductiveInvariant == Spec => []IInv
<1>1. Init => IInv
  BY InitEstablishes
<1>2. IInv /\ [Next]_vars => IInv'
  BY StepPreserves
<1> QED BY <1>1, <1>2, PTL DEF Spec

\* Every variable keeps its type: the upload never reads past its file.
THEOREM TypeCorrect == Spec => []TypeOK
<1>1. IInv => TypeOK
  BY DEF IInv
<1> QED BY <1>1, InductiveInvariant, PTL

\* The microphone runs only for a recording or a test; one that is over has given it
\* back when the pass ends, unless WiFi is lost (HANDOFF.md:34, main.cpp:556-578).
THEOREM MicrophoneIsOff == Spec => MicOnlyInUse
<1>1. IInv => MicHasUser
  BY DEF IInv
<1>2. ASSUME IInv, Next PROVE TestGivesMicBack
  <2>1. CASE Booted
    BY <2>1 DEF Booted, TestGivesMicBack
  <2>2. CASE NoNet \/ SocketStep \/ CommandArrives \/ Validate \/ NoOta
              \/ OtaFails \/ OtaSucceeds \/ NoUpload \/ ProcessUpload
    BY <2>1, <2>2 DEF NoNet, SocketStep, CommandArrives, Validate, NoOta,
       OtaFails, OtaSucceeds, NoUpload, ProcessUpload, Section, TestGivesMicBack
  <2>3. CASE PressBegins \/ StartRecording \/ StartFails \/ Release \/ NoButton
              \/ Timeout \/ Capture
    BY <2>3 DEF PressBegins, StartRecording, StartFails, Release, NoButton,
       Timeout, Capture, Section, TestGivesMicBack
  <2>4. CASE WifiLost
    BY <2>4 DEF WifiLost, Section, TestGivesMicBack
  <2>5. CASE MicTest
    <3>1. btnHeld' = btnHeld /\ micTest \in {"off", "on", "over"}
      BY <1>2, <2>5 DEF MicTest, recording, IInv, TypeOK, CountsOK
    <3>2. i2sActive /\ ~btnHeld => micTest # "off"
      BY <1>1, <1>2 DEF MicHasUser
    <3> QED
      BY <2>5, <3>1, <3>2 DEF MicTest, TestGivesMicBack
  <2>6. CASE Tick \/ Finger \/ Radio \/ PowerLoss
    BY <2>1, <2>6 DEF Tick, Finger, Radio, PowerLoss, TestGivesMicBack
  <2> QED
    BY <1>2, <2>2, <2>3, <2>4, <2>5, <2>6 DEF Next, LoopStep
<1>3. IInv /\ [Next]_vars => MicHasUser /\ [TestGivesMicBack]_vars
  BY <1>1, <1>2
<1> QED BY <1>1, <1>3, InductiveInvariant, PTL DEF Spec, MicOnlyInUse

\* A file whose upload is pending exists and is not recorded over.
THEOREM FileIsKept == Spec => []UploadOwnsFile
<1>1. IInv => UploadOwnsFile
  BY DEF IInv
<1> QED BY <1>1, InductiveInvariant, PTL

\* A press makes one recording at most, however long it is held.
THEOREM PressIsOne == Spec => []OneRecordingPerPress
<1>1. IInv => OneRecordingPerPress
  BY DEF IInv
<1> QED BY <1>1, InductiveInvariant, PTL

\* An image is confirmed only when its socket has been open for the whole
\* stable time (main.cpp:475).
THEOREM ConfirmationIsEarned == Spec => ConfirmedAfterStable
<1> DEFINE Earned == firmwareValidated' /\ ~firmwareValidated
                       => onlineFor >= StableTime
<1>1. ASSUME IInv, Next PROVE Earned
  <2>1. /\ stableFor \in 0..(StableTime + 1) /\ onlineFor \in 0..StableTime
        /\ StableTime \in Nat
    BY <1>1, LimitsAssumption DEF IInv, TypeOK, CountsOK
  <2>2. CASE Validate
    <3>1. firmwareValidated' /\ ~firmwareValidated
            => Connected /\ stableFor > StableTime
      BY <2>2 DEF Validate, validation
    <3> QED
      BY <3>1, <2>1, <1>1 DEF IInv, StableIsOnline
  <2>3. CASE Booted
    BY <2>3 DEF Booted
  <2>4. CASE LoopStep /\ ~Validate
    BY <2>3, <2>4 DEF LoopStep, NoNet, SocketStep, CommandArrives, NoOta,
       OtaFails, OtaSucceeds, NoUpload, ProcessUpload, WifiLost, PressBegins,
       StartRecording, StartFails, Release, NoButton, Timeout, Capture, MicTest,
       validation
  <2>5. CASE Tick \/ Finger \/ Radio \/ PowerLoss
    BY <2>3, <2>5 DEF Tick, Finger, Radio, PowerLoss, validation
  <2> QED
    BY <1>1, <2>2, <2>4, <2>5 DEF Next
<1>2. IInv /\ [Next]_vars => [Earned]_vars
  BY <1>1
<1>3. Spec => [][Earned]_vars
  BY <1>2, InductiveInvariant, PTL DEF Spec
<1> QED BY <1>3 DEF ConfirmedAfterStable

\* While a recording runs, only an update takes the microphone from it.
THEOREM MicrophoneStaysOn == Spec => MicLostOnlyToOta
<1> DEFINE Kept == i2sActive /\ ~i2sActive' /\ btnHeld /\ btnHeld' => pc = "ota"
<1>1. ASSUME Next PROVE Kept
  <2>1. CASE Booted
    BY <2>1 DEF Booted
  <2>2. CASE NoNet \/ SocketStep \/ CommandArrives \/ Validate \/ NoOta
              \/ OtaFails \/ OtaSucceeds \/ NoUpload \/ ProcessUpload
    BY <2>1, <2>2 DEF NoNet, SocketStep, CommandArrives, Validate, NoOta,
       OtaFails, OtaSucceeds, NoUpload, ProcessUpload, Section
  <2>3. CASE WifiLost \/ Release \/ Timeout
    BY <2>3 DEF WifiLost, Release, Timeout, StopRecording
  <2>4. CASE PressBegins \/ StartRecording \/ StartFails \/ NoButton
    BY <2>4 DEF PressBegins, StartRecording, StartFails, NoButton
  <2>5. CASE Capture \/ MicTest
    BY <2>5 DEF Capture, MicTest
  <2>6. CASE Tick \/ Finger \/ Radio \/ PowerLoss
    BY <2>1, <2>6 DEF Tick, Finger, Radio, PowerLoss
  <2> QED
    BY <1>1, <2>2, <2>3, <2>4, <2>5, <2>6 DEF Next, LoopStep
<1>2. [Next]_vars => [Kept]_vars
  BY <1>1
<1> QED BY <1>2, PTL DEF Spec, MicLostOnlyToOta
=============================================================================
