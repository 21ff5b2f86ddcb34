------------------------------ MODULE Firmware ------------------------------
(***************************************************************************)
(* The main loop of src/main.cpp: one thread that serves the WebSocket,    *)
(* OTA, the upload of the stored recording, the button, the microphone and *)
(* the microphone test, in this order, once per pass.  WiFi, the button    *)
(* and the clock change between any two sections of a pass.  AudioUpload   *)
(* is the upload; there is one recording, number 1, at a time.             *)
(***************************************************************************)
EXTENDS AudioUpload

CONSTANTS
  RecordingLimit,  \* ticks in 15 s
  StableTime       \* ticks in 60 s

ASSUME LimitsAssumption ==
  RecordingLimit \in Nat \ {0} /\ StableTime \in Nat \ {0}

VARIABLES
  pc,             \* the section of loop() that runs next
  wifi,           \* WiFi.status() == WL_CONNECTED
  socket,         \* the WebSocket client: SocketStates
  pressed,        \* the level of BTN_PIN
  buttonArmed,    \* a release was seen since boot
  btnDown,        \* when the press began: "unset", "young" or "old" (> 100 ms)
  btnHeld,        \* a recording runs
  recordingAge,   \* ticks since recordingStarted
  captured,       \* samples were encoded in this recording
  recordingTimedOut,
  i2sActive,
  micTest,        \* "off", "on" or "over" (micTestActive and micTestEnd)
  otaPending,
  firmwareValidated,
  stableFor,      \* ticks since firmwareStableSince, plus 1; 0 if it is 0
  onlineFor,      \* history: ticks the socket has been connected
  perPress        \* history: recordings begun since the button went down

button == <<buttonArmed, btnDown, recordingTimedOut, perPress>>
recording == <<btnHeld, recordingAge, captured>>
validation == <<firmwareValidated, stableFor>>
world == <<wifi, pressed>>
vars == <<device, pc, world, socket, button, recording, i2sActive, micTest,
          otaPending, validation, onlineFor>>

Sections == {"net", "validate", "ota", "upload", "button", "timeout",
             "capture", "mictest"}
\* "header": TCP is up and the handshake is not answered yet.
SocketStates == {"closed", "header", "open"}
Connected == socket = "open"

\* What a boot leaves: setup() returns with WiFi up, SPIFFS keeps the file.
Booted ==
  /\ pc' = "net" /\ wifi' = TRUE /\ socket' = "closed" /\ pressed' \in BOOLEAN
  /\ buttonArmed' = FALSE /\ btnDown' = "unset" /\ btnHeld' = FALSE
  /\ recordingAge' = 0 /\ captured' = FALSE /\ recordingTimedOut' = FALSE
  /\ i2sActive' = FALSE /\ micTest' = "off" /\ otaPending' = FALSE
  /\ firmwareValidated' = FALSE /\ stableFor' = 0 /\ onlineFor' = 0
  /\ perPress' = 0
  /\ upload' = "IDLE" /\ pos' = 0 /\ UNCHANGED flash

Init ==
  /\ UploadInit
  /\ pc = "net" /\ wifi = TRUE /\ socket = "closed" /\ pressed \in BOOLEAN
  /\ buttonArmed = FALSE /\ btnDown = "unset" /\ btnHeld = FALSE
  /\ recordingAge = 0 /\ captured = FALSE /\ recordingTimedOut = FALSE
  /\ i2sActive = FALSE /\ micTest = "off" /\ otaPending = FALSE
  /\ firmwareValidated = FALSE /\ stableFor = 0 /\ onlineFor = 0
  /\ perPress = 0

Section(from, to) == pc = from /\ pc' = to

-----------------------------------------------------------------------------
(* ws.loop() and its callback.                                              *)

\* Without WiFi it is not called.
NoNet ==
  /\ Section("net", "validate")
  /\ ~wifi
  /\ UNCHANGED <<device, world, socket, button, recording, i2sActive, micTest,
                 otaPending, validation, onlineFor>>

\* Connecting takes a call for the socket and another for the handshake; a
\* lost connection is noticed by a call of its own.
SocketStep ==
  /\ Section("net", "validate")
  /\ wifi
  /\ socket' \in CASE socket = "closed" -> {"closed", "header"}
                   [] OTHER             -> {"closed", socket, "open"}
  /\ onlineFor' = IF Connected /\ socket' = "open" THEN onlineFor ELSE 0
  /\ UNCHANGED <<device, world, button, recording, i2sActive, micTest,
                 otaPending, validation>>

\* wsEvent: an "ota" or a "mic_test" message sets its flag.
CommandArrives ==
  /\ Section("net", "validate")
  /\ wifi /\ Connected
  /\ \/ otaPending' = TRUE /\ UNCHANGED micTest
     \/ micTest' = "on" /\ UNCHANGED otaPending
  /\ UNCHANGED <<device, world, socket, button, recording, i2sActive,
                 validation, onlineFor>>

\* Mutant: the clock runs on through an outage.
MutValidateKeepsStart ==
  /\ Section("validate", "ota")
  /\ IF ~firmwareValidated /\ wifi /\ Connected
     THEN /\ stableFor' = IF stableFor = 0 THEN 1 ELSE stableFor
          /\ firmwareValidated' = (stableFor > StableTime)
     ELSE UNCHANGED validation
  /\ UNCHANGED <<device, world, socket, button, recording, i2sActive, micTest,
                 otaPending, onlineFor>>

\* The confirmation of the running image.
Validate ==
  /\ Section("validate", "ota")
  /\ IF firmwareValidated THEN UNCHANGED validation
     ELSE IF wifi /\ Connected
     THEN /\ stableFor' = IF stableFor = 0 THEN 1 ELSE stableFor
          /\ firmwareValidated' = (stableFor > StableTime)
     ELSE stableFor' = 0 /\ UNCHANGED firmwareValidated
  /\ UNCHANGED <<device, world, socket, button, recording, i2sActive, micTest,
                 otaPending, onlineFor>>

-----------------------------------------------------------------------------
(* OTA and the upload.                                                      *)

NoOta ==
  /\ Section("ota", "upload")
  /\ ~otaPending
  /\ UNCHANGED <<device, world, socket, button, recording, i2sActive, micTest,
                 otaPending, validation, onlineFor>>

\* Mutant: a failed update is tried again in the next pass.
MutOtaStaysPending ==
  /\ Section("ota", "upload")
  /\ otaPending
  /\ i2sActive' = FALSE
  /\ UNCHANGED <<device, world, socket, button, recording, micTest, otaPending,
                 validation, onlineFor>>

\* Up to three downloads, all in this pass.  A failure stops the microphone
\* and leaves the recording running.
OtaFails ==
  /\ Section("ota", "upload")
  /\ otaPending
  /\ otaPending' = FALSE /\ i2sActive' = FALSE
  /\ UNCHANGED <<device, world, socket, button, recording, micTest, validation,
                 onlineFor>>

OtaSucceeds == pc = "ota" /\ otaPending /\ Booted

NoUpload ==
  /\ Section("upload", "button")
  /\ upload = "IDLE" \/ ~Connected
  /\ UNCHANGED <<device, world, socket, button, recording, i2sActive, micTest,
                 otaPending, validation, onlineFor>>

\* One call of processAudioUpload; a failed send disconnects.
ProcessUpload ==
  /\ Section("upload", "button")
  /\ Connected
  /\ \/ /\ SendFrame(TRUE) \/ EndOfFile \/ OpenFails
        /\ UNCHANGED <<socket, onlineFor>>
     \/ SendFrame(FALSE) /\ socket' = "closed" /\ onlineFor' = 0
  /\ UNCHANGED <<world, button, recording, i2sActive, micTest, otaPending,
                 validation>>

-----------------------------------------------------------------------------
(* The button and the recording.                                            *)

SeeButton == buttonArmed' = (buttonArmed \/ ~pressed)

\* Mutant: stopI2S is forgotten.
MutStopKeepsMic ==
  /\ btnHeld' = FALSE /\ btnDown' = "unset" /\ UNCHANGED i2sActive
  /\ \E stored \in {captured, FALSE} :
       upload' = IF stored THEN "START" ELSE upload
  /\ UNCHANGED <<pos, flash, recordingAge, captured>>

\* flushAudioBuffer, close, stopI2S; what was stored, if the flash took it,
\* is uploaded.
StopRecording ==
  /\ btnHeld' = FALSE /\ btnDown' = "unset" /\ i2sActive' = FALSE
  /\ \E stored \in {captured, FALSE} :
       upload' = IF stored THEN "START" ELSE upload
  /\ UNCHANGED <<pos, flash, recordingAge, captured>>

\* Without WiFi the pass ends here, microphone test included.
WifiLost ==
  /\ Section("button", "net")
  /\ ~wifi
  /\ SeeButton
  /\ IF btnHeld
     THEN StopRecording /\ recordingTimedOut' = TRUE
     ELSE UNCHANGED <<device, recording, i2sActive, btnDown, recordingTimedOut>>
  /\ UNCHANGED <<world, socket, perPress, micTest, otaPending, validation,
                 onlineFor>>

\* Mutant: a pending upload does not hold the button back.
MutMayRecord == pressed /\ buttonArmed /\ ~recordingTimedOut /\ ~btnHeld

\* The condition both press branches share.
MayRecord == /\ pressed /\ buttonArmed /\ ~recordingTimedOut /\ ~btnHeld
             /\ upload = "IDLE"

PressBegins ==
  /\ Section("button", "timeout")
  /\ wifi /\ MayRecord /\ btnDown = "unset"
  /\ btnDown' = "young"
  /\ UNCHANGED <<device, world, socket, buttonArmed, recordingTimedOut, perPress,
                 recording, i2sActive, micTest, otaPending, validation,
                 onlineFor>>

\* Held for 100 ms: the old file goes, a new one is opened, I2S starts.
StartRecording ==
  /\ Section("button", "timeout")
  /\ wifi /\ MayRecord /\ btnDown = "old"
  /\ flash' = 1
  /\ btnHeld' = TRUE /\ recordingAge' = 0 /\ captured' = FALSE
  /\ i2sActive' = TRUE
  /\ perPress' = perPress + 1
  /\ UNCHANGED <<upload, pos, world, socket, buttonArmed, btnDown,
                 recordingTimedOut, micTest, otaPending, validation, onlineFor>>

\* The file or the microphone could not be opened: the press begins anew.
StartFails ==
  /\ Section("button", "timeout")
  /\ wifi /\ MayRecord /\ btnDown = "old"
  /\ flash' \in {0, 1}
  /\ btnDown' = "unset"
  /\ UNCHANGED <<upload, pos, world, socket, buttonArmed, recordingTimedOut,
                 perPress, recording, i2sActive, micTest, otaPending,
                 validation, onlineFor>>

Release ==
  /\ Section("button", "timeout")
  /\ wifi /\ ~pressed
  /\ SeeButton
  /\ IF btnHeld THEN StopRecording
     ELSE btnDown' = "unset" /\ UNCHANGED <<device, recording, i2sActive>>
  /\ recordingTimedOut' = FALSE
  /\ UNCHANGED <<world, socket, perPress, micTest, otaPending, validation,
                 onlineFor>>

\* Pressed, and no branch taken.
NoButton ==
  /\ Section("button", "timeout")
  /\ wifi /\ pressed
  /\ MayRecord => btnDown = "young"
  /\ UNCHANGED <<device, world, socket, button, recording, i2sActive, micTest,
                 otaPending, validation, onlineFor>>

\* Mutants: no limit; the limit without recordingTimedOut.
MutNoLimit ==
  /\ Section("timeout", "capture")
  /\ UNCHANGED <<device, world, socket, button, recording, i2sActive, micTest,
                 otaPending, validation, onlineFor>>
MutTimeoutForgets ==
  /\ Section("timeout", "capture")
  /\ IF btnHeld /\ recordingAge >= RecordingLimit
     THEN StopRecording
     ELSE UNCHANGED <<device, recording, i2sActive, btnDown>>
  /\ UNCHANGED <<world, socket, buttonArmed, recordingTimedOut, perPress,
                 micTest, otaPending, validation, onlineFor>>

Timeout ==
  /\ Section("timeout", "capture")
  /\ IF btnHeld /\ recordingAge >= RecordingLimit
     THEN StopRecording /\ recordingTimedOut' = TRUE
     ELSE UNCHANGED <<device, recording, i2sActive, btnDown, recordingTimedOut>>
  /\ UNCHANGED <<world, socket, buttonArmed, perPress, micTest, otaPending,
                 validation, onlineFor>>

\* i2s_read gives samples only while the driver is installed, and the first
\* 256 ms are dropped.
Capture ==
  /\ Section("capture", "mictest")
  /\ captured' \in IF btnHeld /\ i2sActive THEN {captured, TRUE} ELSE {captured}
  /\ UNCHANGED <<device, world, socket, button, btnHeld, recordingAge, i2sActive,
                 micTest, otaPending, validation, onlineFor>>

\* Mutant: the end of a test stops the microphone of a recording.
MutMicTestStops ==
  /\ Section("mictest", "net")
  /\ CASE micTest = "over" -> micTest' = "off" /\ i2sActive' = FALSE
       [] micTest = "on"   -> /\ i2sActive' \in IF btnHeld THEN {i2sActive}
                                                ELSE {i2sActive, TRUE}
                              /\ UNCHANGED micTest
       [] OTHER            -> UNCHANGED <<micTest, i2sActive>>
  /\ UNCHANGED <<device, world, socket, button, recording, otaPending,
                 validation, onlineFor>>

\* Mutant: nobody looks at the end of a test.
MutTestNeverEnds ==
  /\ Section("mictest", "net")
  /\ i2sActive' \in IF micTest # "on" \/ btnHeld THEN {i2sActive}
                    ELSE {i2sActive, TRUE}
  /\ UNCHANGED <<device, world, socket, button, recording, micTest, otaPending,
                 validation, onlineFor>>

\* The microphone test shares I2S with the recording.
MicTest ==
  /\ Section("mictest", "net")
  /\ CASE micTest = "over" -> /\ micTest' = "off"
                              /\ i2sActive' = (i2sActive /\ btnHeld)
       [] micTest = "on"   -> /\ i2sActive' \in IF btnHeld THEN {i2sActive}
                                                ELSE {i2sActive, TRUE}
                              /\ UNCHANGED micTest
       [] OTHER            -> UNCHANGED <<micTest, i2sActive>>
  /\ UNCHANGED <<device, world, socket, button, recording, otaPending,
                 validation, onlineFor>>

LoopStep ==
  \/ NoNet \/ SocketStep \/ CommandArrives \/ Validate
  \/ NoOta \/ OtaFails \/ OtaSucceeds \/ NoUpload \/ ProcessUpload
  \/ WifiLost \/ PressBegins \/ StartRecording \/ StartFails \/ Release
  \/ NoButton \/ Timeout \/ Capture \/ MicTest

-----------------------------------------------------------------------------
(* The world.                                                               *)

Capped(n, limit) == IF n < limit THEN n + 1 ELSE n

\* Ages stop where no comparison tells them apart any more.
Tick ==
  /\ btnDown' = IF btnDown = "young" THEN "old" ELSE btnDown
  /\ recordingAge' = Capped(recordingAge, RecordingLimit)
  /\ micTest' = IF micTest = "on" THEN "over" ELSE micTest
  /\ stableFor' = IF stableFor = 0 THEN 0 ELSE Capped(stableFor, StableTime + 1)
  /\ onlineFor' = IF Connected THEN Capped(onlineFor, StableTime) ELSE 0
  /\ UNCHANGED <<device, pc, world, socket, buttonArmed, recordingTimedOut,
                 perPress, btnHeld, captured, i2sActive, otaPending,
                 firmwareValidated>>

Finger ==
  /\ pressed' = ~pressed
  /\ perPress' = IF pressed THEN 0 ELSE perPress
  /\ UNCHANGED <<device, pc, wifi, socket, buttonArmed, btnDown,
                 recordingTimedOut, recording, i2sActive, micTest, otaPending,
                 validation, onlineFor>>

Radio ==
  /\ wifi' = ~wifi
  /\ UNCHANGED <<device, pc, pressed, socket, button, recording, i2sActive,
                 micTest, otaPending, validation, onlineFor>>

PowerLoss == Booted

Next == LoopStep \/ Tick \/ Finger \/ Radio \/ PowerLoss

\* The loop is the firmware's only task and time passes.
Spec == Init /\ [][Next]_vars /\ WF_vars(LoopStep) /\ WF_vars(Tick)

-----------------------------------------------------------------------------
FlagsOK ==
  /\ wifi \in BOOLEAN /\ pressed \in BOOLEAN /\ buttonArmed \in BOOLEAN
  /\ btnHeld \in BOOLEAN /\ captured \in BOOLEAN
  /\ recordingTimedOut \in BOOLEAN /\ i2sActive \in BOOLEAN
  /\ otaPending \in BOOLEAN /\ firmwareValidated \in BOOLEAN

CountsOK ==
  /\ upload \in UploadStates /\ pos \in 0..Chunks /\ flash \in {0, 1}
  /\ pc \in Sections /\ socket \in SocketStates
  /\ btnDown \in {"unset", "young", "old"} /\ micTest \in {"off", "on", "over"}
  /\ recordingAge \in 0..RecordingLimit /\ stableFor \in 0..(StableTime + 1)
  /\ onlineFor \in 0..StableTime /\ perPress \in Nat

TypeOK == FlagsOK /\ CountsOK

\* The microphone never runs without a recording or a test it was started for,
\* however the two overlap or are cut short by WiFi loss and OTA ...
MicHasUser == i2sActive => btnHeld \/ micTest # "off"

\* ... and a test that is over gives it back before the pass ends, unless the pass
\* ends early because WiFi is lost (main.cpp:556-578): then it runs on, through
\* the whole outage, although HANDOFF.md:34 says that it stops when a test ends.
TestGivesMicBack ==
  pc # "net" /\ pc' = "net" /\ i2sActive' /\ ~btnHeld'
    => micTest' = "on" \/ (pc = "button" /\ ~wifi)

\* HANDOFF.md:34 without that case: the microphone runs only for a recording or
\* a test that runs, but within a pass and while WiFi is lost.
MicOnlyInUse == []MicHasUser /\ [][TestGivesMicBack]_vars

\* The stored file is neither removed nor written while its upload is
\* pending, through resends, WiFi losses and presses of the button.
UploadOwnsFile == upload # "IDLE" => ~btnHeld /\ flash = 1

\* One press makes one recording: after the limit, a WiFi loss or a finished
\* upload the button must be released first (recordingTimedOut).
OneRecordingPerPress == perPress <= 1

\* main.cpp:475: an image is confirmed only after the socket stayed connected
\* for the whole time, resends that disconnect it included.
ConfirmedAfterStable ==
  [][firmwareValidated' /\ ~firmwareValidated => onlineFor >= StableTime]_vars

\* Only OTA takes the microphone from a running recording: the end of a
\* microphone test, WiFi loss and the upload do not.
MicLostOnlyToOta ==
  [][i2sActive /\ ~i2sActive' /\ btnHeld /\ btnHeld' => pc = "ota"]_vars

\* main.cpp:626: a stuck button does not record forever, WiFi losses, failed
\* updates and microphone tests in between included.
RecordingEnds == btnHeld ~> ~btnHeld

\* An update asked for is attempted, whatever the button, the upload and the
\* network do; it is not served in an endless series of passes.
OtaIsServed == otaPending ~> ~otaPending

\* What the loop has begun or was asked for comes to an end.
NothingStarves == RecordingEnds /\ OtaIsServed
=============================================================================
