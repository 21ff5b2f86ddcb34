---------------------------- MODULE AudioUpload ----------------------------
(***************************************************************************)
(* processAudioUpload of src/main.cpp: the recording stored on flash goes  *)
(* out in frames, at most one per pass of the main loop.  Each step below  *)
(* is one call of it; the parameter ok says whether the WebSocket client   *)
(* took the frame (sendTXT and sendBIN return what write() did, so TRUE    *)
(* means buffered, not received).                                          *)
(***************************************************************************)
EXTENDS Naturals

CONSTANT Chunks   \* 1 KB frames a recording takes; at least one is written

ASSUME ChunksAssumption == Chunks \in Nat \ {0}

VARIABLES
  upload,   \* audioUploadState
  pos,      \* frames read from uploadFile since it was opened
  flash     \* the recording in RECORDING_PATH, 0 if there is no file

device == <<upload, pos, flash>>

UploadStates == {"IDLE", "START", "DATA", "STOP"}
MicStart == [type |-> "mic_start"]
\* Which recording an audio frame or a mic_stop belongs to is a history tag:
\* the gateway's handler does not read it.
MicStop(r) == [type |-> "mic_stop", recording |-> r]
Audio(r, i) == [type |-> "audio", recording |-> r, chunk |-> i]

UploadInit == upload = "IDLE" /\ pos = 0 /\ flash = 0

\* The frame the next call sends, unless it finds the end of the file.
Frame == CASE upload = "START" -> MicStart
           [] upload = "STOP"  -> MicStop(flash)
           [] OTHER            -> Audio(flash, pos + 1)

\* restartAudioUpload: the whole file again, on another connection.
RestartUpload == upload' = "START" /\ UNCHANGED <<pos, flash>>

\* Mutant: the file is not opened again.
MutStartKeepsPos(ok) ==
  /\ upload = "START"
  /\ IF ok THEN upload' = "DATA" /\ UNCHANGED <<pos, flash>>
     ELSE RestartUpload

SendStart(ok) ==
  /\ upload = "START"
  /\ IF ok THEN upload' = "DATA" /\ pos' = 0 /\ UNCHANGED flash
     ELSE RestartUpload

\* SPIFFS does not open the file: the recording is given up where it lies.
OpenFails ==
  /\ upload = "START"
  /\ upload' = "IDLE"
  /\ UNCHANGED <<pos, flash>>

SendChunk(ok) ==
  /\ upload = "DATA" /\ pos < Chunks
  /\ IF ok THEN pos' = pos + 1 /\ UNCHANGED <<upload, flash>>
     ELSE RestartUpload

EndOfFile ==
  /\ upload = "DATA" /\ pos = Chunks
  /\ upload' = "STOP"
  /\ UNCHANGED <<pos, flash>>

\* Mutants: mic_stop goes out again; the file is removed before mic_stop.
MutStopStays(ok) ==
  /\ upload = "STOP"
  /\ IF ok THEN flash' = 0 /\ UNCHANGED <<upload, pos>> ELSE RestartUpload
MutRemoveFirst(ok) ==
  /\ upload = "STOP"
  /\ upload' = IF ok THEN "IDLE" ELSE "START"
  /\ flash' = 0 /\ UNCHANGED pos

\* Once mic_stop is buffered the file is removed.
SendStop(ok) ==
  /\ upload = "STOP"
  /\ IF ok THEN upload' = "IDLE" /\ flash' = 0 /\ UNCHANGED pos
     ELSE RestartUpload

SendFrame(ok) == SendStart(ok) \/ SendChunk(ok) \/ SendStop(ok)
=============================================================================
