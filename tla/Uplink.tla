------------------------------- MODULE Uplink -------------------------------
(***************************************************************************)
(* A recording on its way from the flash of the device to the gateway:     *)
(* AudioUpload on one side, one handler coroutine of ws_server.py for each *)
(* WebSocket connection on the other.  Frames of a connection arrive in    *)
(* order; a connection that breaks loses what has not been read, and both  *)
(* ends learn of it in their own time, so the handler of an old connection *)
(* may still be reading while the device is on the next one.               *)
(***************************************************************************)
EXTENDS AudioUpload, Sequences, FiniteSets, SequencesExt

CONSTANTS
  MaxRecordings,  \* bound: button recordings made
  MaxConns,       \* bound: connections the device opens
  MaxFaults       \* bound: cuts, failed sends, failed opens and reboots

ASSUME BoundsAssumption ==
  MaxRecordings \in Nat \ {0} /\ MaxConns \in Nat /\ MaxFaults \in Nat

Conns == 1..MaxConns
Chunk(r) == [i \in 1..Chunks |-> Audio(r, i)]

VARIABLES
  conn,       \* the device's connection, 0 before the first
  connected,  \* ws.isConnected(): the device believes conn is up
  cut,        \* connections that carry nothing any more
  wire,       \* frames sent and not yet read, for each connection
  handler,    \* the gateway's handler of each connection
  submitted,  \* history: what was handed to the orchestrator, in order
  recorded,   \* history: recordings made so far
  faults      \* history: faults so far

link == <<conn, connected, cut, wire>>
vars == <<device, link, handler, submitted, recorded, faults>>

Identify == [type |-> "identify"]

\* alive: the coroutine runs; known: identify was read (_device_macs);
\* open: audio is an open file; saved: audio_file was assigned; file: its
\* frames.
NoHandler == [alive |-> FALSE, known |-> FALSE, open |-> FALSE,
              saved |-> FALSE, file |-> <<>>]

Init ==
  /\ UploadInit
  /\ conn = 0 /\ connected = FALSE /\ cut = {}
  /\ wire = [c \in Conns |-> <<>>]
  /\ handler = [c \in Conns |-> NoHandler]
  /\ submitted = <<>> /\ recorded = 0 /\ faults = 0

Fault == faults < MaxFaults /\ faults' = faults + 1

\* Frames sent into a broken connection vanish.
Transmit(frame) ==
  wire' = IF conn \in cut THEN wire
          ELSE [wire EXCEPT ![conn] = Append(@, frame)]

-----------------------------------------------------------------------------
(* The device.                                                              *)

\* A button recording replaces the file; it needs an idle upload (Firmware).
Record ==
  /\ upload = "IDLE"
  /\ recorded < MaxRecordings
  /\ recorded' = recorded + 1
  /\ flash' = recorded + 1
  /\ upload' = "START"
  /\ UNCHANGED <<pos, link, handler, submitted, faults>>

\* One call of processAudioUpload that sends its frame ...
UploadFrame ==
  /\ connected
  /\ SendFrame(TRUE)
  /\ Transmit(Frame)
  /\ UNCHANGED <<conn, connected, cut, handler, submitted, recorded, faults>>

\* ... or fails to, and disconnects.
UploadFails ==
  /\ connected
  /\ Fault
  /\ SendFrame(FALSE)
  /\ connected' = FALSE
  /\ cut' = cut \cup {conn}
  /\ UNCHANGED <<conn, wire, handler, submitted, recorded>>

\* The file does not open.
UploadGivenUp ==
  /\ connected
  /\ Fault
  /\ OpenFails
  /\ UNCHANGED <<link, handler, submitted, recorded>>

UploadEndOfFile ==
  /\ connected
  /\ EndOfFile
  /\ UNCHANGED <<link, handler, submitted, recorded, faults>>

\* Mutant: no reconnection.
MutConnectOnce ==
  /\ ~connected
  /\ conn = 0
  /\ conn' = conn + 1 /\ connected' = TRUE
  /\ wire' = [wire EXCEPT ![conn + 1] = <<Identify>>]
  /\ handler' = [handler EXCEPT ![conn + 1].alive = TRUE]
  /\ UNCHANGED <<device, cut, submitted, recorded, faults>>

\* ws.loop() connects and wsEvent sends identify; the gateway's handler
\* starts.
Connect ==
  /\ ~connected
  /\ conn < MaxConns
  /\ conn' = conn + 1 /\ connected' = TRUE
  /\ wire' = [wire EXCEPT ![conn + 1] = <<Identify>>]
  /\ handler' = [handler EXCEPT ![conn + 1].alive = TRUE]
  /\ UNCHANGED <<device, cut, submitted, recorded, faults>>

\* ws.loop() notices the break.  wsEvent only logs it: upload, pos and the
\* open file stay as they are.
NoticeCut ==
  /\ connected /\ conn \in cut
  /\ connected' = FALSE
  /\ UNCHANGED <<device, conn, cut, wire, handler, submitted, recorded, faults>>

\* A restart (power, OTA): the file survives, the upload state does not.
Reboot ==
  /\ Fault
  /\ upload' = "IDLE" /\ pos' = 0
  /\ connected' = FALSE
  /\ cut' = IF conn = 0 THEN cut ELSE cut \cup {conn}
  /\ UNCHANGED <<flash, conn, wire, handler, submitted, recorded>>

\* The connection breaks; some of what was sent may have arrived.
Cut ==
  /\ conn # 0 /\ conn \notin cut
  /\ Fault
  /\ cut' = cut \cup {conn}
  /\ \E n \in 0..Len(wire[conn]) :
       wire' = [wire EXCEPT ![conn] = SubSeq(@, 1, n)]
  /\ UNCHANGED <<device, conn, connected, handler, submitted, recorded>>

-----------------------------------------------------------------------------
(* The gateway's handler of connection c.                                   *)

\* Mutant: mic_start opens the file of the connection for appending.
MutAppendMode(h, f) ==
  CASE f.type = "identify"  -> [h EXCEPT !.known = TRUE]
    [] f.type = "mic_start" -> [h EXCEPT !.open = TRUE, !.saved = TRUE]
    [] f.type = "audio"     -> [h EXCEPT !.file = Append(@, f)]
    [] OTHER                -> [h EXCEPT !.open = FALSE]

\* The handler after reading frame f.
AfterFrame(h, f) ==
  CASE f.type = "identify"  -> [h EXCEPT !.known = TRUE]
    [] f.type = "mic_start" -> [h EXCEPT !.open = TRUE, !.saved = TRUE,
                                         !.file = <<>>]
    [] f.type = "audio"     -> IF h.open THEN [h EXCEPT !.file = Append(@, f)]
                               ELSE h
    [] OTHER                -> [h EXCEPT !.open = FALSE]

\* mic_stop submits the file named last if it is not empty.
Submits(h, f) == f.type = "mic_stop" /\ h.saved /\ h.file # <<>> /\ h.known

HandleFrame(c) ==
  /\ handler[c].alive /\ wire[c] # <<>>
  /\ wire' = [wire EXCEPT ![c] = Tail(@)]
  /\ handler' = [handler EXCEPT ![c] = AfterFrame(@, Head(wire[c]))]
  /\ submitted' = IF Submits(handler[c], Head(wire[c]))
                  THEN Append(submitted, [on |-> c, file |-> handler[c].file])
                  ELSE submitted
  /\ UNCHANGED <<device, conn, connected, cut, recorded, faults>>

\* ConnectionClosed: the finally clause closes the file; what is left unread
\* is gone.
HandlerEnds(c) ==
  /\ handler[c].alive /\ c \in cut
  /\ handler' = [handler EXCEPT ![c] = NoHandler]
  /\ wire' = [wire EXCEPT ![c] = <<>>]
  /\ UNCHANGED <<device, conn, connected, cut, submitted, recorded, faults>>

DeviceStep == UploadFrame \/ UploadEndOfFile \/ Connect \/ NoticeCut
Next ==
  \/ Record \/ DeviceStep \/ UploadFails \/ UploadGivenUp \/ Reboot \/ Cut
  \/ \E c \in Conns : HandleFrame(c) \/ HandlerEnds(c)

\* The main loop runs and reconnects; the handlers read what arrives.
Spec == Init /\ [][Next]_vars
             /\ WF_vars(DeviceStep)
             /\ \A c \in Conns : WF_vars(HandleFrame(c)) /\ WF_vars(HandlerEnds(c))

-----------------------------------------------------------------------------
Frames == {MicStart, Identify}
            \cup {MicStop(r) : r \in 1..MaxRecordings}
            \cup {Audio(r, i) : r \in 1..MaxRecordings, i \in 1..Chunks}
Handlers == [alive : BOOLEAN, known : BOOLEAN, open : BOOLEAN, saved : BOOLEAN,
             file : Seq(Frames)]

TypeOK ==
  /\ upload \in UploadStates /\ pos \in 0..Chunks /\ flash \in 0..MaxRecordings
  /\ conn \in 0..MaxConns /\ connected \in BOOLEAN /\ cut \subseteq Conns
  /\ wire \in [Conns -> Seq(Frames)]
  /\ handler \in [Conns -> Handlers]
  /\ submitted \in Seq([on : Conns, file : Seq(Frames)])
  /\ recorded \in 0..MaxRecordings /\ faults \in 0..MaxFaults

\* What reaches the orchestrator is one whole recording, its frames in order:
\* no cut, resend or resumption ever yields a truncated or a mixed file.
SubmittedIsWhole ==
  \A i \in 1..Len(submitted) :
    \E r \in 1..recorded : submitted[i].file = Chunk(r)

\* ARCHITECTURE.md:83: one recording, one recording_id.  However often a file
\* is sent again, it is submitted once at most.
SubmittedOnce ==
  \A i, j \in 1..Len(submitted) :
    submitted[i].file = submitted[j].file => i = j

\* The orchestrator is given whole recordings, and each of them once.
SubmittedWholeOnce == SubmittedIsWhole /\ SubmittedOnce

\* The file on flash is the newest recording, and it stays there until its
\* mic_stop was sent: a resend never uploads another recording.
PendingIsOnFlash ==
  upload # "IDLE" => flash = recorded /\ flash # 0

Whole(r) == \E i \in 1..Len(submitted) : submitted[i].file = Chunk(r)

\* An upload that was begun comes to an end, after any number of breaks the
\* device can reconnect from (MaxConns exceeds MaxFaults).
UploadEnds == upload # "IDLE" ~> upload = "IDLE"

\* Without a fault every recording reaches the orchestrator.
DeliveredWithoutFault ==
  [](faults = 0) =>
    \A r \in 1..MaxRecordings : recorded >= r ~> Whole(r)
=============================================================================
