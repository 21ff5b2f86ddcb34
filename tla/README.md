# Desktoppy: models, checks and proofs

Desktoppy is a desk device (ESP32-C3) that records speech while a button is
held, stores it on flash, uploads it over a WebSocket to a gateway, and shows
the answer of an agent on its display. This directory holds TLA+ modules of the
three programs that make up that path and of the WebSocket client kept under
`components/`, the TLC configurations that check them, and TLAPS proofs about the
orchestrator with its providers, the verdicts of the gateway, the firmware, the
upload from device to gateway, and the registry and the queue of the gateway.

    device (src/main.cpp)  --WebSocket-->  gateway (ws_server.py)
         ^                                     |  HTTP, loopback
         |  display                            v
         +------------------------------  orchestrator (m1_service/)
                                               |  HTTPS
                                               v
                                        STT and agent providers

Paths below are relative to the repository.

## 1. Inventory

| Component | State | Operations | What makes it correct |
|---|---|---|---|
| Store, `m1_service/store.py` | one SQLite row per recording: status, transcript, reply, error code | `create_job`, `set_status`, `get_by_recording`, `list_recoverable`; one connection and one commit each | columns agree with the status; finished rows stay |
| Routes, `m1_service/app.py` | none of their own | POST (new, repeated, refused, failing), GET | 202 means worked on, 409 means never worked on |
| Worker, `m1_service/worker.py` | `queue`, `active`, the `_run` task | `submit`, recovery, `_process`, `start`, `stop` | exact accounting, no job twice, nothing dropped, recovery |
| Providers, `m1_service/providers/` | loop variable and last error | `transcribe`, `chat` | bounded requests, the right error, late by slow requests only |
| Gateway jobs, `ws_server.py:313-390` | one task per recording | submit, poll, display | one verdict per recording, and a true one |
| Gateway handler, `ws_server.py:145-220` | `audio`, `audio_file`, codec of a connection | identify, `mic_start`, audio, `mic_stop`, end | what is submitted is one whole recording, once |
| Gateway registry, `ws_server.py:24-112` | `ESP32s`, `_cmd_queue`, flags | send, queue, flush, animation, restore | messages reach their device, no exception ends the server |
| Gateway commands, `ws_server.py:114-143, 222-242` | the command file | read, dispatch, remove | a bad command does not stop the server |
| Device upload, `src/main.cpp:53-59, 102-154` | `audioUploadState`, open file, stored file | one frame per pass | whole file or again from the start |
| Device loop, `src/main.cpp:448-744` | button, recording, I2S, test, OTA and confirmation flags | eight sections per pass, `wsEvent` | microphone only in use, file not overwritten, limits hold |
| Device boot, `src/main.cpp:323-446` | WiFi credentials | portal, WiFi reset | reaches the loop online |
| Capture, `src/main.cpp:61-100, 593-675` | transient counter, `encodedAudioBuffer`, the file | read, encode, buffer, flush, stop | the file is the speech, without gap or repetition |
| Codecs, `ws_server.py:36-50, 275-310`, `src/main.cpp:254-312` | none | mu-law both ways, line wrapping, the JSON text | inverse up to quantisation, at most four lines, shown as sent |
| WebSocket client, `components/esp_websocket_client/` | the handle: state, status bits, locks, timers, heap | init, set_uri, start, stop, close, destroy, sends from several threads; the task | no use after free, events in order, whole messages, calls return |

Interactions: the device and a handler coroutine share a WebSocket connection
(ordered, may break at any time, each end learns of it in its own time); a
handler starts a task per `mic_stop`; the task talks HTTP to the orchestrator
and gives up on its own timeouts; routes and worker share `Worker.active`, the
queue and the table on one asyncio loop; providers are awaited by the worker.

What is hard: the process can be killed between two commits; the worker and
the routes interleave at every await; a POST may be served after its client has
gone; a connection may be replaced while the old handler still reads; WiFi, the
button, OTA commands and the microphone test change under a loop that returns
from its middle; the client task and the threads that call its API meet at two locks
and a set of status bits. `PROJECT.json` lists these hazards at their lines with the
properties aimed at them.

Not part of the running firmware: the Arduino build compiles neither `components/`
(Espressif's WebSocket client, kept twice, the copies identical) nor the files
`build_src_filter` of `platformio.ini` excludes (`button`, `mic_i2s`, `lwip_ws`,
`oled_display`, `websocket`, `wifi_manager`). The component is modelled all the
same, because it is the largest piece of concurrent code of the repository;
`websocket.cpp` and the programs of its `examples/` and `tests/` are its callers.

## 2. Modules

| Module | Models | Uses |
|---|---|---|
| `JobStore` | the table and its statements, as operators on `db` | |
| `M1Service` | routes, queue, worker, crash, stop and restart | `JobStore`, refines `JobLedger` |
| `JobLedger` | what the orchestrator promises: a durable ledger, a bounded service | |
| `Providers` | the retry loops of one job, with a clock | |
| `Canary` | the gateway's task per recording over HTTP | `M1Service` |
| `AudioUpload` | one call of `processAudioUpload` | |
| `Uplink` | device upload, connections and gateway handlers | `AudioUpload` |
| `Firmware` | the main loop, section by section | `AudioUpload` |
| `Gateway` | registry, command queue, commands, animation: all tasks of the event loop | |
| `Capture` | a recording from I2S to the PCM file | |
| `Codecs` | a reply from the agent to the display, with `Capture` | `Capture` |
| `WsMemory` | what the WebSocket client allocates and frees | |
| `WsFrames` | how it cuts a message, and what a reader makes of the frames | |
| `WsClient` | the client task, its callers, the connection and the server | `WsMemory`, `WsFrames` |
| `M1ServiceProofs` | theorems about `M1Service`: its invariants, the refinement of `JobLedger`, and what falls out of the service | `M1Service` |
| `FirmwareProofs` | theorems about `Firmware` | `Firmware` |
| `ProvidersProofs` | theorems about `Providers` | `Providers` |
| `CanaryProofs` | theorems about `Canary`, over the invariant of `M1Service` | `Canary`, `M1ServiceProofs` |
| `UplinkProofs` | theorems about `Uplink` | `Uplink` |
| `GatewayProofs` | theorems about the registry and the queue of `Gateway` | `Gateway` |
| `WsClientProofs` | theorems about `WsClient`, its frames and its allocations | `WsClient` |
| `CodecsProofs` | theorems about `Codecs` and `Capture`, for texts and recordings of any length | `Codecs` |
| `MC...` | symmetry and default settings for TLC | |

Each module keeps mutated forms of some of its operators (`Mut...`), written
just before the operator they replace. They are not part of any specification:
each one is a plausible bug that breaks a named property, which shows that the
property has force. What makes the invariants inductive, beside the types and the
properties themselves, is defined where it is proved, at the start of each
`...Proofs` module.

### M1Service

A job is named by its recording, because `recording_id` is UNIQUE and the random
`job_id` adds nothing. `db` is durable; `queue`, `active`, `worker`, `current`
and `creating` are memory and are lost when the process ends. Everything runs on
one asyncio loop and the SQLite calls are synchronous, so an action is the code
between two awaits, cut again where two commits follow each other:
`create_job` with a full queue is `CreateWhenFull` (INSERT) and then
`RefuseFull` (UPDATE, 409); the end of `_process` is `Display` and then
`Finish`. Between two such halves nothing else on the loop runs (`LoopFree`),
but the process can be killed (`Crash`). `worker` says where the `_run` task
stands. `taken`, `answers`, `sttCalls`, `agentCalls`, `stops` and `storeErrors`
are histories the properties read; no guard other than the two bounds does.

A statement may raise: in recovery (`RecoverRaises` ends the task for good), in
the 409 branch (`RefuseRaises`), in `_process` (`StoreRaises`, the except clause
still records the failure), or in the except clause itself (`FailureIsLost`, the
row keeps its status and the job leaves the queue). A statement that raises
before anything has changed (the INSERT, a SELECT of a route) changes no state
and is left out. An answer may not reach its client; `answers` counts it from
the moment the handler decided it.

`JobLedger` is what a client may rely on. The mapping takes a row with an
unfinished status to `open` (`LedgerState`), and the jobs in the queue or being processed to
`serving`. Recovery is `Resume`: it takes up all open entries, or as many as
fit. `Refuse` needs a full service.

### Providers

One job: `transcribe`, then `chat`. `log` holds how each request ended,
`elapsed` the seconds spent, pauses of the code included. httpx applies its timeout to
connecting, to a write and to every single read, so a request is a number of waits, each
over at once or at its timeout (`Durations`, at most `MaxWaits` of the long ones), and may
take longer than its timeout; `overrun` adds up by how much. The time a job waits behind
another one is left out (with the default queue of one there is none).

### Canary

`CNext` is the orchestrator's own steps, with POST only on behalf of a gateway
task, and the tasks. `request` holds POSTs on their way: one may be served after
the task gave up (`SubmitFails`), or be lost with the process (`RequestLost`).
A GET that finds an unfinished row only sleeps and is left out. `DisplayRaises`
stands for the KeyError of `_safe_send` (`ws_server.py:62`): the connection is
gone from `ESP32s` by the time the failing send is handled, and the task dies.

### AudioUpload, Uplink, Firmware

`AudioUpload` is shared. Its parameter `ok` is what `sendTXT` or `sendBIN`
returned, which says that the frame was buffered and not that anybody read it.

`Uplink` adds connections: `wire` is what was sent and not read, `cut` the
connections that are broken. The device learns of it later (`NoticeCut`), the
handler by ConnectionClosed (`HandlerEnds`), so an old handler can still be
reading while a new one is up. Frames sent into a cut connection vanish. The
handler's file is empty after `mic_start` because its name contains the
connection, the time and a counter. The handler reads one frame per step. The
recording that `mic_stop` carries in the model is a history: the message has none,
and no guard reads it.

`Firmware` runs the sections of `loop()` in order (`pc`); WiFi, the button, the
clock (`Tick`) and the power change between any two sections. Ages stop counting
where no comparison tells them apart. `StopRecording` chooses whether the flash
took any of what was captured. Drawing, health log and the reset of the station
after 30 s are left out; the latter is one more way for `Radio` to change.

### Gateway

One event loop, so a task runs from one await to the next: `proc` says for main,
each handler, each `_display` of a canary task and each animation where it is
suspended. Every `ws.send` may suspend its task, or fail at once because the
connection is closed by then; a broadcast iterates over a copy of the dict
(`out`), in the order of the dict, which is that of the numbers (`InOrder`).
`_cmd_queue` is a name, not a list: a flush iterates the list object the
name was bound to when it began and finally binds the name to its own
`remaining` (`ws_server.py:152-162`). `lists` holds the objects and `queue` says
which of them the name is bound to, so what is appended to a list nobody refers
to any more is lost as it is in Python.

A command file that is JSON but no object raises before `target` is assigned
(`ws_server.py:129-140`): `ReadCommand` ends the server on it. Connections are
numbered from 1, sleeps have no length, and the frames of an animation are not
kept in the queue. Messages queued for a connection that has ended stay in the
queue for ever, because its number is never given again; with bounded messages
that is a finite leak.

### Capture, Codecs

`Capture` follows the samples by number: sample `i` has the value `Raw(i)`, so a
gap, a repetition or a swap shows in the value. `Read` is one `i2s_read` of any
size, `Flush` stores a prefix. That every 16-bit value survives encoding and
decoding is the assumption `MuLawIsClose` of `MCCodecs`, which TLC evaluates for
all 65 536 of them. `Codecs` adds the text: characters are letters, line ends,
quotes, backslashes and the ellipsis, and the same text runs through
`_fit_oled`, `json.dumps`, `jsonStringValue` and the lines `wsEvent` draws.
Trimming of white space, and tabs, carriage returns and other control characters, are
left out: a reply that holds them is not in the model. A backslash of a reply does not survive
`jsonStringValue`, which unescapes quotes and line ends only, so the second part
of `ReplyIsShown` leaves replies with one aside. `Split`, the two loops of
`_fit_oled` (`WrapLine` of rounds `WrapRound`, `WrapAll` of rounds `WrapNext`) and
`ReplacePairs` are recursive functions, which can be proved about.

### WsMemory, WsFrames, WsClient

`c` holds the fields of `struct esp_websocket_client` that decisions hang on, `task`
where the client task stands, `app` the calling thread in its script, `send` the
send call each thread is in, `net` the connection and the server's side, and
`heap` the names of the live allocations. What the task does between taking and
giving `client->lock` is one action; what it does without the lock is cut at each
read of a field another thread writes. The event bits (`STOPPED`, `CLOSE_FRAME_SENT`,
`REQUESTED_STOP`, wakeup) are set and waited for as in the code.

The callers are programs, as in the repository: `example` (start, a short and a long
message, close, destroy), `linux` (a header, a message in fragments), `device`
(`websocket.cpp`: two threads send, nothing stops) and `testee` (stop while it may
be connecting, a new delay, a second session). A configuration
says which of them runs, whether sending has its own lock, and how reconnection
and pings are set. `heap` is the only state of `WsMemory`: init is a sequence of
allocations of which each may fail, and destroy frees by field.

Facts about the component that came up and that the properties state as they are:

- With a lock of its own, a send that fails gives that lock up before it aborts
  the connection. Another thread can send in between, and the rest of a
  message may go out on the next connection. `MessagesAreWhole` allows this
  (`cut`, `orphan`) and nothing more.
- A send that fails aborts whatever connection there is. When the task already
  prepares the next attempt, that is none, and DISCONNECTED is dispatched once more for
  a connection whose end was reported (`SenderAborts`; the model calls this one
  `REPEATED`, so that `EventsInOrder` can tell it from the first).
- Control frames of the task change its own state and the server's, but not
  whose message is open on the connection; `MessagesAreWhole` is about data frames.
- `close` with an unlimited timeout does not return if the connection it closes is
  lost and the task connects again, if the peer falls silent, or if the
  configuration reconnects after a close (`Hangs`).
- `stop` before the first line of the task would be overwritten by it
  (`run = true`); no caller of the repository does that.
- set_uri leaks the copy of `user:password` when storing one of its parts fails
  (`esp_websocket_client.c:1005, 1009`), and set_config leaks the host of the URI if
  a host is configured as well (`:387`). `HandleIsSafe` allows the first; no caller
  does the second.

## 3. Runs

| Run | Instance | Result |
|---|---|---|
| `M1_safety` | 4 recordings, queue of 2, 1 stop, 2 failing statements, symmetry; 880 000 states | holds |
| `M1_live` | 3 recordings, queue of 1, 2 stops | holds |
| `M1_lost` | 2 recordings, queue of 1, 1 crash | violated |
| `Providers` | default retries, timeouts and window, requests of up to 3 long waits; 51 000 states | holds |
| `Canary` | 2 recordings, queue of 1, 1 stop, 1 failing statement; 169 000 states | holds |
| `Canary_early` | 1 recording, no fault | violated |
| `Uplink` | 2 recordings of 2 frames, 3 connections, 2 faults; 167 000 states | holds |
| `Firmware` | 1 frame, limit of 2 ticks, confirmation after 1; 226 000 states | holds |
| `WsClient` | 9 configurations, 1 fault, 1 frame of the server's own, 1 message of the second sender; 409 000 states | holds |
| `Gateway` | 2 connections, 2 messages, 1 animation of 1 letter; 640 000 states | holds |
| `Gateway_crash` | the same instance | violated |
| `Codecs` | buffer of 3, reads of up to 2, 3 dropped, 10 samples; 2 lines of 2, replies of 6; 21 000 states | holds |

What they show.

- `M1_safety`: the counter is exact and bounded (`InFlightIsExact`), no recording
  is in flight twice or when finished (`InFlightIsSound`), rows are coherent, 409 is a promise (`RefusedNeverRuns`), providers are called once per
  process life, only a failing statement can make the worker drop a job
  (`DroppedOnlyByStore`), and unfinished rows stay bounded by what stops and
  failing statements can cost (`BacklogIsBounded`). Finished rows are final, and
  the orchestrator implements `JobLedger`.
- `M1_live`: what a process has taken on is settled unless the process ends
  first; and if no restart ever meets more unfinished rows than fit, every job
  answered 202 is settled.
- `Providers` (`RequestsAreSound`): at most `max_retries + 1` requests, none after a
  final answer; the error stored is that of the last request. With the defaults the
  attempts, the pauses and one timeout for each request fit into the 180 s of the gateway.
  A request is not held to its timeout, so a job may still be late, but by no more than
  its requests ran over (`LateOnlyByOverrun`).
- `Canary`: a task shows "processing" at most once and first, then exactly one
  verdict; "busy" and replies stay true through restarts (`VerdictIsTrue`); nothing is called again
  for a result that was shown; every task ends.
- `Uplink`: whatever breaks, a submitted file is one whole recording and is
  submitted once (`SubmittedWholeOnce`); a pending upload is the newest recording; uploads end; without
  faults everything arrives. With faults a recording may be lost: a break the
  device only notices in `DATA` is followed by the rest of the file on the next
  connection, which the gateway ignores for want of `mic_start`, and the file is
  removed. That is why `DeliveredWithoutFault` has its premise.
- `Firmware`: the microphone runs only for a recording or a test, and a test that is over
  gives it back in the same pass, but for lost WiFi (`MicOnlyInUse`); the file under
  upload is not touched; one press, one recording; an image is confirmed only
  after the socket stayed connected for the whole time (README.md:10 has WiFi as well:
  the code asks for it in the pass that confirms, `main.cpp:477`, and a loss between two
  passes leaves no trace but a closed socket); only OTA takes the microphone from a recording;
  recordings end and OTA is served (`NothingStarves`).
- `WsClient`: when destroy or a failed init has freed the handle nothing runs on it
  and nothing stays allocated (`HandleIsSafe`); events come in the order the header
  describes but for one repeated DISCONNECTED, which never comes before the first attempt
  nor while connected (`EventsInOrder`); messages are whole; a wakeup is not lost between the task that clears
  the bit and the caller that sets it; a missing PONG is one that was asked for on
  this connection; calls return; a dead connection is noticed.
- `Gateway`: whoever deletes from the dict, what is in it has a running handler and
  what is open is in it (`RegistryIsExact`). What is queued waits until a connection it is
  for gets it (`LostOnlyByOverlap`) and is not repeated (`QueuedReachesOne`); both
  have one exception, two handlers that flush at once, and it is real: drop
  `hist.overlap` from either and TLC shows the loss or the repetition. A command is
  executed once and removed after it was read, and one that was written while main was
  idle is read while somebody is connected (`CommandsAreServed`). One that is written
  while another is executed may be removed unread, which is real too: `os.remove` takes
  whatever is there after the awaits (`ws_server.py:131-143`). `given.late` marks such a
  command, and TLC shows the loss when it is dropped from `CommandsRunOnce`.
- `Codecs`: what the file decodes to is the speech, and what the device draws is the
  reply as `_fit_oled` should cut it, compared with a definition that cuts every line
  into pieces first.

The bounds. In `M1_safety` two failing statements let a second fault meet what the first
left behind, and a stop comes before, between or after them. Four recordings exceed the
queue by two, so the queue is full, overflows and has a backlog, and `BacklogIsBounded`
has force: without a fault it allows two unfinished rows, three after one stop or one
failing statement, out of four. Only when both meet does it allow all four; that a stop
and failing statements together cost no more than their sum is left to `BacklogBounded`.
`M1_live` has two stops. Two recordings are enough for
`Canary`, whose tasks meet only in the queue of one. Two frames per recording
distinguish the first frame from the rest; two recordings show mixing; three
connections exceed two faults by one, so a device can always reconnect. In
`Firmware` a limit of two ticks tells "young", "old" and "over" apart.
In `Gateway` two connections and main are what it takes for two flushes to overlap
and for a broadcast to meet a registry that changes under it; the second message
tells loss from delay. In `WsClient` a fault is a broken or silent connection, a
failed connect or a failed allocation, each at any point of nine configurations,
and the server's own frame may be data, a ping or a close. The sizes of `Codecs`
keep the relations of the code's (reads shorter than the buffer, a transient that
ends inside a read, a buffer filled more than once, replies longer than the display).
Deadlock is not checked in the runs that end by their bounds (`Canary`,
`Providers`, `Uplink`, `Gateway`, `Codecs`). `WsClient` may stop when its caller is
through, which is the step `Terminated`; the others cannot stop: a repeated POST
or the loop is always possible.

### Where code and documents differ

- `M1_lost`: ARCHITECTURE.md:98 says the scan at startup keeps jobs from being
  lost. Recovery stops at `queue_maxsize` (`worker.py:73-77`) and nothing looks
  at the rest until the next restart. One crash between the INSERT of a second
  recording and the UPDATE that refuses it (`app.py:94-99`) leaves one row too
  many; a repeated POST for it is answered 202 and it is never worked on.
- `Canary_early`: ws_server.py:20-21 says the window keeps the gateway from saying
  "unavailable" while the backend works. One GET over five seconds ends the
  polling (`ws_server.py:388-390`).
- `Gateway_crash`: FIXME.md:16-18 lists the crash on a disconnect as fixed. When the
  peer closes while main is inside `ws.send`, its handler may run first and take it
  out of `ESP32s`; the `del` of `_safe_send` (`ws_server.py:63, 70`) then raises
  KeyError, and main catches EOFError and OSError only (`:403`).

Seven smaller ones have no run of their own. esp_websocket_client.h:46 has DISCONNECTED
for a connection that ended; a sender whose write fails while the task prepares the next
attempt dispatches a second one for the same connection
(`esp_websocket_client.c:261-283, 742-768`). `EventsInOrder` names it `REPEATED`, and TLC
shows it when it is dropped. M1_BACKEND_IMPLEMENTATION.md:201 demands a
total timeout for HTTP requests; `timeout=30` of httpx is one for each wait
(`stt.py:54`, `agent.py:55`), so a request that connects slowly and trickles in outlasts
it, and a few of them outlast the window of ws_server.py:20-22: drop `overrun` from
`LateOnlyByOverrun` and TLC shows two requests that take 183 s. HANDOFF.md:34 has the
microphone stop when a test ends, and HANDOFF.md:36 when the network is lost. Without
WiFi a pass returns (`main.cpp:556-578`) before it looks at the end of a test (`:703`), so
the microphone of a test, running or over, stays on until WiFi is back; the second
conjunct of `MicOnlyInUse` names this case, and TLC shows it when it is dropped. models.py:8 says that the status only
moves one way; a recovered job goes from `working` back to `transcribing`
(`worker.py:102`). worker.py:71 says first in, first processed; the SELECT has no
ORDER BY (`store.py:153-155`). main.cpp:94-95 says WAN latency can never block the
button; a press needs an idle upload (`main.cpp:581`), and an upload waits for the
WebSocket. websocket.cpp:69 says the component reconnects by itself; when the
server closes the connection and `enable_close_reconnect` is not set, its task ends
(`esp_websocket_client.c:1436-1441`).

## 4. Fairness

- `M1Service!Fairness`: the asyncio loop runs a step that is ready (`WorkerStep`,
  `RefuseFull`, `Recover`); providers end after bounded attempts (`Providers`);
  `Start` has `Restart=on-failure` of `ops/despod-m1.service` behind it, and after
  an orderly stop the operator. No client and no fault is fair.
- `Canary!CSpec`: a gateway task goes on: the client's timeouts (2 s, 5 s) and the
  deadline bound each of its waits. The orchestrator is not assumed to run at all.
- `Uplink!Spec`: the main loop runs, reconnects and notices a break; handlers read
  what arrives and end when their connection is gone (the gateway pings).
- `Firmware!Spec`: the loop is the only task of the firmware and time passes. WiFi,
  the button and commands are not fair. A pass with OTA is assumed to return from
  its downloads.
- `Gateway!Spec`: the event loop runs main when it is ready, and its sends end. No
  handler, client or connection is fair.
- `WsClient!Fairness`: FreeRTOS runs a ready task, so the client task, the caller
  and each sender go on; an answer owed on a connection that works comes; an
  interval passes. Failures (a connect, a lock that times out, a break) are not fair.

## 5. Proofs

`M1ServiceProofs` proves, for every set of recordings, every `QueueMaxsize` in
`Nat \ {0}` and any number of stops and failing statements, that `IInv` is an
invariant of `Spec`. The assumptions are those of `M1Service`: the queue size, the
bounds being naturals, and `NoJob` not being a recording.

`IInv` is the type invariant, the five invariants of the run that are proved, and
two parts that make them inductive:

- `StageInv`: the position of the worker and the job it holds go together; a
  process that has not recovered has an empty memory; the job between INSERT and
  409 is a fresh row in no queue; between the last two commits the row has both
  texts.
- `CallsInv`: what is in flight was taken by this process; the calls of a
  recording are at most the stops so far, plus one if this process took it and
  has begun it; a recording without a row had none.

Why they are needed: `RefusedNeverRuns` speaks of calls made before the refusal,
so the refused row must be known to be fresh; `ProvidersOncePerLife` needs the
distinction between queued and begun; `RowIsCoherent` at `Finish` needs the texts
of `displaying`. The proof has one lemma per action, and under it one step per
conjunct the action can disturb. The queue is a sequence; four lemmas say what
Append, Tail and recovery do to the set of its elements.

| Theorem | States |
|---|---|
| `InductiveInvariant` | `Spec => []IInv` |
| `TypeCorrect` | `[]TypeOK` |
| `AccountingIsExact` | `[]InFlightIsExact` |
| `NothingTwiceOrFinished` | `[]InFlightIsSound` |
| `RowsCoherent` | `[]RowIsCoherent` |
| `RefusalIsHonest` | `[]RefusedNeverRuns` |
| `CallsAreBounded` | `[]ProvidersOncePerLife` |
| `FinalForEver` | `TerminalIsFinal`, from `IInv` |

The second part of `M1ServiceProofs` adds what needs counting, from the same assumptions:
the set of recordings need not be finite, the queue always is.

- `InFlightCardinality`: `active` is the number of jobs in flight. It turns "full"
  as the code sees it (`active >= queue_maxsize`) into "full" as the ledger sees it.
- `FullWhileRefusing`: between the INSERT of a refused recording and its 409 the
  service stays full. Without it `Refuse` would not be a step of the ledger.
- `PostSteps`, `RefusalSteps`, `RecoverySteps`, `WorkerSteps`, `StoreErrorSteps` and
  `ProcessSteps` map each step of the orchestrator to a step of the ledger or to none.
- `LeftBehind`, with `IInv`, is inductive: dropped jobs are at most the failed
  statements; stranded rows are at most one for each failed statement, a queue's worth
  instead where an end of the process can have led to one that failed (`LeftByStore`),
  one for each end of the process, and a queue's worth until recovery has run.
  `OneRowChanges` says why a step adds one recording to either set at most.

| Theorem | States |
|---|---|
| `ImplementsTheLedger` | `Spec => ImplementsLedger`, from `IInv` and `FullWhileRefusing` |
| `OnlyStoreErrorsDrop` | `[]DroppedOnlyByStore`, from `IInv` and `LeftBehind` |
| `BacklogBounded` | `[]BacklogIsBounded`, from `IInv` and `LeftBehind` |

`FirmwareProofs` proves the invariants of the main loop for every length of a
recording (`Chunks`), every limit and every stability time; the assumptions are
`ChunksAssumption` and `LimitsAssumption`, that these are natural numbers and the last
two not zero. `IInv` is the type invariant, the state invariants of the run
(`MicHasUser` for the microphone), and three parts that make them inductive:

- `RecordingHasFile`: a running recording has its file;
- `PressIsUsedUp`: a press that made its recording is still held, and is either being
  recorded or marked by `recordingTimedOut`;
- `StableIsOnline`: the clock of the confirmation is never ahead of the time the
  socket has been open.

They are needed because the microphone's state, the file and the press are changed
in different sections of the loop, with WiFi, button and clock moving in between:
that a recording which stops leaves a file to upload follows from what an earlier
pass did, not from a guard where it stops. The step lemmas follow the sections.

| Theorem | States |
|---|---|
| `InductiveInvariant` | `Spec => []IInv` |
| `TypeCorrect` | `[]TypeOK` |
| `MicrophoneIsOff` | `MicOnlyInUse`, from `IInv` |
| `FileIsKept` | `[]UploadOwnsFile` |
| `PressIsOne` | `OneRecordingPerPress` |
| `ConfirmationIsEarned` | `ConfirmedAfterStable` |
| `MicrophoneStaysOn` | `MicLostOnlyToOta` |

`ProvidersProofs` holds for all numbers of retries and all timeouts. `IInv` is the
type invariant, `RequestsAreSound`, and two parts: `LoopInv`, that all earlier
requests of a running loop were ones to try again, and `TimeInv`, how long n attempts
with their pauses can have taken (`Spent`, doubled to stay with integers: the pauses
are 1, 2, 3, ... seconds) but for what requests ran over (`OverrunIsCounted`).
`LateJobsOverran` then needs `WindowCovers`, a condition on the settings. The defaults
meet it with 308 of 360 half-seconds. It does not say that no job is late: no setting
can promise that as long as a request has no total timeout.

| Theorem | States |
|---|---|
| `InductiveInvariant` | `Spec => []IInv` |
| `RequestsAgree` | `[]RequestsAreSound` |
| `LateJobsOverran` | `WindowCovers` gives `[]LateOnlyByOverrun` |

`CanaryProofs` works over `IInv` of `M1Service`, since what a task shows is what a row
said when it was asked. `CInv` adds the types, `VerdictMatchesJob`, and

- `StoriesInv`: what was shown follows from where the task stands, so a task that
  is polling has said "processing" and nothing else, and one that is over has
  said one verdict;
- `BusyWasAnswered`: "busy" came from a 409.

That `busy` is honest then follows from `RefusedNeverRuns`, and that a reply stays true
from `TerminalIsFinal`. Every step of the orchestrator is a step of `M1Service`, so
`IInv` is taken over by `StepPreserves` of `M1ServiceProofs`.

| Theorem | States |
|---|---|
| `CanaryInvariant` | `CSpec => [](IInv /\ CInv)` |
| `VerdictsAreSingle` | `[]OneVerdict` |
| `VerdictsAreTrue` | `[]VerdictIsTrue` |
| `ResultEndsTheCalls` | `NoCallsAfterResult`, from `IInv` and `CInv` |

`UplinkProofs` holds for every number of recordings, frames, connections and breaks.
The assumptions are `ChunksAssumption` and `BoundsAssumption`. `UInv` is the type
invariant, the properties, and

- `WireInv`, `DeviceInv`: what is on a connection continues what its handler has read
  (`Expects`), and the frame the device sends next (`Upcoming`) continues what is on
  the newest one. A connection the device has not noticed to be cut is exempt: what
  it sends there vanishes;
- `HandlerInv`: an open file holds the first frames of one recording, in order;
- `StopInv`: one `mic_stop` is under way for a recording at most, never while the
  recording is still being uploaded or was submitted.

A recording is submitted whole because the frames of one upload follow each other
on one connection, and once because the upload is over for the device when its
`mic_stop` has left: a break before sends everything again on the next connection,
where an unfinished file of the old one is never submitted.

| Theorem | States |
|---|---|
| `UplinkInvariant` | `Spec => []UInv` |
| `SubmissionsAreWholeAndSingle` | `[]SubmittedWholeOnce` |
| `UploadIsOfTheNewest` | `[]PendingIsOnFlash` |

`GatewayProofs` holds for every number of connections, messages and animations. To
`RegistryIsExact` and the types, `IInv` adds `HandlersInPlace`: a handler sends
to others from the boot animation only. The registry depends on it, because the
KeyError that ends a handler must also close its connection and take it out of the
dict, whatever the handler was doing. `SendTo`, `GoThrough` and `SendResumes`
have lemmas of their own, since most actions are built from them.

The queue needs more, in two layers over `IInv`:

- `QInv` says where a message is. `IdsInv`: ids are given in order, a command is
  executed once, and one that lies unread while main is busy was written meanwhile;
  `CommandsOnce` follows from it. `QueueOK`: the list a handler builds (`remaining`) is neither
  `_cmd_queue` nor iterated by another, and a flush stands at an item it is sending.
  `FlushInv`: a handler that flushes alone iterates the list `_cmd_queue` is bound to,
  and each item it has passed was handed over or is in its `remaining`, which is
  what `_cmd_queue` is bound to next. All other steps append (`Appends`).
- `ClaimsInv` says that nothing is promised twice. A claim is an item somebody still
  has to be handed, a send that is under way, or an id nobody has used; no two claims
  are for the same message and a common target, and none is met already. A
  broadcast is why a message alone would not do: one id stands for a send or an
  item per connection. `ClaimsMove` is the one argument all steps share: what a step
  does not keep it replaces by claims that narrow it.

Both are conditional on `hist.overlap`, because with two flushes at once the
code does lose and repeat messages (`ws_server.py:152-162`).

| Theorem | States |
|---|---|
| `InductiveInvariant` | `Spec => []IInv` |
| `RegistryExact` | `[]RegistryIsExact` |
| `QueueInvariant` | `Spec => [](IInv /\ QInv)` |
| `QueueIsLostOnlyByOverlap` | `[]LostOnlyByOverlap` |
| `CommandsOnce` | `CommandsRunOnce`, the first part of `CommandsAreServed` |
| `ClaimsInvariant` | `Spec => [](IInv /\ QInv /\ ClaimsInv)` |
| `QueueRepeatsNothing` | `[]QueuedReachesOne` |

`WsClientProofs` holds for every number of faults, of frames the server sends and of
messages of the second sender, and for every configuration: `WsConfs` assumes no
more than that the caller is one of the four programs and the settings are Booleans
(the run has 9 of the 128 configurations; TLC also finds `IInv` in all of them, with
two messages of the second sender). `IInv` is the type invariant, `WakeupNotLost`,
`MessagesAreWhole`, and

- `ViewInv`: what the handler has seen follows from where the task stands and from
  `state`, and where the state says so there is no connection. Three parties end a
  connection (task, sender, server), so what DISCONNECTED comes for is a fact about
  `state`, which `abort_connection` tests, not about any of them. INIT does not tell an
  attempt that failed from one not begun; `QuietInv` does;
- `CallInv`: after init, `STOPPED_BIT` is set exactly while there is no task, and no
  call but a send has a thread inside it. That is why a handle can be freed: destroy
  waits for the bit, and a program calls nothing beside it;
- `HeapInv`: only the last call of a program frees the client, and no host is
  configured twice;
- `LockInv`, `FrameInv`: whoever writes has the lock for sending; what is left of a
  message, and whose message is open on the connection, follow from the place in
  the call. With a lock of its own for sending, the rest of a message may meet a
  connection it was not begun on, which is the orphan `MessagesAreWhole` allows;
- `PongInv`: a client that waits for a PONG has pinged this connection, which rests
  on `wait_for_pong_resp` being cleared when a connection is made.

`QuietInv` is proved with `IInv`, each from both: while the task holds a frame or the
result of a poll the state is not INIT, so the task never aborts there, and between
`start` and the first attempt no send is under way, so the DISCONNECTED of a late sender
always has an attempt or a connection before it.

Each action is first read as changes of fields (`...Does`), then shown to keep
`IInv` (`...Keeps`). The frames come from `SendLoop`, a recursive function over
the bytes left: `LoopUnfolds` unfolds it for the one and two chunks that
the messages here have.

| Theorem | States |
|---|---|
| `Invariance` | `Spec => [](IInv /\ QuietInv)` |
| `HandleSafe` | `[]HandleIsSafe` |
| `EventOrder` | `[]EventsInOrder` |
| `MessagesWhole` | `[]MessagesAreWhole` |
| `NoLostWakeup` | `[]WakeupNotLost` |
| `PongTimeout` | `PongTimeoutIsHonest`, from `IInv` |

`CodecsProofs` holds for every set of recordings of any length, all sizes of buffer,
read and transient, replies of any length and a display of any size. The assumptions
are `CaptureAssumption` (a read fits into the buffer) and `LayoutAssumption`
(a display has a line and a column).

For a recording, `IInv` is the types and `CaptureInv`: unless a write to the flash
was short, what is stored and buffered is the sequence of the codes (`Codes`) of the
samples heard after the transient, and what is left of the transient follows from what was heard.
Without the second part a read that straddles its end could drop too much or too little.
`MuLawIsCloseToAll` is about the pure functions: `HasExponent` finds the segment of a
sample, `Encoded` and `Decoded` say what both sides make of it, and `HalfStep` that
the two differ by no more than half a step. TLC evaluates the same for all 65 536 samples.

A reply goes through functions that recur over its length, and `ReplyIsShown` needs what
each of them does for all texts:

- `Recursion` shows that a recursive function exists and recurs; `UpTo`,
  `AppendInduction` and `ConsInduction` are inductions up to a number and over
  sequences from either end. They are stated for sets, not for predicates: what is to
  be proved defines the set, and its least counterexample, which
  `NatLessThanWellFounded` of the library gives, has a predecessor.
- `SplitJoined`: lines that are joined and split again are the same lines.
- `WrapInv` is the invariant of the inner loop of `_fit_oled`: what was put out
  and the pieces of what is left are all the pieces there are to be, and once
  something is cut off, what was put out is already the cut of them (`Cut`). `NextInv`
  is that of the outer loop; the hard case is a line that ends exactly at the last
  row, which is cut only if another line follows. `FitsIs` concludes.
- `Guarded`: in what `json.dumps` writes of a text without a backslash, every quote
  follows one and the last character is none, so `jsonStringValue` stops at
  the closing quote (`ValueIsRead`). `QuotesBack` and `LineEndsBack` are its two passes.
- `NotBlankFits` and `DrawnIs`: no line that is not blank is lost to the device's own limit.

| Theorem | States |
|---|---|
| `MuLawIsCloseToAll` | the sample decoded is within half a step of the one encoded |
| `InductiveInvariant` | `Spec => []IInv` |
| `RecordingIsFaithful` | `[]RecordingIsTheSpeech` |
| `ReplyIsFaithful` | `[]ReplyIsShown`, from `FitsIs` and `ShownIs` |

Only model-checked: all liveness, which the prover cannot reach (fairness and
ENABLED). Every invariant and action property of a passing run is stated by one of
the theorems above.

## 6. Not modelled

- Of the WebSocket client: `destroy_on_exit`, `set_headers`, `set_ping_interval_sec`,
  dynamic buffers, the buffer of error texts, and calls of the API from the event
  handler, which no program of the repository makes.
- The firmware sources the build excludes, except `websocket.cpp`.
- `/healthz`, validation errors of POST, logging, drawing, the configuration
  portal: no state a property is about.
- `job_timeout` and `poll_interval` (`config.py:28-31`): no code reads them.
- The bootloader's rollback. `Firmware` says when the image is confirmed; whether an
  unconfirmed one is rolled back is decided by the Arduino core (its
  `verifyRollbackLater` is not overridden here) and the bootloader.
- Two of the same `mic_stop` on one connection: the device sends one per upload.

## 7. Plan

Done: the path of a recording (`M1Service`, `Providers`, `Canary`, `Uplink`,
`Firmware`), what shares its connections (`Gateway`), the pure functions (`Codecs`),
and the component of the older firmware (`WsClient`). Left, in this order:

1. `Canary` over `Gateway` instead of `DisplayRaises`.
2. `BootSlots`: image slots, OTA, confirmation and restart, with the bootloader as an
   external part.
