------------------------------ MODULE WsClient ------------------------------
(***************************************************************************)
(* components/esp_websocket_client: the client task, the threads that call *)
(* the API, the connection and the server.  The task's sections between    *)
(* taking and giving client->lock are actions; what it does without the    *)
(* lock is cut at every read of shared state.  Callers follow the programs *)
(* of this repository (Script).                                            *)
(***************************************************************************)
EXTENDS WsMemory, WsFrames, FiniteSets

CONSTANTS
  Confs,      \* the configurations to start from
  MaxFaults,  \* bound: broken connections, failed connects and allocations
  MaxServer,  \* bound: frames the server sends on its own
  MaxMic      \* bound: messages of the second sender

ASSUME WsBounds == {MaxFaults, MaxServer, MaxMic} \subseteq Nat

\* A configuration is what a caller sets (auto, closeRec, pings), the build
\* option (sep), whether close() is called without a timeout (patient), and
\* the caller.
ASSUME WsConfs ==
  Confs \subseteq [script : {"example", "linux", "device", "testee"},
                  sep : BOOLEAN, auto : BOOLEAN, closeRec : BOOLEAN,
                  patient : BOOLEAN, pings : BOOLEAN]

VARIABLES
  conf,    \* configuration, build option and script of this behaviour
  heap,    \* names of the live allocations
  c,       \* the fields of struct esp_websocket_client
  net,     \* the connection and the server's side of it
  task,    \* where the client task stands
  app,     \* the calling thread: index in its script, stage of a call
  send,    \* per thread, the send call it is in
  obs,     \* what the event handler and the server have seen
  budget   \* what is left of the bounds

vars == <<conf, heap, c, net, task, app, send, obs, budget>>

Threads == {"app", "mic"}
Buffer  == 2

\* What a handler may assume after each event of esp_websocket_event_id_t;
\* ERROR changes nothing.  "broken" is an event out of place.  REPEATED is the
\* DISCONNECTED of a sender that is late (SenderAborts).
NextView(view, e) ==
  CASE e = "BEGIN" /\ view \in {"none", "finished"}                -> "begun"
    [] e = "BEFORE_CONNECT" /\ view \in {"begun", "trying", "down"} -> "trying"
    [] e = "CONNECTED" /\ view = "trying"                          -> "up"
    [] e = "DATA" /\ view = "up"                                   -> "up"
    [] e = "DISCONNECTED" /\ view \in {"trying", "up"}             -> "down"
    [] e = "REPEATED" /\ view \in {"trying", "down"}               -> "down"
    [] e = "CLOSED" /\ view = "up"                                 -> "down"
    [] e = "FINISH" /\ view \in {"begun", "trying", "up", "down"}  -> "finished"
    [] OTHER                                                       -> "broken"

\* esp_websocket_client_dispatch_event, and ws_event_handler of
\* src/websocket.cpp, which keeps _connected.
Event(o, e) ==
  [o EXCEPT !.view = NextView(@, e),
            !.connected = CASE e = "CONNECTED" -> TRUE
                            [] e \in {"DISCONNECTED", "REPEATED"} -> FALSE
                            [] OTHER -> @]

-----------------------------------------------------------------------------
(* The callers.  "hello" waits for is_connected first. *)

\* examples/target; its fragmented messages are those of Linux.
Example == <<"init", "start", "hello", "long", "close", "destroy">>

\* examples/linux: of two fragmented messages, one.
Linux == <<"init", "header", "start", "hello", "partial", "cont", "fin",
           "destroy">>

\* src/websocket.cpp: never ends the client; the firmware sends from two
\* threads, each call behind _connected.
Device == <<"init", "start", "text">>

\* tests/autobahn-testsuite: stop after a delay, as its get_case_count; the
\* new delay for reconnecting and the second session are API uses.
Testee == <<"init", "start", "delay", "timeout", "stop", "start", "hello",
            "stop", "destroy">>

Script(name) == CASE name = "example" -> Example
                  [] name = "linux"   -> Linux
                  [] name = "device"  -> Device
                  [] OTHER            -> Testee

\* The fields each caller fills in.
Fields(name) ==
  CASE name = "device" -> {"host", "path", "scheme"}
    [] name = "testee" -> {"uri", "uri_path", "uri_user", "subprotocol"}
    [] OTHER           -> {"uri", "uri_path"}

\* Frames of the send calls the scripts make, and of close().
FramesOf(op) ==
  CASE op \in {"hello", "text"} -> SendLoop("TEXT", TRUE, 1, Buffer)
    [] op = "partial"           -> SendLoop("TEXT", FALSE, 1, Buffer)
    [] op = "cont"              -> SendLoop("CONT", FALSE, 1, Buffer)
    [] op = "fin"               -> SendLoop("CONT", TRUE, 0, Buffer)
    [] op = "long"              -> SendLoop("TEXT", TRUE, Buffer + 1, Buffer)
    [] op = "close"             -> SendLoop("CLOSE", TRUE, 0, Buffer)

Sends == {"hello", "text", "partial", "cont", "fin", "long", "close"}

Done == app.ip > Len(Script(conf.script))
Op   == IF Done THEN "none" ELSE Script(conf.script)[app.ip]
Call(op) == Op = op /\ app.pc = "run" /\ send["app"].pc = "idle"
Returned == app' = [ip |-> app.ip + 1, pc |-> "run"]

-----------------------------------------------------------------------------
(* State. *)

NoClient == [state |-> "UNKNOW", run |-> FALSE, bits |-> {}, lock |-> "none",
             tx |-> "none", waitPong |-> FALSE, due |-> {}, timeout |-> "long",
             error |-> "NONE"]

NoLink == [link |-> "none", inbox |-> <<>>, owed |-> {}, pinged |-> FALSE,
           bye |-> FALSE, asked |-> FALSE, open |-> "none"]

NoTask == [pc |-> "none", job |-> "none", armed |-> "none", next |-> "loop"]

Idle == [pc |-> "idle", left |-> <<>>]

Init ==
  /\ conf \in Confs
  /\ heap = {} /\ c = NoClient /\ net = NoLink
  /\ task = NoTask
  /\ app = [ip |-> 1, pc |-> "run"]
  /\ send = [th \in Threads |-> Idle]
  /\ obs = [view |-> "none", connected |-> FALSE, torn |-> {}]
  /\ budget = [faults |-> MaxFaults, server |-> MaxServer, mic |-> MaxMic]

Free(lock) == lock = "none"
Connected  == c.state = "CONNECTED"
Stopped    == "STOPPED" \in c.bits
CloseSent  == "CLOSE_FRAME_SENT" \in c.bits
Fault      == budget.faults > 0 /\ budget' = [budget EXCEPT !.faults = @ - 1]

\* Mutant: the check for a connection that is closing or closed is missing.
MutNothingToAbort(state) == FALSE

NothingToAbort(state) == state \in {"CLOSING", "UNKNOW", "WAIT_TIMEOUT"}

\* esp_websocket_client_abort_connection by whoever holds client->lock; the
\* DISCONNECTED it dispatches is called e.
AbortAs(e, cl, error) ==
  IF NothingToAbort(cl.state) THEN c' = cl /\ UNCHANGED <<net, obs>>
  ELSE /\ c' = [cl EXCEPT
                 !.state = IF conf.auto THEN "WAIT_TIMEOUT" ELSE "UNKNOW",
                 !.run   = @ /\ conf.auto,
                 !.due   = {},
                 !.error = error]
       /\ net' = NoLink
       /\ obs' = Event(obs, e)

Abort(cl, error) == AbortAs("DISCONNECTED", cl, error)

\* The abort of a sender whose write failed.  It does not look whether its
\* connection is the one it aborts: when the task is about to connect again
\* (INIT), the end of the one it wrote to was reported before.
SenderAborts(cl) ==
  AbortAs(IF cl.state = "INIT" THEN "REPEATED" ELSE "DISCONNECTED", cl, "TCP")

-----------------------------------------------------------------------------
(* The client task, esp_websocket_client_task. *)

At(pc)   == task.pc = pc
Go(pc)   == task' = [NoTask EXCEPT !.pc = pc]
GoOn(pc) == task' = [task EXCEPT !.pc = pc]
GoLock(job) == task' = [NoTask EXCEPT !.pc = "lock", !.job = job]
GoTx(job, next) ==
  task' = [NoTask EXCEPT !.pc = "tx", !.job = job, !.next = next]

TaskBegins ==
  /\ At("entry") /\ Go("loop")
  /\ c' = [c EXCEPT !.run = TRUE, !.state = "INIT",
                    !.bits = @ \ {"STOPPED", "CLOSE_FRAME_SENT"}]
  /\ obs' = Event(obs, "BEGIN")
  /\ UNCHANGED <<net, budget>>

TaskLeavesLoop ==
  /\ At("loop") /\ ~c.run /\ Go("finish")
  /\ UNCHANGED <<c, net, obs, budget>>

\* The lock is taken and the switch enters the case of state s.
Switch(s) == At("loop") /\ c.run /\ Free(c.lock) /\ c.state = s

\* Mutant: a PONG that the lost connection owes is still waited for.
MutAfterConnect(cl) ==
  [cl EXCEPT !.state = "CONNECTED", !.error = "NONE",
             !.bits = @ \ {"CLOSE_FRAME_SENT"}]

AfterConnect(cl) ==
  [cl EXCEPT !.state = "CONNECTED", !.waitPong = FALSE, !.error = "NONE",
             !.bits = @ \ {"CLOSE_FRAME_SENT"}]

\* A frame may come with the answer to the handshake; it is read before the
\* lock is given back.
TaskConnects ==
  /\ Switch("INIT")
  /\ obs' = Event(Event(obs, "BEFORE_CONNECT"), "CONNECTED")
  /\ \/ /\ c' = AfterConnect(c)
        /\ net' = [NoLink EXCEPT !.link = "up"]
        /\ Go("after") /\ UNCHANGED budget
     \/ /\ budget.server > 0
        /\ budget' = [budget EXCEPT !.server = @ - 1]
        /\ c' = [AfterConnect(c) EXCEPT !.lock = "task"]
        /\ \E f \in {"TEXT", "PING"} :
             net' = [NoLink EXCEPT !.link = "up", !.inbox = <<f>>]
        /\ task' = [task EXCEPT !.pc = "lock", !.job = "recv", !.next = "after"]

\* Also a redirect, which connects again at once.
TaskFailsToConnect ==
  /\ Switch("INIT") /\ Fault /\ Go("after")
  /\ LET tried == Event(obs, "BEFORE_CONNECT")
     IN  \/ UNCHANGED <<c, net>> /\ obs' = tried
         \/ /\ c' = [c EXCEPT
                     !.state = IF conf.auto THEN "WAIT_TIMEOUT" ELSE "UNKNOW",
                     !.run   = conf.auto,
                     !.due   = {},
                     !.error = "TCP"]
            /\ net' = NoLink
            /\ obs' = Event(tried, "DISCONNECTED")

\* Mutant: every PING starts the wait for the PONG again.
MutStartToWait(cl) ==
  IF conf.pings
  THEN [cl EXCEPT !.waitPong = TRUE, !.due = @ \ {"pong"}] ELSE cl

\* A PING went out: ping_tick_ms was reset before, pingpong_tick_ms is reset
\* when the client starts to wait.
StartToWait(cl) ==
  IF ~cl.waitPong /\ conf.pings
  THEN [cl EXCEPT !.waitPong = TRUE, !.due = @ \ {"pong"}] ELSE cl

Pinged(n) == IF n.link = "none" THEN n
             ELSE [n EXCEPT !.pinged = TRUE, !.owed = @ \union {"PONG"}]

CheckPong(cl, n) ==
  IF cl.waitPong /\ "pong" \in cl.due THEN Abort(cl, "PONG_TIMEOUT")
  ELSE c' = cl /\ net' = n /\ UNCHANGED obs

\* The case CONNECTED.  With its own lock for sending, the task gives
\* client->lock away before it sends.
TaskKeepsAlive ==
  /\ Switch("CONNECTED") /\ UNCHANGED budget
  /\ LET reset == [c EXCEPT !.due = @ \ {"ping"}]
     IN  CASE CloseSent -> Go("after") /\ UNCHANGED <<c, net, obs>>
           [] ~CloseSent /\ "ping" \notin c.due ->
                Go("after") /\ CheckPong(c, net)
           [] ~CloseSent /\ "ping" \in c.due /\ ~conf.sep ->
                Go("after") /\ CheckPong(StartToWait(reset), Pinged(net))
           [] OTHER ->
                GoTx("ping", "after") /\ c' = reset /\ UNCHANGED <<net, obs>>

\* The case WAIT_TIMEOUT.
TaskRetries ==
  /\ Switch("WAIT_TIMEOUT") /\ Go("after")
  /\ c' = IF c.timeout \in c.due
          THEN [c EXCEPT !.state = "INIT", !.due = @ \ {"short", "long"}] ELSE c
  /\ UNCHANGED <<net, obs, budget>>

\* The case CLOSING: the CLOSE of the server is echoed, once.
TaskEchoesClose ==
  /\ Switch("CLOSING") /\ UNCHANGED <<net, obs, budget>>
  /\ IF CloseSent \/ ~conf.sep
     THEN Go("after") /\ c' = [c EXCEPT !.bits = @ \union {"CLOSE_FRAME_SENT"}]
     ELSE GoTx("close", "after") /\ UNCHANGED c

\* The default case.
TaskIdles ==
  /\ Switch("UNKNOW") /\ Go("after") /\ UNCHANGED <<c, net, obs, budget>>

-----------------------------------------------------------------------------
(* Control frames with CONFIG_ESP_WS_CLIENT_SEPARATE_TX_LOCK: give lock,   *)
(* take tx_lock within a timeout, take lock, look again, send.             *)

TaskTakesTx ==
  /\ At("tx") /\ Free(c.tx) /\ GoOn("relock")
  /\ c' = [c EXCEPT !.tx = "task"] /\ UNCHANGED <<net, obs, budget>>

TaskTxTimesOut ==
  /\ At("tx") /\ ~Free(c.tx) /\ GoOn("giveup")
  /\ UNCHANGED <<c, net, obs, budget>>

\* A PONG that cannot be sent is a failed read to the caller.
TaskGivesUp ==
  /\ At("giveup") /\ Free(c.lock) /\ Go(task.next) /\ UNCHANGED budget
  /\ IF task.job = "pong" THEN Abort(c, "TCP") ELSE UNCHANGED <<c, net, obs>>

StillWanted(job) ==
  CASE job = "ping"  -> Connected
    [] job = "close" -> c.state = "CLOSING"
    [] job = "pong"  -> ~NothingToAbort(c.state)

TaskSendsControl ==
  /\ At("relock") /\ Free(c.lock) /\ Go(task.next) /\ UNCHANGED budget
  /\ LET given == [c EXCEPT !.tx = "none"]
     IN  CASE ~StillWanted(task.job) -> c' = given /\ UNCHANGED <<net, obs>>
           [] StillWanted(task.job) /\ task.job = "ping" ->
                CheckPong(StartToWait(given), Pinged(net))
           [] StillWanted(task.job) /\ task.job = "close" ->
                /\ c' = [given EXCEPT !.bits = @ \union {"CLOSE_FRAME_SENT"}]
                /\ UNCHANGED <<net, obs>>
           [] OTHER -> c' = given /\ UNCHANGED <<net, obs>>

-----------------------------------------------------------------------------
(* The task without the lock. *)

\* Polls a connection for a second.
TaskPolls ==
  /\ At("after") /\ Connected
  /\ \/ net.inbox # <<>> /\ GoLock("recv")
     \/ net.inbox = <<>> /\ net.link \in {"down", "none"} /\ GoLock("error")
     \/ net.inbox = <<>> /\ net.link \in {"up", "silent"} /\ Go("loop")
  /\ UNCHANGED <<c, net, obs, budget>>

TaskReportsError ==
  /\ At("lock") /\ task.job = "error" /\ Free(c.lock) /\ Go("loop")
  /\ Abort(c, "TCP") /\ UNCHANGED budget

\* esp_websocket_client_recv of one frame; what another thread closed in the
\* meantime cannot be read.
TaskReceives ==
  /\ At("lock") /\ task.job = "recv" /\ c.lock \in {"none", "task"}
  /\ UNCHANGED budget
  /\ LET given == [c EXCEPT !.lock = "none"]
         read  == [net EXCEPT !.inbox = Tail(@)]
     IN  IF net.inbox = <<>> THEN Go(task.next) /\ Abort(given, "TCP")
         ELSE /\ obs' = Event(obs, "DATA")
              /\ CASE Head(net.inbox) = "PONG" ->
                        /\ c' = [given EXCEPT !.waitPong = FALSE,
                                              !.due = @ \ {"pong"}]
                        /\ net' = [read EXCEPT !.pinged = FALSE]
                   [] Head(net.inbox) = "CLOSE" ->
                        c' = [given EXCEPT !.state = "CLOSING"] /\ net' = read
                   [] OTHER -> c' = given /\ net' = read
              /\ IF Head(net.inbox) = "PING" /\ conf.sep
                 THEN GoTx("pong", task.next) ELSE Go(task.next)

\* The delay before the next attempt: WAKEUP_BIT is cleared first, then the
\* delay is read, then the task blocks.
TaskClearsWakeup ==
  /\ At("after") /\ c.state = "WAIT_TIMEOUT" /\ Go("backoff")
  /\ c' = [c EXCEPT !.bits = @ \ {"WAKEUP"}]
  /\ UNCHANGED <<net, obs, budget>>

TaskBacksOff ==
  /\ At("backoff") /\ UNCHANGED <<c, net, obs, budget>>
  /\ task' = IF c.run /\ c.timeout \notin c.due
             THEN [task EXCEPT !.pc = "waiting", !.armed = c.timeout]
             ELSE [task EXCEPT !.pc = "loop"]

TaskWakes ==
  /\ At("waiting")
  /\ \/ {"REQUESTED_STOP", "WAKEUP"} \intersect c.bits # {}
     \/ task.armed \in c.due
  /\ task' = [task EXCEPT !.pc = "loop", !.armed = "none"]
  /\ UNCHANGED <<c, net, obs, budget>>

TaskDrains ==
  /\ At("after") /\ c.state = "CLOSING" /\ CloseSent /\ Go("drain")
  /\ UNCHANGED <<c, net, obs, budget>>

\* Nothing to do without the lock.
TaskGoesRound ==
  /\ At("after") /\ Go("loop")
  /\ \/ c.state \in {"INIT", "UNKNOW"}
     \/ c.state = "CLOSING" /\ ~CloseSent
  /\ UNCHANGED <<c, net, obs, budget>>

\* The server closed its side, or the second is over.
TaskClosesAndReconnects ==
  /\ At("drain") /\ conf.closeRec /\ Free(c.lock) /\ Go("loop")
  /\ c' = [c EXCEPT !.state = "WAIT_TIMEOUT", !.error = "SERVER_CLOSE",
                    !.due = {},
                    !.bits = @ \ {"STOPPED", "CLOSE_FRAME_SENT"}]
  /\ net' = NoLink /\ obs' = Event(obs, "CLOSED") /\ UNCHANGED budget

\* Mutant: the task only leaves the loop, as it does for stop().
MutTaskCloses ==
  /\ At("drain") /\ ~conf.closeRec /\ Go("loop")
  /\ c' = [c EXCEPT !.state = "UNKNOW"]
  /\ obs' = Event(obs, "CLOSED") /\ UNCHANGED <<net, budget>>

TaskCloses ==
  /\ At("drain") /\ ~conf.closeRec /\ Go("finish")
  /\ c' = [c EXCEPT !.run = FALSE, !.state = "UNKNOW", !.due = {}]
  /\ obs' = Event(obs, "CLOSED") /\ UNCHANGED <<net, budget>>

\* Mutant: STOPPED_BIT is set with the event, before the transport is closed.
MutTaskFinishes ==
  /\ At("finish") /\ Go("stopping")
  /\ c' = [c EXCEPT !.state = "UNKNOW", !.bits = @ \union {"STOPPED"}]
  /\ net' = NoLink /\ obs' = Event(obs, "FINISH") /\ UNCHANGED budget

TaskFinishes ==
  /\ At("finish") /\ Go("stopping")
  /\ c' = [c EXCEPT !.state = "UNKNOW", !.due = {}]
  /\ net' = NoLink /\ obs' = Event(obs, "FINISH") /\ UNCHANGED budget

TaskEnds ==
  /\ At("stopping") /\ Go("gone")
  /\ c' = [c EXCEPT !.bits = @ \union {"STOPPED"}]
  /\ UNCHANGED <<net, obs, budget>>

TaskNext ==
  /\ \/ TaskBegins \/ TaskLeavesLoop \/ TaskConnects \/ TaskKeepsAlive
     \/ TaskRetries \/ TaskEchoesClose \/ TaskIdles \/ TaskTakesTx
     \/ TaskGivesUp \/ TaskSendsControl \/ TaskPolls \/ TaskReportsError
     \/ TaskReceives \/ TaskClearsWakeup \/ TaskBacksOff \/ TaskWakes
     \/ TaskDrains \/ TaskGoesRound \/ TaskClosesAndReconnects
     \/ TaskCloses \/ TaskFinishes \/ TaskEnds
  /\ UNCHANGED <<conf, heap, app, send>>

\* What no fairness is assumed of.
TaskMishap ==
  (TaskFailsToConnect \/ TaskTxTimesOut) /\ UNCHANGED <<conf, heap, app, send>>

-----------------------------------------------------------------------------
(* The API. *)

AppInit ==
  /\ Call("init")
  /\ LET fields == Fields(conf.script)
     IN  \/ /\ heap' = AfterInit(fields, conf.sep)
            /\ c' = [NoClient EXCEPT !.bits = {"STOPPED"}]
            /\ Returned /\ UNCHANGED budget
         \/ /\ Fault
            /\ \E k \in 0 .. Len(InitSteps(fields, conf.sep)) - 1 :
                 heap' = AfterFailedInit(fields, conf.sep, k)
            /\ app' = [app EXCEPT !.pc = "null"] /\ UNCHANGED c
  /\ UNCHANGED <<conf, net, task, send, obs>>

\* esp_websocket_client_append_header; a failing malloc changes nothing.
AppAddsHeader ==
  /\ Call("header") /\ Returned
  /\ heap' = heap \union {"headers"}
  /\ UNCHANGED <<conf, c, net, task, send, obs, budget>>

\* esp_websocket_client_start; the callers ignore its result.
AppStarts ==
  /\ Call("start") /\ Returned
  /\ IF c.state # "UNKNOW" THEN UNCHANGED <<heap, c, task, budget>>
     ELSE \/ /\ heap' = CreateTransport(heap, Len(TransportSteps))
             /\ c' = [c EXCEPT !.bits = @ \ {"STOPPED", "CLOSE_FRAME_SENT",
                                             "REQUESTED_STOP", "WAKEUP"}]
             /\ Go("entry") /\ UNCHANGED budget
          \/ /\ Fault /\ UNCHANGED task
             /\ \/ /\ \E k \in 0 .. Len(TransportSteps) - 1 :
                       heap' = CreateTransport(heap, k)
                   /\ UNCHANGED c
                \/ /\ heap' = CreateTransport(heap, Len(TransportSteps))
                   /\ c' = [c EXCEPT !.bits = {"STOPPED"}]
  /\ UNCHANGED <<conf, net, send, obs>>

\* vTaskDelay of two seconds and more: the task has begun by then.
AppDelays ==
  /\ Call("delay") /\ Returned /\ ~At("entry")
  /\ UNCHANGED <<conf, heap, c, net, task, send, obs, budget>>

\* Mutant: the task is woken before the value it is to read is there.
MutTimeoutSteps == <<"bit", "value">>

\* esp_websocket_client_set_reconnect_timeout: the value, then the bit.
TimeoutSteps == <<"value", "bit">>

TakeTimeoutStep(k) ==
  c' = IF TimeoutSteps[k] = "value" THEN [c EXCEPT !.timeout = "short"]
       ELSE [c EXCEPT !.bits = @ \union {"WAKEUP"}]

AppSetsTimeout ==
  /\ Call("timeout")
  /\ IF conf.auto
     THEN TakeTimeoutStep(1) /\ app' = [app EXCEPT !.pc = "setting"]
     ELSE Returned /\ UNCHANGED c
  /\ UNCHANGED <<conf, heap, net, task, send, obs, budget>>

AppWakesTask ==
  /\ app.pc = "setting" /\ Returned /\ TakeTimeoutStep(2)
  /\ UNCHANGED <<conf, heap, net, task, send, obs, budget>>

\* stop_wait_task, and the same lines of close(): ask, then wait.
AskToStop ==
  /\ c' = [c EXCEPT !.run = FALSE, !.bits = @ \union {"REQUESTED_STOP"}]
  /\ app' = [app EXCEPT !.pc = "stopping"]

AppStops ==
  /\ Call("stop")
  /\ IF Stopped THEN Returned /\ UNCHANGED c ELSE AskToStop
  /\ UNCHANGED <<conf, heap, net, task, send, obs, budget>>

\* esp_websocket_client_destroy: first the task, then the memory.
AppDestroys ==
  /\ Call("destroy")
  /\ IF Stopped THEN Returned /\ heap' = DestroyAndFree(heap) /\ UNCHANGED c
                ELSE AskToStop /\ UNCHANGED heap
  /\ UNCHANGED <<conf, net, task, send, obs, budget>>

AppSeesStopped ==
  /\ app.pc = "stopping" /\ Stopped
  /\ c' = [c EXCEPT !.state = "UNKNOW"]
  /\ IF Op = "destroy" THEN app' = [app EXCEPT !.pc = "run"] ELSE Returned
  /\ UNCHANGED <<conf, heap, net, task, send, obs, budget>>

\* esp_websocket_client_close: refused, or a CLOSE frame is sent
\* (SendCheck), the bit is set, and the call waits.
AppCloseRefused ==
  /\ Call("close") /\ ~c.run /\ Returned
  /\ UNCHANGED <<conf, heap, c, net, task, send, obs, budget>>

AppMarksClose ==
  /\ app.pc = "sent"
  /\ c' = [c EXCEPT !.bits = @ \union {"CLOSE_FRAME_SENT"}]
  /\ IF conf.auto /\ conf.closeRec
     THEN Returned ELSE app' = [app EXCEPT !.pc = "closing"]
  /\ UNCHANGED <<conf, heap, net, task, send, obs, budget>>

AppSeesClosed ==
  /\ app.pc = "closing" /\ Stopped /\ Returned
  /\ UNCHANGED <<conf, heap, c, net, task, send, obs, budget>>

AppCloseTimesOut ==
  /\ app.pc = "closing" /\ ~conf.patient /\ ~Stopped /\ AskToStop
  /\ UNCHANGED <<conf, heap, net, task, send, obs, budget>>

-----------------------------------------------------------------------------
(* esp_websocket_client_send_with_exact_opcode, per thread. *)

\* The caller's own condition for calling it.
Wants(th) ==
  IF th = "mic" THEN conf.script = "device" /\ budget.mic > 0 /\ obs.connected
  ELSE CASE Op = "text"  -> obs.connected
         [] Op = "hello" -> Connected
         [] Op = "close" -> c.run
         [] OTHER        -> Op \in Sends

\* Leaves the call; only a close() whose frame went out goes on.
Leave(th, ok) ==
  /\ send' = [send EXCEPT ![th] = Idle]
  /\ IF th = "mic"
     THEN UNCHANGED app /\ budget' = [budget EXCEPT !.mic = @ - 1]
     ELSE /\ UNCHANGED budget
          /\ IF ok /\ Op = "close" THEN app' = [app EXCEPT !.pc = "sent"]
                                   ELSE Returned

SendCheck(th) ==
  /\ send[th].pc = "idle" /\ (th = "app" => app.pc = "run") /\ Wants(th)
  /\ IF Connected
     THEN /\ send' = [send EXCEPT ![th] =
               [pc |-> "lock", left |-> FramesOf(IF th = "mic" THEN "long" ELSE Op)]]
          /\ UNCHANGED <<app, budget>>
     ELSE Leave(th, FALSE)
  /\ UNCHANGED <<conf, heap, c, net, task, obs>>

\* tx_lock if the build has it, else client->lock.
SendLock == IF conf.sep THEN c.tx ELSE c.lock
WithSendLock(owner) ==
  IF conf.sep THEN [c EXCEPT !.tx = owner] ELSE [c EXCEPT !.lock = owner]

SendTakesLock(th) ==
  /\ send[th].pc = "lock" /\ Free(SendLock)
  /\ c' = WithSendLock(th)
  /\ send' = [send EXCEPT ![th].pc = "write"]
  /\ UNCHANGED <<conf, heap, net, task, app, obs, budget>>

\* WSClient::send gives up after a second, the examples never do.
SendLockTimesOut(th) ==
  /\ send[th].pc = "lock" /\ ~Free(SendLock) /\ conf.script = "device"
  /\ Leave(th, FALSE)
  /\ UNCHANGED <<conf, heap, c, net, task, obs>>

\* Mutant: the lock is given back between two frames.
MutSendHolds(th) == FALSE

SendHolds(th) == Tail(send[th].left) # <<>>

\* One turn of the loop.  A write into a connection the peer does not read
\* is taken by the buffers; into a broken one it fails (SendFails).
SendFrame(th) ==
  LET f == Head(send[th].left) IN
  /\ send[th].pc = "write" /\ net.link \in {"up", "silent"}
  /\ net' = [net EXCEPT !.open = OnWire(@, th, f),
                        !.owed = IF f.op = "CLOSE" /\ ~net.bye
                                 THEN @ \union {"CLOSE"} ELSE @,
                        !.asked = @ \/ f.op = "CLOSE"]
  /\ obs' = [obs EXCEPT !.torn = @ \union
         Tears(net.open, th, f,
               {t \in Threads : send[t].pc \in {"lock", "write"}})]
  /\ c' = IF SendHolds(th) THEN c ELSE WithSendLock("none")
  /\ IF Tail(send[th].left) = <<>> THEN Leave(th, TRUE)
     ELSE /\ send' = [send EXCEPT ![th].left = Tail(@),
                                  ![th].pc = IF SendHolds(th) THEN @ ELSE "lock"]
          /\ UNCHANGED <<app, budget>>
  /\ UNCHANGED <<conf, heap, task>>

\* The connection is aborted under client->lock; with its own lock, a
\* sender gives that one first and takes client->lock next.
SendFails(th) ==
  /\ send[th].pc = "write" /\ net.link # "up"
  /\ IF conf.sep
     THEN /\ c' = WithSendLock("none")
          /\ send' = [send EXCEPT ![th].pc = "fail"]
          /\ UNCHANGED <<net, app, obs, budget>>
     ELSE SenderAborts(WithSendLock("none")) /\ Leave(th, FALSE)
  /\ UNCHANGED <<conf, heap, task>>

SendAborts(th) ==
  /\ send[th].pc = "fail" /\ Free(c.lock)
  /\ SenderAborts(c) /\ Leave(th, FALSE)
  /\ UNCHANGED <<conf, heap, task>>

SendStep(th) ==
  \/ SendCheck(th) \/ SendTakesLock(th) \/ SendFrame(th)
  \/ (net.link \notin {"up", "silent"} /\ SendFails(th)) \/ SendAborts(th)

AppStep ==
  \/ AppInit \/ AppAddsHeader \/ AppStarts \/ AppDelays \/ AppSetsTimeout
  \/ AppWakesTask \/ AppStops \/ AppDestroys \/ AppSeesStopped
  \/ AppCloseRefused \/ AppMarksClose \/ AppSeesClosed \/ AppCloseTimesOut

-----------------------------------------------------------------------------
(* The server, the network and the clock. *)

Reply(f) == net' = [net EXCEPT !.inbox = Append(@, f), !.owed = @ \ {f},
                               !.bye = @ \/ f = "CLOSE"]
Others == <<conf, heap, c, task, app, send, obs>>

ServerSends(f) ==
  /\ net.link = "up" /\ ~net.bye /\ Len(net.inbox) < 2 /\ budget.server > 0
  /\ budget' = [budget EXCEPT !.server = @ - 1] /\ Reply(f) /\ UNCHANGED Others

ServerAnswers ==
  /\ net.link = "up" /\ ~net.bye /\ Len(net.inbox) < 3
  /\ \E f \in net.owed : Reply(f)
  /\ UNCHANGED budget /\ UNCHANGED Others

ServerHangsUp ==
  /\ net.link = "up" /\ net.bye /\ net' = [net EXCEPT !.link = "down"]
  /\ UNCHANGED budget /\ UNCHANGED Others

\* "down" is a connection the client can see is broken, "silent" one whose
\* peer is gone without a word.
LinkBreaks ==
  /\ net.link = "up" /\ Fault
  /\ \E how \in {"down", "silent"} : net' = [net EXCEPT !.link = how]
  /\ UNCHANGED Others

\* An interval is over, where a comparison can tell: ping_interval_sec and
\* pingpong_timeout_sec on a connection, two delays before the next attempt.
\* What nothing looks at is forgotten when a connection ends: it may be over
\* again at once.
Elapses(t) ==
  /\ t \notin c.due
  /\ CASE t = "ping"  -> Connected
       [] t = "pong"  -> Connected /\ c.waitPong
       [] t = "short" -> c.state = "WAIT_TIMEOUT"
       [] t = "long"  -> c.state = "WAIT_TIMEOUT" /\ "short" \in c.due
  /\ c' = [c EXCEPT !.due = @ \union {t}]
  /\ UNCHANGED <<conf, heap, net, task, app, send, obs, budget>>

Intervals == {"ping", "pong", "short", "long"}

Environment ==
  \/ \E f \in {"TEXT", "PING", "CLOSE"} : ServerSends(f)
  \/ ServerAnswers \/ ServerHangsUp \/ LinkBreaks
  \/ \E t \in Intervals : Elapses(t)

\* A caller that is through, that has no client, or that waits for a
\* connection: the programs return, or poll for ever.
Terminated ==
  /\ Done \/ app.pc = "null" \/ Op \in {"hello", "text"}
  /\ UNCHANGED vars

Next ==
  \/ TaskNext \/ TaskMishap \/ AppStep
  \/ \E th \in Threads : SendStep(th) \/ SendFails(th) \/ SendLockTimesOut(th)
  \/ Environment \/ Terminated

\* FreeRTOS runs every ready task; an answer that is owed on a working
\* connection comes; intervals pass.
Fairness ==
  /\ WF_vars(TaskNext) /\ WF_vars(AppStep) /\ WF_vars(ServerAnswers)
  /\ \A th \in Threads : WF_vars(SendStep(th))
  /\ \A t \in Intervals : WF_vars(Elapses(t))

Spec == Init /\ [][Next]_vars /\ Fairness

-----------------------------------------------------------------------------
(* Properties. *)

Freed == app.ip > 1 /\ "client" \notin heap
Previous == IF app.ip = 1 THEN "none" ELSE Script(conf.script)[app.ip - 1]
TaskIsGone == task.pc \in {"none", "gone"}

\* When destroy or a failed init has freed the handle, no task runs on it, no
\* call is inside it, and nothing stays allocated but, when storing a part
\* of user:password fails, the copy set_uri works on; when stop() has
\* returned, the task is gone and the connection closed.
HandleIsSafe ==
  /\ Freed \/ app.pc = "null" =>
       TaskIsGone /\ heap \subseteq {"user_info"} /\ \A th \in Threads : send[th] = Idle
  /\ Previous = "stop" /\ app.pc = "run" => TaskIsGone /\ net.link = "none"

\* The events come in the order the header describes: BEGIN first, CONNECTED
\* after BEFORE_CONNECT, DATA only while connected, one DISCONNECTED for each
\* attempt that is given up, one DISCONNECTED or CLOSED for each CONNECTED
\* whoever finds the connection broken, FINISH last.  The one exception is a
\* sender that aborts only when the task is about to connect again: its
\* DISCONNECTED is one more (REPEATED), never before the first attempt nor while
\* connected.
EventsInOrder == obs.view # "broken"

\* No frame of one thread comes between those of a message another one sends, as
\* long as its send has not failed (control frames of the task are not looked
\* at: a protocol allows them there).  A message is
\* continued on another connection only if the caller sends it in pieces and
\* does not look at the results, or if sending has its own lock.
MessagesAreWhole ==
  /\ "interleaved" \notin obs.torn
  /\ "orphan" \in obs.torn => conf.sep \/ conf.script # "device"

\* A connection is given up for a missing PONG only if this connection was
\* sent a PING and no PONG was read since.
PongTimeoutIsHonest ==
  [][c'.error = "PONG_TIMEOUT" /\ c.error # "PONG_TIMEOUT"
       => net.pinged /\ conf.pings]_vars

\* A task that waits with a delay that is not the one set last has a wakeup
\* coming, whatever the order in which it clears the bit and the caller sets it.
WakeupNotLost ==
  At("waiting") /\ task.armed # c.timeout
    => "WAKEUP" \in c.bits \/ app.pc = "setting"

\* close() without a timeout waits for ever once its connection is lost and
\* the task connects again, if the peer falls silent, and if the
\* configuration reconnects after a close that does not return at once.
Hangs == /\ app.pc = "closing" /\ conf.patient
         /\ conf.closeRec \/ net.link = "silent" \/ (c.run /\ ~net.asked)

\* stop, destroy and, but for Hangs, close return.
CallsReturn ==
  app.pc \in {"closing", "stopping"} ~> app.pc \notin {"closing", "stopping"} \/ Hangs

\* With pings, a connection that is broken or silent does not stay CONNECTED
\* unless the client is closing it.
BrokenIsNoticed ==
  Connected /\ net.link \in {"down", "silent"} /\ conf.pings
    ~> ~Connected \/ net.link = "up" \/ CloseSent

\* The types.
Names == Strings \union {"client", "loop", "if_name", "lock", "tx_lock",
  "transport_list", "tcp", "ws", "rx", "tx", "status_bits", "config",
  "user_info"}

ClientType ==
  [state : {"UNKNOW", "INIT", "CONNECTED", "WAIT_TIMEOUT", "CLOSING"},
   run : BOOLEAN,
   bits : SUBSET {"STOPPED", "CLOSE_FRAME_SENT", "REQUESTED_STOP", "WAKEUP"},
   lock : Threads \union {"task", "none"}, tx : Threads \union {"task", "none"},
   waitPong : BOOLEAN, due : SUBSET Intervals, timeout : {"short", "long"},
   error : {"NONE", "TCP", "PONG_TIMEOUT", "SERVER_CLOSE"}]

NetType ==
  [link : {"none", "up", "down", "silent"},
   inbox : Seq({"TEXT", "PING", "PONG", "CLOSE"}),
   owed : SUBSET {"PONG", "CLOSE"}, pinged : BOOLEAN, bye : BOOLEAN,
   asked : BOOLEAN, open : Threads \union {"none"}]

TaskType ==
  [pc : {"none", "entry", "loop", "after", "lock", "tx", "relock", "giveup",
         "backoff", "waiting", "drain", "finish", "stopping", "gone"},
   job : {"none", "ping", "pong", "close", "recv", "error"},
   armed : {"none", "short", "long"}, next : {"loop", "after"}]

AppType == [ip : Nat \ {0},
            pc : {"run", "null", "setting", "stopping", "sent", "closing"}]

Frame == [op : {"TEXT", "CONT", "CLOSE"}, fin : BOOLEAN, len : 0 .. Buffer]

SendType == [pc : {"idle", "lock", "write", "fail"}, left : Seq(Frame)]

ObsType ==
  [view : {"none", "begun", "trying", "up", "down", "finished", "broken"},
   connected : BOOLEAN, torn : SUBSET {"orphan", "interleaved", "cut"}]

TypeOK ==
  /\ conf \in Confs
  /\ heap \subseteq Names
  /\ c \in ClientType
  /\ net \in NetType
  /\ task \in TaskType
  /\ app \in AppType
  /\ send \in [Threads -> SendType]
  /\ obs \in ObsType
  /\ budget \in [faults : Nat, server : Nat, mic : Nat]
=============================================================================
