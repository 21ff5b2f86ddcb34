--------------------------- MODULE WsClientProofs ---------------------------
(***************************************************************************)
(* TLAPS proofs about WsClient, for any of its configurations, any number  *)
(* of faults, of frames the server sends and of messages of the second     *)
(* sender.  Each action is first read as changes of fields (the lemmas     *)
(* ending in Does), then shown to keep the invariant (those ending in      *)
(* Keeps); what the threads share is in IInv.                              *)
(***************************************************************************)
EXTENDS WsClient, SequenceTheorems, TLAPS

-----------------------------------------------------------------------------
(* The inductive invariant. *)

\* Between BEGIN and FINISH.
Live == task.pc \notin {"none", "entry", "stopping", "gone"}

\* What the handler has seen follows from where the task stands and from the
\* state, and no connection is left when the state says there is none.
ViewInv ==
  /\ task.pc = "none" => obs.view = "none" /\ ~obs.connected
  /\ task.pc = "entry" => obs.view \in {"none", "finished"}
  /\ task.pc \in {"stopping", "gone"} => obs.view = "finished"
  /\ ~Live => c.state = "UNKNOW"
  /\ Live /\ c.state = "INIT" => obs.view \in {"begun", "trying", "down"}
  /\ Live /\ c.state \in {"CONNECTED", "CLOSING"} =>
       obs.view = "up" /\ net.link # "none"
  /\ Live /\ c.state \in {"WAIT_TIMEOUT", "UNKNOW"} => obs.view = "down"
  /\ c.state \in {"UNKNOW", "INIT", "WAIT_TIMEOUT"} /\ ~At("finish") => net = NoLink
  /\ At("drain") => c.state = "CLOSING"

\* Before init there is nothing; after it STOPPED_BIT says whether there is a
\* task, and calls that need it gone find it gone.
CallInv ==
  /\ app.ip = 1 => /\ task.pc = "none" /\ heap \subseteq {"user_info"}
                   /\ \A th \in Threads : send[th] = Idle
  /\ app.pc = "null" => app.ip = 1
  /\ app.ip > 1 => (Stopped <=> TaskIsGone)
  /\ Op \in {"init", "header", "start"} => TaskIsGone
  /\ Previous = "stop" /\ app.pc = "run" => TaskIsGone
  /\ send["mic"] # Idle => conf.script = "device" /\ budget.mic > 0
  /\ send["app"] # Idle => app.pc = "run" /\ Op \in Sends
  /\ \A th \in Threads : send[th].pc = "idle" => send[th] = Idle
  /\ app.pc = "setting" => Op = "timeout"
  /\ app.pc = "stopping" => Op \in {"stop", "close", "destroy"}
  /\ app.pc \in {"sent", "closing"} => Op = "close"

\* No host is set by two fields, and the client is freed only by the destroy
\* that ends a program.
HeapInv ==
  /\ ~ {"host", "uri_host"} \subseteq heap
  /\ app.ip > 1 /\ "client" \notin heap =>
       /\ conf.script # "device"
       /\ Previous = "destroy" /\ Op = "none" /\ app.pc = "run"
       /\ TaskIsGone /\ heap \subseteq {"user_info"}

\* Whoever writes a frame has the lock for sending.
LockInv ==
  /\ \A th \in Threads : send[th].pc = "write" => SendLock = th
  /\ At("relock") => c.tx = "task"
  /\ At("relock") \/ At("tx") => conf.sep

\* The frames of the long message, what is left of it in each place, and whose
\* message is open on the connection: in no other place of a program can one be.
Begin == [op |-> "TEXT", fin |-> FALSE, len |-> Buffer]
Rest  == [op |-> "CONT", fin |-> TRUE, len |-> 1]

FrameInv ==
  LET mic == send["mic"] me == send["app"] IN
  /\ mic.pc = "lock" => mic.left = <<Begin, Rest>> /\ net.open # "mic"
  /\ mic.pc = "write" =>
       \/ mic.left = <<Begin, Rest>> /\ net.open # "mic"
       \/ mic.left = <<Rest>> /\ (conf.sep \/ net.open = "mic" \/ net.link = "none")
  /\ mic.pc = "idle" /\ net.open = "mic" => ~Connected
  /\ mic.pc = "fail" => conf.sep
  /\ me.pc = "fail" => conf.sep
  /\ me.pc = "lock" => me.left = FramesOf(Op)
  /\ me.pc = "write" => \/ me.left = FramesOf(Op)
                        \/ Op = "long" /\ me.left = <<Rest>>
  /\ net.open = "mic" => conf.script = "device"
  /\ net.open = "app" =>
        \/ conf.script = "linux" /\ app.ip >= 6
        \/ conf.script = "example" /\ app.ip >= 4
           /\ (Op = "long" /\ me.pc = "write" => me.left = <<Rest>>)
           /\ (Op = "long" => me.pc \in {"write", "fail"})

\* A client that waits for a PONG has sent a PING on this connection.
PongInv == c.waitPong /\ Connected => net.pinged /\ conf.pings

IInv == /\ TypeOK
        /\ ViewInv
        /\ CallInv
        /\ HeapInv
        /\ LockInv
        /\ FrameInv
        /\ PongInv
        /\ WakeupNotLost
        /\ MessagesAreWhole

\* What no abort meets: the task never holds a frame or a failed poll of a
\* connection when it is about to connect, and before the first attempt no
\* send is under way, for start() comes before the first send of each program.
QuietInv ==
  /\ task.pc \in {"lock", "tx", "relock", "giveup"} => c.state # "INIT"
  /\ conf.script = "device" /\ app.ip <= 2 => send["mic"] = Idle
  /\ At("entry") \/ obs.view = "begun" => \A th \in Threads : send[th] = Idle

-----------------------------------------------------------------------------
(* Events, and the end of a connection. *)

\* Every event leaves a handler in a state after the first.
LEMMA NextViewType ==
  ASSUME NEW v, NEW e
  PROVE  NextView(v, e) \in {"begun", "trying", "up", "down", "finished", "broken"}
  BY Zenon DEF NextView

\* An event changes what the handler has seen, and nothing the server has.
LEMMA EventType ==
  ASSUME NEW o \in ObsType, NEW e
  PROVE  /\ Event(o, e) \in ObsType
         /\ Event(o, e).torn = o.torn
         /\ Event(o, e).view = NextView(o.view, e)
<1>1. PICK now : now = CASE e = "CONNECTED" -> TRUE
                         [] e \in {"DISCONNECTED", "REPEATED"} -> FALSE
                         [] OTHER -> o.connected
  OBVIOUS
<1>2. now \in BOOLEAN
  <2>1. o.connected \in BOOLEAN
    BY DEF ObsType
  <2>. QED BY <1>1, <2>1, Zenon
<1>3. PICK view : view = NextView(o.view, e)
  OBVIOUS
<1>4. view \in {"begun", "trying", "up", "down", "finished", "broken"}
  BY <1>3, NextViewType
<1>5. DOMAIN o = {"view", "connected", "torn"}
  BY DEF ObsType
<1>6. Event(o, e) = [[o EXCEPT !.view = view] EXCEPT !.connected = now]
  BY <1>1, <1>3, <1>5, Zenon DEF Event
<1>. QED BY <1>2, <1>3, <1>4, <1>6 DEF ObsType

\* The events in order, with the states they lead to.
LEMMA Views ==
  ASSUME NEW v
  PROVE  /\ v \in {"none", "finished"} => NextView(v, "BEGIN") = "begun"
         /\ v \in {"begun", "trying", "down"} => NextView(v, "BEFORE_CONNECT") = "trying"
         /\ v \in {"trying", "up"} => NextView(v, "DISCONNECTED") = "down"
         /\ v \in {"trying", "down"} => NextView(v, "REPEATED") = "down"
         /\ v = "trying" => NextView(v, "CONNECTED") = "up"
         /\ v = "up" => NextView(v, "DATA") = "up"
         /\ v = "up" => NextView(v, "CLOSED") = "down"
         /\ v \in {"begun", "trying", "up", "down"} => NextView(v, "FINISH") = "finished"
  BY Zenon DEF NextView

\* abort_connection does nothing, or drops the connection and says why.
LEMMA AbortAsDoes ==
  ASSUME NEW e, NEW cl \in ClientType, NEW error \in {"TCP", "PONG_TIMEOUT"},
         net \in NetType, obs \in ObsType, AbortAs(e, cl, error)
  PROVE  /\ c' \in ClientType /\ net' \in NetType /\ obs' \in ObsType
         /\ c'.bits = cl.bits /\ c'.lock = cl.lock /\ c'.tx = cl.tx
         /\ c'.waitPong = cl.waitPong /\ c'.timeout = cl.timeout
         /\ obs'.torn = obs.torn
         /\ \/ /\ NothingToAbort(cl.state)
               /\ c' = cl /\ net' = net /\ obs' = obs
            \/ /\ ~NothingToAbort(cl.state)
               /\ c'.state \in {"WAIT_TIMEOUT", "UNKNOW"} /\ c'.error = error
               /\ net' = NoLink
               /\ obs' = Event(obs, e)
<1>1. CASE NothingToAbort(cl.state)
  BY <1>1 DEF AbortAs
<1>2. CASE ~NothingToAbort(cl.state)
  <2>1. PICK run : run = (cl.run /\ conf.auto)
    OBVIOUS
  <2>2. run \in BOOLEAN
    BY <2>1
  <2>3. PICK next : next = IF conf.auto THEN "WAIT_TIMEOUT" ELSE "UNKNOW"
    OBVIOUS
  <2>4. next \in {"WAIT_TIMEOUT", "UNKNOW"}
    BY <2>3
  <2>5. c' = [cl EXCEPT !.state = next, !.run = run, !.due = {}, !.error = error]
    BY <1>2, <2>1, <2>3, Zenon DEF AbortAs
  <2>6. /\ c' \in ClientType /\ c'.state = next /\ c'.error = error
        /\ c'.bits = cl.bits /\ c'.lock = cl.lock /\ c'.tx = cl.tx
        /\ c'.waitPong = cl.waitPong /\ c'.timeout = cl.timeout
    BY <2>2, <2>4, <2>5 DEF ClientType
  <2>7. /\ net' = NoLink
        /\ obs' = Event(obs, e)
    BY <1>2, Zenon DEF AbortAs
  <2>8. net' \in NetType
    BY <2>7 DEF NetType, NoLink
  <2>. QED BY <1>2, <2>4, <2>6, <2>7, <2>8, EventType
<1>. QED BY <1>1, <1>2

\* The abort that reports the end of a connection, or of an attempt.
LEMMA AbortDoes ==
  ASSUME NEW cl \in ClientType, NEW error \in {"TCP", "PONG_TIMEOUT"},
         net \in NetType, obs \in ObsType, Abort(cl, error)
  PROVE  /\ c' \in ClientType /\ net' \in NetType /\ obs' \in ObsType
         /\ c'.bits = cl.bits /\ c'.lock = cl.lock /\ c'.tx = cl.tx
         /\ c'.waitPong = cl.waitPong /\ c'.timeout = cl.timeout
         /\ obs'.torn = obs.torn
         /\ \/ /\ NothingToAbort(cl.state)
               /\ c' = cl /\ net' = net /\ obs' = obs
            \/ /\ ~NothingToAbort(cl.state)
               /\ c'.state \in {"WAIT_TIMEOUT", "UNKNOW"} /\ c'.error = error
               /\ net' = NoLink /\ obs' = Event(obs, "DISCONNECTED")
<1>1. AbortAs("DISCONNECTED", cl, error)
  BY DEF Abort
<1>. QED BY <1>1, AbortAsDoes

-----------------------------------------------------------------------------
(* The steps of the task, as changes of fields. *)

\* The fields of a configuration.
LEMMA ConfFields ==
  ASSUME conf \in Confs
  PROVE  /\ conf.script \in {"example", "linux", "device", "testee"}
         /\ conf.sep \in BOOLEAN /\ conf.auto \in BOOLEAN
         /\ conf.closeRec \in BOOLEAN /\ conf.pings \in BOOLEAN
  BY WsConfs

\* Where the task may stand.
Pcs == {"none", "entry", "loop", "after", "lock", "tx", "relock", "giveup",
        "backoff", "waiting", "drain", "finish", "stopping", "gone"}

\* The task goes on to a place.
LEMMA GoDoes ==
  ASSUME NEW pc
  PROVE  /\ Go(pc) => task'.pc = pc /\ task'.job = "none" /\ task'.armed = "none"
         /\ Go(pc) /\ pc \in Pcs => task' \in TaskType
  BY DEF Go, NoTask, TaskType, Pcs

\* The task waits for client->lock.
LEMMA GoLockDoes ==
  ASSUME NEW job
  PROVE  /\ GoLock(job) => task'.pc = "lock" /\ task'.job = job /\ task'.armed = "none"
         /\ GoLock(job) /\ job \in {"recv", "error"} => task' \in TaskType
  BY DEF GoLock, NoTask, TaskType

\* The task waits for tx_lock.
LEMMA GoTxDoes ==
  ASSUME NEW job, NEW next
  PROVE  /\ GoTx(job, next) => task'.pc = "tx" /\ task'.job = job /\ task'.next = next
         /\ GoTx(job, next) /\ job \in {"ping", "pong", "close"} /\ next \in {"loop", "after"}
              => task' \in TaskType
  BY DEF GoTx, NoTask, TaskType

\* The task goes on with the same job.
LEMMA GoOnDoes ==
  ASSUME NEW pc, task \in TaskType
  PROVE  /\ GoOn(pc) => task'.pc = pc /\ task'.job = task.job /\ task'.next = task.next
         /\ GoOn(pc) /\ pc \in Pcs => task' \in TaskType
  BY DEF GoOn, TaskType, Pcs

\* The connection that there is not.
LEMMA NoLinkIs ==
  /\ NoLink \in NetType
  /\ NoLink.link = "none" /\ NoLink.inbox = <<>> /\ NoLink.open = "none"
  /\ NoLink.pinged = FALSE
  BY DEF NoLink, NetType

\* A PING starts the wait for its PONG, and a wait that starts is not over.
LEMMA StartToWaitDoes ==
  ASSUME NEW cl \in ClientType, NEW r, r = StartToWait(cl)
  PROVE  /\ r \in ClientType
         /\ r.state = cl.state /\ r.bits = cl.bits /\ r.lock = cl.lock
         /\ r.tx = cl.tx /\ r.timeout = cl.timeout /\ r.error = cl.error
         /\ r.waitPong => cl.waitPong \/ conf.pings
         /\ r.waitPong /\ "pong" \in r.due => cl.waitPong
  BY DEF StartToWait, ClientType

\* A connection that is there remembers the PING.
LEMMA PingedDoes ==
  ASSUME NEW n \in NetType, NEW r, r = Pinged(n)
  PROVE  /\ r \in NetType
         /\ r.link = n.link /\ r.inbox = n.inbox /\ r.open = n.open
         /\ n.link # "none" => r.pinged
         /\ n.pinged => r.pinged
  BY DEF Pinged, NetType

\* The look for the PONG changes nothing, or ends a wait that is over.
LEMMA CheckPongDoes ==
  ASSUME NEW cl \in ClientType, NEW n \in NetType, obs \in ObsType,
         net \in NetType, cl.state = "CONNECTED", CheckPong(cl, n)
  PROVE  /\ c' \in ClientType /\ net' \in NetType /\ obs' \in ObsType
         /\ c'.bits = cl.bits /\ c'.lock = cl.lock /\ c'.tx = cl.tx
         /\ c'.waitPong = cl.waitPong /\ c'.timeout = cl.timeout
         /\ obs'.torn = obs.torn
         /\ \/ c' = cl /\ net' = n /\ obs' = obs
            \/ /\ cl.waitPong /\ "pong" \in cl.due
               /\ c'.state \in {"WAIT_TIMEOUT", "UNKNOW"}
               /\ net' = NoLink
               /\ obs' = Event(obs, "DISCONNECTED")
<1>1. CASE cl.waitPong /\ "pong" \in cl.due
  <2>1. Abort(cl, "PONG_TIMEOUT")
    BY <1>1 DEF CheckPong
  <2>2. ~NothingToAbort(cl.state) /\ cl.state # "INIT"
    BY DEF NothingToAbort
  <2>. QED BY <1>1, <2>1, <2>2, AbortDoes
<1>2. CASE ~(cl.waitPong /\ "pong" \in cl.due)
  BY <1>2 DEF CheckPong
<1>. QED BY <1>1, <1>2

\* A new connection waits for no PONG.
LEMMA ConnectDoes ==
  ASSUME NEW cl \in ClientType, NEW r, r = AfterConnect(cl)
  PROVE  /\ r \in ClientType
         /\ r.state = "CONNECTED" /\ ~r.waitPong /\ r.error = "NONE"
         /\ r.bits = cl.bits \ {"CLOSE_FRAME_SENT"}
         /\ r.lock = cl.lock /\ r.tx = cl.tx /\ r.timeout = cl.timeout
  BY DEF AfterConnect, ClientType

\* The client has given tx_lock back.
LEMMA GiveTx ==
  ASSUME NEW cl \in ClientType, NEW r, r = [cl EXCEPT !.tx = "none"]
  PROVE  /\ r \in ClientType /\ r.tx = "none"
         /\ r.state = cl.state /\ r.bits = cl.bits /\ r.lock = cl.lock
         /\ r.timeout = cl.timeout /\ r.error = cl.error
         /\ r.waitPong = cl.waitPong /\ r.due = cl.due
  BY DEF ClientType

\* client->lock is given back.
LEMMA GiveLock ==
  ASSUME NEW cl \in ClientType, NEW r, r = [cl EXCEPT !.lock = "none"]
  PROVE  /\ r \in ClientType /\ r.lock = "none"
         /\ r.state = cl.state /\ r.bits = cl.bits /\ r.tx = cl.tx
         /\ r.timeout = cl.timeout /\ r.error = cl.error
         /\ r.waitPong = cl.waitPong /\ r.due = cl.due
  BY DEF ClientType

\* What the case CONNECTED may change.
LEMMA KeepsAliveDoes ==
  ASSUME TypeOK, TaskKeepsAlive
  PROVE  /\ Switch("CONNECTED") /\ budget' = budget
         /\ c' \in ClientType /\ net' \in NetType /\ obs' \in ObsType
         /\ task' \in TaskType
         /\ c'.bits = c.bits /\ c'.lock = c.lock /\ c'.tx = c.tx
         /\ c'.timeout = c.timeout /\ obs'.torn = obs.torn
         /\ task'.pc = "after" \/ (task'.pc = "tx" /\ conf.sep)
         /\ \/ /\ c'.state = c.state /\ c'.error = c.error /\ obs' = obs
               /\ net'.link = net.link /\ net'.inbox = net.inbox
               /\ net'.open = net.open
               /\ net.pinged => net'.pinged
               /\ c'.waitPong => c.waitPong \/ (conf.pings /\ (net.link # "none" => net'.pinged))
            \/ /\ c.waitPong
               /\ c'.state \in {"WAIT_TIMEOUT", "UNKNOW"}
               /\ net' = NoLink
               /\ obs' = Event(obs, "DISCONNECTED")
<1>0. /\ c \in ClientType /\ net \in NetType /\ obs \in ObsType
      /\ Switch("CONNECTED") /\ budget' = budget /\ c.state = "CONNECTED"
  BY DEF TypeOK, TaskKeepsAlive, Switch
<1>. DEFINE reset == [c EXCEPT !.due = @ \ {"ping"}]
            wait == StartToWait(reset)
<1>1. /\ reset \in ClientType /\ reset.state = c.state /\ reset.bits = c.bits
      /\ reset.lock = c.lock /\ reset.tx = c.tx /\ reset.timeout = c.timeout
      /\ reset.error = c.error /\ reset.waitPong = c.waitPong
  BY <1>0 DEF ClientType
<1>. HIDE DEF reset
<1>2. CASE CloseSent
  <2>1. Go("after") /\ UNCHANGED <<c, net, obs>>
    BY <1>2 DEF TaskKeepsAlive
  <2>. QED BY <1>0, <2>1, GoDoes DEF Pcs
<1>3. CASE ~CloseSent /\ "ping" \notin c.due
  <2>1. Go("after") /\ CheckPong(c, net)
    BY <1>3 DEF TaskKeepsAlive
  <2>. QED BY <1>0, <2>1, GoDoes, CheckPongDoes DEF Pcs
<1>4. CASE ~CloseSent /\ "ping" \in c.due /\ ~conf.sep
  <2>1. Go("after") /\ CheckPong(wait, Pinged(net))
    BY <1>4 DEF TaskKeepsAlive, reset
  <2>2. PICK n : n = Pinged(net)
    OBVIOUS
  <2>3. /\ n \in NetType /\ n.link = net.link /\ n.inbox = net.inbox
        /\ n.open = net.open /\ (net.link # "none" => n.pinged)
        /\ (net.pinged => n.pinged)
    BY <1>0, <2>2, PingedDoes
  <2>4. PICK w : w = wait
    OBVIOUS
  <2>5. /\ w \in ClientType
        /\ w.state = c.state /\ w.bits = c.bits /\ w.lock = c.lock
        /\ w.tx = c.tx /\ w.timeout = c.timeout /\ w.error = c.error
        /\ w.waitPong => c.waitPong \/ conf.pings
        /\ w.waitPong /\ "pong" \in w.due => c.waitPong
    BY <1>1, <2>4, StartToWaitDoes
  <2>6. CheckPong(w, n)
    BY <2>1, <2>2, <2>4
  <2>7. task'.pc = "after" /\ task' \in TaskType
    BY <2>1, GoDoes DEF Pcs
  <2>. QED BY <1>0, <2>3, <2>5, <2>6, <2>7, CheckPongDoes
<1>5. CASE ~CloseSent /\ "ping" \in c.due /\ conf.sep
  <2>1. GoTx("ping", "after") /\ c' = reset /\ UNCHANGED <<net, obs>>
    BY <1>5 DEF TaskKeepsAlive, reset
  <2>. QED BY <1>0, <1>1, <1>5, <2>1, GoTxDoes
<1>. QED BY <1>2, <1>3, <1>4, <1>5

\* What an abort does, if there is anything to abort.
LEMMA ConnectsDoes ==
  ASSUME TypeOK, TaskConnects
  PROVE  /\ Switch("INIT")
         /\ c' \in ClientType /\ net' \in NetType /\ obs' \in ObsType
         /\ task' \in TaskType /\ budget' \in [faults : Nat, server : Nat, mic : Nat]
         /\ c'.state = "CONNECTED" /\ ~c'.waitPong /\ c'.error = "NONE"
         /\ c'.bits = c.bits \ {"CLOSE_FRAME_SENT"}
         /\ c'.lock \in {c.lock, "task"} /\ c'.tx = c.tx /\ c'.timeout = c.timeout
         /\ net'.link = "up" /\ net'.open = "none"
         /\ obs' = Event(Event(obs, "BEFORE_CONNECT"), "CONNECTED")
         /\ obs'.torn = obs.torn
         /\ task'.pc \in {"after", "lock"}
         /\ budget'.mic = budget.mic
<1>0. /\ c \in ClientType /\ net \in NetType /\ obs \in ObsType
      /\ budget \in [faults : Nat, server : Nat, mic : Nat] /\ task \in TaskType
      /\ Switch("INIT")
  BY DEF TypeOK, TaskConnects
<1>1. /\ obs' = Event(Event(obs, "BEFORE_CONNECT"), "CONNECTED")
      /\ obs' \in ObsType /\ obs'.torn = obs.torn
  BY <1>0, EventType DEF TaskConnects
<1>2. PICK r : r = AfterConnect(c)
  OBVIOUS
<1>3. /\ r \in ClientType
      /\ r.state = "CONNECTED" /\ ~r.waitPong /\ r.error = "NONE"
      /\ r.bits = c.bits \ {"CLOSE_FRAME_SENT"}
      /\ r.lock = c.lock /\ r.tx = c.tx /\ r.timeout = c.timeout
  BY <1>0, <1>2, ConnectDoes
<1>4. CASE /\ c' = AfterConnect(c)
           /\ net' = [NoLink EXCEPT !.link = "up"]
           /\ Go("after") /\ UNCHANGED budget
  <2>1. net' \in NetType /\ net'.link = "up" /\ net'.open = "none"
    BY <1>4, NoLinkIs DEF NetType
  <2>2. task'.pc = "after" /\ task' \in TaskType
    BY <1>4, GoDoes DEF Pcs
  <2>. QED BY <1>0, <1>1, <1>2, <1>3, <1>4, <2>1, <2>2
<1>5. CASE /\ budget.server > 0
           /\ budget' = [budget EXCEPT !.server = @ - 1]
           /\ c' = [AfterConnect(c) EXCEPT !.lock = "task"]
           /\ \E f \in {"TEXT", "PING"} :
                net' = [NoLink EXCEPT !.link = "up", !.inbox = <<f>>]
           /\ task' = [task EXCEPT !.pc = "lock", !.job = "recv", !.next = "after"]
  <2>1. net' \in NetType /\ net'.link = "up" /\ net'.open = "none"
    <3>1. PICK f \in {"TEXT", "PING"} :
            net' = [NoLink EXCEPT !.link = "up", !.inbox = <<f>>]
      BY <1>5
    <3>2. PICK box : box = <<f>>
      OBVIOUS
    <3>3. box \in Seq({"TEXT", "PING", "PONG", "CLOSE"})
      BY <3>2
    <3>4. net' = [NoLink EXCEPT !.link = "up", !.inbox = box]
      BY <3>1, <3>2
    <3>. QED BY <3>3, <3>4, NoLinkIs DEF NetType
  <2>2. task'.pc = "lock" /\ task' \in TaskType
    BY <1>0, <1>5 DEF TaskType
  <2>3. c' = [r EXCEPT !.lock = "task"]
    BY <1>2, <1>5
  <2>4. /\ c' \in ClientType /\ c'.lock = "task"
        /\ c'.state = "CONNECTED" /\ ~c'.waitPong /\ c'.error = "NONE"
        /\ c'.bits = r.bits /\ c'.tx = r.tx /\ c'.timeout = r.timeout
    BY <1>3, <2>3 DEF ClientType
  <2>5. budget' \in [faults : Nat, server : Nat, mic : Nat] /\ budget'.mic = budget.mic
    BY <1>0, <1>5
  <2>. QED BY <1>0, <1>1, <1>3, <1>5, <2>1, <2>2, <2>4, <2>5
<1>. QED BY <1>4, <1>5 DEF TaskConnects

\* What a failed attempt to connect may change.
LEMMA FailsToConnectDoes ==
  ASSUME TypeOK, TaskFailsToConnect
  PROVE  /\ Switch("INIT")
         /\ c' \in ClientType /\ net' \in NetType /\ obs' \in ObsType
         /\ task' \in TaskType /\ budget' \in [faults : Nat, server : Nat, mic : Nat]
         /\ c'.bits = c.bits /\ c'.lock = c.lock /\ c'.tx = c.tx
         /\ c'.waitPong = c.waitPong /\ c'.timeout = c.timeout
         /\ c'.error \in {c.error, "TCP"}
         /\ obs'.torn = obs.torn
         /\ task'.pc = "after"
         /\ budget'.mic = budget.mic
         /\ \/ c' = c /\ net' = net /\ obs' = Event(obs, "BEFORE_CONNECT")
            \/ /\ c'.state \in {"WAIT_TIMEOUT", "UNKNOW"}
               /\ net' = NoLink
               /\ obs' = Event(Event(obs, "BEFORE_CONNECT"), "DISCONNECTED")
<1>0. /\ c \in ClientType /\ net \in NetType /\ obs \in ObsType
      /\ budget \in [faults : Nat, server : Nat, mic : Nat]
      /\ Switch("INIT") /\ Fault /\ Go("after") /\ conf.auto \in BOOLEAN
  BY ConfFields DEF TypeOK, TaskFailsToConnect
<1>1. budget' \in [faults : Nat, server : Nat, mic : Nat] /\ budget'.mic = budget.mic
  BY <1>0 DEF Fault
<1>2. task'.pc = "after" /\ task' \in TaskType
  BY <1>0, GoDoes DEF Pcs
<1>3. CASE UNCHANGED <<c, net>> /\ obs' = Event(obs, "BEFORE_CONNECT")
  BY <1>0, <1>1, <1>2, <1>3, EventType
<1>4. CASE /\ c' = [c EXCEPT
                     !.state = IF conf.auto THEN "WAIT_TIMEOUT" ELSE "UNKNOW",
                     !.run   = conf.auto,
                     !.due   = {},
                     !.error = "TCP"]
           /\ net' = NoLink
           /\ obs' = Event(Event(obs, "BEFORE_CONNECT"), "DISCONNECTED")
  <2>1. PICK next : next = IF conf.auto THEN "WAIT_TIMEOUT" ELSE "UNKNOW"
    OBVIOUS
  <2>2. next \in {"WAIT_TIMEOUT", "UNKNOW"}
    BY <2>1
  <2>3. PICK run : run = conf.auto
    OBVIOUS
  <2>4. c' = [c EXCEPT !.state = next, !.run = run, !.due = {}, !.error = "TCP"]
    BY <1>4, <2>1, <2>3, Zenon
  <2>5. /\ c' \in ClientType /\ c'.state = next /\ c'.error = "TCP"
        /\ c'.bits = c.bits /\ c'.lock = c.lock /\ c'.tx = c.tx
        /\ c'.waitPong = c.waitPong /\ c'.timeout = c.timeout
    BY <1>0, <2>2, <2>3, <2>4 DEF ClientType
  <2>6. obs' \in ObsType /\ obs'.torn = obs.torn
    BY <1>0, <1>4, EventType
  <2>7. net' = NoLink /\ net' \in NetType
    BY <1>4, NoLinkIs
  <2>. QED BY <1>0, <1>1, <1>2, <1>4, <2>2, <2>5, <2>6, <2>7
<1>. QED BY <1>3, <1>4, Zenon DEF TaskFailsToConnect

\* What the task may change when it has tx_lock and client->lock.
LEMMA SendsControlDoes ==
  ASSUME TypeOK, TaskSendsControl
  PROVE  /\ At("relock") /\ Free(c.lock) /\ budget' = budget
         /\ c' \in ClientType /\ net' \in NetType /\ obs' \in ObsType
         /\ task' \in TaskType /\ task'.pc = task.next
         /\ c'.bits \in {c.bits, c.bits \union {"CLOSE_FRAME_SENT"}}
         /\ c'.lock = c.lock /\ c'.tx = "none"
         /\ c'.timeout = c.timeout /\ obs'.torn = obs.torn
         /\ \/ /\ c'.state = c.state /\ c'.error = c.error /\ obs' = obs
               /\ net'.link = net.link /\ net'.inbox = net.inbox
               /\ net'.open = net.open
               /\ net.pinged => net'.pinged
               /\ c'.waitPong => c.waitPong \/ (conf.pings /\ (net.link # "none" => net'.pinged))
            \/ /\ c.waitPong /\ c.state = "CONNECTED"
               /\ c'.state \in {"WAIT_TIMEOUT", "UNKNOW"}
               /\ net' = NoLink
               /\ obs' = Event(obs, "DISCONNECTED")
<1>0. /\ c \in ClientType /\ net \in NetType /\ obs \in ObsType /\ task \in TaskType
      /\ At("relock") /\ Free(c.lock) /\ budget' = budget /\ Go(task.next)
  BY DEF TypeOK, TaskSendsControl
<1>1. PICK given : given = [c EXCEPT !.tx = "none"]
  OBVIOUS
<1>2. /\ given \in ClientType /\ given.tx = "none"
      /\ given.state = c.state /\ given.bits = c.bits /\ given.lock = c.lock
      /\ given.timeout = c.timeout /\ given.error = c.error
      /\ given.waitPong = c.waitPong /\ given.due = c.due
  BY <1>0, <1>1, GiveTx
<1>3. task'.pc = task.next /\ task' \in TaskType
  <2>. task.next \in Pcs
    BY <1>0 DEF TaskType, Pcs
  <2>. QED BY <1>0, GoDoes
<1>4. CASE ~StillWanted(task.job)
  <2>1. c' = given /\ UNCHANGED <<net, obs>>
    BY <1>1, <1>4 DEF TaskSendsControl
  <2>. QED BY <1>0, <1>2, <1>3, <2>1
<1>5. CASE StillWanted(task.job) /\ task.job = "ping"
  <2>1. CheckPong(StartToWait(given), Pinged(net)) /\ Connected
    BY <1>1, <1>5 DEF TaskSendsControl, StillWanted
  <2>2. PICK n : n = Pinged(net)
    OBVIOUS
  <2>3. /\ n \in NetType /\ n.link = net.link /\ n.inbox = net.inbox
        /\ n.open = net.open /\ (net.link # "none" => n.pinged)
        /\ (net.pinged => n.pinged)
    BY <1>0, <2>2, PingedDoes
  <2>4. PICK w : w = StartToWait(given)
    OBVIOUS
  <2>5. /\ w \in ClientType /\ w.tx = "none"
        /\ w.state = c.state /\ w.bits = c.bits /\ w.lock = c.lock
        /\ w.timeout = c.timeout /\ w.error = c.error
        /\ w.waitPong => c.waitPong \/ conf.pings
        /\ w.waitPong /\ "pong" \in w.due => c.waitPong
    BY <1>2, <2>4, StartToWaitDoes
  <2>6. CheckPong(w, n) /\ c.state = "CONNECTED"
    BY <2>1, <2>2, <2>4 DEF Connected
  <2>. QED BY <1>0, <1>3, <2>3, <2>5, <2>6, CheckPongDoes
<1>6. CASE StillWanted(task.job) /\ task.job = "close"
  <2>1. c' = [given EXCEPT !.bits = @ \union {"CLOSE_FRAME_SENT"}]
        /\ UNCHANGED <<net, obs>>
    BY <1>1, <1>6 DEF TaskSendsControl
  <2>2. /\ c' \in ClientType /\ c'.bits = c.bits \union {"CLOSE_FRAME_SENT"}
        /\ c'.state = c.state /\ c'.error = c.error /\ c'.waitPong = c.waitPong
        /\ c'.lock = c.lock /\ c'.tx = "none" /\ c'.timeout = c.timeout
    BY <1>2, <2>1 DEF ClientType
  <2>. QED BY <1>0, <1>3, <2>1, <2>2
<1>7. CASE StillWanted(task.job) /\ task.job \notin {"ping", "close"}
  <2>1. c' = given /\ UNCHANGED <<net, obs>>
    BY <1>1, <1>7 DEF TaskSendsControl
  <2>. QED BY <1>0, <1>2, <1>3, <2>1
<1>. QED BY <1>4, <1>5, <1>6, <1>7

\* What reading one frame may change, the connection being there or not.
LEMMA ReceivesDoes ==
  ASSUME TypeOK, TaskReceives
  PROVE  /\ At("lock") /\ c.lock \in {"none", "task"} /\ budget' = budget
         /\ c' \in ClientType /\ net' \in NetType /\ obs' \in ObsType
         /\ task' \in TaskType /\ task'.pc \in {task.next, "tx"}
         /\ task'.pc = "tx" => conf.sep
         /\ c'.bits = c.bits /\ c'.lock = "none" /\ c'.tx = c.tx
         /\ c'.timeout = c.timeout /\ obs'.torn = obs.torn
         /\ \/ /\ net.inbox = <<>>
               /\ NothingToAbort(c.state) /\ c'.state = c.state
               /\ c'.error = c.error /\ c'.waitPong = c.waitPong
               /\ net' = net /\ obs' = obs
            \/ /\ net.inbox = <<>> /\ ~NothingToAbort(c.state)
               /\ c'.state \in {"WAIT_TIMEOUT", "UNKNOW"} /\ c'.error = "TCP"
               /\ net' = NoLink
               /\ obs' = Event(obs, "DISCONNECTED")
            \/ /\ net.inbox # <<>>
               /\ c'.state \in {c.state, "CLOSING"} /\ c'.error = c.error
               /\ obs' = Event(obs, "DATA")
               /\ net'.link = net.link /\ net'.open = net.open
               /\ net'.inbox = Tail(net.inbox)
               /\ \/ ~c'.waitPong
                  \/ c'.waitPong = c.waitPong /\ net'.pinged = net.pinged
<1>0. /\ c \in ClientType /\ net \in NetType /\ obs \in ObsType /\ task \in TaskType
      /\ At("lock") /\ c.lock \in {"none", "task"} /\ budget' = budget
  BY DEF TypeOK, TaskReceives
<1>1. PICK given : given = [c EXCEPT !.lock = "none"]
  OBVIOUS
<1>2. /\ given \in ClientType /\ given.lock = "none"
      /\ given.state = c.state /\ given.bits = c.bits /\ given.tx = c.tx
      /\ given.timeout = c.timeout /\ given.error = c.error
      /\ given.waitPong = c.waitPong /\ given.due = c.due
  BY <1>0, <1>1, GiveLock
<1>3. /\ task.next \in {"loop", "after"}
      /\ Go(task.next) => task'.pc = task.next /\ task' \in TaskType
  <2>1. task.next \in {"loop", "after"}
    BY <1>0 DEF TaskType
  <2>2. task.next \in Pcs
    BY <2>1 DEF Pcs
  <2>. QED BY <2>1, <2>2, GoDoes
<1>4. CASE net.inbox = <<>>
  <2>1. Go(task.next) /\ Abort(given, "TCP")
    BY <1>1, <1>4 DEF TaskReceives
  <2>2. /\ c' \in ClientType /\ net' \in NetType /\ obs' \in ObsType
        /\ c'.bits = c.bits /\ c'.lock = "none" /\ c'.tx = c.tx
        /\ c'.timeout = c.timeout /\ obs'.torn = obs.torn
        /\ \/ /\ NothingToAbort(c.state)
              /\ c' = given /\ net' = net /\ obs' = obs
           \/ /\ ~NothingToAbort(c.state)
              /\ c'.state \in {"WAIT_TIMEOUT", "UNKNOW"} /\ c'.error = "TCP"
              /\ net' = NoLink
              /\ obs' = Event(obs, "DISCONNECTED")
    BY <1>0, <1>2, <2>1, AbortDoes
  <2>3. task'.pc = task.next /\ task' \in TaskType
    BY <1>3, <2>1
  <2>. QED BY <1>0, <1>2, <1>3, <1>4, <2>2, <2>3
<1>5. CASE net.inbox # <<>>
  <2>. DEFINE read == [net EXCEPT !.inbox = Tail(@)]
              f == Head(net.inbox)
  <2>1. /\ obs' = Event(obs, "DATA")
        /\ f = "PONG" => /\ c' = [given EXCEPT !.waitPong = FALSE,
                                              !.due = @ \ {"pong"}]
                        /\ net' = [read EXCEPT !.pinged = FALSE]
        /\ f = "CLOSE" => c' = [given EXCEPT !.state = "CLOSING"] /\ net' = read
        /\ f \notin {"PONG", "CLOSE"} => c' = given /\ net' = read
        /\ IF f = "PING" /\ conf.sep THEN GoTx("pong", task.next) ELSE Go(task.next)
    BY <1>1, <1>5, Zenon DEF TaskReceives
  <2>2. obs' \in ObsType /\ obs'.torn = obs.torn
    BY <1>0, <2>1, EventType
  <2>3. task' \in TaskType /\ task'.pc \in {task.next, "tx"}
        /\ (task'.pc = "tx" => conf.sep)
    BY <1>0, <1>3, <2>1, GoTxDoes DEF TaskType
  <2>4. /\ read \in NetType /\ read.link = net.link /\ read.open = net.open
        /\ read.inbox = Tail(net.inbox) /\ read.pinged = net.pinged
    <3>1. PICK rest : rest = Tail(net.inbox)
      OBVIOUS
    <3>2. rest \in Seq({"TEXT", "PING", "PONG", "CLOSE"})
      BY <1>0, <1>5, <3>1 DEF NetType
    <3>3. read = [net EXCEPT !.inbox = rest]
      BY <3>1
    <3>. HIDE DEF read
    <3>. QED BY <1>0, <3>1, <3>2, <3>3 DEF NetType
  <2>. HIDE DEF read
  <2>5. CASE f = "PONG"
    <3>1. /\ c' \in ClientType /\ c'.lock = "none" /\ ~c'.waitPong
          /\ c'.state = c.state /\ c'.bits = c.bits /\ c'.tx = c.tx
          /\ c'.timeout = c.timeout /\ c'.error = c.error
      <4>1. c' = [given EXCEPT !.waitPong = FALSE, !.due = @ \ {"pong"}]
        BY <2>1, <2>5
      <4>. QED BY <1>2, <4>1 DEF ClientType
    <3>2. /\ net' \in NetType /\ net'.link = net.link /\ net'.open = net.open
          /\ net'.inbox = Tail(net.inbox)
      BY <2>1, <2>4, <2>5 DEF NetType
    <3>. QED BY <1>0, <1>5, <2>1, <2>2, <2>3, <3>1, <3>2
  <2>6. CASE f = "CLOSE"
    <3>1. /\ c' \in ClientType /\ c'.lock = "none" /\ c'.waitPong = c.waitPong
          /\ c'.state = "CLOSING" /\ c'.bits = c.bits /\ c'.tx = c.tx
          /\ c'.timeout = c.timeout /\ c'.error = c.error
      BY <1>2, <2>1, <2>6 DEF ClientType
    <3>. QED BY <1>0, <1>5, <2>1, <2>2, <2>3, <2>4, <2>6, <3>1
  <2>7. CASE f \notin {"PONG", "CLOSE"}
    BY <1>0, <1>2, <1>5, <2>1, <2>2, <2>3, <2>4, <2>7
  <2>. QED BY <2>5, <2>6, <2>7
<1>. QED BY <1>4, <1>5

-----------------------------------------------------------------------------
(* The frames of a message. *)

\* One frame of the loop that sends a message.
Piece(o, fin, left) ==
  [op |-> o, fin |-> fin /\ Fits(left, Buffer),
   len |-> IF left > Buffer THEN Buffer ELSE left]

\* f gives the frames of a message from each position on.
IsRest(f, fin, len) ==
  f = [widx \in 0 .. len |->
         IF widx = len THEN <<>>
         ELSE <<Piece("CONT", fin, len - widx)>>
                \o f[widx + Piece("CONT", fin, len - widx).len]]

\* The frames for one and two bytes more than nothing, and their lengths.
LEMMA PieceIs ==
  ASSUME NEW op, NEW fin \in BOOLEAN, NEW left \in Nat
  PROVE  Piece(op, fin, left)
           = IF left > Buffer THEN [op |-> op, fin |-> FALSE, len |-> Buffer]
                              ELSE [op |-> op, fin |-> fin, len |-> left]
<1>0. Buffer = 2
  BY DEF Buffer
<1>1. CASE left > Buffer
  <2>1. (fin /\ Fits(left, Buffer)) = FALSE
    BY <1>0, <1>1 DEF Fits
  <2>2. (IF left > Buffer THEN Buffer ELSE left) = Buffer
    BY <1>1
  <2>3. Piece(op, fin, left) = [op |-> op, fin |-> FALSE, len |-> Buffer]
    BY <2>1, <2>2, Zenon DEF Piece
  <2>. QED BY <1>1, <2>3
<1>2. CASE ~(left > Buffer)
  <2>1. (fin /\ Fits(left, Buffer)) = fin
    BY <1>0, <1>2 DEF Fits
  <2>2. (IF left > Buffer THEN Buffer ELSE left) = left
    BY <1>2
  <2>3. Piece(op, fin, left) = [op |-> op, fin |-> fin, len |-> left]
    BY <2>1, <2>2, Zenon DEF Piece
  <2>. QED BY <1>2, <2>3
<1>. QED BY <1>1, <1>2

\* At the end of a message there is no frame left.
LEMMA RestEnds ==
  ASSUME NEW f, NEW fin, NEW len \in Nat, IsRest(f, fin, len)
  PROVE  f[len] = <<>>
<1>. len \in 0 .. len
  OBVIOUS
<1>. QED BY DEF IsRest

\* The loop, with its first frame and a function for the others.
LEMMA LoopUnfolds ==
  ASSUME NEW op, NEW fin, NEW len, NEW g, IsRest(g, fin, len),
         ~(len = 0 /\ op = "CONT" /\ ~fin)
  PROVE  \E f : /\ IsRest(f, fin, len)
                /\ SendLoop(op, fin, len, Buffer)
                     = <<Piece(op, fin, len)>> \o f[Piece(op, fin, len).len]
<1>. DEFINE f == CHOOSE f : IsRest(f, fin, len)
<1>1. IsRest(f, fin, len)
  OBVIOUS
<1>2. SendLoop(op, fin, len, Buffer)
        = <<Piece(op, fin, len)>> \o f[Piece(op, fin, len).len]
  BY DEF SendLoop, IsRest, Piece
<1>. HIDE DEF f
<1>. QED BY <1>1, <1>2

\* A message that fits the buffer is one frame.
LEMMA OneChunk ==
  ASSUME NEW op, NEW fin \in BOOLEAN
  PROVE  SendLoop(op, fin, 1, Buffer) = <<[op |-> op, fin |-> fin, len |-> 1]>>
<1>0. Buffer = 2
  BY DEF Buffer
<1>. DEFINE p(o) == [op |-> o, fin |-> fin, len |-> 1]
            g == [w \in 0 .. 1 |-> IF w = 1 THEN <<>> ELSE <<p("CONT")>>]
<1>1. \A o : Piece(o, fin, 1) = p(o) /\ p(o).len = 1 /\ <<p(o)>> = <<p(o)>> \o <<>>
  BY <1>0, PieceIs
<1>. HIDE DEF p
<1>2. IsRest(g, fin, 1)
  <2>1. ASSUME NEW w \in 0 .. 1
        PROVE  g[w] = IF w = 1 THEN <<>> ELSE <<Piece("CONT", fin, 1 - w)>>
                        \o g[w + Piece("CONT", fin, 1 - w).len]
    <3>1. CASE w = 1
      BY <3>1
    <3>2. CASE w = 0
      <4>. 1 - w = 1 /\ w + 1 = 1 /\ g[0] = <<p("CONT")>> /\ g[1] = <<>>
        BY <3>2
      <4>. HIDE DEF g
      <4>. QED BY <3>2, <1>1
    <3>. QED BY <3>1, <3>2
  <2>. QED BY <2>1 DEF IsRest
<1>3. ~(1 = 0 /\ op = "CONT" /\ ~fin)
  OBVIOUS
<1>. HIDE DEF g
<1>4. PICK f : /\ IsRest(f, fin, 1)
               /\ SendLoop(op, fin, 1, Buffer)
                    = <<Piece(op, fin, 1)>> \o f[Piece(op, fin, 1).len]
  BY <1>2, <1>3, LoopUnfolds
<1>5. f[1] = <<>>
  BY <1>4, RestEnds
<1>. QED BY <1>1, <1>4, <1>5 DEF p

\* A message without bytes is one frame, but for an empty continuation.
LEMMA NoBytes ==
  ASSUME NEW op
  PROVE  SendLoop(op, TRUE, 0, Buffer) = <<[op |-> op, fin |-> TRUE, len |-> 0]>>
<1>0. Buffer = 2
  BY DEF Buffer
<1>. DEFINE p == [op |-> op, fin |-> TRUE, len |-> 0]
            g == [w \in 0 .. 0 |-> <<>>]
<1>1. Piece(op, TRUE, 0) = p /\ p.len = 0 /\ <<p>> = <<p>> \o <<>>
  <2>. TRUE \in BOOLEAN /\ 0 \in Nat /\ ~(0 > Buffer)
    BY <1>0
  <2>1. Piece(op, TRUE, 0) = p
    BY PieceIs, Zenon
  <2>2. p.len = 0
    OBVIOUS
  <2>. HIDE DEF p
  <2>3. <<p>> = <<p>> \o <<>>
    OBVIOUS
  <2>. QED BY <2>1, <2>2, <2>3, Zenon
<1>2. IsRest(g, TRUE, 0)
  BY DEF IsRest
<1>3. ~(0 = 0 /\ op = "CONT" /\ ~TRUE)
  OBVIOUS
<1>. HIDE DEF g, p
<1>4. PICK f : /\ IsRest(f, TRUE, 0)
               /\ SendLoop(op, TRUE, 0, Buffer)
                    = <<Piece(op, TRUE, 0)>> \o f[Piece(op, TRUE, 0).len]
  BY <1>2, <1>3, LoopUnfolds
<1>5. f[0] = <<>>
  BY <1>4, RestEnds
<1>. QED BY <1>1, <1>4, <1>5 DEF p

\* Two frames, one after the other.
LEMMA Glue == ASSUME NEW a, NEW b PROVE <<a>> \o <<b>> = <<a,b>>
<1>. DEFINE s == <<a>> \o <<b>>  t == <<a, b>>
<1>1. s \in Seq({a,b}) /\ t \in Seq({a, b})
  OBVIOUS
<1>2. Len(s) = 2 /\ Len(t) = 2
  OBVIOUS
<1>3. \A i \in 1 .. Len(s) : s[i] = t[i]
  OBVIOUS
<1>. HIDE DEF s, t
<1>4. s = t
  BY <1>1, <1>2, <1>3, SeqEqual
<1> QED BY <1>4 DEF s, t

\* A message longer than the buffer is two frames, the last with FIN.
LEMMA TwoChunks ==
  ASSUME NEW op
  PROVE  SendLoop(op, TRUE, Buffer + 1, Buffer)
           = <<[op |-> op, fin |-> FALSE, len |-> Buffer], Rest>>
<1>0. Buffer = 2 /\ Buffer + 1 = 3
  BY DEF Buffer
<1>. DEFINE first(o) == [op |-> o, fin |-> FALSE, len |-> Buffer]
            p(left) == Piece("CONT", TRUE, left)
            g == [w \in 0 .. 3 |->
                    IF w = 3 THEN <<>> ELSE IF w = 2 THEN <<p(1)>>
                    ELSE IF w = 1 THEN <<p(2)>> ELSE <<p(3), p(1)>>]
<1>1. /\ p(1).len = 1 /\ p(2).len = 2 /\ p(3).len = 2
      /\ \A o : Piece(o, TRUE, 3) = first(o) /\ first(o).len = 2
      /\ p(1) = Rest
  <2>1. /\ TRUE \in BOOLEAN /\ 1 \in Nat /\ 2 \in Nat /\ 3 \in Nat
        /\ ~(1 > Buffer) /\ ~(2 > Buffer) /\ 3 > Buffer
    BY <1>0
  <2>2. /\ p(1) = Rest
        /\ p(2) = [op |-> "CONT", fin |-> TRUE, len |-> 2]
        /\ \A o : Piece(o, TRUE, 3) = first(o)
    BY <2>1, PieceIs, Zenon DEF Rest
  <2>3. Rest.len = 1
    BY DEF Rest
  <2>4. p(2).len = 2
    <3>. [op |-> "CONT", fin |-> TRUE, len |-> 2].len = 2
      OBVIOUS
    <3>. QED BY <2>2, Zenon
  <2>5. \A o : first(o).len = 2
    BY <1>0
  <2>6. \A o : Piece(o, TRUE, 3) = first(o) /\ first(o).len = 2
    BY <2>2, <2>5, Zenon
  <2>7. p(3).len = 2
    BY <2>6, Zenon DEF p
  <2>. QED BY <2>2, <2>3, <2>4, <2>6, <2>7, Zenon
<1>. HIDE DEF p, g, first
<1>2. IsRest(g, TRUE, 3)
  <2>1. /\ g[3] = <<>> /\ g[2] = <<p(1)>>
        /\ g[1] = <<p(2)>> /\ g[0] = <<p(3), p(1)>>
    BY DEF g
  <2>2. /\ <<p(1)>> = <<p(1)>> \o <<>> /\ <<p(2)>> = <<p(2)>> \o <<>>
        /\ <<p(3), p(1)>> = <<p(3)>> \o <<p(1)>>
    BY Glue
  <2>3. ASSUME NEW w \in 0 .. 3
        PROVE  g[w] = IF w = 3 THEN <<>> ELSE <<p(3 - w)>> \o g[w + p(3 - w).len]
    <3>1. CASE w = 3
      BY <3>1, <2>1
    <3>2. CASE w = 2
      <4>. 3 - w = 1 /\ w + 1 = 3
        BY <3>2
      <4>. QED BY <3>2, <1>1, <2>1, <2>2
    <3>3. CASE w = 1
      <4>. 3 - w = 2 /\ w + 2 = 3
        BY <3>3
      <4>. QED BY <3>3, <1>1, <2>1, <2>2
    <3>4. CASE w = 0
      <4>. 3 - w = 3 /\ w + 2 = 2
        BY <3>4
      <4>. QED BY <3>4, <1>1, <2>1, <2>2
    <3>. QED BY <3>1, <3>2, <3>3, <3>4
  <2>4. g = [w \in 0 .. 3 |-> g[w]]
    BY DEF g
  <2>. QED BY <2>3, <2>4 DEF IsRest, p
<1>3. ~(3 = 0 /\ op = "CONT" /\ ~TRUE)
  OBVIOUS
<1>4. PICK f : /\ IsRest(f, TRUE, 3)
               /\ SendLoop(op, TRUE, 3, Buffer)
                    = <<Piece(op, TRUE, 3)>> \o f[Piece(op, TRUE, 3).len]
  BY <1>2, <1>3, LoopUnfolds
<1>5. f[3] = <<>>
  BY <1>4, RestEnds
<1>6. f[2] = <<Rest>> \o f[2 + Rest.len]
  <2>1. 3 - 2 = 1
    OBVIOUS
  <2>2. Rest = Piece("CONT", TRUE, 3 - 2)
    BY <1>1, <2>1 DEF p
  <2>3. 3 \in Nat /\ 2 \in 0 .. 3 /\ 2 # 3
    OBVIOUS
  <2>4. f[2] = <<Piece("CONT", TRUE, 3 - 2)>>
                 \o f[2 + Piece("CONT", TRUE, 3 - 2).len]
    <3>1. \A w \in 0 .. 3 : w # 3 =>
            f[w] = <<Piece("CONT", TRUE, 3 - w)>>
                     \o f[w + Piece("CONT", TRUE, 3 - w).len]
      <4>1. IsRest(f, TRUE, 3)
        BY <1>4, Zenon
      <4>. QED BY <4>1, Zenon DEF IsRest
    <3>. QED BY <2>3, <3>1, Zenon
  <2>. QED BY <2>2, <2>4, Zenon
<1>7. f[2] = <<Rest>>
  <2>. 2 + Rest.len = 3 /\ <<Rest>> \o <<>> = <<Rest>>
    BY DEF Rest
  <2>. QED BY <1>5, <1>6
<1>8. SendLoop(op, TRUE, Buffer + 1, Buffer) = <<first(op)>> \o <<Rest>>
  BY <1>0, <1>1, <1>4, <1>7
<1>. QED BY <1>8, Glue, Zenon DEF first

-----------------------------------------------------------------------------
(* The callers. *)

\* The frames of every call that sends.
LEMMA FramesAre ==
  /\ \A op \in {"hello", "text"} :
       FramesOf(op) = <<[op |-> "TEXT", fin |-> TRUE, len |-> 1]>>
  /\ FramesOf("partial") = <<[op |-> "TEXT", fin |-> FALSE, len |-> 1]>>
  /\ FramesOf("cont") = <<[op |-> "CONT", fin |-> FALSE, len |-> 1]>>
  /\ FramesOf("fin") = <<[op |-> "CONT", fin |-> TRUE, len |-> 0]>>
  /\ FramesOf("long") = <<Begin, Rest>>
  /\ FramesOf("close") = <<[op |-> "CLOSE", fin |-> TRUE, len |-> 0]>>
<1>1. \A op \in {"hello", "text"} : FramesOf(op) = SendLoop("TEXT", TRUE, 1, Buffer)
  BY Zenon DEF FramesOf
<1>2. /\ FramesOf("partial") = SendLoop("TEXT", FALSE, 1, Buffer)
      /\ FramesOf("cont") = SendLoop("CONT", FALSE, 1, Buffer)
      /\ FramesOf("fin") = SendLoop("CONT", TRUE, 0, Buffer)
      /\ FramesOf("long") = SendLoop("TEXT", TRUE, Buffer + 1, Buffer)
      /\ FramesOf("close") = SendLoop("CLOSE", TRUE, 0, Buffer)
  BY Zenon DEF FramesOf
<1>3. TRUE \in BOOLEAN /\ FALSE \in BOOLEAN
  OBVIOUS
<1>. QED BY <1>1, <1>2, <1>3, OneChunk, NoBytes, TwoChunks, Zenon DEF Begin

\* A call that sends has frames to send.
LEMMA FramesType ==
  ASSUME NEW op \in Sends
  PROVE  FramesOf(op) \in Seq(Frame) /\ FramesOf(op) # <<>>
<1>0. Buffer = 2
  BY DEF Buffer
<1>1. ASSUME NEW o \in {"TEXT", "CONT", "CLOSE"}, NEW f \in BOOLEAN, NEW n \in 0 .. 2
      PROVE  /\ [op |-> o, fin |-> f, len |-> n] \in Frame
             /\ <<[op |-> o, fin |-> f, len |-> n]>> \in Seq(Frame)
  BY <1>0 DEF Frame
<1>2. Begin \in Frame /\ Rest \in Frame
  BY <1>0 DEF Begin, Rest, Frame
<1>3. <<Begin, Rest>> \in Seq(Frame)
  BY <1>2
<1>4. /\ "TEXT" \in {"TEXT", "CONT", "CLOSE"} /\ "CONT" \in {"TEXT", "CONT", "CLOSE"}
      /\ "CLOSE" \in {"TEXT", "CONT", "CLOSE"}
      /\ TRUE \in BOOLEAN /\ FALSE \in BOOLEAN /\ 0 \in 0 .. 2 /\ 1 \in 0 .. 2
  OBVIOUS
<1>5. ASSUME NEW a PROVE <<a>> # <<>>
  OBVIOUS
<1>6. <<Begin, Rest>> # <<>>
  OBVIOUS
<1>7. CASE op \in {"hello", "text"}
  BY <1>7, <1>1, <1>4, <1>5, FramesAre, Zenon
<1>8. CASE op = "partial"
  BY <1>8, <1>1, <1>4, <1>5, FramesAre, Zenon
<1>9. CASE op = "cont"
  BY <1>9, <1>1, <1>4, <1>5, FramesAre, Zenon
<1>10. CASE op = "fin"
  BY <1>10, <1>1, <1>4, <1>5, FramesAre, Zenon
<1>11. CASE op = "long"
  BY <1>11, <1>3, <1>6, FramesAre, Zenon
<1>12. CASE op = "close"
  BY <1>12, <1>1, <1>4, <1>5, FramesAre, Zenon
<1>. QED
  BY <1>7, <1>8, <1>9, <1>10, <1>11, <1>12 DEF Sends

\* Where in its program a caller makes which call.
LEMMA ScriptIs ==
  ASSUME TypeOK
  PROVE  /\ Op = "init" <=> app.ip = 1
         /\ Done => Op = "none"
         /\ conf.script = "device" => Op \in {"init", "start", "text", "none"}
         /\ Op = "text" => conf.script = "device"
         /\ Op \in {"partial", "cont", "fin"} => conf.script = "linux" /\ app.ip \in {5, 6, 7}
         /\ Op = "partial" => app.ip = 5
         /\ Op = "cont" => app.ip = 6
         /\ Op = "fin" => app.ip = 7
         /\ Op = "long" => conf.script = "example" /\ app.ip = 4
         /\ Op = "close" => conf.script = "example" /\ app.ip = 5
         /\ Op = "hello" => \/ conf.script = "example" /\ app.ip = 3
                            \/ conf.script = "linux" /\ app.ip = 4
                            \/ conf.script = "testee"
         /\ Op \in {"none", "init", "header", "start", "delay", "timeout", "stop", "destroy"} \union Sends
<1>. conf.script \in {"example", "linux", "device", "testee"} /\ app.ip \in Nat /\ app.ip # 0
  BY ConfFields DEF TypeOK, AppType
<1>1. CASE conf.script = "example"
  BY <1>1 DEF Op, Done, Script, Example, Sends
<1>2. CASE conf.script = "linux"
  BY <1>2 DEF Op, Done, Script, Linux, Sends
<1>3. CASE conf.script = "device"
  BY <1>3 DEF Op, Done, Script, Device, Sends
<1>4. CASE conf.script = "testee"
  BY <1>4 DEF Op, Done, Script, Testee, Sends
<1>. QED BY <1>1, <1>2, <1>3, <1>4

\* A call returns: the caller stands before the next one of its script.
LEMMA NextCall ==
  ASSUME TypeOK, Op # "none", Returned, conf' = conf
  PROVE  /\ app' \in AppType /\ app'.ip = app.ip + 1 /\ app'.ip > 1
         /\ app'.pc = "run"
         /\ Previous' = Op
         /\ Op' # "init"
         /\ Op' = "header" => Op = "init"
         /\ Op' = "start" => Op \in {"init", "header", "stop"}
         /\ Op = "stop" => Op' \in {"start", "destroy"}
         /\ Op = "destroy" => Op' = "none"
<1>1. conf.script \in {"example", "linux", "device", "testee"}
  BY ConfFields DEF TypeOK
<1>2. app.ip \in Nat /\ app.ip # 0 /\ app' = [ip |-> app.ip + 1, pc |-> "run"]
  BY DEF TypeOK, AppType, Returned
<1>3. app' \in AppType /\ app'.ip = app.ip + 1 /\ app'.ip > 1 /\ app'.pc = "run"
  BY <1>2 DEF AppType
<1>4. CASE conf.script = "example"
  BY <1>2, <1>3, <1>4 DEF Op, Done, Script, Example, Previous
<1>5. CASE conf.script = "linux"
  BY <1>2, <1>3, <1>5 DEF Op, Done, Script, Linux, Previous
<1>6. CASE conf.script = "device"
  BY <1>2, <1>3, <1>6 DEF Op, Done, Script, Device, Previous
<1>7. CASE conf.script = "testee"
  BY <1>2, <1>3, <1>7 DEF Op, Done, Script, Testee, Previous
<1>. QED BY <1>1, <1>4, <1>5, <1>6, <1>7

\* The caller stays in its call.
LEMMA SameCall ==
  ASSUME app'.ip = app.ip, conf' = conf
  PROVE  Op' = Op /\ Previous' = Previous /\ Done' = Done
  BY DEF Op, Previous, Done

\* The lock for sending changes hands, and nothing else.
LEMMA WithLock ==
  ASSUME c \in ClientType, NEW owner \in Threads \union {"none"},
         NEW r, r = WithSendLock(owner)
  PROVE  /\ r \in ClientType
         /\ r.state = c.state /\ r.bits = c.bits /\ r.timeout = c.timeout
         /\ r.error = c.error /\ r.waitPong = c.waitPong /\ r.due = c.due
         /\ conf.sep => r.tx = owner /\ r.lock = c.lock
         /\ ~conf.sep => r.lock = owner /\ r.tx = c.tx
  BY DEF WithSendLock, ClientType

\* What leaving a send call may change.
LEMMA LeaveDoes ==
  ASSUME TypeOK, NEW th \in Threads, NEW ok \in BOOLEAN, Leave(th, ok),
         th = "mic" => budget.mic > 0, th = "app" => Op # "none", conf' = conf
  PROVE  /\ send' \in [Threads -> SendType]
         /\ send'[th] = Idle /\ Idle.pc = "idle"
         /\ \A other \in Threads : other # th => send'[other] = send[other]
         /\ app' \in AppType
         /\ budget' \in [faults : Nat, server : Nat, mic : Nat]
         /\ th = "mic" => app' = app
         /\ th = "app" =>
              /\ budget' = budget
              /\ \/ app'.ip = app.ip /\ app'.pc = "sent" /\ Op = "close" /\ ok
                 \/ Returned
<1>1. /\ send \in [Threads -> SendType] /\ app \in AppType
      /\ budget \in [faults : Nat, server : Nat, mic : Nat]
  BY DEF TypeOK
<1>2. send' = [send EXCEPT ![th] = Idle]
  BY DEF Leave
<1>3. Idle \in SendType /\ Idle.pc = "idle"
  BY DEF Idle, SendType
<1>4. CASE th = "mic"
  <2>1. app' = app /\ budget' = [budget EXCEPT !.mic = @ - 1]
    BY <1>4 DEF Leave
  <2>2. budget' \in [faults : Nat, server : Nat, mic : Nat]
    BY <1>1, <1>4, <2>1
  <2>. QED BY <1>1, <1>2, <1>3, <1>4, <2>1, <2>2
<1>5. CASE th = "app"
  <2>1. budget' = budget
    BY <1>5 DEF Leave
  <2>2. CASE ok /\ Op = "close"
    <3>1. app' = [app EXCEPT !.pc = "sent"]
      BY <1>5, <2>2 DEF Leave
    <3>2. app' \in AppType /\ app'.ip = app.ip /\ app'.pc = "sent"
      BY <1>1, <3>1 DEF AppType
    <3>. QED BY <1>1, <1>2, <1>3, <1>5, <2>1, <2>2, <3>2
  <2>3. CASE ~(ok /\ Op = "close")
    <3>1. Returned
      BY <1>5, <2>3 DEF Leave
    <3>2. app' \in AppType
      BY <3>1, NextCall, <1>5
    <3>. QED BY <1>1, <1>2, <1>3, <1>5, <2>1, <3>1, <3>2
  <2>. QED BY <2>2, <2>3
<1>. QED BY <1>4, <1>5 DEF Threads

\* Who is inside a send call.
LEMMA InCall ==
  ASSUME TypeOK, CallInv, NEW th \in Threads, send[th].pc # "idle"
  PROVE  /\ th = "mic" => budget.mic > 0 /\ conf.script = "device"
         /\ th = "app" => Op # "none" /\ Op \in Sends /\ app.pc = "run"
<1>1. send[th] # Idle
  BY DEF Idle
<1>2. "none" \notin Sends
  BY DEF Sends
<1>. QED BY <1>1, <1>2 DEF CallInv, Threads

\* What the entry of a send call may change.
LEMMA CheckDoes ==
  ASSUME TypeOK, NEW th \in Threads, SendCheck(th)
  PROVE  /\ c' = c /\ net' = net /\ task' = task /\ obs' = obs /\ heap' = heap /\ conf' = conf
         /\ send[th].pc = "idle" /\ (th = "app" => app.pc = "run" /\ Op \in Sends)
         /\ th = "mic" => conf.script = "device" /\ budget.mic > 0 /\ obs.connected
         /\ send' \in [Threads -> SendType]
         /\ \A other \in Threads : other # th => send'[other] = send[other]
         /\ app' \in AppType
         /\ budget' \in [faults : Nat, server : Nat, mic : Nat]
         /\ \/ /\ Connected /\ app' = app /\ budget' = budget
               /\ send'[th].pc = "lock"
               /\ send'[th].left = IF th = "mic" THEN FramesOf("long") ELSE FramesOf(Op)
            \/ /\ send'[th] = Idle /\ Idle.pc = "idle"
               /\ th = "mic" => app' = app
               /\ th = "app" => Returned /\ Op # "none" /\ budget' = budget
<1>0. /\ send \in [Threads -> SendType] /\ app \in AppType
      /\ budget \in [faults : Nat, server : Nat, mic : Nat]
  BY DEF TypeOK
<1>1. /\ c' = c /\ net' = net /\ task' = task /\ obs' = obs /\ heap' = heap /\ conf' = conf
      /\ send[th].pc = "idle" /\ (th = "app" => app.pc = "run") /\ Wants(th)
  BY DEF SendCheck
<1>2. /\ th = "app" => Op \in Sends /\ Op # "none"
      /\ th = "mic" => conf.script = "device" /\ budget.mic > 0 /\ obs.connected
  BY <1>1, Zenon DEF Wants, Sends, Threads
<1>3. CASE Connected
  <2>1. PICK frames : frames = FramesOf(IF th = "mic" THEN "long" ELSE Op)
    OBVIOUS
  <2>2. /\ send' = [send EXCEPT ![th] = [pc |-> "lock", left |-> frames]]
        /\ app' = app /\ budget' = budget
    BY <1>3, <2>1 DEF SendCheck
  <2>3. frames \in Seq(Frame)
    BY <1>2, <2>1, FramesType DEF Sends, Threads
  <2>4. frames = IF th = "mic" THEN FramesOf("long") ELSE FramesOf(Op)
    BY <2>1
  <2>5. [pc |-> "lock", left |-> frames] \in SendType
    BY <2>3 DEF SendType
  <2>. QED BY <1>0, <1>1, <1>2, <1>3, <2>2, <2>4, <2>5
<1>4. CASE ~Connected
  <2>1. Leave(th, FALSE)
    BY <1>4 DEF SendCheck
  <2>. QED BY <1>1, <1>2, <2>1, LeaveDoes
<1>. QED BY <1>3, <1>4

\* What taking the lock for sending changes.
LEMMA TakesLockDoes ==
  ASSUME TypeOK, NEW th \in Threads, SendTakesLock(th)
  PROVE  /\ net' = net /\ task' = task /\ obs' = obs /\ heap' = heap /\ conf' = conf
         /\ app' = app /\ budget' = budget
         /\ send[th].pc = "lock" /\ Free(SendLock)
         /\ send' \in [Threads -> SendType]
         /\ send'[th].pc = "write" /\ send'[th].left = send[th].left
         /\ \A other \in Threads : other # th => send'[other] = send[other]
         /\ c' \in ClientType
         /\ c'.state = c.state /\ c'.bits = c.bits /\ c'.timeout = c.timeout
         /\ c'.error = c.error /\ c'.waitPong = c.waitPong
         /\ conf.sep => c'.tx = th /\ c'.lock = c.lock
         /\ ~conf.sep => c'.lock = th /\ c'.tx = c.tx
<1>0. send \in [Threads -> SendType] /\ c \in ClientType
  BY DEF TypeOK
<1>1. send' = [send EXCEPT ![th].pc = "write"] /\ c' = WithSendLock(th)
  BY DEF SendTakesLock
<1>2. /\ send' \in [Threads -> SendType]
      /\ send'[th].pc = "write" /\ send'[th].left = send[th].left
      /\ \A other \in Threads : other # th => send'[other] = send[other]
  BY <1>0, <1>1 DEF SendType
<1>3. /\ net' = net /\ task' = task /\ obs' = obs /\ heap' = heap /\ conf' = conf
      /\ app' = app /\ budget' = budget
      /\ send[th].pc = "lock" /\ Free(SendLock)
  BY DEF SendTakesLock
<1>. QED BY <1>0, <1>1, <1>2, <1>3, WithLock

\* What giving up on the lock for sending changes.
LEMMA LockTimesOutDoes ==
  ASSUME TypeOK, CallInv, NEW th \in Threads, SendLockTimesOut(th)
  PROVE  /\ c' = c /\ net' = net /\ task' = task /\ obs' = obs /\ heap' = heap /\ conf' = conf
         /\ send[th].pc = "lock"
         /\ send' \in [Threads -> SendType]
         /\ send'[th] = Idle /\ Idle.pc = "idle"
         /\ \A other \in Threads : other # th => send'[other] = send[other]
         /\ app' \in AppType
         /\ budget' \in [faults : Nat, server : Nat, mic : Nat]
         /\ th = "mic" => app' = app
         /\ th = "app" => Returned /\ Op # "none" /\ budget' = budget
<1>1. /\ c' = c /\ net' = net /\ task' = task /\ obs' = obs /\ heap' = heap /\ conf' = conf
      /\ send[th].pc = "lock" /\ Leave(th, FALSE)
  BY DEF SendLockTimesOut
<1>. QED BY <1>1, InCall, LeaveDoes

\* What writing one frame may change.
LEMMA FrameDoes ==
  ASSUME TypeOK, CallInv, NEW th \in Threads, SendFrame(th)
  PROVE  /\ task' = task /\ heap' = heap /\ conf' = conf
         /\ send[th].pc = "write" /\ net.link \in {"up", "silent"}
         /\ net' \in NetType /\ net'.link = net.link /\ net'.inbox = net.inbox
         /\ net'.pinged = net.pinged
         /\ net'.open = OnWire(net.open, th, Head(send[th].left))
         /\ obs' \in ObsType /\ obs'.view = obs.view /\ obs'.connected = obs.connected
         /\ obs'.torn = obs.torn \union
              Tears(net.open, th, Head(send[th].left),
                    {t \in Threads : send[t].pc \in {"lock", "write"}})
         /\ c' \in ClientType
         /\ c'.state = c.state /\ c'.bits = c.bits /\ c'.timeout = c.timeout
         /\ c'.error = c.error /\ c'.waitPong = c.waitPong
         /\ send' \in [Threads -> SendType]
         /\ \A other \in Threads : other # th => send'[other] = send[other]
         /\ app' \in AppType
         /\ budget' \in [faults : Nat, server : Nat, mic : Nat]
         /\ \/ /\ Tail(send[th].left) # <<>> /\ c' = c
               /\ send'[th].pc = "write" /\ send'[th].left = Tail(send[th].left)
               /\ app' = app /\ budget' = budget
            \/ /\ Tail(send[th].left) = <<>>
               /\ conf.sep => c'.tx = "none" /\ c'.lock = c.lock
               /\ ~conf.sep => c'.lock = "none" /\ c'.tx = c.tx
               /\ send'[th] = Idle /\ Idle.pc = "idle"
               /\ th = "mic" => app' = app
               /\ th = "app" => /\ budget' = budget
                                /\ \/ app'.ip = app.ip /\ app'.pc = "sent" /\ Op = "close"
                                   \/ Returned /\ Op # "none"
<1>0. /\ send \in [Threads -> SendType] /\ c \in ClientType /\ app \in AppType
      /\ net \in NetType /\ obs \in ObsType
      /\ budget \in [faults : Nat, server : Nat, mic : Nat]
  BY DEF TypeOK
<1>1. /\ task' = task /\ heap' = heap /\ conf' = conf
      /\ send[th].pc = "write" /\ net.link \in {"up", "silent"}
  BY DEF SendFrame
<1>. DEFINE f == Head(send[th].left)
            rest == Tail(send[th].left)
<1>2. /\ net' \in NetType /\ net'.link = net.link /\ net'.inbox = net.inbox
      /\ net'.pinged = net.pinged
      /\ net'.open = OnWire(net.open, th, f)
  <2>1. PICK open : open = OnWire(net.open, th, f)
    OBVIOUS
  <2>2. PICK owed : owed = IF f.op = "CLOSE" /\ ~net.bye
                           THEN net.owed \union {"CLOSE"} ELSE net.owed
    OBVIOUS
  <2>3. PICK asked : asked = (net.asked \/ f.op = "CLOSE")
    OBVIOUS
  <2>4. open \in Threads \union {"none"}
    <3>1. net.open \in Threads \union {"none"}
      BY <1>0 DEF NetType
    <3>. QED BY <2>1, <3>1, Zenon DEF OnWire
  <2>5. owed \in SUBSET {"PONG", "CLOSE"}
    BY <1>0, <2>2 DEF NetType
  <2>6. asked \in BOOLEAN
    BY <2>3
  <2>7. net' = [net EXCEPT !.open = open, !.owed = owed, !.asked = asked]
    <3>. DOMAIN net = {"link", "inbox", "owed", "pinged", "bye", "asked", "open"}
      BY <1>0 DEF NetType
    <3>. QED BY <2>1, <2>2, <2>3, Zenon DEF SendFrame
  <2>8. /\ net' \in NetType /\ net'.link = net.link /\ net'.inbox = net.inbox
        /\ net'.pinged = net.pinged /\ net'.open = open
    BY <1>0, <2>4, <2>5, <2>6, <2>7 DEF NetType
  <2>. QED BY <2>1, <2>8
<1>3. /\ obs' \in ObsType /\ obs'.view = obs.view /\ obs'.connected = obs.connected
      /\ obs'.torn = obs.torn \union
           Tears(net.open, th, f, {t \in Threads : send[t].pc \in {"lock", "write"}})
  <2>1. PICK tears : tears = Tears(net.open, th, f,
                               {t \in Threads : send[t].pc \in {"lock", "write"}})
    OBVIOUS
  <2>2. tears \in SUBSET {"orphan", "interleaved", "cut"}
    BY <2>1, Zenon DEF Tears
  <2>3. obs' = [obs EXCEPT !.torn = @ \union tears]
    BY <2>1 DEF SendFrame
  <2>. QED BY <1>0, <2>1, <2>2, <2>3 DEF ObsType
<1>4. CASE rest # <<>>
  <2>1. /\ c' = c /\ app' = app /\ budget' = budget
        /\ send' = [send EXCEPT ![th].left = Tail(@), ![th].pc = @]
    BY <1>4, Zenon DEF SendFrame, SendHolds
  <2>2. PICK left : left = rest
    OBVIOUS
  <2>3. left \in Seq(Frame)
    <3>1. send[th].left \in Seq(Frame) /\ send[th].left # <<>>
      BY <1>0, <1>4 DEF SendType
    <3>. QED BY <2>2, <3>1
  <2>4. send' = [send EXCEPT ![th] = [send[th] EXCEPT !.left = left]]
    BY <1>0, <2>1, <2>2 DEF SendType
  <2>5. /\ [send[th] EXCEPT !.left = left] \in SendType
        /\ [send[th] EXCEPT !.left = left].pc = "write"
        /\ [send[th] EXCEPT !.left = left].left = left
    BY <1>0, <1>1, <2>3 DEF SendType
  <2>6. /\ send' \in [Threads -> SendType]
        /\ send'[th].pc = "write" /\ send'[th].left = rest
        /\ \A other \in Threads : other # th => send'[other] = send[other]
    <3>. PICK r : r = [send[th] EXCEPT !.left = left]
      OBVIOUS
    <3>. QED BY <1>0, <2>2, <2>4, <2>5
  <2>. HIDE DEF f, rest
  <2>7. c' \in ClientType
    BY <1>0, <2>1
  <2>. QED BY <1>0, <1>1, <1>2, <1>3, <1>4, <2>1, <2>6, <2>7 DEF f, rest
<1>5. CASE rest = <<>>
  <2>1. c' = WithSendLock("none") /\ Leave(th, TRUE)
    BY <1>5, Zenon DEF SendFrame, SendHolds
  <2>2. "none" \in Threads \union {"none"}
    OBVIOUS
  <2>3. /\ c' \in ClientType
        /\ c'.state = c.state /\ c'.bits = c.bits /\ c'.timeout = c.timeout
        /\ c'.error = c.error /\ c'.waitPong = c.waitPong
        /\ conf.sep => c'.tx = "none" /\ c'.lock = c.lock
        /\ ~conf.sep => c'.lock = "none" /\ c'.tx = c.tx
    BY <1>0, <2>1, <2>2, WithLock
  <2>4. /\ th = "mic" => budget.mic > 0
        /\ th = "app" => Op # "none"
    BY <1>1, InCall
  <2>5. /\ send' \in [Threads -> SendType]
        /\ send'[th] = Idle /\ Idle.pc = "idle"
        /\ \A other \in Threads : other # th => send'[other] = send[other]
        /\ app' \in AppType
        /\ budget' \in [faults : Nat, server : Nat, mic : Nat]
        /\ th = "mic" => app' = app
        /\ th = "app" => /\ budget' = budget
                         /\ \/ app'.ip = app.ip /\ app'.pc = "sent" /\ Op = "close"
                            \/ Returned
    BY <1>1, <2>1, <2>4, LeaveDoes
  <2>. HIDE DEF f, rest
  <2>. QED BY <1>1, <1>2, <1>3, <1>5, <2>3, <2>4, <2>5 DEF f, rest
<1>. QED BY <1>4, <1>5

-----------------------------------------------------------------------------
(* What keeps the parts of the invariant. *)

\* A send that fails, in one step or two.
FailsToSend(th) == SendFails(th) \/ SendAborts(th)

\* What a failed send does: with its own lock it first gives that back, and
\* aborts the connection under client->lock later; without, at once.
LEMMA SendFailsDoes ==
  ASSUME TypeOK, CallInv, NEW th \in Threads, FailsToSend(th)
  PROVE  /\ task' = task /\ heap' = heap /\ conf' = conf
         /\ c' \in ClientType /\ net' \in NetType /\ obs' \in ObsType
         /\ c'.bits = c.bits /\ c'.timeout = c.timeout /\ c'.waitPong = c.waitPong
         /\ obs'.torn = obs.torn
         /\ send' \in [Threads -> SendType] /\ app' \in AppType
         /\ budget' \in [faults : Nat, server : Nat, mic : Nat]
         /\ \A other \in Threads : other # th => send'[other] = send[other]
         /\ \/ /\ send[th].pc = "write"
               /\ conf.sep => c'.tx = "none" /\ c'.lock = c.lock
               /\ ~conf.sep => c'.lock = "none" /\ c'.tx = c.tx
            \/ send[th].pc = "fail" /\ c'.tx = c.tx /\ c'.lock = c.lock
         /\ \/ /\ NothingToAbort(c.state) \/ conf.sep
               /\ c'.state = c.state /\ c'.error = c.error /\ net' = net /\ obs' = obs
            \/ /\ ~NothingToAbort(c.state)
               /\ c'.state \in {"WAIT_TIMEOUT", "UNKNOW"} /\ c'.error = "TCP"
               /\ net' = NoLink
               /\ obs' = Event(obs, IF c.state = "INIT" THEN "REPEATED"
                                                       ELSE "DISCONNECTED")
         /\ \/ /\ send[th].pc = "write" /\ conf.sep /\ send'[th].pc = "fail"
               /\ app' = app /\ budget' = budget
            \/ /\ send'[th] = Idle /\ Idle.pc = "idle"
               /\ NothingToAbort(c.state) \/ net' = NoLink
               /\ th = "mic" => app' = app
               /\ th = "app" => Returned /\ Op # "none" /\ budget' = budget
<1>0. /\ send \in [Threads -> SendType] /\ c \in ClientType /\ app \in AppType
      /\ net \in NetType /\ obs \in ObsType
      /\ budget \in [faults : Nat, server : Nat, mic : Nat]
      /\ "none" \in Threads \union {"none"} /\ FALSE \in BOOLEAN
      /\ "TCP" \in {"TCP", "PONG_TIMEOUT"}
  BY DEF TypeOK
<1>1. task' = task /\ heap' = heap /\ conf' = conf /\ send[th].pc \in {"write", "fail"}
  BY DEF FailsToSend, SendFails, SendAborts
<1>2. /\ th = "mic" => budget.mic > 0
      /\ th = "app" => Op # "none"
  BY <1>1, InCall
<1>3. ASSUME Leave(th, FALSE)
      PROVE  /\ send' \in [Threads -> SendType] /\ app' \in AppType
             /\ budget' \in [faults : Nat, server : Nat, mic : Nat]
             /\ \A other \in Threads : other # th => send'[other] = send[other]
             /\ send'[th] = Idle /\ Idle.pc = "idle"
             /\ th = "mic" => app' = app
             /\ th = "app" => Returned /\ Op # "none" /\ budget' = budget
  BY <1>0, <1>1, <1>2, <1>3, LeaveDoes
<1>4. ASSUME NEW cl \in ClientType, SenderAborts(cl), cl.state = c.state,
             cl.bits = c.bits, cl.timeout = c.timeout, cl.waitPong = c.waitPong,
             cl.error = c.error
      PROVE  /\ c' \in ClientType /\ net' \in NetType /\ obs' \in ObsType
             /\ c'.bits = c.bits /\ c'.timeout = c.timeout /\ c'.waitPong = c.waitPong
             /\ obs'.torn = obs.torn /\ c'.tx = cl.tx /\ c'.lock = cl.lock
             /\ NothingToAbort(c.state) \/ net' = NoLink
             /\ \/ /\ NothingToAbort(c.state)
                   /\ c'.state = c.state /\ c'.error = c.error /\ net' = net /\ obs' = obs
                \/ /\ ~NothingToAbort(c.state)
                   /\ c'.state \in {"WAIT_TIMEOUT", "UNKNOW"} /\ c'.error = "TCP"
                   /\ net' = NoLink
                   /\ obs' = Event(obs, IF c.state = "INIT" THEN "REPEATED"
                                                           ELSE "DISCONNECTED")
  <2>1. PICK e : e = IF c.state = "INIT" THEN "REPEATED" ELSE "DISCONNECTED"
    OBVIOUS
  <2>2. AbortAs(e, cl, "TCP")
    BY <1>4, <2>1, Zenon DEF SenderAborts
  <2>3. /\ c' \in ClientType /\ net' \in NetType /\ obs' \in ObsType
        /\ c'.bits = cl.bits /\ c'.lock = cl.lock /\ c'.tx = cl.tx
        /\ c'.waitPong = cl.waitPong /\ c'.timeout = cl.timeout
        /\ obs'.torn = obs.torn
        /\ \/ /\ NothingToAbort(cl.state)
              /\ c' = cl /\ net' = net /\ obs' = obs
           \/ /\ ~NothingToAbort(cl.state)
              /\ c'.state \in {"WAIT_TIMEOUT", "UNKNOW"} /\ c'.error = "TCP"
              /\ net' = NoLink
              /\ obs' = Event(obs, e)
    BY <1>0, <1>4, <2>2, AbortAsDoes
  <2>. QED BY <1>4, <2>1, <2>3
<1>5. CASE SendAborts(th)
  <2>1. send[th].pc = "fail" /\ SenderAborts(c) /\ Leave(th, FALSE)
    BY <1>5 DEF SendAborts
  <2>2. /\ c' \in ClientType /\ net' \in NetType /\ obs' \in ObsType
        /\ c'.bits = c.bits /\ c'.timeout = c.timeout /\ c'.waitPong = c.waitPong
        /\ obs'.torn = obs.torn /\ c'.tx = c.tx /\ c'.lock = c.lock
        /\ NothingToAbort(c.state) \/ net' = NoLink
        /\ \/ /\ NothingToAbort(c.state)
              /\ c'.state = c.state /\ c'.error = c.error /\ net' = net /\ obs' = obs
           \/ /\ ~NothingToAbort(c.state)
              /\ c'.state \in {"WAIT_TIMEOUT", "UNKNOW"} /\ c'.error = "TCP"
              /\ net' = NoLink
              /\ obs' = Event(obs, IF c.state = "INIT" THEN "REPEATED"
                                                      ELSE "DISCONNECTED")
    BY <1>0, <1>4, <2>1
  <2>. QED BY <1>1, <1>3, <2>1, <2>2
<1>6. CASE SendFails(th)
  <2>1. PICK given : given = WithSendLock("none")
    OBVIOUS
  <2>2. /\ given \in ClientType
        /\ given.state = c.state /\ given.bits = c.bits /\ given.timeout = c.timeout
        /\ given.error = c.error /\ given.waitPong = c.waitPong
        /\ conf.sep => given.tx = "none" /\ given.lock = c.lock
        /\ ~conf.sep => given.lock = "none" /\ given.tx = c.tx
    BY <1>0, <2>1, WithLock
  <2>3. send[th].pc = "write"
    BY <1>6 DEF SendFails
  <2>4. CASE conf.sep
    <3>1. /\ c' = given /\ net' = net /\ obs' = obs /\ app' = app /\ budget' = budget
          /\ send' = [send EXCEPT ![th].pc = "fail"]
      BY <1>6, <2>1, <2>4 DEF SendFails
    <3>2. /\ send' \in [Threads -> SendType] /\ send'[th].pc = "fail"
          /\ \A other \in Threads : other # th => send'[other] = send[other]
      BY <1>0, <3>1 DEF SendType
    <3>3. /\ c' \in ClientType
          /\ c'.state = c.state /\ c'.bits = c.bits /\ c'.timeout = c.timeout
          /\ c'.error = c.error /\ c'.waitPong = c.waitPong
          /\ c'.tx = "none" /\ c'.lock = c.lock
      BY <2>2, <2>4, <3>1
    <3>. QED BY <1>0, <1>1, <2>3, <2>4, <3>1, <3>2, <3>3
  <2>5. CASE ~conf.sep
    <3>1. SenderAborts(given) /\ Leave(th, FALSE)
      BY <1>6, <2>1, <2>5 DEF SendFails
    <3>2. /\ c' \in ClientType /\ net' \in NetType /\ obs' \in ObsType
          /\ c'.bits = c.bits /\ c'.timeout = c.timeout /\ c'.waitPong = c.waitPong
          /\ obs'.torn = obs.torn /\ c'.tx = given.tx /\ c'.lock = given.lock
          /\ NothingToAbort(c.state) \/ net' = NoLink
          /\ \/ /\ NothingToAbort(c.state)
                /\ c'.state = c.state /\ c'.error = c.error /\ net' = net /\ obs' = obs
             \/ /\ ~NothingToAbort(c.state)
                /\ c'.state \in {"WAIT_TIMEOUT", "UNKNOW"} /\ c'.error = "TCP"
                /\ net' = NoLink
                /\ obs' = Event(obs, IF c.state = "INIT" THEN "REPEATED"
                                                        ELSE "DISCONNECTED")
      BY <1>4, <2>2, <3>1
    <3>. QED BY <1>1, <1>3, <2>2, <2>3, <2>5, <3>1, <3>2
  <2>. QED BY <2>4, <2>5
<1>. QED BY <1>5, <1>6 DEF FailsToSend

\* What the task does keeps what is known of the calls.
LEMMA TaskKeepsCall ==
  ASSUME TypeOK, CallInv, HeapInv, UNCHANGED <<conf, heap, app, send>>,
         budget'.mic = budget.mic, ~TaskIsGone, task'.pc # "none",
         app.ip > 1 => (Stopped' <=> TaskIsGone')
  PROVE  CallInv' /\ HeapInv'
<1>1. Op' = Op /\ Previous' = Previous
  BY SameCall
<1>2. app.ip # 1
  BY DEF CallInv, TaskIsGone
<1>3. Op \notin {"init", "header", "start"} /\ ~(Previous = "stop" /\ app.pc = "run")
  BY DEF CallInv
<1>4. CallInv'
  BY <1>1, <1>2, <1>3 DEF CallInv
<1>5. HeapInv'
  BY <1>1 DEF HeapInv
<1>. QED BY <1>4, <1>5

\* What keeps the threads' frames and the connection keeps FrameInv.
LEMMA KeepsFrame ==
  ASSUME FrameInv, MessagesAreWhole, send' = send, app' = app, conf' = conf,
         obs'.torn = obs.torn,
         \/ net'.open = net.open /\ net'.link = net.link /\ (Connected' => Connected)
         \/ net'.open = "none" /\ net'.link = "none"
         \/ net'.open = "none" /\ (conf.sep \/ send["mic"].pc # "write")
  PROVE  FrameInv' /\ MessagesAreWhole'
<1>1. Op' = Op /\ Previous' = Previous
  BY SameCall
<1>2. FramesOf(Op)' = FramesOf(Op)
  BY <1>1
<1>3. FrameInv'
  BY <1>1, <1>2 DEF FrameInv
<1>4. MessagesAreWhole'
  BY DEF MessagesAreWhole
<1>. QED BY <1>3, <1>4

\* What keeps the senders and their lock keeps LockInv.
LEMMA KeepsLock ==
  ASSUME LockInv, send' = send, conf' = conf,
         conf.sep /\ c.tx \in Threads => c'.tx = c.tx,
         ~conf.sep /\ c.lock \in Threads => c'.lock = c.lock,
         At("relock")' => c'.tx = "task",
         At("relock")' \/ At("tx")' => conf.sep
  PROVE  LockInv'
  BY DEF LockInv, SendLock

\* An abort keeps what the handler knows in step with the state.
LEMMA AbortKeepsView ==
  ASSUME TypeOK, ViewInv, task'.pc = task.pc \/ (Live' /\ ~At("drain")'),
         c'.state \in {"WAIT_TIMEOUT", "UNKNOW"}, net' = NoLink,
         NEW e, obs' = Event(obs, e),
         \/ c.state = "CONNECTED" /\ e = "DISCONNECTED"
         \/ c.state = "INIT" /\ e = "REPEATED" /\ obs.view # "begun"
  PROVE  ViewInv'
<1>1. c.state \in {"INIT", "CONNECTED"}
  OBVIOUS
<1>2. Live /\ ~At("drain") /\ obs \in ObsType
  BY <1>1 DEF ViewInv, TypeOK, At
<1>3. obs'.view = "down"
  <2>1. CASE c.state = "INIT"
    BY <1>2, <2>1, EventType, Views DEF ViewInv
  <2>2. CASE c.state = "CONNECTED"
    BY <1>2, <2>2, EventType, Views DEF ViewInv
  <2>. QED BY <1>1, <2>1, <2>2
<1>4. Live' /\ ~At("drain")'
  BY <1>2 DEF Live, At
<1>. QED BY <1>3, <1>4 DEF ViewInv, Live, At

-----------------------------------------------------------------------------
(* The task keeps the invariant. *)

\* What a step of the task must do to keep the invariant.
LEMMA TaskKeeps ==
  ASSUME IInv, UNCHANGED <<conf, heap, app, send>>,
         c' \in ClientType, net' \in NetType, task' \in TaskType, obs' \in ObsType,
         budget' \in [faults : Nat, server : Nat, mic : Nat],
         budget'.mic = budget.mic,
         ~TaskIsGone, task'.pc # "none",
         app.ip > 1 => (Stopped' <=> TaskIsGone'),
         obs'.torn = obs.torn,
         \/ net'.open = net.open /\ net'.link = net.link /\ (Connected' => Connected)
         \/ net'.open = "none" /\ net'.link = "none"
         \/ net'.open = "none" /\ (conf.sep \/ send["mic"].pc # "write"),
         conf.sep /\ c.tx \in Threads => c'.tx = c.tx,
         ~conf.sep /\ c.lock \in Threads => c'.lock = c.lock,
         At("relock")' => c'.tx = "task",
         At("relock")' \/ At("tx")' => conf.sep,
         At("waiting")' => task'.armed = c'.timeout,
         ViewInv', PongInv'
  PROVE  IInv'
<1>1. TypeOK'
  BY DEF IInv, TypeOK
<1>2. CallInv' /\ HeapInv'
  BY TaskKeepsCall DEF IInv
<1>3. FrameInv' /\ MessagesAreWhole'
  BY KeepsFrame DEF IInv
<1>4. LockInv'
  BY KeepsLock DEF IInv
<1>5. WakeupNotLost'
  BY DEF WakeupNotLost
<1>. QED BY <1>1, <1>2, <1>3, <1>4, <1>5 DEF IInv

\* The task goes on to another place in its loop; nothing else changes.
LEMMA MovesKeeps ==
  ASSUME IInv, UNCHANGED <<conf, heap, app, send>>,
         UNCHANGED <<c, net, obs, budget>>,
         task' \in TaskType, Live, Live', At("finish") => At("finish")',
         At("drain")' => c.state = "CLOSING",
         At("relock")' => c.tx = "task",
         At("relock")' \/ At("tx")' => conf.sep,
         At("waiting")' => task'.armed = c.timeout
  PROVE  IInv'
<1>1. TypeOK /\ ViewInv /\ CallInv /\ PongInv
  BY DEF IInv
<1>2. ViewInv'
  BY <1>1 DEF ViewInv, Live, At
<1>3. PongInv'
  BY <1>1 DEF PongInv, Connected
<1>4. ~TaskIsGone /\ ~TaskIsGone' /\ task'.pc # "none"
  BY DEF Live, TaskIsGone
<1>5. app.ip > 1 => (Stopped' <=> TaskIsGone')
  BY <1>1, <1>4 DEF CallInv, Stopped
<1>6. Connected' => Connected
  BY DEF Connected
<1>7. /\ c' \in ClientType /\ net' \in NetType /\ obs' \in ObsType
      /\ budget' \in [faults : Nat, server : Nat, mic : Nat]
  BY <1>1 DEF TypeOK
<1>. QED BY <1>2, <1>3, <1>4, <1>5, <1>6, <1>7, TaskKeeps

\* The task leaves its loop.
LEMMA LeavesLoopKeeps ==
  ASSUME IInv, TaskLeavesLoop, UNCHANGED <<conf, heap, app, send>>
  PROVE  IInv'
<1>1. task' \in TaskType /\ task'.pc = "finish" /\ task.pc = "loop"
  BY GoDoes DEF TaskLeavesLoop, Pcs, At
<1>. QED BY <1>1, MovesKeeps DEF TaskLeavesLoop, Live, At

\* The default case.
LEMMA IdlesKeeps ==
  ASSUME IInv, TaskIdles, UNCHANGED <<conf, heap, app, send>>
  PROVE  IInv'
<1>1. task' \in TaskType /\ task'.pc = "after" /\ task.pc = "loop"
  BY GoDoes DEF TaskIdles, Pcs, At, Switch
<1>. QED BY <1>1, MovesKeeps DEF TaskIdles, Live, At

\* The task gives up on tx_lock.
LEMMA TxTimesOutKeeps ==
  ASSUME IInv, TaskTxTimesOut, UNCHANGED <<conf, heap, app, send>>
  PROVE  IInv'
<1>1. task' \in TaskType /\ task'.pc = "giveup" /\ task.pc = "tx"
  BY GoOnDoes DEF TaskTxTimesOut, Pcs, At, IInv, TypeOK
<1>. QED BY <1>1, MovesKeeps DEF TaskTxTimesOut, Live, At

\* The poll of the connection.
LEMMA PollsKeeps ==
  ASSUME IInv, TaskPolls, UNCHANGED <<conf, heap, app, send>>
  PROVE  IInv'
<1>1. task' \in TaskType /\ task'.pc \in {"lock", "loop"} /\ task.pc = "after"
  BY GoDoes, GoLockDoes DEF TaskPolls, Pcs, At
<1>. QED BY <1>1, MovesKeeps DEF TaskPolls, Live, At

\* The task reads the delay before it blocks.
LEMMA BacksOffKeeps ==
  ASSUME IInv, TaskBacksOff, UNCHANGED <<conf, heap, app, send>>
  PROVE  IInv'
<1>1. /\ task' \in TaskType /\ task.pc = "backoff"
      /\ task'.pc = "loop" \/ (task'.pc = "waiting" /\ task'.armed = c.timeout)
  BY DEF TaskBacksOff, At, IInv, TypeOK, TaskType, ClientType
<1>. QED BY <1>1, MovesKeeps DEF TaskBacksOff, Live, At

\* The task wakes.
LEMMA WakesKeeps ==
  ASSUME IInv, TaskWakes, UNCHANGED <<conf, heap, app, send>>
  PROVE  IInv'
<1>1. task' \in TaskType /\ task.pc = "waiting" /\ task'.pc = "loop"
  BY DEF TaskWakes, At, IInv, TypeOK, TaskType
<1>. QED BY <1>1, MovesKeeps DEF TaskWakes, Live, At

\* The task waits for the server to close.
LEMMA DrainsKeeps ==
  ASSUME IInv, TaskDrains, UNCHANGED <<conf, heap, app, send>>
  PROVE  IInv'
<1>1. task' \in TaskType /\ task'.pc = "drain" /\ task.pc = "after" /\ c.state = "CLOSING"
  BY GoDoes DEF TaskDrains, Pcs, At
<1>. QED BY <1>1, MovesKeeps DEF TaskDrains, Live, At

\* Nothing to do without the lock.
LEMMA GoesRoundKeeps ==
  ASSUME IInv, TaskGoesRound, UNCHANGED <<conf, heap, app, send>>
  PROVE  IInv'
<1>1. task' \in TaskType /\ task'.pc = "loop" /\ task.pc = "after"
  BY GoDoes DEF TaskGoesRound, Pcs, At
<1>. QED BY <1>1, MovesKeeps DEF TaskGoesRound, Live, At

\* The task stays between BEGIN and FINISH, and STOPPED_BIT as it was.
LEMMA StaysLive ==
  ASSUME IInv, Live, Live', Stopped' = Stopped
  PROVE  /\ ~TaskIsGone /\ task'.pc # "none"
         /\ app.ip > 1 => (Stopped' <=> TaskIsGone')
  BY DEF IInv, CallInv, Live, TaskIsGone

\* The first steps of the task.
LEMMA BeginsKeeps ==
  ASSUME IInv, TaskBegins, UNCHANGED <<conf, heap, app, send>>
  PROVE  IInv'
<1>1. /\ TypeOK /\ ViewInv /\ CallInv /\ PongInv /\ c \in ClientType /\ obs \in ObsType
      /\ net \in NetType /\ budget \in [faults : Nat, server : Nat, mic : Nat]
  BY DEF IInv, TypeOK
<1>2. task' \in TaskType /\ task'.pc = "loop" /\ task.pc = "entry"
  BY GoDoes DEF TaskBegins, Pcs, At
<1>3. /\ c' \in ClientType /\ c'.state = "INIT"
      /\ c'.bits = c.bits \ {"STOPPED", "CLOSE_FRAME_SENT"}
      /\ c'.lock = c.lock /\ c'.tx = c.tx
  <2>1. c' = [c EXCEPT !.run = TRUE, !.state = "INIT",
                    !.bits = @ \ {"STOPPED", "CLOSE_FRAME_SENT"}]
    BY DEF TaskBegins
  <2>. QED BY <1>1, <2>1 DEF ClientType
<1>4. obs' \in ObsType /\ obs'.torn = obs.torn /\ obs'.view = "begun"
  <2>1. obs' = Event(obs, "BEGIN") /\ obs.view \in {"none", "finished"}
    BY <1>1, <1>2 DEF TaskBegins, ViewInv
  <2>. QED BY <1>1, <2>1, EventType, Views
<1>5. net' = net /\ budget' = budget /\ net = NoLink
  BY <1>1, <1>2 DEF TaskBegins, ViewInv, Live, At
<1>6. ViewInv'
  BY <1>2, <1>3, <1>4, <1>5 DEF ViewInv, Live, At
<1>7. PongInv' /\ ~Connected'
  BY <1>3 DEF PongInv, Connected
<1>8. ~TaskIsGone /\ ~TaskIsGone' /\ ~Stopped'
  BY <1>2, <1>3 DEF TaskIsGone, Stopped
<1>. QED BY <1>1, <1>2, <1>3, <1>4, <1>5, <1>6, <1>7, <1>8, TaskKeeps DEF At

\* A successful attempt to connect.
LEMMA ConnectsKeeps ==
  ASSUME IInv, TaskConnects, UNCHANGED <<conf, heap, app, send>>
  PROVE  IInv'
<1>1. /\ TypeOK /\ ViewInv /\ CallInv /\ LockInv /\ c \in ClientType /\ obs \in ObsType
  BY DEF IInv, TypeOK
<1>2. /\ Switch("INIT")
      /\ c' \in ClientType /\ net' \in NetType /\ obs' \in ObsType
      /\ task' \in TaskType /\ budget' \in [faults : Nat, server : Nat, mic : Nat]
      /\ c'.state = "CONNECTED" /\ ~c'.waitPong /\ c'.error = "NONE"
      /\ c'.bits = c.bits \ {"CLOSE_FRAME_SENT"}
      /\ c'.lock \in {c.lock, "task"} /\ c'.tx = c.tx /\ c'.timeout = c.timeout
      /\ net'.link = "up" /\ net'.open = "none"
      /\ obs' = Event(Event(obs, "BEFORE_CONNECT"), "CONNECTED")
      /\ obs'.torn = obs.torn
      /\ task'.pc \in {"after", "lock"}
      /\ budget'.mic = budget.mic
  BY <1>1, ConnectsDoes
<1>3. task.pc = "loop" /\ c.lock = "none" /\ c.state = "INIT"
  BY <1>2 DEF Switch, At, Free
<1>4. Live /\ Live' /\ Stopped' = Stopped
  BY <1>2, <1>3 DEF Live, Stopped
<1>5. obs'.view = "up"
  <2>1. obs.view \in {"begun", "trying", "down"}
    BY <1>1, <1>3, <1>4 DEF ViewInv
  <2>2. Event(obs, "BEFORE_CONNECT") \in ObsType /\ Event(obs, "BEFORE_CONNECT").view = "trying"
    BY <1>1, <2>1, EventType, Views
  <2>. QED BY <1>2, <2>2, EventType, Views
<1>6. ViewInv'
  BY <1>2, <1>4, <1>5 DEF ViewInv, Live, At
<1>7. PongInv'
  BY <1>2 DEF PongInv
<1>8. conf.sep \/ send["mic"].pc # "write"
  BY <1>1, <1>3 DEF LockInv, SendLock, Threads
<1>9. c.lock \notin Threads
  BY <1>3 DEF Threads
<1>10. ~At("relock")' /\ ~At("tx")' /\ ~At("waiting")'
  BY <1>2 DEF At
<1>. QED BY <1>2, <1>4, <1>6, <1>7, <1>8, <1>9, <1>10, StaysLive, TaskKeeps

\* A failed attempt to connect.
LEMMA FailsToConnectKeeps ==
  ASSUME IInv, TaskFailsToConnect, UNCHANGED <<conf, heap, app, send>>
  PROVE  IInv'
<1>1. /\ TypeOK /\ ViewInv /\ CallInv /\ LockInv /\ c \in ClientType /\ obs \in ObsType
      /\ PongInv
  BY DEF IInv, TypeOK
<1>2. /\ Switch("INIT")
      /\ c' \in ClientType /\ net' \in NetType /\ obs' \in ObsType
      /\ task' \in TaskType /\ budget' \in [faults : Nat, server : Nat, mic : Nat]
      /\ c'.bits = c.bits /\ c'.lock = c.lock /\ c'.tx = c.tx
      /\ obs'.torn = obs.torn /\ task'.pc = "after" /\ budget'.mic = budget.mic
      /\ \/ c' = c /\ net' = net /\ obs' = Event(obs, "BEFORE_CONNECT")
         \/ /\ c'.state \in {"WAIT_TIMEOUT", "UNKNOW"}
            /\ net' = NoLink
            /\ obs' = Event(Event(obs, "BEFORE_CONNECT"), "DISCONNECTED")
  BY <1>1, FailsToConnectDoes
<1>3. task.pc = "loop" /\ c.state = "INIT"
  BY <1>2 DEF Switch, At
<1>4. Live /\ Live' /\ Stopped' = Stopped
  BY <1>2, <1>3 DEF Live, Stopped
<1>5. /\ Event(obs, "BEFORE_CONNECT") \in ObsType
      /\ Event(obs, "BEFORE_CONNECT").view = "trying"
  <2>1. obs.view \in {"begun", "trying", "down"}
    BY <1>1, <1>3, <1>4 DEF ViewInv
  <2>. QED BY <1>1, <2>1, EventType, Views
<1>6. ~Connected' /\ PongInv'
  BY <1>2, <1>3 DEF PongInv, Connected
<1>7. ~At("relock")' /\ ~At("tx")' /\ ~At("waiting")'
  BY <1>2 DEF At
<1>8. CASE c' = c /\ net' = net /\ obs' = Event(obs, "BEFORE_CONNECT")
  <2>1. ViewInv'
    BY <1>1, <1>2, <1>3, <1>4, <1>5, <1>8 DEF ViewInv, Live, At
  <2>. QED BY <1>2, <1>4, <1>6, <1>7, <1>8, <2>1, StaysLive, TaskKeeps
<1>9. CASE /\ c'.state \in {"WAIT_TIMEOUT", "UNKNOW"}
           /\ net' = NoLink
           /\ obs' = Event(Event(obs, "BEFORE_CONNECT"), "DISCONNECTED")
  <2>1. obs'.view = "down"
    BY <1>5, <1>9, EventType, Views
  <2>2. ViewInv'
    BY <1>2, <1>4, <1>9, <2>1 DEF ViewInv, Live, At
  <2>3. net'.open = "none" /\ net'.link = "none"
    BY <1>9, NoLinkIs
  <2>. QED BY <1>2, <1>4, <1>6, <1>7, <2>2, <2>3, StaysLive, TaskKeeps
<1>. QED BY <1>2, <1>8, <1>9

\* The case CONNECTED and the sending of control frames change the same.
LEMMA PingKeeps ==
  ASSUME IInv, UNCHANGED <<conf, heap, app, send>>, Live, Live', ~At("finish"), ~At("drain"),
         c' \in ClientType, net' \in NetType, task' \in TaskType, obs' \in ObsType,
         budget' = budget, Stopped' = Stopped, obs'.torn = obs.torn,
         conf.sep /\ c.tx \in Threads => c'.tx = c.tx,
         ~conf.sep /\ c.lock \in Threads => c'.lock = c.lock,
         task'.pc \notin {"relock", "waiting", "drain", "finish"},
         At("tx")' => conf.sep,
         \/ /\ c'.state = c.state /\ obs' = obs
            /\ net'.link = net.link /\ net'.open = net.open
            /\ net = NoLink => net' = NoLink
            /\ net.pinged => net'.pinged
            /\ c'.waitPong => c.waitPong \/ (conf.pings /\ (net.link # "none" => net'.pinged))
         \/ /\ c.state = "CONNECTED"
            /\ c'.state \in {"WAIT_TIMEOUT", "UNKNOW"}
            /\ net' = NoLink
            /\ obs' = Event(obs, "DISCONNECTED")
  PROVE  IInv'
<1>1. /\ TypeOK /\ ViewInv /\ PongInv /\ c \in ClientType /\ obs \in ObsType
      /\ budget' \in [faults : Nat, server : Nat, mic : Nat]
  BY DEF IInv, TypeOK
<1>2. ~At("relock")' /\ ~At("waiting")' /\ ~At("drain")' /\ ~At("finish")'
  BY DEF At
<1>3. CASE /\ c'.state = c.state /\ obs' = obs
           /\ net'.link = net.link /\ net'.open = net.open
           /\ net = NoLink => net' = NoLink
           /\ net.pinged => net'.pinged
           /\ c'.waitPong => c.waitPong \/ (conf.pings /\ (net.link # "none" => net'.pinged))
  <2>1. ViewInv'
    BY <1>1, <1>2, <1>3 DEF ViewInv, Live
  <2>2. Connected' => Connected /\ net.link # "none"
    BY <1>1, <1>3 DEF Connected, ViewInv
  <2>3. PongInv'
    BY <1>1, <1>3, <2>2 DEF PongInv
  <2>. QED BY <1>1, <1>2, <1>3, <2>1, <2>2, <2>3, StaysLive, TaskKeeps
<1>4. CASE /\ c.state = "CONNECTED"
           /\ c'.state \in {"WAIT_TIMEOUT", "UNKNOW"}
           /\ net' = NoLink
           /\ obs' = Event(obs, "DISCONNECTED")
  <2>1. obs'.view = "down"
    BY <1>1, <1>4, EventType, Views DEF ViewInv
  <2>2. ViewInv'
    BY <1>2, <1>4, <2>1 DEF ViewInv, Live
  <2>3. net'.open = "none" /\ net'.link = "none"
    BY <1>4, NoLinkIs
  <2>4. PongInv'
    BY <1>4 DEF PongInv, Connected
  <2>. QED BY <1>1, <1>2, <2>2, <2>3, <2>4, StaysLive, TaskKeeps
<1>. QED BY <1>3, <1>4

\* The case CONNECTED.
LEMMA KeepsAliveKeeps ==
  ASSUME IInv, TaskKeepsAlive, UNCHANGED <<conf, heap, app, send>>
  PROVE  IInv'
<1>1. TypeOK /\ ViewInv
  BY DEF IInv
<1>2. task.pc = "loop" /\ c.state = "CONNECTED" /\ Live /\ ~At("finish") /\ ~At("drain")
  BY DEF TaskKeepsAlive, Switch, At, Live
<1>3. /\ Switch("CONNECTED") /\ budget' = budget
      /\ c' \in ClientType /\ net' \in NetType /\ obs' \in ObsType
      /\ task' \in TaskType
      /\ c'.bits = c.bits /\ c'.lock = c.lock /\ c'.tx = c.tx
      /\ obs'.torn = obs.torn
      /\ task'.pc = "after" \/ (task'.pc = "tx" /\ conf.sep)
      /\ \/ /\ c'.state = c.state /\ obs' = obs
            /\ net'.link = net.link /\ net'.open = net.open
            /\ net.pinged => net'.pinged
            /\ c'.waitPong => c.waitPong \/ (conf.pings /\ (net.link # "none" => net'.pinged))
         \/ /\ c'.state \in {"WAIT_TIMEOUT", "UNKNOW"}
            /\ net' = NoLink
            /\ obs' = Event(obs, "DISCONNECTED")
  BY <1>1, KeepsAliveDoes
<1>4. net # NoLink
  BY <1>1, <1>2, NoLinkIs DEF ViewInv
<1>5. Live' /\ Stopped' = Stopped
  BY <1>3 DEF Live, Stopped
<1>6. At("tx")' => conf.sep
  BY <1>3 DEF At
<1>. QED BY <1>2, <1>3, <1>4, <1>5, <1>6, PingKeeps

\* A control frame under both locks.
LEMMA SendsControlKeeps ==
  ASSUME IInv, TaskSendsControl, UNCHANGED <<conf, heap, app, send>>
  PROVE  IInv'
<1>1. TypeOK /\ ViewInv /\ LockInv
  BY DEF IInv
<1>2. task.pc = "relock" /\ Live /\ ~At("finish") /\ ~At("drain") /\ task.next \in {"loop", "after"}
  BY <1>1 DEF TaskSendsControl, At, Live, TypeOK, TaskType
<1>3. /\ budget' = budget
      /\ c' \in ClientType /\ net' \in NetType /\ obs' \in ObsType
      /\ task' \in TaskType /\ task'.pc = task.next
      /\ c'.bits \in {c.bits, c.bits \union {"CLOSE_FRAME_SENT"}}
      /\ c'.lock = c.lock /\ c'.tx = "none"
      /\ obs'.torn = obs.torn
      /\ \/ /\ c'.state = c.state /\ obs' = obs
            /\ net'.link = net.link /\ net'.open = net.open
            /\ net.pinged => net'.pinged
            /\ c'.waitPong => c.waitPong \/ (conf.pings /\ (net.link # "none" => net'.pinged))
         \/ /\ c.state = "CONNECTED"
            /\ c'.state \in {"WAIT_TIMEOUT", "UNKNOW"}
            /\ net' = NoLink
            /\ obs' = Event(obs, "DISCONNECTED")
  BY <1>1, SendsControlDoes
<1>4. c.tx \notin Threads
  BY <1>1, <1>2 DEF LockInv, At, Threads
<1>5. Live' /\ Stopped' = Stopped
  BY <1>2, <1>3 DEF Live, Stopped
<1>6. ~At("tx")'
  BY <1>2, <1>3 DEF At
<1>7. net = NoLink => net' = NoLink
  BY NoLinkIs, Zenon DEF TaskSendsControl, CheckPong, Pinged, Abort, AbortAs
<1>. QED BY <1>2, <1>3, <1>4, <1>5, <1>6, <1>7, PingKeeps

\* The task changes only fields of the client that no other process relies on.
LEMMA ChangesClientKeeps ==
  ASSUME IInv, UNCHANGED <<conf, heap, app, send>>, UNCHANGED <<net, obs, budget>>,
         Live, Live', At("finish") => At("finish")',
         c' \in ClientType, task' \in TaskType, Stopped' = Stopped,
         c'.state = c.state \/ (c.state = "WAIT_TIMEOUT" /\ c'.state = "INIT"),
         c'.waitPong = c.waitPong,
         conf.sep /\ c.tx \in Threads => c'.tx = c.tx,
         ~conf.sep /\ c.lock \in Threads => c'.lock = c.lock,
         At("relock")' => c'.tx = "task",
         At("relock")' \/ At("tx")' => conf.sep,
         ~At("waiting")', ~At("drain")'
  PROVE  IInv'
<1>1. TypeOK /\ ViewInv /\ PongInv
  BY DEF IInv
<1>2. /\ net' \in NetType /\ obs' \in ObsType
      /\ budget' \in [faults : Nat, server : Nat, mic : Nat]
  BY <1>1 DEF TypeOK
<1>3. ViewInv'
  BY <1>1 DEF ViewInv, Live, At
<1>4. Connected' => Connected
  BY DEF Connected
<1>5. PongInv'
  BY <1>1, <1>4 DEF PongInv
<1>. QED BY <1>2, <1>3, <1>4, <1>5, StaysLive, TaskKeeps

\* The case WAIT_TIMEOUT.
LEMMA RetriesKeeps ==
  ASSUME IInv, TaskRetries, UNCHANGED <<conf, heap, app, send>>
  PROVE  IInv'
<1>1. /\ c \in ClientType /\ UNCHANGED <<net, obs, budget>>
      /\ task.pc = "loop" /\ c.state = "WAIT_TIMEOUT"
      /\ ~(c.state = "INIT") /\ LockInv
  BY DEF IInv, TypeOK, TaskRetries, Switch, At
<1>2. task' \in TaskType /\ task'.pc = "after"
  BY GoDoes DEF TaskRetries, Pcs
<1>3. /\ c' \in ClientType /\ c'.state \in {"INIT", "WAIT_TIMEOUT"}
      /\ c'.bits = c.bits /\ c'.waitPong = c.waitPong /\ c'.lock = c.lock /\ c'.tx = c.tx
  BY <1>1 DEF TaskRetries, ClientType
<1>4. /\ Live /\ Live' /\ Stopped' = Stopped
      /\ ~At("relock")' /\ ~At("tx")' /\ ~At("waiting")' /\ ~At("drain")' /\ ~At("finish")
  BY <1>1, <1>2, <1>3 DEF Live, Stopped, At
<1>5. c'.state = c.state \/ (c.state = "WAIT_TIMEOUT" /\ c'.state = "INIT")
  BY <1>1, <1>3
<1>. QED BY <1>1, <1>2, <1>3, <1>4, <1>5, ChangesClientKeeps

\* The case CLOSING.
LEMMA EchoesCloseKeeps ==
  ASSUME IInv, TaskEchoesClose, UNCHANGED <<conf, heap, app, send>>
  PROVE  IInv'
<1>1. /\ c \in ClientType /\ UNCHANGED <<net, obs, budget>>
      /\ task.pc = "loop"
  BY DEF IInv, TypeOK, TaskEchoesClose, Switch, At
<1>2. task' \in TaskType /\ (task'.pc = "after" \/ (task'.pc = "tx" /\ conf.sep))
  BY GoDoes, GoTxDoes DEF TaskEchoesClose, Pcs
<1>3. /\ c' \in ClientType /\ c'.state = c.state
      /\ c'.bits \in {c.bits, c.bits \union {"CLOSE_FRAME_SENT"}}
      /\ c'.waitPong = c.waitPong /\ c'.lock = c.lock /\ c'.tx = c.tx
  BY <1>1 DEF TaskEchoesClose, ClientType
<1>4. /\ Live /\ Live' /\ Stopped' = Stopped
      /\ ~At("relock")' /\ (At("tx")' => conf.sep) /\ ~At("waiting")' /\ ~At("drain")'
      /\ ~At("finish")
  BY <1>1, <1>2, <1>3 DEF Live, Stopped, At
<1>. QED BY <1>1, <1>2, <1>3, <1>4, ChangesClientKeeps

\* The task takes tx_lock.
LEMMA TakesTxKeeps ==
  ASSUME IInv, TaskTakesTx, UNCHANGED <<conf, heap, app, send>>
  PROVE  IInv'
<1>1. /\ c \in ClientType /\ UNCHANGED <<net, obs, budget>> /\ task \in TaskType
      /\ task.pc = "tx" /\ c.tx = "none" /\ conf.sep
  BY DEF IInv, LockInv, TypeOK, TaskTakesTx, At, Free
<1>2. task' \in TaskType /\ task'.pc = "relock"
  BY <1>1, GoOnDoes DEF TaskTakesTx, Pcs
<1>3. /\ c' \in ClientType /\ c'.state = c.state /\ c'.bits = c.bits
      /\ c'.waitPong = c.waitPong /\ c'.lock = c.lock /\ c'.tx = "task"
  BY <1>1 DEF TaskTakesTx, ClientType
<1>4. /\ Live /\ Live' /\ Stopped' = Stopped
      /\ ~At("tx")' /\ ~At("waiting")' /\ ~At("drain")' /\ ~At("finish")
  BY <1>1, <1>2, <1>3 DEF Live, Stopped, At
<1>5. c.tx \notin Threads
  BY <1>1 DEF Threads
<1>. QED BY <1>1, <1>2, <1>3, <1>4, <1>5, ChangesClientKeeps

\* WAKEUP_BIT is cleared before the delay is read.
LEMMA ClearsWakeupKeeps ==
  ASSUME IInv, TaskClearsWakeup, UNCHANGED <<conf, heap, app, send>>
  PROVE  IInv'
<1>1. /\ c \in ClientType /\ UNCHANGED <<net, obs, budget>> /\ task.pc = "after"
  BY DEF IInv, TypeOK, TaskClearsWakeup, At
<1>2. task' \in TaskType /\ task'.pc = "backoff"
  BY GoDoes DEF TaskClearsWakeup, Pcs
<1>3. /\ c' \in ClientType /\ c'.state = c.state /\ c'.bits = c.bits \ {"WAKEUP"}
      /\ c'.waitPong = c.waitPong /\ c'.lock = c.lock /\ c'.tx = c.tx
  BY <1>1 DEF TaskClearsWakeup, ClientType
<1>4. /\ Live /\ Live' /\ Stopped' = Stopped
      /\ ~At("relock")' /\ ~At("tx")' /\ ~At("waiting")' /\ ~At("drain")' /\ ~At("finish")
  BY <1>1, <1>2, <1>3 DEF Live, Stopped, At
<1>. QED BY <1>1, <1>2, <1>3, <1>4, ChangesClientKeeps

\* The task aborts the connection, if there is one to abort.
LEMMA TaskAbortKeeps ==
  ASSUME IInv, UNCHANGED <<conf, heap, app, send>>, budget' = budget,
         Live, Live', ~At("finish"), task' \in TaskType,
         task'.pc \notin {"relock", "tx", "waiting", "drain"},
         c' \in ClientType, net' \in NetType, obs' \in ObsType,
         Stopped' = Stopped, obs'.torn = obs.torn, c'.waitPong = c.waitPong,
         conf.sep /\ c.tx \in Threads => c'.tx = c.tx,
         ~conf.sep /\ c.lock \in Threads => c'.lock = c.lock,
         \/ NothingToAbort(c.state) /\ c'.state = c.state /\ net' = net /\ obs' = obs
         \/ /\ ~NothingToAbort(c.state) /\ c.state # "INIT"
            /\ c'.state \in {"WAIT_TIMEOUT", "UNKNOW"}
            /\ net' = NoLink
            /\ obs' = Event(obs, "DISCONNECTED")
  PROVE  IInv'
<1>1. /\ TypeOK /\ ViewInv
      /\ budget' \in [faults : Nat, server : Nat, mic : Nat]
  BY DEF IInv, TypeOK
<1>2. ~At("relock")' /\ ~At("tx")' /\ ~At("waiting")' /\ ~At("drain")'
  BY DEF At
<1>3. ~Connected' /\ PongInv'
  BY DEF NothingToAbort, PongInv, Connected
<1>4. CASE NothingToAbort(c.state) /\ c'.state = c.state /\ net' = net /\ obs' = obs
  <2>1. ViewInv'
    BY <1>1, <1>2, <1>4 DEF ViewInv, Live
  <2>. QED BY <1>1, <1>2, <1>3, <1>4, <2>1, StaysLive, TaskKeeps
<1>5. CASE /\ ~NothingToAbort(c.state) /\ c.state # "INIT"
           /\ c'.state \in {"WAIT_TIMEOUT", "UNKNOW"}
           /\ net' = NoLink
           /\ obs' = Event(obs, "DISCONNECTED")
  <2>0. c.state = "CONNECTED"
    BY <1>1, <1>5 DEF TypeOK, ClientType, NothingToAbort
  <2>1. ViewInv'
    BY <1>1, <1>2, <1>5, <2>0, AbortKeepsView
  <2>2. net'.open = "none" /\ net'.link = "none"
    BY <1>5, NoLinkIs
  <2>. QED BY <1>1, <1>2, <1>3, <2>1, <2>2, StaysLive, TaskKeeps
<1>. QED BY <1>4, <1>5

\* A PONG that cannot be sent.
LEMMA GivesUpKeeps ==
  ASSUME IInv, QuietInv, TaskGivesUp, UNCHANGED <<conf, heap, app, send>>
  PROVE  IInv'
<1>1. /\ c \in ClientType /\ net \in NetType /\ obs \in ObsType /\ task \in TaskType
      /\ budget' = budget /\ task.pc = "giveup" /\ Go(task.next)
      /\ "TCP" \in {"TCP", "PONG_TIMEOUT"}
  BY DEF IInv, TypeOK, TaskGivesUp, At
<1>2. task' \in TaskType /\ task'.pc \in {"loop", "after"}
  <2>1. task.next \in {"loop", "after"}
    BY <1>1 DEF TaskType
  <2>2. task.next \in Pcs
    BY <2>1 DEF Pcs
  <2>. QED BY <1>1, <2>1, <2>2, GoDoes
<1>3. Live /\ Live' /\ ~At("finish") /\ c.state # "INIT"
  BY <1>1, <1>2 DEF Live, At, QuietInv
<1>4. CASE task.job = "pong"
  <2>1. Abort(c, "TCP")
    BY <1>4 DEF TaskGivesUp
  <2>2. /\ c' \in ClientType /\ net' \in NetType /\ obs' \in ObsType
        /\ c'.bits = c.bits /\ c'.lock = c.lock /\ c'.tx = c.tx
        /\ c'.waitPong = c.waitPong /\ obs'.torn = obs.torn
        /\ \/ NothingToAbort(c.state) /\ c' = c /\ net' = net /\ obs' = obs
           \/ /\ ~NothingToAbort(c.state)
              /\ c'.state \in {"WAIT_TIMEOUT", "UNKNOW"}
              /\ net' = NoLink
              /\ obs' = Event(obs, "DISCONNECTED")
    BY <1>1, <2>1, AbortDoes
  <2>3. Stopped' = Stopped
    BY <2>2 DEF Stopped
  <2>. QED BY <1>1, <1>2, <1>3, <2>2, <2>3, TaskAbortKeeps
<1>5. CASE task.job # "pong"
  <2>1. UNCHANGED <<c, net, obs>>
    BY <1>5 DEF TaskGivesUp
  <2>. QED BY <1>1, <1>2, <1>3, <2>1, MovesKeeps DEF At
<1>. QED BY <1>4, <1>5

\* The poll found the connection broken.
LEMMA ReportsErrorKeeps ==
  ASSUME IInv, QuietInv, TaskReportsError, UNCHANGED <<conf, heap, app, send>>
  PROVE  IInv'
<1>1. /\ c \in ClientType /\ net \in NetType /\ obs \in ObsType
      /\ budget' = budget /\ task.pc = "lock" /\ Abort(c, "TCP")
      /\ "TCP" \in {"TCP", "PONG_TIMEOUT"}
  BY DEF IInv, TypeOK, TaskReportsError, At
<1>2. task' \in TaskType /\ task'.pc = "loop"
  BY GoDoes DEF TaskReportsError, Pcs
<1>3. Live /\ Live' /\ ~At("finish") /\ c.state # "INIT"
  BY <1>1, <1>2 DEF Live, At, QuietInv
<1>4. /\ c' \in ClientType /\ net' \in NetType /\ obs' \in ObsType
      /\ c'.bits = c.bits /\ c'.lock = c.lock /\ c'.tx = c.tx
      /\ c'.waitPong = c.waitPong /\ obs'.torn = obs.torn
      /\ \/ NothingToAbort(c.state) /\ c' = c /\ net' = net /\ obs' = obs
         \/ /\ ~NothingToAbort(c.state)
            /\ c'.state \in {"WAIT_TIMEOUT", "UNKNOW"}
            /\ net' = NoLink
            /\ obs' = Event(obs, "DISCONNECTED")
  BY <1>1, AbortDoes
<1>5. Stopped' = Stopped
  BY <1>4 DEF Stopped
<1>. QED BY <1>1, <1>2, <1>3, <1>4, <1>5, TaskAbortKeeps

\* One frame is read.
LEMMA ReceivesKeeps ==
  ASSUME IInv, QuietInv, TaskReceives, UNCHANGED <<conf, heap, app, send>>
  PROVE  IInv'
<1>1. /\ TypeOK /\ ViewInv /\ PongInv /\ c \in ClientType /\ net \in NetType /\ obs \in ObsType
      /\ budget \in [faults : Nat, server : Nat, mic : Nat] /\ task \in TaskType
  BY DEF IInv, TypeOK
<1>2. /\ At("lock") /\ c.lock \in {"none", "task"} /\ budget' = budget
      /\ c' \in ClientType /\ net' \in NetType /\ obs' \in ObsType
      /\ task' \in TaskType /\ task'.pc \in {task.next, "tx"}
      /\ task'.pc = "tx" => conf.sep
      /\ c'.bits = c.bits /\ c'.lock = "none" /\ c'.tx = c.tx
      /\ obs'.torn = obs.torn
      /\ \/ /\ net.inbox = <<>>
            /\ NothingToAbort(c.state) /\ c'.state = c.state
            /\ c'.waitPong = c.waitPong
            /\ net' = net /\ obs' = obs
         \/ /\ net.inbox = <<>> /\ ~NothingToAbort(c.state)
            /\ c'.state \in {"WAIT_TIMEOUT", "UNKNOW"}
            /\ net' = NoLink
            /\ obs' = Event(obs, "DISCONNECTED")
         \/ /\ net.inbox # <<>>
            /\ c'.state \in {c.state, "CLOSING"}
            /\ obs' = Event(obs, "DATA")
            /\ net'.link = net.link /\ net'.open = net.open
            /\ \/ ~c'.waitPong
               \/ c'.waitPong = c.waitPong /\ net'.pinged = net.pinged
  BY <1>1, ReceivesDoes
<1>3. /\ task.pc = "lock" /\ task'.pc \in {"loop", "after", "tx"}
      /\ ~At("finish") /\ Live /\ Live' /\ Stopped' = Stopped
      /\ ~At("relock")' /\ (At("tx")' => conf.sep) /\ ~At("waiting")' /\ ~At("drain")'
      /\ c.lock \notin Threads /\ c.state # "INIT"
  BY <1>1, <1>2 DEF At, Live, Stopped, TaskType, Threads, QuietInv
<1>4. CASE net.inbox # <<>>
  <2>1. net # NoLink
    BY <1>4, NoLinkIs
  <2>2. c.state \in {"CONNECTED", "CLOSING"} /\ obs.view = "up" /\ net.link # "none"
    BY <1>1, <1>3, <2>1 DEF ViewInv, ClientType
  <2>3. obs'.view = "up"
    BY <1>1, <1>2, <1>4, <2>2, EventType, Views
  <2>4. ViewInv'
    BY <1>2, <1>3, <1>4, <2>2, <2>3 DEF ViewInv, Live, At
  <2>5. Connected' => Connected
    BY <1>2, <1>4 DEF Connected
  <2>6. PongInv'
    BY <1>1, <1>2, <1>4, <2>5 DEF PongInv
  <2>. QED BY <1>1, <1>2, <1>3, <1>4, <2>4, <2>5, <2>6, StaysLive, TaskKeeps
<1>5. CASE net.inbox = <<>>
  <2>1. ~Connected' /\ PongInv'
    BY <1>2, <1>5 DEF PongInv, Connected, NothingToAbort
  <2>2. CASE NothingToAbort(c.state)
    <3>1. ViewInv'
      BY <1>1, <1>2, <1>3, <1>5, <2>2 DEF ViewInv, Live
    <3>. QED BY <1>1, <1>2, <1>3, <1>5, <2>1, <2>2, <3>1, StaysLive, TaskKeeps
  <2>3. CASE ~NothingToAbort(c.state)
    <3>0. c.state = "CONNECTED"
      BY <1>1, <1>3, <2>3 DEF ClientType, NothingToAbort
    <3>1. ViewInv'
      BY <1>1, <1>2, <1>3, <1>5, <2>3, <3>0, AbortKeepsView
    <3>2. net'.open = "none" /\ net'.link = "none"
      BY <1>2, <1>5, <2>3, NoLinkIs
    <3>. QED BY <1>1, <1>2, <1>3, <2>1, <3>1, <3>2, StaysLive, TaskKeeps
  <2>. QED BY <2>2, <2>3
<1>. QED BY <1>4, <1>5

\* The server's CLOSE, when the client reconnects.
LEMMA ClosesAndReconnectsKeeps ==
  ASSUME IInv, TaskClosesAndReconnects, UNCHANGED <<conf, heap, app, send>>
  PROVE  IInv'
<1>1. /\ TypeOK /\ ViewInv /\ CallInv /\ c \in ClientType /\ obs \in ObsType
      /\ budget' \in [faults : Nat, server : Nat, mic : Nat] /\ budget' = budget
      /\ task.pc = "drain" /\ net' = NoLink
  BY DEF IInv, TypeOK, TaskClosesAndReconnects, At
<1>2. task' \in TaskType /\ task'.pc = "loop"
  BY GoDoes DEF TaskClosesAndReconnects, Pcs
<1>3. /\ c' \in ClientType /\ c'.state = "WAIT_TIMEOUT"
      /\ c'.bits = c.bits \ {"STOPPED", "CLOSE_FRAME_SENT"}
      /\ c'.lock = c.lock /\ c'.tx = c.tx
  <2>1. c' = [c EXCEPT !.state = "WAIT_TIMEOUT", !.error = "SERVER_CLOSE",
                    !.due = {},
                    !.bits = @ \ {"STOPPED", "CLOSE_FRAME_SENT"}]
    BY DEF TaskClosesAndReconnects
  <2>. QED BY <1>1, <2>1 DEF ClientType
<1>4. obs' \in ObsType /\ obs'.torn = obs.torn /\ obs'.view = "down"
  <2>1. obs' = Event(obs, "CLOSED") /\ obs.view = "up"
    BY <1>1 DEF TaskClosesAndReconnects, ViewInv, Live, At
  <2>. QED BY <1>1, <2>1, EventType, Views
<1>5. /\ ~Connected' /\ PongInv' /\ ~Stopped' /\ ~TaskIsGone /\ ~TaskIsGone'
      /\ net' \in NetType /\ net'.open = "none" /\ net'.link = "none"
  BY <1>1, <1>2, <1>3, NoLinkIs DEF PongInv, Connected, Stopped, TaskIsGone
<1>6. ViewInv'
  BY <1>1, <1>2, <1>3, <1>4 DEF ViewInv, Live, At
<1>. QED BY <1>1, <1>2, <1>3, <1>4, <1>5, <1>6, TaskKeeps DEF At

\* The server's CLOSE, when it does not.
LEMMA ClosesKeeps ==
  ASSUME IInv, TaskCloses, UNCHANGED <<conf, heap, app, send>>
  PROVE  IInv'
<1>1. /\ TypeOK /\ ViewInv /\ CallInv /\ c \in ClientType /\ obs \in ObsType
      /\ budget' \in [faults : Nat, server : Nat, mic : Nat] /\ budget' = budget
      /\ task.pc = "drain" /\ net' = net /\ net' \in NetType
  BY DEF IInv, TypeOK, TaskCloses, At
<1>2. task' \in TaskType /\ task'.pc = "finish"
  BY GoDoes DEF TaskCloses, Pcs
<1>3. /\ c' \in ClientType /\ c'.state = "UNKNOW"
      /\ c'.bits = c.bits /\ c'.lock = c.lock /\ c'.tx = c.tx
  <2>1. c' = [c EXCEPT !.run = FALSE, !.state = "UNKNOW", !.due = {}]
    BY DEF TaskCloses
  <2>. QED BY <1>1, <2>1 DEF ClientType
<1>4. obs' \in ObsType /\ obs'.torn = obs.torn /\ obs'.view = "down"
  <2>1. obs' = Event(obs, "CLOSED") /\ obs.view = "up"
    BY <1>1 DEF TaskCloses, ViewInv, Live, At
  <2>. QED BY <1>1, <2>1, EventType, Views
<1>5. ~Connected' /\ PongInv' /\ Live /\ Live' /\ Stopped' = Stopped
  BY <1>1, <1>2, <1>3 DEF PongInv, Connected, Stopped, Live
<1>6. ViewInv'
  BY <1>1, <1>2, <1>3, <1>4 DEF ViewInv, Live, At
<1>. QED BY <1>1, <1>2, <1>3, <1>4, <1>5, <1>6, StaysLive, TaskKeeps DEF At

\* The end of the task, before STOPPED_BIT.
LEMMA FinishesKeeps ==
  ASSUME IInv, TaskFinishes, UNCHANGED <<conf, heap, app, send>>
  PROVE  IInv'
<1>1. /\ TypeOK /\ ViewInv /\ CallInv /\ c \in ClientType /\ obs \in ObsType
      /\ budget' \in [faults : Nat, server : Nat, mic : Nat] /\ budget' = budget
      /\ task.pc = "finish" /\ net' = NoLink
  BY DEF IInv, TypeOK, TaskFinishes, At
<1>2. task' \in TaskType /\ task'.pc = "stopping"
  BY GoDoes DEF TaskFinishes, Pcs
<1>3. /\ c' \in ClientType /\ c'.state = "UNKNOW"
      /\ c'.bits = c.bits /\ c'.lock = c.lock /\ c'.tx = c.tx
  <2>1. c' = [c EXCEPT !.state = "UNKNOW", !.due = {}]
    BY DEF TaskFinishes
  <2>. QED BY <1>1, <2>1 DEF ClientType
<1>4. obs' \in ObsType /\ obs'.torn = obs.torn /\ obs'.view = "finished"
  <2>1. obs' = Event(obs, "FINISH") /\ obs.view \in {"begun", "trying", "up", "down"}
    BY <1>1 DEF TaskFinishes, ViewInv, Live, At, ClientType
  <2>. QED BY <1>1, <2>1, EventType, Views
<1>5. /\ ~Connected' /\ PongInv' /\ ~TaskIsGone /\ ~TaskIsGone'
      /\ app.ip > 1 => ~Stopped'
      /\ net' \in NetType /\ net'.open = "none" /\ net'.link = "none"
  BY <1>1, <1>2, <1>3, NoLinkIs DEF PongInv, Connected, Stopped, TaskIsGone, CallInv
<1>6. ViewInv'
  BY <1>1, <1>2, <1>3, <1>4 DEF ViewInv, Live, At
<1>. QED BY <1>1, <1>2, <1>3, <1>4, <1>5, <1>6, TaskKeeps DEF At

\* STOPPED_BIT is set.
LEMMA EndsKeeps ==
  ASSUME IInv, TaskEnds, UNCHANGED <<conf, heap, app, send>>
  PROVE  IInv'
<1>1. /\ TypeOK /\ ViewInv /\ CallInv /\ c \in ClientType
      /\ budget' \in [faults : Nat, server : Nat, mic : Nat] /\ budget' = budget
      /\ obs' \in ObsType /\ net' \in NetType
      /\ task.pc = "stopping" /\ net' = net /\ obs' = obs
  BY DEF IInv, TypeOK, TaskEnds, At
<1>2. task' \in TaskType /\ task'.pc = "gone"
  BY GoDoes DEF TaskEnds, Pcs
<1>3. /\ c' \in ClientType /\ c'.state = c.state
      /\ c'.bits = c.bits \union {"STOPPED"} /\ c'.lock = c.lock /\ c'.tx = c.tx
  <2>1. c' = [c EXCEPT !.bits = @ \union {"STOPPED"}]
    BY DEF TaskEnds
  <2>. QED BY <1>1, <2>1 DEF ClientType
<1>4. c.state = "UNKNOW"
  BY <1>1 DEF ViewInv, Live
<1>5. ~Connected' /\ PongInv' /\ ~TaskIsGone /\ TaskIsGone' /\ Stopped'
  BY <1>1, <1>2, <1>3, <1>4 DEF PongInv, Connected, Stopped, TaskIsGone
<1>6. ViewInv'
  BY <1>1, <1>2, <1>3, <1>4 DEF ViewInv, Live, At
<1>. QED BY <1>1, <1>2, <1>3, <1>5, <1>6, TaskKeeps DEF At

\* Every step of the task.
LEMMA TaskStepKeeps ==
  ASSUME IInv, QuietInv, TaskNext \/ TaskMishap
  PROVE  IInv'
<1>1. UNCHANGED <<conf, heap, app, send>>
  BY DEF TaskNext, TaskMishap
<1>. QED
  BY <1>1, BeginsKeeps, LeavesLoopKeeps, ConnectsKeeps, KeepsAliveKeeps, RetriesKeeps,
     EchoesCloseKeeps, IdlesKeeps, TakesTxKeeps, GivesUpKeeps, SendsControlKeeps,
     PollsKeeps, ReportsErrorKeeps, ReceivesKeeps, ClearsWakeupKeeps, BacksOffKeeps,
     WakesKeeps, DrainsKeeps, GoesRoundKeeps, ClosesAndReconnectsKeeps, ClosesKeeps,
     FinishesKeeps, EndsKeeps, FailsToConnectKeeps, TxTimesOutKeeps
  DEF TaskNext, TaskMishap

-----------------------------------------------------------------------------
(* The allocations. *)

\* Allocations one after the other.
LEMMA OneByOne ==
  ASSUME NEW S, NEW s \in Seq(S), NEW t \in Seq(S)
  PROVE  /\ s \o t \in Seq(S)
         /\ s # <<>> => s \o t # <<>> /\ (s \o t)[1] = s[1]
  OBVIOUS

\* The allocation for a field that may be set.
LEMMA GivenSeq ==
  ASSUME NEW S, NEW n, NEW set, n \in S \/ n \notin set
  PROVE  Given(n, set) \in Seq(S)
  BY DEF Given, OnlyIf

\* init allocates the client first.
LEMMA InitStepsSeq ==
  ASSUME NEW S, NEW fields, NEW sep \in BOOLEAN,
         Names \ {"host", "uri_host"} \subseteq S,
         "host" \in S \/ "host" \notin fields,
         "uri_host" \in S \/ "uri" \notin fields
  PROVE  /\ InitSteps(fields, sep) \in Seq(S)
         /\ InitSteps(fields, sep) # <<>>
         /\ InitSteps(fields, sep)[1] = "client"
<1>1. SetConfig(fields) \in Seq(S)
  <2>1. AuthBasic(fields) \in Seq(S)
    BY DEF AuthBasic, OnlyIf, Names, Strings
  <2>2. \A n \in {"host", "username", "password", "uri", "path", "subprotocol", "user_agent", "headers"} : Given(n, fields) \in Seq(S)
    BY GivenSeq DEF Names, Strings
  <2>. QED
    BY <2>1, <2>2, OneByOne DEF SetConfig
<1>2. OnlyIf("uri" \in fields, SetUri(fields)) \in Seq(S)
  <2>. SUFFICES ASSUME "uri" \in fields PROVE SetUri(fields) \in Seq(S)
    BY DEF OnlyIf
  <2>1. /\ <<"scheme", "uri_host">> \in Seq(S)
        /\ OnlyIf("uri_path" \in fields, <<"path">>) \in Seq(S)
        /\ OnlyIf("uri_user" \in fields, <<"user_info", "password", "username">>) \in Seq(S)
    BY DEF OnlyIf, Names, Strings
  <2>. QED
    BY <2>1, OneByOne DEF SetUri
<1>. QED
  <2>1. /\ <<"client", "loop">> \in Seq(S) /\ <<"lock">> \in Seq(S)
        /\ <<"config">> \in Seq(S) /\ <<"rx", "tx", "status_bits">> \in Seq(S)
        /\ OnlyIf(sep, <<"tx_lock">>) \in Seq(S)
        /\ Given("if_name", fields) \in Seq(S) /\ Given("scheme", fields) \in Seq(S)
        /\ OnlyIf({"scheme", "uri"} \intersect fields = {}, <<"scheme">>) \in Seq(S)
    BY DEF OnlyIf, Given, Names, Strings
  <2>2. <<"client", "loop">> # <<>> /\ <<"client", "loop">>[1] = "client"
    OBVIOUS
  <2>. QED
    BY <1>1, <1>2, <2>1, <2>2, OneByOne DEF InitSteps

\* What init has allocated after any number of its steps, and at its end.
LEMMA AllocatedAre ==
  ASSUME NEW S, NEW fields, NEW sep \in BOOLEAN,
         Names \ {"host", "uri_host"} \subseteq S,
         "host" \in S \/ "host" \notin fields,
         "uri_host" \in S \/ "uri" \notin fields
  PROVE  /\ \A k \in 0 .. Len(InitSteps(fields, sep)) - 1 : Allocated(fields, sep, k) \subseteq S
         /\ AfterInit(fields, sep) \subseteq S
         /\ "client" \in AfterInit(fields, sep)
<1>. DEFINE steps == InitSteps(fields, sep)
<1>1. steps \in Seq(S) /\ steps # <<>> /\ steps[1] = "client"
  BY InitStepsSeq
<1>. HIDE DEF steps
<1>2. Len(steps) \in Nat /\ 1 <= Len(steps) /\ \A i \in 1 .. Len(steps) : steps[i] \in S
  BY <1>1
<1>3. ASSUME NEW k \in 0 .. Len(steps)
      PROVE  Allocated(fields, sep, k) \subseteq S
  BY <1>2 DEF Allocated, steps
<1>4. "client" \in Allocated(fields, sep, Len(steps))
  <2>. 1 \in 1 .. Len(steps) /\ steps[1] # "user_info"
    BY <1>1, <1>2
  <2>. QED BY <1>1 DEF Allocated, steps
<1>5. \A k \in 0 .. Len(steps) - 1 : k \in 0 .. Len(steps)
  BY <1>2
<1>6. Len(steps) \in 0 .. Len(steps)
  BY <1>2
<1>. QED BY <1>3, <1>4, <1>5, <1>6 DEF AfterInit, steps

\* What destroy leaves allocated.
LEMMA DestroyLeaves ==
  ASSUME NEW h, h \subseteq Names, ~ {"host", "uri_host"} \subseteq h
  PROVE  DestroyAndFree(h) \subseteq {"user_info"}
  BY DEF DestroyAndFree, DestroyConfig, Names, Strings

\* No caller sets host and uri both, so that nothing is overwritten.
LEMMA InitAllocates ==
  ASSUME NEW name \in {"example", "linux", "device", "testee"}, NEW sep \in BOOLEAN
  PROVE  /\ AfterInit(Fields(name), sep) \subseteq Names
         /\ ~ {"host", "uri_host"} \subseteq AfterInit(Fields(name), sep)
         /\ "client" \in AfterInit(Fields(name), sep)
         /\ \A k \in 0 .. Len(InitSteps(Fields(name), sep)) - 1 :
              AfterFailedInit(Fields(name), sep, k) \subseteq {"user_info"}
<1>1. CASE name = "device"
  <2>1. "uri" \notin Fields(name)
    BY <1>1 DEF Fields
  <2>. DEFINE S == Names \ {"uri_host"}
  <2>2. /\ \A k \in 0 .. Len(InitSteps(Fields(name), sep)) - 1 :
             Allocated(Fields(name), sep, k) \subseteq S
        /\ AfterInit(Fields(name), sep) \subseteq S
        /\ "client" \in AfterInit(Fields(name), sep)
    <3>1. Names \ {"host", "uri_host"} \subseteq S /\ "host" \in S
      BY DEF Names, Strings
    <3>. HIDE DEF S
    <3>. QED BY <2>1, <3>1, AllocatedAre
  <2>. QED BY <2>2, DestroyLeaves DEF AfterFailedInit
<1>2. CASE name # "device"
  <2>1. "host" \notin Fields(name)
    BY <1>2 DEF Fields
  <2>. DEFINE S == Names \ {"host"}
  <2>2. /\ \A k \in 0 .. Len(InitSteps(Fields(name), sep)) - 1 :
             Allocated(Fields(name), sep, k) \subseteq S
        /\ AfterInit(Fields(name), sep) \subseteq S
        /\ "client" \in AfterInit(Fields(name), sep)
    <3>1. Names \ {"host", "uri_host"} \subseteq S /\ "uri_host" \in S
      BY DEF Names, Strings
    <3>. HIDE DEF S
    <3>. QED BY <2>1, <3>1, AllocatedAre
  <2>. QED BY <2>2, DestroyLeaves DEF AfterFailedInit
<1>. QED BY <1>1, <1>2

\* What creating the transport allocates.
LEMMA CreateKeeps ==
  ASSUME NEW h, h \subseteq Names, NEW k \in 0 .. Len(TransportSteps)
  PROVE  /\ CreateTransport(h, k) \subseteq Names
         /\ \A n \in {"client", "host", "uri_host"} : n \in CreateTransport(h, k) <=> n \in h
<1>1. ToSet(TransportSteps) = {"transport_list", "tcp", "ws"} /\ k \in 0 .. 3
  BY DEF TransportSteps, ToSet
<1>2. ToSet(SubSeq(TransportSteps, 1, k)) \subseteq {"transport_list", "tcp", "ws"}
  BY <1>1 DEF TransportSteps, ToSet
<1>. QED BY <1>1, <1>2 DEF CreateTransport, Names

-----------------------------------------------------------------------------
(* The API keeps the invariant. *)

\* The long message is sent once.
LEMMA NotLongAgain ==
  ASSUME TypeOK, app'.ip = app.ip + 1, conf' = conf, app.ip >= 4
  PROVE  Op' # "long"
<1>1. conf.script \in {"example", "linux", "device", "testee"}
  BY ConfFields DEF TypeOK
<1>2. app.ip \in Nat /\ app.ip # 0
  BY DEF TypeOK, AppType
<1>3. CASE conf.script = "example"
  BY <1>2, <1>3 DEF Op, Done, Script, Example
<1>4. CASE conf.script = "linux"
  BY <1>2, <1>4 DEF Op, Done, Script, Linux
<1>5. CASE conf.script = "device"
  BY <1>2, <1>5 DEF Op, Done, Script, Device
<1>6. CASE conf.script = "testee"
  BY <1>2, <1>6 DEF Op, Done, Script, Testee
<1>. QED BY <1>1, <1>3, <1>4, <1>5, <1>6

\* A call returns; no process is inside a send of this thread.
LEMMA ReturnKeepsCall ==
  ASSUME TypeOK, CallInv, send["app"] = Idle, Op # "none", Returned,
         UNCHANGED <<conf, send>>, budget'.mic = budget.mic,
         Stopped' <=> TaskIsGone',
         Op \in {"init", "header", "stop"} => TaskIsGone'
  PROVE  CallInv'
<1>1. /\ app'.ip = app.ip + 1 /\ app'.ip > 1 /\ app'.pc = "run"
      /\ Previous' = Op /\ Op' # "init"
      /\ Op' = "header" => Op = "init"
      /\ Op' = "start" => Op \in {"init", "header", "stop"}
  BY NextCall
<1>2. app'.ip # 1
  BY <1>1
<1>. QED BY <1>1, <1>2 DEF CallInv

\* No frame is written when a call returns.
LEMMA ReturnKeepsFrame ==
  ASSUME TypeOK, FrameInv, MessagesAreWhole, send["app"] = Idle, Op # "none",
         Returned, UNCHANGED <<conf, send, net>>, obs'.torn = obs.torn,
         Connected' => Connected
  PROVE  FrameInv' /\ MessagesAreWhole'
<1>1. app'.ip = app.ip + 1 /\ app.ip \in Nat
  BY NextCall DEF TypeOK, AppType
<1>2. app.ip >= 4 => Op' # "long"
  BY <1>1, NotLongAgain
<1>3. /\ Idle.pc = "idle"
      /\ app.ip >= 4 => app'.ip >= 4
      /\ app.ip >= 6 => app'.ip >= 6
  BY <1>1 DEF Idle
<1>4. net.open = "app" =>
        \/ conf.script = "linux" /\ app'.ip >= 6
        \/ conf.script = "example" /\ app'.ip >= 4 /\ Op' # "long"
  BY <1>2, <1>3 DEF FrameInv
<1>5. /\ send'["app"].pc = "idle" /\ send'["mic"] = send["mic"]
      /\ net'.open = net.open /\ net'.link = net.link /\ conf' = conf
  BY <1>3
<1>6. FrameInv'
  BY <1>4, <1>5 DEF FrameInv
<1>. QED BY <1>6 DEF MessagesAreWhole

\* A call that leaves the task alone returns.
LEMMA ReturnKeeps ==
  ASSUME IInv, send["app"] = Idle, Op \notin {"none", "init"}, Returned,
         UNCHANGED <<conf, net, task, send, obs>>,
         budget' = budget, c' \in ClientType,
         c'.state = c.state, c'.lock = c.lock, c'.tx = c.tx,
         c'.waitPong = c.waitPong, c'.timeout = c.timeout,
         Stopped' <=> Stopped, "WAKEUP" \in c.bits => "WAKEUP" \in c'.bits,
         app.pc = "setting" => "WAKEUP" \in c'.bits,
         Op = "stop" => TaskIsGone,
         heap' \subseteq Names, ~ {"host", "uri_host"} \subseteq heap',
         "client" \notin heap' =>
           Op = "destroy" /\ TaskIsGone /\ heap' \subseteq {"user_info"}
  PROVE  IInv'
<1>1. /\ TypeOK /\ ViewInv /\ CallInv /\ HeapInv /\ LockInv /\ FrameInv /\ PongInv
      /\ WakeupNotLost /\ MessagesAreWhole
  BY DEF IInv
<1>2. /\ app' \in AppType /\ app'.pc = "run"
      /\ Previous' = Op /\ (Op = "destroy" => Op' = "none")
  BY <1>1, NextCall
<1>3. TypeOK'
  BY <1>1, <1>2 DEF TypeOK
<1>4. TaskIsGone' <=> TaskIsGone
  BY DEF TaskIsGone
<1>5. app.ip > 1
  BY <1>1, ScriptIs DEF TypeOK, AppType
<1>6. Op \in {"init", "header", "stop"} => TaskIsGone
  BY <1>1 DEF CallInv
<1>7. Stopped' <=> TaskIsGone'
  BY <1>1, <1>4, <1>5 DEF CallInv
<1>8. CallInv'
  BY <1>1, <1>4, <1>6, <1>7, ReturnKeepsCall
<1>9. HeapInv'
  <2>1. Op = "destroy" => conf.script # "device"
    BY <1>1, ScriptIs
  <2>. QED BY <1>2, <1>4, <2>1 DEF HeapInv
<1>10. Connected' => Connected
  BY DEF Connected
<1>11. FrameInv' /\ MessagesAreWhole'
  BY <1>1, <1>10, ReturnKeepsFrame
<1>12. ViewInv'
  BY <1>1 DEF ViewInv, Live, At
<1>13. LockInv'
  BY <1>1 DEF LockInv, SendLock, At
<1>14. PongInv'
  BY <1>1 DEF PongInv, Connected
<1>15. WakeupNotLost'
  BY <1>1 DEF WakeupNotLost, At
<1>. QED BY <1>3, <1>8, <1>9, <1>11, <1>12, <1>13, <1>14, <1>15 DEF IInv

\* A call goes on to wait, or from the wait for the task to the rest of it.
LEMMA PauseKeeps ==
  ASSUME IInv, send["app"] = Idle, Op # "none", Op # "init", NEW pc,
         app' = [app EXCEPT !.pc = pc],
         UNCHANGED <<conf, net, task, send, obs>>,
         heap' = heap, budget' = budget, c' \in ClientType,
         c'.state = c.state, c'.lock = c.lock, c'.tx = c.tx,
         c'.waitPong = c.waitPong, c'.timeout = c.timeout \/ pc = "setting",
         Stopped' <=> Stopped, "WAKEUP" \in c.bits => "WAKEUP" \in c'.bits,
         app.pc # "setting",
         \/ pc = "run" /\ TaskIsGone
         \/ pc = "setting" /\ Op = "timeout"
         \/ pc = "stopping" /\ Op \in {"stop", "close", "destroy"}
         \/ pc = "closing" /\ Op = "close"
  PROVE  IInv'
<1>1. /\ TypeOK /\ ViewInv /\ CallInv /\ HeapInv /\ LockInv /\ FrameInv /\ PongInv
      /\ WakeupNotLost /\ MessagesAreWhole /\ app \in AppType
  BY DEF IInv, TypeOK
<1>2. /\ app' \in AppType /\ app'.pc = pc /\ app'.ip = app.ip
  BY <1>1 DEF AppType
<1>3. TypeOK'
  BY <1>1, <1>2 DEF TypeOK
<1>4. Op' = Op /\ Previous' = Previous
  BY <1>2, SameCall
<1>5. TaskIsGone' <=> TaskIsGone
  BY DEF TaskIsGone
<1>6. app.ip # 1
  BY <1>1, ScriptIs
<1>7. CallInv'
  BY <1>1, <1>2, <1>4, <1>5, <1>6 DEF CallInv
<1>8. HeapInv'
  BY <1>1, <1>2, <1>4 DEF HeapInv
<1>9. FramesOf(Op)' = FramesOf(Op) /\ (Connected' => Connected)
  BY <1>4 DEF Connected
<1>10. FrameInv' /\ MessagesAreWhole'
  BY <1>1, <1>2, <1>4, <1>9 DEF FrameInv, MessagesAreWhole
<1>11. ViewInv'
  BY <1>1 DEF ViewInv, Live, At
<1>12. LockInv'
  BY <1>1 DEF LockInv, SendLock, At
<1>13. PongInv'
  BY <1>1 DEF PongInv, Connected
<1>14. WakeupNotLost'
  BY <1>1, <1>2 DEF WakeupNotLost, At
<1>. QED BY <1>3, <1>7, <1>8, <1>10, <1>11, <1>12, <1>13, <1>14 DEF IInv

\* The calling thread is not inside a send when it is in another call.
LEMMA NotSending ==
  ASSUME IInv, app.pc # "run" \/ send["app"].pc = "idle"
  PROVE  send["app"] = Idle
  BY DEF IInv, CallInv, Threads

\* A call that is not init has a client.
LEMMA HeapStays ==
  ASSUME IInv, Op \notin {"none", "init"}
  PROVE  /\ heap \subseteq Names /\ ~ {"host", "uri_host"} \subseteq heap
         /\ "client" \in heap /\ app.ip > 1
<1>1. app.ip > 1
  BY ScriptIs DEF IInv, TypeOK, AppType
<1>. QED BY <1>1 DEF IInv, TypeOK, HeapInv

\* A call returns that has changed nothing.
LEMMA StaysReturned ==
  ASSUME IInv, send["app"] = Idle, Op \notin {"none", "init"}, Returned,
         UNCHANGED <<conf, heap, c, net, task, send, obs, budget>>,
         app.pc # "setting", Op = "stop" => TaskIsGone
  PROVE  IInv'
<1>1. c' \in ClientType
  BY DEF IInv, TypeOK
<1>2. Stopped' <=> Stopped
  BY DEF Stopped
<1>. QED BY <1>1, <1>2, HeapStays, ReturnKeeps

\* esp_websocket_client_append_header.
LEMMA AddsHeaderKeeps ==
  ASSUME IInv, AppAddsHeader
  PROVE  IInv'
<1>1. /\ Op = "header" /\ send["app"] = Idle /\ Returned /\ app.pc = "run"
      /\ heap' = heap \union {"headers"}
      /\ UNCHANGED <<conf, c, net, task, send, obs, budget>> /\ c' \in ClientType
  BY NotSending DEF AppAddsHeader, Call, IInv, TypeOK
<1>2. Stopped' <=> Stopped
  BY <1>1 DEF Stopped
<1>3. /\ heap' \subseteq Names /\ ~ {"host", "uri_host"} \subseteq heap'
      /\ "client" \in heap'
  BY <1>1, HeapStays DEF Names, Strings
<1>. QED BY <1>1, <1>2, <1>3, ReturnKeeps

\* Calls that change nothing.
LEMMA DelaysKeeps ==
  ASSUME IInv, AppDelays \/ AppCloseRefused \/ AppSeesClosed
  PROVE  IInv'
<1>1. CASE AppDelays
  BY <1>1, NotSending, StaysReturned DEF AppDelays, Call
<1>2. CASE AppCloseRefused
  BY <1>2, NotSending, StaysReturned DEF AppCloseRefused, Call
<1>3. CASE AppSeesClosed
  <2>1. app.pc = "closing" /\ Op = "close"
    BY <1>3 DEF AppSeesClosed, IInv, CallInv
  <2>. QED BY <1>3, <2>1, NotSending, StaysReturned DEF AppSeesClosed
<1>. QED BY <1>1, <1>2, <1>3

\* The steps of esp_websocket_client_set_reconnect_timeout.
LEMMA TakesStep ==
  ASSUME c \in ClientType
  PROVE  /\ TakeTimeoutStep(1) =>
              /\ c' \in ClientType /\ c'.timeout = "short" /\ c'.bits = c.bits
              /\ c'.state = c.state /\ c'.lock = c.lock /\ c'.tx = c.tx
              /\ c'.waitPong = c.waitPong
         /\ TakeTimeoutStep(2) =>
              /\ c' \in ClientType /\ c'.timeout = c.timeout
              /\ c'.bits = c.bits \union {"WAKEUP"}
              /\ c'.state = c.state /\ c'.lock = c.lock /\ c'.tx = c.tx
              /\ c'.waitPong = c.waitPong
<1>1. TimeoutSteps[1] = "value" /\ TimeoutSteps[2] = "bit"
  BY DEF TimeoutSteps
<1>2. /\ TakeTimeoutStep(1) => c' = [c EXCEPT !.timeout = "short"]
      /\ TakeTimeoutStep(2) => c' = [c EXCEPT !.bits = @ \union {"WAKEUP"}]
  BY <1>1 DEF TakeTimeoutStep
<1>3. /\ [c EXCEPT !.timeout = "short"] \in ClientType
      /\ [c EXCEPT !.bits = @ \union {"WAKEUP"}] \in ClientType
  BY DEF ClientType
<1>. QED BY <1>2, <1>3 DEF ClientType

\* esp_websocket_client_set_reconnect_timeout, both steps.
LEMMA SetsTimeoutKeeps ==
  ASSUME IInv, AppSetsTimeout \/ AppWakesTask
  PROVE  IInv'
<1>0. c \in ClientType
  BY DEF IInv, TypeOK
<1>1. CASE AppSetsTimeout
  <2>1. /\ Op = "timeout" /\ send["app"] = Idle /\ app.pc = "run"
        /\ UNCHANGED <<conf, heap, net, task, send, obs, budget>>
    BY <1>1, NotSending DEF AppSetsTimeout, Call
  <2>2. CASE conf.auto
    <3>1. TakeTimeoutStep(1) /\ app' = [app EXCEPT !.pc = "setting"]
      BY <1>1, <2>2 DEF AppSetsTimeout
    <3>2. /\ c' \in ClientType /\ c'.bits = c.bits
          /\ c'.state = c.state /\ c'.lock = c.lock /\ c'.tx = c.tx
          /\ c'.waitPong = c.waitPong
      BY <1>0, <3>1, TakesStep
    <3>3. Stopped' <=> Stopped
      BY <3>2 DEF Stopped
    <3>. QED BY <2>1, <3>1, <3>2, <3>3, PauseKeeps
  <2>3. CASE ~conf.auto
    BY <1>1, <2>1, <2>3, StaysReturned DEF AppSetsTimeout
  <2>. QED BY <2>2, <2>3
<1>2. CASE AppWakesTask
  <2>1. /\ app.pc = "setting" /\ Op = "timeout" /\ send["app"] = Idle /\ Returned
        /\ UNCHANGED <<conf, heap, net, task, send, obs, budget>> /\ TakeTimeoutStep(2)
    BY <1>2, NotSending DEF AppWakesTask, IInv, CallInv
  <2>2. /\ c' \in ClientType /\ c'.bits = c.bits \union {"WAKEUP"}
        /\ c'.timeout = c.timeout
        /\ c'.state = c.state /\ c'.lock = c.lock /\ c'.tx = c.tx
        /\ c'.waitPong = c.waitPong
    BY <1>0, <2>1, TakesStep
  <2>3. Stopped' <=> Stopped
    BY <2>2 DEF Stopped
  <2>. QED BY <2>1, <2>2, <2>3, HeapStays, ReturnKeeps
<1>. QED BY <1>1, <1>2

\* A caller asks the task to stop.
LEMMA AsksKeeps ==
  ASSUME IInv, AskToStop, send["app"] = Idle, app.pc # "setting",
         Op \in {"stop", "close", "destroy"},
         UNCHANGED <<conf, heap, net, task, send, obs, budget>>
  PROVE  IInv'
<1>1. /\ c \in ClientType
      /\ c' = [c EXCEPT !.run = FALSE, !.bits = @ \union {"REQUESTED_STOP"}]
      /\ app' = [app EXCEPT !.pc = "stopping"]
  BY DEF IInv, TypeOK, AskToStop
<1>2. /\ c' \in ClientType /\ c'.bits = c.bits \union {"REQUESTED_STOP"}
      /\ c'.timeout = c.timeout
      /\ c'.state = c.state /\ c'.lock = c.lock /\ c'.tx = c.tx
      /\ c'.waitPong = c.waitPong
  BY <1>1 DEF ClientType
<1>3. Stopped' <=> Stopped
  BY <1>2 DEF Stopped
<1>. QED BY <1>1, <1>2, <1>3, PauseKeeps

\* stop, destroy, and a close that times out.
LEMMA StopsKeeps ==
  ASSUME IInv, AppStops \/ AppDestroys \/ AppCloseTimesOut
  PROVE  IInv'
<1>1. CASE AppStops
  <2>1. /\ Op = "stop" /\ send["app"] = Idle /\ app.pc = "run"
        /\ UNCHANGED <<conf, heap, net, task, send, obs, budget>>
    BY <1>1, NotSending DEF AppStops, Call
  <2>2. CASE Stopped
    <3>1. TaskIsGone
      BY <2>1, <2>2, HeapStays DEF IInv, CallInv
    <3>. QED BY <1>1, <2>1, <2>2, <3>1, StaysReturned DEF AppStops
  <2>3. CASE ~Stopped
    BY <1>1, <2>1, <2>3, AsksKeeps DEF AppStops
  <2>. QED BY <2>2, <2>3
<1>2. CASE AppDestroys
  <2>1. /\ Op = "destroy" /\ send["app"] = Idle /\ app.pc = "run"
        /\ UNCHANGED <<conf, net, task, send, obs, budget>>
    BY <1>2, NotSending DEF AppDestroys, Call
  <2>2. CASE Stopped
    <3>1. TaskIsGone
      BY <2>1, <2>2, HeapStays DEF IInv, CallInv
    <3>2. Returned /\ heap' = DestroyAndFree(heap) /\ UNCHANGED c
      BY <1>2, <2>2 DEF AppDestroys
    <3>3. heap' \subseteq {"user_info"}
      BY <2>1, <3>2, HeapStays, DestroyLeaves
    <3>4. heap' \subseteq Names /\ ~ {"host", "uri_host"} \subseteq heap' /\ c' \in ClientType
      BY <3>2, <3>3 DEF Names, IInv, TypeOK
    <3>5. Stopped' <=> Stopped
      BY <3>2 DEF Stopped
    <3>. QED BY <2>1, <3>1, <3>2, <3>3, <3>4, <3>5, ReturnKeeps
  <2>3. CASE ~Stopped
    BY <1>2, <2>1, <2>3, AsksKeeps DEF AppDestroys
  <2>. QED BY <2>2, <2>3
<1>3. CASE AppCloseTimesOut
  <2>1. app.pc = "closing" /\ Op = "close"
    BY <1>3 DEF AppCloseTimesOut, IInv, CallInv
  <2>. QED BY <1>3, <2>1, NotSending, AsksKeeps DEF AppCloseTimesOut
<1>. QED BY <1>1, <1>2, <1>3

\* The task has stopped.
LEMMA SeesStoppedKeeps ==
  ASSUME IInv, AppSeesStopped
  PROVE  IInv'
<1>1. /\ app.pc = "stopping" /\ Stopped /\ c' = [c EXCEPT !.state = "UNKNOW"]
      /\ UNCHANGED <<conf, heap, net, task, send, obs, budget>>
      /\ c \in ClientType
  BY DEF AppSeesStopped, IInv, TypeOK
<1>2. Op \in {"stop", "close", "destroy"} /\ send["app"] = Idle
  BY <1>1, NotSending DEF IInv, CallInv
<1>3. TaskIsGone
  BY <1>1, <1>2, HeapStays DEF IInv, CallInv
<1>4. c.state = "UNKNOW"
  BY <1>3 DEF IInv, ViewInv, Live, TaskIsGone
<1>5. c' = c
  BY <1>1, <1>4 DEF ClientType
<1>6. c' \in ClientType /\ (Stopped' <=> Stopped)
  BY <1>1, <1>5 DEF Stopped
<1>7. CASE Op = "destroy"
  <2>1. app' = [app EXCEPT !.pc = "run"]
    BY <1>7 DEF AppSeesStopped
  <2>. QED BY <1>1, <1>2, <1>3, <1>5, <1>6, <2>1, PauseKeeps
<1>8. CASE Op # "destroy"
  <2>1. Returned
    BY <1>8 DEF AppSeesStopped
  <2>. QED BY <1>1, <1>2, <1>3, <1>5, <2>1, StaysReturned
<1>. QED BY <1>7, <1>8

\* close() after its frame.
LEMMA MarksCloseKeeps ==
  ASSUME IInv, AppMarksClose
  PROVE  IInv'
<1>1. /\ app.pc = "sent" /\ c' = [c EXCEPT !.bits = @ \union {"CLOSE_FRAME_SENT"}]
      /\ UNCHANGED <<conf, heap, net, task, send, obs, budget>>
      /\ c \in ClientType
  BY DEF AppMarksClose, IInv, TypeOK
<1>2. Op = "close" /\ send["app"] = Idle
  BY <1>1, NotSending DEF IInv, CallInv
<1>3. /\ c' \in ClientType /\ c'.bits = c.bits \union {"CLOSE_FRAME_SENT"}
      /\ c'.timeout = c.timeout
      /\ c'.state = c.state /\ c'.lock = c.lock /\ c'.tx = c.tx
      /\ c'.waitPong = c.waitPong
  BY <1>1 DEF ClientType
<1>4. Stopped' <=> Stopped
  BY <1>3 DEF Stopped
<1>5. CASE conf.auto /\ conf.closeRec
  BY <1>1, <1>2, <1>3, <1>4, <1>5, HeapStays, ReturnKeeps DEF AppMarksClose
<1>6. CASE ~(conf.auto /\ conf.closeRec)
  BY <1>1, <1>2, <1>3, <1>4, <1>6, PauseKeeps DEF AppMarksClose
<1>. QED BY <1>5, <1>6

\* esp_websocket_client_init, whole or failed.
LEMMA InitKeeps ==
  ASSUME IInv, AppInit
  PROVE  IInv'
<1>1. /\ TypeOK /\ ViewInv /\ CallInv /\ HeapInv /\ LockInv /\ FrameInv /\ PongInv
      /\ WakeupNotLost /\ MessagesAreWhole /\ app \in AppType
      /\ budget \in [faults : Nat, server : Nat, mic : Nat]
  BY DEF IInv, TypeOK
<1>2. /\ Op = "init" /\ app.pc = "run" /\ UNCHANGED <<conf, net, task, send, obs>>
  BY DEF AppInit, Call
<1>3. app.ip = 1 /\ task.pc = "none" /\ \A th \in Threads : send[th] = Idle
  BY <1>1, <1>2, ScriptIs DEF CallInv
<1>4. send["app"] = Idle /\ Idle.pc = "idle" /\ TaskIsGone /\ TaskIsGone'
  BY <1>2, <1>3 DEF Threads, Idle, TaskIsGone
<1>5. c.state = "UNKNOW" /\ net = NoLink
  BY <1>1, <1>3 DEF ViewInv, Live, At
<1>6. conf.script \in {"example", "linux", "device", "testee"} /\ conf.sep \in BOOLEAN
  BY <1>1, ConfFields DEF TypeOK
<1>7. ASSUME c'.state = "UNKNOW" PROVE ViewInv'
  BY <1>1, <1>2, <1>3, <1>5, <1>7 DEF ViewInv, Live, At
<1>8. LockInv'
  BY <1>2, <1>3, <1>4 DEF LockInv, At
<1>9. WakeupNotLost'
  BY <1>2, <1>3 DEF WakeupNotLost, At
<1>10. CASE /\ heap' = AfterInit(Fields(conf.script), conf.sep)
            /\ c' = [NoClient EXCEPT !.bits = {"STOPPED"}]
            /\ Returned /\ UNCHANGED budget
  <2>1. /\ c' \in ClientType /\ c'.state = "UNKNOW" /\ c'.bits = {"STOPPED"}
        /\ ~c'.waitPong
    BY <1>10 DEF ClientType, NoClient
  <2>2. /\ heap' \subseteq Names /\ ~ {"host", "uri_host"} \subseteq heap'
        /\ "client" \in heap'
    BY <1>6, <1>10, InitAllocates
  <2>3. Stopped' /\ ~Connected'
    BY <2>1 DEF Stopped, Connected
  <2>4. app' \in AppType
    BY <1>1, <1>2, <1>10, NextCall
  <2>5. TypeOK'
    BY <1>1, <1>2, <1>10, <2>1, <2>2, <2>4 DEF TypeOK
  <2>6. CallInv'
    BY <1>1, <1>2, <1>4, <1>10, <2>3, ReturnKeepsCall
  <2>7. HeapInv'
    BY <2>2 DEF HeapInv
  <2>8. FrameInv' /\ MessagesAreWhole'
    BY <1>1, <1>2, <1>4, <1>10, <2>3, ReturnKeepsFrame
  <2>9. PongInv'
    BY <2>1 DEF PongInv
  <2>. QED BY <1>7, <1>8, <1>9, <2>1, <2>5, <2>6, <2>7, <2>8, <2>9 DEF IInv
<1>11. CASE /\ Fault
            /\ \E k \in 0 .. Len(InitSteps(Fields(conf.script), conf.sep)) - 1 :
                 heap' = AfterFailedInit(Fields(conf.script), conf.sep, k)
            /\ app' = [app EXCEPT !.pc = "null"] /\ UNCHANGED c
  <2>1. heap' \subseteq {"user_info"}
    BY <1>6, <1>11, InitAllocates
  <2>2. heap' \subseteq Names /\ ~ {"host", "uri_host"} \subseteq heap'
    BY <2>1 DEF Names
  <2>3. app' \in AppType /\ app'.ip = 1 /\ app'.pc = "null"
    BY <1>1, <1>3, <1>11 DEF AppType
  <2>4. Op' = Op /\ Previous' = Previous
    BY <1>2, <1>3, <2>3, SameCall
  <2>5. budget' \in [faults : Nat, server : Nat, mic : Nat] /\ budget'.mic = budget.mic
    BY <1>1, <1>11 DEF Fault
  <2>6. TypeOK'
    BY <1>1, <1>2, <1>11, <2>2, <2>3, <2>5 DEF TypeOK
  <2>7. CallInv'
    BY <1>1, <1>2, <1>3, <1>4, <2>1, <2>3, <2>4, <2>5 DEF CallInv
  <2>8. HeapInv'
    BY <2>2, <2>3 DEF HeapInv
  <2>9. FramesOf(Op)' = FramesOf(Op) /\ (Connected' => Connected) /\ c'.state = "UNKNOW"
    BY <1>5, <1>11, <2>4 DEF Connected
  <2>10. FrameInv' /\ MessagesAreWhole'
    BY <1>1, <1>2, <1>3, <2>3, <2>4, <2>9 DEF FrameInv, MessagesAreWhole
  <2>11. PongInv'
    BY <1>1, <1>2, <1>11 DEF PongInv, Connected
  <2>. QED BY <1>7, <1>8, <1>9, <2>6, <2>7, <2>8, <2>9, <2>10, <2>11 DEF IInv
<1>. QED BY <1>10, <1>11 DEF AppInit

\* esp_websocket_client_start, whole or failed.
LEMMA StartsKeeps ==
  ASSUME IInv, AppStarts
  PROVE  IInv'
<1>1. /\ TypeOK /\ ViewInv /\ CallInv /\ HeapInv /\ LockInv /\ FrameInv /\ PongInv
      /\ WakeupNotLost /\ MessagesAreWhole /\ app \in AppType /\ c \in ClientType
      /\ budget \in [faults : Nat, server : Nat, mic : Nat] /\ task \in TaskType
  BY DEF IInv, TypeOK
<1>2. /\ Op = "start" /\ app.pc = "run" /\ UNCHANGED <<conf, net, send, obs>>
      /\ Returned /\ send["app"] = Idle
  BY NotSending DEF AppStarts, Call
<1>3. /\ TaskIsGone /\ Stopped
  BY <1>1, <1>2, HeapStays DEF CallInv
<1>4. c.state = "UNKNOW" /\ net = NoLink /\ obs.view \in {"none", "finished"}
      /\ ~Connected
  BY <1>1, <1>3 DEF ViewInv, Live, At, TaskIsGone, Connected
<1>5. /\ heap \subseteq Names /\ ~ {"host", "uri_host"} \subseteq heap
      /\ "client" \in heap
  BY <1>2, HeapStays
<1>6. /\ app' \in AppType
  BY <1>1, <1>2, NextCall
<1>7. ASSUME NEW k \in 0 .. Len(TransportSteps), heap' = CreateTransport(heap, k)
      PROVE  /\ heap' \subseteq Names /\ ~ {"host", "uri_host"} \subseteq heap'
             /\ "client" \in heap'
  BY <1>5, <1>7, CreateKeeps
<1>8. /\ Len(TransportSteps) \in 0 .. Len(TransportSteps)
      /\ \A k \in 0 .. Len(TransportSteps) - 1 : k \in 0 .. Len(TransportSteps)
  BY DEF TransportSteps
<1>9. ASSUME heap' \subseteq Names, ~ {"host", "uri_host"} \subseteq heap',
             "client" \in heap', c' \in ClientType, c'.state = c.state,
             c'.tx = c.tx \/ ~ conf.sep, c'.lock = c.lock \/ conf.sep,
             budget' \in [faults : Nat, server : Nat, mic : Nat],
             budget'.mic = budget.mic, Stopped' <=> TaskIsGone',
             task' \in TaskType, task' = task \/ task'.pc = "entry"
      PROVE  IInv'
  <2>1. TypeOK'
    BY <1>1, <1>2, <1>6, <1>9 DEF TypeOK
  <2>2. ~Connected'
    BY <1>4, <1>9 DEF Connected
  <2>3. CallInv'
    BY <1>1, <1>2, <1>9, ReturnKeepsCall
  <2>4. HeapInv'
    BY <1>9 DEF HeapInv
  <2>5. FrameInv' /\ MessagesAreWhole'
    BY <1>1, <1>2, <2>2, ReturnKeepsFrame
  <2>6. PongInv'
    BY <2>2 DEF PongInv
  <2>7. ViewInv'
    BY <1>1, <1>2, <1>3, <1>4, <1>9 DEF ViewInv, Live, At, TaskIsGone
  <2>8. LockInv'
    BY <1>1, <1>2, <1>3, <1>9 DEF LockInv, SendLock, At, TaskIsGone
  <2>9. WakeupNotLost'
    BY <1>3, <1>9 DEF WakeupNotLost, At, TaskIsGone
  <2>. QED BY <2>1, <2>3, <2>4, <2>5, <2>6, <2>7, <2>8, <2>9 DEF IInv
<1>10. CASE /\ heap' = CreateTransport(heap, Len(TransportSteps))
            /\ c' = [c EXCEPT !.bits = @ \ {"STOPPED", "CLOSE_FRAME_SENT",
                                             "REQUESTED_STOP", "WAKEUP"}]
            /\ Go("entry") /\ UNCHANGED budget
  <2>1. /\ c' \in ClientType /\ c'.state = c.state /\ c'.tx = c.tx /\ c'.lock = c.lock
        /\ "STOPPED" \notin c'.bits
    BY <1>1, <1>10 DEF ClientType
  <2>2. task' \in TaskType /\ task'.pc = "entry"
    BY <1>10, GoDoes DEF Pcs
  <2>3. ~Stopped' /\ ~TaskIsGone'
    BY <2>1, <2>2 DEF Stopped, TaskIsGone
  <2>. QED BY <1>1, <1>7, <1>8, <1>9, <1>10, <2>1, <2>2, <2>3
<1>11. CASE /\ Fault /\ UNCHANGED task
            /\ \/ /\ \E k \in 0 .. Len(TransportSteps) - 1 :
                       heap' = CreateTransport(heap, k)
                  /\ UNCHANGED c
               \/ /\ heap' = CreateTransport(heap, Len(TransportSteps))
                  /\ c' = [c EXCEPT !.bits = {"STOPPED"}]
  <2>1. budget' \in [faults : Nat, server : Nat, mic : Nat] /\ budget'.mic = budget.mic
    BY <1>1, <1>11 DEF Fault
  <2>2. TaskIsGone' /\ task' \in TaskType /\ task' = task
    BY <1>1, <1>3, <1>11 DEF TaskIsGone
  <2>3. CASE /\ \E k \in 0 .. Len(TransportSteps) - 1 : heap' = CreateTransport(heap, k)
             /\ UNCHANGED c
    <3>1. Stopped'
      BY <1>3, <2>3 DEF Stopped
    <3>. QED BY <1>1, <1>7, <1>8, <1>9, <2>1, <2>2, <2>3, <3>1
  <2>4. CASE /\ heap' = CreateTransport(heap, Len(TransportSteps))
             /\ c' = [c EXCEPT !.bits = {"STOPPED"}]
    <3>1. /\ c' \in ClientType /\ c'.state = c.state /\ c'.tx = c.tx /\ c'.lock = c.lock
          /\ c'.bits = {"STOPPED"}
      BY <1>1, <2>4 DEF ClientType
    <3>2. Stopped'
      BY <3>1 DEF Stopped
    <3>. QED BY <1>7, <1>8, <1>9, <2>1, <2>2, <2>4, <3>1, <3>2
  <2>. QED BY <1>11, <2>3, <2>4
<1>. QED BY <1>4, <1>10, <1>11, Zenon DEF AppStarts

\* Every step of the caller.
LEMMA AppStepKeeps ==
  ASSUME IInv, AppStep
  PROVE  IInv'
  BY InitKeeps, AddsHeaderKeeps, StartsKeeps, DelaysKeeps, SetsTimeoutKeeps, StopsKeeps,
     SeesStoppedKeeps, MarksCloseKeeps
  DEF AppStep

\* The server, the network and the clock.
LEMMA OutsideKeeps ==
  ASSUME IInv, UNCHANGED <<conf, heap, task, app, send, obs>>,
         c' \in ClientType, c'.state = c.state, c'.bits = c.bits, c'.lock = c.lock,
         c'.tx = c.tx, c'.waitPong = c.waitPong, c'.timeout = c.timeout,
         net' \in NetType, net'.open = net.open, net'.pinged = net.pinged,
         net' = net \/ (net.link # "none" /\ net'.link # "none"),
         budget' \in [faults : Nat, server : Nat, mic : Nat],
         budget'.mic = budget.mic
  PROVE  IInv'
<1>1. /\ TypeOK /\ ViewInv /\ CallInv /\ HeapInv /\ LockInv /\ FrameInv /\ PongInv
      /\ WakeupNotLost /\ MessagesAreWhole
  BY DEF IInv
<1>2. Op' = Op /\ Previous' = Previous /\ (TaskIsGone' <=> TaskIsGone)
      /\ (Stopped' <=> Stopped) /\ (Connected' <=> Connected)
  BY SameCall DEF TaskIsGone, Stopped, Connected
<1>3. TypeOK'
  BY <1>1 DEF TypeOK
<1>4. CallInv'
  BY <1>1, <1>2 DEF CallInv
<1>5. HeapInv'
  BY <1>1, <1>2 DEF HeapInv
<1>6. FramesOf(Op)' = FramesOf(Op) /\ (net.link = "none" => net'.link = "none")
  BY <1>2
<1>7. FrameInv' /\ MessagesAreWhole'
  BY <1>1, <1>2, <1>6 DEF FrameInv, MessagesAreWhole
<1>8. PongInv'
  BY <1>1, <1>2 DEF PongInv
<1>9. LockInv'
  BY <1>1 DEF LockInv, SendLock, At
<1>10. WakeupNotLost'
  BY <1>1 DEF WakeupNotLost, At
<1>11. ViewInv'
  BY <1>1, NoLinkIs DEF ViewInv, Live, At
<1>. QED BY <1>3, <1>4, <1>5, <1>7, <1>8, <1>9, <1>10, <1>11 DEF IInv

\* A frame of the server arrives.
LEMMA ReplyDoes ==
  ASSUME net \in NetType, NEW f \in {"TEXT", "PING", "PONG", "CLOSE"}, Reply(f)
  PROVE  /\ net' \in NetType /\ net'.open = net.open /\ net'.pinged = net.pinged
         /\ net'.link = net.link
<1>1. PICK box : box = Append(net.inbox, f)
  OBVIOUS
<1>2. PICK bye : bye = (net.bye \/ f = "CLOSE")
  OBVIOUS
<1>3. box \in Seq({"TEXT", "PING", "PONG", "CLOSE"}) /\ bye \in BOOLEAN
  BY <1>1, <1>2 DEF NetType
<1>4. net' = [net EXCEPT !.inbox = box, !.owed = @ \ {f}, !.bye = bye]
  <2>. DOMAIN net = {"link", "inbox", "owed", "pinged", "bye", "asked", "open"}
    BY DEF NetType
  <2>. QED BY <1>1, <1>2, Zenon DEF Reply
<1>. QED BY <1>3, <1>4 DEF NetType

\* Every step of the environment.
LEMMA EnvironmentKeeps ==
  ASSUME IInv, Environment
  PROVE  IInv'
<1>1. /\ c \in ClientType /\ net \in NetType
      /\ budget \in [faults : Nat, server : Nat, mic : Nat]
  BY DEF IInv, TypeOK
<1>2. ASSUME NEW f \in {"TEXT", "PING", "CLOSE"}, ServerSends(f)
      PROVE  IInv'
  <2>1. /\ UNCHANGED <<conf, heap, c, task, app, send, obs>>
        /\ net.link = "up" /\ Reply(f)
        /\ budget.server > 0 /\ budget' = [budget EXCEPT !.server = @ - 1]
    BY <1>2 DEF ServerSends, Others
  <2>2. budget' \in [faults : Nat, server : Nat, mic : Nat] /\ budget'.mic = budget.mic
    BY <1>1, <2>1
  <2>. QED BY <1>1, <2>1, <2>2, ReplyDoes, OutsideKeeps
<1>3. CASE ServerAnswers
  <2>1. /\ UNCHANGED <<conf, heap, c, task, app, send, obs>> /\ UNCHANGED budget
        /\ net.link = "up" /\ \E f \in net.owed : Reply(f)
    BY <1>3 DEF ServerAnswers, Others
  <2>2. PICK f \in {"PONG", "CLOSE"} : Reply(f)
    BY <1>1, <2>1 DEF NetType
  <2>. QED BY <1>1, <2>1, <2>2, ReplyDoes, OutsideKeeps
<1>4. CASE ServerHangsUp
  <2>1. /\ UNCHANGED <<conf, heap, c, task, app, send, obs>> /\ UNCHANGED budget
        /\ net.link = "up" /\ net' = [net EXCEPT !.link = "down"]
    BY <1>4 DEF ServerHangsUp, Others
  <2>2. /\ net' \in NetType /\ net'.open = net.open /\ net'.pinged = net.pinged
        /\ net'.link # "none"
    BY <1>1, <2>1 DEF NetType
  <2>. QED BY <1>1, <2>1, <2>2, OutsideKeeps
<1>5. CASE LinkBreaks
  <2>1. /\ UNCHANGED <<conf, heap, c, task, app, send, obs>> /\ Fault
        /\ net.link = "up"
        /\ \E how \in {"down", "silent"} : net' = [net EXCEPT !.link = how]
    BY <1>5 DEF LinkBreaks, Others
  <2>2. /\ net' \in NetType /\ net'.open = net.open /\ net'.pinged = net.pinged
        /\ net'.link # "none"
    BY <1>1, <2>1 DEF NetType
  <2>3. budget' \in [faults : Nat, server : Nat, mic : Nat] /\ budget'.mic = budget.mic
    BY <1>1, <2>1 DEF Fault
  <2>. QED BY <1>1, <2>1, <2>2, <2>3, OutsideKeeps
<1>6. ASSUME NEW t \in Intervals, Elapses(t)
      PROVE  IInv'
  <2>1. /\ UNCHANGED <<conf, heap, net, task, app, send, obs, budget>>
        /\ c' = [c EXCEPT !.due = @ \union {t}]
    BY <1>6, Zenon DEF Elapses
  <2>2. /\ c' \in ClientType /\ c'.state = c.state /\ c'.bits = c.bits /\ c'.lock = c.lock
        /\ c'.tx = c.tx /\ c'.waitPong = c.waitPong /\ c'.timeout = c.timeout
    BY <1>1, <2>1 DEF ClientType
  <2>. QED BY <1>1, <2>1, <2>2, OutsideKeeps
<1>. QED BY <1>2, <1>3, <1>4, <1>5, <1>6 DEF Environment

-----------------------------------------------------------------------------
(* The senders keep the invariant. *)

\* What a step of a send call does to the calls, whatever it does otherwise.
LEMMA SendKeepsCall ==
  ASSUME TypeOK, CallInv, HeapInv, WakeupNotLost, NEW th \in Threads,
         task' = task, heap' = heap, conf' = conf,
         c'.bits = c.bits, c'.timeout = c.timeout,
         \A other \in Threads : other # th => send'[other] = send[other],
         send'[th].pc = "idle" => send'[th] = Idle,
         th = "mic" =>
           /\ app' = app /\ app.ip # 1
           /\ send'["mic"] = Idle \/ (conf.script = "device" /\ budget'.mic > 0),
         th = "app" =>
           /\ Op \in Sends /\ app.pc = "run" /\ budget' = budget
           /\ \/ app' = app
              \/ send'["app"] = Idle /\ app'.ip = app.ip /\ app'.pc = "sent" /\ Op = "close"
              \/ send'["app"] = Idle /\ Returned
  PROVE  CallInv' /\ HeapInv' /\ WakeupNotLost'
<1>1. (TaskIsGone' <=> TaskIsGone) /\ (Stopped' <=> Stopped)
  BY DEF TaskIsGone, Stopped
<1>2. WakeupNotLost'
  BY <1>1 DEF WakeupNotLost, At, Threads
<1>3. CASE th = "mic"
  <2>1. Op' = Op /\ Previous' = Previous
    BY <1>3, SameCall
  <2>2. send'["app"] = send["app"] /\ send'["mic"].pc = "idle" => send'["mic"] = Idle
    BY <1>3 DEF Threads
  <2>3. CallInv'
    BY <1>1, <1>3, <2>1, <2>2 DEF CallInv, Threads
  <2>4. HeapInv'
    BY <1>1, <1>3, <2>1 DEF HeapInv
  <2>. QED BY <1>2, <2>3, <2>4
<1>4. CASE th = "app"
  <2>1. /\ Op \in Sends /\ app.pc = "run" /\ budget' = budget
        /\ Op \notin {"none", "init", "header", "stop", "start", "destroy", "timeout"}
        /\ send'["mic"] = send["mic"]
        /\ send'["app"].pc = "idle" => send'["app"] = Idle
    BY <1>4 DEF Sends, Threads
  <2>2. app.ip # 1 /\ app.ip \in Nat /\ app.ip > 1
    BY <2>1, ScriptIs DEF TypeOK, AppType
  <2>3. "client" \in heap
    BY <2>1, <2>2 DEF HeapInv
  <2>4. HeapInv'
    BY <2>3 DEF HeapInv
  <2>5. CASE app'.ip = app.ip /\ (app' = app \/ (send'["app"] = Idle /\ app'.pc = "sent" /\ Op = "close"))
    <3>1. Op' = Op /\ Previous' = Previous
      BY <2>5, SameCall
    <3>2. CallInv'
      BY <1>1, <2>1, <2>2, <2>5, <3>1 DEF CallInv, Threads
    <3>. QED BY <1>2, <2>4, <3>2
  <2>6. CASE send'["app"] = Idle /\ Returned
    <3>1. /\ app'.ip = app.ip + 1 /\ app'.ip > 1 /\ app'.pc = "run"
          /\ Previous' = Op /\ Op' # "init"
          /\ Op' = "header" => Op = "init"
          /\ Op' = "start" => Op \in {"init", "header", "stop"}
      BY <2>1, <2>6, NextCall
    <3>2. app'.ip # 1
      BY <3>1
    <3>3. CallInv'
      BY <1>1, <2>1, <2>2, <2>6, <3>1, <3>2 DEF CallInv, Threads
    <3>. QED BY <1>2, <2>4, <3>3
  <2>. QED BY <1>4, <2>5, <2>6
<1>. QED BY <1>3, <1>4 DEF Threads

\* Whoever writes has the lock for sending.
LEMMA SendKeepsLock ==
  ASSUME LockInv, NEW th \in Threads, task' = task, conf' = conf,
         \A other \in Threads : other # th => send'[other] = send[other],
         \/ /\ c'.tx = c.tx /\ c'.lock = c.lock
            /\ send'[th].pc = "write" => send[th].pc = "write"
         \/ /\ send[th].pc = "write" /\ send'[th].pc # "write"
            /\ conf.sep => c'.tx = "none" /\ c'.lock = c.lock
            /\ ~conf.sep => c'.lock = "none" /\ c'.tx = c.tx
         \/ /\ Free(SendLock)
            /\ conf.sep => c'.tx = th /\ c'.lock = c.lock
            /\ ~conf.sep => c'.lock = th /\ c'.tx = c.tx
  PROVE  LockInv'
<1>0. "task" \notin Threads /\ "none" \notin Threads
  BY DEF Threads
<1>1. CASE /\ c'.tx = c.tx /\ c'.lock = c.lock
           /\ send'[th].pc = "write" => send[th].pc = "write"
  BY <1>1 DEF LockInv, SendLock, At
<1>2. CASE /\ send[th].pc = "write" /\ send'[th].pc # "write"
           /\ conf.sep => c'.tx = "none" /\ c'.lock = c.lock
           /\ ~conf.sep => c'.lock = "none" /\ c'.tx = c.tx
  <2>1. SendLock = th
    BY <1>2 DEF LockInv
  <2>2. \A t \in Threads : send'[t].pc # "write"
    BY <1>2, <2>1 DEF LockInv
  <2>. QED BY <1>0, <1>2, <2>1, <2>2 DEF LockInv, SendLock, At
<1>3. CASE /\ Free(SendLock)
           /\ conf.sep => c'.tx = th /\ c'.lock = c.lock
           /\ ~conf.sep => c'.lock = th /\ c'.tx = c.tx
  <2>1. \A t \in Threads : send[t].pc # "write"
    BY <1>0, <1>3 DEF LockInv, Free
  <2>2. SendLock' = th
    BY <1>3 DEF SendLock
  <2>. QED BY <1>0, <1>3, <2>1, <2>2 DEF LockInv, SendLock, At, Free
<1>. QED BY <1>1, <1>2, <1>3

\* A thread that wants to send: the second one is only told of a connection
\* after a task has begun.
LEMMA WasInitialised ==
  ASSUME IInv, obs.connected \/ Op \in Sends \/ \E th \in Threads : send[th].pc # "idle"
  PROVE  app.ip # 1
<1>1. Idle.pc = "idle"
  BY DEF Idle
<1>2. Op \in Sends => Op # "init"
  BY DEF Sends
<1>. QED BY <1>1, <1>2, ScriptIs DEF IInv, CallInv, ViewInv

\* What a send leaves of the connection.
LEMMA SendKeepsView ==
  ASSUME ViewInv, task' = task, c'.state = c.state, obs'.view = obs.view,
         obs'.connected = obs.connected, net'.link = net.link,
         net' = net \/ net # NoLink
  PROVE  ViewInv'
  BY DEF ViewInv, Live, At

\* The entry of a send call.
LEMMA CheckKeeps ==
  ASSUME IInv, NEW th \in Threads, SendCheck(th)
  PROVE  IInv'
<1>1. /\ TypeOK /\ ViewInv /\ CallInv /\ HeapInv /\ LockInv /\ FrameInv /\ PongInv
      /\ WakeupNotLost /\ MessagesAreWhole
      /\ Idle.pc = "idle" /\ "lock" # "idle"
  BY DEF IInv, Idle
<1>2. /\ c' = c /\ net' = net /\ task' = task /\ obs' = obs /\ heap' = heap /\ conf' = conf
      /\ send[th].pc = "idle" /\ (th = "app" => app.pc = "run" /\ Op \in Sends)
      /\ th = "mic" => conf.script = "device" /\ budget.mic > 0 /\ obs.connected
      /\ send' \in [Threads -> SendType]
      /\ \A other \in Threads : other # th => send'[other] = send[other]
      /\ app' \in AppType
      /\ budget' \in [faults : Nat, server : Nat, mic : Nat]
      /\ \/ /\ Connected /\ app' = app /\ budget' = budget
            /\ send'[th].pc = "lock"
            /\ send'[th].left = IF th = "mic" THEN FramesOf("long") ELSE FramesOf(Op)
         \/ /\ send'[th] = Idle
            /\ th = "mic" => app' = app
            /\ th = "app" => Returned /\ Op # "none" /\ budget' = budget
  BY <1>1, CheckDoes
<1>3. app.ip # 1
  BY <1>2, WasInitialised DEF Threads
<1>4. TypeOK'
  BY <1>1, <1>2 DEF TypeOK
<1>5. CallInv' /\ HeapInv' /\ WakeupNotLost'
  BY <1>1, <1>2, <1>3, SendKeepsCall DEF Threads
<1>6. LockInv'
  BY <1>1, <1>2, SendKeepsLock
<1>7. ViewInv' /\ PongInv' /\ MessagesAreWhole' /\ (Connected' <=> Connected)
  BY <1>1, <1>2, SendKeepsView DEF PongInv, MessagesAreWhole, Connected
<1>8. FrameInv'
  <2>1. CASE th = "mic"
    <3>1. send'["app"] = send["app"] /\ app' = app
      BY <1>2, <2>1 DEF Threads
    <3>2. Op' = Op /\ FramesOf(Op)' = FramesOf(Op)
      BY <1>2, <3>1, SameCall
    <3>3. send["mic"].pc = "idle"
      BY <1>2, <2>1
    <3>4. \/ send'["mic"].pc = "idle"
          \/ /\ Connected /\ send'["mic"].pc = "lock"
             /\ send'["mic"].left = <<Begin, Rest>>
      BY <1>1, <1>2, <2>1, FramesAre
    <3>. QED BY <1>1, <1>2, <1>7, <3>1, <3>2, <3>3, <3>4 DEF FrameInv
  <2>2. CASE th = "app"
    <3>1. send'["mic"] = send["mic"] /\ send["app"].pc = "idle"
      BY <1>2, <2>2 DEF Threads
    <3>2. CASE app' = app /\ send'["app"].pc = "lock" /\ send'["app"].left = FramesOf(Op)
      <4>1. Op' = Op /\ FramesOf(Op)' = FramesOf(Op)
        BY <1>2, <3>2, SameCall
      <4>. QED BY <1>1, <1>2, <1>7, <3>1, <3>2, <4>1 DEF FrameInv
    <3>3. CASE send'["app"] = Idle /\ Returned /\ Op # "none"
      <4>1. send["app"] = Idle
        BY <1>1, <3>1 DEF CallInv, Threads
      <4>2. send' = send
        BY <1>1, <1>2, <2>2, <3>1, <3>3, <4>1 DEF TypeOK, Threads
      <4>. QED BY <1>1, <1>2, <1>7, <3>3, <4>1, <4>2, ReturnKeepsFrame
    <3>. QED BY <1>2, <2>2, <3>2, <3>3
  <2>. QED BY <2>1, <2>2 DEF Threads
<1>. QED BY <1>4, <1>5, <1>6, <1>7, <1>8 DEF IInv

\* A sender takes its lock.
LEMMA TakesLockKeeps ==
  ASSUME IInv, NEW th \in Threads, SendTakesLock(th)
  PROVE  IInv'
<1>1. /\ TypeOK /\ ViewInv /\ CallInv /\ HeapInv /\ LockInv /\ FrameInv /\ PongInv
      /\ WakeupNotLost /\ MessagesAreWhole
  BY DEF IInv
<1>2. /\ net' = net /\ task' = task /\ obs' = obs /\ heap' = heap /\ conf' = conf
      /\ app' = app /\ budget' = budget
      /\ send[th].pc = "lock" /\ Free(SendLock)
      /\ send' \in [Threads -> SendType]
      /\ send'[th].pc = "write" /\ send'[th].left = send[th].left
      /\ \A other \in Threads : other # th => send'[other] = send[other]
      /\ c' \in ClientType
      /\ c'.state = c.state /\ c'.bits = c.bits /\ c'.timeout = c.timeout
      /\ c'.waitPong = c.waitPong
      /\ conf.sep => c'.tx = th /\ c'.lock = c.lock
      /\ ~conf.sep => c'.lock = th /\ c'.tx = c.tx
  BY <1>1, TakesLockDoes
<1>3. app.ip # 1 /\ send[th].pc # "idle"
  BY <1>2, WasInitialised
<1>4. /\ th = "mic" => budget.mic > 0 /\ conf.script = "device"
      /\ th = "app" => Op # "none" /\ Op \in Sends /\ app.pc = "run"
  BY <1>1, <1>3, InCall
<1>5. TypeOK'
  BY <1>1, <1>2 DEF TypeOK
<1>6. CallInv' /\ HeapInv' /\ WakeupNotLost'
  BY <1>1, <1>2, <1>3, <1>4, SendKeepsCall
<1>7. LockInv'
  BY <1>1, <1>2, SendKeepsLock
<1>8. ViewInv' /\ PongInv' /\ MessagesAreWhole' /\ (Connected' <=> Connected)
  BY <1>1, <1>2, SendKeepsView DEF PongInv, MessagesAreWhole, Connected
<1>9. FrameInv'
  <2>1. Op' = Op /\ FramesOf(Op)' = FramesOf(Op)
    BY <1>2, SameCall
  <2>2. CASE th = "mic"
    <3>1. send'["app"] = send["app"]
      BY <1>2, <2>2 DEF Threads
    <3>. QED BY <1>1, <1>2, <1>8, <2>1, <2>2, <3>1 DEF FrameInv
  <2>3. CASE th = "app"
    <3>1. send'["mic"] = send["mic"]
      BY <1>2, <2>3 DEF Threads
    <3>. QED BY <1>1, <1>2, <1>8, <2>1, <2>3, <3>1 DEF FrameInv
  <2>. QED BY <2>2, <2>3 DEF Threads
<1>. QED BY <1>5, <1>6, <1>7, <1>8, <1>9 DEF IInv

\* A sender gives up on its lock.
LEMMA LockTimesOutKeeps ==
  ASSUME IInv, NEW th \in Threads, SendLockTimesOut(th)
  PROVE  IInv'
<1>1. /\ TypeOK /\ ViewInv /\ CallInv /\ HeapInv /\ LockInv /\ FrameInv /\ PongInv
      /\ WakeupNotLost /\ MessagesAreWhole
  BY DEF IInv
<1>2. /\ c' = c /\ net' = net /\ task' = task /\ obs' = obs /\ heap' = heap /\ conf' = conf
      /\ send[th].pc = "lock"
      /\ send' \in [Threads -> SendType]
      /\ send'[th] = Idle /\ Idle.pc = "idle"
      /\ \A other \in Threads : other # th => send'[other] = send[other]
      /\ app' \in AppType
      /\ budget' \in [faults : Nat, server : Nat, mic : Nat]
      /\ th = "mic" => app' = app
      /\ th = "app" => Returned /\ Op # "none" /\ budget' = budget
  BY <1>1, LockTimesOutDoes
<1>3. app.ip # 1 /\ send[th].pc # "idle" /\ conf.script = "device"
  BY <1>2, WasInitialised DEF SendLockTimesOut
<1>4. th = "app" => Op # "none" /\ Op \in Sends /\ app.pc = "run"
  BY <1>1, <1>3, InCall
<1>5. TypeOK'
  BY <1>1, <1>2 DEF TypeOK
<1>6. CallInv' /\ HeapInv' /\ WakeupNotLost'
  BY <1>1, <1>2, <1>3, <1>4, SendKeepsCall
<1>7. LockInv'
  BY <1>1, <1>2, SendKeepsLock
<1>8. ViewInv' /\ PongInv' /\ MessagesAreWhole' /\ (Connected' <=> Connected)
  BY <1>1, <1>2, SendKeepsView DEF PongInv, MessagesAreWhole, Connected
<1>9. FrameInv'
  <2>1. net.open # "app"
    BY <1>1, <1>3 DEF FrameInv
  <2>2. CASE th = "mic"
    <3>1. send'["app"] = send["app"]
      BY <1>2, <2>2 DEF Threads
    <3>2. Op' = Op /\ FramesOf(Op)' = FramesOf(Op)
      BY <1>2, <2>2, SameCall
    <3>. QED BY <1>1, <1>2, <1>8, <2>1, <2>2, <3>1, <3>2 DEF FrameInv
  <2>3. CASE th = "app"
    <3>1. send'["mic"] = send["mic"]
      BY <1>2, <2>3 DEF Threads
    <3>. QED BY <1>1, <1>2, <1>8, <2>1, <2>3, <3>1 DEF FrameInv
  <2>. QED BY <2>2, <2>3 DEF Threads
<1>. QED BY <1>5, <1>6, <1>7, <1>8, <1>9 DEF IInv

\* A send fails.
LEMMA SendFailsKeeps ==
  ASSUME IInv, QuietInv, NEW th \in Threads, FailsToSend(th)
  PROVE  IInv'
<1>1. /\ TypeOK /\ ViewInv /\ CallInv /\ HeapInv /\ LockInv /\ FrameInv /\ PongInv
      /\ WakeupNotLost /\ MessagesAreWhole
  BY DEF IInv
<1>2. /\ task' = task /\ heap' = heap /\ conf' = conf
      /\ c' \in ClientType /\ net' \in NetType /\ obs' \in ObsType
      /\ c'.bits = c.bits /\ c'.timeout = c.timeout /\ c'.waitPong = c.waitPong
      /\ obs'.torn = obs.torn
      /\ send' \in [Threads -> SendType] /\ app' \in AppType
      /\ budget' \in [faults : Nat, server : Nat, mic : Nat]
      /\ \A other \in Threads : other # th => send'[other] = send[other]
      /\ \/ /\ send[th].pc = "write"
            /\ conf.sep => c'.tx = "none" /\ c'.lock = c.lock
            /\ ~conf.sep => c'.lock = "none" /\ c'.tx = c.tx
         \/ send[th].pc = "fail" /\ c'.tx = c.tx /\ c'.lock = c.lock
      /\ \/ /\ NothingToAbort(c.state) \/ conf.sep
            /\ c'.state = c.state /\ net' = net /\ obs' = obs
         \/ /\ ~NothingToAbort(c.state)
            /\ c'.state \in {"WAIT_TIMEOUT", "UNKNOW"}
            /\ net' = NoLink
            /\ obs' = Event(obs, IF c.state = "INIT" THEN "REPEATED"
                                                    ELSE "DISCONNECTED")
      /\ \/ /\ send[th].pc = "write" /\ conf.sep /\ send'[th].pc = "fail"
            /\ app' = app /\ budget' = budget
         \/ /\ send'[th] = Idle /\ Idle.pc = "idle"
            /\ NothingToAbort(c.state) \/ net' = NoLink
            /\ th = "mic" => app' = app
            /\ th = "app" => Returned /\ Op # "none" /\ budget' = budget
  BY <1>1, SendFailsDoes
<1>3. app.ip # 1 /\ send[th].pc \notin {"idle", "lock"}
  BY <1>2, WasInitialised
<1>4. /\ th = "mic" => budget.mic > 0 /\ conf.script = "device"
      /\ th = "app" => Op # "none" /\ Op \in Sends /\ app.pc = "run"
  BY <1>1, <1>3, InCall
<1>5. TypeOK'
  BY <1>1, <1>2 DEF TypeOK
<1>6. CallInv' /\ HeapInv' /\ WakeupNotLost'
  BY <1>1, <1>2, <1>3, <1>4, SendKeepsCall
<1>7. LockInv'
  BY <1>1, <1>2, <1>3, SendKeepsLock
<1>8. /\ ViewInv' /\ MessagesAreWhole'
      /\ \/ net' = net /\ c'.state = c.state
         \/ net'.open = "none" /\ net'.link = "none" /\ c'.state # "CONNECTED"
  <2>1. CASE c'.state = c.state /\ net' = net /\ obs' = obs
    BY <1>1, <1>2, <2>1, SendKeepsView DEF MessagesAreWhole
  <2>2. CASE /\ ~NothingToAbort(c.state)
             /\ c'.state \in {"WAIT_TIMEOUT", "UNKNOW"}
             /\ net' = NoLink
             /\ obs' = Event(obs, IF c.state = "INIT" THEN "REPEATED"
                                                     ELSE "DISCONNECTED")
    <3>1. PICK e : e = IF c.state = "INIT" THEN "REPEATED" ELSE "DISCONNECTED"
      OBVIOUS
    <3>2. send[th] # Idle
      BY <1>3 DEF Idle
    <3>3. obs.view # "begun"
      BY <3>2 DEF QuietInv
    <3>4. c.state \in {"INIT", "CONNECTED"}
      BY <1>1, <2>2 DEF TypeOK, ClientType, NothingToAbort
    <3>5. obs' = Event(obs, e)
      BY <2>2, <3>1, Zenon
    <3>6. ViewInv'
      BY <1>1, <1>2, <2>2, <3>1, <3>3, <3>4, <3>5, AbortKeepsView
    <3>. QED BY <1>1, <1>2, <2>2, <3>6, NoLinkIs DEF MessagesAreWhole
  <2>. QED BY <1>2, <2>1, <2>2
<1>9. PongInv' /\ (Connected' => Connected)
  BY <1>1, <1>2, <1>8 DEF PongInv, Connected
<1>10. send'[th].pc = "idle" => net'.open = "none" \/ ~Connected'
  BY <1>2, <1>8, NoLinkIs DEF NothingToAbort, Connected
<1>11. FrameInv'
  <2>1. CASE th = "mic"
    <3>1. send'["app"] = send["app"] /\ app' = app
      BY <1>2, <2>1 DEF Threads
    <3>2. Op' = Op /\ FramesOf(Op)' = FramesOf(Op)
      BY <1>2, <3>1, SameCall
    <3>3. send'["mic"].pc = "idle" \/ (send'["mic"].pc = "fail" /\ conf.sep)
      BY <1>2, <2>1
    <3>. QED BY <1>1, <1>2, <1>8, <1>9, <1>10, <2>1, <3>1, <3>2, <3>3 DEF FrameInv
  <2>2. CASE th = "app"
    <3>1. send'["mic"] = send["mic"]
      BY <1>2, <2>2 DEF Threads
    <3>2. CASE send'["app"].pc = "fail" /\ conf.sep /\ app' = app
      <4>1. Op' = Op /\ FramesOf(Op)' = FramesOf(Op)
        BY <1>2, <3>2, SameCall
      <4>. QED BY <1>1, <1>2, <1>8, <1>9, <3>1, <3>2, <4>1 DEF FrameInv
    <3>3. CASE send'["app"].pc = "idle" /\ Returned /\ Op # "none"
      <4>1. app'.ip = app.ip + 1 /\ app.ip \in Nat
        BY <1>1, <1>2, <3>3, NextCall DEF TypeOK, AppType
      <4>2. /\ app.ip >= 4 => Op' # "long"
            /\ app.ip >= 4 => app'.ip >= 4
            /\ app.ip >= 6 => app'.ip >= 6
        BY <1>1, <1>2, <4>1, NotLongAgain
      <4>3. net'.open = "app" =>
              \/ conf.script = "linux" /\ app'.ip >= 6
              \/ conf.script = "example" /\ app'.ip >= 4 /\ Op' # "long"
        BY <1>1, <1>8, <4>2 DEF FrameInv
      <4>. QED BY <1>1, <1>2, <1>8, <1>9, <3>1, <3>3, <4>3 DEF FrameInv
    <3>. QED BY <1>2, <2>2, <3>2, <3>3
  <2>. QED BY <2>1, <2>2 DEF Threads
<1>. QED BY <1>5, <1>6, <1>7, <1>8, <1>9, <1>11 DEF IInv

-----------------------------------------------------------------------------
(* What the frames do to each other. *)

\* What a frame does to the message that is open on the connection: CLOSE
\* nothing, a frame with FIN ends it, one without leaves it open.
LEMMA CloseOnWire ==
  ASSUME NEW open, NEW th, NEW f, NEW sending, f.op = "CLOSE"
  PROVE  OnWire(open, th, f) = open /\ Tears(open, th, f, sending) = {}
  BY Zenon DEF OnWire, Tears

\* A frame with FIN ends the message.
LEMMA EndsMessage ==
  ASSUME NEW open, NEW th, NEW f, f.op # "CLOSE", f.fin = TRUE
  PROVE  OnWire(open, th, f) = "none"
<1>1. OnWire(open, th, f) = IF f.fin THEN "none" ELSE th
  BY Zenon DEF OnWire
<1>. QED BY <1>1, Zenon

\* A frame without it leaves the message open, as the thread's own.
LEMMA LeavesOpen ==
  ASSUME NEW open, NEW th, NEW f, f.op # "CLOSE", ~f.fin
  PROVE  OnWire(open, th, f) = th
<1>1. OnWire(open, th, f) = IF f.fin THEN "none" ELSE th
  BY Zenon DEF OnWire
<1>. QED BY <1>1, Zenon

\* A message begun while none is open tears none.
LEMMA BeginsMessage ==
  ASSUME NEW open, NEW th, NEW f, NEW sending, f.op = "TEXT", open = "none"
  PROVE  Tears(open, th, f, sending) = {}
<1>1. "TEXT" # "CLOSE" /\ "TEXT" # "CONT"
  OBVIOUS
<1>. QED BY <1>1, Zenon DEF Tears

\* A thread that continues its own message tears none.
LEMMA ContinuesMessage ==
  ASSUME NEW open, NEW th, NEW f, NEW sending,
         f.op = "CONT", open = th, th # "none"
  PROVE  Tears(open, th, f, sending) = {}
<1>1. /\ f.op = "CLOSE" \/ (f.op = "CONT" /\ open = th)
      /\ open # "none"
  OBVIOUS
<1>. QED BY <1>1, Zenon DEF Tears

\* A continuation of no message is an orphan.
LEMMA IsOrphan ==
  ASSUME NEW open, NEW th, NEW f, NEW sending,
         f.op = "CONT", open = "none", th # "none"
  PROVE  Tears(open, th, f, sending) = {"orphan"}
<1>1. f.op # "CLOSE" /\ open # th
  OBVIOUS
<1>. QED BY <1>1, Zenon DEF Tears

\* A message begun inside one that was given up cuts that one.
LEMMA CutsMessage ==
  ASSUME NEW open, NEW th, NEW f, NEW sending,
         f.op = "TEXT", open # "none", open \notin sending
  PROVE  Tears(open, th, f, sending) = {"cut"}
<1>1. "TEXT" # "CLOSE" /\ "TEXT" # "CONT"
  OBVIOUS
<1>. QED BY <1>1, Zenon DEF Tears

\* The only frame of a message.
LEMMA HeadOne ==
  ASSUME NEW a
  PROVE  Head(<<a>>) = a /\ Tail(<<a>>) = <<>>
  OBVIOUS

\* The frames of a message of two.
LEMMA HeadAndTail ==
  ASSUME NEW a, NEW b
  PROVE  /\ Head(<<a>>) = a /\ Tail(<<a>>) = <<>>
         /\ Head(<<a, b>>) = a /\ Tail(<<a, b>>) = <<b>>
         /\ <<a>> # <<a, b>> /\ <<b>> # <<a, b>> /\ <<b>> # <<>>
<1>1. Head(<<a>>) = a /\ Tail(<<a>>) = <<>> /\ Head(<<a, b>>) = a
  OBVIOUS
<1>2. Tail(<<a, b>>) = <<b>>
  <2>. DEFINE s == Tail(<<a, b>>)  t == <<b>>
  <2>1. s \in Seq({a, b}) /\ t \in Seq({a, b})
    OBVIOUS
  <2>2. Len(s) = 1 /\ Len(t) = 1
    OBVIOUS
  <2>3. \A i \in 1 .. Len(s) : s[i] = t[i]
    OBVIOUS
  <2>. HIDE DEF s, t
  <2>4. s = t
    BY <2>1, <2>2, <2>3, SeqEqual
  <2>. QED BY <2>4 DEF s, t
<1>3. Len(<<a>>) = 1 /\ Len(<<b>>) = 1 /\ Len(<<a, b>>) = 2 /\ Len(<< >>) = 0
  OBVIOUS
<1>. QED BY <1>1, <1>2, <1>3

\* The frame the second sender writes, and what it leaves on the connection.
LEMMA MicFrame ==
  ASSUME IInv, send["mic"].pc = "write", net.link \in {"up", "silent"},
         NEW f, f = Head(send["mic"].left),
         NEW sending
  PROVE  \/ /\ Tail(send["mic"].left) = <<Rest>>
            /\ OnWire(net.open, "mic", f) = "mic"
            /\ Tears(net.open, "mic", f, sending) = {}
         \/ /\ Tail(send["mic"].left) = <<>>
            /\ OnWire(net.open, "mic", f) = "none"
            /\ \/ Tears(net.open, "mic", f, sending) = {}
               \/ Tears(net.open, "mic", f, sending) = {"orphan"} /\ conf.sep
<1>1. TypeOK /\ CallInv /\ FrameInv /\ net \in NetType
  BY DEF IInv, TypeOK
<1>2. conf.script = "device"
  BY <1>1, InCall DEF Threads
<1>3. net.open \in {"none", "mic"}
  BY <1>1, <1>2 DEF FrameInv, NetType, Threads
<1>4. CASE send["mic"].left = <<Begin, Rest>> /\ net.open # "mic"
  <2>1. f = Begin /\ Tail(send["mic"].left) = <<Rest>>
    BY <1>4, HeadAndTail
  <2>2. f.op = "TEXT" /\ f.op # "CLOSE" /\ ~f.fin
    BY <2>1 DEF Begin
  <2>3. net.open = "none"
    BY <1>3, <1>4
  <2>4. OnWire(net.open, "mic", f) = "mic"
    <3>1. f.op # "CLOSE"
      BY <2>2
    <3>2. ~f.fin
      BY <2>2
    <3>. QED BY <3>1, <3>2, LeavesOpen, Zenon
  <2>5. Tears(net.open, "mic", f, sending) = {}
    BY <2>2, <2>3, BeginsMessage
  <2>. QED BY <2>1, <2>4, <2>5, Zenon
<1>5. CASE send["mic"].left = <<Rest>> /\ (conf.sep \/ net.open = "mic" \/ net.link = "none")
  <2>1. f = Rest /\ Tail(send["mic"].left) = <<>>
    BY <1>5, HeadAndTail
  <2>2. f.op = "CONT" /\ f.op # "CLOSE" /\ f.fin = TRUE
    BY <2>1 DEF Rest
  <2>3. OnWire(net.open, "mic", f) = "none"
    BY <2>2, EndsMessage, Zenon
  <2>4. CASE net.open = "mic"
    <3>1. "mic" # "none"
      OBVIOUS
    <3>2. Tears(net.open, "mic", f, sending) = {}
      BY <2>2, <2>4, <3>1, ContinuesMessage
    <3>. QED BY <2>1, <2>3, <3>2, Zenon
  <2>5. CASE net.open = "none"
    <3>1. conf.sep
      BY <1>5, <2>5
    <3>2. "mic" # "none"
      OBVIOUS
    <3>3. Tears(net.open, "mic", f, sending) = {"orphan"}
      BY <2>2, <2>5, <3>2, IsOrphan
    <3>. QED BY <2>1, <2>3, <3>1, <3>3, Zenon
  <2>. QED BY <1>3, <2>4, <2>5
<1>. QED BY <1>1, <1>4, <1>5 DEF FrameInv

\* The same of the caller of the API, whose messages depend on its script.
LEMMA AppFrame ==
  ASSUME IInv, send["app"].pc = "write", net.link \in {"up", "silent"},
         NEW f, f = Head(send["app"].left),
         NEW sending, sending = {t \in Threads : send[t].pc \in {"lock", "write"}}
  PROVE  \/ /\ Op = "long" /\ conf.script = "example" /\ app.ip = 4
            /\ Tail(send["app"].left) = <<Rest>>
            /\ OnWire(net.open, "app", f) = "app"
            /\ Tears(net.open, "app", f, sending) = {}
         \/ /\ Tail(send["app"].left) = <<>>
            /\ \/ OnWire(net.open, "app", f) = "none"
               \/ /\ OnWire(net.open, "app", f) = "app" /\ conf.script = "linux"
                  /\ app.ip \in {5, 6}
               \/ Op = "close" /\ OnWire(net.open, "app", f) = net.open
            /\ \/ Tears(net.open, "app", f, sending) \in {{}, {"cut"}}
               \/ Tears(net.open, "app", f, sending) = {"orphan"} /\ conf.script # "device"
            /\ net.open = "mic" => send["mic"].pc # "write"
<1>1. TypeOK /\ CallInv /\ FrameInv /\ LockInv /\ net \in NetType /\ app \in AppType
  BY DEF IInv, TypeOK
<1>2. Op \in Sends
  BY <1>1, InCall DEF Threads
<1>3. send["mic"].pc # "write"
  BY <1>1 DEF LockInv, Threads
<1>4. net.open = "mic" => conf.script = "device" /\ "mic" \notin sending
  BY <1>1, <1>3 DEF FrameInv
<1>5. net.open \in {"none", "mic", "app"}
  BY <1>1 DEF NetType, Threads
<1>6. /\ Begin.op = "TEXT" /\ Begin.op # "CLOSE" /\ ~Begin.fin
      /\ Rest.op = "CONT" /\ Rest.op # "CLOSE" /\ Rest.fin = TRUE
  BY DEF Begin, Rest
<1>7. /\ net.open = "app" =>
           \/ conf.script = "linux" /\ app.ip >= 6
           \/ /\ conf.script = "example" /\ app.ip >= 4
              /\ Op = "long" => send["app"].left = <<Rest>>
      /\ \/ send["app"].left = FramesOf(Op)
         \/ Op = "long" /\ send["app"].left = <<Rest>>
  BY <1>1 DEF FrameInv
<1>8. CASE Op \in {"hello", "text"}
  <2>0. send["app"].left = <<[op |-> "TEXT", fin |-> TRUE, len |-> 1]>>
    <3>1. Op # "long"
      BY <1>8
    <3>. QED BY <1>7, <1>8, <3>1, FramesAre, Zenon
  <2>1. f = [op |-> "TEXT", fin |-> TRUE, len |-> 1] /\ Tail(send["app"].left) = <<>>
    BY <2>0, HeadOne, Zenon
  <2>2. f.op = "TEXT" /\ f.op # "CLOSE" /\ f.fin = TRUE
    BY <2>1
  <2>3. net.open # "app"
    <3>1. Op = "text" => conf.script = "device"
      BY <1>1, ScriptIs
    <3>2. Op = "hello" => \/ conf.script = "example" /\ app.ip = 3
                          \/ conf.script = "linux" /\ app.ip = 4
                          \/ conf.script = "testee"
      BY <1>1, ScriptIs
    <3>. QED BY <1>7, <1>8, <3>1, <3>2
  <2>4. OnWire(net.open, "app", f) = "none"
    BY <2>2, EndsMessage, Zenon
  <2>5. CASE net.open = "none"
    <3>1. Tears(net.open, "app", f, sending) = {}
      BY <2>2, <2>5, BeginsMessage
    <3>. QED BY <1>3, <2>1, <2>4, <3>1
  <2>6. CASE net.open = "mic"
    <3>1. net.open # "none" /\ net.open \notin sending
      BY <1>4, <2>6
    <3>2. Tears(net.open, "app", f, sending) = {"cut"}
      BY <2>2, <3>1, CutsMessage
    <3>. QED BY <1>3, <2>1, <2>4, <3>2
  <2>. QED BY <1>5, <2>3, <2>5, <2>6
<1>9. CASE Op = "partial"
  <2>0. send["app"].left = <<[op |-> "TEXT", fin |-> FALSE, len |-> 1]>>
    <3>1. Op # "long"
      BY <1>9
    <3>. QED BY <1>7, <1>9, <3>1, FramesAre, Zenon
  <2>1. f = [op |-> "TEXT", fin |-> FALSE, len |-> 1] /\ Tail(send["app"].left) = <<>>
    BY <2>0, HeadOne, Zenon
  <2>2. f.op = "TEXT" /\ f.op # "CLOSE" /\ ~f.fin
    BY <2>1
  <2>3. conf.script = "linux" /\ app.ip = 5
    BY <1>1, <1>9, ScriptIs
  <2>4. net.open = "none"
    BY <1>4, <1>5, <1>7, <2>3
  <2>5. OnWire(net.open, "app", f) = "app"
    <3>1. f.op # "CLOSE"
      BY <2>2
    <3>2. ~f.fin
      BY <2>2
    <3>. QED BY <3>1, <3>2, LeavesOpen, Zenon
  <2>6. Tears(net.open, "app", f, sending) = {}
    BY <2>2, <2>4, BeginsMessage
  <2>. QED BY <1>3, <2>1, <2>3, <2>5, <2>6
<1>10. CASE Op = "cont"
  <2>0. send["app"].left = <<[op |-> "CONT", fin |-> FALSE, len |-> 1]>>
    <3>1. Op # "long"
      BY <1>10
    <3>. QED BY <1>7, <1>10, <3>1, FramesAre, Zenon
  <2>1. f = [op |-> "CONT", fin |-> FALSE, len |-> 1] /\ Tail(send["app"].left) = <<>>
    BY <2>0, HeadOne, Zenon
  <2>2. f.op = "CONT" /\ f.op # "CLOSE" /\ ~f.fin
    BY <2>1
  <2>3. conf.script = "linux" /\ app.ip = 6
    BY <1>1, <1>10, ScriptIs
  <2>4. net.open \in {"none", "app"}
    BY <1>4, <1>5, <2>3
  <2>5. OnWire(net.open, "app", f) = "app"
    <3>1. f.op # "CLOSE"
      BY <2>2
    <3>2. ~f.fin
      BY <2>2
    <3>. QED BY <3>1, <3>2, LeavesOpen, Zenon
  <2>6. \/ Tears(net.open, "app", f, sending) = {}
        \/ Tears(net.open, "app", f, sending) = {"orphan"}
    <3>1. "app" # "none"
      OBVIOUS
    <3>. QED BY <2>2, <2>4, <3>1, ContinuesMessage, IsOrphan
  <2>. QED BY <1>3, <2>1, <2>3, <2>5, <2>6
<1>11. CASE Op = "fin"
  <2>0. send["app"].left = <<[op |-> "CONT", fin |-> TRUE, len |-> 0]>>
    <3>1. Op # "long"
      BY <1>11
    <3>. QED BY <1>7, <1>11, <3>1, FramesAre, Zenon
  <2>1. f = [op |-> "CONT", fin |-> TRUE, len |-> 0] /\ Tail(send["app"].left) = <<>>
    BY <2>0, HeadOne, Zenon
  <2>2. f.op = "CONT" /\ f.op # "CLOSE" /\ f.fin = TRUE
    BY <2>1
  <2>3. conf.script = "linux"
    BY <1>1, <1>11, ScriptIs
  <2>4. net.open \in {"none", "app"}
    BY <1>4, <1>5, <2>3
  <2>5. OnWire(net.open, "app", f) = "none"
    BY <2>2, EndsMessage, Zenon
  <2>6. \/ Tears(net.open, "app", f, sending) = {}
        \/ Tears(net.open, "app", f, sending) = {"orphan"}
    <3>1. "app" # "none"
      OBVIOUS
    <3>. QED BY <2>2, <2>4, <3>1, ContinuesMessage, IsOrphan
  <2>. QED BY <1>3, <2>1, <2>3, <2>5, <2>6
<1>12. CASE Op = "close"
  <2>0. send["app"].left = <<[op |-> "CLOSE", fin |-> TRUE, len |-> 0]>>
    <3>1. Op # "long"
      BY <1>12
    <3>. QED BY <1>7, <1>12, <3>1, FramesAre, Zenon
  <2>1. f = [op |-> "CLOSE", fin |-> TRUE, len |-> 0] /\ Tail(send["app"].left) = <<>>
    BY <2>0, HeadOne, Zenon
  <2>2. f.op = "CLOSE"
    BY <2>1
  <2>3. /\ OnWire(net.open, "app", f) = net.open
        /\ Tears(net.open, "app", f, sending) = {}
    BY <2>2, CloseOnWire, Zenon
  <2>. QED BY <1>3, <1>12, <2>1, <2>3
<1>13. CASE Op = "long"
  <2>1. conf.script = "example" /\ app.ip = 4
    BY <1>1, <1>13, ScriptIs
  <2>2. net.open \in {"none", "app"}
    BY <1>4, <1>5, <2>1
  <2>3. CASE send["app"].left = <<Begin, Rest>>
    <3>1. f = Begin /\ Tail(send["app"].left) = <<Rest>>
      BY <2>3, HeadAndTail
    <3>2. net.open = "none"
      BY <1>7, <1>13, <2>1, <2>2, <2>3, HeadAndTail
    <3>3. OnWire(net.open, "app", f) = "app" /\ Tears(net.open, "app", f, sending) = {}
      <4>1. f.op = "TEXT" /\ f.op # "CLOSE" /\ ~f.fin
        BY <1>6, <3>1
      <4>2. OnWire(net.open, "app", f) = "app"
        <5>1. f.op # "CLOSE"
          BY <4>1
        <5>2. ~f.fin
          BY <4>1
        <5>. QED BY <5>1, <5>2, LeavesOpen, Zenon
      <4>. QED BY <3>2, <4>1, <4>2, BeginsMessage
    <3>. QED BY <1>13, <2>1, <3>1, <3>3
  <2>4. CASE send["app"].left = <<Rest>>
    <3>1. f = Rest /\ Tail(send["app"].left) = <<>>
      BY <2>4, HeadAndTail
    <3>2. OnWire(net.open, "app", f) = "none"
      <4>1. f.op # "CLOSE" /\ f.fin = TRUE
        BY <1>6, <3>1
      <4>. QED BY <4>1, EndsMessage, Zenon
    <3>3. \/ Tears(net.open, "app", f, sending) = {}
          \/ Tears(net.open, "app", f, sending) = {"orphan"}
      <4>1. "app" # "none"
        OBVIOUS
      <4>. QED BY <1>6, <2>2, <3>1, <4>1, ContinuesMessage, IsOrphan
    <3>4. conf.script # "device"
      BY <2>1
    <3>. QED BY <1>3, <3>1, <3>2, <3>3, <3>4
  <2>. QED BY <1>7, <1>13, <2>3, <2>4, FramesAre
<1>. QED BY <1>2, <1>8, <1>9, <1>10, <1>11, <1>12, <1>13 DEF Sends

\* A frame is written.
LEMMA FrameKeeps ==
  ASSUME IInv, NEW th \in Threads, SendFrame(th)
  PROVE  IInv'
<1>1. /\ TypeOK /\ ViewInv /\ CallInv /\ HeapInv /\ LockInv /\ FrameInv /\ PongInv
      /\ WakeupNotLost /\ MessagesAreWhole
  BY DEF IInv
<1>. DEFINE f == Head(send[th].left)
            rest == Tail(send[th].left)
            sending == {t \in Threads : send[t].pc \in {"lock", "write"}}
            open == OnWire(net.open, th, f)
            tears == Tears(net.open, th, f, sending)
<1>2. /\ task' = task /\ heap' = heap /\ conf' = conf
      /\ send[th].pc = "write" /\ net.link \in {"up", "silent"}
      /\ net' \in NetType /\ net'.link = net.link
      /\ net'.pinged = net.pinged
      /\ net'.open = open
      /\ obs' \in ObsType /\ obs'.view = obs.view /\ obs'.connected = obs.connected
      /\ obs'.torn = obs.torn \union tears
      /\ c' \in ClientType
      /\ c'.state = c.state /\ c'.bits = c.bits /\ c'.timeout = c.timeout
      /\ c'.waitPong = c.waitPong
      /\ send' \in [Threads -> SendType]
      /\ \A other \in Threads : other # th => send'[other] = send[other]
      /\ app' \in AppType
      /\ budget' \in [faults : Nat, server : Nat, mic : Nat]
      /\ \/ /\ rest # <<>> /\ c' = c
            /\ send'[th].pc = "write" /\ send'[th].left = rest
            /\ app' = app /\ budget' = budget
         \/ /\ rest = <<>>
            /\ conf.sep => c'.tx = "none" /\ c'.lock = c.lock
            /\ ~conf.sep => c'.lock = "none" /\ c'.tx = c.tx
            /\ send'[th] = Idle /\ Idle.pc = "idle"
            /\ th = "mic" => app' = app
            /\ th = "app" => /\ budget' = budget
                             /\ \/ app'.ip = app.ip /\ app'.pc = "sent" /\ Op = "close"
                                \/ Returned /\ Op # "none"
  BY <1>1, FrameDoes
<1>. HIDE DEF f, rest, sending, open, tears
<1>3. app.ip # 1 /\ send[th].pc # "idle"
  BY <1>2, WasInitialised
<1>4. /\ th = "mic" => budget.mic > 0 /\ conf.script = "device"
      /\ th = "app" => Op # "none" /\ Op \in Sends /\ app.pc = "run"
  BY <1>1, <1>3, InCall
<1>5. TypeOK'
  BY <1>1, <1>2 DEF TypeOK
<1>6. CallInv' /\ HeapInv' /\ WakeupNotLost'
  BY <1>1, <1>2, <1>3, <1>4, SendKeepsCall
<1>7. LockInv'
  BY <1>1, <1>2, SendKeepsLock
<1>8. ViewInv' /\ PongInv' /\ (Connected' <=> Connected)
  BY <1>1, <1>2, NoLinkIs, SendKeepsView DEF PongInv, Connected
<1>9. <<Rest>> # <<>>
  BY HeadAndTail
<1>10. CASE th = "mic"
  <2>1. send'["app"] = send["app"] /\ app' = app
    BY <1>2, <1>10 DEF Threads
  <2>2. Op' = Op /\ FramesOf(Op)' = FramesOf(Op)
    BY <1>2, <2>1, SameCall
  <2>0. send["mic"].pc = "write" /\ net.link \in {"up", "silent"}
    BY <1>2, <1>10
  <2>3. \/ rest = <<Rest>> /\ open = "mic" /\ tears = {}
        \/ /\ rest = <<>> /\ open = "none"
           /\ tears = {} \/ (tears = {"orphan"} /\ conf.sep)
    <3>1. f = Head(send["mic"].left)
      BY <1>10 DEF f
    <3>2. rest = Tail(send["mic"].left)
      BY <1>10 DEF rest
    <3>3. open = OnWire(net.open, "mic", f)
      BY <1>10, Zenon DEF open
    <3>4. tears = Tears(net.open, "mic", f, sending)
      BY <1>10, Zenon DEF tears
    <3>. QED BY <2>0, <3>1, <3>2, <3>3, <3>4, MicFrame, Zenon
  <2>4. FrameInv'
    <3>1. CASE rest = <<Rest>> /\ open = "mic"
      BY <1>1, <1>2, <1>4, <1>8, <1>9, <1>10, <2>1, <2>2, <3>1 DEF FrameInv
    <3>2. CASE rest = <<>> /\ open = "none"
      BY <1>1, <1>2, <1>8, <1>10, <2>1, <2>2, <3>2 DEF FrameInv
    <3>. QED BY <2>3, <3>1, <3>2
  <2>5. MessagesAreWhole'
    BY <1>1, <1>2, <2>3 DEF MessagesAreWhole
  <2>. QED BY <1>5, <1>6, <1>7, <1>8, <2>4, <2>5 DEF IInv
<1>11. CASE th = "app"
  <2>1. send'["mic"] = send["mic"]
    BY <1>2, <1>11 DEF Threads
  <2>0. send["app"].pc = "write" /\ net.link \in {"up", "silent"}
    BY <1>2, <1>11
  <2>2. \/ /\ Op = "long" /\ conf.script = "example" /\ app.ip = 4
           /\ rest = <<Rest>> /\ open = "app" /\ tears = {}
        \/ /\ rest = <<>>
           /\ \/ open = "none"
              \/ open = "app" /\ conf.script = "linux" /\ app.ip \in {5, 6}
              \/ Op = "close" /\ open = net.open
           /\ tears \in {{}, {"cut"}} \/ (tears = {"orphan"} /\ conf.script # "device")
           /\ net.open = "mic" => send["mic"].pc # "write"
    <3>1. f = Head(send["app"].left)
      BY <1>11 DEF f
    <3>2. rest = Tail(send["app"].left)
      BY <1>11 DEF rest
    <3>3. open = OnWire(net.open, "app", f)
      BY <1>11, Zenon DEF open
    <3>4. tears = Tears(net.open, "app", f, sending)
      BY <1>11, Zenon DEF tears
    <3>5. sending = {t \in Threads : send[t].pc \in {"lock", "write"}}
      BY DEF sending
    <3>. QED BY <2>0, <3>1, <3>2, <3>3, <3>4, <3>5, AppFrame, Zenon
  <2>3. MessagesAreWhole'
    BY <1>1, <1>2, <2>2 DEF MessagesAreWhole
  <2>4. FrameInv'
    <3>1. CASE /\ Op = "long" /\ conf.script = "example" /\ app.ip = 4
               /\ rest = <<Rest>> /\ open = "app"
      <4>1. app' = app /\ send'["app"].pc = "write" /\ send'["app"].left = <<Rest>>
        BY <1>2, <1>9, <1>11, <3>1
      <4>2. Op' = Op /\ FramesOf(Op)' = FramesOf(Op)
        BY <1>2, <4>1, SameCall
      <4>3. conf.script # "device" /\ send["mic"].pc = "idle"
        BY <1>1, <3>1 DEF CallInv, Idle
      <4>. QED BY <1>1, <1>2, <1>8, <2>1, <3>1, <4>1, <4>2, <4>3 DEF FrameInv
    <3>2. CASE /\ rest = <<>>
               /\ \/ open = "none"
                  \/ open = "app" /\ conf.script = "linux" /\ app.ip \in {5, 6}
                  \/ Op = "close" /\ open = net.open
      <4>1. /\ send'["app"].pc = "idle"
            /\ \/ app'.ip = app.ip /\ app'.pc = "sent" /\ Op = "close"
               \/ Returned /\ Op # "none"
        BY <1>2, <1>9, <1>11, <3>2
      <4>2. send["mic"].pc # "write"
        BY <1>1, <1>2, <1>11 DEF LockInv, Threads
      <4>3. app.ip \in Nat /\ app'.ip \in Nat /\ app'.ip \in {app.ip, app.ip + 1}
        BY <1>1, <4>1, NextCall, <1>2 DEF TypeOK, AppType
      <4>4. app.ip >= 4 => Op' # "long"
        <5>1. CASE app'.ip = app.ip /\ Op = "close"
          BY <1>2, <5>1, SameCall
        <5>2. CASE Returned /\ Op # "none"
          BY <1>1, <1>2, <5>2, NextCall, NotLongAgain
        <5>. QED BY <4>1, <5>1, <5>2
      <4>5. app.ip \in {5, 6} => app.ip >= 4
        BY <4>3
      <4>6. open = "app" =>
              \/ conf.script = "linux" /\ app'.ip >= 6
              \/ conf.script = "example" /\ app'.ip >= 4 /\ Op' # "long"
        <5>1. CASE open = "app" /\ conf.script = "linux" /\ app.ip \in {5, 6}
          <6>1. Op # "close"
            BY <1>1, <5>1, ScriptIs
          <6>2. app'.ip = app.ip + 1
            BY <1>1, <1>2, <4>1, <6>1, NextCall
          <6>. QED BY <4>3, <5>1, <6>2
        <5>2. CASE Op = "close" /\ open = net.open /\ open = "app"
          <6>1. \/ conf.script = "linux" /\ app.ip >= 6
                \/ conf.script = "example" /\ app.ip >= 4
            BY <1>1, <5>2 DEF FrameInv
          <6>. QED BY <4>3, <4>4, <6>1
        <5>. QED BY <3>2, <5>1, <5>2
      <4>7. open = "mic" => net.open = "mic"
        BY <3>2
      <4>. QED BY <1>1, <1>2, <1>8, <2>1, <4>1, <4>2, <4>6, <4>7 DEF FrameInv
    <3>. QED BY <2>2, <3>1, <3>2
  <2>. QED BY <1>5, <1>6, <1>7, <1>8, <2>3, <2>4 DEF IInv
<1>. QED BY <1>10, <1>11 DEF Threads

\* Every step of a sender.
LEMMA SendStepKeeps ==
  ASSUME IInv, QuietInv, NEW th \in Threads,
         SendStep(th) \/ SendFails(th) \/ SendLockTimesOut(th)
  PROVE  IInv'
  BY CheckKeeps, TakesLockKeeps, FrameKeeps, SendFailsKeeps, LockTimesOutKeeps
  DEF SendStep, FailsToSend

\* The program starts with the invariant.
LEMMA InitIInv ==
  ASSUME Init
  PROVE  IInv
<1>0. /\ MaxFaults \in Nat /\ MaxServer \in Nat /\ MaxMic \in Nat
  BY WsBounds
<1>1. TypeOK
  <2>1. c \in ClientType
    BY DEF Init, NoClient, ClientType
  <2>2. net \in NetType
    BY NoLinkIs DEF Init
  <2>3. task \in TaskType /\ app \in AppType
    BY DEF Init, NoTask, TaskType, AppType
  <2>4. send \in [Threads -> SendType]
    BY DEF Init, Idle, SendType
  <2>5. obs \in ObsType /\ budget \in [faults : Nat, server : Nat, mic : Nat]
    BY <1>0 DEF Init, ObsType
  <2>. QED BY <2>1, <2>2, <2>3, <2>4, <2>5 DEF Init, TypeOK
<1>2. /\ task.pc = "none" /\ c.state = "UNKNOW" /\ net = NoLink /\ obs.view = "none"
      /\ ~obs.connected /\ app.ip = 1 /\ app.pc = "run" /\ heap = {} /\ ~c.waitPong
      /\ \A th \in Threads : send[th] = Idle
      /\ obs.torn = {}
  BY DEF Init, NoTask, NoClient
<1>3. Idle.pc = "idle" /\ send["app"] = Idle /\ send["mic"] = Idle
  BY <1>2 DEF Idle, Threads
<1>4. Op = "init" /\ Previous = "none"
  BY <1>1, <1>2, ScriptIs DEF Previous
<1>5. ViewInv
  BY <1>2 DEF ViewInv, Live, At
<1>6. CallInv
  BY <1>2, <1>3, <1>4 DEF CallInv, TaskIsGone
<1>7. HeapInv
  BY <1>2 DEF HeapInv
<1>8. LockInv
  BY <1>2, <1>3 DEF LockInv, At
<1>9. FrameInv
  BY <1>2, <1>3, NoLinkIs DEF FrameInv
<1>10. PongInv /\ WakeupNotLost /\ MessagesAreWhole
  BY <1>2 DEF PongInv, WakeupNotLost, MessagesAreWhole, At
<1>. QED BY <1>1, <1>5, <1>6, <1>7, <1>8, <1>9, <1>10 DEF IInv

\* A step that changes nothing.
LEMMA StutterKeeps ==
  ASSUME IInv, UNCHANGED vars
  PROVE  IInv'
<1>1. UNCHANGED <<conf, heap, task, app, send, obs>> /\ UNCHANGED <<c, net, budget>>
  BY DEF vars
<1>2. /\ c' \in ClientType /\ net' \in NetType
      /\ budget' \in [faults : Nat, server : Nat, mic : Nat]
  BY <1>1 DEF IInv, TypeOK
<1>. QED BY <1>1, <1>2, OutsideKeeps

-----------------------------------------------------------------------------
(* What no abort meets. *)

\* Only BEGIN leads to its view.
LEMMA OnlyBegin ==
  ASSUME NEW v, NEW e, e # "BEGIN"
  PROVE  NextView(v, e) # "begun"
  BY Zenon DEF NextView

\* An event other than BEGIN does not lead to its view.
LEMMA NotBegun ==
  ASSUME NEW o \in ObsType, NEW e, e # "BEGIN"
  PROVE  Event(o, e).view # "begun"
  BY EventType, OnlyBegin

\* The device's program begins with init and start.
LEMMA DeviceStarts ==
  ASSUME TypeOK, conf.script = "device"
  PROVE  Op \in {"init", "start"} <=> app.ip <= 2
<1>1. app.ip \in Nat /\ app.ip # 0
  BY DEF TypeOK, AppType
<1>. QED BY <1>1 DEF Op, Done, Script, Device

\* The caller stays at its place or goes on to the next.
Steps == app' = app \/ app'.ip = app.ip \/ Returned

LEMMA StepsOn ==
  ASSUME app \in AppType, Steps
  PROVE  app'.ip \in Nat /\ app'.ip >= app.ip
  BY DEF Steps, Returned, AppType

\* When a program calls init or start there is no send under way, and the
\* client is not connected.
LEMMA QuietAtStart ==
  ASSUME IInv, QuietInv, app.pc = "run", send["app"].pc = "idle",
         Op \in {"init", "start"}
  PROVE  \A th \in Threads : send[th] = Idle
<1>1. TypeOK /\ CallInv
  BY DEF IInv
<1>2. send["app"] = Idle
  BY <1>1 DEF CallInv, Threads
<1>3. CASE conf.script = "device"
  <2>1. app.ip <= 2
    BY <1>1, <1>3, DeviceStarts
  <2>. QED BY <1>2, <1>3, <2>1 DEF QuietInv, Threads
<1>4. CASE conf.script # "device"
  BY <1>1, <1>2, <1>4 DEF CallInv, Threads
<1>. QED BY <1>3, <1>4

\* The steps of the task.
LEMMA TaskQuiet ==
  ASSUME IInv, QuietInv, TaskNext \/ TaskMishap
  PROVE  QuietInv'
<1>1. /\ TypeOK /\ ViewInv /\ c \in ClientType /\ obs \in ObsType /\ task \in TaskType
      /\ UNCHANGED <<conf, app, send>>
  BY DEF IInv, TypeOK, TaskNext, TaskMishap
<1>. DEFINE Held == {"lock", "tx", "relock", "giveup"}
            Fine == /\ task'.pc # "entry"
                    /\ task'.pc \in Held => c'.state # "INIT"
                    /\ obs'.view = "begun" => obs.view = "begun" \/ At("entry")
<1>. SUFFICES Fine
  BY <1>1 DEF QuietInv, At
<1>2. ASSUME task'.pc \notin Held \union {"entry"}, obs' = obs PROVE Fine
  BY <1>2
<1>3. CASE TaskBegins
  BY <1>3, GoDoes DEF TaskBegins
<1>4. CASE \/ TaskLeavesLoop \/ TaskRetries \/ TaskIdles \/ TaskClearsWakeup
           \/ TaskDrains \/ TaskGoesRound \/ TaskEnds
  <2>1. /\ obs' = obs
        /\ \E pc \in {"finish", "after", "backoff", "drain", "loop", "gone"} : Go(pc)
    BY <1>4 DEF TaskLeavesLoop, TaskRetries, TaskIdles, TaskClearsWakeup,
                TaskDrains, TaskGoesRound, TaskEnds
  <2>. QED BY <1>2, <2>1, GoDoes
<1>5. CASE TaskConnects
  <2>1. Event(obs, "BEFORE_CONNECT") \in ObsType
    BY <1>1, EventType
  <2>2. obs'.view # "begun"
    BY <1>1, <1>5, <2>1, ConnectsDoes, NotBegun
  <2>. QED BY <1>1, <1>5, <2>2, ConnectsDoes
<1>6. CASE TaskFailsToConnect
  <2>1. Event(obs, "BEFORE_CONNECT") \in ObsType
    BY <1>1, EventType
  <2>2. obs'.view # "begun"
    BY <1>1, <1>6, <2>1, FailsToConnectDoes, NotBegun
  <2>. QED BY <1>1, <1>6, <2>2, FailsToConnectDoes
<1>7. CASE TaskKeepsAlive
  <2>1. obs'.view = "begun" => obs' = obs
    BY <1>1, <1>7, KeepsAliveDoes, NotBegun
  <2>2. c'.state # "INIT" /\ task'.pc # "entry"
    BY <1>1, <1>7, KeepsAliveDoes DEF Switch
  <2>. QED BY <2>1, <2>2
<1>8. CASE TaskEchoesClose
  <2>1. /\ obs' = obs /\ c.state = "CLOSING"
        /\ Go("after") \/ (GoTx("close", "after") /\ c' = c)
    BY <1>8 DEF TaskEchoesClose, Switch
  <2>. QED BY <2>1, GoDoes, GoTxDoes
<1>9. CASE TaskTakesTx \/ TaskTxTimesOut
  <2>1. /\ obs' = obs /\ task.pc = "tx" /\ task'.pc \in {"relock", "giveup"}
    BY <1>1, <1>9, GoOnDoes DEF TaskTakesTx, TaskTxTimesOut, At
  <2>2. c'.state = c.state
    BY <1>1, <1>9 DEF TaskTakesTx, TaskTxTimesOut, ClientType
  <2>. QED BY <2>1, <2>2 DEF QuietInv
<1>10. ASSUME task'.pc = task.next,
              obs' = obs \/ obs' = Event(obs, "DISCONNECTED")
       PROVE  Fine
  <2>1. task'.pc \in {"loop", "after"}
    BY <1>1, <1>10 DEF TaskType
  <2>2. obs'.view = "begun" => obs' = obs
    BY <1>1, <1>10, NotBegun
  <2>. QED BY <2>1, <2>2
<1>11. ASSUME NEW cl \in ClientType, Abort(cl, "TCP")
       PROVE  obs' = obs \/ obs' = Event(obs, "DISCONNECTED")
  BY <1>1, <1>11, AbortDoes DEF TypeOK
<1>12. CASE TaskGivesUp
  <2>1. task'.pc = task.next
    BY <1>12, GoDoes DEF TaskGivesUp
  <2>2. obs' = obs \/ Abort(c, "TCP")
    BY <1>12 DEF TaskGivesUp
  <2>. QED BY <1>1, <1>10, <1>11, <2>1, <2>2
<1>13. CASE TaskSendsControl
  BY <1>1, <1>10, <1>13, SendsControlDoes
<1>14. CASE TaskPolls
  <2>1. obs' = obs /\ c' = c /\ c.state = "CONNECTED"
    BY <1>14 DEF TaskPolls, Connected
  <2>2. task'.pc \in {"lock", "loop"}
    BY <1>14, GoDoes, GoLockDoes DEF TaskPolls
  <2>. QED BY <2>1, <2>2
<1>15. CASE TaskReportsError
  <2>1. task'.pc = "loop"
    BY <1>15, GoDoes DEF TaskReportsError
  <2>2. obs' = obs \/ obs' = Event(obs, "DISCONNECTED")
    BY <1>1, <1>11, <1>15 DEF TaskReportsError
  <2>3. obs'.view = "begun" => obs' = obs
    BY <1>1, <2>2, NotBegun
  <2>. QED BY <2>1, <2>3
<1>16. CASE TaskReceives
  <2>1. /\ task'.pc \in {"loop", "after", "tx"}
        /\ c'.state \in {c.state, "CLOSING", "WAIT_TIMEOUT", "UNKNOW"}
        /\ \/ obs' = obs \/ obs' = Event(obs, "DISCONNECTED")
           \/ obs' = Event(obs, "DATA")
        /\ task.pc = "lock"
    BY <1>1, <1>16, ReceivesDoes DEF TaskType, At
  <2>2. obs'.view = "begun" => obs' = obs
    BY <1>1, <2>1, NotBegun
  <2>3. c'.state # "INIT"
    BY <2>1 DEF QuietInv
  <2>. QED BY <2>1, <2>2, <2>3
<1>17. CASE TaskBacksOff \/ TaskWakes
  <2>1. /\ obs' = obs
        /\ \/ task' = [task EXCEPT !.pc = "waiting", !.armed = c.timeout]
           \/ task' = [task EXCEPT !.pc = "loop"]
           \/ task' = [task EXCEPT !.pc = "loop", !.armed = "none"]
    BY <1>17 DEF TaskBacksOff, TaskWakes
  <2>2. task'.pc \in {"waiting", "loop"}
    BY <1>1, <2>1 DEF TaskType
  <2>. QED BY <2>1, <2>2
<1>18. CASE TaskClosesAndReconnects \/ TaskCloses
  <2>1. task'.pc \in {"loop", "finish"}
    BY <1>18, GoDoes DEF TaskClosesAndReconnects, TaskCloses
  <2>2. obs'.view # "begun"
    BY <1>1, <1>18, NotBegun DEF TaskClosesAndReconnects, TaskCloses
  <2>. QED BY <2>1, <2>2
<1>19. CASE TaskFinishes
  <2>1. task'.pc = "stopping"
    BY <1>19, GoDoes DEF TaskFinishes
  <2>2. obs'.view # "begun"
    BY <1>1, <1>19, NotBegun DEF TaskFinishes
  <2>. QED BY <2>1, <2>2
<1>. HIDE DEF Fine
<1>. QED
  BY <1>3, <1>4, <1>5, <1>6, <1>7, <1>8, <1>9, <1>12, <1>13, <1>14, <1>15, <1>16,
     <1>17, <1>18, <1>19 DEF TaskNext, TaskMishap

\* The steps of the callers outside their sends.
LEMMA AppQuiet ==
  ASSUME IInv, QuietInv, AppStep
  PROVE  QuietInv'
<1>1. /\ TypeOK /\ c \in ClientType /\ app \in AppType
      /\ conf' = conf /\ send' = send /\ obs' = obs
  BY DEF IInv, TypeOK, AppStep, AppInit, AppAddsHeader, AppStarts, AppDelays,
         AppSetsTimeout, AppWakesTask, AppStops, AppDestroys, AppSeesStopped,
         AppCloseRefused, AppMarksClose, AppSeesClosed, AppCloseTimesOut
<1>2. Steps
  BY <1>1 DEF Steps, AppType, AppStep, AppInit, AppAddsHeader, AppStarts, AppDelays,
         AppSetsTimeout, AppWakesTask, AppStops, AppDestroys, AppSeesStopped,
         AppCloseRefused, AppMarksClose, AppSeesClosed, AppCloseTimesOut, AskToStop
<1>3. conf'.script = "device" /\ app'.ip <= 2 => send'["mic"] = Idle
  BY <1>1, <1>2, StepsOn DEF AppType, QuietInv
<1>4. c'.state \in {c.state, "UNKNOW"}
  <2>1. CASE AppInit
    BY <2>1 DEF AppInit, NoClient
  <2>2. CASE AppStarts
    BY <1>1, <2>2 DEF AppStarts, ClientType
  <2>3. CASE AppSetsTimeout \/ AppWakesTask
    BY <1>1, <2>3 DEF AppSetsTimeout, AppWakesTask, TakeTimeoutStep, ClientType
  <2>4. CASE AppStops \/ AppDestroys \/ AppCloseTimesOut
    BY <1>1, <2>4 DEF AppStops, AppDestroys, AppCloseTimesOut, AskToStop, ClientType
  <2>5. CASE AppSeesStopped \/ AppMarksClose
    BY <1>1, <2>5 DEF AppSeesStopped, AppMarksClose, ClientType
  <2>6. CASE AppAddsHeader \/ AppDelays \/ AppCloseRefused \/ AppSeesClosed
    BY <2>6 DEF AppAddsHeader, AppDelays, AppCloseRefused, AppSeesClosed
  <2>. QED BY <2>1, <2>2, <2>3, <2>4, <2>5, <2>6 DEF AppStep
<1>5. CASE task' = task
  BY <1>1, <1>3, <1>4, <1>5 DEF QuietInv, At
<1>6. CASE AppStarts /\ Go("entry")
  <2>1. \A th \in Threads : send[th] = Idle
    BY <1>6, QuietAtStart DEF AppStarts, Call
  <2>2. task'.pc = "entry"
    BY <1>6, GoDoes
  <2>. QED BY <1>1, <1>3, <2>1, <2>2 DEF QuietInv
<1>7. (AppStarts /\ Go("entry")) \/ task' = task
  BY DEF AppStep, AppInit, AppAddsHeader, AppStarts, AppDelays,
         AppSetsTimeout, AppWakesTask, AppStops, AppDestroys, AppSeesStopped,
         AppCloseRefused, AppMarksClose, AppSeesClosed, AppCloseTimesOut
<1>. QED BY <1>5, <1>6, <1>7

\* The sends: one begins only while the client is connected.
LEMMA SendQuiet ==
  ASSUME IInv, QuietInv, NEW th \in Threads,
         SendStep(th) \/ SendFails(th) \/ SendLockTimesOut(th)
  PROVE  QuietInv'
<1>1. /\ TypeOK /\ ViewInv /\ CallInv /\ c \in ClientType /\ obs \in ObsType
      /\ send \in [Threads -> SendType] /\ app \in AppType
  BY DEF IInv, TypeOK
<1>2. CASE SendCheck(th)
  <2>1. /\ task' = task /\ obs' = obs /\ c' = c /\ conf' = conf
        /\ \A other \in Threads : other # th => send'[other] = send[other]
        /\ Connected \/ send'[th] = Idle
        /\ Steps
    BY <1>1, <1>2, CheckDoes DEF Steps, Threads
  <2>0. app'.ip \in Nat /\ app'.ip >= app.ip
    BY <1>1, <2>1, StepsOn
  <2>2. CASE Connected
    <3>1. obs.view = "up" /\ ~At("entry")
      BY <1>1, <2>2 DEF ViewInv, Connected, Live, At
    <3>2. ~(conf.script = "device" /\ app.ip <= 2)
      <4>. SUFFICES ASSUME conf.script = "device", app.ip <= 2 PROVE FALSE
        OBVIOUS
      <4>1. Op \in {"init", "start"}
        BY <1>1, DeviceStarts
      <4>2. TaskIsGone
        BY <1>1, <4>1 DEF CallInv
      <4>. QED BY <1>1, <2>2, <4>2 DEF ViewInv, Live, TaskIsGone, Connected
    <3>. QED BY <1>1, <2>0, <2>1, <3>1, <3>2 DEF QuietInv, At, AppType
  <2>3. CASE send'[th] = Idle
    BY <1>1, <2>0, <2>1, <2>3 DEF QuietInv, At, AppType, Threads
  <2>. QED BY <2>1, <2>2, <2>3
<1>3. CASE ~SendCheck(th)
  <2>1. send[th].pc # "idle"
    BY <1>3 DEF SendStep, SendTakesLock, SendFrame, SendFails, SendAborts,
                SendLockTimesOut
  <2>2. send[th] # Idle
    BY <2>1 DEF Idle
  <2>3. ~At("entry") /\ obs.view # "begun"
    BY <2>2 DEF QuietInv
  <2>4. /\ task' = task /\ conf' = conf
        /\ c'.state \in {c.state, "WAIT_TIMEOUT", "UNKNOW"}
        /\ obs'.view # "begun"
        /\ Steps
        /\ \A other \in Threads : other # th => send'[other] = send[other]
    <3>1. CASE SendTakesLock(th)
      BY <1>1, <2>3, <3>1, TakesLockDoes DEF Steps
    <3>2. CASE SendFrame(th)
      <4>1. Steps
        BY <1>1, <3>2, FrameDoes DEF Steps, Threads
      <4>. QED BY <1>1, <2>3, <3>2, <4>1, FrameDoes
    <3>3. CASE FailsToSend(th)
      <4>1. Steps
        BY <1>1, <3>3, SendFailsDoes DEF Steps, Threads
      <4>2. PICK e : e = IF c.state = "INIT" THEN "REPEATED" ELSE "DISCONNECTED"
        OBVIOUS
      <4>3. obs' = obs \/ obs' = Event(obs, e)
        BY <1>1, <3>3, <4>2, SendFailsDoes
      <4>4. obs'.view # "begun"
        BY <1>1, <2>3, <4>2, <4>3, NotBegun
      <4>. QED BY <1>1, <3>3, <4>1, <4>4, SendFailsDoes
    <3>4. CASE SendLockTimesOut(th)
      <4>1. Steps
        BY <1>1, <3>4, LockTimesOutDoes DEF Steps, Threads
      <4>. QED BY <1>1, <2>3, <3>4, <4>1, LockTimesOutDoes
    <3>. QED BY <1>3, <3>1, <3>2, <3>3, <3>4 DEF SendStep, FailsToSend
  <2>0. app'.ip \in Nat /\ app'.ip >= app.ip
    BY <1>1, <2>4, StepsOn
  <2>5. CASE th = "mic"
    <3>1. ~(conf.script = "device" /\ app.ip <= 2)
      BY <2>2, <2>5 DEF QuietInv
    <3>. QED BY <1>1, <2>0, <2>3, <2>4, <3>1 DEF QuietInv, At, AppType
  <2>6. CASE th = "app"
    <3>1. send'["mic"] = send["mic"]
      BY <2>4, <2>6 DEF Threads
    <3>. QED BY <1>1, <2>0, <2>3, <2>4, <3>1 DEF QuietInv, At, AppType
  <2>. QED BY <2>5, <2>6 DEF Threads
<1>. QED BY <1>2, <1>3

\* The server, the network, the clock, and nothing at all.
LEMMA OutsideQuiet ==
  ASSUME IInv, QuietInv, Environment \/ Terminated \/ UNCHANGED vars
  PROVE  QuietInv'
<1>1. /\ UNCHANGED <<conf, task, app, send, obs>>
      /\ c' = c \/ \E t \in Intervals : c' = [c EXCEPT !.due = @ \union {t}]
  BY DEF Environment, ServerSends, ServerAnswers, ServerHangsUp, LinkBreaks, Others,
         Elapses, Terminated, vars
<1>2. c'.state = c.state
  BY <1>1 DEF IInv, TypeOK, ClientType
<1>. QED BY <1>1, <1>2 DEF QuietInv, At

\* The types, the events, the calls, the allocations, the locks, the frames and
\* the PING of the connection, in every reachable state.  That an abort keeps
\* the events in order rests on QuietInv, which rests on the rest.
THEOREM Invariance == Spec => [](IInv /\ QuietInv)
<1>1. Init => IInv /\ QuietInv
  <2>. SUFFICES ASSUME Init PROVE IInv /\ QuietInv
    OBVIOUS
  <2>. QED BY InitIInv DEF Init, NoTask, QuietInv, Threads
<1>2. IInv /\ QuietInv /\ [Next]_vars => (IInv /\ QuietInv)'
  <2>. SUFFICES ASSUME IInv, QuietInv, [Next]_vars PROVE IInv' /\ QuietInv'
    OBVIOUS
  <2>1. IInv'
    BY TaskStepKeeps, AppStepKeeps, SendStepKeeps, EnvironmentKeeps, StutterKeeps
    DEF Next, Terminated
  <2>2. QuietInv'
    BY TaskQuiet, AppQuiet, SendQuiet, OutsideQuiet DEF Next
  <2>. QED BY <2>1, <2>2
<1>. QED BY <1>1, <1>2, PTL DEF Spec

\* No task and no call is left on a handle that destroy or a failed init has
\* freed, nothing but the copy of user:password stays allocated, and a stop()
\* that has returned leaves no task and no connection, whatever allocation
\* failed and wherever the task was (esp_websocket_client.c:542-556, 916-933).
THEOREM HandleSafe == Spec => []HandleIsSafe
<1>1. IInv => HandleIsSafe
  <2>. SUFFICES ASSUME IInv PROVE HandleIsSafe
    OBVIOUS
  <2>1. /\ TypeOK /\ ViewInv /\ CallInv /\ HeapInv
    BY DEF IInv
  <2>2. ASSUME Freed \/ app.pc = "null"
        PROVE  TaskIsGone /\ heap \subseteq {"user_info"} /\ \A th \in Threads : send[th] = Idle
    <3>1. CASE app.pc = "null"
      BY <2>1, <3>1 DEF CallInv, TaskIsGone
    <3>2. CASE Freed
      <4>1. /\ app.ip > 1 /\ Previous = "destroy" /\ Op = "none" /\ TaskIsGone
            /\ heap \subseteq {"user_info"}
        BY <2>1, <3>2 DEF Freed, HeapInv
      <4>2. "none" \notin Sends
        BY DEF Sends
      <4>3. send["app"] = Idle
        BY <2>1, <4>1, <4>2 DEF CallInv
      <4>4. conf.script # "device"
        BY <2>1, <3>2 DEF Freed, HeapInv
      <4>5. send["mic"] = Idle
        BY <2>1, <4>4 DEF CallInv
      <4>. QED BY <4>1, <4>3, <4>5 DEF Threads
    <3>. QED BY <2>2, <3>1, <3>2
  <2>3. ASSUME Previous = "stop", app.pc = "run"
        PROVE  TaskIsGone /\ net.link = "none"
    <3>1. TaskIsGone
      BY <2>1, <2>3 DEF CallInv
    <3>2. net = NoLink
      BY <2>1, <3>1 DEF ViewInv, Live, At, TaskIsGone
    <3>. QED BY <3>1, <3>2, NoLinkIs
  <2>. QED BY <2>2, <2>3 DEF HandleIsSafe
<1>. QED BY <1>1, Invariance, PTL

\* The handler sees the events in the order of the header, whether the task, a
\* sender or the server ends the connection, but for the DISCONNECTED of a sender
\* that aborts when the task is about to connect again: it comes once more, after
\* an attempt began or a connection ended, and never while connected
\* (esp_websocket_client.c:261-285, 742-768, 1189-1445).
THEOREM EventOrder == Spec => []EventsInOrder
<1>1. IInv => EventsInOrder
  BY DEF IInv, TypeOK, ViewInv, ClientType, Live, EventsInOrder
<1>. QED BY <1>1, Invariance, PTL

\* No frame comes inside a message that is still being sent, and only pieces
\* the caller sends by itself, or sending with a lock of its own, continue a
\* message on another connection (esp_websocket_client.c:731-778).
THEOREM MessagesWhole == Spec => []MessagesAreWhole
<1>1. IInv => MessagesAreWhole
  BY DEF IInv
<1>. QED BY <1>1, Invariance, PTL

\* A task that waits with an old delay has its wakeup coming
\* (esp_websocket_client.c:1396-1414, 1684-1688).
THEOREM NoLostWakeup == Spec => []WakeupNotLost
<1>1. IInv => WakeupNotLost
  BY DEF IInv
<1>. QED BY <1>1, Invariance, PTL

-----------------------------------------------------------------------------
(* Who reports a missing PONG. *)

\* The errors a step may report besides the missing PONG.
OtherErrors == {"NONE", "TCP", "SERVER_CLOSE"}
\* The error of the client is the one it had, or one of those.
ErrorStays == c'.error = c.error \/ c'.error \in OtherErrors

\* The steps of the task that do not look for a PONG report no missing one.
LEMMA TaskErrors ==
  ASSUME IInv, TaskNext \/ TaskMishap, ~TaskKeepsAlive, ~TaskSendsControl
  PROVE  ErrorStays
<1>1. TypeOK /\ c \in ClientType /\ net \in NetType /\ obs \in ObsType
  BY DEF IInv, TypeOK
<1>2. CASE TaskBegins
  BY <1>1, <1>2 DEF TaskBegins, ClientType, ErrorStays
<1>3. CASE c' = c
  BY <1>3 DEF ErrorStays
<1>4. CASE TaskConnects
  BY <1>1, <1>4, ConnectsDoes DEF ErrorStays, OtherErrors
<1>5. CASE TaskFailsToConnect
  BY <1>1, <1>5, FailsToConnectDoes DEF ErrorStays, OtherErrors
<1>6. CASE TaskRetries
  BY <1>1, <1>6 DEF TaskRetries, ClientType, ErrorStays
<1>7. CASE TaskEchoesClose
  BY <1>1, <1>7 DEF TaskEchoesClose, ClientType, ErrorStays
<1>8. CASE TaskTakesTx
  BY <1>1, <1>8 DEF TaskTakesTx, ClientType, ErrorStays
<1>9. ASSUME Abort(c, "TCP") PROVE ErrorStays
  <2>1. c' = c \/ c'.error = "TCP"
    BY <1>1, <1>9, AbortDoes
  <2>. QED BY <2>1 DEF ErrorStays, OtherErrors
<1>10. CASE TaskGivesUp
  BY <1>3, <1>9, <1>10 DEF TaskGivesUp
<1>11. CASE TaskReportsError
  BY <1>9, <1>11 DEF TaskReportsError
<1>12. CASE TaskReceives
  BY <1>1, <1>12, ReceivesDoes DEF ErrorStays, OtherErrors
<1>13. CASE TaskClearsWakeup
  BY <1>1, <1>13 DEF TaskClearsWakeup, ClientType, ErrorStays
<1>14. CASE TaskClosesAndReconnects
  <2>1. c' = [c EXCEPT !.state = "WAIT_TIMEOUT", !.error = "SERVER_CLOSE",
                    !.due = {},
                    !.bits = @ \ {"STOPPED", "CLOSE_FRAME_SENT"}]
    BY <1>14 DEF TaskClosesAndReconnects
  <2>2. c'.error = "SERVER_CLOSE"
    BY <1>1, <2>1 DEF ClientType
  <2>. QED BY <2>2 DEF ErrorStays, OtherErrors
<1>15. CASE TaskCloses
  BY <1>1, <1>15 DEF TaskCloses, ClientType, ErrorStays
<1>16. CASE TaskFinishes
  BY <1>1, <1>16 DEF TaskFinishes, ClientType, ErrorStays
<1>17. CASE TaskEnds
  BY <1>1, <1>17 DEF TaskEnds, ClientType, ErrorStays
<1>18. CASE TaskLeavesLoop \/ TaskIdles \/ TaskPolls \/ TaskBacksOff \/ TaskWakes
            \/ TaskDrains \/ TaskGoesRound \/ TaskTxTimesOut
  BY <1>3, <1>18 DEF TaskLeavesLoop, TaskIdles, TaskPolls, TaskBacksOff, TaskWakes,
                     TaskDrains, TaskGoesRound, TaskTxTimesOut
<1>. QED
  BY <1>2, <1>4, <1>5, <1>6, <1>7, <1>8, <1>10, <1>11, <1>12, <1>13, <1>14, <1>15,
     <1>16, <1>17, <1>18 DEF TaskNext, TaskMishap

\* Nor do the calls of the API.
LEMMA AppErrors ==
  ASSUME IInv, AppStep
  PROVE  ErrorStays
<1>1. c \in ClientType
  BY DEF IInv, TypeOK
<1>2. CASE c' = c
  BY <1>2 DEF ErrorStays
<1>3. CASE AppInit
  <2>1. c' = c \/ c' = [NoClient EXCEPT !.bits = {"STOPPED"}]
    BY <1>3 DEF AppInit
  <2>2. ASSUME c' = [NoClient EXCEPT !.bits = {"STOPPED"}] PROVE c'.error = "NONE"
    BY <2>2 DEF NoClient
  <2>. QED BY <2>1, <2>2 DEF ErrorStays, OtherErrors
<1>4. CASE AppStarts
  <2>1. \/ c' = c
        \/ c' = [c EXCEPT !.bits = @ \ {"STOPPED", "CLOSE_FRAME_SENT",
                                        "REQUESTED_STOP", "WAKEUP"}]
        \/ c' = [c EXCEPT !.bits = {"STOPPED"}]
    BY <1>4 DEF AppStarts
  <2>. QED BY <1>1, <2>1 DEF ClientType, ErrorStays
<1>5. ASSUME NEW k, TakeTimeoutStep(k) PROVE ErrorStays
  <2>1. \/ c' = [c EXCEPT !.timeout = "short"]
        \/ c' = [c EXCEPT !.bits = @ \union {"WAKEUP"}]
    BY <1>5 DEF TakeTimeoutStep
  <2>. QED BY <1>1, <2>1 DEF ClientType, ErrorStays
<1>6. CASE AppSetsTimeout \/ AppWakesTask
  BY <1>2, <1>5, <1>6 DEF AppSetsTimeout, AppWakesTask
<1>7. ASSUME AskToStop PROVE ErrorStays
  BY <1>1, <1>7 DEF AskToStop, ClientType, ErrorStays
<1>8. CASE AppStops \/ AppDestroys \/ AppCloseTimesOut
  BY <1>2, <1>7, <1>8 DEF AppStops, AppDestroys, AppCloseTimesOut
<1>9. CASE AppSeesStopped
  BY <1>1, <1>9 DEF AppSeesStopped, ClientType, ErrorStays
<1>10. CASE AppMarksClose
  BY <1>1, <1>10 DEF AppMarksClose, ClientType, ErrorStays
<1>11. CASE AppAddsHeader \/ AppDelays \/ AppCloseRefused \/ AppSeesClosed
  BY <1>2, <1>11 DEF AppAddsHeader, AppDelays, AppCloseRefused, AppSeesClosed
<1>. QED
  BY <1>3, <1>4, <1>6, <1>8, <1>9, <1>10, <1>11 DEF AppStep

\* Nor do the senders, the server, the network and the clock.
LEMMA OtherSteps ==
  ASSUME IInv,
         \/ \E th \in Threads : SendStep(th) \/ SendFails(th) \/ SendLockTimesOut(th)
         \/ Environment \/ Terminated \/ UNCHANGED vars
  PROVE  ErrorStays
<1>1. TypeOK /\ CallInv /\ c \in ClientType
  BY DEF IInv, TypeOK
<1>2. CASE c' = c
  BY <1>2 DEF ErrorStays
<1>3. ASSUME NEW th \in Threads, SendStep(th) \/ SendFails(th) \/ SendLockTimesOut(th)
      PROVE  ErrorStays
  <2>1. CASE SendCheck(th) \/ SendLockTimesOut(th)
    BY <1>2, <2>1 DEF SendCheck, SendLockTimesOut
  <2>2. CASE SendTakesLock(th)
    BY <1>1, <2>2, TakesLockDoes DEF ErrorStays
  <2>3. CASE SendFrame(th)
    BY <1>1, <2>3, FrameDoes DEF ErrorStays
  <2>4. CASE FailsToSend(th)
    BY <1>1, <2>4, SendFailsDoes DEF ErrorStays, OtherErrors
  <2>. QED BY <1>3, <2>1, <2>2, <2>3, <2>4 DEF SendStep, FailsToSend
<1>4. CASE Environment
  <2>1. CASE \E t \in Intervals : Elapses(t)
    <3>1. PICK t \in Intervals : c' = [c EXCEPT !.due = @ \union {t}]
      BY <2>1, Zenon DEF Elapses
    <3>. QED BY <1>1, <3>1 DEF ClientType, ErrorStays
  <2>2. CASE ~ \E t \in Intervals : Elapses(t)
    BY <1>2, <1>4, <2>2
    DEF Environment, ServerSends, ServerAnswers, ServerHangsUp, LinkBreaks, Others
  <2>. QED BY <2>1, <2>2
<1>5. CASE Terminated \/ UNCHANGED vars
  BY <1>2, <1>5 DEF Terminated, vars
<1>. QED BY <1>3, <1>4, <1>5

\* The client gives up a connection for a missing PONG only if it sent a PING
\* on this very connection and has read no PONG since
\* (esp_websocket_client.c:1308-1322).
THEOREM PongTimeout == Spec => PongTimeoutIsHonest
<1>1. IInv /\ [Next]_vars =>
        [c'.error = "PONG_TIMEOUT" /\ c.error # "PONG_TIMEOUT"
           => net.pinged /\ conf.pings]_vars
  <2>. SUFFICES ASSUME IInv, [Next]_vars,
                       c'.error = "PONG_TIMEOUT", c.error # "PONG_TIMEOUT"
                PROVE  net.pinged /\ conf.pings
    OBVIOUS
  <2>1. ~ErrorStays
    BY DEF ErrorStays, OtherErrors
  <2>2. TaskKeepsAlive \/ TaskSendsControl
    BY <2>1, TaskErrors, AppErrors, OtherSteps DEF Next
  <2>3. TypeOK /\ PongInv
    BY DEF IInv
  <2>4. c.waitPong /\ c.state = "CONNECTED"
    <3>1. CASE TaskKeepsAlive
      BY <2>3, <3>1, KeepsAliveDoes DEF Switch
    <3>2. CASE TaskSendsControl
      BY <2>3, <3>2, SendsControlDoes
    <3>. QED BY <2>2, <3>1, <3>2
  <2>. QED BY <2>3, <2>4 DEF PongInv, Connected
<1>. QED BY <1>1, Invariance, PTL DEF Spec, PongTimeoutIsHonest

=============================================================================
