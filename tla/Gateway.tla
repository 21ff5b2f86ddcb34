------------------------------- MODULE Gateway -------------------------------
(***************************************************************************)
(* ws_server.py: the registry of connections (ESP32s), the queue for those *)
(* that are not there (_cmd_queue), and the tasks of one event loop that   *)
(* share both: the loop over the command file or stdin, a handler per      *)
(* connection, _display of the canary tasks, the animations.  A task runs  *)
(* from one await to the next; every ws.send may suspend it.               *)
(***************************************************************************)
EXTENDS Integers, FiniteSets, SequencesExt

CONSTANTS
  MaxConns,  \* bound: connections, cids 1 .. MaxConns in this model
  MaxMsgs,   \* bound: commands, lines and texts of canary tasks
  MaxAnims,  \* bound: calls of _animate_dots
  Letters    \* steps of the boot animation (six in the code)

ASSUME GatewayBounds ==
  /\ {MaxConns, MaxMsgs, MaxAnims, Letters} \subseteq Nat
  /\ MaxConns > 0

VARIABLES
  ESP32s,    \* cids in the dict, in the order of their numbers
  link,      \* per cid, its WebSocket: "none", "up" or "closed"
  lists,     \* the list objects: 0 the first, c the "remaining" of handler c
  queue,     \* which of them _cmd_queue is bound to
  proc,      \* the tasks
  flush,     \* per handler: the list it iterates, and its index
  flags,     \* _waiting_loop, _is_restored
  file,      \* the command file: NoFile or a command
  source,    \* what main reads: "file" or "stdin"
  given,     \* messages and "waiting" commands so far; of the command in the
             \* file: whether it was read, and written while main was busy
  hist       \* history: see Init

vars ==
  <<ESP32s, link, lists, queue, proc, flush, flags, file, source, given, hist>>

Cids     == 1 .. MaxConns
Everyone == 0                            \* target None
Main     == <<"main", 0>>
Jobs     == {"job"} \X Cids
Anims    == {"anim"} \X (1 .. MaxAnims)
Handlers == {"handler"} \X Cids
Procs    == {Main} \cup Jobs \cup Anims \cup Handlers
Kinds    == {"display", "frames", "waiting", "restore", "malformed"}
Places   == {"none", "idle", "remove", "frames", "ota", "setwait", "boot", "dots",
             "flush", "serve", "over", "parked", "crashed", "ended"}

NoFlush  == [from |-> 0, i |-> 0]
NoFile   == [kind |-> "none", target |-> Everyone, id |-> 0]

\* at: where the task stands; out: whom the message it is sending has still
\* to reach; id: its message (0 for the animations); k: steps that are left.
Task(at) == [at |-> at, out |-> {}, id |-> 0, k |-> 0]

Init ==
  /\ ESP32s = {} /\ queue = 0 /\ file = NoFile
  /\ link = [c \in Cids |-> "none"]
  /\ lists = [l \in {0} \cup Cids |-> <<>>]
  /\ proc = [p \in Procs |-> Task(IF p = Main THEN "idle" ELSE "none")]
  /\ flush = [c \in Cids |-> NoFlush]
  /\ flags = [waiting |-> FALSE, restored |-> FALSE]
  /\ source \in {"file", "stdin"}
  /\ given = [ids |-> 0, anims |-> 0, read |-> FALSE, late |-> FALSE]
  \* got: what each connection was handed; parked: what was put into the
  \* queue; overlap: two handlers were inside their flush at once.
  /\ hist = [got |-> [c \in Cids |-> {}], parked |-> {}, overlap |-> FALSE]

At(p, at)  == proc[p].at = at /\ proc[p].out = {}
Running    == proc[Main].at \notin {"crashed", "ended"}
Item(id, target) == [id |-> id, target |-> target]

-----------------------------------------------------------------------------
(* _safe_send. *)

\* Mutant: what cannot be sent is queued for whoever comes next.
MutRequeued(id, c) == Item(id, Everyone)

\* The item for a connection found closed.
Requeued(id, c) == Item(id, c)

\* Connections in the order of the dict.
InOrder(S) ==
  [n \in 1 .. Cardinality(S) |->
     CHOOSE c \in S : Cardinality({d \in S : d <= c}) = n]

\* Whom a task that goes through the connections does not pass: an open one
\* takes the message while the task is suspended, and deleting one that its
\* handler has already taken out raises KeyError.
Stops(c) == link[c] = "up" \/ c \notin ESP32s

\* Task p, in state next, goes through the connections of out in the order of
\* the dict.  One found closed is deleted from ESP32s and the message is
\* queued for it.  The KeyError ends a task; in a handler it also ends the
\* connection; in main, which only expects EOFError and OSError, it ends the
\* server.  Texts of the animations are not kept: they would be for cids that
\* are never given again.
GoThrough(p, next, out, id, got) ==
  LET closed == {c \in out : \A d \in out : d <= c => ~Stops(d)}
      rest   == out \ closed
      raises == rest # {} /\ link[Min(rest)] # "up"
      mine   == IF raises /\ p \in Handlers THEN {p[2]} ELSE {}
      queued == IF id = 0 THEN {} ELSE closed
      sorted == InOrder(queued)
      added  == [n \in DOMAIN sorted |-> Requeued(id, sorted[n])]
  IN  /\ ESP32s' = ESP32s \ (closed \cup mine)
      /\ link' = [c \in Cids |-> IF c \in mine THEN "closed" ELSE link[c]]
      /\ lists' = [lists EXCEPT ![queue] = @ \o added]
      /\ hist' = [hist EXCEPT !.got = got, !.parked = @ \cup Range(added)]
      /\ proc' = [proc EXCEPT ![p] =
           IF raises THEN Task(IF p = Main THEN "crashed" ELSE "over")
           ELSE [next EXCEPT !.out = rest, !.id = IF rest = {} THEN 0 ELSE id]]

\* A broadcast goes over a copy of ESP32s, made when it begins; a message
\* with a target goes to it or is queued.
SendTo(p, next, id, target) ==
  IF target # Everyone /\ target \notin ESP32s
  THEN /\ lists' = [lists EXCEPT ![queue] = Append(@, Item(id, target))]
       /\ hist' = [hist EXCEPT !.parked = @ \cup {Item(id, target)}]
       /\ proc' = [proc EXCEPT ![p] = next]
       /\ UNCHANGED <<ESP32s, link>>
  ELSE GoThrough(p, next, IF target # Everyone THEN {target} ELSE ESP32s,
                 id, hist.got)

\* The task resumes after one ws.send.
SendResumes(p) ==
  /\ proc[p].out # {}
  /\ LET c  == Min(proc[p].out)
         up == link[c] = "up"
     IN  GoThrough(p, proc[p], IF up THEN proc[p].out \ {c} ELSE proc[p].out,
           proc[p].id,
           IF up THEN [hist.got EXCEPT ![c] = @ \cup ({proc[p].id} \ {0})]
           ELSE hist.got)
  /\ UNCHANGED <<queue, flush, flags, file, source, given>>

\* _update_display: with nobody connected the message waits for the next.
UpdateDisplay(p, next, id, target) ==
  IF ESP32s # {} THEN SendTo(p, next, id, target)
  ELSE /\ lists' = [lists EXCEPT ![queue] = Append(@, Item(id, target))]
       /\ hist' = [hist EXCEPT !.parked = @ \cup {Item(id, target)}]
       /\ proc' = [proc EXCEPT ![p] = next]
       /\ UNCHANGED <<ESP32s, link>>

Fresh == given.ids + 1
May(n) == given.ids + n <= MaxMsgs

-----------------------------------------------------------------------------
(* The animations. *)

\* _restore_display up to its first sleep, and the flag it ends with.
BeginRestore(p, back) ==
  IF flags.restored THEN proc' = [proc EXCEPT ![p] = Task(back)] /\ UNCHANGED flags
  ELSE /\ flags' = [flags EXCEPT !.waiting = FALSE]
       /\ proc' = [proc EXCEPT ![p] = [Task("boot") EXCEPT !.k = Letters]]

BootStep(p) ==
  /\ At(p, "boot")
  /\ IF proc[p].k = 0 \/ ESP32s = {}
     THEN /\ flags' = [flags EXCEPT !.restored = TRUE]
          /\ proc' = [proc EXCEPT ![p] = Task(IF p = Main THEN "remove" ELSE "serve")]
          /\ UNCHANGED <<ESP32s, link, lists, hist>>
     ELSE SendTo(p, [proc[p] EXCEPT !.k = @ - 1], 0, Everyone) /\ UNCHANGED flags
  /\ UNCHANGED <<queue, flush, file, source, given>>

\* _set_waiting after its sleep.
SetWaiting(p) ==
  /\ At(p, "setwait")
  /\ flags' = [waiting |-> TRUE, restored |-> FALSE]
  /\ \E a \in Anims :
       /\ proc[a].at = "none"
       /\ proc' = [proc EXCEPT ![p] = Task("remove"), ![a] = Task("dots")]
  /\ UNCHANGED <<ESP32s, link, lists, queue, flush, file, source, given,
                 hist>>

\* One turn of _animate_dots.
Animate(a) ==
  /\ At(a, "dots")
  /\ IF flags.waiting /\ ESP32s # {} THEN SendTo(a, proc[a], 0, Everyone)
     ELSE proc' = [proc EXCEPT ![a] = Task("over")]
          /\ UNCHANGED <<ESP32s, link, lists, hist>>
  /\ UNCHANGED <<queue, flush, flags, file, source, given>>

-----------------------------------------------------------------------------
(* main: _check_cmd_file and stdin_forward. *)

\* Another process writes the command file, over an earlier command or not.
\* "frames" holds one frame with a target of its own, in a loop of two: the
\* second round finds the target popped and takes that of the command, none.
WriteCommand ==
  /\ source = "file"
  /\ \E kind \in Kinds, target \in {Everyone} \cup Cids :
       LET n == IF kind = "frames" THEN 2 ELSE 1
           a == IF kind = "waiting" THEN 1 ELSE 0
       IN  /\ May(n) /\ given.anims + a <= MaxAnims
           /\ target = Everyone \/ kind \in {"display", "frames"}
           /\ file' = [kind |-> kind, target |-> target, id |-> Fresh]
           /\ given' = [given EXCEPT !.ids = @ + n, !.anims = @ + a,
                                  !.read = FALSE,
                                  !.late = proc[Main].at # "idle"]
  /\ UNCHANGED <<ESP32s, link, lists, queue, proc, flush, flags, source, hist>>

\* Up to the first await.  A text that is not a JSON object leaves "target"
\* unassigned: the exception ends the server.
Execute(cmd) ==
  \/ /\ cmd.kind = "display" /\ UNCHANGED flags
     /\ UpdateDisplay(Main, Task("remove"), cmd.id, cmd.target)
  \/ /\ cmd.kind = "frames" /\ UNCHANGED flags
     /\ SendTo(Main, [Task("frames") EXCEPT !.k = cmd.id + 1], cmd.id, cmd.target)
  \/ /\ cmd.kind = "waiting" /\ flags' = [flags EXCEPT !.waiting = FALSE]
     /\ proc' = [proc EXCEPT ![Main] = Task("setwait")]
     /\ UNCHANGED <<ESP32s, link, lists, hist>>
  \/ /\ cmd.kind = "restore" /\ BeginRestore(Main, "remove")
     /\ UNCHANGED <<ESP32s, link, lists, hist>>
  \/ /\ cmd.kind = "malformed" /\ UNCHANGED <<ESP32s, link, lists, hist, flags>>
     /\ proc' = [proc EXCEPT ![Main] = Task("ended")]

ReadCommand ==
  /\ At(Main, "idle") /\ source = "file" /\ file # NoFile /\ ESP32s # {}
  /\ Execute(file)
  /\ given' = [given EXCEPT !.read = TRUE]
  /\ UNCHANGED <<queue, flush, file, source>>

NextFrame ==
  /\ At(Main, "frames")
  /\ SendTo(Main, Task("remove"), proc[Main].k, Everyone)
  /\ UNCHANGED <<queue, flush, flags, file, source, given>>

\* Mutant: the file stays, and main goes on.
MutRemoveCommand ==
  /\ At(Main, "remove") /\ proc' = [proc EXCEPT ![Main] = Task("idle")]
  /\ UNCHANGED <<ESP32s, link, lists, queue, flush, flags, file, source, given,
                 hist>>

\* os.remove, also of a command written in the meantime.
RemoveCommand ==
  /\ At(Main, "remove")
  /\ file' = NoFile /\ proc' = [proc EXCEPT ![Main] = Task("idle")]
  /\ UNCHANGED <<ESP32s, link, lists, queue, flush, flags, source, given, hist>>

\* One line: a message, one that is followed by a broadcast ("ota"), or
\* frames, which nobody but those connected gets.
StdinLine ==
  /\ At(Main, "idle") /\ source = "stdin" /\ UNCHANGED flags
  /\ \/ /\ May(1) /\ given' = [given EXCEPT !.ids = Fresh]
        /\ \/ UpdateDisplay(Main, Task("idle"), Fresh, Everyone)
           \/ SendTo(Main, Task("idle"), Fresh, Everyone)
     \/ /\ May(2) /\ given' = [given EXCEPT !.ids = Fresh + 1]
        /\ UpdateDisplay(Main, [Task("ota") EXCEPT !.k = Fresh + 1], Fresh, Everyone)
  /\ UNCHANGED <<queue, flush, file, source>>

StdinOta ==
  /\ At(Main, "ota")
  /\ SendTo(Main, Task("idle"), proc[Main].k, Everyone)
  /\ UNCHANGED <<queue, flush, flags, file, source, given>>

\* EOFError: the server goes on without a terminal.
StdinEnds ==
  /\ At(Main, "idle") /\ source = "stdin"
  /\ proc' = [proc EXCEPT ![Main] = Task("parked")]
  /\ UNCHANGED <<ESP32s, link, lists, queue, flush, flags, file, source, given,
                 hist>>

-----------------------------------------------------------------------------
(* handler, and the canary tasks it starts. *)

H(c) == <<"handler", c>>

Flushing == {c \in Cids : proc[H(c)].at = "flush"}

\* The flush goes on at index i of the list it iterates, which may have grown
\* while it waited, with these remaining: to the next item for c, which it
\* begins to send, or to the end, where it binds _cmd_queue to what remains.
\* A list that nobody can reach any more is empty here.
FlushOn(c, from, i, remaining) ==
  LET src   == lists[from]
      hits  == {j \in i .. Len(src) : src[j].target \in {Everyone, c}}
      ends  == hits = {}
      j     == IF ends THEN Len(src) + 1 ELSE Min(hits)
      going == IF ends THEN Flushing \ {c} ELSE Flushing \cup {c}
      bound == IF ends THEN c ELSE queue
      used  == {bound} \cup going \cup {flush[d].from : d \in going \ {c}}
                 \cup (IF ends THEN {} ELSE {from})
  IN  /\ lists' = [l \in DOMAIN lists |->
                     IF l \notin used THEN <<>>
                     ELSE IF l = c THEN remaining \o SubSeq(src, i, j - 1)
                     ELSE lists[l]]
      /\ flush' = [flush EXCEPT ![c] = IF ends THEN NoFlush
                                       ELSE [from |-> from, i |-> j]]
      /\ queue' = bound
      /\ proc' = [proc EXCEPT ![H(c)] = Task(IF ends THEN "serve" ELSE "flush")]

Connect(c) ==
  /\ proc[H(c)].at = "none" /\ \A d \in 1 .. c - 1 : proc[H(d)].at # "none"
  /\ ESP32s' = ESP32s \cup {c}
  /\ link' = [link EXCEPT ![c] = "up"]
  /\ FlushOn(c, queue, 1, <<>>)
  /\ hist' = [hist EXCEPT !.overlap = @ \/ Flushing # {}]
  /\ UNCHANGED <<flags, file, source, given>>

\* Mutant: a failed item is not kept.
MutKeeps(sent) == FALSE

\* A bare except keeps the item, whatever went wrong.
Keeps(sent) == ~sent

FlushResumes(c) ==
  /\ proc[H(c)].at = "flush"
  /\ LET item == lists[flush[c].from][flush[c].i]
         sent == link[c] = "up"
     IN  /\ FlushOn(c, flush[c].from, flush[c].i + 1,
                    IF Keeps(sent) THEN Append(lists[c], item) ELSE lists[c])
         /\ hist' = IF sent THEN [hist EXCEPT !.got[c] = @ \cup ({item.id} \ {0})]
                    ELSE hist
  /\ UNCHANGED <<ESP32s, link, flags, file, source, given>>

\* btn_click, three seconds after the last.
ButtonClicked(c) ==
  /\ At(H(c), "serve") /\ link[c] = "up" /\ ~flags.restored
  /\ BeginRestore(H(c), "serve")
  /\ UNCHANGED <<ESP32s, link, lists, queue, flush, file, source, given, hist>>

\* Mutant: the connection stays in the dict.
MutHandlerEnds(c) ==
  /\ At(H(c), "serve") /\ link[c] = "closed"
  /\ proc' = [proc EXCEPT ![H(c)] = Task("over")]
  /\ UNCHANGED <<ESP32s, link, lists, queue, flush, flags, file, source, given,
                 hist>>

\* The next message is not there: the finally block.
HandlerEnds(c) ==
  /\ At(H(c), "serve") /\ link[c] = "closed"
  /\ ESP32s' = ESP32s \ {c}
  /\ proc' = [proc EXCEPT ![H(c)] = Task("over")]
  /\ UNCHANGED <<link, lists, queue, flush, flags, file, source, given, hist>>

\* _display of a canary task that connection c started (Canary).
Display(c) ==
  /\ At(<<"job", c>>, "none") /\ proc[H(c)].at \in {"serve", "boot", "over"}
  /\ May(1) /\ given' = [given EXCEPT !.ids = Fresh]
  /\ SendTo(<<"job", c>>, Task("none"), Fresh, c)
  /\ UNCHANGED <<queue, flush, flags, file, source>>

\* The peer, the network, or 10 seconds without the answer to a ping.
LinkCloses(c) ==
  /\ link[c] = "up" /\ link' = [link EXCEPT ![c] = "closed"]
  /\ UNCHANGED <<ESP32s, lists, queue, proc, flush, flags, file, source, given,
                 hist>>

-----------------------------------------------------------------------------
MainStep == ReadCommand \/ NextFrame \/ RemoveCommand \/ StdinOta
TaskStep(p) == SendResumes(p) \/ BootStep(p) \/ SetWaiting(p)
HandlerStep(c) == FlushResumes(c) \/ HandlerEnds(c)

Next ==
  /\ Running
  /\ \/ MainStep \/ WriteCommand \/ StdinLine \/ StdinEnds
     \/ \E p \in Procs : TaskStep(p)
     \/ \E a \in Anims : Animate(a)
     \/ \E c \in Cids : Connect(c) \/ HandlerStep(c) \/ ButtonClicked(c)
                         \/ Display(c) \/ LinkCloses(c)

\* The event loop runs main when it is ready; nothing else is needed.
Fairness == WF_vars(Running /\ (MainStep \/ TaskStep(Main)))

Spec == Init /\ [][Next]_vars /\ Fairness

-----------------------------------------------------------------------------
(* Properties. *)

\* The type invariant, in two parts.
TaskStates == [at: Places, out: SUBSET Cids, id: Nat, k: Nat]
ConnectionsOK ==
  /\ ESP32s \subseteq Cids
  /\ link \in [Cids -> {"none", "up", "closed"}]
  /\ proc \in [Procs -> TaskStates]
OthersOK ==
  /\ flags \in [waiting: BOOLEAN, restored: BOOLEAN]
  /\ file \in [kind: Kinds \cup {"none"}, target: {Everyone} \cup Cids, id: Nat]
  /\ source \in {"file", "stdin"}
  /\ given \in [ids: Nat, anims: Nat, read: BOOLEAN, late: BOOLEAN]
TypeOK == ConnectionsOK /\ OthersOK

\* What is in ESP32s has a handler that runs, and a connection that is open
\* and has one is in ESP32s, whoever deletes the closed ones and whichever
\* exception ends a handler (ws_server.py:63, 70, 149, 218).
RegistryIsExact ==
  \A c \in Cids :
    /\ c \in ESP32s => proc[H(c)].at \in {"flush", "serve", "boot"}
    /\ link[c] = "up" => c \in ESP32s

\* What was queued is in the queue until a connection it is for was handed it:
\* messages are lost only when two handlers flush at once and the second
\* binds _cmd_queue to what it saw (ws_server.py:152-162).
Handed(item) ==
  \E c \in Cids : item.target \in {Everyone, c} /\ item.id \in hist.got[c]
LostOnlyByOverlap ==
  hist.overlap \/ \A item \in hist.parked :
    item \in Range(lists[queue]) \/ Handed(item)

\* Nothing that a connection was handed is kept for it, or for the next if it
\* was for everyone: no flush repeats it, unless two overlapped.
QueuedReachesOne ==
  hist.overlap \/ Flushing # {} \/ \A item \in Range(lists[queue]), c \in Cids :
    item.target \in {Everyone, c} => item.id \notin hist.got[c]

\* No command is executed twice, however long it took and whatever was written
\* meanwhile, and none is removed unread but one written while another was
\* executed: os.remove takes whatever is there (ws_server.py:131-143).
Executes == At(Main, "idle") /\ source = "file" /\ proc'[Main].at # "idle"
Removes  == file # NoFile /\ file' = NoFile
CommandsRunOnce ==
  [][(Executes => ~given.read) /\ (Removes => given.read \/ given.late)]_vars

\* Commands run once, and one written while main was idle, or one written over
\* it since, is executed, unless nobody stays connected or the server ends
\* (ws_server.py:115-143).
Waiting == file # NoFile /\ ~given.read /\ ~given.late
CommandsAreServed ==
  /\ CommandsRunOnce
  /\ Waiting ~> given.read \/ ESP32s = {} \/ ~Running

\* FIXME.md:16-18: a disconnect does not bring the server down.
DisconnectNeverEndsServer == proc[Main].at # "crashed"
=============================================================================
