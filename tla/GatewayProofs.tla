---------------------------- MODULE GatewayProofs ----------------------------
(***************************************************************************)
(* TLAPS proofs about Gateway, for any number of connections, messages and *)
(* animations.  The registry agrees with the handlers and the connections, *)
(* whoever deletes what and whichever task the KeyError of a second        *)
(* deletion ends.  What was queued is lost only when two flushes overlap,  *)
(* and until then no flush repeats what a connection was handed.           *)
(***************************************************************************)
EXTENDS Gateway, FiniteSetTheorems, SequenceTheorems, WellFoundedInduction, TLAPS

-----------------------------------------------------------------------------
(* The inductive invariants. *)

\* The places a handler can be at; it sends to others in the boot animation.
HandlersInPlace ==
  \A c \in Cids :
    /\ proc[H(c)].at \in {"none", "flush", "serve", "boot", "over"}
    /\ proc[H(c)].out # {} => proc[H(c)].at = "boot"

\* The inductive invariant of the registry.
IInv == TypeOK /\ HandlersInPlace /\ RegistryIsExact

\* What makes LostOnlyByOverlap inductive.  Ids are given in order, a command is executed
\* once, ...
LastId(cmd) == IF cmd.kind = "frames" THEN cmd.id + 1 ELSE cmd.id
Unread == file # NoFile /\ ~given.read
IdsInv ==
  /\ given.ids <= MaxMsgs
  /\ Unread => file.id >= 1 /\ LastId(file) <= given.ids
  /\ file # NoFile =>
       /\ source = "file" /\ (given.read => proc[Main].at # "idle")
       /\ given.read \/ given.late \/ proc[Main].at \in {"idle", "crashed"}
  /\ proc[Main].at \in {"frames", "ota"} =>
       /\ proc[Main].k \in 1 .. given.ids
       /\ Unread => proc[Main].k < file.id
  /\ proc[Main].at = "ota" => source = "stdin"

\* ... a handler's "remaining" is iterated by nobody else, a flush stands at
\* an item it is sending, ...
Lists == {0} \cup Cids
Items == [id: Nat \ {0}, target: Lists]
Settled(l) == l # 0 => proc[H(l)].at \notin {"none", "flush"}
QueueOK ==
  /\ lists \in [Lists -> Seq(Items)]
  /\ queue \in Lists /\ Settled(queue)
  /\ flush \in [Cids -> [from: Lists, i: Nat]]
  /\ \A c \in Flushing :
       /\ Settled(flush[c].from)
       /\ flush[c].i \in 1 .. Len(lists[flush[c].from])
       /\ lists[flush[c].from][flush[c].i].target \in {Everyone, c}
  /\ hist \in [got: [Cids -> SUBSET Nat], parked: SUBSET Items, overlap: BOOLEAN]

\* ... and a handler that flushes alone has handed over or kept what it has
\* passed in the queue.
FlushInv ==
  hist.overlap \/ \A c \in Flushing :
    /\ Flushing = {c}
    /\ flush[c].from = queue
    /\ \A j \in 1 .. (flush[c].i - 1) :
         Handed(lists[queue][j]) \/ lists[queue][j] \in Range(lists[c])

\* The inductive invariant of the queue, beside IInv.
QInv == IdsInv /\ QueueOK /\ FlushInv /\ LostOnlyByOverlap

\* What makes QueuedReachesOne inductive, beside IInv and QInv.  A claim is a promise of
\* one message: an item still to be handed out or kept, a send that is under
\* way, and an id that nobody has used yet.  Claims never overlap, and none is
\* met already.
Waits(l) ==
  IF l \in Flushing THEN 1 .. Len(lists[l])
  ELSE IF l = queue THEN {n \in 1 .. Len(lists[l]) : \A c \in Flushing : flush[c].i <= n}
  ELSE {}
Unsent ==
  {i \in 1 .. MaxMsgs : \/ i > given.ids
                        \/ Unread /\ i \in {file.id, LastId(file)}
                        \/ proc[Main].at \in {"frames", "ota"} /\ i = proc[Main].k}
ListClaim(l, n) == <<"list", "", l, n>>
SendClaim(p, c) == <<"send", p[1], p[2], c>>
IdClaim(i)      == <<"new", "", i, 0>>
Claims ==
  (UNION {{ListClaim(l, n) : n \in Waits(l)} : l \in Lists})
    \cup (UNION {{SendClaim(p, c) : c \in proc[p].out} :
                   p \in {q \in Procs : proc[q].id # 0}})
    \cup {IdClaim(i) : i \in Unsent}
ItemOf(x) == CASE x[1] = "list" -> lists[x[3]][x[4]]
               [] x[1] = "send" -> Item(proc[<<x[2], x[3]>>].id, x[4])
               [] OTHER         -> Item(x[3], Everyone)
Clash(s, t) ==
  s.id = t.id /\ (s.target = t.target \/ s.target = Everyone \/ t.target = Everyone)
ClaimsInv ==
  hist.overlap \/
    /\ \A x, y \in Claims : x # y => ~Clash(ItemOf(x), ItemOf(y))
    /\ \A x \in Claims, c \in Cids :
         ItemOf(x).target \in {Everyone, c} => ItemOf(x).id \notin hist.got[c]

-----------------------------------------------------------------------------
Serving == {"flush", "serve", "boot"}

\* What IInv says of the variables a send may change.
Registry == ConnectionsOK /\ HandlersInPlace /\ RegistryIsExact

\* IInv is the registry and the rest.
LEMMA TwoParts == /\ IInv => Registry /\ OthersOK
                  /\ Registry' /\ OthersOK' => IInv'
                  /\ Registry /\ OthersOK => IInv
BY DEF IInv, TypeOK, Registry

\* The handlers are tasks, no two are the same, and main is none.
LEMMA HandlersAreProcs ==
  /\ Main \in Procs /\ Main \notin Handlers
  /\ \A c \in Cids : H(c) \in Procs /\ H(c) \in Handlers /\ H(c) \notin Anims
                     /\ H(c) \notin Jobs /\ H(c)[2] = c
  /\ \A p \in Handlers : p = H(p[2]) /\ p[2] \in Cids
  /\ \A p \in Handlers \cup Jobs \cup Anims : p \in Procs
BY DEF Procs, Main, Handlers, Anims, Jobs, H

\* What nobody is in the middle of.
LEMMA TaskIsProc ==
  ASSUME NEW at \in Places
  PROVE  Task(at) \in TaskStates /\ Task(at).at = at /\ Task(at).out = {}
BY DEF Task, TaskStates

\* A task that is suspended in a send is where it was.
LEMMA SuspendedIsProc ==
  ASSUME NEW next \in TaskStates, NEW rest \in SUBSET Cids, NEW i \in Nat
  PROVE  /\ [next EXCEPT !.out = rest, !.id = i] \in TaskStates
         /\ [next EXCEPT !.out = rest, !.id = i].at = next.at
BY DEF TaskStates

\* A task that goes through any connections leaves the registry exact.
LEMMA GoThroughKeeps ==
  ASSUME Registry, NEW p \in Procs, NEW next \in TaskStates, NEW id \in Nat,
         NEW out \in SUBSET Cids, NEW got,
         p \in Handlers => next.at = "boot",
         GoThrough(p, next, out, id, got)
  PROVE  Registry'
<1> DEFINE closed == {c \in out : \A d \in out : d <= c => ~Stops(d)}
           rest   == out \ closed
           raises == rest # {} /\ link[Min(rest)] # "up"
           mine   == IF raises /\ p \in Handlers THEN {p[2]} ELSE {}
           after  == IF raises THEN Task(IF p = Main THEN "crashed" ELSE "over")
                     ELSE [next EXCEPT !.out = rest,
                                       !.id = IF rest = {} THEN 0 ELSE id]
<1>1. /\ ESP32s' = ESP32s \ (closed \cup mine)
      /\ link' = [c \in Cids |-> IF c \in mine THEN "closed" ELSE link[c]]
      /\ proc' = [proc EXCEPT ![p] = after]
  BY DEF GoThrough
<1>2. after \in TaskStates /\ (p \in Handlers /\ ~raises => after.at = "boot")
      /\ (p \in Handlers /\ raises => after.at = "over" /\ after.out = {})
  <2>1. CASE raises
    <3>1. after = Task(IF p = Main THEN "crashed" ELSE "over")
      BY <2>1
    <3>2. "crashed" \in Places /\ "over" \in Places
      BY DEF Places
    <3> QED
      BY <2>1, <3>1, <3>2, TaskIsProc, HandlersAreProcs
  <2>2. CASE ~raises
    <3>1. rest \in SUBSET Cids /\ (IF rest = {} THEN 0 ELSE id) \in Nat
      OBVIOUS
    <3>2. after = [next EXCEPT !.out = rest, !.id = IF rest = {} THEN 0 ELSE id]
      BY <2>2
    <3> HIDE DEF rest, raises, after
    <3>3. after \in TaskStates /\ after.at = next.at
      BY <3>1, <3>2, SuspendedIsProc
    <3> QED
      BY <2>2, <3>3
  <2> QED
    BY <2>1, <2>2
<1>3. \A c \in closed : c \in ESP32s /\ link[c] # "up"
  <2>1. \A c \in closed : ~Stops(c)
    BY DEF Cids
  <2> QED
    BY <2>1 DEF Stops
<1>4. mine = IF raises /\ p \in Handlers THEN {p[2]} ELSE {}
  OBVIOUS
<1> HIDE DEF closed, mine, raises, after
<1>5. /\ proc' \in [Procs -> TaskStates] /\ proc'[p] = after
      /\ \A q \in Procs : q # p => proc'[q] = proc[q]
  BY <1>1, <1>2 DEF Registry, ConnectionsOK
<1>6. mine \subseteq Cids
  BY <1>4, HandlersAreProcs
<1>7. /\ ESP32s' \subseteq Cids
      /\ link' \in [Cids -> {"none", "up", "closed"}]
  BY <1>1 DEF Registry, ConnectionsOK
<1>8. \A c \in Cids : H(c) # p =>
        c \notin mine /\ proc'[H(c)] = proc[H(c)]
  BY <1>4, <1>5, HandlersAreProcs
<1>9. \A c \in Cids : H(c) = p =>
        IF raises
        THEN c \in mine /\ proc'[H(c)].at = "over" /\ proc'[H(c)].out = {}
        ELSE c \notin mine /\ proc'[H(c)].at = "boot"
  BY <1>2, <1>4, <1>5, HandlersAreProcs
<1>10. HandlersInPlace'
  BY <1>8, <1>9 DEF Registry, ConnectionsOK, HandlersInPlace
<1>11. RegistryIsExact'
  <2> SUFFICES ASSUME NEW c \in Cids
               PROVE  /\ c \in ESP32s' => proc'[H(c)].at \in Serving
                      /\ link'[c] = "up" => c \in ESP32s'
    BY DEF RegistryIsExact, Serving
  <2>1. c \in ESP32s' => proc'[H(c)].at \in Serving
    <3>1. c \in ESP32s' => c \in ESP32s /\ c \notin mine
      BY <1>1
    <3>2. c \in ESP32s => proc[H(c)].at \in Serving
      BY DEF Registry, ConnectionsOK, RegistryIsExact, Serving
    <3> QED
      BY <1>8, <1>9, <3>1, <3>2 DEF Serving
  <2>2. link'[c] = "up" => c \in ESP32s'
    <3>1. link[c] = "up" => c \in ESP32s /\ c \notin closed
      BY <1>3 DEF Registry, ConnectionsOK, RegistryIsExact
    <3>2. link'[c] = "up" => link[c] = "up" /\ c \notin mine
      BY <1>1
    <3> QED
      BY <1>1, <3>1, <3>2
  <2> QED
    BY <2>1, <2>2
<1> QED
  BY <1>5, <1>7, <1>10, <1>11 DEF Registry, ConnectionsOK

\* A task that goes on without a send leaves it exact.
LEMMA MoveKeeps ==
  ASSUME Registry, NEW p \in Procs, NEW next \in TaskStates,
         p \in Handlers => /\ next.at \in Serving
                           /\ next.out # {} => next.at = "boot",
         proc' = [proc EXCEPT ![p] = next], UNCHANGED <<ESP32s, link>>
  PROVE  Registry'
<1>1. /\ proc' \in [Procs -> TaskStates] /\ proc'[p] = next
      /\ \A q \in Procs : q # p => proc'[q] = proc[q]
  BY DEF Registry, ConnectionsOK
<1>2. \A c \in Cids : H(c) # p => proc'[H(c)] = proc[H(c)]
  BY <1>1, HandlersAreProcs
<1>3. \A c \in Cids : H(c) = p =>
        /\ proc'[H(c)].at \in Serving
        /\ proc'[H(c)].out # {} => proc'[H(c)].at = "boot"
  BY <1>1, HandlersAreProcs
<1>4. HandlersInPlace'
  BY <1>2, <1>3 DEF Registry, ConnectionsOK, HandlersInPlace, Serving
<1>5. RegistryIsExact'
  BY <1>2, <1>3 DEF Registry, ConnectionsOK, RegistryIsExact, Serving
<1> QED
  BY <1>1, <1>4, <1>5 DEF Registry, ConnectionsOK

\* A message that is sent or queued leaves it exact.
LEMMA SendToKeeps ==
  ASSUME Registry, NEW p \in Procs, NEW next \in TaskStates, NEW id \in Nat,
         NEW target \in {Everyone} \cup Cids,
         p \in Handlers => next.at = "boot",
         SendTo(p, next, id, target)
  PROVE  Registry'
<1>1. CASE target # Everyone /\ target \notin ESP32s
  <2>1. proc' = [proc EXCEPT ![p] = next] /\ UNCHANGED <<ESP32s, link>>
    BY <1>1 DEF SendTo
  <2> QED
    BY <2>1, MoveKeeps DEF Serving
<1>2. CASE ~(target # Everyone /\ target \notin ESP32s)
  <2> DEFINE out == IF target # Everyone THEN {target} ELSE ESP32s
  <2>1. GoThrough(p, next, out, id, hist.got)
    BY <1>2 DEF SendTo
  <2>2. out \in SUBSET Cids
    BY <1>2 DEF Registry, ConnectionsOK
  <2> HIDE DEF out
  <2> QED
    BY <2>1, <2>2, GoThroughKeeps
<1> QED
  BY <1>1, <1>2

\* So does a message while nobody is connected.
LEMMA UpdateDisplayKeeps ==
  ASSUME Registry, NEW p \in Procs, p \notin Handlers, NEW next \in TaskStates,
         NEW id \in Nat, NEW target \in {Everyone} \cup Cids,
         UpdateDisplay(p, next, id, target)
  PROVE  Registry'
<1>1. CASE ESP32s # {}
  BY <1>1, SendToKeeps DEF UpdateDisplay
<1>2. CASE ESP32s = {}
  <2>1. proc' = [proc EXCEPT ![p] = next] /\ UNCHANGED <<ESP32s, link>>
    BY <1>2 DEF UpdateDisplay
  <2> QED
    BY <2>1, MoveKeeps
<1> QED
  BY <1>1, <1>2

\* A handler that begins or goes on with its flush.
LEMMA FlushOnMoves ==
  ASSUME Registry, NEW c \in Cids, NEW from, NEW i, NEW remaining,
         FlushOn(c, from, i, remaining)
  PROVE  \E at \in {"flush", "serve"} : proc' = [proc EXCEPT ![H(c)] = Task(at)]
BY DEF FlushOn

(* The steps.                                                               *)

\* At the start nobody is connected.
LEMMA InitEstablishes == Init => IInv
<1> SUFFICES ASSUME Init PROVE IInv
  OBVIOUS
<1>1. proc \in [Procs -> TaskStates]
  <2>1. Task("idle") \in TaskStates /\ Task("none") \in TaskStates
    BY TaskIsProc DEF Places
  <2> QED
    BY <2>1 DEF Init
<1>2. HandlersInPlace /\ RegistryIsExact
  BY HandlersAreProcs, TaskIsProc
     DEF Init, HandlersInPlace, RegistryIsExact, Places
<1>3. ESP32s \subseteq Cids /\ link \in [Cids -> {"none", "up", "closed"}]
  BY DEF Init
<1>4. OthersOK
  BY DEF Init, OthersOK, NoFile
<1> QED
  BY <1>1, <1>2, <1>3, <1>4, TwoParts DEF Registry, ConnectionsOK

\* A task goes on after one send.
LEMMA StepSendResumes ==
  ASSUME IInv, NEW p \in Procs, SendResumes(p)
  PROVE  IInv'
<1>1. Registry /\ OthersOK
  BY TwoParts
<1>2. proc[p] \in TaskStates /\ proc[p].id \in Nat /\ proc[p].out \in SUBSET Cids
  BY <1>1 DEF Registry, ConnectionsOK, TaskStates
<1>3. p \in Handlers => proc[p].at = "boot"
  BY <1>1, HandlersAreProcs DEF Registry, ConnectionsOK, HandlersInPlace, SendResumes
<1>4. \E out \in SUBSET Cids : \E got :
        GoThrough(p, proc[p], out, proc[p].id, got)
  BY <1>2 DEF SendResumes
<1>5. Registry'
  BY <1>1, <1>2, <1>3, <1>4, GoThroughKeeps
<1>6. OthersOK'
  BY <1>1 DEF OthersOK, SendResumes
<1> QED
  BY <1>5, <1>6, TwoParts

\* The boot animation: of main and of handlers.
LEMMA StepBoot ==
  ASSUME IInv, NEW p \in Procs, BootStep(p)
  PROVE  IInv'
<1>1. Registry /\ OthersOK
  BY TwoParts
<1>2. p \in Procs /\ proc[p] \in TaskStates /\ proc[p].at = "boot"
  BY <1>1, HandlersAreProcs DEF Registry, ConnectionsOK, BootStep, At
<1>3. CASE proc[p].k = 0 \/ ESP32s = {}
  <2> DEFINE at == IF p = Main THEN "remove" ELSE "serve"
  <2>1. /\ proc' = [proc EXCEPT ![p] = Task(at)] /\ UNCHANGED <<ESP32s, link>>
        /\ flags' = [flags EXCEPT !.restored = TRUE]
        /\ UNCHANGED <<file, source, given>>
    BY <1>3 DEF BootStep
  <2>2. at \in Places /\ (p \in Handlers => at = "serve")
    BY HandlersAreProcs DEF Places
  <2>3. Registry'
    BY <1>1, <1>2, <2>1, <2>2, TaskIsProc, MoveKeeps DEF Serving
  <2>4. OthersOK'
    BY <1>1, <2>1 DEF OthersOK
  <2> QED
    BY <2>3, <2>4, TwoParts
<1>4. CASE ~(proc[p].k = 0 \/ ESP32s = {})
  <2> DEFINE next == [proc[p] EXCEPT !.k = @ - 1]
  <2>1. SendTo(p, next, 0, Everyone) /\ UNCHANGED <<flags, file, source, given>>
    BY <1>4 DEF BootStep
  <2>2. next \in TaskStates /\ next.at = "boot"
    BY <1>2, <1>4 DEF TaskStates
  <2> HIDE DEF next
  <2>3. Registry'
    BY <1>1, <1>2, <2>1, <2>2, SendToKeeps DEF Everyone
  <2>4. OthersOK'
    BY <1>1, <2>1 DEF OthersOK
  <2> QED
    BY <2>3, <2>4, TwoParts
<1> QED
  BY <1>3, <1>4

\* A task that is about to set the flag is no handler.
LEMMA StepSetWaiting ==
  ASSUME IInv, NEW p \in Procs, SetWaiting(p)
  PROVE  IInv'
<1>1. Registry /\ OthersOK
  BY TwoParts
<1>2. p \notin Handlers
  BY <1>1, HandlersAreProcs DEF Registry, HandlersInPlace, SetWaiting, At
<1>3. PICK a \in Anims :
        proc' = [proc EXCEPT ![p] = Task("remove"), ![a] = Task("dots")]
  BY DEF SetWaiting
<1>4. /\ a \in Procs /\ a \notin Handlers
      /\ Task("remove") \in TaskStates /\ Task("dots") \in TaskStates
  BY HandlersAreProcs, TaskIsProc DEF Places, Anims, Handlers
<1>5. \A c \in Cids : proc'[H(c)] = proc[H(c)]
  BY <1>1, <1>2, <1>3, <1>4, HandlersAreProcs DEF Registry, ConnectionsOK
<1>6. proc' \in [Procs -> TaskStates]
  BY <1>1, <1>2, <1>3, <1>4 DEF Registry, ConnectionsOK
<1>7. Registry'
  BY <1>1, <1>5, <1>6
     DEF Registry, ConnectionsOK, HandlersInPlace, RegistryIsExact, SetWaiting
<1>8. OthersOK'
  BY <1>1 DEF OthersOK, SetWaiting
<1> QED
  BY <1>7, <1>8, TwoParts

\* One turn of an animation.
LEMMA StepAnimate ==
  ASSUME IInv, NEW a \in Anims, Animate(a)
  PROVE  IInv'
<1>1. Registry /\ OthersOK
  BY TwoParts
<1>2. a \in Procs /\ a \notin Handlers /\ proc[a] \in TaskStates
  BY <1>1, HandlersAreProcs DEF Registry, ConnectionsOK, Anims, Handlers
<1>3. Registry'
  <2>1. CASE flags.waiting /\ ESP32s # {}
    <3>1. SendTo(a, proc[a], 0, Everyone)
      BY <2>1 DEF Animate
    <3> QED
      BY <1>1, <1>2, <3>1, SendToKeeps DEF Everyone
  <2>2. CASE ~(flags.waiting /\ ESP32s # {})
    <3>1. proc' = [proc EXCEPT ![a] = Task("over")] /\ UNCHANGED <<ESP32s, link>>
      BY <2>2 DEF Animate
    <3>2. Task("over") \in TaskStates
      BY TaskIsProc DEF Places
    <3> QED
      BY <1>1, <1>2, <3>1, <3>2, MoveKeeps
  <2> QED
    BY <2>1, <2>2
<1>4. OthersOK'
  BY <1>1 DEF OthersOK, Animate
<1> QED
  BY <1>3, <1>4, TwoParts

\* _restore_display begins in a task that runs.
LEMMA BeginRestoreKeeps ==
  ASSUME Registry, OthersOK, NEW p \in Procs, NEW back \in Places,
         p \in Handlers => back \in Serving,
         BeginRestore(p, back), UNCHANGED <<ESP32s, link>>
  PROVE  Registry' /\ flags' \in [waiting: BOOLEAN, restored: BOOLEAN]
<1>1. CASE flags.restored
  <2>1. proc' = [proc EXCEPT ![p] = Task(back)] /\ flags' = flags
    BY <1>1 DEF BeginRestore
  <2> QED
    BY <2>1, TaskIsProc, MoveKeeps DEF OthersOK
<1>2. CASE ~flags.restored
  <2> DEFINE next == [Task("boot") EXCEPT !.k = Letters]
  <2>1. /\ proc' = [proc EXCEPT ![p] = next]
        /\ flags' = [flags EXCEPT !.waiting = FALSE]
    BY <1>2 DEF BeginRestore
  <2>2. next \in TaskStates /\ next.at = "boot"
    BY GatewayBounds DEF Task, TaskStates, Places
  <2> HIDE DEF next
  <2>3. Registry'
    BY <2>1, <2>2, MoveKeeps DEF Serving
  <2>4. flags' \in [waiting: BOOLEAN, restored: BOOLEAN]
    BY <2>1 DEF OthersOK
  <2> QED
    BY <2>3, <2>4
<1> QED
  BY <1>1, <1>2

\* The click that begins the boot animation.
LEMMA StepButtonClicked ==
  ASSUME IInv, NEW c \in Cids, ButtonClicked(c)
  PROVE  IInv'
<1>1. Registry /\ OthersOK
  BY TwoParts
<1>2. /\ BeginRestore(H(c), "serve")
      /\ UNCHANGED <<ESP32s, link, file, source, given>>
  BY DEF ButtonClicked
<1>3. Registry' /\ flags' \in [waiting: BOOLEAN, restored: BOOLEAN]
  BY <1>1, <1>2, HandlersAreProcs, BeginRestoreKeeps DEF Serving, Places
<1>4. OthersOK'
  BY <1>1, <1>2, <1>3 DEF OthersOK
<1> QED
  BY <1>3, <1>4, TwoParts

\* What main does first with the text it read.
LEMMA ExecuteKeeps ==
  ASSUME Registry, OthersOK, Execute(file)
  PROVE  Registry' /\ flags' \in [waiting: BOOLEAN, restored: BOOLEAN]
<1>1. /\ Main \in Procs /\ Main \notin Handlers
      /\ file.id \in Nat /\ file.target \in {Everyone} \cup Cids
  BY HandlersAreProcs DEF OthersOK
<1>2. /\ Task("remove") \in TaskStates /\ Task("setwait") \in TaskStates
      /\ Task("ended") \in TaskStates
      /\ [Task("frames") EXCEPT !.k = file.id + 1] \in TaskStates
  <2>1. Task("frames") \in TaskStates /\ file.id + 1 \in Nat
    BY <1>1, TaskIsProc DEF Places
  <2>2. [Task("frames") EXCEPT !.k = file.id + 1] \in TaskStates
    BY <2>1 DEF TaskStates
  <2> QED
    BY <2>2, TaskIsProc DEF Places
<1>3. CASE UNCHANGED flags /\ UpdateDisplay(Main, Task("remove"), file.id, file.target)
  BY <1>1, <1>2, <1>3, UpdateDisplayKeeps DEF OthersOK
<1>4. CASE UNCHANGED flags
           /\ SendTo(Main, [Task("frames") EXCEPT !.k = file.id + 1],
                     file.id, file.target)
  BY <1>1, <1>2, <1>4, SendToKeeps DEF OthersOK
<1>5. CASE /\ flags' = [flags EXCEPT !.waiting = FALSE]
           /\ proc' = [proc EXCEPT ![Main] = Task("setwait")]
           /\ UNCHANGED <<ESP32s, link>>
  <2>1. Registry'
    BY <1>1, <1>2, <1>5, MoveKeeps
  <2>2. flags' \in [waiting: BOOLEAN, restored: BOOLEAN]
    BY <1>5 DEF OthersOK
  <2> QED
    BY <2>1, <2>2
<1>6. CASE BeginRestore(Main, "remove") /\ UNCHANGED <<ESP32s, link>>
  BY <1>1, <1>6, BeginRestoreKeeps DEF Places
<1>7. CASE /\ proc' = [proc EXCEPT ![Main] = Task("ended")]
           /\ UNCHANGED <<ESP32s, link, flags>>
  BY <1>1, <1>2, <1>7, MoveKeeps DEF OthersOK
<1> QED
  BY <1>3, <1>4, <1>5, <1>6, <1>7 DEF Execute

\* The command that main reads.
LEMMA StepReadCommand ==
  ASSUME IInv, ReadCommand
  PROVE  IInv'
<1>1. Registry /\ OthersOK
  BY TwoParts
<1>2. Registry' /\ flags' \in [waiting: BOOLEAN, restored: BOOLEAN]
  BY <1>1, ExecuteKeeps DEF ReadCommand
<1>3. OthersOK'
  BY <1>1, <1>2 DEF OthersOK, ReadCommand
<1> QED
  BY <1>2, <1>3, TwoParts

\* The sends of main that follow another.
LEMMA StepSecondSend ==
  ASSUME IInv, NextFrame \/ StdinOta
  PROVE  IInv'
<1>1. Registry /\ OthersOK
  BY TwoParts
<1>2. /\ Main \in Procs /\ Main \notin Handlers /\ proc[Main].k \in Nat
      /\ Task("remove") \in TaskStates /\ Task("idle") \in TaskStates
      /\ Everyone \in {Everyone} \cup Cids
  BY <1>1, HandlersAreProcs, TaskIsProc
     DEF Registry, ConnectionsOK, TaskStates, Places
<1>3. \E next \in TaskStates : SendTo(Main, next, proc[Main].k, Everyone)
  BY <1>2 DEF NextFrame, StdinOta
<1>4. Registry'
  BY <1>1, <1>2, <1>3, SendToKeeps
<1>5. OthersOK'
  BY <1>1 DEF OthersOK, NextFrame, StdinOta
<1> QED
  BY <1>4, <1>5, TwoParts

\* The file, and main between two commands.
LEMMA StepFile ==
  ASSUME IInv, WriteCommand \/ RemoveCommand \/ StdinEnds
  PROVE  IInv'
<1>1. Registry /\ OthersOK
  BY TwoParts
<1>2. /\ Main \in Procs /\ Main \notin Handlers
      /\ Task("idle") \in TaskStates /\ Task("parked") \in TaskStates
  BY HandlersAreProcs, TaskIsProc DEF Places
<1>3. CASE WriteCommand
  <2>1. Registry'
    BY <1>1, <1>3 DEF Registry, ConnectionsOK, HandlersInPlace,
       RegistryIsExact, WriteCommand
  <2>2. PICK kind \in Kinds, target \in {Everyone} \cup Cids,
             n \in {1, 2}, a \in {0, 1} :
          /\ file' = [kind |-> kind, target |-> target, id |-> Fresh]
          /\ given' = [given EXCEPT !.ids = @ + n, !.anims = @ + a,
                                 !.read = FALSE,
                                 !.late = proc[Main].at # "idle"]
    BY <1>3 DEF WriteCommand
  <2>3. Fresh \in Nat
    BY <1>1 DEF OthersOK, Fresh
  <2>4. given' \in [ids: Nat, anims: Nat, read: BOOLEAN, late: BOOLEAN]
    <3>1. given.ids + n \in Nat /\ given.anims + a \in Nat
      BY <1>1 DEF OthersOK
    <3>2. \E i, j \in Nat, l \in BOOLEAN :
            given' = [given EXCEPT !.ids = i, !.anims = j, !.read = FALSE,
                                   !.late = l]
      BY <2>2, <3>1
    <3> QED
      BY <1>1, <3>2 DEF OthersOK
  <2>5. OthersOK'
    BY <1>1, <1>3, <2>2, <2>3, <2>4 DEF OthersOK, WriteCommand
  <2> QED
    BY <2>1, <2>5, TwoParts
<1>4. CASE RemoveCommand
  <2>1. Registry'
    BY <1>1, <1>2, <1>4, MoveKeeps DEF RemoveCommand
  <2>2. OthersOK'
    BY <1>1, <1>4 DEF OthersOK, RemoveCommand, NoFile
  <2> QED
    BY <2>1, <2>2, TwoParts
<1>5. CASE StdinEnds
  <2>1. Registry'
    BY <1>1, <1>2, <1>5, MoveKeeps DEF StdinEnds
  <2>2. OthersOK'
    BY <1>1, <1>5 DEF OthersOK, StdinEnds
  <2> QED
    BY <2>1, <2>2, TwoParts
<1> QED
  BY <1>3, <1>4, <1>5

\* A line from the terminal.
LEMMA StepStdinLine ==
  ASSUME IInv, StdinLine
  PROVE  IInv'
<1>1. Registry /\ OthersOK
  BY TwoParts
<1>2. /\ Main \in Procs /\ Main \notin Handlers
      /\ Fresh \in Nat /\ Everyone \in {Everyone} \cup Cids
  BY <1>1, HandlersAreProcs DEF OthersOK, Fresh
<1>3. Task("idle") \in TaskStates /\ [Task("ota") EXCEPT !.k = Fresh + 1] \in TaskStates
  <2>1. Task("ota") \in TaskStates /\ Fresh + 1 \in Nat
    BY <1>2, TaskIsProc DEF Places
  <2>2. [Task("ota") EXCEPT !.k = Fresh + 1] \in TaskStates
    BY <2>1 DEF TaskStates
  <2> QED
    BY <2>2, TaskIsProc DEF Places
<1>4. \E next \in TaskStates : \/ UpdateDisplay(Main, next, Fresh, Everyone)
                               \/ SendTo(Main, next, Fresh, Everyone)
  BY <1>3 DEF StdinLine
<1>5. Registry'
  BY <1>1, <1>2, <1>4, UpdateDisplayKeeps, SendToKeeps
<1>6. \E n \in Nat : given' = [given EXCEPT !.ids = n]
  BY <1>2 DEF StdinLine
<1>7. given' \in [ids: Nat, anims: Nat, read: BOOLEAN, late: BOOLEAN]
  BY <1>1, <1>6 DEF OthersOK
<1>8. OthersOK'
  BY <1>1, <1>7 DEF OthersOK, StdinLine
<1> QED
  BY <1>5, <1>8, TwoParts

\* A connection is accepted: it is registered before its flush.
LEMMA StepConnect ==
  ASSUME IInv, NEW c \in Cids, Connect(c)
  PROVE  IInv'
<1>1. Registry /\ OthersOK
  BY TwoParts
<1>2. PICK at \in {"flush", "serve"} : proc' = [proc EXCEPT ![H(c)] = Task(at)]
  BY <1>1, FlushOnMoves DEF Connect
<1>3. ESP32s' = ESP32s \cup {c} /\ link' = [link EXCEPT ![c] = "up"]
  BY DEF Connect
<1>4. /\ Task(at) \in TaskStates /\ Task(at).at = at /\ Task(at).out = {}
      /\ H(c) \in Procs /\ \A d \in Cids : H(d) = H(c) => d = c
      /\ \A d \in Cids : H(d) \in Procs
  BY HandlersAreProcs, TaskIsProc DEF Places
<1>5. /\ proc' \in [Procs -> TaskStates] /\ proc'[H(c)] = Task(at)
      /\ \A d \in Cids : d # c => proc'[H(d)] = proc[H(d)]
  BY <1>1, <1>2, <1>4 DEF Registry, ConnectionsOK
<1>6. ConnectionsOK'
  BY <1>1, <1>3, <1>5 DEF Registry, ConnectionsOK
<1>7. HandlersInPlace'
  BY <1>1, <1>4, <1>5 DEF Registry, HandlersInPlace
<1>8. RegistryIsExact'
  BY <1>1, <1>3, <1>4, <1>5 DEF Registry, ConnectionsOK, RegistryIsExact
<1>9. OthersOK'
  BY <1>1 DEF OthersOK, Connect
<1> QED
  BY <1>6, <1>7, <1>8, <1>9, TwoParts DEF Registry

\* A handler goes on with its flush.
LEMMA StepFlushResumes ==
  ASSUME IInv, NEW c \in Cids, FlushResumes(c)
  PROVE  IInv'
<1>1. Registry /\ OthersOK
  BY TwoParts
<1>2. PICK at \in {"flush", "serve"} : proc' = [proc EXCEPT ![H(c)] = Task(at)]
  BY <1>1, FlushOnMoves DEF FlushResumes
<1>3. Registry'
  BY <1>1, <1>2, HandlersAreProcs, TaskIsProc, MoveKeeps
     DEF FlushResumes, Serving, Places
<1>4. OthersOK'
  BY <1>1 DEF OthersOK, FlushResumes
<1> QED
  BY <1>3, <1>4, TwoParts

\* The finally block takes the connection out, which is closed.
LEMMA StepHandlerEnds ==
  ASSUME IInv, NEW c \in Cids, HandlerEnds(c)
  PROVE  IInv'
<1>1. Registry /\ OthersOK
  BY TwoParts
<1>2. /\ link[c] = "closed" /\ link' = link /\ ESP32s' = ESP32s \ {c}
      /\ proc' = [proc EXCEPT ![H(c)] = Task("over")]
  BY DEF HandlerEnds
<1>3. /\ Task("over") \in TaskStates /\ Task("over").at = "over"
      /\ Task("over").out = {}
      /\ H(c) \in Procs /\ \A d \in Cids : H(d) = H(c) => d = c
      /\ \A d \in Cids : H(d) \in Procs
  BY HandlersAreProcs, TaskIsProc DEF Places
<1>4. /\ proc' \in [Procs -> TaskStates] /\ proc'[H(c)] = Task("over")
      /\ \A d \in Cids : d # c => proc'[H(d)] = proc[H(d)]
  BY <1>1, <1>2, <1>3 DEF Registry, ConnectionsOK
<1>5. ConnectionsOK'
  BY <1>1, <1>2, <1>4 DEF Registry, ConnectionsOK
<1>6. HandlersInPlace'
  BY <1>1, <1>3, <1>4 DEF Registry, HandlersInPlace
<1>7. RegistryIsExact'
  BY <1>1, <1>2, <1>4 DEF Registry, ConnectionsOK, RegistryIsExact
<1>8. OthersOK'
  BY <1>1 DEF OthersOK, HandlerEnds
<1> QED
  BY <1>5, <1>6, <1>7, <1>8, TwoParts DEF Registry

\* A canary task sends its verdict.
LEMMA StepDisplay ==
  ASSUME IInv, NEW c \in Cids, Display(c)
  PROVE  IInv'
<1>1. Registry /\ OthersOK
  BY TwoParts
<1>2. /\ <<"job", c>> \in Procs /\ <<"job", c>> \notin Handlers
      /\ Task("none") \in TaskStates
      /\ Fresh \in Nat
  BY <1>1, TaskIsProc DEF Procs, Jobs, Handlers, Places, OthersOK, Fresh
<1>3. Registry'
  BY <1>1, <1>2, SendToKeeps DEF Display
<1>4. given' \in [ids: Nat, anims: Nat, read: BOOLEAN, late: BOOLEAN]
  BY <1>1, <1>2 DEF OthersOK, Display
<1>5. OthersOK'
  BY <1>1, <1>4 DEF OthersOK, Display
<1> QED
  BY <1>3, <1>5, TwoParts

\* A connection closes; its handler has yet to see it.
LEMMA StepLinkCloses ==
  ASSUME IInv, NEW c \in Cids, LinkCloses(c)
  PROVE  IInv'
<1>1. Registry /\ OthersOK
  BY TwoParts
<1>2. Registry'
  BY <1>1 DEF Registry, ConnectionsOK, HandlersInPlace, RegistryIsExact, LinkCloses
<1>3. OthersOK'
  BY <1>1 DEF OthersOK, LinkCloses
<1> QED
  BY <1>2, <1>3, TwoParts

\* Every step.
LEMMA StepPreserves == IInv /\ [Next]_vars => IInv'
<1> SUFFICES ASSUME IInv, [Next]_vars PROVE IInv'
  OBVIOUS
<1>1. CASE MainStep \/ WriteCommand \/ StdinLine \/ StdinEnds
  BY <1>1, StepReadCommand, StepSecondSend, StepFile, StepStdinLine DEF MainStep
<1>2. CASE \E p \in Procs : TaskStep(p)
  BY <1>2, StepSendResumes, StepBoot, StepSetWaiting DEF TaskStep
<1>3. CASE \E a \in Anims : Animate(a)
  BY <1>3, StepAnimate
<1>4. CASE \E c \in Cids : Connect(c) \/ HandlerStep(c) \/ ButtonClicked(c)
                           \/ Display(c) \/ LinkCloses(c)
  BY <1>4, StepConnect, StepFlushResumes, StepHandlerEnds, StepButtonClicked,
     StepDisplay, StepLinkCloses DEF HandlerStep
<1>5. CASE UNCHANGED vars
  BY <1>5 DEF vars, IInv, TypeOK, ConnectionsOK, OthersOK, HandlersInPlace,
     RegistryIsExact
<1> QED
  BY <1>1, <1>2, <1>3, <1>4, <1>5 DEF Next

-----------------------------------------------------------------------------
(* The theorems. *)

\* The types, the places of the handlers and the registry, in every reachable
\* state.
THEOREM InductiveInvariant == Spec => []IInv
<1> QED BY InitEstablishes, StepPreserves, PTL DEF Spec

\* What is in ESP32s has a running handler, and an open connection that has a
\* handler is in ESP32s, for any number of connections (ws_server.py:63, 70,
\* 149, 218).
THEOREM RegistryExact == Spec => []RegistryIsExact
<1>1. IInv => RegistryIsExact
  BY DEF IInv
<1> QED BY <1>1, InductiveInvariant, PTL

-----------------------------------------------------------------------------
(* The queue. *)

\* Min of a set of numbers.
LEMMA MinIsLeast ==
  ASSUME NEW S \in SUBSET Nat, S # {}
  PROVE  Min(S) \in S /\ \A x \in S : Min(S) <= x
<1>1. PICK x \in S : \A y \in S : <<y, x>> \notin OpToRel(<, Nat)
  BY NatLessThanWellFounded, WFMin
<1>2. \A y \in S : ~(y < x)
  BY <1>1 DEF OpToRel
<1>3. \A y \in S : x <= y
  BY <1>2
<1> QED
  BY <1>3 DEF Min

\* The connections in order: each once.
LEMMA InOrderLists ==
  ASSUME NEW S \in SUBSET Cids
  PROVE  /\ InOrder(S) \in Seq(S)
         /\ \A m, n \in DOMAIN InOrder(S) : InOrder(S)[m] = InOrder(S)[n] => m = n
<1> DEFINE Below(c) == {d \in S : d <= c}
           rank     == [c \in S |-> Cardinality(Below(c))]
           size     == Cardinality(S)
<1>1. IsFiniteSet(S) /\ size \in Nat
  <2>1. IsFiniteSet(Cids)
    BY GatewayBounds, FS_Interval DEF Cids
  <2>2. IsFiniteSet(S)
    BY <2>1, FS_Subset
  <2> QED
    BY <2>2, FS_CardinalityType
<1>2. \A c \in S : rank[c] \in 1 .. size
  <2> SUFFICES ASSUME NEW c \in S PROVE Cardinality(Below(c)) \in 1 .. size
    OBVIOUS
  <2>1. Below(c) \in SUBSET S /\ c \in Below(c)
    BY GatewayBounds DEF Cids
  <2> HIDE DEF Below
  <2>2. IsFiniteSet(Below(c)) /\ Cardinality(Below(c)) <= size
    BY <1>1, <2>1, FS_Subset
  <2>3. Cardinality(Below(c)) \in Nat /\ Cardinality(Below(c)) # 0
    BY <2>1, <2>2, FS_CardinalityType, FS_EmptySet
  <2> QED
    BY <1>1, <2>2, <2>3
<1>3. \A c, d \in S : rank[c] = rank[d] => c = d
  <2>1. \A c, d \in S : c < d => rank[c] # rank[d]
    <3> SUFFICES ASSUME NEW c \in S, NEW d \in S, c < d
                 PROVE  Cardinality(Below(c)) # Cardinality(Below(d))
      OBVIOUS
    <3>1. Below(d) \in SUBSET S /\ Below(c) \in SUBSET Below(d)
          /\ d \in Below(d) /\ d \notin Below(c)
      <4>1. S \subseteq Int
        BY GatewayBounds DEF Cids
      <4>2. Below(d) \in SUBSET S /\ d \in Below(d) /\ d \notin Below(c)
        BY <4>1
      <4>3. \A e \in S : e <= c => e <= d
        BY <4>1
      <4> QED
        BY <4>2, <4>3
    <3> HIDE DEF Below
    <3>2. IsFiniteSet(Below(d))
      BY <1>1, <3>1, FS_Subset
    <3> QED
      BY <3>1, <3>2, FS_Subset
  <2>2. \A c, d \in S : c \in Int /\ d \in Int
    BY GatewayBounds DEF Cids
  <2> HIDE DEF rank
  <2> QED
    BY <2>1, <2>2
<1> HIDE DEF size
<1>4. rank \in Injection(S, 1 .. size)
  <2>1. rank \in [S -> 1 .. size]
    BY <1>2
  <2> HIDE DEF rank
  <2> QED
    BY <1>3, <2>1 DEF Injection, IsInjective
<1>5. \A n \in 1 .. size : \E c \in S : rank[c] = n
  <2>1. IsFiniteSet(1 .. size) /\ Cardinality(1 .. size) = size
    <3>1. 1 \in Int /\ size \in Int
      BY <1>1
    <3>2. /\ IsFiniteSet(1 .. size)
          /\ Cardinality(1 .. size) = IF 1 > size THEN 0 ELSE size - 1 + 1
      BY <3>1, FS_Interval
    <3> QED
      BY <1>1, <3>2
  <2> HIDE DEF rank
  <2>2. rank \in Surjection(S, 1 .. size)
    BY <1>4, <2>1, FS_Injection DEF size
  <2> QED
    BY <2>2 DEF Surjection
<1>6. \A n \in 1 .. size : \E c \in S : Cardinality({d \in S : d <= c}) = n
  BY <1>5
<1>7. \A n \in 1 .. size :
        InOrder(S)[n] \in S /\ Cardinality({d \in S : d <= InOrder(S)[n]}) = n
  <2> SUFFICES ASSUME NEW n \in 1 .. size
               PROVE  /\ InOrder(S)[n] \in S
                      /\ Cardinality({d \in S : d <= InOrder(S)[n]}) = n
    OBVIOUS
  <2>1. InOrder(S)[n] = CHOOSE c \in S : Cardinality({d \in S : d <= c}) = n
    BY DEF InOrder, size
  <2>2. PICK c \in S : Cardinality({d \in S : d <= c}) = n
    BY <1>6
  <2> QED
    BY <2>1, <2>2
<1>8. DOMAIN InOrder(S) = 1 .. size
  BY DEF InOrder, size
<1>9. InOrder(S) \in [1 .. size -> S]
  <2>1. InOrder(S) = [n \in 1 .. size |-> InOrder(S)[n]]
    BY DEF InOrder, size
  <2> QED
    BY <1>7, <2>1
<1>10. InOrder(S) \in Seq(S)
  BY <1>1, <1>9
<1>11. \A n \in 1 .. size : rank[InOrder(S)[n]] = n
  BY <1>7
<1> HIDE DEF rank
<1> QED
  BY <1>8, <1>10, <1>11

Histories ==
  [got: [Cids -> SUBSET Nat], parked: SUBSET Items, overlap: BOOLEAN]

\* No handler begins or ends its flush.
StaysPut ==
  \A c \in Cids : \/ proc'[H(c)].at = proc[H(c)].at
                 \/ {proc[H(c)].at, proc'[H(c)].at} \cap {"none", "flush"} = {}

\* What most steps do to the queue: items are put into it, connections are
\* handed messages, and no handler begins or ends its flush.
Appends(added) ==
  /\ lists' = [lists EXCEPT ![queue] = @ \o added]
  /\ queue' = queue /\ flush' = flush
  /\ hist' \in Histories /\ hist'.overlap = hist.overlap
  /\ hist'.parked = hist.parked \cup Range(added)
  /\ \A c \in Cids : hist.got[c] \subseteq hist'.got[c]
  /\ StaysPut

\* The lists after it.
LEMMA AppendsLists ==
  ASSUME QueueOK, NEW added \in Seq(Items), Appends(added)
  PROVE  /\ lists' \in [Lists -> Seq(Items)]
         /\ \A l \in Lists : /\ Len(lists[l]) <= Len(lists'[l])
                             /\ \A n \in 1 .. Len(lists[l]) : lists'[l][n] = lists[l][n]
         /\ \A l \in Lists : l # queue => lists'[l] = lists[l]
         /\ Len(lists'[queue]) = Len(lists[queue]) + Len(added)
         /\ \A n \in 1 .. Len(added) : lists'[queue][Len(lists[queue]) + n] = added[n]
<1>1. lists \in [Lists -> Seq(Items)] /\ queue \in Lists
  BY DEF QueueOK
<1>2. lists[queue] \in Seq(Items)
  BY <1>1
<1> DEFINE longer == lists[queue] \o added
<1>3. /\ longer \in Seq(Items) /\ Len(longer) = Len(lists[queue]) + Len(added)
      /\ \A n \in 1 .. Len(longer) :
           longer[n] = IF n <= Len(lists[queue]) THEN lists[queue][n]
                       ELSE added[n - Len(lists[queue])]
  BY <1>2, ConcatProperties
<1>4. Len(lists[queue]) \in Nat /\ Len(added) \in Nat
  BY <1>2
<1>5. lists' = [lists EXCEPT ![queue] = longer]
  BY <1>1 DEF Appends
<1> HIDE DEF longer
<1>6. lists'[queue] = longer /\ \A l \in Lists : l # queue => lists'[l] = lists[l]
  BY <1>1, <1>5
<1>7. lists' \in [Lists -> Seq(Items)]
  BY <1>1, <1>3, <1>5
<1>8. /\ Len(lists[queue]) <= Len(longer)
      /\ \A n \in 1 .. Len(lists[queue]) : longer[n] = lists[queue][n]
      /\ \A n \in 1 .. Len(added) : longer[Len(lists[queue]) + n] = added[n]
  <2>1. ASSUME NEW n \in 1 .. Len(lists[queue])
        PROVE  longer[n] = lists[queue][n]
    <3>1. n \in 1 .. Len(longer) /\ n <= Len(lists[queue])
      BY <1>3, <1>4
    <3> QED
      BY <1>3, <3>1
  <2>2. ASSUME NEW n \in 1 .. Len(added)
        PROVE  longer[Len(lists[queue]) + n] = added[n]
    <3> DEFINE k == Len(lists[queue]) + n
    <3>1. /\ k \in 1 .. Len(longer) /\ ~(k <= Len(lists[queue]))
          /\ k - Len(lists[queue]) = n
      BY <1>3, <1>4
    <3> HIDE DEF k
    <3>2. longer[k] = added[k - Len(lists[queue])]
      BY <1>3, <3>1
    <3>3. longer[k] = added[n]
      BY <3>1, <3>2
    <3> QED
      BY <3>3 DEF k
  <2> QED
    BY <1>3, <1>4, <2>1, <2>2
<1>9. \A l \in Lists : Len(lists[l]) \in Nat
  BY <1>1
<1>10. ASSUME NEW l \in Lists
       PROVE  /\ Len(lists[l]) <= Len(lists'[l])
              /\ \A n \in 1 .. Len(lists[l]) : lists'[l][n] = lists[l][n]
  <2>1. CASE l = queue
    BY <1>6, <1>8, <2>1
  <2>2. CASE l # queue
    BY <1>6, <1>9, <2>2
  <2> QED
    BY <2>1, <2>2
<1> QED
  BY <1>3, <1>6, <1>7, <1>8, <1>10

\* It is in no handler's way.
LEMMA AppendsSettled ==
  ASSUME NEW added, Appends(added)
  PROVE  /\ Flushing' = Flushing
         /\ \A l \in Lists : Settled(l) => Settled(l)'
<1>1. \A c \in Cids : proc'[H(c)].at = proc[H(c)].at
                      \/ /\ proc[H(c)].at \notin {"none", "flush"}
                         /\ proc'[H(c)].at \notin {"none", "flush"}
  BY DEF Appends, StaysPut
<1>2. Flushing' = Flushing
  BY <1>1 DEF Flushing
<1>3. \A l \in Lists : Settled(l) => Settled(l)'
  BY <1>1 DEF Settled, Lists
<1> QED
  BY <1>2, <1>3

\* Handed of an item of this state, after the step: who was handed a message
\* stays so.
HandedThen(item) ==
  \E c \in Cids : item.target \in {Everyone, c} /\ item.id \in hist'.got[c]

\* What was handed over stays so.
LEMMA StaysHanded ==
  ASSUME \A c \in Cids : hist.got[c] \subseteq hist'.got[c], NEW item, Handed(item)
  PROVE  HandedThen(item)
BY DEF Handed, HandedThen

\* What is in a list is at a place of it.
LEMMA InList ==
  ASSUME NEW S, NEW list \in Seq(S), NEW item
  PROVE  item \in Range(list) <=> \E n \in 1 .. Len(list) : list[n] = item
BY DEF Range

\* The step keeps the invariant of the queue.
LEMMA AppendsKeeps ==
  ASSUME QueueOK, FlushInv, LostOnlyByOverlap,
         NEW added \in Seq(Items), Appends(added)
  PROVE  QueueOK' /\ FlushInv' /\ LostOnlyByOverlap'
<1>1. /\ lists \in [Lists -> Seq(Items)] /\ queue \in Lists
      /\ flush \in [Cids -> [from: Lists, i: Nat]]
      /\ \A c \in Flushing : c \in Cids /\ flush[c].from \in Lists
  BY DEF QueueOK, Flushing
<1>2. /\ queue' = queue /\ flush' = flush /\ hist' \in Histories
      /\ hist'.overlap = hist.overlap
      /\ hist'.parked = hist.parked \cup Range(added)
      /\ \A c \in Cids : hist.got[c] \subseteq hist'.got[c]
  BY DEF Appends
<1>3. Flushing' = Flushing /\ \A l \in Lists : Settled(l) => Settled(l)'
  BY AppendsSettled
<1>4. \A l \in Lists : Len(lists[l]) \in Nat /\ Len(lists'[l]) \in Nat
  BY <1>1, AppendsLists
<1>5. QueueOK'
  <2>1. ASSUME NEW c \in Flushing
        PROVE  /\ Settled(flush[c].from)'
               /\ flush[c].i \in 1 .. Len(lists'[flush[c].from])
               /\ lists'[flush[c].from][flush[c].i].target \in {Everyone, c}
    <3>1. /\ flush[c].from \in Lists /\ Settled(flush[c].from)
          /\ flush[c].i \in 1 .. Len(lists[flush[c].from])
          /\ lists[flush[c].from][flush[c].i].target \in {Everyone, c}
      BY <1>1 DEF QueueOK
    <3>2. Settled(flush[c].from)'
      BY <1>2, <1>3, <3>1
    <3>3. flush[c].i \in 1 .. Len(lists'[flush[c].from])
      BY <1>4, <3>1, AppendsLists
    <3>4. lists'[flush[c].from][flush[c].i] = lists[flush[c].from][flush[c].i]
      BY <3>1, AppendsLists
    <3> QED
      BY <3>1, <3>2, <3>3, <3>4
  <2>2. Settled(queue)' /\ lists' \in [Lists -> Seq(Items)]
    BY <1>1, <1>2, <1>3, AppendsLists DEF QueueOK
  <2> QED
    BY <1>1, <1>2, <1>3, <2>1, <2>2 DEF QueueOK, Histories
<1>6. ASSUME NEW l \in Lists, NEW item \in Range(lists[l])
      PROVE  item \in Range(lists'[l])
  <2>1. PICK n \in 1 .. Len(lists[l]) : lists[l][n] = item
    BY <1>1, InList
  <2>2. n \in 1 .. Len(lists'[l]) /\ lists'[l][n] = item
    BY <1>4, <2>1, AppendsLists
  <2>3. lists'[l] \in Seq(Items)
    BY AppendsLists
  <2> QED
    BY <2>2, <2>3, InList
<1>7. \A item : Handed(item) => HandedThen(item)
  BY <1>2, StaysHanded
<1>8. FlushInv'
  <2> SUFFICES ASSUME ~hist.overlap, NEW c \in Flushing
               PROVE  /\ Flushing = {c} /\ flush[c].from = queue
                      /\ \A j \in 1 .. (flush[c].i - 1) :
                           \/ HandedThen(lists'[queue][j])
                           \/ lists'[queue][j] \in Range(lists'[c])
    BY <1>2, <1>3 DEF FlushInv, Handed, HandedThen
  <2>1. /\ Flushing = {c} /\ flush[c].from = queue
        /\ \A j \in 1 .. (flush[c].i - 1) :
             Handed(lists[queue][j]) \/ lists[queue][j] \in Range(lists[c])
    BY DEF FlushInv
  <2>2. c \in Lists /\ flush[c].i \in 1 .. Len(lists[queue])
    BY <2>1 DEF QueueOK, Flushing, Lists
  <2>3. ASSUME NEW j \in 1 .. (flush[c].i - 1)
        PROVE  \/ HandedThen(lists'[queue][j])
               \/ lists'[queue][j] \in Range(lists'[c])
    <3>1. j \in 1 .. Len(lists[queue])
      BY <1>1, <1>4, <2>2
    <3>2. lists'[queue][j] = lists[queue][j]
      BY <1>1, <3>1, AppendsLists
    <3>3. Handed(lists[queue][j]) \/ lists[queue][j] \in Range(lists[c])
      BY <2>1
    <3>4. CASE Handed(lists[queue][j])
      BY <1>7, <3>2, <3>4
    <3>5. CASE lists[queue][j] \in Range(lists[c])
      BY <1>6, <2>2, <3>2, <3>5
    <3> QED
      BY <3>3, <3>4, <3>5
  <2> QED
    BY <2>1, <2>3
<1>9. LostOnlyByOverlap'
  <2> SUFFICES ASSUME ~hist.overlap, NEW item \in hist'.parked
               PROVE  item \in Range(lists'[queue]) \/ HandedThen(item)
    BY <1>2 DEF LostOnlyByOverlap, Handed, HandedThen
  <2>1. CASE item \in hist.parked
    BY <1>1, <1>6, <1>7, <2>1 DEF LostOnlyByOverlap
  <2>2. CASE item \in Range(added)
    <3>1. PICK n \in 1 .. Len(added) : added[n] = item
      BY <2>2, InList
    <3>2. lists'[queue][Len(lists[queue]) + n] = item
      BY <3>1, AppendsLists
    <3>3. Len(lists[queue]) + n \in 1 .. Len(lists'[queue])
      <4>1. Len(lists'[queue]) = Len(lists[queue]) + Len(added)
        BY AppendsLists
      <4> QED
        BY <1>1, <1>4, <3>1, <4>1
    <3>4. lists'[queue] \in Seq(Items)
      BY <1>1, AppendsLists
    <3> QED
      BY <3>2, <3>3, <3>4, InList
  <2> QED
    BY <1>2, <2>1, <2>2
<1> QED
  BY <1>5, <1>8, <1>9

(* Which steps do that. *)

\* A task moves that is no handler, or one outside its flush.
LEMMA MoveStaysPut ==
  ASSUME Registry, NEW p \in Procs, NEW next,
         p \in Handlers => {proc[p].at, next.at} \cap {"none", "flush"} = {},
         proc' = [proc EXCEPT ![p] = next]
  PROVE  StaysPut
<1>1. /\ proc'[p] = next
      /\ \A q \in Procs : q # p => proc'[q] = proc[q]
  BY DEF Registry, ConnectionsOK
<1> SUFFICES ASSUME NEW c \in Cids
             PROVE  \/ proc'[H(c)].at = proc[H(c)].at
                    \/ {proc[H(c)].at, proc'[H(c)].at} \cap {"none", "flush"} = {}
  BY DEF StaysPut
<1>2. H(c) \in Procs /\ H(c) \in Handlers
  BY HandlersAreProcs
<1>3. CASE H(c) = p
  BY <1>1, <1>2, <1>3
<1>4. CASE H(c) # p
  BY <1>1, <1>2, <1>4
<1> QED
  BY <1>3, <1>4

\* Nothing is queued.
LEMMA QuietAppends ==
  ASSUME QueueOK, UNCHANGED <<lists, queue, flush, hist>>, StaysPut
  PROVE  \E added \in Seq(Items) : Appends(added)
<1>1. lists[queue] \in Seq(Items) /\ queue \in Lists /\ lists \in [Lists -> Seq(Items)]
  BY DEF QueueOK
<1>2. <<>> \in Seq(Items) /\ lists[queue] \o <<>> = lists[queue]
  BY <1>1, EmptySeq, ConcatEmptySeq
<1>3. Range(<<>>) = {}
  BY DEF Range
<1>4. lists' = [lists EXCEPT ![queue] = @ \o <<>>]
  BY <1>1, <1>2
<1>5. hist' \in Histories
  BY DEF QueueOK, Histories
<1>6. hist'.parked = hist.parked \cup Range(<<>>)
  BY <1>3
<1>7. Appends(<<>>)
  BY <1>4, <1>5, <1>6 DEF Appends
<1> QED
  BY <1>2, <1>7

\* One item is queued.
LEMMA OneAppends ==
  ASSUME QueueOK, NEW item \in Items, StaysPut,
         lists' = [lists EXCEPT ![queue] = Append(@, item)],
         hist' = [hist EXCEPT !.parked = @ \cup {item}],
         UNCHANGED <<queue, flush>>
  PROVE  Appends(<<item>>)
<1>1. lists[queue] \in Seq(Items) /\ queue \in Lists /\ lists \in [Lists -> Seq(Items)]
  BY DEF QueueOK
<1>2. <<item>> \in Seq(Items) /\ Append(lists[queue], item) = lists[queue] \o <<item>>
  BY <1>1, AppendIsConcat
<1>3. Range(<<item>>) = {item}
  BY DEF Range
<1>4. lists' = [lists EXCEPT ![queue] = @ \o <<item>>]
  BY <1>1, <1>2
<1>5. hist \in Histories
  BY DEF QueueOK, Histories
<1>6. /\ hist' \in Histories /\ hist'.overlap = hist.overlap
      /\ hist'.got = hist.got /\ hist'.parked = hist.parked \cup {item}
  BY <1>5 DEF Histories
<1> QED
  BY <1>3, <1>4, <1>6 DEF Appends

\* The connections GoThrough passes, and what it queues.
Passed(out) == {c \in out : \A d \in out : d <= c => ~Stops(d)}
Parks(out, id) ==
  LET sorted == InOrder(IF id = 0 THEN {} ELSE Passed(out))
  IN  [n \in DOMAIN sorted |-> Requeued(id, sorted[n])]

\* It is one item for each connection that was found closed, in order.
LEMMA ParksLists ==
  ASSUME NEW id \in Nat, NEW out \in SUBSET Cids
  PROVE  /\ Parks(out, id) \in Seq(Items)
         /\ \E sorted \in Seq(Passed(out)) :
              /\ id # 0 \/ sorted = <<>>
              /\ Len(Parks(out, id)) = Len(sorted)
              /\ \A n \in 1 .. Len(sorted) : Parks(out, id)[n] = Item(id, sorted[n])
              /\ \A m, n \in 1 .. Len(sorted) : sorted[m] = sorted[n] => m = n
<1> DEFINE queued == IF id = 0 THEN {} ELSE Passed(out)
           sorted == InOrder(queued)
<1>1. Parks(out, id) = [n \in DOMAIN sorted |-> Requeued(id, sorted[n])]
  BY DEF Parks
<1>2. queued \in SUBSET Cids /\ queued \subseteq Passed(out)
  BY DEF Passed
<1>3. id = 0 => queued = {}
  OBVIOUS
<1> HIDE DEF queued
<1>4. /\ sorted \in Seq(queued)
      /\ \A m, n \in DOMAIN sorted : sorted[m] = sorted[n] => m = n
  BY <1>2, InOrderLists
<1> HIDE DEF sorted
<1>5. /\ DOMAIN sorted = 1 .. Len(sorted) /\ Len(sorted) \in Nat
      /\ \A n \in 1 .. Len(sorted) : sorted[n] \in queued
  BY <1>4, LenProperties
<1>6. id = 0 => sorted = <<>>
  <2>1. id = 0 => Len(sorted) = 0
    BY <1>3, <1>5
  <2> QED
    BY <1>4, <2>1
<1>7. \A n \in 1 .. Len(sorted) :
        /\ Requeued(id, sorted[n]) = Item(id, sorted[n])
        /\ Requeued(id, sorted[n]) \in Items
  <2> SUFFICES ASSUME NEW n \in 1 .. Len(sorted)
               PROVE  Item(id, sorted[n]) \in Items
    BY DEF Requeued
  <2>1. sorted[n] \in Lists /\ id \in Nat \ {0}
    BY <1>2, <1>3, <1>5 DEF Lists
  <2> QED
    BY <2>1 DEF Items, Item
<1>8. Parks(out, id) \in [1 .. Len(sorted) -> Items]
  BY <1>1, <1>5, <1>7
<1>9. Parks(out, id) \in Seq(Items) /\ Len(Parks(out, id)) = Len(sorted)
  BY <1>5, <1>8
<1>10. \A n \in 1 .. Len(sorted) : Parks(out, id)[n] = Item(id, sorted[n])
  BY <1>1, <1>5, <1>7
<1>11. sorted \in Seq(Passed(out))
  BY <1>2, <1>4, SeqMonotonic
<1> QED
  BY <1>4, <1>5, <1>6, <1>9, <1>10, <1>11

\* Where a task that goes through connections is afterwards, and whom its
\* message has still to reach.
Goes(p, next, id, out, after) ==
  /\ proc' = [proc EXCEPT ![p] = after]
  /\ \/ after.at = next.at /\ after.k = next.k
     \/ after.at = IF p = Main THEN "crashed" ELSE "over"
  /\ after.out \subseteq out \ Passed(out)
  /\ after.out # {} => after.id = id

\* A task that goes through the connections does that.
LEMMA GoThroughMoves ==
  ASSUME NEW p, NEW next \in TaskStates, NEW id \in Nat, NEW out \in SUBSET Cids,
         NEW got, GoThrough(p, next, out, id, got)
  PROVE  \E after : Goes(p, next, id, out, after)
<1> DEFINE rest   == out \ Passed(out)
           raises == rest # {} /\ link[Min(rest)] # "up"
           after  == IF raises THEN Task(IF p = Main THEN "crashed" ELSE "over")
                     ELSE [next EXCEPT !.out = rest,
                                       !.id = IF rest = {} THEN 0 ELSE id]
<1>1. proc' = [proc EXCEPT ![p] = after]
  BY DEF GoThrough, Passed
<1>2. CASE raises
  <2>1. /\ after.at = IF p = Main THEN "crashed" ELSE "over"
        /\ after.out = {}
    BY <1>2, TaskIsProc DEF Places
  <2> HIDE DEF after
  <2> QED
    BY <1>1, <2>1 DEF Goes
<1>3. CASE ~raises
  <2>1. rest \in SUBSET Cids /\ (IF rest = {} THEN 0 ELSE id) \in Nat
    OBVIOUS
  <2>2. after = [next EXCEPT !.out = rest, !.id = IF rest = {} THEN 0 ELSE id]
    BY <1>3
  <2>3. rest = out \ Passed(out)
    OBVIOUS
  <2> HIDE DEF rest, raises, after
  <2>4. /\ after.at = next.at /\ after.k = next.k /\ after.out = rest
        /\ after.id = IF rest = {} THEN 0 ELSE id
    BY <2>1, <2>2 DEF TaskStates
  <2> QED
    BY <1>1, <2>3, <2>4 DEF Goes
<1> QED
  BY <1>2, <1>3

\* A task that goes through any connections.
LEMMA GoThroughAppends ==
  ASSUME Registry, QueueOK, NEW p \in Procs, NEW next \in TaskStates, NEW id \in Nat,
         NEW out \in SUBSET Cids, NEW got \in [Cids -> SUBSET Nat],
         \A c \in Cids : hist.got[c] \subseteq got[c],
         p \in Handlers => next.at = "boot" /\ proc[p].at = "boot",
         GoThrough(p, next, out, id, got), UNCHANGED <<queue, flush>>
  PROVE  Appends(Parks(out, id))
<1>1. /\ lists' = [lists EXCEPT ![queue] = @ \o Parks(out, id)]
      /\ hist' = [hist EXCEPT !.got = got, !.parked = @ \cup Range(Parks(out, id))]
  BY DEF GoThrough, Parks, Passed
<1>2. PICK after : /\ proc' = [proc EXCEPT ![p] = after]
                   /\ p \in Handlers => after.at \in {"boot", "over"}
  <2>1. PICK after : Goes(p, next, id, out, after)
    BY GoThroughMoves
  <2> QED
    BY <2>1, HandlersAreProcs DEF Goes
<1>3. StaysPut
  BY <1>2, MoveStaysPut
<1>4. Parks(out, id) \in Seq(Items)
  BY ParksLists
<1>5. Range(Parks(out, id)) \subseteq Items
  <2>1. \A n \in DOMAIN Parks(out, id) : Parks(out, id)[n] \in Items
    BY <1>4, LenProperties, ElementOfSeq
  <2> QED
    BY <2>1 DEF Range
<1>6. hist \in Histories
  BY DEF QueueOK, Histories
<1>7. /\ hist'.got = got /\ hist'.overlap = hist.overlap
      /\ hist'.parked = hist.parked \cup Range(Parks(out, id))
      /\ hist' \in Histories
  BY <1>1, <1>5, <1>6 DEF Histories
<1> QED
  BY <1>1, <1>3, <1>7 DEF Appends

\* A message that is sent or queued.
LEMMA SendToAppends ==
  ASSUME Registry, QueueOK, NEW p \in Procs, NEW next \in TaskStates, NEW id \in Nat,
         NEW target \in {Everyone} \cup Cids, target = Everyone \/ id # 0,
         p \in Handlers => next.at = "boot" /\ proc[p].at = "boot",
         SendTo(p, next, id, target), UNCHANGED <<queue, flush>>
  PROVE  \E added \in Seq(Items) : Appends(added)
<1>1. CASE target # Everyone /\ target \notin ESP32s
  <2>1. /\ lists' = [lists EXCEPT ![queue] = Append(@, Item(id, target))]
        /\ hist' = [hist EXCEPT !.parked = @ \cup {Item(id, target)}]
        /\ proc' = [proc EXCEPT ![p] = next]
    BY <1>1 DEF SendTo
  <2>2. Item(id, target) \in Items
    BY <1>1 DEF Items, Item, Lists, Everyone
  <2>3. StaysPut
    BY <2>1, MoveStaysPut
  <2>4. <<Item(id, target)>> \in Seq(Items)
    BY <2>2
  <2> QED
    BY <2>1, <2>2, <2>3, <2>4, OneAppends
<1>2. CASE ~(target # Everyone /\ target \notin ESP32s)
  <2> DEFINE out == IF target # Everyone THEN {target} ELSE ESP32s
  <2>1. GoThrough(p, next, out, id, hist.got)
    BY <1>2 DEF SendTo
  <2>2. out \in SUBSET Cids
    BY <1>2 DEF Registry, ConnectionsOK
  <2>3. hist.got \in [Cids -> SUBSET Nat]
    BY DEF QueueOK
  <2> HIDE DEF out
  <2>4. Appends(Parks(out, id))
    BY <2>1, <2>2, <2>3, GoThroughAppends
  <2> QED
    BY <2>2, <2>4, ParksLists
<1> QED
  BY <1>1, <1>2

\* The same while nobody is connected.
LEMMA UpdateDisplayAppends ==
  ASSUME Registry, QueueOK, NEW p \in Procs, p \notin Handlers,
         NEW next \in TaskStates, NEW id \in Nat \ {0},
         NEW target \in {Everyone} \cup Cids,
         UpdateDisplay(p, next, id, target), UNCHANGED <<queue, flush>>
  PROVE  \E added \in Seq(Items) : Appends(added)
<1>1. CASE ESP32s # {}
  BY <1>1, SendToAppends DEF UpdateDisplay
<1>2. CASE ESP32s = {}
  <2>1. /\ lists' = [lists EXCEPT ![queue] = Append(@, Item(id, target))]
        /\ hist' = [hist EXCEPT !.parked = @ \cup {Item(id, target)}]
        /\ proc' = [proc EXCEPT ![p] = next]
    BY <1>2 DEF UpdateDisplay
  <2>2. Item(id, target) \in Items
    BY DEF Items, Item, Lists, Everyone
  <2>3. StaysPut
    BY <2>1, MoveStaysPut
  <2>4. <<Item(id, target)>> \in Seq(Items)
    BY <2>2
  <2> QED
    BY <2>1, <2>2, <2>3, <2>4, OneAppends
<1> QED
  BY <1>1, <1>2

\* A broadcast or a message goes on after one send.
LEMMA SendResumesAppends ==
  ASSUME IInv, QueueOK, NEW p \in Procs, SendResumes(p)
  PROVE  \E added \in Seq(Items) : Appends(added)
<1>1. Registry
  BY TwoParts
<1>2. proc[p] \in TaskStates /\ proc[p].id \in Nat /\ proc[p].out \in SUBSET Cids
  BY <1>1 DEF Registry, ConnectionsOK, TaskStates
<1>3. p \in Handlers => proc[p].at = "boot"
  BY <1>1, HandlersAreProcs DEF Registry, ConnectionsOK, HandlersInPlace, SendResumes
<1>4. hist.got \in [Cids -> SUBSET Nat]
  BY DEF QueueOK
<1> DEFINE c   == Min(proc[p].out)
           up  == link[c] = "up"
           out == IF up THEN proc[p].out \ {c} ELSE proc[p].out
           got == IF up THEN [hist.got EXCEPT ![c] = @ \cup ({proc[p].id} \ {0})]
                  ELSE hist.got
<1>5. GoThrough(p, proc[p], out, proc[p].id, got) /\ UNCHANGED <<queue, flush>>
  BY DEF SendResumes
<1>6. out \in SUBSET Cids
  BY <1>2
<1>7. got \in [Cids -> SUBSET Nat] /\ \A d \in Cids : hist.got[d] \subseteq got[d]
  <2> HIDE DEF c, up
  <2>1. \A h \in [Cids -> SUBSET Nat], more \in SUBSET Nat :
          /\ [h EXCEPT ![c] = @ \cup more] \in [Cids -> SUBSET Nat]
          /\ \A d \in Cids : h[d] \subseteq [h EXCEPT ![c] = @ \cup more][d]
    OBVIOUS
  <2>2. {proc[p].id} \ {0} \in SUBSET Nat
    BY <1>2
  <2> QED
    BY <1>4, <2>1, <2>2
<1> HIDE DEF c, up, out, got
<1>8. Appends(Parks(out, proc[p].id))
  BY <1>1, <1>2, <1>3, <1>5, <1>6, <1>7, GoThroughAppends
<1> QED
  BY <1>2, <1>6, <1>8, ParksLists

\* Where it is after a message was sent or queued.
LEMMA SendToMoves ==
  ASSUME Registry, NEW p \in Procs, NEW next \in TaskStates, NEW id \in Nat,
         NEW target \in {Everyone} \cup Cids,
         \/ SendTo(p, next, id, target)
         \/ UpdateDisplay(p, next, id, target)
  PROVE  /\ \A q \in Procs : q # p => proc'[q] = proc[q]
         /\ \/ proc'[p].at = next.at /\ proc'[p].k = next.k
            \/ proc'[p].at = IF p = Main THEN "crashed" ELSE "over"
<1>1. PICK after :
        /\ proc' = [proc EXCEPT ![p] = after]
        /\ \/ after.at = next.at /\ after.k = next.k
           \/ after.at = IF p = Main THEN "crashed" ELSE "over"
  <2>1. CASE proc' = [proc EXCEPT ![p] = next]
    BY <2>1
  <2>2. CASE proc' # [proc EXCEPT ![p] = next]
    <3> DEFINE out == IF target # Everyone THEN {target} ELSE ESP32s
    <3>1. GoThrough(p, next, out, id, hist.got)
          /\ ~(target # Everyone /\ target \notin ESP32s)
      BY <2>2 DEF SendTo, UpdateDisplay
    <3>2. out \in SUBSET Cids
      BY <3>1 DEF Registry, ConnectionsOK
    <3> HIDE DEF out
    <3>3. PICK after : Goes(p, next, id, out, after)
      BY <3>1, <3>2, GoThroughMoves
    <3> QED
      BY <3>3 DEF Goes
  <2> QED
    BY <2>1, <2>2
<1> QED
  BY <1>1 DEF Registry, ConnectionsOK

(* The steps: ids are given in order, and commands are executed once. *)

\* Main is where it was, or elsewhere, and its inputs stay.
MainStays ==
  /\ UNCHANGED <<file, source, given>>
  /\ \/ proc'[Main].at = proc[Main].at /\ proc'[Main].k = proc[Main].k
     \/ proc'[Main].at = "crashed" /\ ~At(Main, "idle")
     \/ /\ proc'[Main].at \notin {"idle", "frames", "ota"}
        /\ source = "file" => proc[Main].at \notin {"idle", "crashed"}

\* Then no id is given and none is used.
LEMMA IdsStay ==
  ASSUME IdsInv, MainStays
  PROVE  IdsInv'
BY DEF IdsInv, Unread, MainStays

\* The steps of the other tasks.
LEMMA TasksLeaveMain ==
  ASSUME IInv,
         \/ \E p \in Procs : TaskStep(p)
         \/ \E a \in Anims : Animate(a)
  PROVE  MainStays
<1>1. Registry /\ proc[Main] \in TaskStates /\ Main \in Procs
  BY TwoParts, HandlersAreProcs DEF Registry, ConnectionsOK
<1>2. /\ \A at \in Places : Task(at) \in TaskStates /\ Task(at).at = at
      /\ {"remove", "dots", "over", "serve"} \subseteq Places
  BY TaskIsProc DEF Places
<1>3. ASSUME NEW p \in Procs, SendResumes(p) PROVE MainStays
  <2>1. PICK out \in SUBSET Cids : \E got : GoThrough(p, proc[p], out, proc[p].id, got)
    <3>1. proc[p].out \in SUBSET Cids
      BY <1>1 DEF Registry, ConnectionsOK, TaskStates
    <3> QED
      BY <1>3, <3>1 DEF SendResumes
  <2>2. proc[p] \in TaskStates /\ proc[p].id \in Nat
    BY <1>1 DEF Registry, ConnectionsOK, TaskStates
  <2>3. PICK after : Goes(p, proc[p], proc[p].id, out, after)
    BY <2>1, <2>2, GoThroughMoves
  <2>4. \/ proc'[Main].at = proc[Main].at /\ proc'[Main].k = proc[Main].k
        \/ proc'[Main].at = "crashed" /\ p = Main
    BY <1>1, <2>3 DEF Registry, ConnectionsOK, Goes
  <2> QED
    BY <1>3, <2>4 DEF SendResumes, MainStays, At
<1>4. ASSUME NEW p \in Procs, BootStep(p) PROVE MainStays
  <2>1. proc[p] \in TaskStates /\ proc[p].at = "boot"
    BY <1>1, <1>4 DEF Registry, ConnectionsOK, BootStep, At
  <2>2. \/ proc'[Main] = proc[Main]
        \/ proc'[Main].at \in {"remove", "boot", "crashed"} /\ p = Main
    <3>1. CASE proc' = [proc EXCEPT ![p] = Task(IF p = Main THEN "remove" ELSE "serve")]
      BY <1>1, <1>2, <3>1 DEF Registry, ConnectionsOK
    <3>2. CASE ~(proc[p].k = 0 \/ ESP32s = {})
      <4> DEFINE next == [proc[p] EXCEPT !.k = @ - 1]
      <4>1. SendTo(p, next, 0, Everyone)
        BY <1>4, <3>2 DEF BootStep
      <4>2. next \in TaskStates /\ next.at = "boot"
        BY <2>1, <3>2 DEF TaskStates
      <4> HIDE DEF next
      <4> QED
        BY <1>1, <4>1, <4>2, SendToMoves DEF Everyone
    <3> QED
      BY <1>4, <3>1, <3>2 DEF BootStep
  <2> QED
    BY <1>4, <2>1, <2>2 DEF BootStep, MainStays, At
<1>5. ASSUME NEW p \in Procs, SetWaiting(p) PROVE MainStays
  <2>1. PICK a \in Anims :
          proc' = [proc EXCEPT ![p] = Task("remove"), ![a] = Task("dots")]
    BY <1>5 DEF SetWaiting
  <2>2. a # Main /\ a \in Procs
    BY HandlersAreProcs DEF Anims, Main
  <2>3. proc'[Main] = proc[Main] \/ (proc'[Main].at = "remove" /\ p = Main)
    BY <1>1, <1>2, <2>1, <2>2 DEF Registry, ConnectionsOK
  <2> QED
    BY <1>5, <2>3 DEF SetWaiting, MainStays, At
<1>6. ASSUME NEW a \in Anims, Animate(a) PROVE MainStays
  <2>1. a # Main /\ a \in Procs /\ proc[a] \in TaskStates
    BY <1>1, HandlersAreProcs DEF Anims, Main, Registry, ConnectionsOK
  <2>2. proc'[Main] = proc[Main]
    <3>1. CASE SendTo(a, proc[a], 0, Everyone)
      BY <1>1, <2>1, <3>1, SendToMoves DEF Everyone
    <3>2. CASE proc' = [proc EXCEPT ![a] = Task("over")]
      BY <1>1, <2>1, <3>2 DEF Registry, ConnectionsOK
    <3> QED
      BY <1>6, <3>1, <3>2 DEF Animate
  <2> QED
    BY <1>6, <2>2 DEF Animate, MainStays
<1> QED
  BY <1>3, <1>4, <1>5, <1>6 DEF TaskStep

\* A command that is read has an id, and frames another.
LEMMA ReadIds ==
  ASSUME IInv, IdsInv, ReadCommand
  PROVE  /\ file.id \in Nat \ {0} /\ file.target \in {Everyone} \cup Cids
         /\ given.ids \in Nat /\ file.id <= given.ids
         /\ file.kind = "frames" => file.id + 1 <= given.ids
<1>1. /\ file.id \in Nat /\ file.target \in {Everyone} \cup Cids /\ given.ids \in Nat
      /\ given.read \in BOOLEAN
  BY DEF IInv, TypeOK, OthersOK
<1>2. Unread
  BY DEF ReadCommand, At, IdsInv, Unread
<1> QED
  BY <1>1, <1>2 DEF IdsInv, LastId

\* Where a command that is read leaves main.
LEMMA ReadMoves ==
  ASSUME IInv, IdsInv, ReadCommand
  PROVE  \/ proc'[Main].at \in {"remove", "setwait", "ended", "boot", "crashed"}
         \/ /\ proc'[Main].at = "frames" /\ proc'[Main].k = file.id + 1
            /\ file.kind = "frames"
<1>1. Registry /\ Main \in Procs
  BY TwoParts, HandlersAreProcs
<1>2. /\ \A at \in Places : Task(at) \in TaskStates /\ Task(at).at = at
      /\ {"remove", "setwait", "ended", "frames", "boot"} \subseteq Places
  BY TaskIsProc DEF Places
<1>3. CASE UpdateDisplay(Main, Task("remove"), file.id, file.target)
  BY <1>1, <1>2, <1>3, ReadIds, SendToMoves
<1>4. CASE /\ file.kind = "frames"
           /\ SendTo(Main, [Task("frames") EXCEPT !.k = file.id + 1],
                     file.id, file.target)
  <2> DEFINE next == [Task("frames") EXCEPT !.k = file.id + 1]
  <2>1. next \in TaskStates /\ next.at = "frames" /\ next.k = file.id + 1
    BY <1>2, ReadIds DEF TaskStates
  <2>2. SendTo(Main, next, file.id, file.target)
    BY <1>4
  <2> HIDE DEF next
  <2> QED
    BY <1>1, <1>4, <2>1, <2>2, ReadIds, SendToMoves
<1>5. CASE proc' = [proc EXCEPT ![Main] = Task("setwait")]
  BY <1>1, <1>2, <1>5 DEF Registry, ConnectionsOK
<1>6. CASE BeginRestore(Main, "remove")
  <2>1. [Task("boot") EXCEPT !.k = Letters].at = "boot"
    BY <1>2 DEF TaskStates
  <2>2. CASE proc' = [proc EXCEPT ![Main] = Task("remove")]
    BY <1>1, <1>2, <2>2 DEF Registry, ConnectionsOK
  <2>3. CASE proc' = [proc EXCEPT ![Main] = [Task("boot") EXCEPT !.k = Letters]]
    BY <1>1, <2>1, <2>3 DEF Registry, ConnectionsOK
  <2> QED
    BY <1>6, <2>2, <2>3 DEF BeginRestore
<1>7. CASE proc' = [proc EXCEPT ![Main] = Task("ended")]
  BY <1>1, <1>2, <1>7 DEF Registry, ConnectionsOK
<1> QED
  BY <1>3, <1>4, <1>5, <1>6, <1>7 DEF ReadCommand, Execute

\* main reads a command, and only once.
LEMMA IdsOfRead ==
  ASSUME IInv, IdsInv, ReadCommand
  PROVE  IdsInv'
<1>1. Registry /\ OthersOK /\ Main \in Procs
  BY TwoParts, HandlersAreProcs
<1>2. /\ given' = [given EXCEPT !.read = TRUE] /\ UNCHANGED <<file, source>>
      /\ given \in [ids: Nat, anims: Nat, read: BOOLEAN, late: BOOLEAN]
  BY <1>1 DEF ReadCommand, OthersOK
<1>3. given'.ids = given.ids /\ given'.read /\ ~Unread'
  BY <1>2 DEF Unread
<1>4. \/ proc'[Main].at \in {"remove", "setwait", "ended", "boot", "crashed"}
      \/ /\ proc'[Main].at = "frames" /\ proc'[Main].k = file.id + 1
         /\ file.kind = "frames"
  BY ReadMoves
<1>5. proc'[Main].at # "idle" /\ proc'[Main].at # "ota"
  BY <1>4
<1>6. proc'[Main].at \in {"frames", "ota"} => proc'[Main].k \in 1 .. given.ids
  BY <1>4, ReadIds
<1>7. /\ given.ids <= MaxMsgs
      /\ file # NoFile => source = "file"
  BY DEF IdsInv
<1> QED
  BY <1>2, <1>3, <1>5, <1>6, <1>7 DEF IdsInv

\* main goes on with a command or a line, or removes the file.
LEMMA IdsOfMain ==
  ASSUME IInv, IdsInv,
         NextFrame \/ StdinOta \/ RemoveCommand \/ StdinEnds
  PROVE  IdsInv'
<1>1. Registry /\ OthersOK /\ Main \in Procs /\ proc[Main].k \in Nat
  BY TwoParts, HandlersAreProcs DEF Registry, ConnectionsOK, TaskStates
<1>2. /\ \A at \in Places : Task(at) \in TaskStates /\ Task(at).at = at
      /\ {"remove", "idle", "parked"} \subseteq Places
  BY TaskIsProc DEF Places
<1>3. CASE NextFrame
  <2>1. proc'[Main].at \in {"remove", "crashed"}
    BY <1>1, <1>2, <1>3, SendToMoves DEF NextFrame, Everyone
  <2> QED
    BY <1>3, <2>1, IdsStay DEF NextFrame, MainStays, At
<1>4. CASE StdinOta
  <2>1. proc'[Main].at \in {"idle", "crashed"}
    BY <1>1, <1>2, <1>4, SendToMoves DEF StdinOta, Everyone
  <2>2. source = "stdin" /\ file = NoFile /\ UNCHANGED <<file, source, given>>
    BY <1>4 DEF StdinOta, At, IdsInv
  <2>3. given.ids <= MaxMsgs
    BY DEF IdsInv
  <2> QED
    BY <2>1, <2>2, <2>3 DEF IdsInv, Unread
<1>5. CASE RemoveCommand
  <2>1. proc'[Main].at = "idle" /\ file' = NoFile /\ given' = given
    BY <1>1, <1>2, <1>5 DEF RemoveCommand, Registry, ConnectionsOK
  <2> QED
    BY <2>1 DEF IdsInv, Unread
<1>6. CASE StdinEnds
  <2>1. proc'[Main].at = "parked"
    BY <1>1, <1>2, <1>6 DEF StdinEnds, Registry, ConnectionsOK
  <2> QED
    BY <1>6, <2>1, IdsStay DEF StdinEnds, MainStays
<1> QED
  BY <1>3, <1>4, <1>5, <1>6

\* A command or a line comes in, with ids of its own.
LEMMA IdsOfInput ==
  ASSUME IInv, IdsInv, WriteCommand \/ StdinLine
  PROVE  IdsInv'
<1>1. Registry /\ OthersOK /\ Main \in Procs
  BY TwoParts, HandlersAreProcs
<1>2. /\ given \in [ids: Nat, anims: Nat, read: BOOLEAN, late: BOOLEAN] /\ given.ids \in Nat
      /\ MaxMsgs \in Nat
  BY <1>1, GatewayBounds DEF OthersOK
<1>3. CASE WriteCommand
  <2>1. PICK kind \in Kinds, target \in {Everyone} \cup Cids, n \in {1, 2}, a \in {0, 1} :
          /\ n = IF kind = "frames" THEN 2 ELSE 1
          /\ given.ids + n <= MaxMsgs
          /\ file' = [kind |-> kind, target |-> target, id |-> given.ids + 1]
          /\ given' = [given EXCEPT !.ids = @ + n, !.anims = @ + a, !.read = FALSE,
                                 !.late = proc[Main].at # "idle"]
    BY <1>3 DEF WriteCommand, May, Fresh
  <2>2. /\ given'.ids = given.ids + n /\ ~given'.read
        /\ given'.late = (proc[Main].at # "idle")
    BY <1>2, <2>1
  <2>3. /\ file'.kind = kind /\ file'.id = given.ids + 1
        /\ proc' = proc /\ source' = source /\ source = "file"
    BY <1>3, <2>1 DEF WriteCommand
  <2>4. proc[Main].at \in {"frames", "ota"} => proc[Main].k \in 1 .. given.ids
    BY DEF IdsInv
  <2>5. given'.ids <= MaxMsgs
    BY <2>1, <2>2
  <2>6. file'.id >= 1 /\ LastId(file') <= given'.ids
    BY <1>2, <2>1, <2>2, <2>3 DEF LastId
  <2>7. proc'[Main].at \in {"frames", "ota"} =>
          proc'[Main].k \in 1 .. given'.ids /\ proc'[Main].k < file'.id
    BY <1>2, <2>1, <2>2, <2>3, <2>4
  <2>8. LastId(file)' = LastId(file')
    BY DEF LastId
  <2>9. proc[Main].at = "ota" => source = "stdin"
    BY DEF IdsInv
  <2>10. given'.late \/ proc'[Main].at \in {"idle", "crashed"}
    BY <2>2, <2>3
  <2>11. source' = "file" /\ (given'.read => proc'[Main].at # "idle")
    BY <2>2, <2>3
  <2>12. Unread' => file'.id >= 1 /\ LastId(file)' <= given'.ids
    BY <2>6, <2>8
  <2>13. proc'[Main].at = "ota" => source' = "stdin"
    BY <2>3, <2>9
  <2> QED
    BY <2>5, <2>7, <2>10, <2>11, <2>12, <2>13 DEF IdsInv
<1>4. CASE StdinLine
  <2>1. source = "stdin" /\ file = NoFile /\ UNCHANGED <<file, source>>
    BY <1>4 DEF StdinLine, IdsInv
  <2>2. /\ Task("idle") \in TaskStates /\ Task("idle").at = "idle"
        /\ [Task("ota") EXCEPT !.k = Fresh + 1] \in TaskStates
        /\ [Task("ota") EXCEPT !.k = Fresh + 1].at = "ota"
        /\ [Task("ota") EXCEPT !.k = Fresh + 1].k = Fresh + 1
    <3>1. Task("ota") \in TaskStates /\ Task("ota").at = "ota" /\ Fresh + 1 \in Nat
      BY <1>2, TaskIsProc DEF Places, Fresh
    <3>2. /\ [Task("ota") EXCEPT !.k = Fresh + 1] \in TaskStates
          /\ [Task("ota") EXCEPT !.k = Fresh + 1].at = "ota"
          /\ [Task("ota") EXCEPT !.k = Fresh + 1].k = Fresh + 1
      BY <3>1 DEF TaskStates
    <3> QED
      BY <3>2, TaskIsProc DEF Places
  <2>3. CASE /\ May(1) /\ given' = [given EXCEPT !.ids = Fresh]
             /\ \/ UpdateDisplay(Main, Task("idle"), Fresh, Everyone)
                \/ SendTo(Main, Task("idle"), Fresh, Everyone)
    <3>1. proc'[Main].at \in {"idle", "crashed"}
      <4> DEFINE next == Task("idle")
      <4>1. next \in TaskStates /\ next.at = "idle"
        BY <2>2
      <4>2. Fresh \in Nat /\ Everyone \in {Everyone} \cup Cids
        BY <1>2 DEF Fresh
      <4>3. \/ SendTo(Main, next, Fresh, Everyone)
            \/ UpdateDisplay(Main, next, Fresh, Everyone)
        BY <2>3
      <4> HIDE DEF next
      <4> QED
        BY <1>1, <4>1, <4>2, <4>3, SendToMoves
    <3>2. given'.ids = given.ids + 1 /\ given.ids + 1 <= MaxMsgs
      BY <1>2, <2>3 DEF May, Fresh
    <3> QED
      BY <2>1, <3>1, <3>2 DEF IdsInv, Unread
  <2>4. CASE /\ May(2) /\ given' = [given EXCEPT !.ids = Fresh + 1]
             /\ UpdateDisplay(Main, [Task("ota") EXCEPT !.k = Fresh + 1],
                              Fresh, Everyone)
    <3>1. \/ proc'[Main].at = "ota" /\ proc'[Main].k = Fresh + 1
          \/ proc'[Main].at = "crashed"
      <4> DEFINE next == [Task("ota") EXCEPT !.k = Fresh + 1]
      <4>1. next \in TaskStates /\ next.at = "ota" /\ next.k = Fresh + 1
        BY <2>2
      <4>2. UpdateDisplay(Main, next, Fresh, Everyone)
        BY <2>4
      <4> HIDE DEF next
      <4> QED
        BY <1>1, <1>2, <4>1, <4>2, SendToMoves DEF Fresh, Everyone
    <3>2. given'.ids = given.ids + 2 /\ given.ids + 2 <= MaxMsgs
      BY <1>2, <2>4 DEF May, Fresh
    <3>3. proc'[Main].at \in {"frames", "ota"} => proc'[Main].k \in 1 .. given'.ids
      BY <1>2, <3>1, <3>2 DEF Fresh
    <3> QED
      BY <2>1, <3>1, <3>2, <3>3 DEF IdsInv, Unread
  <2> QED
    BY <1>4, <2>3, <2>4 DEF StdinLine
<1> QED
  BY <1>3, <1>4

\* The steps of the connections, but for _display.
LEMMA ConnectionsLeaveMain ==
  ASSUME IInv, NEW c \in Cids,
         Connect(c) \/ HandlerStep(c) \/ ButtonClicked(c) \/ LinkCloses(c)
  PROVE  MainStays
<1>1. Registry /\ Main \in Procs /\ H(c) # Main /\ H(c) \in Procs
  BY TwoParts, HandlersAreProcs
<1>2. UNCHANGED <<file, source, given>>
  BY DEF Connect, HandlerStep, FlushResumes, HandlerEnds, ButtonClicked, LinkCloses
<1>3. proc' = proc \/ \E next : proc' = [proc EXCEPT ![H(c)] = next]
  BY DEF Connect, HandlerStep, FlushResumes, HandlerEnds, ButtonClicked,
     BeginRestore, FlushOn, LinkCloses
<1>4. proc'[Main] = proc[Main]
  BY <1>1, <1>3 DEF Registry, ConnectionsOK
<1> QED
  BY <1>2, <1>4 DEF MainStays

\* _display of a canary task leaves main where it is.
LEMMA DisplayLeavesMain ==
  ASSUME IInv, NEW c \in Cids, Display(c)
  PROVE  proc'[Main] = proc[Main]
<1>1. Registry /\ OthersOK /\ Main \in Procs
  BY TwoParts, HandlersAreProcs
<1>2. <<"job", c>> # Main /\ <<"job", c>> \in Procs /\ Fresh \in Nat
  BY <1>1 DEF Procs, Jobs, Main, OthersOK, Fresh
<1>3. Task("none") \in TaskStates
  BY TaskIsProc DEF Places
<1> QED
  BY <1>1, <1>2, <1>3, SendToMoves DEF Display

\* The connections, and the canary tasks they start.
LEMMA IdsOfConnections ==
  ASSUME IInv, IdsInv, NEW c \in Cids,
         Connect(c) \/ HandlerStep(c) \/ ButtonClicked(c) \/ Display(c) \/ LinkCloses(c)
  PROVE  IdsInv'
<1>1. Registry /\ OthersOK /\ Main \in Procs /\ given.ids \in Nat
  BY TwoParts, HandlersAreProcs DEF OthersOK
<1>2. H(c) # Main /\ H(c) \in Procs /\ <<"job", c>> # Main /\ <<"job", c>> \in Procs
  BY HandlersAreProcs DEF Procs, Jobs, Main
<1>3. CASE Display(c)
  <2>2. proc'[Main] = proc[Main]
    BY <1>3, DisplayLeavesMain
  <2>3. /\ given'.ids = given.ids + 1 /\ given.ids + 1 <= MaxMsgs
        /\ given'.read = given.read /\ given'.late = given.late
    BY <1>1, <1>3 DEF Display, OthersOK, May, Fresh
  <2>4. UNCHANGED <<file, source>>
    BY <1>3 DEF Display
  <2>5. LastId(file) <= given.ids => LastId(file) <= given'.ids
    <3>1. LastId(file) \in Nat
      BY <1>1 DEF LastId, OthersOK
    <3> QED
      BY <1>1, <2>3, <3>1
  <2>6. LastId(file)' = LastId(file) /\ Unread' = Unread
    BY <2>3, <2>4 DEF LastId, Unread
  <2>7. proc[Main].k \in 1 .. given.ids => proc[Main].k \in 1 .. given'.ids
    BY <1>1, <2>3
  <2> QED
    BY <2>2, <2>3, <2>4, <2>5, <2>6, <2>7 DEF IdsInv
<1>4. CASE ~Display(c)
  BY <1>4, ConnectionsLeaveMain, IdsStay
<1> QED
  BY <1>3, <1>4

(* The steps: the queue. *)

\* The tasks: one send goes on, or an animation.
LEMMA TasksAppend ==
  ASSUME IInv, QueueOK,
         \/ \E p \in Procs : TaskStep(p)
         \/ \E a \in Anims : Animate(a)
  PROVE  \E added \in Seq(Items) : Appends(added)
<1>1. Registry /\ OthersOK
  BY TwoParts
<1>2. /\ \A at \in Places : Task(at) \in TaskStates /\ Task(at).at = at
      /\ {"remove", "dots", "over", "serve"} \subseteq Places
  BY TaskIsProc DEF Places
<1>3. ASSUME NEW p \in Procs, BootStep(p)
      PROVE  \E added \in Seq(Items) : Appends(added)
  <2>1. proc[p] \in TaskStates /\ proc[p].at = "boot" /\ UNCHANGED <<queue, flush>>
    BY <1>1, <1>3 DEF Registry, ConnectionsOK, BootStep, At
  <2>2. CASE proc[p].k = 0 \/ ESP32s = {}
    <3> DEFINE next == Task(IF p = Main THEN "remove" ELSE "serve")
    <3>1. proc' = [proc EXCEPT ![p] = next] /\ UNCHANGED <<lists, hist>>
      BY <1>3, <2>2 DEF BootStep
    <3>2. next.at \notin {"none", "flush"}
      BY <1>2
    <3> HIDE DEF next
    <3>3. StaysPut
      BY <1>1, <2>1, <3>1, <3>2, MoveStaysPut
    <3> QED
      BY <2>1, <3>1, <3>3, QuietAppends
  <2>3. CASE ~(proc[p].k = 0 \/ ESP32s = {})
    <3> DEFINE next == [proc[p] EXCEPT !.k = @ - 1]
    <3>1. SendTo(p, next, 0, Everyone)
      BY <1>3, <2>3 DEF BootStep
    <3>2. next \in TaskStates /\ next.at = "boot"
      BY <2>1, <2>3 DEF TaskStates
    <3> HIDE DEF next
    <3> QED
      BY <1>1, <2>1, <3>1, <3>2, SendToAppends DEF Everyone
  <2> QED
    BY <2>2, <2>3
<1>4. ASSUME NEW p \in Procs, SetWaiting(p)
      PROVE  \E added \in Seq(Items) : Appends(added)
  <2>1. p \notin Handlers /\ UNCHANGED <<lists, queue, flush, hist>>
    BY <1>1, <1>4, HandlersAreProcs DEF Registry, HandlersInPlace, SetWaiting, At
  <2>2. PICK a \in Anims :
          proc' = [proc EXCEPT ![p] = Task("remove"), ![a] = Task("dots")]
    BY <1>4 DEF SetWaiting
  <2>3. a \in Procs /\ \A c \in Cids : H(c) # a /\ H(c) # p /\ H(c) \in Procs
    BY <2>1, HandlersAreProcs
  <2>4. \A c \in Cids : proc'[H(c)] = proc[H(c)]
    BY <1>1, <2>2, <2>3 DEF Registry, ConnectionsOK
  <2> QED
    BY <2>1, <2>4, QuietAppends DEF StaysPut
<1>5. ASSUME NEW a \in Anims, Animate(a)
      PROVE  \E added \in Seq(Items) : Appends(added)
  <2>1. /\ a \in Procs /\ a \notin Handlers /\ proc[a] \in TaskStates
        /\ UNCHANGED <<queue, flush>>
    BY <1>1, <1>5, HandlersAreProcs
       DEF Registry, ConnectionsOK, Anims, Handlers, Animate
  <2>2. CASE SendTo(a, proc[a], 0, Everyone)
    BY <1>1, <2>1, <2>2, SendToAppends DEF Everyone
  <2>3. CASE proc' = [proc EXCEPT ![a] = Task("over")] /\ UNCHANGED <<lists, hist>>
    BY <1>1, <2>1, <2>3, MoveStaysPut, QuietAppends
  <2> QED
    BY <1>5, <2>2, <2>3 DEF Animate
<1> QED
  BY <1>3, <1>4, <1>5, SendResumesAppends DEF TaskStep

\* main, and its inputs.
LEMMA MainAppends ==
  ASSUME IInv, IdsInv, QueueOK, MainStep \/ WriteCommand \/ StdinLine \/ StdinEnds
  PROVE  \E added \in Seq(Items) : Appends(added)
<1>1. /\ Registry /\ OthersOK /\ Main \in Procs /\ Main \notin Handlers
      /\ proc[Main].k \in Nat
  BY TwoParts, HandlersAreProcs DEF Registry, ConnectionsOK, TaskStates
<1>2. /\ \A at \in Places : Task(at) \in TaskStates
      /\ \A at \in Places, k \in Nat : [Task(at) EXCEPT !.k = k] \in TaskStates
      /\ {"remove", "idle", "frames", "ota"} \subseteq Places
  <2>1. \A at \in Places : Task(at) \in TaskStates
    BY TaskIsProc
  <2>2. \A t \in TaskStates, k \in Nat : [t EXCEPT !.k = k] \in TaskStates
    BY DEF TaskStates
  <2> QED
    BY <2>1, <2>2 DEF Places
<1>3. UNCHANGED <<queue, flush>>
  BY DEF MainStep, ReadCommand, NextFrame, RemoveCommand, StdinOta, WriteCommand,
     StdinLine, StdinEnds
<1>4. ASSUME UNCHANGED <<lists, hist>>, \E next : proc' = [proc EXCEPT ![Main] = next]
      PROVE  \E added \in Seq(Items) : Appends(added)
  BY <1>1, <1>3, <1>4, MoveStaysPut, QuietAppends
<1>5. CASE ReadCommand
  <2>1. file.id \in Nat \ {0} /\ file.target \in {Everyone} \cup Cids
    BY <1>5, ReadIds
  <2>2. CASE UpdateDisplay(Main, Task("remove"), file.id, file.target)
    BY <1>1, <1>2, <1>3, <2>1, <2>2, UpdateDisplayAppends
  <2>3. CASE SendTo(Main, [Task("frames") EXCEPT !.k = file.id + 1],
                    file.id, file.target)
    <3>1. [Task("frames") EXCEPT !.k = file.id + 1] \in TaskStates
      <4>1. file.id + 1 \in Nat
        BY <2>1
      <4> QED
        BY <1>2, <4>1
    <3> QED
      BY <1>1, <1>3, <2>1, <2>3, <3>1, SendToAppends
  <2>4. CASE UNCHANGED <<lists, hist>> /\ \E next : proc' = [proc EXCEPT ![Main] = next]
    BY <1>4, <2>4
  <2> QED
    BY <1>5, <2>2, <2>3, <2>4 DEF ReadCommand, Execute, BeginRestore
<1>6. CASE NextFrame \/ StdinOta
  <2>1. \E next \in TaskStates : SendTo(Main, next, proc[Main].k, Everyone)
    BY <1>2, <1>6 DEF NextFrame, StdinOta
  <2> QED
    BY <1>1, <1>3, <2>1, SendToAppends DEF Everyone
<1>7. CASE RemoveCommand \/ StdinEnds
  BY <1>4, <1>7 DEF RemoveCommand, StdinEnds
<1>8. CASE WriteCommand
  BY <1>8, QuietAppends DEF WriteCommand, StaysPut
<1>9. CASE StdinLine
  <2>1. Fresh \in Nat \ {0} /\ Fresh + 1 \in Nat
    BY <1>1 DEF Fresh, OthersOK
  <2>2. \E next \in TaskStates : \/ UpdateDisplay(Main, next, Fresh, Everyone)
                                 \/ SendTo(Main, next, Fresh, Everyone)
    BY <1>2, <1>9, <2>1 DEF StdinLine
  <2> QED
    BY <1>1, <1>3, <2>1, <2>2, UpdateDisplayAppends, SendToAppends DEF Everyone
<1> QED
  BY <1>5, <1>6, <1>7, <1>8, <1>9 DEF MainStep

\* A connection outside its flush.
LEMMA ConnectionsAppend ==
  ASSUME IInv, QueueOK, NEW c \in Cids,
         HandlerEnds(c) \/ ButtonClicked(c) \/ Display(c) \/ LinkCloses(c)
  PROVE  \E added \in Seq(Items) : Appends(added)
<1>1. /\ Registry /\ OthersOK /\ H(c) \in Procs
      /\ <<"job", c>> \in Procs /\ <<"job", c>> \notin Handlers
  BY TwoParts, HandlersAreProcs DEF Procs, Jobs, Handlers
<1>2. /\ \A at \in Places : Task(at) \in TaskStates /\ Task(at).at = at
      /\ {"none", "over", "serve", "boot"} \subseteq Places
  BY TaskIsProc DEF Places
<1>3. CASE Display(c)
  <2>1. Fresh \in Nat \ {0} /\ UNCHANGED <<queue, flush>>
    BY <1>1, <1>3 DEF Fresh, OthersOK, Display
  <2> QED
    BY <1>1, <1>2, <1>3, <2>1, SendToAppends DEF Display
<1>4. CASE HandlerEnds(c) \/ ButtonClicked(c)
  <2>1. PICK next : /\ proc' = [proc EXCEPT ![H(c)] = next]
                    /\ next.at \in {"over", "serve", "boot"}
    <3>1. [Task("boot") EXCEPT !.k = Letters].at = "boot"
      BY <1>2 DEF TaskStates
    <3> QED
      BY <1>2, <1>4, <3>1 DEF HandlerEnds, ButtonClicked, BeginRestore
  <2>2. proc[H(c)].at = "serve" /\ UNCHANGED <<lists, queue, flush, hist>>
    BY <1>4 DEF HandlerEnds, ButtonClicked, At
  <2> QED
    BY <1>1, <2>1, <2>2, MoveStaysPut, QuietAppends
<1>5. CASE LinkCloses(c)
  BY <1>5, QuietAppends DEF LinkCloses, StaysPut
<1> QED
  BY <1>3, <1>4, <1>5

(* The flush. *)

\* What the flush of c has done when it stops at place j: the items it has
\* passed and that are for others are in remaining.
Flushed(c, from, i, remaining, j) ==
  /\ lists'[c] = remaining \o SubSeq(lists[from], i, j - 1)
  /\ \A k \in i .. j - 1 : lists[from][k].target \notin {Everyone, c}
  /\ \A d \in Flushing : d # c => flush'[d] = flush[d]
  /\ \A d \in Cids : d # c => proc'[H(d)] = proc[H(d)]
  /\ \/ /\ j = Len(lists[from]) + 1 /\ queue' = c
        /\ Flushing' = Flushing \ {c} /\ proc'[H(c)].at = "serve"
     \/ /\ j \in i .. Len(lists[from]) /\ queue' = queue
        /\ Flushing' = Flushing \cup {c} /\ proc'[H(c)].at = "flush"
        /\ lists[from][j].target \in {Everyone, c}
        /\ flush'[c] = [from |-> from, i |-> j] /\ lists'[from] = lists[from]
        /\ lists'[queue] = lists[queue]
  /\ \A d \in Flushing : d # c => /\ lists'[d] = lists[d]
                                  /\ lists'[flush[d].from] = lists[flush[d].from]

\* It does that.
LEMMA FlushOnDoes ==
  ASSUME IInv, QueueOK, NEW c \in Cids, proc[H(c)].at \in {"none", "flush"},
         NEW from \in Lists, Settled(from), NEW i \in 1 .. Len(lists[from]) + 1,
         NEW remaining \in Seq(Items), FlushOn(c, from, i, remaining)
  PROVE  /\ \E j \in i .. Len(lists[from]) + 1 : Flushed(c, from, i, remaining, j)
         /\ lists' \in [Lists -> Seq(Items)]
         /\ flush' \in [Cids -> [from: Lists, i: Nat]]
<1> DEFINE src   == lists[from]
           hits  == {j \in i .. Len(src) : src[j].target \in {Everyone, c}}
           ends  == hits = {}
           j     == IF ends THEN Len(src) + 1 ELSE Min(hits)
           going == IF ends THEN Flushing \ {c} ELSE Flushing \cup {c}
           bound == IF ends THEN c ELSE queue
           used  == {bound} \cup going \cup {flush[d].from : d \in going \ {c}}
                      \cup (IF ends THEN {} ELSE {from})
<1>1. /\ lists' = [l \in DOMAIN lists |->
                     IF l \notin used THEN <<>>
                     ELSE IF l = c THEN remaining \o SubSeq(src, i, j - 1)
                     ELSE lists[l]]
      /\ flush' = [flush EXCEPT ![c] = IF ends THEN NoFlush
                                       ELSE [from |-> from, i |-> j]]
      /\ queue' = bound
      /\ proc' = [proc EXCEPT ![H(c)] = Task(IF ends THEN "serve" ELSE "flush")]
  BY DEF FlushOn
<1>2. /\ lists \in [Lists -> Seq(Items)] /\ queue \in Lists /\ Settled(queue)
      /\ flush \in [Cids -> [from: Lists, i: Nat]]
      /\ \A d \in Flushing : d \in Cids /\ Settled(flush[d].from)
      /\ src \in Seq(Items) /\ Len(src) \in Nat /\ i \in Nat /\ DOMAIN lists = Lists
      /\ c \in Lists
  BY DEF QueueOK, Flushing, Lists
<1>3. /\ from # c /\ queue # c
      /\ \A d \in Flushing : flush[d].from # c
  <2>1. c # 0 /\ ~Settled(c)
    BY DEF Settled, Cids
  <2> QED
    BY <1>2, <2>1
<1>4. /\ j \in i .. Len(src) + 1
      /\ \A k \in i .. j - 1 : src[k].target \notin {Everyone, c}
      /\ ends => j = Len(src) + 1
      /\ ~ends => j \in i .. Len(src) /\ src[j].target \in {Everyone, c}
  <2>1. CASE ends
    <3>1. \A k \in i .. Len(src) : src[k].target \notin {Everyone, c}
      BY <2>1
    <3> QED
      BY <1>2, <2>1, <3>1
  <2>2. CASE ~ends
    <3>1. hits \in SUBSET (i .. Len(src)) /\ hits # {}
      BY <2>2
    <3> HIDE DEF hits
    <3>2. j = Min(hits)
      BY <2>2
    <3>3. hits \in SUBSET Nat
      BY <1>2, <3>1
    <3>4. Min(hits) \in hits /\ \A k \in hits : Min(hits) <= k
      BY <3>1, <3>3, MinIsLeast
    <3>5. j \in i .. Len(src)
      BY <3>1, <3>2, <3>4
    <3>6. src[j].target \in {Everyone, c}
      BY <3>2, <3>4 DEF hits
    <3>7. \A k \in i .. j - 1 : k \in i .. Len(src) /\ ~(j <= k)
      BY <1>2, <3>5
    <3>8. \A k \in i .. j - 1 : k \notin hits
      BY <3>2, <3>4, <3>7
    <3>9. \A k \in i .. j - 1 : src[k].target \notin {Everyone, c}
      BY <3>7, <3>8 DEF hits
    <3>10. j \in i .. Len(src) + 1
      BY <1>2, <3>5
    <3> QED
      BY <2>2, <3>5, <3>6, <3>9, <3>10
  <2> QED
    BY <2>1, <2>2
<1>5. SubSeq(src, i, j - 1) \in Seq(Items)
  <2>1. \A k \in i .. j - 1 : k \in 1 .. Len(src)
    BY <1>2, <1>4
  <2>2. \A k \in i .. j - 1 : src[k] \in Items
    BY <1>2, <2>1, ElementOfSeq
  <2>3. i \in Int /\ j - 1 \in Int
    BY <1>2, <1>4
  <2> QED
    BY <2>2, <2>3, SubSeqProperties
<1> DEFINE list == remaining \o SubSeq(src, i, j - 1)
<1>6. list \in Seq(Items)
  BY <1>5, ConcatProperties
<1>7. c \in used /\ (\A d \in Flushing : d # c => d \in used /\ flush[d].from \in used)
      /\ (~ends => from \in used /\ queue \in used)
  OBVIOUS
<1>8. /\ queue' = IF ends THEN c ELSE queue
      /\ flush' = [flush EXCEPT ![c] = IF ends THEN NoFlush
                                       ELSE [from |-> from, i |-> j]]
      /\ proc' = [proc EXCEPT ![H(c)] = Task(IF ends THEN "serve" ELSE "flush")]
  BY <1>1
<1>9. /\ \A l \in Lists : lists'[l] = IF l \notin used THEN <<>>
                                     ELSE IF l = c THEN list ELSE lists[l]
      /\ lists' = [l \in Lists |-> IF l \notin used THEN <<>>
                                    ELSE IF l = c THEN list ELSE lists[l]]
  BY <1>1, <1>2
<1> HIDE DEF src, hits, j, ends, used, list
<1>11. lists' \in [Lists -> Seq(Items)]
  <2>1. \A l \in Lists : lists'[l] \in Seq(Items)
    BY <1>2, <1>6, <1>9, EmptySeq
  <2> QED
    BY <1>9, <2>1
<1>12. flush' \in [Cids -> [from: Lists, i: Nat]]
  <2>1. NoFlush \in [from: Lists, i: Nat]
    BY DEF NoFlush, Lists
  <2>2. [from |-> from, i |-> j] \in [from: Lists, i: Nat]
    BY <1>2, <1>4
  <2> QED
    BY <1>2, <1>8, <2>1, <2>2
<1>13. /\ lists'[c] = list
       /\ \A d \in Flushing : d # c => /\ lists'[d] = lists[d]
                                       /\ lists'[flush[d].from] = lists[flush[d].from]
       /\ ~ends => lists'[from] = lists[from] /\ lists'[queue] = lists[queue]
  <2>1. \A d \in Flushing : d \in Lists /\ flush[d].from \in Lists
    BY <1>2 DEF Lists
  <2> QED
    BY <1>2, <1>3, <1>7, <1>9, <2>1
<1>14. /\ proc'[H(c)].at = IF ends THEN "serve" ELSE "flush"
       /\ \A d \in Cids : d # c => proc'[H(d)] = proc[H(d)]
  <2>1. \A d \in Cids : H(d) \in Procs /\ (H(d) = H(c) => d = c)
    BY HandlersAreProcs
  <2>2. Task("serve").at = "serve" /\ Task("flush").at = "flush"
    BY TaskIsProc DEF Places
  <2>3. proc \in [Procs -> TaskStates]
    BY DEF IInv, TypeOK, ConnectionsOK
  <2> QED
    BY <1>8, <2>1, <2>2, <2>3
<1>15. Flushing' = IF ends THEN Flushing \ {c} ELSE Flushing \cup {c}
  BY <1>14 DEF Flushing
<1>16. /\ \A d \in Flushing : d # c => flush'[d] = flush[d]
       /\ ~ends => flush'[c] = [from |-> from, i |-> j]
  BY <1>2, <1>8
<1>17. Flushed(c, from, i, remaining, j)
  <2>1. CASE ends
    BY <1>4, <1>8, <1>13, <1>14, <1>15, <1>16, <2>1 DEF Flushed, list, src
  <2>2. CASE ~ends
    BY <1>4, <1>8, <1>13, <1>14, <1>15, <1>16, <2>2 DEF Flushed, list, src
  <2> QED
    BY <2>1, <2>2
<1> QED
  BY <1>4, <1>11, <1>12, <1>17 DEF src

\* Its remaining holds what it was given and what it has passed.
LEMMA FlushedRange ==
  ASSUME NEW c, NEW from \in Lists, lists[from] \in Seq(Items),
         NEW i \in 1 .. Len(lists[from]) + 1, NEW remaining \in Seq(Items),
         NEW j \in i .. Len(lists[from]) + 1,
         lists'[c] = remaining \o SubSeq(lists[from], i, j - 1)
  PROVE  /\ lists'[c] \in Seq(Items)
         /\ Len(lists'[c]) = Len(remaining) + (j - i)
         /\ \A n \in 1 .. Len(remaining) : lists'[c][n] = remaining[n]
         /\ \A n \in 1 .. j - i : lists'[c][Len(remaining) + n] = lists[from][i + n - 1]
         /\ \A item \in Range(remaining) : item \in Range(lists'[c])
         /\ \A k \in i .. j - 1 : lists[from][k] \in Range(lists'[c])
<1> DEFINE src  == lists[from]
           part == SubSeq(src, i, j - 1)
<1>1. Len(src) \in Nat /\ Len(remaining) \in Nat /\ i \in Nat /\ j \in Nat
  OBVIOUS
<1>2. /\ part \in Seq(Items) /\ Len(part) = j - i
      /\ \A n \in 1 .. j - i : part[n] = src[i + n - 1]
  <2>1. \A k \in i .. j - 1 : k \in 1 .. Len(src)
    BY <1>1
  <2>2. \A k \in i .. j - 1 : src[k] \in Items
    BY <2>1, ElementOfSeq
  <2>3. i \in Int /\ j - 1 \in Int
    BY <1>1
  <2> HIDE DEF src
  <2>4. /\ part \in Seq(Items)
        /\ Len(part) = IF i <= j - 1 THEN (j - 1) - i + 1 ELSE 0
        /\ \A n \in 1 .. (j - 1) - i + 1 : part[n] = src[i + n - 1]
    BY <2>2, <2>3, SubSeqProperties
  <2>5. (j - 1) - i + 1 = j - i /\ (~(i <= j - 1) => j - i = 0)
    BY <1>1
  <2> QED
    BY <2>4, <2>5
<1> HIDE DEF part
<1>3. lists'[c] = remaining \o part
  BY DEF part
<1>4. /\ remaining \o part \in Seq(Items)
      /\ Len(remaining \o part) = Len(remaining) + Len(part)
      /\ \A n \in 1 .. Len(remaining) + Len(part) : (remaining \o part)[n] =
           IF n <= Len(remaining) THEN remaining[n] ELSE part[n - Len(remaining)]
  BY <1>2, ConcatProperties
<1> HIDE DEF src
<1>5. ASSUME NEW n \in 1 .. Len(remaining) PROVE lists'[c][n] = remaining[n]
  <2>1. n \in 1 .. Len(remaining) + Len(part) /\ n <= Len(remaining)
    BY <1>1, <1>2
  <2> QED
    BY <1>3, <1>4, <2>1
<1>6. ASSUME NEW n \in 1 .. j - i
      PROVE  lists'[c][Len(remaining) + n] = src[i + n - 1]
  <2> DEFINE k == Len(remaining) + n
  <2>1. /\ k \in 1 .. Len(remaining) + Len(part) /\ ~(k <= Len(remaining))
        /\ k - Len(remaining) = n
    BY <1>1, <1>2
  <2> HIDE DEF k
  <2>2. (remaining \o part)[k] = part[k - Len(remaining)]
    BY <1>4, <2>1
  <2>3. lists'[c][k] = part[n]
    BY <1>3, <2>1, <2>2
  <2>4. part[n] = src[i + n - 1]
    BY <1>2
  <2> QED
    BY <2>3, <2>4 DEF k
<1>7. lists'[c] \in Seq(Items) /\ Len(lists'[c]) = Len(remaining) + (j - i)
  BY <1>2, <1>3, <1>4
<1>8. ASSUME NEW item \in Range(remaining) PROVE item \in Range(lists'[c])
  <2>1. PICK n \in 1 .. Len(remaining) : remaining[n] = item
    BY InList
  <2>2. n \in 1 .. Len(lists'[c]) /\ lists'[c][n] = item
    BY <1>1, <1>5, <1>7, <2>1
  <2> QED
    BY <1>7, <2>2, InList
<1>9. ASSUME NEW k \in i .. j - 1 PROVE src[k] \in Range(lists'[c])
  <2> DEFINE n == k - i + 1
  <2>1. n \in 1 .. j - i /\ i + n - 1 = k /\ Len(remaining) + n \in 1 .. Len(lists'[c])
    BY <1>1, <1>7
  <2> HIDE DEF n
  <2>2. lists'[c][Len(remaining) + n] = src[k]
    BY <1>6, <2>1
  <2> QED
    BY <1>7, <2>1, <2>2, InList
<1> QED
  BY <1>5, <1>6, <1>7, <1>8, <1>9 DEF src

\* A flush that goes on alone, or overlaps, keeps the invariant of the queue.
LEMMA FlushedKeeps ==
  ASSUME QueueOK, LostOnlyByOverlap,
         NEW c \in Cids, proc[H(c)].at \in {"none", "flush"},
         NEW from \in Lists, Settled(from), NEW i \in 1 .. Len(lists[from]) + 1,
         NEW remaining \in Seq(Items), NEW j \in i .. Len(lists[from]) + 1,
         Flushed(c, from, i, remaining, j), lists' \in [Lists -> Seq(Items)],
         flush' \in [Cids -> [from: Lists, i: Nat]],
         hist' \in Histories, hist'.parked = hist.parked,
         \A d \in Cids : hist.got[d] \subseteq hist'.got[d],
         ~hist'.overlap =>
           /\ ~hist.overlap /\ Flushing \subseteq {c} /\ from = queue
           /\ \A k \in 1 .. i - 1 : \/ HandedThen(lists[queue][k])
                                    \/ lists[queue][k] \in Range(remaining)
  PROVE  QueueOK' /\ FlushInv' /\ LostOnlyByOverlap'
<1>1. /\ lists \in [Lists -> Seq(Items)] /\ queue \in Lists /\ Settled(queue)
      /\ lists[from] \in Seq(Items) /\ Len(lists[from]) \in Nat
      /\ \A d \in Flushing : d \in Cids /\ flush[d].from \in Lists
                             /\ Settled(flush[d].from)
  BY DEF QueueOK, Flushing
<1>2. /\ \A d \in Flushing : d # c => flush'[d] = flush[d]
      /\ \A d \in Flushing : d # c => lists'[flush[d].from] = lists[flush[d].from]
      /\ lists'[c] = remaining \o SubSeq(lists[from], i, j - 1)
      /\ \A d \in Cids : d # c => proc'[H(d)] = proc[H(d)]
  BY DEF Flushed
<1>3. \/ /\ j = Len(lists[from]) + 1 /\ queue' = c
         /\ Flushing' = Flushing \ {c} /\ proc'[H(c)].at = "serve"
      \/ /\ j \in i .. Len(lists[from]) /\ queue' = queue
         /\ Flushing' = Flushing \cup {c} /\ proc'[H(c)].at = "flush"
         /\ lists[from][j].target \in {Everyone, c}
         /\ flush'[c] = [from |-> from, i |-> j] /\ lists'[from] = lists[from]
         /\ lists'[queue] = lists[queue]
  BY DEF Flushed
<1>4. ASSUME NEW l \in Lists, Settled(l) PROVE Settled(l)'
  BY <1>2, <1>4 DEF Settled, Lists
<1>5. QueueOK'
  <2>1. queue' \in Lists /\ Settled(queue)'
    <3>1. CASE queue' = c /\ proc'[H(c)].at = "serve"
      BY <3>1 DEF Settled, Lists
    <3>2. CASE queue' = queue
      <4>1. Settled(queue)'
        BY <1>1, <1>2, <3>2 DEF Settled, Lists
      <4> QED
        BY <1>1, <3>2, <4>1
    <3> QED
      BY <1>3, <3>1, <3>2
  <2>2. ASSUME NEW d \in Flushing'
        PROVE  /\ Settled(flush[d].from)'
               /\ flush'[d].i \in 1 .. Len(lists'[flush'[d].from])
               /\ lists'[flush'[d].from][flush'[d].i].target \in {Everyone, d}
    <3>1. CASE d # c
      <4>1. d \in Flushing
        BY <1>3, <3>1
      <4>2. flush'[d] = flush[d] /\ lists'[flush[d].from] = lists[flush[d].from]
        BY <1>2, <3>1, <4>1
      <4>3. Settled(flush[d].from)'
        BY <1>1, <1>2, <4>1, <4>2 DEF Settled, Lists
      <4>4. /\ flush[d].i \in 1 .. Len(lists[flush[d].from])
            /\ lists[flush[d].from][flush[d].i].target \in {Everyone, d}
        BY <4>1 DEF QueueOK
      <4> QED
        BY <4>2, <4>3, <4>4
    <3>2. CASE d = c
      <4>1. /\ j \in i .. Len(lists[from])
            /\ lists[from][j].target \in {Everyone, c}
            /\ flush'[c] = [from |-> from, i |-> j] /\ lists'[from] = lists[from]
        BY <1>3, <3>2
      <4>2. flush'[d].from = from /\ flush'[d].i = j
        BY <3>2, <4>1
      <4>3. Settled(flush[d].from)'
        BY <1>2, <4>2 DEF Settled, Lists
      <4>4. j \in 1 .. Len(lists[from])
        BY <1>1, <4>1
      <4> QED
        BY <3>2, <4>1, <4>2, <4>3, <4>4
    <3> QED
      BY <3>1, <3>2
  <2> QED
    BY <2>1, <2>2 DEF QueueOK, Histories
<1>6. CASE hist'.overlap
  BY <1>5, <1>6 DEF FlushInv, LostOnlyByOverlap
<1>7. CASE ~hist'.overlap
  <2>1. /\ ~hist.overlap /\ Flushing \subseteq {c} /\ from = queue
        /\ \A k \in 1 .. i - 1 : \/ HandedThen(lists[queue][k])
                                 \/ lists[queue][k] \in Range(remaining)
    BY <1>7
  <2>2. /\ \A item \in Range(remaining) : item \in Range(lists'[c])
        /\ \A k \in i .. j - 1 : lists[from][k] \in Range(lists'[c])
    BY <1>1, <1>2, FlushedRange
  <2>3. \A k \in 1 .. j - 1 : \/ HandedThen(lists[queue][k])
                              \/ lists[queue][k] \in Range(lists'[c])
    <3>1. \A k \in 1 .. j - 1 : k \in 1 .. i - 1 \/ k \in i .. j - 1
      OBVIOUS
    <3> QED
      BY <2>1, <2>2, <3>1
  <2>4. FlushInv'
    <3> SUFFICES ASSUME NEW d \in Flushing'
                 PROVE  /\ Flushing' = {d} /\ flush'[d].from = queue'
                        /\ \A k \in 1 .. (flush'[d].i - 1) :
                             \/ HandedThen(lists'[queue'][k])
                             \/ lists'[queue'][k] \in Range(lists'[d])
      BY DEF FlushInv, Handed, HandedThen
    <3>1. /\ d = c /\ Flushing' = {c} /\ queue' = queue /\ lists'[queue] = lists[queue]
          /\ flush'[c].from = queue /\ flush'[c].i = j
      BY <1>3, <2>1
    <3> QED
      BY <2>3, <3>1
  <2>5. LostOnlyByOverlap'
    <3> SUFFICES ASSUME NEW item \in hist.parked
                 PROVE  item \in Range(lists'[queue']) \/ HandedThen(item)
      BY DEF LostOnlyByOverlap, Handed, HandedThen
    <3>1. CASE Handed(item)
      BY <3>1, StaysHanded
    <3>2. CASE item \in Range(lists[queue])
      <4>1. PICK k \in 1 .. Len(lists[queue]) : lists[queue][k] = item
        BY <1>1, <3>2, InList
      <4>2. CASE j = Len(lists[from]) + 1 /\ queue' = c
        <5>1. k \in 1 .. j - 1
          BY <1>1, <2>1, <4>1, <4>2
        <5> QED
          BY <2>3, <4>1, <4>2, <5>1
      <4>3. CASE queue' = queue /\ lists'[queue] = lists[queue]
        BY <3>2, <4>3
      <4> QED
        BY <1>3, <4>2, <4>3
    <3> QED
      BY <2>1, <3>1, <3>2 DEF LostOnlyByOverlap
  <2> QED
    BY <1>5, <2>4, <2>5
<1> QED
  BY <1>6, <1>7

\* A connection: its flush begins, alone or not.
LEMMA QueueOfConnect ==
  ASSUME IInv, QInv, NEW c \in Cids, Connect(c)
  PROVE  QueueOK' /\ FlushInv' /\ LostOnlyByOverlap'
<1>1. /\ QueueOK /\ LostOnlyByOverlap /\ proc[H(c)].at \in {"none", "flush"}
      /\ queue \in Lists /\ Settled(queue) /\ lists[queue] \in Seq(Items)
      /\ FlushOn(c, queue, 1, <<>>)
  BY DEF QInv, QueueOK, Connect
<1>2. <<>> \in Seq(Items) /\ 1 \in 1 .. Len(lists[queue]) + 1
  BY <1>1
<1>3. PICK j \in 1 .. Len(lists[queue]) + 1 : Flushed(c, queue, 1, <<>>, j)
  BY <1>1, <1>2, FlushOnDoes
<1>4. lists' \in [Lists -> Seq(Items)] /\ flush' \in [Cids -> [from: Lists, i: Nat]]
  BY <1>1, <1>2, FlushOnDoes
<1>5. hist \in Histories
  BY <1>1 DEF QueueOK, Histories
<1>6. hist' = [hist EXCEPT !.overlap = @ \/ Flushing # {}]
  BY DEF Connect
<1>7. /\ hist' \in Histories /\ hist'.parked = hist.parked /\ hist'.got = hist.got
      /\ ~hist'.overlap => ~hist.overlap /\ Flushing = {}
  BY <1>5, <1>6 DEF Histories
<1>8. ~hist'.overlap =>
        /\ ~hist.overlap /\ Flushing \subseteq {c} /\ queue = queue
        /\ \A k \in 1 .. 1 - 1 : \/ HandedThen(lists[queue][k])
                                 \/ lists[queue][k] \in Range(<<>>)
  BY <1>7
<1> QED
  BY <1>1, <1>2, <1>3, <1>4, <1>7, <1>8, FlushedKeeps

\* The state of a flush that goes on: what it was sending, and what is kept.
LEMMA FlushResumesDoes ==
  ASSUME IInv, QueueOK, NEW c \in Cids, FlushResumes(c)
  PROVE  \E i \in Nat, remaining \in Seq(Items), item \in Items :
           /\ c \in Flushing /\ i = flush[c].i /\ item = lists[flush[c].from][i]
           /\ i \in 1 .. Len(lists[flush[c].from]) /\ item.target \in {Everyone, c}
           /\ remaining = IF link[c] = "up" THEN lists[c] ELSE Append(lists[c], item)
           /\ FlushOn(c, flush[c].from, i + 1, remaining)
           /\ hist' \in Histories /\ hist'.parked = hist.parked
           /\ hist'.overlap = hist.overlap
           /\ \A d \in Cids : hist'.got[d] = IF d = c /\ link[c] = "up"
                                             THEN hist.got[d] \cup {item.id}
                                             ELSE hist.got[d]
<1> DEFINE i    == flush[c].i
           item == lists[flush[c].from][i]
           remaining == IF link[c] = "up" THEN lists[c] ELSE Append(lists[c], item)
<1>1. c \in Flushing
  BY DEF FlushResumes, Flushing
<1>2. /\ flush[c] \in [from: Lists, i: Nat] /\ lists \in [Lists -> Seq(Items)]
      /\ i \in 1 .. Len(lists[flush[c].from]) /\ item.target \in {Everyone, c}
      /\ hist \in Histories
  BY <1>1 DEF QueueOK, Histories
<1>3. flush[c].from \in Lists /\ i \in Nat /\ lists[c] \in Seq(Items)
  BY <1>2 DEF Lists
<1>4. item \in Items
  BY <1>2, <1>3, ElementOfSeq
<1>5. /\ FlushOn(c, flush[c].from, i + 1, remaining)
      /\ hist' = IF link[c] = "up"
                 THEN [hist EXCEPT !.got[c] = @ \cup ({item.id} \ {0})] ELSE hist
  BY DEF FlushResumes, Keeps
<1> HIDE DEF i, item
<1>6. remaining \in Seq(Items)
  BY <1>3, <1>4
<1> HIDE DEF remaining
<1>7. /\ hist' \in Histories /\ hist'.parked = hist.parked
      /\ hist'.overlap = hist.overlap
      /\ \A d \in Cids : hist'.got[d] = IF d = c /\ link[c] = "up"
                                        THEN hist.got[d] \cup {item.id}
                                        ELSE hist.got[d]
  <2>1. item.id \in Nat /\ {item.id} \ {0} = {item.id}
    BY <1>4 DEF Items
  <2>2. hist.got \in [Cids -> SUBSET Nat]
    BY <1>2 DEF Histories
  <2>3. CASE link[c] = "up"
    <3> DEFINE got == [hist.got EXCEPT ![c] = @ \cup {item.id}]
    <3>1. /\ got \in [Cids -> SUBSET Nat]
          /\ \A d \in Cids : got[d] = IF d = c THEN hist.got[d] \cup {item.id}
                                      ELSE hist.got[d]
      BY <2>1, <2>2
    <3>2. hist' = [hist EXCEPT !.got = got]
      BY <1>5, <2>1, <2>3
    <3> HIDE DEF got
    <3>3. /\ hist' \in Histories /\ hist'.got = got
          /\ hist'.parked = hist.parked /\ hist'.overlap = hist.overlap
      BY <1>2, <3>1, <3>2 DEF Histories
    <3> QED
      BY <2>3, <3>1, <3>3
  <2>4. CASE link[c] # "up"
    BY <1>2, <1>5, <2>4
  <2> QED
    BY <2>3, <2>4
<1> QED
  BY <1>1, <1>2, <1>3, <1>4, <1>5, <1>6, <1>7 DEF i, item, remaining

\* A handler goes on with its flush: it was handed the item, or keeps it.
LEMMA QueueOfFlush ==
  ASSUME IInv, QInv, NEW c \in Cids, FlushResumes(c)
  PROVE  QueueOK' /\ FlushInv' /\ LostOnlyByOverlap'
<1>1. QueueOK /\ FlushInv /\ LostOnlyByOverlap
  BY DEF QInv
<1> DEFINE from == flush[c].from
<1>2. PICK i \in Nat, remaining \in Seq(Items), item \in Items :
        /\ c \in Flushing /\ i = flush[c].i /\ item = lists[from][i]
        /\ i \in 1 .. Len(lists[from]) /\ item.target \in {Everyone, c}
        /\ remaining = IF link[c] = "up" THEN lists[c] ELSE Append(lists[c], item)
        /\ FlushOn(c, from, i + 1, remaining)
        /\ hist' \in Histories /\ hist'.parked = hist.parked
        /\ hist'.overlap = hist.overlap
        /\ \A d \in Cids : hist'.got[d] = IF d = c /\ link[c] = "up"
                                          THEN hist.got[d] \cup {item.id}
                                          ELSE hist.got[d]
  BY <1>1, FlushResumesDoes
<1>3. /\ from \in Lists /\ Settled(from) /\ lists[from] \in Seq(Items)
      /\ lists[c] \in Seq(Items)
      /\ proc[H(c)].at \in {"none", "flush"}
  BY <1>1, <1>2 DEF QueueOK, Flushing, Lists
<1>4. i + 1 \in 1 .. Len(lists[from]) + 1
  BY <1>2, <1>3
<1> HIDE DEF from
<1>5. PICK j \in i + 1 .. Len(lists[from]) + 1 : Flushed(c, from, i + 1, remaining, j)
  BY <1>1, <1>2, <1>3, <1>4, FlushOnDoes
<1>6. lists' \in [Lists -> Seq(Items)] /\ flush' \in [Cids -> [from: Lists, i: Nat]]
  BY <1>1, <1>2, <1>3, <1>4, FlushOnDoes
<1>7. \A d \in Cids : hist.got[d] \subseteq hist'.got[d]
  BY <1>2
<1>8. ASSUME ~hist.overlap
      PROVE  /\ Flushing \subseteq {c} /\ from = queue
             /\ \A k \in 1 .. (i + 1) - 1 : \/ HandedThen(lists[queue][k])
                                            \/ lists[queue][k] \in Range(remaining)
  <2>1. /\ Flushing = {c} /\ from = queue
        /\ \A k \in 1 .. i - 1 :
             Handed(lists[queue][k]) \/ lists[queue][k] \in Range(lists[c])
    BY <1>1, <1>2, <1>8 DEF FlushInv, from
  <2>2. ASSUME NEW x \in Range(lists[c]) PROVE x \in Range(remaining)
    <3>1. CASE link[c] = "up"
      BY <1>2, <3>1
    <3>2. CASE link[c] # "up"
      <4>1. remaining = Append(lists[c], item)
        BY <1>2, <3>2
      <4>2. PICK n \in 1 .. Len(lists[c]) : lists[c][n] = x
        BY <1>3, InList
      <4>3. n \in 1 .. Len(remaining) /\ remaining[n] = x
        BY <1>2, <1>3, <4>1, <4>2, AppendProperties
      <4> QED
        BY <4>3, InList
    <3> QED
      BY <3>1, <3>2
  <2>3. HandedThen(item) \/ item \in Range(remaining)
    <3>1. CASE link[c] = "up"
      <4>1. item.id \in hist'.got[c]
        BY <1>2, <3>1
      <4> QED
        BY <1>2, <4>1 DEF HandedThen
    <3>2. CASE link[c] # "up"
      <4>1. remaining = Append(lists[c], item)
        BY <1>2, <3>2
      <4>2. Len(lists[c]) \in Nat
        BY <1>3
      <4>3. Len(lists[c]) + 1 \in 1 .. Len(remaining) /\ remaining[Len(lists[c]) + 1] = item
        BY <1>2, <1>3, <4>1, <4>2, AppendProperties
      <4> QED
        BY <4>3, InList
    <3> QED
      BY <3>1, <3>2
  <2>4. ASSUME NEW k \in 1 .. (i + 1) - 1
        PROVE  HandedThen(lists[queue][k]) \/ lists[queue][k] \in Range(remaining)
    <3>1. CASE k = i
      BY <1>2, <2>1, <2>3, <3>1
    <3>2. CASE k # i
      <4>1. k \in 1 .. i - 1
        BY <3>2
      <4>2. CASE Handed(lists[queue][k])
        BY <1>7, <4>2, StaysHanded
      <4> QED
        BY <2>1, <2>2, <4>1, <4>2
    <3> QED
      BY <3>1, <3>2
  <2> QED
    BY <2>1, <2>4
<1> QED
  BY <1>1, <1>2, <1>3, <1>4, <1>5, <1>6, <1>7, <1>8, FlushedKeeps

\* At the start nothing was queued.
LEMMA QInitEstablishes == Init => QInv
<1> SUFFICES ASSUME Init PROVE QInv
  OBVIOUS
<1>1. Flushing = {}
  <2>1. \A c \in Cids : H(c) \in Procs /\ H(c) # Main
    BY HandlersAreProcs
  <2>2. Task("none").at = "none"
    BY TaskIsProc DEF Places
  <2> QED
    BY <2>1, <2>2 DEF Init, Flushing
<1>2. QueueOK
  <2>1. lists \in [Lists -> Seq(Items)]
    BY DEF Init, Lists
  <2>2. queue \in Lists /\ Settled(queue)
    BY DEF Init, Lists, Settled
  <2>3. flush \in [Cids -> [from: Lists, i: Nat]]
    BY DEF Init, NoFlush, Lists
  <2>4. hist \in [got: [Cids -> SUBSET Nat], parked: SUBSET Items, overlap: BOOLEAN]
    BY DEF Init
  <2> QED
    BY <1>1, <2>1, <2>2, <2>3, <2>4 DEF QueueOK
<1>3. IdsInv
  <2>1. proc[Main].at = "idle" /\ file = NoFile /\ given.ids = 0
    BY HandlersAreProcs, TaskIsProc DEF Init, Places
  <2> QED
    BY <2>1, GatewayBounds DEF IdsInv, Unread
<1> QED
  BY <1>1, <1>2, <1>3 DEF QInv, FlushInv, LostOnlyByOverlap, Init

\* Every step.
LEMMA QStepPreserves == IInv /\ QInv /\ [Next]_vars => QInv'
<1> SUFFICES ASSUME IInv, QInv, [Next]_vars PROVE QInv'
  OBVIOUS
<1>1. IdsInv /\ QueueOK /\ FlushInv /\ LostOnlyByOverlap
  BY DEF QInv
<1>2. CASE UNCHANGED vars
  BY <1>1, <1>2 DEF vars, QInv, IdsInv, QueueOK, FlushInv, LostOnlyByOverlap,
     Unread, LastId, Flushing, Settled, Handed
<1>3. CASE MainStep \/ WriteCommand \/ StdinLine \/ StdinEnds
  <2>1. IdsInv'
    BY <1>1, <1>3, IdsOfRead, IdsOfMain, IdsOfInput DEF MainStep
  <2> QED
    BY <1>1, <1>3, <2>1, MainAppends, AppendsKeeps DEF QInv
<1>4. CASE (\E p \in Procs : TaskStep(p)) \/ \E a \in Anims : Animate(a)
  <2>1. IdsInv'
    BY <1>1, <1>4, TasksLeaveMain, IdsStay
  <2> QED
    BY <1>1, <1>4, <2>1, TasksAppend, AppendsKeeps DEF QInv
<1>5. ASSUME NEW c \in Cids, Connect(c) \/ HandlerStep(c) \/ ButtonClicked(c)
                             \/ Display(c) \/ LinkCloses(c)
      PROVE  QInv'
  <2>1. IdsInv'
    BY <1>1, <1>5, IdsOfConnections
  <2>2. CASE Connect(c)
    BY <2>1, <2>2, QueueOfConnect DEF QInv
  <2>3. CASE FlushResumes(c)
    BY <2>1, <2>3, QueueOfFlush DEF QInv
  <2>4. CASE HandlerEnds(c) \/ ButtonClicked(c) \/ Display(c) \/ LinkCloses(c)
    BY <1>1, <2>1, <2>4, ConnectionsAppend, AppendsKeeps DEF QInv
  <2> QED
    BY <1>5, <2>2, <2>3, <2>4 DEF HandlerStep
<1> QED
  BY <1>2, <1>3, <1>4, <1>5 DEF Next

\* A command that main takes up is one it has not read, and what os.remove takes
\* was read or was written while main was busy.
LEMMA CommandsStep ==
  ASSUME IInv, IdsInv, [Next]_vars
  PROVE  (Executes => ~given.read) /\ (Removes => given.read \/ given.late)
<1>1. Registry /\ Main \in Procs
  BY TwoParts, HandlersAreProcs
<1>2. ASSUME MainStays \/ (UNCHANGED file /\ proc'[Main] = proc[Main])
      PROVE  ~Executes /\ ~Removes
  BY <1>2 DEF MainStays, Executes, Removes, At
<1>3. CASE UNCHANGED vars
  BY <1>2, <1>3 DEF vars
<1>4. CASE ReadCommand
  BY <1>4 DEF ReadCommand, Executes, Removes, IdsInv, At
<1>5. CASE WriteCommand
  BY <1>5 DEF WriteCommand, Executes, Removes, At, NoFile, Kinds
<1>6. CASE RemoveCommand
  BY <1>6 DEF RemoveCommand, Executes, Removes, IdsInv, At
<1>7. CASE NextFrame \/ StdinOta
  BY <1>7 DEF NextFrame, StdinOta, Executes, Removes, At
<1>8. CASE StdinLine \/ StdinEnds
  BY <1>8 DEF StdinLine, StdinEnds, Executes, Removes
<1>9. CASE (\E p \in Procs : TaskStep(p)) \/ \E a \in Anims : Animate(a)
  BY <1>2, <1>9, TasksLeaveMain
<1>10. ASSUME NEW c \in Cids, Connect(c) \/ HandlerStep(c) \/ ButtonClicked(c)
                             \/ Display(c) \/ LinkCloses(c)
      PROVE  ~Executes /\ ~Removes
  <2>1. CASE Display(c)
    <3>1. proc'[Main] = proc[Main]
      BY <1>1, <2>1, DisplayLeavesMain
    <3> QED
      BY <1>2, <2>1, <3>1 DEF Display
  <2>2. CASE ~Display(c)
    BY <1>2, <1>10, <2>2, ConnectionsLeaveMain
  <2> QED
    BY <2>1, <2>2
<1> QED
  BY <1>3, <1>4, <1>5, <1>6, <1>7, <1>8, <1>9, <1>10 DEF Next, MainStep

-----------------------------------------------------------------------------

\* Where every message of the queue is, beside IInv.
THEOREM QueueInvariant == Spec => [](IInv /\ QInv)
<1>1. Init => IInv /\ QInv
  BY InitEstablishes, QInitEstablishes
<1>2. (IInv /\ QInv) /\ [Next]_vars => (IInv /\ QInv)'
  BY StepPreserves, QStepPreserves
<1> QED BY <1>1, <1>2, PTL DEF Spec

\* What was queued is still in the queue or was handed to a connection it is
\* for, unless two flushes overlapped, for any number of connections and
\* messages (ws_server.py:152-162).
THEOREM QueueIsLostOnlyByOverlap == Spec => []LostOnlyByOverlap
<1>1. IInv /\ QInv => LostOnlyByOverlap
  BY DEF QInv
<1> QED BY <1>1, QueueInvariant, PTL

\* No command is executed twice, and none is removed unread but one written
\* while another was executed, for any number of connections and messages
\* (ws_server.py:115-143).
THEOREM CommandsOnce == Spec => CommandsRunOnce
<1>1. (IInv /\ QInv) /\ [Next]_vars =>
        [(Executes => ~given.read) /\ (Removes => given.read \/ given.late)]_vars
  BY CommandsStep DEF QInv
<1> QED BY <1>1, QueueInvariant, PTL DEF Spec, CommandsRunOnce

-----------------------------------------------------------------------------
(* The messages: claims. *)

\* What a claim comes from: the same message, for the same target or for all.
Narrows(s, t) == s.id = t.id /\ (s.target = t.target \/ t.target = Everyone)

\* What clashes did so before it was narrowed.
LEMMA NarrowClash ==
  ASSUME NEW s, NEW t, NEW u, NEW v, Narrows(s, u), Narrows(t, v), Clash(s, t)
  PROVE  Clash(u, v)
BY DEF Narrows, Clash

\* Either way round.
LEMMA ClashSymmetric ==
  ASSUME NEW s, NEW t, Clash(s, t)
  PROVE  Clash(t, s)
BY DEF Clash

\* A step keeps some claims, and makes others of those it does not keep: none
\* clashes with another, and none is met already.
LEMMA ClaimsMove ==
  ASSUME ClaimsInv, ~hist.overlap, NEW Kept \in SUBSET Claims, NEW Mine,
         Claims' \subseteq Kept \cup Mine,
         \A x \in Kept : ItemOf(x)' = ItemOf(x),
         \A x \in Mine : \E o \in Claims \ Kept : Narrows(ItemOf(x)', ItemOf(o)),
         \A x, y \in Mine : x # y => ~Clash(ItemOf(x)', ItemOf(y)'),
         \A c \in Cids : \A m \in hist'.got[c] :
           \/ m \in hist.got[c]
           \/ /\ \E o \in Claims \ Kept : Narrows(Item(m, c), ItemOf(o))
              /\ \A x \in Mine : ~Clash(ItemOf(x)', Item(m, c))
  PROVE  ClaimsInv'
<1>1. /\ \A x, y \in Claims : x # y => ~Clash(ItemOf(x), ItemOf(y))
      /\ \A x \in Claims, c \in Cids :
           ItemOf(x).target \in {Everyone, c} => ItemOf(x).id \notin hist.got[c]
  BY DEF ClaimsInv
<1>2. ASSUME NEW x \in Kept, NEW y \in Mine
      PROVE  ~Clash(ItemOf(x)', ItemOf(y)')
  <2>1. PICK o \in Claims \ Kept : Narrows(ItemOf(y)', ItemOf(o))
    OBVIOUS
  <2>2. ~Clash(ItemOf(x), ItemOf(o))
    BY <1>1, <2>1
  <2>3. ItemOf(x)' = ItemOf(x)
    OBVIOUS
  <2> QED
    BY <2>1, <2>2, <2>3 DEF Narrows, Clash
<1>3. ASSUME NEW x \in Claims', NEW y \in Claims', x # y
      PROVE  ~Clash(ItemOf(x)', ItemOf(y)')
  <2>1. CASE x \in Kept /\ y \in Kept
    <3>1. ItemOf(x)' = ItemOf(x) /\ ItemOf(y)' = ItemOf(y)
      BY <2>1
    <3> QED
      BY <1>1, <1>3, <2>1, <3>1
  <2>2. CASE x \in Kept /\ y \in Mine
    BY <1>2, <2>2
  <2>3. CASE x \in Mine /\ y \in Kept
    <3>1. ~Clash(ItemOf(y)', ItemOf(x)')
      BY <1>2, <2>3
    <3> QED
      BY <3>1 DEF Clash
  <2>4. CASE x \in Mine /\ y \in Mine
    BY <1>3, <2>4
  <2> QED
    BY <2>1, <2>2, <2>3, <2>4
<1>4. ASSUME NEW x \in Claims', NEW c \in Cids, ItemOf(x)'.target \in {Everyone, c},
             ItemOf(x)'.id \in hist'.got[c]
      PROVE  FALSE
  <2> DEFINE m == ItemOf(x)'.id
  <2>1. CASE x \in Kept
    <3>1. ItemOf(x)' = ItemOf(x)
      BY <2>1
    <3>2. ItemOf(x).id \notin hist.got[c]
      BY <1>1, <1>4, <2>1, <3>1
    <3>3. PICK o \in Claims \ Kept : Narrows(Item(m, c), ItemOf(o))
      BY <1>4, <3>1, <3>2
    <3>4. ~Clash(ItemOf(x), ItemOf(o))
      BY <1>1, <2>1, <3>3
    <3>5. Narrows(Item(m, c), ItemOf(o)) /\ m = ItemOf(x).id
          /\ ItemOf(x).target \in {Everyone, c}
      BY <1>4, <3>1, <3>3
    <3> HIDE DEF m
    <3> QED
      BY <3>4, <3>5 DEF Narrows, Clash, Item
  <2>2. CASE x \in Mine
    <3>1. PICK o \in Claims \ Kept : Narrows(ItemOf(x)', ItemOf(o))
      BY <2>2
    <3>2. ItemOf(o).target \in {Everyone, c} /\ ItemOf(o).id = m
      BY <1>4, <3>1 DEF Narrows
    <3>3. m \notin hist.got[c]
      BY <1>1, <3>2
    <3>4. ~Clash(ItemOf(x)', Item(m, c))
      BY <1>4, <2>2, <3>3
    <3> QED
      BY <1>4, <3>4 DEF Clash, Item
  <2> QED
    BY <2>1, <2>2
<1> QED
  BY <1>3, <1>4 DEF ClaimsInv

\* The claims, by kind.
LEMMA ClaimKinds ==
  \A x : x \in Claims <=>
    \/ \E l \in Lists : \E n \in Waits(l) : x = ListClaim(l, n)
    \/ \E p \in Procs : proc[p].id # 0 /\ \E c \in proc[p].out : x = SendClaim(p, c)
    \/ \E i \in Unsent : x = IdClaim(i)
BY DEF Claims

\* The same after a step.
LEMMA ClaimKindsThen ==
  \A x : x \in Claims' <=>
    \/ \E l \in Lists : \E n \in Waits(l)' : x = ListClaim(l, n)
    \/ \E p \in Procs : proc'[p].id # 0 /\ \E c \in proc'[p].out : x = SendClaim(p, c)
    \/ \E i \in Unsent' : x = IdClaim(i)
BY DEF Claims

\* What each kind promises.
LEMMA ClaimItems ==
  /\ \A l, n : ItemOf(ListClaim(l, n)) = lists[l][n]
  /\ \A p \in Procs : \A c : ItemOf(SendClaim(p, c)) = Item(proc[p].id, c)
  /\ \A i : ItemOf(IdClaim(i)) = Item(i, Everyone)
<1>1. \A p \in Procs : <<p[1], p[2]>> = p
  BY DEF Procs, Main, Jobs, Anims, Handlers
<1> QED
  BY <1>1 DEF ItemOf, ListClaim, SendClaim, IdClaim

\* The same after a step.
LEMMA ClaimItemsThen ==
  /\ \A l, n : ItemOf(ListClaim(l, n))' = lists'[l][n]
  /\ \A p \in Procs : \A c : ItemOf(SendClaim(p, c))' = Item(proc'[p].id, c)
  /\ \A i : ItemOf(IdClaim(i))' = Item(i, Everyone)
<1>1. \A p \in Procs : <<p[1], p[2]>> = p
  BY DEF Procs, Main, Jobs, Anims, Handlers
<1> QED
  BY <1>1 DEF ItemOf, ListClaim, SendClaim, IdClaim

\* No claim is two.
LEMMA ClaimsDiffer ==
  /\ \A l, m, n, k : ListClaim(l, m) = ListClaim(n, k) => l = n /\ m = k
  /\ \A p, q \in Procs : \A c, d : SendClaim(p, c) = SendClaim(q, d) => p = q /\ c = d
  /\ \A i, j : IdClaim(i) = IdClaim(j) => i = j
  /\ \A l, n, p, c : ListClaim(l, n) # SendClaim(p, c)
  /\ \A l, n, i : ListClaim(l, n) # IdClaim(i)
  /\ \A p, c, i : SendClaim(p, c) # IdClaim(i)
<1>1. \A p \in Procs : <<p[1], p[2]>> = p
  BY DEF Procs, Main, Jobs, Anims, Handlers
<1> QED
  BY <1>1 DEF ListClaim, SendClaim, IdClaim

\* Nothing is queued or sent.
LEMMA ClaimsShrink ==
  ASSUME ClaimsInv, UNCHANGED <<lists, queue, flush, hist>>, Flushing' = Flushing,
         Unsent' \subseteq Unsent,
         \A q \in Procs : proc'[q] = proc[q] \/ proc'[q].out = {}
  PROVE  ClaimsInv'
<1>1. CASE hist.overlap
  BY <1>1 DEF ClaimsInv
<1>2. CASE ~hist.overlap
  <2>1. \A l : Waits(l)' = Waits(l)
    BY DEF Waits
  <2>2. Claims' \subseteq Claims
    <3> SUFFICES ASSUME NEW x \in Claims' PROVE x \in Claims
      OBVIOUS
    <3>1. CASE \E l \in Lists : \E n \in Waits(l)' : x = ListClaim(l, n)
      BY <2>1, <3>1, ClaimKinds
    <3>2. CASE \E p \in Procs : proc'[p].id # 0
                                /\ \E c \in proc'[p].out : x = SendClaim(p, c)
      BY <3>2, ClaimKinds
    <3>3. CASE \E i \in Unsent' : x = IdClaim(i)
      BY <3>3, ClaimKinds
    <3> QED
      BY <3>1, <3>2, <3>3, ClaimKindsThen
  <2>3. ASSUME NEW x \in Claims' PROVE ItemOf(x)' = ItemOf(x)
    <3>1. CASE \E l \in Lists : \E n \in Waits(l)' : x = ListClaim(l, n)
      BY <3>1, ClaimItems, ClaimItemsThen
    <3>2. CASE \E p \in Procs : proc'[p].id # 0
                                /\ \E c \in proc'[p].out : x = SendClaim(p, c)
      BY <3>2, ClaimItems, ClaimItemsThen
    <3>3. CASE \E i \in Unsent' : x = IdClaim(i)
      BY <3>3, ClaimItems, ClaimItemsThen
    <3> QED
      BY <3>1, <3>2, <3>3, ClaimKindsThen
  <2>4. Claims' \in SUBSET Claims /\ Claims' \subseteq Claims' \cup {}
    BY <2>2
  <2>5. \A c \in Cids : \A m \in hist'.got[c] : m \in hist.got[c]
    OBVIOUS
  <2> QED
    BY <1>2, <2>3, <2>4, <2>5, ClaimsMove
<1> QED
  BY <1>1, <1>2

\* What a task that sends does not touch.
Others(p) ==
  {x \in Claims : \/ \E l \in Lists : \E n \in Waits(l) : x = ListClaim(l, n)
                  \/ \E q \in Procs : /\ q # p /\ proc[q].id # 0
                                      /\ \E c \in proc[q].out : x = SendClaim(q, c)
                  \/ \E i \in Unsent' : x = IdClaim(i)}

\* A task p sends message id on, or queues it, for connections that a claim
\* stood for which is no other task's.
LEMMA SendClaims ==
  ASSUME QueueOK, ClaimsInv, ~hist.overlap, NEW p \in Procs, NEW id \in Nat,
         NEW added \in Seq(Items), Appends(added), NEW after,
         proc \in [Procs -> TaskStates],
         proc' = [proc EXCEPT ![p] = after], after.out \subseteq Cids,
         after.out # {} => after.id = id,
         Unsent' \subseteq Unsent,
         \A c \in after.out : id # 0 =>
           \E o \in Claims \ Others(p) : Narrows(Item(id, c), ItemOf(o)),
         \A n \in 1 .. Len(added) :
           \E o \in Claims \ Others(p) : Narrows(added[n], ItemOf(o)),
         \A m, n \in 1 .. Len(added) : m # n => ~Clash(added[m], added[n]),
         \A n \in 1 .. Len(added), c \in after.out : ~Clash(added[n], Item(id, c)),
         \A c \in Cids : \A m \in hist'.got[c] :
           \/ m \in hist.got[c]
           \/ /\ \E o \in Claims \ Others(p) : Narrows(Item(m, c), ItemOf(o))
              /\ \A n \in 1 .. Len(added) : ~Clash(added[n], Item(m, c))
              /\ \A d \in after.out : ~Clash(Item(id, d), Item(m, c))
  PROVE  ClaimsInv'
<1>0. PICK list \in Lists, base \in Nat : list = queue /\ base = Len(lists[queue])
  BY DEF QueueOK
<1> DEFINE Kept == Others(p)
           Mine == {ListClaim(list, base + n) : n \in 1 .. Len(added)}
                     \cup {SendClaim(p, c) : c \in {d \in after.out : id # 0}}
<1>1. /\ lists \in [Lists -> Seq(Items)] /\ queue \in Lists /\ Settled(queue)
      /\ Len(added) \in Nat
  BY DEF QueueOK
<1>2. /\ queue' = queue /\ flush' = flush /\ Flushing' = Flushing
      /\ queue \notin Flushing
  <2>1. queue \notin Flushing
    BY <1>1 DEF Settled, Flushing, Cids
  <2> QED
    BY <2>1, AppendsSettled DEF Appends
<1>3. /\ proc'[p] = after /\ \A q \in Procs : q # p => proc'[q] = proc[q]
      /\ \A c \in after.out : after.id = id
  OBVIOUS
<1>4. \A l \in Lists : l # queue => lists'[l] = lists[l] /\ Waits(l)' = Waits(l)
  BY <1>2, AppendsLists DEF Waits
<1>5. /\ Len(lists'[list]) = base + Len(added)
      /\ \A n \in 1 .. Len(added) : lists'[list][base + n] = added[n]
  BY <1>0, <1>1, AppendsLists
<1>6. \A l \in Lists : \A n \in Waits(l) : lists'[l][n] = lists[l][n]
  BY <1>1, AppendsLists DEF Waits
<1>7. \A n \in Waits(list)' : \/ n \in Waits(list)
                              \/ \E k \in 1 .. Len(added) : n = base + k
  <2> SUFFICES ASSUME NEW n \in Waits(list)', ~(n \in 1 .. base)
               PROVE  \E k \in 1 .. Len(added) : n = base + k
    BY <1>0, <1>2 DEF Waits
  <2>1. n \in 1 .. base + Len(added)
    BY <1>0, <1>2, <1>5 DEF Waits
  <2>2. n - base \in 1 .. Len(added) /\ n = base + (n - base)
    BY <1>0, <1>1, <2>1
  <2> QED
    BY <2>2
<1>8. Claims' \subseteq Kept \cup Mine
  <2> SUFFICES ASSUME NEW x \in Claims' PROVE x \in Kept \cup Mine
    OBVIOUS
  <2>1. ASSUME NEW l \in Lists, NEW n \in Waits(l)', x = ListClaim(l, n)
        PROVE  x \in Kept \cup Mine
    <3>1. CASE n \in Waits(l)
      BY <2>1, <3>1, ClaimKinds DEF Others
    <3>2. CASE n \notin Waits(l)
      <4>1. l = list
        BY <1>0, <1>4, <3>2
      <4>2. PICK k \in 1 .. Len(added) : n = base + k
        BY <1>7, <3>2, <4>1
      <4> QED
        BY <2>1, <4>1, <4>2
    <3> QED
      BY <3>1, <3>2
  <2>2. ASSUME NEW q \in Procs, proc'[q].id # 0, NEW c \in proc'[q].out,
               x = SendClaim(q, c)
        PROVE  x \in Kept \cup Mine
    <3>1. CASE q = p
      <4>1. proc'[q] = after
        BY <1>3, <3>1
      <4>2. c \in after.out /\ after.id # 0
        BY <2>2, <4>1
      <4>3. id # 0
        BY <1>3, <4>2
      <4> QED
        BY <2>2, <3>1, <4>2, <4>3
    <3>2. CASE q # p
      BY <1>3, <2>2, <3>2, ClaimKinds DEF Others
    <3> QED
      BY <3>1, <3>2
  <2>3. ASSUME NEW i \in Unsent', x = IdClaim(i)
        PROVE  x \in Kept \cup Mine
    BY <2>3, ClaimKinds DEF Others
  <2> QED
    BY <2>1, <2>2, <2>3, ClaimKindsThen
<1>9. \A x \in Kept : ItemOf(x)' = ItemOf(x)
  <2> SUFFICES ASSUME NEW x \in Kept PROVE ItemOf(x)' = ItemOf(x)
    OBVIOUS
  <2>1. CASE \E l \in Lists : \E n \in Waits(l) : x = ListClaim(l, n)
    BY <1>6, <2>1, ClaimItems, ClaimItemsThen
  <2>2. CASE \E q \in Procs : /\ q # p /\ proc[q].id # 0
                              /\ \E c \in proc[q].out : x = SendClaim(q, c)
    BY <1>3, <2>2, ClaimItems, ClaimItemsThen
  <2>3. CASE \E i \in Unsent' : x = IdClaim(i)
    BY <2>3, ClaimItems, ClaimItemsThen
  <2> QED
    BY <2>1, <2>2, <2>3 DEF Others
<1>10. \A x \in Mine :
         \/ \E n \in 1 .. Len(added) : x = ListClaim(list, base + n)
                                       /\ ItemOf(x)' = added[n]
         \/ \E c \in after.out : /\ id # 0 /\ x = SendClaim(p, c)
                                 /\ ItemOf(x)' = Item(id, c)
  <2>1. \A n \in 1 .. Len(added) : ItemOf(ListClaim(list, base + n))' = added[n]
    BY <1>5, ClaimItemsThen
  <2>2. \A c \in after.out : ItemOf(SendClaim(p, c))' = Item(id, c)
    <3>1. \A c : ItemOf(SendClaim(p, c))' = Item(after.id, c)
      BY <1>3, ClaimItemsThen
    <3> QED
      BY <1>3, <3>1
  <2> SUFFICES ASSUME NEW x \in Mine
               PROVE  \/ \E n \in 1 .. Len(added) : x = ListClaim(list, base + n)
                                                   /\ ItemOf(x)' = added[n]
                      \/ \E c \in after.out : /\ id # 0 /\ x = SendClaim(p, c)
                                             /\ ItemOf(x)' = Item(id, c)
    OBVIOUS
  <2>3. CASE \E n \in 1 .. Len(added) : x = ListClaim(list, base + n)
    BY <2>1, <2>3
  <2>4. CASE \E c \in after.out : id # 0 /\ x = SendClaim(p, c)
    BY <2>2, <2>4
  <2> QED
    BY <2>3, <2>4
<1> HIDE DEF Mine
<1>11. \A x \in Mine : \E o \in Claims \ Kept : Narrows(ItemOf(x)', ItemOf(o))
  BY <1>10
<1>12. ASSUME NEW x \in Mine, NEW y \in Mine, x # y
       PROVE  ~Clash(ItemOf(x)', ItemOf(y)')
  <2>1. ASSUME NEW m \in 1 .. Len(added), NEW n \in 1 .. Len(added),
               x = ListClaim(list, base + m), ItemOf(x)' = added[m],
               y = ListClaim(list, base + n), ItemOf(y)' = added[n]
        PROVE  ~Clash(ItemOf(x)', ItemOf(y)')
    <3>1. m # n
      BY <1>12, <2>1
    <3> QED
      BY <2>1, <3>1
  <2>2. ASSUME NEW m \in 1 .. Len(added), NEW d \in after.out,
               ItemOf(x)' = added[m], ItemOf(y)' = Item(id, d)
        PROVE  ~Clash(ItemOf(x)', ItemOf(y)')
    BY <2>2
  <2>3. ASSUME NEW c \in after.out, NEW n \in 1 .. Len(added),
               ItemOf(x)' = Item(id, c), ItemOf(y)' = added[n]
        PROVE  ~Clash(ItemOf(x)', ItemOf(y)')
    <3>1. ~Clash(added[n], Item(id, c))
      OBVIOUS
    <3> QED
      BY <2>3, <3>1, ClashSymmetric
  <2>4. ASSUME NEW c \in after.out, NEW d \in after.out,
               x = SendClaim(p, c), ItemOf(x)' = Item(id, c),
               y = SendClaim(p, d), ItemOf(y)' = Item(id, d)
        PROVE  ~Clash(ItemOf(x)', ItemOf(y)')
    <3>1. c # d /\ c # Everyone /\ d # Everyone
      BY <1>12, <2>4 DEF Cids, Everyone
    <3> QED
      BY <2>4, <3>1 DEF Clash, Item
  <2> QED
    BY <1>10, <2>1, <2>2, <2>3, <2>4
<1>13. \A c \in Cids : \A m \in hist'.got[c] :
         \/ m \in hist.got[c]
         \/ /\ \E o \in Claims \ Kept : Narrows(Item(m, c), ItemOf(o))
            /\ \A x \in Mine : ~Clash(ItemOf(x)', Item(m, c))
  BY <1>10
<1>14. Kept \in SUBSET Claims
  BY DEF Others
<1> HIDE DEF Kept
<1> QED
  BY <1>8, <1>9, <1>11, <1>12, <1>13, <1>14, ClaimsMove

\* The claim that an unused id is, when it is used.
LEMMA UnusedId ==
  ASSUME NEW p, NEW id \in Unsent, id \notin Unsent'
  PROVE  /\ IdClaim(id) \in Claims \ Others(p)
         /\ \A t : Narrows(Item(id, t), ItemOf(IdClaim(id)))
<1>1. IdClaim(id) \in Claims
  BY ClaimKinds
<1>2. IdClaim(id) \notin Others(p)
  BY ClaimsDiffer DEF Others
<1>3. \A t : Narrows(Item(id, t), ItemOf(IdClaim(id)))
  BY ClaimItems DEF Narrows, Item
<1> QED
  BY <1>1, <1>2, <1>3

\* Messages for two connections do not clash.
LEMMA TwoTargets ==
  ASSUME NEW m, NEW c \in Cids, NEW d \in Cids, c # d
  PROVE  ~Clash(Item(m, c), Item(m, d))
BY DEF Clash, Item, Cids, Everyone

\* A message is sent or queued for the first time, or is of an animation.
LEMMA FreshClaims ==
  ASSUME Registry, QueueOK, ClaimsInv, NEW p \in Procs, NEW next \in TaskStates,
         next.out = {}, NEW id \in Nat, NEW target \in {Everyone} \cup Cids,
         \/ id = 0 /\ target = Everyone /\ SendTo(p, next, id, target)
         \/ /\ id \in Unsent /\ id \notin Unsent' /\ id # 0
            /\ SendTo(p, next, id, target) \/ UpdateDisplay(p, next, id, target),
         p \in Handlers => next.at = "boot" /\ proc[p].at = "boot",
         UNCHANGED <<queue, flush>>, Unsent' \subseteq Unsent
  PROVE  ClaimsInv'
<1>1. hist \in Histories /\ hist.got \in [Cids -> SUBSET Nat]
      /\ proc \in [Procs -> TaskStates]
  BY DEF QueueOK, Histories, Registry, ConnectionsOK
<1>2. CASE /\ lists' = [lists EXCEPT ![queue] = Append(@, Item(id, target))]
           /\ hist' = [hist EXCEPT !.parked = @ \cup {Item(id, target)}]
           /\ proc' = [proc EXCEPT ![p] = next]
           /\ id \in Unsent /\ id \notin Unsent' /\ id # 0
  <2> DEFINE added == <<Item(id, target)>>
  <2>1. Item(id, target) \in Items
    BY <1>2 DEF Items, Item, Lists, Everyone
  <2>2. Appends(added) /\ added \in Seq(Items)
    <3>1. StaysPut
      BY <1>2, MoveStaysPut
    <3>2. Appends(<<Item(id, target)>>)
      BY <1>2, <2>1, <3>1, OneAppends
    <3> QED
      BY <2>1, <3>2
  <2>3. hist'.got = hist.got /\ hist'.overlap = hist.overlap
    BY <1>1, <1>2 DEF Histories
  <2>4. CASE hist.overlap
    BY <2>3, <2>4 DEF ClaimsInv
  <2>5. CASE ~hist.overlap
    <3>1. /\ Len(added) = 1 /\ added[1] = Item(id, target)
          /\ \A n \in 1 .. Len(added) : n = 1
      OBVIOUS
    <3> HIDE DEF added
    <3>2. \A n \in 1 .. Len(added) :
            \E o \in Claims \ Others(p) : Narrows(added[n], ItemOf(o))
      BY <1>2, <3>1, UnusedId
    <3>3. \A m, n \in 1 .. Len(added) : m # n => ~Clash(added[m], added[n])
      BY <3>1
    <3>4. \A c \in Cids : \A m \in hist'.got[c] : m \in hist.got[c]
      BY <2>3
    <3> QED
      BY <1>1, <1>2, <2>2, <2>5, <3>2, <3>3, <3>4, SendClaims
  <2> QED
    BY <2>4, <2>5
<1>3. CASE \E out \in SUBSET Cids : GoThrough(p, next, out, id, hist.got)
  <2>1. PICK out \in SUBSET Cids : GoThrough(p, next, out, id, hist.got)
    BY <1>3
  <2> DEFINE added == Parks(out, id)
  <2>2. Appends(added)
    BY <1>1, <2>1, GoThroughAppends
  <2>3. PICK after : Goes(p, next, id, out, after)
    BY <2>1, GoThroughMoves
  <2>4. PICK sorted \in Seq(Passed(out)) :
          /\ id # 0 \/ sorted = <<>>
          /\ Len(added) = Len(sorted)
          /\ \A n \in 1 .. Len(sorted) : added[n] = Item(id, sorted[n])
          /\ \A m, n \in 1 .. Len(sorted) : sorted[m] = sorted[n] => m = n
    BY ParksLists
  <2>5. added \in Seq(Items)
    BY ParksLists
  <2>6. hist'.got = hist.got /\ hist'.overlap = hist.overlap
    <3>1. hist' = [hist EXCEPT !.got = hist.got, !.parked = @ \cup Range(added)]
      BY <2>1 DEF GoThrough, Parks, Passed
    <3> HIDE DEF added
    <3> QED
      BY <1>1, <3>1 DEF Histories
  <2> HIDE DEF added
  <2>7. /\ proc' = [proc EXCEPT ![p] = after]
        /\ after.out \subseteq out \ Passed(out) /\ after.out \subseteq Cids
        /\ after.out # {} => after.id = id
    BY <2>3 DEF Goes
  <2>8. \A n \in 1 .. Len(added) : /\ id # 0 /\ added[n] = Item(id, sorted[n])
                                   /\ sorted[n] \in Passed(out) /\ sorted[n] \in Cids
    <3>1. \A n \in 1 .. Len(sorted) : sorted[n] \in Passed(out) /\ id # 0
      BY <2>4, ElementOfSeq
    <3> QED
      BY <2>4, <3>1 DEF Passed
  <2>9. CASE hist.overlap
    BY <2>6, <2>9 DEF ClaimsInv
  <2>10. CASE ~hist.overlap
    <3>1. id # 0 => \A t : \E o \in Claims \ Others(p) : Narrows(Item(id, t), ItemOf(o))
      BY UnusedId
    <3>2. \A n \in 1 .. Len(added) :
            \E o \in Claims \ Others(p) : Narrows(added[n], ItemOf(o))
      BY <2>8, <3>1
    <3>3. \A m, n \in 1 .. Len(added) : m # n => ~Clash(added[m], added[n])
      <4> SUFFICES ASSUME NEW m \in 1 .. Len(added), NEW n \in 1 .. Len(added), m # n
                   PROVE  ~Clash(added[m], added[n])
        OBVIOUS
      <4>1. sorted[m] # sorted[n]
        BY <2>4
      <4> QED
        BY <2>8, <4>1, TwoTargets
    <3>4. \A n \in 1 .. Len(added), c \in after.out : ~Clash(added[n], Item(id, c))
      BY <2>7, <2>8, TwoTargets
    <3>5. \A c \in Cids : \A m \in hist'.got[c] : m \in hist.got[c]
      BY <2>6
    <3> QED
      BY <1>1, <2>2, <2>5, <2>7, <2>10, <3>1, <3>2, <3>3, <3>4, <3>5, SendClaims
  <2> QED
    BY <2>9, <2>10
<1>4. \/ \E out \in SUBSET Cids : GoThrough(p, next, out, id, hist.got)
      \/ /\ lists' = [lists EXCEPT ![queue] = Append(@, Item(id, target))]
         /\ hist' = [hist EXCEPT !.parked = @ \cup {Item(id, target)}]
         /\ proc' = [proc EXCEPT ![p] = next]
         /\ id \in Unsent /\ id \notin Unsent' /\ id # 0
  <2>1. CASE SendTo(p, next, id, target)
    <3>1. CASE target # Everyone /\ target \notin ESP32s
      BY <2>1, <3>1 DEF SendTo
    <3>2. CASE ~(target # Everyone /\ target \notin ESP32s)
      <4> DEFINE out == IF target # Everyone THEN {target} ELSE ESP32s
      <4>1. GoThrough(p, next, out, id, hist.got)
        BY <2>1, <3>2 DEF SendTo
      <4>2. out \in SUBSET Cids
        BY <3>2 DEF Registry, ConnectionsOK
      <4> HIDE DEF out
      <4> QED
        BY <4>1, <4>2
    <3> QED
      BY <3>1, <3>2
  <2>2. CASE ~SendTo(p, next, id, target)
    BY <2>2 DEF UpdateDisplay
  <2> QED
    BY <2>1, <2>2
<1> QED
  BY <1>2, <1>3, <1>4

\* A broadcast or a message goes on: p's claims are met or kept.
LEMMA ResumedClaims ==
  ASSUME IInv, QueueOK, ClaimsInv, NEW p \in Procs, SendResumes(p),
         Unsent' \subseteq Unsent
  PROVE  ClaimsInv'
<1>1. Registry /\ hist \in Histories /\ proc \in [Procs -> TaskStates]
      /\ hist.got \in [Cids -> SUBSET Nat]
  BY TwoParts DEF QueueOK, Histories, Registry, ConnectionsOK
<1>2. /\ proc[p] \in TaskStates /\ proc[p].id \in Nat /\ proc[p].out \in SUBSET Cids
      /\ proc[p].out # {}
  BY <1>1 DEF TaskStates, SendResumes
<1>3. p \in Handlers => proc[p].at = "boot"
  BY <1>1, <1>2, HandlersAreProcs DEF Registry, HandlersInPlace
<1> DEFINE c   == Min(proc[p].out)
           up  == link[c] = "up"
           sent == {proc[p].id} \ {0}
<1>4. c \in proc[p].out
  <2>1. proc[p].out \in SUBSET Nat
    BY <1>2 DEF Cids
  <2> QED
    BY <1>2, <2>1, MinIsLeast
<1>5. PICK id \in Nat, to \in Cids, out \in SUBSET Cids, got \in [Cids -> SUBSET Nat] :
        /\ id = proc[p].id /\ to \in proc[p].out /\ out \subseteq proc[p].out
        /\ GoThrough(p, proc[p], out, id, got)
        /\ \A d \in Cids : hist.got[d] \subseteq got[d]
        /\ \A d \in Cids : \A m \in got[d] :
             m \in hist.got[d] \/ (d = to /\ m = id /\ id # 0 /\ to \notin out)
  <2>1. GoThrough(p, proc[p], IF up THEN proc[p].out \ {c} ELSE proc[p].out,
          proc[p].id, IF up THEN [hist.got EXCEPT ![c] = @ \cup sent] ELSE hist.got)
    BY DEF SendResumes
  <2>2. c \in Cids /\ sent \in SUBSET Nat
    BY <1>2, <1>4
  <2> HIDE DEF c
  <2>3. CASE up
    <3> DEFINE got == [hist.got EXCEPT ![c] = @ \cup sent]
    <3>1. GoThrough(p, proc[p], proc[p].out \ {c}, proc[p].id, got)
      BY <2>1, <2>3
    <3>2. /\ got \in [Cids -> SUBSET Nat]
          /\ \A d \in Cids : hist.got[d] \subseteq got[d]
          /\ \A d \in Cids : \A m \in got[d] : m \in hist.got[d] \/ (d = c /\ m \in sent)
      BY <1>1, <2>2
    <3>3. \A m \in sent : m = proc[p].id /\ proc[p].id # 0
      OBVIOUS
    <3> DEFINE rest == proc[p].out \ {c}
    <3>4. /\ rest \in SUBSET Cids /\ rest \subseteq proc[p].out /\ c \notin rest
          /\ GoThrough(p, proc[p], rest, proc[p].id, got)
      BY <1>2, <3>1
    <3> HIDE DEF got, sent, rest
    <3>5. \A d \in Cids : \A m \in got[d] :
            m \in hist.got[d] \/ (d = c /\ m = proc[p].id /\ proc[p].id # 0 /\ c \notin rest)
      BY <3>2, <3>3, <3>4
    <3> QED
      BY <1>2, <1>4, <2>2, <3>2, <3>4, <3>5
  <2>4. CASE ~up
    <3>1. GoThrough(p, proc[p], proc[p].out, proc[p].id, hist.got)
      BY <2>1, <2>4
    <3> QED
      BY <1>1, <1>2, <1>4, <2>2, <3>1
  <2> QED
    BY <2>3, <2>4
<1>6. UNCHANGED <<queue, flush>>
  BY DEF SendResumes
<1> HIDE DEF c, up, sent
<1> DEFINE added == Parks(out, id)
<1>7. Appends(added)
  BY <1>1, <1>2, <1>3, <1>5, <1>6, GoThroughAppends
<1>8. PICK after : Goes(p, proc[p], id, out, after)
  BY <1>2, <1>5, GoThroughMoves
<1>9. PICK sorted \in Seq(Passed(out)) :
        /\ id # 0 \/ sorted = <<>>
        /\ Len(added) = Len(sorted)
        /\ \A n \in 1 .. Len(sorted) : added[n] = Item(id, sorted[n])
        /\ \A m, n \in 1 .. Len(sorted) : sorted[m] = sorted[n] => m = n
  BY ParksLists
<1>10. added \in Seq(Items)
  BY ParksLists
<1>11. hist'.got = got /\ hist'.overlap = hist.overlap
  <2>1. hist' = [hist EXCEPT !.got = got, !.parked = @ \cup Range(added)]
    BY <1>5 DEF GoThrough, Parks, Passed
  <2> HIDE DEF added
  <2> QED
    BY <1>1, <2>1 DEF Histories
<1> HIDE DEF added
<1>12. /\ proc' = [proc EXCEPT ![p] = after]
       /\ after.out \subseteq out \ Passed(out) /\ after.out \subseteq Cids
       /\ after.out # {} => after.id = id
  BY <1>8 DEF Goes
<1>13. \A n \in 1 .. Len(added) : /\ id # 0 /\ added[n] = Item(id, sorted[n])
                                  /\ sorted[n] \in Passed(out)
                                  /\ sorted[n] \in out /\ sorted[n] \in Cids
  <2>1. \A n \in 1 .. Len(sorted) : sorted[n] \in Passed(out) /\ id # 0
    BY <1>9, ElementOfSeq
  <2> QED
    BY <1>9, <2>1 DEF Passed
<1>14. CASE hist.overlap
  BY <1>11, <1>14 DEF ClaimsInv
<1>15. CASE ~hist.overlap
  <2>1. \A d \in proc[p].out : id # 0 =>
          \E o \in Claims \ Others(p) : Narrows(Item(id, d), ItemOf(o))
    <3> SUFFICES ASSUME NEW d \in proc[p].out, id # 0
                 PROVE  \E o \in Claims \ Others(p) : Narrows(Item(id, d), ItemOf(o))
      OBVIOUS
    <3>1. SendClaim(p, d) \in Claims
      BY <1>5, ClaimKinds
    <3>2. SendClaim(p, d) \notin Others(p)
      BY ClaimsDiffer DEF Others
    <3>3. ItemOf(SendClaim(p, d)) = Item(id, d)
      BY <1>5, ClaimItems
    <3>4. Narrows(Item(id, d), ItemOf(SendClaim(p, d)))
      BY <3>3 DEF Narrows
    <3> QED
      BY <3>1, <3>2, <3>4
  <2>2. \A n \in 1 .. Len(added) :
          \E o \in Claims \ Others(p) : Narrows(added[n], ItemOf(o))
    BY <1>5, <1>13, <2>1
  <2>3. \A m, n \in 1 .. Len(added) : m # n => ~Clash(added[m], added[n])
    <3> SUFFICES ASSUME NEW m \in 1 .. Len(added), NEW n \in 1 .. Len(added), m # n
                 PROVE  ~Clash(added[m], added[n])
      OBVIOUS
    <3>1. sorted[m] # sorted[n]
      BY <1>9
    <3> QED
      BY <1>13, <3>1, TwoTargets
  <2>4. \A n \in 1 .. Len(added), d \in after.out : ~Clash(added[n], Item(id, d))
    BY <1>12, <1>13, TwoTargets
  <2>5. ASSUME NEW d \in Cids, NEW m \in hist'.got[d], m \notin hist.got[d]
        PROVE  /\ \E o \in Claims \ Others(p) : Narrows(Item(m, d), ItemOf(o))
               /\ \A n \in 1 .. Len(added) : ~Clash(added[n], Item(m, d))
               /\ \A e \in after.out : ~Clash(Item(id, e), Item(m, d))
    <3>1. d = to /\ m = id /\ id # 0 /\ to \notin out
      BY <1>5, <1>11, <2>5
    <3>2. \A n \in 1 .. Len(added) : ~Clash(added[n], Item(m, d))
      BY <1>13, <3>1, TwoTargets
    <3>3. \A e \in after.out : ~Clash(Item(id, e), Item(m, d))
      BY <1>12, <3>1, TwoTargets
    <3> QED
      BY <1>5, <2>1, <3>1, <3>2, <3>3
  <2>6. \A d \in after.out : id # 0 =>
          \E o \in Claims \ Others(p) : Narrows(Item(id, d), ItemOf(o))
    BY <1>5, <1>12, <2>1
  <2> QED
    BY <1>1, <1>7, <1>10, <1>12, <1>15, <2>2, <2>3, <2>4, <2>5, <2>6, SendClaims
<1> QED
  BY <1>14, <1>15

(* The steps: unused ids. *)

\* Where main was, or elsewhere, it has no id that it had not.
LEMMA UnsentStays ==
  ASSUME UNCHANGED <<file, given>>,
         \/ proc'[Main].at = proc[Main].at /\ proc'[Main].k = proc[Main].k
         \/ proc'[Main].at \notin {"frames", "ota"}
  PROVE  Unsent' \subseteq Unsent
BY DEF Unsent, Unread, LastId

\* No input, or one more, and no id but those that were unused.
LEMMA UnsentOfFile ==
  ASSUME IInv, IdsInv, WriteCommand \/ RemoveCommand \/ StdinEnds
  PROVE  Unsent' \subseteq Unsent
<1>1. Registry /\ OthersOK /\ Main \in Procs
  BY TwoParts, HandlersAreProcs
<1>2. /\ \A at \in Places : Task(at).at = at
      /\ {"idle", "parked"} \subseteq Places
  BY TaskIsProc DEF Places
<1>3. CASE WriteCommand
  <2>1. PICK kind \in Kinds, target \in {Everyone} \cup Cids, n \in {1, 2}, a \in {0, 1} :
          /\ n = IF kind = "frames" THEN 2 ELSE 1
          /\ given.ids + n <= MaxMsgs
          /\ file' = [kind |-> kind, target |-> target, id |-> given.ids + 1]
          /\ given' = [given EXCEPT !.ids = @ + n, !.anims = @ + a, !.read = FALSE,
                                 !.late = proc[Main].at # "idle"]
    BY <1>3 DEF WriteCommand, May, Fresh
  <2>2. given'.ids = given.ids + n /\ given.ids \in Nat
    BY <1>1, <2>1 DEF OthersOK
  <2>3. /\ file'.id > given.ids
        /\ LastId(file)' > given.ids
    BY <2>1, <2>2 DEF LastId
  <2>4. UNCHANGED proc
    BY <1>3 DEF WriteCommand
  <2>5. ASSUME NEW i \in 1 .. MaxMsgs, i > given'.ids PROVE i > given.ids
    BY <2>1, <2>2, <2>5
  <2> QED
    BY <2>3, <2>4, <2>5 DEF Unsent
<1>4. CASE RemoveCommand
  <2>1. proc'[Main].at = "idle" /\ ~Unread' /\ given' = given
    BY <1>1, <1>2, <1>4 DEF RemoveCommand, Unread, Registry, ConnectionsOK
  <2> QED
    BY <2>1 DEF Unsent
<1>5. CASE StdinEnds
  <2>1. proc'[Main].at = "parked"
    BY <1>1, <1>2, <1>5 DEF StdinEnds, Registry, ConnectionsOK
  <2> QED
    BY <1>5, <2>1, UnsentStays DEF StdinEnds
<1> QED
  BY <1>3, <1>4, <1>5

\* A command that is read uses its id, or keeps the second for its frame.
LEMMA UnsentOfRead ==
  ASSUME IInv, IdsInv, ReadCommand
  PROVE  Unsent' \subseteq Unsent /\ file.id \in Unsent /\ file.id \notin Unsent'
<1>1. /\ file.id \in 1 .. MaxMsgs /\ file.id <= given.ids /\ given.ids \in Nat
      /\ Unread
  BY ReadIds, GatewayBounds DEF IdsInv, ReadCommand, At, Unread
<1>2. given'.ids = given.ids /\ ~Unread'
  BY DEF ReadCommand, IInv, TypeOK, OthersOK, Unread
<1>3. \/ proc'[Main].at \notin {"frames", "ota"}
      \/ proc'[Main].k = LastId(file) /\ LastId(file) = file.id + 1
  BY ReadMoves DEF LastId
<1>4. \A i \in Unsent' : i > given.ids \/ (i = LastId(file) /\ LastId(file) = file.id + 1)
  BY <1>2, <1>3 DEF Unsent
<1>5. Unsent' \subseteq 1 .. MaxMsgs
  BY DEF Unsent
<1>6. Unsent' \subseteq Unsent
  BY <1>1, <1>4, <1>5 DEF Unsent
<1>7. file.id \in Unsent
  BY <1>1 DEF Unsent
<1>8. file.id \notin Unsent'
  BY <1>1, <1>4
<1> QED
  BY <1>6, <1>7, <1>8

\* The second message of a command or a line uses the id it was given.
LEMMA UnsentOfSecond ==
  ASSUME IInv, IdsInv, NextFrame \/ StdinOta
  PROVE  /\ Unsent' \subseteq Unsent
         /\ proc[Main].k \in Unsent /\ proc[Main].k \notin Unsent'
<1>1. Registry /\ OthersOK /\ Main \in Procs /\ given.ids \in Nat
      /\ file.id \in Nat /\ LastId(file) \in Nat
  BY TwoParts, HandlersAreProcs DEF OthersOK, LastId
<1>2. proc[Main].at \in {"frames", "ota"} /\ UNCHANGED <<file, source, given>>
  BY DEF NextFrame, StdinOta, At
<1>3. /\ proc[Main].k \in 1 .. given.ids /\ given.ids <= MaxMsgs
      /\ Unread => proc[Main].k < file.id
  BY <1>2 DEF IdsInv
<1>4. \A at \in Places : Task(at) \in TaskStates /\ Task(at).at = at
  BY TaskIsProc
<1>5. proc'[Main].at \in {"remove", "idle", "crashed"}
  BY <1>1, <1>3, <1>4, SendToMoves DEF NextFrame, StdinOta, Everyone, Places
<1>6. Unsent' \subseteq Unsent
  BY <1>2, <1>5, UnsentStays
<1>7. proc[Main].k \in Unsent
  <2>1. proc[Main].k \in 1 .. MaxMsgs
    BY <1>1, <1>3, GatewayBounds
  <2> QED
    BY <1>2, <2>1 DEF Unsent
<1>8. proc[Main].k \notin Unsent'
  <2>1. file.id <= LastId(file)
    BY <1>1 DEF LastId
  <2>2. Unread => proc[Main].k # file.id /\ proc[Main].k # LastId(file)
    BY <1>1, <1>3, <2>1
  <2>3. ~(proc[Main].k > given.ids)
    BY <1>1, <1>3
  <2>4. Unread' = Unread /\ file' = file /\ LastId(file)' = LastId(file)
    BY <1>2 DEF Unread, LastId
  <2> QED
    BY <1>2, <1>5, <2>2, <2>3, <2>4 DEF Unsent
<1> QED
  BY <1>6, <1>7, <1>8

\* A line from stdin, or a canary task, takes the next id.
LEMMA UnsentOfFresh ==
  ASSUME IInv, IdsInv, StdinLine \/ \E c \in Cids : Display(c)
  PROVE  Unsent' \subseteq Unsent /\ Fresh \in Unsent /\ Fresh \notin Unsent'
<1>1. /\ Registry /\ Main \in Procs /\ given.ids \in Nat /\ MaxMsgs \in Nat
      /\ given \in [ids: Nat, anims: Nat, read: BOOLEAN, late: BOOLEAN]
      /\ file.id \in Nat /\ LastId(file) \in Nat
  BY TwoParts, HandlersAreProcs, GatewayBounds DEF OthersOK, LastId
<1>2. /\ \A at \in Places : Task(at) \in TaskStates /\ Task(at).at = at
      /\ {"none", "idle"} \subseteq Places
  BY TaskIsProc DEF Places
<1>3. file.id <= LastId(file)
  BY <1>1 DEF LastId
<1>4. Fresh = given.ids + 1 /\ Fresh \in Nat
  BY <1>1 DEF Fresh
<1>5. CASE StdinLine
  <2>1. source = "stdin" /\ file = NoFile /\ file' = file
    BY <1>5 DEF StdinLine, IdsInv
  <2>2. ~Unread'
    BY <2>1 DEF Unread
  <2>3. /\ Fresh <= MaxMsgs /\ given'.ids >= Fresh
        /\ \/ proc'[Main].at \in {"idle", "crashed"}
           \/ proc'[Main].k = Fresh + 1
    <3>1. CASE /\ May(1) /\ given' = [given EXCEPT !.ids = Fresh]
               /\ \/ UpdateDisplay(Main, Task("idle"), Fresh, Everyone)
                  \/ SendTo(Main, Task("idle"), Fresh, Everyone)
      <4>1. proc'[Main].at \in {"idle", "crashed"}
        BY <1>1, <1>2, <1>4, <3>1, SendToMoves DEF Everyone
      <4>2. Fresh <= MaxMsgs /\ given'.ids = Fresh
        BY <1>1, <1>4, <3>1 DEF May
      <4> QED
        BY <1>1, <1>4, <4>1, <4>2
    <3>2. CASE /\ May(2) /\ given' = [given EXCEPT !.ids = Fresh + 1]
               /\ UpdateDisplay(Main, [Task("ota") EXCEPT !.k = Fresh + 1],
                                Fresh, Everyone)
      <4> DEFINE next == [Task("ota") EXCEPT !.k = Fresh + 1]
      <4>1. Task("ota") \in TaskStates /\ Fresh + 1 \in Nat
        BY <1>1, <1>4, TaskIsProc DEF Places
      <4>2. next \in TaskStates /\ next.k = Fresh + 1
        BY <4>1 DEF TaskStates
      <4>3. UpdateDisplay(Main, next, Fresh, Everyone)
        BY <3>2
      <4> HIDE DEF next
      <4>4. proc'[Main].at = "crashed" \/ proc'[Main].k = Fresh + 1
        BY <1>1, <1>4, <4>2, <4>3, SendToMoves DEF Everyone
      <4>5. Fresh <= MaxMsgs /\ given'.ids = Fresh + 1
        BY <1>1, <1>4, <3>2 DEF May
      <4> QED
        BY <1>1, <1>4, <4>4, <4>5
    <3> QED
      BY <1>5, <3>1, <3>2 DEF StdinLine
  <2>4. \A i \in Unsent' : i \in 1 .. MaxMsgs /\ (i > given'.ids \/ i = Fresh + 1)
    BY <2>2, <2>3 DEF Unsent
  <2>5. given'.ids \in Nat
    BY <1>1, <1>5 DEF StdinLine, Fresh
  <2>6. \A i \in 1 .. MaxMsgs : i > given.ids => i \in Unsent
    BY DEF Unsent
  <2>7. \A i \in Unsent' : i \in 1 .. MaxMsgs /\ i > given.ids /\ i # Fresh
    BY <1>1, <1>4, <2>3, <2>4, <2>5
  <2>8. Fresh \in 1 .. MaxMsgs /\ Fresh > given.ids
    BY <1>1, <1>4, <2>3
  <2> QED
    BY <2>6, <2>7, <2>8
<1>6. CASE \E c \in Cids : Display(c)
  <2>1. PICK c \in Cids : Display(c)
    BY <1>6
  <2>2. /\ <<"job", c>> \in Procs /\ <<"job", c>> # Main
    BY HandlersAreProcs DEF Jobs, Main
  <2>3. proc'[Main] = proc[Main]
    BY <1>1, <1>2, <1>4, <2>1, <2>2, SendToMoves DEF Display
  <2>4. /\ given'.ids = Fresh /\ given'.read = given.read /\ Fresh <= MaxMsgs
        /\ file' = file
    BY <1>1, <1>4, <2>1 DEF Display, May
  <2>5. /\ Unread' = Unread /\ LastId(file)' = LastId(file)
        /\ Unread => LastId(file) <= given.ids
        /\ proc[Main].at \in {"frames", "ota"} => proc[Main].k \in 1 .. given.ids
    BY <2>4 DEF Unread, LastId, IdsInv
  <2>6. \A i \in Unsent' : i \in Unsent
    <3>1. \A i \in 1 .. MaxMsgs : i > given'.ids => i > given.ids
      BY <1>1, <1>4, <2>4
    <3> QED
      BY <2>3, <2>4, <2>5, <3>1 DEF Unsent
  <2>7. Fresh \in 1 .. MaxMsgs /\ Fresh > given.ids
    BY <1>1, <1>4, <2>4
  <2>8. Fresh \in Unsent
    BY <2>7 DEF Unsent
  <2>9. Fresh \notin Unsent'
    <3>1. /\ ~(Fresh > given'.ids)
          /\ Unread => Fresh # file.id /\ Fresh # LastId(file)
          /\ proc[Main].at \in {"frames", "ota"} => Fresh # proc[Main].k
      BY <1>1, <1>3, <1>4, <2>4, <2>5
    <3> QED
      BY <2>3, <2>4, <2>5, <3>1 DEF Unsent
  <2> QED
    BY <2>6, <2>8, <2>9
<1> QED
  BY <1>5, <1>6

(* The steps: claims. *)

\* A task moves, and nothing is sent or queued.
LEMMA QuietClaims ==
  ASSUME Registry, ClaimsInv, NEW p \in Procs, NEW next, next.out = {},
         p \in Handlers => {proc[p].at, next.at} \cap {"none", "flush"} = {},
         proc' = [proc EXCEPT ![p] = next], Unsent' \subseteq Unsent,
         UNCHANGED <<lists, queue, flush, hist>>
  PROVE  ClaimsInv'
<1>1. StaysPut
  BY MoveStaysPut
<1>2. \A c \in Cids : proc'[H(c)].at = "flush" <=> proc[H(c)].at = "flush"
  BY <1>1 DEF StaysPut
<1>3. Flushing' = Flushing
  BY <1>2 DEF Flushing
<1>4. \A q \in Procs : proc'[q] = proc[q] \/ proc'[q].out = {}
  BY DEF Registry, ConnectionsOK
<1> QED
  BY <1>3, <1>4, ClaimsShrink

\* The steps of the tasks.
LEMMA TaskClaims ==
  ASSUME IInv, QInv, ClaimsInv,
         \/ \E p \in Procs : TaskStep(p)
         \/ \E a \in Anims : Animate(a)
  PROVE  ClaimsInv'
<1>1. Registry /\ QueueOK /\ proc \in [Procs -> TaskStates]
  BY TwoParts DEF QInv, Registry, ConnectionsOK
<1>2. Unsent' \subseteq Unsent
  BY TasksLeaveMain, UnsentStays DEF MainStays
<1>3. /\ \A at \in Places : Task(at) \in TaskStates /\ Task(at).at = at
                            /\ Task(at).out = {}
      /\ {"remove", "dots", "over", "serve"} \subseteq Places
  BY TaskIsProc DEF Places
<1>4. ASSUME NEW p \in Procs, BootStep(p) PROVE ClaimsInv'
  <2>1. /\ proc[p] \in TaskStates /\ proc[p].at = "boot" /\ proc[p].out = {}
        /\ UNCHANGED <<queue, flush>>
    BY <1>1, <1>4 DEF BootStep, At
  <2>2. CASE proc[p].k = 0 \/ ESP32s = {}
    <3> DEFINE next == Task(IF p = Main THEN "remove" ELSE "serve")
    <3>1. proc' = [proc EXCEPT ![p] = next] /\ UNCHANGED <<lists, hist>>
      BY <1>4, <2>2 DEF BootStep
    <3>2. next.at \notin {"none", "flush"} /\ next.out = {}
      BY <1>3
    <3> HIDE DEF next
    <3> QED
      BY <1>1, <1>2, <2>1, <3>1, <3>2, QuietClaims
  <2>3. CASE ~(proc[p].k = 0 \/ ESP32s = {})
    <3> DEFINE next == [proc[p] EXCEPT !.k = @ - 1]
    <3>1. SendTo(p, next, 0, Everyone)
      BY <1>4, <2>3 DEF BootStep
    <3>2. next \in TaskStates /\ next.at = "boot" /\ next.out = {}
      BY <2>1, <2>3 DEF TaskStates
    <3> HIDE DEF next
    <3> QED
      BY <1>1, <1>2, <2>1, <3>1, <3>2, FreshClaims
  <2> QED
    BY <2>2, <2>3
<1>5. ASSUME NEW p \in Procs, SetWaiting(p) PROVE ClaimsInv'
  <2>1. p \notin Handlers /\ UNCHANGED <<lists, queue, flush, hist>>
    BY <1>1, <1>5, HandlersAreProcs DEF Registry, HandlersInPlace, SetWaiting, At
  <2>2. PICK a \in Anims :
          proc' = [proc EXCEPT ![p] = Task("remove"), ![a] = Task("dots")]
    BY <1>5 DEF SetWaiting
  <2>3. a \in Procs /\ \A c \in Cids : H(c) # a /\ H(c) # p /\ H(c) \in Procs
    BY <2>1, HandlersAreProcs
  <2>4. \A c \in Cids : proc'[H(c)] = proc[H(c)]
    BY <1>1, <2>2, <2>3
  <2>5. Flushing' = Flushing
    BY <2>4 DEF Flushing
  <2>6. \A q \in Procs : proc'[q] = proc[q] \/ proc'[q].out = {}
    BY <1>1, <1>3, <2>2, <2>3
  <2> QED
    BY <1>2, <2>1, <2>5, <2>6, ClaimsShrink
<1>6. ASSUME NEW a \in Anims, Animate(a) PROVE ClaimsInv'
  <2>1. /\ a \in Procs /\ a \notin Handlers /\ proc[a] \in TaskStates
        /\ proc[a].out = {} /\ UNCHANGED <<queue, flush>>
    BY <1>1, <1>6, HandlersAreProcs DEF Anims, Handlers, Animate, At
  <2>2. CASE SendTo(a, proc[a], 0, Everyone)
    BY <1>1, <1>2, <2>1, <2>2, FreshClaims
  <2>3. CASE proc' = [proc EXCEPT ![a] = Task("over")] /\ UNCHANGED <<lists, hist>>
    BY <1>1, <1>2, <1>3, <2>1, <2>3, QuietClaims
  <2> QED
    BY <1>6, <2>2, <2>3 DEF Animate
<1> QED
  BY <1>1, <1>2, <1>4, <1>5, <1>6, ResumedClaims DEF TaskStep

\* The steps of main, and of its inputs.
LEMMA MainClaims ==
  ASSUME IInv, QInv, ClaimsInv, MainStep \/ WriteCommand \/ StdinLine \/ StdinEnds
  PROVE  ClaimsInv'
<1>1. /\ Registry /\ QueueOK /\ IdsInv /\ Main \in Procs /\ Main \notin Handlers
      /\ OthersOK
  BY TwoParts, HandlersAreProcs DEF QInv
<1>2. /\ \A at \in Places : Task(at) \in TaskStates /\ Task(at).at = at
                            /\ Task(at).out = {}
      /\ \A at \in Places, k \in Nat : /\ [Task(at) EXCEPT !.k = k] \in TaskStates
                                       /\ [Task(at) EXCEPT !.k = k].out = {}
      /\ {"remove", "idle", "frames", "ota", "setwait", "ended", "boot", "parked"}
           \subseteq Places
  <2>1. \A at \in Places : Task(at) \in TaskStates /\ Task(at).at = at
                           /\ Task(at).out = {}
    BY TaskIsProc
  <2>2. \A t \in TaskStates, k \in Nat : /\ [t EXCEPT !.k = k] \in TaskStates
                                         /\ [t EXCEPT !.k = k].out = t.out
    BY DEF TaskStates
  <2> QED
    BY <2>1, <2>2 DEF Places
<1>3. UNCHANGED <<queue, flush>>
  BY DEF MainStep, ReadCommand, NextFrame, RemoveCommand, StdinOta, WriteCommand,
     StdinLine, StdinEnds
<1>4. ASSUME UNCHANGED <<lists, hist>>, Unsent' \subseteq Unsent,
             \E next : proc' = [proc EXCEPT ![Main] = next] /\ next.out = {}
      PROVE  ClaimsInv'
  BY <1>1, <1>3, <1>4, QuietClaims
<1>5. CASE ReadCommand
  <2>1. file.id \in Nat \ {0} /\ file.target \in {Everyone} \cup Cids
    BY <1>1, <1>5, ReadIds
  <2>2. Unsent' \subseteq Unsent /\ file.id \in Unsent /\ file.id \notin Unsent'
    BY <1>1, <1>5, UnsentOfRead
  <2>3. CASE UpdateDisplay(Main, Task("remove"), file.id, file.target)
    BY <1>1, <1>2, <1>3, <2>1, <2>2, <2>3, FreshClaims
  <2>4. CASE SendTo(Main, [Task("frames") EXCEPT !.k = file.id + 1],
                    file.id, file.target)
    <3> DEFINE next == [Task("frames") EXCEPT !.k = file.id + 1]
    <3>1. next \in TaskStates /\ next.out = {}
      <4>1. file.id + 1 \in Nat
        BY <2>1
      <4> QED
        BY <1>2, <4>1
    <3>2. SendTo(Main, next, file.id, file.target)
      BY <2>4
    <3> HIDE DEF next
    <3> QED
      BY <1>1, <1>3, <2>1, <2>2, <3>1, <3>2, FreshClaims
  <2>5. CASE UNCHANGED <<lists, hist>>
             /\ \E next : proc' = [proc EXCEPT ![Main] = next] /\ next.out = {}
    BY <1>4, <2>2, <2>5
  <2>6. /\ Task("setwait").out = {} /\ Task("ended").out = {} /\ Task("remove").out = {}
        /\ [Task("boot") EXCEPT !.k = Letters].out = {}
    BY <1>2, GatewayBounds
  <2> QED
    BY <1>5, <2>3, <2>4, <2>5, <2>6 DEF ReadCommand, Execute, BeginRestore
<1>6. CASE NextFrame \/ StdinOta
  <2>1. /\ Unsent' \subseteq Unsent
        /\ proc[Main].k \in Unsent /\ proc[Main].k \notin Unsent'
    BY <1>1, <1>6, UnsentOfSecond
  <2>2. proc[Main].k \in Nat \ {0}
    BY <2>1 DEF Unsent
  <2>3. \E next \in TaskStates : next.out = {} /\ SendTo(Main, next, proc[Main].k, Everyone)
    BY <1>2, <1>6 DEF NextFrame, StdinOta
  <2> QED
    BY <1>1, <1>3, <2>1, <2>2, <2>3, FreshClaims
<1>7. CASE RemoveCommand \/ StdinEnds
  <2>1. Unsent' \subseteq Unsent
    BY <1>1, <1>7, UnsentOfFile
  <2> QED
    BY <1>2, <1>4, <1>7, <2>1 DEF RemoveCommand, StdinEnds
<1>8. CASE WriteCommand
  <2>1. Unsent' \subseteq Unsent
    BY <1>1, <1>8, UnsentOfFile
  <2>2. UNCHANGED <<lists, queue, flush, hist, proc>>
    BY <1>8 DEF WriteCommand
  <2>3. Flushing' = Flushing
    BY <2>2 DEF Flushing
  <2> QED
    BY <2>1, <2>2, <2>3, ClaimsShrink
<1>9. CASE StdinLine
  <2>1. Unsent' \subseteq Unsent /\ Fresh \in Unsent /\ Fresh \notin Unsent'
    BY <1>1, <1>9, UnsentOfFresh
  <2>2. Fresh \in Nat \ {0} /\ Fresh + 1 \in Nat
    BY <1>1 DEF Fresh, OthersOK
  <2>3. \E next \in TaskStates : /\ next.out = {}
                                 /\ \/ UpdateDisplay(Main, next, Fresh, Everyone)
                                    \/ SendTo(Main, next, Fresh, Everyone)
    BY <1>2, <1>9, <2>2 DEF StdinLine
  <2> QED
    BY <1>1, <1>3, <2>1, <2>2, <2>3, FreshClaims
<1> QED
  BY <1>5, <1>6, <1>7, <1>8, <1>9 DEF MainStep

\* The steps of a connection outside its flush.
LEMMA ConnectionClaims ==
  ASSUME IInv, QInv, ClaimsInv, NEW c \in Cids,
         HandlerEnds(c) \/ ButtonClicked(c) \/ Display(c) \/ LinkCloses(c)
  PROVE  ClaimsInv'
<1>1. /\ Registry /\ QueueOK /\ IdsInv /\ H(c) \in Procs
      /\ <<"job", c>> \in Procs /\ <<"job", c>> \notin Handlers
  BY TwoParts, HandlersAreProcs DEF QInv, Jobs, Handlers
<1>2. /\ \A at \in Places : Task(at) \in TaskStates /\ Task(at).at = at
                            /\ Task(at).out = {}
      /\ {"none", "over", "serve", "boot"} \subseteq Places
  BY TaskIsProc DEF Places
<1>3. CASE Display(c)
  <2>1. Unsent' \subseteq Unsent /\ Fresh \in Unsent /\ Fresh \notin Unsent'
    BY <1>1, <1>3, UnsentOfFresh
  <2>2. Fresh \in Nat \ {0}
    BY <2>1 DEF Unsent
  <2>3. /\ SendTo(<<"job", c>>, Task("none"), Fresh, c)
        /\ UNCHANGED <<queue, flush>>
    BY <1>3 DEF Display
  <2> QED
    BY <1>1, <1>2, <2>1, <2>2, <2>3, FreshClaims
<1>4. CASE HandlerEnds(c) \/ ButtonClicked(c) \/ LinkCloses(c)
  <2>1. Unsent' \subseteq Unsent
    BY <1>4, ConnectionsLeaveMain, UnsentStays DEF HandlerStep, MainStays
  <2>2. CASE LinkCloses(c)
    <3>1. UNCHANGED <<lists, queue, flush, hist, proc>>
      BY <2>2 DEF LinkCloses
    <3>2. Flushing' = Flushing
      BY <3>1 DEF Flushing
    <3> QED
      BY <2>1, <3>1, <3>2, ClaimsShrink
  <2>3. CASE HandlerEnds(c) \/ ButtonClicked(c)
    <3>1. PICK next : /\ proc' = [proc EXCEPT ![H(c)] = next]
                      /\ next.at \in {"over", "serve", "boot"} /\ next.out = {}
      <4>1. /\ [Task("boot") EXCEPT !.k = Letters].at = "boot"
            /\ [Task("boot") EXCEPT !.k = Letters].out = {}
        BY <1>2 DEF TaskStates
      <4> QED
        BY <1>2, <2>3, <4>1 DEF HandlerEnds, ButtonClicked, BeginRestore
    <3>2. proc[H(c)].at = "serve" /\ UNCHANGED <<lists, queue, flush, hist>>
      BY <2>3 DEF HandlerEnds, ButtonClicked, At
    <3> QED
      BY <1>1, <2>1, <3>1, <3>2, QuietClaims
  <2> QED
    BY <1>4, <2>2, <2>3
<1> QED
  BY <1>3, <1>4

(* The flush: claims. *)

\* The flush of c moves on to place j of the queue: what it keeps is the first
\* items of its own list, and then those from place a of the queue.  What was
\* handed to c came from a place before.
FlushMoves(c, list, kept, a, j) ==
  /\ kept \in Nat /\ a \in Nat /\ j \in Nat /\ a <= j
  /\ 1 .. kept \subseteq Waits(c) /\ a .. j - 1 \subseteq Waits(list)
  /\ \A n \in 1 .. kept : lists'[c][n] = lists[c][n]
  /\ \A n \in 1 .. j - a : lists'[c][kept + n] = lists[list][a + n - 1]
  /\ Waits(c)' \subseteq 1 .. kept + (j - a)
  /\ \A n \in Waits(list)' : /\ n \in Waits(list) /\ n \in Nat /\ n >= j
                              /\ lists'[list][n] = lists[list][n]
  /\ \A l \in Lists : l # c /\ l # list => Waits(l)' = {}
  /\ \A d \in Cids : \A m \in hist'.got[d] :
       \/ m \in hist.got[d]
       \/ /\ d = c
          /\ \E z \in Waits(list) :
               /\ z \in Nat /\ z < a /\ z < j /\ lists[list][z].id = m
               /\ lists[list][z].target \in {Everyone, c}

\* No claim is lost or doubled by that.
LEMMA FlushClaims ==
  ASSUME ClaimsInv, ~hist.overlap, NEW c \in Cids, NEW list \in Lists, list # c,
         NEW kept, NEW a, NEW j, FlushMoves(c, list, kept, a, j),
         \A q \in Procs : proc'[q] = proc[q] \/ proc'[q].out = {},
         Unsent' \subseteq Unsent
  PROVE  ClaimsInv'
<1>0. /\ kept \in Nat /\ a \in Nat /\ j \in Nat /\ a <= j
      /\ 1 .. kept \subseteq Waits(c) /\ a .. j - 1 \subseteq Waits(list)
      /\ \A n \in 1 .. kept : lists'[c][n] = lists[c][n]
      /\ \A n \in 1 .. j - a : lists'[c][kept + n] = lists[list][a + n - 1]
      /\ Waits(c)' \subseteq 1 .. kept + (j - a)
      /\ \A n \in Waits(list)' : /\ n \in Waits(list) /\ n \in Nat /\ n >= j
                                  /\ lists'[list][n] = lists[list][n]
      /\ \A l \in Lists : l # c /\ l # list => Waits(l)' = {}
  BY DEF FlushMoves
<1> DEFINE Left == {ListClaim(c, n) : n \in Waits(c)}
                     \cup {ListClaim(list, n) : n \in {k \in Waits(list) : k \in Nat /\ k < j}}
           Kept == Claims \ Left
           size == kept + (j - a)
           Mine == {ListClaim(c, n) : n \in 1 .. size}
           Place(n) == a + (n - kept) - 1
           Origin(n) == IF n <= kept THEN ListClaim(c, n) ELSE ListClaim(list, Place(n))
<1>1. c \in Lists /\ size \in Nat
  BY <1>0 DEF Lists
<1>2. ASSUME NEW n \in 1 .. size, ~(n <= kept)
      PROVE  /\ Place(n) \in a .. j - 1 /\ Place(n) \in Nat /\ Place(n) < j
             /\ lists'[c][n] = lists[list][Place(n)]
  <2> DEFINE k == n - kept
  <2>1. k \in 1 .. j - a /\ kept + k = n /\ Place(n) = a + k - 1
    BY <1>0, <1>2
  <2>2. Place(n) \in a .. j - 1 /\ Place(n) \in Nat /\ Place(n) < j
    BY <1>0, <1>2
  <2> HIDE DEF k, Place
  <2>3. lists'[c][kept + k] = lists[list][a + k - 1]
    BY <1>0, <2>1
  <2>4. lists'[c][n] = lists[list][Place(n)]
    BY <2>1, <2>3
  <2> QED
    BY <2>2, <2>4
<1>3. ASSUME NEW n \in 1 .. size, n <= kept
      PROVE  n \in Waits(c) /\ lists'[c][n] = lists[c][n]
  BY <1>0, <1>3
<1>4. ASSUME NEW m \in 1 .. size, NEW n \in 1 .. size, ~(m <= kept), ~(n <= kept),
             Place(m) = Place(n)
      PROVE  m = n
  BY <1>0, <1>4
<1> HIDE DEF Place, size
<1>5. \A n \in Waits(c) : ListClaim(c, n) \in Claims /\ ListClaim(c, n) \in Left
  BY <1>1, ClaimKinds
<1>6. \A n \in Waits(list) : /\ ListClaim(list, n) \in Claims
                             /\ n \in Nat /\ n < j => ListClaim(list, n) \in Left
  BY ClaimKinds
<1> HIDE DEF Left
<1>7. ASSUME NEW n \in 1 .. size
      PROVE  /\ Origin(n) \in Claims /\ Origin(n) \in Left
             /\ ItemOf(Origin(n)) = lists'[c][n]
  <2>1. CASE n <= kept
    BY <1>3, <1>5, <2>1, ClaimItems
  <2>2. CASE ~(n <= kept)
    BY <1>0, <1>2, <1>6, <2>2, ClaimItems
  <2> QED
    BY <2>1, <2>2
<1>8. ASSUME NEW m \in 1 .. size, NEW n \in 1 .. size, m # n
      PROVE  Origin(m) # Origin(n)
  BY <1>4, <1>8, ClaimsDiffer
<1>9. ASSUME NEW n \in 1 .. size, NEW z, z < a, Origin(n) = ListClaim(list, z),
             z \in Nat
      PROVE  FALSE
  <2>1. CASE n <= kept
    BY <1>9, <2>1, ClaimsDiffer
  <2>2. CASE ~(n <= kept)
    <3>1. Place(n) = z
      BY <1>9, <2>2, ClaimsDiffer
    <3> QED
      BY <1>0, <1>2, <1>9, <2>2, <3>1
  <2> QED
    BY <2>1, <2>2
<1> HIDE DEF Origin
<1>10. /\ \A x, y \in Claims : x # y => ~Clash(ItemOf(x), ItemOf(y))
       /\ \A x \in Claims, d \in Cids :
            ItemOf(x).target \in {Everyone, d} => ItemOf(x).id \notin hist.got[d]
  BY DEF ClaimsInv
<1>11. Claims' \subseteq Kept \cup Mine
  <2> SUFFICES ASSUME NEW x \in Claims' PROVE x \in Kept \cup Mine
    OBVIOUS
  <2>1. ASSUME NEW l \in Lists, NEW n \in Waits(l)', x = ListClaim(l, n)
        PROVE  x \in Kept \cup Mine
    <3>1. CASE l = c
      <4>1. n \in 1 .. size
        BY <1>0, <2>1, <3>1 DEF size
      <4> QED
        BY <2>1, <3>1, <4>1
    <3>2. CASE l = list
      <4>1. n \in Waits(list) /\ n \in Nat /\ n >= j
        BY <1>0, <2>1, <3>2
      <4>2. x \in Claims
        BY <1>6, <2>1, <3>2, <4>1
      <4>3. x \notin Left
        <5>1. \A k \in Nat : k < j => k # n
          BY <1>0, <4>1
        <5> QED
          BY <2>1, <3>2, <5>1, ClaimsDiffer DEF Left
      <4> QED
        BY <4>2, <4>3
    <3>3. CASE l # c /\ l # list
      BY <1>0, <2>1, <3>3
    <3> QED
      BY <3>1, <3>2, <3>3
  <2>2. ASSUME NEW q \in Procs, proc'[q].id # 0, NEW d \in proc'[q].out,
               x = SendClaim(q, d)
        PROVE  x \in Kept \cup Mine
    <3>1. proc'[q] = proc[q]
      BY <2>2
    <3>2. x \in Claims
      BY <2>2, <3>1, ClaimKinds
    <3>3. x \notin Left
      BY <2>2, ClaimsDiffer DEF Left
    <3> QED
      BY <3>2, <3>3
  <2>3. ASSUME NEW i \in Unsent', x = IdClaim(i)
        PROVE  x \in Kept \cup Mine
    <3>1. x \in Claims
      BY <2>3, ClaimKinds
    <3>2. x \notin Left
      BY <2>3, ClaimsDiffer DEF Left
    <3> QED
      BY <3>1, <3>2
  <2> QED
    BY <2>1, <2>2, <2>3, ClaimKindsThen
<1> DEFINE Live == Kept \cap Claims'
<1>12. \A x \in Live : x \notin Mine => ItemOf(x)' = ItemOf(x)
  <2> SUFFICES ASSUME NEW x \in Claims', x \in Kept, x \notin Mine
               PROVE  ItemOf(x)' = ItemOf(x)
    OBVIOUS
  <2>1. ASSUME NEW l \in Lists, NEW n \in Waits(l)', x = ListClaim(l, n)
        PROVE  ItemOf(x)' = ItemOf(x)
    <3>1. CASE l = c
      <4>1. n \in 1 .. size
        BY <1>0, <2>1, <3>1 DEF size
      <4> QED
        BY <2>1, <3>1, <4>1
    <3>2. CASE l = list
      <4>1. lists'[list][n] = lists[list][n]
        BY <1>0, <2>1, <3>2
      <4> QED
        BY <2>1, <3>2, <4>1, ClaimItems, ClaimItemsThen
    <3> QED
      BY <1>0, <2>1, <3>1, <3>2
  <2>2. ASSUME NEW q \in Procs, proc'[q].id # 0, NEW d \in proc'[q].out,
               x = SendClaim(q, d)
        PROVE  ItemOf(x)' = ItemOf(x)
    <3>1. proc'[q] = proc[q]
      BY <2>2
    <3> QED
      BY <2>2, <3>1, ClaimItems, ClaimItemsThen
  <2>3. ASSUME NEW i \in Unsent', x = IdClaim(i)
        PROVE  ItemOf(x)' = ItemOf(x)
    BY <2>3, ClaimItems, ClaimItemsThen
  <2> QED
    BY <2>1, <2>2, <2>3, ClaimKindsThen
<1> DEFINE Stay == Live \ Mine
<1>13. Claims' \subseteq Stay \cup Mine /\ Stay \in SUBSET Claims
  BY <1>11
<1>14. \A x \in Stay : ItemOf(x)' = ItemOf(x)
  BY <1>12
<1>15. \A x \in Mine : \E n \in 1 .. size : /\ x = ListClaim(c, n)
                                           /\ ItemOf(x)' = lists'[c][n]
  BY ClaimItemsThen
<1>16. \A n \in 1 .. size : Origin(n) \in Claims \ Stay
  BY <1>7
<1> HIDE DEF Kept, Live, Stay, Mine
<1>17. \A x \in Mine : \E o \in Claims \ Stay : Narrows(ItemOf(x)', ItemOf(o))
  <2> SUFFICES ASSUME NEW x \in Mine
               PROVE  \E o \in Claims \ Stay : Narrows(ItemOf(x)', ItemOf(o))
    OBVIOUS
  <2>1. PICK n \in 1 .. size : ItemOf(x)' = lists'[c][n]
    BY <1>15
  <2>2. Narrows(ItemOf(x)', ItemOf(Origin(n)))
    BY <1>7, <2>1 DEF Narrows
  <2> QED
    BY <1>16, <2>2
<1>18. ASSUME NEW x \in Mine, NEW y \in Mine, x # y
       PROVE  ~Clash(ItemOf(x)', ItemOf(y)')
  <2>1. PICK m \in 1 .. size : x = ListClaim(c, m) /\ ItemOf(x)' = lists'[c][m]
    BY <1>15
  <2>2. PICK n \in 1 .. size : y = ListClaim(c, n) /\ ItemOf(y)' = lists'[c][n]
    BY <1>15
  <2>3. m # n
    BY <1>18, <2>1, <2>2
  <2>4. ~Clash(ItemOf(Origin(m)), ItemOf(Origin(n)))
    BY <1>7, <1>8, <1>10, <2>3
  <2> QED
    BY <1>7, <2>1, <2>2, <2>4
<1>19. ASSUME NEW d \in Cids, NEW m \in hist'.got[d], m \notin hist.got[d]
       PROVE  /\ \E o \in Claims \ Stay : Narrows(Item(m, d), ItemOf(o))
              /\ \A x \in Mine : ~Clash(ItemOf(x)', Item(m, d))
  <2>1. PICK z \in Waits(list) :
          /\ d = c /\ z \in Nat /\ z < a /\ z < j /\ lists[list][z].id = m
          /\ lists[list][z].target \in {Everyone, c}
    BY <1>19 DEF FlushMoves
  <2> DEFINE o == ListClaim(list, z)
  <2>2. o \in Claims /\ o \in Left /\ ItemOf(o) = lists[list][z]
    BY <1>6, <2>1, ClaimItems
  <2>3. Narrows(Item(m, d), ItemOf(o))
    BY <2>1, <2>2 DEF Narrows, Item
  <2>4. o \in Claims \ Stay
    BY <2>2 DEF Stay, Live, Kept
  <2>5. ASSUME NEW x \in Mine PROVE ~Clash(ItemOf(x)', Item(m, d))
    <3>1. PICK n \in 1 .. size : ItemOf(x)' = lists'[c][n]
      BY <1>15
    <3>2. Origin(n) # o
      BY <1>0, <1>9, <2>1
    <3>3. ~Clash(ItemOf(Origin(n)), ItemOf(o))
      BY <1>7, <1>10, <2>2, <3>2
    <3>4. Narrows(ItemOf(x)', ItemOf(Origin(n)))
      BY <1>7, <3>1 DEF Narrows
    <3> HIDE DEF o
    <3> QED
      BY <2>3, <3>3, <3>4, NarrowClash
  <2> QED
    BY <2>3, <2>4, <2>5
<1> QED
  BY <1>13, <1>14, <1>17, <1>18, <1>19, ClaimsMove

\* Where an item waits, before the flush of c stops at place j, and after.
LEMMA FlushedWaits ==
  ASSUME QueueOK, NEW c \in Cids, NEW list \in Lists, list = queue,
         proc[H(c)].at \in {"none", "flush"}, Flushing \subseteq {c},
         NEW i \in 1 .. Len(lists[list]) + 1, NEW remaining \in Seq(Items),
         NEW j \in i .. Len(lists[list]) + 1,
         Flushed(c, list, i, remaining, j)
  PROVE  /\ list # c /\ list \notin Flushing
         /\ Waits(c)' = 1 .. Len(lists'[c])
         /\ \A n \in Waits(list)' : /\ n \in 1 .. Len(lists[list]) /\ n >= j
                                    /\ lists'[list][n] = lists[list][n]
         /\ \A l \in Lists : l # c /\ l # list => Waits(l)' = {}
<1>1. list # c /\ list \notin Flushing
  <2>1. Settled(list) /\ ~Settled(c)
    BY DEF QueueOK, Settled, Cids
  <2>2. \A d \in Flushing : d = c
    OBVIOUS
  <2> QED
    BY <2>1, <2>2
<1>2. \/ /\ queue' = c /\ Flushing' = {}
      \/ /\ queue' = list /\ Flushing' = {c} /\ flush'[c].i = j
         /\ lists'[list] = lists[list]
  BY DEF Flushed
<1>3. CASE queue' = c /\ Flushing' = {}
  <2>1. \A l \in Lists : l # c => Waits(l)' = {}
    BY <1>3 DEF Waits
  <2>2. Waits(c)' = 1 .. Len(lists'[c])
    BY <1>3 DEF Waits
  <2> QED
    BY <1>1, <2>1, <2>2
<1>4. CASE /\ queue' = list /\ Flushing' = {c} /\ flush'[c].i = j
           /\ lists'[list] = lists[list]
  <2>1. \A l \in Lists : l # c /\ l # list => Waits(l)' = {}
    BY <1>4 DEF Waits
  <2>2. Waits(c)' = 1 .. Len(lists'[c])
    BY <1>4 DEF Waits
  <2>3. Waits(list)' = {n \in 1 .. Len(lists[list]) : j <= n}
    BY <1>1, <1>4 DEF Waits
  <2>4. Len(lists[list]) \in Nat /\ j \in Nat
    BY DEF QueueOK
  <2>5. \A n \in 1 .. Len(lists[list]) : j <= n => n >= j
    BY <2>4
  <2> QED
    BY <1>1, <1>4, <2>1, <2>2, <2>3, <2>5
<1> QED
  BY <1>2, <1>3, <1>4

\* Nobody but the handler that flushes moves, and it sends to nobody else.
LEMMA FlushOnClaims ==
  ASSUME Registry, NEW c \in Cids, NEW from, NEW i, NEW remaining,
         FlushOn(c, from, i, remaining)
  PROVE  \A q \in Procs : proc'[q] = proc[q] \/ proc'[q].out = {}
<1>1. PICK at \in {"flush", "serve"} : proc' = [proc EXCEPT ![H(c)] = Task(at)]
  BY FlushOnMoves
<1>2. Task(at).out = {}
  BY TaskIsProc DEF Places
<1> QED
  BY <1>1, <1>2 DEF Registry, ConnectionsOK

\* A connection begins its flush.
LEMMA ClaimsOfConnect ==
  ASSUME IInv, QInv, ClaimsInv, NEW c \in Cids, Connect(c)
  PROVE  ClaimsInv'
<1>1. /\ QueueOK /\ Registry /\ proc[H(c)].at = "none"
      /\ queue \in Lists /\ Settled(queue) /\ lists[queue] \in Seq(Items)
      /\ FlushOn(c, queue, 1, <<>>) /\ hist \in Histories
      /\ hist' = [hist EXCEPT !.overlap = @ \/ Flushing # {}]
  BY TwoParts DEF QInv, QueueOK, Histories, Connect
<1>2. hist'.got = hist.got /\ (~hist'.overlap => ~hist.overlap /\ Flushing = {})
  BY <1>1 DEF Histories
<1>3. CASE hist'.overlap
  BY <1>3 DEF ClaimsInv
<1>4. CASE ~hist'.overlap
  <2>1. ~hist.overlap /\ Flushing = {}
    BY <1>2, <1>4
  <2>2. PICK list \in Lists : list = queue
    BY <1>1
  <2>3. /\ <<>> \in Seq(Items) /\ Len(<<>>) = 0 /\ Len(lists[list]) \in Nat
        /\ 1 \in 1 .. Len(lists[list]) + 1
    BY <1>1, <2>2
  <2>4. PICK j \in 1 .. Len(lists[list]) + 1 : Flushed(c, list, 1, <<>>, j)
    BY <1>1, <2>2, <2>3, FlushOnDoes
  <2> DEFINE first == 1
             none  == <<>>
  <2>5. /\ list # c /\ Waits(c)' = 1 .. Len(lists'[c])
        /\ \A n \in Waits(list)' : /\ n \in 1 .. Len(lists[list]) /\ n >= j
                                   /\ lists'[list][n] = lists[list][n]
        /\ \A l \in Lists : l # c /\ l # list => Waits(l)' = {}
    <3>1. /\ proc[H(c)].at \in {"none", "flush"} /\ Flushing \subseteq {c}
          /\ first \in 1 .. Len(lists[list]) + 1 /\ none \in Seq(Items)
          /\ j \in first .. Len(lists[list]) + 1 /\ Flushed(c, list, first, none, j)
      BY <1>1, <2>1, <2>3, <2>4
    <3> HIDE DEF first, none
    <3> QED
      BY <1>1, <2>2, <3>1, FlushedWaits
  <2>6. Waits(list) = 1 .. Len(lists[list])
    BY <2>1, <2>2 DEF Waits
  <2> DEFINE kept == 0
  <2>7. /\ Len(lists'[c]) = kept + (j - first)
        /\ \A n \in 1 .. j - first : lists'[c][kept + n] = lists[list][first + n - 1]
    <3>1. lists'[c] = <<>> \o SubSeq(lists[list], 1, j - 1)
      BY <2>4 DEF Flushed
    <3> QED
      BY <1>1, <2>2, <2>3, <3>1, FlushedRange
  <2>8. /\ j \in Nat /\ kept \in Nat /\ first \in Nat /\ first <= j
        /\ 1 .. kept \subseteq Waits(c) /\ first .. j - 1 \subseteq Waits(list)
        /\ \A n \in 1 .. kept : lists'[c][n] = lists[c][n]
        /\ Waits(c)' \subseteq 1 .. kept + (j - first)
    BY <2>3, <2>5, <2>6, <2>7
  <2>9. \A n \in Waits(list)' : /\ n \in Waits(list) /\ n \in Nat /\ n >= j
                                /\ lists'[list][n] = lists[list][n]
    BY <2>5, <2>6
  <2>10. Unsent' \subseteq Unsent
    BY ConnectionsLeaveMain, UnsentStays DEF MainStays
  <2>11. \A q \in Procs : proc'[q] = proc[q] \/ proc'[q].out = {}
    BY <1>1, FlushOnClaims
  <2>12. \A d \in Cids : \A m \in hist'.got[d] :
           \/ m \in hist.got[d]
           \/ /\ d = c
              /\ \E z \in Waits(list) :
                   /\ z \in Nat /\ z < first /\ z < j /\ lists[list][z].id = m
                   /\ lists[list][z].target \in {Everyone, c}
    BY <1>2
  <2>13. FlushMoves(c, list, kept, first, j)
    <3> HIDE DEF first, kept
    <3> QED
      BY <2>5, <2>7, <2>8, <2>9, <2>12 DEF FlushMoves
  <2> HIDE DEF first, kept, none
  <2> QED
    BY <2>1, <2>5, <2>10, <2>11, <2>13, FlushClaims
<1> QED
  BY <1>3, <1>4

\* A connection goes on with its flush.
LEMMA ClaimsOfFlush ==
  ASSUME IInv, QInv, ClaimsInv, NEW c \in Cids, FlushResumes(c)
  PROVE  ClaimsInv'
<1>1. QueueOK /\ FlushInv /\ Registry
  BY TwoParts DEF QInv
<1> DEFINE from == flush[c].from
<1>2. PICK i \in Nat, remaining \in Seq(Items), item \in Items :
        /\ c \in Flushing /\ i = flush[c].i /\ item = lists[from][i]
        /\ i \in 1 .. Len(lists[from]) /\ item.target \in {Everyone, c}
        /\ remaining = IF link[c] = "up" THEN lists[c] ELSE Append(lists[c], item)
        /\ FlushOn(c, from, i + 1, remaining)
        /\ hist' \in Histories /\ hist'.parked = hist.parked
        /\ hist'.overlap = hist.overlap
        /\ \A d \in Cids : hist'.got[d] = IF d = c /\ link[c] = "up"
                                          THEN hist.got[d] \cup {item.id}
                                          ELSE hist.got[d]
  BY <1>1, FlushResumesDoes
<1>3. CASE hist.overlap
  BY <1>2, <1>3 DEF ClaimsInv
<1>4. CASE ~hist.overlap
  <2>1. Flushing = {c} /\ from = queue
    BY <1>1, <1>2, <1>4 DEF FlushInv
  <2>2. PICK list \in Lists : list = queue
    BY <1>1 DEF QueueOK
  <2>3. /\ lists[list] \in Seq(Items) /\ lists[c] \in Seq(Items) /\ Settled(list)
        /\ Len(lists[list]) \in Nat /\ Len(lists[c]) \in Nat
        /\ proc[H(c)].at \in {"none", "flush"}
    BY <1>1, <1>2, <2>2 DEF QueueOK, Flushing, Lists
  <2> HIDE DEF from
  <2> DEFINE next == i + 1
  <2>4. /\ next \in Nat /\ next = i + 1 /\ next \in 1 .. Len(lists[list]) + 1
        /\ i \in 1 .. Len(lists[list]) /\ item = lists[list][i]
        /\ FlushOn(c, list, next, remaining)
    BY <1>2, <2>1, <2>2, <2>3
  <2> HIDE DEF next
  <2>5. PICK j \in next .. Len(lists[list]) + 1 : Flushed(c, list, next, remaining, j)
    BY <1>1, <2>2, <2>3, <2>4, FlushOnDoes
  <2>6. /\ list # c /\ list \notin Flushing /\ Waits(c)' = 1 .. Len(lists'[c])
        /\ \A n \in Waits(list)' : /\ n \in 1 .. Len(lists[list]) /\ n >= j
                                   /\ lists'[list][n] = lists[list][n]
        /\ \A l \in Lists : l # c /\ l # list => Waits(l)' = {}
    BY <1>1, <2>1, <2>2, <2>3, <2>4, <2>5, FlushedWaits
  <2>7. /\ Len(lists'[c]) = Len(remaining) + (j - next)
        /\ \A n \in 1 .. Len(remaining) : lists'[c][n] = remaining[n]
        /\ \A n \in 1 .. j - next :
             lists'[c][Len(remaining) + n] = lists[list][next + n - 1]
    <3>1. lists'[c] = remaining \o SubSeq(lists[list], next, j - 1)
      BY <2>5 DEF Flushed
    <3>2. lists[list] \in Seq(Items) /\ next \in 1 .. Len(lists[list]) + 1
      BY <2>3, <2>4
    <3>3. remaining \in Seq(Items) /\ j \in next .. Len(lists[list]) + 1 /\ list \in Lists
      OBVIOUS
    <3>4. Len(lists'[c]) = Len(remaining) + (j - next)
      BY <3>1, <3>2, <3>3, FlushedRange
    <3>5. \A n \in 1 .. Len(remaining) : lists'[c][n] = remaining[n]
      BY <3>1, <3>2, <3>3, FlushedRange
    <3>6. \A n \in 1 .. j - next :
            lists'[c][Len(remaining) + n] = lists[list][next + n - 1]
      BY <3>1, <3>2, <3>3, FlushedRange
    <3> QED
      BY <3>4, <3>5, <3>6
  <2> DEFINE kept == Len(lists[c])
  <2>8. /\ Waits(c) = 1 .. kept
        /\ Waits(list) = {n \in 1 .. Len(lists[list]) : i <= n}
    BY <1>2, <2>1, <2>2, <2>6 DEF Waits
  <2>9. /\ j \in Nat /\ i < j /\ next <= j /\ kept \in Nat /\ i \in Nat
    BY <2>3, <2>4
  <2> HIDE DEF kept
  <2>10. \A n \in Waits(list)' : /\ n \in Waits(list) /\ n \in Nat /\ n >= j
                                 /\ lists'[list][n] = lists[list][n]
    BY <2>6, <2>8, <2>9
  <2>11. \E a \in {i, next} : FlushMoves(c, list, kept, a, j)
    <3>1. CASE link[c] = "up"
      <4>1. Len(remaining) = kept /\ \A n \in 1 .. kept : remaining[n] = lists[c][n]
        BY <1>2, <3>1 DEF kept
      <4>2. /\ 1 .. kept \subseteq Waits(c) /\ next .. j - 1 \subseteq Waits(list)
            /\ Waits(c)' \subseteq 1 .. kept + (j - next)
        BY <2>4, <2>6, <2>8, <2>7, <2>9, <4>1
      <4>3. /\ \A n \in 1 .. kept : lists'[c][n] = lists[c][n]
            /\ \A n \in 1 .. j - next : lists'[c][kept + n] = lists[list][next + n - 1]
        BY <2>7, <4>1
      <4>4. \A d \in Cids : \A m \in hist'.got[d] :
              \/ m \in hist.got[d]
              \/ /\ d = c
                 /\ \E z \in Waits(list) :
                      /\ z \in Nat /\ z < next /\ z < j /\ lists[list][z].id = m
                      /\ lists[list][z].target \in {Everyone, c}
        <5>1. /\ i \in Waits(list) /\ i < next /\ i < j /\ i \in Nat
              /\ lists[list][i] = item /\ item.target \in {Everyone, c}
          <6>1. i \in Waits(list)
            BY <2>4, <2>8, <2>9
          <6>2. i < next /\ i < j /\ i \in Nat
            BY <2>4, <2>9
          <6> QED
            BY <1>2, <2>4, <6>1, <6>2
        <5>2. \A d \in Cids : \A m \in hist'.got[d] :
                m \in hist.got[d] \/ (d = c /\ m = item.id)
          BY <1>2
        <5> QED
          BY <5>1, <5>2
      <4>5. FlushMoves(c, list, kept, next, j)
        BY <2>4, <2>6, <2>9, <2>10, <4>2, <4>3, <4>4 DEF FlushMoves
      <4> QED
        BY <4>5
    <3>2. CASE link[c] # "up"
      <4>1. /\ Len(remaining) = kept + 1 /\ remaining[kept + 1] = item
            /\ \A n \in 1 .. kept : remaining[n] = lists[c][n]
        BY <1>2, <2>3, <3>2, AppendProperties DEF kept
      <4>2. /\ 1 .. kept \subseteq Waits(c) /\ i .. j - 1 \subseteq Waits(list)
            /\ Waits(c)' \subseteq 1 .. kept + (j - i)
        <5>1. Len(lists'[c]) = kept + (j - i)
          BY <2>4, <2>7, <2>9, <4>1
        <5> QED
          BY <2>3, <2>4, <2>6, <2>8, <2>9, <5>1
      <4>3. \A n \in 1 .. kept : lists'[c][n] = lists[c][n]
        <5>1. \A n \in 1 .. kept : n \in 1 .. Len(remaining)
          BY <2>9, <4>1
        <5> QED
          BY <2>7, <4>1, <5>1
      <4>4. ASSUME NEW n \in 1 .. j - i
            PROVE  lists'[c][kept + n] = lists[list][i + n - 1]
        <5>1. CASE n = 1
          <6>1. kept + n = kept + 1 /\ i + n - 1 = i /\ kept + 1 \in 1 .. Len(remaining)
            BY <2>9, <4>1, <5>1
          <6>2. lists'[c][kept + 1] = item
            BY <2>7, <4>1, <6>1
          <6> QED
            BY <2>4, <6>1, <6>2
        <5>2. CASE n # 1
          <6> DEFINE k == n - 1
          <6>1. /\ k \in 1 .. j - next /\ Len(remaining) + k = kept + n
                /\ next + k - 1 = i + n - 1
            BY <2>4, <2>9, <4>1, <5>2
          <6> HIDE DEF k
          <6>2. lists'[c][Len(remaining) + k] = lists[list][next + k - 1]
            BY <2>7, <6>1
          <6> QED
            BY <6>1, <6>2
        <5> QED
          BY <5>1, <5>2
      <4>5. \A d \in Cids : \A m \in hist'.got[d] : m \in hist.got[d]
        BY <1>2, <3>2
      <4>6. FlushMoves(c, list, kept, i, j)
        <5>1. i <= j
          BY <2>9
        <5> QED
          BY <2>6, <2>9, <2>10, <4>2, <4>3, <4>4, <4>5, <5>1 DEF FlushMoves
      <4> QED
        BY <4>6
    <3> QED
      BY <3>1, <3>2
  <2>12. Unsent' \subseteq Unsent
    BY ConnectionsLeaveMain, UnsentStays DEF HandlerStep, MainStays
  <2>13. \A q \in Procs : proc'[q] = proc[q] \/ proc'[q].out = {}
    BY <1>1, <2>4, FlushOnClaims
  <2> QED
    BY <1>4, <2>6, <2>11, <2>12, <2>13, FlushClaims
<1> QED
  BY <1>3, <1>4

(* All of it. *)

\* At the start there are only unused ids.
LEMMA ClaimsInit == Init => ClaimsInv
<1> SUFFICES ASSUME Init PROVE ClaimsInv
  OBVIOUS
<1>1. \A p \in Procs : proc[p].out = {}
  <2>1. "idle" \in Places /\ "none" \in Places
    BY DEF Places
  <2> QED
    BY <2>1, TaskIsProc DEF Init
<1>2. Flushing = {}
  <2>1. \A c \in Cids : H(c) \in Procs /\ H(c) # Main
    BY HandlersAreProcs
  <2>2. Task("none").at = "none"
    BY TaskIsProc DEF Places
  <2> QED
    BY <2>1, <2>2 DEF Init, Flushing
<1>3. \A l \in Lists : Waits(l) = {}
  BY <1>2 DEF Init, Waits, Lists
<1>4. \A x \in Claims : \E i \in Unsent : x = IdClaim(i) /\ ItemOf(x) = Item(i, Everyone)
  BY <1>1, <1>3, ClaimKinds, ClaimItems
<1>5. \A c \in Cids : hist.got[c] = {}
  BY DEF Init
<1>6. ASSUME NEW x \in Claims, NEW y \in Claims, x # y
      PROVE  ~Clash(ItemOf(x), ItemOf(y))
  <2>1. PICK i \in Unsent : x = IdClaim(i) /\ ItemOf(x) = Item(i, Everyone)
    BY <1>4
  <2>2. PICK j \in Unsent : y = IdClaim(j) /\ ItemOf(y) = Item(j, Everyone)
    BY <1>4
  <2> QED
    BY <1>6, <2>1, <2>2 DEF Clash, Item
<1> QED
  BY <1>5, <1>6 DEF ClaimsInv

\* Every step.
LEMMA ClaimsStep == IInv /\ QInv /\ ClaimsInv /\ [Next]_vars => ClaimsInv'
<1> SUFFICES ASSUME IInv, QInv, ClaimsInv, [Next]_vars PROVE ClaimsInv'
  OBVIOUS
<1>1. CASE UNCHANGED vars
  <2>1. UNCHANGED <<lists, queue, flush, hist, proc, file, given>>
    BY <1>1 DEF vars
  <2>2. Flushing' = Flushing
    BY <2>1 DEF Flushing
  <2>3. Unsent' \subseteq Unsent
    BY <2>1, UnsentStays
  <2> QED
    BY <2>1, <2>2, <2>3, ClaimsShrink
<1>2. CASE MainStep \/ WriteCommand \/ StdinLine \/ StdinEnds
  BY <1>2, MainClaims
<1>3. CASE (\E p \in Procs : TaskStep(p)) \/ \E a \in Anims : Animate(a)
  BY <1>3, TaskClaims
<1>4. ASSUME NEW c \in Cids, Connect(c) \/ HandlerStep(c) \/ ButtonClicked(c)
                             \/ Display(c) \/ LinkCloses(c)
      PROVE  ClaimsInv'
  BY <1>4, ClaimsOfConnect, ClaimsOfFlush, ConnectionClaims DEF HandlerStep
<1> QED
  BY <1>1, <1>2, <1>3, <1>4 DEF Next

\* What no connection was handed is still promised to it.
LEMMA ClaimsImply == IInv /\ QInv /\ ClaimsInv => QueuedReachesOne
<1> SUFFICES ASSUME IInv, QInv, ClaimsInv, ~hist.overlap, Flushing = {},
                    NEW item \in Range(lists[queue]), NEW c \in Cids,
                    item.target \in {Everyone, c}
             PROVE  item.id \notin hist.got[c]
  BY DEF QueuedReachesOne
<1>1. queue \in Lists /\ lists[queue] \in Seq(Items)
  BY DEF QInv, QueueOK
<1>2. PICK n \in 1 .. Len(lists[queue]) : lists[queue][n] = item
  BY <1>1, InList
<1>3. Waits(queue) = 1 .. Len(lists[queue])
  BY DEF Waits
<1>4. ListClaim(queue, n) \in Claims /\ ItemOf(ListClaim(queue, n)) = item
  BY <1>1, <1>2, <1>3, ClaimKinds, ClaimItems
<1> QED
  BY <1>4 DEF ClaimsInv

-----------------------------------------------------------------------------

\* Every message is promised once, beside what QueueInvariant says.
THEOREM ClaimsInvariant == Spec => [](IInv /\ QInv /\ ClaimsInv)
<1>1. Init => IInv /\ QInv /\ ClaimsInv
  BY InitEstablishes, QInitEstablishes, ClaimsInit
<1>2. (IInv /\ QInv /\ ClaimsInv) /\ [Next]_vars => (IInv /\ QInv /\ ClaimsInv)'
  BY StepPreserves, QStepPreserves, ClaimsStep
<1> QED BY <1>1, <1>2, PTL DEF Spec

\* While no two flushes overlap, nothing that a connection was handed is kept
\* for it or for everyone, so that no flush repeats a message, for any number
\* of connections and messages (ws_server.py:60-71, 149-162).
THEOREM QueueRepeatsNothing == Spec => []QueuedReachesOne
<1> QED BY ClaimsImply, ClaimsInvariant, PTL
=============================================================================
