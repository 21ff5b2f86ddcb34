---------------------------- MODULE CanaryProofs ----------------------------
(***************************************************************************)
(* TLAPS proofs about Canary: what the gateway says of a recording is one  *)
(* verdict, and a true one, for any set of recordings, any queue and any   *)
(* number of crashes and failing statements of the orchestrator.  They     *)
(* rest on the inductive invariant of M1ServiceProofs.                     *)
(***************************************************************************)
EXTENDS Canary, M1ServiceProofs

-----------------------------------------------------------------------------
(* The inductive invariant. *)

\* What makes the invariants of Canary inductive, with the IInv of M1Service: what
\* a task has shown follows from where it stands ...
StoriesInv ==
  \A r \in Recordings :
    /\ task[r] \in {"none", "posting"} => shown[r] = <<>>
    /\ task[r] = "polling" => shown[r] = <<"processing">>
    /\ task[r] = "over" => \E v \in Verdicts :
                              shown[r] \in {<<v>>, <<"processing", v>>}
    /\ task[r] = "dead" => shown[r] \in {<<>>, <<"processing">>}
\* ... and "busy" was the answer.
BusyWasAnswered ==
  \A r \in Recordings : Said(r, "busy") => "refused" \in answers[r]

CInv == CTypeOK /\ StoriesInv /\ BusyWasAnswered /\ VerdictMatchesJob

-----------------------------------------------------------------------------
(* The orchestrator inside the composition.                                 *)

\* Every step of the composition is one of the orchestrator, or none.
LEMMA StepOfService == [CNext]_cvars => [Next]_vars
<1>1. ASSUME CNext PROVE [Next]_vars
  BY <1>1 DEF CNext, Submit, Serve, RequestLost, GatewayStep, DisplayRaises,
     Accepted, Refused, SubmitFails, PollTerminal, PollFails, PollExpires,
     Conclude, M1Step, Next
<1>2. UNCHANGED cvars => UNCHANGED vars
  BY DEF cvars
<1> QED
  BY <1>1, <1>2

\* So what was proved of the orchestrator holds in it.
LEMMA ServiceInvariant == CSpec => []IInv
<1>1. CInit => IInv
  BY InitEstablishes DEF CInit
<1>2. IInv /\ [CNext]_cvars => IInv'
  BY StepOfService, StepPreserves
<1> QED
  BY <1>1, <1>2, PTL DEF CSpec

\* An answer once given stays given.
LEMMA AnswersStay ==
  ASSUME IInv, [Next]_vars, NEW r \in Recordings
  PROVE  answers[r] \subseteq answers'[r]
<1>1. answers \in [Recordings -> SUBSET Answers]
  BY DEF IInv, TypeOK
<1>2. \/ UNCHANGED answers
      \/ \E x, a : Answer(x, a)
  BY DEF vars, Next, Post, CreateJobAgain, CreateAndSubmit, CreateWhenFull,
     RefuseFull, RefuseRaises, Recover, RecoverRaises, WorkerStep, Transcribe,
     AskAgent, NothingHeard, Display, Finish, ProviderFails, StoreRaises,
     FailureIsLost, Start, Crash, Stop
<1> QED
  BY <1>1, <1>2 DEF Answer

\* No provider is called for a finished job.
LEMMA FinishedIsNotCalled ==
  ASSUME IInv, [Next]_vars, NEW r \in Recordings, Terminal(r)
  PROVE  sttCalls'[r] = sttCalls[r] /\ agentCalls'[r] = agentCalls[r]
<1>1. /\ sttCalls \in [Recordings -> Nat] /\ agentCalls \in [Recordings -> Nat]
      /\ queue \in Seq(Recordings)
  BY DEF IInv, TypeOK
<1>2. r \notin InFlight
  BY DEF IInv, InFlightIsOpen, Terminal, TerminalStatuses, RecoverableStatuses
<1>3. CASE Transcribe
  <2>1. Head(queue) \in InFlight
    BY <1>1, <1>3, TakeFromQueue DEF Transcribe, InFlight
  <2> QED
    BY <1>1, <1>2, <1>3, <2>1 DEF Transcribe
<1>4. CASE AskAgent
  <2>1. current \in InFlight
    BY <1>4 DEF AskAgent, IInv, StageInv, InFlight, Busy
  <2> QED
    BY <1>1, <1>2, <1>4, <2>1 DEF AskAgent
<1>5. CASE UNCHANGED calls
  BY <1>5 DEF calls
<1>6. \/ Transcribe \/ AskAgent \/ UNCHANGED calls
  BY DEF vars, calls, Next, Post, CreateJobAgain, CreateAndSubmit,
     CreateWhenFull, RefuseFull, RefuseRaises, Recover, RecoverRaises,
     WorkerStep, NothingHeard, Display, Finish, ProviderFails, StoreRaises,
     FailureIsLost, Start, Crash, Stop
<1> QED
  BY <1>3, <1>4, <1>5, <1>6

-----------------------------------------------------------------------------
(* What a task shows.                                                       *)

\* The sequences of texts that occur ...
LEMMA Stories ==
  ASSUME NEW p, NEW v
  PROVE  /\ Append(<<>>, v) = <<v>> /\ Append(<<p>>, v) = <<p, v>>
         /\ Len(<<>>) = 0 /\ Len(<<v>>) = 1 /\ Len(<<p, v>>) = 2
         /\ <<v>>[1] = v /\ <<p, v>>[1] = p
<1>1. Len(<<>>) = 0 /\ Len(<<v>>) = 1 /\ Len(<<p, v>>) = 2
  OBVIOUS
<1>2. <<v>>[1] = v /\ <<p, v>>[1] = p /\ <<p, v>>[2] = v
  OBVIOUS
<1>3. <<>> \in Seq({p, v}) /\ <<p>> \in Seq({p, v}) /\ <<v>> \in Seq({p, v})
      /\ <<p, v>> \in Seq({p, v})
  OBVIOUS
<1>4. Append(<<>>, v) = <<v>>
  OBVIOUS
<1>5. Append(<<p>>, v) = <<p, v>>
  <2>1. /\ Append(<<p>>, v) \in Seq({p, v}) /\ Len(Append(<<p>>, v)) = 2
        /\ Append(<<p>>, v)[1] = p /\ Append(<<p>>, v)[2] = v
    BY <1>3, AppendProperties
  <2> DEFINE a == Append(<<p>>, v)
             b == <<p, v>>
  <2>2. \A i \in 1..2 : a[i] = b[i]
    BY <2>1, <1>2
  <2>3. /\ a \in Seq({p, v}) /\ b \in Seq({p, v})
        /\ Len(a) = 2 /\ Len(b) = 2
    BY <2>1, <1>1, <1>3
  <2> HIDE DEF a, b
  <2>4. a = b
    BY <2>2, <2>3, SeqEqual
  <2> QED
    BY <2>4 DEF a, b
<1> QED
  BY <1>1, <1>2, <1>4, <1>5

\* ... and the texts in them.
LEMMA TextsOfStories ==
  ASSUME NEW p, NEW v
  PROVE  ToSet(<<>>) = {} /\ ToSet(<<v>>) = {v} /\ ToSet(<<p, v>>) = {p, v}
<1>1. ToSet(<<>>) = {}
  BY DEF ToSet
<1>2. ToSet(<<v>>) = {v}
  BY DEF ToSet
<1>3. ToSet(<<p, v>>) = {p, v}
  <2>1. DOMAIN <<p, v>> = {1, 2} /\ <<p, v>>[1] = p /\ <<p, v>>[2] = v
    OBVIOUS
  <2> QED
    BY <2>1 DEF ToSet
<1> QED
  BY <1>1, <1>2, <1>3

\* A step of the orchestrator under the tasks keeps what they say true.
LEMMA ServiceStepKeeps ==
  ASSUME IInv, CInv, [Next]_vars, UNCHANGED <<task, shown>>,
         request' \subseteq Recordings
  PROVE  CInv'
<1>1. CTypeOK' /\ StoriesInv'
  BY DEF CInv, CTypeOK, StoriesInv
<1>2. BusyWasAnswered'
  BY AnswersStay DEF CInv, BusyWasAnswered, Said
<1>3. VerdictMatchesJob'
  <2> SUFFICES ASSUME NEW r \in Recordings
               PROVE  /\ Said(r, "reply") => /\ db'[r].status = "done"
                                             /\ db'[r].transcript = "text"
                                             /\ db'[r].reply # "null"
                      /\ Said(r, "unheard") => /\ db'[r].status = "done"
                                               /\ db'[r].reply = "null"
    BY DEF VerdictMatchesJob, Said
  <2>1. Said(r, "reply") \/ Said(r, "unheard") => db'[r] = db[r]
    BY FinishedStays DEF CInv, VerdictMatchesJob, Terminal, TerminalStatuses, vars
  <2> QED
    BY <2>1 DEF CInv, VerdictMatchesJob
<1> QED
  BY <1>1, <1>2, <1>3 DEF CInv

\* A task that shows its verdict, if the verdict is true.
LEMMA ConcludeKeeps ==
  ASSUME IInv, CInv, NEW r \in Recordings, NEW v \in Verdicts,
         task[r] \in {"posting", "polling"}, Conclude(r, v),
         v = "busy" => "refused" \in answers[r],
         v = "reply" => /\ db[r].status = "done" /\ db[r].transcript = "text"
                        /\ db[r].reply # "null",
         v = "unheard" => db[r].status = "done" /\ db[r].reply = "null"
  PROVE  CInv'
<1>1. /\ task \in [Recordings -> TaskStates] /\ request \subseteq Recordings
      /\ shown \in [Recordings -> Seq(Texts)]
  BY DEF CInv, CTypeOK
<1>2. /\ task' = [task EXCEPT ![r] = "over"] /\ request' = request
      /\ shown' = [shown EXCEPT ![r] = Append(shown[r], v)]
      /\ UNCHANGED vars
  BY DEF Conclude, ShowText
<1>3. /\ UNCHANGED db /\ UNCHANGED answers
  BY <1>2 DEF vars
<1>4. /\ task'[r] = "over" /\ shown'[r] \in {<<v>>, <<"processing", v>>}
      /\ ToSet(shown'[r]) \subseteq {"processing", v}
  <2>1. shown[r] \in {<<>>, <<"processing">>}
    BY DEF CInv, StoriesInv
  <2>2. shown'[r] = Append(shown[r], v) /\ task'[r] = "over"
    BY <1>1, <1>2
  <2>3. /\ Append(<<>>, v) = <<v>>
        /\ Append(<<"processing">>, v) = <<"processing", v>>
    BY Stories
  <2>4. shown'[r] \in {<<v>>, <<"processing", v>>}
    BY <2>1, <2>2, <2>3
  <2>5. ToSet(<<v>>) = {v} /\ ToSet(<<"processing", v>>) = {"processing", v}
    BY TextsOfStories
  <2> QED
    BY <2>2, <2>4, <2>5
<1>5. \A x \in Recordings : x # r => task'[x] = task[x] /\ shown'[x] = shown[x]
  BY <1>1, <1>2
<1>6. CTypeOK'
  <2>1. v \in Texts
    BY DEF Texts
  <2>2. Append(shown[r], v) \in Seq(Texts)
    BY <1>1, <2>1, AppendProperties
  <2> QED
    BY <1>1, <1>2, <2>2 DEF CTypeOK, TaskStates
<1>7. StoriesInv'
  <2> SUFFICES ASSUME NEW x \in Recordings
               PROVE  /\ task'[x] \in {"none", "posting"} => shown'[x] = <<>>
                      /\ task'[x] = "polling" => shown'[x] = <<"processing">>
                      /\ task'[x] = "over" => \E w \in Verdicts :
                                   shown'[x] \in {<<w>>, <<"processing", w>>}
                      /\ task'[x] = "dead" => shown'[x] \in {<<>>, <<"processing">>}
    BY DEF StoriesInv
  <2>1. CASE x = r
    BY <1>4, <2>1
  <2>2. CASE x # r
    BY <1>5, <2>2 DEF CInv, StoriesInv
  <2> QED
    BY <2>1, <2>2
<1>8. BusyWasAnswered' /\ VerdictMatchesJob'
  <2> SUFFICES ASSUME NEW x \in Recordings
               PROVE  /\ "busy" \in ToSet(shown'[x]) => "refused" \in answers[x]
                      /\ "reply" \in ToSet(shown'[x])
                           => /\ db[x].status = "done" /\ db[x].transcript = "text"
                              /\ db[x].reply # "null"
                      /\ "unheard" \in ToSet(shown'[x])
                           => db[x].status = "done" /\ db[x].reply = "null"
    BY <1>3 DEF BusyWasAnswered, VerdictMatchesJob, Said
  <2>1. CASE x = r
    BY <1>4, <2>1
  <2>2. CASE x # r
    BY <1>5, <2>2 DEF CInv, BusyWasAnswered, VerdictMatchesJob, Said
  <2> QED
    BY <2>1, <2>2
<1> QED
  BY <1>6, <1>7, <1>8 DEF CInv

\* A task that shows nothing may end or move on while its POST is under way.
LEMMA QuietStepKeeps ==
  ASSUME CInv, NEW r \in Recordings, NEW t \in TaskStates,
         UNCHANGED <<vars, shown>>, request' \subseteq Recordings,
         task' = [task EXCEPT ![r] = t],
         \/ t = "posting" /\ task[r] = "none"
         \/ t = "dead" /\ task[r] \in {"posting", "polling"}
  PROVE  CInv'
<1>1. task \in [Recordings -> TaskStates] /\ shown \in [Recordings -> Seq(Texts)]
  BY DEF CInv, CTypeOK
<1>2. UNCHANGED db /\ UNCHANGED answers /\ UNCHANGED shown
  BY DEF vars
<1>3. task'[r] = t /\ \A x \in Recordings : x # r => task'[x] = task[x]
  BY <1>1
<1>4. CTypeOK'
  BY <1>1, <1>2 DEF CTypeOK
<1>5. StoriesInv'
  <2> SUFFICES ASSUME NEW x \in Recordings
               PROVE  /\ task'[x] \in {"none", "posting"} => shown[x] = <<>>
                      /\ task'[x] = "polling" => shown[x] = <<"processing">>
                      /\ task'[x] = "over" => \E w \in Verdicts :
                                   shown[x] \in {<<w>>, <<"processing", w>>}
                      /\ task'[x] = "dead" => shown[x] \in {<<>>, <<"processing">>}
    BY <1>2 DEF StoriesInv
  <2>1. CASE x = r
    BY <1>3, <2>1 DEF CInv, StoriesInv
  <2>2. CASE x # r
    BY <1>3, <2>2 DEF CInv, StoriesInv
  <2> QED
    BY <2>1, <2>2
<1>6. BusyWasAnswered' /\ VerdictMatchesJob'
  BY <1>2 DEF CInv, BusyWasAnswered, VerdictMatchesJob, Said
<1> QED
  BY <1>4, <1>5, <1>6 DEF CInv

\* 202: "processing" is no verdict.
LEMMA StepAccepted ==
  ASSUME CInv, NEW r \in Recordings, Accepted(r)
  PROVE  CInv'
<1>1. task \in [Recordings -> TaskStates] /\ shown \in [Recordings -> Seq(Texts)]
  BY DEF CInv, CTypeOK
<1>2. UNCHANGED db /\ UNCHANGED answers /\ UNCHANGED request
  BY DEF Accepted, vars
<1>3. task' = [task EXCEPT ![r] = "polling"]
      /\ shown' = [shown EXCEPT ![r] = Append(shown[r], "processing")]
  BY DEF Accepted, ShowText
<1>4. shown[r] = <<>>
  BY DEF Accepted, CInv, StoriesInv
<1>5. Append(<<>>, "processing") = <<"processing">>
  BY Stories
<1>6. task'[r] = "polling" /\ shown'[r] = <<"processing">>
  BY <1>1, <1>3, <1>4, <1>5
<1>7. ToSet(shown'[r]) = {"processing"}
  BY <1>6, TextsOfStories
<1>8. \A x \in Recordings : x # r => task'[x] = task[x] /\ shown'[x] = shown[x]
  BY <1>1, <1>3
<1>9. CTypeOK'
  <2>1. Append(shown[r], "processing") \in Seq(Texts)
    BY <1>1, AppendProperties DEF Texts
  <2> QED
    BY <1>1, <1>2, <1>3, <2>1 DEF CInv, CTypeOK, TaskStates
<1>10. StoriesInv'
  <2> SUFFICES ASSUME NEW x \in Recordings
               PROVE  /\ task'[x] \in {"none", "posting"} => shown'[x] = <<>>
                      /\ task'[x] = "polling" => shown'[x] = <<"processing">>
                      /\ task'[x] = "over" => \E w \in Verdicts :
                                   shown'[x] \in {<<w>>, <<"processing", w>>}
                      /\ task'[x] = "dead" => shown'[x] \in {<<>>, <<"processing">>}
    BY DEF StoriesInv
  <2>1. CASE x = r
    BY <1>6, <2>1
  <2>2. CASE x # r
    BY <1>8, <2>2 DEF CInv, StoriesInv
  <2> QED
    BY <2>1, <2>2
<1>11. BusyWasAnswered' /\ VerdictMatchesJob'
  <2> SUFFICES ASSUME NEW x \in Recordings
               PROVE  /\ "busy" \in ToSet(shown'[x]) => "refused" \in answers[x]
                      /\ "reply" \in ToSet(shown'[x])
                           => /\ db[x].status = "done" /\ db[x].transcript = "text"
                              /\ db[x].reply # "null"
                      /\ "unheard" \in ToSet(shown'[x])
                           => db[x].status = "done" /\ db[x].reply = "null"
    BY <1>2 DEF BusyWasAnswered, VerdictMatchesJob, Said
  <2>1. CASE x = r
    BY <1>7, <2>1
  <2>2. CASE x # r
    BY <1>8, <2>2 DEF CInv, BusyWasAnswered, VerdictMatchesJob, Said
  <2> QED
    BY <2>1, <2>2
<1> QED
  BY <1>9, <1>10, <1>11 DEF CInv

\* The steps of the gateway's task.
LEMMA StepOfTask ==
  ASSUME IInv, CInv, NEW r \in Recordings, GatewayStep(r)
  PROVE  CInv'
<1>1. CASE Accepted(r)
  BY <1>1, StepAccepted
<1>2. CASE Refused(r)
  BY <1>2, ConcludeKeeps DEF Refused, Verdicts
<1>3. CASE SubmitFails(r) \/ PollFails(r) \/ PollExpires(r)
  BY <1>3, ConcludeKeeps DEF SubmitFails, PollFails, PollExpires, Verdicts
<1>4. CASE PollTerminal(r)
  <2>1. /\ db[r].status \in {"done", "failed"} /\ db[r] \in Row \cup {NoRow}
        /\ task[r] = "polling"
    BY <1>4 DEF PollTerminal, Terminal, TerminalStatuses, IInv, TypeOK
  <2>2. /\ db[r].reply # "null" => db[r].transcript = "text"
        /\ db[r].status = "done" =>
             (db[r].transcript = "text" => db[r].reply # "null")
    BY DEF IInv, RowIsCoherent
  <2>3. CASE db[r].status = "failed"
    BY <1>4, <2>1, <2>3, ConcludeKeeps DEF PollTerminal, Verdicts
  <2>4. CASE db[r].status = "done" /\ db[r].transcript = "text"
    BY <1>4, <2>1, <2>2, <2>4, ConcludeKeeps DEF PollTerminal, Verdicts
  <2>5. CASE db[r].status = "done" /\ db[r].transcript # "text"
    BY <1>4, <2>1, <2>2, <2>5, ConcludeKeeps DEF PollTerminal, Verdicts
  <2> QED
    BY <2>1, <2>3, <2>4, <2>5
<1> QED
  BY <1>1, <1>2, <1>3, <1>4 DEF GatewayStep

-----------------------------------------------------------------------------
(* The theorems.                                                            *)

\* Nothing is shown at first.
LEMMA CInitEstablishes == CInit => CInv
<1> SUFFICES ASSUME CInit PROVE CInv
  OBVIOUS
<1>1. ToSet(<<>>) = {}
  BY TextsOfStories
<1>2. \A r \in Recordings : shown[r] = <<>> /\ task[r] = "none"
  BY DEF CInit
<1>3. CTypeOK
  BY EmptySeq DEF CInit, CTypeOK, TaskStates
<1>4. StoriesInv
  BY <1>2 DEF StoriesInv
<1>5. BusyWasAnswered /\ VerdictMatchesJob
  BY <1>1, <1>2 DEF BusyWasAnswered, VerdictMatchesJob, Said
<1> QED
  BY <1>3, <1>4, <1>5 DEF CInv

\* Every step keeps the invariant.
LEMMA CStepPreserves == IInv /\ CInv /\ [CNext]_cvars => CInv'
<1> SUFFICES ASSUME IInv, CInv, [CNext]_cvars
             PROVE  CInv'
  OBVIOUS
<1>0. [Next]_vars /\ request \subseteq Recordings
  BY StepOfService DEF CInv, CTypeOK
<1>1. ASSUME NEW r \in Recordings, Submit(r) PROVE CInv'
  <2>1. /\ task[r] = "none" /\ request' \subseteq Recordings
        /\ task' = [task EXCEPT ![r] = "posting"] /\ UNCHANGED <<vars, shown>>
    BY <1>0, <1>1 DEF Submit
  <2> QED
    BY <2>1, QuietStepKeeps DEF TaskStates
<1>2. ASSUME NEW r \in Recordings, Serve(r) \/ RequestLost(r) PROVE CInv'
  <2>1. UNCHANGED <<task, shown>> /\ request' \subseteq Recordings
    BY <1>0, <1>2 DEF Serve, RequestLost
  <2> QED
    BY <1>0, <2>1, ServiceStepKeeps
<1>3. ASSUME NEW r \in Recordings, DisplayRaises(r) PROVE CInv'
  <2>1. /\ task[r] \in {"posting", "polling"} /\ request' \subseteq Recordings
        /\ task' = [task EXCEPT ![r] = "dead"] /\ UNCHANGED <<vars, shown>>
    BY <1>0, <1>3 DEF DisplayRaises
  <2> QED
    BY <2>1, QuietStepKeeps DEF TaskStates
<1>4. CASE M1Step \/ UNCHANGED cvars
  BY <1>0, <1>4, ServiceStepKeeps DEF M1Step, gateway, cvars
<1> QED
  BY <1>1, <1>2, <1>3, <1>4, StepOfTask DEF CNext

\* The inductive invariant of the composition: the orchestrator's, and what
\* the texts shown say of the tasks, the answers and the rows.
THEOREM CanaryInvariant == CSpec => [](IInv /\ CInv)
<1>1. CInit => CInv
  BY CInitEstablishes
<1>2. IInv /\ CInv /\ [CNext]_cvars => CInv'
  BY CStepPreserves
<1> QED
  BY <1>1, <1>2, ServiceInvariant, PTL DEF CSpec

\* A task shows at most "processing" and then one verdict, through time-outs,
\* lost requests and crashes of the orchestrator (ws_server.py:281-385).
THEOREM VerdictsAreSingle == CSpec => []OneVerdict
<1>1. ASSUME CInv PROVE OneVerdict
  <2> SUFFICES ASSUME NEW r \in Recordings
               PROVE  /\ Cardinality(ToSet(shown[r]) \cap Verdicts)
                           = (IF task[r] = "over" THEN 1 ELSE 0)
                      /\ Len(shown[r]) = (IF task[r] = "over" THEN 1 ELSE 0)
                           + (IF "processing" \in ToSet(shown[r]) THEN 1 ELSE 0)
                      /\ "processing" \in ToSet(shown[r])
                           => shown[r][1] = "processing"
    BY DEF OneVerdict, Said
  <2>1. Cardinality({}) = 0
    BY FS_EmptySet
  <2>2. "processing" \notin Verdicts
    BY DEF Verdicts
  <2>3. ASSUME shown[r] = <<>>, task[r] # "over"
        PROVE  /\ Cardinality(ToSet(shown[r]) \cap Verdicts) = 0
               /\ Len(shown[r]) = 0 /\ ToSet(shown[r]) = {}
    <3>1. ToSet(shown[r]) = {} /\ Len(shown[r]) = 0
      BY <2>3, Stories, TextsOfStories
    <3>2. ToSet(shown[r]) \cap Verdicts = {}
      BY <3>1
    <3> QED
      BY <3>1, <3>2, <2>1
  <2>4. ASSUME shown[r] = <<"processing">>
        PROVE  /\ Cardinality(ToSet(shown[r]) \cap Verdicts) = 0
               /\ Len(shown[r]) = 1 /\ ToSet(shown[r]) = {"processing"}
               /\ shown[r][1] = "processing"
    <3>1. ToSet(shown[r]) = {"processing"}
      BY <2>4, TextsOfStories
    <3>2. ToSet(shown[r]) \cap Verdicts = {}
      BY <3>1, <2>2
    <3> QED
      BY <2>4, <3>1, <3>2, <2>1, Stories
  <2>5. ASSUME NEW v \in Verdicts, shown[r] = <<v>>
        PROVE  /\ Cardinality(ToSet(shown[r]) \cap Verdicts) = 1
               /\ Len(shown[r]) = 1 /\ "processing" \notin ToSet(shown[r])
    <3>1. ToSet(shown[r]) = {v}
      BY <2>5, TextsOfStories
    <3>2. ToSet(shown[r]) \cap Verdicts = {v}
      BY <3>1
    <3>3. Cardinality({v}) = 1
      BY FS_Singleton
    <3>4. Len(shown[r]) = 1
      BY <2>5, Stories
    <3> QED
      BY <2>2, <3>1, <3>2, <3>3, <3>4
  <2>6. ASSUME NEW v \in Verdicts, shown[r] = <<"processing", v>>
        PROVE  /\ Cardinality(ToSet(shown[r]) \cap Verdicts) = 1
               /\ Len(shown[r]) = 2 /\ "processing" \in ToSet(shown[r])
               /\ shown[r][1] = "processing"
    <3>1. ToSet(shown[r]) = {"processing", v}
      BY <2>6, TextsOfStories
    <3>2. ToSet(shown[r]) \cap Verdicts = {v}
      BY <2>2, <3>1
    <3>3. Cardinality({v}) = 1
      BY FS_Singleton
    <3>4. Len(shown[r]) = 2 /\ shown[r][1] = "processing"
      BY <2>6, Stories
    <3> QED
      BY <3>1, <3>2, <3>3, <3>4
  <2>7. CASE task[r] = "over"
    <3>1. PICK v \in Verdicts : shown[r] \in {<<v>>, <<"processing", v>>}
      BY <1>1, <2>7 DEF CInv, StoriesInv
    <3>2. CASE shown[r] = <<v>>
      BY <2>5, <2>7, <3>2
    <3>3. CASE shown[r] = <<"processing", v>>
      BY <2>6, <2>7, <3>3
    <3> QED
      BY <3>1, <3>2, <3>3
  <2>8. CASE task[r] # "over"
    <3>1. shown[r] \in {<<>>, <<"processing">>}
      BY <1>1, <2>8 DEF CInv, CTypeOK, StoriesInv, TaskStates
    <3>2. CASE shown[r] = <<>>
      BY <2>3, <2>8, <3>2
    <3>3. CASE shown[r] = <<"processing">>
      BY <2>4, <2>8, <3>3
    <3> QED
      BY <3>1, <3>2, <3>3
  <2> QED
    BY <2>7, <2>8
<1> QED
  BY <1>1, CanaryInvariant, PTL

\* What the display says of a recording is true of its job whatever restarts
\* come later: a reply that is stored, silence that was recognised, and
\* "busy" of a recording that is never transcribed (ws_server.py:322-331).
THEOREM VerdictsAreTrue == CSpec => []VerdictIsTrue
<1>1. ASSUME IInv, CInv PROVE BusyIsHonest
  BY <1>1 DEF IInv, CInv, BusyWasAnswered, RefusedNeverRuns, BusyIsHonest
<1>2. IInv /\ CInv => VerdictIsTrue
  BY <1>1 DEF CInv, VerdictIsTrue
<1> QED
  BY <1>2, CanaryInvariant, PTL

\* Once a result is on the display no provider is called for its recording
\* again, in no life of the orchestrator.
THEOREM ResultEndsTheCalls == CSpec => NoCallsAfterResult
<1> DEFINE Quiet == \A r \in Recordings :
      Said(r, "reply") \/ Said(r, "unheard")
        => sttCalls'[r] = sttCalls[r] /\ agentCalls'[r] = agentCalls[r]
<1>1. IInv /\ CInv /\ [CNext]_cvars => [Quiet]_cvars
  <2> SUFFICES ASSUME IInv, CInv, [CNext]_cvars, NEW r \in Recordings,
                      Said(r, "reply") \/ Said(r, "unheard")
               PROVE  sttCalls'[r] = sttCalls[r] /\ agentCalls'[r] = agentCalls[r]
    OBVIOUS
  <2>1. Terminal(r)
    BY DEF CInv, VerdictMatchesJob, Terminal, TerminalStatuses
  <2> QED
    BY <2>1, StepOfService, FinishedIsNotCalled
<1>2. CSpec => [][Quiet]_cvars
  BY <1>1, CanaryInvariant, PTL DEF CSpec
<1> QED
  BY <1>2 DEF NoCallsAfterResult
=============================================================================
