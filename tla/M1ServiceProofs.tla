-------------------------- MODULE M1ServiceProofs --------------------------
(***************************************************************************)
(* TLAPS proofs about M1Service, for every set of recordings, finite or    *)
(* not, every queue_maxsize and any number of crashes and failing          *)
(* statements: the type invariant, the accounting of what is in flight,    *)
(* the coherence of the rows and what 409 promises; then, where jobs are   *)
(* counted, that the orchestrator implements JobLedger and that what falls *)
(* out of its service stays bounded.                                       *)
(***************************************************************************)
EXTENDS M1Service, FiniteSetTheorems, SequenceTheorems, TLAPS

-----------------------------------------------------------------------------
(* The inductive invariant. *)

\* What makes the invariants of M1Service inductive.  Where the worker stands and
\* what the rows of its job and of the job being created say ...
StageInv ==
  /\ (worker \in Busy) <=> (current # NoJob)
  /\ worker \in {"down", "starting"}
       => queue = <<>> /\ creating = NoJob /\ taken = {}
  /\ creating # NoJob => /\ worker # "shown"
                         /\ creating \notin InFlight
                         /\ db[creating] = NewRow
                         /\ sttCalls[creating] = 0
  /\ worker = "shown" => /\ db[current].status = "displaying"
                         /\ db[current].transcript = "text"
                         /\ db[current].reply # "null"
\* ... and how the calls made relate to what this process has taken on.
CallsInv ==
  /\ InFlight \subseteq taken
  /\ \A r \in Recordings :
       /\ sttCalls[r] <=
            stops + (IF r \in taken /\ r \notin ToSet(queue) THEN 1 ELSE 0)
       /\ ~Exists(db, r) => sttCalls[r] = 0
       /\ agentCalls[r] + (IF worker = "stt" /\ current = r THEN 1 ELSE 0)
            <= sttCalls[r]

\* ... and a job is between its INSERT and its 409 only while the queue is full.
FullWhileRefusing == creating # NoJob => active = QueueMaxsize

IInv ==
  /\ TypeOK /\ InFlightIsExact /\ InFlightOnce /\ InFlightIsOpen
  /\ RowIsCoherent /\ RefusedNeverRuns /\ StageInv /\ CallsInv

-----------------------------------------------------------------------------
(* What submit, recovery and queue.get() do to the set of queued jobs.      *)

\* A job put on the queue joins its elements, and the queue stays free of
\* repetitions when it was not on it.
LEMMA AppendToQueue ==
  ASSUME NEW S, NEW q \in Seq(S), NEW e \in S
  PROVE  /\ Append(q, e) \in Seq(S)
         /\ Len(Append(q, e)) = Len(q) + 1
         /\ ToSet(Append(q, e)) = ToSet(q) \cup {e}
         /\ IsInjective(q) /\ e \notin ToSet(q) => IsInjective(Append(q, e))
<1>1. /\ Append(q, e) \in Seq(S) /\ Len(Append(q, e)) = Len(q) + 1
      /\ \A i \in 1..Len(q) : Append(q, e)[i] = q[i]
      /\ Append(q, e)[Len(q) + 1] = e
  BY AppendProperties
<1>2. /\ Len(q) \in Nat /\ DOMAIN q = 1..Len(q)
      /\ DOMAIN Append(q, e) = 1..(Len(q) + 1)
  BY <1>1, LenProperties
<1>3. 1..(Len(q) + 1) = (1..Len(q)) \cup {Len(q) + 1}
  BY <1>2
<1>4. ToSet(Append(q, e)) = ToSet(q) \cup {e}
  BY <1>1, <1>2, <1>3 DEF ToSet
<1>5. IsInjective(q) /\ e \notin ToSet(q) => IsInjective(Append(q, e))
  BY <1>1, <1>2, <1>3 DEF ToSet, IsInjective
<1> QED BY <1>1, <1>4, <1>5

\* A job taken from the head of a queue without repetitions is off it.
LEMMA TakeFromQueue ==
  ASSUME NEW S, NEW q \in Seq(S), q # <<>>
  PROVE  /\ Head(q) \in S /\ Head(q) \in ToSet(q)
         /\ Tail(q) \in Seq(S)
         /\ Len(q) \in Nat /\ Len(q) > 0 /\ Len(Tail(q)) = Len(q) - 1
         /\ ToSet(Tail(q)) \subseteq ToSet(q)
         /\ IsInjective(q) => /\ IsInjective(Tail(q))
                              /\ ToSet(Tail(q)) = ToSet(q) \ {Head(q)}
<1>1. /\ Len(q) \in Nat /\ Len(q) > 0 /\ DOMAIN q = 1..Len(q)
  BY LenProperties, EmptySeq
<1>2. /\ Head(q) \in S /\ Tail(q) \in Seq(S) /\ Len(Tail(q)) = Len(q) - 1
      /\ \A i \in 1..Len(Tail(q)) : Tail(q)[i] = q[i + 1]
  BY HeadTailProperties
<1>3. DOMAIN Tail(q) = 1..(Len(q) - 1)
  BY <1>2, LenProperties
<1>4. Head(q) = q[1] /\ 1 \in DOMAIN q
  BY <1>1
<1>5. /\ Head(q) \in ToSet(q) /\ ToSet(Tail(q)) \subseteq ToSet(q)
  BY <1>1, <1>2, <1>3, <1>4 DEF ToSet
<1>6. ASSUME IsInjective(q)
      PROVE  IsInjective(Tail(q)) /\ ToSet(Tail(q)) = ToSet(q) \ {Head(q)}
  <2>1. \A i, j \in DOMAIN q : q[i] = q[j] => i = j
    BY <1>6 DEF IsInjective
  <2>2. IsInjective(Tail(q))
    BY <2>1, <1>1, <1>2, <1>3 DEF IsInjective
  <2>3. ASSUME NEW x \in ToSet(Tail(q)) PROVE x # Head(q)
    <3>1. PICK i \in DOMAIN Tail(q) : x = Tail(q)[i]
      BY DEF ToSet
    <3>2. x = q[i + 1] /\ i + 1 \in DOMAIN q /\ i + 1 # 1
      BY <3>1, <1>1, <1>2, <1>3
    <3> QED BY <3>2, <2>1, <1>4
  <2>4. ASSUME NEW x \in ToSet(q), x # Head(q) PROVE x \in ToSet(Tail(q))
    <3>1. PICK i \in DOMAIN q : x = q[i]
      BY DEF ToSet
    <3>2. i # 1
      BY <3>1, <2>4, <1>4
    <3>3. i - 1 \in DOMAIN Tail(q) /\ Tail(q)[i - 1] = q[i]
      BY <3>1, <3>2, <1>1, <1>2, <1>3
    <3> QED BY <3>1, <3>3 DEF ToSet
  <2> QED BY <2>2, <2>3, <2>4, <1>5
<1> QED BY <1>1, <1>2, <1>5, <1>6

\* The empty queue of a process that just started.
LEMMA EmptyQueue == ToSet(<<>>) = {} /\ IsInjective(<<>>) /\ Len(<<>>) = 0
BY DEF ToSet, IsInjective

\* What recovery queues: recoverable rows, each once, queue_maxsize at most.
LEMMA RecoveryOrdersAreQueues ==
  ASSUME NEW q \in RecoveryOrders
  PROVE  /\ q \in Seq(Recordings) /\ IsInjective(q)
         /\ Len(q) \in Nat /\ Len(q) <= QueueMaxsize
         /\ ToSet(q) \subseteq ListRecoverable(db)
<1>1. PICK n \in 0..QueueMaxsize : q \in [1..n -> ListRecoverable(db)]
  BY DEF RecoveryOrders
<1>2. q \in Seq(ListRecoverable(db)) /\ Len(q) = n /\ n \in Nat
  BY <1>1, QueueAssumption
<1>3. ListRecoverable(db) \subseteq Recordings
  BY DEF ListRecoverable
<1>4. q \in Seq(Recordings)
  BY <1>2, <1>3, SeqMonotonic
<1>5. ToSet(q) \subseteq ListRecoverable(db)
  BY <1>1 DEF ToSet
<1>6. IsInjective(q)
  BY DEF RecoveryOrders
<1> QED BY <1>2, <1>4, <1>5, <1>6, QueueAssumption

\* The queue holds recordings, and NoJob is none.
LEMMA QueuedAreRecordings ==
  ASSUME TypeOK
  PROVE  ToSet(queue) \subseteq Recordings /\ NoJob \notin ToSet(queue)
BY NoJobAssumption, ElementOfSeq, LenProperties DEF TypeOK, ToSet

\* A job in flight is unfinished, so it was not refused.
LEMMA InFlightNotRefused ==
  ASSUME IInv, NEW x \in InFlight
  PROVE  x \in Recordings /\ "refused" \notin answers[x]
<1>1. x \in Recordings
  BY QueuedAreRecordings DEF IInv, TypeOK, InFlight
<1>2. db[x].status \in RecoverableStatuses
  BY DEF IInv, InFlightIsOpen
<1> QED
  BY <1>1, <1>2 DEF IInv, RefusedNeverRuns, RecoverableStatuses

-----------------------------------------------------------------------------
(* IInv is inductive: one lemma for each action.                            *)

\* The first process has not started and there is no row.
LEMMA InitEstablishes ==
  ASSUME Init
  PROVE  IInv
<1>1. TypeOK /\ InFlightIsExact
  BY QueueAssumption DEF Init, TypeOK, InFlightIsExact, WorkerStates, Busy,
     Answers
<1>2. InFlight = {} /\ InFlightOnce /\ InFlightIsOpen
  BY EmptyQueue DEF Init, InFlight, InFlightOnce, InFlightIsOpen
<1>3. RowIsCoherent /\ RefusedNeverRuns
  BY DEF Init, RowIsCoherent, RefusedNeverRuns, NoRow
<1>4. StageInv /\ CallsInv
  BY <1>2, EmptyQueue DEF Init, StageInv, CallsInv, Busy
<1> QED
  BY <1>1, <1>2, <1>3, <1>4 DEF IInv

\* A repeated POST adds an answer.
LEMMA StepCreateJobAgain ==
  ASSUME IInv, NEW r \in Recordings, CreateJobAgain(r)
  PROVE  IInv'
<1>1. TypeOK'
  BY DEF IInv, CreateJobAgain, memory, calls, faults, Answer, TypeOK, Answers,
     NewRow
<1>2. RefusedNeverRuns'
  BY DEF IInv, CreateJobAgain, calls, Answer, RefusedNeverRuns
<1>3. /\ InFlightIsExact'
      /\ InFlightOnce'
      /\ InFlightIsOpen'
      /\ RowIsCoherent'
      /\ StageInv'
      /\ CallsInv'
  BY DEF IInv, CreateJobAgain, memory, calls, faults, InFlight,
     InFlightIsExact, InFlightOnce, InFlightIsOpen, RowIsCoherent, StageInv,
     CallsInv
<1> QED
  BY <1>1, <1>2, <1>3 DEF IInv

\* A new job goes to the end of the queue, where it was not before.
LEMMA StepCreateAndSubmit ==
  ASSUME IInv, NEW r \in Recordings, CreateAndSubmit(r)
  PROVE  IInv'
<1>1. TypeOK'
  <2>1. queue' \in Seq(Recordings)
    BY AppendToQueue DEF IInv, TypeOK, CreateAndSubmit
  <2>2. db' \in [Recordings -> Row \cup {NoRow}]
    BY DEF IInv, TypeOK, CreateAndSubmit, CreateJob, Row, NewRow,
       ValidStatuses, RecoverableStatuses, Text
  <2>3. answers' \in [Recordings -> SUBSET Answers]
    BY DEF IInv, TypeOK, CreateAndSubmit, Answer, Answers
  <2> QED
    BY <2>1, <2>2, <2>3 DEF IInv, TypeOK, CreateAndSubmit, calls, faults
<1>2. InFlightIsExact'
  BY QueueAssumption DEF IInv, CreateAndSubmit, InFlightIsExact
<1>3. InFlightOnce'
  <2>1. r \notin InFlight
    BY DEF IInv, CreateAndSubmit, Exists, NoRow, InFlightIsOpen,
       RecoverableStatuses
  <2>2. IsInjective(queue') /\ ToSet(queue') = ToSet(queue) \cup {r}
    BY <2>1, AppendToQueue
       DEF IInv, TypeOK, CreateAndSubmit, InFlightOnce, InFlight
  <2>3. current' = current /\ current # r
    BY <2>1, NoJobAssumption DEF CreateAndSubmit, InFlight
  <2> QED
    BY <2>2, <2>3 DEF IInv, InFlightOnce
<1>4. InFlightIsOpen'
  BY AppendToQueue DEF IInv, CreateAndSubmit, CreateJob, TypeOK,
     InFlightIsOpen, InFlight, NewRow, RecoverableStatuses
<1>5. RowIsCoherent'
  BY DEF IInv, CreateAndSubmit, CreateJob, RowIsCoherent, NewRow
<1>6. RefusedNeverRuns'
  BY DEF IInv, CreateAndSubmit, calls, CreateJob, Answer, Exists,
     RefusedNeverRuns, NoRow
<1>7. StageInv'
  BY DEF IInv, CreateAndSubmit, StageInv, LoopFree, Serving
<1>8. CallsInv'
  BY AppendToQueue DEF IInv, CreateAndSubmit, calls, faults, CreateJob,
     Exists, TypeOK, CallsInv, InFlight
<1> QED
  BY <1>1, <1>2, <1>3, <1>4, <1>5, <1>6, <1>7, <1>8 DEF IInv

\* A job without a place gets its row and nothing else.
LEMMA StepCreateWhenFull ==
  ASSUME IInv, NEW r \in Recordings, CreateWhenFull(r)
  PROVE  IInv'
<1>1. TypeOK'
  BY DEF IInv, CreateWhenFull, calls, faults, CreateJob, TypeOK, Row, NewRow,
     ValidStatuses, RecoverableStatuses, Text
<1>2. InFlightIsOpen'
  BY DEF IInv, CreateWhenFull, CreateJob, Exists, InFlightIsOpen, InFlight,
     NoRow, RecoverableStatuses
<1>3. RowIsCoherent'
  BY DEF IInv, CreateWhenFull, CreateJob, RowIsCoherent, NewRow
<1>4. RefusedNeverRuns'
  BY DEF IInv, CreateWhenFull, calls, CreateJob, Exists, RefusedNeverRuns,
     NoRow
<1>5. StageInv'
  <2>1. r \notin InFlight /\ sttCalls[r] = 0
    BY DEF IInv, CreateWhenFull, Exists, NoRow, InFlightIsOpen, CallsInv,
       RecoverableStatuses
  <2>2. InFlight' = InFlight /\ sttCalls'[r] = 0
    BY <2>1 DEF CreateWhenFull, InFlight, calls
  <2>3. db'[r] = NewRow /\ creating' = r /\ r # NoJob
    BY NoJobAssumption DEF IInv, TypeOK, CreateWhenFull, CreateJob
  <2>4. worker' = worker /\ worker \notin {"down", "starting", "shown"}
    BY DEF CreateWhenFull, Serving, LoopFree
  <2> QED
    BY <2>1, <2>2, <2>3, <2>4 DEF IInv, StageInv, CreateWhenFull
<1>6. CallsInv'
  BY DEF IInv, CreateWhenFull, calls, faults, CreateJob, Exists, CallsInv,
     InFlight
<1>7. InFlightIsExact' /\ InFlightOnce'
  BY DEF IInv, CreateWhenFull, InFlightIsExact, InFlightOnce
<1> QED
  BY <1>1, <1>2, <1>3, <1>4, <1>5, <1>6, <1>7 DEF IInv

\* The job that is refused is in no queue and had no call.
LEMMA StepRefuseFull ==
  ASSUME IInv, RefuseFull
  PROVE  IInv'
<1>1. TypeOK'
  BY DEF IInv, RefuseFull, calls, faults, Fail, SetStatus, Answer, TypeOK,
     Answers, StageInv, Row, NoRow, NewRow, ValidStatuses, TerminalStatuses,
     ErrorCodes
<1>2. InFlightIsOpen'
  BY DEF IInv, RefuseFull, Fail, SetStatus, InFlightIsOpen, InFlight, StageInv
<1>3. RowIsCoherent'
  BY DEF IInv, RefuseFull, Fail, SetStatus, RowIsCoherent
<1>4. RefusedNeverRuns'
  BY DEF IInv, RefuseFull, calls, Fail, SetStatus, Answer, TypeOK,
     RefusedNeverRuns, StageInv
<1>5. StageInv'
  BY DEF IInv, RefuseFull, StageInv
<1>6. CallsInv'
  BY DEF IInv, RefuseFull, calls, faults, Fail, SetStatus, CallsInv, StageInv,
     InFlight, Exists
<1>7. InFlightIsExact' /\ InFlightOnce'
  BY DEF IInv, RefuseFull, InFlightIsExact, InFlightOnce
<1> QED
  BY <1>1, <1>2, <1>3, <1>4, <1>5, <1>6, <1>7 DEF IInv

\* A refusal that could not be stored is not answered 409.
LEMMA StepRefuseRaises ==
  ASSUME IInv, RefuseRaises
  PROVE  IInv'
<1>1. TypeOK'
  BY DEF IInv, RefuseRaises, calls, Answer, TypeOK, Answers
<1>2. RefusedNeverRuns'
  BY DEF IInv, RefuseRaises, calls, Answer, RefusedNeverRuns
<1>3. StageInv'
  BY DEF IInv, RefuseRaises, StageInv
<1>4. /\ InFlightIsExact'
      /\ InFlightOnce'
      /\ InFlightIsOpen'
      /\ RowIsCoherent'
      /\ CallsInv'
  BY DEF IInv, RefuseRaises, calls, InFlight, InFlightIsExact, InFlightOnce,
     InFlightIsOpen, RowIsCoherent, CallsInv
<1> QED
  BY <1>1, <1>2, <1>3, <1>4 DEF IInv

\* Recovery fills an empty queue with unfinished rows.
LEMMA StepRecover ==
  ASSUME IInv, Recover
  PROVE  IInv'
<1>1. TypeOK'
  <2>1. PICK q \in RecoveryOrders :
          queue' = q /\ active' = Len(q) /\ taken' = ToSet(q)
    BY DEF Recover
  <2>2. /\ q \in Seq(Recordings) /\ Len(q) \in Nat
        /\ ToSet(q) \subseteq Recordings
    BY RecoveryOrdersAreQueues DEF ListRecoverable
  <2> QED
    BY <2>1, <2>2 DEF IInv, TypeOK, Recover, WorkerStates, calls, faults
<1>2. InFlightIsExact'
  BY RecoveryOrdersAreQueues DEF Recover, InFlightIsExact, Busy
<1>3. InFlightOnce'
  <2>1. PICK q \in RecoveryOrders :
          queue' = q /\ active' = Len(q) /\ taken' = ToSet(q)
    BY DEF Recover
  <2>2. IsInjective(q) /\ ToSet(q) \subseteq Recordings
    BY RecoveryOrdersAreQueues DEF ListRecoverable
  <2>3. current' = NoJob
    BY DEF IInv, StageInv, Recover, Busy
  <2> QED
    BY <2>1, <2>2, <2>3, NoJobAssumption DEF InFlightOnce
<1>4. InFlightIsOpen'
  BY RecoveryOrdersAreQueues DEF IInv, Recover, InFlightIsOpen, InFlight,
     ListRecoverable
<1>5. StageInv'
  BY DEF IInv, Recover, StageInv, Busy
<1>6. CallsInv'
  <2>1. PICK q \in RecoveryOrders :
          queue' = q /\ active' = Len(q) /\ taken' = ToSet(q)
    BY DEF Recover
  <2>2. current' = NoJob /\ queue = <<>> /\ taken = {}
    BY DEF IInv, StageInv, Recover, Busy
  <2>3. InFlight' = ToSet(q)
    BY <2>1, <2>2 DEF InFlight
  <2>4. worker' = "idle" /\ db' = db /\ UNCHANGED <<calls, faults>>
    BY DEF Recover
  <2>5. \A r \in Recordings :
          /\ sttCalls[r] <= stops /\ sttCalls[r] \in Nat /\ stops \in Nat
          /\ agentCalls[r] <= sttCalls[r] /\ agentCalls[r] \in Nat
          /\ ~Exists(db, r) => sttCalls[r] = 0
    BY <2>2 DEF IInv, TypeOK, CallsInv, Recover
  <2>6. /\ queue' = q /\ taken' = ToSet(q) /\ worker' # "stt" /\ db' = db
        /\ sttCalls' = sttCalls /\ agentCalls' = agentCalls /\ stops' = stops
    BY <2>1, <2>4 DEF calls, faults
  <2> QED
    BY <2>3, <2>5, <2>6 DEF CallsInv, Exists
<1>7. RowIsCoherent' /\ RefusedNeverRuns'
  BY DEF IInv, Recover, calls, InFlight, Busy, Exists, LoopFree,
     RowIsCoherent, RefusedNeverRuns
<1> QED
  BY <1>1, <1>2, <1>3, <1>4, <1>5, <1>6, <1>7 DEF IInv

\* The task ends before it queued anything.
LEMMA StepRecoverRaises ==
  ASSUME IInv, RecoverRaises
  PROVE  IInv'
<1>1. TypeOK'
  BY DEF IInv, RecoverRaises, calls, TypeOK, WorkerStates
<1>2. InFlightIsExact'
  BY DEF IInv, RecoverRaises, InFlightIsExact, Busy
<1>3. StageInv'
  BY DEF IInv, RecoverRaises, StageInv, Busy
<1>4. CallsInv'
  BY DEF IInv, RecoverRaises, calls, CallsInv, InFlight
<1>5. InFlightOnce' /\ InFlightIsOpen' /\ RowIsCoherent' /\ RefusedNeverRuns'
  BY DEF IInv, RecoverRaises, memory, calls, faults, InFlight, Busy, Exists,
     LoopFree, InFlightOnce, InFlightIsOpen, RowIsCoherent, RefusedNeverRuns
<1> QED
  BY <1>1, <1>2, <1>3, <1>4, <1>5 DEF IInv

\* The head of the queue becomes the current job.
LEMMA StepTranscribe ==
  ASSUME IInv, Transcribe
  PROVE  IInv'
<1>1. TypeOK'
  BY DEF IInv, Transcribe, faults, SetStatus, TypeOK, WorkerStates, Row,
     NoRow, ValidStatuses, RecoverableStatuses, Text, ErrorCodes
<1>2. InFlightIsExact'
  BY DEF IInv, Transcribe, InFlightIsExact, Busy
<1>3. InFlightOnce'
  BY TakeFromQueue DEF IInv, Transcribe, TypeOK, InFlightOnce, Exists
<1>4. InFlightIsOpen'
  BY TakeFromQueue DEF IInv, Transcribe, SetStatus, TypeOK, InFlightIsOpen,
     InFlight, StageInv, RecoverableStatuses
<1>5. RowIsCoherent'
  BY DEF IInv, Transcribe, SetStatus, RowIsCoherent
<1>6. RefusedNeverRuns'
  <2>1. Head(queue) \in InFlight
    BY TakeFromQueue DEF IInv, TypeOK, Transcribe, InFlight
  <2>2. Head(queue) \in Recordings /\ "refused" \notin answers[Head(queue)]
    BY <2>1, InFlightNotRefused
  <2> QED
    BY <2>2 DEF IInv, TypeOK, RefusedNeverRuns, Transcribe, SetStatus
<1>7. StageInv'
  BY TakeFromQueue, NoJobAssumption DEF IInv, Transcribe, SetStatus, TypeOK,
     StageInv, InFlight, Busy
<1>8. CallsInv'
  BY TakeFromQueue, NoJobAssumption DEF IInv, Transcribe, faults, SetStatus,
     TypeOK, CallsInv, StageInv, InFlight, InFlightOnce, InFlightIsOpen, Busy,
     Exists, LoopFree, NoRow, ValidStatuses, RecoverableStatuses,
     TerminalStatuses, ErrorCodes
<1> QED
  BY <1>1, <1>2, <1>3, <1>4, <1>5, <1>6, <1>7, <1>8 DEF IInv

\* The current job goes on to the agent.
LEMMA StepAskAgent ==
  ASSUME IInv, AskAgent
  PROVE  IInv'
<1>1. TypeOK'
  BY DEF IInv, AskAgent, faults, SetStatus, TypeOK, WorkerStates, Busy,
     StageInv, Row, ValidStatuses, RecoverableStatuses, Text
<1>2. InFlightIsExact'
  BY DEF IInv, AskAgent, InFlightIsExact, Busy
<1>3. InFlightIsOpen'
  BY DEF IInv, AskAgent, SetStatus, InFlightIsOpen, InFlight,
     RecoverableStatuses
<1>4. RowIsCoherent'
  BY DEF IInv, AskAgent, SetStatus, RowIsCoherent
<1>5. RefusedNeverRuns'
  BY DEF IInv, AskAgent, SetStatus, TypeOK, RefusedNeverRuns, CallsInv
<1>6. StageInv'
  BY DEF IInv, AskAgent, SetStatus, StageInv, InFlight, Busy
<1>7. CallsInv'
  BY DEF IInv, AskAgent, faults, SetStatus, TypeOK, CallsInv, InFlight,
     Exists, NoRow
<1>8. InFlightOnce'
  BY DEF IInv, AskAgent, InFlightOnce
<1> QED
  BY <1>1, <1>2, <1>3, <1>4, <1>5, <1>6, <1>7, <1>8 DEF IInv

\* The current job is done without a reply.
LEMMA StepNothingHeard ==
  ASSUME IInv, NothingHeard
  PROVE  IInv'
<1>1. TypeOK'
  BY DEF IInv, NothingHeard, calls, faults, SetStatus, LeaveProcess, TypeOK,
     WorkerStates, Busy, InFlightIsExact, StageInv, Row, ValidStatuses,
     TerminalStatuses, Text
<1>2. InFlightIsExact'
  BY QueueAssumption DEF IInv, NothingHeard, LeaveProcess, InFlightIsExact,
     Busy
<1>3. InFlightOnce'
  BY QueuedAreRecordings DEF IInv, NothingHeard, LeaveProcess, InFlightOnce,
     Exists
<1>4. InFlightIsOpen'
  BY DEF IInv, NothingHeard, SetStatus, LeaveProcess, InFlightOnce,
     InFlightIsOpen, InFlight
<1>5. RowIsCoherent'
  BY DEF IInv, NothingHeard, SetStatus, RowIsCoherent
<1>6. RefusedNeverRuns'
  BY DEF IInv, NothingHeard, calls, SetStatus, TypeOK, RefusedNeverRuns,
     CallsInv
<1>7. StageInv'
  BY DEF IInv, NothingHeard, calls, SetStatus, LeaveProcess, StageInv,
     InFlight, Busy
<1>8. CallsInv'
  BY DEF IInv, NothingHeard, calls, faults, SetStatus, LeaveProcess, TypeOK,
     CallsInv, InFlight, Exists, NoRow
<1> QED
  BY <1>1, <1>2, <1>3, <1>4, <1>5, <1>6, <1>7, <1>8 DEF IInv

\* The reply is stored; the job is still the current one.
LEMMA StepDisplay ==
  ASSUME IInv, Display
  PROVE  IInv'
<1>1. TypeOK'
  BY DEF IInv, Display, calls, faults, SetStatus, TypeOK, WorkerStates, Busy,
     StageInv, Row, ValidStatuses, RecoverableStatuses, Text
<1>2. InFlightIsExact'
  BY DEF IInv, Display, InFlightIsExact, Busy
<1>3. InFlightIsOpen'
  BY DEF IInv, Display, SetStatus, InFlightIsOpen, InFlight,
     RecoverableStatuses
<1>4. RowIsCoherent'
  BY DEF IInv, Display, SetStatus, RowIsCoherent
<1>5. RefusedNeverRuns'
  <2>1. current \in InFlight
    BY DEF IInv, StageInv, InFlight, Display, Busy
  <2>2. current \in Recordings /\ "refused" \notin answers[current]
    BY <2>1, InFlightNotRefused
  <2> QED
    BY <2>2 DEF IInv, RefusedNeverRuns, Display, SetStatus, calls
<1>6. StageInv'
  BY DEF IInv, Display, SetStatus, TypeOK, StageInv, Busy, LoopFree
<1>7. CallsInv'
  BY DEF IInv, Display, calls, faults, SetStatus, CallsInv, InFlight, Exists,
     NoRow
<1>8. InFlightOnce'
  BY DEF IInv, Display, InFlightOnce
<1> QED
  BY <1>1, <1>2, <1>3, <1>4, <1>5, <1>6, <1>7, <1>8 DEF IInv

\* The current job is done with its reply.
LEMMA StepFinish ==
  ASSUME IInv, Finish
  PROVE  IInv'
<1>1. TypeOK'
  BY DEF IInv, Finish, calls, faults, SetStatus, LeaveProcess, TypeOK,
     WorkerStates, Busy, InFlightIsExact, StageInv, Row, NoRow, ValidStatuses,
     TerminalStatuses
<1>2. InFlightIsExact'
  BY QueueAssumption DEF IInv, Finish, LeaveProcess, InFlightIsExact, Busy
<1>3. InFlightOnce'
  BY QueuedAreRecordings DEF IInv, Finish, LeaveProcess, InFlightOnce, Exists
<1>4. InFlightIsOpen'
  BY DEF IInv, Finish, SetStatus, LeaveProcess, InFlightOnce, InFlightIsOpen,
     InFlight
<1>5. RowIsCoherent'
  BY DEF IInv, Finish, SetStatus, RowIsCoherent, StageInv
<1>6. RefusedNeverRuns'
  BY DEF IInv, Finish, calls, SetStatus, RefusedNeverRuns, StageInv
<1>7. StageInv'
  BY DEF IInv, Finish, LeaveProcess, StageInv, Busy
<1>8. CallsInv'
  BY DEF IInv, Finish, calls, faults, SetStatus, LeaveProcess, CallsInv,
     InFlight, Busy, Exists, NoRow
<1> QED
  BY <1>1, <1>2, <1>3, <1>4, <1>5, <1>6, <1>7, <1>8 DEF IInv

\* The current job has failed.
LEMMA StepProviderFails ==
  ASSUME IInv, ProviderFails
  PROVE  IInv'
<1>1. TypeOK'
  BY DEF IInv, ProviderFails, calls, faults, Fail, SetStatus, LeaveProcess,
     TypeOK, WorkerStates, ProviderCodes, Busy, InFlightIsExact, StageInv,
     Row, ValidStatuses, TerminalStatuses, Text, ErrorCodes
<1>2. InFlightIsExact'
  BY QueueAssumption DEF IInv, ProviderFails, LeaveProcess, InFlightIsExact,
     Busy
<1>3. InFlightOnce'
  BY QueuedAreRecordings DEF IInv, ProviderFails, LeaveProcess, InFlightOnce,
     Exists
<1>4. InFlightIsOpen'
  BY DEF IInv, ProviderFails, Fail, SetStatus, LeaveProcess, InFlightOnce,
     InFlightIsOpen, InFlight
<1>5. RowIsCoherent'
  BY DEF IInv, ProviderFails, Fail, SetStatus, RowIsCoherent, ProviderCodes
<1>6. RefusedNeverRuns'
  <2>1. current \in InFlight
    BY DEF IInv, StageInv, InFlight, ProviderFails, Busy
  <2>2. current \in Recordings /\ "refused" \notin answers[current]
    BY <2>1, InFlightNotRefused
  <2> QED
    BY <2>2 DEF IInv, RefusedNeverRuns, ProviderFails, Fail, SetStatus, calls
<1>7. StageInv'
  BY DEF IInv, ProviderFails, calls, Fail, SetStatus, LeaveProcess, StageInv,
     InFlight, Busy
<1>8. CallsInv'
  BY DEF IInv, ProviderFails, calls, faults, Fail, SetStatus, LeaveProcess,
     TypeOK, CallsInv, InFlight, Exists, NoRow
<1> QED
  BY <1>1, <1>2, <1>3, <1>4, <1>5, <1>6, <1>7, <1>8 DEF IInv

\* A job whose statement raised has failed, taken or about to be.
LEMMA StepStoreRaises ==
  ASSUME IInv, StoreRaises
  PROVE  IInv'
<1>1. TypeOK'
  BY DEF IInv, StoreRaises, calls, Fail, SetStatus, LeaveProcess, TypeOK,
     WorkerStates, Busy, InFlightIsExact, StageInv, Row, ValidStatuses,
     TerminalStatuses, Text, ErrorCodes
<1>2. InFlightIsExact'
  BY QueueAssumption DEF IInv, StoreRaises, LeaveProcess, InFlightIsExact,
     Busy
<1>3. InFlightOnce'
  BY TakeFromQueue, BoundAssumption, QueuedAreRecordings DEF IInv,
     StoreRaises, LeaveProcess, TypeOK, InFlightOnce, Busy, Exists
<1>4. InFlightIsOpen'
  <2> DEFINE job == IF worker = "idle" THEN Head(queue) ELSE current
  <2>1. worker \in Busy => current # NoJob
    BY DEF IInv, StageInv
  <2>2. worker = "idle" => queue # <<>> /\ current = NoJob
    BY DEF IInv, StageInv, StoreRaises, Busy
  <2>3. job \notin InFlight'
    <3>1. CASE worker = "idle"
      BY <3>1, <2>2, TakeFromQueue, QueuedAreRecordings
         DEF IInv, TypeOK, InFlightOnce, StoreRaises, LeaveProcess, InFlight
    <3>2. CASE worker \in Busy
      BY <3>2, <2>1 DEF IInv, InFlightOnce, StoreRaises, LeaveProcess,
         InFlight, Busy
    <3> QED BY <3>1, <3>2 DEF StoreRaises
  <2>4. InFlight' \subseteq InFlight
    BY <2>2, TakeFromQueue
       DEF IInv, TypeOK, StoreRaises, LeaveProcess, InFlight
  <2>5. db' = Fail(db, job, "unknown_error")
    BY DEF StoreRaises
  <2>6. \A x \in InFlight' : db'[x] = db[x]
    <3>1. InFlight \subseteq Recordings
      BY QueuedAreRecordings DEF IInv, TypeOK, InFlight
    <3> QED BY <3>1, <2>3, <2>4, <2>5 DEF IInv, TypeOK, Fail, SetStatus
  <2> QED
    BY <2>4, <2>6 DEF IInv, InFlightIsOpen
<1>5. RowIsCoherent'
  BY DEF IInv, StoreRaises, Fail, SetStatus, RowIsCoherent
<1>6. RefusedNeverRuns'
  <2> DEFINE job == IF worker = "idle" THEN Head(queue) ELSE current
  <2>1. worker \in Busy => current # NoJob
    BY DEF IInv, StageInv
  <2>2. worker = "idle" => queue # <<>> /\ current = NoJob
    BY DEF IInv, StageInv, StoreRaises, Busy
  <2>3. job \in InFlight
    BY <2>1, <2>2, TakeFromQueue DEF IInv, TypeOK, StoreRaises, InFlight, Busy
  <2>4. job \in Recordings /\ "refused" \notin answers[job]
    BY <2>3, InFlightNotRefused
  <2>5. db' = Fail(db, job, "unknown_error") /\ answers' = answers
        /\ sttCalls' = sttCalls
    BY DEF StoreRaises, calls
  <2> QED
    BY <2>4, <2>5 DEF IInv, RefusedNeverRuns, Fail, SetStatus
<1>7. StageInv'
  BY DEF StoreRaises, LeaveProcess, StageInv, Busy
<1>8. CallsInv'
  BY TakeFromQueue DEF IInv, StoreRaises, calls, Fail, SetStatus,
     LeaveProcess, TypeOK, CallsInv, StageInv, InFlight, InFlightIsOpen, Busy,
     Exists, NoRow, NewRow, RecoverableStatuses, TerminalStatuses, Text,
     ErrorCodes
<1> QED
  BY <1>1, <1>2, <1>3, <1>4, <1>5, <1>6, <1>7, <1>8 DEF IInv

\* A job drops out of memory and its row stays as it was.
LEMMA StepFailureIsLost ==
  ASSUME IInv, FailureIsLost
  PROVE  IInv'
<1>1. TypeOK'
  BY DEF IInv, FailureIsLost, calls, LeaveProcess, TypeOK, WorkerStates, Busy,
     InFlightIsExact
<1>2. InFlightIsExact'
  BY QueueAssumption DEF IInv, FailureIsLost, LeaveProcess, InFlightIsExact,
     Busy
<1>3. InFlightOnce'
  BY TakeFromQueue, QueuedAreRecordings DEF IInv, FailureIsLost, LeaveProcess,
     TypeOK, InFlightOnce, Busy, Exists
<1>4. InFlightIsOpen'
  BY TakeFromQueue DEF IInv, FailureIsLost, LeaveProcess, TypeOK,
     InFlightIsOpen, InFlight, Busy
<1>5. StageInv'
  BY DEF FailureIsLost, LeaveProcess, StageInv, Busy
<1>6. CallsInv'
  BY TakeFromQueue DEF IInv, FailureIsLost, calls, LeaveProcess, TypeOK,
     CallsInv, InFlight, Busy
<1>7. RowIsCoherent' /\ RefusedNeverRuns'
  BY DEF IInv, FailureIsLost, calls, RowIsCoherent, RefusedNeverRuns
<1> QED
  BY <1>1, <1>2, <1>3, <1>4, <1>5, <1>6, <1>7 DEF IInv

\* The process starts with nothing in memory.
LEMMA StepStart ==
  ASSUME IInv, Start
  PROVE  IInv'
<1>1. TypeOK'
  BY DEF IInv, Start, calls, faults, TypeOK, WorkerStates
<1>2. InFlightIsExact'
  BY DEF IInv, Start, InFlightIsExact, Busy
<1>3. StageInv'
  BY DEF IInv, Start, StageInv, Busy
<1>4. CallsInv'
  BY DEF IInv, Start, calls, faults, CallsInv, InFlight
<1>5. InFlightOnce' /\ InFlightIsOpen' /\ RowIsCoherent' /\ RefusedNeverRuns'
  BY DEF IInv, Start, calls, InFlight, Busy, Exists, LoopFree, InFlightOnce,
     InFlightIsOpen, RowIsCoherent, RefusedNeverRuns
<1> QED
  BY <1>1, <1>2, <1>3, <1>4, <1>5 DEF IInv

\* The memory is gone and the rows are not.
LEMMA StepCrash ==
  ASSUME IInv, Crash
  PROVE  IInv'
<1>1. TypeOK'
  BY DEF IInv, Crash, calls, LoseMemory, TypeOK, WorkerStates
<1>2. InFlightIsExact'
  BY QueueAssumption DEF Crash, LoseMemory, InFlightIsExact, Busy
<1>3. InFlightOnce'
  BY EmptyQueue DEF Crash, LoseMemory, InFlightOnce, Exists
<1>4. InFlightIsOpen'
  BY EmptyQueue DEF Crash, LoseMemory, InFlightIsOpen, InFlight
<1>5. StageInv'
  BY DEF Crash, LoseMemory, StageInv, Busy
<1>6. CallsInv'
  BY EmptyQueue DEF IInv, Crash, calls, LoseMemory, TypeOK, CallsInv, InFlight
<1>7. RowIsCoherent' /\ RefusedNeverRuns'
  BY DEF IInv, Crash, calls, RowIsCoherent, RefusedNeverRuns
<1> QED
  BY <1>1, <1>2, <1>3, <1>4, <1>5, <1>6, <1>7 DEF IInv

\* So it is after an orderly end.
LEMMA StepStop ==
  ASSUME IInv, Stop
  PROVE  IInv'
<1>1. TypeOK'
  BY DEF IInv, Stop, calls, LoseMemory, TypeOK, WorkerStates
<1>2. InFlightIsExact'
  BY QueueAssumption DEF Stop, LoseMemory, InFlightIsExact, Busy
<1>3. InFlightOnce'
  BY EmptyQueue DEF Stop, LoseMemory, InFlightOnce, Exists
<1>4. InFlightIsOpen'
  BY EmptyQueue DEF Stop, LoseMemory, InFlightIsOpen, InFlight
<1>5. StageInv'
  BY DEF Stop, LoseMemory, StageInv, Busy
<1>6. CallsInv'
  BY EmptyQueue DEF IInv, Stop, calls, LoseMemory, TypeOK, CallsInv, InFlight
<1>7. RowIsCoherent' /\ RefusedNeverRuns'
  BY DEF IInv, Stop, calls, RowIsCoherent, RefusedNeverRuns
<1> QED
  BY <1>1, <1>2, <1>3, <1>4, <1>5, <1>6, <1>7 DEF IInv

\* A step that changes none of the variables.
LEMMA StepStutter ==
  ASSUME IInv, UNCHANGED vars
  PROVE  IInv'
<1>1. TypeOK' /\ InFlightIsExact' /\ InFlightOnce'
  BY DEF IInv, vars, memory, calls, faults, TypeOK, InFlightIsExact,
     InFlightOnce
<1>2. InFlightIsOpen' /\ RowIsCoherent' /\ RefusedNeverRuns'
  BY DEF IInv, vars, memory, calls, InFlightIsOpen, InFlight, RowIsCoherent,
     RefusedNeverRuns
<1>3. StageInv' /\ CallsInv'
  BY DEF IInv, vars, memory, calls, faults, StageInv, CallsInv, InFlight, Exists
<1> QED
  BY <1>1, <1>2, <1>3 DEF IInv

LEMMA StepPreserves ==
  ASSUME IInv, [Next]_vars
  PROVE  IInv'
<1>1. ASSUME NEW r \in Recordings, Post(r) PROVE IInv'
  BY <1>1, StepCreateJobAgain, StepCreateAndSubmit, StepCreateWhenFull DEF Post
<1>2. CASE RefuseFull \/ RefuseRaises
  BY <1>2, StepRefuseFull, StepRefuseRaises
<1>3. CASE Recover \/ RecoverRaises
  BY <1>3, StepRecover, StepRecoverRaises
<1>4. CASE WorkerStep
  BY <1>4, StepTranscribe, StepAskAgent, StepNothingHeard, StepDisplay,
     StepFinish, StepProviderFails DEF WorkerStep
<1>5. CASE StoreRaises \/ FailureIsLost
  BY <1>5, StepStoreRaises, StepFailureIsLost
<1>6. CASE Start \/ Crash \/ Stop
  BY <1>6, StepStart, StepCrash, StepStop
<1>7. CASE UNCHANGED vars
  BY <1>7, StepStutter
<1> QED
  BY <1>1, <1>2, <1>3, <1>4, <1>5, <1>6, <1>7 DEF Next

-----------------------------------------------------------------------------
(* The theorems.                                                            *)

\* The inductive invariant holds in every reachable state.
THEOREM InductiveInvariant == Spec => []IInv
<1>1. Init => IInv
  BY InitEstablishes
<1>2. IInv /\ [Next]_vars => IInv'
  BY StepPreserves
<1> QED BY <1>1, <1>2, PTL DEF Spec

\* Every variable keeps its type: no counter of the worker goes below zero
\* and no row holds a status, a column or an error code the schema lacks.
THEOREM TypeCorrect == Spec => []TypeOK
<1>1. IInv => TypeOK
  BY DEF IInv
<1> QED BY <1>1, InductiveInvariant, PTL

\* Worker.active is exactly what is queued and running and stays within
\* queue_maxsize, so put_nowait never raises QueueFull (worker.py:58-68).
THEOREM AccountingIsExact == Spec => []InFlightIsExact
<1>1. IInv => InFlightIsExact
  BY DEF IInv
<1> QED BY <1>1, InductiveInvariant, PTL

\* The worker holds no recording twice and no finished one, whatever is
\* posted again, refused or recovered (app.py:79-80, worker.py:75-79).
THEOREM NothingTwiceOrFinished == Spec => []InFlightIsSound
<1>1. IInv => InFlightIsSound
  BY DEF IInv, InFlightIsSound
<1> QED BY <1>1, InductiveInvariant, PTL

\* The columns of a row never contradict its status.
THEOREM RowsCoherent == Spec => []RowIsCoherent
<1>1. IInv => RowIsCoherent
  BY DEF IInv
<1> QED BY <1>1, InductiveInvariant, PTL

\* No provider is ever called for a recording answered 409, in this life of
\* the process or a later one (app.py:95-98).
THEOREM RefusalIsHonest == Spec => []RefusedNeverRuns
<1>1. IInv => RefusedNeverRuns
  BY DEF IInv
<1> QED BY <1>1, InductiveInvariant, PTL

\* A provider sees a job once per life of the process at most.
THEOREM CallsAreBounded == Spec => []ProvidersOncePerLife
<1>1. ASSUME IInv PROVE ProvidersOncePerLife
  <2>1. ASSUME NEW r \in Recordings
        PROVE  sttCalls[r] <= 1 + stops /\ agentCalls[r] <= sttCalls[r]
    <3>1. /\ sttCalls[r] \in Nat /\ agentCalls[r] \in Nat /\ stops \in Nat
      BY <1>1 DEF IInv, TypeOK
    <3> QED
      BY <1>1, <3>1 DEF IInv, CallsInv
  <2> QED
    BY <2>1 DEF ProvidersOncePerLife
<1> QED BY <1>1, InductiveInvariant, PTL

\* A step of the orchestrator leaves a finished row alone.
LEMMA FinishedStays ==
  ASSUME IInv, Next, NEW r \in Recordings, Terminal(r)
  PROVE  db'[r] = db[r]
<1>1. r \notin InFlight /\ r # creating
  BY NoJobAssumption DEF IInv, InFlightIsOpen, StageInv, Terminal,
     TerminalStatuses, RecoverableStatuses, NewRow
<1>2. Exists(db, r)
  BY DEF Terminal, TerminalStatuses, Exists, NoRow
<1>3. ASSUME NEW s \in Recordings, Post(s) PROVE db'[r] = db[r]
  BY <1>2, <1>3 DEF IInv, TypeOK, Post, CreateJobAgain,
     CreateAndSubmit, CreateWhenFull, CreateJob
<1>4. CASE RefuseFull
  BY <1>4, <1>1 DEF IInv, TypeOK, RefuseFull, Fail, SetStatus
<1>5. CASE WorkerStep \/ StoreRaises
  <2>1. queue # <<>> => Head(queue) \in InFlight
    BY TakeFromQueue DEF IInv, TypeOK, InFlight
  <2>2. worker \in Busy => current \in InFlight
    BY DEF IInv, StageInv, InFlight
  <2>3. CASE Transcribe
    BY <2>3, <2>1, <1>1 DEF IInv, TypeOK, Transcribe, SetStatus
  <2>4. CASE AskAgent \/ NothingHeard \/ Display \/ Finish
    BY <2>4, <2>2, <1>1 DEF IInv, TypeOK, AskAgent, NothingHeard,
       Display, Finish, SetStatus, Busy
  <2>5. CASE ProviderFails
    BY <2>5, <2>2, <1>1 DEF IInv, TypeOK, ProviderFails, Fail,
       SetStatus, Busy
  <2>6. CASE StoreRaises
    BY <2>6, <2>1, <2>2, <1>1 DEF IInv, TypeOK, StoreRaises, Fail,
       SetStatus, Busy
  <2> QED
    BY <1>5, <2>3, <2>4, <2>5, <2>6 DEF WorkerStep
<1>6. CASE RefuseRaises \/ Recover \/ RecoverRaises \/ FailureIsLost
  BY <1>6 DEF RefuseRaises, Recover, RecoverRaises, FailureIsLost
<1>7. CASE Start \/ Crash \/ Stop
  BY <1>7 DEF Start, Crash, Stop
<1> QED
  BY <1>3, <1>4, <1>5, <1>6, <1>7 DEF Next

\* A job that is done or has failed stays as it is, through every handler,
\* recovery and crash (store.py:149-156 takes up unfinished rows only).
THEOREM FinalForEver == Spec => TerminalIsFinal
<1> DEFINE Final == \A r \in Recordings : Terminal(r) => db'[r] = db[r]
<1>1. IInv /\ [Next]_vars => [Final]_vars
  BY FinishedStays
<1>2. Spec => [][Final]_vars
  BY <1>1, InductiveInvariant, PTL DEF Spec
<1> QED BY <1>2 DEF TerminalIsFinal

-----------------------------------------------------------------------------
(* How many jobs are in flight.                                             *)

\* A queue without repetitions has as many elements as places.
LEMMA QueueCardinality ==
  ASSUME NEW S, NEW q \in Seq(S), IsInjective(q)
  PROVE  IsFiniteSet(ToSet(q)) /\ Cardinality(ToSet(q)) = Len(q)
<1>1. Len(q) \in Nat /\ DOMAIN q = 1..Len(q)
  BY LenProperties
<1>2. q \in [1..Len(q) -> ToSet(q)]
  BY <1>1, LenProperties DEF ToSet
<1>3. q \in Surjection(1..Len(q), ToSet(q)) /\ q \in Injection(1..Len(q), ToSet(q))
  BY <1>1, <1>2 DEF Surjection, Injection, IsInjective, ToSet
<1>4. IsFiniteSet(1..Len(q)) /\ Cardinality(1..Len(q)) = Len(q)
  BY <1>1, FS_Interval
<1> QED
  BY <1>3, <1>4, FS_Surjection

\* Worker.active is the number of jobs in flight.
LEMMA InFlightCardinality ==
  ASSUME IInv
  PROVE  IsFiniteSet(InFlight) /\ Cardinality(InFlight) = active
<1>1. IsFiniteSet(ToSet(queue)) /\ Cardinality(ToSet(queue)) = Len(queue)
  BY QueueCardinality DEF IInv, TypeOK, InFlightOnce
<1>2. CASE worker \in Busy
  <2>1. InFlight = ToSet(queue) \cup {current} /\ current \notin ToSet(queue)
    BY <1>2 DEF IInv, StageInv, InFlight, InFlightOnce
  <2> QED
    BY <1>1, <1>2, <2>1, FS_AddElement DEF IInv, InFlightIsExact
<1>3. CASE worker \notin Busy
  <2>1. InFlight = ToSet(queue)
    BY <1>3 DEF IInv, StageInv, InFlight
  <2>2. Len(queue) \in Nat
    BY LenProperties DEF IInv, TypeOK
  <2> QED
    BY <1>1, <1>3, <2>1, <2>2 DEF IInv, InFlightIsExact
<1> QED
  BY <1>2, <1>3

(* What the steps do to the ledger.                                         *)

\* A statement on a job in flight that leaves it unfinished is not seen.
LEMMA StaysOpen ==
  ASSUME IInv, NEW job \in InFlight, NEW st \in RecoverableStatuses,
         NEW tr, NEW re, NEW er, db' = SetStatus(db, job, st, tr, re, er)
  PROVE  LedgerState' = LedgerState
<1>1. db \in [Recordings -> Row \cup {NoRow}] /\ job \in Recordings
  BY InFlightNotRefused DEF IInv, TypeOK
<1>2. db[job].status \in RecoverableStatuses
  BY DEF IInv, InFlightIsOpen
<1>3. /\ db'[job].status = st
      /\ \A r \in Recordings : r # job => db'[r] = db[r]
  BY <1>1 DEF SetStatus
<1> QED
  BY <1>2, <1>3 DEF LedgerState

\* One that finishes a recording closes its entry.
LEMMA ClosesEntry ==
  ASSUME IInv, NEW job \in Recordings, NEW st \in TerminalStatuses,
         NEW tr, NEW re, NEW er, db' = SetStatus(db, job, st, tr, re, er)
  PROVE  LedgerState' = [LedgerState EXCEPT ![job] = st]
<1>1. db \in [Recordings -> Row \cup {NoRow}]
  BY DEF IInv, TypeOK
<1>2. /\ db'[job].status = st
      /\ \A r \in Recordings : r # job => db'[r] = db[r]
  BY <1>1 DEF SetStatus
<1>3. st \notin RecoverableStatuses
  BY DEF TerminalStatuses, RecoverableStatuses
<1> QED
  BY <1>2, <1>3 DEF LedgerState

\* The INSERT opens one that was absent.
LEMMA OpensEntry ==
  ASSUME IInv, NEW r \in Recordings, ~Exists(db, r), db' = CreateJob(db, r)
  PROVE  /\ LedgerState[r] = "absent"
         /\ LedgerState' = [LedgerState EXCEPT ![r] = "open"]
<1>1. db \in [Recordings -> Row \cup {NoRow}]
  BY DEF IInv, TypeOK
<1>2. /\ db[r].status = "absent" /\ db'[r].status = "received"
      /\ \A x \in Recordings : x # r => db'[x] = db[x]
  BY <1>1 DEF CreateJob, Exists, NoRow, NewRow
<1> QED
  BY <1>2 DEF LedgerState, RecoverableStatuses

\* The job that leaves _process, or that is taken from the queue and dropped
\* at once, is no longer in flight; the others are.
LEMMA LeavesFlight ==
  ASSUME IInv, LeaveProcess,
         \/ worker \in Busy /\ queue' = queue
         \/ worker = "idle" /\ queue # <<>> /\ queue' = Tail(queue)
  PROVE  LET job == IF worker = "idle" THEN Head(queue) ELSE current
         IN  /\ job \in InFlight /\ job \in Recordings
             /\ InFlight' = InFlight \ {job}
<1>1. NoJob \notin ToSet(queue) /\ queue \in Seq(Recordings) /\ IsInjective(queue)
      /\ current \notin ToSet(queue)
  BY QueuedAreRecordings DEF IInv, TypeOK, InFlightOnce
<1>2. CASE worker \in Busy /\ queue' = queue
  <2>1. current # NoJob /\ current' = NoJob /\ worker # "idle"
    BY <1>2 DEF IInv, StageInv, LeaveProcess, Busy
  <2>2. current \in InFlight /\ current \in Recordings
    BY <2>1 DEF IInv, TypeOK, InFlight
  <2> QED
    BY <1>1, <1>2, <2>1, <2>2 DEF InFlight
<1>3. CASE worker = "idle" /\ queue # <<>> /\ queue' = Tail(queue)
  <2>1. current = NoJob /\ current' = NoJob
    BY <1>3 DEF IInv, StageInv, LeaveProcess, Busy
  <2>2. /\ Head(queue) \in Recordings /\ Head(queue) \in ToSet(queue)
        /\ ToSet(Tail(queue)) = ToSet(queue) \ {Head(queue)}
    BY <1>1, <1>3, TakeFromQueue
  <2> QED
    BY <1>1, <1>3, <2>1, <2>2 DEF InFlight
<1> QED
  BY <1>2, <1>3

\* A job that is between its INSERT and its 409 is refused by a full service.
LEMMA RefusingStaysFull ==
  ASSUME IInv, FullWhileRefusing, [Next]_vars
  PROVE  FullWhileRefusing'
<1>1. CASE \E r \in Recordings : CreateWhenFull(r)
  <2>1. active \in Nat /\ active <= QueueMaxsize /\ QueueMaxsize \in Nat
    BY QueueAssumption DEF IInv, TypeOK, InFlightIsExact
  <2>2. active >= QueueMaxsize /\ active' = active
    BY <1>1 DEF CreateWhenFull
  <2> QED
    BY <2>1, <2>2 DEF FullWhileRefusing
<1>2. CASE \E r \in Recordings : CreateJobAgain(r) \/ CreateAndSubmit(r)
  BY <1>2, QueueAssumption
     DEF CreateJobAgain, CreateAndSubmit, memory, FullWhileRefusing, LoopFree
<1>3. CASE RefuseFull \/ RefuseRaises \/ Crash \/ Stop
  BY <1>3 DEF RefuseFull, RefuseRaises, Crash, Stop, LoseMemory, FullWhileRefusing
<1>4. CASE Recover \/ RecoverRaises \/ Start
  <2>1. creating = NoJob /\ creating' = creating
    BY <1>4 DEF Recover, RecoverRaises, Start, IInv, StageInv
  <2> QED
    BY <2>1 DEF FullWhileRefusing
<1>5. CASE WorkerStep
  <2>1. creating = NoJob /\ creating' = creating
    BY <1>5 DEF WorkerStep, Transcribe, AskAgent, NothingHeard, Display,
       Finish, ProviderFails, LoopFree, IInv, StageInv
  <2> QED
    BY <2>1 DEF FullWhileRefusing
<1>6. CASE StoreRaises \/ FailureIsLost
  BY <1>6 DEF StoreRaises, FailureIsLost, FullWhileRefusing
<1>7. CASE UNCHANGED vars
  BY <1>7 DEF vars, memory, FullWhileRefusing
<1> QED
  BY <1>1, <1>2, <1>3, <1>4, <1>5, <1>6, <1>7 DEF Next, Post

-----------------------------------------------------------------------------
(* Every step is one of the ledger, or none.                                *)

LedgerStep == [Ledger!Next]_<<LedgerState, InFlight>>

\* JobLedger brings its own instance of FiniteSets.
LEMMA SameCardinality ==
  \A S : Ledger!Cardinality(S) = Cardinality(S)
BY DEF Ledger!Cardinality, Cardinality, Ledger!IsFiniteSet, IsFiniteSet

\* POST: a new entry, taken into service if there is room; or nothing.
LEMMA PostSteps ==
  ASSUME IInv, NEW r \in Recordings, Post(r)
  PROVE  LedgerStep
<1>1. IsFiniteSet(InFlight) /\ Cardinality(InFlight) = active
  BY InFlightCardinality
<1>2. CASE CreateJobAgain(r)
  BY <1>2 DEF CreateJobAgain, memory, LedgerStep, LedgerState, InFlight
<1>3. CASE CreateAndSubmit(r)
  <2>1. /\ LedgerState[r] = "absent"
        /\ LedgerState' = [LedgerState EXCEPT ![r] = "open"]
    BY <1>3, OpensEntry DEF CreateAndSubmit
  <2>2. InFlight' = InFlight \cup {r}
    BY <1>3, AppendToQueue DEF IInv, TypeOK, CreateAndSubmit, InFlight
  <2>3. Ledger!Enter(r)
    BY <1>1, <1>3, <2>1, <2>2, SameCardinality DEF Ledger!Enter, CreateAndSubmit
  <2> QED
    BY <2>3 DEF LedgerStep, Ledger!Next
<1>4. CASE CreateWhenFull(r)
  <2>1. /\ LedgerState[r] = "absent"
        /\ LedgerState' = [LedgerState EXCEPT ![r] = "open"]
    BY <1>4, OpensEntry DEF CreateWhenFull
  <2>2. InFlight' = InFlight /\ active >= QueueMaxsize
    BY <1>4 DEF CreateWhenFull, InFlight
  <2>3. ~(Cardinality(InFlight) < QueueMaxsize)
    BY <1>1, <2>2, QueueAssumption DEF IInv, TypeOK
  <2>4. Ledger!Enter(r)
    BY <2>1, <2>2, <2>3, SameCardinality DEF Ledger!Enter
  <2> QED
    BY <2>4 DEF LedgerStep, Ledger!Next
<1> QED
  BY <1>2, <1>3, <1>4 DEF Post

\* The second half of a POST that found the queue full.
LEMMA RefusalSteps ==
  ASSUME IInv, FullWhileRefusing, RefuseFull \/ RefuseRaises
  PROVE  LedgerStep
<1>1. CASE RefuseFull
  <2>1. /\ creating \in Recordings /\ creating \notin InFlight
        /\ db[creating] = NewRow /\ active = QueueMaxsize
    BY <1>1 DEF IInv, TypeOK, StageInv, FullWhileRefusing, RefuseFull
  <2>2. LedgerState[creating] = "open"
    BY <2>1 DEF LedgerState, NewRow, RecoverableStatuses
  <2>3. LedgerState' = [LedgerState EXCEPT ![creating] = "failed"]
    BY <1>1, <2>1, ClosesEntry DEF RefuseFull, Fail, TerminalStatuses
  <2>4. InFlight' = InFlight
    BY <1>1 DEF RefuseFull, InFlight
  <2>5. Ledger!Refuse(creating)
    BY <2>1, <2>2, <2>3, <2>4, InFlightCardinality, SameCardinality
       DEF Ledger!Refuse
  <2> QED
    BY <2>1, <2>5 DEF LedgerStep, Ledger!Next
<1>2. CASE RefuseRaises
  BY <1>2 DEF RefuseRaises, LedgerStep, LedgerState, InFlight
<1> QED
  BY <1>1, <1>2

\* Recovery takes up what is open, all of it or as much as fits.
LEMMA RecoverySteps ==
  ASSUME IInv, Recover \/ RecoverRaises
  PROVE  LedgerStep
<1>1. CASE Recover
  <2>1. PICK q \in RecoveryOrders : queue' = q
    BY <1>1 DEF Recover
  <2>2. InFlight = {} /\ InFlight' = ToSet(q) /\ LedgerState' = LedgerState
    BY <1>1, <2>1, EmptyQueue
       DEF Recover, IInv, StageInv, Busy, InFlight, LedgerState
  <2>3. ToSet(q) \subseteq Ledger!Open
    BY RecoveryOrdersAreQueues DEF Ledger!Open, LedgerState, ListRecoverable
  <2>4. /\ Cardinality(ToSet(q)) = Len(q) /\ Len(q) \in Nat
        /\ Len(q) <= QueueMaxsize
    BY RecoveryOrdersAreQueues, QueueCardinality
  <2>5. Len(q) < QueueMaxsize => ToSet(q) = Ledger!Open
    <3>1. Ledger!Open = ListRecoverable(db)
      <4>1. \A row \in Row \cup {NoRow} : row.status # "open"
        BY DEF Row, NoRow, ValidStatuses, RecoverableStatuses, TerminalStatuses
      <4>2. \A r \in Recordings : db[r].status # "open"
        BY <4>1 DEF IInv, TypeOK
      <4> QED
        BY <4>2 DEF Ledger!Open, LedgerState, ListRecoverable
    <3> QED
      BY <3>1 DEF RecoveryOrders
  <2>6. Ledger!Resume
    <3>1. Ledger!Cardinality(ToSet(q)) = Len(q)
      BY <2>4, SameCardinality
    <3>2. CASE Len(q) < QueueMaxsize
      BY <2>2, <2>4, <2>5, <3>1, <3>2, QueueAssumption DEF Ledger!Resume
    <3>3. CASE Len(q) = QueueMaxsize
      BY <2>2, <2>3, <3>1, <3>3 DEF Ledger!Resume
    <3> QED
      BY <2>4, <3>2, <3>3, QueueAssumption
  <2> QED
    BY <2>6 DEF LedgerStep, Ledger!Next
<1>2. CASE RecoverRaises
  BY <1>2 DEF RecoverRaises, LedgerStep, LedgerState, InFlight
<1> QED
  BY <1>1, <1>2

\* The worker: what leaves a job unfinished is not seen, what finishes it
\* closes its entry.
LEMMA WorkerSteps ==
  ASSUME IInv, WorkerStep
  PROVE  LedgerStep
<1>1. /\ LoopFree \/ worker = "shown"
      /\ "transcribing" \in RecoverableStatuses
      /\ "working" \in RecoverableStatuses /\ "displaying" \in RecoverableStatuses
      /\ "done" \in TerminalStatuses /\ "failed" \in TerminalStatuses
  BY DEF WorkerStep, Transcribe, AskAgent, NothingHeard, Display, Finish,
     ProviderFails, RecoverableStatuses, TerminalStatuses
<1>2. worker \in Busy => /\ current \in InFlight /\ current \in Recordings
                         /\ current # NoJob
  BY DEF IInv, TypeOK, StageInv, InFlight
<1>3. CASE Transcribe
  <2>1. /\ Head(queue) \in Recordings /\ Head(queue) \in ToSet(queue)
        /\ ToSet(Tail(queue)) = ToSet(queue) \ {Head(queue)}
    BY <1>3, TakeFromQueue DEF Transcribe, IInv, TypeOK, InFlightOnce
  <2>2. current = NoJob /\ Head(queue) # NoJob
    BY <1>3, <2>1, NoJobAssumption DEF Transcribe, IInv, StageInv, Busy
  <2>3. InFlight' = InFlight /\ Head(queue) \in InFlight
    BY <1>3, <2>1, <2>2 DEF Transcribe, InFlight
  <2>4. LedgerState' = LedgerState
    BY <1>1, <1>3, <2>3, StaysOpen DEF Transcribe
  <2> QED
    BY <2>3, <2>4 DEF LedgerStep
<1>4. CASE AskAgent \/ Display
  <2>1. worker \in Busy /\ InFlight' = InFlight
    BY <1>4 DEF AskAgent, Display, Busy, InFlight
  <2>2. LedgerState' = LedgerState
    <3>1. CASE AskAgent
      BY <1>1, <1>2, <2>1, <3>1, StaysOpen DEF AskAgent
    <3>2. CASE Display
      BY <1>1, <1>2, <2>1, <3>2, StaysOpen DEF Display
    <3> QED
      BY <1>4, <3>1, <3>2
  <2> QED
    BY <2>1, <2>2 DEF LedgerStep
<1>5. CASE NothingHeard \/ Finish \/ ProviderFails
  <2>1. worker \in Busy /\ queue' = queue /\ LeaveProcess /\ worker # "idle"
    BY <1>5 DEF NothingHeard, Finish, ProviderFails, Busy
  <2>2. InFlight' = InFlight \ {current} /\ current \in InFlight
        /\ current \in Recordings
    BY <2>1, LeavesFlight
  <2>3. PICK outcome \in {"done", "failed"} :
          LedgerState' = [LedgerState EXCEPT ![current] = outcome]
    <3>1. CASE NothingHeard
      BY <1>1, <2>2, <3>1, ClosesEntry DEF NothingHeard
    <3>2. CASE Finish
      BY <1>1, <2>2, <3>2, ClosesEntry DEF Finish
    <3>3. CASE ProviderFails
      BY <1>1, <2>2, <3>3, ClosesEntry DEF ProviderFails, Fail
    <3> QED
      BY <1>5, <3>1, <3>2, <3>3
  <2>4. Ledger!Close(current, outcome)
    BY <2>2, <2>3 DEF Ledger!Close
  <2> QED
    BY <2>2, <2>4 DEF LedgerStep, Ledger!Next
<1> QED
  BY <1>3, <1>4, <1>5 DEF WorkerStep

\* A failing statement: the job is closed as failed, or abandoned.
LEMMA StoreErrorSteps ==
  ASSUME IInv, StoreRaises \/ FailureIsLost
  PROVE  LedgerStep
<1> DEFINE job == IF worker = "idle" THEN Head(queue) ELSE current
<1>1. /\ LeaveProcess
      /\ \/ worker \in Busy /\ queue' = queue
         \/ worker = "idle" /\ queue # <<>> /\ queue' = Tail(queue)
  BY DEF StoreRaises, FailureIsLost, Busy
<1>2. job \in InFlight /\ job \in Recordings /\ InFlight' = InFlight \ {job}
  BY <1>1, LeavesFlight
<1>3. CASE StoreRaises
  <2>1. db' = Fail(db, job, "unknown_error")
    BY <1>3 DEF StoreRaises
  <2> HIDE DEF job
  <2>2. LedgerState' = [LedgerState EXCEPT ![job] = "failed"]
    BY <1>2, <2>1, ClosesEntry DEF Fail, TerminalStatuses
  <2>3. Ledger!Close(job, "failed")
    BY <1>2, <2>2 DEF Ledger!Close
  <2> QED
    BY <1>2, <2>3 DEF LedgerStep, Ledger!Next
<1>4. CASE FailureIsLost
  <2> HIDE DEF job
  <2>1. LedgerState' = LedgerState
    BY <1>4 DEF FailureIsLost, LedgerState
  <2>2. Ledger!Abandon(job)
    BY <1>2, <2>1 DEF Ledger!Abandon
  <2> QED
    BY <1>2, <2>2 DEF LedgerStep, Ledger!Next
<1> QED
  BY <1>3, <1>4

\* The ends of the process interrupt the service; its start is not seen.
LEMMA ProcessSteps ==
  ASSUME IInv, Start \/ Crash \/ Stop
  PROVE  LedgerStep
<1>1. CASE Start
  BY <1>1 DEF Start, LedgerStep, LedgerState, InFlight
<1>2. CASE Crash \/ Stop
  <2>1. InFlight' = {} /\ LedgerState' = LedgerState
    BY <1>2, EmptyQueue DEF Crash, Stop, LoseMemory, InFlight, LedgerState
  <2>2. Ledger!Interrupt
    BY <2>1 DEF Ledger!Interrupt
  <2> QED
    BY <2>2 DEF LedgerStep, Ledger!Next
<1> QED
  BY <1>1, <1>2

-----------------------------------------------------------------------------

\* The orchestrator implements the ledger (ImplementsLedger): through every
\* interleaving, crash and failing statement of M1Service a recording is
\* entered at most once, at most QueueMaxsize open entries are worked on,
\* and an entry once closed stays closed.
THEOREM ImplementsTheLedger == Spec => ImplementsLedger
<1>1. Init => FullWhileRefusing /\ Ledger!Init
  <2> SUFFICES ASSUME Init PROVE FullWhileRefusing /\ Ledger!Init
    OBVIOUS
  <2>1. LedgerState = [r \in Recordings |-> "absent"]
    BY DEF Init, LedgerState, NoRow, RecoverableStatuses
  <2>2. InFlight = {}
    BY EmptyQueue DEF Init, InFlight
  <2> QED
    BY <2>1, <2>2 DEF Init, FullWhileRefusing, Ledger!Init
<1>2. IInv /\ FullWhileRefusing /\ [Next]_vars
        => FullWhileRefusing' /\ [Ledger!Next]_<<LedgerState, InFlight>>
  <2> SUFFICES ASSUME IInv, FullWhileRefusing, [Next]_vars
               PROVE  FullWhileRefusing' /\ LedgerStep
    BY DEF LedgerStep
  <2>1. FullWhileRefusing'
    BY RefusingStaysFull
  <2>2. UNCHANGED vars => LedgerStep
    BY DEF vars, memory, LedgerStep, LedgerState, InFlight
  <2>3. Next => LedgerStep
    BY PostSteps, RefusalSteps, RecoverySteps, WorkerSteps,
       StoreErrorSteps, ProcessSteps DEF Next
  <2> QED
    BY <2>1, <2>2, <2>3
<1>3. Spec => []IInv
  BY InductiveInvariant
<1> QED
  BY <1>1, <1>2, <1>3, PTL DEF Spec, ImplementsLedger, Ledger!Spec, Ledger!lvars

-----------------------------------------------------------------------------
(* What falls out of the service: Dropped and Stranded.                     *)

\* One statement changes one row, and a finishing one finishes it.
LEMMA OneStatement ==
  ASSUME db \in [Recordings -> Row \cup {NoRow}], NEW job \in Recordings,
         NEW st, NEW tr, NEW re, NEW er, db' = SetStatus(db, job, st, tr, re, er)
  PROVE  /\ \A r \in Recordings : r # job => db'[r] = db[r]
         /\ st \in TerminalStatuses => db'[job].status \in TerminalStatuses
BY DEF SetStatus

\* A step that touches one recording x only adds x to them, and not even x
\* if it leaves x finished or in flight.
LEMMA OneRowChanges ==
  ASSUME IInv, NEW x \in Recordings,
         \A r \in Recordings : r # x => db'[r] = db[r],
         InFlight \ {x} \subseteq InFlight',
         taken' \subseteq taken \cup InFlight',
         creating \in {creating', NoJob, x}
  PROVE  /\ Dropped' \subseteq Dropped \cup {x}
         /\ Stranded' \subseteq Stranded \cup {x}
         /\ x \in InFlight' \/ db'[x].status \in TerminalStatuses
              => Dropped' \subseteq Dropped /\ Stranded' \subseteq Stranded
<1>1. taken \subseteq Recordings
  BY DEF IInv, TypeOK
<1>2. ASSUME NEW r \in Dropped'
      PROVE  r \in Dropped \cup {x} /\ r \notin InFlight' /\ db'[r].status \notin TerminalStatuses
  <2>1. r \in taken' /\ db'[r].status \notin TerminalStatuses /\ r \notin InFlight'
    BY DEF Dropped, Terminal
  <2>2. r \in taken /\ r \in Recordings
    BY <1>1, <2>1
  <2>3. r # x => ~Terminal(r) /\ r \notin InFlight
    BY <2>1, <2>2 DEF Terminal
  <2> QED
    BY <2>1, <2>2, <2>3 DEF Dropped
<1>3. ASSUME NEW r \in Stranded'
      PROVE  r \in Stranded \cup {x} /\ r \notin InFlight' /\ db'[r].status \notin TerminalStatuses
  <2>1. /\ r \in Recordings /\ db'[r].status \in RecoverableStatuses
        /\ r \notin InFlight' /\ r # creating'
    BY DEF Stranded, ListRecoverable
  <2>2. db'[r].status \notin TerminalStatuses
    BY <2>1 DEF Terminal, TerminalStatuses, RecoverableStatuses
  <2>3. r # x => /\ db[r].status \in RecoverableStatuses
                 /\ r \notin InFlight /\ r # creating
    BY <2>1, NoJobAssumption
  <2> QED
    BY <2>1, <2>2, <2>3 DEF Stranded, ListRecoverable
<1> QED
  BY <1>2, <1>3

\* POST, the refusal, the worker and a failing statement whose failure is
\* recorded leave nothing behind.
LEMMA NothingFallsOut ==
  ASSUME IInv, \/ \E r \in Recordings : Post(r)
               \/ RefuseFull \/ WorkerStep \/ StoreRaises
  PROVE  Dropped' \subseteq Dropped /\ Stranded' \subseteq Stranded
<1>1. db \in [Recordings -> Row \cup {NoRow}] /\ queue \in Seq(Recordings)
  BY DEF IInv, TypeOK
<1>2. ASSUME NEW r \in Recordings, CreateJobAgain(r)
      PROVE  Dropped' = Dropped /\ Stranded' = Stranded
  BY <1>2 DEF CreateJobAgain, memory, Dropped, Stranded, Terminal, InFlight
<1>3. ASSUME NEW r \in Recordings, CreateAndSubmit(r)
      PROVE  Dropped' \subseteq Dropped /\ Stranded' \subseteq Stranded
  <2>1. InFlight' = InFlight \cup {r}
    BY <1>1, <1>3, AppendToQueue DEF CreateAndSubmit, InFlight
  <2>2. \A x \in Recordings : x # r => db'[x] = db[x]
    BY <1>1, <1>3 DEF CreateAndSubmit, CreateJob
  <2> QED
    BY <1>3, <2>1, <2>2, OneRowChanges DEF CreateAndSubmit
<1>4. ASSUME NEW r \in Recordings, CreateWhenFull(r)
      PROVE  Dropped' \subseteq Dropped /\ Stranded' \subseteq Stranded
  <2>1. /\ InFlight' = InFlight /\ taken' = taken /\ creating = NoJob
        /\ creating' = r /\ ~Exists(db, r)
        /\ \A x \in Recordings : x # r => db'[x] = db[x]
    BY <1>1, <1>4 DEF CreateWhenFull, CreateJob, InFlight, LoopFree
  <2>2. Dropped' \subseteq Dropped \cup {r} /\ Stranded' \subseteq Stranded \cup {r}
    BY <2>1, OneRowChanges
  <2>3. r \in Dropped' => r \in Dropped
    <3>1. ~Terminal(r)
      BY <2>1 DEF Terminal, TerminalStatuses, Exists, NoRow
    <3> QED
      BY <2>1, <3>1 DEF Dropped
  <2>4. r \notin Stranded'
    BY <2>1 DEF Stranded
  <2> QED
    BY <2>2, <2>3, <2>4
<1>5. CASE RefuseFull
  <2>1. creating \in Recordings /\ InFlight' = InFlight /\ taken' = taken
    BY <1>5 DEF RefuseFull, IInv, TypeOK, InFlight
  <2>2. /\ \A x \in Recordings : x # creating => db'[x] = db[x]
        /\ db'[creating].status \in TerminalStatuses
    BY <1>1, <1>5, <2>1, OneStatement DEF RefuseFull, Fail, TerminalStatuses
  <2> QED
    BY <2>1, <2>2, OneRowChanges
<1>6. CASE Transcribe
  <2>1. /\ Head(queue) \in Recordings
        /\ ToSet(Tail(queue)) = ToSet(queue) \ {Head(queue)}
        /\ Head(queue) \in ToSet(queue)
    BY <1>6, TakeFromQueue DEF Transcribe, IInv, TypeOK, InFlightOnce
  <2>2. current = NoJob /\ Head(queue) # NoJob
    BY <1>6, <2>1, NoJobAssumption DEF Transcribe, IInv, StageInv, Busy
  <2>3. InFlight' = InFlight /\ Head(queue) \in InFlight
    BY <1>6, <2>1, <2>2 DEF Transcribe, InFlight
  <2>4. \A x \in Recordings : x # Head(queue) => db'[x] = db[x]
    BY <1>1, <1>6 DEF Transcribe, SetStatus
  <2> QED
    BY <1>6, <2>1, <2>3, <2>4, OneRowChanges DEF Transcribe
<1>7. ASSUME worker \in Busy PROVE current \in Recordings /\ current \in InFlight
  BY <1>7 DEF IInv, TypeOK, StageInv, InFlight
<1>8. CASE AskAgent \/ Display
  <2>1. /\ worker \in Busy /\ InFlight' = InFlight /\ taken' = taken
        /\ creating' = creating
    BY <1>8 DEF AskAgent, Display, Busy, InFlight
  <2>2. \A x \in Recordings : x # current => db'[x] = db[x]
    BY <1>1, <1>8 DEF AskAgent, Display, SetStatus
  <2> QED
    BY <1>7, <2>1, <2>2, OneRowChanges
<1>9. CASE NothingHeard \/ Finish \/ ProviderFails
  <2>1. /\ worker \in Busy /\ worker # "idle" /\ LeaveProcess /\ queue' = queue
        /\ taken' = taken /\ creating' = creating
    BY <1>9 DEF NothingHeard, Finish, ProviderFails, Busy
  <2>2. InFlight' = InFlight \ {current}
    BY <2>1, LeavesFlight
  <2>3. /\ \A x \in Recordings : x # current => db'[x] = db[x]
        /\ db'[current].status \in TerminalStatuses
    <3>1. CASE NothingHeard
      BY <1>1, <1>7, <2>1, <3>1, OneStatement DEF NothingHeard, TerminalStatuses
    <3>2. CASE Finish
      BY <1>1, <1>7, <2>1, <3>2, OneStatement DEF Finish, TerminalStatuses
    <3>3. CASE ProviderFails
      BY <1>1, <1>7, <2>1, <3>3, OneStatement DEF ProviderFails, Fail, TerminalStatuses
    <3> QED
      BY <1>9, <3>1, <3>2, <3>3
  <2> QED
    BY <1>7, <2>1, <2>2, <2>3, OneRowChanges
<1>10. CASE StoreRaises
  <2> DEFINE job == IF worker = "idle" THEN Head(queue) ELSE current
  <2>1. /\ LeaveProcess
        /\ \/ worker \in Busy /\ queue' = queue
           \/ worker = "idle" /\ queue # <<>> /\ queue' = Tail(queue)
    BY <1>10 DEF StoreRaises, Busy
  <2>2. job \in Recordings /\ InFlight' = InFlight \ {job}
    BY <2>1, LeavesFlight
  <2>3. db' = Fail(db, job, "unknown_error") /\ taken' = taken /\ creating' = creating
    BY <1>10 DEF StoreRaises
  <2> HIDE DEF job
  <2>4. /\ \A x \in Recordings : x # job => db'[x] = db[x]
        /\ db'[job].status \in TerminalStatuses
    BY <1>1, <2>2, <2>3, OneStatement DEF Fail, TerminalStatuses
  <2> QED
    BY <2>2, <2>3, <2>4, OneRowChanges
<1> QED
  BY <1>2, <1>3, <1>4, <1>5, <1>6, <1>8, <1>9, <1>10 DEF Post, WorkerStep

\* A statement that raises where nobody records it leaves one thing behind.
LEMMA OneFallsOut ==
  ASSUME IInv, RefuseRaises \/ FailureIsLost
  PROVE  \E x : Dropped' \subseteq Dropped \cup {x} /\ Stranded' \subseteq Stranded \cup {x}
<1>1. CASE RefuseRaises
  <2>1. /\ creating \in Recordings /\ InFlight' = InFlight /\ taken' = taken
        /\ db' = db
    BY <1>1 DEF RefuseRaises, IInv, TypeOK, InFlight
  <2> QED
    BY <2>1, OneRowChanges
<1>2. CASE FailureIsLost
  <2> DEFINE job == IF worker = "idle" THEN Head(queue) ELSE current
  <2>1. /\ LeaveProcess
        /\ \/ worker \in Busy /\ queue' = queue
           \/ worker = "idle" /\ queue # <<>> /\ queue' = Tail(queue)
    BY <1>2 DEF FailureIsLost, Busy
  <2>2. job \in Recordings /\ InFlight' = InFlight \ {job}
    BY <2>1, LeavesFlight
  <2>3. db' = db /\ taken' = taken /\ creating' = creating
    BY <1>2 DEF FailureIsLost
  <2> HIDE DEF job
  <2> QED
    BY <2>2, <2>3, OneRowChanges
<1> QED
  BY <1>1, <1>2

\* How many are left behind.  A recovery that raises leaves all there is, a
\* queue's worth more than a recovery that runs.
LeftBehind ==
  /\ IsFiniteSet(Dropped) /\ Cardinality(Dropped) <= storeErrors
  /\ IsFiniteSet(Stranded)
  /\ Cardinality(Stranded) <=
       LeftByStore(storeErrors + (IF Serving THEN 0 ELSE 1), stops) + stops

\* One more failing statement leaves one row to a queue's worth more; with one
\* more end of the process besides, a queue's worth.
LEMMA LeftByStoreGrows ==
  ASSUME NEW e \in Nat, NEW n \in Nat
  PROVE  /\ LeftByStore(e, n) \in Nat
         /\ LeftByStore(e + 1, n) \in Nat
         /\ LeftByStore(e, n) + 1 <= LeftByStore(e + 1, n)
         /\ LeftByStore(e + 1, n) <= LeftByStore(e, n) + QueueMaxsize
         /\ LeftByStore(e + 1, n + 1) = LeftByStore(e, n) + QueueMaxsize
<1> DEFINE Q == QueueMaxsize
<1>1. Q \in Nat /\ Q >= 1
  BY QueueAssumption
<1> HIDE DEF Q
<1>2. CASE e + 1 <= n
  <2>1. /\ LeftByStore(e, n) = Q * e + (e - e)
        /\ LeftByStore(e + 1, n) = Q * (e + 1) + ((e + 1) - (e + 1))
        /\ LeftByStore(e + 1, n + 1) = Q * (e + 1) + ((e + 1) - (e + 1))
    BY <1>2 DEF LeftByStore, Q
  <2>2. Q * (e + 1) = Q * e + Q /\ Q * e \in Nat
    BY <1>1
  <2> QED
    BY <1>1, <2>1, <2>2 DEF Q
<1>3. CASE ~(e + 1 <= n)
  <2>1. /\ LeftByStore(e, n) = Q * n + (e - n)
        /\ LeftByStore(e + 1, n) = Q * n + ((e + 1) - n)
        /\ LeftByStore(e + 1, n + 1) = Q * (n + 1) + ((e + 1) - (n + 1))
    <3>1. CASE e = n
      BY <3>1 DEF LeftByStore, Q
    <3>2. CASE e > n
      BY <3>2 DEF LeftByStore, Q
    <3> QED
      BY <1>3, <3>1, <3>2
  <2>2. Q * (n + 1) = Q * n + Q /\ Q * n \in Nat /\ e >= n
    BY <1>1, <1>3
  <2> QED
    BY <1>1, <2>1, <2>2 DEF Q
<1> QED
  BY <1>2, <1>3

\* A set that is smaller, or greater by one element.
LEMMA SmallerOrOneMore ==
  ASSUME NEW S, IsFiniteSet(S), NEW n \in Nat, Cardinality(S) <= n, NEW T
  PROVE  /\ T \subseteq S => IsFiniteSet(T) /\ Cardinality(T) <= n
         /\ \A x : T \subseteq S \cup {x}
                   => IsFiniteSet(T) /\ Cardinality(T) <= n + 1
<1>1. Cardinality(S) \in Nat
  BY FS_CardinalityType
<1>2. ASSUME T \subseteq S PROVE IsFiniteSet(T) /\ Cardinality(T) <= n
  <2>1. IsFiniteSet(T) /\ Cardinality(T) <= Cardinality(S)
    BY <1>2, FS_Subset
  <2> QED
    BY <1>1, <2>1, FS_CardinalityType
<1>3. ASSUME NEW x, T \subseteq S \cup {x}
      PROVE  IsFiniteSet(T) /\ Cardinality(T) <= n + 1
  <2>1. IsFiniteSet(S \cup {x}) /\ Cardinality(S \cup {x}) <= n + 1
    BY <1>1, FS_AddElement
  <2>2. IsFiniteSet(T) /\ Cardinality(T) <= Cardinality(S \cup {x})
    BY <1>3, <2>1, FS_Subset
  <2> QED
    BY <2>1, <2>2, FS_CardinalityType
<1> QED
  BY <1>2, <1>3

\* Two disjoint sets together.
LEMMA DisjointSets ==
  ASSUME NEW S, IsFiniteSet(S), NEW T, IsFiniteSet(T), S \cap T = {}
  PROVE  Cardinality(S \cup T) = Cardinality(S) + Cardinality(T)
<1>1. Cardinality(S) \in Nat /\ Cardinality(T) \in Nat
  BY FS_CardinalityType
<1>2. Cardinality(S \cap T) = 0
  BY FS_EmptySet
<1>3. Cardinality(S \cup T) = Cardinality(S) + Cardinality(T) - Cardinality(S \cap T)
  BY FS_Union
<1> QED
  BY <1>1, <1>2, <1>3

\* Recovery takes up a queue's worth of what was stranded.
LEMMA RecoveryTakesUp ==
  ASSUME IInv, LeftBehind, Recover
  PROVE  /\ Dropped' = {} /\ IsFiniteSet(Stranded')
         /\ Cardinality(Stranded') <= LeftByStore(storeErrors, stops) + stops
<1>1. PICK q \in RecoveryOrders : queue' = q /\ taken' = ToSet(q)
  BY DEF Recover
<1>2. InFlight = {} /\ InFlight' = ToSet(q) /\ creating = NoJob /\ creating' = NoJob
      /\ db' = db /\ ~Serving
  BY <1>1, EmptyQueue DEF Recover, IInv, StageInv, Busy, InFlight, Serving
<1>3. Stranded = ListRecoverable(db) /\ Stranded' = Stranded \ ToSet(q)
  BY <1>2, NoJobAssumption DEF Stranded, ListRecoverable
<1>4. /\ ToSet(q) \subseteq Stranded /\ Len(q) \in Nat /\ Len(q) <= QueueMaxsize
      /\ IsFiniteSet(ToSet(q)) /\ Cardinality(ToSet(q)) = Len(q)
      /\ Len(q) < QueueMaxsize => Stranded' = {}
  <2>1. Len(q) < QueueMaxsize => ToSet(q) = ListRecoverable(db)
    BY DEF RecoveryOrders
  <2> QED
    BY <1>3, <2>1, RecoveryOrdersAreQueues, QueueCardinality
<1>5. /\ IsFiniteSet(Stranded) /\ storeErrors \in Nat /\ stops \in Nat
      /\ Cardinality(Stranded) <= LeftByStore(storeErrors + 1, stops) + stops
      /\ QueueMaxsize \in Nat
  BY <1>2, QueueAssumption DEF LeftBehind, IInv, TypeOK
<1>6. IsFiniteSet(Stranded') /\ Cardinality(Stranded') \in Nat
  BY <1>3, <1>5, FS_Subset, FS_CardinalityType
<1>7. Cardinality(Stranded) = Cardinality(Stranded') + Len(q)
  <2>1. /\ Stranded = Stranded' \cup ToSet(q)
        /\ Stranded' \cap ToSet(q) = {}
    BY <1>3, <1>4
  <2> QED
    BY <1>4, <1>6, <2>1, DisjointSets
<1>8. CASE Len(q) < QueueMaxsize
  <2>1. Cardinality(Stranded') = 0
    BY <1>4, <1>8, FS_EmptySet
  <2>2. LeftByStore(storeErrors, stops) \in Nat
    BY <1>5, LeftByStoreGrows
  <2>3. Dropped' = {}
    BY <1>1, <1>2 DEF Dropped
  <2> QED
    BY <1>5, <1>6, <2>1, <2>2, <2>3
<1>9. CASE Len(q) = QueueMaxsize
  <2>1. /\ LeftByStore(storeErrors + 1, stops)
              <= LeftByStore(storeErrors, stops) + QueueMaxsize
        /\ LeftByStore(storeErrors, stops) \in Nat
        /\ LeftByStore(storeErrors + 1, stops) \in Nat
    BY <1>5, LeftByStoreGrows
  <2>2. Dropped' = {}
    BY <1>1, <1>2 DEF Dropped
  <2> QED
    BY <1>5, <1>6, <1>7, <1>9, <2>1, <2>2
<1> QED
  BY <1>4, <1>5, <1>8, <1>9

\* What the end of the process leaves behind: all that was unfinished.
LEMMA EverythingUnfinished ==
  ASSUME IInv, LeftBehind
  PROVE  /\ IsFiniteSet(ListRecoverable(db))
         /\ Cardinality(ListRecoverable(db))
               <= QueueMaxsize + LeftByStore(storeErrors, stops) + stops
                    + (IF creating = NoJob THEN 0 ELSE 1)
<1>1. /\ storeErrors \in Nat /\ stops \in Nat /\ QueueMaxsize \in Nat
      /\ active \in Nat /\ active <= QueueMaxsize
  BY QueueAssumption DEF IInv, TypeOK, InFlightIsExact
<1>2. /\ LeftByStore(storeErrors + 1, stops)
            <= LeftByStore(storeErrors, stops) + QueueMaxsize
      /\ LeftByStore(storeErrors, stops) \in Nat
      /\ LeftByStore(storeErrors + 1, stops) \in Nat
  BY <1>1, LeftByStoreGrows
<1>3. IsFiniteSet(InFlight) /\ Cardinality(InFlight) = active
  BY InFlightCardinality
<1>4. /\ IsFiniteSet(Stranded) /\ Cardinality(Stranded) \in Nat
      /\ Cardinality(Stranded)
           <= LeftByStore(storeErrors + (IF Serving THEN 0 ELSE 1), stops) + stops
  BY FS_CardinalityType DEF LeftBehind
<1>5. /\ IsFiniteSet(Stranded \cup InFlight)
      /\ Cardinality(Stranded \cup InFlight) \in Nat
      /\ Cardinality(Stranded \cup InFlight)
           <= QueueMaxsize + LeftByStore(storeErrors, stops) + stops
  <2>1. CASE Serving
    <3>1. /\ IsFiniteSet(Stranded \cup InFlight)
          /\ Cardinality(Stranded \cup InFlight)
               = Cardinality(Stranded) + active - Cardinality(Stranded \cap InFlight)
      BY <1>3, <1>4, FS_Union
    <3>2. /\ Cardinality(Stranded \cap InFlight) \in Nat
          /\ Cardinality(Stranded \cup InFlight) \in Nat
      BY <1>4, <3>1, FS_Subset, FS_CardinalityType
    <3>3. Cardinality(Stranded) <= LeftByStore(storeErrors, stops) + stops
      BY <1>1, <1>4, <2>1
    <3> QED
      BY <1>1, <1>2, <1>4, <3>1, <3>2, <3>3
  <2>2. CASE ~Serving
    <3>1. InFlight = {}
      BY <2>2, EmptyQueue DEF Serving, IInv, StageInv, Busy, InFlight
    <3>2. Stranded \cup InFlight = Stranded
      BY <3>1
    <3>3. Cardinality(Stranded) <= LeftByStore(storeErrors + 1, stops) + stops
      BY <1>4, <2>2
    <3>4. ASSUME NEW c \in Nat,
                 c <= LeftByStore(storeErrors + 1, stops) + stops
          PROVE  c <= QueueMaxsize + LeftByStore(storeErrors, stops) + stops
      BY <1>1, <1>2, <3>4
    <3>5. Cardinality(Stranded)
            <= QueueMaxsize + LeftByStore(storeErrors, stops) + stops
      BY <1>4, <3>3, <3>4
    <3> QED
      BY <1>4, <3>2, <3>5
  <2> QED
    BY <2>1, <2>2
<1>6. creating \in Recordings \cup {NoJob}
  BY DEF IInv, TypeOK
<1>7. /\ creating = NoJob => ListRecoverable(db) \subseteq Stranded \cup InFlight
      /\ ListRecoverable(db) \subseteq (Stranded \cup InFlight) \cup {creating}
  BY NoJobAssumption DEF Stranded, ListRecoverable
<1>8. QueueMaxsize + LeftByStore(storeErrors, stops) + stops \in Nat
  BY <1>1, <1>2
<1>9. CASE creating = NoJob
  <2>1. /\ IsFiniteSet(ListRecoverable(db))
        /\ Cardinality(ListRecoverable(db))
              <= QueueMaxsize + LeftByStore(storeErrors, stops) + stops
    BY <1>5, <1>7, <1>8, <1>9, SmallerOrOneMore
  <2> QED
    BY <1>8, <1>9, <2>1, FS_CardinalityType
<1>10. CASE creating # NoJob
  <2>1. /\ IsFiniteSet(ListRecoverable(db))
        /\ Cardinality(ListRecoverable(db))
              <= (QueueMaxsize + LeftByStore(storeErrors, stops) + stops) + 1
    BY <1>5, <1>7, <1>8, SmallerOrOneMore
  <2> QED
    BY <1>10, <2>1
<1> QED
  BY <1>9, <1>10

\* Every step keeps the two bounds.
LEMMA LeftBehindStep ==
  ASSUME IInv, LeftBehind, [Next]_vars
  PROVE  LeftBehind'
<1>1. /\ storeErrors \in Nat /\ stops \in Nat
      /\ QueueMaxsize \in Nat /\ QueueMaxsize > 0
  BY QueueAssumption DEF IInv, TypeOK
<1>2. /\ LeftByStore(storeErrors, stops) \in Nat
      /\ LeftByStore(storeErrors + 1, stops) \in Nat
      /\ LeftByStore(storeErrors, stops) + 1 <= LeftByStore(storeErrors + 1, stops)
      /\ LeftByStore(storeErrors + 1, stops + 1)
            = LeftByStore(storeErrors, stops) + QueueMaxsize
  BY <1>1, LeftByStoreGrows
<1>3. CASE \/ \E r \in Recordings : Post(r)
           \/ RefuseFull \/ WorkerStep
  <2>1. /\ storeErrors' = storeErrors /\ stops' = stops /\ Serving' = Serving
    BY <1>3 DEF Post, CreateJobAgain, CreateAndSubmit, CreateWhenFull, RefuseFull,
       WorkerStep, Transcribe, AskAgent, NothingHeard, Display, Finish,
       ProviderFails, LeaveProcess, Serving, LoopFree, memory, faults
  <2>2. Dropped' \subseteq Dropped /\ Stranded' \subseteq Stranded
    BY <1>3, NothingFallsOut
  <2>3. LeftByStore(storeErrors + (IF Serving THEN 0 ELSE 1), stops) + stops \in Nat
    BY <1>1, <1>2
  <2> QED
    BY <1>1, <2>1, <2>2, <2>3, SmallerOrOneMore DEF LeftBehind
<1>4. CASE StoreRaises
  <2>1. /\ storeErrors' = storeErrors + 1 /\ stops' = stops
        /\ Serving /\ Serving'
    BY <1>4 DEF StoreRaises, LeaveProcess, Serving, Busy
  <2>2. Dropped' \subseteq Dropped /\ Stranded' \subseteq Stranded
    BY <1>4, NothingFallsOut
  <2>3. /\ IsFiniteSet(Dropped) /\ Cardinality(Dropped) <= storeErrors + 1
        /\ IsFiniteSet(Stranded)
        /\ Cardinality(Stranded) <= LeftByStore(storeErrors + 1, stops) + stops
    BY <1>1, <1>2, <2>1, FS_CardinalityType DEF LeftBehind
  <2>4. /\ storeErrors + 1 \in Nat
        /\ LeftByStore(storeErrors + 1, stops) + stops \in Nat
    BY <1>1, <1>2
  <2>5. /\ IsFiniteSet(Dropped') /\ Cardinality(Dropped') <= storeErrors + 1
        /\ IsFiniteSet(Stranded')
        /\ Cardinality(Stranded') <= LeftByStore(storeErrors + 1, stops) + stops
    BY <2>2, <2>3, <2>4, SmallerOrOneMore
  <2> QED
    BY <1>1, <2>1, <2>5 DEF LeftBehind
<1>5. CASE RefuseRaises \/ FailureIsLost
  <2>1. stops' = stops /\ Serving /\ Serving'
    BY <1>5 DEF RefuseRaises, FailureIsLost, LeaveProcess, Serving, Busy,
       IInv, StageInv
  <2>2. PICK n \in {0, 1} : storeErrors' = storeErrors + 1 + n
    <3>1. CASE RefuseRaises
      BY <1>1, <3>1 DEF RefuseRaises
    <3>2. CASE FailureIsLost
      BY <1>1, <3>2 DEF FailureIsLost
    <3> QED
      BY <1>5, <3>1, <3>2
  <2>3. PICK x : Dropped' \subseteq Dropped \cup {x} /\ Stranded' \subseteq Stranded \cup {x}
    BY <1>5, OneFallsOut
  <2>4. /\ IsFiniteSet(Dropped) /\ Cardinality(Dropped) <= storeErrors
        /\ IsFiniteSet(Stranded)
        /\ Cardinality(Stranded) <= LeftByStore(storeErrors, stops) + stops
    BY <1>1, <2>1 DEF LeftBehind
  <2>5. LeftByStore(storeErrors, stops) + stops \in Nat
    BY <1>1, <1>2
  <2>6. /\ IsFiniteSet(Dropped') /\ Cardinality(Dropped') <= storeErrors + 1
        /\ IsFiniteSet(Stranded')
        /\ Cardinality(Stranded') <= LeftByStore(storeErrors, stops) + stops + 1
    BY <1>1, <2>3, <2>4, <2>5, SmallerOrOneMore
  <2>7. LeftByStore(storeErrors, stops) + 1 <= LeftByStore(storeErrors', stops)
        /\ LeftByStore(storeErrors', stops) \in Nat
    <3>1. CASE n = 0
      BY <1>1, <1>2, <2>2, <3>1
    <3>2. CASE n = 1
      <4>1. /\ LeftByStore(storeErrors + 1, stops) + 1
                 <= LeftByStore((storeErrors + 1) + 1, stops)
            /\ LeftByStore((storeErrors + 1) + 1, stops) \in Nat
            /\ storeErrors' = (storeErrors + 1) + 1
        BY <1>1, <2>2, <3>2, LeftByStoreGrows
      <4> QED
        BY <1>2, <4>1
    <3> QED
      BY <2>2, <3>1, <3>2
  <2>8. Cardinality(Dropped') \in Nat /\ Cardinality(Stranded') \in Nat
    BY <2>6, FS_CardinalityType
  <2>9. /\ Cardinality(Dropped') <= storeErrors'
        /\ Cardinality(Stranded') <= LeftByStore(storeErrors', stops) + stops
    BY <1>1, <1>2, <2>6, <2>7, <2>8, <2>2
  <2>10. storeErrors' + 0 = storeErrors'
    BY <1>1, <2>2
  <2> QED
    BY <2>1, <2>6, <2>9, <2>10 DEF LeftBehind
<1>6. CASE Recover
  <2>1. storeErrors' = storeErrors /\ stops' = stops /\ Serving'
    BY <1>6 DEF Recover, Serving, faults
  <2>2. IsFiniteSet(Dropped') /\ Cardinality(Dropped') <= storeErrors
    <3>1. Dropped' = {}
      BY <1>6, RecoveryTakesUp
    <3> QED
      BY <1>1, <3>1, FS_EmptySet
  <2> QED
    BY <1>1, <1>6, <2>1, <2>2, RecoveryTakesUp DEF LeftBehind
<1>7. CASE RecoverRaises \/ Start
  <2>1. /\ ~Serving /\ stops' = stops
        /\ RecoverRaises => storeErrors' = storeErrors + 1 /\ Serving'
        /\ Start => storeErrors' = storeErrors /\ ~Serving'
    BY <1>7 DEF RecoverRaises, Start, Serving, faults
  <2>2. Dropped' = Dropped /\ Stranded' = Stranded
    BY <1>7 DEF RecoverRaises, Start, Dropped, Stranded, Terminal, InFlight
  <2>3. /\ IsFiniteSet(Dropped) /\ Cardinality(Dropped) <= storeErrors
        /\ IsFiniteSet(Stranded)
        /\ Cardinality(Stranded) <= LeftByStore(storeErrors + 1, stops) + stops
        /\ Cardinality(Dropped) <= storeErrors + 1
    BY <1>1, <2>1, FS_CardinalityType DEF LeftBehind
  <2>4. CASE RecoverRaises
    BY <1>1, <2>1, <2>2, <2>3, <2>4 DEF LeftBehind
  <2>5. CASE Start
    BY <1>1, <2>1, <2>2, <2>3, <2>5 DEF LeftBehind
  <2> QED
    BY <1>7, <2>4, <2>5
<1>8. CASE Crash \/ Stop
  <2>1. /\ stops' = stops + 1 /\ storeErrors' = storeErrors /\ ~Serving'
        /\ taken' = {} /\ db' = db
    BY <1>8 DEF Crash, Stop, LoseMemory, Serving
  <2>2. Dropped' = {} /\ Stranded' \subseteq ListRecoverable(db)
    BY <2>1 DEF Dropped, Stranded, ListRecoverable
  <2>3. /\ IsFiniteSet(ListRecoverable(db))
        /\ Cardinality(ListRecoverable(db))
             <= LeftByStore(storeErrors + 1, stops + 1) + (stops + 1)
    BY <1>1, <1>2, EverythingUnfinished, FS_CardinalityType
  <2>4. /\ IsFiniteSet(Stranded')
        /\ Cardinality(Stranded') <= LeftByStore(storeErrors + 1, stops + 1) + (stops + 1)
    BY <1>1, <1>2, <2>2, <2>3, SmallerOrOneMore
  <2>5. IsFiniteSet(Dropped') /\ Cardinality(Dropped') <= storeErrors
    BY <1>1, <2>2, FS_EmptySet
  <2> QED
    BY <1>1, <2>1, <2>4, <2>5 DEF LeftBehind
<1>9. CASE UNCHANGED vars
  BY <1>9 DEF vars, memory, faults, LeftBehind, Dropped, Stranded, Terminal,
     InFlight, Serving
<1> QED
  BY <1>3, <1>4, <1>5, <1>6, <1>7, <1>8, <1>9 DEF Next

\* So they hold in every state.
LEMMA LeftBehindAlways == Spec => [](IInv /\ LeftBehind)
<1>1. Init => LeftBehind
  <2> SUFFICES ASSUME Init PROVE LeftBehind
    OBVIOUS
  <2>1. Dropped = {} /\ Stranded = {}
    BY DEF Init, Dropped, Stranded, ListRecoverable, NoRow, RecoverableStatuses
  <2> QED
    <3>1. LeftByStore(0 + 1, 0) \in Nat
      BY LeftByStoreGrows
    <3> QED
      BY <2>1, <3>1, FS_EmptySet DEF Init, LeftBehind, Serving
<1>2. IInv /\ LeftBehind /\ [Next]_vars => LeftBehind'
  BY LeftBehindStep
<1> QED
  BY <1>1, <1>2, InductiveInvariant, PTL DEF Spec

\* The worker drops a job only where a statement raised and the failure could
\* not be recorded: at most one job for each (DroppedOnlyByStore).
THEOREM OnlyStoreErrorsDrop == Spec => []DroppedOnlyByStore
<1>1. IInv /\ LeftBehind => DroppedOnlyByStore
  BY DEF LeftBehind, DroppedOnlyByStore
<1> QED
  BY <1>1, LeftBehindAlways, PTL

\* The unfinished rows stay bounded by the queue, the statements that raised
\* and the ends of the process (BacklogIsBounded).
THEOREM BacklogBounded == Spec => []BacklogIsBounded
<1>1. ASSUME IInv, LeftBehind PROVE BacklogIsBounded
  BY <1>1, EverythingUnfinished DEF BacklogIsBounded
<1>2. IInv /\ LeftBehind => BacklogIsBounded
  BY <1>1
<1> QED
  BY <1>2, LeftBehindAlways, PTL
=============================================================================
