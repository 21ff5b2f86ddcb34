----------------------------- MODULE M1Service -----------------------------
(***************************************************************************)
(* The orchestrator process: the routes of m1_service/app.py, the bounded  *)
(* queue and the worker task of m1_service/worker.py, over the table of    *)
(* JobStore.  Everything runs on one asyncio loop, so a handler or the     *)
(* worker runs from one await to the next without the other; the SQLite    *)
(* calls are synchronous.  An action is therefore one such stretch, cut    *)
(* again where it commits to SQLite twice, because the process can be      *)
(* killed between two commits.                                             *)
(***************************************************************************)
EXTENDS JobStore, Naturals, Sequences, FiniteSets, SequencesExt

CONSTANTS
  QueueMaxsize,   \* settings.queue_maxsize: queued and running jobs together
  NoJob,          \* no recording
  MaxStops,       \* bound: how often the process is killed or stopped
  MaxStoreErrors  \* bound: how many SQLite statements raise

ASSUME QueueAssumption == QueueMaxsize \in Nat \ {0}
ASSUME NoJobAssumption == NoJob \notin Recordings
ASSUME BoundAssumption == MaxStops \in Nat /\ MaxStoreErrors \in Nat

VARIABLES
  db,           \* the jobs table: a row, or NoRow, for each recording
  queue,        \* Worker.queue
  active,       \* Worker.active
  worker,       \* where the _run task stands (WorkerStates)
  current,      \* the job _process works on, or NoJob
  creating,     \* the job create_job inserted and could not submit, or NoJob
  answers,      \* history: the answers POST gave for each recording
  taken,        \* history: the jobs this process has put on its queue
  sttCalls,     \* history: how often stt_fn was called for each recording
  agentCalls,   \* history: how often agent_fn was called
  stops,        \* history: how often the process ended
  storeErrors   \* history: how many statements raised

memory == <<queue, active, worker, current, creating, taken>>
calls == <<sttCalls, agentCalls>>
faults == <<stops, storeErrors>>
vars == <<db, memory, answers, calls, faults>>

\* "stt", "agent": awaiting that provider; "shown": between the commits of
\* "displaying" and "done"; "dead": the task ended with an exception.
WorkerStates ==
  {"down", "starting", "idle", "stt", "agent", "shown", "dead"}
Busy == {"stt", "agent", "shown"}

Answers == {"accepted", "refused", "error"}

Terminal(r) == db[r].status \in TerminalStatuses
InFlight == ToSet(queue) \cup ({current} \ {NoJob})

\* No coroutine is in the middle of a stretch of code.
LoopFree == creating = NoJob /\ worker # "shown"
\* uvicorn opens its socket only after the startup of the lifespan, and the
\* _run task is scheduled before that: recovery precedes every request.
Serving == worker \notin {"down", "starting"}

Init ==
  /\ db = [r \in Recordings |-> NoRow]
  /\ queue = <<>> /\ active = 0 /\ worker = "down"
  /\ current = NoJob /\ creating = NoJob /\ taken = {}
  /\ answers = [r \in Recordings |-> {}]
  /\ sttCalls = [r \in Recordings |-> 0]
  /\ agentCalls = [r \in Recordings |-> 0]
  /\ stops = 0 /\ storeErrors = 0

-----------------------------------------------------------------------------
(* The routes.                                                              *)

Answer(r, a) == answers' = [answers EXCEPT ![r] = @ \cup {a}]

\* Mutant: a repeated POST submits its job again.
MutResubmit(r) ==
  /\ Serving /\ LoopFree
  /\ db[r].status \in RecoverableStatuses
  /\ active < QueueMaxsize
  /\ active' = active + 1
  /\ queue' = Append(queue, r)
  /\ taken' = taken \cup {r}
  /\ Answer(r, "accepted")
  /\ UNCHANGED <<db, worker, current, creating, calls, faults>>

\* get_by_recording finds the recording: 202 with the row as it is.
CreateJobAgain(r) ==
  /\ Serving /\ LoopFree
  /\ Exists(db, r)
  /\ Answer(r, "accepted")
  /\ UNCHANGED <<db, memory, calls, faults>>

\* INSERT, submit() and 202.  active < maxsize leaves room on the queue, so
\* the QueueFull branch of submit() is not taken (InFlightIsExact).
CreateAndSubmit(r) ==
  /\ Serving /\ LoopFree
  /\ ~Exists(db, r)
  /\ active < QueueMaxsize
  /\ db' = CreateJob(db, r)
  /\ active' = active + 1
  /\ queue' = Append(queue, r)
  /\ taken' = taken \cup {r}
  /\ Answer(r, "accepted")
  /\ UNCHANGED <<worker, current, creating, calls, faults>>

\* INSERT, and submit() returns False ...
CreateWhenFull(r) ==
  /\ Serving /\ LoopFree
  /\ ~Exists(db, r)
  /\ active >= QueueMaxsize
  /\ db' = CreateJob(db, r)
  /\ creating' = r
  /\ UNCHANGED <<queue, active, worker, current, taken, answers, calls, faults>>

\* Mutant: 409 without marking the row.
MutRefuseOnly ==
  /\ creating # NoJob
  /\ Answer(creating, "refused")
  /\ creating' = NoJob
  /\ UNCHANGED <<db, queue, active, worker, current, taken, calls, faults>>

\* ... then the row is marked failed and the answer is 409 ...
RefuseFull ==
  /\ creating # NoJob
  /\ db' = Fail(db, creating, "queue_full")
  /\ Answer(creating, "refused")
  /\ creating' = NoJob
  /\ UNCHANGED <<queue, active, worker, current, taken, calls, faults>>

\* ... or that second statement raises and FastAPI answers 500.
RefuseRaises ==
  /\ creating # NoJob
  /\ storeErrors < MaxStoreErrors
  /\ storeErrors' = storeErrors + 1
  /\ Answer(creating, "error")
  /\ creating' = NoJob
  /\ UNCHANGED <<db, queue, active, worker, current, taken, calls, stops>>

-----------------------------------------------------------------------------
(* The worker task.                                                         *)

\* Mutant: recovery leaves one place of the queue free.
MutRecoverOneShort ==
  {q \in UNION {[1..n -> ListRecoverable(db)] : n \in 0..(QueueMaxsize - 1)} :
     /\ IsInjective(q)
     /\ Len(q) < QueueMaxsize - 1 => ToSet(q) = ListRecoverable(db)}

\* The order of the SELECT is not specified (no ORDER BY).
RecoveryOrders ==
  {q \in UNION {[1..n -> ListRecoverable(db)] : n \in 0..QueueMaxsize} :
     /\ IsInjective(q)
     /\ Len(q) < QueueMaxsize => ToSet(q) = ListRecoverable(db)}

\* Mutant: recovered jobs are not counted.
MutRecoverUncounted ==
  /\ worker = "starting"
  /\ \E q \in RecoveryOrders : queue' = q /\ taken' = ToSet(q)
  /\ worker' = "idle"
  /\ UNCHANGED <<db, active, current, creating, answers, calls, faults>>

\* The loop over list_recoverable(): it stops when active reaches maxsize and
\* leaves the other rows as they are.
Recover ==
  /\ worker = "starting"
  /\ \E q \in RecoveryOrders :
       /\ queue' = q
       /\ active' = Len(q)
       /\ taken' = ToSet(q)
  /\ worker' = "idle"
  /\ UNCHANGED <<db, current, creating, answers, calls, faults>>

\* list_recoverable() raises outside every try: the task is gone, the routes
\* go on serving.
RecoverRaises ==
  /\ worker = "starting"
  /\ storeErrors < MaxStoreErrors
  /\ storeErrors' = storeErrors + 1
  /\ worker' = "dead"
  /\ UNCHANGED <<db, queue, active, current, creating, taken, answers, calls,
                 stops>>

\* queue.get(), the commit of "transcribing" and the call of stt_fn.
Transcribe ==
  /\ worker = "idle" /\ LoopFree
  /\ queue # <<>>
  /\ current' = Head(queue)
  /\ queue' = Tail(queue)
  /\ db' = SetStatus(db, Head(queue), "transcribing", "null", "null", "null")
  /\ sttCalls' = [sttCalls EXCEPT ![Head(queue)] = @ + 1]
  /\ worker' = "stt"
  /\ UNCHANGED <<active, creating, taken, answers, agentCalls, faults>>

\* Leaving _process and the finally of _run.
LeaveProcess ==
  /\ current' = NoJob
  /\ active' = active - 1
  /\ worker' = "idle"

\* stt_fn returned text: "working" is committed and agent_fn called.
AskAgent ==
  /\ worker = "stt" /\ LoopFree
  /\ db' = SetStatus(db, current, "working", "text", "null", "null")
  /\ agentCalls' = [agentCalls EXCEPT ![current] = @ + 1]
  /\ worker' = "agent"
  /\ UNCHANGED <<queue, active, current, creating, taken, answers, sttCalls,
                 faults>>

\* stt_fn returned nothing but blanks: done, with transcript "".
NothingHeard ==
  /\ worker = "stt" /\ LoopFree
  /\ db' = SetStatus(db, current, "done", "empty", "null", "null")
  /\ LeaveProcess
  /\ UNCHANGED <<queue, creating, taken, answers, calls, faults>>

\* agent_fn returned (content may be ""): "displaying" is committed first,
Display ==
  /\ worker = "agent" /\ LoopFree
  /\ \E reply \in {"empty", "text"} :
       db' = SetStatus(db, current, "displaying", "text", reply, "null")
  /\ worker' = "shown"
  /\ UNCHANGED <<queue, active, current, creating, taken, answers, calls, faults>>

\* and "done" right after it.
Finish ==
  /\ worker = "shown"
  /\ db' = SetStatus(db, current, "done", "text", db[current].reply, "null")
  /\ LeaveProcess
  /\ UNCHANGED <<queue, creating, taken, answers, calls, faults>>

\* The provider raised: the code of its exception, or unknown_error.
ProviderCodes(w) ==
  {IF w = "stt" THEN "stt_error" ELSE "agent_error", "unknown_error"}
\* Mutants: the exception is swallowed; the job is queued for another try.
MutProviderErrorIgnored ==
  /\ worker \in {"stt", "agent"} /\ LoopFree
  /\ LeaveProcess
  /\ UNCHANGED <<db, queue, creating, taken, answers, calls, faults>>
MutRetryJob ==
  /\ worker \in {"stt", "agent"} /\ LoopFree
  /\ queue' = Append(queue, current)
  /\ current' = NoJob /\ worker' = "idle"
  /\ UNCHANGED <<db, active, creating, taken, answers, calls, faults>>

ProviderFails ==
  /\ worker \in {"stt", "agent"} /\ LoopFree
  /\ \E code \in ProviderCodes(worker) : db' = Fail(db, current, code)
  /\ LeaveProcess
  /\ UNCHANGED <<queue, creating, taken, answers, calls, faults>>

\* A set_status of _process raises and its except clause records the failure.
\* At "idle" it is the first one, for the job just taken from the queue.
StoreRaises ==
  /\ worker \in Busy \/ (worker = "idle" /\ queue # <<>>)
  /\ creating = NoJob
  /\ storeErrors < MaxStoreErrors
  /\ storeErrors' = storeErrors + 1
  /\ LET job == IF worker = "idle" THEN Head(queue) ELSE current
     IN  db' = Fail(db, job, "unknown_error")
  /\ queue' = IF worker = "idle" THEN Tail(queue) ELSE queue
  /\ LeaveProcess
  /\ UNCHANGED <<creating, taken, answers, calls, stops>>

\* The set_status of the except clause raises: _run logs it and the row keeps
\* the status it had.  The except clause was entered by a provider's exception
\* or by an earlier statement that raised.
FailureIsLost ==
  /\ worker \in Busy \/ (worker = "idle" /\ queue # <<>>)
  /\ creating = NoJob
  /\ \E raised \in IF worker \in {"stt", "agent"} THEN {1, 2} ELSE {2} :
       /\ storeErrors + raised <= MaxStoreErrors
       /\ storeErrors' = storeErrors + raised
  /\ queue' = IF worker = "idle" THEN Tail(queue) ELSE queue
  /\ LeaveProcess
  /\ UNCHANGED <<db, creating, taken, answers, calls, stops>>

-----------------------------------------------------------------------------
(* The process.  systemd starts it again after it ends.                     *)

Start ==
  /\ worker = "down"
  /\ worker' = "starting"
  /\ UNCHANGED <<db, queue, active, current, creating, taken, answers, calls,
                 faults>>

LoseMemory ==
  /\ queue' = <<>> /\ active' = 0 /\ worker' = "down"
  /\ current' = NoJob /\ creating' = NoJob /\ taken' = {}

\* Killed anywhere, between two commits of one handler included.
Crash ==
  /\ worker # "down"
  /\ stops < MaxStops
  /\ stops' = stops + 1
  /\ LoseMemory
  /\ UNCHANGED <<db, answers, calls, storeErrors>>

\* The orderly end: stop() cancels the task where it awaits; CancelledError
\* passes the except clauses of _process, so the row keeps its status.
Stop ==
  /\ Serving /\ LoopFree
  /\ stops < MaxStops
  /\ stops' = stops + 1
  /\ LoseMemory
  /\ UNCHANGED <<db, answers, calls, storeErrors>>

Post(r) == CreateJobAgain(r) \/ CreateAndSubmit(r) \/ CreateWhenFull(r)
WorkerStep ==
  \/ Transcribe \/ AskAgent \/ NothingHeard \/ Display \/ Finish
  \/ ProviderFails

Next ==
  \/ \E r \in Recordings : Post(r)
  \/ RefuseFull \/ RefuseRaises
  \/ Recover \/ RecoverRaises
  \/ WorkerStep
  \/ StoreRaises \/ FailureIsLost
  \/ Start \/ Crash \/ Stop

Spec == Init /\ [][Next]_vars

\* The loop runs what is ready; the providers answer or time out after a
\* bounded number of attempts (Providers); systemd has Restart=on-failure,
\* and whoever stops the service starts it again.
Fairness ==
  /\ WF_vars(WorkerStep) /\ WF_vars(RefuseFull)
  /\ WF_vars(Start) /\ WF_vars(Recover)
FairSpec == Spec /\ Fairness

-----------------------------------------------------------------------------
(* Safety.                                                                  *)

TypeOK ==
  /\ db \in [Recordings -> Row \cup {NoRow}]
  /\ queue \in Seq(Recordings)
  /\ active \in Nat
  /\ worker \in WorkerStates
  /\ current \in Recordings \cup {NoJob}
  /\ creating \in Recordings \cup {NoJob}
  /\ taken \subseteq Recordings
  /\ answers \in [Recordings -> SUBSET Answers]
  /\ sttCalls \in [Recordings -> Nat] /\ agentCalls \in [Recordings -> Nat]
  /\ stops \in Nat /\ storeErrors \in Nat

\* Worker.active counts the queued job and the running one, through every
\* exit of _process, every exception and every restart, and stays within
\* queue_maxsize (worker.py:35-38); so put_nowait never raises QueueFull.
InFlightIsExact ==
  /\ active = Len(queue) + (IF worker \in Busy THEN 1 ELSE 0)
  /\ active <= QueueMaxsize

\* A recording is in flight at most once: a repeated POST or a recovery
\* never puts it on the queue again (app.py:79-80).
InFlightOnce ==
  /\ IsInjective(queue)
  /\ current \notin ToSet(queue)

\* What is in flight is unfinished: the worker never takes up a job that is
\* done, failed or was refused with queue_full.
InFlightIsOpen == \A r \in InFlight : db[r].status \in RecoverableStatuses

\* What the worker holds is each recording once and unfinished ones only,
\* whatever is posted again, refused or recovered.
InFlightIsSound == InFlightOnce /\ InFlightIsOpen

\* The columns tell one story whatever interrupted the job: a reply only with
\* a transcript, an error code exactly when it failed, nothing left over from
\* an earlier attempt (set_status overwrites all four columns).
RowIsCoherent ==
  \A r \in Recordings :
    LET row == db[r]
    IN  /\ (row.error # "null") <=> (row.status = "failed")
        /\ row.reply # "null" => /\ row.transcript = "text"
                                 /\ row.status \in {"displaying", "done"}
        /\ row.status \in {"received", "transcribing", "failed"}
             => row.transcript = "null"
        /\ row.status = "done" => /\ row.transcript # "null"
                                  /\ row.transcript = "text" => row.reply # "null"

\* A recording answered 409 was not and will not be worked on, restarts and
\* repeated POSTs included (the comment at app.py:95-98).
RefusedNeverRuns ==
  \A r \in Recordings :
    "refused" \in answers[r] =>
      /\ db[r].status = "failed" /\ db[r].error = "queue_full"
      /\ sttCalls[r] = 0

\* The providers are called once per job and process life at most, and the
\* agent only after a transcription (HANDOFF.md:178 accepts one repetition
\* per restart).
ProvidersOncePerLife ==
  \A r \in Recordings : /\ sttCalls[r] <= 1 + stops
                        /\ agentCalls[r] <= sttCalls[r]

\* Jobs this process had on its queue and left unfinished.
Dropped == {r \in taken : ~Terminal(r) /\ r \notin InFlight}
\* A job this process has put on its queue ends or stays in flight; only a
\* failing SQLite statement can make the worker drop it.
DroppedOnlyByStore == Cardinality(Dropped) <= storeErrors

\* Unfinished rows that nothing in the running process will work on.
Stranded == {r \in ListRecoverable(db) : r \notin InFlight /\ r # creating}
\* What failing statements can leave unfinished beyond the queue: one row each,
\* but a queue's worth for a recovery that raised after a process ended (the
\* task is gone, the old rows stay and the routes accept a queue of new ones).
LeftByStore(errors, ends) ==
  LET recoveries == IF errors <= ends THEN errors ELSE ends
  IN  QueueMaxsize * recoveries + (errors - recoveries)
\* The backlog is bounded (M1_BACKEND_IMPLEMENTATION.md:130): beyond the
\* queue, rows are left over by failing statements, and one by each end of the
\* process that cuts a POST in two.
BacklogIsBounded ==
  Cardinality(ListRecoverable(db)) <=
    QueueMaxsize + LeftByStore(storeErrors, stops) + stops
      + (IF creating = NoJob THEN 0 ELSE 1)

\* A finished job is never changed again, by no handler, worker or restart.
TerminalIsFinal ==
  [][\A r \in Recordings : Terminal(r) => db'[r] = db[r]]_vars

-----------------------------------------------------------------------------
(* Liveness.                                                                *)

\* A job this process has taken on is settled unless the process ends first.
TakenJobsSettle ==
  \A r \in Recordings : r \in taken ~> (Terminal(r) \/ r \notin taken)

\* If no restart ever meets more unfinished rows than the queue holds, every
\* POST answered 202 is settled, however often the process ends.
AcceptedSettlesWithoutBacklog ==
  [](Serving => Stranded = {}) =>
     \A r \in Recordings : "accepted" \in answers[r] ~> Terminal(r)

-----------------------------------------------------------------------------
(* What the documents say and the code does not do.                         *)

\* ARCHITECTURE.md:98: the scan at startup keeps jobs from being lost.
EveryAcceptedJobSettles ==
  \A r \in Recordings : "accepted" \in answers[r] ~> Terminal(r)

-----------------------------------------------------------------------------
(* What the gateway may rely on.                                            *)

LedgerState ==
  [r \in Recordings |->
     IF db[r].status \in RecoverableStatuses THEN "open" ELSE db[r].status]

Ledger == INSTANCE JobLedger WITH
  Capacity <- QueueMaxsize, state <- LedgerState, serving <- InFlight
ImplementsLedger == Ledger!Spec
=============================================================================
