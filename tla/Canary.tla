------------------------------- MODULE Canary -------------------------------
(***************************************************************************)
(* The gateway's side of a job, composed with the orchestrator: one task   *)
(* of ws_server.py (_submit_m1_job, _poll_m1_job) per recording, over HTTP *)
(* to M1Service.  A request the gateway stopped waiting for may still be   *)
(* served, and an answer may find nobody waiting.                          *)
(***************************************************************************)
EXTENDS M1Service

CONSTANT
  PollMayExpire  \* FALSE: no poll reaches the end of its window (see Providers)

ASSUME PollMayExpireAssumption == PollMayExpire \in BOOLEAN

VARIABLES
  task,     \* each recording's task: TaskStates
  request,  \* recordings whose POST is on its way to the orchestrator
  shown     \* history: the texts _display sent or queued for the task

gateway == <<task, request, shown>>
cvars == <<vars, gateway>>

\* "dead": the task ended with an exception nobody catches.
TaskStates == {"none", "posting", "polling", "over", "dead"}
\* "busy": 409; "processing": accepted; "reply" and "unheard": done with and
\* without a transcript; "unavailable": everything else.
Verdicts == {"busy", "reply", "unheard", "unavailable"}
Texts == Verdicts \cup {"processing"}

CInit ==
  /\ Init
  /\ task = [r \in Recordings |-> "none"]
  /\ request = {}
  /\ shown = [r \in Recordings |-> <<>>]

ShowText(r, text) == shown' = [shown EXCEPT ![r] = Append(@, text)]

\* The task's last _display, after which it returns.
Conclude(r, text) ==
  /\ ShowText(r, text)
  /\ task' = [task EXCEPT ![r] = "over"]
  /\ UNCHANGED <<vars, request>>

\* mic_stop of a stored recording starts the task, which sends its POST.
Submit(r) ==
  /\ task[r] = "none"
  /\ task' = [task EXCEPT ![r] = "posting"]
  /\ request' = request \cup {r}
  /\ UNCHANGED <<vars, shown>>

\* The orchestrator's handler takes the request up.
Serve(r) ==
  /\ r \in request
  /\ Post(r)
  /\ request' = request \ {r}
  /\ UNCHANGED <<task, shown>>

\* 202: a job_id, the first text and the polling.
Accepted(r) ==
  /\ task[r] = "posting" /\ "accepted" \in answers[r]
  /\ ShowText(r, "processing")
  /\ task' = [task EXCEPT ![r] = "polling"]
  /\ UNCHANGED <<vars, request>>

\* Mutant: 409 is shown and then polled for.
MutBusyGoesOn(r) ==
  /\ task[r] = "posting" /\ "refused" \in answers[r]
  /\ ShowText(r, "busy")
  /\ task' = [task EXCEPT ![r] = "polling"]
  /\ UNCHANGED <<vars, request>>

Refused(r) ==
  /\ task[r] = "posting" /\ "refused" \in answers[r]
  /\ Conclude(r, "busy")

\* Mutant: a client without a timeout.
MutSubmitWaits(r) ==
  /\ task[r] = "posting" /\ "error" \in answers[r]
  /\ Conclude(r, "unavailable")

\* Another status, or httpx.HTTPError: nobody listens, the connection broke,
\* or two seconds passed without the answer.
SubmitFails(r) ==
  /\ task[r] = "posting"
  /\ Conclude(r, "unavailable")

\* Mutant: a reply is shown as soon as there is one.
MutPollReply(r) ==
  /\ task[r] = "polling"
  /\ Serving /\ LoopFree
  /\ db[r].reply # "null"
  /\ Conclude(r, "reply")

\* One GET of the polling loop that meets a final status; the others sleep
\* and try again.
PollTerminal(r) ==
  /\ task[r] = "polling"
  /\ Serving /\ LoopFree
  /\ Terminal(r)
  /\ Conclude(r, IF db[r].status = "failed" THEN "unavailable"
                 ELSE IF db[r].transcript = "text" THEN "reply"
                 ELSE "unheard")

\* httpx.HTTPError ends the loop: the orchestrator is down, or did not answer
\* one GET within five seconds.
PollFails(r) ==
  /\ task[r] = "polling"
  /\ Conclude(r, "unavailable")

\* Three minutes have passed since the 202.
PollExpires(r) ==
  /\ PollMayExpire
  /\ task[r] = "polling"
  /\ Conclude(r, "unavailable")

\* _display raises KeyError: the connection it was sending on is gone and its
\* handler has already taken it out of ESP32s (ws_server.py:62).
DisplayRaises(r) ==
  /\ task[r] \in {"posting", "polling"}
  /\ task' = [task EXCEPT ![r] = "dead"]
  /\ UNCHANGED <<vars, request, shown>>

GatewayStep(r) ==
  \/ Accepted(r) \/ Refused(r) \/ SubmitFails(r)
  \/ PollTerminal(r) \/ PollFails(r) \/ PollExpires(r)

\* The orchestrator's own steps; its requests come from the gateway only.
M1Step ==
  /\ \/ RefuseFull \/ RefuseRaises \/ Recover \/ RecoverRaises \/ WorkerStep
     \/ StoreRaises \/ FailureIsLost \/ Start \/ Crash \/ Stop
  /\ UNCHANGED gateway

\* A connection the crash broke takes its request along.
RequestLost(r) ==
  /\ r \in request /\ ~Serving
  /\ request' = request \ {r}
  /\ UNCHANGED <<vars, task, shown>>

CNext ==
  \/ \E r \in Recordings :
       \/ Submit(r) \/ Serve(r) \/ RequestLost(r)
       \/ GatewayStep(r) \/ DisplayRaises(r)
  \/ M1Step

\* The client's timeout and the polling deadline bound every task.
CSpec == CInit /\ [][CNext]_cvars
               /\ \A r \in Recordings : WF_cvars(GatewayStep(r))

-----------------------------------------------------------------------------
CTypeOK ==
  /\ task \in [Recordings -> TaskStates]
  /\ request \subseteq Recordings
  /\ shown \in [Recordings -> Seq(Texts)]

Said(r, text) == text \in ToSet(shown[r])

\* A task says "processing" at most once and first, and then one verdict; it
\* never takes a verdict back.
OneVerdict ==
  \A r \in Recordings :
    /\ Cardinality(ToSet(shown[r]) \cap Verdicts)
         = (IF task[r] = "over" THEN 1 ELSE 0)
    /\ Len(shown[r]) = (IF task[r] = "over" THEN 1 ELSE 0)
                     + (IF Said(r, "processing") THEN 1 ELSE 0)
    /\ Said(r, "processing") => shown[r][1] = "processing"

\* ws_server.py:329: "busy" is said of a recording that was not accepted, and
\* no provider is ever called for it, whatever restarts come later.
BusyIsHonest ==
  \A r \in Recordings :
    Said(r, "busy") => db[r].error = "queue_full" /\ sttCalls[r] = 0

\* A reply on the display is the stored reply of a job that is done, and
\* "unheard" means that the agent was never asked; both still hold after any
\* number of restarts.
VerdictMatchesJob ==
  \A r \in Recordings :
    /\ Said(r, "reply") => /\ db[r].status = "done"
                           /\ db[r].transcript = "text"
                           /\ db[r].reply # "null"
    /\ Said(r, "unheard") => db[r].status = "done" /\ db[r].reply = "null"

\* What the display says of a recording is true of its job, and stays true.
VerdictIsTrue == BusyIsHonest /\ VerdictMatchesJob

\* Once the user has seen a result, no provider is called for it again.
NoCallsAfterResult ==
  [][\A r \in Recordings :
       Said(r, "reply") \/ Said(r, "unheard")
         => sttCalls'[r] = sttCalls[r] /\ agentCalls'[r] = agentCalls[r]]_cvars

\* No task waits for ever: each recording submitted gets its verdict, or lost
\* the device it was for, whatever the orchestrator does.
EverySubmissionEnds ==
  \A r \in Recordings : task[r] = "posting" ~> task[r] \in {"over", "dead"}

\* ws_server.py:20-21: the gateway does not tell the user "unavailable" while
\* the orchestrator is still working on a job it has accepted.
UnavailableIsFinal ==
  \A r \in Recordings :
    Said(r, "processing") /\ Said(r, "unavailable")
      => db[r].status \notin RecoverableStatuses
=============================================================================
