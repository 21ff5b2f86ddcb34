----------------------------- MODULE Providers -----------------------------
(***************************************************************************)
(* One job's calls of the providers: transcribe of providers/stt.py, then  *)
(* chat of providers/agent.py, each a loop of at most max_retries + 1 HTTP *)
(* requests with a pause between them.  The clock counts the seconds the   *)
(* worker spends on the job, because the gateway stops polling after       *)
(* PollTimeout seconds.                                                    *)
(***************************************************************************)
EXTENDS Naturals, Sequences, SequencesExt

CONSTANTS
  MaxRetries,   \* [stt, agent]: stt_max_retries and agent_max_retries
  Timeout,      \* [stt, agent]: stt_timeout and agent_timeout, seconds
  PollTimeout,  \* M1_POLL_TIMEOUT of ws_server.py
  MaxWaits      \* bound: waits of one request that last the whole timeout

Stages == {"stt", "agent"}
ASSUME RetriesAssumption == MaxRetries \in [Stages -> Nat]
ASSUME TimeAssumption ==
  /\ Timeout \in [Stages -> Nat]
  /\ PollTimeout \in Nat
  /\ MaxWaits \in Nat

VARIABLES
  stage,     \* "stt", "agent", or "over"
  attempt,   \* the loop variable of the running loop
  log,       \* history: how the requests of each stage ended
  code,      \* error code of the exception that ended the job, or "none"
  result,    \* "none", "blank" (empty transcript) or "reply"
  elapsed,   \* seconds since _process called stt_fn
  overrun    \* history: those of them a request took beyond its timeout

vars == <<stage, attempt, log, code, result, elapsed, overrun>>

\* Outcomes the loop records in last_err and tries again, 4xx answers too.
Retried == {"rate_limited", "http_error", "timeout", "network_error",
            "bad_response"}
\* An exception no except clause of the loop names (a JSON body of another
\* shape): it leaves the function at once, without a code.
Uncaught == "uncaught"
Outcomes == Retried \cup {"text", "blank", Uncaught}
Errors == Retried \cup {"config_error", "io_error", "unknown_error"}

Init ==
  /\ stage = "stt" /\ attempt = 0
  /\ log = [s \in Stages |-> <<>>]
  /\ code = "none" /\ result = "none"
  /\ elapsed = 0 /\ overrun = 0

\* The checks before the loop: no key; an empty file (stt only); a file that
\* cannot be read raises OSError, which has no code (stt only).
Reject ==
  /\ stage # "over" /\ attempt = 0 /\ log[stage] = <<>>
  /\ \E c \in IF stage = "stt"
              THEN {"config_error", "io_error", "unknown_error"}
              ELSE {"config_error"} :
       code' = c
  /\ stage' = "over"
  /\ UNCHANGED <<attempt, log, result, elapsed, overrun>>

\* What one request can take.  The timeout given to httpx is that of each of
\* its waits, for the connection, for a write, for every single read, and not
\* of the request: a wait ends at once or lasts the whole timeout.
Durations(s) == {w * Timeout[s] : w \in 0..MaxWaits}

Overrun(s, d) == IF d > Timeout[s] THEN d - Timeout[s] ELSE 0

\* A request of d seconds and the pause after it.
Passes(s, d, pause) ==
  /\ elapsed' = elapsed + d + pause
  /\ overrun' = overrun + Overrun(s, d)

Requested(s, outcome) == log' = [log EXCEPT ![s] = Append(@, outcome)]

\* Mutant: one attempt too many.
MutRetryOnceMore ==
  /\ stage # "over"
  /\ attempt <= MaxRetries[stage]
  /\ \E o \in Retried, d \in Durations(stage) :
       /\ Requested(stage, o)
       /\ Passes(stage, d, attempt + 1)
  /\ attempt' = attempt + 1
  /\ UNCHANGED <<stage, code, result>>

\* The request failed in a way the loop tries again: pause, next attempt ...
RetryLater ==
  /\ stage # "over"
  /\ attempt < MaxRetries[stage]
  /\ \E o \in Retried, d \in Durations(stage) :
       /\ Requested(stage, o)
       /\ Passes(stage, d, attempt + 1)
  /\ attempt' = attempt + 1
  /\ UNCHANGED <<stage, code, result>>

\* ... or it was the last one, and its error is raised.
RaiseLastError ==
  /\ stage # "over"
  /\ attempt = MaxRetries[stage]
  /\ \E o \in Retried, d \in Durations(stage) :
       /\ Requested(stage, o)
       /\ code' = o
       /\ Passes(stage, d, 0)
  /\ stage' = "over"
  /\ UNCHANGED <<attempt, result>>

RaiseUncaught ==
  /\ stage # "over"
  /\ \E d \in Durations(stage) : Passes(stage, d, 0)
  /\ Requested(stage, Uncaught)
  /\ code' = "unknown_error"
  /\ stage' = "over"
  /\ UNCHANGED <<attempt, result>>

\* A transcript: the agent is asked next, from attempt 0.
Heard ==
  /\ stage = "stt"
  /\ \E d \in Durations("stt") : Passes("stt", d, 0)
  /\ Requested("stt", "text")
  /\ stage' = "agent" /\ attempt' = 0
  /\ UNCHANGED <<code, result>>

\* Mutant: the agent is asked about nothing.
MutBlankGoesOn ==
  /\ stage = "stt"
  /\ \E d \in Durations("stt") : Passes("stt", d, 0)
  /\ Requested("stt", "blank")
  /\ stage' = "agent" /\ attempt' = 0
  /\ UNCHANGED <<code, result>>

\* Nothing but blanks: the job is done and the agent is not asked.
HeardNothing ==
  /\ stage = "stt"
  /\ \E d \in Durations("stt") : Passes("stt", d, 0)
  /\ Requested("stt", "blank")
  /\ stage' = "over" /\ result' = "blank"
  /\ UNCHANGED <<attempt, code>>

\* An answer, blank ones included.
Answered ==
  /\ stage = "agent"
  /\ \E d \in Durations("agent"), o \in {"text", "blank"} :
       /\ Passes("agent", d, 0)
       /\ Requested("agent", o)
  /\ stage' = "over" /\ result' = "reply"
  /\ UNCHANGED <<attempt, code>>

Next ==
  \/ Reject \/ RetryLater \/ RaiseLastError \/ RaiseUncaught
  \/ Heard \/ HeardNothing \/ Answered

Spec == Init /\ [][Next]_vars

-----------------------------------------------------------------------------
TypeOK ==
  /\ stage \in Stages \cup {"over"}
  /\ attempt \in Nat
  /\ log \in [Stages -> Seq(Outcomes)]
  /\ code \in Errors \cup {"none"}
  /\ result \in {"none", "blank", "reply"}
  /\ elapsed \in Nat /\ overrun \in Nat

\* A provider is asked max_retries + 1 times at most, and never again after
\* an answer or an exception the loop does not name.
RequestsAreBounded ==
  \A s \in Stages :
    /\ Len(log[s]) <= MaxRetries[s] + 1
    /\ \A i \in 1..Len(log[s]) : log[s][i] \notin Retried => i = Len(log[s])

\* What the job reports is what its last request said: a failure only after
\* every attempt of that provider failed, a reply only on a transcript.
OutcomeMatchesLog ==
  /\ stage = "over" => (code = "none") # (result = "none")
  /\ \A s \in Stages :
       code \in Retried /\ log[s] # <<>> /\ (s = "agent" \/ log["agent"] = <<>>)
         => /\ Last(log[s]) = code
            /\ Len(log[s]) = MaxRetries[s] + 1
  /\ log["agent"] # <<>> => Last(log["stt"]) = "text"
  /\ result = "blank" => log["agent"] = <<>>

\* The requests a job makes and what it reports about them agree.
RequestsAreSound == RequestsAreBounded /\ OutcomeMatchesLog

\* ws_server.py:20-21: the window is to cover the long tail of the providers.
\* It covers the attempts with their pauses as long as each request keeps its
\* timeout: a job is late by no more than what its requests ran over, which the
\* total timeout M1_BACKEND_IMPLEMENTATION.md:201 demands (and the code does not
\* set) would cut off.  (With the default queue of one, no job waits for another.)
LateOnlyByOverrun == elapsed <= PollTimeout + overrun
=============================================================================
