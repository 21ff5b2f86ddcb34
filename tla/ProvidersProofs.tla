--------------------------- MODULE ProvidersProofs ---------------------------
(***************************************************************************)
(* TLAPS proofs about Providers: how often a provider is asked, that the   *)
(* job reports what its last request said, and for which settings a job    *)
(* outlasts the window of the gateway by no more than its requests outlast *)
(* their timeouts, for every number of retries and every timeout.          *)
(***************************************************************************)
EXTENDS Providers, SequenceTheorems, TLAPS

-----------------------------------------------------------------------------
(* The inductive invariant. *)

\* What makes the properties of Providers inductive.  Every request of a running loop
\* was one to try again, and nothing is decided yet ...
LoopInv ==
  /\ stage \in Stages =>
       /\ code = "none" /\ result = "none"
       /\ attempt <= MaxRetries[stage] /\ Len(log[stage]) = attempt
       /\ \A i \in 1..attempt : log[stage][i] \in Retried
  /\ stage = "stt" => log["agent"] = <<>>
  /\ stage = "agent" => Last(log["stt"]) = "text"

\* ... and but for what requests ran over, a loop has taken no longer than its
\* attempts and pauses can: twice the seconds after n attempts and their pauses,
\* and twice those of a loop.
Spent(s, n) == n * (2 * Timeout[s] + n + 1)
Longest(s)  == Spent(s, MaxRetries[s]) + 2 * Timeout[s]
TimeInv ==
  /\ stage = "stt" => 2 * elapsed <= Spent("stt", attempt) + 2 * overrun
  /\ stage = "agent" =>
       2 * elapsed <= Longest("stt") + Spent("agent", attempt) + 2 * overrun
  /\ 2 * elapsed <= Longest("stt") + Longest("agent") + 2 * overrun

IInv == TypeOK /\ RequestsAreSound /\ LoopInv /\ TimeInv

\* The settings whose attempts and pauses fit into the window of the gateway.
WindowCovers == Longest("stt") + Longest("agent") <= 2 * PollTimeout

-----------------------------------------------------------------------------
(* What one request adds to the log.                                        *)

\* The log of the stage grows by the outcome, the other one stays.
LEMMA RequestIsLogged ==
  ASSUME log \in [Stages -> Seq(Outcomes)], NEW s \in Stages,
         NEW o \in Outcomes, Requested(s, o)
  PROVE  /\ log' \in [Stages -> Seq(Outcomes)]
         /\ \A t \in Stages : t # s => log'[t] = log[t]
         /\ Len(log[s]) \in Nat /\ Len(log'[s]) = Len(log[s]) + 1
         /\ \A i \in 1..Len(log[s]) : log'[s][i] = log[s][i]
         /\ log'[s][Len(log'[s])] = o
         /\ log'[s] # <<>>
<1>1. log[s] \in Seq(Outcomes) /\ log' = [log EXCEPT ![s] = Append(@, o)]
  BY DEF Requested
<1>2. log'[s] = Append(log[s], o) /\ \A t \in Stages : t # s => log'[t] = log[t]
  BY <1>1
<1>3. /\ Append(log[s], o) \in Seq(Outcomes)
      /\ Len(log[s]) \in Nat
      /\ Len(Append(log[s], o)) = Len(log[s]) + 1
      /\ \A i \in 1..Len(log[s]) : Append(log[s], o)[i] = log[s][i]
      /\ Append(log[s], o)[Len(log[s]) + 1] = o
  BY <1>1, AppendProperties, LenProperties
<1>4. Append(log[s], o) # <<>>
  BY <1>3, LenProperties
<1> QED
  BY <1>1, <1>2, <1>3, <1>4

\* The last element is what Last says.
LEMMA LastOfLog ==
  ASSUME log \in [Stages -> Seq(Outcomes)], NEW s \in Stages
  PROVE  Last(log[s]) = log[s][Len(log[s])]
BY DEF Last

(* The clock.                                                               *)

\* One more attempt, with its pause, is what Spent adds for it.
LEMMA SpentStep ==
  ASSUME NEW s \in Stages, NEW n \in Nat
  PROVE  /\ Spent(s, n) \in Nat
         /\ Spent(s, n + 1) = Spent(s, n) + 2 * Timeout[s] + 2 * (n + 1)
<1> DEFINE t == Timeout[s]
<1>1. t \in Nat
  BY TimeAssumption
<1> HIDE DEF t
<1>2. n * (2 * t + n + 1) \in Nat
  BY <1>1
<1>3. (n + 1) * (2 * t + (n + 1) + 1)
        = n * (2 * t + n + 1) + 2 * t + 2 * (n + 1)
  BY <1>1
<1> QED
  BY <1>2, <1>3 DEF Spent, t

\* A loop that may end has spent no more than Longest allows.
LEMMA SpentGrows ==
  ASSUME NEW s \in Stages, NEW n \in Nat, n <= MaxRetries[s]
  PROVE  /\ Spent(s, n) + 2 * Timeout[s] <= Longest(s)
         /\ Spent(s, n) \in Nat /\ Longest(s) \in Nat /\ Timeout[s] \in Nat
<1> DEFINE t == Timeout[s]
           r == MaxRetries[s]
<1>1. t \in Nat /\ r \in Nat /\ n <= r
  BY TimeAssumption, RetriesAssumption DEF r, t
<1> HIDE DEF t, r
<1>2. n * (2 * t + n + 1) <= r * (2 * t + r + 1)
  <2>1. PICK d \in Nat : r = n + d
    BY <1>1
  <2>2. r * (2 * t + r + 1)
          = n * (2 * t + n + 1) + d * (2 * t + 2 * n + d + 1)
    BY <1>1, <2>1
  <2>3. d * (2 * t + 2 * n + d + 1) \in Nat
    BY <1>1, <2>1
  <2> QED
    BY <1>1, <2>2, <2>3
<1>3. n * (2 * t + n + 1) \in Nat /\ r * (2 * t + r + 1) \in Nat
  BY <1>1
<1> QED
  BY <1>1, <1>2, <1>3 DEF Spent, Longest, t, r

(* The steps.                                                               *)

LEMMA InitEstablishes == Init => IInv
<1> SUFFICES ASSUME Init PROVE IInv
  OBVIOUS
<1>1. TypeOK
  BY DEF Init, TypeOK, Stages, Errors
<1>2. RequestsAreSound
  BY RetriesAssumption DEF Init, RequestsAreSound, RequestsAreBounded,
     OutcomeMatchesLog, Retried, Stages
<1>3. LoopInv
  BY RetriesAssumption DEF Init, LoopInv, Stages
<1>4. TimeInv
  <2>1. /\ Spent("stt", 0) \in Nat
        /\ Longest("stt") \in Nat /\ Longest("agent") \in Nat
    BY SpentGrows, RetriesAssumption DEF Stages
  <2> QED
    BY <2>1 DEF Init, TimeInv
<1> QED
  BY <1>1, <1>2, <1>3, <1>4 DEF IInv

\* What a running loop knows before its request.
LEMMA LoopIsRunning ==
  ASSUME IInv, stage # "over"
  PROVE  /\ stage \in Stages /\ attempt \in Nat
         /\ elapsed \in Nat /\ overrun \in Nat
         /\ log \in [Stages -> Seq(Outcomes)]
         /\ MaxRetries[stage] \in Nat /\ attempt <= MaxRetries[stage]
         /\ code = "none" /\ result = "none"
         /\ Len(log[stage]) = attempt
         /\ \A i \in 1..attempt : log[stage][i] \in Retried
         /\ stage = "stt" => log["agent"] = <<>>
         /\ stage = "agent" => Last(log["stt"]) = "text"
BY RetriesAssumption DEF IInv, TypeOK, LoopInv

\* A request takes its timeout at most, or what it takes beyond it is counted.
LEMMA OverrunIsCounted ==
  ASSUME NEW s \in Stages, NEW d \in Durations(s)
  PROVE  /\ d \in Nat /\ Timeout[s] \in Nat /\ Overrun(s, d) \in Nat
         /\ d <= Timeout[s] + Overrun(s, d)
<1>1. Timeout[s] \in Nat
  BY TimeAssumption
<1>2. PICK w \in 0..MaxWaits : d = w * Timeout[s]
  BY DEF Durations
<1>3. w \in Nat
  BY <1>2, TimeAssumption
<1>4. d \in Nat
  BY <1>1, <1>2, <1>3
<1> QED
  BY <1>1, <1>4 DEF Overrun

\* A request leaves the job in time but for what it ran over, with no pause yet.
LEMMA RequestIsInTime ==
  ASSUME IInv, stage # "over", NEW d \in Durations(stage), NEW p \in Nat,
         Passes(stage, d, p)
  PROVE  /\ elapsed' \in Nat /\ overrun' \in Nat
         /\ Longest("stt") \in Nat /\ Longest("agent") \in Nat
         /\ stage = "stt" =>
              2 * elapsed' <= Spent("stt", attempt) + 2 * Timeout["stt"]
                              + 2 * p + 2 * overrun'
         /\ stage = "agent" =>
              2 * elapsed' <= Longest("stt") + Spent("agent", attempt)
                              + 2 * Timeout["agent"] + 2 * p + 2 * overrun'
<1>1. stage \in Stages /\ attempt \in Nat /\ attempt <= MaxRetries[stage]
      /\ elapsed \in Nat /\ overrun \in Nat
  BY LoopIsRunning
<1>2. PICK over \in Nat :
        /\ d \in Nat /\ d <= Timeout[stage] + over /\ Timeout[stage] \in Nat
        /\ elapsed' = elapsed + d + p /\ overrun' = overrun + over
  BY <1>1, OverrunIsCounted DEF Passes
<1>3. Spent(stage, attempt) \in Nat
  BY <1>1, SpentGrows
<1>4. Longest("stt") \in Nat /\ Longest("agent") \in Nat
  BY SpentGrows, RetriesAssumption DEF Stages
<1>5. CASE stage = "stt"
  <2>1. 2 * elapsed <= Spent("stt", attempt) + 2 * overrun
    BY <1>5 DEF IInv, TimeInv
  <2> QED
    BY <1>1, <1>2, <1>3, <1>4, <1>5, <2>1
<1>6. CASE stage = "agent"
  <2>1. 2 * elapsed <= Longest("stt") + Spent("agent", attempt) + 2 * overrun
    BY <1>6 DEF IInv, TimeInv
  <2> QED
    BY <1>1, <1>2, <1>3, <1>4, <1>6, <2>1
<1> QED
  BY <1>1, <1>5, <1>6 DEF Stages

\* A request that no pause follows: the loop has not taken longer than it can.
LEMMA LastRequestIsInTime ==
  ASSUME IInv, stage # "over", NEW d \in Durations(stage), Passes(stage, d, 0)
  PROVE  /\ elapsed' \in Nat /\ overrun' \in Nat
         /\ Longest("stt") \in Nat /\ Longest("agent") \in Nat
         /\ stage = "stt" => 2 * elapsed' <= Longest("stt") + 2 * overrun'
         /\ stage = "agent" =>
              2 * elapsed' <= Longest("stt") + Longest("agent") + 2 * overrun'
<1>1. stage \in Stages /\ attempt \in Nat /\ attempt <= MaxRetries[stage]
  BY LoopIsRunning
<1>2. /\ Spent(stage, attempt) + 2 * Timeout[stage] <= Longest(stage)
      /\ Spent(stage, attempt) \in Nat /\ Longest(stage) \in Nat
      /\ Timeout[stage] \in Nat
  BY <1>1, SpentGrows
<1>3. /\ elapsed' \in Nat /\ overrun' \in Nat
      /\ Longest("stt") \in Nat /\ Longest("agent") \in Nat
  BY RequestIsInTime
<1>4. CASE stage = "stt"
  <2>1. 2 * elapsed' <= Spent("stt", attempt) + 2 * Timeout["stt"] + 2 * overrun'
    BY <1>2, <1>3, <1>4, RequestIsInTime
  <2> QED
    BY <1>2, <1>3, <1>4, <2>1
<1>5. CASE stage = "agent"
  <2>1. 2 * elapsed' <= Longest("stt") + Spent("agent", attempt)
                        + 2 * Timeout["agent"] + 2 * overrun'
    BY <1>2, <1>3, <1>5, RequestIsInTime
  <2> QED
    BY <1>2, <1>3, <1>5, <2>1
<1> QED
  BY <1>1, <1>3, <1>4, <1>5 DEF Stages

\* A request of the running loop with an outcome o that is the last of the
\* loop or one to be tried again keeps the number of requests in bounds.
LEMMA StillBounded ==
  ASSUME IInv, stage # "over", NEW o \in Outcomes, Requested(stage, o),
         stage' = stage => o \in Retried
  PROVE  RequestsAreBounded'
<1>1. \A s \in Stages \ {stage} : log'[s] = log[s]
  BY LoopIsRunning, RequestIsLogged
<1>2. /\ Len(log'[stage]) = attempt + 1
      /\ \A i \in 1..attempt : log'[stage][i] \in Retried
  BY LoopIsRunning, RequestIsLogged
<1>3. /\ Len(log'[stage]) <= MaxRetries[stage] + 1
      /\ \A i \in 1..Len(log'[stage]) :
           log'[stage][i] \notin Retried => i = Len(log'[stage])
  BY <1>2, LoopIsRunning
<1>4. RequestsAreBounded
  BY DEF IInv, RequestsAreSound
<1> QED
  BY <1>1, <1>3, <1>4 DEF RequestsAreBounded

\* A failure that is tried again.
LEMMA StepRetryLater ==
  ASSUME IInv, RetryLater
  PROVE  IInv'
<1> PICK o \in Retried, d \in Durations(stage) :
      Requested(stage, o) /\ Passes(stage, d, attempt + 1)
  BY DEF RetryLater
<1>1. o \in Outcomes /\ stage # "over"
  BY DEF RetryLater, Outcomes
<1>2. /\ attempt + 1 \in Nat /\ elapsed' \in Nat /\ overrun' \in Nat
      /\ Longest("stt") \in Nat /\ Longest("agent") \in Nat
  BY <1>1, LoopIsRunning, RequestIsInTime
<1>3. /\ attempt' = attempt + 1 /\ stage' = stage /\ code' = code
      /\ result' = result /\ attempt < MaxRetries[stage]
  BY DEF RetryLater
<1>4. TypeOK'
  BY <1>1, <1>2, <1>3, LoopIsRunning, RequestIsLogged DEF IInv, TypeOK
<1>5. RequestsAreSound'
  <2>1. OutcomeMatchesLog'
    BY <1>1, <1>3, LoopIsRunning, RequestIsLogged
       DEF IInv, RequestsAreSound, OutcomeMatchesLog, Retried, Stages
  <2> QED
    BY <1>1, <2>1, StillBounded DEF RequestsAreSound
<1>6. LoopInv'
  <2>1. /\ Len(log'[stage]) = attempt + 1
        /\ \A i \in 1..(attempt + 1) : log'[stage][i] \in Retried
    <3>1. /\ attempt \in Nat /\ Len(log'[stage]) = attempt + 1
          /\ \A i \in 1..attempt : log'[stage][i] \in Retried
          /\ log'[stage][attempt + 1] \in Retried
      BY <1>1, LoopIsRunning, RequestIsLogged
    <3> QED
      BY <3>1
  <2>2. \A s \in Stages \ {stage} : log'[s] = log[s]
    BY <1>1, LoopIsRunning, RequestIsLogged
  <2> QED
    BY <1>1, <1>3, <2>1, <2>2, LoopIsRunning DEF LoopInv, Stages
<1>7. TimeInv'
  <2>1. /\ Spent(stage, attempt + 1)
             = Spent(stage, attempt) + 2 * Timeout[stage] + 2 * (attempt + 1)
        /\ Spent(stage, attempt) \in Nat
        /\ attempt \in Nat /\ stage \in Stages
    BY <1>1, LoopIsRunning, SpentStep
  <2>2. /\ Spent(stage, attempt + 1) + 2 * Timeout[stage] <= Longest(stage)
        /\ Spent(stage, attempt + 1) \in Nat /\ Timeout[stage] \in Nat
    BY <1>1, <1>3, LoopIsRunning, SpentGrows
  <2>3. CASE stage = "stt"
    <3>1. 2 * elapsed' <= Spent("stt", attempt) + 2 * Timeout["stt"]
                          + 2 * (attempt + 1) + 2 * overrun'
      BY <1>1, <1>2, <2>3, RequestIsInTime
    <3>2. 2 * elapsed' <= Spent("stt", attempt + 1) + 2 * overrun'
      BY <2>1, <2>3, <3>1
    <3> QED
      BY <1>2, <1>3, <2>1, <2>2, <2>3, <3>2 DEF TimeInv
  <2>4. CASE stage = "agent"
    <3>1. 2 * elapsed' <= Longest("stt") + Spent("agent", attempt)
                          + 2 * Timeout["agent"] + 2 * (attempt + 1) + 2 * overrun'
      BY <1>1, <1>2, <2>4, RequestIsInTime
    <3>2. 2 * elapsed' <= Longest("stt") + Spent("agent", attempt + 1) + 2 * overrun'
      BY <1>2, <2>1, <2>2, <2>4, <3>1
    <3> QED
      BY <1>2, <1>3, <2>1, <2>2, <2>4, <3>2 DEF TimeInv
  <2> QED
    BY <2>1, <2>3, <2>4 DEF Stages
<1> QED
  BY <1>4, <1>5, <1>6, <1>7 DEF IInv

\* A request that ends the job, whatever is reported.
LEMMA RequestEndsJob ==
  ASSUME IInv, stage # "over", NEW o \in Outcomes, Requested(stage, o),
         NEW d \in Durations(stage), Passes(stage, d, 0),
         stage' = "over", attempt' = attempt,
         code' \in Errors \cup {"none"}, result' \in {"none", "blank", "reply"}
  PROVE  TypeOK' /\ RequestsAreBounded' /\ LoopInv' /\ TimeInv'
<1>1. /\ stage \in Stages /\ elapsed' \in Nat /\ overrun' \in Nat
      /\ log' \in [Stages -> Seq(Outcomes)] /\ attempt \in Nat
  BY LoopIsRunning, RequestIsLogged, LastRequestIsInTime
<1>2. TypeOK'
  BY <1>1 DEF TypeOK
<1>3. RequestsAreBounded'
  BY LoopIsRunning, StillBounded DEF Stages
<1>4. LoopInv'
  BY DEF LoopInv, Stages
<1>5. TimeInv'
  <2>1. /\ Longest("stt") \in Nat /\ Longest("agent") \in Nat
        /\ 2 * elapsed' <= Longest("stt") + Longest("agent") + 2 * overrun'
    BY <1>1, LastRequestIsInTime DEF Stages
  <2> QED
    BY <2>1 DEF TimeInv
<1> QED
  BY <1>2, <1>3, <1>4, <1>5

\* The last attempt failed.
LEMMA StepRaiseLastError ==
  ASSUME IInv, RaiseLastError
  PROVE  IInv'
<1> PICK o \in Retried, d \in Durations(stage) :
      Requested(stage, o) /\ code' = o /\ Passes(stage, d, 0)
  BY DEF RaiseLastError
<1>1. /\ o \in Outcomes /\ stage # "over" /\ stage' = "over"
      /\ attempt' = attempt /\ attempt = MaxRetries[stage]
      /\ result' = result /\ o \in Errors /\ o # "none"
  BY DEF RaiseLastError, Outcomes, Errors, Retried
<1>2. result = "none"
  BY <1>1, LoopIsRunning
<1>3. TypeOK' /\ RequestsAreBounded' /\ LoopInv' /\ TimeInv'
  BY <1>1, <1>2, RequestEndsJob
<1>4. OutcomeMatchesLog'
  <2>1. /\ Last(log'[stage]) = o
        /\ Len(log'[stage]) = MaxRetries[stage] + 1
    BY <1>1, LoopIsRunning, RequestIsLogged DEF Last
  <2>2. \A s \in Stages \ {stage} : log'[s] = log[s]
    BY <1>1, LoopIsRunning, RequestIsLogged
  <2>3. stage \in Stages /\ log'[stage] # <<>>
    BY <1>1, LoopIsRunning, RequestIsLogged
  <2>4. CASE stage = "stt"
    BY <1>1, <1>2, <2>1, <2>2, <2>4, LoopIsRunning DEF OutcomeMatchesLog, Stages
  <2>5. CASE stage = "agent"
    BY <1>1, <1>2, <2>1, <2>2, <2>3, <2>5, LoopIsRunning
       DEF OutcomeMatchesLog, Stages
  <2> QED
    BY <2>3, <2>4, <2>5 DEF Stages
<1> QED
  BY <1>3, <1>4 DEF IInv, RequestsAreSound

\* An exception the loop does not name.
LEMMA StepRaiseUncaught ==
  ASSUME IInv, RaiseUncaught
  PROVE  IInv'
<1> PICK d \in Durations(stage) : Passes(stage, d, 0)
  BY DEF RaiseUncaught
<1>1. /\ Uncaught \in Outcomes /\ stage # "over" /\ stage' = "over"
      /\ Requested(stage, Uncaught)
      /\ attempt' = attempt /\ result' = result /\ code' = "unknown_error"
      /\ code' \in Errors /\ code' \notin Retried /\ code' # "none"
  BY DEF RaiseUncaught, Outcomes, Errors, Retried
<1>2. result = "none"
  BY <1>1, LoopIsRunning
<1>3. TypeOK' /\ RequestsAreBounded' /\ LoopInv' /\ TimeInv'
  BY <1>1, <1>2, RequestEndsJob
<1>4. OutcomeMatchesLog'
  <2>1. /\ stage = "stt" => log'["agent"] = <<>>
        /\ stage = "agent" => Last(log'["stt"]) = "text"
    BY <1>1, LoopIsRunning, RequestIsLogged DEF Stages
  <2> QED
    BY <1>1, <1>2, <2>1, LoopIsRunning DEF OutcomeMatchesLog, Stages
<1> QED
  BY <1>3, <1>4 DEF IInv, RequestsAreSound

\* A transcript: the other loop begins.
LEMMA StepHeard ==
  ASSUME IInv, Heard
  PROVE  IInv'
<1> PICK d \in Durations("stt") : Passes("stt", d, 0)
  BY DEF Heard
<1>1. /\ "text" \in Outcomes /\ stage = "stt" /\ stage # "over"
      /\ stage' = "agent" /\ attempt' = 0 /\ Requested(stage, "text")
      /\ code' = code /\ result' = result
  BY DEF Heard, Outcomes
<1>2. /\ log' \in [Stages -> Seq(Outcomes)] /\ Last(log'["stt"]) = "text"
      /\ log'["agent"] = <<>> /\ code = "none" /\ result = "none"
  BY <1>1, LoopIsRunning, RequestIsLogged DEF Last, Stages
<1>3. /\ elapsed' \in Nat /\ overrun' \in Nat
      /\ Longest("stt") \in Nat /\ Longest("agent") \in Nat
      /\ 2 * elapsed' <= Longest("stt") + 2 * overrun'
  BY <1>1, LastRequestIsInTime
<1>4. TypeOK'
  BY <1>1, <1>2, <1>3 DEF TypeOK, Stages, Errors
<1>5. RequestsAreSound'
  <2>1. OutcomeMatchesLog'
    BY <1>1, <1>2 DEF OutcomeMatchesLog, Retried
  <2> QED
    BY <1>1, <2>1, StillBounded DEF RequestsAreSound
<1>6. LoopInv'
  BY <1>1, <1>2, RetriesAssumption DEF LoopInv, Stages
<1>7. TimeInv'
  <2>1. Spent("agent", 0) = 0
    BY TimeAssumption DEF Spent, Stages
  <2> QED
    BY <1>1, <1>2, <1>3, <2>1 DEF TimeInv
<1> QED
  BY <1>4, <1>5, <1>6, <1>7 DEF IInv

\* Nothing but blanks.
LEMMA StepHeardNothing ==
  ASSUME IInv, HeardNothing
  PROVE  IInv'
<1> PICK d \in Durations("stt") : Passes("stt", d, 0)
  BY DEF HeardNothing
<1>1. /\ "blank" \in Outcomes /\ stage = "stt" /\ stage # "over"
      /\ stage' = "over" /\ attempt' = attempt /\ Requested(stage, "blank")
      /\ code' = code /\ result' = "blank"
  BY DEF HeardNothing, Outcomes
<1>2. log'["agent"] = <<>> /\ code = "none"
  BY <1>1, LoopIsRunning, RequestIsLogged DEF Stages
<1>3. TypeOK' /\ RequestsAreBounded' /\ LoopInv' /\ TimeInv'
  BY <1>1, <1>2, RequestEndsJob
<1>4. OutcomeMatchesLog'
  BY <1>1, <1>2 DEF OutcomeMatchesLog, Retried
<1> QED
  BY <1>3, <1>4 DEF IInv, RequestsAreSound

\* An answer of the agent.
LEMMA StepAnswered ==
  ASSUME IInv, Answered
  PROVE  IInv'
<1> PICK d \in Durations("agent"), o \in {"text", "blank"} :
      Passes("agent", d, 0) /\ Requested("agent", o)
  BY DEF Answered
<1>1. /\ o \in Outcomes /\ stage = "agent" /\ stage # "over"
      /\ stage' = "over" /\ attempt' = attempt /\ Requested(stage, o)
      /\ code' = code /\ result' = "reply"
  BY DEF Answered, Outcomes
<1>2. Last(log'["stt"]) = "text" /\ code = "none"
  BY <1>1, LoopIsRunning, RequestIsLogged DEF Stages
<1>3. TypeOK' /\ RequestsAreBounded' /\ LoopInv' /\ TimeInv'
  BY <1>1, <1>2, RequestEndsJob
<1>4. OutcomeMatchesLog'
  BY <1>1, <1>2 DEF OutcomeMatchesLog, Retried
<1> QED
  BY <1>3, <1>4 DEF IInv, RequestsAreSound

\* The checks before a loop; no request is made.
LEMMA StepReject ==
  ASSUME IInv, Reject
  PROVE  IInv'
<1>1. /\ stage # "over" /\ stage' = "over" /\ log[stage] = <<>>
      /\ log' = log /\ attempt' = attempt /\ result' = result
      /\ elapsed' = elapsed /\ overrun' = overrun
      /\ code' \in {"config_error", "io_error", "unknown_error"}
  BY DEF Reject
<1>2. result = "none" /\ code' \notin Retried /\ code' # "none"
  BY <1>1, LoopIsRunning DEF Retried
<1>3. TypeOK'
  BY <1>1 DEF IInv, TypeOK, Errors
<1>4. RequestsAreSound'
  BY <1>1, <1>2 DEF IInv, RequestsAreSound, RequestsAreBounded, OutcomeMatchesLog
<1>5. LoopInv'
  BY <1>1 DEF LoopInv, Stages
<1>6. TimeInv'
  BY <1>1 DEF IInv, TimeInv
<1> QED
  BY <1>3, <1>4, <1>5, <1>6 DEF IInv

LEMMA StepPreserves == IInv /\ [Next]_vars => IInv'
<1> SUFFICES ASSUME IInv, [Next]_vars PROVE IInv'
  OBVIOUS
<1>1. CASE Next
  BY <1>1, StepReject, StepRetryLater, StepRaiseLastError, StepRaiseUncaught,
     StepHeard, StepHeardNothing, StepAnswered DEF Next
<1>2. CASE UNCHANGED vars
  BY <1>2 DEF vars, IInv, TypeOK, RequestsAreSound, RequestsAreBounded,
     OutcomeMatchesLog, LoopInv, TimeInv
<1> QED
  BY <1>1, <1>2

-----------------------------------------------------------------------------
(* The theorems. *)

\* What a running loop knows of its requests and of its time holds in every
\* reachable state (stt.py:51-73, agent.py:52-74).
THEOREM InductiveInvariant == Spec => []IInv
<1> QED BY InitEstablishes, StepPreserves, PTL DEF Spec

\* At most max_retries + 1 requests, none after a final answer, and the job
\* reports what its last request said.
THEOREM RequestsAgree == Spec => []RequestsAreSound
<1>1. IInv => RequestsAreSound
  BY DEF IInv
<1> QED BY <1>1, InductiveInvariant, PTL

\* Under every setting of retries and timeouts that WindowCovers allows, a job
\* outlasts the window of the gateway by no more than its requests outlast their
\* timeouts (ws_server.py:20-21, config.py, stt.py:54, agent.py:55).
THEOREM LateJobsOverran ==
  ASSUME WindowCovers
  PROVE  Spec => []LateOnlyByOverrun
<1>1. IInv => LateOnlyByOverrun
  <2>1. Longest("stt") \in Nat /\ Longest("agent") \in Nat
    BY SpentGrows, RetriesAssumption DEF Stages
  <2> QED
    BY <2>1, TimeAssumption
       DEF IInv, TypeOK, TimeInv, WindowCovers, LateOnlyByOverrun
<1> QED BY <1>1, InductiveInvariant, PTL
=============================================================================
