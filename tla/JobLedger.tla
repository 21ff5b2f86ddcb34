----------------------------- MODULE JobLedger -----------------------------
(***************************************************************************)
(* What the orchestrator promises its client, without queue, worker,       *)
(* statuses or statements: a durable ledger that names each recording at   *)
(* most once, and a service that works on a bounded number of open         *)
(* entries.  An entry is closed once and for good; an interruption empties *)
(* the service and leaves the ledger alone.                                *)
(***************************************************************************)
EXTENDS Naturals, FiniteSets

CONSTANTS Recordings, Capacity

VARIABLES
  state,    \* each recording: absent, open, done or failed
  serving   \* the open entries being worked on

lvars == <<state, serving>>

Open == {r \in Recordings : state[r] = "open"}

Init ==
  /\ state = [r \in Recordings |-> "absent"]
  /\ serving = {}

\* A new recording is entered and taken into service if there is room.
Enter(r) ==
  /\ state[r] = "absent"
  /\ state' = [state EXCEPT ![r] = "open"]
  /\ serving' = IF Cardinality(serving) < Capacity THEN serving \cup {r}
                ELSE serving

\* An entry the service had no room for is closed as failed.
Refuse(r) ==
  /\ state[r] = "open" /\ r \notin serving
  /\ Cardinality(serving) = Capacity
  /\ state' = [state EXCEPT ![r] = "failed"]
  /\ UNCHANGED serving

Close(r, outcome) ==
  /\ r \in serving
  /\ state' = [state EXCEPT ![r] = outcome]
  /\ serving' = serving \ {r}

\* The service can lose an entry it could not record the outcome of.
Abandon(r) ==
  /\ r \in serving
  /\ serving' = serving \ {r}
  /\ UNCHANGED state

Interrupt ==
  /\ serving' = {}
  /\ UNCHANGED state

\* After an interruption the service takes up open entries, as many as fit.
Resume ==
  /\ serving = {}
  /\ serving' \in SUBSET Open
  /\ \/ serving' = Open /\ Cardinality(Open) <= Capacity
     \/ Cardinality(serving') = Capacity
  /\ UNCHANGED state

Next ==
  \/ \E r \in Recordings :
       \/ Enter(r) \/ Refuse(r) \/ Abandon(r)
       \/ \E outcome \in {"done", "failed"} : Close(r, outcome)
  \/ Interrupt \/ Resume

Spec == Init /\ [][Next]_lvars
=============================================================================
