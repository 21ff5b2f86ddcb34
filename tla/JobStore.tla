------------------------------ MODULE JobStore ------------------------------
(***************************************************************************)
(* The SQLite table of m1_service/store.py: one row per recording, because *)
(* recording_id is UNIQUE.  A job is therefore named by its recording; the *)
(* random job_id adds nothing the properties tell apart.  Every operation  *)
(* opens a connection, runs one statement and commits it, so every         *)
(* operation below is one durable step.                                    *)
(***************************************************************************)
CONSTANT Recordings

RecoverableStatuses == {"received", "transcribing", "working", "displaying"}
TerminalStatuses == {"done", "failed"}
ValidStatuses == RecoverableStatuses \cup TerminalStatuses

\* What a nullable text column holds: SQL NULL, "" or some text.
Text == {"null", "empty", "text"}
ErrorCodes == {"queue_full", "stt_error", "agent_error", "unknown_error"}

Row == [status : ValidStatuses, transcript : Text, reply : Text,
        error : ErrorCodes \cup {"null"}]
NoRow == [status |-> "absent", transcript |-> "null", reply |-> "null",
          error |-> "null"]

NewRow == [status |-> "received", transcript |-> "null", reply |-> "null",
           error |-> "null"]

\* Mutant: a column the caller leaves out keeps its value.
MutKeepColumns(db, r, st, tr, re, er) ==
  [db EXCEPT ![r] =
     [status |-> st,
      transcript |-> IF tr = "null" THEN @.transcript ELSE tr,
      reply |-> IF re = "null" THEN @.reply ELSE re,
      error |-> IF er = "null" THEN @.error ELSE er]]

\* The UPDATE of set_status writes all four columns: a column the caller
\* leaves out becomes NULL.
SetStatus(db, r, st, tr, re, er) ==
  [db EXCEPT ![r] = [status |-> st, transcript |-> tr, reply |-> re,
                     error |-> er]]

Fail(db, r, code) == SetStatus(db, r, "failed", "null", "null", code)

Exists(db, r) == db[r] # NoRow

\* INSERT of a recording that has no row yet.
CreateJob(db, r) == [db EXCEPT ![r] = NewRow]

\* Mutants: failed jobs are recovered too; one interrupted between its last
\* two commits is not.
MutListNotDone(db) ==
  {r \in Recordings : db[r].status \in ValidStatuses \ {"done"}}
MutListWithoutDisplaying(db) ==
  {r \in Recordings : db[r].status \in RecoverableStatuses \ {"displaying"}}

ListRecoverable(db) == {r \in Recordings : db[r].status \in RecoverableStatuses}
=============================================================================
