-------------------------- MODULE TaskExecutionClaims --------------------------
(***************************************************************************)
(* What the repository's comments and documents say of a task's execution  *)
(* and the code does not keep.  Each is refuted by a run of its own.       *)
(***************************************************************************)
EXTENDS TaskExecution

\* A completed request "returns the durable result without running capability
\* adapters again": whoever holds the lease runs no adapter for a key whose row
\* is completed.  Broken by a duplicate that read the row before its completion
\* and claimed the lease after it.
CompletedRequestRunsNothing ==
    \A w \in Workers :
        wk[w].pc = "perform" /\ HoldsLive(w) => runs[wk[w].key].state # "completed"

\* "While this worker holds the lease no other worker can be between an intent
\* and its receipt".  Broken by a worker whose lease expired in its adapter.
HolderIsAloneInEffects ==
    \A w, v \in Workers :
        /\ HoldsLive(w) /\ w # v
        /\ wk[v].pc \in {"perform", "record"}
        => Intent(v) \notin intents \ late

\* record_intent: "Write an intent only while this worker still owns the task
\* lease".  Broken between its SELECT, which locks nothing, and its COMMIT.
IntentUnderLease ==
    [][\A i \in intents' \ intents : lease.token = i.gen]_vars

\* rollback_agent_state: "Rewind logical agent state".  Broken by a checkpoint
\* later than the task's current step, which an earlier rewind leaves behind.
RewindNeverAdvances ==
    [][task'.cur > task.cur => wk' # wk]_vars
=============================================================================
