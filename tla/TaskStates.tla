----------------------------- MODULE TaskStates -----------------------------
(***************************************************************************)
(* The lifecycle vocabulary of conductor/core/state.py: the task and run   *)
(* states, the tasks' transition table, and derive_run_state, which rolls  *)
(* the states of a run's tasks up into the state of the run.               *)
(*                                                                         *)
(* A row that has not been inserted yet has the state "ABSENT", which is   *)
(* not a state of the program: it is what a SELECT that returns no row is  *)
(* in the model.                                                           *)
(***************************************************************************)

TaskState == {"PENDING", "READY", "RUNNING", "SUCCEEDED", "RETRYING",
              "FAILED", "DEAD_LETTER", "BLOCKED", "CANCELLED"}

RunState == {"PENDING", "RUNNING", "SUCCEEDED", "FAILED", "CANCELLED"}

TerminalTaskStates == {"SUCCEEDED", "FAILED", "DEAD_LETTER", "BLOCKED",
                       "CANCELLED"}

TerminalRunStates == {"SUCCEEDED", "FAILED", "CANCELLED"}

\* A mistake: a task waiting in the queue is taken for one that has ended.
ActiveWithoutReady == {"PENDING", "RUNNING", "RETRYING"}

\* TaskState.is_active: still occupies scheduler or worker attention.
ActiveTaskStates == {"PENDING", "READY", "RUNNING", "RETRYING"}

NotYetStarted == {"PENDING", "READY"}

\* The edges the table declares legal.
TASK_TRANSITIONS ==
    [s \in TaskState |->
        CASE s = "PENDING"  -> {"READY", "BLOCKED", "CANCELLED"}
          [] s = "READY"    -> {"RUNNING", "CANCELLED"}
          [] s = "RUNNING"  -> {"SUCCEEDED", "RETRYING", "FAILED",
                                "DEAD_LETTER", "CANCELLED"}
          [] s = "RETRYING" -> {"READY", "FAILED", "DEAD_LETTER", "CANCELLED"}
          [] OTHER          -> {}]

\* The checks are `all` and `any` over the list, so the set of the states that
\* occur decides the result.
derive_run_state(task_states) ==
    LET active == task_states \cap ActiveTaskStates # {}
    IN  IF task_states = {} THEN "PENDING"
        ELSE IF task_states = {"SUCCEEDED"} THEN "SUCCEEDED"
        ELSE IF task_states \subseteq NotYetStarted THEN "PENDING"
        ELSE IF ~active /\ "CANCELLED" \in task_states THEN "CANCELLED"
        ELSE IF active THEN "RUNNING"
        ELSE "FAILED"
=============================================================================
