---------------------------- MODULE TaskInstance ----------------------------
(***************************************************************************)
(* The states of a task instance (airflow/utils/state.py), the sets of     *)
(* them that dependency checks use (airflow/ti_deps/dep_context.py) and    *)
(* the rules about tries of airflow/models/taskinstance.py, as constant    *)
(* operators that the state machines of this project share.                *)
(***************************************************************************)
EXTENDS Integers

NONE == "none"
SCHEDULED == "scheduled"
QUEUED == "queued"
RUNNING == "running"
SUCCESS == "success"
SHUTDOWN == "shutdown"
FAILED == "failed"
UP_FOR_RETRY == "up_for_retry"
UP_FOR_RESCHEDULE == "up_for_reschedule"
UPSTREAM_FAILED == "upstream_failed"
SKIPPED == "skipped"
REMOVED == "removed"

TaskStates == {NONE, SCHEDULED, QUEUED, RUNNING, SUCCESS, SHUTDOWN, FAILED,
               UP_FOR_RETRY, UP_FOR_RESCHEDULE, UPSTREAM_FAILED, SKIPPED, REMOVED}

finished == {SUCCESS, FAILED, SKIPPED}
unfinished == {NONE, SCHEDULED, QUEUED, RUNNING, SHUTDOWN, UP_FOR_RETRY, UP_FOR_RESCHEDULE}

\* Mutant: a FAILED task instance is scheduled again.
SCHEDULEABLE_or_FAILED == {NONE, UP_FOR_RETRY, UP_FOR_RESCHEDULE, FAILED}

SCHEDULEABLE_STATES == {NONE, UP_FOR_RETRY, UP_FOR_RESCHEDULE}

\* Mutant: a RUNNING task instance may be started again.
RUNNABLE_or_RUNNING == {NONE, UP_FOR_RETRY, UP_FOR_RESCHEDULE, QUEUED, RUNNING}

RUNNABLE_STATES == {NONE, UP_FOR_RETRY, UP_FOR_RESCHEDULE, QUEUED}

STATES_TO_COUNT_AS_RUNNING == {RUNNING, QUEUED}

\* The try_number property: the number of the attempt that runs now, or of the
\* next one; n is the _try_number column.
try_number(state, n) == IF state = RUNNING THEN n ELSE n + 1

\* Mutant: one retry too many.
retry_once_more(retries, max_tries, tryNumber) == retries # 0 /\ tryNumber <= max_tries + 1

is_eligible_to_retry(retries, max_tries, tryNumber) ==
    retries # 0 /\ tryNumber <= max_tries

\* The state handle_failure gives a task instance whose in-memory copy has this
\* state and _try_number.
failure_state(state, n, retries, max_tries, force_fail) ==
    IF force_fail \/ ~is_eligible_to_retry(retries, max_tries, try_number(state, n))
      THEN FAILED ELSE UP_FOR_RETRY
=============================================================================
