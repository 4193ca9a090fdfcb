------------------------------ MODULE DagRun ------------------------------
(***************************************************************************)
(* One DAG run and its task instances: DagRun.update_state and the part of *)
(* process_file that schedules what it finds ready, with trigger rules     *)
(* (TriggerRuleDep), branches (SkipMixin and NotPreviouslySkippedDep) and  *)
(* a user who clears task instances.                                       *)
(*                                                                         *)
(* The DAG file processor reads all task instances of the run at once and  *)
(* then works on that copy: it examines the schedulable ones one by one    *)
(* (a flag is committed at once), decides the state of the run, and locks  *)
(* and schedules the ready ones.  Tasks run, and users clear, between any  *)
(* two of these steps.  How a SCHEDULED task instance gets to a process is *)
(* the subject of SchedulerJob; here it just starts.  No task has          *)
(* depends_on_past or task_concurrency (they switch deadlock detection     *)
(* off).                                                                   *)
(***************************************************************************)
EXTENDS TriggerRule, FiniteSets

CONSTANTS Tasks,
          Up,          \* upstream_task_ids of each task
          RulesOf,     \* the trigger rules a task may have
          Retriers,    \* tasks with one retry
          Branches,    \* tasks whose operator is a SkipMixin
          MaxClears    \* bound: how often a user clears

ASSUME UpAssumption == Up \in [Tasks -> SUBSET Tasks]
\* DagBag.bag_dag accepts no DAG with a cycle: some task of any set has no parent in it.
ASSUME AcyclicAssumption == \A S \in SUBSET Tasks : S # {} => \E t \in S : Up[t] \cap S = {}
ASSUME RulesAssumption == RulesOf \in [Tasks -> SUBSET Rules]
ASSUME FiniteAssumption == IsFiniteSet(Tasks)
ASSUME ClearsAssumption == MaxClears \in Nat

VARIABLES
    trigger_rule,  \* the rule of each task; fixed
    state,         \* state column of each task instance
    run_state,     \* state of the run
    retried,       \* task instances that have used up their retry
    working,       \* task instances with a live process
    xcom,          \* for each branch, the tasks it recorded as skipped
    step,          \* where the file processor is
    seen,          \* its copy of the task instances: as read, then as flagged
    finished_tasks,\* those that had finished when it read them
    todo,          \* what it has yet to examine
    ready_tis,
    changed_tis,   \* whether the examination flagged a task instance
    clears

taskVars == <<state, retried, working, xcom>>
procVars == <<step, seen, finished_tasks, todo, ready_tis, changed_tis>>
vars == <<trigger_rule, taskVars, run_state, procVars, clears>>

DoneStates == finished \cup {UPSTREAM_FAILED}
Leaves == { t \in Tasks : \A u \in Tasks : t \notin Up[u] }
Down(t) == { u \in Tasks : t \in Up[u] }

TypeOK ==
    /\ trigger_rule \in [Tasks -> Rules]
    /\ state \in [Tasks -> {NONE, SCHEDULED, RUNNING, SHUTDOWN, UP_FOR_RETRY} \cup DoneStates]
    /\ run_state \in {RUNNING, SUCCESS, FAILED}
    /\ retried \in SUBSET Retriers
    /\ working \in SUBSET Tasks
    /\ xcom \in [Branches -> SUBSET Tasks]
    /\ step \in {"idle", "examine", "premature", "decide", "schedule"}
    /\ seen \in [Tasks -> TaskStates]
    /\ finished_tasks \in SUBSET Tasks
    /\ todo \in SUBSET Tasks
    /\ ready_tis \in SUBSET Tasks
    /\ changed_tis \in BOOLEAN
    /\ clears \in 0..MaxClears

Init ==
    /\ trigger_rule \in { r \in [Tasks -> Rules] : \A t \in Tasks : r[t] \in RulesOf[t] }
    /\ state = [t \in Tasks |-> NONE]
    /\ run_state = RUNNING
    /\ retried = {}
    /\ working = {}
    /\ xcom = [b \in Branches |-> {}]
    /\ step = "idle"
    /\ seen = state
    /\ finished_tasks = {}
    /\ todo = {}
    /\ ready_tis = {}
    /\ changed_tis = FALSE
    /\ clears = 0
-----------------------------------------------------------------------------
(* Dependencies, as evaluated on the copy. *)

\* _get_states_count_upstream_ti: the finished upstream task instances.
upstream_counts(t) ==
    LET count(S) == Cardinality({ u \in Up[t] \cap finished_tasks : seen[u] \in S })
    IN  [success |-> count({SUCCESS}), skipped |-> count({SKIPPED}), failed |-> count({FAILED}),
         upstream_failed |-> count({UPSTREAM_FAILED}), done |-> count(DoneStates),
         n |-> Cardinality(Up[t])]

\* Mutant: only a parent that has succeeded is asked.
previously_skipped_by_success(t) ==
    \E b \in Up[t] \cap Branches \cap finished_tasks : seen[b] = SUCCESS /\ t \in xcom[b]

\* NotPreviouslySkippedDep: a finished parent has recorded that it skipped t.
previously_skipped(t) ==
    \E b \in Up[t] \cap Branches \cap finished_tasks : t \in xcom[b]

\* The states that the evaluation writes to t; the order in which the two
\* dependencies are evaluated, and so the last write, is arbitrary.
flags(t) ==
    (IF Up[t] = {} THEN {} ELSE {flagged_state(trigger_rule[t], upstream_counts(t))} \ {NoFlag})
    \cup (IF previously_skipped(t) THEN {SKIPPED} ELSE {})

\* are_dependencies_met, retry and reschedule periods apart.
dependencies_met(t) ==
    /\ Up[t] = {} \/ rule_met(trigger_rule[t], upstream_counts(t))
    /\ ~previously_skipped(t)

\* TaskInstance.set_state: what changes the copy is written to the row, whatever
\* the row is by now.
write_flags(t) ==
    IF flags(t) \subseteq {seen[t]} THEN UNCHANGED <<state, seen>>
    ELSE \E f \in flags(t) :
           /\ state' = [state EXCEPT ![t] = f]
           /\ seen' = [seen EXCEPT ![t] = f]

unfinished_tasks == Tasks \ finished_tasks
-----------------------------------------------------------------------------
(* The DAG file processor. *)

\* update_state reads the task instances of a running run.
read_task_instances ==
    /\ step = "idle"
    /\ run_state = RUNNING
    /\ seen' = state
    /\ finished_tasks' = { t \in Tasks : state[t] \in DoneStates }
    /\ todo' = { t \in Tasks : state[t] \in SCHEDULEABLE_STATES }
    /\ ready_tis' = {}
    /\ changed_tis' = FALSE
    /\ step' = "examine"
    /\ UNCHANGED <<trigger_rule, taskVars, run_state, clears>>

\* One round of _get_ready_tis; due: the retry delay has passed.
get_ready_ti(t, due) ==
    /\ step = "examine"
    /\ t \in todo
    /\ todo' = todo \ {t}
    /\ write_flags(t)
    /\ LET met == dependencies_met(t) /\ (seen[t] = UP_FOR_RETRY => due)
       IN  /\ ready_tis' = IF met THEN ready_tis \cup {t} ELSE ready_tis
           /\ changed_tis' = (changed_tis \/ (~met /\ seen'[t] # seen[t]))
    /\ UNCHANGED <<trigger_rule, retried, working, xcom, run_state, step, finished_tasks, clears>>

\* Nothing left to examine: if nothing is ready, _are_premature_tis looks at
\* every unfinished task instance.
examined ==
    /\ step = "examine"
    /\ todo = {}
    /\ IF ready_tis = {} /\ unfinished_tasks # {}
         THEN step' = "premature" /\ todo' = unfinished_tasks
         ELSE step' = "decide" /\ UNCHANGED todo
    /\ UNCHANGED <<trigger_rule, taskVars, run_state, seen, finished_tasks, ready_tis, changed_tis,
                   clears>>

\* One round of _are_premature_tis: the first whose dependencies are met ends it
\* (recorded in changed_tis, which only matters together with it).
premature_ti(t) ==
    /\ step = "premature"
    /\ t \in todo
    /\ write_flags(t)
    /\ changed_tis' = (changed_tis \/ dependencies_met(t))
    /\ todo' = IF dependencies_met(t) THEN {} ELSE todo \ {t}
    /\ step' = IF todo' = {} THEN "decide" ELSE "premature"
    /\ UNCHANGED <<trigger_rule, retried, working, xcom, run_state, finished_tasks, ready_tis,
                   clears>>

\* Mutant: a run with a failed leaf fails at once.
verdict_early ==
    LET leaf_states == { seen[t] : t \in Leaves }
    IN  IF leaf_states \cap {FAILED, UPSTREAM_FAILED} # {} THEN FAILED
        ELSE IF unfinished_tasks = {} THEN SUCCESS ELSE RUNNING

\* Mutant: a skipped leaf does not count as successful.
verdict_without_skipped ==
    LET leaf_states == { seen[t] : t \in Leaves }
    IN  CASE unfinished_tasks = {} /\ leaf_states \cap {FAILED, UPSTREAM_FAILED} # {} -> FAILED
          [] unfinished_tasks = {} /\ leaf_states \subseteq {SUCCESS} -> SUCCESS
          [] OTHER -> RUNNING

\* The state update_state gives the run.
verdict ==
    LET leaf_states == { seen[t] : t \in Leaves }
    IN  CASE unfinished_tasks = {} /\ leaf_states \cap {FAILED, UPSTREAM_FAILED} # {} -> FAILED
          [] unfinished_tasks = {} /\ leaf_states \subseteq {SUCCESS, SKIPPED} -> SUCCESS
          [] unfinished_tasks # {} /\ ready_tis = {} /\ ~changed_tis -> FAILED
          [] OTHER -> RUNNING

\* The merge writes the run only if the copy has changed, and without a lock.
decide ==
    /\ step = "decide"
    /\ run_state' = IF verdict = RUNNING THEN run_state ELSE verdict
    /\ step' = IF verdict = RUNNING THEN "schedule" ELSE "idle"
    /\ UNCHANGED <<trigger_rule, taskVars, seen, finished_tasks, todo, ready_tis, changed_tis,
                   clears>>

\* Mutant: the ready ones are scheduled without a second look at the row.
schedule_unchecked ==
    /\ step = "schedule"
    /\ state' = [t \in Tasks |-> IF t \in ready_tis THEN SCHEDULED ELSE state[t]]
    /\ step' = "idle"
    /\ UNCHANGED <<trigger_rule, retried, working, xcom, run_state, seen, finished_tasks, todo,
                   ready_tis, changed_tis, clears>>

\* The end of process_file: each ready row is locked and read again.
schedule ==
    /\ step = "schedule"
    /\ state' = [t \in Tasks |-> IF t \in ready_tis /\ state[t] \in SCHEDULEABLE_STATES
                                   THEN SCHEDULED ELSE state[t]]
    /\ step' = "idle"
    /\ UNCHANGED <<trigger_rule, retried, working, xcom, run_state, seen, finished_tasks, todo,
                   ready_tis, changed_tis, clears>>
-----------------------------------------------------------------------------
(* Tasks and users. *)

\* A SCHEDULED task instance is queued and started; what it had pushed is cleared.
start(t) ==
    /\ state[t] = SCHEDULED
    /\ t \notin working
    /\ state' = [state EXCEPT ![t] = RUNNING]
    /\ working' = working \cup {t}
    /\ xcom' = [b \in Branches |-> IF b = t THEN {} ELSE xcom[b]]
    /\ UNCHANGED <<trigger_rule, retried, run_state, procVars, clears>>

\* get_flat_relative_ids, with the tasks themselves.
WithDescendants(S) ==
    { t \in Tasks : \A C \in SUBSET Tasks : (S \subseteq C /\ \A u \in C : Down(u) \subseteq C) => t \in C }

\* SkipMixin.skip_all_except: a running branch follows the tasks F; what is
\* directly downstream, and not behind one of them, is skipped, whatever its
\* state, and recorded (the record is committed right after the skips; here both
\* are one step).
skip_all_except(b, F) ==
    LET skip_tasks == Down(b) \ WithDescendants(F)
    IN  /\ b \in working
        /\ xcom[b] = {}
        /\ skip_tasks # {}
        /\ state' = [t \in Tasks |-> IF t \in skip_tasks THEN SKIPPED ELSE state[t]]
        /\ xcom' = [xcom EXCEPT ![b] = skip_tasks]
        /\ UNCHANGED <<trigger_rule, retried, working, run_state, procVars, clears>>

\* Mutant: tasks without retries are retried too.
is_eligible_without_retries(t) == t \notin retried

\* is_eligible_to_retry, with retries 0 or 1.
is_eligible(t) == t \in Retriers \ retried

\* The process ends: success or skip, whatever the row says; failure with a retry,
\* if there is one left; or failure for good, which it can be although there is
\* (AirflowFailException, or an AirflowException when the row is no longer RUNNING
\* and try_number counts one more).
finish(t) ==
    /\ t \in working
    /\ working' = working \ {t}
    /\ \/ /\ \E s \in {SUCCESS, SKIPPED} : state' = [state EXCEPT ![t] = s]
          /\ UNCHANGED retried
       \/ /\ is_eligible(t)
          /\ state' = [state EXCEPT ![t] = UP_FOR_RETRY]
          /\ retried' = retried \cup {t}
       \/ /\ state' = [state EXCEPT ![t] = FAILED]
          /\ UNCHANGED retried
    /\ UNCHANGED <<trigger_rule, xcom, run_state, procVars, clears>>

\* clear_task_instances: running ones are to be shut down, the others start
\* afresh, and the run is active again.
clear(S) ==
    /\ clears < MaxClears
    /\ S # {}
    /\ clears' = clears + 1
    /\ state' = [t \in Tasks |-> IF t \notin S THEN state[t]
                                 ELSE IF state[t] = RUNNING THEN SHUTDOWN ELSE NONE]
    /\ retried' = retried \ { t \in S : state[t] # RUNNING }
    /\ run_state' = RUNNING
    /\ UNCHANGED <<trigger_rule, working, xcom, procVars>>
-----------------------------------------------------------------------------
\* process_file, from _process_task_instances on.
ProcessorStep ==
    \/ read_task_instances
    \/ \E t \in Tasks, due \in BOOLEAN : get_ready_ti(t, due)
    \/ examined
    \/ \E t \in Tasks : premature_ti(t)
    \/ decide
    \/ schedule

Next ==
    \/ ProcessorStep
    \/ \E t \in Tasks : start(t) \/ finish(t)
    \/ \E b \in Branches : \E F \in SUBSET Down(b) : skip_all_except(b, F)
    \/ \E S \in SUBSET Tasks : clear(S)

Spec == Init /\ [][Next]_vars

\* The file is processed again and again, with retry delays passing some time,
\* and what is scheduled starts and ends.
Fairness ==
    /\ WF_vars(ProcessorStep)
    /\ \A t \in Tasks : SF_vars(get_ready_ti(t, TRUE)) /\ WF_vars(start(t)) /\ WF_vars(finish(t))

FairSpec == Spec /\ Fairness
-----------------------------------------------------------------------------
(* Properties. *)

\* A task is scheduled only when its parents are, at that moment, as the
\* documentation of its trigger rule requires, although the decision was taken
\* on an older copy of their states.
ScheduledByTheRule ==
    [][\A t \in Tasks : (state[t] # SCHEDULED /\ state'[t] = SCHEDULED /\ Up[t] # {})
          => documented_rule(trigger_rule[t], Up[t], LAMBDA p : state[p])]_vars

\* A run that has ended has no task instance left to run, and its state is that
\* of its leaves: in particular it has not been failed as deadlocked.
VerdictIsSound ==
    run_state # RUNNING =>
        /\ \A t \in Tasks : state[t] \in DoneStates
        /\ (run_state = SUCCESS) <=> (\A t \in Leaves : state[t] \in {SUCCESS, SKIPPED})

\* The file processor never changes the row of a task that is running.
RunningUndisturbed ==
    [][\A t \in Tasks : (state[t] = RUNNING /\ state'[t] # RUNNING)
          => t \notin working' \/ \E b \in Branches : t \in xcom'[b]]_vars

\* Every run ends.
RunEnds == <>[](run_state # RUNNING)

\* A task that a branch has skipped is not scheduled, as long as the branch has not
\* been run again, even if it is cleared: SkipMixin.skip stores the skipped tasks
\* "so that NotPreviouslySkippedDep knows these tasks should be skipped when they
\* are cleared".  Rules that do not wait for every parent are left out: they may be
\* met on a copy that is older than the branch's end.
SkippedIsNotRun ==
    [][\A b \in Branches : \A t \in xcom[b] :
          (/\ state[b] \in DoneStates
           /\ trigger_rule[t] \notin {"dummy", "one_success", "one_failed"}
           /\ state[t] # SCHEDULED)
          => state'[t] # SCHEDULED]_vars

\* A task instance that is new or cleared does not stay so: docs/dag-run.rst, "this forces
\* the task to re-run".
ClearedIsRerun == \A t \in Tasks : (state[t] = NONE) ~> (state[t] # NONE)
=============================================================================
