----------------------------- MODULE BackfillJob -----------------------------
(***************************************************************************)
(* A BackfillJob (airflow/jobs/backfill_job.py): one process that loads    *)
(* the DAG runs of some dates, sends their task instances to its executor  *)
(* in topological order, and moves keys between the sets of its status     *)
(* (to_run, running, not_ready, succeeded, skipped, failed) until the      *)
(* first two are empty.                                                    *)
(*                                                                         *)
(*  - The job, the `airflow run' processes of its executor and users share *)
(*    the rows; the job reads them one by one.                             *)
(*  - A key is <<task instance, try number>>.  The status keeps the key a  *)
(*    task instance had when its run was loaded; the executor and its      *)
(*    events use the key it has when it is sent.                           *)
(*  - Every task has the rule all_success (the others are the subject of   *)
(*    DagRun).  Concurrency stands for the free pool slots too: both are   *)
(*    counted the same way and both end the pass over to_run.              *)
(*                                                                         *)
(* DagRun.update_state is one step here; DagRun shows what happens between *)
(* its reads and its write.                                                *)
(***************************************************************************)
EXTENDS TriggerRule, FiniteSets

CONSTANTS Tasks, Up,           \* the DAG: upstream_task_ids
          Rank,                \* the position of a task in topological_sort
          Dates,               \* the dates to run, as numbers
          retries,             \* of each task
          Concurrency,         \* dag.concurrency
          task_concurrency,    \* 0: none
          max_active_runs,
          DependsOnPast,       \* tasks with depends_on_past
          Skippers, Sensors,   \* tasks that may skip, or reschedule, themselves
          Clearable,           \* task instances that a user may clear
          InitialStates,       \* the states the rows may have at the start
          MaxRetries,          \* the most retries a task has
          MaxEvents            \* bound: reschedules, kills, requeues, clears and interrupts

ASSUME DagAssumption ==
    /\ Up \in [Tasks -> SUBSET Tasks]
    /\ Rank \in [Tasks -> Nat]
    /\ \A t \in Tasks : \A u \in Up[t] : Rank[u] < Rank[t]
    /\ Dates \subseteq Nat
    /\ DependsOnPast \cup Skippers \cup Sensors \subseteq Tasks
    /\ Clearable \subseteq Tasks \X Dates
    /\ IsFiniteSet(Tasks)
    /\ InitialStates \subseteq [Tasks \X Dates -> TaskStates \ {REMOVED}]
ASSUME LimitsAssumption ==
    /\ retries \in [Tasks -> 0..MaxRetries] /\ MaxRetries \in Nat
    /\ Concurrency \in Nat \ {0} /\ max_active_runs \in Nat \ {0}
    /\ task_concurrency \in [Tasks -> Nat]
    /\ MaxEvents \in Nat

TIs == Tasks \X Dates

VARIABLES
    rerun_failed_tasks,   \* an option of the job; fixed
  \* the rows of task instances and runs
    state, try, max_tries, run_state,
  \* the executor: what it does for each key
    attempt,
  \* the job: its place in the loop, the keys and runs that the present pass has
  \* yet to look at, and the copy of a row it works with
    step, todo, todo_runs, cur,
  \* its status
    to_run, running, not_ready, succeeded, skipped, failed, deadlocked,
    active_runs, executed,
  \* environment: events so far, and what a clear has touched
    events, cleared

rowVars == <<state, try, max_tries>>
doneVars == <<succeeded, skipped, failed>>
statusVars == <<to_run, running, not_ready, doneVars, deadlocked, active_runs, executed>>
envVars == <<rerun_failed_tasks, events, cleared>>
vars == <<rowVars, run_state, attempt, step, todo, todo_runs, cur, statusVars, envVars>>

MaxTry == (MaxRetries + 1) * (MaxEvents + 1)
Keys == TIs \X (1..MaxTry)
DoneStates == finished \cup {UPSTREAM_FAILED}
BACKFILL_QUEUEABLE_STATES == {NONE, UP_FOR_RESCHEDULE, UP_FOR_RETRY, SCHEDULED}
KeyOf(ti) == <<ti, try_number(state[ti], try[ti])>>
NoCopy == [key |-> <<>>, state |-> NONE, try |-> 0]
Row(ti) == [key |-> KeyOf(ti), state |-> state[ti], try |-> try[ti]]

TypeOK ==
    /\ rerun_failed_tasks \in BOOLEAN
    /\ state \in [TIs -> TaskStates \ {REMOVED}]
    /\ try \in [TIs -> 0..MaxTry] /\ max_tries \in [TIs -> Nat]
    /\ run_state \in [Dates -> {"absent", RUNNING, SUCCESS, FAILED}]
    /\ attempt \in [Keys -> {"none", "queued", "sent", "working", "exiting"}]
    /\ step \in {"dates", "process", "queue", "manage", "fail", "runs", "collect",
                 "interrupted", "done", "raised"}
    /\ todo \in SUBSET Keys /\ todo_runs \in SUBSET Dates
    /\ \A S \in {to_run, running, not_ready, succeeded, skipped, failed, deadlocked} : S \subseteq Keys
    /\ active_runs \in SUBSET Dates /\ executed \in SUBSET Dates
    /\ events \in 0..MaxEvents
    /\ cleared \in SUBSET TIs

Init ==
    /\ rerun_failed_tasks \in BOOLEAN
    /\ state \in InitialStates
    /\ try = [ti \in TIs |-> 0] /\ max_tries = [ti \in TIs |-> retries[ti[1]]]
    /\ run_state = [d \in Dates |-> "absent"]
    /\ attempt = [k \in Keys |-> "none"]
    /\ step = "dates" /\ todo = {} /\ todo_runs = Dates /\ cur = NoCopy
    /\ to_run = {} /\ running = {} /\ not_ready = {}
    /\ succeeded = {} /\ skipped = {} /\ failed = {} /\ deadlocked = {}
    /\ active_runs = {} /\ executed = {}
    /\ events = 0 /\ cleared = {}
-----------------------------------------------------------------------------
(* Dependencies of a task instance, evaluated on the rows as they are. *)

upstream_counts(ti) ==
    LET count(S) == Cardinality({ u \in Up[ti[1]] : state[<<u, ti[2]>>] \in S })
    IN  [success |-> count({SUCCESS}), skipped |-> count({SKIPPED}), failed |-> count({FAILED}),
         upstream_failed |-> count({UPSTREAM_FAILED}), done |-> count(DoneStates),
         n |-> Cardinality(Up[ti[1]])]

\* The state TriggerRuleDep gives the row, or NoFlag.
flag(ti) == IF Up[ti[1]] = {} THEN NoFlag ELSE flagged_state("all_success", upstream_counts(ti))

flagged(S) == { ti \in S : flag(ti) \notin {NoFlag, state[ti]} }

\* PrevDagrunDep: the same task at the date before.
past_met(ti) ==
    \/ ti[1] \notin DependsOnPast
    \/ \A d \in Dates : d < ti[2] =>
         \/ \E e \in Dates : d < e /\ e < ti[2]
         \/ state[<<ti[1], d>>] \in {SUCCESS, SKIPPED}

\* The dependencies every task has; due: retry and reschedule delays have passed.
task_deps_met(ti, due) ==
    /\ rule_met("all_success", upstream_counts(ti))
    /\ past_met(ti)
    /\ state[ti] \in {UP_FOR_RETRY, UP_FOR_RESCHEDULE} => due

\* BACKFILL_QUEUED_DEPS with the task's own.
dependencies_met(ti, due) ==
    /\ state[ti] \in BACKFILL_QUEUEABLE_STATES
    /\ run_state[ti[2]] = RUNNING
    /\ task_deps_met(ti, due)
-----------------------------------------------------------------------------
(* Loading the runs. *)

InStates(S, T) == { ti \in T : state[ti] \in S }
AtDate(d) == { ti \in TIs : ti[2] = d }
has_task(k) == attempt[k] # "none"

\* _get_dag_run: the run of d may be active now.
may_run(d) ==
    \/ run_state[d] = RUNNING
    \/ Cardinality({ e \in Dates : run_state[e] = RUNNING }) < max_active_runs

\* Mutant: everything is run again.
Blank_all(d) == AtDate(d)

\* The task instances that are SCHEDULED when their run is loaded: those without a
\* state, and the orphans that reset_state_for_orphaned_tasks leaves without one.
Blank(d) ==
    InStates({NONE}, AtDate(d))
    \cup { ti \in AtDate(d) : state[ti] \in {SCHEDULED, QUEUED} /\ ~has_task(KeyOf(ti)) }

\* _get_dag_run and _task_instances_for_dag_run for the next date: orphans are
\* reset, and what has no state is SCHEDULED.
load_run(d) ==
    /\ step = "dates"
    /\ d \in todo_runs /\ \A e \in todo_runs : d <= e
    /\ todo_runs' = todo_runs \ {d}
    /\ IF may_run(d)
         THEN /\ run_state' = [run_state EXCEPT ![d] = RUNNING]
              /\ state' = [ti \in TIs |-> IF ti \in Blank(d) THEN SCHEDULED ELSE state[ti]]
              /\ to_run' = to_run \cup { KeyOf(ti) : ti \in AtDate(d) }
              /\ active_runs' = active_runs \cup {d}
         ELSE UNCHANGED <<run_state, state, to_run, active_runs>>
    /\ UNCHANGED <<try, max_tries, attempt, step, todo, cur, running, not_ready, doneVars, deadlocked,
                   executed, envVars>>

\* The head of the loop in _process_backfill_task_instances.
loop ==
    /\ step \in {"dates", "runs"} /\ todo_runs = {}
    /\ IF to_run \cup running # {} /\ deadlocked = {}
         THEN step' = "process" /\ todo' = to_run /\ not_ready' = {}
         ELSE step' = "collect" /\ UNCHANGED <<todo, not_ready>>
    /\ UNCHANGED <<rowVars, run_state, attempt, todo_runs, cur, to_run, running, doneVars, deadlocked,
                   active_runs, executed, envVars>>
-----------------------------------------------------------------------------
(* The pass over to_run. *)

Next_in_order(k) == k \in todo /\ \A l \in todo : Rank[k[1][1]] <= Rank[l[1][1]]

limit_reached(t) ==
    LET counted == InStates(STATES_TO_COUNT_AS_RUNNING, TIs)
    IN  \/ Cardinality(counted) >= Concurrency
        \/ /\ task_concurrency[t] # 0
           /\ Cardinality({ ti \in counted : ti[1] = t }) >= task_concurrency[t]

\* A limit is reached: the rest of the pass is given up.
concurrency_limit(k) ==
    /\ step = "process" /\ Next_in_order(k)
    /\ limit_reached(k[1][1])
    /\ todo' = {}
    /\ UNCHANGED <<rowVars, run_state, attempt, step, todo_runs, cur, statusVars, envVars>>

\* The first half of _per_task_process: what the row says already.
per_task_process(k) ==
    LET ti == k[1]
        rerun == rerun_failed_tasks /\ state[ti] \in {FAILED, UPSTREAM_FAILED}
        bad == state[ti] \in {FAILED, UPSTREAM_FAILED} /\ ~rerun_failed_tasks
    IN  /\ step = "process" /\ Next_in_order(k)
        /\ ~limit_reached(ti[1])
        /\ succeeded' = IF state[ti] = SUCCESS THEN succeeded \cup {k} ELSE succeeded
        /\ skipped' = IF state[ti] = SKIPPED THEN skipped \cup {k} ELSE skipped
        /\ failed' = IF bad THEN failed \cup {k} ELSE failed
        /\ state' = IF state[ti] = NONE \/ rerun THEN [state EXCEPT ![ti] = SCHEDULED] ELSE state
        /\ IF bad \/ state[ti] \in {SUCCESS, SKIPPED}
             THEN /\ to_run' = to_run \ {k}
                  /\ todo' = todo \ {k}
                  /\ UNCHANGED <<step, cur>>
             ELSE /\ step' = "queue"
                  /\ cur' = [NoCopy EXCEPT !.key = k]
                  /\ UNCHANGED <<to_run, todo>>
        /\ running' = running \ (IF bad \/ rerun \/ state[ti] \in {SUCCESS, SKIPPED} THEN {k} ELSE {})
        /\ UNCHANGED <<try, max_tries, run_state, attempt, todo_runs, not_ready, deadlocked, active_runs,
                       executed, envVars>>

\* The second half, with the row locked: send it to the executor if its
\* dependencies are met, else see what the evaluation has left in the row.
queue_task_instance(due) ==
    LET k == cur.key
        ti == k[1]
        key == KeyOf(ti)
        met == dependencies_met(ti, due)
        new == IF flagged({ti}) # {} THEN flag(ti) ELSE state[ti]
    IN  /\ step = "queue"
        /\ step' = "process" /\ todo' = todo \ {k} /\ cur' = NoCopy
        /\ IF met /\ ~has_task(key)
             THEN /\ state' = [state EXCEPT ![ti] = QUEUED]
                  /\ attempt' = [attempt EXCEPT ![key] = "queued"]
                  /\ running' = running \cup {k}
                  /\ to_run' = to_run \ {k}
                  /\ UNCHANGED <<failed, not_ready>>
             ELSE /\ state' = [state EXCEPT ![ti] = new]
                  /\ UNCHANGED attempt
                  /\ failed' = IF ~met /\ new = UPSTREAM_FAILED THEN failed \cup {k} ELSE failed
                  /\ to_run' = IF ~met /\ new = UPSTREAM_FAILED THEN to_run \ {k} ELSE to_run
                  /\ running' = IF ~met /\ new \in {UPSTREAM_FAILED, UP_FOR_RETRY, UP_FOR_RESCHEDULE}
                                  THEN running \ {k} ELSE running
                  /\ not_ready' = IF ~met /\ new \notin {UPSTREAM_FAILED, UP_FOR_RETRY, UP_FOR_RESCHEDULE}
                                    THEN not_ready \cup {k} ELSE not_ready
        /\ UNCHANGED <<try, max_tries, run_state, todo_runs, succeeded, skipped, deadlocked,
                       active_runs, executed, envVars>>

-----------------------------------------------------------------------------
(* The rest of the loop. *)

\* executor.heartbeat, which notices that the processes E are gone; the deadlock check;
\* and the flush of the event buffer that _manage_executor_state begins with.
heartbeat(E) ==
    LET stuck == not_ready # {} /\ not_ready = to_run /\ running = {}
    IN  /\ step = "process" /\ todo = {}
        /\ attempt' = [k \in Keys |-> CASE attempt[k] = "queued" -> "sent"
                                        [] k \in E -> "none"
                                        [] OTHER -> attempt[k]]
        /\ todo' = E
        /\ deadlocked' = IF stuck THEN to_run ELSE deadlocked
        /\ to_run' = IF stuck THEN {} ELSE to_run
        /\ step' = "manage"
        /\ UNCHANGED <<rowVars, run_state, todo_runs, cur, running, not_ready, doneVars, active_runs, executed,
                       envVars>>

\* Mutant: only RUNNING rows are looked after.
manage_event_running(k) ==
    /\ step = "manage" /\ k \in todo
    /\ todo' = todo \ {k}
    /\ IF k \in running /\ state[k[1]] = RUNNING
         THEN step' = "fail" /\ cur' = [Row(k[1]) EXCEPT !.key = k]
         ELSE UNCHANGED <<step, cur>>
    /\ UNCHANGED <<rowVars, run_state, attempt, todo_runs, statusVars, envVars>>

\* _manage_executor_state reads the row of one event.
manage_event(k) ==
    /\ step = "manage" /\ k \in todo
    /\ todo' = todo \ {k}
    /\ IF k \in running /\ state[k[1]] \in {RUNNING, QUEUED}
         THEN step' = "fail" /\ cur' = [Row(k[1]) EXCEPT !.key = k]
         ELSE UNCHANGED <<step, cur>>
    /\ UNCHANGED <<rowVars, run_state, attempt, todo_runs, statusVars, envVars>>

\* handle_failure writes the copy back.
handle_failure ==
    LET ti == cur.key[1]
    IN  /\ step = "fail"
        /\ state' = [state EXCEPT ![ti] =
                       failure_state(cur.state, cur.try, retries[ti[1]], max_tries[ti], FALSE)]
        /\ try' = [try EXCEPT ![ti] = cur.try]
        /\ step' = "manage" /\ cur' = NoCopy
        /\ UNCHANGED <<max_tries, run_state, attempt, todo, todo_runs, statusVars, envVars>>

\* Mutant: a task instance set to NONE is taken out of running and forgotten.
again_if_retried == {UP_FOR_RETRY, UP_FOR_RESCHEDULE}

\* The states in which a task instance of running goes back to to_run.
again == {UP_FOR_RETRY, UP_FOR_RESCHEDULE, NONE}

\* _update_counters: each key of running is looked up once; then it is the turn of
\* the active runs.
update_counters ==
    LET In(S) == { k \in running : state[k[1]] \in S }
    IN  /\ step = "manage" /\ todo = {}
        /\ step' = "runs" /\ todo_runs' = active_runs
        /\ succeeded' = succeeded \cup In({SUCCESS})
        /\ skipped' = skipped \cup In({SKIPPED})
        /\ failed' = failed \cup In({FAILED})
        /\ to_run' = to_run \cup In(again)
        /\ running' = running \ In(finished \cup {UP_FOR_RETRY, UP_FOR_RESCHEDULE, NONE})
        /\ state' = [ti \in TIs |-> IF ti \in { k[1] : k \in In({NONE}) } THEN SCHEDULED ELSE state[ti]]
        /\ UNCHANGED <<try, max_tries, run_state, attempt, todo, cur, not_ready, deadlocked,
                       active_runs, executed, envVars>>

\* DagRun.update_state: the flags it leaves in the rows and the state it gives the run.
\* ready: what is found ready; F: the others that _are_premature_tis flags before it
\* finds a task instance whose dependencies are met; undecided: what a run that goes on gets.
update_state(d, ready, F, undecided) ==
    LET tis == AtDate(d)
        undone == InStates(unfinished, tis)
        schedulable == InStates(SCHEDULEABLE_STATES, undone)
        leaves == { ti \in tis : \A t \in Tasks : ti[1] \notin Up[t] }
        verdictable == \A ti \in undone : ti[1] \notin DependsOnPast /\ task_concurrency[ti[1]] = 0
        look == undone # {} /\ ready = {} /\ verdictable
        premature == \E ti \in undone : task_deps_met(ti, TRUE)
        flags == flagged(schedulable) \cup (IF look THEN F ELSE {})
        verdict == CASE undone = {} /\ InStates({FAILED, UPSTREAM_FAILED}, leaves) # {} -> FAILED
                     [] undone = {} /\ InStates({SUCCESS, SKIPPED}, leaves) = leaves -> SUCCESS
                     [] look /\ ~premature /\ flagged(schedulable) = {} -> FAILED
                     [] OTHER -> undecided
    IN  /\ ready \subseteq { ti \in schedulable : task_deps_met(ti, TRUE) }
        /\ { ti \in schedulable : task_deps_met(ti, FALSE) } \subseteq ready
        /\ F \subseteq flagged(undone)
        /\ IF look THEN premature \/ F = flagged(undone) ELSE F = {}
        /\ state' = [ti \in TIs |-> IF ti \in flags THEN flag(ti) ELSE state[ti]]
        /\ run_state' = [run_state EXCEPT ![d] = verdict]

\* The end of an iteration: each active run is updated, and leaves when it has ended.
update_run(d) ==
    /\ step = "runs" /\ d \in todo_runs
    /\ todo_runs' = todo_runs \ {d}
    /\ \E ready \in SUBSET InStates(SCHEDULEABLE_STATES, AtDate(d)), F \in SUBSET flagged(AtDate(d)) :
         update_state(d, ready, F, RUNNING)
    /\ active_runs' = IF run_state'[d] \in finished THEN active_runs \ {d} ELSE active_runs
    /\ executed' = IF run_state'[d] \in finished THEN executed \cup {d} ELSE executed
    /\ UNCHANGED <<try, max_tries, attempt, step, todo, cur, to_run, running, not_ready, doneVars,
                   deadlocked, envVars>>

\* Mutant: errors count only while dates remain.
collect_errors_late ==
    /\ step = "collect"
    /\ step' = CASE executed = Dates -> "done"
                 [] executed # Dates /\ failed \cup deadlocked # {} -> "raised"
                 [] OTHER -> "dates"
    /\ todo_runs' = IF step' = "dates" THEN Dates \ executed ELSE {}
    /\ UNCHANGED <<rowVars, run_state, attempt, todo, cur, statusVars, envVars>>

\* The end of one round of _execute: errors are raised; dates that have not been
\* executed are loaded again.
collect_errors ==
    /\ step = "collect"
    /\ step' = CASE failed \cup deadlocked # {} -> "raised"
                 [] failed \cup deadlocked = {} /\ executed = Dates -> "done"
                 [] OTHER -> "dates"
    /\ todo_runs' = IF step' = "dates" THEN Dates \ executed ELSE {}
    /\ UNCHANGED <<rowVars, run_state, attempt, todo, cur, statusVars, envVars>>

\* _set_unfinished_dag_runs_to_failed, after a KeyboardInterrupt, for one run.
set_unfinished_dag_run_to_failed(d) ==
    /\ step = "interrupted" /\ d \in todo_runs
    /\ todo_runs' = todo_runs \ {d}
    /\ \E ready \in SUBSET InStates(SCHEDULEABLE_STATES, AtDate(d)), F \in SUBSET flagged(AtDate(d)) :
         update_state(d, ready, F, FAILED)
    /\ UNCHANGED <<try, max_tries, attempt, step, todo, cur, statusVars, envVars>>
-----------------------------------------------------------------------------
(* The processes of the executor. *)

\* `airflow run': the row is runnable, and the attempt begins.
start(k) ==
    /\ attempt[k] = "sent"
    /\ state[k[1]] \in RUNNABLE_STATES
    /\ state' = [state EXCEPT ![k[1]] = RUNNING]
    /\ try' = [try EXCEPT ![k[1]] = @ + 1]
    /\ attempt' = [attempt EXCEPT ![k] = "working"]
    /\ UNCHANGED <<max_tries, run_state, step, todo, todo_runs, cur, statusVars, envVars>>

\* The row is not runnable, or its retry is not due.
not_started(k) ==
    /\ attempt[k] = "sent"
    /\ state[k[1]] \notin {NONE, QUEUED}
    /\ attempt' = [attempt EXCEPT ![k] = "exiting"]
    /\ UNCHANGED <<rowVars, run_state, step, todo, todo_runs, cur, statusVars, envVars>>

\* The task ends: with success or a skip, or with a failure, which respects a row
\* that has been finished.
finish(k) ==
    LET ti == k[1]
        Failed == IF state[ti] \in {SUCCESS, FAILED} THEN state[ti]
                  ELSE failure_state(state[ti], try[ti], retries[ti[1]], max_tries[ti], FALSE)
        Outcomes == {SUCCESS, Failed} \cup (IF ti[1] \in Skippers THEN {SKIPPED} ELSE {})
    IN  /\ attempt[k] = "working"
        /\ attempt' = [attempt EXCEPT ![k] = "exiting"]
        /\ \E s \in Outcomes : state' = [state EXCEPT ![ti] = s]
        /\ UNCHANGED <<try, max_tries, run_state, step, todo, todo_runs, cur, statusVars, envVars>>

-----------------------------------------------------------------------------
(* What else can happen. *)

Event ==
    /\ events < MaxEvents
    /\ events' = events + 1
    /\ step \notin {"interrupted", "done", "raised"}
    /\ UNCHANGED rerun_failed_tasks

\* A sensor reschedules itself, and gives its try back.
reschedule(k) ==
    /\ Event
    /\ attempt[k] = "working" /\ k[1][1] \in Sensors
    /\ attempt' = [attempt EXCEPT ![k] = "exiting"]
    /\ state' = [state EXCEPT ![k[1]] = UP_FOR_RESCHEDULE]
    /\ try' = [try EXCEPT ![k[1]] = @ - 1]
    /\ UNCHANGED <<max_tries, run_state, step, todo, todo_runs, cur, statusVars, cleared>>

\* The process is killed; the row keeps its state.
killed(k) ==
    /\ Event
    /\ attempt[k] \in {"sent", "working"}
    /\ attempt' = [attempt EXCEPT ![k] = "exiting"]
    /\ UNCHANGED <<rowVars, run_state, step, todo, todo_runs, cur, statusVars, cleared>>

\* `airflow run' finds the limits reached (by other jobs): the row is set to NONE.
requeue(k) ==
    /\ Event
    /\ attempt[k] = "sent"
    /\ state[k[1]] \in RUNNABLE_STATES
    /\ state' = [state EXCEPT ![k[1]] = NONE]
    /\ attempt' = [attempt EXCEPT ![k] = "exiting"]
    /\ UNCHANGED <<try, max_tries, run_state, step, todo, todo_runs, cur, statusVars, cleared>>

\* A user clears a task instance that has ended.
clear(ti) ==
    /\ Event
    /\ state[ti] \in DoneStates /\ run_state[ti[2]] # "absent"
    /\ state' = [state EXCEPT ![ti] = NONE]
    /\ max_tries' = [max_tries EXCEPT ![ti] = try[ti] + retries[ti[1]]]
    /\ run_state' = [run_state EXCEPT ![ti[2]] = RUNNING]
    /\ cleared' = cleared \cup {ti}
    /\ UNCHANGED <<try, attempt, step, todo, todo_runs, cur, statusVars>>

\* KeyboardInterrupt, in the loop.
interrupt ==
    /\ Event
    /\ step' = "interrupted" /\ todo' = {} /\ todo_runs' = active_runs /\ cur' = NoCopy
    /\ UNCHANGED <<rowVars, run_state, attempt, statusVars, cleared>>
-----------------------------------------------------------------------------
Exiting == { k \in Keys : attempt[k] = "exiting" }

JobStep ==
    \/ \E d \in Dates : load_run(d) \/ update_run(d) \/ set_unfinished_dag_run_to_failed(d)
    \/ loop \/ handle_failure \/ update_counters \/ collect_errors
    \/ \E k \in Keys : concurrency_limit(k) \/ per_task_process(k) \/ manage_event(k)
    \/ \E E \in SUBSET Exiting : heartbeat(E)
    \/ \E due \in BOOLEAN : queue_task_instance(due)

ProcessStep(k) == start(k) \/ not_started(k) \/ finish(k)

Next ==
    \/ JobStep
    \/ \E k \in Keys : ProcessStep(k) \/ reschedule(k) \/ killed(k) \/ requeue(k)
    \/ \E ti \in Clearable : clear(ti)
    \/ interrupt

Spec == Init /\ [][Next]_vars

\* The job goes on, processes start and end, the executor notices their end, and
\* delays pass, so that what can be sent is sent.  (There are finitely many attempts,
\* so none of them can be kept back by the others.)
Fairness ==
    /\ WF_vars(JobStep)
    /\ WF_vars(\E k \in Keys : ProcessStep(k))
    /\ SF_vars(Exiting # {} /\ heartbeat(Exiting))
    /\ SF_vars(queue_task_instance(TRUE) /\ attempt' # attempt)

FairSpec == Spec /\ Fairness
-----------------------------------------------------------------------------
(* Properties. *)

TisOf(S) == { k[1] : k \in S }

\* No task instance falls out of the backfill (_update_counters: "otherwise those tasks
\* would fall outside of the scope of the backfill suddenly"): each one of a run
\* that has been loaded is waiting or sent, but not both, or has been counted.
Accounted ==
    /\ TisOf(to_run) \cap TisOf(running) = {}
    /\ \A d \in active_runs \cup executed : AtDate(d) \subseteq
         TisOf(to_run \cup running \cup succeeded \cup skipped \cup failed \cup deadlocked)

\* With two retries a late event of the first attempt fails the second, which goes on while
\* the third is sent; which of the two ends last decides what the row says.
FewRetries == \A t \in Tasks : retries[t] <= 1

\* t and the tasks it depends on, directly or through others.
Ancestors(t) ==
    { u \in Tasks : \A C \in SUBSET Tasks : (t \in C /\ \A v \in C : Up[v] \subseteq C) => u \in C }

\* Nobody has cleared the task instance or one it depends on.
Untouched(ti) == \A u \in Ancestors(ti[1]) : <<u, ti[2]>> \notin cleared

\* A backfill that says it is done has run everything: unless a user has cleared it or
\* something before it, every task instance has succeeded or was skipped.
DoneMeansDone ==
    (step = "done" /\ FewRetries)
        => \A ti \in TIs : Untouched(ti) => state[ti] \in {SUCCESS, SKIPPED}

\* What has succeeded is not sent again, although its run may be loaded again, unless it
\* or something before it is cleared.
SucceededNotRerun ==
    [][\A k \in Keys :
          (attempt[k] = "none" /\ attempt'[k] = "queued" /\ Untouched(k[1]) /\ FewRetries)
          => k[1] \notin TisOf(succeeded)]_vars

Ended == step \in {"done", "raised"} \/ (step = "interrupted" /\ todo_runs = {})

\* The process of a retry has been killed: the executor reports it under a key that
\* running does not have.
RetryLost ==
    \E k \in running : /\ state[k[1]] \in {QUEUED, RUNNING}
                       /\ k # KeyOf(k[1])
                       /\ \A n \in 1..MaxTry : attempt[<<k[1], n>>] = "none"

\* The backfill ends, through failures, retries, reschedules, killed processes and
\* limits, unless the process of a retry is killed (_manage_executor_state does not
\* find its key, and nothing else looks at it) or a user clears what it waits for.
BackfillEnds == <>(Ended \/ RetryLost \/ cleared # {})

\* What is declared deadlocked has not ended (backfill_job.py: "the set of tasks that
\* aren't ready").
DeadlockIsReal == \A k \in deadlocked : state[k[1]] \notin DoneStates
=============================================================================
