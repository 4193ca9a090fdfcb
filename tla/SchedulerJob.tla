---------------------------- MODULE SchedulerJob ----------------------------
(***************************************************************************)
(* The scheduler: the loop of airflow/jobs/scheduler_job.py and the        *)
(* processes it shares the task_instance table with.                       *)
(*                                                                         *)
(*  - The scheduler loop is one thread.  Each of its database transactions *)
(*    is an action; between two of them the other processes move.  The     *)
(*    dictionaries of the executor live in the memory of this thread.      *)
(*  - A DAG file processor (process_file) times out and completes the DAG  *)
(*    run and moves task instances to SCHEDULED.                           *)
(*  - An `airflow run' process (LocalTaskJob and the raw task below it)    *)
(*    checks the row under SELECT FOR UPDATE, sets it RUNNING, runs the    *)
(*    task and writes the outcome.                                         *)
(*                                                                         *)
(* A scheduler crash loses the executor's memory; the processes it had     *)
(* started live on.  Each DAG has one scheduled run, and its tasks do not  *)
(* depend on each other (dependencies are the subject of DagRun.tla).      *)
(* Processes that die while the task runs, and the zombie hunt that        *)
(* follows, are not part of this module.                                   *)
(***************************************************************************)
EXTENDS TaskInstance, BaseExecutor

CONSTANTS TIs,            \* task instances
          Dags,
          Parallelism,    \* core.parallelism; 0 means no limit
          DagOf,          \* the DAG (and its run) of a task instance
          TaskOf,         \* the task of a task instance
          PoolOf,         \* the pool of a task instance
          Retries,        \* the retries of a task instance, also its max_tries
          MaxRetries,     \* the largest of them
          Priority,       \* priority_weight
          Slots,          \* pool_slots of a task instance
          DagConcurrency, \* concurrency of each DAG
          TaskConcurrency,\* task_concurrency of each task (None: a large number)
          PoolSlots,      \* slots of each pool (-1 in the code: a large number)
          MaxTisPerQuery, \* max_tis_per_query; 0: everything in one chunk
          Dummies,        \* task instances of DummyOperators
          Sensors,        \* task instances that may raise AirflowRescheduleException
          TimeoutDags,    \* DAGs with a dagrun_timeout
          MaxKills,       \* bound: processes killed before they run the task
          MaxCrashes,     \* bound: scheduler crashes
          MaxDbErrors,    \* bound: database errors in the queueing phase
          MaxFaults,      \* bound: kills, crashes and database errors together
          MaxReschedules  \* bound: reschedules requested by sensors

ASSUME RetriesAssumption == MaxRetries \in Nat /\ Retries \in [TIs -> 0..MaxRetries]
ASSUME DagAssumption == DagOf \in [TIs -> Dags]
ASSUME ParallelismAssumption == Parallelism \in Nat
ASSUME BoundsAssumption ==
    /\ MaxTisPerQuery \in Nat
    /\ MaxKills \in Nat /\ MaxCrashes \in Nat /\ MaxDbErrors \in Nat /\ MaxFaults \in Nat
    /\ MaxReschedules \in Nat
ASSUME LimitsAssumption ==
    /\ IsFiniteSet(TIs)
    /\ \A t \in TIs : /\ Slots[t] \in Nat /\ PoolSlots[PoolOf[t]] \in Nat
                     /\ DagConcurrency[DagOf[t]] \in Nat /\ TaskConcurrency[TaskOf[t]] \in Nat
ASSUME PriorityAssumption == Priority \in [TIs -> Int]

VARIABLES
  \* the database
    state,          \* state column of each task instance
    try,            \* _try_number column
    run_state,      \* state of the DAG run of each DAG
  \* the scheduler's memory, beside the executor's three dictionaries
    pc,             \* where the loop is
    parsed,         \* DAGs whose SimpleDag waits in the pipe of the agent
    bag,            \* dag_ids of this loop's simple_dag_bag
    chosen,         \* executable task instances not yet queued
    events,         \* events fetched from the executor, not yet handled
    failing,        \* the queued task instance being failed, with its snapshot
  \* the processes the executor has started
    proc,           \* stage of the process started for a key by an executor
    attempt,        \* _try_number in the memory of a process that works
    crashes,        \* number of crashes so far: names the current executor
    kills, dberrors, reschedules

dbVars == <<state, try, run_state>>
loopVars == <<pc, parsed, bag, chosen, events, failing>>
procVars == <<proc, attempt, crashes>>
faultVars == <<kills, dberrors, reschedules>>
vars == <<dbVars, execVars, loopVars, procVars, faultVars>>

\* ti.key: the task instance and the number of the try.  A reschedule gives its
\* try back, which can take the number below 1.
TaskKeys == TIs \X ((1 - MaxReschedules)..(MaxRetries + 1))
KeyOf(t) == <<t, try_number(state[t], try[t])>>

\* The executor's keys are these keys.
ASSUME KeysAssumption ==
    /\ Keys = TaskKeys
    /\ KeyDag = [k \in Keys |-> DagOf[k[1]]]
    /\ KeyPriority = [k \in Keys |-> Priority[k[1]]]

\* One process for each key and executor: the code keeps a key in running until
\* the process of that executor has reported.
Procs == Keys \X (0..MaxCrashes)
Stages == {"absent", "started", "checked", "working", "exiting", "success", "failed"}
TIof(p) == p[1][1]

NoFailing == <<>>

TypeOK ==
    /\ state \in [TIs -> TaskStates \ {SHUTDOWN, UPSTREAM_FAILED, REMOVED}]
    /\ try \in [TIs -> (-MaxReschedules)..(MaxRetries + 1)]
    /\ run_state \in [Dags -> {RUNNING, SUCCESS, FAILED}]
    /\ ExecTypeOK
    /\ pc \in {"down", "reset", "harvest", "fail_retries", "unschedule", "find", "queue", "trigger", "sync",
               "leftover", "events", "handle"}
    /\ parsed \in SUBSET Dags
    /\ bag \in SUBSET Dags
    /\ chosen \in SUBSET TIs
    /\ events \in [Keys -> EventStates \cup {NoEvent}]
    /\ failing \in {NoFailing} \cup Keys
    /\ proc \in [Procs -> Stages]
    /\ attempt \in [Procs -> (-MaxReschedules)..(MaxRetries + 1)]
    /\ crashes \in 0..MaxCrashes
    /\ kills \in 0..MaxKills
    /\ dberrors \in 0..MaxDbErrors
    /\ reschedules \in 0..MaxReschedules

NoEvents == [k \in Keys |-> NoEvent]

Init ==
    /\ state = [t \in TIs |-> NONE]
    /\ try = [t \in TIs |-> 0]
    /\ run_state = [d \in Dags |-> RUNNING]
    /\ ExecInit
    /\ pc = "reset"
    /\ parsed = {}
    /\ bag = {}
    /\ chosen = {}
    /\ events = NoEvents
    /\ failing = NoFailing
    /\ proc = [p \in Procs |-> "absent"]
    /\ attempt = [p \in Procs |-> 0]
    /\ crashes = 0
    /\ kills = 0
    /\ dberrors = 0
    /\ reschedules = 0
-----------------------------------------------------------------------------
(* Helpers. *)

\* One more kill, crash or database error may happen.
FaultLeft == kills + crashes + dberrors < MaxFaults

\* A process between its SELECT FOR UPDATE and its commit holds the row.
Locked(t) == \E p \in Procs : TIof(p) = t /\ proc[p] = "checked"

\* Writes to state (or blocks while somebody holds one of the rows).
SetState(S, new) ==
    /\ \A t \in S : ~Locked(t)
    /\ state' = [t \in TIs |-> IF t \in S THEN new[t] ELSE state[t]]

InState(S) == { t \in TIs : state[t] \in S }

\* Pool.occupied_slots and DAG / task concurrency counts over a set of task
\* instances; a slot is a pair of a task instance and a number.
SlotsOf(S, pool) ==
    Cardinality(UNION { {t} \X (1..Slots[t]) : t \in { u \in S : PoolOf[u] = pool } })
OfDag(S, d) == Cardinality({ t \in S : DagOf[t] = d })
OfTask(S, task) == Cardinality({ t \in S : TaskOf[t] = task })
-----------------------------------------------------------------------------
(* The scheduler loop. *)

\* executor.start() and reset_state_for_orphaned_tasks: whatever is SCHEDULED or
\* QUEUED in a running DAG run and unknown to the new executor goes back to NONE.
reset_state_for_orphaned_tasks ==
    /\ pc = "reset"
    /\ pc' = "harvest"
    /\ SetState({ t \in InState({SCHEDULED, QUEUED}) :
                    run_state[DagOf[t]] = RUNNING /\ ~has_task(KeyOf(t)) },
                [t \in TIs |-> NONE])
    /\ UNCHANGED <<try, run_state, execVars, parsed, bag, chosen, events, failing,
                   procVars, faultVars>>

\* Mutant: a failed parse empties the pipe.
harvest_nothing ==
    /\ pc = "harvest"
    /\ bag' = {}
    /\ parsed' = {}
    /\ pc' = "trigger"
    /\ UNCHANGED <<dbVars, execVars, chosen, events, failing, procVars, faultVars>>

\* The loop takes what the DAG file processors have sent since the last time.
harvest ==
    /\ pc = "harvest"
    /\ bag' = parsed
    /\ parsed' = {}
    /\ pc' = IF parsed = {} THEN "trigger" ELSE "fail_retries"
    /\ UNCHANGED <<dbVars, execVars, chosen, events, failing, procVars, faultVars>>

\* _change_state_for_tis_without_dagrun(bag, old, new): task instances of the
\* harvested DAGs whose DAG run is not running.
change_state_for_tis_without_dagrun(old, new) ==
    /\ SetState({ t \in InState(old) : DagOf[t] \in bag /\ run_state[DagOf[t]] # RUNNING },
                [t \in TIs |-> new])
    /\ UNCHANGED <<try, run_state, execVars, parsed, bag, chosen, events, failing,
                   procVars, faultVars>>

\* _process_and_execute_tasks calls it twice.
fail_tis_without_dagrun ==
    /\ pc = "fail_retries"
    /\ pc' = "unschedule"
    /\ change_state_for_tis_without_dagrun({UP_FOR_RETRY}, FAILED)

unschedule_tis_without_dagrun ==
    /\ pc = "unschedule"
    /\ pc' = "find"
    /\ change_state_for_tis_without_dagrun({QUEUED, SCHEDULED, UP_FOR_RESCHEDULE}, NONE)

\* Mutant: the slots given out in this very pass are not counted.
admit_forgetting(t, before) ==
    LET busy == InState(STATES_TO_COUNT_AS_RUNNING)
    IN  /\ SlotsOf(busy, PoolOf[t]) + Slots[t] <= PoolSlots[PoolOf[t]]
        /\ OfDag(busy, DagOf[t]) < DagConcurrency[DagOf[t]]
        /\ OfTask(busy, TaskOf[t]) < TaskConcurrency[TaskOf[t]]
        /\ ~has_task(KeyOf(t))

\* Whether the loop of _find_executable_task_instances takes t when it has
\* already taken the task instances in before.
admit(t, before) ==
    LET busy == InState(STATES_TO_COUNT_AS_RUNNING) \cup before
    IN  /\ SlotsOf(busy, PoolOf[t]) < PoolSlots[PoolOf[t]]
        /\ OfDag(busy, DagOf[t]) < DagConcurrency[DagOf[t]]
        /\ OfTask(busy, TaskOf[t]) < TaskConcurrency[TaskOf[t]]
        /\ ~has_task(KeyOf(t))
        /\ SlotsOf(busy, PoolOf[t]) + Slots[t] <= PoolSlots[PoolOf[t]]

\* The orders in which the loop may look at the candidates: pool by pool, by
\* priority inside a pool; the order of the pools and of ties is the database's.
Orders(cand) ==
    { rank \in [cand -> 1..Cardinality(cand)] :
        \A t, u \in cand : t # u =>
            /\ rank[t] # rank[u]
            /\ (PoolOf[t] = PoolOf[u] /\ Priority[t] > Priority[u]) => rank[t] < rank[u]
            /\ \A v \in cand : (PoolOf[t] = PoolOf[v] /\ PoolOf[t] # PoolOf[u])
                                  => ((rank[t] < rank[u]) <=> (rank[v] < rank[u])) }

\* _find_executable_task_instances: the set taken is the one the greedy loop
\* takes in one of these orders.
find_executable_task_instances ==
    /\ pc = "find"
    /\ LET cand == { t \in InState({SCHEDULED}) : DagOf[t] \in bag }
       IN  \E rank \in Orders(cand), S \in SUBSET cand :
             /\ \A t \in cand :
                  (t \in S) <=> admit(t, { u \in S : rank[u] < rank[t] })
             /\ chosen' = S
    /\ pc' = IF chosen' = {} THEN "trigger" ELSE "queue"
    /\ UNCHANGED <<dbVars, execVars, parsed, bag, events, failing, procVars, faultVars>>

\* One chunk of _execute_task_instances: _change_state_for_executable_task_instances
\* commits QUEUED for those still SCHEDULED, then the executor is given their keys.
\* Nobody can see the executor's memory between the two.
execute_task_instances ==
    /\ pc = "queue"
    /\ \E chunk \in SUBSET chosen :
         LET Q == { t \in chunk : state[t] = SCHEDULED }
         IN  /\ chunk # {}
             /\ chunk = chosen \/ Cardinality(chunk) = MaxTisPerQuery
             /\ SetState(Q, [t \in TIs |-> QUEUED])
             /\ \A t \in chunk : ~Locked(t)
             /\ queue_commands({ KeyOf(t) : t \in Q })
             /\ chosen' = chosen \ chunk
    /\ pc' = IF chosen' = {} THEN "trigger" ELSE "queue"
    /\ UNCHANGED <<try, run_state, running, event_buffer, parsed, bag, events, failing,
                   procVars, faultVars>>

\* A database error anywhere in the phase above: the rest of the loop body is
\* skipped and the harvested DAGs are forgotten.
error_queuing_tasks ==
    /\ pc \in {"fail_retries", "unschedule", "find", "queue"}
    /\ dberrors < MaxDbErrors /\ FaultLeft
    /\ dberrors' = dberrors + 1
    /\ pc' = "harvest"
    /\ bag' = {}
    /\ chosen' = {}
    /\ UNCHANGED <<dbVars, execVars, parsed, events, failing, procVars,
                   kills, reschedules>>

\* executor.heartbeat(), first half: trigger_tasks starts processes.
executor_heartbeat ==
    /\ pc = "trigger"
    /\ pc' = "sync"
    /\ \E T \in SUBSET queued_tasks :
         /\ trigger_tasks(T, open_slots(Parallelism))
         /\ proc' = [p \in Procs |-> IF p[1] \in T /\ p[2] = crashes THEN "started" ELSE proc[p]]
    /\ UNCHANGED <<dbVars, parsed, bag, chosen, events, failing, attempt, crashes, faultVars>>

\* executor.heartbeat(), second half: sync sees the processes that have ended.
executor_sync ==
    /\ pc = "sync"
    /\ pc' = "leftover"
    /\ LET ended == { k \in Keys : proc[<<k, crashes>>] \in EventStates }
       IN  /\ change_states(ended, [k \in ended |-> proc[<<k, crashes>>]])
           /\ proc' = [p \in Procs |-> IF p[1] \in ended /\ p[2] = crashes THEN "absent"
                                                                          ELSE proc[p]]
    /\ UNCHANGED <<dbVars, parsed, bag, chosen, events, failing, attempt, crashes, faultVars>>

\* _change_state_for_tasks_failed_to_execute: what the heartbeat had no slot for
\* goes back to SCHEDULED.
change_state_for_tasks_failed_to_execute ==
    /\ pc = "leftover"
    /\ pc' = "events"
    /\ LET L == { t \in InState({QUEUED}) : KeyOf(t) \in queued_tasks }
       IN  /\ SetState(L, [t \in TIs |-> SCHEDULED])
           /\ queued_tasks' = queued_tasks \ { KeyOf(t) : t \in L }
    /\ UNCHANGED <<try, run_state, running, event_buffer, parsed, bag, chosen, events,
                   failing, procVars, faultVars>>

\* _process_executor_events: get_event_buffer for the DAGs of this loop.
get_event_buffer ==
    /\ pc = "events"
    /\ events' = [k \in Keys |-> IF k \in FlushedKeys(bag) THEN event_buffer[k] ELSE NoEvent]
    /\ flush_events(bag)
    /\ pc' = "handle"
    /\ UNCHANGED <<dbVars, queued_tasks, running, parsed, bag, chosen, failing, procVars,
                   faultVars>>

\* Mutant: the try number is not compared.
event_matches_any_try(k) == state[k[1]] = QUEUED

\* The event of k is taken for a kill: the row is still QUEUED for this very try.
event_matches(k) == KeyOf(k[1]) = k /\ state[k[1]] = QUEUED

\* One round of the loop over the events: read the row; if it is still QUEUED for
\* this try, start failing it (the DagBag is loaded before anything is written).
process_executor_event ==
    /\ pc = "handle"
    /\ failing = NoFailing
    /\ \E k \in Keys :
         /\ events[k] # NoEvent
         /\ events' = [events EXCEPT ![k] = NoEvent]
         /\ failing' = IF event_matches(k) THEN k ELSE NoFailing
    /\ UNCHANGED <<dbVars, execVars, pc, parsed, bag, chosen, procVars, faultVars>>

\* handle_failure writes the copy that was read, whatever the row is by now; if
\* the DagBag cannot be loaded the copy is just set to FAILED.
handle_event_failure(n) ==
    LET t == failing[1]
    IN  \E new \in {failure_state(QUEUED, n, Retries[t], Retries[t], FALSE), FAILED} :
          /\ SetState({t}, [u \in TIs |-> new])
          /\ try' = [try EXCEPT ![t] = n]

\* Mutant: the try number of the key is taken for the number of tries made, twice.
failing_try_less_one == failing[2] - 2

\* The _try_number of the copy.
failing_try == failing[2] - 1

handle_failure_of_event ==
    /\ pc = "handle"
    /\ failing # NoFailing
    /\ handle_event_failure(failing_try)
    /\ failing' = NoFailing
    /\ UNCHANGED <<run_state, execVars, pc, parsed, bag, chosen, events, procVars, faultVars>>

end_of_loop ==
    /\ pc = "handle"
    /\ failing = NoFailing
    /\ events = NoEvents
    /\ pc' = "harvest"
    /\ bag' = {}
    /\ UNCHANGED <<dbVars, execVars, parsed, chosen, events, failing, procVars, faultVars>>

\* The scheduler dies; nobody listens to the processes it has started any more.
crash ==
    /\ pc # "down"
    /\ crashes < MaxCrashes /\ FaultLeft
    /\ crashes' = crashes + 1
    /\ pc' = "down"
    /\ queued_tasks' = {}
    /\ running' = {}
    /\ event_buffer' = NoEvents
    /\ parsed' = {}
    /\ bag' = {}
    /\ chosen' = {}
    /\ events' = NoEvents
    /\ failing' = NoFailing
    /\ proc' = [p \in Procs |-> IF proc[p] \in EventStates THEN "absent" ELSE proc[p]]
    /\ UNCHANGED <<dbVars, attempt, faultVars>>

restart ==
    /\ pc = "down"
    /\ pc' = "reset"
    /\ UNCHANGED <<dbVars, execVars, parsed, bag, chosen, events, failing, procVars, faultVars>>
-----------------------------------------------------------------------------
(* The DAG file processor. *)

\* update_state for a run all of whose tasks are leaves.
update_state(d) ==
    LET S == { state[t] : t \in { u \in TIs : DagOf[u] = d } }
    IN  IF S \cap unfinished # {} THEN RUNNING
        ELSE IF FAILED \in S THEN FAILED ELSE SUCCESS

\* process_file for the file of d: create_dag_run fails a run past its timeout;
\* otherwise update_state finds the ready task instances (those waiting for a
\* retry or a reschedule are, if they are in due) and those still in a
\* schedulable state become SCHEDULED.  Then the SimpleDag is sent.
process_file(d, due) ==
    /\ pc \notin {"down", "reset"}
    /\ \/ /\ d \in TimeoutDags
          /\ run_state[d] = RUNNING
          /\ run_state' = [run_state EXCEPT ![d] = FAILED]
          /\ UNCHANGED state
       \/ /\ run_state[d] = RUNNING
          /\ run_state' = [run_state EXCEPT ![d] = update_state(d)]
          /\ LET mine == { t \in InState(SCHEDULEABLE_STATES) : DagOf[t] = d }
             IN  SetState({ t \in mine : state[t] \in {UP_FOR_RETRY, UP_FOR_RESCHEDULE} => t \in due },
                          [t \in TIs |-> IF t \in Dummies THEN SUCCESS ELSE SCHEDULED])
       \/ /\ run_state[d] # RUNNING
          /\ UNCHANGED <<run_state, state>>
    /\ parsed' = parsed \cup {d}
    /\ UNCHANGED <<try, execVars, pc, bag, chosen, events, failing, procVars, faultVars>>
-----------------------------------------------------------------------------
(* `airflow run' processes. *)

\* The stage of a process that has exited: after a crash nobody waits for it.
Exited(p, result) == IF p[2] = crashes THEN result ELSE "absent"

\* REQUEUEABLE_DEPS: DAG and task concurrency count RUNNING rows, the pool counts
\* QUEUED ones too, without the task instance's own slots.
RunningDeps(t) ==
    /\ OfDag(InState({RUNNING}), DagOf[t]) < DagConcurrency[DagOf[t]]
    /\ OfTask(InState({RUNNING}), TaskOf[t]) < TaskConcurrency[TaskOf[t]]
    /\ SlotsOf(InState(STATES_TO_COUNT_AS_RUNNING) \ {t}, PoolOf[t]) + Slots[t]
         <= PoolSlots[PoolOf[t]]

\* _check_and_change_state_before_execution up to the checks, with the row
\* locked: not runnable (or not due yet), over a limit, or all clear.
check_state_before_execution(p) ==
    LET t == TIof(p)
    IN  /\ proc[p] = "started"
        /\ ~Locked(t)
        /\ \/ /\ state[t] \notin RUNNABLE_STATES \/ state[t] \in {UP_FOR_RETRY, UP_FOR_RESCHEDULE}
              /\ proc' = [proc EXCEPT ![p] = Exited(p, "success")]
              /\ UNCHANGED state
           \/ /\ state[t] \in RUNNABLE_STATES
              /\ ~RunningDeps(t)
              /\ state' = [state EXCEPT ![t] = NONE]
              /\ proc' = [proc EXCEPT ![p] = Exited(p, "success")]
           \/ /\ state[t] \in RUNNABLE_STATES
              /\ RunningDeps(t)
              /\ proc' = [proc EXCEPT ![p] = "checked"]
              /\ UNCHANGED state
        /\ UNCHANGED <<try, run_state, execVars, loopVars, attempt, crashes, faultVars>>

\* The commit that makes it RUNNING.
change_state_before_execution(p) ==
    LET t == TIof(p)
    IN  /\ proc[p] = "checked"
        /\ state' = [state EXCEPT ![t] = RUNNING]
        /\ try' = [try EXCEPT ![t] = @ + 1]
        /\ proc' = [proc EXCEPT ![p] = "working"]
        /\ attempt' = [attempt EXCEPT ![p] = try[t] + 1]
        /\ UNCHANGED <<run_state, execVars, loopVars, crashes, faultVars>>

\* The raw task is done; LocalTaskJob above it sleeps in its heartbeat and does not
\* know yet, so the executor still has the key in running.
exit_task(p) ==
    /\ proc' = [proc EXCEPT ![p] = "exiting"]
    /\ attempt' = [attempt EXCEPT ![p] = 0]

\* _run_raw_task ends with a state and a _try_number for the row: it succeeds or
\* skips (whatever the row says by then); AirflowFailException; AirflowException,
\* which respects a row that somebody else has finished; or any other exception,
\* whose handle_failure writes the copy in the memory of the process.
run_raw_task(p) ==
    LET t == TIof(p)
    IN  /\ proc[p] = "working"
        /\ \E row \in
             { <<SUCCESS, try[t]>>, <<SKIPPED, try[t]>>, <<FAILED, try[t]>>,
               <<IF state[t] \in {SUCCESS, FAILED} THEN state[t]
                 ELSE failure_state(state[t], try[t], Retries[t], Retries[t], FALSE), try[t]>>,
               <<failure_state(RUNNING, attempt[p], Retries[t], Retries[t], FALSE), attempt[p]>> } :
             /\ SetState({t}, [u \in TIs |-> row[1]])
             /\ try' = [try EXCEPT ![t] = row[2]]
        /\ exit_task(p)
        /\ UNCHANGED <<run_state, execVars, loopVars, crashes, faultVars>>

\* _handle_reschedule: the try is given back, so the next attempt has the same key.
handle_reschedule(p) ==
    LET t == TIof(p)
    IN  /\ proc[p] = "working"
        /\ t \in Sensors
        /\ reschedules < MaxReschedules
        /\ reschedules' = reschedules + 1
        /\ SetState({t}, [u \in TIs |-> UP_FOR_RESCHEDULE])
        /\ try' = [try EXCEPT ![t] = @ - 1]
        /\ exit_task(p)
        /\ UNCHANGED <<run_state, execVars, loopVars, crashes, kills, dberrors>>

\* LocalTaskJob wakes up.  It finds the return code and exits with 0 whatever became of
\* the task; or, when the row is RUNNING again in another process, heartbeat_callback
\* finds the pid of that one and raises.
local_task_job_exits(p) ==
    /\ proc[p] = "exiting"
    /\ \/ proc' = [proc EXCEPT ![p] = Exited(p, "success")]
       \/ /\ state[TIof(p)] = RUNNING
          /\ proc' = [proc EXCEPT ![p] = Exited(p, "failed")]
    /\ UNCHANGED <<dbVars, execVars, loopVars, attempt, crashes, faultVars>>

\* The process is killed, or fails to import the DAG, before it sets RUNNING.
killed(p) ==
    /\ proc[p] \in {"started", "checked"}
    /\ kills < MaxKills /\ FaultLeft
    /\ kills' = kills + 1
    /\ proc' = [proc EXCEPT ![p] = Exited(p, "failed")]
    /\ UNCHANGED <<dbVars, execVars, loopVars, attempt, crashes, dberrors, reschedules>>
-----------------------------------------------------------------------------
LoopStep ==
    \/ reset_state_for_orphaned_tasks
    \/ harvest
    \/ fail_tis_without_dagrun
    \/ unschedule_tis_without_dagrun
    \/ find_executable_task_instances
    \/ execute_task_instances
    \/ executor_heartbeat
    \/ executor_sync
    \/ change_state_for_tasks_failed_to_execute
    \/ get_event_buffer
    \/ process_executor_event
    \/ handle_failure_of_event
    \/ end_of_loop
    \/ restart

ProcStep(p) ==
    \/ check_state_before_execution(p)
    \/ change_state_before_execution(p)
    \/ run_raw_task(p)
    \/ local_task_job_exits(p)

Next ==
    \/ LoopStep
    \/ error_queuing_tasks
    \/ crash
    \/ \E d \in Dags, due \in SUBSET InState({UP_FOR_RETRY, UP_FOR_RESCHEDULE}) : process_file(d, due)
    \/ \E p \in Procs : ProcStep(p) \/ handle_reschedule(p) \/ killed(p)

Spec == Init /\ [][Next]_vars

\* The scheduler keeps looping (and is restarted), every DAG file is parsed again
\* and again with retry and reschedule delays expiring, and processes go on.
Fairness ==
    /\ WF_vars(LoopStep)
    /\ \A d \in Dags : WF_vars(process_file(d, TIs))
    /\ WF_vars(\E p \in Procs : ProcStep(p))

FairSpec == Spec /\ Fairness
-----------------------------------------------------------------------------
(* Properties. *)

\* One process at a time executes a task instance: the lock and the check of
\* the state in _check_and_change_state_before_execution see to it.
SingleRunner ==
    \A p, q \in Procs :
        (proc[p] = "working" /\ proc[q] = "working" /\ TIof(p) = TIof(q)) => p = q

\* A task instance never starts more than retries + 1 attempts, and whatever may
\* still start has an attempt left, through retries, kills in the queue,
\* reschedules and crashes.
TriesBounded ==
    \A t \in TIs :
        /\ try[t] <= Retries[t] + 1
        /\ state[t] \notin finished \cup {RUNNING} => try[t] <= Retries[t]

\* No task instance is stuck in QUEUED: in a running DAG run it is queued in the
\* executor, run by it, or reported in an event not yet handled.
QueuedIsOwned ==
    pc \notin {"down", "reset"} =>
        \A t \in TIs : (state[t] = QUEUED /\ run_state[DagOf[t]] = RUNNING) =>
            \/ has_task(KeyOf(t))
            \/ event_buffer[KeyOf(t)] # NoEvent
            \/ events[KeyOf(t)] # NoEvent
            \/ failing = KeyOf(t)

\* The DAG concurrency, task concurrency and pool limits bound what is QUEUED or
\* RUNNING.
LimitsRespected ==
    LET busy == InState(STATES_TO_COUNT_AS_RUNNING)
    IN  \A t \in TIs :
          /\ OfDag(busy, DagOf[t]) <= DagConcurrency[DagOf[t]]
          /\ OfTask(busy, TaskOf[t]) <= TaskConcurrency[TaskOf[t]]
          /\ SlotsOf(busy, PoolOf[t]) <= PoolSlots[PoolOf[t]]

\* Neither a scheduler crash nor a reschedule has happened so far.
Calm == crashes = 0 /\ reschedules = 0

\* An attempt is failed as "killed externally" only when the executor is through with
\* it: the key of the row is neither queued nor running nor reported again (that of an
\* earlier attempt may still be running, its LocalTaskJob being about to exit).  Two
\* processes have one key after a reschedule, or when a row that a crash has put over
\* a limit is put back and queued again; the code cannot tell their events apart.
EventIsCurrent ==
    (Calm /\ failing # NoFailing) =>
        /\ ~has_task(KeyOf(failing[1]))
        /\ event_buffer[KeyOf(failing[1])] = NoEvent

\* A finished task instance keeps its state (nobody clears or marks it here).
FinishedIsFinal == [][\A t \in TIs : state[t] \in finished => state'[t] = state[t]]_vars

\* Every DAG run comes to an end.
RunsEnd == \A d \in Dags : <>(run_state[d] # RUNNING)
=============================================================================
