---------------------------- MODULE TaskExecution ----------------------------
(***************************************************************************)
(* One task instance from the moment it is queued: the `airflow run'       *)
(* processes that execute it (LocalTaskJob, which heartbeats, and the raw  *)
(* task it forks), and the zombie hunt of the scheduler, which fails the   *)
(* task instances whose job has stopped heartbeating.                      *)
(*                                                                         *)
(*  - A LocalTaskJob and its raw task are two processes.  The job watches  *)
(*    the row and kills the raw task when the row is no longer its own;    *)
(*    the raw task writes the outcome to the row.                          *)
(*  - DagFileProcessorManager takes a snapshot of the zombies from time to *)
(*    time and hands it to every file processor it starts until the next   *)
(*    one; the processor applies it at its end, without reading the row.   *)
(*  - Jobs, raw tasks and whole nodes are killed, heartbeats are late, and *)
(*    users clear the task instance.                                       *)
(*                                                                         *)
(* The way of the row to QUEUED is the subject of SchedulerJob; here it is *)
(* one step.  A job is identified by its number, which stands for job_id   *)
(* and pid: both are written together.  The heartbeat of a job merges the  *)
(* job object of the process into the job row (a merge of a transient      *)
(* object writes, it does not read), so the SHUTDOWN that a clear leaves   *)
(* in the job row is overwritten and BaseJob.kill is never reached.        *)
(***************************************************************************)
EXTENDS TaskInstance, FiniteSets

CONSTANTS MaxJobs,    \* bound: `airflow run' processes
          Retries,    \* retries of the task
          MaxKills,   \* bound: processes or nodes killed, jobs sent SIGTERM
          MaxMisses,  \* bound: heartbeats of a live job that come too late
          MaxClears,  \* bound: how often a user clears
          MaxEvents   \* bound: kills, late heartbeats and clears together

ASSUME BoundsAssumption ==
    /\ MaxJobs \in Nat /\ Retries \in Nat
    /\ MaxKills \in Nat /\ MaxMisses \in Nat /\ MaxClears \in Nat /\ MaxEvents \in Nat

VARIABLES
  \* the row of the task instance
    state, try, max_tries, job_id,
  \* the LocalTaskJobs: where each process is, and its row in the job table
    stage, job_state, fresh,
  \* their raw tasks, and the copy of the row each has read
    raw, copy,
  \* the snapshot of the manager, and the one a file processor works with (the
  \* try numbers of the RUNNING rows found)
    zombies, in_hand,
    kills, misses, clears

rowVars == <<state, try, max_tries, job_id>>
jobVars == <<stage, job_state, fresh>>
rawVars == <<raw, copy>>
huntVars == <<zombies, in_hand>>
faultVars == <<kills, misses, clears>>
vars == <<rowVars, jobVars, rawVars, huntVars, faultVars>>

Jobs == 1..MaxJobs
Copies == [state : TaskStates, try : Nat, max_tries : Nat]
NoCopy == [state |-> NONE, try |-> 0, max_tries |-> 0]

TypeOK ==
    /\ state \in {NONE, QUEUED, RUNNING, SHUTDOWN, UP_FOR_RETRY} \cup finished
    /\ try \in Nat /\ max_tries \in Nat /\ job_id \in Jobs \cup {0}
    /\ stage \in [Jobs -> {"absent", "launched", "loop", "terminating", "raising", "gone"}]
    /\ job_state \in [Jobs -> {NONE, RUNNING, SUCCESS, FAILED, SHUTDOWN}]
    /\ fresh \in [Jobs -> BOOLEAN]
    /\ raw \in [Jobs -> {"none", "forked", "working", "sigterm", "ended"}]
    /\ copy \in [Jobs -> Copies]
    /\ zombies \in SUBSET Nat /\ in_hand \in SUBSET Nat
    /\ kills \in 0..MaxKills /\ misses \in 0..MaxMisses /\ clears \in 0..MaxClears

Init ==
    /\ state = NONE /\ try = 0 /\ max_tries = Retries /\ job_id = 0
    /\ stage = [j \in Jobs |-> "absent"]
    /\ job_state = [j \in Jobs |-> NONE]
    /\ fresh = [j \in Jobs |-> FALSE]
    /\ raw = [j \in Jobs |-> "none"]
    /\ copy = [j \in Jobs |-> NoCopy]
    /\ zombies = {} /\ in_hand = {}
    /\ kills = 0 /\ misses = 0 /\ clears = 0
-----------------------------------------------------------------------------
(* The scheduler and the start of a job. *)

\* The task instance is scheduled, queued, and given to a new process.
launch(j) ==
    /\ stage[j] = "absent"
    /\ \A i \in Jobs : i < j => stage[i] # "absent"
    /\ state \in {NONE, UP_FOR_RETRY}
    /\ state' = QUEUED
    /\ stage' = [stage EXCEPT ![j] = "launched"]
    /\ UNCHANGED <<try, max_tries, job_id, job_state, fresh, rawVars, huntVars, faultVars>>

\* BaseJob.run adds the job's row; the task instance is found runnable under the
\* row lock, set RUNNING in the name of this job, and the raw task is forked.
start(j) ==
    /\ stage[j] = "launched"
    /\ state \in RUNNABLE_STATES
    /\ state' = RUNNING
    /\ try' = try + 1
    /\ job_id' = j
    /\ stage' = [stage EXCEPT ![j] = "loop"]
    /\ job_state' = [job_state EXCEPT ![j] = RUNNING]
    /\ fresh' = [fresh EXCEPT ![j] = TRUE]
    /\ raw' = [raw EXCEPT ![j] = "forked"]
    /\ UNCHANGED <<max_tries, copy, huntVars, faultVars>>

\* The task instance is not runnable (or its retry is not due yet).
not_able_to_run(j) ==
    /\ stage[j] = "launched"
    /\ state \notin RUNNABLE_STATES \/ state = UP_FOR_RETRY
    /\ stage' = [stage EXCEPT ![j] = "gone"]
    /\ job_state' = [job_state EXCEPT ![j] = SUCCESS]
    /\ UNCHANGED <<rowVars, fresh, rawVars, huntVars, faultVars>>
-----------------------------------------------------------------------------
(* The raw task. *)

\* _run_raw_task begins: the row is read, and a SIGTERM handler is set.
raw_start(j) ==
    /\ raw[j] = "forked"
    /\ raw' = [raw EXCEPT ![j] = "working"]
    /\ copy' = [copy EXCEPT ![j] = [state |-> state, try |-> try, max_tries |-> max_tries]]
    /\ UNCHANGED <<rowVars, jobVars, huntVars, faultVars>>

\* The rows _run_raw_task can leave behind: success, skip and AirflowFailException
\* write over whatever the row is; AirflowException (which the SIGTERM handler
\* raises too) respects a row that somebody has finished; any other exception
\* makes handle_failure write the copy.
RawOutcomes(j) ==
    LET c == copy[j]
        here(s) == [state |-> s, try |-> try, max_tries |-> max_tries]
    IN  { here(s) : s \in {SUCCESS, SKIPPED, FAILED} }
        \cup { here(IF state \in {SUCCESS, FAILED} THEN state
                    ELSE failure_state(state, try, Retries, max_tries, FALSE)),
               [c EXCEPT !.state = failure_state(c.state, c.try, Retries, c.max_tries, FALSE)] }

raw_end(j) ==
    /\ raw[j] \in {"working", "sigterm"}
    /\ \E new \in RawOutcomes(j) :
         state' = new.state /\ try' = new.try /\ max_tries' = new.max_tries
    /\ raw' = [raw EXCEPT ![j] = "ended"]
    /\ copy' = [copy EXCEPT ![j] = NoCopy]
    /\ UNCHANGED <<job_id, jobVars, huntVars, faultVars>>

\* reap_process_group gives up waiting after SIGTERM and sends SIGKILL.
sigkill(j) ==
    /\ raw[j] = "sigterm"
    /\ stage[j] # "gone"
    /\ raw' = [raw EXCEPT ![j] = "ended"]
    /\ UNCHANGED <<rowVars, jobVars, copy, huntVars, faultVars>>
-----------------------------------------------------------------------------
(* The LocalTaskJob. *)

\* task_runner.terminate(): a raw task that has no handler yet just dies.  The
\* job waits in it until the raw task has ended.
terminate(j) ==
    raw' = [raw EXCEPT ![j] = CASE raw[j] = "forked" -> "ended"
                                [] raw[j] = "working" -> "sigterm"
                                [] OTHER -> raw[j]]

Looping(j) == stage[j] \in {"loop", "terminating"} /\ raw[j] # "sigterm"

Owns(j) == state = RUNNING /\ job_id = j

\* Mutant: the heartbeat does not compare the pid.
heartbeat_without_pid(j) ==
    /\ Looping(j)
    /\ job_state' = [job_state EXCEPT ![j] = RUNNING]
    /\ fresh' = [fresh EXCEPT ![j] = TRUE]
    /\ IF stage[j] = "loop" /\ state # RUNNING /\ raw[j] # "ended"
         THEN terminate(j) /\ stage' = [stage EXCEPT ![j] = "terminating"]
         ELSE UNCHANGED <<raw, stage>>
    /\ UNCHANGED <<rowVars, copy, huntVars, faultVars>>

\* heartbeat and heartbeat_callback.  If another process has the row RUNNING the
\* job raises, and kills its raw task on the way out; if the row is not RUNNING it
\* kills the raw task and goes on ("taking the poison pill").
heartbeat(j) ==
    /\ Looping(j)
    /\ job_state' = [job_state EXCEPT ![j] = RUNNING]
    /\ fresh' = [fresh EXCEPT ![j] = TRUE]
    /\ \/ /\ stage[j] = "loop" /\ state = RUNNING /\ job_id # j
          /\ terminate(j)
          /\ stage' = [stage EXCEPT ![j] = "raising"]
       \/ /\ stage[j] = "loop" /\ state # RUNNING /\ raw[j] # "ended"
          /\ terminate(j)
          /\ stage' = [stage EXCEPT ![j] = "terminating"]
       \/ /\ Owns(j) \/ stage[j] = "terminating" \/ (state # RUNNING /\ raw[j] = "ended")
          /\ UNCHANGED <<raw, stage>>
    /\ UNCHANGED <<rowVars, copy, huntVars, faultVars>>

\* The job raises: its heartbeat could not be written and the last one is too old,
\* or it has received a SIGTERM.
raise(j) ==
    /\ terminate(j)
    /\ stage' = [stage EXCEPT ![j] = "raising"]
    /\ UNCHANGED <<rowVars, job_state, fresh, copy, huntVars, misses, clears>>

heartbeat_limit_exceeded(j) == Looping(j) /\ ~fresh[j] /\ raise(j) /\ UNCHANGED kills

\* The raw task has ended: _execute returns or raises, and run writes the job's row.
job_exit(j) ==
    /\ stage[j] \in {"loop", "terminating", "raising"}
    /\ raw[j] = "ended"
    /\ stage' = [stage EXCEPT ![j] = "gone"]
    /\ job_state' = [job_state EXCEPT ![j] = IF stage[j] = "raising" THEN FAILED ELSE SUCCESS]
    /\ UNCHANGED <<rowVars, fresh, rawVars, huntVars, faultVars>>
-----------------------------------------------------------------------------
(* The zombie hunt. *)

\* Mutant: the state of the task instance is not part of the query.
is_zombie_in_any_state ==
    job_id # 0 /\ (job_state[job_id] # RUNNING \/ ~fresh[job_id])

\* Mutant: "and" for "or".
is_zombie_if_job_runs ==
    state = RUNNING /\ job_state[job_id] = RUNNING /\ ~fresh[job_id]

\* The query of _find_zombies.
is_zombie ==
    state = RUNNING /\ (job_state[job_id] # RUNNING \/ ~fresh[job_id])

\* _find_zombies replaces the manager's list; of the row it keeps the try number
\* (and the state, which is RUNNING).
find_zombies ==
    /\ zombies' = IF is_zombie THEN {try} ELSE {}
    /\ UNCHANGED <<rowVars, jobVars, rawVars, in_hand, faultVars>>

\* A processor for the file of this DAG is started with the list as it is now.
start_processor ==
    /\ in_hand = {}
    /\ in_hand' = zombies
    /\ UNCHANGED <<rowVars, jobVars, rawVars, zombies, faultVars>>

\* kill_zombies at the end of process_file: handle_failure for a task instance made
\* from the snapshot, with max_tries from the task; the merge writes it over the row.
kill_zombies ==
    /\ \E n \in in_hand :
         /\ state' = failure_state(RUNNING, n, Retries, Retries, FALSE)
         /\ try' = n
         /\ max_tries' = Retries
    /\ in_hand' = {}
    /\ UNCHANGED <<job_id, jobVars, rawVars, zombies, faultVars>>
-----------------------------------------------------------------------------
(* Faults and users. *)

EventLeft == kills + misses + clears < MaxEvents

\* The heartbeat of a live job is late by more than the threshold.
miss(j) ==
    /\ misses < MaxMisses /\ EventLeft
    /\ misses' = misses + 1
    /\ stage[j] \in {"loop", "terminating", "raising"}
    /\ fresh[j]
    /\ fresh' = [fresh EXCEPT ![j] = FALSE]
    /\ UNCHANGED <<rowVars, stage, job_state, rawVars, huntVars, kills, clears>>

\* The last heartbeat of a job that is gone gets old.
expire(j) ==
    /\ stage[j] = "gone"
    /\ fresh[j]
    /\ fresh' = [fresh EXCEPT ![j] = FALSE]
    /\ UNCHANGED <<rowVars, stage, job_state, rawVars, huntVars, faultVars>>

\* The job, the raw task, or both (with their node) are killed: nothing is written,
\* and a raw task without its job runs on unwatched.
killed(j, jobDies, rawDies) ==
    /\ kills < MaxKills /\ EventLeft
    /\ kills' = kills + 1
    /\ stage[j] \in {"loop", "terminating", "raising"}
    /\ stage' = IF jobDies THEN [stage EXCEPT ![j] = "gone"] ELSE stage
    /\ raw' = IF rawDies THEN [raw EXCEPT ![j] = "ended"] ELSE raw
    /\ UNCHANGED <<rowVars, job_state, fresh, copy, huntVars, misses, clears>>

\* SIGTERM to the job: its handler kills the raw task and raises.
sigterm_job(j) ==
    /\ kills < MaxKills /\ EventLeft
    /\ kills' = kills + 1
    /\ Looping(j)
    /\ raise(j)

\* Mutant: a RUNNING task instance is set to NONE like the others.
clear_running_too ==
    /\ clears < MaxClears /\ EventLeft
    /\ clears' = clears + 1
    /\ state' = NONE
    /\ max_tries' = try_number(state, try) + Retries - 1
    /\ UNCHANGED <<try, job_id, jobVars, rawVars, huntVars, kills, misses>>

\* clear_task_instances.
clear ==
    /\ clears < MaxClears /\ EventLeft
    /\ clears' = clears + 1
    /\ IF state = RUNNING
         THEN /\ state' = SHUTDOWN
              /\ job_state' = [job_state EXCEPT ![job_id] = SHUTDOWN]
              /\ UNCHANGED max_tries
         ELSE /\ state' = NONE
              /\ max_tries' = try_number(state, try) + Retries - 1
              /\ UNCHANGED job_state
    /\ UNCHANGED <<try, job_id, stage, fresh, rawVars, huntVars, kills, misses>>
-----------------------------------------------------------------------------
JobStep(j) == start(j) \/ not_able_to_run(j) \/ job_exit(j)
RawStop(j) == raw[j] = "sigterm" /\ stage[j] # "gone" /\ (raw_end(j) \/ sigkill(j))

Next ==
    \/ \E j \in Jobs :
         \/ launch(j) \/ JobStep(j) \/ heartbeat(j) \/ heartbeat_limit_exceeded(j)
         \/ raw_start(j) \/ raw_end(j) \/ sigkill(j)
         \/ miss(j) \/ expire(j) \/ sigterm_job(j)
         \/ \E d \in {<<TRUE, FALSE>>, <<FALSE, TRUE>>, <<TRUE, TRUE>>} : killed(j, d[1], d[2])
    \/ find_zombies \/ start_processor \/ kill_zombies
    \/ clear

Spec == Init /\ [][Next]_vars

\* Jobs go on and heartbeat, a raw task that is being terminated ends (the job
\* sends SIGKILL if it must), time passes, and the hunt goes on.  Tasks need not
\* end.  (At most one of the three steps below is possible at a time.)
Fairness ==
    /\ \A j \in Jobs : WF_vars(JobStep(j) \/ RawStop(j) \/ expire(j)) /\ WF_vars(heartbeat(j))
    /\ WF_vars(find_zombies) /\ WF_vars(start_processor) /\ WF_vars(kill_zombies)

FairSpec == Spec /\ Fairness
-----------------------------------------------------------------------------
(* Properties. *)

Dead(j) == stage[j] = "gone" /\ raw[j] = "ended"
Executing(j) == raw[j] \in {"forked", "working", "sigterm"}

\* As long as nothing is killed and no heartbeat is late the hunt finds nothing,
\* through failures, retries, clears and poison pills: the outcome is written
\* before the job's row is closed.
NoFalseAlarm ==
    (kills = 0 /\ misses = 0) => (zombies = {} /\ in_hand = {})

\* A task instance that may still start has a try left, although raw tasks and
\* kill_zombies write back try numbers and limits they have read long before.
StartableHasTry == state \in {NONE, QUEUED, UP_FOR_RETRY} => try <= max_tries

\* Without faults, and with at most one clear, at most one process executes the
\* task at a time: clear shuts a running one down and waits for its end.
OneExecution ==
    (kills = 0 /\ misses = 0 /\ clears <= 1) =>
        \A i, j \in Jobs : (Executing(i) /\ Executing(j)) => i = j

\* A dead task does not stay RUNNING: the hunt finds it and fails it.
DeadIsNoticed == \A j \in Jobs : (Owns(j) /\ Dead(j)) ~> ~(Owns(j) /\ Dead(j))

\* docs/concepts.rst: processes that the database does not know as running "terminate
\* themselves"; a raw task whose row belongs to somebody else, or to nobody, stops,
\* unless its job has been killed.
UndeadStops ==
    \A j \in Jobs : (Executing(j) /\ ~Owns(j)) ~> (~Executing(j) \/ stage[j] = "gone")

\* Only zombies are failed as zombies: when kill_zombies changes the row, the row is
\* RUNNING and its job has no recent heartbeat (dagbag.py: "tasks that haven't had a
\* heartbeat for too long").
OnlyZombiesAreFailed ==
    [][(in_hand # {} /\ in_hand' = {} /\ state' # state) => is_zombie]_vars
=============================================================================
