----------------------------- MODULE DagSchedule -----------------------------
(***************************************************************************)
(* The runs of one scheduled DAG: how SchedulerJob.create_dag_run finds    *)
(* the next execution date and creates a run for it, which runs            *)
(* _process_task_instances examines, and what backfills, manual triggers,  *)
(* clears and a paused DAG do to both.                                     *)
(*                                                                         *)
(*  - Time is a number.  A cron schedule has its points at the multiples   *)
(*    of Interval; a timedelta schedule has them Interval apart, from      *)
(*    wherever it starts.                                                  *)
(*  - The four queries of create_dag_run and its insert are steps of their *)
(*    own: a backfill, which counts and inserts in the same way, a user    *)
(*    and time move in between.  dag_run has a unique constraint on the    *)
(*    execution date, so there is at most one run for each.                *)
(*  - The tasks of a run are one task here, which is sent when the run is  *)
(*    examined and ends some time later; DagRun has the details.  Whether  *)
(*    a run ends in SUCCESS or FAILED makes no difference.                 *)
(***************************************************************************)
EXTENDS Integers, FiniteSets, FiniteSetsExt

CONSTANTS MaxTime,        \* bound: the end of time
          Interval,       \* schedule_interval
          NoDate,         \* None
          Dags,           \* the DAGs to choose from
          TriggerDates,   \* execution dates that users give to trigger_dag
          BackfillDates,  \* execution dates of backfills
          MaxEvents       \* bound: triggers, backfilled runs, clears and pauses

ASSUME ConstantsAssumption ==
    /\ MaxTime \in Nat /\ Interval \in Nat \ {0} /\ NoDate \notin Int /\ MaxEvents \in Nat
    /\ TriggerDates \cup BackfillDates \subseteq 0..MaxTime
ASSUME DagsAssumption ==
    \A d \in Dags :
      /\ d.schedule_interval \in {"cron", "timedelta", "@once"}
      /\ d.catchup \in BOOLEAN /\ d.dagrun_timeout \in BOOLEAN  \* is there a timeout
      /\ d.start_date \in Nat \cup {NoDate} /\ d.end_date \in Nat \cup {NoDate}
      /\ d.task_start \in Nat  \* the least start_date of a task (see add_task)
      /\ d.start_date # NoDate => d.task_start >= d.start_date
      /\ d.max_active_runs \in Nat \ {0}

VARIABLES
    dag, is_paused,
    now,
  \* the table dag_run: for each execution date the state of the run ("absent",
  \* "running" or "ended"), what its run_id begins with, and external_trigger
    run_state, run_id, external_trigger,
    work,           \* the task of each run: "none", "sent", "done"
  \* process_file: where it is, and the date create_dag_run has found so far
    pc, next_run_date,
  \* a backfill that is about to make a run: its date and whether it has found one
    backfill,
  \* environment: events so far; clears and backfilled runs among them
    events, clears, backfills

runVars == <<run_state, run_id, external_trigger>>
procVars == <<pc, next_run_date>>
envVars == <<events, clears, backfills>>
vars == <<dag, is_paused, now, runVars, work, procVars, backfill, envVars>>

Dates == 0..MaxTime
NoBackfill == [date |-> NoDate, found |-> FALSE]

TypeOK ==
    /\ dag \in Dags /\ is_paused \in BOOLEAN /\ now \in Dates
    /\ run_state \in [Dates -> {"absent", "running", "ended"}]
    /\ run_id \in [Dates -> {"", "scheduled", "backfill", "manual"}]
    /\ external_trigger \in [Dates -> BOOLEAN]
    /\ work \in [Dates -> {"none", "sent", "done"}]
    /\ pc \in {"idle", "find", "last_run", "create", "examine"}
    /\ next_run_date \in Nat \cup {NoDate}
    /\ backfill \in [date : BackfillDates \cup {NoDate}, found : BOOLEAN]
    /\ events \in 0..MaxEvents /\ clears \in 0..MaxEvents /\ backfills \in 0..MaxEvents

Init ==
    /\ dag \in Dags /\ is_paused = FALSE
    /\ now = 0
    /\ run_state = [d \in Dates |-> "absent"]
    /\ run_id = [d \in Dates |-> ""]
    /\ external_trigger = [d \in Dates |-> FALSE]
    /\ work = [d \in Dates |-> "none"]
    /\ pc = "idle" /\ next_run_date = NoDate
    /\ backfill = NoBackfill
    /\ events = 0 /\ clears = 0 /\ backfills = 0
-----------------------------------------------------------------------------
(* The schedule of a DAG. *)

Once == dag.schedule_interval = "@once"

following_schedule(t) ==
    IF dag.schedule_interval = "cron" THEN (t \div Interval + 1) * Interval ELSE t + Interval

previous_schedule(t) ==
    IF dag.schedule_interval = "cron" THEN ((t - 1) \div Interval) * Interval ELSE t - Interval

\* normalize_schedule: the first point of the schedule from t on.
normalize_schedule(t) ==
    IF Once \/ previous_schedule(following_schedule(t)) = t THEN t ELSE following_schedule(t)

\* Mutant: it is not moved.
start_date_not_moved == dag.start_date

\* Mutant: dag.catchup is not looked at.
start_date_without_catchup ==
    LET last_start == previous_schedule(now)
        new_start == IF dag.schedule_interval = "timedelta" THEN last_start
                     ELSE previous_schedule(last_start)
    IN  IF Once \/ (dag.start_date # NoDate /\ new_start < dag.start_date)
          THEN dag.start_date ELSE new_start

\* The start_date that create_dag_run works with: without catchup it is moved up to
\* the interval that has ended last.
start_date ==
    LET last_start == previous_schedule(now)
        new_start == IF dag.schedule_interval = "timedelta" THEN last_start
                     ELSE previous_schedule(last_start)
    IN  IF dag.catchup \/ Once \/ (dag.start_date # NoDate /\ new_start < dag.start_date)
          THEN dag.start_date ELSE new_start
-----------------------------------------------------------------------------
(* create_dag_run. *)

Running == { d \in Dates : run_state[d] = "running" }
\* Mutant: runs are counted whatever their state.
Active_in_any_state == { d \in Dates : run_state[d] # "absent" /\ ~external_trigger[d] }

Active == { d \in Running : ~external_trigger[d] }
Made == { d \in Dates : run_state[d] # "absent" }

\* The runs with external_trigger FALSE or a run_id like scheduled__%.
Scheduled == { d \in Made : ~external_trigger[d] \/ run_id[d] = "scheduled" }

\* Mutant: one run more than max_active_runs.
count_active_one_more(timedout) ==
    /\ pc = "idle" /\ ~is_paused
    /\ timedout \subseteq (IF dag.dagrun_timeout THEN Active ELSE {})
    /\ run_state' = [d \in Dates |-> IF d \in timedout THEN "ended" ELSE run_state[d]]
    /\ pc' = IF Cardinality(Active \ timedout) > dag.max_active_runs THEN "examine" ELSE "find"
    /\ UNCHANGED <<dag, is_paused, now, run_id, external_trigger, work, next_run_date, backfill, envVars>>

\* process_file passes over paused DAGs.  The active runs are counted, and those that
\* have run out of time are failed (timedout: any of them may have).
count_active(timedout) ==
    /\ pc = "idle" /\ ~is_paused
    /\ timedout \subseteq (IF dag.dagrun_timeout THEN Active ELSE {})
    /\ run_state' = [d \in Dates |-> IF d \in timedout THEN "ended" ELSE run_state[d]]
    /\ pc' = IF Cardinality(Active \ timedout) >= dag.max_active_runs THEN "examine" ELSE "find"
    /\ UNCHANGED <<dag, is_paused, now, run_id, external_trigger, work, next_run_date, backfill, envVars>>

\* The query for the last scheduled run, and the date behind it.
find_last_scheduled_run ==
    /\ pc = "find"
    /\ IF Once /\ Scheduled # {}
         THEN pc' = "examine" /\ UNCHANGED next_run_date
         ELSE /\ pc' = "last_run"
              /\ next_run_date' = IF Scheduled = {} THEN normalize_schedule(dag.task_start)
                                  ELSE following_schedule(Max(Scheduled))
    /\ UNCHANGED <<dag, is_paused, now, runVars, work, backfill, envVars>>

\* "make sure backfills are also considered": the first point behind the last run.
after_last_run(date) ==
    LET runs == { d \in Made : ~external_trigger[d] }
    IN  IF runs = {} \/ Max(runs) < date THEN date
        ELSE date + ((Max(runs) - date) \div Interval + 1) * Interval

\* "don't ever schedule prior to the dag's start_date"
not_before(start, date) ==
    IF start = NoDate \/ start < date THEN date ELSE normalize_schedule(start)

\* Mutant: a run is due when its period begins.
is_due_at_its_start(date) ==
    /\ date <= now
    /\ dag.end_date # NoDate => date <= dag.end_date

\* The period of the run has ended, and does not begin behind end_date.
is_due(date) ==
    /\ date <= now
    /\ dag.end_date # NoDate => date <= dag.end_date
    /\ ~Once => following_schedule(date) <= now

\* The query for the last run, and the remaining conditions.
choose_next_run_date ==
    LET date == not_before(start_date, after_last_run(next_run_date))
    IN  /\ pc = "last_run"
        /\ next_run_date' = IF is_due(date) THEN date ELSE NoDate
        /\ pc' = IF is_due(date) THEN "create" ELSE "examine"
        /\ UNCHANGED <<dag, is_paused, now, runVars, work, backfill, envVars>>

Insert(d, id, external) ==
    /\ run_state' = [run_state EXCEPT ![d] = "running"]
    /\ run_id' = [run_id EXCEPT ![d] = id]
    /\ external_trigger' = [external_trigger EXCEPT ![d] = external]

\* create_dagrun.  If there is a run for the date the insert raises an IntegrityError,
\* which ends the process before any run has been examined.
create_dagrun ==
    /\ pc = "create"
    /\ next_run_date' = NoDate
    /\ IF run_state[next_run_date] = "absent"
         THEN Insert(next_run_date, "scheduled", FALSE) /\ pc' = "examine"
         ELSE UNCHANGED runVars /\ pc' = "idle"
    /\ UNCHANGED <<dag, is_paused, now, work, backfill, envVars>>
-----------------------------------------------------------------------------
(* _process_task_instances. *)

\* The run is found finished: its task has ended, or it has none, as verify_integrity
\* makes no task instance before the start_date of the task.
over(d) == work[d] = "done" \/ d < dag.task_start

\* The runs it looks at: not in the future, not those of a backfill.
Eligible == { d \in Running : d <= now /\ run_id[d] # "backfill" }

\* Mutant: the runs it leaves to others count for max_active_runs.
process_task_instances_counting_all ==
    LET examined == { d \in Eligible :
                        Cardinality({ e \in Running : e < d /\ ~over(e) }) < dag.max_active_runs }
    IN  /\ pc = "examine" /\ pc' = "idle"
        /\ next_run_date' = NoDate
        /\ run_state' = [d \in Dates |-> IF d \in examined /\ over(d) THEN "ended" ELSE run_state[d]]
        /\ work' = [d \in Dates |-> IF d \in examined /\ ~over(d) THEN "sent" ELSE work[d]]
        /\ UNCHANGED <<dag, is_paused, now, run_id, external_trigger, backfill, envVars>>

\* In the order of their dates, until max_active_runs of them go on.
process_task_instances ==
    LET examined == { d \in Eligible :
                        Cardinality({ e \in Eligible : e < d /\ ~over(e) }) < dag.max_active_runs }
    IN  /\ pc = "examine" /\ pc' = "idle"
        /\ next_run_date' = NoDate
        /\ run_state' = [d \in Dates |-> IF d \in examined /\ over(d) THEN "ended" ELSE run_state[d]]
        /\ work' = [d \in Dates |-> IF d \in examined /\ ~over(d) THEN "sent" ELSE work[d]]
        /\ UNCHANGED <<dag, is_paused, now, run_id, external_trigger, backfill, envVars>>
-----------------------------------------------------------------------------
(* Time, tasks, users and backfills. *)

tick ==
    /\ now < MaxTime
    /\ now' = now + 1
    /\ UNCHANGED <<dag, is_paused, runVars, work, procVars, backfill, envVars>>

finish_task(d) ==
    /\ work[d] = "sent"
    /\ work' = [work EXCEPT ![d] = "done"]
    /\ UNCHANGED <<dag, is_paused, now, runVars, procVars, backfill, envVars>>

Event == events < MaxEvents /\ events' = events + 1

\* trigger_dag; the user may choose the run_id too.  For a date that has a run it raises.
trigger_dag(d, id) ==
    /\ Event
    /\ run_state[d] = "absent"
    /\ Insert(d, id, TRUE)
    /\ UNCHANGED <<dag, is_paused, now, work, procVars, backfill, clears, backfills>>

\* BackfillJob._get_dag_run counts the active runs and looks for one with its date.
backfill_get_dag_run(d) ==
    /\ Event
    /\ backfill = NoBackfill
    /\ run_state[d] = "running" \/ Cardinality(Active) < dag.max_active_runs
    /\ backfill' = [date |-> d, found |-> d \in Made]
    /\ backfills' = backfills + 1
    /\ UNCHANGED <<dag, is_paused, now, runVars, work, procVars, clears>>

\* Then it takes the run over, or makes one (an IntegrityError ends the backfill).
backfill_create_dagrun ==
    LET d == backfill.date
    IN  /\ backfill # NoBackfill
        /\ backfill' = NoBackfill
        /\ IF backfill.found \/ run_state[d] = "absent"
             THEN Insert(d, "backfill", external_trigger[d])
             ELSE UNCHANGED runVars
        /\ UNCHANGED <<dag, is_paused, now, work, procVars, envVars>>

\* A backfill ends its runs, unless it is killed.
backfill_end(d) ==
    /\ run_state[d] = "running" /\ run_id[d] = "backfill"
    /\ run_state' = [run_state EXCEPT ![d] = "ended"]
    /\ UNCHANGED <<dag, is_paused, now, run_id, external_trigger, work, procVars, backfill, envVars>>

\* clear_task_instances sets the run to RUNNING, whatever max_active_runs says.
clear(d) ==
    /\ Event
    /\ run_state[d] = "ended"
    /\ run_state' = [run_state EXCEPT ![d] = "running"]
    /\ work' = [work EXCEPT ![d] = "none"]
    /\ clears' = clears + 1
    /\ UNCHANGED <<dag, is_paused, now, run_id, external_trigger, procVars, backfill, backfills>>

set_is_paused ==
    /\ IF is_paused THEN UNCHANGED events ELSE Event
    /\ is_paused' = ~is_paused
    /\ UNCHANGED <<dag, now, runVars, work, procVars, backfill, clears, backfills>>
-----------------------------------------------------------------------------
ProcessFile ==
    \/ \E timedout \in SUBSET Active : count_active(timedout)
    \/ find_last_scheduled_run \/ choose_next_run_date \/ create_dagrun \/ process_task_instances

Next ==
    \/ ProcessFile
    \/ tick
    \/ \E d \in Dates : finish_task(d) \/ backfill_end(d) \/ clear(d)
    \/ \E d \in TriggerDates, id \in {"manual", "scheduled"} : trigger_dag(d, id)
    \/ \E d \in BackfillDates : backfill_get_dag_run(d)
    \/ backfill_create_dagrun
    \/ set_is_paused

Spec == Init /\ [][Next]_vars

\* The file is processed again and again, time passes, and tasks end.
Fairness ==
    /\ WF_vars(ProcessFile) /\ WF_vars(tick)
    /\ \A d \in Dates : WF_vars(finish_task(d))

FairSpec == Spec /\ Fairness
-----------------------------------------------------------------------------
(* Properties. *)

NotManual == { d \in Made : ~external_trigger[d] \/ run_id[d] # "manual" }
ByScheduler == { d \in Made : run_id[d] = "scheduled" /\ ~external_trigger[d] }

\* docs/scheduler.rst: a run is created "at the END of the period", never for a period
\* before start_date or behind end_date, whatever catchup, backfills and users have
\* made of the last run.
PeriodIsOver ==
    \A d \in ByScheduler :
        /\ IF Once THEN d <= now ELSE following_schedule(d) <= now
        /\ dag.start_date # NoDate => dag.start_date <= d
        /\ dag.end_date # NoDate => d <= dag.end_date

\* With catchup no interval is passed over (docs/dag-run.rst: "a DAG Run for any interval
\* that has not been run since the last execution date"): a run of the scheduler is the
\* first one, or there is a run at most one interval before it, which may be a backfill's
\* or that of a user who has not named it "manual".
NoIntervalSkipped ==
    (dag.catchup /\ ~Once) => \A d \in ByScheduler :
        \/ d = normalize_schedule(dag.task_start)
        \/ dag.start_date # NoDate /\ d = normalize_schedule(dag.start_date)
        \/ \E e \in NotManual : e < d /\ d <= following_schedule(e)

\* Without catchup "the scheduler creates a DAG run only for the latest interval"
\* (docs/dag-run.rst): the interval behind the one chosen has not ended yet.
OnlyLatestInterval ==
    [][(pc = "last_run" /\ pc' = "create" /\ ~dag.catchup /\ ~Once)
         => following_schedule(following_schedule(next_run_date')) >= now]_vars

\* Scheduler and backfill both count the active runs first and create one later: they
\* exceed max_active_runs by one at most, and by the runs that users have cleared.
ActiveRunsBounded ==
    Cardinality(Active) <= dag.max_active_runs + clears + (IF backfills > 0 THEN 1 ELSE 0)

\* The scheduler is about to insert a run for a date that has one: a user has triggered
\* it with just this execution date, which the queries above do not see.
Clash == pc = "create" /\ external_trigger[next_run_date]

\* A backfill has, or was killed with, runs that are RUNNING.
BackfillRuns == \E d \in Running : run_id[d] = "backfill"

\* The interval behind the last one that has a run of the scheduler, a backfill or a user
\* who says so.
NextInterval ==
    not_before(dag.start_date, IF Scheduled = {} THEN normalize_schedule(dag.task_start)
                               ELSE following_schedule(Max(Scheduled)))

\* With catchup no interval stays without a run once it has ended, in spite of
\* max_active_runs, unless a user has taken its date (each pass then ends in the error)
\* or a killed backfill has left its runs RUNNING.
EveryIntervalIsRun ==
    []<>(\/ ~dag.catchup \/ Once \/ is_paused \/ BackfillRuns \/ Clash
         \/ following_schedule(NextInterval) > now
         \/ dag.end_date # NoDate /\ NextInterval > dag.end_date)

\* No run starves: each one that is running is examined until it ends, although only
\* max_active_runs are examined and others are made and cleared all the time.
EveryRunEnds ==
    \A d \in Dates : []<>
        (run_state[d] # "running" \/ run_id[d] = "backfill" \/ is_paused \/ Clash)
=============================================================================
