# A TLA+ model of the Airflow scheduler

This directory models the part of Apache Airflow 1.10 (`src/airflow-upgrade-check-1.4.0/airflow`)
that decides *what runs, when, and how often*: the scheduler loop, the executor, the life of a task
instance, the creation and the state of DAG runs, backfills, and the processing of DAG files. Paths below are relative to that `airflow/` directory.
`PROJECT.json` maps every definition to the lines it models and lists runs, mutants, hazards,
findings and theorems.

## 1. Inventory

All processes of an Airflow installation share one database; the `task_instance` and `dag_run`
tables are both its memory and its only means of synchronisation.

| component | state | operations | correct when |
|---|---|---|---|
| `BaseExecutor` (`executors/base_executor.py`) | `queued_tasks`, `running`, `event_buffer`, in the memory of the scheduler | `queue_command`, `has_task`, `heartbeat`, `trigger_tasks`, `change_state`, `get_event_buffer` | parallelism holds; a key is never lost between the dictionaries |
| `LocalExecutor` (`executors/local_executor.py`) | worker processes, task queue with its unfinished count, result queue | `start`, `execute_async`, `sync`, `end`; workers take, run, report | no command is lost or run twice; `end` returns, and only when all is done |
| scheduler loop (`jobs/scheduler_job.py`, `jobs/base_job.py`) | position in the loop, SimpleDags harvested, events in hand | reset of orphans, harvest, clean-up of tasks without a run, find, queue, heartbeat, put back, executor events | pool, DAG and task limits; nothing stranded in QUEUED; crash and restart lose nothing |
| task instance (`models/taskinstance.py`, `utils/state.py`, `ti_deps/`) | `state`, `_try_number`, `max_tries`, and the copies processes hold of them | locked check, commit to RUNNING, success, skip, failure, retry, reschedule, clear | one process at a time; at most retries + 1 attempts |
| creation of runs (`create_dag_run` in `jobs/scheduler_job.py`, `models/dag.py`, `api/common/experimental/trigger_dag.py`) | the runs of a DAG: date, state, run_id, external_trigger | count, find the next date, create; trigger, backfill, pause | a run for every interval that has ended (or the latest), none early; max_active_runs; no run starves |
| file processing (`process_file` in `jobs/scheduler_job.py`) | a copy of the task instances of the runs of one file | run timeout, `update_state`, schedule what is ready, kill zombies | decisions taken on the copy hold for the rows |
| `DagRun` (`models/dagrun.py`), trigger rules and branches (`ti_deps/deps`, `models/skipmixin.py`) | state of the run, skip records in XCom | ready check, flagging, verdict | rules as documented; every run ends, with the right state; no false deadlock |
| `LocalTaskJob`, zombies (`jobs/local_task_job.py`, `models/dagbag.py`, `utils/dag_processing.py`) | job heartbeat, pid, list of zombies | heartbeat and poison pill, zombie hunt, `kill_zombies` | only dead tasks are failed; a superseded process stops |
| `DagFileProcessorManager` and its agent (`utils/dag_processing.py`) | processors, queue of files, pipe to the scheduler | list the directory, queue, start, collect, time out, terminate, report; relaunch by the agent | every version of a file reaches the scheduler; a run limit is reached, and not early |
| `BackfillJob` (`jobs/backfill_job.py`) | status sets to_run, running, ... | load runs, send, executor events, counters, run updates, errors | no task instance is lost or sent twice; the loop drains and ends; done means done |
| Celery, Kubernetes, Dask, Sequential, Debug executors | as `BaseExecutor`, plus what the external system holds | send, poll, watch | as for `LocalExecutor` |
| web server, CLI, operators, hooks, sensors | none of their own | read and write the same tables; call external systems | outside this project, except for their writes (clear, mark) |

How they interact. The scheduler process runs the loop and owns the executor's dictionaries. DAG file
processors are child processes: they write task instances to SCHEDULED and end runs; what they find
reaches the loop through the manager's pipe as SimpleDags. The loop turns SCHEDULED into QUEUED and
hands a command to the executor, whose workers run `airflow run`: a `LocalTaskJob` that checks the row
under `SELECT FOR UPDATE`, sets it RUNNING and runs the task, which writes its outcome to the row. The
exit code travels back through the result queue and the event buffer. The loop compares it with the
row: a task that is still QUEUED although its process has ended was killed, and is failed.

What is hard here: two sources of truth about an attempt (row and event) that arrive in any order;
decisions taken on copies (`update_state`, executor events, zombies) and written without a lock; a
scheduler that dies with the executor's memory while its processes live on; limits that are computed
once and consumed in several transactions; a try number that moves up and down; and workers that
die. The hazards in `PROJECT.json` list these places line by line.

## 2. Modules

| module | models | extends |
|---|---|---|
| `TaskInstance` | task states, the sets of states dependencies use, `try_number`, `is_eligible_to_retry`, `handle_failure`'s choice; constants only | |
| `BaseExecutor` | the three dictionaries and every operation on them, as action fragments | |
| `Executor` | abstract: what an executor promises for each key | |
| `LocalExecutor` | both modes of the local executor with its worker processes; implements `Executor` | `BaseExecutor` |
| `SchedulerJob` | the loop, one action per database transaction; file processing; task processes; crash, restart, kills, database errors | `TaskInstance`, `BaseExecutor` |
| `TaskExecution` | one task instance: its LocalTaskJobs, their raw tasks, the zombie hunt | `TaskInstance` |
| `TriggerRule` | `TriggerRuleDep` on counts of parents, and what the documentation says of each rule; constants only | `TaskInstance` |
| `DagRun` | `update_state` step by step on its copy, scheduling, branches, retries, clear | `TriggerRule` |
| `DagSchedule` | the runs of one DAG: creation, examination, triggers, backfills, clears, pauses, time | |
| `BackfillJob` | the status sets of a backfill and the loop over them, with the processes it starts | `TriggerRule` |
| `DagFileProcessorManager` | scheduler with agent, manager, file processors, and the pipe between them | |
| `MCLocalExecutor`, `MCSchedulerJob`, `MCDagRun`, `MCDagSchedule`, `MCBackfillJob`, `MCDagFileProcessorManager` | constants of the small instances | |
| `SchedulerJobProofs`, `TriggerRuleProofs`, `TaskExecutionProofs`, `LocalExecutorProofs`, `DagScheduleProofs`, `DagFileProcessorManagerProofs`, `BackfillJobProofs` | theorems | the module they are named after |
| `DagRunProofs` | theorems | `DagRun`, `TriggerRuleProofs` |

Each module looks closely at one stretch of the way of a task and takes the others as one step:
`DagFileProcessorManager` how a file gets to a processor and its DAGs to the scheduler; `DagSchedule` how
a run comes into being; `DagRun` how its tasks become SCHEDULED; `SchedulerJob` how they get through QUEUED
to a process; `TaskExecution` what happens while it runs. `BackfillJob` does all of this on its own.

**LocalExecutor.** `owner` is where the process that owns the executor is (in the loop, inside `sync`,
inside `end`). A worker is idle, holds a key, or has stopped; `unfinished` is the counter of the
`JoinableQueue`. A launch error (any exception but `CalledProcessError` from `check_call`) ends the
worker after `task_done` and without a result. `parallelism = 0` selects the unlimited mode; both modes are
initial states of the same run. The refinement (`Contract`) maps a key to idle, queued, running, its
result (once it is on the result queue) or lost (running in the books only, after a launch error).

**SchedulerJob.** `pc` is the position in the loop; every action between two commits is atomic, and
processes and file processors move in between. A process is identified by its key and by the number
of scheduler crashes before it (that is, by the executor that started it), so processes of a dead
scheduler coexist with those of its successor. A process goes through started, checked (holding the
row lock), working, exiting, and ended with the exit code the executor will see. In exiting the task has
written its row, but `LocalTaskJob` sleeps in its heartbeat (`jobs/local_task_job.py:98-105`) and has not
noticed: the key is still in `running` while the row may be scheduled, queued and started for its next
attempt. `failing` is the row that
`_process_executor_events` has read and will write back after loading a DagBag: two steps, because
that is where the copy gets stale. Each DAG has one run, and tasks within it are independent;
dependencies are the subject of `DagRun`. Callbacks, mails, SLAs, metrics and logging are left out.
A limit the code expresses as None or -1 is a large number.

**TaskExecution.** A job and its raw task are two processes with two lives: either may be killed, or
both with their node. `job_id` of the row stands for job and pid, which are written together. The
heartbeat of a job merges the job object of the process into its row, which writes RUNNING over the
SHUTDOWN a clear has left there, so `BaseJob.kill` is never reached; what stops a cleared task is the look
at the task instance (`heartbeat_callback`). `zombies` is the list the manager found at its last query,
handed to every processor it starts until the next one; `in_hand` is the list of such a processor,
which `kill_zombies` applies without reading the row. A raw task that is killed by SIGTERM handles the
failure with the copy it has read when it started, even if the row is somebody else's by then.

**DagRun.** One run of one DAG with any trigger rule on each task (chosen in the initial state, so one
run of TLC covers all combinations). The file processor reads all rows into `seen`, examines the
schedulable ones one by one in any order (a flag is committed at once), looks for premature ones if
nothing is ready, decides, writes the state of the run, and finally locks and schedules the ready
rows. `finished_tasks` stays as it was read while `seen` takes the flags, as the lists and the ORM
objects do in the code. The session does not expire objects on commit (`settings.py`), hence the copy
stays old. How a SCHEDULED task gets to a process is the subject of `SchedulerJob`; here it starts, at
most one process at a time. Branches follow `SkipMixin.skip_all_except`; a clear may hit any set of
task instances at any moment. `depends_on_past` and `task_concurrency`, which switch deadlock
detection off, are left out.

**DagSchedule.** Time is a number and the points of a schedule are `Interval` apart: at its multiples for
cron, anywhere for a timedelta. The count of the active runs, the query for the last scheduled run, the
query for the last run with the choice of the date, and the insert are steps of their own, in which time,
backfills (which count and insert the same way), triggers, clears and pauses interleave. The tasks of a
run are one task. The DAG (schedule, catchup, dates, limit, timeout) is chosen in the initial state.
Time zones and daylight saving are left out, and so are sub-DAGs.

**BackfillJob.** `step` is the position in the loop. The pass over `to_run` takes one key at a time
in topological order; rows change between two looks. The status sets hold the key a task instance had
when its run was loaded, the executor the key it has when it is sent, as in the code. The executor is
its contract: a key is sent, its process starts or not, ends, and leaves an event. `_execute` goes round
again for dates that had no room (`max_active_runs`).

**DagFileProcessorManager.** A file is a name and a version number that grows with every write. `conn` is
the pipe from manager to agent, of limited size, `heartbeats` what is unread in the other direction.
`file_stats` is the number of times a file has been processed (-1 without a stat). A processor has
inherited the manager's signal handler with the processors of the moment it was forked (`siblings`).
`late` are processors beyond their timeout. `deactivated` is what the scheduler deactivates at its end.

Some definitions are simpler than the code in a way the properties do not see:

* `get_ready_ti` (`DagRun`) asks the copy where the session of `trigger_rule_dep.py:73-75` and `current_state`
  (`models/dagrun.py:343`) read the row again and merge it; what it finds ready is looked at once more under
  the lock.
* `skip_all_except` (`DagRun`) commits the skips and, right after, the record (`models/skipmixin.py:165-168`): one
  step of the model.
* `after_last_run` (`DagSchedule`) goes on to the next point for `@once` too, where the code has no next point
  and the pass ends in an exception (`jobs/scheduler_job.py:710-711`), so the model does more.
* `start` (`BackfillJob`) does not check the trigger rule and `depends_on_past` again. Only a clear can have
  changed their answer, and the properties except what depends on a cleared task instance.
* `heartbeat` (`BackfillJob`) sends all queued keys, whatever the parallelism of the executor, and leaves it to the
  processes when they start.
* A processor whose manager has died vanishes (`DagFileProcessorManager`); in the code it goes on, but nobody
  listens to it any more.

Definitions whose comment starts with "Mutant" are not used by any specification. Each is a
plausible bug in one definition; put in its place it makes one of the properties fail, which shows
that the property depends on the code.

## 3. What is checked

| run | instance | shows |
|---|---|---|
| `LocalExecutor` | 3 keys of 2 DAGs, 2 workers or one process per command, 1 launch error | `KeepsContract` (refinement of `Executor`); `Conservation`: a running key is in exactly one of task queue, worker and result queue; `ParallelismRespected`; `EndedMeansDone`; under fairness `EndReturns`, `RunningIsReported` |
| `SchedulerLimits` | 3 task instances of 2 DAGs, pool of 2, a two-slot task, DAG concurrency, chunks of 1, a reschedule | `LimitsRespected` |
| `SchedulerFaults` | 2 task instances (one with two retries, one a dummy), parallelism 2, a run timeout, and any one of a kill, a crash and a database error | `SingleRunner`, `EventIsCurrent`, `TriesBounded`, `QueuedIsOwned`, `FinishedIsFinal`, and under fairness `RunsEnd` |
| `TaskExecutionFaults` | 2 jobs, 1 retry, any two of a kill, a late heartbeat and a clear | `NoFalseAlarm`, `StartableHasTry`, `OneExecution`, and under fairness `DeadIsNoticed`, `UndeadStops` |
| `DagRunRules` | two parents, a join, a task behind it, all 81 combinations of rules, a retry | `ScheduledByTheRule`, `VerdictIsSound`, `RunningUndisturbed` |
| `DagRunBranch` | a branch one of whose targets is behind the other, five rules on the latter, a retry, and one clear of any set | `SkippedIsNotRun`, and under fairness `RunEnds` |
| `DagSchedule` | 3 intervals, start dates on and off the schedule, 17 DAGs, any two of a trigger, a backfilled run, a clear and a pause | `PeriodIsOver`, `NoIntervalSkipped`, `OnlyLatestInterval`, `ActiveRunsBounded`, and under fairness `EveryIntervalIsRun`, `EveryRunEnds` |
| `BackfillJob` | 2 dates of a chain of 2 tasks (the second depends on its past), the first run partly there, a retry, one run at a time, and a reschedule, kill, requeue, clear or interrupt | `Accounted`, `DoneMeansDone`, `SucceededNotRerun`, and under fairness `BackfillEnds` |
| `DagFiles` | 2 files, one of which may come, change and go, 2 processors, pipes of one message, both modes, no run limit or one run, and a change or a fault | `QueueConsistent`, `DoneMeansProcessed`, `DeactivatedIsGone`, and under fairness `EditIsSeen`, `SchedulerEnds` |

`TypeOK` is checked in `SchedulerFaults` and in `DagRunRules`. The `TypeOK` of the other modules hold on the same
instances; they say little by themselves and are part of the inductive invariants of section 4.

Some of the properties deserve a word. `QueuedIsOwned` says that a QUEUED row of a running run has its key
in the executor or in an event: if it had not, nothing would ever move it, since only a restart looks at
orphans. `EventIsCurrent` says that the loop fails an attempt as killed only when the executor is through with the key
of that attempt: it is not queued, not running and not reported again. The key of an earlier attempt may well be
running still, since its `LocalTaskJob` exits late; its event has another try number and must be harmless. The
property is about the time before a crash or a reschedule (`Calm`), which make one key stand for two attempts. `ScheduledByTheRule` compares the rows at the moment of scheduling with the
documentation of the rule, although the code decided on an older copy. `VerdictIsSound` says that an
ended run has no task left to run, so that deadlock detection, with its premature tasks and flags, has
no false positives; it is about runs that nobody clears. `RunningUndisturbed` says that the flags
written during the search for premature tasks never hit a running row. `StartableHasTry` holds although
raw tasks and `kill_zombies` write back try numbers read long before. `Accounted` is what a comment in
`_update_counters` fears ("those tasks would fall outside of the scope of the backfill suddenly").
`DoneMeansDone` and `SucceededNotRerun` are about the task instances nobody has cleared, and that depend on none
that was (`Untouched`), in a DAG with clears elsewhere.
`ActiveRunsBounded` gives the exact price of counting before creating: one run more with backfills,
and one for each clear.

### Where the code does not do what it says

Three runs are expected to end in a violation; each checks a sentence of the repository.

* `DagRunClearLost`: a clear between the read in `update_state` and its unlocked write of the run: the
  run ends with the cleared tasks in it, and they are never run.
* `ZombieStale`: `kill_zombies` fails "tasks that haven't had a heartbeat for too long" from a list made
  earlier in another process. A job is killed, its heartbeat gets old and the manager lists its task; the orphaned raw
  task ends and writes SUCCESS; `kill_zombies` writes UP_FOR_RETRY over it, and the task runs again.
* `BackfillFalseDeadlock`: a task instance that its own dependency check has just set to SKIPPED is put
  in `not_ready`; when it is the last one, the backfill is declared deadlocked and fails.

More were met on the way. They are part of the models, and the properties above say where they except
them or which faults they need.

* Two faults (a crash and a kill) break `SingleRunner` and `FinishedIsFinal`: an executor event
  applied from a stale read turns a RUNNING row into UP_FOR_RETRY. A reschedule gives its try number back, so
  an old event has the key of the next attempt and fails it while it lives, which breaks `FinishedIsFinal`. `RunsEnd` then
  fails too. Hence one fault and no reschedule in `SchedulerFaults`, and `Calm` in `EventIsCurrent`. A crash alone
  does the same when two tasks compete for a pool of one slot: a process of the dead executor makes the pool
  overfull (34 steps, against `LimitsRespected`), the process of the other task finds no room and puts its row back to
  NONE, the row is queued again under the same key, and the event of the first process fails it while the second
  starts (58 steps; a few more break `FinishedIsFinal`). The pool of `SchedulerFaults` therefore has room for both tasks. With a retry the old event makes such a row
  UP_FOR_RETRY, which nobody counts, while the process of its next attempt checks the limits; a scheduler
  that chooses a task in between exceeds them (43 steps with two tasks, a pool of one slot and a
  retry). The sensor of `SchedulerLimits` therefore has no retry. Section 4 shows that crash, reschedule
  and run timeout are what it takes: without them any number of kills and database errors is harmless.
* A branch skips its targets whatever their state. A target with another parent may have been flagged
  UPSTREAM_FAILED already, and tasks behind it scheduled for that; the skip takes their ground away, and the
  search for premature tasks then writes SKIPPED to the row of one that runs. `ScheduledByTheRule`,
  `RunningUndisturbed` and `VerdictIsSound` fail then; section 4 says for which branches they hold.
* A task set to NONE "so we don't try to re-run it" after a run timeout is started by the process launched
  before, since NONE is a runnable state.
* A launch error that is not a `CalledProcessError` takes a worker process, so that its poison pill is left
  in the queue and `end()` waits for ever; `EndReturns` excepts it.
* `docs/concepts.rst:949` says skips cascade through `all_success` and `all_failed` only, while
  `flagged_state`, like the code, also skips `none_skipped` tasks with a skipped parent, and `one_success`,
  `one_failed` and `none_failed_or_skipped` tasks with none but skipped ones.
* A file processor inherits the manager's SIGTERM handler: stopping the processor of a deleted file also
  stops the ones that were there when it was forked, whose files then count as processed
  ("Stop processors that are working on deleted files", `utils/dag_processing.py:1166`). Their files are
  processed again, so that `EditIsSeen` holds.
* With SQLite a hanging file processor is never killed, since the manager waits for it without a timeout;
  and manager and agent block each other when both directions of the pipe are full (`Stuck`).
* A manager that has ended between the agent's look at the pipe and its look at the process is
  launched again (`Missed`). The count of a file deleted while it was not being processed stays and keeps
  a run limit from being reached (`SchedulerEnds` excepts it).
* "Initialized as true so we do not deactivate w/o any actual DAG parsing" says the comment at
  `utils/dag_processing.py:528-529` of `_all_files_processed`. The code does the opposite: the flag is the condition for
  deactivating (`jobs/scheduler_job.py:1494`), so a scheduler that ends before its first stat deactivates every DAG
  it has not seen. `DeactivatedIsGone` is about a scheduler that has received one (`stat_received`) and fails
  without that condition.
* A backfill does not notice that the process of a retry was killed (`RetryLost`): the event has the key of
  the second attempt, `running` that of the first. And a clear of an upstream it has counted already
  makes it wait for ever. With two retries a late event of the first attempt fails the second while it runs;
  its process goes on beside the third attempt, and a backfill may end as done with a failed row, or send what
  has succeeded (`DoneMeansDone` and `SucceededNotRerun` except it with `FewRetries`).
* With SQLite a file that is listed while others are still queued has no stat when the queue is empty, and does
  not keep `max_runs_reached` from being TRUE, whose docstring (`utils/dag_processing.py:1359`) speaks of "all file
  paths". `all_files_processed` is then FALSE. `DoneMeansProcessed` says exactly this.
* A manual trigger for exactly the next execution date makes every later pass over its file fail
  (`Clash`). The runs a killed backfill leaves RUNNING count for `max_active_runs` and stop the creation of
  runs (`BackfillRuns`). A backfill of a later date makes the scheduler pass over the intervals before it:
  `NoIntervalSkipped` therefore measures from any earlier run whose `run_id` is not that of a manual one.

### Bounds

Task instances, keys, files and workers are few because the properties relate at most two of them at a time:
two competitors for a row, a pool, a worker or a processor, and in `SchedulerLimits` a third, so that a chunk
commits between two others. One retry separates first and last attempt; two, in `SchedulerFaults`, let the processes of
three attempts overlap, two of them under keys that are no longer those of the row. One crash is enough for
an old and a new executor to coexist; one kill, database error or launch error for the state each leaves
behind. Two jobs are a superseded one and its successor. Three intervals are a missed one, the latest and
the current one, and MaxTime 6 lets the last of them end. Pipes of one message block at once.
`MaxReschedules`, `MaxKills`, `MaxCrashes`, `MaxDbErrors`, `MaxFaults`, `MaxLaunchErrors`, `MaxClears`,
`MaxMisses`, `MaxEdits`, `MaxEvents`, `MaxJobs` and `MaxTime` are bounds in guards. Larger instances that
were checked once and are too slow to keep: `DagFiles` with a change and a fault together, `DagSchedule` with
more combinations of DAG attributes, `BackfillJob` with both runs active at once, `SchedulerFaults` with two real tasks
at parallelism 2 (one retry, 1.3 million states), `SchedulerLimits` with a kill or a database error beside the reschedule. The theorems below do
not depend on any of the bounds.

`CHECK_DEADLOCK FALSE` is set where the system stops: executor, run, backfill and limited scheduler come to
an end, and so does a task instance. The scheduler loop and the schedule never stop, and their runs check
for deadlock.

### Fairness

* The loop goes on and is restarted by its supervisor (weak fairness of the loop's steps): it has no
  unbounded wait except for row locks, which processes release at their commit. Of the task processes that can
  move some process does.
* Every file is processed again and again (which `DagFiles` shows), and retry and reschedule delays
  pass: weak fairness of `process_file` with every delay passed in `SchedulerJob` and of the passes in
  `DagSchedule`, strong fairness of the examination of a task after its delay in `DagRun` and `BackfillJob`
  (each pass may come too early, but not all of them).
* The manager lists the directory, and finds each file old enough to process again, not in every round but
  in infinitely many, and not all files in the same round: `dag_dir_list_interval` and `min_file_process_interval` are
  times, hence strong fairness of the listing and, file by file, of `PrepareFor` in `DagFileProcessorManager`. Processors end unless they are `late`.
* A job that lives heartbeats, and the heartbeat of a dead one gets old (`expire`); the hunt goes on.
* In `BackfillJob` an executor gives the events of processes that have ended to infinitely many heartbeats.
* Processes that have started go on: tasks end. This is an assumption about user code
  (`execution_timeout` bounds it where it is set). Kills, crashes, errors, edits and whatever users do are
  never fair; nor is the end of a backfill in `DagSchedule`.

## 4. What is proved

All theorems are about every value of the constants: any task instances, DAGs, keys, workers, files, dates,
retries and limits, and any number of faults, unless a premise is named. Each rests on an inductive
invariant, which TLC has checked on the instances of section 3 before it was proved.

### The scheduler: `SchedulerJobProofs`

For all crashes, kills, database errors, timeouts and reschedules:

* `TypeCorrect` (`TypeOK`) and `TriesStayBounded` (`TriesBounded`). Neither is inductive: the commit to
  RUNNING and the two failure handlers write try numbers taken from copies. `TryInv` adds that the copies
  held by processes and by the event handler are within bounds (`CopiesBounded`), that numbers fall
  below zero only by as many reschedules as there were (`TryNumbersFromBelow`), and that a process
  between its check and its commit owns a row that is still runnable (`CheckedRunnable`,
  `LockExclusive`). The last part is where the row lock enters: without it a process could commit a
  try that the row no longer has.
* `NothingStranded` (`QueuedIsOwned`), from `TryInv` and `EventsInHand`: events are in the hands of the
  loop only while it handles them. The argument follows a key through its life: queued under its row's
  current try, running, in the buffer, in hand, in `failing`; no step drops it before the row has
  left QUEUED, and a crash empties all of these at once but moves the loop to the reset.

As long as `Calm` (no crash and no reschedule has happened yet) and if no DAG has a `dagrun_timeout` (`NoTimeouts`), for
any number of kills, database errors and retries:

* `LimitsAlwaysRespected` (`LimitsRespected`). The greedy loop of `_find_executable_task_instances` is followed in the
  order of its ranks: the set taken is within the limits because its member of the highest rank was admitted
  on top of all the others (`FindWithin`). What is chosen stays counted until its chunk commits (`ChosenWithin`),
  and a process finds room for a row that has been counted already (`QueuedHasRoom`), so that the second
  look at the limits in `RunningDeps` never fails.
* `AlwaysSingleRunner` (`SingleRunner`), `EventAlwaysCurrent` (`EventIsCurrent`), `FinishedStaysFinal` (`FinishedIsFinal`). The
  invariant `CalmInv` says where a key may be: queued, or with a process that has not committed, only while its
  row is QUEUED for that very try; with a process at work only while the row is RUNNING that try; with a process
  that is exiting, or in an event, if its attempt has begun, whatever the row has become since, or else in the
  event of a process that was killed under a QUEUED row. A key is in one of these places at a time, so that when an event
  matches a QUEUED row (whose attempt has not begun) the executor has nothing else under that key. Since the keys of
  earlier attempts are other keys, it does not matter how long their `LocalTaskJob`s take to exit.

The premises are not there for convenience: section 3 tells how crash and reschedule break the last three, and crash
and timeout set a QUEUED row to NONE while its process is about to look at it, which then starts it uncounted. A
reschedule breaks the limits together with a retry (section 3); without one TLC finds no violation (`SchedulerLimits`),
but the invariant does not cover it.

### Runs: `DagRunProofs`, `TriggerRuleProofs`, `DagScheduleProofs`

* `DoneIsDecided`, for any number of parents: with all parents done, each rule is met or flags the task.
* `FlagIsNeverPremature`: a flag set earlier is right whatever the other parents do, with one exception
  (`none_failed_or_skipped` with all parents skipped is met *and* flagged), which the second look in
  `process_file` makes harmless.
* `TypeCorrect` of `DagRun`, with clears and branches.
* As long as the run is `Undisturbed` (nobody has cleared anything yet), for every acyclic DAG, every rule on every
  task and branches under the premise below:
  `AlwaysSoundVerdict` (`VerdictIsSound`), `AlwaysByTheRule` (`ScheduledByTheRule`) and `RunningIsUndisturbed`
  (`RunningUndisturbed`). The invariant relates the copy to the rows: the copy is behind them only by steps a
  task that was sent can take, and by skips (`CopyIsRight`); what is ready was allowed by the rule on the copy
  (`ReadyIsMet`) and,
  since rules that let a task go are stable while parents get done (`GoIsStable`), still is; what has been
  examined and still waits has no flag to be set (`ExaminedIsFlagged`); and the search for premature tasks has
  passed over none (`PrematureIsMet`). A false
  deadlock would need a set of unfinished tasks none of which can move: the first of them in the DAG's order
  has only done parents, and `DoneIsDecided` decides it (`NeverDeadlocked`). With a clear `VerdictIsSound` is false
  (`DagRunClearLost`).

  The premise on branches, `BranchesFirst`: the tasks directly behind a branch have a rule that waits for all
  parents, and their parents are the branch and other tasks directly behind it (a branch, its targets and
  a join of the targets is the usual case; branches may be nested). Then, as long as the branch has not
  ended, its targets wait or are skipped (`TargetsWait`), so that a skip changes no row that others have acted on.
  Section 3 tells what happens to a target with another parent. The invariant was checked with TLC on four DAGs
  of four tasks with one or two branches.
* `SkippedIsNotRun`, for any DAG and any rules. `SkippedStaysUnrun`: with any clears at any time, as long as no
  branch is at work while its row says that it has ended (`NoBranchOutlivesItsRow`; two clears and a flag, or a skip by
  another branch, bring that about). `SkippedByRootStaysUnrun`: with any clears for branches without parents, for
  which that premise is proved. `SkippedStaysUnrunUncleared`: without clears, for all branches. The argument of the first: what waits
  for all parents was found ready when its branch had finished on the copy (`MetMeansFinished`) and had not recorded it
  (`ReadyIsUnskipped`); a branch that had finished then has no process, and gets none before the pass is over
  (`EndedBranchRests`), so it records nothing new. In the last one it may, but never before it has skipped the row (the
  commit of the skips comes first), and the second look at the row notices (`RecordedIsSkipped`).
* `AlwaysPeriodIsOver` (`PeriodIsOver`), `NeverSkipsAnInterval` (`NoIntervalSkipped`), `AlwaysLatestInterval`
  (`OnlyLatestInterval`) and `AlwaysBounded` (`ActiveRunsBounded`), for every schedule, with triggers, backfills, clears and
  pauses at any time. The invariant carries what the scheduler has read from query to query: the date
  it goes on from follows a run that is there (`DateIsFound`), the date chosen follows it, lies on the schedule and is over
  (`DateIsChosen`), and every run of the scheduler was chosen so (`RunsAreChosen`). `ActiveRunsBounded` counts places: those
  that scheduler and backfill have counted as free and not yet taken (`PlacesBounded`).

### Execution: `LocalExecutorProofs`, `TaskExecutionProofs`

* `ParallelismAlwaysRespected`, `AlwaysConserved`, `EndMeansDone`, and `ImplementsContract` (`KeepsContract`): the local
  executor in both modes implements `Executor`, step by step. A running key is in the task queue, with one worker,
  with its own process, on the result queue, or lost to a launch error, and the counter of the queue is
  the number of the first two; the phase of the key in the abstract executor is read off from its place.
* `TypeCorrect`, `StartableAlwaysHasTry` (`StartableHasTry`), `NeverAFalseAlarm` (`NoFalseAlarm`) and `OneExecutionAtATime`
  (`OneExecution`) for any number of jobs. The copies of raw tasks and of `kill_zombies` are part of the invariant.

### Files and backfills: `DagFileProcessorManagerProofs`, `BackfillJobProofs`

* `TypeCorrect`, `AlwaysQueueConsistent` (`QueueConsistent`), `DoneIsDone` (`DoneMeansProcessed`) and `NeverDeactivatesListed`
  (`DeactivatedIsGone`): what the agent believes was true when it was sent and stays so while it is in the pipe,
  through deaths of the manager.
* `NothingEverFallsOut` (`Accounted`): the status sets are disjoint (`KeysApart`), the pass over `to_run` takes only what
  waits (`PassIsWaiting`), dates are loaded when the status is drained, each of them once (`LoadsOnce`), and what is
  removed from one set is added to another (`NothingFallsOut`).
* `DoneAlwaysMeansDone` (`DoneMeansDone`) and `SucceededStaysDone` (`SucceededNotRerun`), for any number of kills, reschedules,
  requeues, interrupts, late events and clears. The invariant `DoneInv` says of every task instance that nobody has
  touched (`RowInv`) that it has one live attempt at most, which owns its row (`LiveIsOwner`) and whose parents have
  succeeded for good (`LiveHasUpstream`); that a late event is about the first attempt, and if the second lives when the
  copy is written back, the row becomes FAILED, not UP_FOR_RETRY (`LateEvent`), so that no third attempt joins it
  and a failure has been counted; and that what has been counted as succeeded or skipped stays so
  (`CountedStays`). This is where `FewRetries`, part of both properties, is needed: with two retries the copy has a
  retry left.

### Assumptions

The named `ASSUME`s of the modules: types of the constants; the executor's keys are those of the task instances;
limits and slots are natural numbers and task instances are finite (`LimitsAssumption`); a DAG has no cycle
(`AcyclicAssumption`, which `DagBag.bag_dag` enforces with `test_cycle`); a backfill finds finitely many tasks, with rows in
states of the table (`DagAssumption`). TLC evaluates all of them in the runs.

### Only model-checked

* All liveness properties, and the fairness they need: beyond TLAPS.
* What the scheduler does after a crash, a timeout or a reschedule, apart from the first three theorems.
* `SkippedIsNotRun` when a branch with parents is at work under a row that clears and flags have ended.

Every safety property of a passing run, invariant or action property, is stated by a theorem, some of them under the premises
named above.

## 5. Plan

1. What holds of the four properties under `Calm` after a single crash, which `SchedulerFaults` checks.
2. `CeleryExecutor` as a second implementation of `Executor`, against an external broker.
3. Marking task instances and runs by hand (`api/common/experimental/mark_tasks.py`); `ShortCircuitOperator`'s
   transitive skip; `depends_on_past` in `DagRun`.

## 6. Not modelled

* The Kubernetes, Dask, Sequential and Debug executors: the first depends on the semantics of the cluster's
  API, the others have little state of their own beyond `BaseExecutor`.
* Web server and CLI: they read and write the tables above; what they write (clear, trigger, pause) appears
  as actions of the modules. Views, forms and argument parsing keep no state.
* Operators, hooks, sensors and `contrib`, by far the largest part of the repository: adapters to external
  systems, each a few sequential calls without coordination logic. What the scheduler sees of them
  (success, failure, skip, reschedule, hang, death) are the outcomes of a task in the models.
* `upgrade/`: independent checks of a configuration that print messages; migrations, serialization,
  logging, templates, security and configuration: data, no protocol.

The definitions therefore map to a small share of the repository's lines: that of its coordination logic.
