---------------------------- MODULE LocalExecutor ----------------------------
(***************************************************************************)
(* airflow/executors/local_executor.py: BaseExecutor's bookkeeping over    *)
(* worker processes.  With parallelism > 0 that many workers share a       *)
(* task queue and are stopped by poison pills; with parallelism = 0 every  *)
(* command gets a process of its own.  The owner (a scheduler or backfill  *)
(* job) is one thread: it queues commands, calls heartbeat (trigger_tasks, *)
(* then sync until the result queue is empty), fetches events, and finally *)
(* calls end.  The worker processes run beside it.                         *)
(***************************************************************************)
EXTENDS BaseExecutor, Sequences, SequencesExt

CONSTANTS Dags,             \* the dag_ids of the keys
          Workers,          \* the QueuedLocalWorker processes
          MaxLaunchErrors   \* bound: how many commands fail to launch

ASSUME WorkersAssumption == IsFiniteSet(Workers) /\ Workers # {}
ASSUME MaxLaunchErrorsAssumption == MaxLaunchErrors \in Nat

VARIABLES parallelism,      \* core.parallelism: 0, or the number of Workers
          owner,            \* where the owning thread is
          task_queue,       \* limited mode: commands and poison pills
          unfinished,       \* the queue's count of puts without a task_done
          worker,           \* limited mode: what each worker holds
          spawned,          \* unlimited mode: the one-shot LocalWorkers
          workers_active,   \* unlimited mode: the counter end waits on
          result_queue,
          launchErrors      \* how many launch errors have happened

localVars == <<parallelism, owner, task_queue, unfinished, worker, spawned, workers_active,
               result_queue, launchErrors>>
vars == <<execVars, localVars>>

Poison == "poison"      \* the (None, None) item
Idle == "idle"
Stopped == "stopped"

\* A key is a tuple in the code, so it is none of these.
ASSUME KeysAssumption == Keys \cap {Poison, Idle, Stopped} = {}

Limited == parallelism # 0

Held == { worker[w] : w \in Workers } \cap Keys
Submitted == ToSet(task_queue) \cap Keys
Reported == { result_queue[i][1] : i \in DOMAIN result_queue }

TypeOK ==
    /\ ExecTypeOK
    /\ parallelism \in {0, Cardinality(Workers)}
    /\ owner \in {"loop", "sync", "join", "last_sync", "ended"}
    /\ task_queue \in Seq(Keys \cup {Poison})
    /\ unfinished \in Nat
    /\ worker \in [Workers -> Keys \cup {Idle, Stopped}]
    /\ spawned \in SUBSET Keys
    /\ workers_active \in Nat
    /\ result_queue \in Seq(Keys \X EventStates)
    /\ launchErrors \in 0..MaxLaunchErrors

Init ==
    /\ ExecInit
    /\ parallelism \in {0, Cardinality(Workers)}
    /\ owner = "loop"
    /\ task_queue = <<>>
    /\ unfinished = 0
    /\ worker = [w \in Workers |-> IF Limited THEN Idle ELSE Stopped]
    /\ spawned = {}
    /\ workers_active = 0
    /\ result_queue = <<>>
    /\ launchErrors = 0
-----------------------------------------------------------------------------
(* The owning thread. *)

\* The owner hands a command to the executor.
queue_command(k) ==
    /\ owner = "loop"
    /\ queue_commands({k})
    /\ UNCHANGED <<running, event_buffer, localVars>>

\* execute_async for the triggered keys, in the order of the sorted queue: puts
\* them on the task queue, or starts one LocalWorker each.
execute_async(T) ==
    IF Limited
      THEN /\ \E s \in SetToSeqs(T) :
                /\ \A i, j \in DOMAIN s : i < j => KeyPriority[s[i]] >= KeyPriority[s[j]]
                /\ task_queue' = task_queue \o s
           /\ unfinished' = unfinished + Cardinality(T)
           /\ UNCHANGED <<spawned, workers_active>>
      ELSE /\ spawned' = spawned \cup T
           /\ workers_active' = workers_active + Cardinality(T)
           /\ UNCHANGED <<task_queue, unfinished>>

\* The first half of heartbeat.
heartbeat ==
    /\ owner = "loop"
    /\ owner' = "sync"
    /\ \E T \in SUBSET queued_tasks : trigger_tasks(T, open_slots(parallelism)) /\ execute_async(T)
    /\ UNCHANGED <<parallelism, worker, result_queue, launchErrors>>

\* Mutant: every command that has ended counts as a success.
sync_result_success ==
    /\ owner \in {"sync", "last_sync"} \/ (owner = "join" /\ ~Limited)
    /\ result_queue # <<>>
    /\ LET r == Head(result_queue)
       IN  change_states({r[1]}, [k \in {r[1]} |-> "success"])
    /\ result_queue' = Tail(result_queue)
    /\ workers_active' = IF Limited THEN workers_active ELSE workers_active - 1
    /\ UNCHANGED <<parallelism, owner, task_queue, unfinished, worker, spawned, launchErrors>>

\* One round of sync's loop: take one result and change_state.
sync_result ==
    /\ owner \in {"sync", "last_sync"} \/ (owner = "join" /\ ~Limited)
    /\ result_queue # <<>>
    /\ LET r == Head(result_queue)
       IN  change_states({r[1]}, [k \in {r[1]} |-> r[2]])
    /\ result_queue' = Tail(result_queue)
    /\ workers_active' = IF Limited THEN workers_active ELSE workers_active - 1
    /\ UNCHANGED <<parallelism, owner, task_queue, unfinished, worker, spawned, launchErrors>>

\* sync finds the result queue empty: the heartbeat, or end, returns.
sync_done ==
    /\ owner \in {"sync", "last_sync"}
    /\ result_queue = <<>>
    /\ owner' = IF owner = "sync" THEN "loop" ELSE "ended"
    /\ UNCHANGED <<execVars, parallelism, task_queue, unfinished, worker, spawned,
                   workers_active, result_queue, launchErrors>>

get_event_buffer(dag_ids) ==
    /\ owner = "loop"
    /\ flush_events(dag_ids)
    /\ UNCHANGED <<queued_tasks, running, localVars>>

\* end: poison pills for the workers, or the wait on workers_active.
end ==
    /\ owner = "loop"
    /\ owner' = "join"
    /\ IF Limited
         THEN /\ task_queue' = task_queue \o [i \in 1..Cardinality(Workers) |-> Poison]
              /\ unfinished' = unfinished + Cardinality(Workers)
         ELSE UNCHANGED <<task_queue, unfinished>>
    /\ UNCHANGED <<execVars, parallelism, worker, spawned, workers_active, result_queue, launchErrors>>

\* Mutant: end returns without the last sync.
joined_without_sync ==
    /\ owner = "join"
    /\ IF Limited THEN unfinished = 0 ELSE workers_active = 0
    /\ owner' = "ended"
    /\ UNCHANGED <<execVars, parallelism, task_queue, unfinished, worker, spawned,
                   workers_active, result_queue, launchErrors>>

\* queue.join() returns, or the loop on workers_active ends.
joined ==
    /\ owner = "join"
    /\ IF Limited THEN unfinished = 0 ELSE workers_active = 0
    /\ owner' = IF Limited THEN "last_sync" ELSE "ended"
    /\ UNCHANGED <<execVars, parallelism, task_queue, unfinished, worker, spawned,
                   workers_active, result_queue, launchErrors>>
-----------------------------------------------------------------------------
(* The worker processes. *)

\* A queued worker takes a command, or a poison pill and stops.
take(w) ==
    /\ worker[w] = Idle
    /\ task_queue # <<>>
    /\ task_queue' = Tail(task_queue)
    /\ IF Head(task_queue) = Poison
         THEN /\ worker' = [worker EXCEPT ![w] = Stopped]
              /\ unfinished' = unfinished - 1
         ELSE /\ worker' = [worker EXCEPT ![w] = Head(task_queue)]
              /\ UNCHANGED unfinished
    /\ UNCHANGED <<execVars, parallelism, owner, spawned, workers_active, result_queue, launchErrors>>

\* Mutant: task_done is skipped.
execute_work_not_done(w, state) ==
    /\ worker[w] \in Keys
    /\ result_queue' = Append(result_queue, <<worker[w], state>>)
    /\ worker' = [worker EXCEPT ![w] = Idle]
    /\ UNCHANGED <<execVars, parallelism, owner, task_queue, unfinished, spawned, workers_active, launchErrors>>

\* Mutant: a failed command puts no result.
execute_work_silent(w, state) ==
    /\ worker[w] \in Keys
    /\ result_queue' = IF state = "success" THEN Append(result_queue, <<worker[w], state>>)
                                            ELSE result_queue
    /\ worker' = [worker EXCEPT ![w] = Idle]
    /\ unfinished' = unfinished - 1
    /\ UNCHANGED <<execVars, parallelism, owner, task_queue, spawned, workers_active, launchErrors>>

\* execute_work: the command returns, or raises CalledProcessError; the result
\* is put on the result queue and the item is task_done.
execute_work(w, state) ==
    /\ worker[w] \in Keys
    /\ result_queue' = Append(result_queue, <<worker[w], state>>)
    /\ worker' = [worker EXCEPT ![w] = Idle]
    /\ unfinished' = unfinished - 1
    /\ UNCHANGED <<execVars, parallelism, owner, task_queue, spawned, workers_active, launchErrors>>

\* The one-shot worker of unlimited mode does the same and exits.
run_spawned(k, state) ==
    /\ k \in spawned
    /\ spawned' = spawned \ {k}
    /\ result_queue' = Append(result_queue, <<k, state>>)
    /\ UNCHANGED <<execVars, parallelism, owner, task_queue, unfinished, worker, workers_active, launchErrors>>

\* check_call raises anything but CalledProcessError (an OSError from fork or
\* exec): the finally clause marks the item done and the worker process dies.
launch_error(w) ==
    /\ launchErrors < MaxLaunchErrors
    /\ launchErrors' = launchErrors + 1
    /\ worker[w] \in Keys
    /\ worker' = [worker EXCEPT ![w] = Stopped]
    /\ unfinished' = unfinished - 1
    /\ UNCHANGED <<execVars, parallelism, owner, task_queue, spawned, workers_active, result_queue>>

\* The same in unlimited mode: the LocalWorker dies without a result.
launch_error_spawned(k) ==
    /\ launchErrors < MaxLaunchErrors
    /\ launchErrors' = launchErrors + 1
    /\ k \in spawned
    /\ spawned' = spawned \ {k}
    /\ UNCHANGED <<execVars, parallelism, owner, task_queue, unfinished, worker, workers_active, result_queue>>
-----------------------------------------------------------------------------
OwnerSync == sync_result \/ sync_done \/ joined

WorkerStep(w) == take(w) \/ \E s \in EventStates : execute_work(w, s)

Next ==
    \/ \E k \in Keys : queue_command(k)
    \/ heartbeat
    \/ OwnerSync
    \/ \E D \in SUBSET Dags : get_event_buffer(D)
    \/ end
    \/ \E w \in Workers : WorkerStep(w) \/ launch_error(w)
    \/ \E k \in Keys : (\E s \in EventStates : run_spawned(k, s)) \/ launch_error_spawned(k)

\* Every command ends (each worker makes progress), the owner keeps looping
\* through heartbeat and sync, and the calls it is inside of return.
Fairness ==
    /\ WF_vars(heartbeat)
    /\ WF_vars(OwnerSync)
    /\ \A w \in Workers : WF_vars(WorkerStep(w))
    /\ \A k \in Keys : WF_vars(\E s \in EventStates : run_spawned(k, s))

Spec == Init /\ [][Next]_vars /\ Fairness
-----------------------------------------------------------------------------
(* Properties. *)

\* base_executor.heartbeat never lets more than parallelism commands run at once.
ParallelismRespected == Limited => Cardinality(running) <= parallelism

\* Conservation: while no launch has failed, a running key is in exactly one
\* of the task queue, a worker's hands and the result queue, and nothing else
\* is in any of them; no command is lost, and none runs twice.
Conservation ==
    launchErrors = 0 =>
        /\ running = Submitted \cup Held \cup spawned \cup Reported
        /\ Cardinality(running) =
             Cardinality({ i \in DOMAIN task_queue : task_queue[i] # Poison })
             + Cardinality({ w \in Workers : worker[w] \in Keys })
             + Cardinality(spawned) + Len(result_queue)

\* Once end() has returned, no process holds a command and every command that
\* was started without a launch error has had its state changed.
EndedMeansDone ==
    owner = "ended" =>
        /\ Submitted \cup Held \cup spawned \cup Reported = {}
        /\ launchErrors = 0 => running = {}

\* end() returns once it has been called, unless a worker process was lost to a
\* launch error (its poison pill is then taken by nobody, and join never returns).
EndReturns == (owner = "join") ~> (owner = "ended" \/ launchErrors > 0)

\* A command that was triggered is reported to the event buffer, whatever its
\* priority and whatever else is queued, unless a worker process was lost.
RunningIsReported ==
    \A k \in Keys : (k \in running) ~> (k \notin running \/ launchErrors > 0)

\* Where each key is in the abstract executor: its result is decided when the
\* worker has put it on the result queue, and it is lost when it is running in
\* the books only.
PhaseOf(k) ==
    IF k \in queued_tasks THEN "queued"
    ELSE IF k \notin running THEN "idle"
    ELSE IF k \in Submitted \cup Held \cup spawned THEN "running"
    ELSE IF k \in Reported
      THEN result_queue[CHOOSE i \in DOMAIN result_queue : result_queue[i][1] = k][2]
    ELSE "lost"

Contract == INSTANCE Executor WITH
    Results <- EventStates, phase <- [k \in Keys |-> PhaseOf(k)]

\* The local executor keeps the contract of an executor, in both modes: each command
\* it accepts is run once and reported with its own result, whatever the order in
\* which workers, queues and the owner's calls interleave.
KeepsContract == Contract!Spec
=============================================================================
