------------------------- MODULE SchedulerJobProofs -------------------------
(***************************************************************************)
(* Proofs about SchedulerJob.tla for every set of task instances, every    *)
(* assignment of retries, pools and limits, and every bound on crashes,    *)
(* kills, database errors and reschedules: type correctness, the bound on  *)
(* tries, the row lock, and that nothing is stranded in QUEUED.  The last  *)
(* part is about a scheduler that does not crash: the limits, one process  *)
(* for each task instance, events about the attempt at hand, final states. *)
(***************************************************************************)
EXTENDS SchedulerJob, FiniteSetTheorems, WellFoundedInduction, TLAPS

(***************************************************************************)
(* The parts of the inductive invariant.                                   *)
(***************************************************************************)

\* A try number goes below zero only through reschedules, in the row and in the
\* copies that processes and the event handler hold.
TryNumbersFromBelow ==
    /\ \A t \in TIs : try[t] >= -reschedules
    /\ \A p \in Procs : attempt[p] >= -reschedules
    /\ failing # NoFailing => failing[2] - 1 >= -reschedules

\* The copies are within the retries too.
CopiesBounded ==
    /\ \A p \in Procs : attempt[p] <= Retries[TIof(p)] + 1
    /\ failing # NoFailing => failing[2] - 1 <= Retries[failing[1]]

\* Between its check and its commit a process holds the row: it is still in a
\* runnable state, and no other process has checked it.
CheckedRunnable ==
    \A p \in Procs : proc[p] = "checked" => state[TIof(p)] \in RUNNABLE_STATES
LockExclusive ==
    \A p, q \in Procs :
        (proc[p] = "checked" /\ proc[q] = "checked" /\ TIof(p) = TIof(q)) => p = q

\* Events are in the hands of the loop only while it handles them.
EventsInHand ==
    pc # "handle" => events = NoEvents /\ failing = NoFailing

TryParts ==
    /\ TryNumbersFromBelow
    /\ TriesBounded
    /\ CopiesBounded
    /\ CheckedRunnable
    /\ LockExclusive

TryInv == TypeOK /\ TryParts
-----------------------------------------------------------------------------
(* Facts about keys and processes. *)

USE DEF NONE, SCHEDULED, QUEUED, RUNNING, SUCCESS, SHUTDOWN, FAILED, UP_FOR_RETRY,
        UP_FOR_RESCHEDULE, UPSTREAM_FAILED, SKIPPED, REMOVED

\* A key names a task instance and a try, a process a key and an executor.
LEMMA KeyParts ==
    /\ \A k \in Keys : k = <<k[1], k[2]>> /\ k[1] \in TIs
                         /\ k[2] \in (1 - MaxReschedules)..(MaxRetries + 1)
    /\ \A p \in Procs : p = <<p[1], p[2]>> /\ p[1] \in Keys /\ TIof(p) \in TIs
                          /\ p[2] \in 0..MaxCrashes
    /\ \A k \in Keys, c \in 0..MaxCrashes : <<k, c>> \in Procs
    /\ NoFailing \notin Keys
BY KeysAssumption DEF TaskKeys, Procs, TIof, NoFailing

\* Every key that is queued is a key: what waits has a try left.
LEMMA KeyOfFact ==
    ASSUME TryInv, NEW t \in TIs, state[t] \notin finished \cup {RUNNING}
    PROVE  KeyOf(t) \in Keys /\ KeyOf(t) = <<t, try[t] + 1>>
<1>1. try[t] \in Int /\ try[t] <= Retries[t] /\ try[t] >= -reschedules
      /\ reschedules \in 0..MaxReschedules
    BY DEF TryInv, TryParts, TypeOK, TriesBounded, TryNumbersFromBelow
<1>2. Retries[t] \in 0..MaxRetries /\ MaxRetries \in Nat /\ MaxReschedules \in Nat
    BY RetriesAssumption, BoundsAssumption
<1>3. KeyOf(t) = <<t, try[t] + 1>>
    BY DEF KeyOf, try_number, finished
<1> QED
    BY <1>1, <1>2, <1>3, KeysAssumption DEF TaskKeys

\* The values the state column takes here.
RowStates == TaskStates \ {SHUTDOWN, UPSTREAM_FAILED, REMOVED}

\* What a write to waiting rows preserves, if no process checks a row meanwhile.
LEMMA SetStateKeeps ==
    ASSUME TryInv, NEW S \in SUBSET TIs, NEW new \in [TIs -> RowStates \ {RUNNING}],
           SetState(S, new),
           \A t \in S : state[t] \notin finished \cup {RUNNING},
           UNCHANGED <<try, attempt, failing, reschedules>>,
           \A p \in Procs : proc'[p] = "checked" => proc[p] = "checked"
    PROVE  TryParts' /\ state' \in [TIs -> RowStates]
<1> USE DEF TryInv, TryParts
<1>1. state \in [TIs -> RowStates] /\ state' = [t \in TIs |-> IF t \in S THEN new[t] ELSE state[t]]
    BY DEF TypeOK, RowStates, SetState
<1>2. state' \in [TIs -> RowStates]
    BY <1>1
<1>3. TryNumbersFromBelow' /\ CopiesBounded'
    BY DEF TryNumbersFromBelow, CopiesBounded
<1>4. TriesBounded'
    BY <1>1 DEF TriesBounded, RowStates
<1>5. CheckedRunnable'
    BY <1>1, KeyParts DEF CheckedRunnable, SetState, Locked
<1>6. LockExclusive'
    BY DEF LockExclusive
<1> QED
    BY <1>2, <1>3, <1>4, <1>5, <1>6

\* Steps that touch neither a row nor a try number.
LEMMA RowsKept ==
    ASSUME TryInv, UNCHANGED <<state, try, attempt, reschedules>>,
           failing' = failing \/ failing' = NoFailing,
           \A p \in Procs : proc'[p] = "checked" => proc[p] = "checked"
    PROVE  TryParts'
<1> USE DEF TryInv, TryParts
<1>1. TryNumbersFromBelow' /\ CopiesBounded'
    BY DEF TryNumbersFromBelow, CopiesBounded
<1>2. TriesBounded'
    BY DEF TriesBounded
<1>3. CheckedRunnable' /\ LockExclusive'
    BY DEF CheckedRunnable, LockExclusive
<1> QED
    BY <1>1, <1>2, <1>3
-----------------------------------------------------------------------------
(* Every step preserves TryInv. *)

\* Steps of the loop that change rows, or the loop's own memory.
LEMMA LoopRowsTryInv ==
    ASSUME TryInv,
           \/ reset_state_for_orphaned_tasks \/ fail_tis_without_dagrun
           \/ unschedule_tis_without_dagrun \/ change_state_for_tasks_failed_to_execute
    PROVE  TryInv'
<1> USE DEF TryInv
<1>1. CASE reset_state_for_orphaned_tasks
  <2> DEFINE S == { t \in InState({SCHEDULED, QUEUED}) :
                      run_state[DagOf[t]] = RUNNING /\ ~has_task(KeyOf(t)) }
  <2>1. TryParts' /\ state' \in [TIs -> RowStates]
    <3>1. S \in SUBSET TIs /\ \A t \in S : state[t] \notin finished \cup {RUNNING}
        BY DEF InState, finished
    <3>2. [t \in TIs |-> NONE] \in [TIs -> RowStates \ {RUNNING}]
        BY DEF RowStates, TaskStates
    <3> HIDE DEF S
    <3>3. SetState(S, [t \in TIs |-> NONE])
        BY <1>1 DEF reset_state_for_orphaned_tasks, S
    <3> QED
        BY <1>1, <3>1, <3>2, <3>3, SetStateKeeps
           DEF reset_state_for_orphaned_tasks, procVars, faultVars
  <2>2. TypeOK'
      BY <1>1, <2>1 DEF reset_state_for_orphaned_tasks, TypeOK, ExecTypeOK, RowStates,
                        execVars, procVars, faultVars
  <2> QED BY <2>1, <2>2
<1>2. ASSUME NEW old \in SUBSET (RowStates \ (finished \cup {RUNNING})),
             NEW new \in RowStates \ {RUNNING},
             change_state_for_tis_without_dagrun(old, new)
      PROVE  TryParts' /\ state' \in [TIs -> RowStates]
  <2> DEFINE S == { t \in InState(old) : DagOf[t] \in bag /\ run_state[DagOf[t]] # RUNNING }
  <2>1. S \in SUBSET TIs /\ \A t \in S : state[t] \notin finished \cup {RUNNING}
      BY DEF InState
  <2>2. [t \in TIs |-> new] \in [TIs -> RowStates \ {RUNNING}]
      OBVIOUS
  <2> HIDE DEF S
  <2>3. SetState(S, [t \in TIs |-> new])
      BY <1>2 DEF change_state_for_tis_without_dagrun, S
  <2> QED
      BY <1>2, <2>1, <2>2, <2>3, SetStateKeeps
         DEF change_state_for_tis_without_dagrun, procVars, faultVars
<1>3. CASE fail_tis_without_dagrun
  <2>1. TryParts' /\ state' \in [TIs -> RowStates]
      BY <1>2, <1>3 DEF fail_tis_without_dagrun, RowStates, TaskStates, finished
  <2>2. TypeOK'
      BY <1>3, <2>1 DEF fail_tis_without_dagrun, change_state_for_tis_without_dagrun,
                        TypeOK, ExecTypeOK, RowStates, execVars, procVars, faultVars
  <2> QED BY <2>1, <2>2
<1>4. CASE unschedule_tis_without_dagrun
  <2>1. TryParts' /\ state' \in [TIs -> RowStates]
      BY <1>2, <1>4 DEF unschedule_tis_without_dagrun, RowStates, TaskStates, finished
  <2>2. TypeOK'
      BY <1>4, <2>1 DEF unschedule_tis_without_dagrun, change_state_for_tis_without_dagrun,
                        TypeOK, ExecTypeOK, RowStates, execVars, procVars, faultVars
  <2> QED BY <2>1, <2>2
<1>5. CASE change_state_for_tasks_failed_to_execute
  <2> DEFINE S == { t \in InState({QUEUED}) : KeyOf(t) \in queued_tasks }
  <2>1. TryParts' /\ state' \in [TIs -> RowStates]
    <3>1. S \in SUBSET TIs /\ \A t \in S : state[t] \notin finished \cup {RUNNING}
        BY DEF InState, finished
    <3>2. [t \in TIs |-> SCHEDULED] \in [TIs -> RowStates \ {RUNNING}]
        BY DEF RowStates, TaskStates
    <3> HIDE DEF S
    <3>3. SetState(S, [t \in TIs |-> SCHEDULED])
        BY <1>5 DEF change_state_for_tasks_failed_to_execute, S
    <3> QED
        BY <1>5, <3>1, <3>2, <3>3, SetStateKeeps
           DEF change_state_for_tasks_failed_to_execute, procVars, faultVars
  <2>2. TypeOK'
      BY <1>5, <2>1 DEF change_state_for_tasks_failed_to_execute, TypeOK, ExecTypeOK,
                        RowStates, procVars, faultVars
  <2> QED BY <2>1, <2>2
<1> QED
    BY <1>1, <1>3, <1>4, <1>5

\* Queueing writes states only.
LEMMA QueueTryInv ==
    ASSUME TryInv, execute_task_instances
    PROVE  TryInv'
<1> USE DEF TryInv
<1>1. PICK chunk \in SUBSET chosen :
        LET Q == { t \in chunk : state[t] = SCHEDULED }
        IN  /\ SetState(Q, [t \in TIs |-> QUEUED])
            /\ queue_commands({ KeyOf(t) : t \in Q })
            /\ chosen' = chosen \ chunk
    BY DEF execute_task_instances
<1> DEFINE Q == { t \in chunk : state[t] = SCHEDULED }
<1>2. Q \in SUBSET TIs /\ \A t \in Q : state[t] \notin finished \cup {RUNNING}
    BY DEF TypeOK, finished
<1>3. TryParts' /\ state' \in [TIs -> RowStates]
  <2>1. [t \in TIs |-> QUEUED] \in [TIs -> RowStates \ {RUNNING}]
      BY DEF RowStates, TaskStates
  <2>2. SetState(Q, [t \in TIs |-> QUEUED])
      BY <1>1
  <2> HIDE DEF Q
  <2> QED
      BY <1>2, <2>1, <2>2, SetStateKeeps DEF execute_task_instances, procVars, faultVars
<1>4. { KeyOf(t) : t \in Q } \subseteq Keys
    BY <1>2, KeyOfFact
<1>5. queued_tasks' \in SUBSET Keys
    BY <1>1, <1>4 DEF queue_commands, TypeOK, ExecTypeOK
<1>6. TypeOK'
    BY <1>1, <1>3, <1>5 DEF execute_task_instances, TypeOK, ExecTypeOK, RowStates,
                            procVars, faultVars
<1> QED
    BY <1>3, <1>6

\* Steps of the loop that leave the rows alone.
LEMMA LoopMemoryTryInv ==
    ASSUME TryInv,
           \/ harvest \/ find_executable_task_instances \/ error_queuing_tasks
           \/ executor_heartbeat \/ executor_sync \/ get_event_buffer
           \/ end_of_loop \/ crash \/ restart
    PROVE  TryInv'
<1> USE DEF TryInv
<1> USE BoundsAssumption, KeyParts
<1>1. CASE harvest
  <2>1. TryParts'
      BY <1>1, RowsKept DEF harvest, dbVars, procVars, faultVars
  <2>2. TypeOK'
      BY <1>1 DEF harvest, TypeOK, ExecTypeOK, dbVars, execVars, procVars, faultVars
  <2> QED BY <2>1, <2>2
<1>2. CASE find_executable_task_instances
  <2>1. TryParts'
      BY <1>2, RowsKept DEF find_executable_task_instances, dbVars, procVars, faultVars
  <2>2. chosen' \in SUBSET TIs
      BY <1>2 DEF find_executable_task_instances, InState
  <2>3. TypeOK'
      BY <1>2, <2>2 DEF find_executable_task_instances, TypeOK, ExecTypeOK, dbVars,
                        execVars, procVars, faultVars
  <2> QED BY <2>1, <2>3
<1>3. CASE error_queuing_tasks
  <2>1. TryParts'
      BY <1>3, RowsKept DEF error_queuing_tasks, dbVars, procVars
  <2>2. TypeOK'
      BY <1>3 DEF error_queuing_tasks, TypeOK, ExecTypeOK, dbVars, execVars, procVars
  <2> QED BY <2>1, <2>2
<1>4. CASE executor_heartbeat
  <2>1. PICK T \in SUBSET queued_tasks :
          /\ trigger_tasks(T, open_slots(Parallelism))
          /\ proc' = [p \in Procs |-> IF p[1] \in T /\ p[2] = crashes THEN "started" ELSE proc[p]]
      BY <1>4 DEF executor_heartbeat
  <2>2. TryParts'
      BY <1>4, <2>1, RowsKept DEF executor_heartbeat, dbVars, faultVars
  <2>3. ExecTypeOK'
      BY <2>1 DEF trigger_tasks, TypeOK, ExecTypeOK
  <2>4. proc' \in [Procs -> Stages]
      BY <2>1 DEF TypeOK, Stages
  <2>5. TypeOK'
      BY <1>4, <2>3, <2>4 DEF executor_heartbeat, TypeOK, dbVars, faultVars
  <2> QED BY <2>2, <2>5
<1>5. CASE executor_sync
  <2> DEFINE ended == { k \in Keys : proc[<<k, crashes>>] \in EventStates }
             result == [k \in ended |-> proc[<<k, crashes>>]]
  <2>1. /\ change_states(ended, result)
        /\ proc' = [p \in Procs |-> IF p[1] \in ended /\ p[2] = crashes THEN "absent" ELSE proc[p]]
      BY <1>5 DEF executor_sync
  <2>2. TryParts'
      BY <1>5, <2>1, RowsKept DEF executor_sync, dbVars, faultVars
  <2>3. result \in [ended -> EventStates]
      OBVIOUS
  <2> HIDE DEF result, ended
  <2>4. ExecTypeOK'
      BY <2>1, <2>3 DEF change_states, TypeOK, ExecTypeOK
  <2>5. proc' \in [Procs -> Stages]
      BY <2>1 DEF TypeOK, Stages
  <2>6. TypeOK'
      BY <1>5, <2>4, <2>5 DEF executor_sync, TypeOK, dbVars, faultVars
  <2> QED BY <2>2, <2>6
<1>6. CASE get_event_buffer
  <2>1. TryParts'
      BY <1>6, RowsKept DEF get_event_buffer, dbVars, procVars, faultVars
  <2>2. TypeOK'
      BY <1>6 DEF get_event_buffer, flush_events, TypeOK, ExecTypeOK, dbVars, procVars, faultVars
  <2> QED BY <2>1, <2>2
<1>7. CASE end_of_loop
  <2>1. TryParts'
      BY <1>7, RowsKept DEF end_of_loop, dbVars, procVars, faultVars
  <2>2. TypeOK'
      BY <1>7 DEF end_of_loop, TypeOK, ExecTypeOK, dbVars, execVars, procVars, faultVars
  <2> QED BY <2>1, <2>2
<1>8. CASE crash
  <2>1. TryParts'
      BY <1>8, RowsKept DEF crash, dbVars, faultVars
  <2>2. proc' \in [Procs -> Stages]
      BY <1>8 DEF crash, TypeOK, Stages
  <2>3. TypeOK'
      BY <1>8, <2>2 DEF crash, TypeOK, ExecTypeOK, NoEvents, dbVars, faultVars
  <2> QED BY <2>1, <2>3
<1>9. CASE restart
  <2>1. TryParts'
      BY <1>9, RowsKept DEF restart, dbVars, procVars, faultVars
  <2>2. TypeOK'
      BY <1>9 DEF restart, TypeOK, ExecTypeOK, dbVars, execVars, procVars, faultVars
  <2> QED BY <2>1, <2>2
<1> QED
    BY <1>1, <1>2, <1>3, <1>4, <1>5, <1>6, <1>7, <1>8, <1>9

\* The handling of an executor event: the copy that was read has a try left, and
\* the row gets the copy's try number.
LEMMA EventTryInv ==
    ASSUME TryInv, process_executor_event \/ handle_failure_of_event
    PROVE  TryInv'
<1> USE DEF TryInv
<1>1. CASE process_executor_event
  <2>1. PICK k \in Keys : /\ events' = [events EXCEPT ![k] = NoEvent]
                          /\ failing' = IF event_matches(k) THEN k ELSE NoFailing
      BY <1>1 DEF process_executor_event
  <2>2. TypeOK'
      BY <1>1, <2>1 DEF process_executor_event, TypeOK, ExecTypeOK, dbVars, execVars,
                        procVars, faultVars
  <2>3. failing' # NoFailing =>
          failing' = k /\ k[1] \in TIs /\ state[k[1]] = QUEUED /\ k[2] = try[k[1]] + 1
    <3>1. event_matches(k) => k = <<k[1], try[k[1]] + 1>> /\ state[k[1]] = QUEUED
        BY DEF event_matches, KeyOf, try_number
    <3> QED BY <2>1, <3>1, KeyParts
  <2>4. TryNumbersFromBelow' /\ CopiesBounded'
    <3>1. failing' # NoFailing => try[k[1]] \in Int /\ try[k[1]] <= Retries[k[1]] /\ try[k[1]] >= -reschedules
        BY <2>3 DEF TryParts, TriesBounded, TryNumbersFromBelow, finished, TypeOK
    <3>2. UNCHANGED <<try, attempt, reschedules>>
        BY <1>1 DEF process_executor_event, dbVars, procVars, faultVars
    <3>3. TryNumbersFromBelow'
        BY <2>3, <3>1, <3>2 DEF TryParts, TryNumbersFromBelow
    <3>4. CopiesBounded'
        BY <2>3, <3>1, <3>2 DEF TryParts, CopiesBounded
    <3> QED BY <3>3, <3>4
  <2>5. TriesBounded' /\ CheckedRunnable' /\ LockExclusive'
      BY <1>1 DEF process_executor_event, dbVars, procVars, TryParts, TriesBounded,
                  CheckedRunnable, LockExclusive
  <2> QED BY <2>2, <2>4, <2>5 DEF TryParts
<1>2. CASE handle_failure_of_event
  <2> DEFINE t == failing[1]
             n == failing[2] - 1
  <2>1. /\ failing \in Keys /\ t \in TIs /\ n \in Int
        /\ n <= Retries[t] /\ n >= -reschedules /\ Retries[t] \in 0..MaxRetries
      BY <1>2, KeyParts, BoundsAssumption, RetriesAssumption
         DEF handle_failure_of_event, TypeOK, TryParts, CopiesBounded, TryNumbersFromBelow
  <2>2. PICK new \in {failure_state(QUEUED, n, Retries[t], Retries[t], FALSE), FAILED} :
          SetState({t}, [u \in TIs |-> new]) /\ try' = [try EXCEPT ![t] = n]
      BY <1>2 DEF handle_failure_of_event, handle_event_failure, failing_try
  <2>3. new \in {FAILED, UP_FOR_RETRY}
      BY <2>2 DEF failure_state
  <2> HIDE DEF t, n
  <2>4. state' = [u \in TIs |-> IF u = t THEN new ELSE state[u]] /\ ~Locked(t)
      BY <2>1, <2>2 DEF SetState
  <2>5. TypeOK'
    <3>1. state' \in [TIs -> RowStates]
        BY <2>3, <2>4 DEF TypeOK, RowStates, TaskStates
    <3>2. try' \in [TIs -> (-MaxReschedules)..(MaxRetries + 1)]
        BY <2>1, <2>2, BoundsAssumption, RetriesAssumption DEF TypeOK
    <3> QED
        BY <1>2, <3>1, <3>2 DEF handle_failure_of_event, TypeOK, ExecTypeOK, RowStates,
                                execVars, procVars, faultVars
  <2>6. TryNumbersFromBelow' /\ CopiesBounded'
      BY <1>2, <2>1, <2>2 DEF handle_failure_of_event, procVars, faultVars, TryParts,
                              TryNumbersFromBelow, CopiesBounded, TypeOK
  <2>7. TriesBounded'
      BY <2>1, <2>2, <2>3, <2>4 DEF TryParts, TriesBounded, TypeOK
  <2>8. CheckedRunnable' /\ LockExclusive'
      BY <1>2, <2>4, KeyParts DEF handle_failure_of_event, procVars, TryParts,
                                  CheckedRunnable, LockExclusive, Locked
  <2> QED BY <2>5, <2>6, <2>7, <2>8 DEF TryParts
<1> QED
    BY <1>1, <1>2

\* The DAG file processor schedules waiting rows only.
LEMMA ProcessFileTryInv ==
    ASSUME TryInv, NEW d \in Dags, NEW due, process_file(d, due)
    PROVE  TryInv'
<1> USE DEF TryInv
<1>1. run_state' \in [Dags -> {RUNNING, SUCCESS, FAILED}]
    BY DEF process_file, update_state, TypeOK
<1>2. TryParts' /\ state' \in [TIs -> RowStates]
  <2>1. CASE UNCHANGED state
      BY <2>1, RowsKept DEF process_file, procVars, faultVars, TypeOK, RowStates
  <2>2. CASE ~UNCHANGED state
    <3> DEFINE mine == { t \in InState(SCHEDULEABLE_STATES) : DagOf[t] = d }
               S == { t \in mine : state[t] \in {UP_FOR_RETRY, UP_FOR_RESCHEDULE} => t \in due }
               new == [t \in TIs |-> IF t \in Dummies THEN SUCCESS ELSE SCHEDULED]
    <3>1. SetState(S, new)
        BY <2>2 DEF process_file
    <3>2. S \in SUBSET TIs /\ \A t \in S : state[t] \notin finished \cup {RUNNING}
        BY DEF InState, SCHEDULEABLE_STATES, finished
    <3>3. new \in [TIs -> RowStates \ {RUNNING}]
        BY DEF RowStates, TaskStates
    <3> HIDE DEF S, new
    <3> QED
        BY <3>1, <3>2, <3>3, SetStateKeeps DEF process_file, procVars, faultVars
  <2> QED BY <2>1, <2>2
<1>3. TypeOK'
    BY <1>1, <1>2 DEF process_file, TypeOK, ExecTypeOK, RowStates, execVars, procVars, faultVars
<1> QED
    BY <1>2, <1>3

\* The check of `airflow run' takes the lock only if nobody has it.
LEMMA CheckTryInv ==
    ASSUME TryInv, NEW p \in Procs, check_state_before_execution(p) \/ local_task_job_exits(p) \/ killed(p)
    PROVE  TryInv'
<1> USE DEF TryInv
<1>1. CASE local_task_job_exits(p) \/ killed(p)
  <2>1. PICK x \in Stages \ {"checked"} : proc' = [proc EXCEPT ![p] = x]
      BY <1>1 DEF local_task_job_exits, killed, Exited, Stages
  <2>2. /\ proc \in [Procs -> Stages] /\ kills' \in 0..MaxKills
        /\ UNCHANGED <<dbVars, execVars, loopVars, attempt, crashes, dberrors, reschedules>>
      BY <1>1, BoundsAssumption DEF local_task_job_exits, killed, faultVars, TypeOK
  <2>3. TryParts'
      BY <2>1, <2>2, RowsKept DEF dbVars, loopVars
  <2>4. TypeOK'
      BY <2>1, <2>2 DEF TypeOK, ExecTypeOK, dbVars, execVars, loopVars
  <2> QED BY <2>3, <2>4
<1>2. CASE check_state_before_execution(p)
  <2> DEFINE t == TIof(p)
  <2> USE KeyParts
  <2>0. /\ t \in TIs /\ ~Locked(t) /\ proc \in [Procs -> Stages] /\ state \in [TIs -> RowStates]
        /\ UNCHANGED <<try, run_state, execVars, loopVars, attempt, crashes, faultVars>>
      BY <1>2 DEF check_state_before_execution, TypeOK, RowStates
  <2>1. \/ /\ proc' = [proc EXCEPT ![p] = Exited(p, "success")]
           /\ state' = state \/ (state[t] \in RUNNABLE_STATES /\ state' = [state EXCEPT ![t] = NONE])
        \/ /\ state[t] \in RUNNABLE_STATES
           /\ proc' = [proc EXCEPT ![p] = "checked"]
           /\ state' = state
      BY <1>2 DEF check_state_before_execution
  <2>2. Exited(p, "success") \in Stages \ {"checked"} /\ "checked" \in Stages
      BY DEF Exited, Stages
  <2>3. /\ state' \in [TIs -> RowStates] /\ proc' \in [Procs -> Stages]
      BY <2>0, <2>1, <2>2 DEF RowStates, TaskStates
  <2>4. TypeOK'
      BY <2>0, <2>3 DEF TypeOK, ExecTypeOK, RowStates, execVars, loopVars, faultVars
  <2>5. TryNumbersFromBelow' /\ CopiesBounded'
      BY <2>0 DEF loopVars, faultVars, TryParts, TryNumbersFromBelow, CopiesBounded
  <2>6. TriesBounded'
      BY <2>0, <2>1 DEF TryParts, TriesBounded, RUNNABLE_STATES, finished
  <2>7. CheckedRunnable'
      BY <2>0, <2>1, <2>2 DEF TryParts, CheckedRunnable, Locked
  <2>8. LockExclusive'
      BY <2>0, <2>1, <2>2 DEF TryParts, LockExclusive, Locked
  <2> QED BY <2>4, <2>5, <2>6, <2>7, <2>8 DEF TryParts
<1> QED
    BY <1>1, <1>2

\* The commit uses up a try, and the row it has locked had one left.
LEMMA CommitTryInv ==
    ASSUME TryInv, NEW p \in Procs, change_state_before_execution(p)
    PROVE  TryInv'
<1> USE DEF TryInv
<1> DEFINE t == TIof(p)
<1> USE KeyParts
<1>1. /\ t \in TIs /\ proc[p] = "checked" /\ state[t] \in RUNNABLE_STATES
      /\ state' = [state EXCEPT ![t] = RUNNING] /\ try' = [try EXCEPT ![t] = @ + 1]
      /\ proc' = [proc EXCEPT ![p] = "working"]
      /\ attempt' = [attempt EXCEPT ![p] = try[t] + 1]
      /\ UNCHANGED <<run_state, execVars, loopVars, crashes, faultVars>>
    BY DEF change_state_before_execution, TryParts, CheckedRunnable
<1>2. try[t] \in Int /\ try[t] <= Retries[t] /\ try[t] >= -reschedules
      /\ Retries[t] \in 0..MaxRetries
  <2>1. try[t] \in Int /\ Retries[t] \in 0..MaxRetries
    <3>1. t \in TIs /\ try \in [TIs -> (-MaxReschedules)..(MaxRetries + 1)]
        BY <1>1 DEF TypeOK
    <3> HIDE DEF t
    <3> QED BY <3>1, RetriesAssumption, BoundsAssumption
  <2>2. state[t] \notin finished \cup {RUNNING}
      BY <1>1 DEF RUNNABLE_STATES, finished
  <2> HIDE DEF t
  <2> QED BY <1>1, <2>1, <2>2 DEF TryParts, TriesBounded, TryNumbersFromBelow
<1>3. TypeOK'
  <2>1. state' \in [TIs -> RowStates]
      BY <1>1 DEF TypeOK, RowStates, TaskStates
  <2>2. try[t] + 1 \in (-MaxReschedules)..(MaxRetries + 1)
      BY <1>1, <1>2, RetriesAssumption, BoundsAssumption DEF TypeOK
  <2>3. try' \in [TIs -> (-MaxReschedules)..(MaxRetries + 1)]
        /\ attempt' \in [Procs -> (-MaxReschedules)..(MaxRetries + 1)]
      BY <1>1, <2>2 DEF TypeOK
  <2>4. proc' \in [Procs -> Stages]
      BY <1>1 DEF TypeOK, Stages
  <2> QED
      BY <1>1, <2>1, <2>3, <2>4 DEF TypeOK, ExecTypeOK, RowStates, execVars, loopVars, faultVars
<1>4. TryNumbersFromBelow' /\ CopiesBounded'
    BY <1>1, <1>2 DEF loopVars, faultVars, TryParts, TryNumbersFromBelow, CopiesBounded, TypeOK
<1>5. TriesBounded'
    BY <1>1, <1>2 DEF TryParts, TriesBounded, TypeOK
<1>6. CheckedRunnable' /\ LockExclusive'
    BY <1>1 DEF TryParts, CheckedRunnable, LockExclusive, TypeOK
<1> QED
    BY <1>3, <1>4, <1>5, <1>6 DEF TryParts

\* Whatever the task does, the row gets a try number within the retries.
LEMMA TaskTryInv ==
    ASSUME TryInv, NEW p \in Procs, run_raw_task(p) \/ handle_reschedule(p)
    PROVE  TryInv'
<1> USE DEF TryInv
<1> DEFINE t == TIof(p)
<1> USE KeyParts
<1>1. ASSUME NEW s \in RowStates \ {RUNNING}, NEW n \in Int,
             SetState({t}, [u \in TIs |-> s]), try' = [try EXCEPT ![t] = n],
             n <= Retries[t] + 1, s \notin finished => n <= Retries[t],
             n >= -reschedules', reschedules' >= reschedules,
             reschedules' \in 0..MaxReschedules,
             exit_task(p), proc[p] = "working",
             UNCHANGED <<run_state, execVars, loopVars, crashes, kills, dberrors>>
      PROVE  TryInv'
  <2>1. /\ t \in TIs /\ ~Locked(t)
        /\ state' = [u \in TIs |-> IF u = t THEN s ELSE state[u]]
        /\ proc' = [proc EXCEPT ![p] = "exiting"] /\ "exiting" \in Stages \ {"checked"}
        /\ attempt' = [attempt EXCEPT ![p] = 0]
        /\ Retries[t] \in 0..MaxRetries
      BY <1>1, RetriesAssumption DEF SetState, exit_task, Stages
  <2> HIDE DEF t
  <2>2. TypeOK'
    <3>1. state' \in [TIs -> RowStates] /\ proc' \in [Procs -> Stages]
        BY <1>1, <2>1 DEF TypeOK, RowStates
    <3>2. n \in (-MaxReschedules)..(MaxRetries + 1) /\ 0 \in (-MaxReschedules)..(MaxRetries + 1)
        BY <1>1, <2>1, RetriesAssumption, BoundsAssumption
    <3>3. try' \in [TIs -> (-MaxReschedules)..(MaxRetries + 1)]
          /\ attempt' \in [Procs -> (-MaxReschedules)..(MaxRetries + 1)]
        BY <1>1, <2>1, <3>2 DEF TypeOK
    <3> QED
        BY <1>1, <3>1, <3>3 DEF TypeOK, ExecTypeOK, RowStates, execVars, loopVars
  <2>3. TryNumbersFromBelow'
      BY <1>1, <2>1 DEF loopVars, TryParts, TryNumbersFromBelow, TypeOK
  <2>4. CopiesBounded'
    <3>1. \A q \in Procs : attempt'[q] <= Retries[TIof(q)] + 1
      <4>1. \A q \in Procs : Retries[TIof(q)] \in Nat /\ attempt[q] <= Retries[TIof(q)] + 1
          BY RetriesAssumption DEF TryParts, CopiesBounded
      <4>2. \A q \in Procs : attempt'[q] = attempt[q] \/ attempt'[q] = 0
          BY <2>1 DEF TypeOK
      <4> QED BY <4>1, <4>2
    <3> QED BY <1>1, <3>1 DEF loopVars, TryParts, CopiesBounded
  <2>5. TriesBounded'
      BY <1>1, <2>1 DEF TryParts, TriesBounded, TypeOK
  <2>6. CheckedRunnable' /\ LockExclusive'
      BY <1>1, <2>1 DEF TryParts, CheckedRunnable, LockExclusive, Locked, TypeOK, t
  <2> QED BY <2>2, <2>3, <2>4, <2>5, <2>6 DEF TryParts
<1>2. /\ t \in TIs /\ try[t] \in Int /\ attempt[p] \in Int /\ reschedules \in 0..MaxReschedules
      /\ state[t] \in RowStates
      /\ Retries[t] \in Nat /\ try[t] <= Retries[t] + 1 /\ attempt[p] <= Retries[t] + 1
      /\ state[t] \notin finished \cup {RUNNING} => try[t] <= Retries[t]
      /\ try[t] >= -reschedules /\ attempt[p] >= -reschedules
    BY RetriesAssumption DEF TypeOK, TryParts, TriesBounded, CopiesBounded, TryNumbersFromBelow,
                             RowStates
<1>3. CASE run_raw_task(p)
  <2>1. PICK row \in
          { <<SUCCESS, try[t]>>, <<SKIPPED, try[t]>>, <<FAILED, try[t]>>,
            <<IF state[t] \in {SUCCESS, FAILED} THEN state[t]
              ELSE failure_state(state[t], try[t], Retries[t], Retries[t], FALSE), try[t]>>,
            <<failure_state(RUNNING, attempt[p], Retries[t], Retries[t], FALSE), attempt[p]>> } :
          SetState({t}, [u \in TIs |-> row[1]]) /\ try' = [try EXCEPT ![t] = row[2]]
      BY <1>3 DEF run_raw_task
  <2>2. row[1] \in RowStates \ {RUNNING} /\ row[2] \in Int /\ row[2] <= Retries[t] + 1
        /\ row[2] >= -reschedules /\ (row[1] \notin finished => row[2] <= Retries[t])
      BY <1>2, <2>1 DEF failure_state, is_eligible_to_retry, try_number, RowStates, TaskStates,
                        finished
  <2>3. /\ exit_task(p) /\ proc[p] = "working"
        /\ UNCHANGED <<run_state, execVars, loopVars, crashes, kills, dberrors, reschedules>>
      BY <1>3 DEF run_raw_task, faultVars
  <2>4. reschedules' = reschedules /\ reschedules' \in 0..MaxReschedules
        /\ reschedules' >= reschedules
      BY <1>2, <2>3
  <2> HIDE DEF t
  <2> QED BY <1>1, <2>1, <2>2, <2>3, <2>4
<1>4. CASE handle_reschedule(p)
  <2>1. /\ exit_task(p) /\ proc[p] = "working" /\ reschedules' = reschedules + 1
        /\ reschedules < MaxReschedules
        /\ SetState({t}, [u \in TIs |-> UP_FOR_RESCHEDULE])
        /\ try' = [try EXCEPT ![t] = try[t] - 1]
        /\ UNCHANGED <<run_state, execVars, loopVars, crashes, kills, dberrors>>
      BY <1>2, <1>4 DEF handle_reschedule
  <2>2. UP_FOR_RESCHEDULE \in RowStates \ {RUNNING} /\ UP_FOR_RESCHEDULE \notin finished
      BY DEF RowStates, TaskStates, finished
  <2>3. reschedules' \in 0..MaxReschedules /\ reschedules' >= reschedules
        /\ try[t] - 1 \in Int /\ try[t] - 1 <= Retries[t] /\ try[t] - 1 >= -reschedules'
        /\ try[t] - 1 <= Retries[t] + 1
      BY <1>2, <2>1, BoundsAssumption
  <2> HIDE DEF t
  <2> QED BY <1>1, <2>1, <2>2, <2>3
<1> QED
    BY <1>3, <1>4

\* TryInv is an invariant of the scheduler.
THEOREM TryInvariant == Spec => []TryInv
<1>1. Init => TryInv
  <2> SUFFICES ASSUME Init PROVE TryInv
      OBVIOUS
  <2>1. TypeOK
      BY RetriesAssumption, BoundsAssumption
         DEF Init, TypeOK, ExecInit, ExecTypeOK, TaskStates, EventStates, NoEvents, Stages
  <2>2. TryNumbersFromBelow /\ CopiesBounded
      BY RetriesAssumption, KeyParts DEF Init, TryNumbersFromBelow, CopiesBounded
  <2>3. TriesBounded /\ CheckedRunnable /\ LockExclusive
      BY RetriesAssumption DEF Init, TriesBounded, CheckedRunnable, LockExclusive
  <2> QED BY <2>1, <2>2, <2>3 DEF TryInv, TryParts
<1>2. TryInv /\ [Next]_vars => TryInv'
  <2> SUFFICES ASSUME TryInv, [Next]_vars PROVE TryInv'
      OBVIOUS
  <2>1. CASE UNCHANGED vars
    <3>1. TypeOK'
        BY <2>1 DEF TryInv, TypeOK, ExecTypeOK, vars, dbVars, execVars, loopVars, procVars,
                    faultVars
    <3>2. TryParts'
        BY <2>1, RowsKept DEF vars, dbVars, loopVars, procVars, faultVars
    <3> QED BY <3>1, <3>2 DEF TryInv
  <2>2. CASE LoopStep
      BY <2>2, LoopRowsTryInv, QueueTryInv, LoopMemoryTryInv, EventTryInv DEF LoopStep
  <2>3. CASE error_queuing_tasks \/ crash
      BY <2>3, LoopMemoryTryInv
  <2>4. ASSUME NEW d \in Dags, NEW due, process_file(d, due) PROVE TryInv'
      BY <2>4, ProcessFileTryInv
  <2>5. ASSUME NEW p \in Procs, ProcStep(p) \/ handle_reschedule(p) \/ killed(p) PROVE TryInv'
      BY <2>5, CheckTryInv, CommitTryInv, TaskTryInv DEF ProcStep
  <2> QED
      BY <2>1, <2>2, <2>3, <2>4, <2>5 DEF Next
<1> QED
    BY <1>1, <1>2, PTL DEF Spec

\* Types: in particular no try number leaves its range, however reschedules, stale
\* copies written back by event handling and failing processes interleave.
THEOREM TypeCorrect == Spec => []TypeOK
BY TryInvariant, PTL DEF TryInv

\* No task instance starts more than retries + 1 attempts, and whatever may still
\* start has one left: TaskInstance.try_number, handle_failure, _handle_reschedule.
THEOREM TriesStayBounded == Spec => []TriesBounded
BY TryInvariant, PTL DEF TryInv, TryParts
-----------------------------------------------------------------------------
(* Nothing is stranded in QUEUED. *)

QueueInv == EventsInHand /\ QueuedIsOwned

\* Where the key of a QUEUED task instance may be.
OwnedKey(k) ==
    \/ has_task(k)
    \/ event_buffer[k] # NoEvent
    \/ events[k] # NoEvent
    \/ failing = k

\* The key of a row that is QUEUED depends on its _try_number alone.
LEMMA QueuedKey ==
    /\ \A t \in TIs : state[t] = QUEUED => KeyOf(t) = <<t, try[t] + 1>>
    /\ \A t \in TIs : state'[t] = QUEUED => KeyOf(t)' = <<t, try'[t] + 1>>
BY DEF KeyOf, try_number

\* Steps that queue nothing and take no key from anybody.
LEMMA OwnersKept ==
    ASSUME QueuedIsOwned, pc \notin {"down", "reset"},
           \A t \in TIs : state'[t] = QUEUED => state[t] = QUEUED /\ try'[t] = try[t],
           \A t \in TIs : run_state'[DagOf[t]] = RUNNING => run_state[DagOf[t]] = RUNNING,
           queued_tasks \cup running \subseteq (queued_tasks \cup running)',
           UNCHANGED <<event_buffer, events, failing>>
    PROVE  QueuedIsOwned'
BY QueuedKey DEF QueuedIsOwned, has_task

\* The steps of the loop that take no key from anybody.
LEMMA LoopQueueInv ==
    ASSUME TryInv, QueueInv,
           \/ harvest \/ fail_tis_without_dagrun \/ unschedule_tis_without_dagrun
           \/ find_executable_task_instances \/ error_queuing_tasks
           \/ executor_heartbeat \/ end_of_loop
    PROVE  QueueInv'
<1> USE DEF QueueInv
<1>1. CASE harvest
    BY <1>1, OwnersKept DEF harvest, EventsInHand, NoEvents, dbVars, execVars
<1>2. ASSUME NEW old, NEW new, new # QUEUED, change_state_for_tis_without_dagrun(old, new)
      PROVE  \A t \in TIs : state'[t] = QUEUED => state[t] = QUEUED
    BY <1>2 DEF change_state_for_tis_without_dagrun, SetState
<1>3. CASE fail_tis_without_dagrun
  <2>1. \A t \in TIs : state'[t] = QUEUED => state[t] = QUEUED
      BY <1>2, <1>3 DEF fail_tis_without_dagrun
  <2> QED
      BY <1>3, <2>1, OwnersKept DEF fail_tis_without_dagrun, change_state_for_tis_without_dagrun,
                                    EventsInHand, NoEvents, execVars
<1>4. CASE unschedule_tis_without_dagrun
  <2>1. \A t \in TIs : state'[t] = QUEUED => state[t] = QUEUED
      BY <1>2, <1>4 DEF unschedule_tis_without_dagrun
  <2> QED
      BY <1>4, <2>1, OwnersKept DEF unschedule_tis_without_dagrun,
                                    change_state_for_tis_without_dagrun,
                                    EventsInHand, NoEvents, execVars
<1>5. CASE find_executable_task_instances
  <2>1. /\ pc = "find" /\ pc' \in {"trigger", "queue"}
        /\ UNCHANGED <<dbVars, execVars, parsed, bag, events, failing, procVars, faultVars>>
      BY <1>5 DEF find_executable_task_instances
  <2> QED
      BY <2>1, OwnersKept DEF EventsInHand, NoEvents, dbVars, execVars
<1>6. CASE error_queuing_tasks
    BY <1>6, OwnersKept DEF error_queuing_tasks, EventsInHand, NoEvents, dbVars, execVars
<1>7. CASE executor_heartbeat
  <2>1. queued_tasks \cup running \subseteq (queued_tasks \cup running)' /\ UNCHANGED event_buffer
      BY <1>7 DEF executor_heartbeat, trigger_tasks
  <2> QED
      BY <1>7, <2>1, OwnersKept DEF executor_heartbeat, EventsInHand, NoEvents, dbVars
<1>8. CASE end_of_loop
    BY <1>8, OwnersKept DEF end_of_loop, EventsInHand, NoEvents, dbVars, execVars
<1> QED
    BY <1>1, <1>3, <1>4, <1>5, <1>6, <1>7, <1>8

\* The steps that move keys between the row, the executor's dictionaries and the
\* loop's own hands.
LEMMA KeysMoveQueueInv ==
    ASSUME TryInv, QueueInv,
           \/ execute_task_instances \/ executor_sync
           \/ change_state_for_tasks_failed_to_execute \/ get_event_buffer
    PROVE  QueueInv'
<1> USE DEF QueueInv
<1> SUFFICES ASSUME pc \notin {"down", "reset"}
             PROVE  /\ EventsInHand'
                    /\ \A t \in TIs : (state'[t] = QUEUED /\ run_state'[DagOf[t]] = RUNNING)
                                          => OwnedKey(KeyOf(t))'
    BY DEF QueuedIsOwned, OwnedKey, execute_task_instances, executor_sync,
           change_state_for_tasks_failed_to_execute, get_event_buffer
<1>1. \A t \in TIs : (state[t] = QUEUED /\ run_state[DagOf[t]] = RUNNING) => OwnedKey(KeyOf(t))
    BY DEF QueuedIsOwned, OwnedKey
<1>2. \A t \in TIs : state[t] = QUEUED => KeyOf(t) \in Keys
    BY KeyOfFact DEF finished
<1>3. CASE execute_task_instances
  <2>1. PICK chunk \in SUBSET chosen :
          LET Q == { t \in chunk : state[t] = SCHEDULED }
          IN  /\ SetState(Q, [t \in TIs |-> QUEUED])
              /\ queue_commands({ KeyOf(t) : t \in Q })
      BY <1>3 DEF execute_task_instances
  <2>2. /\ pc = "queue" /\ pc' \in {"trigger", "queue"}
        /\ UNCHANGED <<try, run_state, running, event_buffer, events, failing>>
      BY <1>3 DEF execute_task_instances
  <2>3. ASSUME NEW t \in TIs, state'[t] = QUEUED, run_state'[DagOf[t]] = RUNNING
        PROVE  OwnedKey(KeyOf(t))'
    <3>1. CASE state[t] = QUEUED
      <4>1. KeyOf(t)' = KeyOf(t)
          BY <2>2, <2>3, <3>1, QueuedKey
      <4>2. OwnedKey(KeyOf(t))
          BY <1>1, <2>2, <2>3, <3>1
      <4>3. \A k : OwnedKey(k) => OwnedKey(k)'
          BY <2>1, <2>2 DEF OwnedKey, has_task, queue_commands
      <4> QED BY <4>1, <4>2, <4>3
    <3>2. CASE state[t] # QUEUED
      <4>1. t \in chunk /\ state[t] = SCHEDULED
          BY <2>1, <2>3, <3>2 DEF SetState
      <4>2. KeyOf(t)' = KeyOf(t)
          BY <2>2, <2>3, <4>1 DEF KeyOf, try_number
      <4>3. KeyOf(t) \in queued_tasks' \cup running'
          BY <2>1, <2>2, <4>1 DEF queue_commands
      <4> QED BY <4>2, <4>3 DEF OwnedKey, has_task
    <3> QED BY <3>1, <3>2
  <2> QED BY <2>2, <2>3 DEF EventsInHand, NoEvents
<1>4. CASE executor_sync
  <2>1. /\ pc = "sync" /\ pc' = "leftover"
        /\ UNCHANGED <<state, try, run_state, events, failing>>
      BY <1>4 DEF executor_sync, dbVars
  <2>2. \A k \in Keys : OwnedKey(k) => OwnedKey(k)'
      BY <1>4, <2>1 DEF executor_sync, change_states, OwnedKey, has_task, EventStates, NoEvent,
                        TryInv, TypeOK, ExecTypeOK
  <2> QED BY <1>1, <1>2, <2>1, <2>2, QueuedKey DEF EventsInHand, NoEvents
<1>5. CASE change_state_for_tasks_failed_to_execute
  <2> DEFINE L == { t \in InState({QUEUED}) : KeyOf(t) \in queued_tasks }
  <2>1. /\ pc = "leftover" /\ pc' = "events"
        /\ UNCHANGED <<try, run_state, running, event_buffer, events, failing>>
        /\ SetState(L, [t \in TIs |-> SCHEDULED])
        /\ queued_tasks' = queued_tasks \ { KeyOf(t) : t \in L }
      BY <1>5 DEF change_state_for_tasks_failed_to_execute
  <2>2. ASSUME NEW t \in TIs, state'[t] = QUEUED, run_state'[DagOf[t]] = RUNNING
        PROVE  OwnedKey(KeyOf(t))'
    <3>1. state[t] = QUEUED /\ KeyOf(t) \notin queued_tasks /\ KeyOf(t)' = KeyOf(t)
        BY <2>1, <2>2, QueuedKey DEF SetState, InState
    <3> QED BY <1>1, <2>1, <2>2, <3>1 DEF OwnedKey, has_task
  <2> QED BY <2>1, <2>2 DEF EventsInHand, NoEvents
<1>6. CASE get_event_buffer
  <2>1. /\ pc = "events" /\ pc' = "handle" /\ events = NoEvents /\ failing = NoFailing
        /\ UNCHANGED <<state, try, run_state, queued_tasks, running, failing>>
        /\ events' = [k \in Keys |-> IF k \in FlushedKeys(bag) THEN event_buffer[k] ELSE NoEvent]
        /\ event_buffer' = [k \in Keys |-> IF k \in FlushedKeys(bag) THEN NoEvent ELSE event_buffer[k]]
      BY <1>6 DEF get_event_buffer, flush_events, EventsInHand, dbVars
  <2>2. \A k \in Keys : OwnedKey(k) => OwnedKey(k)'
      BY <2>1, KeyParts DEF OwnedKey, has_task, NoEvents
  <2> QED BY <1>1, <1>2, <2>1, <2>2, QueuedKey DEF EventsInHand
<1> QED
    BY <1>3, <1>4, <1>5, <1>6

\* The handling of an event: the key goes from events to failing if the row is
\* QUEUED for it, and the row leaves QUEUED before failing is cleared.
LEMMA EventQueueInv ==
    ASSUME TryInv, QueueInv, process_executor_event \/ handle_failure_of_event
    PROVE  QueueInv'
<1> USE DEF QueueInv
<1>1. CASE process_executor_event
  <2>1. PICK k \in Keys : /\ events' = [events EXCEPT ![k] = NoEvent]
                          /\ failing' = IF event_matches(k) THEN k ELSE NoFailing
      BY <1>1 DEF process_executor_event
  <2>2. /\ pc = "handle" /\ pc' = "handle" /\ failing = NoFailing
        /\ UNCHANGED <<state, try, run_state, execVars>>
      BY <1>1 DEF process_executor_event, dbVars
  <2>3. ASSUME NEW t \in TIs, state[t] = QUEUED, run_state[DagOf[t]] = RUNNING
        PROVE  OwnedKey(KeyOf(t))'
    <3>1. KeyOf(t) \in Keys /\ KeyOf(t)' = KeyOf(t) /\ KeyOf(t)[1] = t
        BY <2>2, <2>3, QueuedKey, KeyOfFact DEF finished
    <3>2. OwnedKey(KeyOf(t)) /\ failing # KeyOf(t)
        BY <2>2, <2>3, <3>1, KeyParts DEF QueuedIsOwned, OwnedKey
    <3>3. CASE KeyOf(t) = k
        BY <2>1, <2>3, <3>1, <3>3 DEF event_matches, OwnedKey
    <3>4. CASE KeyOf(t) # k
      <4>1. events'[KeyOf(t)] = events[KeyOf(t)]
          BY <2>1, <3>1, <3>4 DEF TryInv, TypeOK
      <4> QED BY <2>2, <3>1, <3>2, <4>1 DEF OwnedKey, has_task, execVars
    <3> QED BY <3>3, <3>4
  <2> QED
      BY <2>2, <2>3 DEF EventsInHand, QueuedIsOwned, OwnedKey
<1>2. CASE handle_failure_of_event
  <2> DEFINE t == failing[1]
             n == failing[2] - 1
  <2>1. PICK new \in {failure_state(QUEUED, n, Retries[t], Retries[t], FALSE), FAILED} :
          SetState({t}, [u \in TIs |-> new]) /\ try' = [try EXCEPT ![t] = n]
      BY <1>2 DEF handle_failure_of_event, handle_event_failure, failing_try
  <2>2. new # QUEUED
      BY <2>1 DEF failure_state
  <2>3. /\ pc = "handle" /\ pc' = "handle" /\ failing \in Keys
        /\ UNCHANGED <<run_state, execVars, events>>
      BY <1>2 DEF handle_failure_of_event, TryInv, TypeOK
  <2>4. ASSUME NEW u \in TIs, state'[u] = QUEUED, run_state'[DagOf[u]] = RUNNING
        PROVE  OwnedKey(KeyOf(u))'
    <3>1. u # t /\ state[u] = QUEUED
        BY <2>1, <2>2, <2>4 DEF SetState
    <3>2. KeyOf(u) = <<u, try[u] + 1>> /\ KeyOf(u)' = KeyOf(u)
        BY <2>1, <2>4, <3>1, QueuedKey DEF TryInv, TypeOK
    <3>3. failing # KeyOf(u)
        BY <3>1, <3>2
    <3> QED
        BY <2>3, <2>4, <3>1, <3>2, <3>3 DEF QueuedIsOwned, OwnedKey, has_task, execVars
  <2> QED
      BY <2>3, <2>4 DEF EventsInHand, QueuedIsOwned, OwnedKey
<1> QED
    BY <1>1, <1>2

\* Crash, restart and the reset of orphaned tasks: what the new executor does not
\* know leaves QUEUED before the loop starts.
LEMMA CrashQueueInv ==
    ASSUME TryInv, QueueInv, crash \/ restart \/ reset_state_for_orphaned_tasks
    PROVE  QueueInv'
<1> USE DEF QueueInv
<1>1. CASE crash
    BY <1>1 DEF crash, EventsInHand, QueuedIsOwned, NoEvents
<1>2. CASE restart
    BY <1>2 DEF restart, EventsInHand, QueuedIsOwned, NoEvents
<1>3. CASE reset_state_for_orphaned_tasks
  <2>1. EventsInHand'
      BY <1>3 DEF reset_state_for_orphaned_tasks, EventsInHand, NoEvents
  <2>2. ASSUME NEW t \in TIs, state'[t] = QUEUED, run_state'[DagOf[t]] = RUNNING
        PROVE  has_task(KeyOf(t))'
    <3>1. state[t] = QUEUED /\ has_task(KeyOf(t)) /\ UNCHANGED <<try, queued_tasks, running>>
        BY <1>3, <2>2 DEF reset_state_for_orphaned_tasks, SetState, InState, execVars
    <3> QED BY <2>2, <3>1 DEF has_task, KeyOf, try_number
  <2> QED BY <2>1, <2>2 DEF QueuedIsOwned
<1> QED
    BY <1>1, <1>2, <1>3

\* The other processes never make a row QUEUED, and change the try number of rows
\* that leave QUEUED only.
LEMMA OthersQueueInv ==
    ASSUME TryInv, QueueInv,
           \/ \E d \in Dags, due \in SUBSET InState({UP_FOR_RETRY, UP_FOR_RESCHEDULE}) : process_file(d, due)
           \/ \E p \in Procs : ProcStep(p) \/ handle_reschedule(p) \/ killed(p)
    PROVE  QueueInv'
<1> USE DEF QueueInv
<1> DEFINE Kept == \A t \in TIs : state'[t] = QUEUED => state[t] = QUEUED /\ try'[t] = try[t]
<1>1. Kept /\ UNCHANGED <<execVars, pc, events, failing>>
      /\ \A d \in Dags : run_state'[d] = RUNNING => run_state[d] = RUNNING
  <2>1. ASSUME NEW d \in Dags, NEW due, process_file(d, due) PROVE <1>1!:
      BY <2>1 DEF process_file, SetState, TryInv, TypeOK
  <2>2. ASSUME NEW p \in Procs, check_state_before_execution(p) \/ local_task_job_exits(p) \/ killed(p)
        PROVE  <1>1!:
      BY <2>2 DEF check_state_before_execution, local_task_job_exits, killed, loopVars, dbVars, TryInv, TypeOK
  <2>3. ASSUME NEW p \in Procs, change_state_before_execution(p) PROVE <1>1!:
      BY <2>3 DEF change_state_before_execution, loopVars, TryInv, TypeOK
  <2>4. ASSUME NEW p \in Procs, run_raw_task(p) PROVE <1>1!:
    <3> DEFINE t == TIof(p)
    <3>1. PICK row \in
          { <<SUCCESS, try[t]>>, <<SKIPPED, try[t]>>, <<FAILED, try[t]>>,
            <<IF state[t] \in {SUCCESS, FAILED} THEN state[t]
              ELSE failure_state(state[t], try[t], Retries[t], Retries[t], FALSE), try[t]>>,
            <<failure_state(RUNNING, attempt[p], Retries[t], Retries[t], FALSE), attempt[p]>> } :
          SetState({t}, [u \in TIs |-> row[1]]) /\ try' = [try EXCEPT ![t] = row[2]]
        BY <2>4 DEF run_raw_task
    <3>2. row[1] # QUEUED
        BY <3>1 DEF failure_state
    <3>3. Kept
        BY <3>1, <3>2 DEF SetState, TryInv, TypeOK
    <3> QED BY <2>4, <3>3 DEF run_raw_task, loopVars
  <2>5. ASSUME NEW p \in Procs, handle_reschedule(p) PROVE <1>1!:
      BY <2>5 DEF handle_reschedule, SetState, loopVars, TryInv, TypeOK
  <2> QED
      BY <2>1, <2>2, <2>3, <2>4, <2>5 DEF ProcStep
<1>2. EventsInHand'
    BY <1>1 DEF EventsInHand, NoEvents
<1>3. CASE pc \in {"down", "reset"}
    BY <1>1, <1>2, <1>3 DEF QueuedIsOwned
<1>4. CASE pc \notin {"down", "reset"}
    BY <1>1, <1>2, <1>4, OwnersKept, DagAssumption DEF execVars
<1> QED
    BY <1>3, <1>4

\* QueueInv is an invariant of the scheduler.
LEMMA QueueInvariant == Spec => []QueueInv
<1>1. Init => QueueInv
    BY DEF Init, QueueInv, EventsInHand, QueuedIsOwned
<1>2. TryInv /\ QueueInv /\ [Next]_vars => QueueInv'
  <2> SUFFICES ASSUME TryInv, QueueInv, [Next]_vars PROVE QueueInv'
      OBVIOUS
  <2>1. CASE UNCHANGED vars
      BY <2>1, QueuedKey DEF QueueInv, EventsInHand, QueuedIsOwned, NoEvents, has_task,
                             vars, dbVars, execVars, loopVars
  <2>2. CASE Next
      BY <2>2, LoopQueueInv, KeysMoveQueueInv, EventQueueInv, CrashQueueInv, OthersQueueInv
         DEF Next, LoopStep
  <2> QED BY <2>1, <2>2
<1> QED
    BY <1>1, <1>2, TryInvariant, PTL DEF Spec

\* No task instance is stuck in QUEUED: the executor has its key, or an event for
\* it waits to be handled, through crashes, kills, errors and reschedules.
THEOREM NothingStranded == Spec => []QueuedIsOwned
BY QueueInvariant, PTL DEF QueueInv

-----------------------------------------------------------------------------
(***************************************************************************)
(* Until the scheduler crashes or a sensor reschedules itself for the      *)
(* first time, and if no DAG has a run timeout, however many processes are *)
(* killed and database errors happen: a task instance has one process at   *)
(* work, an event that fails an attempt is the last word on its key, what  *)
(* has finished stays so, and the limits hold.  A crash or a reschedule    *)
(* gives two processes one key, which is what breaks them.                 *)
(***************************************************************************)
NoTimeouts == TimeoutDags = {}

\* The attempt k has begun, now or earlier.
Begun(k) == k[2] <= try[k[1]]

\* The executor has nothing more for the attempt k.
Through(k) == ~has_task(k)

\* One executor, which starts with nothing SCHEDULED or QUEUED.
OneScheduler ==
    /\ crashes = 0 /\ reschedules = 0 /\ pc # "down"
    /\ pc = "reset" => \A t \in TIs : state[t] = NONE

\* A key is in the executor while its row is QUEUED for that very attempt or RUNNING it;
\* afterwards it only waits to be reported.
KeyInPlace(k) ==
    /\ k \in running <=> proc[<<k, 0>>] # "absent"
    /\ k \in queued_tasks => k \notin running /\ event_matches(k)
    /\ proc[<<k, 0>>] \in {"started", "checked"} => event_matches(k)
    /\ proc[<<k, 0>>] = "failed" => event_matches(k) \/ Begun(k)
    /\ proc[<<k, 0>>] = "working" => /\ state[k[1]] = RUNNING /\ k[2] = try[k[1]]
                                     /\ attempt[<<k, 0>>] = try[k[1]]
    /\ proc[<<k, 0>>] \in {"exiting", "success"} => Begun(k)

\* An event is about an attempt that has begun, or about a QUEUED row that the executor is
\* through with, and is the only one about it.
EventInPlace(k) ==
    /\ event_buffer[k] # NoEvent => Begun(k) \/ (event_matches(k) /\ Through(k))
    /\ events[k] # NoEvent => Begun(k) \/ (event_matches(k) /\ Through(k) /\ event_buffer[k] = NoEvent)
    /\ failing = k => event_matches(k) /\ Through(k) /\ event_buffer[k] = NoEvent /\ events[k] = NoEvent

InPlace == \A k \in Keys : KeyInPlace(k) /\ EventInPlace(k)

\* A run ends when its task instances have.
RunsAreOver == \A t \in TIs : run_state[DagOf[t]] # RUNNING => state[t] \in finished

\* The limits hold for the task instances S.
Within(S) ==
    \A t \in TIs : /\ OfDag(S, DagOf[t]) <= DagConcurrency[DagOf[t]]
                   /\ OfTask(S, TaskOf[t]) <= TaskConcurrency[TaskOf[t]]
                   /\ SlotsOf(S, PoolOf[t]) <= PoolSlots[PoolOf[t]]

Busy == InState(STATES_TO_COUNT_AS_RUNNING)

\* What is chosen is within the limits too.
ChosenWithin == Within(Busy \cup chosen) /\ (pc # "queue" => chosen = {})

CalmInv == OneScheduler /\ InPlace /\ RunsAreOver /\ ChosenWithin

\* There are no processes but those of the first executor.
OneExecutor == \A p \in Procs : proc[p] # "absent" => p[2] = 0

-----------------------------------------------------------------------------
(* Counting. *)

\* Ranks are bounded, so one of them is the largest.
LEMMA RankMaximum ==
    ASSUME NEW D, D # {}, NEW N \in Nat, NEW rank, \A t \in D : rank[t] \in 1..N
    PROVE  \E t \in D : \A u \in D : rank[u] <= rank[t]
<1> DEFINE T == { n \in Nat : \E t \in D : n = N - rank[t] }
<1>1. T \subseteq Nat
    OBVIOUS
<1>2. T # {}
  <2>1. PICK t \in D : TRUE
      OBVIOUS
  <2>2. N - rank[t] \in Nat
      OBVIOUS
  <2> QED
      BY <2>1, <2>2
<1>3. PICK n \in T : \A m \in T : ~(<<m, n>> \in OpToRel(<, Nat))
  <2> HIDE DEF T
  <2> QED
      BY <1>1, <1>2, NatLessThanWellFounded, WFMin
<1>4. \A m \in T : n <= m
  <2> SUFFICES ASSUME NEW m \in T, m < n PROVE FALSE
      OBVIOUS
  <2>1. <<m, n>> \in { p \in Nat \X Nat : p[1] < p[2] }
      OBVIOUS
  <2> QED
      BY <1>3, <2>1 DEF OpToRel
<1>5. PICK t \in D : n = N - rank[t]
    OBVIOUS
<1>6. \A u \in D : rank[u] <= rank[t]
  <2> SUFFICES ASSUME NEW u \in D PROVE rank[u] <= rank[t]
      OBVIOUS
  <2>1. N - rank[u] \in T
      OBVIOUS
  <2>2. n <= N - rank[u] /\ n \in Nat /\ rank[u] \in 1..N /\ rank[t] \in 1..N
      BY <1>4, <2>1
  <2> QED
      BY <1>5, <2>2
<1> QED
    BY <1>6

SlotSet(S, pool) == UNION { {t} \X (1..Slots[t]) : t \in { u \in S : PoolOf[u] = pool } }

\* Finitely many task instances take finitely many slots.
LEMMA SlotSetIsFinite ==
    ASSUME NEW S \in SUBSET TIs, NEW pool
    PROVE  IsFiniteSet(SlotSet(S, pool))
<1> DEFINE U == { u \in S : PoolOf[u] = pool }
<1> DEFINE f == [t \in U |-> {t} \X (1..Slots[t])]
<1> DEFINE T == { {t} \X (1..Slots[t]) : t \in U }
<1>1. IsFiniteSet(U)
  <2>1. U \in SUBSET TIs
      OBVIOUS
  <2> QED
      BY <2>1, LimitsAssumption, FS_Subset
<1>2. f \in Surjection(U, T)
    BY DEF Surjection
<1>3. IsFiniteSet(T)
    BY <1>1, <1>2, FS_Surjection
<1>4. \A t \in U : IsFiniteSet({t} \X (1..Slots[t]))
  <2> SUFFICES ASSUME NEW t \in U PROVE IsFiniteSet({t} \X (1..Slots[t]))
      OBVIOUS
  <2>1. Slots[t] \in Int /\ 1 \in Int
      BY LimitsAssumption
  <2>2. IsFiniteSet(1..Slots[t])
      BY <2>1, FS_Interval
  <2>3. IsFiniteSet({t})
      BY FS_Singleton
  <2> QED
      BY <2>2, <2>3, FS_Product
<1>5. \A X \in T : IsFiniteSet(X)
    BY <1>4
<1> HIDE DEF T
<1>6. IsFiniteSet(UNION T)
    BY <1>3, <1>5, FS_UNION
<1> QED
    BY <1>6 DEF SlotSet, T

\* Fewer task instances are within the limits too.
LEMMA FewerWithin ==
    ASSUME NEW T \in SUBSET TIs, NEW S \in SUBSET T, Within(T)
    PROVE  Within(S)
<1> SUFFICES ASSUME NEW t \in TIs
             PROVE  /\ OfDag(S, DagOf[t]) <= DagConcurrency[DagOf[t]]
                    /\ OfTask(S, TaskOf[t]) <= TaskConcurrency[TaskOf[t]]
                    /\ SlotsOf(S, PoolOf[t]) <= PoolSlots[PoolOf[t]]
    BY DEF Within
<1>1. IsFiniteSet(T)
    BY LimitsAssumption, FS_Subset
<1>2. ASSUME NEW A, IsFiniteSet(A), NEW B \in SUBSET A, NEW n \in Nat, Cardinality(A) <= n
      PROVE  Cardinality(B) <= n
  <2>1. Cardinality(B) <= Cardinality(A) /\ Cardinality(B) \in Nat /\ Cardinality(A) \in Nat
      BY <1>2, FS_Subset, FS_CardinalityType
  <2> QED
      BY <1>2, <2>1
<1>3. OfDag(S, DagOf[t]) <= DagConcurrency[DagOf[t]]
  <2>1. /\ { u \in T : DagOf[u] = DagOf[t] } \in SUBSET T
        /\ { u \in S : DagOf[u] = DagOf[t] } \in SUBSET { u \in T : DagOf[u] = DagOf[t] }
      OBVIOUS
  <2>2. IsFiniteSet({ u \in T : DagOf[u] = DagOf[t] })
      BY <1>1, <2>1, FS_Subset
  <2> QED
      BY <1>2, <2>1, <2>2, LimitsAssumption DEF Within, OfDag
<1>4. OfTask(S, TaskOf[t]) <= TaskConcurrency[TaskOf[t]]
  <2>1. /\ { u \in T : TaskOf[u] = TaskOf[t] } \in SUBSET T
        /\ { u \in S : TaskOf[u] = TaskOf[t] } \in SUBSET { u \in T : TaskOf[u] = TaskOf[t] }
      OBVIOUS
  <2>2. IsFiniteSet({ u \in T : TaskOf[u] = TaskOf[t] })
      BY <1>1, <2>1, FS_Subset
  <2> QED
      BY <1>2, <2>1, <2>2, LimitsAssumption DEF Within, OfTask
<1>5. SlotsOf(S, PoolOf[t]) <= PoolSlots[PoolOf[t]]
  <2>1. SlotSet(S, PoolOf[t]) \in SUBSET SlotSet(T, PoolOf[t])
      BY DEF SlotSet
  <2>2. IsFiniteSet(SlotSet(T, PoolOf[t]))
      BY SlotSetIsFinite
  <2>3. Cardinality(SlotSet(T, PoolOf[t])) <= PoolSlots[PoolOf[t]]
      BY DEF Within, SlotsOf, SlotSet
  <2>4. Cardinality(SlotSet(S, PoolOf[t])) <= PoolSlots[PoolOf[t]]
      BY <1>2, <2>1, <2>2, <2>3, LimitsAssumption
  <2> QED
      BY <2>4 DEF SlotsOf, SlotSet
<1> QED
    BY <1>3, <1>4, <1>5

\* What one more task instance adds.
LEMMA OneMore ==
    ASSUME NEW S \in SUBSET TIs, NEW t \in TIs \ S
    PROVE  /\ OfDag(S, DagOf[t]) \in Nat /\ OfDag(S \cup {t}, DagOf[t]) = OfDag(S, DagOf[t]) + 1
           /\ OfTask(S, TaskOf[t]) \in Nat /\ OfTask(S \cup {t}, TaskOf[t]) = OfTask(S, TaskOf[t]) + 1
           /\ SlotsOf(S, PoolOf[t]) \in Nat
           /\ SlotsOf(S \cup {t}, PoolOf[t]) = SlotsOf(S, PoolOf[t]) + Slots[t]
<1>1. OfDag(S, DagOf[t]) \in Nat /\ OfDag(S \cup {t}, DagOf[t]) = OfDag(S, DagOf[t]) + 1
  <2> DEFINE X == { u \in S : DagOf[u] = DagOf[t] }
  <2>1. X \in SUBSET TIs /\ t \notin X
      OBVIOUS
  <2>2. IsFiniteSet(X)
      BY <2>1, LimitsAssumption, FS_Subset
  <2>3. { u \in S \cup {t} : DagOf[u] = DagOf[t] } = X \cup {t}
      OBVIOUS
  <2>4. Cardinality(X \cup {t}) = Cardinality(X) + 1 /\ Cardinality(X) \in Nat
      BY <2>1, <2>2, FS_AddElement, FS_CardinalityType
  <2> QED
      BY <2>3, <2>4 DEF OfDag
<1>2. OfTask(S, TaskOf[t]) \in Nat /\ OfTask(S \cup {t}, TaskOf[t]) = OfTask(S, TaskOf[t]) + 1
  <2> DEFINE X == { u \in S : TaskOf[u] = TaskOf[t] }
  <2>1. X \in SUBSET TIs /\ t \notin X
      OBVIOUS
  <2>2. IsFiniteSet(X)
      BY <2>1, LimitsAssumption, FS_Subset
  <2>3. { u \in S \cup {t} : TaskOf[u] = TaskOf[t] } = X \cup {t}
      OBVIOUS
  <2>4. Cardinality(X \cup {t}) = Cardinality(X) + 1 /\ Cardinality(X) \in Nat
      BY <2>1, <2>2, FS_AddElement, FS_CardinalityType
  <2> QED
      BY <2>3, <2>4 DEF OfTask
<1>3. /\ SlotsOf(S, PoolOf[t]) \in Nat
      /\ SlotsOf(S \cup {t}, PoolOf[t]) = SlotsOf(S, PoolOf[t]) + Slots[t]
  <2> DEFINE A == SlotSet(S, PoolOf[t])
  <2> DEFINE B == {t} \X (1..Slots[t])
  <2>1. IsFiniteSet(A) /\ Cardinality(A) \in Nat
      BY SlotSetIsFinite, FS_CardinalityType
  <2>2. IsFiniteSet(B) /\ Cardinality(B) = Slots[t]
    <3>1. IsFiniteSet({t}) /\ Cardinality({t}) = 1
        BY FS_Singleton
    <3>2. IsFiniteSet(1..Slots[t]) /\ Cardinality(1..Slots[t]) = Slots[t]
      <4>1. Slots[t] \in Nat /\ Slots[t] \in Int /\ 1 \in Int
          BY LimitsAssumption
      <4>2. /\ IsFiniteSet(1..Slots[t])
            /\ Cardinality(1..Slots[t]) = IF 1 > Slots[t] THEN 0 ELSE Slots[t] - 1 + 1
          BY <4>1, FS_Interval
      <4> QED
          BY <4>1, <4>2
    <3>3. IsFiniteSet(B) /\ Cardinality(B) = 1 * Slots[t]
        BY <3>1, <3>2, FS_Product
    <3> QED
        BY <3>3, LimitsAssumption
  <2>3. A \cap B = {}
    <3>1. \A x \in A : x[1] \in S
        BY DEF SlotSet
    <3> QED
        BY <3>1
  <2>4. SlotSet(S \cup {t}, PoolOf[t]) = A \cup B
      BY DEF SlotSet
  <2>5. Cardinality(A \cup B) = Cardinality(A) + Cardinality(B) - Cardinality(A \cap B)
      BY <2>1, <2>2, FS_Union
  <2>6. Cardinality(A \cap B) = 0
      BY <2>3, FS_EmptySet
  <2>7. SlotsOf(S, PoolOf[t]) = Cardinality(A) /\ SlotsOf(S \cup {t}, PoolOf[t]) = Cardinality(A \cup B)
      BY <2>4 DEF SlotsOf, SlotSet
  <2> HIDE DEF A, B
  <2> QED
      BY <2>1, <2>2, <2>5, <2>6, <2>7, LimitsAssumption
<1> QED
    BY <1>1, <1>2, <1>3

\* The greedy loop of _find_executable_task_instances stays within the limits: of the chosen
\* ones that share a limit, the last that was taken found room for itself.
LEMMA FindWithin ==
    ASSUME Within(Busy), find_executable_task_instances
    PROVE  Within(Busy \cup chosen')
<1> DEFINE cand == { t \in InState({SCHEDULED}) : DagOf[t] \in bag }
<1>1. PICK rank \in Orders(cand), S \in SUBSET cand :
        /\ \A t \in cand : (t \in S) <=> admit(t, { u \in S : rank[u] < rank[t] })
        /\ chosen' = S
    BY DEF find_executable_task_instances
<1>2. Busy \in SUBSET TIs /\ S \in SUBSET TIs /\ Busy \cap S = {}
    BY DEF Busy, InState, STATES_TO_COUNT_AS_RUNNING
<1>3. Cardinality(cand) \in Nat
  <2>1. cand \in SUBSET TIs
      BY DEF InState
  <2> QED
      BY <2>1, LimitsAssumption, FS_Subset, FS_CardinalityType
<1>4. /\ \A t \in S : rank[t] \in 1..Cardinality(cand)
      /\ \A t, u \in S : t # u => rank[t] # rank[u]
    BY DEF Orders
<1> DEFINE Before(t) == { u \in S : rank[u] < rank[t] }
<1>5. \A t \in S : admit(t, Before(t))
    BY <1>1
<1> HIDE DEF cand
<1>6. ASSUME NEW D \in SUBSET S, D # {}
      PROVE  \E t \in D : D \ {t} \subseteq Before(t)
  <2>1. PICK t \in D : \A u \in D : rank[u] <= rank[t]
    <3>1. \A t \in D : rank[t] \in 1..Cardinality(cand)
        BY <1>4, <1>6
    <3> QED
        BY <1>3, <1>6, <3>1, RankMaximum
  <2>2. ASSUME NEW u \in D \ {t} PROVE rank[u] < rank[t]
    <3>1. rank[u] \in Int /\ rank[t] \in Int /\ rank[u] # rank[t]
        BY <1>4, <1>6, <2>1, <2>2
    <3> QED
        BY <2>1, <3>1
  <2> QED
      BY <1>6, <2>1, <2>2
<1> SUFFICES ASSUME NEW x \in TIs
             PROVE  /\ OfDag(Busy \cup S, DagOf[x]) <= DagConcurrency[DagOf[x]]
                    /\ OfTask(Busy \cup S, TaskOf[x]) <= TaskConcurrency[TaskOf[x]]
                    /\ SlotsOf(Busy \cup S, PoolOf[x]) <= PoolSlots[PoolOf[x]]
    BY <1>1 DEF Within
<1>7. OfDag(Busy \cup S, DagOf[x]) <= DagConcurrency[DagOf[x]]
  <2> DEFINE D == { t \in S : DagOf[t] = DagOf[x] }
  <2>1. CASE D = {}
    <3>1. { t \in Busy \cup S : DagOf[t] = DagOf[x] } = { t \in Busy : DagOf[t] = DagOf[x] }
        BY <2>1
    <3> QED
        BY <3>1 DEF Within, OfDag
  <2>2. CASE D # {}
    <3>1. PICK t \in D : D \ {t} \subseteq Before(t)
        BY <1>6, <2>2
    <3>2. Busy \cup Before(t) \in SUBSET TIs /\ t \in TIs \ (Busy \cup Before(t)) /\ DagOf[t] = DagOf[x]
        BY <1>2, <1>4
    <3>3. { u \in Busy \cup S : DagOf[u] = DagOf[x] }
          = { u \in (Busy \cup Before(t)) \cup {t} : DagOf[u] = DagOf[x] }
        BY <3>1
    <3>4. OfDag(Busy \cup S, DagOf[x]) = OfDag((Busy \cup Before(t)) \cup {t}, DagOf[x])
        BY <3>3 DEF OfDag
    <3>5. /\ OfDag(Busy \cup Before(t), DagOf[x]) \in Nat
          /\ OfDag((Busy \cup Before(t)) \cup {t}, DagOf[x]) = OfDag(Busy \cup Before(t), DagOf[x]) + 1
        BY <3>2, OneMore
    <3>6. OfDag(Busy \cup Before(t), DagOf[x]) < DagConcurrency[DagOf[x]]
        BY <1>5, <3>2 DEF admit, Busy
    <3> QED
        BY <3>4, <3>5, <3>6, LimitsAssumption
  <2> QED
      BY <2>1, <2>2
<1>8. OfTask(Busy \cup S, TaskOf[x]) <= TaskConcurrency[TaskOf[x]]
  <2> DEFINE D == { t \in S : TaskOf[t] = TaskOf[x] }
  <2>1. CASE D = {}
    <3>1. { t \in Busy \cup S : TaskOf[t] = TaskOf[x] } = { t \in Busy : TaskOf[t] = TaskOf[x] }
        BY <2>1
    <3> QED
        BY <3>1 DEF Within, OfTask
  <2>2. CASE D # {}
    <3>1. PICK t \in D : D \ {t} \subseteq Before(t)
        BY <1>6, <2>2
    <3>2. Busy \cup Before(t) \in SUBSET TIs /\ t \in TIs \ (Busy \cup Before(t)) /\ TaskOf[t] = TaskOf[x]
        BY <1>2, <1>4
    <3>3. { u \in Busy \cup S : TaskOf[u] = TaskOf[x] }
          = { u \in (Busy \cup Before(t)) \cup {t} : TaskOf[u] = TaskOf[x] }
        BY <3>1
    <3>4. OfTask(Busy \cup S, TaskOf[x]) = OfTask((Busy \cup Before(t)) \cup {t}, TaskOf[x])
        BY <3>3 DEF OfTask
    <3>5. /\ OfTask(Busy \cup Before(t), TaskOf[x]) \in Nat
          /\ OfTask((Busy \cup Before(t)) \cup {t}, TaskOf[x]) = OfTask(Busy \cup Before(t), TaskOf[x]) + 1
        BY <3>2, OneMore
    <3>6. OfTask(Busy \cup Before(t), TaskOf[x]) < TaskConcurrency[TaskOf[x]]
        BY <1>5, <3>2 DEF admit, Busy
    <3> QED
        BY <3>4, <3>5, <3>6, LimitsAssumption
  <2> QED
      BY <2>1, <2>2
<1>9. SlotsOf(Busy \cup S, PoolOf[x]) <= PoolSlots[PoolOf[x]]
  <2> DEFINE D == { t \in S : PoolOf[t] = PoolOf[x] }
  <2>1. CASE D = {}
    <3>1. { t \in Busy \cup S : PoolOf[t] = PoolOf[x] } = { t \in Busy : PoolOf[t] = PoolOf[x] }
        BY <2>1
    <3> QED
        BY <3>1 DEF Within, SlotsOf
  <2>2. CASE D # {}
    <3>1. PICK t \in D : D \ {t} \subseteq Before(t)
        BY <1>6, <2>2
    <3>2. Busy \cup Before(t) \in SUBSET TIs /\ t \in TIs \ (Busy \cup Before(t)) /\ PoolOf[t] = PoolOf[x]
        BY <1>2, <1>4
    <3>3. { u \in Busy \cup S : PoolOf[u] = PoolOf[x] }
          = { u \in (Busy \cup Before(t)) \cup {t} : PoolOf[u] = PoolOf[x] }
        BY <3>1
    <3>4. SlotsOf(Busy \cup S, PoolOf[x]) = SlotsOf((Busy \cup Before(t)) \cup {t}, PoolOf[x])
        BY <3>3 DEF SlotsOf
    <3>5. SlotsOf((Busy \cup Before(t)) \cup {t}, PoolOf[x]) = SlotsOf(Busy \cup Before(t), PoolOf[x]) + Slots[t]
        BY <3>2, OneMore
    <3>6. SlotsOf(Busy \cup Before(t), PoolOf[x]) + Slots[t] <= PoolSlots[PoolOf[x]]
        BY <1>5, <3>2 DEF admit, Busy
    <3> QED
        BY <3>4, <3>5, <3>6
  <2> QED
      BY <2>1, <2>2
<1> QED
    BY <1>7, <1>8, <1>9

\* A QUEUED row finds room when its process looks: it has been counted already.
LEMMA QueuedHasRoom ==
    ASSUME NEW t \in TIs, state[t] = QUEUED, Within(Busy)
    PROVE  RunningDeps(t)
<1> DEFINE R == InState({RUNNING})
<1>1. R \in SUBSET TIs /\ t \in TIs \ R /\ Busy \ {t} \in SUBSET TIs /\ t \in TIs \ (Busy \ {t})
    BY DEF InState, Busy
<1>2. R \cup {t} \in SUBSET Busy /\ Busy \in SUBSET TIs /\ (Busy \ {t}) \cup {t} = Busy
    BY DEF InState, Busy, STATES_TO_COUNT_AS_RUNNING
<1>3. Within(R \cup {t})
    BY <1>2, FewerWithin
<1>4. /\ OfDag(R, DagOf[t]) \in Nat /\ OfDag(R, DagOf[t]) + 1 <= DagConcurrency[DagOf[t]]
      /\ OfTask(R, TaskOf[t]) \in Nat /\ OfTask(R, TaskOf[t]) + 1 <= TaskConcurrency[TaskOf[t]]
    BY <1>1, <1>3, OneMore DEF Within
<1>5. SlotsOf(Busy \ {t}, PoolOf[t]) + Slots[t] <= PoolSlots[PoolOf[t]]
    BY <1>1, <1>2, OneMore DEF Within
<1>6. DagConcurrency[DagOf[t]] \in Nat /\ TaskConcurrency[TaskOf[t]] \in Nat
    BY LimitsAssumption
<1>7. OfDag(R, DagOf[t]) < DagConcurrency[DagOf[t]] /\ OfTask(R, TaskOf[t]) < TaskConcurrency[TaskOf[t]]
    BY <1>4, <1>6
<1> QED
    BY <1>5, <1>7 DEF RunningDeps, Busy

-----------------------------------------------------------------------------
(* The steps of a calm scheduler. *)

\* An event matches a row that is QUEUED for the next attempt.
LEMMA Matches ==
    ASSUME NEW k \in Keys
    PROVE  /\ event_matches(k) <=> (state[k[1]] = QUEUED /\ k[2] = try[k[1]] + 1)
           /\ event_matches(k)' <=> (state'[k[1]] = QUEUED /\ k[2] = try'[k[1]] + 1)
<1>1. k = <<k[1], k[2]>>
    BY KeyParts
<1> QED
    BY <1>1 DEF event_matches, KeyOf, try_number

\* The processes of the first executor are named by their keys.
LEMMA CalmProcs ==
    /\ \A p \in Procs : /\ p[1] \in Keys /\ TIof(p) = p[1][1] /\ TIof(p) \in TIs
                        /\ p[2] = 0 => p = <<p[1], 0>>
    /\ \A k \in Keys : <<k, 0>> \in Procs
<1>1. 0 \in 0..MaxCrashes
    BY BoundsAssumption
<1> QED
    BY <1>1, KeyParts DEF TIof

\* The limits hold for fewer task instances.
LEMMA ShrinkWithin ==
    ASSUME TypeOK, ChosenWithin, Busy' \cup chosen' \subseteq Busy \cup chosen,
           pc' # "queue" => chosen' = {}
    PROVE  ChosenWithin'
<1>1. Busy \cup chosen \in SUBSET TIs
    BY DEF TypeOK, Busy, InState
<1>2. Within(Busy' \cup chosen')
    BY <1>1, FewerWithin DEF ChosenWithin
<1> QED
    BY <1>2 DEF ChosenWithin, Within, OfDag, OfTask, SlotsOf

\* Steps that touch no key, and no row that is QUEUED or RUNNING.
LEMMA RowsInPlace ==
    ASSUME TryInv, InPlace, UNCHANGED <<try, execVars, events, failing, proc, attempt>>,
           \A t \in TIs : \/ state'[t] = state[t]
                          \/ state[t] \notin {QUEUED, RUNNING} /\ state'[t] \notin {QUEUED, RUNNING}
    PROVE  InPlace' /\ Busy' = Busy
<1>1. Busy' = Busy
    BY DEF Busy, InState, STATES_TO_COUNT_AS_RUNNING
<1>2. \A k \in Keys : event_matches(k)' <=> event_matches(k)
    BY Matches, KeyParts
<1>3. \A k \in Keys : state[k[1]] = RUNNING => state'[k[1]] = RUNNING
    BY KeyParts
<1> QED
    BY <1>1, <1>2, <1>3 DEF InPlace, KeyInPlace, EventInPlace, Begun, Through, has_task, execVars

\* The loop looks at the rows.
LEMMA LoopCalm ==
    ASSUME TryInv, CalmInv,
           \/ reset_state_for_orphaned_tasks \/ harvest \/ fail_tis_without_dagrun
           \/ unschedule_tis_without_dagrun \/ find_executable_task_instances \/ error_queuing_tasks
           \/ end_of_loop
    PROVE  CalmInv'
<1>1. /\ UNCHANGED <<try, run_state, execVars, events, failing, procVars, reschedules>>
      /\ pc' \notin {"down", "reset"}
    BY DEF reset_state_for_orphaned_tasks, harvest, fail_tis_without_dagrun, unschedule_tis_without_dagrun,
           change_state_for_tis_without_dagrun, find_executable_task_instances, error_queuing_tasks,
           end_of_loop, dbVars, faultVars
<1>2. \A t \in TIs : state'[t] = state[t] \/ (state[t] = UP_FOR_RETRY /\ state'[t] = FAILED)
  <2>1. CASE reset_state_for_orphaned_tasks
      BY <2>1 DEF reset_state_for_orphaned_tasks, SetState, InState, CalmInv, OneScheduler
  <2>2. CASE unschedule_tis_without_dagrun
      BY <2>2 DEF unschedule_tis_without_dagrun, change_state_for_tis_without_dagrun, SetState, InState,
                  CalmInv, RunsAreOver, finished
  <2>3. CASE fail_tis_without_dagrun
      BY <2>3 DEF fail_tis_without_dagrun, change_state_for_tis_without_dagrun, SetState, InState
  <2>4. CASE harvest \/ find_executable_task_instances \/ error_queuing_tasks \/ end_of_loop
      BY <2>4 DEF harvest, find_executable_task_instances, error_queuing_tasks, end_of_loop, dbVars
  <2> QED
      BY <2>1, <2>2, <2>3, <2>4
<1>3. InPlace' /\ Busy' = Busy
    BY <1>1, <1>2, RowsInPlace DEF CalmInv, procVars
<1>4. RunsAreOver'
    BY <1>1, <1>2 DEF CalmInv, RunsAreOver, finished
<1>5. ChosenWithin'
  <2>1. CASE find_executable_task_instances
    <3>1. chosen = {} /\ (pc' # "queue" => chosen' = {})
        BY <2>1 DEF find_executable_task_instances, CalmInv, ChosenWithin
    <3>2. Busy \cup chosen = Busy
        BY <3>1
    <3>3. Within(Busy)
        BY <3>2 DEF CalmInv, ChosenWithin
    <3>4. Within(Busy \cup chosen')
        BY <2>1, <3>3, FindWithin
    <3>5. Within(Busy' \cup chosen')
        BY <1>3, <3>4
    <3> QED
        BY <3>1, <3>5 DEF ChosenWithin, Within, OfDag, OfTask, SlotsOf
  <2>2. CASE ~find_executable_task_instances
    <3>1. chosen' \subseteq chosen /\ (pc' # "queue" => chosen' = {})
        BY <2>2 DEF reset_state_for_orphaned_tasks, harvest, fail_tis_without_dagrun,
                    unschedule_tis_without_dagrun, change_state_for_tis_without_dagrun,
                    error_queuing_tasks, end_of_loop, CalmInv, ChosenWithin
    <3> QED
        BY <1>3, <3>1, ShrinkWithin DEF CalmInv, TryInv
  <2> QED
      BY <2>1, <2>2
<1>6. OneScheduler'
    BY <1>1 DEF CalmInv, OneScheduler, procVars
<1> QED
    BY <1>3, <1>4, <1>5, <1>6 DEF CalmInv

\* process_file touches only rows that wait, and ends a run with all its rows.
LEMMA FileCalm ==
    ASSUME NoTimeouts, TryInv, CalmInv, NEW d \in Dags, NEW due, process_file(d, due)
    PROVE  CalmInv'
<1>1. /\ UNCHANGED <<try, execVars, pc, chosen, events, failing, procVars, reschedules>>
      /\ pc \notin {"down", "reset"}
    BY DEF process_file, faultVars
<1>2. \A t \in TIs : \/ state'[t] = state[t]
                     \/ state[t] \in SCHEDULEABLE_STATES /\ state'[t] \in {SUCCESS, SCHEDULED} /\ DagOf[t] = d
    BY DEF process_file, SetState, InState
<1>3. InPlace' /\ Busy' = Busy
    BY <1>1, <1>2, RowsInPlace DEF CalmInv, procVars, SCHEDULEABLE_STATES
<1>4. RunsAreOver'
  <2>1. CASE run_state[d] = RUNNING
    <3>1. run_state' = [run_state EXCEPT ![d] = update_state(d)]
        BY <2>1 DEF process_file, NoTimeouts
    <3>2. update_state(d) # RUNNING => \A t \in TIs : DagOf[t] = d => state[t] \notin unfinished
        BY DEF update_state
    <3>3. \A t \in TIs : state[t] \in unfinished \cup finished
        BY DEF TryInv, TypeOK, TaskStates, unfinished, finished
    <3>4. \A t \in TIs : state[t] \in finished => state'[t] = state[t]
        BY <1>2 DEF finished, SCHEDULEABLE_STATES
    <3>5. \A e \in Dags \ {d} : run_state'[e] = run_state[e]
        BY <3>1 DEF TryInv, TypeOK
    <3>6. run_state'[d] = update_state(d)
        BY <3>1 DEF TryInv, TypeOK
    <3> QED
        BY <3>2, <3>3, <3>4, <3>5, <3>6, DagAssumption DEF CalmInv, RunsAreOver
  <2>2. CASE run_state[d] # RUNNING
      BY <2>2 DEF process_file, CalmInv, RunsAreOver
  <2> QED
      BY <2>1, <2>2
<1>5. ChosenWithin'
    BY <1>1, <1>3, ShrinkWithin DEF CalmInv, TryInv, ChosenWithin
<1>6. OneScheduler'
    BY <1>1 DEF CalmInv, OneScheduler, procVars
<1> QED
    BY <1>3, <1>4, <1>5, <1>6 DEF CalmInv

\* A chosen row is QUEUED under a key that nobody has.
LEMMA ExecuteCalm ==
    ASSUME TryInv, CalmInv, execute_task_instances
    PROVE  CalmInv'
<1>1. PICK chunk \in SUBSET chosen :
        LET Q == { t \in chunk : state[t] = SCHEDULED }
        IN  /\ SetState(Q, [t \in TIs |-> QUEUED])
            /\ queue_commands({ KeyOf(t) : t \in Q })
            /\ chosen' = chosen \ chunk
    BY DEF execute_task_instances
<1> DEFINE Q == { t \in chunk : state[t] = SCHEDULED }
<1>2. /\ pc = "queue" /\ pc' = IF chosen' = {} THEN "trigger" ELSE "queue"
      /\ UNCHANGED <<try, run_state, running, event_buffer, events, failing, procVars, reschedules>>
    BY DEF execute_task_instances, faultVars
<1>3. /\ \A t \in TIs : state'[t] = IF t \in Q THEN QUEUED ELSE state[t]
      /\ queued_tasks' = queued_tasks \cup ({ KeyOf(t) : t \in Q } \ running)
      /\ Q \subseteq chosen
    BY <1>1 DEF SetState, queue_commands
<1>4. \A t \in Q : KeyOf(t) = <<t, try[t] + 1>>
    BY DEF KeyOf, try_number
<1> HIDE DEF Q
<1>5. ASSUME NEW k \in Keys, k[1] \notin Q PROVE KeyInPlace(k)' /\ EventInPlace(k)'
  <2>1. k[1] \in TIs
      BY KeyParts
  <2>2. state'[k[1]] = state[k[1]] /\ (event_matches(k)' <=> event_matches(k))
      BY <1>2, <1>3, <1>5, <2>1, Matches
  <2>3. k \in queued_tasks' => k \in queued_tasks
      BY <1>3, <1>4, <1>5
  <2>4. Through(k)' <=> Through(k)
      BY <1>2, <1>3, <1>4, <1>5 DEF Through, has_task
  <2>5. KeyInPlace(k) /\ EventInPlace(k)
      BY DEF CalmInv, InPlace
  <2> QED
      BY <1>2, <2>2, <2>3, <2>4, <2>5 DEF KeyInPlace, EventInPlace, Begun, procVars
<1>6. ASSUME NEW k \in Keys, k[1] \in Q PROVE KeyInPlace(k)' /\ EventInPlace(k)'
  <2>1. k[1] \in TIs /\ k = <<k[1], k[2]>>
      BY KeyParts
  <2>2. state[k[1]] = SCHEDULED /\ state'[k[1]] = QUEUED
      BY <1>3, <1>6, <2>1 DEF Q
  <2>3. ~event_matches(k) /\ (event_matches(k)' <=> k[2] = try[k[1]] + 1)
      BY <1>2, <2>2, Matches
  <2>4. KeyInPlace(k) /\ EventInPlace(k)
      BY DEF CalmInv, InPlace
  <2>5. k \in queued_tasks' => k \notin running /\ event_matches(k)'
      BY <1>3, <1>4, <2>1, <2>3, <2>4 DEF KeyInPlace
  <2>6. KeyInPlace(k)'
      BY <1>2, <2>2, <2>3, <2>4, <2>5 DEF KeyInPlace, Begun, procVars
  <2>7. EventInPlace(k)'
      BY <1>2, <2>3, <2>4 DEF EventInPlace, Begun
  <2> QED
      BY <2>6, <2>7
<1>7. RunsAreOver'
    BY <1>2, <1>3 DEF CalmInv, RunsAreOver, finished, Q
<1>8. ChosenWithin'
  <2>1. Busy' \subseteq Busy \cup Q
      BY <1>3 DEF Busy, InState
  <2> QED
      BY <1>1, <1>2, <1>3, <2>1, ShrinkWithin DEF CalmInv, TryInv
<1>9. OneScheduler'
    BY <1>2 DEF CalmInv, OneScheduler, procVars
<1> QED
    BY <1>5, <1>6, <1>7, <1>8, <1>9 DEF CalmInv, InPlace

\* Steps of the executor and the event loop leave the rows alone.
LEMMA SameRows ==
    ASSUME CalmInv, TryInv, UNCHANGED <<dbVars, chosen, crashes, reschedules>>,
           pc \notin {"queue", "reset"}, pc' \notin {"queue", "reset", "down"}
    PROVE  /\ OneScheduler' /\ RunsAreOver' /\ ChosenWithin'
           /\ \A k \in Keys : /\ event_matches(k)' <=> event_matches(k)
                              /\ Begun(k)' <=> Begun(k)
<1>1. UNCHANGED <<state, try, run_state>>
    BY DEF dbVars
<1>2. Busy' = Busy
    BY <1>1 DEF Busy, InState
<1>3. ChosenWithin'
    BY <1>2, ShrinkWithin DEF CalmInv, TryInv, ChosenWithin
<1>4. OneScheduler' /\ RunsAreOver'
    BY <1>1 DEF CalmInv, OneScheduler, RunsAreOver
<1> QED
    BY <1>1, <1>3, <1>4, Matches DEF Begun

\* A key moves from queued_tasks to running with its process.
LEMMA HeartbeatCalm ==
    ASSUME TryInv, CalmInv, executor_heartbeat
    PROVE  CalmInv'
<1>1. PICK T \in SUBSET queued_tasks :
        /\ trigger_tasks(T, open_slots(Parallelism))
        /\ proc' = [p \in Procs |-> IF p[1] \in T /\ p[2] = crashes THEN "started" ELSE proc[p]]
    BY DEF executor_heartbeat
<1>2. /\ pc = "trigger" /\ pc' = "sync" /\ UNCHANGED <<dbVars, chosen, events, failing, attempt, crashes, reschedules>>
      /\ queued_tasks' = queued_tasks \ T /\ running' = running \cup T /\ UNCHANGED event_buffer
    BY <1>1 DEF executor_heartbeat, faultVars, trigger_tasks
<1>3. /\ OneScheduler' /\ RunsAreOver' /\ ChosenWithin'
      /\ \A k \in Keys : /\ event_matches(k)' <=> event_matches(k)
                         /\ Begun(k)' <=> Begun(k)
    BY <1>2, SameRows
<1>4. ASSUME NEW k \in Keys PROVE KeyInPlace(k)' /\ EventInPlace(k)'
  <2>1. KeyInPlace(k) /\ EventInPlace(k)
      BY DEF CalmInv, InPlace
  <2>2. proc'[<<k, 0>>] = IF k \in T THEN "started" ELSE proc[<<k, 0>>]
      BY <1>1, CalmProcs DEF CalmInv, OneScheduler
  <2>3. Through(k)' <=> Through(k)
      BY <1>2 DEF Through, has_task
  <2>4. KeyInPlace(k)'
      BY <1>2, <1>3, <2>1, <2>2 DEF KeyInPlace, dbVars
  <2> QED
      BY <1>2, <1>3, <2>1, <2>3, <2>4 DEF EventInPlace
<1> QED
    BY <1>3, <1>4 DEF CalmInv, InPlace

\* sync: an attempt is reported when its process has ended, and the executor is then through
\* with it.
LEMMA SyncCalm ==
    ASSUME TryInv, EventsInHand, CalmInv, executor_sync
    PROVE  CalmInv'
<1> DEFINE ended == { k \in Keys : proc[<<k, crashes>>] \in EventStates }
<1>1. crashes = 0
    BY DEF CalmInv, OneScheduler
<1>2. /\ pc = "sync" /\ pc' = "leftover" /\ UNCHANGED <<dbVars, chosen, events, failing, attempt, crashes, reschedules>>
      /\ running' = running \ ended /\ UNCHANGED queued_tasks
      /\ event_buffer' = [k \in Keys |-> IF k \in ended THEN [j \in ended |-> proc[<<j, crashes>>]][k]
                                                         ELSE event_buffer[k]]
      /\ proc' = [p \in Procs |-> IF p[1] \in ended /\ p[2] = crashes THEN "absent" ELSE proc[p]]
    BY DEF executor_sync, faultVars, change_states
<1>3. /\ OneScheduler' /\ RunsAreOver' /\ ChosenWithin'
      /\ \A k \in Keys : /\ event_matches(k)' <=> event_matches(k)
                         /\ Begun(k)' <=> Begun(k)
    BY <1>2, SameRows
<1>4. events = NoEvents /\ failing = NoFailing
    BY <1>2 DEF EventsInHand
<1>5. ASSUME NEW k \in Keys PROVE KeyInPlace(k)' /\ EventInPlace(k)'
  <2>1. KeyInPlace(k) /\ EventInPlace(k)
      BY DEF CalmInv, InPlace
  <2>2. /\ k \in ended <=> proc[<<k, 0>>] \in {"success", "failed"}
        /\ proc'[<<k, 0>>] = IF k \in ended THEN "absent" ELSE proc[<<k, 0>>]
        /\ k \notin ended => event_buffer'[k] = event_buffer[k]
      BY <1>1, <1>2, CalmProcs DEF EventStates
  <2>3. KeyInPlace(k)'
      BY <1>2, <1>3, <2>1, <2>2 DEF KeyInPlace, dbVars
  <2>4. Through(k) => Through(k)'
      BY <1>2 DEF Through, has_task
  <2>5. (k \in ended /\ ~Begun(k)) => event_matches(k) /\ Through(k)'
      BY <1>2, <2>1, <2>2 DEF KeyInPlace, Through, has_task
  <2>6. k \in ended => Begun(k) \/ (event_matches(k) /\ Through(k)')
      BY <2>5
  <2>7. events'[k] = NoEvent /\ failing' # k
      BY <1>2, <1>4, KeyParts DEF NoEvents
  <2>8. event_buffer'[k] # NoEvent => Begun(k)' \/ (event_matches(k)' /\ Through(k)')
      BY <1>3, <2>1, <2>2, <2>4, <2>6 DEF EventInPlace
  <2> QED
      BY <2>3, <2>7, <2>8 DEF EventInPlace
<1> QED
    BY <1>3, <1>5 DEF CalmInv, InPlace

\* What the heartbeat had no slot for is SCHEDULED again, and its key is given back.
LEMMA LeftoverCalm ==
    ASSUME TryInv, CalmInv, change_state_for_tasks_failed_to_execute
    PROVE  CalmInv'
<1> DEFINE L == { t \in InState({QUEUED}) : KeyOf(t) \in queued_tasks }
<1>1. /\ pc = "leftover" /\ pc' = "events"
      /\ UNCHANGED <<try, run_state, running, event_buffer, chosen, events, failing, procVars, reschedules>>
      /\ queued_tasks' = queued_tasks \ { KeyOf(t) : t \in L }
      /\ \A t \in TIs : state'[t] = IF t \in L THEN SCHEDULED ELSE state[t]
    BY DEF change_state_for_tasks_failed_to_execute, SetState, faultVars
<1>2. \A t \in L : /\ t \in TIs /\ state[t] = QUEUED
                   /\ KeyOf(t) = <<t, try[t] + 1>> /\ KeyOf(t) \in queued_tasks
    BY DEF InState, KeyOf, try_number
<1> HIDE DEF L
<1>3. ASSUME NEW k \in Keys PROVE KeyInPlace(k)' /\ EventInPlace(k)'
  <2>1. KeyInPlace(k) /\ EventInPlace(k) /\ k[1] \in TIs /\ k = <<k[1], k[2]>>
      BY KeyParts DEF CalmInv, InPlace
  <2>2. queued_tasks' \subseteq queued_tasks
      BY <1>1
  <2>3. CASE k[1] \notin L
    <3>1. state'[k[1]] = state[k[1]] /\ (event_matches(k)' <=> event_matches(k))
        BY <1>1, <2>1, <2>3, Matches
    <3>2. Through(k) => Through(k)'
        BY <1>1, <2>2 DEF Through, has_task
    <3> QED
        BY <1>1, <2>1, <2>2, <3>1, <3>2 DEF KeyInPlace, EventInPlace, Begun, procVars
  <2>4. CASE k[1] \in L
    <3>1. state[k[1]] = QUEUED /\ KeyOf(k[1]) \in queued_tasks /\ KeyOf(k[1]) = <<k[1], try[k[1]] + 1>>
        BY <1>2, <2>4
    <3>2. event_matches(k) => k = KeyOf(k[1])
        BY DEF event_matches
    <3>3. ~(event_matches(k) /\ Through(k))
        BY <3>1, <3>2 DEF Through, has_task
    <3>4. k \notin queued_tasks'
        BY <1>1, <2>1, <2>4, <3>2 DEF KeyInPlace
    <3>5. proc[<<k, 0>>] \notin {"started", "checked", "working"} /\ (proc[<<k, 0>>] = "failed" => Begun(k))
        BY <2>1, <3>1, <3>2 DEF KeyInPlace
    <3> QED
        BY <1>1, <2>1, <3>3, <3>4, <3>5 DEF KeyInPlace, EventInPlace, Begun, procVars
  <2> QED
      BY <2>3, <2>4
<1>4. RunsAreOver'
    BY <1>1, <1>2 DEF CalmInv, RunsAreOver, finished
<1>5. Busy' \subseteq Busy
    BY <1>1 DEF Busy, InState, STATES_TO_COUNT_AS_RUNNING
<1>6. ChosenWithin'
    BY <1>1, <1>5, ShrinkWithin DEF CalmInv, TryInv, ChosenWithin
<1>7. OneScheduler'
    BY <1>1 DEF CalmInv, OneScheduler, procVars
<1> QED
    BY <1>3, <1>4, <1>6, <1>7 DEF CalmInv, InPlace

\* Events move from the buffer to the hands of the loop.
LEMMA GetEventsCalm ==
    ASSUME TryInv, EventsInHand, CalmInv, get_event_buffer
    PROVE  CalmInv'
<1>1. /\ pc = "events" /\ pc' = "handle"
      /\ UNCHANGED <<dbVars, queued_tasks, running, chosen, failing, procVars, reschedules>>
    BY DEF get_event_buffer, faultVars
<1>2. /\ OneScheduler' /\ RunsAreOver' /\ ChosenWithin'
      /\ \A k \in Keys : /\ event_matches(k)' <=> event_matches(k)
                         /\ Begun(k)' <=> Begun(k)
    BY <1>1, SameRows DEF procVars
<1>3. failing = NoFailing
    BY <1>1 DEF EventsInHand
<1>4. ASSUME NEW k \in Keys PROVE KeyInPlace(k)' /\ EventInPlace(k)'
  <2>1. KeyInPlace(k) /\ EventInPlace(k)
      BY DEF CalmInv, InPlace
  <2>2. \/ events'[k] = event_buffer[k] /\ event_buffer'[k] = NoEvent
        \/ events'[k] = NoEvent /\ event_buffer'[k] = event_buffer[k]
      BY DEF get_event_buffer, flush_events
  <2>3. Through(k)' <=> Through(k)
      BY <1>1 DEF Through, has_task
  <2>4. KeyInPlace(k)'
      BY <1>1, <1>2, <2>1 DEF KeyInPlace, dbVars, procVars
  <2>5. failing' # k
      BY <1>1, <1>3, KeyParts
  <2> QED
      BY <1>2, <2>1, <2>2, <2>3, <2>4, <2>5 DEF EventInPlace
<1> QED
    BY <1>2, <1>4 DEF CalmInv, InPlace

\* A row that is still QUEUED has not begun the attempt.
LEMMA MatchIsNotBegun ==
    ASSUME TryInv, NEW k \in Keys, event_matches(k)
    PROVE  ~Begun(k)
<1>1. k[2] = try[k[1]] + 1
    BY Matches
<1>2. try[k[1]] \in Int
    BY KeyParts DEF TryInv, TypeOK
<1> QED
    BY <1>1, <1>2 DEF Begun

\* An event that matches is the only one about the row.
LEMMA ProcessEventCalm ==
    ASSUME TryInv, CalmInv, process_executor_event
    PROVE  CalmInv'
<1>1. PICK e \in Keys : /\ events[e] # NoEvent
                        /\ events' = [events EXCEPT ![e] = NoEvent]
                        /\ failing' = IF event_matches(e) THEN e ELSE NoFailing
    BY DEF process_executor_event
<1>2. /\ pc = "handle" /\ pc' = "handle" /\ failing = NoFailing
      /\ UNCHANGED <<dbVars, execVars, chosen, procVars, reschedules>>
    BY DEF process_executor_event, faultVars
<1>3. /\ OneScheduler' /\ RunsAreOver' /\ ChosenWithin'
      /\ \A k \in Keys : /\ event_matches(k)' <=> event_matches(k)
                         /\ Begun(k)' <=> Begun(k)
    BY <1>2, SameRows DEF procVars
<1>4. ASSUME NEW k \in Keys PROVE KeyInPlace(k)' /\ EventInPlace(k)'
  <2>1. KeyInPlace(k) /\ EventInPlace(k)
      BY DEF CalmInv, InPlace
  <2>2. events'[k] = IF k = e THEN NoEvent ELSE events[k]
      BY <1>1 DEF TryInv, TypeOK
  <2>3. Through(k)' <=> Through(k)
      BY <1>2 DEF Through, has_task, execVars
  <2>4. KeyInPlace(k)'
      BY <1>2, <1>3, <2>1 DEF KeyInPlace, dbVars, procVars, execVars
  <2>5. failing' = k => k = e /\ event_matches(e)
      BY <1>1, KeyParts
  <2>6. failing' = k => event_matches(k) /\ Through(k) /\ event_buffer[k] = NoEvent
      BY <1>1, <2>1, <2>5, MatchIsNotBegun DEF EventInPlace
  <2> QED
      BY <1>2, <1>3, <2>1, <2>2, <2>3, <2>4, <2>5, <2>6 DEF EventInPlace, execVars
<1> QED
    BY <1>3, <1>4 DEF CalmInv, InPlace

\* Steps that touch one row and the processes of its keys.
LEMMA OtherRows ==
    ASSUME TryInv, CalmInv, NEW t \in TIs,
           \A u \in TIs \ {t} : state'[u] = state[u] /\ try'[u] = try[u],
           \A k \in Keys : k[1] # t => /\ proc'[<<k, 0>>] = proc[<<k, 0>>]
                                       /\ attempt'[<<k, 0>>] = attempt[<<k, 0>>],
           UNCHANGED <<execVars, events>>, failing' \in {failing, NoFailing}
    PROVE  \A k \in Keys : k[1] # t => KeyInPlace(k)' /\ EventInPlace(k)'
<1> SUFFICES ASSUME NEW k \in Keys, k[1] # t PROVE KeyInPlace(k)' /\ EventInPlace(k)'
    OBVIOUS
<1>1. k[1] \in TIs \ {t} /\ NoFailing # k
    BY KeyParts
<1>2. state'[k[1]] = state[k[1]] /\ try'[k[1]] = try[k[1]]
    BY <1>1
<1>3. (event_matches(k)' <=> event_matches(k)) /\ (Begun(k)' <=> Begun(k))
    BY <1>2, Matches DEF Begun
<1>4. Through(k)' <=> Through(k)
    BY DEF Through, has_task, execVars
<1>5. KeyInPlace(k) /\ EventInPlace(k)
    BY DEF CalmInv, InPlace
<1>6. KeyInPlace(k)'
    BY <1>2, <1>3, <1>5 DEF KeyInPlace, execVars
<1>7. EventInPlace(k)'
    BY <1>1, <1>3, <1>4, <1>5 DEF EventInPlace, execVars
<1> QED
    BY <1>6, <1>7

\* The row whose process was killed is failed: the keys of it that the executor still has are
\* those of attempts that have begun.
LEMMA HandleFailureCalm ==
    ASSUME TryInv, CalmInv, handle_failure_of_event
    PROVE  CalmInv'
<1>1. /\ pc = "handle" /\ failing # NoFailing /\ failing' = NoFailing
      /\ UNCHANGED <<run_state, execVars, pc, chosen, events, procVars, reschedules>>
      /\ handle_event_failure(failing[2] - 1)
    BY DEF handle_failure_of_event, faultVars, failing_try
<1>2. PICK f \in Keys : f = failing
    BY <1>1 DEF TryInv, TypeOK
<1> DEFINE t == f[1]
<1>3. /\ t \in TIs /\ state[t] = QUEUED /\ f[2] = try[t] + 1 /\ try[t] \in Int
      /\ event_matches(f) /\ Through(f) /\ event_buffer[f] = NoEvent /\ events[f] = NoEvent
    BY <1>2, KeyParts, Matches DEF CalmInv, InPlace, EventInPlace, TryInv, TypeOK
<1>4. PICK new \in {UP_FOR_RETRY, FAILED} : state' = [u \in TIs |-> IF u \in {t} THEN new ELSE state[u]]
    BY <1>1, <1>2 DEF handle_event_failure, SetState, failure_state
<1>5. try' = [try EXCEPT ![t] = f[2] - 1]
    BY <1>1, <1>2 DEF handle_event_failure
<1> HIDE DEF t
<1>6. f[2] - 1 = try[t]
    BY <1>3
<1>7. try' = try
    BY <1>3, <1>5, <1>6 DEF TryInv, TypeOK
<1>8. ASSUME NEW k \in Keys, k[1] = t PROVE KeyInPlace(k)' /\ EventInPlace(k)'
  <2>1. KeyInPlace(k) /\ EventInPlace(k)
      BY DEF CalmInv, InPlace
  <2>2. event_matches(k) => k = f
      BY <1>3, <1>8 DEF event_matches, t
  <2>3. /\ k \notin queued_tasks /\ proc[<<k, 0>>] \notin {"started", "checked", "working"}
        /\ proc[<<k, 0>>] = "failed" => Begun(k)
      BY <1>3, <1>8, <2>1, <2>2 DEF Through, has_task, KeyInPlace
  <2>4. (event_buffer[k] # NoEvent => Begun(k)) /\ (events[k] # NoEvent => Begun(k))
      BY <1>3, <2>1, <2>2 DEF EventInPlace
  <2>5. failing' # k
      BY <1>1, KeyParts
  <2>6. KeyInPlace(k)'
      BY <1>1, <1>7, <2>1, <2>3 DEF KeyInPlace, Begun, execVars, procVars
  <2> QED
      BY <1>1, <1>7, <2>4, <2>5, <2>6 DEF EventInPlace, Begun, execVars
<1>9. \A k \in Keys : k[1] # t => KeyInPlace(k)' /\ EventInPlace(k)'
    BY <1>1, <1>3, <1>4, <1>7, OtherRows DEF procVars
<1>10. RunsAreOver'
    BY <1>1, <1>3, <1>4 DEF CalmInv, RunsAreOver, finished
<1>11. Busy' \subseteq Busy
    BY <1>4 DEF Busy, InState, STATES_TO_COUNT_AS_RUNNING
<1>12. ChosenWithin'
    BY <1>1, <1>11, ShrinkWithin DEF CalmInv, TryInv, ChosenWithin
<1>13. OneScheduler'
    BY <1>1 DEF CalmInv, OneScheduler, procVars
<1> QED
    BY <1>8, <1>9, <1>10, <1>12, <1>13 DEF CalmInv, InPlace

\* A process that moves without writing: its row keeps waiting for it, or has begun its attempt.
LEMMA ProcMovesCalm ==
    ASSUME TryInv, OneExecutor, CalmInv, NEW p \in Procs, NEW s, proc' = [proc EXCEPT ![p] = s],
           \/ proc[p] \in {"started", "checked"} /\ s \in {"checked", "failed"}
           \/ proc[p] = "exiting" /\ s \in {"success", "failed"},
           UNCHANGED <<dbVars, execVars, loopVars, attempt, crashes, reschedules>>
    PROVE  CalmInv'
<1>1. p = <<p[1], 0>> /\ p[1] \in Keys /\ \A k \in Keys : <<k, 0>> \in Procs
    BY CalmProcs DEF OneExecutor
<1>2. \A k \in Keys : proc'[<<k, 0>>] = IF k = p[1] THEN s ELSE proc[<<k, 0>>]
  <2>1. \A q \in Procs : proc'[q] = IF q = p THEN s ELSE proc[q]
      BY DEF TryInv, TypeOK
  <2>2. \A k \in Keys : <<k, 0>> = p <=> k = p[1]
      BY <1>1
  <2> QED
      BY <1>1, <2>1, <2>2
<1>3. UNCHANGED <<state, try, run_state, pc, chosen, events, failing>>
    BY DEF dbVars, loopVars
<1>4. \A k \in Keys : (event_matches(k)' <=> event_matches(k)) /\ (Begun(k)' <=> Begun(k))
                      /\ (Through(k)' <=> Through(k))
    BY <1>3, Matches DEF Begun, Through, has_task, execVars
<1>5. ASSUME NEW k \in Keys PROVE KeyInPlace(k)' /\ EventInPlace(k)'
  <2>1. KeyInPlace(k) /\ EventInPlace(k)
      BY DEF CalmInv, InPlace
  <2>2. k = p[1] => \/ proc[<<k, 0>>] \in {"started", "checked"} /\ s \in {"checked", "failed"}
                    \/ proc[<<k, 0>>] = "exiting" /\ s \in {"success", "failed"}
      BY <1>1
  <2>3. KeyInPlace(k)'
      BY <1>2, <1>3, <1>4, <2>1, <2>2 DEF KeyInPlace, execVars
  <2> QED
      BY <1>3, <1>4, <2>1, <2>3 DEF EventInPlace, execVars
<1>6. Busy' = Busy
    BY <1>3 DEF Busy, InState
<1>7. ChosenWithin'
    BY <1>3, <1>6, ShrinkWithin DEF CalmInv, TryInv, ChosenWithin
<1>8. OneScheduler' /\ RunsAreOver'
    BY <1>3 DEF CalmInv, OneScheduler, RunsAreOver
<1> QED
    BY <1>5, <1>7, <1>8 DEF CalmInv, InPlace

\* The process finds its row QUEUED and within the limits.
LEMMA CheckCalm ==
    ASSUME TryInv, OneExecutor, CalmInv, NEW p \in Procs, check_state_before_execution(p)
    PROVE  CalmInv'
<1>1. proc[p] = "started" /\ UNCHANGED <<try, run_state, execVars, loopVars, attempt, crashes, reschedules>>
    BY DEF check_state_before_execution, faultVars
<1>2. p = <<p[1], 0>> /\ p[1] \in Keys /\ TIof(p) = p[1][1] /\ TIof(p) \in TIs
    BY <1>1, CalmProcs DEF OneExecutor
<1>3. KeyInPlace(p[1])
    BY <1>2 DEF CalmInv, InPlace
<1>4. event_matches(p[1])
    BY <1>1, <1>2, <1>3 DEF KeyInPlace
<1>5. state[TIof(p)] = QUEUED
    BY <1>2, <1>4 DEF event_matches
<1>6. Within(Busy)
  <2>1. Busy \cup chosen \in SUBSET TIs /\ Busy \in SUBSET (Busy \cup chosen)
      BY DEF TryInv, TypeOK, Busy, InState
  <2> QED
      BY <2>1, FewerWithin DEF CalmInv, ChosenWithin
<1>7. RunningDeps(TIof(p))
    BY <1>2, <1>5, <1>6, QueuedHasRoom
<1>8. proc' = [proc EXCEPT ![p] = "checked"] /\ state' = state
    BY <1>5, <1>7 DEF check_state_before_execution, RUNNABLE_STATES
<1> QED
    BY <1>1, <1>8, ProcMovesCalm DEF dbVars

\* The row of a killed process stays QUEUED until the event is handled.
LEMMA KilledCalm ==
    ASSUME TryInv, OneExecutor, CalmInv, NEW p \in Procs, killed(p)
    PROVE  CalmInv'
<1>1. p[2] = 0 /\ crashes = 0
    BY DEF OneExecutor, killed, CalmInv, OneScheduler
<1>2. /\ proc[p] \in {"started", "checked"} /\ proc' = [proc EXCEPT ![p] = "failed"]
      /\ UNCHANGED <<dbVars, execVars, loopVars, attempt, crashes, reschedules>>
    BY <1>1 DEF killed, Exited
<1> QED
    BY <1>2, ProcMovesCalm

\* LocalTaskJob exits long after the raw task has written the row: the attempt has begun,
\* whatever the row has been through since.
LEMMA ExitCalm ==
    ASSUME TryInv, OneExecutor, CalmInv, NEW p \in Procs, local_task_job_exits(p)
    PROVE  CalmInv'
<1>1. p[2] = 0 /\ crashes = 0
    BY DEF OneExecutor, local_task_job_exits, CalmInv, OneScheduler
<1>2. /\ proc[p] = "exiting" /\ \E s \in {"success", "failed"} : proc' = [proc EXCEPT ![p] = s]
      /\ UNCHANGED <<dbVars, execVars, loopVars, attempt, crashes, reschedules>>
    BY <1>1 DEF local_task_job_exits, Exited, faultVars
<1> QED
    BY <1>2, ProcMovesCalm

\* The commit: the row is RUNNING the attempt of the key.
LEMMA CommitCalm ==
    ASSUME TryInv, OneExecutor, CalmInv, NEW p \in Procs, change_state_before_execution(p)
    PROVE  CalmInv'
<1> DEFINE g == p[1]
<1> DEFINE t == g[1]
<1>1. p = <<g, 0>> /\ g \in Keys /\ TIof(p) = t /\ t \in TIs /\ \A k \in Keys : <<k, 0>> \in Procs
    BY CalmProcs DEF OneExecutor, change_state_before_execution
<1> HIDE DEF g
<1>2. /\ proc[<<g, 0>>] = "checked"
      /\ state' = [state EXCEPT ![t] = RUNNING]
      /\ try' = [try EXCEPT ![t] = @ + 1]
      /\ proc' = [proc EXCEPT ![<<g, 0>>] = "working"]
      /\ attempt' = [attempt EXCEPT ![<<g, 0>>] = try[t] + 1]
      /\ UNCHANGED <<run_state, execVars, loopVars, crashes, reschedules>>
    BY <1>1 DEF change_state_before_execution, faultVars
<1>3. KeyInPlace(g)
    BY <1>1 DEF CalmInv, InPlace
<1>4. event_matches(g) /\ g \in running /\ g \notin queued_tasks
    BY <1>2, <1>3 DEF KeyInPlace
<1>5. state[t] = QUEUED /\ g[2] = try[t] + 1 /\ try[t] \in Int
    BY <1>1, <1>4, Matches DEF TryInv, TypeOK
<1> HIDE DEF t
<1>6. /\ \A u \in TIs : state'[u] = IF u = t THEN RUNNING ELSE state[u]
      /\ \A u \in TIs : try'[u] = IF u = t THEN try[t] + 1 ELSE try[u]
      /\ \A k \in Keys : proc'[<<k, 0>>] = IF k = g THEN "working" ELSE proc[<<k, 0>>]
      /\ \A k \in Keys : attempt'[<<k, 0>>] = IF k = g THEN try[t] + 1 ELSE attempt[<<k, 0>>]
    BY <1>1, <1>2 DEF TryInv, TypeOK
<1>7. ASSUME NEW k \in Keys, k[1] = t PROVE KeyInPlace(k)' /\ EventInPlace(k)'
  <2>1. KeyInPlace(k) /\ EventInPlace(k) /\ k[2] \in Int
      BY KeyParts, BoundsAssumption, RetriesAssumption DEF CalmInv, InPlace
  <2>2. event_matches(k) => k = g
      BY <1>4, <1>7 DEF event_matches, t
  <2>3. state[k[1]] = QUEUED /\ state'[k[1]] = RUNNING /\ try[k[1]] = try[t] /\ try'[k[1]] = try[t] + 1
      BY <1>1, <1>5, <1>6, <1>7
  <2>4. ~(event_matches(k) /\ Through(k))
      BY <1>4, <2>2 DEF Through, has_task
  <2>5. Begun(k) => Begun(k)'
      BY <1>5, <2>1, <2>3 DEF Begun
  <2>6. k = g => Begun(k)'
      BY <1>5, <2>3 DEF Begun
  <2>7. k \notin queued_tasks
      BY <1>4, <2>1, <2>2 DEF KeyInPlace
  <2>8. k # g => /\ proc[<<k, 0>>] \notin {"started", "checked", "working"}
                 /\ proc[<<k, 0>>] = "failed" => Begun(k)
      BY <2>1, <2>2, <2>3 DEF KeyInPlace
  <2>9. KeyInPlace(k)'
    <3>1. CASE k = g
        BY <1>2, <1>4, <1>5, <1>6, <2>3, <3>1 DEF KeyInPlace, execVars
    <3>2. CASE k # g
        BY <1>2, <1>6, <2>1, <2>5, <2>7, <2>8, <3>2 DEF KeyInPlace, execVars
    <3> QED
        BY <3>1, <3>2
  <2>10. EventInPlace(k)'
      BY <1>2, <2>1, <2>4, <2>5 DEF EventInPlace, execVars, loopVars
  <2> QED
      BY <2>9, <2>10
<1>8. \A k \in Keys : k[1] # t => KeyInPlace(k)' /\ EventInPlace(k)'
  <2>1. \A k \in Keys : k[1] # t => k # g
      BY DEF t
  <2>2. UNCHANGED <<execVars, events, failing>>
      BY <1>2 DEF loopVars
  <2> QED
      BY <1>1, <1>6, <2>1, <2>2, OtherRows
<1>9. RunsAreOver'
    BY <1>2, <1>5, <1>6 DEF CalmInv, RunsAreOver, finished
<1>10. Busy' = Busy
    BY <1>5, <1>6 DEF Busy, InState, STATES_TO_COUNT_AS_RUNNING
<1>11. ChosenWithin'
    BY <1>2, <1>10, ShrinkWithin DEF CalmInv, TryInv, ChosenWithin, loopVars
<1>12. OneScheduler'
    BY <1>1, <1>2, <1>5 DEF CalmInv, OneScheduler, loopVars
<1> QED
    BY <1>7, <1>8, <1>9, <1>11, <1>12 DEF CalmInv, InPlace

\* The task ends: no other process works on the row, and its copy is up to date.
LEMMA RawTaskCalm ==
    ASSUME TryInv, OneExecutor, CalmInv, NEW p \in Procs, run_raw_task(p)
    PROVE  CalmInv'
<1> DEFINE g == p[1]
<1> DEFINE t == TIof(p)
<1>1. p = <<g, 0>> /\ p[2] = 0 /\ g \in Keys /\ g[1] = t /\ t \in TIs /\ \A k \in Keys : <<k, 0>> \in Procs
    BY CalmProcs DEF OneExecutor, run_raw_task
<1>2. /\ proc[p] = "working"
      /\ UNCHANGED <<run_state, execVars, loopVars, crashes, reschedules>>
    BY DEF run_raw_task, faultVars
<1>3. crashes = 0 /\ KeyInPlace(g)
    BY <1>1 DEF CalmInv, OneScheduler, InPlace
<1> HIDE DEF g
<1>4. /\ state[t] = RUNNING /\ g[2] = try[t] /\ attempt[p] = try[t] /\ try[t] \in Int
      /\ g = <<t, try[t]>> /\ g \in running
    BY <1>1, <1>2, <1>3, KeyParts DEF KeyInPlace, TryInv, TypeOK
<1>5. PICK row : /\ row[1] \in {SUCCESS, SKIPPED, FAILED, UP_FOR_RETRY} /\ row[2] = try[t]
                 /\ SetState({t}, [u \in TIs |-> row[1]])
                 /\ try' = [try EXCEPT ![t] = row[2]]
  <2>1. \A s, n, m : failure_state(s, n, m, m, FALSE) \in {FAILED, UP_FOR_RETRY}
      BY DEF failure_state
  <2>2. PICK row \in { <<SUCCESS, try[t]>>, <<SKIPPED, try[t]>>, <<FAILED, try[t]>>,
                       <<IF state[t] \in {SUCCESS, FAILED} THEN state[t]
                         ELSE failure_state(state[t], try[t], Retries[t], Retries[t], FALSE), try[t]>>,
                       <<failure_state(RUNNING, attempt[p], Retries[t], Retries[t], FALSE), attempt[p]>> } :
             /\ SetState({t}, [u \in TIs |-> row[1]])
             /\ try' = [try EXCEPT ![t] = row[2]]
      BY DEF run_raw_task
  <2> HIDE DEF t
  <2>3. row[1] \in {SUCCESS, SKIPPED, FAILED, UP_FOR_RETRY} /\ row[2] = try[t]
    <3> DEFINE a == failure_state(state[t], try[t], Retries[t], Retries[t], FALSE)
    <3> DEFINE b == failure_state(RUNNING, attempt[p], Retries[t], Retries[t], FALSE)
    <3>1. a \in {FAILED, UP_FOR_RETRY} /\ b \in {FAILED, UP_FOR_RETRY}
        BY <2>1
    <3>2. \/ row = <<SUCCESS, try[t]>> \/ row = <<SKIPPED, try[t]>> \/ row = <<FAILED, try[t]>>
          \/ row = <<a, try[t]>> \/ row = <<b, try[t]>>
        BY <1>4, <2>2
    <3> HIDE DEF a, b
    <3> QED
        BY <3>1, <3>2
  <2> QED
      BY <2>2, <2>3
<1> HIDE DEF t
<1>6. /\ \A u \in TIs : state'[u] = IF u = t THEN row[1] ELSE state[u]
      /\ try' = try
    BY <1>1, <1>5 DEF SetState, TryInv, TypeOK
<1>7. /\ \A k \in Keys : proc'[<<k, 0>>] = IF k = g THEN "exiting" ELSE proc[<<k, 0>>]
      /\ \A k \in Keys : k # g => attempt'[<<k, 0>>] = attempt[<<k, 0>>]
  <2>1. proc' = [proc EXCEPT ![<<g, 0>>] = "exiting"] /\ attempt' = [attempt EXCEPT ![<<g, 0>>] = 0]
      BY <1>1, <1>3 DEF run_raw_task, exit_task
  <2> QED
      BY <1>1, <2>1 DEF TryInv, TypeOK
<1>8. ASSUME NEW k \in Keys, k[1] = t PROVE KeyInPlace(k)' /\ EventInPlace(k)'
  <2>1. KeyInPlace(k) /\ EventInPlace(k) /\ k = <<k[1], k[2]>>
      BY KeyParts DEF CalmInv, InPlace
  <2>2. ~event_matches(k) /\ state[k[1]] = RUNNING
      BY <1>4, <1>8 DEF event_matches
  <2>3. Begun(k)' <=> Begun(k)
      BY <1>6 DEF Begun
  <2>4. k = g => Begun(k)
      BY <1>4, <1>8 DEF Begun
  <2>5. k # g => proc[<<k, 0>>] # "working"
      BY <1>4, <1>8, <2>1 DEF KeyInPlace
  <2>6. KeyInPlace(k)'
    <3>1. CASE k = g
        BY <1>2, <1>4, <1>7, <2>1, <2>2, <2>3, <2>4, <3>1 DEF KeyInPlace, execVars
    <3>2. CASE k # g
        BY <1>2, <1>7, <2>1, <2>2, <2>3, <2>5, <3>2 DEF KeyInPlace, execVars
    <3> QED
        BY <3>1, <3>2
  <2>7. EventInPlace(k)'
      BY <1>2, <2>1, <2>2, <2>3 DEF EventInPlace, execVars, loopVars
  <2> QED
      BY <2>6, <2>7
<1>9. \A k \in Keys : k[1] # t => KeyInPlace(k)' /\ EventInPlace(k)'
  <2>1. \A k \in Keys : k[1] # t => k # g
      BY <1>1
  <2>2. UNCHANGED <<execVars, events, failing>>
      BY <1>2 DEF loopVars
  <2> QED
      BY <1>1, <1>6, <1>7, <2>1, <2>2, OtherRows
<1>10. RunsAreOver'
    BY <1>2, <1>4, <1>6 DEF CalmInv, RunsAreOver, finished
<1>11. Busy' \subseteq Busy
    BY <1>5, <1>6 DEF Busy, InState, STATES_TO_COUNT_AS_RUNNING
<1>12. ChosenWithin'
    BY <1>2, <1>11, ShrinkWithin DEF CalmInv, TryInv, ChosenWithin, loopVars
<1>13. OneScheduler'
    BY <1>1, <1>2, <1>4 DEF CalmInv, OneScheduler, loopVars
<1> QED
    BY <1>8, <1>9, <1>10, <1>12, <1>13 DEF CalmInv, InPlace

\* A stutter keeps CalmInv.
LEMMA StutterCalm ==
    ASSUME CalmInv, TryInv, UNCHANGED vars
    PROVE  CalmInv'
<1>1. UNCHANGED <<state, try, run_state, pc, chosen, events, failing, proc, attempt, execVars,
                  crashes, reschedules>>
    BY DEF vars, dbVars, loopVars, procVars, faultVars
<1>2. InPlace' /\ Busy' = Busy
    BY <1>1, RowsInPlace DEF CalmInv
<1>3. ChosenWithin'
    BY <1>1, <1>2, ShrinkWithin DEF CalmInv, TryInv, ChosenWithin
<1>4. OneScheduler' /\ RunsAreOver'
    BY <1>1 DEF CalmInv, OneScheduler, RunsAreOver
<1> QED
    BY <1>2, <1>3, <1>4 DEF CalmInv

\* At the start nothing counts and nobody has a key.
LEMMA InitCalm ==
    ASSUME Init
    PROVE  CalmInv
<1>1. OneScheduler /\ RunsAreOver
    BY DagAssumption DEF Init, OneScheduler, RunsAreOver
<1>2. InPlace
  <2> SUFFICES ASSUME NEW k \in Keys PROVE KeyInPlace(k) /\ EventInPlace(k)
      BY DEF InPlace
  <2>1. proc[<<k, 0>>] = "absent"
      BY CalmProcs DEF Init
  <2> QED
      BY <2>1, KeyParts DEF Init, ExecInit, KeyInPlace, EventInPlace, NoEvents
<1>3. ChosenWithin
  <2>1. Busy = {} /\ chosen = {}
      BY DEF Init, Busy, InState, STATES_TO_COUNT_AS_RUNNING
  <2>2. ASSUME NEW t \in TIs
        PROVE  OfDag({}, DagOf[t]) = 0 /\ OfTask({}, TaskOf[t]) = 0 /\ SlotsOf({}, PoolOf[t]) = 0
    <3>1. { u \in {} : DagOf[u] = DagOf[t] } = {} /\ { u \in {} : TaskOf[u] = TaskOf[t] } = {}
        OBVIOUS
    <3>2. UNION { {v} \X (1..Slots[v]) : v \in { u \in {} : PoolOf[u] = PoolOf[t] } } = {}
        OBVIOUS
    <3> QED
        BY <3>1, <3>2, FS_EmptySet DEF OfDag, OfTask, SlotsOf
  <2>3. Within({})
    <3> SUFFICES ASSUME NEW t \in TIs
                 PROVE  /\ OfDag({}, DagOf[t]) <= DagConcurrency[DagOf[t]]
                        /\ OfTask({}, TaskOf[t]) <= TaskConcurrency[TaskOf[t]]
                        /\ SlotsOf({}, PoolOf[t]) <= PoolSlots[PoolOf[t]]
        BY DEF Within
    <3> QED
        BY <2>2, LimitsAssumption
  <2>4. Busy \cup chosen = {}
      BY <2>1
  <2> QED
      BY <2>1, <2>3, <2>4 DEF ChosenWithin
<1> QED
    BY <1>1, <1>2, <1>3 DEF CalmInv

\* Every step of a calm scheduler keeps CalmInv.
LEMMA CalmStep ==
    ASSUME NoTimeouts, TryInv, EventsInHand, OneExecutor, CalmInv, Next, Calm'
    PROVE  CalmInv'
<1>1. CASE LoopStep
  <2>1. ~restart
      BY DEF restart, CalmInv, OneScheduler
  <2> QED
      BY <1>1, <2>1, LoopCalm, ExecuteCalm, HeartbeatCalm, SyncCalm, LeftoverCalm, GetEventsCalm,
         ProcessEventCalm, HandleFailureCalm DEF LoopStep
<1>2. CASE error_queuing_tasks \/ crash
  <2>1. ~crash
      BY DEF crash, CalmInv, OneScheduler, Calm
  <2> QED
      BY <1>2, <2>1, LoopCalm
<1>3. ASSUME NEW d \in Dags, NEW due, process_file(d, due) PROVE CalmInv'
    BY <1>3, FileCalm
<1>4. ASSUME NEW p \in Procs, ProcStep(p) \/ handle_reschedule(p) \/ killed(p) PROVE CalmInv'
  <2>1. ~handle_reschedule(p)
      BY DEF handle_reschedule, CalmInv, OneScheduler, Calm
  <2> QED
      BY <1>4, <2>1, CheckCalm, CommitCalm, RawTaskCalm, ExitCalm, KilledCalm DEF ProcStep
<1> QED
    BY <1>1, <1>2, <1>3, <1>4 DEF Next

\* A scheduler that is calm has been so before.
LEMMA CalmBefore ==
    ASSUME TryInv, [Next]_vars, Calm'
    PROVE  Calm
<1>1. crashes \in Nat /\ reschedules \in Nat
    BY BoundsAssumption DEF TryInv, TypeOK
<1>2. CASE LoopStep
    BY <1>2 DEF LoopStep, Calm, reset_state_for_orphaned_tasks, harvest, fail_tis_without_dagrun,
                unschedule_tis_without_dagrun, change_state_for_tis_without_dagrun,
                find_executable_task_instances, execute_task_instances, executor_heartbeat, executor_sync,
                change_state_for_tasks_failed_to_execute, get_event_buffer, process_executor_event,
                handle_failure_of_event, end_of_loop, restart, procVars, faultVars
<1>3. CASE error_queuing_tasks \/ crash
    BY <1>1, <1>3 DEF error_queuing_tasks, crash, Calm, procVars, faultVars
<1>4. ASSUME NEW d \in Dags, NEW due, process_file(d, due) PROVE Calm
    BY <1>4 DEF process_file, Calm, procVars, faultVars
<1>5. ASSUME NEW p \in Procs, ProcStep(p) \/ handle_reschedule(p) \/ killed(p) PROVE Calm
    BY <1>1, <1>5 DEF ProcStep, check_state_before_execution, change_state_before_execution, run_raw_task,
                      local_task_job_exits, handle_reschedule, killed, Calm, faultVars
<1>6. CASE UNCHANGED vars
    BY <1>6 DEF vars, procVars, faultVars, Calm
<1> QED
    BY <1>2, <1>3, <1>4, <1>5, <1>6 DEF Next

\* Only the current executor starts processes.
LEMMA OneExecutorStep ==
    ASSUME TryInv, Calm, OneExecutor, [Next]_vars
    PROVE  OneExecutor'
<1>1. CASE executor_heartbeat \/ executor_sync \/ crash
    BY <1>1 DEF executor_heartbeat, executor_sync, crash, OneExecutor, Calm
<1>2. CASE UNCHANGED proc
    BY <1>2 DEF OneExecutor
<1>3. ASSUME NEW p \in Procs, proc[p] # "absent", NEW x, proc' = [proc EXCEPT ![p] = x] PROVE OneExecutor'
    BY <1>3 DEF OneExecutor, TryInv, TypeOK
<1>4. ASSUME NEW p \in Procs, ProcStep(p) \/ handle_reschedule(p) \/ killed(p) PROVE OneExecutor'
  <2>1. proc[p] # "absent" /\ \E x : proc' = [proc EXCEPT ![p] = x]
      BY <1>4 DEF ProcStep, check_state_before_execution, change_state_before_execution, run_raw_task,
                  local_task_job_exits, handle_reschedule, killed, exit_task
  <2> QED
      BY <1>3, <2>1
<1>5. CASE LoopStep /\ ~executor_heartbeat /\ ~executor_sync
    BY <1>2, <1>5 DEF LoopStep, reset_state_for_orphaned_tasks, harvest, fail_tis_without_dagrun,
                unschedule_tis_without_dagrun, change_state_for_tis_without_dagrun,
                find_executable_task_instances, execute_task_instances,
                change_state_for_tasks_failed_to_execute, get_event_buffer, process_executor_event,
                handle_failure_of_event, end_of_loop, restart, procVars
<1>6. CASE error_queuing_tasks \/ UNCHANGED vars
    BY <1>2, <1>6 DEF error_queuing_tasks, vars, procVars
<1>7. ASSUME NEW d \in Dags, NEW due, process_file(d, due) PROVE OneExecutor'
    BY <1>2, <1>7 DEF process_file, procVars
<1> QED
    BY <1>1, <1>4, <1>5, <1>6, <1>7 DEF Next

\* CalmInv holds as long as the scheduler is calm.
LEMMA CalmInvariant ==
    ASSUME NoTimeouts
    PROVE  Spec => [](Calm => CalmInv /\ OneExecutor)
<1>1. Init => CalmInv /\ OneExecutor
    BY InitCalm DEF Init, OneExecutor
<1>2. TryInv /\ QueueInv /\ (Calm => CalmInv /\ OneExecutor) /\ [Next]_vars => (Calm => CalmInv /\ OneExecutor)'
  <2> SUFFICES ASSUME TryInv, QueueInv, Calm => CalmInv /\ OneExecutor, [Next]_vars, Calm'
               PROVE  CalmInv' /\ OneExecutor'
      OBVIOUS
  <2>1. Calm
      BY CalmBefore
  <2>2. OneExecutor'
      BY <2>1, OneExecutorStep
  <2>3. CalmInv'
      BY <2>1, CalmStep, StutterCalm DEF QueueInv
  <2> QED
      BY <2>2, <2>3
<1> QED
    BY <1>1, <1>2, TryInvariant, QueueInvariant, PTL DEF Spec

\* The DAG concurrency, task concurrency and pool limits are never exceeded by what is QUEUED
\* or RUNNING, whatever the order in which _find_executable_task_instances looks at its
\* candidates, the size of its chunks, and the time at which processes start, end or are killed.
THEOREM LimitsAlwaysRespected ==
    ASSUME NoTimeouts
    PROVE  Spec => [](Calm => LimitsRespected)
<1>1. TryInv /\ CalmInv => LimitsRespected
  <2> SUFFICES ASSUME TryInv, CalmInv PROVE LimitsRespected
      OBVIOUS
  <2>1. Busy \cup chosen \in SUBSET TIs /\ Busy \in SUBSET (Busy \cup chosen)
      BY DEF TryInv, TypeOK, Busy, InState
  <2>2. Within(Busy)
      BY <2>1, FewerWithin DEF CalmInv, ChosenWithin
  <2> QED
      BY <2>2 DEF LimitsRespected, Within, Busy
<1> QED
    BY <1>1, TryInvariant, CalmInvariant, PTL

\* A task instance is executed by one process at a time, through kills and retries:
\* _check_and_change_state_before_execution.
THEOREM AlwaysSingleRunner ==
    ASSUME NoTimeouts
    PROVE  Spec => [](Calm => SingleRunner)
<1>1. CalmInv /\ OneExecutor => SingleRunner
  <2> SUFFICES ASSUME CalmInv, OneExecutor, NEW p \in Procs, NEW q \in Procs,
                      proc[p] = "working", proc[q] = "working", TIof(p) = TIof(q)
               PROVE  p = q
      BY DEF SingleRunner
  <2>1. /\ p = <<p[1], 0>> /\ p[1] \in Keys /\ TIof(p) = p[1][1]
        /\ q = <<q[1], 0>> /\ q[1] \in Keys /\ TIof(q) = q[1][1]
      BY CalmProcs DEF OneExecutor
  <2>2. KeyInPlace(p[1]) /\ KeyInPlace(q[1])
      BY <2>1 DEF CalmInv, InPlace
  <2>3. p[1][2] = try[p[1][1]] /\ q[1][2] = try[q[1][1]]
      BY <2>1, <2>2 DEF KeyInPlace
  <2>4. p[1] = <<p[1][1], p[1][2]>> /\ q[1] = <<q[1][1], q[1][2]>>
      BY <2>1, KeyParts
  <2>5. p[1] = q[1]
      BY <2>1, <2>3, <2>4
  <2> QED
      BY <2>1, <2>5
<1> QED
    BY <1>1, CalmInvariant, PTL

\* _process_executor_events fails an attempt as killed only when the executor is through with
\* it, however late the event of an earlier attempt is handled and however long the LocalTaskJob
\* of an earlier attempt takes to exit.
THEOREM EventAlwaysCurrent ==
    ASSUME NoTimeouts
    PROVE  Spec => []EventIsCurrent
<1>1. TryInv /\ CalmInv => (failing # NoFailing => /\ ~has_task(KeyOf(failing[1]))
                                                  /\ event_buffer[KeyOf(failing[1])] = NoEvent)
  <2> SUFFICES ASSUME TryInv, CalmInv, failing # NoFailing
               PROVE  ~has_task(KeyOf(failing[1])) /\ event_buffer[KeyOf(failing[1])] = NoEvent
      OBVIOUS
  <2>1. failing \in Keys
      BY DEF TryInv, TypeOK
  <2>2. KeyOf(failing[1]) = failing
      BY <2>1 DEF CalmInv, InPlace, EventInPlace, event_matches
  <2> QED
      BY <2>1, <2>2 DEF CalmInv, InPlace, EventInPlace, Through
<1>2. TryInv /\ (Calm => CalmInv /\ OneExecutor) => EventIsCurrent
    BY <1>1 DEF EventIsCurrent
<1> QED
    BY <1>2, TryInvariant, CalmInvariant, PTL

\* Which rows a step of a calm scheduler may write: none that is finished.
LEMMA FinishedKept ==
    ASSUME TryInv, OneExecutor, CalmInv, Next, NEW t \in TIs, state[t] \in finished
    PROVE  state'[t] = state[t]
<1>1. state[t] \in {SUCCESS, FAILED, SKIPPED}
    BY DEF finished
<1>2. CASE LoopStep \/ error_queuing_tasks \/ crash
  <2>1. CASE handle_failure_of_event
    <3>1. failing \in Keys /\ failing[1] \in TIs
        BY <2>1, KeyParts DEF handle_failure_of_event, TryInv, TypeOK
    <3>2. event_matches(failing)
        BY <3>1 DEF CalmInv, InPlace, EventInPlace
    <3>3. t # failing[1]
        BY <1>1, <3>2 DEF event_matches
    <3> QED
        BY <2>1, <3>3 DEF handle_failure_of_event, handle_event_failure, SetState
  <2>2. CASE execute_task_instances
      BY <1>1, <2>2 DEF execute_task_instances, SetState
  <2>3. CASE reset_state_for_orphaned_tasks \/ change_state_for_tasks_failed_to_execute
      BY <1>1, <2>3 DEF reset_state_for_orphaned_tasks, change_state_for_tasks_failed_to_execute,
                        SetState, InState
  <2>4. CASE fail_tis_without_dagrun \/ unschedule_tis_without_dagrun
      BY <1>1, <2>4 DEF fail_tis_without_dagrun, unschedule_tis_without_dagrun,
                        change_state_for_tis_without_dagrun, SetState, InState
  <2>5. CASE \/ harvest \/ find_executable_task_instances \/ executor_heartbeat \/ executor_sync
             \/ get_event_buffer \/ process_executor_event \/ end_of_loop \/ restart
             \/ error_queuing_tasks \/ crash
      BY <2>5 DEF harvest, find_executable_task_instances, executor_heartbeat, executor_sync,
                  get_event_buffer, process_executor_event, end_of_loop, restart,
                  error_queuing_tasks, crash, dbVars
  <2> QED
      BY <1>2, <2>1, <2>2, <2>3, <2>4, <2>5 DEF LoopStep
<1>3. ASSUME NEW d \in Dags, NEW due, process_file(d, due) PROVE state'[t] = state[t]
    BY <1>1, <1>3 DEF process_file, SetState, InState, SCHEDULEABLE_STATES
<1>4. ASSUME NEW p \in Procs, ProcStep(p) \/ handle_reschedule(p) \/ killed(p) PROVE state'[t] = state[t]
  <2>1. p[1] \in Keys /\ TIof(p) = p[1][1] /\ TIof(p) \in TIs
      BY CalmProcs
  <2>2. CASE check_state_before_execution(p)
      BY <1>1, <2>2, <2>1 DEF check_state_before_execution, RUNNABLE_STATES, TryInv, TypeOK
  <2>3. CASE change_state_before_execution(p)
    <3>1. TIof(p) # t
        BY <1>1, <2>3 DEF change_state_before_execution, TryInv, TryParts, CheckedRunnable, RUNNABLE_STATES
    <3> QED
        BY <2>3, <2>1, <3>1 DEF change_state_before_execution, TryInv, TypeOK
  <2>4. CASE run_raw_task(p) \/ handle_reschedule(p)
    <3>1. proc[p] = "working"
        BY <2>4 DEF run_raw_task, handle_reschedule
    <3>2. p = <<p[1], 0>> /\ KeyInPlace(p[1])
        BY <2>1, <3>1, CalmProcs DEF OneExecutor, CalmInv, InPlace
    <3>3. TIof(p) # t
        BY <1>1, <2>1, <3>1, <3>2 DEF KeyInPlace
    <3> QED
        BY <2>4, <3>3 DEF run_raw_task, handle_reschedule, SetState
  <2>5. CASE local_task_job_exits(p) \/ killed(p)
      BY <2>5 DEF local_task_job_exits, killed, dbVars
  <2> QED
      BY <1>4, <2>2, <2>3, <2>4, <2>5 DEF ProcStep
<1> QED
    BY <1>2, <1>3, <1>4 DEF Next

\* A task instance that has finished keeps its state: no late event, no second process and no
\* write of a stale copy touches it.
THEOREM FinishedStaysFinal ==
    ASSUME NoTimeouts
    PROVE  Spec /\ []Calm => FinishedIsFinal
<1>1. TryInv /\ CalmInv /\ OneExecutor /\ [Next]_vars
        => [\A t \in TIs : state[t] \in finished => state'[t] = state[t]]_vars
    BY FinishedKept
<1> QED
    BY <1>1, TryInvariant, CalmInvariant, PTL DEF Spec, FinishedIsFinal
=============================================================================
