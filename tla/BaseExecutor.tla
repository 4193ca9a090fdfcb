---------------------------- MODULE BaseExecutor ----------------------------
(***************************************************************************)
(* The bookkeeping every executor inherits: airflow/executors/             *)
(* base_executor.py.  A key is a task instance together with a try number. *)
(* The three dictionaries of the class are state; what a concrete executor *)
(* does with a command it is given (execute_async, sync) is left to the    *)
(* module that uses this one.                                              *)
(*                                                                         *)
(* The insertion order of the OrderedDict queued_tasks only breaks ties    *)
(* between equal priorities in trigger_tasks; here such a tie is broken    *)
(* nondeterministically.                                                   *)
(***************************************************************************)
EXTENDS Integers, FiniteSets

CONSTANTS Keys,         \* the task instance keys that can be queued
          KeyDag,       \* the dag_id inside each key
          KeyPriority   \* the priority a key is queued with

VARIABLES queued_tasks, running, event_buffer

ASSUME KeyPriorityAssumption == KeyPriority \in [Keys -> Int]

execVars == <<queued_tasks, running, event_buffer>>

\* The event_buffer entry of a key that has none, and the states reported.
NoEvent == "none"
EventStates == {"success", "failed"}

ExecTypeOK ==
    /\ queued_tasks \in SUBSET Keys
    /\ running \in SUBSET Keys
    /\ event_buffer \in [Keys -> EventStates \cup {NoEvent}]

ExecInit ==
    /\ queued_tasks = {}
    /\ running = {}
    /\ event_buffer = [k \in Keys |-> NoEvent]

has_task(k) == k \in queued_tasks \cup running

\* Mutant: queue_command does not look into running.
queue_commands_unchecked(S) == queued_tasks' = queued_tasks \cup S

\* queue_command for each key of S: a key that is already queued or running
\* is silently dropped.
queue_commands(S) == queued_tasks' = queued_tasks \cup (S \ running)

\* Mutant: heartbeat offers all slots, whatever is running.
open_slots_ignoring_running(parallelism) ==
    IF parallelism = 0 THEN Cardinality(queued_tasks) ELSE parallelism

\* The open_slots that heartbeat computes; parallelism 0 means no limit (the
\* number is negative only if running overflows).
open_slots(parallelism) ==
    IF parallelism = 0 THEN Cardinality(queued_tasks)
                       ELSE parallelism - Cardinality(running)

\* The prefixes of the priority-sorted queue that trigger_tasks(open) may take.
Triggerable(open) ==
    { T \in SUBSET queued_tasks :
        /\ \/ Cardinality(T) = open
           \/ T = {} /\ open < 0
           \/ T = queued_tasks /\ Cardinality(T) < open
        /\ \A k \in T, j \in queued_tasks \ T : KeyPriority[k] >= KeyPriority[j] }

\* trigger_tasks moves the keys it triggers from queued_tasks to running; the
\* caller conjoins what execute_async does with them.
trigger_tasks(T, open) ==
    /\ T \in Triggerable(open)
    /\ queued_tasks' = queued_tasks \ T
    /\ running' = running \cup T
    /\ UNCHANGED event_buffer

\* One change_state(k, result[k]) for each key of S: an event of k that nobody
\* has fetched yet is overwritten.
change_states(S, result) ==
    /\ running' = running \ S
    /\ event_buffer' = [k \in Keys |-> IF k \in S THEN result[k] ELSE event_buffer[k]]
    /\ UNCHANGED queued_tasks

\* The keys whose events get_event_buffer(dag_ids) returns, and the buffer
\* after it has flushed exactly those.
FlushedKeys(dag_ids) ==
    { k \in Keys : event_buffer[k] # NoEvent /\ KeyDag[k] \in dag_ids }

\* Mutant: the whole buffer is replaced, as in the branch without dag_ids.
flush_all_events(dag_ids) == event_buffer' = [k \in Keys |-> NoEvent]

flush_events(dag_ids) ==
    event_buffer' = [k \in Keys |->
        IF k \in FlushedKeys(dag_ids) THEN NoEvent ELSE event_buffer[k]]
=============================================================================
