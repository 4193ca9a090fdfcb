------------------------------ MODULE Executor ------------------------------
(***************************************************************************)
(* What an executor promises to the job that owns it, whatever runs the    *)
(* commands (the contract of airflow/executors/base_executor.py): a key    *)
(* that is queued is started once, its command ends once, and the result   *)
(* reported for it is the one its command ended with.  A command whose     *)
(* process is lost is never reported, and its key is never started again.  *)
(***************************************************************************)
CONSTANTS Keys, Results, NoEvent

VARIABLES phase,        \* of each key: idle, queued, running, lost, or its result
          event_buffer  \* the results reported and not yet fetched

vars == <<phase, event_buffer>>

Init ==
    /\ phase = [k \in Keys |-> "idle"]
    /\ event_buffer = [k \in Keys |-> NoEvent]

Move(S, from, to) ==
    /\ \A k \in S : phase[k] = from
    /\ phase' = [k \in Keys |-> IF k \in S THEN to ELSE phase[k]]

\* queue_command of a key the executor does not know.
Queue(k) == Move({k}, "idle", "queued") /\ UNCHANGED event_buffer

\* trigger_tasks.
Trigger(S) == Move(S, "queued", "running") /\ UNCHANGED event_buffer

\* The command of a key ends.
Finish(k, result) == Move({k}, "running", result) /\ UNCHANGED event_buffer

\* The process that should run it is lost.
Lose(k) == Move({k}, "running", "lost") /\ UNCHANGED event_buffer

\* change_state: the result becomes an event, and the key may be queued again.
Report(k, result) ==
    /\ Move({k}, result, "idle")
    /\ event_buffer' = [event_buffer EXCEPT ![k] = result]

\* get_event_buffer: the owner takes some of the events.
Fetch(S) ==
    /\ event_buffer' = [k \in Keys |-> IF k \in S THEN NoEvent ELSE event_buffer[k]]
    /\ UNCHANGED phase

Next ==
    \/ \E k \in Keys : Queue(k) \/ Lose(k)
    \/ \E S \in SUBSET Keys : Trigger(S) \/ Fetch(S)
    \/ \E k \in Keys, result \in Results : Finish(k, result) \/ Report(k, result)

Spec == Init /\ [][Next]_vars
=============================================================================
