------------------------ MODULE TaskExecutionProofs ------------------------
(***************************************************************************)
(* Proofs about TaskExecution.tla for any number of jobs and retries and   *)
(* every bound on kills, late heartbeats and clears: type correctness,     *)
(* that what may still start has a try left, that a hunt without faults    *)
(* finds nothing, and that without faults a task executes once at a time.  *)
(***************************************************************************)
EXTENDS TaskExecution, TLAPS

USE DEF NONE, SCHEDULED, QUEUED, RUNNING, SUCCESS, SHUTDOWN, FAILED, UP_FOR_RETRY,
        UP_FOR_RESCHEDULE, UPSTREAM_FAILED, SKIPPED, REMOVED

(***************************************************************************)
(* The parts of the inductive invariant.                                   *)
(***************************************************************************)

\* A RUNNING row names the job that set it RUNNING, which the query of
\* _find_zombies joins with.
RunningHasJob == state = RUNNING => job_id \in Jobs

\* No process has been killed and no heartbeat has been late.
NoFaults == kills = 0 /\ misses = 0

\* A job that is not gone has a recent heartbeat; the owner of a RUNNING row has an
\* open job row, and its raw task has not ended: the raw task writes its outcome,
\* and so gives the row up, before the job can see its end and exit.
HeartbeatsFresh ==
    \A j \in Jobs : stage[j] \in {"loop", "terminating", "raising"} => fresh[j]
OwnersWork ==
    \A j \in Jobs : Owns(j) => /\ stage[j] = "loop" /\ raw[j] \in {"forked", "working"}
                               /\ job_state[j] = RUNNING /\ fresh[j]
HuntFindsNothing == zombies = {} /\ in_hand = {}

\* Only a clear makes a row SHUTDOWN, and until the second clear the row of a task
\* that executes still names the one process that executes it.
ShutdownIsCleared == state = SHUTDOWN => clears >= 1
ExecutionHasRow ==
    \A j \in Jobs : Executing(j) => state \in {RUNNING, SHUTDOWN} /\ job_id = j

Inv ==
    /\ TypeOK
    /\ StartableHasTry
    /\ RunningHasJob
    /\ ShutdownIsCleared
    /\ NoFaults => HeartbeatsFresh /\ OwnersWork /\ HuntFindsNothing
    /\ NoFaults /\ clears <= 1 => ExecutionHasRow
-----------------------------------------------------------------------------
(* What is written on a failure. *)

\* handle_failure leaves FAILED, or UP_FOR_RETRY when the try it counts is within
\* the limit.
LEMMA FailureState ==
    ASSUME NEW s, NEW n \in Nat, NEW m \in Nat, NEW r
    PROVE  /\ failure_state(s, n, r, m, FALSE) \in {FAILED, UP_FOR_RETRY}
           /\ failure_state(s, n, r, m, FALSE) = UP_FOR_RETRY => n <= m
BY DEF failure_state, is_eligible_to_retry, try_number

\* Whatever _run_raw_task leaves in the row, the row is not RUNNING any more, and a
\* retry is within the limit that is written with it.
LEMMA RawOutcomesFact ==
    ASSUME TypeOK, NEW j \in Jobs, NEW new \in RawOutcomes(j)
    PROVE  /\ new.state \in finished \cup {UP_FOR_RETRY}
           /\ new.try \in Nat /\ new.max_tries \in Nat
           /\ new.state = UP_FOR_RETRY => new.try <= new.max_tries
<1> DEFINE here(s) == [state |-> s, try |-> try, max_tries |-> max_tries]
           c == copy[j]
<1>1. try \in Nat /\ max_tries \in Nat /\ c \in Copies
    BY DEF TypeOK
<1>2. c.try \in Nat /\ c.max_tries \in Nat
    BY <1>1 DEF Copies
<1>3. CASE new \in { here(s) : s \in {SUCCESS, SKIPPED, FAILED} }
    BY <1>1, <1>3 DEF finished
<1>4. CASE new = here(IF state \in {SUCCESS, FAILED} THEN state
                      ELSE failure_state(state, try, Retries, max_tries, FALSE))
    BY <1>1, <1>4, FailureState DEF finished
<1>5. CASE new = [c EXCEPT !.state = failure_state(c.state, c.try, Retries, c.max_tries, FALSE)]
  <2>1. /\ new.state = failure_state(c.state, c.try, Retries, c.max_tries, FALSE)
        /\ new.try = c.try /\ new.max_tries = c.max_tries
      BY <1>1, <1>5 DEF Copies
  <2>2. /\ new.state \in {FAILED, UP_FOR_RETRY}
        /\ new.state = UP_FOR_RETRY => c.try <= c.max_tries
      BY <1>2, <2>1 DEF failure_state, is_eligible_to_retry, try_number
  <2> QED
      BY <1>2, <2>1, <2>2 DEF finished
<1> QED
    BY <1>3, <1>4, <1>5 DEF RawOutcomes
-----------------------------------------------------------------------------
(* Every step preserves Inv. *)

\* The scheduler and the start of a job: start takes the row from a state in which
\* no task executes.
LEMMA StartKeeps ==
    ASSUME Inv, NEW j \in Jobs, launch(j) \/ start(j) \/ not_able_to_run(j)
    PROVE  Inv'
<1> USE DEF Inv, rowVars, jobVars, rawVars, huntVars, faultVars
<1>1. CASE launch(j)
  <2> USE <1>1 DEF launch
  <2>1. TypeOK'
      BY DEF TypeOK
  <2>2. StartableHasTry' /\ RunningHasJob' /\ ShutdownIsCleared'
      BY DEF StartableHasTry, RunningHasJob, ShutdownIsCleared
  <2>3. ASSUME NoFaults' PROVE HeartbeatsFresh' /\ OwnersWork' /\ HuntFindsNothing'
      BY <2>3 DEF NoFaults, HeartbeatsFresh, OwnersWork, HuntFindsNothing, Owns, TypeOK
  <2>4. ASSUME NoFaults', clears' <= 1 PROVE ExecutionHasRow'
      BY <2>4 DEF NoFaults, ExecutionHasRow, Executing
  <2> QED
      BY <2>1, <2>2, <2>3, <2>4
<1>2. CASE start(j)
  <2> USE <1>2 DEF start, RUNNABLE_STATES
  <2>1. TypeOK'
      BY DEF TypeOK
  <2>2. StartableHasTry' /\ RunningHasJob' /\ ShutdownIsCleared'
      BY DEF StartableHasTry, RunningHasJob, ShutdownIsCleared
  <2>3. ASSUME NoFaults' PROVE HeartbeatsFresh' /\ OwnersWork' /\ HuntFindsNothing'
      BY <2>3 DEF NoFaults, HeartbeatsFresh, OwnersWork, HuntFindsNothing, Owns, TypeOK
  <2>4. ASSUME NoFaults', clears' <= 1 PROVE ExecutionHasRow'
      BY <2>4 DEF NoFaults, ExecutionHasRow, Executing, TypeOK
  <2> QED
      BY <2>1, <2>2, <2>3, <2>4
<1>3. CASE not_able_to_run(j)
  <2> USE <1>3 DEF not_able_to_run
  <2>1. TypeOK'
      BY DEF TypeOK
  <2>2. StartableHasTry' /\ RunningHasJob' /\ ShutdownIsCleared'
      BY DEF StartableHasTry, RunningHasJob, ShutdownIsCleared
  <2>3. ASSUME NoFaults' PROVE HeartbeatsFresh' /\ OwnersWork' /\ HuntFindsNothing'
      BY <2>3 DEF NoFaults, HeartbeatsFresh, OwnersWork, HuntFindsNothing, Owns, TypeOK
  <2>4. ASSUME NoFaults', clears' <= 1 PROVE ExecutionHasRow'
      BY <2>4 DEF NoFaults, ExecutionHasRow, Executing
  <2> QED
      BY <2>1, <2>2, <2>3, <2>4
<1> QED
    BY <1>1, <1>2, <1>3

\* The raw task: when it ends the row is no longer RUNNING, whoever owned it.
LEMMA RawKeeps ==
    ASSUME Inv, NEW j \in Jobs, raw_start(j) \/ raw_end(j) \/ sigkill(j)
    PROVE  Inv'
<1> USE DEF Inv, rowVars, jobVars, rawVars, huntVars, faultVars
<1>1. CASE raw_start(j)
  <2> USE <1>1 DEF raw_start
  <2>1. TypeOK'
      BY DEF TypeOK, Copies, TaskStates, finished
  <2>2. StartableHasTry' /\ RunningHasJob' /\ ShutdownIsCleared'
      BY DEF StartableHasTry, RunningHasJob, ShutdownIsCleared
  <2>3. ASSUME NoFaults' PROVE HeartbeatsFresh' /\ OwnersWork' /\ HuntFindsNothing'
      BY <2>3 DEF NoFaults, HeartbeatsFresh, OwnersWork, HuntFindsNothing, Owns, TypeOK
  <2>4. ASSUME NoFaults', clears' <= 1 PROVE ExecutionHasRow'
      BY <2>4 DEF NoFaults, ExecutionHasRow, Executing, TypeOK
  <2> QED
      BY <2>1, <2>2, <2>3, <2>4
<1>2. CASE raw_end(j)
  <2> USE <1>2 DEF raw_end
  <2>1. /\ state' \in finished \cup {UP_FOR_RETRY} /\ try' \in Nat /\ max_tries' \in Nat
        /\ state' = UP_FOR_RETRY => try' <= max_tries'
      BY RawOutcomesFact
  <2>2. TypeOK'
    <3>1. NoCopy \in Copies
        BY DEF NoCopy, Copies, TaskStates
    <3> QED
        BY <2>1, <3>1 DEF TypeOK
  <2>3. StartableHasTry' /\ RunningHasJob' /\ ShutdownIsCleared'
      BY <2>1 DEF StartableHasTry, RunningHasJob, ShutdownIsCleared, finished
  <2>4. ASSUME NoFaults' PROVE HeartbeatsFresh' /\ OwnersWork' /\ HuntFindsNothing'
      BY <2>1, <2>4 DEF NoFaults, HeartbeatsFresh, OwnersWork, HuntFindsNothing, Owns, finished
  <2>5. ASSUME NoFaults', clears' <= 1 PROVE ExecutionHasRow'
      BY <2>5 DEF NoFaults, ExecutionHasRow, Executing, TypeOK
  <2> QED
      BY <2>2, <2>3, <2>4, <2>5
<1>3. CASE sigkill(j)
  <2> USE <1>3 DEF sigkill
  <2>1. TypeOK'
      BY DEF TypeOK
  <2>2. StartableHasTry' /\ RunningHasJob' /\ ShutdownIsCleared'
      BY DEF StartableHasTry, RunningHasJob, ShutdownIsCleared
  <2>3. ASSUME NoFaults' PROVE HeartbeatsFresh' /\ OwnersWork' /\ HuntFindsNothing'
      BY <2>3 DEF NoFaults, HeartbeatsFresh, OwnersWork, HuntFindsNothing, Owns, TypeOK
  <2>4. ASSUME NoFaults', clears' <= 1 PROVE ExecutionHasRow'
      BY <2>4 DEF NoFaults, ExecutionHasRow, Executing, TypeOK
  <2> QED
      BY <2>1, <2>2, <2>3, <2>4
<1> QED
    BY <1>1, <1>2, <1>3

\* terminate gives the raw task of one job another stage, and starts nothing.
LEMMA TerminateFact ==
    ASSUME TypeOK, NEW j \in Jobs, terminate(j)
    PROVE  /\ raw' \in [Jobs -> {"none", "forked", "working", "sigterm", "ended"}]
           /\ \A i \in Jobs : i # j => raw'[i] = raw[i]
           /\ Executing(j)' => Executing(j)
BY DEF TypeOK, terminate, Executing

\* The job: a heartbeat of the owner changes nothing but its own row, any other
\* job touches its own raw task only, and the job exits after its raw task.
LEMMA JobKeeps ==
    ASSUME Inv, NEW j \in Jobs, heartbeat(j) \/ heartbeat_limit_exceeded(j) \/ job_exit(j)
    PROVE  Inv'
<1> USE DEF Inv, rowVars, jobVars, rawVars, huntVars, faultVars
<1>1. CASE heartbeat(j)
  <2> USE <1>1 DEF heartbeat
  <2>1. /\ raw' \in [Jobs -> {"none", "forked", "working", "sigterm", "ended"}]
        /\ \A i \in Jobs : i # j => raw'[i] = raw[i] /\ stage'[i] = stage[i]
        /\ Executing(j)' => Executing(j)
        /\ stage' \in [Jobs -> {"absent", "launched", "loop", "terminating", "raising", "gone"}]
        /\ stage'[j] \in {"loop", "terminating", "raising"}
        /\ Owns(j) => (stage' = stage /\ raw' = raw) \/ stage[j] # "loop"
    <3>1. CASE terminate(j) /\ ~Owns(j)
        BY <3>1, TerminateFact DEF TypeOK, Looping
    <3>2. CASE UNCHANGED <<raw, stage>>
        BY <3>2 DEF TypeOK, Looping, Executing
    <3> QED
        BY <3>1, <3>2 DEF Owns
  <2>2. TypeOK'
      BY <2>1 DEF TypeOK
  <2>3. StartableHasTry' /\ RunningHasJob' /\ ShutdownIsCleared'
      BY DEF StartableHasTry, RunningHasJob, ShutdownIsCleared
  <2>4. ASSUME NoFaults' PROVE HeartbeatsFresh' /\ OwnersWork' /\ HuntFindsNothing'
      BY <2>1, <2>4 DEF NoFaults, HeartbeatsFresh, OwnersWork, HuntFindsNothing, Owns, TypeOK
  <2>5. ASSUME NoFaults', clears' <= 1 PROVE ExecutionHasRow'
      BY <2>1, <2>5 DEF NoFaults, ExecutionHasRow, Executing
  <2> QED
      BY <2>2, <2>3, <2>4, <2>5
<1>2. CASE heartbeat_limit_exceeded(j)
  <2> USE <1>2 DEF heartbeat_limit_exceeded, raise
  <2>1. TypeOK'
      BY TerminateFact DEF TypeOK
  <2>2. StartableHasTry' /\ RunningHasJob' /\ ShutdownIsCleared'
      BY DEF StartableHasTry, RunningHasJob, ShutdownIsCleared
  <2>3. ~NoFaults'
      BY DEF NoFaults, HeartbeatsFresh, Looping
  <2> QED
      BY <2>1, <2>2, <2>3
<1>3. CASE job_exit(j)
  <2> USE <1>3 DEF job_exit
  <2>1. TypeOK'
      BY DEF TypeOK
  <2>2. StartableHasTry' /\ RunningHasJob' /\ ShutdownIsCleared'
      BY DEF StartableHasTry, RunningHasJob, ShutdownIsCleared
  <2>3. ASSUME NoFaults' PROVE HeartbeatsFresh' /\ OwnersWork' /\ HuntFindsNothing'
      BY <2>3 DEF NoFaults, HeartbeatsFresh, OwnersWork, HuntFindsNothing, Owns, TypeOK
  <2>4. ASSUME NoFaults', clears' <= 1 PROVE ExecutionHasRow'
      BY <2>4 DEF NoFaults, ExecutionHasRow, Executing
  <2> QED
      BY <2>1, <2>2, <2>3, <2>4
<1> QED
    BY <1>1, <1>2, <1>3

\* The hunt: without faults the owner of a RUNNING row is alive, so the query finds
\* nothing, and nothing reaches kill_zombies.
LEMMA HuntKeeps ==
    ASSUME Inv, find_zombies \/ start_processor \/ kill_zombies
    PROVE  Inv'
<1> USE DEF Inv, rowVars, jobVars, rawVars, huntVars, faultVars
<1>1. CASE find_zombies
  <2> USE <1>1 DEF find_zombies
  <2>1. TypeOK'
      BY DEF TypeOK
  <2>2. StartableHasTry' /\ RunningHasJob' /\ ShutdownIsCleared'
      BY DEF StartableHasTry, RunningHasJob, ShutdownIsCleared
  <2>3. ASSUME NoFaults' PROVE HeartbeatsFresh' /\ OwnersWork' /\ HuntFindsNothing'
      BY <2>3 DEF NoFaults, HeartbeatsFresh, OwnersWork, HuntFindsNothing, Owns,
                  is_zombie, RunningHasJob
  <2>4. ASSUME NoFaults', clears' <= 1 PROVE ExecutionHasRow'
      BY <2>4 DEF NoFaults, ExecutionHasRow, Executing
  <2> QED
      BY <2>1, <2>2, <2>3, <2>4
<1>2. CASE start_processor
  <2> USE <1>2 DEF start_processor
  <2>1. TypeOK'
      BY DEF TypeOK
  <2>2. StartableHasTry' /\ RunningHasJob' /\ ShutdownIsCleared'
      BY DEF StartableHasTry, RunningHasJob, ShutdownIsCleared
  <2>3. ASSUME NoFaults' PROVE HeartbeatsFresh' /\ OwnersWork' /\ HuntFindsNothing'
      BY <2>3 DEF NoFaults, HeartbeatsFresh, OwnersWork, HuntFindsNothing, Owns
  <2>4. ASSUME NoFaults', clears' <= 1 PROVE ExecutionHasRow'
      BY <2>4 DEF NoFaults, ExecutionHasRow, Executing
  <2> QED
      BY <2>1, <2>2, <2>3, <2>4
<1>3. CASE kill_zombies
  <2> USE <1>3 DEF kill_zombies
  <2>1. PICK n \in in_hand : /\ state' = failure_state(RUNNING, n, Retries, Retries, FALSE)
                             /\ try' = n /\ max_tries' = Retries
      OBVIOUS
  <2>2. n \in Nat /\ Retries \in Nat
      BY BoundsAssumption DEF TypeOK
  <2>3. state' \in {FAILED, UP_FOR_RETRY} /\ (state' = UP_FOR_RETRY => try' <= max_tries')
      BY <2>1, <2>2, FailureState
  <2>4. TypeOK'
      BY <2>1, <2>2, <2>3 DEF TypeOK, finished
  <2>5. StartableHasTry' /\ RunningHasJob' /\ ShutdownIsCleared'
      BY <2>3 DEF StartableHasTry, RunningHasJob, ShutdownIsCleared
  <2>6. ~NoFaults'
      BY DEF NoFaults, HuntFindsNothing
  <2> QED
      BY <2>4, <2>5, <2>6
<1> QED
    BY <1>1, <1>2, <1>3

\* Faults and the passing of time.
LEMMA FaultKeeps ==
    ASSUME Inv, NEW j \in Jobs,
           \/ miss(j) \/ expire(j) \/ sigterm_job(j)
           \/ \E d \in {<<TRUE, FALSE>>, <<FALSE, TRUE>>, <<TRUE, TRUE>>} : killed(j, d[1], d[2])
    PROVE  Inv'
<1> USE DEF Inv, rowVars, jobVars, rawVars, huntVars, faultVars
<1>1. CASE miss(j)
  <2> USE <1>1 DEF miss
  <2>1. TypeOK' /\ ~NoFaults'
      BY BoundsAssumption DEF TypeOK, NoFaults
  <2>2. StartableHasTry' /\ RunningHasJob' /\ ShutdownIsCleared'
      BY DEF StartableHasTry, RunningHasJob, ShutdownIsCleared
  <2> QED
      BY <2>1, <2>2
<1>2. CASE expire(j)
  <2> USE <1>2 DEF expire
  <2>1. TypeOK'
      BY DEF TypeOK
  <2>2. StartableHasTry' /\ RunningHasJob' /\ ShutdownIsCleared'
      BY DEF StartableHasTry, RunningHasJob, ShutdownIsCleared
  <2>3. ASSUME NoFaults' PROVE HeartbeatsFresh' /\ OwnersWork' /\ HuntFindsNothing'
      BY <2>3 DEF NoFaults, HeartbeatsFresh, OwnersWork, HuntFindsNothing, Owns, TypeOK
  <2>4. ASSUME NoFaults', clears' <= 1 PROVE ExecutionHasRow'
      BY <2>4 DEF NoFaults, ExecutionHasRow, Executing
  <2> QED
      BY <2>1, <2>2, <2>3, <2>4
<1>3. CASE sigterm_job(j)
  <2> USE <1>3 DEF sigterm_job, raise
  <2>1. TypeOK' /\ ~NoFaults'
      BY TerminateFact, BoundsAssumption DEF TypeOK, NoFaults
  <2>2. StartableHasTry' /\ RunningHasJob' /\ ShutdownIsCleared'
      BY DEF StartableHasTry, RunningHasJob, ShutdownIsCleared
  <2> QED
      BY <2>1, <2>2
<1>4. CASE \E d \in {<<TRUE, FALSE>>, <<FALSE, TRUE>>, <<TRUE, TRUE>>} : killed(j, d[1], d[2])
  <2> USE <1>4 DEF killed
  <2>1. TypeOK' /\ ~NoFaults'
      BY BoundsAssumption DEF TypeOK, NoFaults
  <2>2. StartableHasTry' /\ RunningHasJob' /\ ShutdownIsCleared'
      BY DEF StartableHasTry, RunningHasJob, ShutdownIsCleared
  <2> QED
      BY <2>1, <2>2
<1> QED
    BY <1>1, <1>2, <1>3, <1>4

\* A clear of a RUNNING row leaves its process in the row and the row SHUTDOWN,
\* which only a second clear makes free.
LEMMA ClearKeeps == Inv /\ clear => Inv'
<1> SUFFICES ASSUME Inv, clear PROVE Inv'
  OBVIOUS
<1> USE DEF Inv, clear, rowVars, jobVars, rawVars, huntVars, faultVars
<1>1. TypeOK'
  <2>1. max_tries' \in Nat
      BY BoundsAssumption DEF TypeOK, try_number
  <2>2. job_state' \in [Jobs -> {NONE, RUNNING, SUCCESS, FAILED, SHUTDOWN}]
      BY DEF TypeOK
  <2> QED
      BY <2>1, <2>2, BoundsAssumption DEF TypeOK
<1>2. StartableHasTry' /\ RunningHasJob' /\ ShutdownIsCleared'
    BY BoundsAssumption DEF StartableHasTry, RunningHasJob, ShutdownIsCleared, TypeOK, try_number
<1>3. ASSUME NoFaults' PROVE HeartbeatsFresh' /\ OwnersWork' /\ HuntFindsNothing'
    BY <1>3 DEF NoFaults, HeartbeatsFresh, OwnersWork, HuntFindsNothing, Owns
<1>4. ASSUME NoFaults', clears' <= 1 PROVE ExecutionHasRow'
    BY <1>4 DEF NoFaults, ExecutionHasRow, Executing, ShutdownIsCleared, TypeOK
<1> QED
    BY <1>1, <1>2, <1>3, <1>4

\* Inv holds initially and is inductive.
LEMMA InvHolds == Spec => []Inv
<1>1. Init => Inv
  <2> SUFFICES ASSUME Init PROVE Inv
    OBVIOUS
  <2>1. TypeOK
      BY BoundsAssumption DEF Init, TypeOK, NoCopy, Copies, TaskStates
  <2>2. /\ StartableHasTry /\ RunningHasJob /\ ShutdownIsCleared
        /\ HeartbeatsFresh /\ OwnersWork /\ HuntFindsNothing /\ ExecutionHasRow
      BY BoundsAssumption DEF Init, StartableHasTry, RunningHasJob, ShutdownIsCleared, OwnersWork,
                              HeartbeatsFresh, HuntFindsNothing, ExecutionHasRow, Owns, Executing
  <2> QED
      BY <2>1, <2>2 DEF Inv
<1>2. Inv /\ [Next]_vars => Inv'
  <2> SUFFICES ASSUME Inv, [Next]_vars PROVE Inv'
    OBVIOUS
  <2>1. ASSUME NEW j \in Jobs, launch(j) \/ start(j) \/ not_able_to_run(j) PROVE Inv'
      BY <2>1, StartKeeps
  <2>2. ASSUME NEW j \in Jobs, raw_start(j) \/ raw_end(j) \/ sigkill(j) PROVE Inv'
      BY <2>2, RawKeeps
  <2>3. ASSUME NEW j \in Jobs, heartbeat(j) \/ heartbeat_limit_exceeded(j) \/ job_exit(j)
        PROVE  Inv'
      BY <2>3, JobKeeps
  <2>4. ASSUME find_zombies \/ start_processor \/ kill_zombies PROVE Inv'
      BY <2>4, HuntKeeps
  <2>5. ASSUME NEW j \in Jobs,
               \/ miss(j) \/ expire(j) \/ sigterm_job(j)
               \/ \E d \in {<<TRUE, FALSE>>, <<FALSE, TRUE>>, <<TRUE, TRUE>>} :
                    killed(j, d[1], d[2])
        PROVE  Inv'
      BY <2>5, FaultKeeps
  <2>6. CASE clear
      BY <2>6, ClearKeeps
  <2>7. CASE UNCHANGED vars
      BY <2>7 DEF vars, rowVars, jobVars, rawVars, huntVars, faultVars, Inv, TypeOK, StartableHasTry,
               RunningHasJob, ShutdownIsCleared, NoFaults, HeartbeatsFresh, OwnersWork, Owns,
               HuntFindsNothing, ExecutionHasRow, Executing
  <2> QED
      BY <2>1, <2>2, <2>3, <2>4, <2>5, <2>6, <2>7 DEF Next, JobStep
<1> QED
    BY <1>1, <1>2, PTL DEF Spec
-----------------------------------------------------------------------------
(***************************************************************************)
(* Every variable keeps its type: tries and limits stay natural numbers    *)
(* through every write of a copy, and a row names a job that exists.       *)
(***************************************************************************)
THEOREM TypeCorrect == Spec => []TypeOK
<1>1. Inv => TypeOK
    BY DEF Inv
<1> QED
    BY <1>1, InvHolds, PTL

(***************************************************************************)
(* Whatever raw tasks and kill_zombies write back, and however often the   *)
(* user clears (clear_task_instances raises max_tries), a task instance    *)
(* that may still start has a try left.                                    *)
(***************************************************************************)
THEOREM StartableAlwaysHasTry == Spec => []StartableHasTry
<1>1. Inv => StartableHasTry
    BY DEF Inv
<1> QED
    BY <1>1, InvHolds, PTL

(***************************************************************************)
(* Without kills and late heartbeats _find_zombies finds nothing, for any  *)
(* number of jobs, failures, retries and clears.                           *)
(***************************************************************************)
THEOREM NeverAFalseAlarm == Spec => []NoFalseAlarm
<1>1. Inv => NoFalseAlarm
    BY DEF Inv, NoFalseAlarm, NoFaults, HuntFindsNothing
<1> QED
    BY <1>1, InvHolds, PTL

(***************************************************************************)
(* Without faults and with at most one clear no two jobs execute the task  *)
(* at the same time.                                                       *)
(***************************************************************************)
THEOREM OneExecutionAtATime == Spec => []OneExecution
<1>1. Inv => OneExecution
    BY DEF Inv, OneExecution, NoFaults, ExecutionHasRow
<1> QED
    BY <1>1, InvHolds, PTL
=============================================================================
