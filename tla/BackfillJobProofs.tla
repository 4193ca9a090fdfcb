-------------------------- MODULE BackfillJobProofs --------------------------
(***************************************************************************)
(* Proofs about BackfillJob.tla for every DAG, any dates, limits and       *)
(* retries, and any states the rows may have at the start.                 *)
(*                                                                         *)
(* The first part shows that no task instance falls out of the status, the *)
(* second that a backfill that is done has run all that nobody cleared,    *)
(* and runs nothing twice.                                                 *)
(***************************************************************************)
EXTENDS BackfillJob, FiniteSetTheorems, TLAPS

(***************************************************************************)
(* The parts of the inductive invariant.                                   *)
(***************************************************************************)

\* A task instance has one key at most among those waiting and sent.
KeysApart ==
    /\ to_run \cap running = {}
    /\ \A k, l \in to_run \cup running : k[1] = l[1] => k = l

\* A pass looks at keys that are waiting; nothing else takes them out meanwhile.
PassIsWaiting ==
    /\ step \in {"process", "queue"} => todo \subseteq to_run /\ deadlocked = {}
    /\ step = "queue" => cur.key \in todo

\* Dates are loaded when the status is drained, each of them once.
LoadsOnce ==
    /\ step = "dates" => running = {} /\ \A k \in to_run : k[1][2] \notin todo_runs
    /\ step = "collect" => to_run \cup running = {} \/ deadlocked # {}

\* The runs that are updated are active.
UpdatesActive == step = "runs" => todo_runs \subseteq active_runs

Counted == to_run \cup running \cup succeeded \cup skipped \cup failed \cup deadlocked

NothingFallsOut == \A d \in active_runs \cup executed : AtDate(d) \subseteq TisOf(Counted)

Inv == KeysApart /\ PassIsWaiting /\ LoadsOnce /\ UpdatesActive /\ NothingFallsOut
-----------------------------------------------------------------------------
\* A backfill starts with empty status sets.
LEMMA InitEstablishes == Init => Inv
BY DEF Init, Inv, KeysApart, PassIsWaiting, LoadsOnce, UpdatesActive, NothingFallsOut

\* What the processes, users and the environment do leaves the status alone.
LEMMA EnvironmentKeeps ==
    ASSUME Inv, UNCHANGED <<step, todo, todo_runs, cur, statusVars>>
    PROVE  Inv'
BY DEF Inv, KeysApart, PassIsWaiting, LoadsOnce, UpdatesActive, NothingFallsOut, Counted, TisOf,
   AtDate, statusVars, doneVars

\* A run is loaded when none of its task instances has a key.
LEMMA LoadKeeps ==
    ASSUME Inv, NEW d \in Dates, load_run(d)
    PROVE  Inv'
<1> USE DEF load_run
<1>1. CASE UNCHANGED <<to_run, active_runs>>
    BY <1>1 DEF Inv, KeysApart, PassIsWaiting, LoadsOnce, UpdatesActive, NothingFallsOut, Counted,
       TisOf, AtDate, doneVars
<1>2. CASE /\ to_run' = to_run \cup { KeyOf(ti) : ti \in AtDate(d) }
           /\ active_runs' = active_runs \cup {d}
  <2>1. step = "dates" /\ step' = "dates" /\ running = {} /\ d \in todo_runs
        /\ UNCHANGED <<running, executed, doneVars, deadlocked>>
        /\ todo_runs' = todo_runs \ {d}
      BY DEF Inv, LoadsOnce
  <2>2. \A ti : KeyOf(ti)[1] = ti
      BY DEF KeyOf
  <2>3. \A ti \in AtDate(d) : ti[2] = d
      BY DEF AtDate
  <2>4. \A k \in to_run : k[1][2] \notin todo_runs
      BY <2>1 DEF Inv, LoadsOnce
  <2>5. KeysApart'
    <3>1. to_run' \cap running' = {}
        BY <2>1
    <3>2. \A k, l \in to_run' : k[1] = l[1] => k = l
        BY <1>2, <2>1, <2>2, <2>3, <2>4 DEF Inv, KeysApart
    <3> QED
        BY <2>1, <3>1, <3>2 DEF KeysApart
  <2>6. LoadsOnce'
      BY <1>2, <2>1, <2>2, <2>3, <2>4 DEF LoadsOnce
  <2>7. NothingFallsOut'
    <3>1. AtDate(d) \subseteq TisOf(to_run')
        BY <1>2, <2>2 DEF TisOf
    <3>2. TisOf(Counted) \cup TisOf(to_run') \subseteq TisOf(Counted')
        BY <1>2, <2>1 DEF TisOf, Counted, doneVars
    <3> QED
        BY <1>2, <2>1, <3>1, <3>2 DEF Inv, NothingFallsOut, AtDate, TisOf
  <2> QED
      BY <2>1, <2>5, <2>6, <2>7 DEF Inv, PassIsWaiting, UpdatesActive
<1> QED
    BY <1>1, <1>2

\* A round of the loop takes a snapshot of what waits.
LEMMA LoopKeeps ==
    ASSUME Inv, loop
    PROVE  Inv'
<1>1. UNCHANGED <<to_run, running, doneVars, deadlocked, active_runs, executed>>
    BY DEF loop
<1>2. KeysApart' /\ NothingFallsOut'
    BY <1>1 DEF Inv, KeysApart, NothingFallsOut, Counted, TisOf, AtDate, doneVars
<1>3. PassIsWaiting' /\ LoadsOnce' /\ UpdatesActive'
    BY <1>1 DEF loop, PassIsWaiting, LoadsOnce, UpdatesActive
<1> QED
    BY <1>2, <1>3 DEF Inv

\* The first half of a pass: a key that is taken out of to_run has been counted.
LEMMA ProcessKeeps ==
    ASSUME Inv, NEW k, concurrency_limit(k) \/ per_task_process(k)
    PROVE  Inv'
<1>1. k \in todo /\ k \in to_run /\ k \notin running /\ step = "process"
    BY DEF concurrency_limit, per_task_process, Next_in_order, Inv, PassIsWaiting, KeysApart
<1>2. CASE concurrency_limit(k)
    BY <1>2 DEF concurrency_limit, Inv, KeysApart, PassIsWaiting, LoadsOnce, UpdatesActive,
       NothingFallsOut, Counted, TisOf, AtDate, statusVars, doneVars
<1>3. CASE per_task_process(k)
  <2>1. /\ running' = running
        /\ succeeded \subseteq succeeded' /\ skipped \subseteq skipped' /\ failed \subseteq failed'
        /\ UNCHANGED <<deadlocked, active_runs, executed, todo_runs>>
      BY <1>1, <1>3 DEF per_task_process
  <2>2. CASE /\ to_run' = to_run \ {k} /\ todo' = todo \ {k} /\ UNCHANGED <<step, cur>>
             /\ k \in succeeded' \cup skipped' \cup failed'
    <3>1. KeysApart' /\ PassIsWaiting' /\ LoadsOnce' /\ UpdatesActive'
        BY <1>1, <2>1, <2>2 DEF Inv, KeysApart, PassIsWaiting, LoadsOnce, UpdatesActive
    <3>2. Counted \subseteq Counted'
        BY <2>1, <2>2 DEF Counted
    <3> QED
        BY <2>1, <3>1, <3>2 DEF Inv, NothingFallsOut, TisOf, AtDate
  <2>3. CASE step' = "queue" /\ cur'.key = k /\ UNCHANGED <<to_run, todo>>
    <3>1. KeysApart' /\ PassIsWaiting' /\ LoadsOnce' /\ UpdatesActive'
        BY <1>1, <2>1, <2>3 DEF Inv, KeysApart, PassIsWaiting, LoadsOnce, UpdatesActive
    <3>2. Counted \subseteq Counted'
        BY <2>1, <2>3 DEF Counted
    <3> QED
        BY <2>1, <3>1, <3>2 DEF Inv, NothingFallsOut, TisOf, AtDate
  <2> QED
      BY <1>3, <2>2, <2>3 DEF per_task_process, NoCopy
<1> QED
    BY <1>2, <1>3

\* The second half: the key is sent, stays, or has failed.
LEMMA QueueKeeps ==
    ASSUME Inv, NEW due, queue_task_instance(due)
    PROVE  Inv'
<1> PICK k : k = cur.key
  OBVIOUS
<1>1. step = "queue" /\ k \in todo /\ todo \subseteq to_run /\ k \notin running
    BY DEF queue_task_instance, Inv, PassIsWaiting, KeysApart
<1>2. /\ step' = "process" /\ todo' = todo \ {k}
      /\ UNCHANGED <<todo_runs, succeeded, skipped, deadlocked, active_runs, executed>>
      /\ failed \subseteq failed'
    BY DEF queue_task_instance
<1>3. \/ to_run' = to_run \ {k} /\ running' = running \cup {k}
      \/ to_run' = to_run \ {k} /\ running' = running /\ k \in failed'
      \/ to_run' = to_run /\ running' = running
    BY <1>1 DEF queue_task_instance
<1>4. KeysApart' /\ PassIsWaiting' /\ LoadsOnce' /\ UpdatesActive'
    BY <1>1, <1>2, <1>3 DEF Inv, KeysApart, PassIsWaiting, LoadsOnce, UpdatesActive
<1>5. Counted \subseteq Counted'
    BY <1>2, <1>3 DEF Counted
<1> QED
    BY <1>2, <1>4, <1>5 DEF Inv, NothingFallsOut, TisOf, AtDate

\* Nothing is deadlocked before the check for deadlocks.
LEMMA HeartbeatKeeps ==
    ASSUME Inv, NEW E, heartbeat(E)
    PROVE  Inv'
<1>1. /\ step = "process" /\ step' = "manage" /\ deadlocked = {}
      /\ UNCHANGED <<todo_runs, running, succeeded, skipped, failed, active_runs, executed>>
    BY DEF heartbeat, doneVars, Inv, PassIsWaiting
<1>2. \/ to_run' = to_run /\ deadlocked' = deadlocked
      \/ to_run' = {} /\ deadlocked' = to_run
    BY DEF heartbeat
<1>3. KeysApart' /\ PassIsWaiting' /\ LoadsOnce' /\ UpdatesActive'
    BY <1>1, <1>2 DEF Inv, KeysApart, PassIsWaiting, LoadsOnce, UpdatesActive
<1>4. Counted \subseteq Counted'
    BY <1>1, <1>2 DEF Counted
<1> QED
    BY <1>1, <1>3, <1>4 DEF Inv, NothingFallsOut, TisOf, AtDate

\* _manage_executor_state writes rows, and no status set.
LEMMA ManageKeeps ==
    ASSUME Inv, (\E k \in Keys : manage_event(k)) \/ handle_failure
    PROVE  Inv'
<1>1. step' \in {"manage", "fail"} /\ UNCHANGED statusVars
    BY DEF manage_event, handle_failure
<1> QED
    BY <1>1 DEF Inv, KeysApart, PassIsWaiting, LoadsOnce, UpdatesActive, NothingFallsOut, Counted,
       TisOf, AtDate, statusVars, doneVars

\* _update_counters: what leaves running has been counted, or waits again.
LEMMA CountersKeep ==
    ASSUME Inv, update_counters
    PROVE  Inv'
<1> DEFINE In(S) == { k \in running : state[k[1]] \in S }
<1>1. /\ step' = "runs" /\ todo_runs' = active_runs
      /\ UNCHANGED <<deadlocked, active_runs, executed>>
      /\ succeeded' = succeeded \cup In({SUCCESS})
      /\ skipped' = skipped \cup In({SKIPPED})
      /\ failed' = failed \cup In({FAILED})
      /\ to_run' = to_run \cup In(again)
      /\ running' = running \ In(finished \cup again)
    BY DEF update_counters, again
<1>2. to_run' \cap running' = {} /\ to_run' \cup running' \subseteq to_run \cup running
    BY <1>1 DEF Inv, KeysApart
<1>3. KeysApart' /\ PassIsWaiting' /\ LoadsOnce' /\ UpdatesActive'
    BY <1>1, <1>2 DEF Inv, KeysApart, PassIsWaiting, LoadsOnce, UpdatesActive
<1>4. Counted \subseteq Counted'
    BY <1>1 DEF Counted, finished
<1> QED
    BY <1>1, <1>3, <1>4 DEF Inv, NothingFallsOut, TisOf, AtDate

\* A run that has ended leaves the active ones for the executed ones.
LEMMA RunsKeep ==
    ASSUME Inv, NEW d \in Dates, update_run(d) \/ set_unfinished_dag_run_to_failed(d)
    PROVE  Inv'
<1>1. /\ step' = step /\ step \in {"runs", "interrupted"} /\ d \in todo_runs
      /\ todo_runs' = todo_runs \ {d}
      /\ UNCHANGED <<to_run, running, succeeded, skipped, failed, deadlocked>>
    BY DEF update_run, set_unfinished_dag_run_to_failed, statusVars, doneVars
<1>2. \/ UNCHANGED <<active_runs, executed>>
      \/ /\ step = "runs"
         /\ active_runs' = active_runs \ {d} /\ executed' = executed \cup {d}
    BY DEF update_run, set_unfinished_dag_run_to_failed, statusVars
<1>3. active_runs' \cup executed' \subseteq active_runs \cup executed
    BY <1>1, <1>2 DEF Inv, UpdatesActive
<1> QED
    BY <1>1, <1>2, <1>3 DEF Inv, KeysApart, PassIsWaiting, LoadsOnce, UpdatesActive, NothingFallsOut,
       Counted, TisOf, AtDate

\* The end, in order or by an interrupt, leaves the sets as they are.
LEMMA EndKeeps ==
    ASSUME Inv, collect_errors \/ interrupt
    PROVE  Inv'
<1>1. UNCHANGED statusVars /\ step' \in {"raised", "done", "dates", "interrupted"}
    BY DEF collect_errors, interrupt
<1>2. step' = "dates" => to_run = {} /\ running = {}
    BY DEF collect_errors, interrupt, Inv, LoadsOnce
<1> QED
    BY <1>1, <1>2 DEF Inv, KeysApart, PassIsWaiting, LoadsOnce, UpdatesActive, NothingFallsOut, Counted,
       TisOf, AtDate, statusVars, doneVars
-----------------------------------------------------------------------------
\* Every step keeps the invariant.
LEMMA InvIsInductive == Inv /\ [Next]_vars => Inv'
<1> SUFFICES ASSUME Inv, [Next]_vars PROVE Inv'
    OBVIOUS
<1>1. CASE JobStep
    BY <1>1, LoadKeeps, LoopKeeps, ProcessKeeps, QueueKeeps, HeartbeatKeeps, ManageKeeps, CountersKeep,
       RunsKeep, EndKeeps DEF JobStep
<1>2. CASE \E k \in Keys : ProcessStep(k)
    BY <1>2, EnvironmentKeeps DEF ProcessStep, start, not_started, finish
<1>3. CASE \E k \in Keys : reschedule(k) \/ killed(k) \/ requeue(k)
    BY <1>3, EnvironmentKeeps DEF reschedule, killed, requeue
<1>4. CASE \E ti \in Clearable : clear(ti)
    BY <1>4, EnvironmentKeeps DEF clear
<1>5. CASE interrupt
    BY <1>5, EndKeeps
<1>6. CASE UNCHANGED vars
    BY <1>6, EnvironmentKeeps DEF vars
<1> QED
    BY <1>1, <1>2, <1>3, <1>4, <1>5, <1>6 DEF Next

\* No task instance falls out of a backfill: through retries, reschedules, killed and
\* requeued processes, clears and limits, each task instance of a loaded run is waiting or
\* sent, never both, or has been counted (_per_task_process, _update_counters,
\* _update_backfill_status of backfill_job.py).
THEOREM NothingEverFallsOut == Spec => []Accounted
<1>1. Inv => Accounted
  <2> SUFFICES ASSUME Inv PROVE Accounted
      OBVIOUS
  <2>1. TisOf(to_run) \cap TisOf(running) = {}
      BY DEF Inv, KeysApart, TisOf
  <2> QED
      BY <2>1 DEF Inv, NothingFallsOut, Counted, Accounted
<1> QED
    BY <1>1, InitEstablishes, InvIsInductive, PTL DEF Spec
-----------------------------------------------------------------------------
(***************************************************************************)
(* Rows, attempts and counted task instances.  The parts below are about   *)
(* task instances that are Untouched, and hold with FewRetries.            *)
(***************************************************************************)

\* The attempts of ti that are on their way or at work.
Live(ti) == { n \in 1..MaxTry : attempt[<<ti, n>>] \in {"queued", "sent", "working"} }

\* handle_failure is about to write its copy of ti.
Failing(ti) == step = "fail" /\ cur.key[1] = ti

\* What the copy will make of the row is UP_FOR_RETRY.
CopyRetries ==
    is_eligible_to_retry(retries[cur.key[1][1]], max_tries[cur.key[1]], try_number(cur.state, cur.try))

\* A live attempt has the row in its hands: QUEUED for it, or RUNNING it; or a late event
\* of the first attempt has failed the second.  It is not waiting to be sent.
LiveIsOwner(ti) == \A n \in Live(ti) :
    /\ n <= retries[ti[1]] + 1
    /\ ti \notin TisOf(to_run)
    /\ \/ state[ti] = QUEUED /\ try[ti] = n - 1 /\ ti \in TisOf(running) /\ attempt[<<ti, n>>] # "working"
       \/ state[ti] = RUNNING /\ try[ti] = n /\ ti \in TisOf(running) /\ attempt[<<ti, n>>] = "working"
       \/ state[ti] = FAILED /\ n = 2 /\ try[ti] \in 1..2 /\ ti \in TisOf(running \cup failed)

\* What is live depends on task instances that have succeeded, for good.
LiveHasUpstream(ti) ==
    Live(ti) # {} => \A u \in Up[ti[1]] : state[<<u, ti[2]>>] = SUCCESS /\ ~Failing(<<u, ti[2]>>)

\* What may be sent has a try left.
SendableHasTry(ti) ==
    /\ max_tries[ti] = retries[ti[1]] /\ try[ti] \in Nat
    /\ \/ state[ti] \in again
       \/ ti \in TisOf(to_run) /\ state[ti] \notin {SUCCESS, SKIPPED}
       => try[ti] <= retries[ti[1]]

\* The status knows a task instance that is not done by its first key.
KnownByFirstKey(ti) ==
    /\ \A k \in running : k[1] = ti => k[2] <= 1
    /\ \A k \in to_run : k[1] = ti => k[2] <= 1 \/ state[ti] \in {SUCCESS, SKIPPED}

\* A copy that is about to be written back is about the first attempt, which is over; if
\* another one lives, the copy fails the row.
LateEvent(ti) == Failing(ti) =>
    /\ cur.key \in running /\ cur.key[2] = 1 /\ attempt[cur.key] = "none"
    /\ cur.state \in {QUEUED, RUNNING} /\ cur.try \in Nat
    /\ Live(ti) # {} => cur.try \in 1..2 /\ ~CopyRetries

\* What has been counted stays as it was counted.
CountedStays(ti) ==
    /\ ti \in TisOf(succeeded) => state[ti] = SUCCESS /\ ~Failing(ti)
    /\ ti \in TisOf(skipped) => state[ti] = SKIPPED /\ ~Failing(ti)

\* Between the two halves of _per_task_process a row does not get done.
PassIsUndone(ti) == (step = "queue" /\ cur.key[1] = ti) => state[ti] \notin {SUCCESS, SKIPPED}

\* A run that has not been loaded has not begun.
UnloadedIsFresh(ti) == ti[2] \notin active_runs \cup executed => try[ti] = 0

RowInv(ti) ==
    /\ LiveIsOwner(ti) /\ LiveHasUpstream(ti) /\ SendableHasTry(ti) /\ KnownByFirstKey(ti)
    /\ LateEvent(ti) /\ CountedStays(ti) /\ PassIsUndone(ti) /\ UnloadedIsFresh(ti)

\* Types of the rows, and of what refers to them.
RowsTyped ==
    /\ state \in [TIs -> TaskStates]
    /\ try \in [TIs -> Int] /\ max_tries \in [TIs -> Int]
    /\ attempt \in [Keys -> {"none", "queued", "sent", "working", "exiting"}]
    /\ \A k \in Counted : k[1] \in TIs /\ k[1][2] \in active_runs \cup executed
    /\ cleared \subseteq TIs
    /\ step = "fail" => cur.key \in Keys /\ cur.try \in Int

\* The events in hand are about attempts that are over.
EventsAreOver == step \in {"manage", "fail"} => \A k \in todo : k \in Keys /\ attempt[k] = "none"

\* Rounds begin, and the job is done, without an error.
ErrorsRaise ==
    /\ step = "dates" => failed \cup deadlocked = {}
    /\ step = "done" => to_run \cup running \cup failed \cup deadlocked = {} /\ executed = Dates

DoneInv ==
    /\ Inv /\ RowsTyped /\ EventsAreOver /\ ErrorsRaise
    /\ \A ti \in TIs : Untouched(ti) => RowInv(ti)
-----------------------------------------------------------------------------
\* The bound on try numbers is no bound for tasks with few retries.
LEMMA Numbers == /\ MaxTry \in Nat /\ MaxTry >= 1
                 /\ \A t \in Tasks : retries[t] \in Nat /\ retries[t] + 1 <= MaxTry
<1>1. MaxRetries \in Nat /\ MaxEvents \in Nat
    BY LimitsAssumption
<1>2. MaxTry = MaxRetries * MaxEvents + MaxEvents + MaxRetries + 1
    BY <1>1 DEF MaxTry
<1>3. MaxRetries * MaxEvents \in Nat
    BY <1>1
<1>4. MaxTry \in Nat /\ MaxTry >= MaxRetries + 1
    BY <1>1, <1>2, <1>3
<1>5. \A t \in Tasks : retries[t] \in 0..MaxRetries
    BY LimitsAssumption
<1> QED
    BY <1>1, <1>4, <1>5

\* A key is a task instance with a number.
LEMMA KeyShape ==
    ASSUME NEW k \in Keys
    PROVE  k[1] \in TIs /\ k[2] \in 1..MaxTry /\ k = <<k[1], k[2]>>
BY DEF Keys

\* A task instance has a task and a date.
LEMMA TIShape ==
    ASSUME NEW ti \in TIs
    PROVE  /\ ti[1] \in Tasks /\ ti[2] \in Dates /\ ti = <<ti[1], ti[2]>>
           /\ \A u \in Up[ti[1]] : <<u, ti[2]>> \in TIs /\ <<u, ti[2]>> # ti /\ u # ti[1]
<1>1. ti[1] \in Tasks /\ ti[2] \in Dates /\ ti = <<ti[1], ti[2]>>
    BY DEF TIs
<1>2. \A u \in Up[ti[1]] : u \in Tasks /\ Rank[u] < Rank[ti[1]]
    BY <1>1, DagAssumption
<1>3. \A u \in Tasks : Rank[u] \in Nat
    BY DagAssumption
<1>4. \A u \in Up[ti[1]] : u # ti[1]
    BY <1>1, <1>2, <1>3
<1> QED
    BY <1>1, <1>2, <1>4 DEF TIs

\* What nobody has touched depends on what nobody has touched.
LEMMA UntouchedUpstream ==
    ASSUME NEW ti \in TIs, Untouched(ti)
    PROVE  ti \notin cleared /\ \A u \in Up[ti[1]] : Untouched(<<u, ti[2]>>)
<1>1. ti[1] \in Ancestors(ti[1])
    BY TIShape DEF Ancestors
<1>2. ASSUME NEW u \in Up[ti[1]], NEW v \in Ancestors(u)
      PROVE  v \in Ancestors(ti[1])
  <2>1. v \in Tasks
      BY <1>2 DEF Ancestors
  <2>2. ASSUME NEW C \in SUBSET Tasks, ti[1] \in C, \A w \in C : Up[w] \subseteq C
        PROVE  v \in C
      BY <1>2, <2>2 DEF Ancestors
  <2> QED
      BY <2>1, <2>2 DEF Ancestors
<1> QED
    BY <1>1, <1>2, TIShape DEF Untouched

\* all_success is met when every parent has succeeded, and then there is no flag to be set.
LEMMA MetUpstream ==
    ASSUME NEW ti \in TIs
    PROVE  /\ rule_met("all_success", upstream_counts(ti))
                => \A u \in Up[ti[1]] : state[<<u, ti[2]>>] = SUCCESS
           /\ (\A u \in Up[ti[1]] : state[<<u, ti[2]>>] = SUCCESS) => flag(ti) = NoFlag
           /\ flag(ti) \in {NoFlag, UPSTREAM_FAILED, SKIPPED}
<1> DEFINE In(S) == { u \in Up[ti[1]] : state[<<u, ti[2]>>] \in S }
<1>1. IsFiniteSet(Up[ti[1]])
    BY DagAssumption, TIShape, FS_Subset
<1>2. /\ Cardinality(In({SUCCESS})) \in Nat
      /\ Cardinality(In({SUCCESS})) <= Cardinality(Up[ti[1]])
      /\ Cardinality(In({SUCCESS})) = Cardinality(Up[ti[1]]) => In({SUCCESS}) = Up[ti[1]]
  <2>1. In({SUCCESS}) \subseteq Up[ti[1]]
      OBVIOUS
  <2> HIDE DEF In
  <2> QED
      BY <1>1, <2>1, FS_Subset, FS_CardinalityType
<1>3. Cardinality(Up[ti[1]]) \in Nat
    BY <1>1, FS_CardinalityType
<1>4. /\ upstream_counts(ti).success = Cardinality(In({SUCCESS}))
      /\ upstream_counts(ti).skipped = Cardinality(In({SKIPPED}))
      /\ upstream_counts(ti).failed = Cardinality(In({FAILED}))
      /\ upstream_counts(ti).upstream_failed = Cardinality(In({UPSTREAM_FAILED}))
      /\ upstream_counts(ti).n = Cardinality(Up[ti[1]])
    BY DEF upstream_counts
<1>5. ASSUME rule_met("all_success", upstream_counts(ti))
      PROVE  \A u \in Up[ti[1]] : state[<<u, ti[2]>>] = SUCCESS
  <2>1. upstream_counts(ti).n - upstream_counts(ti).success <= 0
      BY <1>5 DEF rule_met
  <2>2. In({SUCCESS}) = Up[ti[1]]
    <3> HIDE DEF In
    <3> QED
        BY <1>2, <1>3, <1>4, <2>1
  <2> QED
      BY <2>2
<1>6. ASSUME \A u \in Up[ti[1]] : state[<<u, ti[2]>>] = SUCCESS
      PROVE  flag(ti) = NoFlag
  <2>1. In({SKIPPED}) = {} /\ In({FAILED}) = {} /\ In({UPSTREAM_FAILED}) = {}
      BY <1>6 DEF SUCCESS, SKIPPED, FAILED, UPSTREAM_FAILED
  <2>2. /\ upstream_counts(ti).skipped = 0 /\ upstream_counts(ti).failed = 0
        /\ upstream_counts(ti).upstream_failed = 0
      BY <1>4, <2>1, FS_EmptySet
  <2> QED
      BY <2>2 DEF flag, flagged_state
<1>7. flag(ti) \in {NoFlag, UPSTREAM_FAILED, SKIPPED}
    BY DEF flag, flagged_state
<1> QED
    BY <1>5, <1>6, <1>7
-----------------------------------------------------------------------------
\* A task instance has one live attempt at most, and its row is not done; it is neither waiting
\* nor counted.
LEMMA OneLive ==
    ASSUME Inv, RowsTyped, NEW ti \in TIs, RowInv(ti), NEW n \in Live(ti)
    PROVE  /\ Live(ti) = {n} /\ n \in 1..MaxTry
           /\ state[ti] \in {QUEUED, RUNNING, FAILED}
           /\ ti \notin TisOf(to_run) /\ ti \notin TisOf(succeeded) /\ ti \notin TisOf(skipped)
           /\ ti[2] \in active_runs \cup executed
           /\ ~(step = "queue" /\ cur.key[1] = ti)
<1> USE DEF QUEUED, RUNNING, FAILED, SUCCESS, SKIPPED
<1>1. n \in 1..MaxTry /\ \A m \in Live(ti) : m \in 1..MaxTry
    BY DEF Live
<1>2. MaxTry \in Nat
    BY Numbers
<1>3. \A m \in Live(ti) : m = n
  <2> SUFFICES ASSUME NEW m \in Live(ti) PROVE m = n
      OBVIOUS
  <2>1. m \in Int /\ n \in Int /\ try[ti] \in Int
      BY <1>1, <1>2 DEF RowInv, SendableHasTry
  <2>2. ASSUME NEW j \in Live(ti)
        PROVE  \/ state[ti] = QUEUED /\ try[ti] = j - 1
               \/ state[ti] = RUNNING /\ try[ti] = j
               \/ state[ti] = FAILED /\ j = 2
      BY <2>2 DEF RowInv, LiveIsOwner
  <2> QED
      BY <2>1, <2>2
<1>4. state[ti] \in {QUEUED, RUNNING, FAILED} /\ ti \notin TisOf(to_run)
      /\ ti \in TisOf(running \cup failed)
    BY DEF RowInv, LiveIsOwner, TisOf
<1>5. ti[2] \in active_runs \cup executed
    BY <1>4 DEF RowsTyped, Counted, TisOf
<1>6. ti \notin TisOf(succeeded) /\ ti \notin TisOf(skipped)
    BY <1>4 DEF RowInv, CountedStays
<1>7. ~(step = "queue" /\ cur.key[1] = ti)
    BY <1>4 DEF Inv, PassIsWaiting, TisOf
<1> QED
    BY <1>1, <1>3, <1>4, <1>5, <1>6, <1>7

\* A step that changes the row r, what the status says of it and the attempts at it keeps what
\* is known of the others, unless r had succeeded and they live and depend on it.
LEMMA OthersKeep ==
    ASSUME RowsTyped, NEW ti \in TIs, RowInv(ti), NEW r, r # ti,
           state'[ti] = state[ti], try'[ti] = try[ti], max_tries'[ti] = max_tries[ti],
           Live(ti) # {} => \A u \in Up[ti[1]] : \/ state'[<<u, ti[2]>>] = state[<<u, ti[2]>>]
                                                \/ state[<<u, ti[2]>>] # SUCCESS,
           \A k \in Keys : k[1] # r => attempt'[k] = attempt[k],
           \A k : k[1] # r => /\ k \in to_run' <=> k \in to_run
                              /\ k \in running' <=> k \in running
                              /\ k \in succeeded' <=> k \in succeeded
                              /\ k \in skipped' <=> k \in skipped
                              /\ k \in failed' <=> k \in failed,
           active_runs \cup executed \subseteq active_runs' \cup executed',
           step' = "fail" => step = "fail" /\ cur' = cur,
           step' = "queue" => (step = "queue" /\ cur' = cur) \/ cur'.key[1] = r
    PROVE  RowInv(ti)'
<1>1. Live(ti)' = Live(ti)
  <2>1. \A n \in 1..MaxTry : <<ti, n>> \in Keys /\ <<ti, n>>[1] # r
      BY DEF Keys
  <2> QED
      BY <2>1 DEF Live
<1>2. /\ (ti \in TisOf(to_run))' <=> ti \in TisOf(to_run)
      /\ (ti \in TisOf(running))' <=> ti \in TisOf(running)
      /\ (ti \in TisOf(succeeded))' <=> ti \in TisOf(succeeded)
      /\ (ti \in TisOf(skipped))' <=> ti \in TisOf(skipped)
      /\ (ti \in TisOf(failed))' <=> ti \in TisOf(failed)
    BY DEF TisOf
<1>3. Failing(ti)' => Failing(ti) /\ cur' = cur
    BY DEF Failing
<1>4. LiveIsOwner(ti)'
  <2>1. \A n \in Live(ti) : n \in 1..MaxTry /\ attempt'[<<ti, n>>] = attempt[<<ti, n>>]
      BY DEF Live, Keys
  <2>2. /\ ti \in TisOf(running \cup failed) <=> ti \in TisOf(running) \/ ti \in TisOf(failed)
        /\ (ti \in TisOf(running \cup failed))' <=> (ti \in TisOf(running))' \/ (ti \in TisOf(failed))'
      BY DEF TisOf
  <2> QED
      BY <1>1, <1>2, <2>1, <2>2 DEF LiveIsOwner, RowInv
<1>5. LiveHasUpstream(ti)'
  <2> SUFFICES ASSUME Live(ti) # {}, NEW u \in Up[ti[1]]
               PROVE  state'[<<u, ti[2]>>] = SUCCESS /\ ~Failing(<<u, ti[2]>>)'
      BY <1>1 DEF LiveHasUpstream
  <2>1. state[<<u, ti[2]>>] = SUCCESS /\ ~Failing(<<u, ti[2]>>)
      BY DEF RowInv, LiveHasUpstream
  <2> QED
      BY <2>1 DEF Failing
<1>6. SendableHasTry(ti)' /\ CountedStays(ti)'
    BY <1>2, <1>3 DEF SendableHasTry, CountedStays, RowInv
<1>7. KnownByFirstKey(ti)'
    BY DEF KnownByFirstKey, RowInv
<1>8. LateEvent(ti)'
  <2> SUFFICES ASSUME Failing(ti), cur' = cur, step = "fail"
               PROVE  /\ cur.key \in running' /\ cur.key[2] = 1 /\ attempt'[cur.key] = "none"
                      /\ cur.state \in {QUEUED, RUNNING} /\ cur.try \in Nat
                      /\ Live(ti) # {} => cur.try \in 1..2 /\ ~CopyRetries'
      BY <1>1, <1>3 DEF LateEvent, Failing
  <2>1. cur.key[1] = ti /\ cur.key \in Keys
      BY DEF Failing, RowsTyped
  <2>2. CopyRetries' = CopyRetries
      BY <2>1 DEF CopyRetries
  <2> QED
      BY <2>1, <2>2 DEF LateEvent, RowInv
<1>9. PassIsUndone(ti)' /\ UnloadedIsFresh(ti)'
    BY DEF PassIsUndone, UnloadedIsFresh, RowInv
<1> QED
    BY <1>4, <1>5, <1>6, <1>7, <1>8, <1>9 DEF RowInv

Process(k) == ProcessStep(k) \/ reschedule(k) \/ killed(k) \/ requeue(k)

\* What a process does to the row of its task instance.
LEMMA ProcessWrites ==
    ASSUME RowsTyped, NEW k \in Keys, Process(k)
    PROVE  /\ k[2] \in Live(k[1])
           /\ UNCHANGED <<step, todo, todo_runs, cur, statusVars, max_tries, cleared>>
           /\ \A ti \in TIs : ti # k[1] => state'[ti] = state[ti] /\ try'[ti] = try[ti]
           /\ \A l \in Keys : l # k => attempt'[l] = attempt[l]
           /\ attempt'[k] = IF start(k) THEN "working" ELSE "exiting"
<1>1. k[1] \in TIs /\ k[2] \in 1..MaxTry /\ k = <<k[1], k[2]>>
    BY KeyShape
<1>2. state \in [TIs -> TaskStates] /\ try \in [TIs -> Int]
      /\ attempt \in [Keys -> {"none", "queued", "sent", "working", "exiting"}]
    BY DEF RowsTyped
<1>3. attempt[k] \in {"sent", "working"}
    BY DEF Process, ProcessStep, start, not_started, finish, reschedule, killed, requeue
<1>4. k[2] \in Live(k[1])
    BY <1>1, <1>3 DEF Live
<1>5. UNCHANGED <<step, todo, todo_runs, cur, statusVars, max_tries, cleared>>
    BY DEF Process, ProcessStep, start, not_started, finish, reschedule, killed, requeue, rowVars, envVars
<1>6. \A ti \in TIs : ti # k[1] => state'[ti] = state[ti]
    BY <1>1, <1>2
       DEF Process, ProcessStep, start, not_started, finish, reschedule, killed, requeue, rowVars
<1>7. \A ti \in TIs : ti # k[1] => try'[ti] = try[ti]
    BY <1>1, <1>2
       DEF Process, ProcessStep, start, not_started, finish, reschedule, killed, requeue, rowVars
<1>8. /\ start(k) => attempt' = [attempt EXCEPT ![k] = "working"]
      /\ ~start(k) => attempt' = [attempt EXCEPT ![k] = "exiting"]
    BY DEF Process, ProcessStep, start, not_started, finish, reschedule, killed, requeue
<1>9. (\A l \in Keys : l # k => attempt'[l] = attempt[l])
      /\ attempt'[k] = IF start(k) THEN "working" ELSE "exiting"
    BY <1>2, <1>8
<1> QED
    BY <1>4, <1>5, <1>6, <1>7, <1>9

\* The row of a process stays in order.
LEMMA OwnRow ==
    ASSUME FewRetries, Inv, RowsTyped, NEW k \in Keys, Process(k), RowInv(k[1])
    PROVE  RowInv(k[1])'
<1> DEFINE ti == k[1]
           n == k[2]
<1> USE DEF NONE, QUEUED, RUNNING, SUCCESS, FAILED, SKIPPED, UP_FOR_RETRY, UP_FOR_RESCHEDULE
<1>1. /\ ti \in TIs /\ n \in 1..MaxTry /\ k = <<ti, n>> /\ MaxTry \in Nat
      /\ retries[ti[1]] \in 0..1
    BY KeyShape, Numbers, TIShape DEF FewRetries
<1>2. /\ n \in Live(ti)
      /\ UNCHANGED <<step, todo, todo_runs, cur, statusVars, max_tries, cleared>>
      /\ \A x \in TIs : x # ti => state'[x] = state[x] /\ try'[x] = try[x]
      /\ \A l \in Keys : l # k => attempt'[l] = attempt[l]
      /\ attempt'[k] = IF start(k) THEN "working" ELSE "exiting"
    BY ProcessWrites
<1>3. /\ Live(ti) = {n} /\ state[ti] \in {QUEUED, RUNNING, FAILED}
      /\ ti \notin TisOf(to_run) /\ ti \notin TisOf(succeeded) /\ ti \notin TisOf(skipped)
      /\ ti[2] \in active_runs \cup executed
      /\ ~(step = "queue" /\ cur.key[1] = ti)
    BY <1>1, <1>2, OneLive
<1>4. UNCHANGED <<to_run, running, succeeded, skipped, failed, active_runs, executed>>
    BY <1>2 DEF statusVars, doneVars
<1>5. Live(ti)' = IF start(k) THEN {n} ELSE {}
  <2>1. \A m \in 1..MaxTry : m # n => <<ti, m>> \in Keys /\ <<ti, m>> # k
      BY <1>1 DEF Keys
  <2>2. \A m \in 1..MaxTry : m # n => attempt'[<<ti, m>>] = attempt[<<ti, m>>]
      BY <1>2, <2>1
  <2>3. \A m \in 1..MaxTry : m # n => attempt[<<ti, m>>] \notin {"queued", "sent", "working"}
      BY <1>3 DEF Live
  <2> QED
      BY <1>1, <1>2, <2>2, <2>3 DEF Live
<1>6. /\ max_tries[ti] = retries[ti[1]] /\ try[ti] \in Nat /\ n <= retries[ti[1]] + 1
      /\ \/ state[ti] = QUEUED /\ try[ti] = n - 1 /\ ti \in TisOf(running)
         \/ state[ti] = RUNNING /\ try[ti] = n /\ ti \in TisOf(running)
         \/ state[ti] = FAILED /\ n = 2 /\ try[ti] \in 1..2
    BY <1>2 DEF RowInv, SendableHasTry, LiveIsOwner
<1>7. state'[ti] = IF start(k) THEN RUNNING ELSE state'[ti]
    BY <1>1 DEF start, RowsTyped
<1>8. start(k) => state[ti] = QUEUED /\ state'[ti] = RUNNING /\ try'[ti] = try[ti] + 1
    BY <1>1, <1>6 DEF start, RUNNABLE_STATES, RowsTyped
<1>9. LiveIsOwner(ti)'
  <2>1. CASE ~start(k)
      BY <1>5, <2>1 DEF LiveIsOwner
  <2>2. CASE start(k)
    <3>1. try'[ti] = n
        BY <1>1, <1>6, <1>8, <2>2
    <3>2. ti \in TisOf(running)' /\ ti \notin TisOf(to_run)'
        BY <1>3, <1>4, <1>6, <1>8, <2>2 DEF TisOf
    <3> QED
        BY <1>1, <1>2, <1>5, <1>6, <1>8, <2>2, <3>1, <3>2 DEF LiveIsOwner
  <2> QED
      BY <2>1, <2>2
<1>10. LiveHasUpstream(ti)'
  <2> SUFFICES ASSUME NEW u \in Up[ti[1]]
               PROVE  state'[<<u, ti[2]>>] = SUCCESS /\ ~Failing(<<u, ti[2]>>)'
      BY DEF LiveHasUpstream
  <2>1. state[<<u, ti[2]>>] = SUCCESS /\ ~Failing(<<u, ti[2]>>)
      BY <1>2 DEF RowInv, LiveHasUpstream
  <2>2. <<u, ti[2]>> \in TIs /\ <<u, ti[2]>> # ti
      BY <1>1, TIShape
  <2> QED
      BY <1>2, <2>1, <2>2 DEF Failing
<1>11. SendableHasTry(ti)'
  <2>1. ti \notin TisOf(to_run)' /\ max_tries'[ti] = retries[ti[1]]
      BY <1>2, <1>3, <1>4, <1>6 DEF TisOf
  <2>2. try'[ti] \in Nat /\ (state'[ti] \in again => try'[ti] <= retries[ti[1]])
    <3>1. CASE start(k)
        BY <1>1, <1>6, <1>8, <3>1 DEF again
    <3>2. CASE not_started(k) \/ killed(k)
        BY <1>6, <3>2 DEF not_started, killed, rowVars, again
    <3>3. CASE finish(k)
      <4>1. try'[ti] = try[ti] /\ state'[ti] \in
              {SUCCESS, SKIPPED, IF state[ti] \in {SUCCESS, FAILED} THEN state[ti]
                ELSE failure_state(state[ti], try[ti], retries[ti[1]], max_tries[ti], FALSE)}
          BY <1>1, <3>3 DEF finish, RowsTyped
      <4>2. CASE state[ti] = FAILED
          BY <1>6, <4>1, <4>2 DEF again
      <4>3. CASE state[ti] # FAILED
          BY <1>1, <1>3, <1>6, <4>1, <4>3 DEF again, failure_state, is_eligible_to_retry, try_number
      <4> QED
          BY <4>2, <4>3
    <3>4. CASE reschedule(k)
      <4>1. attempt[k] = "working" /\ try'[ti] = try[ti] - 1
          BY <1>1, <3>4 DEF reschedule, RowsTyped
      <4>2. \/ try[ti] = n /\ state[ti] = RUNNING
            \/ n = 2 /\ try[ti] \in 1..2
            \/ try[ti] = n - 1 /\ state[ti] = QUEUED
          BY <1>6
      <4>3. ~(state[ti] = QUEUED)
          BY <1>1, <1>2, <4>1 DEF RowInv, LiveIsOwner
      <4> QED
          BY <1>1, <1>6, <4>1, <4>2, <4>3
    <3>5. CASE requeue(k)
      <4>1. try'[ti] = try[ti] /\ state[ti] \in RUNNABLE_STATES
          BY <3>5 DEF requeue
      <4>2. state[ti] = QUEUED
          BY <1>3, <4>1 DEF RUNNABLE_STATES
      <4> QED
          BY <1>1, <1>6, <4>1, <4>2
    <3> QED
        BY <3>1, <3>2, <3>3, <3>4, <3>5 DEF Process, ProcessStep
  <2> QED
      BY <2>1, <2>2 DEF SendableHasTry
<1>12. KnownByFirstKey(ti)'
    BY <1>3, <1>4 DEF RowInv, KnownByFirstKey, TisOf
<1>13. LateEvent(ti)'
  <2> SUFFICES ASSUME Failing(ti)
               PROVE  /\ cur.key \in running /\ cur.key[2] = 1 /\ attempt'[cur.key] = "none"
                      /\ cur.state \in {QUEUED, RUNNING} /\ cur.try \in Nat
                      /\ Live(ti)' # {} => cur.try \in 1..2 /\ ~CopyRetries'
      BY <1>2, <1>4 DEF LateEvent, Failing
  <2>1. CopyRetries' = CopyRetries
      BY <1>2 DEF CopyRetries
  <2>2. cur.key \in Keys /\ attempt[cur.key] = "none"
      BY DEF RowsTyped, Failing, RowInv, LateEvent
  <2>3. cur.key # k
      BY <1>2, <1>1, <2>2 DEF Live
  <2> QED
      BY <1>2, <1>5, <2>1, <2>2, <2>3 DEF RowInv, LateEvent
<1>14. CountedStays(ti)' /\ PassIsUndone(ti)' /\ UnloadedIsFresh(ti)'
    BY <1>2, <1>3, <1>4 DEF CountedStays, PassIsUndone, UnloadedIsFresh, TisOf
<1> QED
    BY <1>9, <1>10, <1>11, <1>12, <1>13, <1>14 DEF RowInv

\* The steps of processes keep what is known of every row: what they write was not SUCCESS, so
\* that nothing live depends on it.
LEMMA ProcessRows ==
    ASSUME FewRetries, DoneInv, NEW k \in Keys, Process(k), NEW ti \in TIs, Untouched(ti)
    PROVE  RowInv(ti)'
<1>1. Inv /\ RowsTyped /\ RowInv(ti)
    BY DEF DoneInv
<1>2. CASE ti = k[1]
    BY <1>1, <1>2, OwnRow
<1>3. CASE ti # k[1]
  <2>1. /\ k[2] \in Live(k[1]) /\ k[1] \in TIs
        /\ UNCHANGED <<step, todo, todo_runs, cur, statusVars, max_tries, cleared>>
        /\ \A x \in TIs : x # k[1] => state'[x] = state[x] /\ try'[x] = try[x]
        /\ \A l \in Keys : l # k => attempt'[l] = attempt[l]
      BY <1>1, ProcessWrites, KeyShape
  <2>2. ASSUME NEW u \in Up[ti[1]]
        PROVE  \/ state'[<<u, ti[2]>>] = state[<<u, ti[2]>>]
               \/ state[<<u, ti[2]>>] # SUCCESS
    <3>1. <<u, ti[2]>> \in TIs /\ Untouched(<<u, ti[2]>>)
        BY TIShape, UntouchedUpstream
    <3>2. CASE <<u, ti[2]>> = k[1]
      <4>1. RowInv(k[1])
          BY <3>1, <3>2 DEF DoneInv
      <4>2. state[k[1]] \in {QUEUED, RUNNING, FAILED}
          BY <1>1, <2>1, <4>1, OneLive
      <4> QED
          BY <3>2, <4>2 DEF QUEUED, RUNNING, FAILED, SUCCESS
    <3>3. CASE <<u, ti[2]>> # k[1]
        BY <2>1, <3>1, <3>3
    <3> QED
        BY <3>2, <3>3
  <2>3. UNCHANGED <<to_run, running, succeeded, skipped, failed, active_runs, executed>>
      BY <2>1 DEF statusVars, doneVars
  <2> QED
      BY <1>1, <1>3, <2>1, <2>2, <2>3, OthersKeep
<1> QED
    BY <1>2, <1>3

\* The row of a user's clear is touched, and so is all that depends on it.
LEMMA ClearRows ==
    ASSUME DoneInv, NEW r \in TIs, clear(r), NEW ti \in TIs, Untouched(ti)'
    PROVE  RowInv(ti)'
<1>1. /\ UNCHANGED <<try, attempt, step, todo, todo_runs, cur, statusVars>>
      /\ cleared' = cleared \cup {r}
      /\ \A x \in TIs : x # r => state'[x] = state[x] /\ max_tries'[x] = max_tries[x]
    BY DEF clear, DoneInv, RowsTyped
<1>2. Untouched(ti)
    BY <1>1 DEF Untouched
<1>3. RowsTyped /\ RowInv(ti)
    BY <1>2 DEF DoneInv
<1>4. ti # r /\ \A u \in Up[ti[1]] : <<u, ti[2]>> # r
  <2>1. ti[1] \in Ancestors(ti[1]) /\ \A u \in Up[ti[1]] : u \in Ancestors(ti[1])
    <3>1. ti[1] \in Tasks /\ Up[ti[1]] \subseteq Tasks
        BY TIShape, DagAssumption
    <3> QED
        BY <3>1 DEF Ancestors
  <2>2. \A u \in Ancestors(ti[1]) : <<u, ti[2]>> # r
      BY <1>1 DEF Untouched
  <2> QED
      BY <2>1, <2>2, TIShape
<1>5. UNCHANGED <<to_run, running, succeeded, skipped, failed, active_runs, executed>>
    BY <1>1 DEF statusVars, doneVars
<1>6. \A u \in Up[ti[1]] : state'[<<u, ti[2]>>] = state[<<u, ti[2]>>]
    BY <1>1, <1>4, TIShape
<1> QED
    BY <1>1, <1>3, <1>4, <1>5, <1>6, OthersKeep

\* Steps that only move the job on keep what is known of the rows.
LEMMA MovesKeep ==
    ASSUME DoneInv, NEW ti \in TIs, Untouched(ti),
           UNCHANGED <<rowVars, attempt, to_run, running, doneVars, active_runs, executed>>,
           step' \notin {"fail", "queue"}
    PROVE  RowInv(ti)'
<1>1. RowInv(ti)
    BY DEF DoneInv
<1>2. ~Failing(ti)' /\ \A u \in Up[ti[1]] : ~Failing(<<u, ti[2]>>)'
    BY DEF Failing
<1>3. LiveIsOwner(ti)' /\ LiveHasUpstream(ti)'
    BY <1>1, <1>2 DEF RowInv, LiveIsOwner, LiveHasUpstream, Live, TisOf, rowVars, doneVars
<1>4. SendableHasTry(ti)' /\ KnownByFirstKey(ti)' /\ LateEvent(ti)'
    BY <1>1, <1>2 DEF RowInv, SendableHasTry, KnownByFirstKey, LateEvent, TisOf, rowVars, doneVars
<1>5. CountedStays(ti)' /\ PassIsUndone(ti)' /\ UnloadedIsFresh(ti)'
    BY <1>1, <1>2 DEF RowInv, CountedStays, PassIsUndone, UnloadedIsFresh, TisOf, rowVars, doneVars
<1> QED
    BY <1>3, <1>4, <1>5 DEF RowInv

\* What waits has no live attempt.
LEMMA WaitingIsQuiet ==
    ASSUME DoneInv, NEW k \in to_run, Untouched(k[1])
    PROVE  k[1] \in TIs /\ Live(k[1]) = {} /\ RowInv(k[1])
<1>1. k[1] \in TIs /\ k[1] \in TisOf(to_run)
    BY DEF DoneInv, RowsTyped, Counted, TisOf
<1>2. RowInv(k[1])
    BY <1>1 DEF DoneInv
<1> QED
    BY <1>1, <1>2 DEF RowInv, LiveIsOwner

\* The first half of _per_task_process counts what the row says, or makes it SCHEDULED.
LEMMA ProcessPassRows ==
    ASSUME DoneInv, NEW k, per_task_process(k), NEW ti \in TIs, Untouched(ti)
    PROVE  RowInv(ti)'
<1> DEFINE r == k[1]
<1> USE DEF NONE, SCHEDULED, SUCCESS, FAILED, SKIPPED, UPSTREAM_FAILED
<1>1. k \in to_run /\ k \notin running /\ step = "process" /\ r \in TIs
    BY DEF per_task_process, Next_in_order, DoneInv, Inv, PassIsWaiting, KeysApart, RowsTyped, Counted
<1>2. Inv /\ RowsTyped /\ RowInv(ti)
    BY DEF DoneInv
<1>3. /\ UNCHANGED <<try, max_tries, attempt, active_runs, executed>>
      /\ running' = running
      /\ step' \in {"process", "queue"} /\ (step' = "queue" => cur'.key = k)
    BY <1>1 DEF per_task_process, NoCopy
<1>4. /\ \A x \in TIs : x # r => state'[x] = state[x]
      /\ state'[r] # state[r] => state[r] \in {NONE, FAILED, UPSTREAM_FAILED} /\ state'[r] = SCHEDULED
    BY <1>1, <1>2 DEF per_task_process, RowsTyped
<1>5. /\ to_run' \subseteq to_run /\ \A l \in to_run : l \in to_run' \/ l = k
      /\ succeeded \subseteq succeeded' /\ \A l \in succeeded' : l \in succeeded \/ (l = k /\ state[r] = SUCCESS)
      /\ skipped \subseteq skipped' /\ \A l \in skipped' : l \in skipped \/ (l = k /\ state[r] = SKIPPED)
      /\ failed \subseteq failed' /\ \A l \in failed' : l \in failed \/ l = k
    BY DEF per_task_process
<1>6. CASE ti # r
  <2>1. \A u \in Up[ti[1]] : \/ state'[<<u, ti[2]>>] = state[<<u, ti[2]>>]
                            \/ state[<<u, ti[2]>>] # SUCCESS
      BY <1>4, TIShape
  <2>2. \A l : l[1] # r => /\ l \in to_run' <=> l \in to_run
                           /\ l \in succeeded' <=> l \in succeeded
                           /\ l \in skipped' <=> l \in skipped
                           /\ l \in failed' <=> l \in failed
      BY <1>5
  <2>3. state'[ti] = state[ti]
      BY <1>4, <1>6
  <2> QED
      BY <1>2, <1>3, <1>6, <2>1, <2>2, <2>3, OthersKeep
<1>7. CASE ti = r
  <2>1. Live(ti) = {} /\ Live(ti)' = {}
    <3>1. Live(ti) = {}
        BY <1>1, <1>7, WaitingIsQuiet
    <3> QED
        BY <1>3, <3>1 DEF Live
  <2>2. ~Failing(ti) /\ ~Failing(ti)'
      BY <1>1, <1>3 DEF Failing
  <2>3. LiveIsOwner(ti)' /\ LiveHasUpstream(ti)' /\ LateEvent(ti)'
      BY <2>1, <2>2 DEF LiveIsOwner, LiveHasUpstream, LateEvent
  <2>4. ti \in TisOf(to_run) /\ \A l \in to_run : l[1] = ti => l = k
      BY <1>1, <1>2, <1>7 DEF TisOf, Inv, KeysApart
  <2>5. state[ti] \in {SUCCESS, SKIPPED} => k \notin to_run'
      BY <1>7 DEF per_task_process
  <2>6. SendableHasTry(ti)'
    <3>1. state'[ti] \in again => state[ti] = state'[ti]
        BY <1>4, <1>7 DEF again, UP_FOR_RETRY, UP_FOR_RESCHEDULE
    <3>2. (ti \in TisOf(to_run))' => k \in to_run'
        BY <1>5, <2>4 DEF TisOf
    <3> QED
        BY <1>2, <1>3, <2>4, <2>5, <3>1, <3>2 DEF RowInv, SendableHasTry
  <2>7. KnownByFirstKey(ti)'
    <3>1. \A l \in running' : l[1] = ti => l[2] <= 1
        BY <1>2, <1>3 DEF RowInv, KnownByFirstKey
    <3>2. \A l \in to_run' : l[1] = ti => l = k /\ state[ti] \notin {SUCCESS, SKIPPED}
        BY <1>5, <2>4, <2>5
    <3> QED
        BY <1>1, <1>2, <1>7, <3>1, <3>2 DEF RowInv, KnownByFirstKey
  <2>8. CountedStays(ti)'
    <3>1. (ti \in TisOf(succeeded))' => state[ti] = SUCCESS
        BY <1>2, <1>5, <1>7 DEF RowInv, CountedStays, TisOf
    <3>2. (ti \in TisOf(skipped))' => state[ti] = SKIPPED
        BY <1>2, <1>5, <1>7 DEF RowInv, CountedStays, TisOf
    <3> QED
        BY <1>4, <1>7, <2>2, <3>1, <3>2 DEF CountedStays
  <2>9. PassIsUndone(ti)'
    <3>1. step' = "queue" => state[ti] \notin {SUCCESS, SKIPPED}
        BY <1>1, <1>7 DEF per_task_process
    <3> QED
        BY <1>4, <1>7, <3>1 DEF PassIsUndone
  <2>10. UnloadedIsFresh(ti)'
      BY <1>2, <1>3 DEF RowInv, UnloadedIsFresh
  <2> QED
      BY <2>3, <2>6, <2>7, <2>8, <2>9, <2>10 DEF RowInv
<1> QED
    BY <1>6, <1>7

\* The second half sends what has no live attempt and a try left, and whose parents have all
\* succeeded; or it leaves a flag in a row that is not done.
LEMMA QueueRows ==
    ASSUME FewRetries, DoneInv, NEW due, queue_task_instance(due), NEW ti \in TIs, Untouched(ti)
    PROVE  RowInv(ti)'
<1> PICK k : k = cur.key
  OBVIOUS
<1> DEFINE r == k[1]
           key == KeyOf(r)
<1> USE DEF NONE, SCHEDULED, QUEUED, RUNNING, SUCCESS, FAILED, SKIPPED, UPSTREAM_FAILED, NoFlag
<1>1. /\ step = "queue" /\ k \in to_run /\ k \notin running /\ r \in TIs
    BY DEF queue_task_instance, DoneInv, Inv, PassIsWaiting, KeysApart, RowsTyped, Counted
<1>2. Inv /\ RowsTyped /\ RowInv(ti)
    BY DEF DoneInv
<1>3. UNCHANGED <<try, max_tries, succeeded, skipped, active_runs, executed>> /\ step' = "process"
    BY DEF queue_task_instance
<1>4. \/ /\ dependencies_met(r, due) /\ ~has_task(key)
         /\ state' = [state EXCEPT ![r] = QUEUED]
         /\ attempt' = [attempt EXCEPT ![key] = "queued"]
         /\ running' = running \cup {k} /\ to_run' = to_run \ {k} /\ failed' = failed
      \/ /\ attempt' = attempt /\ state' = [state EXCEPT ![r] = state'[r]]
         /\ state'[r] \in {state[r], UPSTREAM_FAILED, SKIPPED}
         /\ running' = running /\ to_run' \in {to_run, to_run \ {k}}
         /\ failed' \in {failed, failed \cup {k}}
  <2>1. flag(r) \in {NoFlag, UPSTREAM_FAILED, SKIPPED}
      BY <1>1, MetUpstream
  <2>2. flagged({r}) # {} => flag(r) # NoFlag
      BY DEF flagged
  <2>3. state \in [TIs -> TaskStates]
      BY <1>2 DEF RowsTyped
  <2> QED
      BY <1>1, <2>1, <2>2, <2>3 DEF queue_task_instance
<1>5. \A x \in TIs : x # r => state'[x] = state[x]
    BY <1>1, <1>2, <1>4 DEF RowsTyped
<1>6. CASE ti # r
  <2>1. \A u \in Up[ti[1]] : \/ state'[<<u, ti[2]>>] = state[<<u, ti[2]>>]
                            \/ state[<<u, ti[2]>>] # SUCCESS
    <3> SUFFICES ASSUME NEW u \in Up[ti[1]], <<u, ti[2]>> = r
                 PROVE  state[r] # SUCCESS
        BY <1>5, TIShape
    <3>1. RowInv(r)
        BY <1>1, UntouchedUpstream DEF DoneInv
    <3> QED
        BY <1>1, <3>1 DEF RowInv, PassIsUndone
  <2>2. \A l \in Keys : l[1] # r => attempt'[l] = attempt[l]
      BY <1>2, <1>4 DEF RowsTyped, KeyOf
  <2>3. \A l : l[1] # r => /\ l \in to_run' <=> l \in to_run
                           /\ l \in running' <=> l \in running
                           /\ l \in failed' <=> l \in failed
      BY <1>4
  <2>4. state'[ti] = state[ti]
      BY <1>5, <1>6
  <2> QED
      BY <1>2, <1>3, <1>6, <2>1, <2>2, <2>3, <2>4, OthersKeep
<1>7. CASE ti = r
  <2>1. Live(ti) = {}
      BY <1>1, <1>7, WaitingIsQuiet
  <2>2. ~Failing(ti)' /\ \A u \in Up[ti[1]] : ~Failing(<<u, ti[2]>>)'
      BY <1>3 DEF Failing
  <2>3. state[ti] \notin {SUCCESS, SKIPPED}
      BY <1>1, <1>2, <1>7 DEF RowInv, PassIsUndone
  <2>4. ti \notin TisOf(succeeded) /\ ti \notin TisOf(skipped)
      BY <1>2, <2>3 DEF RowInv, CountedStays
  <2>5. ti \in TisOf(to_run) /\ \A l \in to_run : l[1] = ti => l = k
      BY <1>1, <1>2, <1>7 DEF TisOf, Inv, KeysApart
  <2>6. k[2] <= 1 /\ try[ti] \in Nat /\ try[ti] <= retries[ti[1]]
      BY <1>1, <1>2, <1>7, <2>3, <2>5 DEF RowInv, KnownByFirstKey, SendableHasTry
  <2>7. \A l \in running' : l[1] = ti => l[2] <= 1
      BY <1>2, <1>4, <2>6 DEF RowInv, KnownByFirstKey
  <2>8. KnownByFirstKey(ti)' /\ LateEvent(ti)' /\ CountedStays(ti)' /\ PassIsUndone(ti)' /\ UnloadedIsFresh(ti)'
    <3>1. \A l \in to_run' : l[1] = ti => l[2] <= 1
        BY <1>4, <2>5, <2>6
    <3> QED
        BY <1>2, <1>3, <2>2, <2>4, <2>7, <3>1
           DEF RowInv, KnownByFirstKey, LateEvent, CountedStays, PassIsUndone, UnloadedIsFresh, TisOf
  <2>9. SendableHasTry(ti)'
      BY <1>2, <1>3, <2>6 DEF RowInv, SendableHasTry
  <2>10. CASE attempt' = attempt
    <3>1. Live(ti)' = {}
        BY <2>1, <2>10 DEF Live
    <3> QED
        BY <2>8, <2>9, <3>1 DEF RowInv, LiveIsOwner, LiveHasUpstream
  <2>11. CASE /\ dependencies_met(r, due) /\ ~has_task(key)
              /\ state' = [state EXCEPT ![r] = QUEUED]
              /\ attempt' = [attempt EXCEPT ![key] = "queued"]
              /\ running' = running \cup {k} /\ to_run' = to_run \ {k} /\ failed' = failed
    <3>1. state[ti] \in BACKFILL_QUEUEABLE_STATES /\ rule_met("all_success", upstream_counts(ti))
        BY <1>7, <2>11 DEF dependencies_met, task_deps_met
    <3>2. key = <<ti, try[ti] + 1>>
        BY <1>7, <3>1 DEF KeyOf, try_number, BACKFILL_QUEUEABLE_STATES, UP_FOR_RETRY, UP_FOR_RESCHEDULE
    <3>3. try[ti] + 1 \in 1..MaxTry /\ key \in Keys
        BY <2>6, <3>2, Numbers, TIShape DEF Keys
    <3>4. Live(ti)' = {try[ti] + 1}
      <4>1. \A m \in 1..MaxTry : <<ti, m>> \in Keys
          BY DEF Keys
      <4>2. \A m \in 1..MaxTry : m # try[ti] + 1 => attempt'[<<ti, m>>] = attempt[<<ti, m>>]
          BY <1>2, <2>11, <3>2, <4>1 DEF RowsTyped
      <4>3. attempt'[key] = "queued"
          BY <1>2, <2>11, <3>3 DEF RowsTyped
      <4> QED
          BY <2>1, <3>2, <3>3, <4>2, <4>3 DEF Live
    <3>5. LiveIsOwner(ti)'
      <4>1. state'[ti] = QUEUED /\ attempt'[<<ti, try[ti] + 1>>] = "queued"
          BY <1>1, <1>2, <1>7, <2>11, <3>2, <3>3 DEF RowsTyped
      <4>2. (ti \in TisOf(running))' /\ ~(ti \in TisOf(to_run))'
          BY <1>7, <2>5, <2>11 DEF TisOf
      <4> QED
          BY <1>3, <2>6, <3>4, <4>1, <4>2, Numbers, TIShape DEF LiveIsOwner
    <3>6. LiveHasUpstream(ti)'
      <4>1. \A u \in Up[ti[1]] : state[<<u, ti[2]>>] = SUCCESS
          BY <3>1, MetUpstream
      <4> QED
          BY <1>5, <1>7, <2>2, <4>1, TIShape DEF LiveHasUpstream
    <3> QED
        BY <2>8, <2>9, <3>5, <3>6 DEF RowInv
  <2> QED
      BY <1>4, <2>10, <2>11
<1> QED
    BY <1>6, <1>7

\* _manage_executor_state copies a row that is RUNNING or QUEUED although the first attempt is
\* over.  If another one lives it is the second, the last there may be.
LEMMA ManageRows ==
    ASSUME FewRetries, DoneInv, NEW k \in Keys, manage_event(k), NEW ti \in TIs, Untouched(ti)
    PROVE  RowInv(ti)'
<1> USE DEF QUEUED, RUNNING, SUCCESS, SKIPPED
<1>1. /\ step = "manage" /\ k \in todo
      /\ UNCHANGED <<rowVars, attempt, to_run, running, doneVars, active_runs, executed>>
    BY DEF manage_event, statusVars
<1>2. RowInv(ti) /\ Inv /\ RowsTyped
    BY DEF DoneInv
<1>3. CASE step' = step
    BY <1>1, <1>3, MovesKeep
<1>4. CASE /\ k \in running /\ state[k[1]] \in {RUNNING, QUEUED}
           /\ step' = "fail" /\ cur' = [Row(k[1]) EXCEPT !.key = k]
  <2>1. cur'.key = k /\ cur'.state = state[k[1]] /\ cur'.try = try[k[1]]
      BY <1>4 DEF Row
  <2>2. Live(ti)' = Live(ti)
      BY <1>1 DEF Live
  <2>3. \A x : Failing(x)' => x = k[1] /\ state[x] \in {RUNNING, QUEUED}
      BY <1>4, <2>1 DEF Failing
  <2>4. LiveIsOwner(ti)'
      BY <1>1, <1>2, <2>2 DEF RowInv, LiveIsOwner, TisOf, rowVars, doneVars
  <2>5. LiveHasUpstream(ti)'
      BY <1>1, <1>2, <2>2, <2>3 DEF RowInv, LiveHasUpstream, rowVars
  <2>6. SendableHasTry(ti)' /\ KnownByFirstKey(ti)' /\ UnloadedIsFresh(ti)' /\ PassIsUndone(ti)'
      BY <1>1, <1>2, <1>4 DEF RowInv, SendableHasTry, KnownByFirstKey, UnloadedIsFresh, PassIsUndone, TisOf,
         rowVars, doneVars
  <2>7. CountedStays(ti)'
      BY <1>1, <1>2, <2>3 DEF RowInv, CountedStays, TisOf, rowVars, doneVars
  <2>8. LateEvent(ti)'
    <3> SUFFICES ASSUME ti = k[1]
                 PROVE  /\ k[2] = 1 /\ attempt[k] = "none" /\ try[ti] \in Nat
                        /\ Live(ti) # {} => try[ti] \in 1..2 /\ ~CopyRetries'
        BY <1>1, <1>4, <2>1, <2>2, <2>3 DEF LateEvent
    <3>1. k[2] <= 1 /\ k[2] \in 1..MaxTry /\ k = <<ti, k[2]>> /\ MaxTry \in Nat
        BY <1>2, <1>4, KeyShape, Numbers DEF RowInv, KnownByFirstKey
    <3>2. attempt[k] = "none"
        BY <1>1 DEF DoneInv, EventsAreOver
    <3>3. try[ti] \in Nat /\ max_tries[ti] = retries[ti[1]] /\ retries[ti[1]] \in 0..1
        BY <1>2, Numbers, TIShape DEF RowInv, SendableHasTry, FewRetries
    <3>4. ASSUME NEW n \in Live(ti)
          PROVE  try[ti] \in 1..2 /\ ~CopyRetries'
      <4>1. n \in 1..MaxTry /\ attempt[<<ti, n>>] # "none"
          BY DEF Live
      <4>2. n # 1
          BY <3>1, <3>2, <4>1
      <4>3. n <= retries[ti[1]] + 1
          BY <1>2 DEF RowInv, LiveIsOwner
      <4>4. n = 2 /\ retries[ti[1]] = 1
          BY <3>1, <3>3, <4>1, <4>2, <4>3
      <4>5. \/ state[ti] = QUEUED /\ try[ti] = 1
            \/ state[ti] = RUNNING /\ try[ti] = 2
        <5>1. \/ state[ti] = QUEUED /\ try[ti] = n - 1
              \/ state[ti] = RUNNING /\ try[ti] = n
              \/ state[ti] = FAILED
            BY <1>2, <3>4 DEF RowInv, LiveIsOwner
        <5>2. state[ti] \in {RUNNING, QUEUED}
            BY <1>4
        <5> QED
            BY <4>4, <5>1, <5>2 DEF FAILED
      <4>6. CopyRetries' => is_eligible_to_retry(retries[ti[1]], max_tries[ti], try_number(state[ti], try[ti]))
          BY <1>1, <2>1 DEF CopyRetries, rowVars
      <4> QED
        <5>1. try_number(state[ti], try[ti]) = 2 /\ try[ti] \in 1..2
            BY <4>5 DEF try_number
        <5> QED
            BY <3>3, <4>4, <4>6, <5>1 DEF is_eligible_to_retry
    <3> QED
        BY <3>1, <3>2, <3>3, <3>4
  <2> QED
      BY <2>4, <2>5, <2>6, <2>7, <2>8 DEF RowInv
<1> QED
    BY <1>1, <1>3, <1>4 DEF manage_event

\* handle_failure may write over a success; it has not been counted yet, and nothing that depends
\* on it has been sent.
LEMMA FailureRows ==
    ASSUME FewRetries, DoneInv, handle_failure, NEW ti \in TIs, Untouched(ti)
    PROVE  RowInv(ti)'
<1> DEFINE r == cur.key[1]
<1> USE DEF QUEUED, RUNNING, SUCCESS, SKIPPED, FAILED, UP_FOR_RETRY, UP_FOR_RESCHEDULE, NONE
<1>1. /\ step = "fail" /\ step' = "manage" /\ r \in TIs /\ Failing(r)
      /\ UNCHANGED <<max_tries, attempt, to_run, running, doneVars, active_runs, executed>>
    BY KeyShape DEF handle_failure, statusVars, DoneInv, RowsTyped, Failing
<1>2. RowInv(ti) /\ Inv /\ RowsTyped
    BY DEF DoneInv
<1>3. /\ \A x \in TIs : x # r => state'[x] = state[x] /\ try'[x] = try[x]
      /\ state'[r] = failure_state(cur.state, cur.try, retries[r[1]], max_tries[r], FALSE)
      /\ try'[r] = cur.try
    BY <1>1, <1>2 DEF handle_failure, RowsTyped
<1>4. CASE ti # r
  <2>1. Live(ti) # {} => \A u \in Up[ti[1]] : state'[<<u, ti[2]>>] = state[<<u, ti[2]>>]
    <3> SUFFICES ASSUME Live(ti) # {}, NEW u \in Up[ti[1]]
                 PROVE  state'[<<u, ti[2]>>] = state[<<u, ti[2]>>]
        OBVIOUS
    <3>1. <<u, ti[2]>> # r
        BY <1>1, <1>2 DEF RowInv, LiveHasUpstream
    <3> QED
        BY <1>3, <3>1, TIShape
  <2>2. UNCHANGED <<succeeded, skipped, failed>>
      BY <1>1 DEF doneVars
  <2> QED
      BY <1>1, <1>2, <1>3, <1>4, <2>1, <2>2, OthersKeep
<1>5. CASE ti = r
  <2>1. Live(ti)' = Live(ti) /\ ~Failing(ti)' /\ \A u \in Up[ti[1]] : ~Failing(<<u, ti[2]>>)'
      BY <1>1 DEF Live, Failing
  <2>2. /\ cur.key \in running /\ cur.key[2] = 1 /\ attempt[cur.key] = "none" /\ cur.try \in Nat
        /\ cur.state \in {QUEUED, RUNNING}
        /\ Live(ti) # {} => cur.try \in 1..2 /\ ~CopyRetries
      BY <1>1, <1>2, <1>5 DEF RowInv, LateEvent
  <2>3. state'[ti] = IF CopyRetries THEN UP_FOR_RETRY ELSE FAILED
      BY <1>3, <1>5 DEF failure_state, CopyRetries
  <2>4. max_tries[ti] = retries[ti[1]] /\ retries[ti[1]] \in 0..1 /\ max_tries' = max_tries
      BY <1>1, <1>2, Numbers, TIShape DEF RowInv, SendableHasTry, FewRetries
  <2>5. CopyRetries => cur.try <= retries[ti[1]]
      BY <1>5, <2>2, <2>4 DEF CopyRetries, is_eligible_to_retry, try_number
  <2>6. ti \in TisOf(running) /\ ti \notin TisOf(to_run)
      BY <1>2, <1>5, <2>2 DEF TisOf, Inv, KeysApart
  <2>7. LiveIsOwner(ti)'
    <3> SUFFICES ASSUME NEW n \in Live(ti)
                 PROVE  /\ n <= retries[ti[1]] + 1 /\ n = 2
                        /\ state'[ti] = FAILED /\ try'[ti] \in 1..2
                        /\ ti \in TisOf(running \cup failed)' /\ ti \notin TisOf(to_run)'
        BY <2>1 DEF LiveIsOwner
    <3>1. n \in 1..MaxTry /\ MaxTry \in Nat /\ attempt[<<ti, n>>] # "none"
        BY Numbers DEF Live
    <3>2. n <= retries[ti[1]] + 1
        BY <1>2 DEF RowInv, LiveIsOwner
    <3>3. cur.key = <<ti, 1>>
        BY <1>1, <1>2, <1>5, <2>2, KeyShape DEF RowsTyped
    <3>4. n = 2
        BY <2>2, <2>4, <3>1, <3>2, <3>3
    <3>5. ti \in TisOf(running \cup failed)' /\ ti \notin TisOf(to_run)'
        BY <1>1, <2>6 DEF TisOf, doneVars
    <3> QED
        BY <1>3, <1>5, <2>2, <2>3, <3>2, <3>4, <3>5
  <2>8. LiveHasUpstream(ti)'
    <3>1. \A u \in Up[ti[1]] : state'[<<u, ti[2]>>] = state[<<u, ti[2]>>]
        BY <1>3, <1>5, TIShape
    <3> QED
        BY <1>2, <2>1, <3>1 DEF RowInv, LiveHasUpstream
  <2>9. SendableHasTry(ti)'
      BY <1>1, <1>3, <1>5, <2>2, <2>3, <2>4, <2>5, <2>6 DEF SendableHasTry, again, TisOf
  <2>10. KnownByFirstKey(ti)'
      BY <1>1, <1>2, <2>6 DEF RowInv, KnownByFirstKey, TisOf
  <2>11. LateEvent(ti)' /\ PassIsUndone(ti)'
      BY <1>1, <2>1 DEF LateEvent, PassIsUndone
  <2>12. CountedStays(ti)'
      BY <1>1, <1>2, <1>5 DEF RowInv, CountedStays, TisOf, doneVars
  <2>13. UnloadedIsFresh(ti)'
      BY <1>1, <1>2, <1>5, <2>2 DEF UnloadedIsFresh, RowsTyped, Counted
  <2> QED
      BY <2>7, <2>8, <2>9, <2>10, <2>11, <2>12, <2>13 DEF RowInv
<1> QED
    BY <1>4, <1>5

\* The heartbeat sends what is queued and takes note of what is over.
LEMMA HeartbeatRows ==
    ASSUME DoneInv, NEW E \in SUBSET Exiting, heartbeat(E), NEW ti \in TIs, Untouched(ti)
    PROVE  RowInv(ti)'
<1>1. /\ step = "process" /\ step' = "manage" /\ to_run' \subseteq to_run
      /\ UNCHANGED <<rowVars, running, succeeded, skipped, failed, active_runs, executed>>
      /\ attempt' = [k \in Keys |-> CASE attempt[k] = "queued" -> "sent"
                                      [] k \in E -> "none"
                                      [] OTHER -> attempt[k]]
    BY DEF heartbeat, doneVars
<1>2. RowInv(ti)
    BY DEF DoneInv
<1>3. \A n \in 1..MaxTry : <<ti, n>> \in Keys
    BY DEF Keys
<1>4. \A n \in 1..MaxTry :
        /\ attempt'[<<ti, n>>] \in {"queued", "sent", "working"}
             <=> attempt[<<ti, n>>] \in {"queued", "sent", "working"}
        /\ attempt'[<<ti, n>>] = "working" <=> attempt[<<ti, n>>] = "working"
    BY <1>1, <1>3 DEF Exiting
<1>5. Live(ti)' = Live(ti)
    BY <1>4 DEF Live
<1>6. ~Failing(ti)' /\ \A u \in Up[ti[1]] : ~Failing(<<u, ti[2]>>)'
    BY <1>1 DEF Failing
<1>7. LiveIsOwner(ti)'
  <2>1. \A n \in Live(ti) : n \in 1..MaxTry
      BY DEF Live
  <2>2. ~(ti \in TisOf(to_run)) => ~(ti \in TisOf(to_run))'
      BY <1>1 DEF TisOf
  <2>3. /\ (ti \in TisOf(running))' <=> ti \in TisOf(running)
        /\ (ti \in TisOf(running \cup failed))' <=> ti \in TisOf(running \cup failed)
      BY <1>1 DEF TisOf
  <2> QED
      BY <1>1, <1>2, <1>4, <1>5, <2>1, <2>2, <2>3 DEF RowInv, LiveIsOwner, rowVars
<1>8. LiveHasUpstream(ti)'
    BY <1>1, <1>2, <1>5, <1>6 DEF RowInv, LiveHasUpstream, rowVars
<1>9. SendableHasTry(ti)' /\ KnownByFirstKey(ti)'
    BY <1>1, <1>2 DEF RowInv, SendableHasTry, KnownByFirstKey, TisOf, rowVars
<1>10. LateEvent(ti)' /\ CountedStays(ti)' /\ PassIsUndone(ti)' /\ UnloadedIsFresh(ti)'
    BY <1>1, <1>2, <1>6 DEF RowInv, LateEvent, CountedStays, PassIsUndone, UnloadedIsFresh, TisOf, rowVars
<1> QED
    BY <1>7, <1>8, <1>9, <1>10 DEF RowInv

\* _update_counters counts what the rows say at that moment, and takes back what may be sent again.
LEMMA CountersRows ==
    ASSUME DoneInv, update_counters, NEW ti \in TIs, Untouched(ti)
    PROVE  RowInv(ti)'
<1> USE DEF NONE, SCHEDULED, QUEUED, RUNNING, SUCCESS, FAILED, SKIPPED, UP_FOR_RETRY, UP_FOR_RESCHEDULE
<1>1. /\ step = "manage" /\ step' = "runs"
      /\ UNCHANGED <<try, max_tries, attempt, active_runs, executed>>
      /\ \A l : l \in succeeded' <=> l \in succeeded \/ (l \in running /\ state[l[1]] = SUCCESS)
      /\ \A l : l \in skipped' <=> l \in skipped \/ (l \in running /\ state[l[1]] = SKIPPED)
      /\ \A l : l \in failed' <=> l \in failed \/ (l \in running /\ state[l[1]] = FAILED)
      /\ \A l : l \in to_run' <=> l \in to_run \/ (l \in running /\ state[l[1]] \in again)
      /\ \A l : l \in running' <=> l \in running /\ state[l[1]] \notin finished \cup again
    BY DEF update_counters, again
<1>2. RowInv(ti) /\ Inv /\ RowsTyped
    BY DEF DoneInv
<1>3. \A x \in TIs : state'[x] = state[x] \/ (state[x] = NONE /\ state'[x] = SCHEDULED)
    BY DEF update_counters
<1>4. ti \notin TisOf(running) => state'[ti] = state[ti]
    BY DEF update_counters, TisOf
<1>5. Live(ti)' = Live(ti)
    BY <1>1 DEF Live
<1>6. ~Failing(ti)' /\ \A u \in Up[ti[1]] : ~Failing(<<u, ti[2]>>)'
    BY <1>1 DEF Failing
<1>7. LiveIsOwner(ti)'
  <2> SUFFICES ASSUME NEW n \in Live(ti)
               PROVE  /\ n <= retries[ti[1]] + 1
                      /\ (ti \notin TisOf(to_run))'
                      /\ \/ state'[ti] = QUEUED /\ try[ti] = n - 1 /\ (ti \in TisOf(running))'
                            /\ attempt[<<ti, n>>] # "working"
                         \/ state'[ti] = RUNNING /\ try[ti] = n /\ (ti \in TisOf(running))'
                            /\ attempt[<<ti, n>>] = "working"
                         \/ state'[ti] = FAILED /\ n = 2 /\ try[ti] \in 1..2
                            /\ (ti \in TisOf(running \cup failed))'
      BY <1>1, <1>5 DEF LiveIsOwner
  <2>1. /\ n <= retries[ti[1]] + 1 /\ ti \notin TisOf(to_run)
        /\ \/ state[ti] = QUEUED /\ try[ti] = n - 1 /\ ti \in TisOf(running) /\ attempt[<<ti, n>>] # "working"
           \/ state[ti] = RUNNING /\ try[ti] = n /\ ti \in TisOf(running) /\ attempt[<<ti, n>>] = "working"
           \/ state[ti] = FAILED /\ n = 2 /\ try[ti] \in 1..2 /\ ti \in TisOf(running \cup failed)
      BY <1>2 DEF RowInv, LiveIsOwner
  <2>2. state'[ti] = state[ti] /\ state[ti] \notin again
      BY <1>3, <2>1 DEF again
  <2>3. (ti \notin TisOf(to_run))'
      BY <1>1, <2>1, <2>2 DEF TisOf
  <2>4. state[ti] \in {QUEUED, RUNNING} /\ ti \in TisOf(running) => (ti \in TisOf(running))'
      BY <1>1 DEF TisOf, finished, again
  <2>5. state[ti] = FAILED /\ ti \in TisOf(running \cup failed) => (ti \in TisOf(running \cup failed))'
      BY <1>1 DEF TisOf
  <2> QED
      BY <2>1, <2>2, <2>3, <2>4, <2>5
<1>8. LiveHasUpstream(ti)'
    BY <1>2, <1>3, <1>5, <1>6, TIShape DEF RowInv, LiveHasUpstream
<1>9. SendableHasTry(ti)'
  <2>1. state'[ti] \in again => state'[ti] = state[ti]
      BY <1>3 DEF again
  <2>2. (ti \in TisOf(to_run))' => ti \in TisOf(to_run) \/ state[ti] \in again
      BY <1>1 DEF TisOf
  <2>3. state'[ti] \notin {SUCCESS, SKIPPED} => state[ti] \notin {SUCCESS, SKIPPED}
      BY <1>3
  <2> QED
      BY <1>1, <1>2, <2>1, <2>2, <2>3 DEF RowInv, SendableHasTry
<1>10. KnownByFirstKey(ti)'
    BY <1>1, <1>2, <1>3 DEF RowInv, KnownByFirstKey
<1>11. CountedStays(ti)'
  <2>1. (ti \in TisOf(succeeded))' => state[ti] = SUCCESS
      BY <1>1, <1>2 DEF RowInv, CountedStays, TisOf
  <2>2. (ti \in TisOf(skipped))' => state[ti] = SKIPPED
      BY <1>1, <1>2 DEF RowInv, CountedStays, TisOf
  <2> QED
      BY <1>3, <1>6, <2>1, <2>2 DEF CountedStays
<1>12. LateEvent(ti)' /\ PassIsUndone(ti)' /\ UnloadedIsFresh(ti)'
    BY <1>1, <1>2, <1>6 DEF RowInv, LateEvent, PassIsUndone, UnloadedIsFresh
<1> QED
    BY <1>7, <1>8, <1>9, <1>10, <1>11, <1>12 DEF RowInv

\* update_state leaves flags in rows that are not done and not live.
LEMMA RunsRows ==
    ASSUME DoneInv, NEW d \in Dates, update_run(d) \/ set_unfinished_dag_run_to_failed(d),
           NEW ti \in TIs, Untouched(ti)
    PROVE  RowInv(ti)'
<1> USE DEF NONE, SCHEDULED, QUEUED, RUNNING, SUCCESS, FAILED, SKIPPED, UP_FOR_RETRY, UP_FOR_RESCHEDULE,
            UPSTREAM_FAILED, SHUTDOWN, NoFlag
<1>1. /\ step' = step /\ step \in {"runs", "interrupted"}
      /\ UNCHANGED <<try, max_tries, attempt, to_run, running, succeeded, skipped, failed>>
    BY DEF update_run, set_unfinished_dag_run_to_failed, statusVars, doneVars
<1>2. RowInv(ti) /\ Inv /\ RowsTyped
    BY DEF DoneInv
<1>3. \A x \in TIs : \/ state'[x] = state[x]
                     \/ /\ state[x] \in unfinished
                        /\ flag(x) # NoFlag /\ state'[x] = flag(x)
  <2>1. PICK ready, F, rs : update_state(d, ready, F, rs)
      BY DEF update_run, set_unfinished_dag_run_to_failed
  <2>2. F \subseteq flagged(InStates(unfinished, AtDate(d)))
      BY <2>1 DEF update_state
  <2>3. \A x \in flagged(InStates(unfinished, AtDate(d))) : state[x] \in unfinished /\ flag(x) # NoFlag
      BY DEF flagged, InStates
  <2>4. \A x \in flagged(InStates(SCHEDULEABLE_STATES, InStates(unfinished, AtDate(d)))) :
          state[x] \in unfinished /\ flag(x) # NoFlag
      BY DEF flagged, InStates
  <2> QED
      BY <2>1, <2>2, <2>3, <2>4 DEF update_state
<1>4. active_runs \cup executed \subseteq active_runs' \cup executed'
    BY DEF update_run, set_unfinished_dag_run_to_failed, statusVars
<1>5. Live(ti)' = Live(ti)
    BY <1>1 DEF Live
<1>6. ~Failing(ti)' /\ \A u \in Up[ti[1]] : ~Failing(<<u, ti[2]>>)'
    BY <1>1 DEF Failing
<1>7. Live(ti) # {} => state'[ti] = state[ti]
  <2> SUFFICES ASSUME Live(ti) # {} PROVE state'[ti] = state[ti]
      OBVIOUS
  <2>1. flag(ti) = NoFlag
      BY <1>2, MetUpstream DEF RowInv, LiveHasUpstream
  <2> QED
      BY <1>3, <2>1
<1>8. state'[ti] = state[ti] \/ (state[ti] \in unfinished /\ state'[ti] \in {UPSTREAM_FAILED, SKIPPED})
    BY <1>3, MetUpstream
<1>9. LiveIsOwner(ti)'
    BY <1>1, <1>2, <1>5, <1>7 DEF RowInv, LiveIsOwner, TisOf
<1>10. LiveHasUpstream(ti)'
    BY <1>2, <1>3, <1>5, <1>6, TIShape DEF RowInv, LiveHasUpstream, unfinished
<1>11. SendableHasTry(ti)'
    BY <1>1, <1>2, <1>8 DEF RowInv, SendableHasTry, TisOf, unfinished, again
<1>12. KnownByFirstKey(ti)'
    BY <1>1, <1>2, <1>8 DEF RowInv, KnownByFirstKey, unfinished
<1>13. CountedStays(ti)'
    BY <1>1, <1>2, <1>6, <1>8 DEF RowInv, CountedStays, TisOf, unfinished
<1>14. LateEvent(ti)' /\ PassIsUndone(ti)' /\ UnloadedIsFresh(ti)'
    BY <1>1, <1>2, <1>4, <1>6 DEF RowInv, LateEvent, PassIsUndone, UnloadedIsFresh
<1> QED
    BY <1>9, <1>10, <1>11, <1>12, <1>13, <1>14 DEF RowInv

\* A run is loaded for the first time, and has not begun; or again, when all of it is done.
LEMMA LoadRows ==
    ASSUME DoneInv, NEW d \in Dates, load_run(d), NEW ti \in TIs, Untouched(ti)
    PROVE  RowInv(ti)'
<1> USE DEF NONE, SCHEDULED, QUEUED, RUNNING, SUCCESS, FAILED, SKIPPED, UP_FOR_RETRY, UP_FOR_RESCHEDULE
<1>1. /\ step = "dates" /\ step' = "dates" /\ d \in todo_runs
      /\ UNCHANGED <<try, max_tries, attempt, running, succeeded, skipped, failed, deadlocked, executed>>
    BY DEF load_run, doneVars
<1>2. RowInv(ti) /\ Inv /\ RowsTyped
    BY DEF DoneInv
<1>3. /\ running = {} /\ failed = {} /\ deadlocked = {} /\ \A k \in to_run : k[1][2] # d
    BY <1>1 DEF DoneInv, Inv, LoadsOnce, ErrorsRaise
<1>4. Live(ti) = {} /\ Live(ti)' = {}
  <2>1. ti \notin TisOf(running \cup failed) /\ ti \notin TisOf(running)
      BY <1>3 DEF TisOf
  <2>2. Live(ti) = {}
      BY <1>2, <2>1 DEF RowInv, LiveIsOwner
  <2> QED
      BY <1>1, <2>2 DEF Live
<1>5. CASE UNCHANGED <<state, to_run, active_runs>>
    BY <1>1, <1>5, MovesKeep DEF rowVars, doneVars
<1>6. CASE /\ state' = [x \in TIs |-> IF x \in Blank(d) THEN SCHEDULED ELSE state[x]]
           /\ to_run' = to_run \cup { KeyOf(x) : x \in AtDate(d) }
           /\ active_runs' = active_runs \cup {d}
  <2>1. state'[ti] = state[ti] \/ (state[ti] \in {NONE, SCHEDULED, QUEUED} /\ state'[ti] = SCHEDULED)
      BY <1>6 DEF Blank, InStates
  <2>2. ~Failing(ti)'
      BY <1>1 DEF Failing
  <2>3. ti[2] = d => \/ state[ti] \in {SUCCESS, SKIPPED}
                     \/ try[ti] = 0
    <3> SUFFICES ASSUME ti[2] = d, d \in active_runs \cup executed
                 PROVE  state[ti] \in {SUCCESS, SKIPPED}
        BY <1>2 DEF RowInv, UnloadedIsFresh
    <3>1. ti \in TisOf(Counted)
        BY <1>2 DEF Inv, NothingFallsOut, AtDate
    <3>2. ti \in TisOf(succeeded) \/ ti \in TisOf(skipped)
        BY <1>3, <3>1 DEF TisOf, Counted
    <3> QED
        BY <1>2, <3>2 DEF RowInv, CountedStays
  <2>4. \A k \in to_run' : k[1] = ti => k \in to_run \/ (ti[2] = d /\ k = KeyOf(ti))
      BY <1>6 DEF KeyOf, AtDate
  <2>5. (ti \in TisOf(to_run))' => ti \in TisOf(to_run) \/ ti[2] = d
      BY <2>4 DEF TisOf
  <2>6. retries[ti[1]] \in Nat /\ try[ti] \in Nat
      BY <1>2, Numbers, TIShape DEF RowInv, SendableHasTry
  <2>7. LiveIsOwner(ti)' /\ LiveHasUpstream(ti)' /\ LateEvent(ti)'
      BY <1>4, <2>2 DEF LiveIsOwner, LiveHasUpstream, LateEvent
  <2>8. SendableHasTry(ti)'
    <3>1. state'[ti] \in again => state[ti] \in again
        BY <2>1 DEF again
    <3>2. state'[ti] \notin {SUCCESS, SKIPPED} => state[ti] \notin {SUCCESS, SKIPPED}
        BY <2>1
    <3> QED
        BY <1>1, <1>2, <2>3, <2>5, <2>6, <3>1, <3>2 DEF RowInv, SendableHasTry
  <2>9. KnownByFirstKey(ti)'
    <3>1. try[ti] = 0 => KeyOf(ti)[2] <= 1
        BY DEF KeyOf, try_number
    <3>2. state[ti] \in {SUCCESS, SKIPPED} => state'[ti] = state[ti]
        BY <2>1
    <3> QED
        BY <1>1, <1>2, <1>3, <2>3, <2>4, <3>1, <3>2 DEF RowInv, KnownByFirstKey
  <2>10. CountedStays(ti)'
      BY <1>1, <1>2, <2>1, <2>2 DEF RowInv, CountedStays, TisOf
  <2>11. PassIsUndone(ti)' /\ UnloadedIsFresh(ti)'
      BY <1>1, <1>2, <1>6 DEF RowInv, PassIsUndone, UnloadedIsFresh
  <2> QED
      BY <2>7, <2>8, <2>9, <2>10, <2>11 DEF RowInv
<1> QED
    BY <1>5, <1>6 DEF load_run
-----------------------------------------------------------------------------
\* Rows have states, numbers and attempts.
RowTypes ==
    /\ state \in [TIs -> TaskStates]
    /\ try \in [TIs -> Int] /\ max_tries \in [TIs -> Int]
    /\ attempt \in [Keys -> {"none", "queued", "sent", "working", "exiting"}]

\* The sets a status refers to.
StatusTypes == \A k \in Counted : k[1] \in TIs /\ k[1][2] \in active_runs \cup executed

\* Every step writes states and numbers to the rows.
LEMMA RowTypesKept == DoneInv /\ [Next]_vars => RowTypes'
<1> SUFFICES ASSUME DoneInv, [Next]_vars PROVE RowTypes'
    OBVIOUS
<1> USE DEF RowTypes
<1>0. RowTypes /\ RowsTyped
    BY DEF DoneInv, RowsTyped
<1>1. {NONE, SCHEDULED, QUEUED, RUNNING, SUCCESS, FAILED, SKIPPED, UP_FOR_RETRY, UP_FOR_RESCHEDULE,
       UPSTREAM_FAILED} \subseteq TaskStates
    BY DEF TaskStates
<1>2. \A x \in TIs : flag(x) # NoFlag => flag(x) \in TaskStates
    BY <1>1, MetUpstream
<1>3. \A t \in Tasks : retries[t] \in Int
    BY Numbers
<1>4. \A a, b, c, e, f : failure_state(a, b, c, e, f) \in TaskStates
    BY <1>1 DEF failure_state
<1>5. CASE \E d \in Dates : load_run(d)
    BY <1>0, <1>1, <1>5 DEF load_run
<1>6. CASE \E d \in Dates : update_run(d) \/ set_unfinished_dag_run_to_failed(d)
  <2>1. PICK d \in Dates : update_run(d) \/ set_unfinished_dag_run_to_failed(d)
      BY <1>6
  <2>2. UNCHANGED <<try, max_tries, attempt>>
      BY <2>1 DEF update_run, set_unfinished_dag_run_to_failed
  <2>3. PICK ready, F, rs : update_state(d, ready, F, rs)
      BY <2>1 DEF update_run, set_unfinished_dag_run_to_failed
  <2>4. \A S : \A x \in flagged(S) : flag(x) # NoFlag
      BY DEF flagged
  <2>5. state' \in [TIs -> TaskStates]
      BY <1>0, <1>2, <2>3, <2>4 DEF update_state
  <2> QED
      BY <1>0, <2>2, <2>5
<1>7. CASE loop \/ collect_errors \/ interrupt \/ \E k \in Keys : concurrency_limit(k) \/ manage_event(k)
    BY <1>0, <1>7 DEF loop, collect_errors, interrupt, concurrency_limit, manage_event, rowVars
<1>8. CASE handle_failure
  <2>1. cur.key[1] \in TIs /\ cur.try \in Int
      BY <1>0, <1>8, KeyShape DEF handle_failure, RowsTyped
  <2> QED
      BY <1>0, <1>4, <1>8, <2>1 DEF handle_failure
<1>9. CASE update_counters
    BY <1>0, <1>1, <1>9 DEF update_counters
<1>10. CASE \E k \in Keys : per_task_process(k)
    BY <1>0, <1>1, <1>10 DEF per_task_process
<1>11. CASE \E E \in SUBSET Exiting : heartbeat(E)
    BY <1>0, <1>11 DEF heartbeat, rowVars
<1>12. CASE \E due \in BOOLEAN : queue_task_instance(due)
  <2>1. PICK due : queue_task_instance(due)
      BY <1>12
  <2>2. flagged({cur.key[1]}) # {} => flag(cur.key[1]) # NoFlag
      BY DEF flagged
  <2>3. cur.key[1] \in TIs
      BY <1>0, <2>1 DEF queue_task_instance, DoneInv, Inv, PassIsWaiting, RowsTyped, Counted
  <2>4. (IF flagged({cur.key[1]}) # {} THEN flag(cur.key[1]) ELSE state[cur.key[1]]) \in TaskStates
      BY <1>0, <1>2, <2>2, <2>3
  <2>5. UNCHANGED <<try, max_tries>>
      BY <2>1 DEF queue_task_instance
  <2>6. state' \in [TIs -> TaskStates]
      BY <1>0, <1>1, <2>1, <2>4 DEF queue_task_instance
  <2>7. attempt' \in [Keys -> {"none", "queued", "sent", "working", "exiting"}]
      BY <1>0, <2>1 DEF queue_task_instance
  <2> QED
      BY <1>0, <2>5, <2>6, <2>7
<1>13. CASE \E k \in Keys : Process(k)
  <2>1. PICK k \in Keys : Process(k)
      BY <1>13
  <2>2. k[1] \in TIs
      BY KeyShape
  <2>3. max_tries' = max_tries
      BY <1>0, <2>1, ProcessWrites
  <2>4. try' \in [TIs -> Int] /\ attempt' \in [Keys -> {"none", "queued", "sent", "working", "exiting"}]
    <3>1. \/ try' = try
          \/ try' = [try EXCEPT ![k[1]] = @ + 1]
          \/ try' = [try EXCEPT ![k[1]] = @ - 1]
        BY <2>1
           DEF Process, ProcessStep, start, not_started, finish, reschedule, killed, requeue, rowVars
    <3>2. \/ attempt' = [attempt EXCEPT ![k] = "working"]
          \/ attempt' = [attempt EXCEPT ![k] = "exiting"]
        BY <2>1
           DEF Process, ProcessStep, start, not_started, finish, reschedule, killed, requeue
    <3>3. try' \in [TIs -> Int]
        BY <1>0, <2>2, <3>1
    <3> QED
        BY <1>0, <3>2, <3>3
  <2>5. state' \in [TIs -> TaskStates]
    <3>1. CASE finish(k)
      <4> DEFINE f == failure_state(state[k[1]], try[k[1]], retries[k[1][1]], max_tries[k[1]], FALSE)
      <4>1. f \in TaskStates
          BY <1>4
      <4> HIDE DEF f
      <4>2. \E s \in {SUCCESS, SKIPPED, state[k[1]], f} : state' = [state EXCEPT ![k[1]] = s]
          BY <3>1 DEF finish, f
      <4> QED
          BY <1>0, <1>1, <2>2, <4>1, <4>2
    <3>2. CASE ~finish(k)
        BY <1>0, <1>1, <2>1, <3>2
           DEF Process, ProcessStep, start, not_started, reschedule, killed, requeue, rowVars
    <3> QED
        BY <3>1, <3>2
  <2> QED
      BY <1>0, <2>3, <2>4, <2>5
<1>14. CASE \E ti \in Clearable : clear(ti)
  <2>1. PICK ti \in Clearable : clear(ti)
      BY <1>14
  <2>2. ti \in TIs
      BY DagAssumption DEF TIs
  <2>3. try[ti] + retries[ti[1]] \in Int
      BY <1>0, <1>3, <2>2, TIShape
  <2> QED
      BY <1>0, <1>1, <2>1, <2>2, <2>3 DEF clear
<1>15. CASE UNCHANGED vars
    BY <1>0, <1>15 DEF vars, rowVars
<1> QED
    BY <1>5, <1>6, <1>7, <1>8, <1>9, <1>10, <1>11, <1>12, <1>13, <1>14, <1>15 DEF Next, JobStep, Process

\* Keys come into the status with their run, and runs stay active until they are executed.
LEMMA StatusTypesKept == DoneInv /\ [Next]_vars => StatusTypes'
<1> SUFFICES ASSUME DoneInv, [Next]_vars PROVE StatusTypes'
    OBVIOUS
<1>0. StatusTypes /\ RowsTyped /\ Inv
    BY DEF DoneInv, RowsTyped, StatusTypes
<1>1. ASSUME Counted' \subseteq Counted, active_runs \cup executed \subseteq active_runs' \cup executed'
      PROVE  StatusTypes'
    BY <1>0, <1>1 DEF StatusTypes
<1>2. CASE \E d \in Dates : load_run(d)
  <2>1. PICK d \in Dates : load_run(d)
      BY <1>2
  <2>2. UNCHANGED <<running, succeeded, skipped, failed, deadlocked, executed>>
      BY <2>1 DEF load_run, doneVars
  <2>3. CASE UNCHANGED <<to_run, active_runs>>
      BY <1>1, <2>2, <2>3 DEF Counted
  <2>4. CASE /\ to_run' = to_run \cup { KeyOf(ti) : ti \in AtDate(d) }
             /\ active_runs' = active_runs \cup {d}
    <3>1. \A k \in { KeyOf(ti) : ti \in AtDate(d) } : k[1] \in TIs /\ k[1][2] = d
        BY DEF KeyOf, AtDate
    <3> QED
        BY <1>0, <2>2, <2>4, <3>1 DEF StatusTypes, Counted
  <2> QED
      BY <2>1, <2>3, <2>4 DEF load_run
<1>3. CASE \E d \in Dates : update_run(d) \/ set_unfinished_dag_run_to_failed(d)
    BY <1>1, <1>3 DEF update_run, set_unfinished_dag_run_to_failed, statusVars, doneVars, Counted
<1>4. CASE loop \/ collect_errors \/ interrupt \/ handle_failure
           \/ \E k \in Keys : concurrency_limit(k) \/ manage_event(k)
    BY <1>1, <1>4 DEF loop, collect_errors, interrupt, handle_failure, concurrency_limit, manage_event,
       statusVars, doneVars, Counted
<1>5. CASE update_counters
    BY <1>1, <1>5 DEF update_counters, Counted
<1>6. CASE \E k \in Keys : per_task_process(k)
  <2>1. PICK k \in Keys : per_task_process(k)
      BY <1>6
  <2>2. k \in to_run
      BY <1>0, <2>1 DEF per_task_process, Next_in_order, Inv, PassIsWaiting
  <2>3. UNCHANGED <<deadlocked, active_runs, executed>> /\ to_run' \subseteq to_run /\ running' \subseteq running
        /\ succeeded' \subseteq succeeded \cup {k} /\ skipped' \subseteq skipped \cup {k}
        /\ failed' \subseteq failed \cup {k}
      BY <2>1 DEF per_task_process
  <2> QED
      BY <1>1, <2>2, <2>3 DEF Counted
<1>7. CASE \E E \in SUBSET Exiting : heartbeat(E)
    BY <1>1, <1>7 DEF heartbeat, doneVars, Counted
<1>8. CASE \E due \in BOOLEAN : queue_task_instance(due)
  <2>1. PICK due : queue_task_instance(due)
      BY <1>8
  <2>2. cur.key \in to_run
      BY <1>0, <2>1 DEF queue_task_instance, Inv, PassIsWaiting
  <2>3. UNCHANGED <<deadlocked, active_runs, executed, succeeded, skipped>> /\ to_run' \subseteq to_run
        /\ running' \subseteq running \cup {cur.key} /\ failed' \subseteq failed \cup {cur.key}
      BY <2>1 DEF queue_task_instance
  <2> QED
      BY <1>1, <2>2, <2>3 DEF Counted
<1>9. CASE \E k \in Keys : Process(k)
    BY <1>0, <1>1, <1>9, ProcessWrites DEF statusVars, doneVars, Counted
<1>10. CASE \E ti \in Clearable : clear(ti)
    BY <1>1, <1>10 DEF clear, statusVars, doneVars, Counted
<1>11. CASE UNCHANGED vars
    BY <1>1, <1>11 DEF vars, statusVars, doneVars, Counted
<1> QED
    BY <1>2, <1>3, <1>4, <1>5, <1>6, <1>7, <1>8, <1>9, <1>10, <1>11 DEF Next, JobStep, Process

\* What the job holds while it handles events and errors.
LEMMA HandsKept ==
    ASSUME DoneInv, [Next]_vars
    PROVE  /\ cleared' \subseteq TIs
           /\ step' = "fail" => cur'.key \in Keys /\ cur'.try \in Int
           /\ EventsAreOver' /\ ErrorsRaise'
<1>0. RowsTyped /\ Inv /\ EventsAreOver /\ ErrorsRaise
    BY DEF DoneInv
<1> DEFINE Hands == /\ cleared' \subseteq TIs
                    /\ step' = "fail" => cur'.key \in Keys /\ cur'.try \in Int
                    /\ EventsAreOver' /\ ErrorsRaise'
<1>1. ASSUME cleared' \subseteq TIs, step' \notin {"fail", "manage"}, ErrorsRaise'
      PROVE  Hands
    BY <1>1 DEF EventsAreOver
<1>2. CASE \E d \in Dates : load_run(d)
    BY <1>0, <1>1, <1>2 DEF load_run, envVars, doneVars, RowsTyped, ErrorsRaise
<1>3. CASE \E d \in Dates : update_run(d) \/ set_unfinished_dag_run_to_failed(d)
    BY <1>0, <1>1, <1>3 DEF update_run, set_unfinished_dag_run_to_failed, envVars, RowsTyped, ErrorsRaise
<1>4. CASE loop \/ \E k \in Keys : concurrency_limit(k) \/ per_task_process(k)
    BY <1>0, <1>1, <1>4 DEF loop, concurrency_limit, per_task_process, envVars, RowsTyped, ErrorsRaise
<1>5. CASE collect_errors
  <2>1. /\ step = "collect" /\ UNCHANGED <<statusVars, cleared>> /\ step' \in {"raised", "done", "dates"}
        /\ step' \in {"done", "dates"} => failed \cup deadlocked = {}
        /\ step' = "done" => executed = Dates
      BY <1>5 DEF collect_errors, envVars
  <2>2. deadlocked = {} => to_run \cup running = {}
      BY <1>0, <2>1 DEF Inv, LoadsOnce
  <2>3. ErrorsRaise'
      BY <2>1, <2>2 DEF ErrorsRaise, statusVars, doneVars
  <2> QED
      BY <1>0, <1>1, <2>1, <2>3 DEF RowsTyped
<1>6. CASE interrupt
    BY <1>0, <1>1, <1>6 DEF interrupt, RowsTyped, ErrorsRaise
<1>7. CASE update_counters
    BY <1>0, <1>1, <1>7 DEF update_counters, envVars, RowsTyped, ErrorsRaise
<1>8. CASE \E due \in BOOLEAN : queue_task_instance(due)
    BY <1>0, <1>1, <1>8 DEF queue_task_instance, envVars, RowsTyped, ErrorsRaise
<1>9. CASE \E E \in SUBSET Exiting : heartbeat(E)
  <2>1. PICK E \in SUBSET Exiting : heartbeat(E)
      BY <1>9
  <2>2. step' = "manage" /\ cleared' = cleared /\ todo' = E
      BY <2>1 DEF heartbeat, envVars
  <2>3. \A k \in E : k \in Keys /\ attempt'[k] = "none"
      BY <2>1 DEF heartbeat, Exiting
  <2> QED
      BY <1>0, <2>2, <2>3 DEF RowsTyped, EventsAreOver, ErrorsRaise
<1>10. CASE \E k \in Keys : manage_event(k)
  <2>1. PICK k \in Keys : manage_event(k)
      BY <1>10
  <2>2. /\ step = "manage" /\ step' \in {"manage", "fail"} /\ todo' \subseteq todo /\ UNCHANGED <<attempt, cleared>>
        /\ step' = "fail" => cur'.key = k /\ cur'.try = try[k[1]]
      BY <2>1 DEF manage_event, envVars, Row
  <2>3. try[k[1]] \in Int
      BY <1>0, KeyShape DEF RowsTyped
  <2> QED
      BY <1>0, <2>2, <2>3 DEF RowsTyped, EventsAreOver, ErrorsRaise
<1>11. CASE handle_failure
    BY <1>0, <1>11 DEF handle_failure, envVars, RowsTyped, EventsAreOver, ErrorsRaise
<1>12. CASE \E k \in Keys : Process(k)
  <2>1. PICK k \in Keys : Process(k)
      BY <1>12
  <2>2. /\ k[2] \in Live(k[1]) /\ k = <<k[1], k[2]>>
        /\ UNCHANGED <<step, todo, todo_runs, cur, statusVars, max_tries, cleared>>
        /\ \A l \in Keys : l # k => attempt'[l] = attempt[l]
      BY <1>0, <2>1, ProcessWrites, KeyShape
  <2>3. attempt[k] # "none"
      BY <2>2 DEF Live
  <2>4. EventsAreOver'
      BY <1>0, <2>2, <2>3 DEF EventsAreOver
  <2>5. ErrorsRaise'
      BY <1>0, <2>2 DEF ErrorsRaise, statusVars, doneVars
  <2> QED
      BY <1>0, <2>2, <2>4, <2>5 DEF RowsTyped
<1>13. CASE \E ti \in Clearable : clear(ti)
  <2>1. PICK ti \in Clearable : clear(ti)
      BY <1>13
  <2>2. ti \in TIs /\ UNCHANGED <<attempt, step, todo, cur, statusVars>> /\ cleared' = cleared \cup {ti}
      BY <2>1, DagAssumption DEF clear, TIs
  <2> QED
      BY <1>0, <2>2 DEF RowsTyped, EventsAreOver, ErrorsRaise, statusVars, doneVars
<1>14. CASE UNCHANGED vars
    BY <1>0, <1>14 DEF vars, envVars, RowsTyped, EventsAreOver, ErrorsRaise, statusVars, doneVars
<1> QED
    BY <1>2, <1>3, <1>4, <1>5, <1>6, <1>7, <1>8, <1>9, <1>10, <1>11, <1>12, <1>13, <1>14
       DEF Next, JobStep, Process

\* At the start nothing has been sent, counted or cleared.
LEMMA DoneInitially == Init => DoneInv
<1> SUFFICES ASSUME Init PROVE DoneInv
    OBVIOUS
<1>1. Inv
    BY InitEstablishes
<1>2. \A t \in Tasks : retries[t] \in Nat
    BY Numbers
<1>3. \A x \in TIs : x[1] \in Tasks
    BY TIShape
<1>4. RowsTyped
  <2>1. state \in [TIs -> TaskStates]
      BY DagAssumption DEF Init, TIs
  <2>2. try \in [TIs -> Int] /\ max_tries \in [TIs -> Int]
      BY <1>2, <1>3 DEF Init
  <2>3. attempt \in [Keys -> {"none", "queued", "sent", "working", "exiting"}]
      BY DEF Init
  <2> QED
      BY <2>1, <2>2, <2>3 DEF Init, RowsTyped, Counted
<1>5. EventsAreOver /\ ErrorsRaise
    BY DEF Init, EventsAreOver, ErrorsRaise
<1>6. ASSUME NEW ti \in TIs
      PROVE  RowInv(ti)
  <2>1. Live(ti) = {}
      BY DEF Live, Init, Keys
  <2>2. ~Failing(ti)
      BY DEF Failing, Init
  <2>3. LiveIsOwner(ti) /\ LiveHasUpstream(ti) /\ LateEvent(ti)
      BY <2>1, <2>2 DEF LiveIsOwner, LiveHasUpstream, LateEvent
  <2>4. SendableHasTry(ti) /\ UnloadedIsFresh(ti)
      BY <1>2, <1>3 DEF Init, SendableHasTry, UnloadedIsFresh
  <2>5. KnownByFirstKey(ti) /\ CountedStays(ti) /\ PassIsUndone(ti)
      BY DEF Init, KnownByFirstKey, CountedStays, PassIsUndone, TisOf
  <2> QED
      BY <2>3, <2>4, <2>5 DEF RowInv
<1> QED
    BY <1>1, <1>4, <1>5, <1>6 DEF DoneInv

\* Every step keeps the invariant.
LEMMA DoneIsInductive == ASSUME FewRetries PROVE DoneInv /\ [Next]_vars => DoneInv'
<1> SUFFICES ASSUME DoneInv, [Next]_vars PROVE DoneInv'
    OBVIOUS
<1>1. Inv'
    BY InvIsInductive DEF DoneInv
<1>2. RowsTyped' /\ EventsAreOver' /\ ErrorsRaise'
    BY RowTypesKept, StatusTypesKept, HandsKept DEF RowTypes, StatusTypes, RowsTyped
<1>3. ASSUME NEW ti \in TIs, Untouched(ti)'
      PROVE  RowInv(ti)'
  <2>1. CASE \E r \in Clearable : clear(r)
      BY <1>3, <2>1, ClearRows, DagAssumption DEF TIs
  <2>2. CASE ~ \E r \in Clearable : clear(r)
    <3>1. cleared' = cleared
        BY <2>2 DEF Next, JobStep, ProcessStep, load_run, update_run, set_unfinished_dag_run_to_failed, loop,
           handle_failure, update_counters, collect_errors, concurrency_limit, per_task_process, manage_event,
           heartbeat, queue_task_instance, start, not_started, finish, reschedule, killed, requeue, interrupt,
           envVars, vars
    <3>2. Untouched(ti)
        BY <1>3, <3>1 DEF Untouched
    <3>3. CASE \E k \in Keys : Process(k)
        BY <3>2, <3>3, ProcessRows
    <3>4. CASE loop \/ collect_errors \/ interrupt \/ \E k \in Keys : concurrency_limit(k)
      <4>1. /\ UNCHANGED <<rowVars, attempt, to_run, running, doneVars, active_runs, executed>>
            /\ step' \notin {"fail", "queue"}
          BY <3>4 DEF loop, collect_errors, interrupt, concurrency_limit, statusVars
      <4> QED
          BY <3>2, <4>1, MovesKeep
    <3>5. CASE UNCHANGED vars
      <4>1. UNCHANGED <<state, try, max_tries, attempt, step, cur, to_run, running, succeeded, skipped, failed,
                        active_runs, executed>>
          BY <3>5 DEF vars, rowVars, statusVars, doneVars
      <4>2. RowInv(ti) /\ RowsTyped
          BY <3>2 DEF DoneInv
      <4>3. <<>> # ti
          BY TIShape
      <4> QED
          BY <4>1, <4>2, <4>3, OthersKeep
    <3>6. CASE handle_failure \/ update_counters
        BY <3>2, <3>6, FailureRows, CountersRows
    <3>7. CASE \E d \in Dates : load_run(d) \/ update_run(d) \/ set_unfinished_dag_run_to_failed(d)
        BY <3>2, <3>7, LoadRows, RunsRows
    <3>8. CASE \E k \in Keys : per_task_process(k) \/ manage_event(k)
        BY <3>2, <3>8, ProcessPassRows, ManageRows
    <3>9. CASE \E E \in SUBSET Exiting : heartbeat(E)
        BY <3>2, <3>9, HeartbeatRows
    <3>10. CASE \E due \in BOOLEAN : queue_task_instance(due)
        BY <3>2, <3>10, QueueRows
    <3> QED
        BY <2>2, <3>3, <3>4, <3>5, <3>6, <3>7, <3>8, <3>9, <3>10 DEF Next, JobStep, Process
  <2> QED
      BY <2>1, <2>2
<1> QED
    BY <1>1, <1>2, <1>3 DEF DoneInv

\* The job is done when everything has been counted as a success or a skip, and still is one.
LEMMA DoneIsDone == DoneInv => DoneMeansDone
<1> SUFFICES ASSUME DoneInv, step = "done", NEW ti \in TIs, Untouched(ti)
             PROVE  state[ti] \in {SUCCESS, SKIPPED}
    BY DEF DoneMeansDone
<1>1. to_run = {} /\ running = {} /\ failed = {} /\ deadlocked = {} /\ executed = Dates
    BY DEF DoneInv, ErrorsRaise
<1>2. ti[2] \in executed /\ ti \in AtDate(ti[2])
    BY <1>1, TIShape DEF AtDate
<1>3. ti \in TisOf(Counted)
    BY <1>2 DEF DoneInv, Inv, NothingFallsOut
<1>4. ti \in TisOf(succeeded) \/ ti \in TisOf(skipped)
    BY <1>1, <1>3 DEF TisOf, Counted
<1> QED
    BY <1>4 DEF DoneInv, RowInv, CountedStays

\* A backfill that ends as done has run everything (_execute and _collect_errors of
\* backfill_job.py): through any number of kills, reschedules, requeues and late events of the
\* executor, and whatever is cleared elsewhere, with one retry at most for each task.
THEOREM DoneAlwaysMeansDone == Spec => []DoneMeansDone
<1>1. CASE FewRetries
    BY <1>1, DoneInitially, DoneIsInductive, DoneIsDone, PTL DEF Spec
<1>2. CASE ~FewRetries
  <2>1. DoneMeansDone
      BY <1>2 DEF DoneMeansDone
  <2> QED
      BY <2>1, PTL
<1> QED
    BY <1>1, <1>2

\* What has succeeded is not sent to the executor again, although _execute may load its run
\* again (_per_task_process, _update_counters of backfill_job.py).
THEOREM SucceededStaysDone == Spec => SucceededNotRerun
<1> DEFINE A == \A k \in Keys :
          (attempt[k] = "none" /\ attempt'[k] = "queued" /\ Untouched(k[1]) /\ FewRetries)
          => k[1] \notin TisOf(succeeded)
<1>1. ASSUME FewRetries PROVE DoneInv /\ [Next]_vars => [A]_vars
  <2> SUFFICES ASSUME DoneInv, Next, NEW k \in Keys, attempt[k] = "none", attempt'[k] = "queued",
                      Untouched(k[1])
               PROVE  k[1] \notin TisOf(succeeded)
      OBVIOUS
  <2>1. RowsTyped /\ Inv /\ RowInv(k[1]) /\ k[1] \in TIs
      BY KeyShape DEF DoneInv
  <2>2. \E due \in BOOLEAN : queue_task_instance(due)
    <3>1. attempt' # attempt
        OBVIOUS
    <3>2. ~ \E E \in SUBSET Exiting : heartbeat(E)
        BY DEF heartbeat
    <3>3. ~ \E l \in Keys : Process(l)
      <4> SUFFICES ASSUME NEW l \in Keys, Process(l) PROVE FALSE
          OBVIOUS
      <4>1. attempt'[l] \in {"working", "exiting"} /\ \A m \in Keys : m # l => attempt'[m] = attempt[m]
          BY <2>1, ProcessWrites
      <4> QED
          BY <4>1
    <3> QED
        BY <3>1, <3>2, <3>3 DEF Next, JobStep, Process, load_run, update_run, set_unfinished_dag_run_to_failed,
           loop, handle_failure, update_counters, collect_errors, concurrency_limit, per_task_process,
           manage_event, interrupt, clear
  <2>3. PICK due : queue_task_instance(due)
      BY <2>2
  <2>4. KeyOf(cur.key[1]) = k /\ step = "queue"
      BY <2>1, <2>3 DEF queue_task_instance, RowsTyped
  <2>5. cur.key[1] = k[1]
      BY <2>4 DEF KeyOf
  <2> QED
      BY <2>1, <2>4, <2>5 DEF RowInv, PassIsUndone, CountedStays
<1>2. CASE FewRetries
  <2>1. Spec => [][A]_vars
      BY <1>1, <1>2, DoneInitially, DoneIsInductive, PTL DEF Spec
  <2> QED
      BY <2>1 DEF SucceededNotRerun
<1>3. CASE ~FewRetries
  <2>1. [A]_vars
      BY <1>3
  <2>2. [][A]_vars
      BY <2>1, PTL
  <2> QED
      BY <2>2 DEF SucceededNotRerun
<1> QED
    BY <1>2, <1>3
=============================================================================
