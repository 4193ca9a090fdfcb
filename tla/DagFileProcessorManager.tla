---------------------- MODULE DagFileProcessorManager ----------------------
(***************************************************************************)
(* The processing of DAG files: the scheduler loop with its                *)
(* DagFileProcessorAgent, the DagFileProcessorManager process it launches, *)
(* and the DagFileProcessor processes that the manager forks, one per      *)
(* file.                                                                   *)
(*                                                                         *)
(*  - Users write, change and delete files at any time; the manager lists  *)
(*    the directory from time to time.                                     *)
(*  - A processor reads the file, sends its SimpleDags through a pipe of   *)
(*    its own and ends.  It may fail, find no DAGs, or take longer than    *)
(*    the timeout, and is then killed unless it is done before.            *)
(*  - The manager forwards the results, and after each round a             *)
(*    DagParsingStat, through a pipe of limited size (a full one blocks    *)
(*    it).  It may be killed; the agent launches another one.              *)
(*  - With SQLite (async_mode FALSE) the manager runs a round only when    *)
(*    the agent sends a heartbeat and waits for its processors.            *)
(*                                                                         *)
(* What is in a file is its version, a number that grows with every write; *)
(* a SimpleDag is a file and a version.  What the scheduler does with a    *)
(* SimpleDag is the subject of SchedulerJob, what process_file does to the *)
(* database that of DagRun, the zombies that of TaskExecution.  The agent  *)
(* never sends END_MANAGER, so it is left out, and _collected_dag_buffer   *)
(* is empty again by the end of the harvest that fills it.                 *)
(***************************************************************************)
EXTENDS Integers, FiniteSets, Sequences, FiniteSetsExt, Functions

CONSTANTS Files,
          Parallelism,  \* parsing_processes
          Directories,  \* the choices of the files that are there at first
          Edited,       \* those that users change
          MaxRuns,      \* the choices of num_runs: -1 is unlimited
          PipeSize,     \* messages a pipe holds
          MaxEdits,     \* bound: changes to the directory
          MaxFaults,    \* bound: processors that fail or hang, managers killed
          MaxEvents     \* bound: changes and faults together

ASSUME ConstantsAssumption ==
    /\ IsFiniteSet(Files) /\ Directories \subseteq SUBSET Files /\ Edited \subseteq Files
    /\ Parallelism \in Nat \ {0}
    /\ MaxRuns \subseteq {-1} \cup (Nat \ {0})
    /\ PipeSize \in Nat \ {0}
    /\ MaxEdits \in Nat /\ MaxFaults \in Nat /\ MaxEvents \in Nat

VARIABLES
    async_mode, max_runs,  \* configuration; fixed
  \* the DAG directory: the version of each file, 0 if there is none
    dir, edits,
  \* the scheduler and its agent: where the loop is, the latest stat received, the
  \* newest version harvested of each file, the DAGs touched in the database since
  \* the start, and those deactivated at the end
    sched, file_paths_known, done, all_files_processed, stat_received,
    harvested, touched, deactivated,
  \* the two directions of the pipe between agent and manager: messages and heartbeats
    conn, heartbeats,
  \* the manager: where its loop is, the files it lists, queues and has counted
  \* (run_count, -1: no stat), its rounds, results collected but not yet sent, and
  \* the files it has counted without their DAGs having been touched
    pc, file_paths, file_path_queue, file_stats, num_run, simple_dags, unparsed,
  \* the processors: the state of each ("none": the manager has none for the file),
  \* the version it has read, whether it has run out of time, and the processors that
  \* were there when it was forked
    proc, version, late, siblings,
    faults

configVars == <<async_mode, max_runs>>
dirVars == <<dir, edits>>
agentVars == <<file_paths_known, done, all_files_processed, stat_received, harvested>>
schedVars == <<sched, touched, deactivated>>
pipeVars == <<conn, heartbeats>>
listVars == <<file_paths, file_path_queue, file_stats>>
managerVars == <<pc, listVars, num_run, simple_dags, unparsed>>
procVars == <<proc, version, late, siblings>>
vars == <<configVars, dirVars, agentVars, schedVars, pipeVars, managerVars, procVars, faults>>

Versions == 0..(MaxEdits + 1)
NoStat == -1
Working == {"started", "parsed"}
Finished == {"sent", "empty", "failed", "killed", "stopped"}
Tracked == { f \in Files : proc[f] # "none" }
Alive == { f \in Files : proc[f] \in Working }
parallelism == IF async_mode THEN Parallelism ELSE 1
Listing == { f \in Files : dir[f] # 0 }

Dags(f, v) == [type |-> "dags", file |-> f, version |-> v]
Stat(fs, d, a) == [type |-> "stat", file_paths |-> fs, done |-> d, all_files_processed |-> a]
Messages == [type : {"dags"}, file : Files, version : Versions]
            \cup [type : {"stat"}, file_paths : SUBSET Files, done : BOOLEAN, all_files_processed : BOOLEAN]

TypeOK ==
    /\ async_mode \in BOOLEAN /\ max_runs \in MaxRuns
    /\ dir \in [Files -> Versions] /\ edits \in 0..MaxEdits
    /\ sched \in {"loop", "wait", "harvest", "alive", "end", "stopped"}
    /\ file_paths_known \in SUBSET Files
    /\ done \in BOOLEAN /\ all_files_processed \in BOOLEAN /\ stat_received \in BOOLEAN
    /\ harvested \in [Files -> Versions]
    /\ touched \in SUBSET Files /\ deactivated \in SUBSET Files
    /\ conn \in Seq(Messages) /\ Len(conn) <= PipeSize
    /\ heartbeats \in 0..PipeSize
    /\ pc \in {"poll", "collect", "start", "send", "wait", "send_again", "exit", "gone"}
    /\ file_paths \in SUBSET Files /\ file_path_queue \in SUBSET Files
    /\ file_stats \in [Files -> NoStat..Max({1, max_runs})]
    /\ num_run \in Nat
    /\ simple_dags \in SUBSET (Files \X Versions)
    /\ unparsed \in SUBSET Files
    /\ proc \in [Files -> {"none"} \cup Working \cup Finished]
    /\ version \in [Files -> Versions]
    /\ late \in SUBSET Alive
    /\ siblings \in [Files -> SUBSET Files]
    /\ faults \in 0..MaxFaults

\* DagFileProcessorManager.__init__ with the files fs.
NewManager(fs) ==
    /\ pc' = "poll"
    /\ file_paths' = fs
    /\ file_path_queue' = {}
    /\ file_stats' = [f \in Files |-> NoStat]
    /\ num_run' = 0
    /\ simple_dags' = {}
    /\ unparsed' = unparsed
    /\ proc' = [f \in Files |-> "none"]
    /\ version' = [f \in Files |-> 0]
    /\ late' = {}
    /\ siblings' = [f \in Files |-> {}]

\* The agent has been created with the files found, and its manager started.
Init ==
    /\ async_mode \in BOOLEAN /\ max_runs \in MaxRuns
    /\ dir \in { [f \in Files |-> IF f \in fs THEN 1 ELSE 0] : fs \in Directories }
    /\ edits = 0
    /\ sched = IF async_mode THEN "harvest" ELSE "loop"
    /\ file_paths_known = Listing
    /\ done = FALSE /\ all_files_processed = TRUE /\ stat_received = FALSE
    /\ harvested = [f \in Files |-> 0]
    /\ touched = {} /\ deactivated = {}
    /\ conn = <<>> /\ heartbeats = 0
    /\ pc = "poll"
    /\ file_paths = Listing /\ file_path_queue = {} /\ file_stats = [f \in Files |-> NoStat]
    /\ num_run = 0 /\ simple_dags = {} /\ unparsed = {}
    /\ proc = [f \in Files |-> "none"] /\ version = [f \in Files |-> 0]
    /\ late = {} /\ siblings = [f \in Files |-> {}]
    /\ faults = 0
-----------------------------------------------------------------------------
Looping == sched \in {"loop", "wait", "harvest", "alive"}

\* Bound: faults and edits happen while the loop of the scheduler runs.
EventLeft == Looping /\ edits + faults < MaxEvents
FaultLeft == faults < MaxFaults /\ EventLeft
-----------------------------------------------------------------------------
(* The processors. *)

\* process_file reads the file; the DAGs it finds are synchronised to the database.
read_file(f) ==
    /\ proc[f] = "started"
    /\ proc' = [proc EXCEPT ![f] = "parsed"]
    /\ version' = [version EXCEPT ![f] = dir[f]]
    /\ touched' = IF dir[f] = 0 THEN touched ELSE touched \cup {f}
    /\ UNCHANGED <<configVars, dirVars, agentVars, sched, deactivated, pipeVars, managerVars,
                   late, siblings, faults>>

\* The result is sent through the processor's pipe and the process ends.
send_result(f) ==
    /\ proc[f] = "parsed"
    /\ proc' = [proc EXCEPT ![f] = IF version[f] = 0 THEN "empty" ELSE "sent"]
    /\ late' = late \ {f}
    /\ UNCHANGED <<configVars, dirVars, agentVars, schedVars, pipeVars, managerVars,
                   version, siblings, faults>>

\* The file cannot be imported (an empty result), or the process fails (none).
fail(f, outcome) ==
    /\ FaultLeft
    /\ faults' = faults + 1
    /\ f \in Alive
    /\ proc' = [proc EXCEPT ![f] = outcome]
    /\ late' = late \ {f}
    /\ UNCHANGED <<configVars, dirVars, agentVars, schedVars, pipeVars, managerVars,
                   version, siblings>>

\* The process takes longer than the timeout; it may hang forever.
time_out(f) ==
    /\ FaultLeft
    /\ faults' = faults + 1
    /\ f \in Alive \ late
    /\ late' = late \cup {f}
    /\ UNCHANGED <<configVars, dirVars, agentVars, schedVars, pipeVars, managerVars,
                   proc, version, siblings>>
-----------------------------------------------------------------------------
(* The manager. *)

\* TERMINATE_MANAGER, behind the heartbeats: SIGTERM to all processors, and the loop ends.
terminate ==
    /\ pc = "poll"
    /\ sched = "end" /\ heartbeats = 0
    /\ pc' = "exit"
    /\ \E stopped \in SUBSET late :
         proc' = [f \in Files |-> IF f \in (Alive \ late) \cup stopped THEN "stopped" ELSE proc[f]]
    /\ late' = { f \in late : proc'[f] \in Working }
    /\ UNCHANGED <<configVars, dirVars, agentVars, schedVars, pipeVars, listVars, num_run,
                   simple_dags, unparsed, version, siblings, faults>>

\* set_file_paths: the processors of files that are no longer there get SIGTERM and
\* are forgotten with the count of their file; other counts stay.  A processor has
\* inherited the manager's signal handler, with the processors the manager had when it
\* was forked, and sends SIGTERM to those.  (stopping: which of the processors that
\* are out of time react to the signal.)
set_file_paths(fs, stopping) ==
    LET deleted == Tracked \ fs
        reacting == (Alive \ late) \cup stopping
        signalled == UNION { siblings[f] : f \in deleted \cap reacting }
        stopped == (signalled \ deleted) \cap reacting
    IN  /\ file_paths' = fs
        /\ file_path_queue' = file_path_queue \cap fs
        /\ file_stats' = [f \in Files |-> IF f \in deleted THEN NoStat ELSE file_stats[f]]
        /\ proc' = [f \in Files |-> IF f \in deleted THEN "none"
                                    ELSE IF f \in stopped THEN "stopped" ELSE proc[f]]
        /\ version' = [f \in Files |-> IF f \in deleted \cup stopped THEN 0 ELSE version[f]]
        /\ late' = late \ (deleted \cup stopped)
        /\ siblings' = [f \in Files |-> IF f \in deleted THEN {} ELSE siblings[f] \ deleted]

\* Each round of start() begins with a look at the signals; without SQLite the manager
\* does not wait for one.  Then _refresh_dag_dir; due: dag_dir_list_interval is over.
poll_and_refresh(due) ==
    /\ pc = "poll"
    /\ pc' = "collect"
    /\ \/ async_mode /\ sched # "end" /\ UNCHANGED heartbeats
       \/ heartbeats > 0 /\ heartbeats' = heartbeats - 1
    /\ IF due THEN \E stopping \in SUBSET late : set_file_paths(Listing, stopping)
              ELSE UNCHANGED <<listVars, procVars>>
    /\ UNCHANGED <<configVars, dirVars, agentVars, schedVars, conn, num_run, simple_dags,
                   unparsed, faults>>

\* get_run_count + 1; an unlimited count is compared with nothing.
next_run_count(f) == IF max_runs = -1 \/ file_stats[f] = NoStat THEN 1 ELSE file_stats[f] + 1

\* _kill_timed_out_processors, then collect_results: the files whose processor is done
\* are counted, with or without a result.  (ended: which of the processors killed now
\* are already found ended.)
collect_results(ended) ==
    LET finished == { f \in Files : proc[f] \in Finished } \cup ended
    IN  /\ proc' = [f \in Files |-> IF f \in finished THEN "none"
                                    ELSE IF f \in late THEN "killed" ELSE proc[f]]
        /\ version' = [f \in Files |-> IF f \in finished \cup late THEN 0 ELSE version[f]]
        /\ late' = {}
        /\ siblings' = [f \in Files |-> IF f \in finished THEN {} ELSE siblings[f] \ finished]
        /\ file_stats' = [f \in Files |-> IF f \in finished THEN next_run_count(f) ELSE file_stats[f]]
        /\ simple_dags' = { <<f, version[f]>> : f \in { g \in finished : proc[g] = "sent" } }
        /\ unparsed' = unparsed \cup (finished \ touched)

\* The two places in start() that collect; the second one is for SQLite, when the
\* processors have ended (wait_until_finished has no timeout).
collect(ended) ==
    /\ \/ pc = "collect" /\ pc' = "start"
       \/ pc = "wait" /\ Alive = {} /\ pc' = "send_again"
    /\ collect_results(ended)
    /\ UNCHANGED <<configVars, dirVars, agentVars, schedVars, pipeVars, file_paths,
                   file_path_queue, num_run, faults>>

\* Mutant: the files in progress are queued again.
to_queue_in_progress(recent) ==
    { f \in file_paths \ recent : file_stats[f] = NoStat \/ file_stats[f] # max_runs }

\* files_paths_to_queue; recent: the files whose min_file_process_interval is not over.
to_queue(recent) ==
    { f \in (file_paths \ recent) \ Tracked : file_stats[f] = NoStat \/ file_stats[f] # max_runs }

\* prepare_file_path_queue if the queue is empty, then start_new_processes: as many as
\* there are slots for, in some order, each forked with the ones before it.  (_num_run
\* matters up to max_runs.)
prepare_and_start(recent) ==
    LET queue == IF file_path_queue = {} THEN to_queue(recent) ELSE file_path_queue
        n == Min({Cardinality(queue), Max({parallelism - Cardinality(Tracked), 0})})
    IN  /\ pc = "start"
        /\ pc' = "send"
        /\ file_stats' = [f \in Files |-> IF f \in queue /\ file_stats[f] = NoStat THEN 0 ELSE file_stats[f]]
        /\ \E order \in { o \in [1..n -> queue] : IsInjective(o) } :
             LET before(f) == { g \in queue : \E i, j \in 1..n : i < j /\ order[i] = g /\ order[j] = f }
                 new == { order[i] : i \in 1..n }
             IN  /\ file_path_queue' = queue \ new
                 /\ proc' = [f \in Files |-> IF f \in new THEN "started" ELSE proc[f]]
                 /\ siblings' = [f \in Files |-> IF f \in new THEN Tracked \cup before(f) ELSE siblings[f]]
        /\ num_run' = IF num_run < max_runs THEN num_run + 1 ELSE num_run
        /\ UNCHANGED <<configVars, dirVars, agentVars, schedVars, pipeVars, file_paths,
                       simple_dags, unparsed, version, late, faults>>

Room == Len(conn) < PipeSize

\* A result is sent to the agent.
send(r) ==
    /\ pc \in {"send", "send_again"}
    /\ r \in simple_dags
    /\ Room
    /\ conn' = Append(conn, Dags(r[1], r[2]))
    /\ simple_dags' = simple_dags \ {r}
    /\ UNCHANGED <<configVars, dirVars, agentVars, schedVars, heartbeats, pc, listVars, num_run,
                   unparsed, procVars, faults>>

\* With SQLite the manager waits when the results are sent, and collects again.
wait_until_finished ==
    /\ pc = "send" /\ ~async_mode
    /\ simple_dags = {}
    /\ pc' = "wait"
    /\ UNCHANGED <<configVars, dirVars, agentVars, schedVars, pipeVars, listVars, num_run,
                   simple_dags, unparsed, procVars, faults>>

\* Mutant: a file that has been queued counts as processed.
all_processed_or_queued == \A f \in file_paths : file_stats[f] >= 0

\* all(self.get_last_finish_time(x) is not None for x in self.file_paths)
all_processed == \A f \in file_paths : file_stats[f] >= 1

\* Mutant: only the rounds of the manager count.
max_runs_reached_by_rounds == max_runs # -1 /\ num_run >= max_runs

\* Mutant: every file must have been processed more often.
max_runs_reached_exceeded ==
    /\ max_runs # -1
    /\ \A f \in Files : file_stats[f] # NoStat => file_stats[f] > max_runs
    /\ num_run >= max_runs

\* max_runs_reached
max_runs_reached ==
    /\ max_runs # -1
    /\ \A f \in Files : file_stats[f] # NoStat => file_stats[f] >= max_runs
    /\ num_run >= max_runs

\* The DagParsingStat at the end of a round.
send_stat ==
    /\ pc = IF async_mode THEN "send" ELSE "send_again"
    /\ simple_dags = {}
    /\ Room
    /\ conn' = Append(conn, Stat(file_paths, max_runs_reached, all_processed))
    /\ pc' = IF max_runs_reached THEN "exit" ELSE "poll"
    /\ UNCHANGED <<configVars, dirVars, agentVars, schedVars, heartbeats, listVars, num_run,
                   simple_dags, unparsed, procVars, faults>>

\* A Python process joins its children before it ends.
exit ==
    /\ pc = "exit"
    /\ Alive = {}
    /\ pc' = "gone"
    /\ UNCHANGED <<configVars, dirVars, agentVars, schedVars, pipeVars, listVars, num_run,
                   simple_dags, unparsed, procVars, faults>>

\* The manager is killed; nobody reads the results of its processors any more.
manager_killed ==
    /\ FaultLeft
    /\ faults' = faults + 1
    /\ pc # "gone"
    /\ pc' = "gone"
    /\ proc' = [f \in Files |-> "none"]
    /\ version' = [f \in Files |-> 0]
    /\ late' = {}
    /\ siblings' = [f \in Files |-> {}]
    /\ UNCHANGED <<configVars, dirVars, agentVars, schedVars, pipeVars, listVars, num_run,
                   simple_dags, unparsed>>
-----------------------------------------------------------------------------
(* The scheduler loop and the agent. *)

is_alive == pc # "gone"

\* The head of the loop with SQLite: the manager is told to run a round.
heartbeat ==
    /\ sched = "loop"
    /\ sched' = "wait"
    /\ IF is_alive THEN heartbeats < PipeSize /\ heartbeats' = heartbeats + 1
                   ELSE UNCHANGED heartbeats
    /\ UNCHANGED <<configVars, dirVars, agentVars, touched, deactivated, conn, managerVars,
                   procVars, faults>>

\* _process_message and _sync_metadata.
process_message(msg) ==
    IF msg.type = "stat"
    THEN /\ file_paths_known' = msg.file_paths
         /\ done' = msg.done
         /\ all_files_processed' = msg.all_files_processed
         /\ stat_received' = TRUE
         /\ UNCHANGED harvested
    ELSE /\ harvested' = [harvested EXCEPT ![msg.file] = msg.version]
         /\ UNCHANGED <<file_paths_known, done, all_files_processed, stat_received>>

\* wait_until_finished, until a stat, and harvest_simple_dags, receive what is there.
receive ==
    /\ sched \in {"wait", "harvest"}
    /\ conn # <<>>
    /\ process_message(Head(conn))
    /\ conn' = Tail(conn)
    /\ sched' = IF sched = "wait" /\ Head(conn).type = "stat" THEN "harvest" ELSE sched
    /\ UNCHANGED <<configVars, dirVars, touched, deactivated, heartbeats, managerVars, procVars, faults>>

\* poll() has no timeout: neither of the two waits.
nothing_to_receive ==
    /\ conn = <<>>
    /\ \/ sched = "wait" /\ sched' = "harvest"
       \/ sched = "harvest" /\ sched' = "alive"
    /\ UNCHANGED <<configVars, dirVars, agentVars, touched, deactivated, pipeVars, managerVars,
                   procVars, faults>>

\* Mutant: the exit of the manager is not noticed.
heartbeat_manager_never == UNCHANGED <<pipeVars, managerVars, procVars>>

\* _heartbeat_manager: a manager that is gone although it was not done is launched again,
\* with the files of the last stat and a new pipe.
heartbeat_manager ==
    IF is_alive \/ done THEN UNCHANGED <<pipeVars, managerVars, procVars>>
    ELSE NewManager(file_paths_known) /\ conn' = <<>> /\ heartbeats' = 0

\* The rest of the loop: the tasks of the DAGs harvested are sent to the executor, and
\* the loop goes on unless the manager is done or run_duration is over.
end_of_loop ==
    /\ sched = "alive"
    /\ ~done
    /\ heartbeat_manager
    /\ sched' = IF async_mode THEN "harvest" ELSE "loop"
    /\ UNCHANGED <<configVars, dirVars, agentVars, touched, deactivated, faults>>

\* The loop is left: processor_agent.terminate(), and deactivate_stale_dags if all files
\* were processed (every file had an active DAG before the scheduler was started).
leave_loop ==
    /\ sched = "alive"
    /\ heartbeat_manager
    /\ sched' = "end"
    /\ deactivated' = IF all_files_processed THEN Files \ touched ELSE {}
    /\ UNCHANGED <<configVars, dirVars, agentVars, touched, faults>>

\* processor_agent.end(): the process group of the manager is killed.
end ==
    /\ sched = "end"
    /\ sched' = "stopped"
    /\ pc' = "gone"
    /\ proc' = [f \in Files |-> "none"]
    /\ version' = [f \in Files |-> 0]
    /\ late' = {}
    /\ siblings' = [f \in Files |-> {}]
    /\ UNCHANGED <<configVars, dirVars, agentVars, touched, deactivated, pipeVars, listVars,
                   num_run, simple_dags, unparsed, faults>>
-----------------------------------------------------------------------------
\* A user writes or deletes a file.
edit(f, v) ==
    /\ edits < MaxEdits /\ EventLeft
    /\ edits' = edits + 1
    /\ f \in Edited /\ v # dir[f]
    /\ dir' = [dir EXCEPT ![f] = v]
    /\ UNCHANGED <<configVars, agentVars, schedVars, pipeVars, managerVars, procVars, faults>>

ProcessorStep(f) == read_file(f) \/ send_result(f)

Collect == \E ended \in SUBSET late : collect(ended)
Prepare == \E recent \in SUBSET { f \in Files : file_stats[f] >= 1 } : prepare_and_start(recent)
\* The same when the min_file_process_interval of f is over, whatever that of others.
PrepareFor(f) ==
    \E recent \in SUBSET { g \in Files \ {f} : file_stats[g] >= 1 } : prepare_and_start(recent)
ManagerStep ==
    \/ (\E due \in BOOLEAN : poll_and_refresh(due)) \/ terminate \/ Collect \/ Prepare
    \/ (\E r \in simple_dags : send(r)) \/ wait_until_finished \/ send_stat \/ exit

SchedulerStep ==
    \/ heartbeat \/ receive \/ nothing_to_receive \/ end_of_loop \/ (done /\ leave_loop) \/ end

Next ==
    \/ \E f \in Files : ProcessorStep(f) \/ time_out(f) \/ edit(f, 0) \/ edit(f, edits + 2)
    \/ \E f \in Files, o \in {"empty", "failed"} : fail(f, o)
    \/ ManagerStep \/ manager_killed
    \/ SchedulerStep \/ leave_loop

Spec == Init /\ [][Next]_vars

\* The processes run; a processor in time ends.  Intervals pass: the directory is
\* listed, and each file is old enough to be processed, again and again.
Fairness ==
    /\ \A f \in Files : WF_vars(f \notin late /\ ProcessorStep(f))
    /\ WF_vars(ManagerStep) /\ WF_vars(SchedulerStep)
    /\ SF_vars(poll_and_refresh(TRUE)) /\ \A f \in Files : SF_vars(PrepareFor(f))

FairSpec == Spec /\ Fairness
-----------------------------------------------------------------------------
(* Properties. *)

\* The bookkeeping that set_file_paths and prepare_file_path_queue rely on: a file is
\* queued or being processed but not both, is listed, and has its stat (popping a
\* missing one would end the manager); with a run limit it has a run left.
QueueConsistent ==
    /\ file_path_queue \cap Tracked = {}
    /\ \A f \in file_path_queue \cup Tracked :
         /\ f \in file_paths
         /\ file_stats[f] >= 0
         /\ max_runs # -1 => file_stats[f] < max_runs

\* When the scheduler takes the manager for done ("whether all file paths have been
\* processed max_runs times"), no processor is left and every file listed has been
\* processed as often as asked, except that with SQLite a file may have been listed when
\* the queue of the others was not empty yet and have no stat: all_files_processed tells.
DoneMeansProcessed ==
    LET never == { f \in file_paths_known : file_stats[f] = NoStat }
    IN  done => /\ Alive = {}
                /\ \A f \in file_paths_known \ never : file_stats[f] >= max_runs
                /\ all_files_processed <=> never = {}
                /\ async_mode => never = {}

\* After at least one report of its manager, the scheduler deactivates no DAG of a
\* listed file, except one whose processing ended without a DAG.
DeactivatedIsGone == stat_received => deactivated \cap file_paths_known \subseteq unparsed

\* With SQLite there is no timeout for a processor that hangs, and the two ends block
\* each other when both directions of the pipe are full.
Stuck ==
    /\ ~async_mode
    /\ \/ late # {}
       \/ sched = "loop" /\ heartbeats = PipeSize /\ Len(conn) = PipeSize

\* What is written to the directory reaches the scheduler, in spite of processors that
\* fail or hang, of deleted files and a manager that is killed, as long as the scheduler
\* runs without a run limit (with SQLite, hanging processors excepted).
EditIsSeen ==
    \A f \in Files : []<>(\/ max_runs # -1 \/ Stuck
                          \/ ~Looping
                          \/ dir[f] \in {0, harvested[f]})

\* The manager has sent its last results and ended after the agent has looked for
\* messages and before it looks for the process: it is launched again.
Missed == sched = "alive" /\ ~is_alive /\ conn # <<>>

\* With a run limit the scheduler ends, unless the count of a file that has been deleted
\* keeps the limit from being reached, or the agent misses the last stat every time.
SchedulerEnds ==
    []<>(\/ max_runs = -1 \/ Stuck \/ Missed \/ sched = "stopped"
         \/ \E f \in Files \ file_paths : file_stats[f] \in 0..(max_runs - 1))
=============================================================================
