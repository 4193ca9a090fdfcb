-------------------- MODULE DagFileProcessorManagerProofs --------------------
(***************************************************************************)
(* Proofs about DagFileProcessorManager.tla for any set of files, any run  *)
(* limit and parallelism, pipes of any size and any number of changes to   *)
(* the directory and faults.                                               *)
(***************************************************************************)
EXTENDS DagFileProcessorManager, TLAPS

(***************************************************************************)
(* The parts of the inductive invariant.                                   *)
(***************************************************************************)

\* The messages on their way to the agent.
Sent == { conn[i] : i \in 1..Len(conn) }
Stats == { m \in Sent : m.type = "stat" }

\* A round that has no limit for its processors but their number queues every file that
\* has no stat, or has others to process.
NewIsQueued ==
    (async_mode /\ pc = "send" /\ \E f \in file_paths : file_stats[f] = NoStat)
        => file_path_queue \cup Tracked # {}

\* The manager has ended by itself, with the files fs listed and a for all_files_processed.
Complete(fs, a) ==
    LET never == { f \in fs : file_stats[f] = NoStat }
    IN  /\ pc \in {"exit", "gone"}
        /\ Alive = {}
        /\ \A f \in fs \ never : file_stats[f] >= max_runs
        /\ a <=> never = {}
        /\ async_mode => never = {}

\* Nobody says "done" of a manager that is not, whether the agent has heard it or not.
DoneIsTrue ==
    /\ done => Complete(file_paths_known, all_files_processed)
    /\ \A m \in Stats : m.done => Complete(m.file_paths, m.all_files_processed)

\* A file that has been counted has been read, or its processing ended without a DAG.
CountedIsSeen == \A f \in Files : file_stats[f] >= 1 => f \in touched \cup unparsed

\* And so have all files of a stat that says so, of this manager or of one before it.
AllProcessedIsTrue ==
    /\ stat_received /\ all_files_processed => file_paths_known \subseteq touched \cup unparsed
    /\ \A m \in Stats : m.all_files_processed => m.file_paths \subseteq touched \cup unparsed

DeactivatedAtEnd == deactivated # {} => sched \in {"end", "stopped"}

Inv ==
    /\ TypeOK /\ QueueConsistent
    /\ NewIsQueued /\ DoneIsTrue
    /\ CountedIsSeen /\ AllProcessedIsTrue /\ DeactivatedAtEnd /\ DeactivatedIsGone

-----------------------------------------------------------------------------
(* Numbers and messages. *)

\* max_runs is -1 (no limit) or positive.
LEMMA LimitFact ==
    ASSUME max_runs \in MaxRuns
    PROVE  /\ max_runs \in Int
           /\ max_runs = -1 => Max({1, max_runs}) = 1
           /\ max_runs # -1 => max_runs >= 1 /\ Max({1, max_runs}) = max_runs
<1>1. max_runs \in Int /\ (max_runs = -1 \/ max_runs >= 1)
    BY ConstantsAssumption
<1>2. ASSUME NEW a \in {1, max_runs}, \A y \in {1, max_runs} : a >= y
      PROVE  Max({1, max_runs}) = a
    BY <1>1, <1>2 DEF Max
<1> QED
    BY <1>1, <1>2

\* What is known of the numbers of a file.
LEMMA StatFact ==
    ASSUME TypeOK, NEW f \in Files
    PROVE  /\ file_stats[f] \in Int /\ NoStat <= file_stats[f] /\ NoStat = -1
           /\ max_runs = -1 => file_stats[f] <= 1
           /\ max_runs # -1 => file_stats[f] <= max_runs
<1>1. max_runs \in MaxRuns /\ file_stats[f] \in NoStat..Max({1, max_runs})
    BY DEF TypeOK
<1> QED
    BY <1>1, LimitFact DEF NoStat

\* Sending a message adds it to what is in the pipe, which has room.
LEMMA AppendFact ==
    ASSUME TypeOK, NEW m \in Messages, Room, conn' = Append(conn, m)
    PROVE  /\ conn' \in Seq(Messages) /\ Len(conn') <= PipeSize
           /\ Sent' = Sent \cup {m}
<1>1. conn \in Seq(Messages) /\ Len(conn) \in Nat
    BY DEF TypeOK
<1>2. conn' \in Seq(Messages) /\ Len(conn') = Len(conn) + 1
    BY <1>1
<1>3. Len(conn') <= PipeSize
    BY <1>1, <1>2, ConstantsAssumption DEF Room
<1>4. /\ \A i \in 1..Len(conn) : conn'[i] = conn[i]
      /\ conn'[Len(conn) + 1] = m
    BY <1>1
<1>5. 1..(Len(conn) + 1) = (1..Len(conn)) \cup {Len(conn) + 1}
    BY <1>1
<1>6. Sent' = { conn'[i] : i \in (1..Len(conn)) \cup {Len(conn) + 1} }
    BY <1>2, <1>5 DEF Sent
<1>7. Sent' = Sent \cup {m}
    BY <1>4, <1>6 DEF Sent
<1> QED
    BY <1>2, <1>3, <1>7

\* Receiving one takes it from what is in the pipe.
LEMMA ReceiveFact ==
    ASSUME TypeOK, conn # <<>>
    PROVE  /\ Head(conn) \in Sent /\ Head(conn) \in Messages
           /\ Tail(conn) \in Seq(Messages) /\ Len(Tail(conn)) <= PipeSize
           /\ \A i \in 1..Len(Tail(conn)) : Tail(conn)[i] \in Sent
<1>1. conn \in Seq(Messages) /\ Len(conn) <= PipeSize
    BY DEF TypeOK
<1>2. Len(conn) \in Nat /\ Len(conn) > 0
    BY <1>1
<1>3. Head(conn) = conn[1] /\ conn[1] \in Messages
    BY <1>1, <1>2
<1>4. Head(conn) \in Sent
    BY <1>2, <1>3 DEF Sent
<1>5. /\ Tail(conn) \in Seq(Messages) /\ Len(Tail(conn)) = Len(conn) - 1
      /\ \A i \in 1..Len(Tail(conn)) : Tail(conn)[i] = conn[i + 1]
    BY <1>1, <1>2
<1>6. \A i \in 1..Len(Tail(conn)) : i + 1 \in 1..Len(conn)
    BY <1>2, <1>5
<1> QED
    BY <1>1, <1>2, <1>3, <1>4, <1>5, <1>6, ConstantsAssumption DEF Sent
-----------------------------------------------------------------------------
(* TypeOK and QueueConsistent, which need each other. *)

Books == TypeOK /\ QueueConsistent

\* The books are in order at the start.
LEMMA InitBooks == Init => Books
<1> SUFFICES ASSUME Init PROVE Books
  OBVIOUS
<1>1. /\ PipeSize \in Nat /\ MaxEdits \in Nat /\ MaxFaults \in Nat
      /\ 0 \in Versions /\ 1 \in Versions
    BY ConstantsAssumption DEF Versions
<1>2. max_runs \in MaxRuns
    BY DEF Init
<1>3. NoStat \in NoStat..Max({1, max_runs})
    BY <1>2, LimitFact DEF NoStat
<1>4. /\ conn \in Seq(Messages) /\ Len(conn) <= PipeSize
      /\ heartbeats \in 0..PipeSize /\ edits \in 0..MaxEdits /\ faults \in 0..MaxFaults
      /\ num_run \in Nat
  <2>1. conn = <<>> /\ heartbeats = 0 /\ edits = 0 /\ faults = 0 /\ num_run = 0
      BY DEF Init
  <2> QED
      BY <1>1, <2>1
<1>5. dir \in [Files -> Versions]
    BY <1>1 DEF Init
<1>6. TypeOK
    BY <1>1, <1>2, <1>3, <1>4, <1>5 DEF Init, TypeOK, Listing
<1>7. Tracked = {} /\ file_path_queue = {}
    BY DEF Init, Tracked
<1> QED
    BY <1>6, <1>7 DEF Books, QueueConsistent

\* Events are counted.
LEMMA FaultFact ==
    ASSUME TypeOK, FaultLeft, faults' = faults + 1
    PROVE  faults' \in 0..MaxFaults
<1>1. faults \in 0..MaxFaults /\ faults < MaxFaults
    BY DEF TypeOK, FaultLeft
<1> QED
    BY <1>1, ConstantsAssumption

\* Processors that only go on leave the queue as it is.
LEMMA ProcessorBooks ==
    ASSUME Books, NEW f \in Files, NEW o \in {"empty", "failed"},
           read_file(f) \/ send_result(f) \/ time_out(f) \/ fail(f, o)
    PROVE  Books'
<1> USE DEF Books
<1>1. faults' \in 0..MaxFaults
  <2>1. CASE faults' = faults
      BY <2>1 DEF TypeOK
  <2>2. CASE faults' # faults
      BY <2>2, FaultFact DEF read_file, send_result, time_out, fail
  <2> QED
      BY <2>1, <2>2
<1>2. /\ proc' \in [Files -> {"none"} \cup Working \cup Finished]
      /\ Tracked' = Tracked
      /\ late' \in SUBSET Alive'
    BY DEF TypeOK, Tracked, Alive, Working, Finished, read_file, send_result, time_out, fail
<1>3. /\ version' \in [Files -> Versions] /\ touched' \in SUBSET Files
    BY DEF TypeOK, read_file, send_result, time_out, fail, schedVars
<1>4. UNCHANGED <<configVars, dirVars, agentVars, sched, deactivated, pipeVars, managerVars, siblings>>
    BY DEF read_file, send_result, time_out, fail, schedVars
<1>5. TypeOK'
    BY <1>1, <1>2, <1>3, <1>4 DEF TypeOK, configVars, dirVars, agentVars, pipeVars, managerVars,
       listVars, Versions, Messages
<1>6. QueueConsistent'
    BY <1>2, <1>4 DEF QueueConsistent, configVars, managerVars, listVars
<1> QED
    BY <1>5, <1>6

\* A step that touches neither the processors nor what the manager lists, but for the
\* processors that are forgotten or told to stop.
LEMMA OthersBooks ==
    ASSUME Books, UNCHANGED <<configVars, listVars>>,
           proc' \in [Files -> {"none"} \cup Working \cup Finished],
           Tracked' \subseteq Tracked, late' \in SUBSET Alive',
           TypeOK'
    PROVE  Books'
BY DEF Books, QueueConsistent, configVars, listVars

\* terminate stops the processors that react to SIGTERM.
LEMMA TerminateBooks ==
    ASSUME Books, terminate
    PROVE  Books'
<1> USE DEF terminate
<1>1. TypeOK
    BY DEF Books
<1>2. PICK stopped \in SUBSET late :
        proc' = [f \in Files |-> IF f \in (Alive \ late) \cup stopped THEN "stopped" ELSE proc[f]]
    OBVIOUS
<1>3. /\ proc' \in [Files -> {"none"} \cup Working \cup Finished]
      /\ Tracked' \subseteq Tracked
    BY <1>1, <1>2 DEF TypeOK, Tracked, Alive, Working, Finished
<1>4. late' \in SUBSET Alive'
    BY <1>1 DEF TypeOK, Alive
<1>5. TypeOK'
    BY <1>1, <1>3, <1>4 DEF TypeOK, configVars, dirVars, agentVars, schedVars, pipeVars,
       listVars, Versions, Messages
<1> QED
    BY <1>3, <1>4, <1>5, OthersBooks

\* set_file_paths forgets the processors of the files that are gone with their stats.
LEMMA RefreshBooks ==
    ASSUME Books, NEW due \in BOOLEAN, poll_and_refresh(due)
    PROVE  Books'
<1> USE DEF poll_and_refresh
<1>1. TypeOK /\ QueueConsistent
    BY DEF Books
<1>2. heartbeats' \in 0..PipeSize
  <2>1. heartbeats \in 0..PipeSize
      BY <1>1 DEF TypeOK
  <2>2. heartbeats' = heartbeats \/ (heartbeats > 0 /\ heartbeats' = heartbeats - 1)
      OBVIOUS
  <2> QED
      BY <2>1, <2>2, ConstantsAssumption
<1>3. CASE due
  <2>1. PICK stopping \in SUBSET late : set_file_paths(Listing, stopping)
      BY <1>3
  <2> DEFINE deleted == Tracked \ Listing
             reacting == (Alive \ late) \cup stopping
             signalled == UNION { siblings[f] : f \in deleted \cap reacting }
             stopped == (signalled \ deleted) \cap reacting
  <2>2. /\ file_paths' = Listing /\ file_path_queue' = file_path_queue \cap Listing
        /\ file_stats' = [f \in Files |-> IF f \in deleted THEN NoStat ELSE file_stats[f]]
        /\ proc' = [f \in Files |-> IF f \in deleted THEN "none"
                                    ELSE IF f \in stopped THEN "stopped" ELSE proc[f]]
        /\ version' = [f \in Files |-> IF f \in deleted \cup stopped THEN 0 ELSE version[f]]
        /\ late' = late \ (deleted \cup stopped)
        /\ siblings' = [f \in Files |-> IF f \in deleted THEN {} ELSE siblings[f] \ deleted]
      BY <2>1 DEF set_file_paths
  <2>3. stopped \subseteq Tracked /\ Listing \in SUBSET Files /\ deleted \subseteq Tracked
      BY <1>1 DEF TypeOK, Tracked, Alive, Listing, Working
  <2> HIDE DEF stopped
  <2>4. /\ proc' \in [Files -> {"none"} \cup Working \cup Finished]
        /\ Tracked' = Tracked \cap Listing
      BY <1>1, <2>2, <2>3 DEF TypeOK, Tracked, Finished
  <2>5. late' \in SUBSET Alive'
      BY <1>1, <2>2 DEF TypeOK, Alive
  <2>6. 0 \in Versions /\ NoStat \in NoStat..Max({1, max_runs})
      BY <1>1, LimitFact, ConstantsAssumption DEF Versions, NoStat, TypeOK
  <2>7. /\ file_stats' \in [Files -> NoStat..Max({1, max_runs})]
        /\ version' \in [Files -> Versions] /\ siblings' \in [Files -> SUBSET Files]
      BY <1>1, <2>2, <2>6 DEF TypeOK
  <2>8. TypeOK'
      BY <1>1, <1>2, <2>2, <2>3, <2>4, <2>5, <2>7 DEF TypeOK, configVars, dirVars, agentVars,
         schedVars, Versions, Messages
  <2>9. QueueConsistent'
    <3>1. \A f \in file_path_queue' \cup Tracked' :
             f \in file_path_queue \cup Tracked /\ f \in Listing /\ file_stats'[f] = file_stats[f]
        BY <1>1, <2>2, <2>3, <2>4 DEF TypeOK, QueueConsistent
    <3> QED
        BY <1>1, <2>2, <2>4, <3>1 DEF QueueConsistent, configVars
  <2> QED
      BY <2>8, <2>9 DEF Books
<1>4. CASE ~due
  <2>1. UNCHANGED <<listVars, procVars>>
      BY <1>4
  <2>2. TypeOK'
      BY <1>1, <1>2, <2>1 DEF TypeOK, configVars, dirVars, agentVars, schedVars, listVars,
         procVars, Versions, Messages, Alive
  <2> QED
      BY <1>1, <2>1, <2>2 DEF Books, QueueConsistent, configVars, listVars, procVars, Tracked
<1> QED
    BY <1>3, <1>4

\* A file is counted when its processor is done: it had a run left.
LEMMA CollectBooks ==
    ASSUME Books, NEW ended \in SUBSET late, collect(ended)
    PROVE  Books'
<1> USE DEF collect
<1>1. TypeOK /\ QueueConsistent
    BY DEF Books
<1> DEFINE finished == { f \in Files : proc[f] \in Finished } \cup ended
<1>2. /\ proc' = [f \in Files |-> IF f \in finished THEN "none"
                                  ELSE IF f \in late THEN "killed" ELSE proc[f]]
      /\ version' = [f \in Files |-> IF f \in finished \cup late THEN 0 ELSE version[f]]
      /\ late' = {}
      /\ siblings' = [f \in Files |-> IF f \in finished THEN {} ELSE siblings[f] \ finished]
      /\ file_stats' = [f \in Files |-> IF f \in finished THEN next_run_count(f) ELSE file_stats[f]]
      /\ simple_dags' = { <<f, version[f]>> : f \in { g \in finished : proc[g] = "sent" } }
      /\ unparsed' = unparsed \cup (finished \ touched)
    BY DEF collect_results
<1>3. finished \subseteq Tracked /\ late \subseteq Tracked /\ Tracked \subseteq Files
    BY <1>1 DEF TypeOK, Tracked, Alive, Working, Finished
<1> HIDE DEF finished
<1>4. /\ proc' \in [Files -> {"none"} \cup Working \cup Finished]
      /\ Tracked' = Tracked \ finished
    BY <1>1, <1>2, <1>3 DEF TypeOK, Tracked, Finished
<1>5. \A f \in Tracked : next_run_count(f) \in NoStat..Max({1, max_runs})
  <2> TAKE f \in Tracked
  <2>1. f \in Files /\ max_runs \in MaxRuns
      BY <1>1, <1>3 DEF TypeOK
  <2>2. file_stats[f] >= 0 /\ (max_runs # -1 => file_stats[f] < max_runs) /\ file_stats[f] \in Int
      BY <1>1, <2>1, StatFact DEF QueueConsistent
  <2>3. next_run_count(f) = 1 \/ (max_runs # -1 /\ next_run_count(f) = file_stats[f] + 1)
      BY DEF next_run_count
  <2> QED
      BY <2>1, <2>2, <2>3, LimitFact DEF NoStat
<1>6. /\ file_stats' \in [Files -> NoStat..Max({1, max_runs})]
      /\ siblings' \in [Files -> SUBSET Files]
    BY <1>1, <1>2, <1>3, <1>5 DEF TypeOK
<1>7. 0 \in Versions
    BY ConstantsAssumption DEF Versions
<1>8. version' \in [Files -> Versions] /\ simple_dags' \in SUBSET (Files \X Versions)
    BY <1>1, <1>2, <1>3, <1>7 DEF TypeOK
<1>9. TypeOK'
    BY <1>1, <1>2, <1>3, <1>4, <1>6, <1>8 DEF TypeOK, configVars, dirVars, agentVars, schedVars,
       pipeVars, Versions, Messages
<1>10. QueueConsistent'
  <2>1. \A f \in file_path_queue' \cup Tracked' :
           f \in file_path_queue \cup Tracked /\ file_stats'[f] = file_stats[f]
      BY <1>1, <1>2, <1>3, <1>4 DEF TypeOK, QueueConsistent
  <2> QED
      BY <1>1, <1>4, <2>1 DEF QueueConsistent, configVars
<1> QED
    BY <1>9, <1>10 DEF Books

\* What prepare_and_start makes of the queue, and what it starts.
LEMMA StartFact ==
    ASSUME NEW recent, prepare_and_start(recent)
    PROVE  LET queue == IF file_path_queue = {} THEN to_queue(recent) ELSE file_path_queue
           IN  \E new \in SUBSET queue :
                 /\ file_path_queue' = queue \ new
                 /\ proc' = [f \in Files |-> IF f \in new THEN "started" ELSE proc[f]]
                 /\ siblings' \in [Files -> SUBSET (queue \cup Tracked \cup UNION { siblings[f] : f \in Files })]
<1> DEFINE queue == IF file_path_queue = {} THEN to_queue(recent) ELSE file_path_queue
           n == Min({Cardinality(queue), Max({parallelism - Cardinality(Tracked), 0})})
<1>1. PICK order \in [1..n -> queue] :
           LET before(f) == { g \in queue : \E i, j \in 1..n : i < j /\ order[i] = g /\ order[j] = f }
               new == { order[i] : i \in 1..n }
           IN  /\ file_path_queue' = queue \ new
               /\ proc' = [f \in Files |-> IF f \in new THEN "started" ELSE proc[f]]
               /\ siblings' = [f \in Files |-> IF f \in new THEN Tracked \cup before(f) ELSE siblings[f]]
    BY DEF prepare_and_start
<1> HIDE DEF queue, n
<1>2. { order[i] : i \in 1..n } \in SUBSET queue
    BY <1>1
<1>3. \E new \in SUBSET queue :
        /\ file_path_queue' = queue \ new
        /\ proc' = [f \in Files |-> IF f \in new THEN "started" ELSE proc[f]]
        /\ siblings' \in [Files -> SUBSET (queue \cup Tracked \cup UNION { siblings[f] : f \in Files })]
    BY <1>1, <1>2
<1> QED
    BY <1>3 DEF queue

\* Only files that are listed, not in progress and not at their limit are queued.
LEMMA PrepareBooks ==
    ASSUME Books, NEW recent, prepare_and_start(recent)
    PROVE  Books'
<1>1. TypeOK /\ QueueConsistent
    BY DEF Books
<1> DEFINE queue == IF file_path_queue = {} THEN to_queue(recent) ELSE file_path_queue
<1>2. PICK new \in SUBSET queue :
        /\ file_path_queue' = queue \ new
        /\ proc' = [f \in Files |-> IF f \in new THEN "started" ELSE proc[f]]
        /\ siblings' \in [Files -> SUBSET (queue \cup Tracked \cup UNION { siblings[f] : f \in Files })]
    BY StartFact
<1>3. /\ file_stats' = [f \in Files |-> IF f \in queue /\ file_stats[f] = NoStat THEN 0 ELSE file_stats[f]]
      /\ num_run' = IF num_run < max_runs THEN num_run + 1 ELSE num_run
      /\ pc' = "send"
      /\ UNCHANGED <<configVars, dirVars, agentVars, schedVars, pipeVars, file_paths,
                     simple_dags, unparsed, version, late, faults>>
    BY DEF prepare_and_start
<1>4. /\ queue \cap Tracked = {} /\ queue \subseteq file_paths /\ queue \subseteq Files
      /\ \A f \in queue : file_stats[f] = NoStat \/ file_stats[f] >= 0
      /\ \A f \in queue : max_runs # -1 => file_stats[f] < max_runs
  <2>1. max_runs \in MaxRuns /\ file_paths \subseteq Files
      BY <1>1 DEF TypeOK
  <2>2. \A f \in Files : /\ file_stats[f] = NoStat \/ file_stats[f] >= 0
                         /\ file_stats[f] \in Int /\ NoStat = -1
                         /\ max_runs # -1 => file_stats[f] <= max_runs /\ max_runs >= 1 /\ max_runs \in Int
      BY <1>1, <2>1, StatFact, LimitFact
  <2>3. CASE file_path_queue = {}
    <3>1. queue \subseteq { f \in file_paths \ Tracked : file_stats[f] = NoStat \/ file_stats[f] # max_runs }
        BY <2>3 DEF to_queue
    <3> HIDE DEF queue
    <3> QED
        BY <2>1, <2>2, <3>1
  <2>4. CASE file_path_queue # {}
    <3>1. queue = file_path_queue
        BY <2>4
    <3> HIDE DEF queue
    <3> QED
        BY <1>1, <2>1, <2>2, <3>1 DEF QueueConsistent
  <2> QED
      BY <2>3, <2>4
<1> HIDE DEF queue
<1>5. /\ proc' \in [Files -> {"none"} \cup Working \cup Finished]
      /\ Tracked' = Tracked \cup new
    BY <1>1, <1>2, <1>4 DEF TypeOK, Tracked, Working
<1>6. late' \in SUBSET Alive'
  <2>1. Alive \subseteq Alive'
      BY <1>1, <1>2 DEF TypeOK, Alive, Working
  <2> QED
      BY <1>1, <1>3, <2>1 DEF TypeOK
<1>7. siblings' \in [Files -> SUBSET Files]
    BY <1>1, <1>2, <1>4 DEF TypeOK, Tracked
<1>8. file_stats' \in [Files -> NoStat..Max({1, max_runs})] /\ num_run' \in Nat
  <2>1. 0 \in NoStat..Max({1, max_runs})
      BY <1>1, LimitFact DEF NoStat, TypeOK
  <2>2. file_stats' \in [Files -> NoStat..Max({1, max_runs})]
      BY <1>1, <1>3, <2>1 DEF TypeOK
  <2>3. num_run \in Nat
      BY <1>1 DEF TypeOK
  <2> QED
      BY <1>3, <2>2, <2>3
<1>9. TypeOK'
    BY <1>1, <1>2, <1>3, <1>4, <1>5, <1>6, <1>7, <1>8 DEF TypeOK, configVars, dirVars, agentVars,
       schedVars, pipeVars, Versions, Messages
<1>10. QueueConsistent'
  <2>1. file_path_queue' \cap Tracked' = {}
      BY <1>2, <1>4, <1>5
  <2>2. ASSUME NEW f \in file_path_queue' \cup Tracked'
        PROVE  /\ f \in file_paths /\ file_stats'[f] >= 0
               /\ max_runs # -1 => file_stats'[f] < max_runs
    <3>1. CASE f \in queue
      <4>1. file_stats'[f] = IF file_stats[f] = NoStat THEN 0 ELSE file_stats[f]
          BY <1>3, <1>4, <3>1
      <4>2. max_runs \in MaxRuns
          BY <1>1 DEF TypeOK
      <4> QED
          BY <1>4, <3>1, <4>1, <4>2, LimitFact
    <3>2. CASE f \notin queue
      <4>1. f \in Tracked /\ f \in Files
          BY <1>2, <1>5, <2>2, <3>2 DEF Tracked
      <4> QED
          BY <1>1, <1>3, <3>2, <4>1 DEF QueueConsistent
    <3> QED
        BY <3>1, <3>2
  <2> QED
      BY <1>3, <2>1, <2>2 DEF QueueConsistent, configVars
<1> QED
    BY <1>9, <1>10 DEF Books

\* A new manager has nothing in its books.
LEMMA NewManagerBooks ==
    ASSUME Books, NewManager(file_paths_known), conn' = <<>>, heartbeats' = 0,
           UNCHANGED <<configVars, dirVars, agentVars, touched, faults>>,
           sched' \in {"loop", "harvest", "end"}, deactivated' \in SUBSET Files
    PROVE  Books'
<1> USE DEF NewManager
<1>1. TypeOK
    BY DEF Books
<1>2. Tracked' = {} /\ file_path_queue' = {}
    BY DEF Tracked
<1>3. 0 \in Versions /\ 0 \in 0..PipeSize /\ NoStat \in NoStat..Max({1, max_runs}) /\ 0 \in Nat
    BY <1>1, LimitFact, ConstantsAssumption DEF Versions, NoStat, TypeOK
<1>4. conn' \in Seq(Messages) /\ Len(conn') <= PipeSize
    BY ConstantsAssumption
<1>5. TypeOK'
    BY <1>1, <1>3, <1>4 DEF TypeOK, configVars, dirVars, agentVars, Versions, Messages
<1> QED
    BY <1>2, <1>5 DEF Books, QueueConsistent

\* The scheduler, users, and what the manager does without its books.
LEMMA SendBooks ==
    ASSUME Books, send_stat \/ \E r \in simple_dags : send(r)
    PROVE  Books'
<1>1. TypeOK
    BY DEF Books
<1>2. PICK m \in Messages : conn' = Append(conn, m) /\ Room
  <2>1. CASE send_stat
    <3> DEFINE a == max_runs_reached
               b == all_processed
    <3>1. a \in BOOLEAN /\ b \in BOOLEAN
        BY DEF max_runs_reached, all_processed
    <3>2. conn' = Append(conn, Stat(file_paths, a, b)) /\ Room
        BY <2>1 DEF send_stat
    <3> HIDE DEF a, b
    <3>3. Stat(file_paths, a, b) \in Messages
        BY <1>1, <3>1 DEF TypeOK, Stat, Messages
    <3> QED
        BY <3>2, <3>3
  <2>2. CASE \E r \in simple_dags : send(r)
    <3>1. PICK r \in simple_dags : send(r)
        BY <2>2
    <3>2. Dags(r[1], r[2]) \in Messages
        BY <1>1 DEF TypeOK, Dags, Messages
    <3> QED
        BY <3>1, <3>2 DEF send
  <2> QED
      BY <2>1, <2>2
<1>3. conn' \in Seq(Messages) /\ Len(conn') <= PipeSize
    BY <1>1, <1>2, AppendFact
<1>4. /\ pc' \in {"send", "send_again", "exit", "poll"}
      /\ simple_dags' \in SUBSET simple_dags
      /\ UNCHANGED <<configVars, dirVars, agentVars, schedVars, heartbeats, listVars, num_run,
                     unparsed, procVars, faults>>
    BY DEF send, send_stat
<1>5. TypeOK'
    BY <1>1, <1>3, <1>4 DEF TypeOK, configVars, dirVars, agentVars, schedVars, listVars, procVars,
       Versions, Messages, Alive
<1> QED
    BY <1>4, <1>5 DEF Books, QueueConsistent, configVars, listVars, procVars, Tracked

\* The fields of a message have their types.
LEMMA MessageFact ==
    ASSUME NEW m \in Messages
    PROVE  /\ m.type = "stat" => m.file_paths \in SUBSET Files /\ m.done \in BOOLEAN /\ m.all_files_processed \in BOOLEAN
           /\ m.type # "stat" => m.file \in Files /\ m.version \in Versions
BY DEF Messages

\* The agent's memory is what the message said.
LEMMA ReceiveBooks ==
    ASSUME Books, receive
    PROVE  Books'
<1> USE DEF receive
<1>1. TypeOK
    BY DEF Books
<1>2. conn' \in Seq(Messages) /\ Len(conn') <= PipeSize
    BY <1>1, ReceiveFact
<1>3. PICK m \in Messages : m = Head(conn)
    BY <1>1, ReceiveFact
<1>4. /\ file_paths_known' \in SUBSET Files
      /\ done' \in BOOLEAN /\ all_files_processed' \in BOOLEAN /\ stat_received' \in BOOLEAN
      /\ harvested' \in [Files -> Versions]
  <2>1. process_message(m)
      BY <1>3
  <2> QED
      BY <1>1, <2>1, MessageFact DEF process_message, TypeOK
<1>5. TypeOK'
    BY <1>1, <1>2, <1>4 DEF TypeOK, configVars, dirVars, managerVars, listVars, procVars,
       Versions, Messages, Alive
<1> QED
    BY <1>5 DEF Books, QueueConsistent, configVars, managerVars, listVars, procVars, Tracked

\* A file that comes, changes or goes is in the books at the next listing only.
LEMMA EditBooks ==
    ASSUME Books, NEW f \in Files, edit(f, 0) \/ edit(f, edits + 2)
    PROVE  Books'
<1>1. TypeOK
    BY DEF Books
<1>2. edits' \in 0..MaxEdits /\ 0 \in Versions /\ edits + 2 \in Versions
  <2>1. edits \in 0..MaxEdits /\ edits < MaxEdits /\ edits' = edits + 1
      BY <1>1 DEF TypeOK, edit
  <2> QED
      BY <2>1, ConstantsAssumption DEF Versions
<1>3. PICK v \in Versions : edit(f, v)
    BY <1>2
<1>4. dir' \in [Files -> Versions]
    BY <1>1, <1>3 DEF TypeOK, edit
<1>5. UNCHANGED <<configVars, agentVars, schedVars, pipeVars, managerVars, procVars, faults>>
    BY <1>3 DEF edit
<1>6. TypeOK'
    BY <1>1, <1>2, <1>4, <1>5 DEF TypeOK, configVars, agentVars, schedVars, pipeVars, managerVars,
       listVars, procVars, Versions, Messages, Alive
<1> QED
    BY <1>5, <1>6 DEF Books, QueueConsistent, configVars, managerVars, listVars, procVars, Tracked

\* A manager that dies takes its books with it; the pipe keeps what was sent.
LEMMA KilledBooks ==
    ASSUME Books, manager_killed \/ end
    PROVE  Books'
<1>1. TypeOK
    BY DEF Books
<1>2. faults' \in 0..MaxFaults
  <2>1. CASE manager_killed
      BY <1>1, <2>1, FaultFact DEF manager_killed
  <2>2. CASE end
      BY <1>1, <2>2 DEF end, TypeOK
  <2> QED
      BY <2>1, <2>2
<1>3. /\ proc' = [f \in Files |-> "none"] /\ version' = [f \in Files |-> 0]
      /\ late' = {} /\ siblings' = [f \in Files |-> {}]
      /\ pc' = "gone" /\ sched' \in {sched, "stopped"}
      /\ UNCHANGED <<configVars, dirVars, agentVars, touched, deactivated, pipeVars, listVars,
                     num_run, simple_dags, unparsed>>
    BY DEF manager_killed, end, schedVars
<1>4. Tracked' = {} /\ 0 \in Versions
    BY <1>3, ConstantsAssumption DEF Tracked, Versions
<1>5. TypeOK'
    BY <1>1, <1>2, <1>3, <1>4 DEF TypeOK, configVars, dirVars, agentVars, pipeVars, listVars,
       Versions, Messages
<1> QED
    BY <1>3, <1>4, <1>5, OthersBooks DEF TypeOK, Books

\* Steps that leave the books alone.
LEMMA QuietBooks ==
    ASSUME Books, wait_until_finished \/ exit \/ heartbeat \/ nothing_to_receive \/ UNCHANGED vars
    PROVE  Books'
<1>1. TypeOK
    BY DEF Books
<1>2. heartbeats' \in 0..PipeSize
  <2>1. heartbeats \in 0..PipeSize
      BY <1>1 DEF TypeOK
  <2>2. heartbeats' = heartbeats \/ (heartbeats < PipeSize /\ heartbeats' = heartbeats + 1)
      BY DEF wait_until_finished, exit, heartbeat, nothing_to_receive, vars, pipeVars
  <2> QED
      BY <2>1, <2>2, ConstantsAssumption
<1>3. /\ pc' \in {pc, "wait", "gone"} /\ sched' \in {sched, "wait", "harvest", "alive"}
      /\ UNCHANGED <<configVars, dirVars, agentVars, touched, deactivated, conn, listVars, num_run,
                     simple_dags, unparsed, procVars, faults>>
    BY DEF wait_until_finished, exit, heartbeat, nothing_to_receive, vars, schedVars, pipeVars,
       managerVars
<1>4. TypeOK'
  <2>1. /\ pc' \in {"poll", "collect", "start", "send", "wait", "send_again", "exit", "gone"}
        /\ sched' \in {"loop", "wait", "harvest", "alive", "end", "stopped"}
      BY <1>1, <1>3 DEF TypeOK
  <2>2. UNCHANGED <<Alive, Messages, Versions>>
      BY <1>3 DEF procVars, Alive, Messages, Versions
  <2> QED
      BY <1>1, <1>2, <1>3, <2>1, <2>2 DEF TypeOK, configVars, dirVars, agentVars, listVars, procVars
<1> QED
    BY <1>3, <1>4 DEF Books, QueueConsistent, configVars, listVars, procVars, Tracked

\* The end of a round of the manager's loop.
LEMMA LoopBooks ==
    ASSUME Books, end_of_loop \/ leave_loop
    PROVE  Books'
<1>1. TypeOK
    BY DEF Books
<1>2. /\ sched' \in {"loop", "harvest", "end"} /\ deactivated' \in SUBSET Files
      /\ UNCHANGED <<configVars, dirVars, agentVars, touched, faults>>
    BY <1>1 DEF end_of_loop, leave_loop, TypeOK
<1>3. CASE UNCHANGED <<pipeVars, managerVars, procVars>>
  <2>1. TypeOK'
      BY <1>1, <1>2, <1>3 DEF TypeOK, configVars, dirVars, agentVars, pipeVars, managerVars,
         listVars, procVars, Versions, Messages, Alive
  <2> QED
      BY <1>2, <1>3, <2>1 DEF Books, QueueConsistent, configVars, managerVars, listVars, procVars,
         Tracked
<1>4. CASE NewManager(file_paths_known) /\ conn' = <<>> /\ heartbeats' = 0
    BY <1>2, <1>4, NewManagerBooks
<1> QED
    BY <1>3, <1>4 DEF end_of_loop, leave_loop, heartbeat_manager

\* Every step keeps the books in order.
LEMMA NextBooks == Books /\ [Next]_vars => Books'
<1> SUFFICES ASSUME Books, [Next]_vars PROVE Books'
  OBVIOUS
<1>1. CASE \E f \in Files : ProcessorStep(f) \/ time_out(f) \/ edit(f, 0) \/ edit(f, edits + 2)
    BY <1>1, ProcessorBooks, EditBooks DEF ProcessorStep
<1>2. CASE \E f \in Files, o \in {"empty", "failed"} : fail(f, o)
    BY <1>2, ProcessorBooks
<1>3. CASE ManagerStep
    BY <1>3, RefreshBooks, TerminateBooks, CollectBooks, PrepareBooks, SendBooks, QuietBooks
       DEF ManagerStep, Collect, Prepare
<1>4. CASE SchedulerStep
    BY <1>4, QuietBooks, ReceiveBooks, LoopBooks, KilledBooks DEF SchedulerStep
<1> QED
    BY <1>1, <1>2, <1>3, <1>4, KilledBooks, LoopBooks, QuietBooks DEF Next

\* Every variable keeps its type: in particular no file is ever counted beyond the run
\* limit, and the pipe never holds more than it can.
THEOREM TypeCorrect == Spec => []TypeOK
<1>1. Books => TypeOK
    BY DEF Books
<1> QED
    BY <1>1, InitBooks, NextBooks, PTL DEF Spec

\* The queue, the processors and the stats of the manager agree, whatever files come and
\* go while they are queued or processed and whichever processors are stopped.
THEOREM AlwaysQueueConsistent == Spec => []QueueConsistent
<1>1. Books => QueueConsistent
    BY DEF Books
<1> QED
    BY <1>1, InitBooks, NextBooks, PTL DEF Spec

-----------------------------------------------------------------------------
(* The end of the manager. *)

\* A file without a stat is queued if nothing else is.
LEMMA NewIsQueuedKept ==
    ASSUME Books, NewIsQueued, [Next]_vars
    PROVE  NewIsQueued'
<1>1. CASE UNCHANGED <<configVars, pc, listVars, Tracked>>
    BY <1>1 DEF NewIsQueued, configVars, listVars
<1>2. CASE pc' # "send"
    BY <1>2 DEF NewIsQueued
<1>3. CASE Prepare
  <2>1. PICK recent \in SUBSET { f \in Files : file_stats[f] >= 1 } : prepare_and_start(recent)
      BY <1>3 DEF Prepare
  <2> DEFINE queue == IF file_path_queue = {} THEN to_queue(recent) ELSE file_path_queue
  <2>2. PICK new \in SUBSET queue :
          /\ file_path_queue' = queue \ new
          /\ proc' = [f \in Files |-> IF f \in new THEN "started" ELSE proc[f]]
          /\ siblings' \in [Files -> SUBSET (queue \cup Tracked \cup UNION { siblings[f] : f \in Files })]
      BY <2>1, StartFact
  <2>3. /\ file_stats' = [f \in Files |-> IF f \in queue /\ file_stats[f] = NoStat THEN 0 ELSE file_stats[f]]
        /\ file_paths' = file_paths /\ file_paths \subseteq Files
      BY <2>1 DEF prepare_and_start, Books, TypeOK
  <2>4. Tracked \cup (queue \cap Files) \subseteq file_path_queue' \cup Tracked'
      BY <2>2 DEF Tracked
  <2>5. ASSUME NEW f \in file_paths, file_stats'[f] = NoStat, queue \cap Files = {}, f \notin Tracked
        PROVE  FALSE
    <3>1. f \in Files /\ f \notin queue /\ file_stats[f] = NoStat
        BY <2>3, <2>5
    <3>2. ~(file_stats[f] >= 1)
        BY <3>1 DEF NoStat
    <3>3. f \in to_queue(recent)
        BY <2>5, <3>1, <3>2 DEF to_queue
    <3>4. file_path_queue # {} /\ queue = file_path_queue /\ file_path_queue \subseteq Files
        BY <3>1, <3>3 DEF Books, TypeOK
    <3> QED
        BY <2>5, <3>4
  <2> QED
      BY <2>3, <2>4, <2>5 DEF NewIsQueued
<1>4. CASE \E f \in Files : ProcessorStep(f) \/ time_out(f) \/ edit(f, 0) \/ edit(f, edits + 2)
  <2>1. UNCHANGED <<configVars, pc, listVars, Tracked>>
      BY <1>4 DEF ProcessorStep, read_file, send_result, time_out, edit, managerVars, procVars, Tracked,
         Alive, Working, Finished, Books, TypeOK
  <2> QED
      BY <1>1, <2>1
<1>5. CASE \E f \in Files, o \in {"empty", "failed"} : fail(f, o)
  <2>1. UNCHANGED <<configVars, pc, listVars, Tracked>>
      BY <1>5 DEF fail, managerVars, Tracked, Alive, Working, Books, TypeOK
  <2> QED
      BY <1>1, <2>1
<1>6. CASE \E r \in simple_dags : send(r)
  <2>1. UNCHANGED <<configVars, pc, listVars, Tracked>>
      BY <1>6 DEF send, procVars, Tracked
  <2> QED
      BY <1>1, <2>1
<1>7. CASE heartbeat \/ receive \/ nothing_to_receive \/ end_of_loop \/ leave_loop \/ UNCHANGED vars
  <2>1. UNCHANGED <<configVars, pc, listVars, Tracked>> \/ pc' = "poll"
      BY <1>7 DEF heartbeat, receive, nothing_to_receive, end_of_loop, leave_loop, vars,
         heartbeat_manager, NewManager, managerVars, procVars, Tracked
  <2> QED
      BY <1>1, <1>2, <2>1
<1>8. CASE (\E due \in BOOLEAN : poll_and_refresh(due)) \/ terminate \/ Collect \/ send_stat
           \/ wait_until_finished \/ exit \/ manager_killed \/ end
  <2>1. pc' # "send"
      BY <1>8 DEF poll_and_refresh, terminate, Collect, collect, send_stat, wait_until_finished,
         exit, manager_killed, end
  <2> QED
      BY <1>2, <2>1
<1> QED
    BY <1>3, <1>4, <1>5, <1>6, <1>7, <1>8 DEF Next, ManagerStep, SchedulerStep

\* What is said of a manager that has ended stays true.
LEMMA CompleteKept ==
    ASSUME UNCHANGED <<configVars, file_stats>>, Alive' \subseteq Alive,
           pc \in {"exit", "gone"} => pc' \in {"exit", "gone"},
           NEW fs, NEW a, Complete(fs, a)
    PROVE  Complete(fs, a)'
BY DEF Complete, configVars

\* A step keeps DoneIsTrue if what is said to be done was said before, or is.
LEMMA DoneStep ==
    ASSUME DoneIsTrue,
           \A fs, a : Complete(fs, a) => Complete(fs, a)',
           \A m \in Stats' : m \in Stats \/ (m.done => Complete(m.file_paths, m.all_files_processed)'),
           done' => \/ done /\ UNCHANGED <<file_paths_known, all_files_processed>>
                    \/ \E m \in Stats : /\ m.done /\ file_paths_known' = m.file_paths
                                        /\ all_files_processed' = m.all_files_processed
    PROVE  DoneIsTrue'
<1>1. \A m \in Stats' : m.done => Complete(m.file_paths, m.all_files_processed)'
    BY DEF DoneIsTrue
<1>2. ASSUME done' PROVE Complete(file_paths_known, all_files_processed)'
  <2> PICK fs, a : fs = file_paths_known' /\ a = all_files_processed'
    OBVIOUS
  <2>1. Complete(fs, a)
      BY <1>2 DEF DoneIsTrue
  <2>2. Complete(fs, a)'
      BY <2>1
  <2> QED
      BY <2>2 DEF Complete
<1> QED
    BY <1>1, <1>2 DEF DoneIsTrue

\* The last stat of a manager is true: what is queued or in progress has a run left.
LEMMA StatIsTrue ==
    ASSUME Inv, send_stat, max_runs_reached
    PROVE  Complete(file_paths, all_processed)'
<1>1. TypeOK /\ QueueConsistent
    BY DEF Inv
<1>2. /\ UNCHANGED <<configVars, listVars, procVars>> /\ pc' = "exit"
      /\ async_mode => pc = "send"
    BY DEF send_stat
<1>3. /\ max_runs # -1 /\ max_runs \in Int /\ max_runs >= 1
      /\ \A f \in Files : file_stats[f] # NoStat => file_stats[f] >= max_runs
    BY <1>1, LimitFact DEF TypeOK, max_runs_reached
<1>4. file_path_queue \cup Tracked = {}
  <2> SUFFICES ASSUME NEW f \in file_path_queue \cup Tracked PROVE FALSE
    OBVIOUS
  <2>1. f \in Files /\ file_stats[f] >= 0 /\ file_stats[f] < max_runs
      BY <1>1, <1>3 DEF QueueConsistent, TypeOK, Tracked
  <2>2. file_stats[f] \in Int /\ file_stats[f] # NoStat
      BY <1>1, <2>1, StatFact
  <2> QED
      BY <1>3, <2>1, <2>2
<1>5. Alive = {}
    BY <1>4 DEF Alive, Tracked, Working
<1>6. file_paths \subseteq Files
    BY <1>1 DEF TypeOK
<1>7. async_mode => \A f \in file_paths : file_stats[f] # NoStat
    BY <1>2, <1>4 DEF Inv, NewIsQueued
<1>8. all_processed <=> \A f \in file_paths : file_stats[f] # NoStat
  <2>1. \A f \in file_paths : file_stats[f] >= 1 <=> file_stats[f] # NoStat
      BY <1>1, <1>3, <1>6, StatFact
  <2> QED
      BY <2>1 DEF all_processed
<1>9. all_processed' = all_processed /\ Alive' = Alive
    BY <1>2 DEF all_processed, listVars, procVars, Alive
<1> QED
    BY <1>2, <1>3, <1>5, <1>6, <1>7, <1>8, <1>9 DEF Complete, configVars, listVars

\* A message that says done is true when it is sent, and stays so.
LEMMA DoneIsTrueKept ==
    ASSUME Inv, [Next]_vars
    PROVE  DoneIsTrue'
<1>1. TypeOK /\ DoneIsTrue
    BY DEF Inv
<1>2. ASSUME NEW f \in Files, NEW o \in {"empty", "failed"},
             read_file(f) \/ send_result(f) \/ time_out(f) \/ fail(f, o) \/ edit(f, 0) \/ edit(f, edits + 2)
      PROVE  DoneIsTrue'
  <2>1. UNCHANGED <<configVars, agentVars, pipeVars, managerVars>> /\ Alive' \subseteq Alive
      BY <1>1, <1>2 DEF read_file, send_result, time_out, fail, edit, procVars, Alive, Working, TypeOK
  <2>2. \A fs, a : Complete(fs, a) => Complete(fs, a)'
      BY <2>1, CompleteKept DEF managerVars, listVars
  <2>3. Stats' = Stats
      BY <2>1 DEF Stats, Sent, pipeVars
  <2> QED
      BY <1>1, <2>1, <2>2, <2>3, DoneStep DEF agentVars
<1>3. ASSUME pc \notin {"exit", "gone"}, Stats' = Stats, UNCHANGED <<agentVars>>
      PROVE  DoneIsTrue'
  <2>1. \A fs, a : ~Complete(fs, a)
      BY <1>3 DEF Complete
  <2> QED
      BY <1>1, <1>3, <2>1, DoneStep DEF agentVars
<1>4. CASE (\E due \in BOOLEAN : poll_and_refresh(due)) \/ terminate \/ Collect \/ Prepare
           \/ wait_until_finished
  <2>1. pc \notin {"exit", "gone"} /\ UNCHANGED <<agentVars, conn>>
      BY <1>4 DEF poll_and_refresh, terminate, Collect, collect, Prepare, prepare_and_start,
         wait_until_finished, pipeVars
  <2> QED
      BY <1>3, <2>1 DEF Stats, Sent
<1>5. CASE \E r \in simple_dags : send(r)
  <2>1. PICK r \in simple_dags : send(r)
      BY <1>5
  <2>2. Dags(r[1], r[2]) \in Messages /\ Dags(r[1], r[2]).type # "stat"
      BY <1>1 DEF TypeOK, Dags, Messages
  <2>3. Sent' = Sent \cup {Dags(r[1], r[2])}
      BY <1>1, <2>1, <2>2, AppendFact DEF send
  <2>4. Stats' = Stats
      BY <2>2, <2>3 DEF Stats
  <2> QED
      BY <1>3, <2>1, <2>4 DEF send
<1>6. CASE send_stat
  <2> PICK d, a, fs : d = max_runs_reached /\ a = all_processed /\ fs = file_paths
    OBVIOUS
  <2>1. d \in BOOLEAN /\ a \in BOOLEAN /\ fs \in SUBSET Files
      BY <1>1 DEF max_runs_reached, all_processed, TypeOK
  <2>2. /\ Stat(fs, d, a) \in Messages
        /\ Stat(fs, d, a).file_paths = fs /\ Stat(fs, d, a).done = d
        /\ Stat(fs, d, a).all_files_processed = a
      BY <2>1 DEF Stat, Messages
  <2>3. conn' = Append(conn, Stat(fs, d, a)) /\ Room
      BY <1>6 DEF send_stat
  <2>4. Sent' = Sent \cup {Stat(fs, d, a)}
      BY <1>1, <2>2, <2>3, AppendFact
  <2>5. d => Complete(fs, a)'
    <3> SUFFICES ASSUME d PROVE Complete(fs, a)'
      OBVIOUS
    <3>1. Complete(file_paths, all_processed)'
        BY <1>6, StatIsTrue
    <3>2. file_paths' = fs /\ all_processed' = a
        BY <1>6 DEF send_stat, listVars, all_processed
    <3> QED
        BY <3>1, <3>2 DEF Complete
  <2>6. \A m \in Stats' : m \in Stats \/ (m.done => Complete(m.file_paths, m.all_files_processed)')
      BY <2>2, <2>4, <2>5 DEF Stats
  <2>7. pc \notin {"exit", "gone"} /\ UNCHANGED agentVars
      BY <1>6 DEF send_stat
  <2>8. \A gs, b : ~Complete(gs, b)
      BY <2>7 DEF Complete
  <2> QED
      BY <1>1, <2>6, <2>7, <2>8, DoneStep DEF agentVars
<1>7. CASE exit \/ manager_killed \/ end \/ heartbeat \/ nothing_to_receive \/ UNCHANGED vars
  <2>1. /\ UNCHANGED <<configVars, agentVars, conn, file_stats>> /\ Alive' \subseteq Alive
        /\ pc \in {"exit", "gone"} => pc' \in {"exit", "gone"}
      BY <1>7 DEF exit, manager_killed, end, heartbeat, nothing_to_receive, vars, procVars, pipeVars,
         managerVars, listVars, Alive, Working
  <2>2. \A fs, a : Complete(fs, a) => Complete(fs, a)'
      BY <2>1, CompleteKept
  <2>3. Stats' = Stats
      BY <2>1 DEF Stats, Sent
  <2> QED
      BY <1>1, <2>1, <2>2, <2>3, DoneStep DEF agentVars
<1>8. CASE receive
  <2>1. UNCHANGED <<configVars, managerVars, procVars>>
      BY <1>8 DEF receive
  <2>2. \A fs, a : Complete(fs, a) => Complete(fs, a)'
    <3>1. Alive' = Alive /\ UNCHANGED <<file_stats, pc>>
        BY <2>1 DEF procVars, Alive, managerVars, listVars
    <3> QED
        BY <2>1, <3>1, CompleteKept
  <2>3. Stats' \subseteq Stats
      BY <1>1, <1>8, ReceiveFact DEF receive, Stats, Sent
  <2>4. PICK m \in Sent : m = Head(conn)
      BY <1>1, <1>8, ReceiveFact DEF receive
  <2>5. process_message(m)
      BY <1>8, <2>4 DEF receive
  <2> QED
      BY <1>1, <2>2, <2>3, <2>4, <2>5, DoneStep DEF process_message, Stats
<1>9. CASE end_of_loop \/ leave_loop
  <2>1. CASE UNCHANGED <<pipeVars, managerVars, procVars>>
    <3>1. UNCHANGED <<configVars, agentVars, conn, file_stats, pc, Alive>>
        BY <1>9, <2>1 DEF end_of_loop, leave_loop, pipeVars, managerVars, listVars, procVars, Alive
    <3>2. \A fs, a : Complete(fs, a) => Complete(fs, a)'
        BY <3>1, CompleteKept
    <3>3. Stats' = Stats
        BY <3>1 DEF Stats, Sent
    <3> QED
        BY <1>1, <3>1, <3>2, <3>3, DoneStep DEF agentVars
  <2>2. CASE ~done /\ conn' = <<>>
    <3>1. Stats' = {} /\ ~done'
        BY <1>9, <2>2 DEF end_of_loop, leave_loop, agentVars, Stats, Sent
    <3> QED
        BY <3>1 DEF DoneIsTrue
  <2> QED
      BY <1>9, <2>1, <2>2 DEF end_of_loop, leave_loop, heartbeat_manager
<1> QED
    BY <1>2, <1>4, <1>5, <1>6, <1>7, <1>8, <1>9 DEF Next, ProcessorStep, ManagerStep, SchedulerStep

-----------------------------------------------------------------------------
(* The files that have been seen. *)

Seen == CountedIsSeen /\ AllProcessedIsTrue /\ DeactivatedAtEnd /\ DeactivatedIsGone

\* A step keeps what is said of the files seen if they stay so, if it counts only files
\* that are, and if what it tells the agent was on the way.
LEMMA SeenStep ==
    ASSUME CountedIsSeen, AllProcessedIsTrue,
           touched \subseteq touched', unparsed \subseteq unparsed',
           \A f \in Files : file_stats'[f] >= 1 => file_stats[f] >= 1 \/ f \in touched' \cup unparsed',
           \A m \in Stats' : m \in Stats
                             \/ (m.all_files_processed => m.file_paths \subseteq touched \cup unparsed),
           \/ UNCHANGED <<file_paths_known, all_files_processed, stat_received>>
           \/ \E m \in Stats : /\ file_paths_known' = m.file_paths
                               /\ all_files_processed' = m.all_files_processed
    PROVE  CountedIsSeen' /\ AllProcessedIsTrue'
<1>1. CountedIsSeen'
    BY DEF CountedIsSeen
<1>2. \A m \in Stats' : m.all_files_processed => m.file_paths \subseteq touched' \cup unparsed'
    BY DEF AllProcessedIsTrue
<1>3. stat_received' /\ all_files_processed' => file_paths_known' \subseteq touched' \cup unparsed'
    BY DEF AllProcessedIsTrue
<1> QED
    BY <1>1, <1>2, <1>3 DEF AllProcessedIsTrue

\* Most steps change no stat and tell the agent nothing new.
LEMMA QuietSeen ==
    ASSUME Seen, UNCHANGED <<file_paths_known, all_files_processed, stat_received, deactivated, conn>>,
           touched \subseteq touched', unparsed \subseteq unparsed',
           \A f \in Files : file_stats'[f] >= 1 => file_stats[f] >= 1 \/ f \in touched' \cup unparsed',
           sched \in {"end", "stopped"} => sched' \in {"end", "stopped"}
    PROVE  Seen'
<1>1. Stats' = Stats
    BY DEF Stats, Sent
<1>2. CountedIsSeen' /\ AllProcessedIsTrue'
    BY <1>1, SeenStep DEF Seen
<1>3. DeactivatedAtEnd' /\ DeactivatedIsGone'
    BY DEF Seen, DeactivatedAtEnd, DeactivatedIsGone
<1> QED
    BY <1>2, <1>3 DEF Seen

\* What is counted or reported as processed has been read, or ended without a DAG.
LEMMA SeenKept ==
    ASSUME Inv, [Next]_vars
    PROVE  Seen'
<1>1. TypeOK /\ Seen
    BY DEF Inv, Seen
<1>2. CASE \E f \in Files : ProcessorStep(f) \/ time_out(f) \/ edit(f, 0) \/ edit(f, edits + 2)
  <2>1. /\ UNCHANGED <<file_paths_known, all_files_processed, stat_received, deactivated, conn, sched,
                       file_stats, unparsed>>
        /\ touched \subseteq touched'
      BY <1>2 DEF ProcessorStep, read_file, send_result, time_out, edit, agentVars, schedVars, pipeVars,
         managerVars, listVars
  <2> QED
      BY <1>1, <2>1, QuietSeen
<1>3. CASE \/ \E f \in Files, o \in {"empty", "failed"} : fail(f, o)
           \/ wait_until_finished \/ exit \/ manager_killed \/ end \/ heartbeat \/ nothing_to_receive
           \/ terminate \/ UNCHANGED vars
  <2>1. /\ UNCHANGED <<file_paths_known, all_files_processed, stat_received, deactivated, conn,
                       file_stats, unparsed, touched>>
        /\ sched \in {"end", "stopped"} => sched' \in {"end", "stopped"}
      BY <1>3 DEF fail, wait_until_finished, exit, manager_killed, end, heartbeat, nothing_to_receive,
         terminate, vars, agentVars, schedVars, pipeVars, managerVars, listVars
  <2> QED
      BY <1>1, <2>1, QuietSeen
<1>4. CASE (\E due \in BOOLEAN : poll_and_refresh(due)) \/ Prepare
  <2>1. UNCHANGED <<file_paths_known, all_files_processed, stat_received, deactivated, conn, sched,
                    unparsed, touched>>
      BY <1>4 DEF poll_and_refresh, Prepare, prepare_and_start, agentVars, schedVars, pipeVars
  <2>2. \A f \in Files : file_stats'[f] \in {file_stats[f], 0, NoStat}
    <3>1. CASE UNCHANGED listVars
        BY <3>1 DEF listVars
    <3>2. CASE \E stopping : set_file_paths(Listing, stopping)
        BY <3>2 DEF set_file_paths
    <3>3. CASE Prepare
        BY <3>3 DEF Prepare, prepare_and_start
    <3> QED
        BY <1>4, <3>1, <3>2, <3>3 DEF poll_and_refresh
  <2>3. \A f \in Files : file_stats'[f] >= 1 => file_stats[f] >= 1
      BY <2>2 DEF NoStat
  <2> QED
      BY <1>1, <2>1, <2>3, QuietSeen
<1>5. CASE Collect
  <2>1. PICK ended \in SUBSET late : collect(ended)
      BY <1>5 DEF Collect
  <2> DEFINE finished == { f \in Files : proc[f] \in Finished } \cup ended
  <2>2. /\ UNCHANGED <<file_paths_known, all_files_processed, stat_received, deactivated, conn, sched,
                       touched>>
        /\ file_stats' = [f \in Files |-> IF f \in finished THEN next_run_count(f) ELSE file_stats[f]]
        /\ unparsed' = unparsed \cup (finished \ touched)
      BY <2>1 DEF collect, collect_results, agentVars, schedVars, pipeVars
  <2> HIDE DEF finished
  <2>3. \A f \in Files : file_stats'[f] >= 1 => file_stats[f] >= 1 \/ f \in touched' \cup unparsed'
      BY <2>2
  <2> QED
      BY <1>1, <2>2, <2>3, QuietSeen
<1>6. CASE send_stat \/ \E r \in simple_dags : send(r)
  <2>1. /\ UNCHANGED <<file_paths_known, all_files_processed, stat_received, deactivated, sched, touched,
                       unparsed, file_stats>>
      BY <1>6 DEF send, send_stat, agentVars, schedVars, listVars
  <2>2. \A m \in Stats' : m \in Stats
                          \/ (m.all_files_processed => m.file_paths \subseteq touched \cup unparsed)
    <3>1. CASE send_stat
      <4> PICK d, a, fs : d = max_runs_reached /\ a = all_processed /\ fs = file_paths
        OBVIOUS
      <4>1. d \in BOOLEAN /\ a \in BOOLEAN /\ fs \in SUBSET Files
          BY <1>1 DEF max_runs_reached, all_processed, TypeOK
      <4>2. /\ Stat(fs, d, a) \in Messages
            /\ Stat(fs, d, a).file_paths = fs /\ Stat(fs, d, a).all_files_processed = a
          BY <4>1 DEF Stat, Messages
      <4>3. conn' = Append(conn, Stat(fs, d, a)) /\ Room
          BY <3>1 DEF send_stat
      <4>4. Sent' = Sent \cup {Stat(fs, d, a)}
          BY <1>1, <4>2, <4>3, AppendFact
      <4>5. a => fs \subseteq touched \cup unparsed
          BY <1>1, <4>1 DEF all_processed, Seen, CountedIsSeen
      <4> QED
          BY <4>2, <4>4, <4>5 DEF Stats
    <3>2. CASE \E r \in simple_dags : send(r)
      <4>1. PICK r \in simple_dags : send(r)
          BY <3>2
      <4>2. Dags(r[1], r[2]) \in Messages /\ Dags(r[1], r[2]).type # "stat"
          BY <1>1 DEF TypeOK, Dags, Messages
      <4>3. Sent' = Sent \cup {Dags(r[1], r[2])}
          BY <1>1, <4>1, <4>2, AppendFact DEF send
      <4> QED
          BY <4>2, <4>3 DEF Stats
    <3> QED
        BY <1>6, <3>1, <3>2
  <2>3. CountedIsSeen' /\ AllProcessedIsTrue'
      BY <1>1, <2>1, <2>2, SeenStep DEF Seen
  <2> QED
      BY <1>1, <2>1, <2>3 DEF Seen, DeactivatedAtEnd, DeactivatedIsGone
<1>7. CASE receive
  <2>1. UNCHANGED <<touched, unparsed, file_stats, deactivated>> /\ deactivated = {}
      BY <1>1, <1>7 DEF receive, managerVars, listVars, Seen, DeactivatedAtEnd
  <2>2. Stats' \subseteq Stats
      BY <1>1, <1>7, ReceiveFact DEF receive, Stats, Sent
  <2>3. PICK m \in Sent : m = Head(conn)
      BY <1>1, <1>7, ReceiveFact DEF receive
  <2>4. process_message(m)
      BY <1>7, <2>3 DEF receive
  <2>5. \/ UNCHANGED <<file_paths_known, all_files_processed, stat_received>>
        \/ \E n \in Stats : /\ file_paths_known' = n.file_paths
                            /\ all_files_processed' = n.all_files_processed
      BY <2>3, <2>4 DEF process_message, Stats
  <2>6. CountedIsSeen' /\ AllProcessedIsTrue'
      BY <1>1, <2>1, <2>2, <2>5, SeenStep DEF Seen
  <2> QED
      BY <2>1, <2>6 DEF Seen, DeactivatedAtEnd, DeactivatedIsGone
<1>8. CASE end_of_loop \/ leave_loop
  <2>1. /\ UNCHANGED <<file_paths_known, all_files_processed, stat_received, touched, unparsed>>
        /\ sched = "alive"
      BY <1>8 DEF end_of_loop, leave_loop, agentVars, heartbeat_manager, NewManager, managerVars
  <2>2. Stats' \subseteq Stats
      BY <1>8 DEF end_of_loop, leave_loop, heartbeat_manager, pipeVars, Stats, Sent
  <2>3. \A f \in Files : file_stats'[f] \in {file_stats[f], NoStat}
      BY <1>8 DEF end_of_loop, leave_loop, heartbeat_manager, NewManager, managerVars, listVars
  <2>4. \A f \in Files : file_stats'[f] >= 1 => file_stats[f] >= 1
      BY <2>3 DEF NoStat
  <2>5. CountedIsSeen' /\ AllProcessedIsTrue'
      BY <1>1, <2>1, <2>2, <2>4, SeenStep DEF Seen
  <2>6. deactivated = {}
      BY <1>1, <2>1 DEF Seen, DeactivatedAtEnd
  <2>7. CASE end_of_loop
      BY <2>5, <2>6, <2>7 DEF end_of_loop, Seen, DeactivatedAtEnd, DeactivatedIsGone
  <2>8. CASE leave_loop
    <3>1. /\ sched' = "end" /\ deactivated' \in {{}, Files \ touched}
          /\ deactivated' # {} => all_files_processed
        BY <2>8 DEF leave_loop
    <3>2. DeactivatedIsGone'
        BY <1>1, <2>1, <3>1 DEF Seen, AllProcessedIsTrue, DeactivatedIsGone
    <3> QED
        BY <2>5, <3>1, <3>2 DEF Seen, DeactivatedAtEnd
  <2> QED
      BY <1>8, <2>7, <2>8
<1> QED
    BY <1>2, <1>3, <1>4, <1>5, <1>6, <1>7, <1>8 DEF Next, ManagerStep, SchedulerStep
-----------------------------------------------------------------------------
\* The whole invariant holds throughout.
LEMMA Invariance == Spec => []Inv
<1>1. Init => Inv
  <2> SUFFICES ASSUME Init PROVE Inv
    OBVIOUS
  <2>1. TypeOK /\ QueueConsistent
      BY InitBooks DEF Books
  <2>2. Stats = {}
    <3>1. conn = <<>>
        BY DEF Init
    <3> QED
        BY <3>1 DEF Stats, Sent
  <2>3. CountedIsSeen
    <3>1. \A f \in Files : file_stats[f] = NoStat
        BY DEF Init
    <3> QED
        BY <3>1 DEF CountedIsSeen, NoStat
  <2> QED
      BY <2>1, <2>2, <2>3 DEF Init, Inv, NewIsQueued, DoneIsTrue, AllProcessedIsTrue, DeactivatedAtEnd,
         DeactivatedIsGone
<1>2. Inv /\ [Next]_vars => Inv'
    BY NextBooks, NewIsQueuedKept, DoneIsTrueKept, SeenKept DEF Inv, Books, Seen
<1> QED
    BY <1>1, <1>2, PTL DEF Spec

\* When the scheduler believes that the manager is done, it is: no processor is left, and
\* no file listed is short of runs but, with SQLite, one that came while others were
\* queued, of which all_files_processed tells.
THEOREM DoneIsDone == Spec => []DoneMeansProcessed
<1>1. Inv => DoneMeansProcessed
    BY DEF Inv, DoneIsTrue, Complete, DoneMeansProcessed
<1> QED
    BY <1>1, Invariance, PTL

\* The scheduler deactivates no DAG of a file that its manager has listed, unless the
\* processing of the file ended without a DAG, however managers are killed and restarted.
THEOREM NeverDeactivatesListed == Spec => []DeactivatedIsGone
<1>1. Inv => DeactivatedIsGone
    BY DEF Inv
<1> QED
    BY <1>1, Invariance, PTL
=============================================================================
