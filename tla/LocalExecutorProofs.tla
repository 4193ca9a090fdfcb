------------------------ MODULE LocalExecutorProofs ------------------------
(***************************************************************************)
(* Proofs about LocalExecutor.tla for every set of keys, any number of     *)
(* workers, every priority and both modes: parallelism is respected, a     *)
(* command is neither lost nor run twice, end() returns after everything   *)
(* has been reported, and the executor implements the contract Executor.   *)
(***************************************************************************)
EXTENDS LocalExecutor, FiniteSetTheorems, SequenceTheorems, TLAPS

(***************************************************************************)
(* The parts of the inductive invariant.                                   *)
(***************************************************************************)

Busy == { w \in Workers : worker[w] \in Keys }

\* The books: what is queued or running is finite, and no key is both.
Books ==
    /\ IsFiniteSet(queued_tasks) /\ IsFiniteSet(running)
    /\ queued_tasks \cap running = {}

\* A command that is anywhere on its way is running in the books ...
OnTheWay ==
    /\ \A i \in 1..Len(task_queue) : task_queue[i] \in Keys => task_queue[i] \in running
    /\ \A w \in Workers : worker[w] \in Keys => worker[w] \in running
    /\ spawned \subseteq running
    /\ \A i \in 1..Len(result_queue) : result_queue[i][1] \in running

\* ... and at one place only.
OncePerPlace ==
    /\ \A i, j \in 1..Len(task_queue) :
         (task_queue[i] \in Keys /\ task_queue[i] = task_queue[j]) => i = j
    /\ \A v, w \in Workers : (worker[v] \in Keys /\ worker[v] = worker[w]) => v = w
    /\ \A i, j \in 1..Len(result_queue) : result_queue[i][1] = result_queue[j][1] => i = j
OnePlace ==
    /\ \A i \in 1..Len(task_queue), w \in Workers :
         task_queue[i] \in Keys => task_queue[i] # worker[w]
    /\ \A i \in 1..Len(task_queue), j \in 1..Len(result_queue) :
         task_queue[i] # result_queue[j][1]
    /\ \A w \in Workers, j \in 1..Len(result_queue) : worker[w] # result_queue[j][1]
    /\ \A j \in 1..Len(result_queue) : result_queue[j][1] \notin spawned

\* Each mode uses its own kind of worker.
ModesApart ==
    /\ Limited => spawned = {}
    /\ ~Limited => task_queue = <<>> /\ \A w \in Workers : worker[w] = Stopped

\* The two counters that end waits on.
Counters ==
    /\ Limited => unfinished = Len(task_queue) + Cardinality(Busy)
    /\ ~Limited => workers_active = Cardinality(spawned) + Len(result_queue) + launchErrors

\* What the owner knows when the wait is over.
Waited ==
    /\ owner \in {"last_sync", "ended"} => IF Limited THEN unfinished = 0 ELSE workers_active = 0
    /\ owner = "ended" => result_queue = <<>>

\* Without a launch error a running command is somewhere on its way.
NothingLost ==
    launchErrors = 0 =>
        \A k \in running : \/ \E i \in 1..Len(task_queue) : task_queue[i] = k
                           \/ \E w \in Workers : worker[w] = k
                           \/ k \in spawned
                           \/ \E i \in 1..Len(result_queue) : result_queue[i][1] = k

Parts ==
    /\ Books /\ OnTheWay /\ OncePerPlace /\ OnePlace
    /\ ModesApart /\ Counters /\ Waited /\ NothingLost
    /\ ParallelismRespected

Inv == TypeOK /\ Parts
-----------------------------------------------------------------------------
(* Sequences, and the workers at work. *)

\* Tail moves every element of a sequence one place to the front.
LEMMA TailFact ==
    ASSUME NEW S, NEW s \in Seq(S), s # <<>>
    PROVE  /\ Tail(s) \in Seq(S) /\ Len(Tail(s)) = Len(s) - 1 /\ Len(s) \in Nat \ {0}
           /\ \A i \in 1..Len(Tail(s)) : i + 1 \in 1..Len(s) /\ Tail(s)[i] = s[i + 1]
           /\ \A i \in 1..Len(s) : i # 1 => i - 1 \in 1..Len(Tail(s)) /\ Tail(s)[i - 1] = s[i]
           /\ Head(s) = s[1] /\ s[1] \in S
<1>1. Len(s) \in Nat \ {0} /\ Tail(s) \in Seq(S) /\ Len(Tail(s)) = Len(s) - 1
      /\ \A i \in 1..Len(Tail(s)) : Tail(s)[i] = s[i + 1]
    BY HeadTailProperties, EmptySeq
<1>2. \A i \in 1..Len(s) : i # 1 => i - 1 \in 1..Len(Tail(s)) /\ Tail(s)[i - 1] = s[i]
  <2> TAKE i \in 1..Len(s)
  <2> HAVE i # 1
  <2>1. i - 1 \in 1..Len(Tail(s))
      BY <1>1
  <2> QED
      BY <1>1, <2>1
<1>3. Head(s) = s[1] /\ s[1] \in S
    BY <1>1
<1> QED
    BY <1>1, <1>2, <1>3

\* Disjoint sets add up.
LEMMA DisjointUnion ==
    ASSUME NEW S, NEW T, IsFiniteSet(S), IsFiniteSet(T), S \cap T = {}
    PROVE  /\ IsFiniteSet(S \cup T) /\ Cardinality(S) \in Nat /\ Cardinality(T) \in Nat
           /\ Cardinality(S \cup T) = Cardinality(S) + Cardinality(T)
<1>1. Cardinality(S \cap T) = 0
    BY FS_EmptySet
<1>2. Cardinality(S) \in Nat /\ Cardinality(T) \in Nat
    BY FS_CardinalityType
<1>3. IsFiniteSet(S \cup T)
      /\ Cardinality(S \cup T) = Cardinality(S) + Cardinality(T) - Cardinality(S \cap T)
    BY FS_Union
<1> QED
    BY <1>1, <1>2, <1>3

\* The workers at work are finitely many.
LEMMA BusyFinite == IsFiniteSet(Busy) /\ Cardinality(Busy) \in Nat
BY WorkersAssumption, FS_Subset, FS_CardinalityType DEF Busy

\* A worker that starts, or stops, to work.
LEMMA BusyAdd ==
    ASSUME TypeOK, NEW w \in Workers, worker[w] \notin Keys, NEW k \in Keys,
           worker' = [worker EXCEPT ![w] = k]
    PROVE  Cardinality(Busy') = Cardinality(Busy) + 1
<1>1. Busy' = Busy \cup {w} /\ w \notin Busy
    BY DEF Busy, TypeOK
<1> QED
    BY <1>1, BusyFinite, FS_AddElement

\* A worker that ends its command is one busy worker less.
LEMMA BusyRemove ==
    ASSUME TypeOK, NEW w \in Workers, worker[w] \in Keys, NEW x \in {Idle, Stopped},
           worker' = [worker EXCEPT ![w] = x]
    PROVE  Cardinality(Busy') = Cardinality(Busy) - 1 /\ Cardinality(Busy) >= 1
<1>1. Busy' = Busy \ {w} /\ w \in Busy
    BY KeysAssumption DEF Busy, TypeOK
<1>2. Cardinality(Busy') = Cardinality(Busy) - 1
    BY <1>1, BusyFinite, FS_RemoveElement
<1>3. Cardinality(Busy) # 0
    BY <1>1, BusyFinite, FS_EmptySet
<1> QED
    BY <1>2, <1>3, BusyFinite
-----------------------------------------------------------------------------
(* Every step preserves Inv. *)

\* Steps of the owner that touch neither a process nor a queue between them.
LEMMA OwnerKeeps ==
    ASSUME Inv,
           \/ \E k \in Keys : queue_command(k)
           \/ sync_done \/ joined
           \/ \E D \in SUBSET Dags : get_event_buffer(D)
    PROVE  Inv'
<1> USE DEF Inv, Parts, execVars, localVars
<1>1. CASE \E k \in Keys : queue_command(k)
  <2> USE DEF queue_command, queue_commands
  <2>1. PICK k \in Keys : queue_command(k)
      BY <1>1
  <2>2. TypeOK' /\ Limited' = Limited
      BY <2>1 DEF TypeOK, ExecTypeOK, Limited
  <2>3. Books'
    <3>1. IsFiniteSet({k} \ running)
        BY FS_Singleton, FS_Subset
    <3> QED
        BY <2>1, <3>1, FS_Union DEF Books
  <2>4. OnTheWay' /\ OncePerPlace' /\ OnePlace' /\ NothingLost'
      BY <2>1 DEF OnTheWay, OncePerPlace, OnePlace, NothingLost
  <2>5. ModesApart' /\ Counters' /\ Waited' /\ ParallelismRespected'
      BY <2>1, <2>2 DEF ModesApart, Counters, Waited, ParallelismRespected, Busy
  <2> QED
      BY <2>2, <2>3, <2>4, <2>5
<1>2. CASE sync_done \/ joined
  <2> USE <1>2 DEF sync_done, joined
  <2>1. TypeOK' /\ Limited' = Limited
      BY DEF TypeOK, ExecTypeOK, Limited
  <2>2. Books' /\ OnTheWay' /\ OncePerPlace' /\ OnePlace' /\ NothingLost'
      BY DEF Books, OnTheWay, OncePerPlace, OnePlace, NothingLost
  <2>3. ModesApart' /\ Counters' /\ ParallelismRespected'
      BY <2>1 DEF ModesApart, Counters, ParallelismRespected, Busy
  <2>4. Waited'
    <3>1. CASE sync_done
        BY <2>1, <3>1 DEF Waited
    <3>2. CASE joined
      <4>1. CASE Limited
          BY <2>1, <3>2, <4>1 DEF Waited
      <4>2. CASE ~Limited
        <5>1. Len(result_queue) \in Nat /\ Cardinality(spawned) \in Nat /\ launchErrors \in Nat
            BY FS_Subset, FS_CardinalityType, LenProperties DEF TypeOK, Books, OnTheWay
        <5>2. Len(result_queue) = 0
            BY <3>2, <4>2, <5>1 DEF Counters
        <5>3. result_queue = <<>>
            BY <5>2, EmptySeq DEF TypeOK
        <5> QED
            BY <2>1, <3>2, <4>2, <5>3 DEF Waited
      <4> QED
          BY <4>1, <4>2
    <3> QED
        BY <1>2, <3>1, <3>2
  <2> QED
      BY <2>1, <2>2, <2>3, <2>4
<1>3. CASE \E D \in SUBSET Dags : get_event_buffer(D)
  <2> USE DEF get_event_buffer, flush_events
  <2>1. PICK D \in SUBSET Dags : get_event_buffer(D)
      BY <1>3
  <2>2. TypeOK' /\ Limited' = Limited
      BY <2>1 DEF TypeOK, ExecTypeOK, Limited
  <2>3. Books' /\ OnTheWay' /\ OncePerPlace' /\ OnePlace' /\ NothingLost'
      BY <2>1 DEF Books, OnTheWay, OncePerPlace, OnePlace, NothingLost
  <2>4. ModesApart' /\ Counters' /\ Waited' /\ ParallelismRespected'
      BY <2>1, <2>2 DEF ModesApart, Counters, Waited, ParallelismRespected, Busy
  <2> QED
      BY <2>2, <2>3, <2>4
<1> QED
    BY <1>1, <1>2, <1>3

\* The sequences of SetToSeqs enumerate the set: each element at one place.
LEMMA SetToSeqsFact ==
    ASSUME NEW T, IsFiniteSet(T), NEW s \in SetToSeqs(T)
    PROVE  /\ s \in Seq(T) /\ Len(s) = Cardinality(T) /\ Cardinality(T) \in Nat
           /\ \A i, j \in 1..Len(s) : s[i] = s[j] => i = j
           /\ \A k \in T : \E i \in 1..Len(s) : s[i] = k
<1> DEFINE D == 1..Cardinality(T)
<1>1. Cardinality(T) \in Nat /\ IsFiniteSet(D) /\ Cardinality(D) = Cardinality(T)
    BY FS_CardinalityType, FS_Interval
<1>2. s \in [D -> T] /\ \A i, j \in D : s[i] = s[j] => i = j
    BY DEF SetToSeqs
<1>3. s \in Seq(T) /\ Len(s) = Cardinality(T)
    BY <1>1, <1>2
<1>4. s \in Injection(D, T)
    BY <1>2 DEF Injection, IsInjective
<1>5. s \in Surjection(D, T)
    BY <1>1, <1>4, FS_Injection
<1> QED
    BY <1>1, <1>2, <1>3, <1>5 DEF Surjection

\* trigger_tasks takes no more than the open slots.
LEMMA TriggerFact ==
    ASSUME Inv, NEW T \in SUBSET queued_tasks, T \in Triggerable(open_slots(parallelism))
    PROVE  /\ IsFiniteSet(T) /\ Cardinality(T) \in Nat
           /\ T \in SUBSET Keys /\ T \cap running = {}
           /\ IsFiniteSet(queued_tasks \ T) /\ IsFiniteSet(running \cup T)
           /\ Limited => Cardinality(running \cup T) <= parallelism
<1> USE DEF Inv, Parts
<1>1. /\ IsFiniteSet(T) /\ Cardinality(T) \in Nat
      /\ T \in SUBSET Keys /\ T \cap running = {}
      /\ IsFiniteSet(queued_tasks \ T)
    BY FS_Subset, FS_CardinalityType DEF Books, TypeOK, ExecTypeOK
<1>2. /\ IsFiniteSet(running \cup T) /\ Cardinality(running) \in Nat
      /\ Cardinality(running \cup T) = Cardinality(running) + Cardinality(T)
    BY <1>1, DisjointUnion DEF Books
<1>3. ASSUME Limited PROVE Cardinality(running \cup T) <= parallelism
  <2>1. parallelism \in Nat
      BY WorkersAssumption, FS_CardinalityType DEF TypeOK
  <2>2. \/ Cardinality(T) = parallelism - Cardinality(running)
        \/ T = {} /\ parallelism - Cardinality(running) < 0
        \/ Cardinality(T) < parallelism - Cardinality(running)
      BY <1>3 DEF Triggerable, open_slots, Limited
  <2> QED
      BY <1>1, <1>2, <1>3, <2>1, <2>2 DEF ParallelismRespected
<1> QED
    BY <1>1, <1>2, <1>3

\* heartbeat with parallelism: what it triggers was queued, hence nowhere on its
\* way, and is put on the task queue once.
LEMMA HeartbeatLimitedKeeps ==
    ASSUME Inv, heartbeat, Limited
    PROVE  Inv'
<1> USE DEF Inv, Parts, execVars, localVars
<1>1. PICK T \in SUBSET queued_tasks :
           trigger_tasks(T, open_slots(parallelism)) /\ execute_async(T)
    BY DEF heartbeat
<1>2. /\ T \in Triggerable(open_slots(parallelism))
      /\ queued_tasks' = queued_tasks \ T /\ running' = running \cup T
      /\ unfinished' = unfinished + Cardinality(T)
      /\ UNCHANGED <<parallelism, worker, spawned, workers_active, result_queue, launchErrors,
                     event_buffer>>
      /\ owner' = "sync" /\ Limited'
    BY <1>1 DEF trigger_tasks, execute_async, heartbeat, Limited
<1>3. PICK s \in SetToSeqs(T) : task_queue' = task_queue \o s
    BY <1>1 DEF execute_async
<1>4. /\ IsFiniteSet(T) /\ Cardinality(T) \in Nat
      /\ T \in SUBSET Keys /\ T \cap running = {}
      /\ IsFiniteSet(queued_tasks \ T) /\ IsFiniteSet(running \cup T)
      /\ Cardinality(running \cup T) <= parallelism
    BY <1>2, TriggerFact
<1>5. /\ s \in Seq(T) /\ Len(s) = Cardinality(T)
      /\ \A i, j \in 1..Len(s) : s[i] = s[j] => i = j
      /\ \A k \in T : \E i \in 1..Len(s) : s[i] = k
    BY <1>4, SetToSeqsFact
<1> DEFINE n == Len(task_queue)
           m == Len(s)
<1>6. /\ task_queue' \in Seq(Keys \cup {Poison}) /\ Len(task_queue') = n + m
      /\ n \in Nat /\ m \in Nat
      /\ \A i \in 1..(n + m) : task_queue'[i] = IF i <= n THEN task_queue[i] ELSE s[i - n]
  <2>1. s \in Seq(Keys \cup {Poison}) /\ task_queue \in Seq(Keys \cup {Poison})
      BY <1>4, <1>5, SeqMonotonic DEF TypeOK
  <2> QED
      BY <1>3, <2>1, ConcatProperties, LenProperties
<1>7. \A i \in 1..n : i \in 1..(n + m) /\ task_queue'[i] = task_queue[i]
    BY <1>6
<1>8. \A i \in 1..(n + m) : i \notin 1..n =>
        i - n \in 1..m /\ task_queue'[i] = s[i - n] /\ task_queue'[i] \in T
  <2> TAKE i \in 1..(n + m)
  <2> HAVE i \notin 1..n
  <2>1. i - n \in 1..m /\ task_queue'[i] = s[i - n]
      BY <1>6
  <2>2. s[i - n] \in T
      BY <1>5, <2>1, ElementOfSeq
  <2> QED
      BY <2>1, <2>2
<1>9. \A i \in 1..m : i + n \in 1..(n + m) /\ task_queue'[i + n] = s[i]
  <2> TAKE i \in 1..m
  <2>1. i + n \in 1..(n + m) /\ ~(i + n <= n) /\ (i + n) - n = i
      BY <1>6
  <2> QED
      BY <1>6, <2>1
<1> HIDE DEF n, m
<1>10. TypeOK'
    BY <1>2, <1>4, <1>6 DEF TypeOK, ExecTypeOK
<1>11. Books'
    BY <1>2, <1>4 DEF Books
<1>12. OnTheWay'
  <2>1. \A i \in 1..Len(task_queue') : task_queue'[i] \in Keys => task_queue'[i] \in running'
      BY <1>2, <1>6, <1>7, <1>8 DEF OnTheWay, n
  <2> QED
      BY <1>2, <2>1 DEF OnTheWay
<1>13. OncePerPlace'
  <2>1. ASSUME NEW i \in 1..(n + m), NEW j \in 1..(n + m),
               task_queue'[i] \in Keys, task_queue'[i] = task_queue'[j]
        PROVE  i = j
    <3>1. CASE i \in 1..n /\ j \in 1..n
        BY <1>7, <2>1, <3>1 DEF OncePerPlace, n
    <3>2. CASE i \notin 1..n /\ j \notin 1..n
        BY <1>5, <1>6, <1>8, <2>1, <3>2 DEF m
    <3>3. CASE (i \in 1..n) # (j \in 1..n)
        BY <1>4, <1>7, <1>8, <2>1, <3>3 DEF OnTheWay, n
    <3> QED
        BY <3>1, <3>2, <3>3
  <2> QED
      BY <1>2, <1>6, <2>1 DEF OncePerPlace
<1>14. OnePlace'
  <2>1. ASSUME NEW i \in 1..(n + m), NEW w \in Workers, task_queue'[i] \in Keys
        PROVE  task_queue'[i] # worker'[w]
    <3>1. CASE i \in 1..n
        BY <1>2, <1>7, <2>1, <3>1 DEF OnePlace, n
    <3>2. CASE i \notin 1..n
        BY <1>2, <1>4, <1>8, <2>1, <3>2 DEF OnTheWay
    <3> QED
        BY <3>1, <3>2
  <2>2. ASSUME NEW i \in 1..(n + m), NEW j \in 1..Len(result_queue)
        PROVE  task_queue'[i] # result_queue[j][1]
    <3>1. CASE i \in 1..n
        BY <1>7, <3>1 DEF OnePlace, n
    <3>2. CASE i \notin 1..n
        BY <1>4, <1>8, <3>2 DEF OnTheWay
    <3> QED
        BY <3>1, <3>2
  <2> QED
      BY <1>2, <1>6, <2>1, <2>2 DEF OnePlace
<1>15. ModesApart' /\ Waited' /\ ParallelismRespected'
    BY <1>2, <1>4 DEF ModesApart, Waited, ParallelismRespected
<1>16. Counters'
    BY <1>2, <1>5, <1>6, BusyFinite DEF Counters, Busy, n, m
<1>17. NothingLost'
  <2> SUFFICES ASSUME launchErrors = 0, NEW k \in running'
               PROVE  \/ \E i \in 1..Len(task_queue') : task_queue'[i] = k
                      \/ \E w \in Workers : worker'[w] = k
                      \/ k \in spawned'
                      \/ \E i \in 1..Len(result_queue') : result_queue'[i][1] = k
      BY <1>2 DEF NothingLost
  <2>1. CASE k \in T
    <3>1. PICK i \in 1..m : s[i] = k
        BY <1>5, <2>1 DEF m
    <3> QED
        BY <1>6, <1>9, <3>1
  <2>2. CASE k \notin T
      BY <1>2, <1>6, <1>7, <2>2 DEF NothingLost, n
  <2> QED
      BY <2>1, <2>2
<1> QED
    BY <1>10, <1>11, <1>12, <1>13, <1>14, <1>15, <1>16, <1>17

\* heartbeat without a limit: the same for the processes it starts.
LEMMA HeartbeatUnlimitedKeeps ==
    ASSUME Inv, heartbeat, ~Limited
    PROVE  Inv'
<1> USE DEF Inv, Parts, execVars, localVars
<1>1. PICK T \in SUBSET queued_tasks :
           trigger_tasks(T, open_slots(parallelism)) /\ execute_async(T)
    BY DEF heartbeat
<1>2. /\ T \in Triggerable(open_slots(parallelism))
      /\ queued_tasks' = queued_tasks \ T /\ running' = running \cup T
      /\ spawned' = spawned \cup T
      /\ workers_active' = workers_active + Cardinality(T)
      /\ UNCHANGED <<parallelism, worker, task_queue, unfinished, result_queue, launchErrors,
                     event_buffer>>
      /\ owner' = "sync" /\ ~Limited'
    BY <1>1 DEF trigger_tasks, execute_async, heartbeat, Limited
<1>3. /\ IsFiniteSet(T) /\ Cardinality(T) \in Nat
      /\ T \in SUBSET Keys /\ T \cap running = {}
      /\ IsFiniteSet(queued_tasks \ T) /\ IsFiniteSet(running \cup T)
    BY <1>2, TriggerFact
<1>4. TypeOK'
    BY <1>2, <1>3 DEF TypeOK, ExecTypeOK
<1>5. Books' /\ OnTheWay' /\ OncePerPlace' /\ OnePlace'
    BY <1>2, <1>3 DEF Books, OnTheWay, OncePerPlace, OnePlace
<1>6. ModesApart' /\ Waited' /\ ParallelismRespected' /\ NothingLost'
    BY <1>2 DEF ModesApart, Waited, ParallelismRespected, NothingLost
<1>7. Counters'
  <2>1. IsFiniteSet(spawned) /\ Cardinality(spawned) \in Nat
        /\ Cardinality(spawned') = Cardinality(spawned) + Cardinality(T)
    <3>1. IsFiniteSet(spawned) /\ spawned \cap T = {}
        BY <1>3, FS_Subset DEF Books, OnTheWay
    <3> QED
        BY <1>2, <1>3, <3>1, DisjointUnion
  <2>2. Len(result_queue) \in Nat /\ launchErrors \in Nat
      BY LenProperties DEF TypeOK
  <2> QED
      BY <1>2, <1>3, <2>1, <2>2 DEF Counters
<1> QED
    BY <1>4, <1>5, <1>6, <1>7

\* Keys are none of the marks, and results are about keys.
LEMMA MarksAreNoKeys ==
    ASSUME TypeOK
    PROVE  /\ Poison \notin Keys /\ Idle \notin Keys /\ Stopped \notin Keys
           /\ Len(result_queue) \in Nat
           /\ \A j \in 1..Len(result_queue) : result_queue[j] \in Keys \X EventStates
           /\ \A j \in 1..Len(result_queue) : result_queue[j][1] \in Keys
<1>1. \A j \in 1..Len(result_queue) : result_queue[j] \in Keys \X EventStates
    BY ElementOfSeq DEF TypeOK
<1> QED
    BY <1>1, KeysAssumption, LenProperties DEF TypeOK

\* end: poison pills are nobody's command.
LEMMA EndKeeps ==
    ASSUME Inv, end
    PROVE  Inv'
<1> USE DEF Inv, Parts, execVars, localVars
<1>1. CASE ~Limited
  <2> USE <1>1 DEF end
  <2>1. TypeOK' /\ Limited' = Limited
      BY DEF TypeOK, ExecTypeOK, Limited
  <2>2. Books' /\ OnTheWay' /\ OncePerPlace' /\ OnePlace' /\ NothingLost'
      BY DEF Books, OnTheWay, OncePerPlace, OnePlace, NothingLost
  <2>3. ModesApart' /\ Counters' /\ ParallelismRespected' /\ Waited'
      BY <2>1 DEF ModesApart, Counters, ParallelismRespected, Waited
  <2> QED
      BY <2>1, <2>2, <2>3
<1>2. CASE Limited
  <2> DEFINE p == [i \in 1..Cardinality(Workers) |-> Poison]
             n == Len(task_queue)
             m == Cardinality(Workers)
  <2>1. m \in Nat /\ p \in Seq({Poison}) /\ Len(p) = m /\ \A i \in 1..m : p[i] = Poison
      BY WorkersAssumption, FS_CardinalityType
  <2>2. /\ task_queue' \in Seq(Keys \cup {Poison}) /\ Len(task_queue') = n + m
        /\ n \in Nat
        /\ \A i \in 1..(n + m) : task_queue'[i] = IF i <= n THEN task_queue[i] ELSE p[i - n]
    <3>1. p \in Seq(Keys \cup {Poison}) /\ task_queue \in Seq(Keys \cup {Poison})
        BY <2>1, SeqMonotonic DEF TypeOK
    <3>2. task_queue' = task_queue \o p
        BY <1>2 DEF end
    <3> QED
        BY <2>1, <3>1, <3>2, ConcatProperties, LenProperties
  <2>3. \A i \in 1..n : i \in 1..(n + m) /\ task_queue'[i] = task_queue[i]
      BY <2>1, <2>2
  <2>4. \A i \in 1..(n + m) : i \notin 1..n => task_queue'[i] = Poison
    <3> TAKE i \in 1..(n + m)
    <3> HAVE i \notin 1..n
    <3>1. i - n \in 1..m /\ ~(i <= n)
        BY <2>1, <2>2
    <3> QED
        BY <2>1, <2>2, <3>1
  <2>5. /\ unfinished' = unfinished + m /\ owner' = "join" /\ Limited'
        /\ UNCHANGED <<execVars, parallelism, worker, spawned, workers_active, result_queue,
                       launchErrors>>
      BY <1>2 DEF end, Limited
  <2> HIDE DEF n, m, p
  <2>6. TypeOK'
      BY <2>1, <2>2, <2>5 DEF TypeOK, ExecTypeOK
  <2>7. Books' /\ ModesApart' /\ ParallelismRespected' /\ Waited'
      BY <1>2, <2>5 DEF Books, ModesApart, ParallelismRespected, Waited
  <2>8. OnTheWay' /\ OncePerPlace'
      BY <2>2, <2>3, <2>4, <2>5, MarksAreNoKeys DEF OnTheWay, OncePerPlace, n
  <2>9. OnePlace'
      BY <2>2, <2>3, <2>4, <2>5, MarksAreNoKeys DEF OnePlace, n
  <2>10. Counters'
      BY <1>2, <2>1, <2>2, <2>5, BusyFinite DEF Counters, Busy, n
  <2>11. NothingLost'
      BY <2>2, <2>3, <2>5 DEF NothingLost, n
  <2> QED
      BY <2>6, <2>7, <2>8, <2>9, <2>10, <2>11
<1> QED
    BY <1>1, <1>2

\* sync: the key of the result is in the result queue only, so that it leaves
\* running and the queue together.
LEMMA SyncKeeps ==
    ASSUME Inv, sync_result
    PROVE  Inv'
<1> USE DEF Inv, Parts, execVars, localVars
<1> DEFINE r == Head(result_queue)
           T == Tail(result_queue)
           n == Len(result_queue)
<1>1. /\ T \in Seq(Keys \X EventStates) /\ Len(T) = n - 1 /\ n \in Nat \ {0}
      /\ \A i \in 1..Len(T) : i + 1 \in 1..n /\ T[i] = result_queue[i + 1]
      /\ \A i \in 1..n : i # 1 => i - 1 \in 1..Len(T) /\ T[i - 1] = result_queue[i]
      /\ r = result_queue[1] /\ r \in Keys \X EventStates
    BY TailFact DEF sync_result, TypeOK
<1>2. r[1] \in Keys /\ r[2] \in EventStates
    BY <1>1
<1>3. /\ running' = running \ {r[1]} /\ result_queue' = T
      /\ event_buffer' = [k \in Keys |-> IF k = r[1] THEN r[2] ELSE event_buffer[k]]
      /\ workers_active' = IF Limited THEN workers_active ELSE workers_active - 1
      /\ UNCHANGED <<queued_tasks, parallelism, owner, task_queue, unfinished, worker, spawned,
                     launchErrors>>
      /\ Limited' = Limited
    BY DEF sync_result, change_states, Limited
<1> HIDE DEF r, T, n
<1>4. IsFiniteSet(spawned) /\ Cardinality(spawned) \in Nat /\ launchErrors \in Nat
    BY FS_Subset, FS_CardinalityType DEF Books, OnTheWay, TypeOK
<1>5. TypeOK'
  <2>1. workers_active' \in Nat
      BY <1>1, <1>3, <1>4 DEF Counters, TypeOK, n
  <2> QED
      BY <1>1, <1>2, <1>3, <2>1 DEF TypeOK, ExecTypeOK
<1>6. Books' /\ ModesApart'
    BY <1>3, FS_RemoveElement DEF Books, ModesApart
<1>7. ParallelismRespected'
  <2>1. Cardinality(running') <= Cardinality(running) /\ Cardinality(running') \in Nat
        /\ Cardinality(running) \in Nat
      BY <1>3, FS_Subset, FS_CardinalityType DEF Books
  <2>2. parallelism \in Nat
      BY WorkersAssumption, FS_CardinalityType DEF TypeOK
  <2> QED
      BY <1>3, <2>1, <2>2 DEF ParallelismRespected, Limited
<1>8. OnTheWay'
  <2>1. 1 \in 1..n
      BY <1>1
  <2>2. \A i \in 1..Len(task_queue) : task_queue[i] # r[1]
      BY <1>1, <2>1 DEF OnePlace, n
  <2>3. \A w \in Workers : worker[w] # r[1]
      BY <1>1, <2>1 DEF OnePlace, n
  <2>4. r[1] \notin spawned
      BY <1>1, <2>1 DEF OnePlace, n
  <2>5. \A i \in 1..Len(T) : T[i][1] # r[1] /\ T[i][1] \in running
    <3> TAKE i \in 1..Len(T)
    <3>1. i + 1 \in 1..n /\ i + 1 # 1 /\ T[i] = result_queue[i + 1]
        BY <1>1
    <3> QED
        BY <1>1, <2>1, <3>1 DEF OncePerPlace, OnTheWay, n
  <2> QED
      BY <1>3, <2>2, <2>3, <2>4, <2>5 DEF OnTheWay
<1>9. OncePerPlace'
  <2>1. ASSUME NEW i \in 1..Len(T), NEW j \in 1..Len(T), T[i][1] = T[j][1]
        PROVE  i = j
    <3>1. i + 1 = j + 1
        BY <1>1, <2>1 DEF OncePerPlace, n
    <3> QED
        BY <1>1, <3>1
  <2> QED
      BY <1>3, <2>1 DEF OncePerPlace
<1>10. OnePlace'
  <2>1. \A j \in 1..Len(T) : \E i \in 1..n : T[j] = result_queue[i]
      BY <1>1
  <2>2. /\ \A i \in 1..Len(task_queue), j \in 1..Len(T) : task_queue[i] # T[j][1]
        /\ \A w \in Workers, j \in 1..Len(T) : worker[w] # T[j][1]
        /\ \A j \in 1..Len(T) : T[j][1] \notin spawned
      BY <2>1 DEF OnePlace, n
  <2> QED
      BY <1>3, <2>2 DEF OnePlace
<1>11. Counters'
    BY <1>1, <1>3, <1>4 DEF Counters, Busy, n
<1>12. Waited'
  <2>1. owner # "ended"
      BY DEF sync_result
  <2>2. owner = "last_sync" => Limited
      BY <1>1, <1>4 DEF Waited, Counters, n
  <2> QED
      BY <1>3, <2>1, <2>2 DEF Waited
<1>13. NothingLost'
  <2> SUFFICES ASSUME launchErrors = 0, NEW k \in running'
               PROVE  \/ \E i \in 1..Len(task_queue') : task_queue'[i] = k
                      \/ \E w \in Workers : worker'[w] = k
                      \/ k \in spawned'
                      \/ \E i \in 1..Len(result_queue') : result_queue'[i][1] = k
      BY <1>3 DEF NothingLost
  <2>1. k \in running /\ k # r[1]
      BY <1>3
  <2>2. ASSUME NEW i \in 1..n, result_queue[i][1] = k
        PROVE  \E j \in 1..Len(T) : T[j][1] = k
      BY <1>1, <2>1, <2>2
  <2> QED
      BY <1>3, <2>1, <2>2 DEF NothingLost, n
<1> QED
    BY <1>5, <1>6, <1>7, <1>8, <1>9, <1>10, <1>11, <1>12, <1>13

\* A worker takes the first item of the queue in its own hands, or stops.
LEMMA TakeKeeps ==
    ASSUME Inv, NEW w \in Workers, take(w)
    PROVE  Inv'
<1> USE DEF Inv, Parts, execVars, localVars
<1> DEFINE h == Head(task_queue)
           T == Tail(task_queue)
           n == Len(task_queue)
<1>1. /\ T \in Seq(Keys \cup {Poison}) /\ Len(T) = n - 1 /\ n \in Nat \ {0}
      /\ \A i \in 1..Len(T) : i + 1 \in 1..n /\ T[i] = task_queue[i + 1]
      /\ \A i \in 1..n : i # 1 => i - 1 \in 1..Len(T) /\ T[i - 1] = task_queue[i]
      /\ h = task_queue[1] /\ h \in Keys \cup {Poison}
    BY TailFact DEF take, TypeOK
<1>2. /\ task_queue' = T /\ worker[w] = Idle
      /\ worker' = [worker EXCEPT ![w] = IF h = Poison THEN Stopped ELSE h]
      /\ unfinished' = IF h = Poison THEN unfinished - 1 ELSE unfinished
      /\ UNCHANGED <<execVars, parallelism, owner, spawned, workers_active, result_queue,
                     launchErrors>>
      /\ Limited' = Limited
    BY DEF take, Limited
<1>3. Limited
    BY <1>2 DEF ModesApart, Idle, Stopped
<1> HIDE DEF h, T, n
<1>4. 1 \in 1..n /\ worker \in [Workers -> Keys \cup {Idle, Stopped}]
    BY <1>1 DEF TypeOK
<1>5. /\ worker'[w] = (IF h = Poison THEN Stopped ELSE h)
      /\ \A v \in Workers : v # w => worker'[v] = worker[v]
    BY <1>2, <1>4
<1>6. unfinished' = Len(T) + Cardinality(Busy') /\ unfinished' \in Nat
  <2>1. CASE h = Poison
    <3>1. Busy' = Busy
        BY <1>4, <1>2, <1>5, <2>1, MarksAreNoKeys DEF Busy
    <3> QED
        BY <1>1, <1>2, <1>3, <2>1, <3>1, BusyFinite DEF Counters, n
  <2>2. CASE h # Poison
    <3>1. Cardinality(Busy') = Cardinality(Busy) + 1
        BY <1>1, <1>2, <2>2, BusyAdd, MarksAreNoKeys
    <3> QED
        BY <1>1, <1>2, <1>3, <2>2, <3>1, BusyFinite DEF Counters, n
  <2> QED
      BY <2>1, <2>2
<1>7. TypeOK'
    BY <1>1, <1>2, <1>4, <1>6 DEF TypeOK, ExecTypeOK
<1>8. Books' /\ ParallelismRespected' /\ ModesApart' /\ Counters'
    BY <1>2, <1>3, <1>6 DEF Books, ParallelismRespected, ModesApart, Counters
<1>9. OnTheWay'
    BY <1>1, <1>2, <1>4, <1>5, MarksAreNoKeys DEF OnTheWay, n
<1>10. OncePerPlace'
  <2>1. ASSUME NEW i \in 1..Len(T), NEW j \in 1..Len(T), T[i] \in Keys, T[i] = T[j]
        PROVE  i = j
    <3>1. i + 1 = j + 1
        BY <1>1, <2>1 DEF OncePerPlace, n
    <3> QED
        BY <1>1, <3>1
  <2>2. ASSUME NEW v \in Workers, NEW u \in Workers, worker'[v] \in Keys, worker'[v] = worker'[u]
        PROVE  v = u
      BY <1>1, <1>4, <1>5, <2>2, MarksAreNoKeys DEF OncePerPlace, OnePlace, n
  <2> QED
      BY <1>2, <2>1, <2>2 DEF OncePerPlace
<1>11. OnePlace'
  <2>1. ASSUME NEW i \in 1..Len(T), NEW v \in Workers, T[i] \in Keys
        PROVE  T[i] # worker'[v]
    <3>1. i + 1 \in 1..n /\ T[i] = task_queue[i + 1] /\ i + 1 # 1
        BY <1>1
    <3>2. T[i] # h
        BY <1>1, <1>4, <2>1, <3>1 DEF OncePerPlace, n
    <3>3. \A u \in Workers : T[i] # worker[u]
        BY <2>1, <3>1 DEF OnePlace, n
    <3> QED
        BY <1>5, <2>1, <3>2, <3>3, MarksAreNoKeys
  <2>2. ASSUME NEW i \in 1..Len(T), NEW j \in 1..Len(result_queue)
        PROVE  T[i] # result_queue[j][1]
      BY <1>1 DEF OnePlace, n
  <2>3. ASSUME NEW v \in Workers, NEW j \in 1..Len(result_queue)
        PROVE  worker'[v] # result_queue[j][1]
      BY <1>1, <1>4, <1>5, MarksAreNoKeys DEF OnePlace, n
  <2> QED
      BY <1>2, <2>1, <2>2, <2>3 DEF OnePlace
<1>12. Waited'
    BY <1>1, <1>2, <1>3, BusyFinite DEF Waited, Counters, n
<1>13. NothingLost'
  <2> SUFFICES ASSUME launchErrors = 0, NEW k \in running
               PROVE  \/ \E i \in 1..Len(T) : T[i] = k
                      \/ \E v \in Workers : worker'[v] = k
                      \/ k \in spawned
                      \/ \E i \in 1..Len(result_queue) : result_queue[i][1] = k
      BY <1>2 DEF NothingLost
  <2>1. k \in Keys
      BY DEF TypeOK, ExecTypeOK
  <2>2. ASSUME NEW i \in 1..n, task_queue[i] = k
        PROVE  (\E j \in 1..Len(T) : T[j] = k) \/ worker'[w] = k
      BY <1>1, <1>5, <2>1, <2>2, MarksAreNoKeys
  <2>3. ASSUME NEW v \in Workers, worker[v] = k
        PROVE  worker'[v] = k
      BY <1>2, <1>5, <2>1, <2>3, MarksAreNoKeys
  <2> QED
      BY <2>2, <2>3 DEF NothingLost, n
<1> QED
    BY <1>7, <1>8, <1>9, <1>10, <1>11, <1>12, <1>13

\* A command that ends leaves the worker for the result queue.
LEMMA ExecuteKeeps ==
    ASSUME Inv, NEW w \in Workers, NEW state \in EventStates, execute_work(w, state)
    PROVE  Inv'
<1> USE DEF Inv, Parts, execVars, localVars
<1> DEFINE k == worker[w]
           n == Len(result_queue)
<1>1. /\ k \in Keys
      /\ result_queue' = Append(result_queue, <<k, state>>)
      /\ worker' = [worker EXCEPT ![w] = Idle] /\ unfinished' = unfinished - 1
      /\ UNCHANGED <<execVars, parallelism, owner, task_queue, spawned, workers_active,
                     launchErrors>>
      /\ Limited' = Limited
    BY DEF execute_work, Limited
<1>2. /\ result_queue' \in Seq(Keys \X EventStates) /\ Len(result_queue') = n + 1 /\ n \in Nat
      /\ \A i \in 1..n : i \in 1..(n + 1) /\ result_queue'[i] = result_queue[i]
      /\ result_queue'[n + 1] = <<k, state>> /\ n + 1 \in 1..(n + 1)
      /\ \A i \in 1..(n + 1) : i \in 1..n \/ i = n + 1
    BY <1>1, AppendProperties, LenProperties DEF TypeOK
<1>3. Limited
    BY <1>1, MarksAreNoKeys DEF ModesApart
<1>4. worker \in [Workers -> Keys \cup {Idle, Stopped}]
    BY DEF TypeOK
<1>5. worker'[w] = Idle /\ \A v \in Workers : v # w => worker'[v] = worker[v]
    BY <1>1, <1>4
<1>6. unfinished' = Len(task_queue) + Cardinality(Busy') /\ unfinished' \in Nat /\ unfinished # 0
  <2>1. Cardinality(Busy') = Cardinality(Busy) - 1 /\ Cardinality(Busy) >= 1
      BY <1>1, BusyRemove
  <2>2. Len(task_queue) \in Nat
      BY LenProperties DEF TypeOK
  <2> QED
      BY <1>1, <1>3, <2>1, <2>2, BusyFinite DEF Counters
<1> HIDE DEF k, n
<1>7. TypeOK'
    BY <1>1, <1>2, <1>4, <1>6 DEF TypeOK, ExecTypeOK
<1>8. Books' /\ ParallelismRespected' /\ ModesApart' /\ Counters'
    BY <1>1, <1>3, <1>6 DEF Books, ParallelismRespected, ModesApart, Counters
<1>9. OnTheWay'
    BY <1>1, <1>2, <1>5, MarksAreNoKeys DEF OnTheWay, k, n
<1>10. OncePerPlace'
  <2>1. \A i \in 1..n : result_queue[i][1] # k
      BY DEF OnePlace, k, n
  <2>2. \A i, j \in 1..(n + 1) : result_queue'[i][1] = result_queue'[j][1] => i = j
      BY <1>2, <2>1 DEF OncePerPlace, n
  <2>3. \A v, u \in Workers : (worker'[v] \in Keys /\ worker'[v] = worker'[u]) => v = u
      BY <1>5, MarksAreNoKeys DEF OncePerPlace
  <2> QED
      BY <1>1, <1>2, <2>2, <2>3 DEF OncePerPlace
<1>11. OnePlace'
  <2>1. \A i \in 1..Len(task_queue), v \in Workers :
          task_queue[i] \in Keys => task_queue[i] # worker'[v]
      BY <1>5, MarksAreNoKeys DEF OnePlace
  <2>2. \A i \in 1..Len(task_queue), j \in 1..(n + 1) : task_queue[i] # result_queue'[j][1]
      BY <1>1, <1>2 DEF OnePlace, k, n
  <2>3. \A v \in Workers, j \in 1..(n + 1) : worker'[v] # result_queue'[j][1]
      BY <1>1, <1>2, <1>5, MarksAreNoKeys DEF OnePlace, OncePerPlace, k, n
  <2>4. \A j \in 1..(n + 1) : result_queue'[j][1] \notin spawned
      BY <1>2, <1>3 DEF ModesApart
  <2> QED
      BY <1>1, <1>2, <2>1, <2>2, <2>3, <2>4 DEF OnePlace
<1>12. Waited'
    BY <1>1, <1>3, <1>6 DEF Waited
<1>13. NothingLost'
    BY <1>1, <1>2, <1>5 DEF NothingLost, k, n
<1> QED
    BY <1>7, <1>8, <1>9, <1>10, <1>11, <1>12, <1>13

\* The same for a process of unlimited mode.
LEMMA SpawnedKeeps ==
    ASSUME Inv, NEW k \in Keys, NEW state \in EventStates, run_spawned(k, state)
    PROVE  Inv'
<1> USE DEF Inv, Parts, execVars, localVars
<1> DEFINE n == Len(result_queue)
<1>1. /\ k \in spawned /\ spawned' = spawned \ {k}
      /\ result_queue' = Append(result_queue, <<k, state>>)
      /\ UNCHANGED <<execVars, parallelism, owner, task_queue, unfinished, worker,
                     workers_active, launchErrors>>
      /\ Limited' = Limited
    BY DEF run_spawned, Limited
<1>2. /\ result_queue' \in Seq(Keys \X EventStates) /\ Len(result_queue') = n + 1 /\ n \in Nat
      /\ \A i \in 1..n : i \in 1..(n + 1) /\ result_queue'[i] = result_queue[i]
      /\ result_queue'[n + 1] = <<k, state>> /\ n + 1 \in 1..(n + 1)
      /\ \A i \in 1..(n + 1) : i \in 1..n \/ i = n + 1
    BY <1>1, AppendProperties, LenProperties DEF TypeOK
<1>3. ~Limited /\ task_queue = <<>> /\ \A w \in Workers : worker[w] = Stopped
    BY <1>1 DEF ModesApart
<1>4. /\ IsFiniteSet(spawned) /\ Cardinality(spawned) \in Nat \ {0}
      /\ Cardinality(spawned') = Cardinality(spawned) - 1
  <2>1. IsFiniteSet(spawned)
      BY FS_Subset DEF Books, OnTheWay
  <2> QED
      BY <1>1, <2>1, FS_RemoveElement, FS_EmptySet, FS_CardinalityType
<1> HIDE DEF n
<1>5. TypeOK'
    BY <1>1, <1>2 DEF TypeOK, ExecTypeOK
<1>6. Books' /\ ParallelismRespected' /\ ModesApart'
    BY <1>1, <1>3 DEF Books, ParallelismRespected, ModesApart
<1>7. OnTheWay'
    BY <1>1, <1>2 DEF OnTheWay, n
<1>8. OncePerPlace'
  <2>1. \A i \in 1..n : result_queue[i][1] # k
      BY <1>1 DEF OnePlace, n
  <2>2. \A i, j \in 1..(n + 1) : result_queue'[i][1] = result_queue'[j][1] => i = j
      BY <1>2, <2>1 DEF OncePerPlace, n
  <2> QED
      BY <1>1, <1>2, <2>2 DEF OncePerPlace
<1>9. OnePlace'
  <2>1. Len(task_queue) = 0
      BY <1>3, EmptySeq
  <2>2. \A w \in Workers, j \in 1..(n + 1) : worker[w] # result_queue'[j][1]
      BY <1>2, <1>3, MarksAreNoKeys DEF n
  <2>3. \A j \in 1..(n + 1) : result_queue'[j][1] \notin spawned'
      BY <1>1, <1>2 DEF OnePlace, n
  <2> QED
      BY <1>1, <1>2, <2>1, <2>2, <2>3 DEF OnePlace
<1>10. Counters'
  <2>1. launchErrors \in Nat
      BY DEF TypeOK
  <2> QED
      BY <1>1, <1>2, <1>3, <1>4, <2>1 DEF Counters, n
<1>11. Waited'
  <2>1. launchErrors \in Nat
      BY DEF TypeOK
  <2>2. workers_active # 0
      BY <1>2, <1>3, <1>4, <2>1 DEF Counters, n
  <2> QED
      BY <1>1, <1>3, <2>2 DEF Waited
<1>12. NothingLost'
    BY <1>1, <1>2 DEF NothingLost, n
<1> QED
    BY <1>5, <1>6, <1>7, <1>8, <1>9, <1>10, <1>11, <1>12

\* A command that cannot be launched stays running in the books, and the counters
\* still tell what end waits for: nobody in limited mode, for ever in the other.
LEMMA LaunchErrorKeeps ==
    ASSUME Inv,
           \/ \E w \in Workers : launch_error(w)
           \/ \E k \in Keys : launch_error_spawned(k)
    PROVE  Inv'
<1> USE DEF Inv, Parts, execVars, localVars
<1>1. launchErrors \in Nat /\ launchErrors' = launchErrors + 1 /\ launchErrors' \in 0..MaxLaunchErrors
    BY MaxLaunchErrorsAssumption DEF launch_error, launch_error_spawned, TypeOK
<1>2. NothingLost'
    BY <1>1 DEF NothingLost
<1>3. ASSUME NEW w \in Workers, launch_error(w) PROVE Inv'
  <2>1. /\ worker[w] \in Keys /\ worker' = [worker EXCEPT ![w] = Stopped]
        /\ unfinished' = unfinished - 1
        /\ UNCHANGED <<execVars, parallelism, owner, task_queue, spawned, workers_active,
                       result_queue>>
        /\ Limited' = Limited
      BY <1>3 DEF launch_error, Limited
  <2>2. Limited
      BY <2>1, MarksAreNoKeys DEF ModesApart
  <2>3. worker \in [Workers -> Keys \cup {Idle, Stopped}]
      BY DEF TypeOK
  <2>4. worker'[w] = Stopped /\ \A v \in Workers : v # w => worker'[v] = worker[v]
      BY <2>1, <2>3
  <2>5. unfinished' = Len(task_queue) + Cardinality(Busy') /\ unfinished' \in Nat /\ unfinished # 0
    <3>1. Cardinality(Busy') = Cardinality(Busy) - 1 /\ Cardinality(Busy) >= 1
        BY <2>1, BusyRemove
    <3>2. Len(task_queue) \in Nat
        BY LenProperties DEF TypeOK
    <3> QED
        BY <2>1, <2>2, <3>1, <3>2, BusyFinite DEF Counters
  <2>6. TypeOK'
      BY <1>1, <2>1, <2>3, <2>5 DEF TypeOK, ExecTypeOK
  <2>7. Books' /\ ParallelismRespected' /\ ModesApart' /\ Counters' /\ Waited'
      BY <2>1, <2>2, <2>5 DEF Books, ParallelismRespected, ModesApart, Counters, Waited
  <2>8. OnTheWay' /\ OncePerPlace'
      BY <2>1, <2>4, MarksAreNoKeys DEF OnTheWay, OncePerPlace
  <2>9. OnePlace'
      BY <2>1, <2>4, MarksAreNoKeys DEF OnePlace
  <2> QED
      BY <1>2, <2>6, <2>7, <2>8, <2>9
<1>4. ASSUME NEW k \in Keys, launch_error_spawned(k) PROVE Inv'
  <2>1. /\ k \in spawned /\ spawned' = spawned \ {k}
        /\ UNCHANGED <<execVars, parallelism, owner, task_queue, unfinished, worker,
                       workers_active, result_queue>>
        /\ Limited' = Limited
      BY <1>4 DEF launch_error_spawned, Limited
  <2>2. ~Limited
      BY <2>1 DEF ModesApart
  <2>3. /\ IsFiniteSet(spawned) /\ Cardinality(spawned) \in Nat \ {0}
        /\ Cardinality(spawned') = Cardinality(spawned) - 1
    <3>1. IsFiniteSet(spawned)
        BY FS_Subset DEF Books, OnTheWay
    <3> QED
        BY <2>1, <3>1, FS_RemoveElement, FS_EmptySet, FS_CardinalityType
  <2>4. Len(result_queue) \in Nat
      BY LenProperties DEF TypeOK
  <2>5. TypeOK'
      BY <1>1, <2>1 DEF TypeOK, ExecTypeOK
  <2>6. Books' /\ ParallelismRespected' /\ ModesApart'
      BY <2>1, <2>2 DEF Books, ParallelismRespected, ModesApart
  <2>7. OnTheWay' /\ OncePerPlace' /\ OnePlace'
      BY <2>1 DEF OnTheWay, OncePerPlace, OnePlace
  <2>8. Counters' /\ Waited'
    <3>1. workers_active # 0
        BY <1>1, <2>2, <2>3, <2>4 DEF Counters
    <3> QED
        BY <1>1, <2>1, <2>2, <2>3, <2>4, <3>1 DEF Counters, Waited
  <2> QED
      BY <1>2, <2>5, <2>6, <2>7, <2>8
<1> QED
    BY <1>3, <1>4

\* Inv holds initially and is inductive.
LEMMA InvHolds == Spec => []Inv
<1>1. Init => Inv
  <2> SUFFICES ASSUME Init PROVE Inv
    OBVIOUS
  <2> USE DEF Init, ExecInit
  <2>1. TypeOK
      BY MaxLaunchErrorsAssumption, EmptySeq DEF TypeOK, ExecTypeOK
  <2>2. Len(task_queue) = 0 /\ Len(result_queue) = 0
      BY EmptySeq
  <2>3. \A w \in Workers : worker[w] \notin Keys
      BY MarksAreNoKeys, <2>1
  <2>4. Cardinality(Busy) = 0 /\ Cardinality(spawned) = 0 /\ Cardinality(running) = 0
        /\ IsFiniteSet(running) /\ IsFiniteSet(queued_tasks)
      BY <2>3, FS_EmptySet DEF Busy
  <2>5. Books /\ OnTheWay /\ OncePerPlace /\ OnePlace
      BY <2>2, <2>3, <2>4 DEF Books, OnTheWay, OncePerPlace, OnePlace
  <2>6. ModesApart /\ Counters /\ Waited /\ NothingLost
      BY <2>2, <2>4 DEF ModesApart, Counters, Waited, NothingLost
  <2>7. ParallelismRespected
    <3>1. Cardinality(Workers) \in Nat
        BY WorkersAssumption, FS_CardinalityType
    <3> QED
        BY <2>4, <3>1 DEF ParallelismRespected
  <2> QED
      BY <2>1, <2>5, <2>6, <2>7 DEF Inv, Parts
<1>2. Inv /\ [Next]_vars => Inv'
  <2> SUFFICES ASSUME Inv, [Next]_vars PROVE Inv'
    OBVIOUS
  <2>1. ASSUME \/ \E k \in Keys : queue_command(k)
               \/ sync_done \/ joined
               \/ \E D \in SUBSET Dags : get_event_buffer(D)
        PROVE  Inv'
      BY <2>1, OwnerKeeps
  <2>2. CASE heartbeat
      BY <2>2, HeartbeatLimitedKeeps, HeartbeatUnlimitedKeeps
  <2>3. CASE sync_result
      BY <2>3, SyncKeeps
  <2>4. CASE end
      BY <2>4, EndKeeps
  <2>5. ASSUME NEW w \in Workers, WorkerStep(w) \/ launch_error(w) PROVE Inv'
      BY <2>5, TakeKeeps, ExecuteKeeps, LaunchErrorKeeps DEF WorkerStep
  <2>6. ASSUME NEW k \in Keys,
               (\E s \in EventStates : run_spawned(k, s)) \/ launch_error_spawned(k)
        PROVE  Inv'
      BY <2>6, SpawnedKeeps, LaunchErrorKeeps
  <2>7. CASE UNCHANGED vars
    <3> USE <2>7 DEF vars, execVars, localVars, Inv, Parts
    <3>1. TypeOK' /\ Limited' = Limited
        BY DEF TypeOK, ExecTypeOK, Limited
    <3>2. Books' /\ OnTheWay' /\ OncePerPlace' /\ OnePlace' /\ NothingLost'
        BY DEF Books, OnTheWay, OncePerPlace, OnePlace, NothingLost
    <3>3. ModesApart' /\ Counters' /\ Waited' /\ ParallelismRespected'
        BY <3>1 DEF ModesApart, Counters, Waited, ParallelismRespected, Busy
    <3> QED
        BY <3>1, <3>2, <3>3
  <2> QED
      BY <2>1, <2>2, <2>3, <2>4, <2>5, <2>6, <2>7 DEF Next, OwnerSync
<1> QED
    BY <1>1, <1>2, PTL DEF Spec
-----------------------------------------------------------------------------
(***************************************************************************)
(* BaseExecutor.heartbeat never lets more than parallelism commands run at *)
(* once, whatever the priorities and however results come back.            *)
(***************************************************************************)
THEOREM ParallelismAlwaysRespected == Spec => []ParallelismRespected
<1>1. Inv => ParallelismRespected
    BY DEF Inv, Parts
<1> QED
    BY <1>1, InvHolds, PTL

\* The places as sets.
LEMMA PlacesFact ==
    ASSUME Inv
    PROVE  /\ DOMAIN task_queue = 1..Len(task_queue) /\ DOMAIN result_queue = 1..Len(result_queue)
           /\ Submitted \subseteq running /\ Held \subseteq running
           /\ spawned \subseteq running /\ Reported \subseteq running
           /\ Submitted \cap Held = {} /\ Submitted \cap Reported = {} /\ Held \cap Reported = {}
           /\ spawned \cap Submitted = {} /\ spawned \cap Held = {} /\ spawned \cap Reported = {}
<1> USE DEF Inv, Parts
<1>1. DOMAIN task_queue = 1..Len(task_queue) /\ DOMAIN result_queue = 1..Len(result_queue)
    BY LenProperties DEF TypeOK
<1>2. /\ Submitted \subseteq running /\ Held \subseteq running
      /\ spawned \subseteq running /\ Reported \subseteq running
    BY <1>1 DEF Submitted, ToSet, Held, Reported, OnTheWay
<1>3. Submitted \cap Held = {} /\ Submitted \cap Reported = {} /\ Held \cap Reported = {}
    BY <1>1 DEF Submitted, ToSet, Held, Reported, OnePlace
<1>4. spawned \cap Submitted = {} /\ spawned \cap Held = {}
  <2>1. CASE Limited
      BY <2>1 DEF ModesApart
  <2>2. CASE ~Limited
    <3>1. Len(task_queue) = 0
        BY <2>2, EmptySeq DEF ModesApart
    <3> QED
        BY <1>1, <2>2, <3>1, MarksAreNoKeys DEF ModesApart, Submitted, ToSet, Held
  <2> QED
      BY <2>1, <2>2
<1>5. spawned \cap Reported = {}
    BY <1>1 DEF Reported, OnePlace
<1> QED
    BY <1>1, <1>2, <1>3, <1>4, <1>5

\* A one-to-one map onto a set counts it.
LEMMA Counting ==
    ASSUME NEW D, NEW S, IsFiniteSet(D), NEW f \in [D -> S],
           \A a, b \in D : f[a] = f[b] => a = b,
           \A x \in S : \E a \in D : f[a] = x
    PROVE  IsFiniteSet(S) /\ Cardinality(S) = Cardinality(D)
<1>1. f \in Bijection(D, S)
    BY DEF Bijection, Injection, Surjection, IsInjective
<1>2. ExistsBijection(D, S)
    BY <1>1 DEF ExistsBijection
<1> QED
    BY <1>2, FS_Bijection

\* The places of a key are disjoint, and their sizes add up.
LEMMA ConservationFact == Inv => Conservation
<1> SUFFICES ASSUME Inv, launchErrors = 0
             PROVE  /\ running = Submitted \cup Held \cup spawned \cup Reported
                    /\ Cardinality(running) =
                         Cardinality({ i \in DOMAIN task_queue : task_queue[i] # Poison })
                         + Cardinality({ w \in Workers : worker[w] \in Keys })
                         + Cardinality(spawned) + Len(result_queue)
  BY DEF Conservation
<1> USE DEF Inv, Parts
<1>1. running = Submitted \cup Held \cup spawned \cup Reported
  <2>1. running \subseteq Keys
      BY DEF TypeOK, ExecTypeOK
  <2>2. \A k \in running : k \in Submitted \cup Held \cup spawned \cup Reported
      BY <2>1, PlacesFact DEF NothingLost, Submitted, ToSet, Held, Reported
  <2> QED
      BY <2>2, PlacesFact
<1> DEFINE D == { i \in DOMAIN task_queue : task_queue[i] # Poison }
<1>2. IsFiniteSet(Submitted) /\ Cardinality(Submitted) = Cardinality(D)
  <2>1. IsFiniteSet(D)
    <3>1. Len(task_queue) \in Nat
        BY LenProperties DEF TypeOK
    <3>2. IsFiniteSet(1..Len(task_queue))
        BY <3>1, FS_Interval
    <3> QED
        BY <3>2, FS_Subset, PlacesFact
  <2>2. \A i \in D : i \in 1..Len(task_queue) /\ task_queue[i] \in Keys
      BY PlacesFact, ElementOfSeq DEF TypeOK
  <2>3. \A k \in Submitted : \E i \in D : task_queue[i] = k
      BY MarksAreNoKeys DEF Submitted, ToSet
  <2>4. \A i \in D : task_queue[i] \in Submitted
      BY <2>2 DEF Submitted, ToSet
  <2> DEFINE f == [i \in D |-> task_queue[i]]
  <2> HIDE DEF D
  <2>5. f \in [D -> Submitted] /\ \A i \in D : f[i] = task_queue[i]
      BY <2>4
  <2>6. \A i, j \in D : f[i] = f[j] => i = j
      BY <2>2, <2>5 DEF OncePerPlace
  <2>7. \A k \in Submitted : \E i \in D : f[i] = k
      BY <2>3, <2>5
  <2> HIDE DEF f
  <2> QED
      BY <2>1, <2>5, <2>6, <2>7, Counting
<1>3. IsFiniteSet(Held) /\ Cardinality(Held) = Cardinality(Busy)
  <2> DEFINE f == [w \in Busy |-> worker[w]]
  <2>1. f \in [Busy -> Held] /\ \A w \in Busy : f[w] = worker[w]
      BY DEF Busy, Held
  <2>2. \A v, w \in Busy : f[v] = f[w] => v = w
      BY <2>1 DEF OncePerPlace, Busy
  <2>3. \A k \in Held : \E w \in Busy : f[w] = k
      BY <2>1 DEF Held, Busy
  <2> HIDE DEF f
  <2> QED
      BY <2>1, <2>2, <2>3, BusyFinite, Counting
<1>4. IsFiniteSet(Reported) /\ Cardinality(Reported) = Len(result_queue)
  <2> DEFINE R == 1..Len(result_queue)
             f == [i \in R |-> result_queue[i][1]]
  <2>1. IsFiniteSet(R) /\ Cardinality(R) = Len(result_queue)
    <3>1. Len(result_queue) \in Nat
        BY LenProperties DEF TypeOK
    <3>2. IsFiniteSet(R) /\ Cardinality(R) = IF 1 > Len(result_queue) THEN 0
                                             ELSE Len(result_queue) - 1 + 1
        BY <3>1, FS_Interval
    <3> QED
        BY <3>1, <3>2
  <2>2. f \in [R -> Reported] /\ \A i \in R : f[i] = result_queue[i][1]
      BY PlacesFact DEF Reported
  <2>3. \A i, j \in R : f[i] = f[j] => i = j
      BY <2>2 DEF OncePerPlace
  <2>4. \A k \in Reported : \E i \in R : f[i] = k
      BY <2>2, PlacesFact DEF Reported
  <2> HIDE DEF f, R
  <2> QED
      BY <2>1, <2>2, <2>3, <2>4, Counting
<1>5. IsFiniteSet(spawned)
    BY FS_Subset, PlacesFact DEF Books
<1>6. IsFiniteSet(Submitted \cup Held)
      /\ Cardinality(Submitted \cup Held) = Cardinality(Submitted) + Cardinality(Held)
    BY <1>2, <1>3, PlacesFact, DisjointUnion
<1>7. IsFiniteSet(Submitted \cup Held \cup spawned)
      /\ Cardinality(Submitted \cup Held \cup spawned)
           = Cardinality(Submitted \cup Held) + Cardinality(spawned)
  <2>1. (Submitted \cup Held) \cap spawned = {}
      BY PlacesFact
  <2> QED
      BY <1>5, <1>6, <2>1, DisjointUnion
<1>8. Cardinality(running)
        = Cardinality(Submitted \cup Held \cup spawned) + Cardinality(Reported)
  <2>1. (Submitted \cup Held \cup spawned) \cap Reported = {}
      BY PlacesFact
  <2> QED
      BY <1>1, <1>4, <1>7, <2>1, DisjointUnion
<1> QED
    BY <1>1, <1>2, <1>3, <1>4, <1>6, <1>7, <1>8 DEF Busy

(***************************************************************************)
(* No command is lost and none runs twice, as long as processes can be     *)
(* started: each running key is at exactly one place on its way.           *)
(***************************************************************************)
THEOREM AlwaysConserved == Spec => []Conservation
BY ConservationFact, InvHolds, PTL

(***************************************************************************)
(* When end() has returned, queue.join() (or the wait on workers_active)   *)
(* and the last sync have seen every command to its end.                   *)
(***************************************************************************)
THEOREM EndMeansDone == Spec => []EndedMeansDone
<1>1. Inv => EndedMeansDone
  <2> SUFFICES ASSUME Inv, owner = "ended"
               PROVE  /\ Submitted \cup Held \cup spawned \cup Reported = {}
                      /\ launchErrors = 0 => running = {}
    BY DEF EndedMeansDone
  <2> USE DEF Inv, Parts
  <2>1. Reported = {}
    <3>1. Len(result_queue) = 0
        BY EmptySeq DEF Waited
    <3> QED
        BY <3>1, PlacesFact DEF Reported
  <2>2. Submitted = {} /\ Held = {} /\ spawned = {}
    <3>1. CASE Limited
      <4>1. Len(task_queue) \in Nat
          BY LenProperties DEF TypeOK
      <4>2. Len(task_queue) = 0 /\ Cardinality(Busy) = 0
          BY <3>1, <4>1, BusyFinite DEF Waited, Counters
      <4>3. Busy = {}
          BY <4>2, BusyFinite, FS_EmptySet
      <4> QED
          BY <3>1, <4>2, <4>3, PlacesFact DEF Submitted, ToSet, Held, Busy, ModesApart
    <3>2. CASE ~Limited
      <4>1. Len(result_queue) \in Nat /\ launchErrors \in Nat /\ Len(task_queue) = 0
          BY <3>2, LenProperties, EmptySeq DEF TypeOK, ModesApart
      <4>2. IsFiniteSet(spawned) /\ Cardinality(spawned) \in Nat
          BY PlacesFact, FS_Subset, FS_CardinalityType DEF Books
      <4>3. Cardinality(spawned) = 0
          BY <3>2, <4>1, <4>2 DEF Waited, Counters
      <4>4. spawned = {}
          BY <4>2, <4>3, FS_EmptySet
      <4> QED
          BY <3>2, <4>1, <4>4, PlacesFact, MarksAreNoKeys DEF Submitted, ToSet, Held, ModesApart
    <3> QED
        BY <3>1, <3>2
  <2>3. launchErrors = 0 => running = {}
      BY <2>1, <2>2, ConservationFact DEF Conservation
  <2> QED
      BY <2>1, <2>2, <2>3
<1> QED
    BY <1>1, InvHolds, PTL
-----------------------------------------------------------------------------
(***************************************************************************)
(* The refinement.  The phase of a key in the contract follows from where  *)
(* the key is; a step moves the keys it is about and leaves the others     *)
(* where they are.                                                         *)
(***************************************************************************)

\* With a process, or waiting for one.
AtWork == Submitted \cup Held \cup spawned

PhaseTable ==
    /\ \A k \in Keys : /\ k \in queued_tasks => PhaseOf(k) = "queued"
                       /\ k \notin queued_tasks \cup running => PhaseOf(k) = "idle"
                       /\ k \in AtWork => PhaseOf(k) = "running"
                       /\ k \in running \ (AtWork \cup Reported) => PhaseOf(k) = "lost"
    /\ \A i \in 1..Len(result_queue) : PhaseOf(result_queue[i][1]) = result_queue[i][2]

\* The phase of a key can be read off from where it is.
LEMMA PhaseTableHolds == Inv => PhaseTable
<1> SUFFICES ASSUME Inv PROVE PhaseTable
  OBVIOUS
<1> USE DEF Inv, Parts
<1>1. \A k \in Keys : /\ k \in queued_tasks => PhaseOf(k) = "queued"
                      /\ k \notin queued_tasks \cup running => PhaseOf(k) = "idle"
                      /\ k \in AtWork => PhaseOf(k) = "running"
                      /\ k \in running \ (AtWork \cup Reported) => PhaseOf(k) = "lost"
    BY PlacesFact DEF PhaseOf, AtWork, Books
<1>2. ASSUME NEW i \in 1..Len(result_queue)
      PROVE  PhaseOf(result_queue[i][1]) = result_queue[i][2]
  <2> DEFINE k == result_queue[i][1]
             c == CHOOSE j \in DOMAIN result_queue : result_queue[j][1] = k
  <2>1. i \in DOMAIN result_queue
      BY PlacesFact
  <2>2. c \in DOMAIN result_queue /\ result_queue[c][1] = k
      BY <2>1
  <2>3. c = i
      BY <2>2, PlacesFact DEF OncePerPlace
  <2>4. k \in Reported
      BY <2>1 DEF Reported
  <2>5. k \notin queued_tasks /\ k \in running /\ k \notin Submitted \cup Held \cup spawned
      BY <2>4, PlacesFact DEF Books
  <2>6. PhaseOf(k) = result_queue[c][2]
      BY <2>4, <2>5 DEF PhaseOf
  <2> QED
      BY <2>3, <2>6
<1> QED
    BY <1>1, <1>2 DEF PhaseTable

\* A key that stays where it is keeps its phase.
LEMMA StaysPut ==
    ASSUME Inv, PhaseTable, PhaseTable', NEW k \in Keys,
           (k \in queued_tasks') <=> (k \in queued_tasks),
           (k \in running') <=> (k \in running),
           (k \in AtWork') <=> (k \in AtWork),
           (k \in Reported') <=> (k \in Reported),
           \A i \in 1..Len(result_queue) :
               result_queue[i][1] = k => \E j \in 1..Len(result_queue') : result_queue'[j] = result_queue[i]
    PROVE  PhaseOf(k)' = PhaseOf(k)
<1>1. CASE k \in queued_tasks
    BY <1>1 DEF PhaseTable
<1>2. CASE k \notin queued_tasks \cup running
    BY <1>2 DEF PhaseTable
<1>3. CASE k \in AtWork
    BY <1>3 DEF PhaseTable
<1>4. CASE k \in running \ (AtWork \cup Reported)
    BY <1>4 DEF PhaseTable
<1>5. CASE k \in Reported
  <2>1. PICK i \in 1..Len(result_queue) : result_queue[i][1] = k
      BY <1>5, PlacesFact DEF Reported
  <2>2. PICK j \in 1..Len(result_queue') : result_queue'[j] = result_queue[i]
      BY <2>1
  <2>3. PhaseOf(k) = result_queue[i][2]
      BY <2>1 DEF PhaseTable
  <2>4. PhaseOf(result_queue[j][1])' = result_queue'[j][2]
      BY DEF PhaseTable
  <2> QED
      BY <2>1, <2>2, <2>3, <2>4
<1> QED
    BY <1>1, <1>2, <1>3, <1>4, <1>5

\* queue_command is Queue, or nothing for a key that is known.
LEMMA QueueRefines ==
    ASSUME Inv, PhaseTable, PhaseTable', NEW k \in Keys, queue_command(k)
    PROVE  Contract!Next \/ UNCHANGED Contract!vars
<1> USE DEF queue_command, queue_commands, localVars
<1>1. /\ queued_tasks' = queued_tasks \cup ({k} \ running)
      /\ running' = running /\ AtWork' = AtWork /\ Reported' = Reported
      /\ result_queue' = result_queue /\ event_buffer' = event_buffer
    BY DEF AtWork, Submitted, Held, Reported
<1>2. CASE has_task(k)
  <2>1. \A x \in Keys : PhaseOf(x)' = PhaseOf(x)
    <3> TAKE x \in Keys
    <3>1. x \in queued_tasks' <=> x \in queued_tasks
        BY <1>1, <1>2 DEF has_task
    <3> QED
        BY <1>1, <3>1, StaysPut
  <2> QED
      BY <1>1, <2>1 DEF Contract!vars
<1>3. CASE ~has_task(k)
  <2>1. PhaseOf(k) = "idle" /\ PhaseOf(k)' = "queued"
      BY <1>1, <1>3 DEF PhaseTable, has_task
  <2>2. \A x \in Keys : x # k => PhaseOf(x)' = PhaseOf(x)
    <3> SUFFICES ASSUME NEW x \in Keys, x # k PROVE PhaseOf(x)' = PhaseOf(x)
      OBVIOUS
    <3>1. x \in queued_tasks' <=> x \in queued_tasks
        BY <1>1
    <3> QED
        BY <1>1, <3>1, StaysPut
  <2>3. Contract!Queue(k)
      BY <1>1, <2>1, <2>2 DEF Contract!Queue, Contract!Move
  <2> QED
      BY <2>3 DEF Contract!Next
<1> QED
    BY <1>2, <1>3

\* heartbeat is Trigger of what trigger_tasks took.
LEMMA HeartbeatRefines ==
    ASSUME Inv, PhaseTable, PhaseTable', heartbeat
    PROVE  Contract!Next
<1> USE DEF Inv, Parts
<1>1. PICK T \in SUBSET queued_tasks :
           trigger_tasks(T, open_slots(parallelism)) /\ execute_async(T)
    BY DEF heartbeat
<1>2. /\ T \in Triggerable(open_slots(parallelism))
      /\ queued_tasks' = queued_tasks \ T /\ running' = running \cup T
      /\ UNCHANGED <<worker, result_queue, event_buffer>>
    BY <1>1 DEF trigger_tasks, heartbeat
<1>3. IsFiniteSet(T) /\ T \in SUBSET Keys /\ T \cap running = {}
    BY <1>2, TriggerFact
<1>4. Held' = Held /\ Reported' = Reported
    BY <1>2 DEF Held, Reported
<1>5. AtWork' = AtWork \cup T
  <2>1. CASE Limited
    <3>1. PICK s \in SetToSeqs(T) : task_queue' = task_queue \o s
        BY <1>1, <2>1 DEF execute_async
    <3>2. s \in Seq(T) /\ \A k \in T : \E i \in 1..Len(s) : s[i] = k
        BY <1>3, SetToSeqsFact
    <3>3. s \in Seq(Keys \cup {Poison}) /\ task_queue \in Seq(Keys \cup {Poison})
        BY <1>3, <3>2, SeqMonotonic DEF TypeOK
    <3>4. Range(task_queue \o s) = Range(task_queue) \cup Range(s)
        BY <3>3, RangeConcatenation
    <3>5. Range(s) = T
      <4>1. Range(s) = { s[i] : i \in 1..Len(s) } /\ \A i \in 1..Len(s) : s[i] \in T
          BY <3>2, RangeEquality, ElementOfSeq
      <4> QED
          BY <3>2, <4>1
    <3>6. Submitted' = Submitted \cup T
        BY <1>3, <3>1, <3>4, <3>5 DEF Submitted, ToSet, Range
    <3>7. spawned' = spawned
        BY <1>1, <2>1 DEF execute_async
    <3> QED
        BY <1>4, <3>6, <3>7 DEF AtWork
  <2>2. CASE ~Limited
      BY <1>1, <1>4, <2>2 DEF execute_async, AtWork, Submitted
  <2> QED
      BY <2>1, <2>2
<1>6. \A k \in T : PhaseOf(k) = "queued" /\ PhaseOf(k)' = "running"
    BY <1>3, <1>5 DEF PhaseTable
<1>7. \A k \in Keys \ T : PhaseOf(k)' = PhaseOf(k)
    BY <1>2, <1>4, <1>5, StaysPut
<1>8. Contract!Trigger(T)
    BY <1>2, <1>3, <1>6, <1>7 DEF Contract!Trigger, Contract!Move
<1> QED
    BY <1>3, <1>8 DEF Contract!Next

\* A round of sync is Report, with the result of the command.
LEMMA SyncRefines ==
    ASSUME Inv, PhaseTable, PhaseTable', sync_result
    PROVE  Contract!Next
<1> USE DEF Inv, Parts
<1> PICK r : r = Head(result_queue)
  OBVIOUS
<1> DEFINE T == Tail(result_queue)
           n == Len(result_queue)
<1>1. /\ T \in Seq(Keys \X EventStates) /\ Len(T) = n - 1 /\ n \in Nat \ {0}
      /\ \A i \in 1..Len(T) : i + 1 \in 1..n /\ T[i] = result_queue[i + 1]
      /\ \A i \in 1..n : i # 1 => i - 1 \in 1..Len(T) /\ T[i - 1] = result_queue[i]
      /\ r = result_queue[1] /\ r \in Keys \X EventStates
    BY TailFact DEF sync_result, TypeOK
<1>2. r[1] \in Keys /\ r[2] \in EventStates
    BY <1>1
<1>3. /\ running' = running \ {r[1]} /\ result_queue' = T
      /\ event_buffer' = [k \in Keys |-> IF k = r[1] THEN r[2] ELSE event_buffer[k]]
      /\ UNCHANGED <<queued_tasks, task_queue, worker, spawned>>
    BY DEF sync_result, change_states
<1> HIDE DEF T, n
<1>4. AtWork' = AtWork
    BY <1>3 DEF AtWork, Submitted, Held
<1>5. 1 \in 1..n /\ r[1] \in Reported /\ r[1] \in running /\ r[1] \notin queued_tasks
  <2>1. 1 \in 1..n
      BY <1>1
  <2> QED
      BY <1>1, <2>1, PlacesFact DEF Reported, Books, n
<1>6. DOMAIN T = 1..Len(T)
    BY <1>1, LenProperties
<1>7. PhaseOf(r[1]) = r[2]
    BY <1>1, <1>5 DEF PhaseTable, n
<1>8. PhaseOf(r[1])' = "idle"
    BY <1>2, <1>3, <1>5 DEF PhaseTable
<1>9. ASSUME NEW k \in Keys, k # r[1] PROVE PhaseOf(k)' = PhaseOf(k)
  <2>1. \A i \in 1..n : result_queue[i][1] = k => i # 1
      BY <1>1, <1>9
  <2>2. \A i \in 1..n : result_queue[i][1] = k =>
           \E j \in 1..Len(T) : T[j] = result_queue[i]
      BY <1>1, <2>1
  <2>3. k \in Reported => k \in Reported'
    <3>1. ASSUME k \in Reported PROVE \E i \in 1..n : result_queue[i][1] = k
        BY <3>1, PlacesFact DEF Reported, n
    <3> QED
        BY <1>3, <1>6, <2>2, <3>1 DEF Reported
  <2>4. k \in Reported' => k \in Reported
    <3>1. ASSUME k \in Reported' PROVE \E j \in 1..Len(T) : T[j][1] = k
        BY <1>3, <1>6, <3>1 DEF Reported
    <3>2. ASSUME NEW j \in 1..Len(T), T[j][1] = k PROVE k \in Reported
        BY <1>1, <3>2, PlacesFact DEF Reported, n
    <3> QED
        BY <3>1, <3>2
  <2>5. (k \in queued_tasks' <=> k \in queued_tasks) /\ (k \in running' <=> k \in running)
      BY <1>3, <1>9
  <2> QED
      BY <1>3, <1>4, <2>2, <2>3, <2>4, <2>5, StaysPut DEF n
<1>10. Contract!Report(r[1], r[2])
  <2>1. event_buffer' = [event_buffer EXCEPT ![r[1]] = r[2]]
      BY <1>2, <1>3 DEF TypeOK, ExecTypeOK
  <2> QED
      BY <1>2, <1>7, <1>8, <1>9, <2>1 DEF Contract!Report, Contract!Move
<1> QED
    BY <1>2, <1>10 DEF Contract!Next

\* The end of a command is Finish, whichever kind of process ran it.
LEMMA FinishRefines ==
    ASSUME Inv, PhaseTable, PhaseTable', NEW k \in AtWork, NEW state \in EventStates,
           AtWork' = AtWork \ {k},
           result_queue' = Append(result_queue, <<k, state>>),
           UNCHANGED execVars
    PROVE  Contract!Next
<1> USE DEF Inv, Parts, execVars
<1> PICK n : n = Len(result_queue)
  OBVIOUS
<1>1. k \in Keys
    BY PlacesFact DEF AtWork, TypeOK, ExecTypeOK
<1>2. /\ result_queue' \in Seq(Keys \X EventStates) /\ Len(result_queue') = n + 1 /\ n \in Nat
      /\ \A i \in 1..n : i \in 1..(n + 1) /\ result_queue'[i] = result_queue[i]
      /\ result_queue'[n + 1] = <<k, state>> /\ n + 1 \in 1..(n + 1)
      /\ \A i \in 1..(n + 1) : i \in 1..n \/ i = n + 1
    BY <1>1, AppendProperties, LenProperties DEF TypeOK
<1>3. DOMAIN result_queue' = 1..(n + 1)
    BY <1>2, LenProperties
<1>4. Reported' = Reported \cup {k}
    BY <1>2, <1>3, PlacesFact DEF Reported
<1>5. PhaseOf(k) = "running"
    BY <1>1 DEF PhaseTable
<1>6. PhaseOf(k)' = state
  <2>1. PhaseOf(result_queue[n + 1][1])' = result_queue'[n + 1][2]
      BY <1>2 DEF PhaseTable
  <2> QED
      BY <1>2, <2>1
<1>7. \A x \in Keys : x # k => PhaseOf(x)' = PhaseOf(x)
    BY <1>2, <1>4, StaysPut
<1>8. Contract!Finish(k, state)
    BY <1>1, <1>5, <1>6, <1>7 DEF Contract!Finish, Contract!Move
<1> QED
    BY <1>1, <1>8 DEF Contract!Next

\* A launch error is Lose.
LEMMA LoseRefines ==
    ASSUME Inv, PhaseTable, PhaseTable', NEW k \in AtWork,
           AtWork' = AtWork \ {k}, UNCHANGED <<execVars, result_queue>>
    PROVE  Contract!Next
<1> USE DEF Inv, Parts, execVars
<1>1. k \in Keys /\ k \in running /\ k \notin Reported /\ Reported' = Reported
    BY PlacesFact DEF AtWork, TypeOK, ExecTypeOK, Reported
<1>2. PhaseOf(k) = "running" /\ PhaseOf(k)' = "lost"
    BY <1>1 DEF PhaseTable
<1>3. \A x \in Keys : x # k => PhaseOf(x)' = PhaseOf(x)
    BY <1>1, StaysPut
<1>4. Contract!Lose(k)
    BY <1>1, <1>2, <1>3 DEF Contract!Lose, Contract!Move
<1> QED
    BY <1>1, <1>4 DEF Contract!Next

\* What a worker that gives its command up holds no longer.
LEMMA HeldRemove ==
    ASSUME Inv, NEW w \in Workers, worker[w] \in Keys, NEW x \in {Idle, Stopped},
           worker' = [worker EXCEPT ![w] = x], UNCHANGED <<task_queue, spawned>>
    PROVE  worker[w] \in AtWork /\ AtWork' = AtWork \ {worker[w]}
<1> USE DEF Inv, Parts
<1>1. worker \in [Workers -> Keys \cup {Idle, Stopped}] /\ worker[w] \in Held
    BY DEF TypeOK, Held
<1>2. Held' = Held \ {worker[w]}
  <2>1. \A v \in Workers : v # w => worker'[v] = worker[v] /\ worker[v] # worker[w]
      BY <1>1 DEF OncePerPlace
  <2>2. worker'[w] \notin Keys
      BY <1>1, MarksAreNoKeys
  <2> QED
      BY <2>1, <2>2 DEF Held
<1>3. Submitted' = Submitted
    BY DEF Submitted
<1> QED
    BY <1>1, <1>2, <1>3, PlacesFact DEF AtWork

\* Taking a command or a pill changes nothing for the owner.
LEMMA TakeRefines ==
    ASSUME Inv, PhaseTable, PhaseTable', NEW w \in Workers, take(w)
    PROVE  UNCHANGED Contract!vars
<1> USE DEF Inv, Parts
<1> DEFINE h == Head(task_queue)
           T == Tail(task_queue)
           n == Len(task_queue)
<1>1. /\ T \in Seq(Keys \cup {Poison}) /\ Len(T) = n - 1 /\ n \in Nat \ {0}
      /\ \A i \in 1..Len(T) : i + 1 \in 1..n /\ T[i] = task_queue[i + 1]
      /\ \A i \in 1..n : i # 1 => i - 1 \in 1..Len(T) /\ T[i - 1] = task_queue[i]
      /\ h = task_queue[1] /\ h \in Keys \cup {Poison}
    BY TailFact DEF take, TypeOK
<1>2. /\ task_queue' = T /\ worker[w] = Idle
      /\ worker' = [worker EXCEPT ![w] = IF h = Poison THEN Stopped ELSE h]
      /\ UNCHANGED <<execVars, spawned, result_queue>>
    BY DEF take
<1> HIDE DEF h, T, n
<1>3. DOMAIN T = 1..Len(T) /\ worker \in [Workers -> Keys \cup {Idle, Stopped}]
    BY <1>1, LenProperties DEF TypeOK
<1>4. 1 \in 1..n /\ \A i \in 1..n : i = 1 \/ \E j \in 1..Len(T) : T[j] = task_queue[i]
    BY <1>1
<1>5. { task_queue[i] : i \in 1..n } = { T[i] : i \in 1..Len(T) } \cup {h}
  <2>1. \A i \in 1..n : task_queue[i] \in { T[j] : j \in 1..Len(T) } \cup {h}
      BY <1>1, <1>4
  <2>2. \A j \in 1..Len(T) : T[j] \in { task_queue[i] : i \in 1..n }
      BY <1>1
  <2>3. h \in { task_queue[i] : i \in 1..n }
      BY <1>1, <1>4
  <2> QED
      BY <2>1, <2>2, <2>3
<1>6. Submitted = (Submitted' \cup {h}) \cap Keys /\ Submitted' \subseteq Keys
    BY <1>2, <1>3, <1>5, PlacesFact DEF Submitted, ToSet, n
<1>7. Held' = (Held \cup {h}) \cap Keys
  <2>1. /\ worker'[w] = (IF h = Poison THEN Stopped ELSE h)
        /\ \A v \in Workers : v # w => worker'[v] = worker[v]
      BY <1>2, <1>3
  <2> QED
      BY <1>1, <1>2, <2>1, MarksAreNoKeys DEF Held
<1>8. AtWork' = AtWork
    BY <1>2, <1>6, <1>7 DEF AtWork, Held
<1>9. Reported' = Reported
    BY <1>2 DEF Reported
<1>10. \A k \in Keys : PhaseOf(k)' = PhaseOf(k)
    BY <1>2, <1>8, <1>9, StaysPut DEF execVars
<1> QED
    BY <1>2, <1>10 DEF Contract!vars, execVars

\* So do the poison pills of end, and what only moves the owner.
LEMMA OwnerRefines ==
    ASSUME Inv, PhaseTable, PhaseTable', end \/ sync_done \/ joined \/ UNCHANGED vars
    PROVE  UNCHANGED Contract!vars
<1> USE DEF Inv, Parts
<1>1. UNCHANGED <<execVars, worker, spawned, result_queue>>
    BY DEF end, sync_done, joined, vars, localVars
<1>2. Submitted' = Submitted
  <2>1. CASE task_queue' = task_queue
      BY <2>1 DEF Submitted
  <2>2. CASE task_queue' # task_queue
    <3> DEFINE p == [i \in 1..Cardinality(Workers) |-> Poison]
    <3>1. task_queue' = task_queue \o p
        BY <2>2 DEF end, sync_done, joined, vars, localVars
    <3>2. p \in Seq({Poison}) /\ Range(p) \subseteq {Poison}
        BY WorkersAssumption, FS_CardinalityType DEF Range
    <3>3. p \in Seq(Keys \cup {Poison}) /\ task_queue \in Seq(Keys \cup {Poison})
        BY <3>2, SeqMonotonic DEF TypeOK
    <3> HIDE DEF p
    <3>4. Range(task_queue \o p) = Range(task_queue) \cup Range(p)
        BY <3>3, RangeConcatenation
    <3> QED
        BY <3>1, <3>2, <3>4, MarksAreNoKeys DEF Submitted, ToSet, Range
  <2> QED
      BY <2>1, <2>2
<1>3. AtWork' = AtWork /\ Reported' = Reported
    BY <1>1, <1>2 DEF AtWork, Held, Reported
<1>4. \A k \in Keys : PhaseOf(k)' = PhaseOf(k)
    BY <1>1, <1>3, StaysPut DEF execVars
<1> QED
    BY <1>1, <1>4 DEF Contract!vars, execVars

\* get_event_buffer is Fetch.
LEMMA FetchRefines ==
    ASSUME Inv, PhaseTable, PhaseTable', NEW D \in SUBSET Dags, get_event_buffer(D)
    PROVE  Contract!Next
<1> USE DEF get_event_buffer, flush_events, localVars
<1>1. AtWork' = AtWork /\ Reported' = Reported
    BY DEF AtWork, Submitted, Held, Reported
<1>2. \A k \in Keys : PhaseOf(k)' = PhaseOf(k)
    BY <1>1, StaysPut
<1>3. FlushedKeys(D) \in SUBSET Keys
    BY DEF FlushedKeys
<1>4. Contract!Fetch(FlushedKeys(D))
    BY <1>2 DEF Contract!Fetch
<1> QED
    BY <1>3, <1>4 DEF Contract!Next

(***************************************************************************)
(* The local executor implements the contract of an executor, for any      *)
(* number of keys and workers and in both modes: what is queued is started *)
(* once, its command ends once, and what is reported is its own result.    *)
(***************************************************************************)
THEOREM ImplementsContract == Spec => KeepsContract
<1>1. Init => Contract!Init
  <2> SUFFICES ASSUME Init PROVE Contract!Init
    OBVIOUS
  <2>1. \A k \in Keys : PhaseOf(k) = "idle"
      BY DEF Init, ExecInit, PhaseOf
  <2> QED
      BY <2>1 DEF Init, ExecInit, Contract!Init
<1>2. Inv /\ PhaseTable /\ PhaseTable' /\ [Next]_vars => [Contract!Next]_(Contract!vars)
  <2> SUFFICES ASSUME Inv, PhaseTable, PhaseTable', [Next]_vars
               PROVE  Contract!Next \/ UNCHANGED Contract!vars
    OBVIOUS
  <2>1. ASSUME NEW k \in Keys, queue_command(k) PROVE Contract!Next \/ UNCHANGED Contract!vars
      BY <2>1, QueueRefines
  <2>2. CASE heartbeat
      BY <2>2, HeartbeatRefines
  <2>3. CASE sync_result
      BY <2>3, SyncRefines
  <2>4. CASE sync_done \/ joined \/ end \/ UNCHANGED vars
      BY <2>4, OwnerRefines
  <2>5. ASSUME NEW D \in SUBSET Dags, get_event_buffer(D) PROVE Contract!Next
      BY <2>5, FetchRefines
  <2>6. ASSUME NEW w \in Workers, take(w) PROVE UNCHANGED Contract!vars
      BY <2>6, TakeRefines
  <2>7. ASSUME NEW w \in Workers, NEW s \in EventStates, execute_work(w, s) PROVE Contract!Next
    <3>1. /\ worker[w] \in Keys /\ worker' = [worker EXCEPT ![w] = Idle]
          /\ result_queue' = Append(result_queue, <<worker[w], s>>)
          /\ UNCHANGED execVars /\ UNCHANGED <<task_queue, spawned>>
        BY <2>7 DEF execute_work
    <3>2. worker[w] \in AtWork /\ AtWork' = AtWork \ {worker[w]}
        BY <3>1, HeldRemove
    <3> QED
        BY <3>1, <3>2, FinishRefines
  <2>8. ASSUME NEW w \in Workers, launch_error(w) PROVE Contract!Next
    <3>1. /\ worker[w] \in Keys /\ worker' = [worker EXCEPT ![w] = Stopped]
          /\ UNCHANGED <<execVars, result_queue>> /\ UNCHANGED <<task_queue, spawned>>
        BY <2>8 DEF launch_error
    <3>2. worker[w] \in AtWork /\ AtWork' = AtWork \ {worker[w]}
        BY <3>1, HeldRemove
    <3> QED
        BY <3>1, <3>2, LoseRefines
  <2>9. ASSUME NEW k \in Keys,
               (\E s \in EventStates : run_spawned(k, s)) \/ launch_error_spawned(k)
        PROVE  Contract!Next
    <3>1. k \in spawned /\ spawned' = spawned \ {k}
          /\ UNCHANGED <<task_queue, worker>> /\ UNCHANGED execVars
        BY <2>9 DEF run_spawned, launch_error_spawned
    <3>2. k \in AtWork /\ AtWork' = AtWork \ {k}
        BY <3>1, PlacesFact DEF AtWork, Submitted, Held
    <3>3. ASSUME NEW s \in EventStates, run_spawned(k, s) PROVE Contract!Next
        BY <3>1, <3>2, <3>3, FinishRefines DEF run_spawned
    <3>4. CASE launch_error_spawned(k)
        BY <3>1, <3>2, <3>4, LoseRefines DEF launch_error_spawned
    <3> QED
        BY <2>9, <3>3, <3>4
  <2> QED
      BY <2>1, <2>2, <2>3, <2>4, <2>5, <2>6, <2>7, <2>8, <2>9 DEF Next, OwnerSync, WorkerStep
<1> QED
    BY <1>1, <1>2, InvHolds, PhaseTableHolds, PTL DEF Spec, KeepsContract, Contract!Spec
=============================================================================
