------------------------- MODULE DagScheduleProofs -------------------------
(***************************************************************************)
(* Proofs about DagSchedule.tla for every schedule, start date, limit and  *)
(* interval, and for any number of triggers, backfills, clears and pauses. *)
(***************************************************************************)
EXTENDS DagSchedule, FiniteSetTheorems, WellFoundedInduction, TLAPS

-----------------------------------------------------------------------------
(* Numbers. *)

\* The quotient is the number of whole intervals, and the only number that is.
LEMMA Quotient ==
    ASSUME NEW a \in Int
    PROVE  /\ a \div Interval \in Int
           /\ (a \div Interval) * Interval <= a
           /\ a < (a \div Interval) * Interval + Interval
BY ConstantsAssumption

\* Division by the interval: the quotient is the only number of its kind,
LEMMA QuotientUnique ==
    ASSUME NEW a \in Int, NEW q \in Int, q * Interval <= a, a < q * Interval + Interval
    PROVE  a \div Interval = q
BY ConstantsAssumption, Quotient

\* and the largest that fits.
LEMMA QuotientMonotone ==
    ASSUME NEW a \in Int, NEW q \in Int, q * Interval <= a
    PROVE  q <= a \div Interval
BY ConstantsAssumption, Quotient

\* A set of dates that is not empty has a greatest element.
LEMMA MaxFact ==
    ASSUME NEW S \in SUBSET Dates, S # {}
    PROVE  Max(S) \in S /\ \A d \in S : d <= Max(S)
<1> DEFINE T == { n \in Nat : MaxTime - n \in S }
<1>1. T \subseteq Nat
    OBVIOUS
<1>2. T # {}
  <2>1. PICK d \in S : TRUE
      OBVIOUS
  <2>2. MaxTime - d \in Nat /\ MaxTime - (MaxTime - d) = d
      BY ConstantsAssumption DEF Dates
  <2> QED
      BY <2>1, <2>2
<1>3. PICK n \in T : \A m \in T : ~(<<m, n>> \in OpToRel(<, Nat))
  <2> HIDE DEF T
  <2> QED
      BY <1>1, <1>2, NatLessThanWellFounded, WFMin
<1>4. \A m \in T : n <= m
  <2> SUFFICES ASSUME NEW m \in T, m < n PROVE FALSE
    OBVIOUS
  <2>1. <<m, n>> \in { p \in Nat \X Nat : p[1] < p[2] }
      OBVIOUS
  <2> QED
      BY <1>3, <2>1 DEF OpToRel
<1>5. \A d \in S : d <= MaxTime - n
  <2> TAKE d \in S
  <2>1. MaxTime - d \in Nat /\ MaxTime - (MaxTime - d) = d
      BY ConstantsAssumption DEF Dates
  <2>2. MaxTime - d \in T
      BY <2>1
  <2>3. n <= MaxTime - d /\ n \in Nat
    <3> HIDE DEF T
    <3> QED
        BY <1>1, <1>4, <2>2
  <2> QED
      BY <2>3, ConstantsAssumption DEF Dates
<1>6. MaxTime - n \in S
    OBVIOUS
<1>7. \E x \in S : \A y \in S : x >= y
    BY <1>5, <1>6, ConstantsAssumption DEF Dates
<1> QED
    BY <1>7, ConstantsAssumption DEF Max, Dates
-----------------------------------------------------------------------------
(* The points of the schedule. *)

\* The dates between which a cron schedule moves.
OnSchedule(t) == dag.schedule_interval = "cron" => \E q \in Int : t = q * Interval

\* following_schedule goes to the next point of the schedule.
LEMMA FollowingFact ==
    ASSUME NEW t \in Nat
    PROVE  /\ following_schedule(t) \in Nat
           /\ t < following_schedule(t) /\ following_schedule(t) <= t + Interval
           /\ OnSchedule(following_schedule(t))
<1>1. CASE dag.schedule_interval = "cron"
  <2> DEFINE q == t \div Interval
  <2>1. q \in Int /\ q * Interval <= t /\ t < q * Interval + Interval
      BY Quotient
  <2>2. following_schedule(t) = (q + 1) * Interval
      BY <1>1 DEF following_schedule
  <2> HIDE DEF q
  <2>3. (q + 1) * Interval = q * Interval + Interval /\ q * Interval \in Int
      BY <2>1, ConstantsAssumption
  <2>4. OnSchedule(following_schedule(t))
      BY <2>1, <2>2 DEF OnSchedule
  <2> QED
      BY <2>1, <2>2, <2>3, <2>4, ConstantsAssumption
<1>2. CASE dag.schedule_interval # "cron"
    BY <1>2, ConstantsAssumption DEF following_schedule, OnSchedule
<1> QED
    BY <1>1, <1>2

\* normalize_schedule goes to the point of the schedule at or after a time.
LEMMA NormalizeFact ==
    ASSUME NEW t \in Nat
    PROVE  /\ normalize_schedule(t) \in Nat /\ t <= normalize_schedule(t)
           /\ ~Once => OnSchedule(normalize_schedule(t))
<1>1. CASE normalize_schedule(t) = following_schedule(t)
    BY <1>1, FollowingFact
<1>2. CASE normalize_schedule(t) = t /\ Once
    BY <1>2
<1>3. CASE normalize_schedule(t) = t /\ previous_schedule(following_schedule(t)) = t
  <2>1. ASSUME dag.schedule_interval = "cron" PROVE \E q \in Int : t = q * Interval
    <3> DEFINE f == following_schedule(t)
               q == (f - 1) \div Interval
    <3>1. f \in Int
        BY FollowingFact
    <3>2. q \in Int
        BY <3>1, Quotient
    <3>3. t = q * Interval
        BY <1>3, <2>1 DEF previous_schedule
    <3> QED
        BY <3>2, <3>3
  <2> QED
      BY <1>3, <2>1 DEF OnSchedule
<1> QED
    BY <1>1, <1>2, <1>3 DEF normalize_schedule

\* Adding whole intervals to a date until it is behind M leads to the point that
\* follows M, or for a timedelta not behind it.
LEMMA BehindFact ==
    ASSUME NEW date \in Nat, NEW M \in Nat, date <= M
    PROVE  LET r == date + ((M - date) \div Interval + 1) * Interval
           IN  /\ r \in Nat /\ date <= r /\ M < r
               /\ OnSchedule(date) => r <= following_schedule(M) /\ OnSchedule(r)
<1> DEFINE a == (M - date) \div Interval
           r == date + (a + 1) * Interval
<1>1. a \in Int /\ a * Interval <= M - date /\ M - date < a * Interval + Interval
    BY Quotient
<1> HIDE DEF a
<1>2. (a + 1) * Interval = a * Interval + Interval /\ a * Interval \in Int
    BY <1>1, ConstantsAssumption
<1>3. r \in Nat /\ date <= r /\ M < r /\ r <= M + Interval
    BY <1>1, <1>2, ConstantsAssumption
<1>4. ASSUME OnSchedule(date) PROVE r <= following_schedule(M) /\ OnSchedule(r)
  <2>1. CASE dag.schedule_interval = "cron"
    <3>1. PICK q \in Int : date = q * Interval
        BY <1>4, <2>1 DEF OnSchedule
    <3>2. /\ (q + a) * Interval = q * Interval + a * Interval
          /\ (q + a + 1) * Interval = q * Interval + a * Interval + Interval
          /\ q * Interval \in Int
        BY <1>1, <3>1, ConstantsAssumption
    <3>3. M \div Interval = q + a
      <4>1. (q + a) * Interval <= M /\ M < (q + a) * Interval + Interval /\ q + a \in Int
          BY <1>1, <1>2, <3>1, <3>2, ConstantsAssumption
      <4> QED
          BY <4>1, QuotientUnique
    <3>4. r = (q + a + 1) * Interval
      <4> DEFINE x == a * Interval
                 y == q * Interval
      <4>1. x \in Int /\ y \in Int /\ Interval \in Int
          BY <1>2, <3>2, ConstantsAssumption
      <4>2. r = y + (x + Interval) /\ (q + a + 1) * Interval = y + x + Interval
          BY <1>2, <3>1, <3>2
      <4> HIDE DEF x, y
      <4> QED
          BY <4>1, <4>2
    <3>5. following_schedule(M) = (q + a + 1) * Interval
        BY <2>1, <3>3 DEF following_schedule
    <3> QED
        BY <1>1, <1>3, <3>4, <3>5 DEF OnSchedule
  <2>2. CASE dag.schedule_interval # "cron"
      BY <1>3, <2>2 DEF following_schedule, OnSchedule
  <2> QED
      BY <2>1, <2>2
<1> QED
    BY <1>3, <1>4 DEF a
-----------------------------------------------------------------------------
(***************************************************************************)
(* The parts of the inductive invariant.                                   *)
(***************************************************************************)

\* What create_dag_run has made sure of when it creates a run for a date: its period
\* is over and does not begin before the start of the DAG.
Due(d) == is_due(d) /\ (dag.start_date # NoDate => dag.start_date <= d)

\* The date is the first one, or at most one interval behind some run.
Follows(d) ==
    \/ d = normalize_schedule(dag.task_start)
    \/ dag.start_date # NoDate /\ d = normalize_schedule(dag.start_date)
    \/ \E e \in NotManual : e < d /\ d <= following_schedule(e)

\* Behind the first query: the first point of the schedule, or the one that follows
\* the last scheduled run, which is still there although others may have come.
Found(d) ==
    /\ d \in Nat
    /\ ~Once => OnSchedule(d)
    /\ \/ d = normalize_schedule(dag.task_start)
       \/ \E e \in NotManual : d = following_schedule(e)

\* Behind the conditions, until the run is created and for ever after: time goes on
\* and runs come, but none goes.
Chosen(d) ==
    /\ d \in Dates
    /\ Due(d)
    /\ (dag.catchup /\ ~Once) => Follows(d)

DateIsFound == pc = "last_run" => Found(next_run_date)
DateIsChosen == pc = "create" => Chosen(next_run_date)
RunsAreChosen == \A d \in ByScheduler : Chosen(d)

\* Events are counted, and a backfill that is about to make a run has a date.
Counted ==
    /\ clears + backfills <= events
    /\ backfill # NoBackfill => backfill.date \in BackfillDates /\ backfills > 0

Inv ==
    /\ TypeOK /\ Counted
    /\ DateIsFound /\ DateIsChosen /\ RunsAreChosen

\* A step that neither takes a run away nor changes whose it is, but for a backfill
\* that takes it over.
RunsKept ==
    \A d \in Made : /\ d \in Made'
                    /\ external_trigger'[d] = external_trigger[d]
                    /\ run_id'[d] \in {run_id[d], "backfill"}
-----------------------------------------------------------------------------
(* What create_dag_run computes. *)

\* What is known of the DAG.
LEMMA DagFact ==
    ASSUME TypeOK
    PROVE  /\ dag.schedule_interval \in {"cron", "timedelta", "@once"}
           /\ dag.start_date \in Nat \cup {NoDate} /\ dag.end_date \in Nat \cup {NoDate}
           /\ dag.task_start \in Nat /\ dag.max_active_runs \in Nat
           /\ now \in Nat /\ NoDate \notin Int
<1>1. dag \in Dags /\ now \in Nat
  <2>1. dag \in Dags /\ now \in Dates
      BY DEF TypeOK
  <2> QED
      BY <2>1, ConstantsAssumption DEF Dates
<1>2. dag.schedule_interval \in {"cron", "timedelta", "@once"}
    BY <1>1, DagsAssumption
<1>3. /\ dag.start_date \in Nat \cup {NoDate} /\ dag.end_date \in Nat \cup {NoDate}
      /\ dag.task_start \in Nat /\ dag.max_active_runs \in Nat
    BY <1>1, DagsAssumption
<1> QED
    BY <1>1, <1>2, <1>3, ConstantsAssumption

\* The start date it works with is not before the one of the DAG.
LEMMA StartDateFact ==
    ASSUME TypeOK
    PROVE  /\ start_date \in Int \cup {NoDate}
           /\ dag.start_date # NoDate => start_date \in Int /\ dag.start_date <= start_date
           /\ dag.catchup => start_date = dag.start_date
           /\ ~dag.catchup /\ ~Once =>
                /\ start_date \in Int
                /\ dag.schedule_interval = "timedelta" => now - Interval <= start_date
                /\ dag.schedule_interval = "cron" =>
                     ((((now - 1) \div Interval) * Interval - 1) \div Interval) * Interval <= start_date
<1>1. /\ dag.schedule_interval \in {"cron", "timedelta", "@once"}
      /\ dag.start_date \in Nat \cup {NoDate} /\ now \in Nat
    BY DagFact
<1> DEFINE p == (now - 1) \div Interval
           pp == (p * Interval - 1) \div Interval
<1>2. p \in Int /\ p * Interval \in Int
    BY <1>1, Quotient, ConstantsAssumption
<1>3. pp \in Int /\ pp * Interval \in Int
    BY <1>2, Quotient, ConstantsAssumption
<1>4. CASE dag.schedule_interval = "cron"
  <2>1. previous_schedule(previous_schedule(now)) = pp * Interval
      BY <1>4 DEF previous_schedule
  <2> HIDE DEF pp
  <2>2. start_date = IF dag.catchup \/ (dag.start_date # NoDate /\ pp * Interval < dag.start_date)
                     THEN dag.start_date ELSE pp * Interval
      BY <1>4, <2>1 DEF start_date, Once
  <2>3. ~Once
      BY <1>4 DEF Once
  <2> QED
      BY <1>1, <1>3, <1>4, <2>2, <2>3, ConstantsAssumption DEF pp
<1>5. CASE dag.schedule_interval = "timedelta"
  <2>1. start_date = IF dag.catchup \/ (dag.start_date # NoDate /\ now - Interval < dag.start_date)
                     THEN dag.start_date ELSE now - Interval
      BY <1>5 DEF start_date, Once, previous_schedule
  <2> QED
      BY <1>1, <1>5, <2>1, ConstantsAssumption
<1>6. CASE dag.schedule_interval = "@once"
    BY <1>1, <1>6 DEF start_date, Once
<1> QED
    BY <1>1, <1>4, <1>5, <1>6

\* "don't ever schedule prior to the dag's start_date"
LEMMA NotBeforeFact ==
    ASSUME TypeOK, NEW date \in Nat, NEW r, r = not_before(start_date, date)
    PROVE  /\ r \in Nat
           /\ dag.start_date # NoDate => dag.start_date <= r
           /\ start_date # NoDate => start_date <= r
           /\ r = date \/ (r = normalize_schedule(start_date) /\ start_date # NoDate)
<1>1. CASE start_date = NoDate
  <2>1. dag.start_date = NoDate
      BY <1>1, StartDateFact, DagFact
  <2>2. r = date
      BY <1>1 DEF not_before
  <2> QED
      BY <1>1, <2>1, <2>2
<1>2. CASE start_date # NoDate /\ start_date < date
  <2>1. r = date /\ start_date \in Int
      BY <1>2, StartDateFact DEF not_before
  <2>2. dag.start_date \in Nat \cup {NoDate}
      BY DagFact
  <2> QED
      BY <1>2, <2>1, <2>2, StartDateFact
<1>3. CASE start_date # NoDate /\ ~(start_date < date)
  <2>1. r = normalize_schedule(start_date) /\ start_date \in Int
      BY <1>3, StartDateFact DEF not_before
  <2>2. start_date \in Nat
      BY <1>3, <2>1
  <2>3. r \in Nat /\ start_date <= r
      BY <2>1, <2>2, NormalizeFact
  <2>4. dag.start_date \in Nat \cup {NoDate}
      BY DagFact
  <2> QED
      BY <1>3, <2>1, <2>2, <2>3, <2>4, StartDateFact
<1> QED
    BY <1>1, <1>2, <1>3

\* Behind the second query: the date found, or the one behind the last run.
LEMMA AfterLastRunFact ==
    ASSUME TypeOK, NEW date \in Nat, NEW r, r = after_last_run(date)
    PROVE  /\ r \in Nat
           /\ \/ r = date
              \/ \E e \in NotManual : e < r /\ (OnSchedule(date) => r <= following_schedule(e))
<1> DEFINE runs == { d \in Made : ~external_trigger[d] }
           M == Max(runs)
<1>1. CASE runs = {} \/ M < date
    BY <1>1 DEF after_last_run
<1>2. CASE runs # {} /\ ~(M < date)
  <2>1. runs \in SUBSET Dates
      BY DEF Made
  <2> HIDE DEF runs
  <2>2. M \in runs
      BY <1>2, <2>1, MaxFact
  <2>3. M \in Nat
    <3>1. M \in Dates
        BY <2>1, <2>2
    <3> HIDE DEF M
    <3> QED
        BY <3>1, ConstantsAssumption DEF Dates
  <2>4. M \in NotManual
      BY <2>2 DEF NotManual, runs
  <2> HIDE DEF M
  <2>5. after_last_run(date) = date + ((M - date) \div Interval + 1) * Interval
      BY <1>2 DEF after_last_run, runs, M
  <2> QED
      BY <1>2, <2>3, <2>4, <2>5, BehindFact
<1> QED
    BY <1>1, <1>2

\* Together: whatever has been inserted between the queries, the date that is chosen
\* follows a run.
LEMMA ChosenFact ==
    ASSUME Inv, pc = "last_run",
           NEW date, date = not_before(start_date, after_last_run(next_run_date))
    PROVE  /\ date \in Nat
           /\ dag.start_date # NoDate => dag.start_date <= date
           /\ dag.catchup /\ ~Once => Follows(date)
<1> USE DEF Inv
<1> PICK a : a = after_last_run(next_run_date)
  OBVIOUS
<1>1. /\ next_run_date \in Nat
      /\ ~Once => OnSchedule(next_run_date)
      /\ \/ next_run_date = normalize_schedule(dag.task_start)
         \/ \E e \in NotManual : next_run_date = following_schedule(e)
    BY DEF DateIsFound, Found
<1>2. /\ a \in Nat
      /\ \/ a = next_run_date
         \/ \E e \in NotManual : e < a /\ (OnSchedule(next_run_date) => a <= following_schedule(e))
    BY <1>1, AfterLastRunFact
<1>3. /\ date \in Nat
      /\ dag.start_date # NoDate => dag.start_date <= date
      /\ date = a \/ (date = normalize_schedule(start_date) /\ start_date # NoDate)
    BY <1>2, NotBeforeFact
<1>4. ASSUME dag.catchup, ~Once PROVE Follows(date)
  <2>1. CASE date = normalize_schedule(start_date) /\ start_date # NoDate
      BY <1>4, <2>1, StartDateFact DEF Follows
  <2>2. CASE date = a /\ a = next_run_date
    <3>1. \A e \in NotManual : e < following_schedule(e) /\ following_schedule(e) \in Nat
        BY FollowingFact DEF NotManual, Made, Dates
    <3>2. \A e \in NotManual : following_schedule(e) <= following_schedule(e)
        BY <3>1
    <3> QED
        BY <1>1, <2>2, <3>1, <3>2 DEF Follows
  <2>3. CASE date = a /\ a # next_run_date
      BY <1>1, <1>2, <1>4, <2>3 DEF Follows
  <2> QED
      BY <1>3, <2>1, <2>2, <2>3
<1> QED
    BY <1>3, <1>4
-----------------------------------------------------------------------------
(* The steps. *)

\* What has been found, chosen or followed stays so.
LEMMA Kept ==
    ASSUME TypeOK, dag' = dag, now' \in Nat, now <= now', RunsKept, NEW d \in Nat
    PROVE  /\ Found(d) => Found(d)'
           /\ Chosen(d) => Chosen(d)'
<1>1. now \in Nat
    BY DagFact
<1>2. NotManual \subseteq NotManual'
    BY DEF RunsKept, NotManual, Made
<1>3. \A t : /\ following_schedule(t)' = following_schedule(t)
             /\ normalize_schedule(t)' = normalize_schedule(t)
             /\ OnSchedule(t)' = OnSchedule(t)
    BY DEF following_schedule, normalize_schedule, previous_schedule, Once, OnSchedule
<1>4. Once' = Once
    BY DEF Once
<1>5. Found(d) => Found(d)'
    BY <1>2, <1>3, <1>4 DEF Found
<1>6. Follows(d) => Follows(d)'
    BY <1>2, <1>3, <1>4 DEF Follows
<1>7. Due(d) => Due(d)'
  <2>1. d <= now => d <= now'
      BY <1>1
  <2>2. following_schedule(d) <= now => following_schedule(d) <= now'
      BY <1>1, FollowingFact
  <2> QED
      BY <1>3, <1>4, <2>1, <2>2 DEF Due, is_due
<1> QED
    BY <1>4, <1>5, <1>6, <1>7 DEF Chosen, Dates

\* A step keeps the invariant if the runs it makes are not the scheduler's, or are
\* the one that has been chosen.
LEMMA StepKeeps ==
    ASSUME Inv, TypeOK', Counted', dag' = dag, now <= now', RunsKept,
           \A d \in Made' \ Made : external_trigger'[d] \/ run_id'[d] = "backfill" \/ Chosen(d),
           NEW n, n = next_run_date',
           pc' = "last_run" => Found(n),
           pc' = "create" => Chosen(n)
    PROVE  Inv'
<1>1. TypeOK /\ now' \in Nat
  <2>1. now' \in Dates
      BY DEF TypeOK, Dates
  <2> QED
      BY <2>1, ConstantsAssumption DEF Inv, Dates
<1>2. Dates \subseteq Nat
    BY ConstantsAssumption DEF Dates
<1>3. DateIsFound'
  <2>1. Found(n) => Found(n)'
      BY <1>1, Kept DEF Found
  <2> QED
      BY <2>1 DEF DateIsFound, Found
<1>4. DateIsChosen'
  <2>1. Chosen(n) => Chosen(n)'
      BY <1>1, <1>2, Kept DEF Chosen
  <2> QED
      BY <2>1 DEF DateIsChosen
<1>5. RunsAreChosen'
  <2> SUFFICES ASSUME NEW d \in ByScheduler' PROVE Chosen(d)'
    BY DEF RunsAreChosen
  <2>1. d \in Made' /\ run_id'[d] = "scheduled" /\ ~external_trigger'[d] /\ d \in Nat
      BY <1>2 DEF ByScheduler, Made, Dates
  <2>2. CASE d \in Made
    <3>1. d \in ByScheduler
        BY <2>1, <2>2 DEF ByScheduler, RunsKept
    <3> QED
        BY <1>1, <2>1, <3>1, Kept DEF Inv, RunsAreChosen
  <2>3. CASE d \notin Made
      BY <1>1, <2>1, <2>3, Kept
  <2> QED
      BY <2>2, <2>3
<1> QED
    BY <1>3, <1>4, <1>5 DEF Inv

\* The invariant holds at the start.
LEMMA InitEstablishes == Init => Inv
<1> SUFFICES ASSUME Init PROVE Inv
  OBVIOUS
<1>1. MaxTime \in Nat /\ MaxEvents \in Nat
    BY ConstantsAssumption
<1>2. 0 \in Dates /\ 0 \in 0..MaxEvents
    BY <1>1 DEF Dates
<1>3. TypeOK
    BY <1>2 DEF Init, TypeOK, NoBackfill
<1>4. Counted
  <2>1. events = 0 /\ clears = 0 /\ backfills = 0 /\ backfill = NoBackfill
      BY DEF Init
  <2> QED
      BY <2>1 DEF Counted
<1>5. ByScheduler = {}
    BY DEF Init, ByScheduler, Made
<1> QED
    BY <1>3, <1>4, <1>5 DEF Init, Inv, DateIsFound, DateIsChosen, RunsAreChosen

\* The steps of process_file that change no run.
LEMMA FindKeeps ==
    ASSUME Inv, find_last_scheduled_run
    PROVE  Inv'
<1> USE DEF find_last_scheduled_run
<1>1. TypeOK /\ Counted
    BY DEF Inv
<1>2. /\ dag' = dag /\ now' = now /\ Made' = Made /\ RunsKept
      /\ now \in Nat /\ now <= now'
    BY <1>1, DagFact DEF runVars, Made, RunsKept
<1> PICK n : n = next_run_date'
  OBVIOUS
<1>3. ASSUME pc' = "last_run" PROVE Found(n)
  <2>1. CASE Scheduled = {}
    <3>1. n = normalize_schedule(dag.task_start)
        BY <1>3, <2>1
    <3> QED
        BY <1>1, <3>1, DagFact, NormalizeFact DEF Found
  <2>2. CASE Scheduled # {}
    <3>1. n = following_schedule(Max(Scheduled))
        BY <1>3, <2>2
    <3>2. Scheduled \in SUBSET Dates /\ Scheduled \subseteq NotManual
        BY DEF Scheduled, Made, NotManual
    <3>3. PICK e \in NotManual : e = Max(Scheduled)
        BY <2>2, <3>2, MaxFact
    <3>4. e \in Nat
        BY ConstantsAssumption DEF NotManual, Made, Dates
    <3> QED
        BY <3>1, <3>3, <3>4, FollowingFact DEF Found
  <2> QED
      BY <2>1, <2>2
<1>4. pc' # "create" /\ pc' \in {"last_run", "examine"}
    OBVIOUS
<1>5. TypeOK'
  <2>1. next_run_date' \in Nat \cup {NoDate}
      BY <1>1, <1>3 DEF Found, TypeOK
  <2> QED
      BY <1>1, <1>4, <2>1 DEF TypeOK, runVars, envVars, Dates
<1>6. Counted'
    BY <1>1 DEF Counted, envVars
<1> QED
    BY <1>2, <1>3, <1>4, <1>5, <1>6, StepKeeps

\* The date chosen is the one after the last run found, normalized.
LEMMA ChooseKeeps ==
    ASSUME Inv, choose_next_run_date
    PROVE  Inv'
<1> USE DEF choose_next_run_date
<1>1. TypeOK /\ Counted
    BY DEF Inv
<1>2. /\ dag' = dag /\ now' = now /\ Made' = Made /\ RunsKept
      /\ now \in Nat /\ now <= now'
    BY <1>1, DagFact DEF runVars, Made, RunsKept
<1> PICK date : date = not_before(start_date, after_last_run(next_run_date))
  OBVIOUS
<1>3. /\ pc = "last_run"
      /\ next_run_date' = IF is_due(date) THEN date ELSE NoDate
      /\ pc' = IF is_due(date) THEN "create" ELSE "examine"
    OBVIOUS
<1>4. /\ date \in Nat
      /\ dag.start_date # NoDate => dag.start_date <= date
      /\ (dag.catchup /\ ~Once) => Follows(date)
    BY <1>3, ChosenFact
<1>5. is_due(date) => Chosen(date)
  <2>1. now \in Dates
      BY <1>1 DEF TypeOK
  <2>2. date <= now => date \in Dates
      BY <1>4, <2>1, ConstantsAssumption DEF Dates
  <2> QED
      BY <1>4, <2>2 DEF Chosen, Due, is_due
<1> PICK n : n = next_run_date'
  OBVIOUS
<1>6. pc' # "last_run" /\ (pc' = "create" => Chosen(n))
    BY <1>3, <1>5
<1>7. TypeOK'
  <2>1. next_run_date' \in Nat \cup {NoDate} /\ pc' \in {"create", "examine"}
      BY <1>3, <1>4
  <2> QED
      BY <1>1, <2>1 DEF TypeOK, runVars, envVars, Dates
<1>8. Counted'
    BY <1>1 DEF Counted, envVars
<1> QED
    BY <1>2, <1>6, <1>7, <1>8, StepKeeps

\* The scheduler's run is made for the date that has been chosen.
LEMMA CreateKeeps ==
    ASSUME Inv, create_dagrun
    PROVE  Inv'
<1> USE DEF create_dagrun
<1>1. TypeOK /\ Counted
    BY DEF Inv
<1> PICK n : n = next_run_date
  OBVIOUS
<1>2. Chosen(n) /\ n \in Dates
    BY DEF Inv, DateIsChosen, Chosen
<1>3. dag' = dag /\ now' = now /\ now \in Nat /\ now <= now'
    BY <1>1, DagFact
<1>4. pc' # "last_run" /\ pc' # "create"
    OBVIOUS
<1>5. CASE run_state[n] = "absent"
  <2>1. Insert(n, "scheduled", FALSE) /\ pc' = "examine" /\ next_run_date' = NoDate
      BY <1>5
  <2>2. TypeOK'
      BY <1>1, <1>2, <2>1 DEF TypeOK, Insert, envVars, Dates
  <2>3. RunsKept /\ Made' \ Made \subseteq {n}
      BY <1>1, <1>2, <1>5, <2>1 DEF RunsKept, Made, TypeOK, Insert
  <2> QED
      BY <1>1, <1>2, <1>3, <1>4, <2>2, <2>3, StepKeeps DEF Counted, envVars
<1>6. CASE run_state[n] # "absent"
  <2>1. UNCHANGED runVars /\ pc' = "idle" /\ next_run_date' = NoDate
      BY <1>6
  <2>2. TypeOK'
      BY <1>1, <2>1 DEF TypeOK, runVars, envVars, Dates
  <2>3. RunsKept /\ Made' = Made
      BY <2>1 DEF RunsKept, Made, runVars
  <2> QED
      BY <1>1, <1>3, <1>4, <2>2, <2>3, StepKeeps DEF Counted, envVars
<1> QED
    BY <1>5, <1>6

\* A step that leaves process_file and the makers of runs alone.
LEMMA StateKeeps ==
    ASSUME Inv, TypeOK', Counted', UNCHANGED <<dag, run_id, external_trigger>>, now <= now',
           \A d \in Dates : run_state[d] = "absent" <=> run_state'[d] = "absent",
           pc' \notin {"last_run", "create"} \/ UNCHANGED procVars
    PROVE  Inv'
<1>1. Made' = Made /\ RunsKept
    BY DEF RunsKept, Made, Dates
<1> PICK n : n = next_run_date'
  OBVIOUS
<1>2. (pc' = "last_run" => Found(n)) /\ (pc' = "create" => Chosen(n))
    BY DEF Inv, DateIsFound, DateIsChosen, procVars
<1> QED
    BY <1>1, <1>2, StepKeeps

\* Counting the active runs, after failing those past their timeout.
LEMMA CountKeeps ==
    ASSUME Inv, NEW timedout \in SUBSET Active, count_active(timedout)
    PROVE  Inv'
<1> USE DEF count_active
<1>1. TypeOK /\ Counted
    BY DEF Inv
<1>2. UNCHANGED <<dag, run_id, external_trigger>> /\ now' = now /\ now <= now'
    BY <1>1, DagFact
<1>3. \A d \in Dates : run_state[d] = "absent" <=> run_state'[d] = "absent"
    BY <1>1 DEF TypeOK, Active, Running
<1>4. pc' \in {"examine", "find"}
    OBVIOUS
<1>5. TypeOK'
    BY <1>1, <1>4 DEF TypeOK, envVars, Dates
<1>6. Counted'
    BY <1>1 DEF Counted, envVars
<1> QED
    BY <1>2, <1>3, <1>4, <1>5, <1>6, StateKeeps

\* _process_task_instances examines the active runs.
LEMMA ExamineKeeps ==
    ASSUME Inv, process_task_instances
    PROVE  Inv'
<1>1. TypeOK /\ Counted
    BY DEF Inv
<1> PICK examined \in SUBSET Eligible :
        /\ run_state' = [d \in Dates |-> IF d \in examined /\ over(d) THEN "ended" ELSE run_state[d]]
        /\ work' = [d \in Dates |-> IF d \in examined /\ ~over(d) THEN "sent" ELSE work[d]]
  BY DEF process_task_instances
<1>2. /\ pc' = "idle" /\ next_run_date' = NoDate
      /\ UNCHANGED <<dag, is_paused, now, run_id, external_trigger, backfill, envVars>>
    BY DEF process_task_instances
<1>3. UNCHANGED <<dag, run_id, external_trigger>> /\ now' = now /\ now <= now'
    BY <1>1, <1>2, DagFact
<1>4. \A d \in Dates : run_state[d] = "absent" <=> run_state'[d] = "absent"
    BY <1>1 DEF TypeOK, Eligible, Running
<1>5. TypeOK'
    BY <1>1, <1>2 DEF TypeOK, envVars, Dates
<1>6. Counted'
    BY <1>1, <1>2 DEF Counted, envVars
<1> QED
    BY <1>2, <1>3, <1>4, <1>5, <1>6, StateKeeps

\* Time passes: what is over stays over.
LEMMA TickKeeps ==
    ASSUME Inv, tick
    PROVE  Inv'
<1> USE DEF tick
<1>1. TypeOK /\ Counted
    BY DEF Inv
<1>2. now' \in Dates /\ now <= now'
  <2>1. now \in Dates /\ now < MaxTime /\ now' = now + 1
      BY <1>1 DEF TypeOK
  <2> QED
      BY <2>1, ConstantsAssumption DEF Dates
<1>3. TypeOK'
    BY <1>1, <1>2 DEF TypeOK, runVars, procVars, envVars, Dates
<1>4. Counted'
    BY <1>1 DEF Counted, envVars
<1>5. \A d \in Dates : run_state[d] = "absent" <=> run_state'[d] = "absent"
    BY DEF runVars
<1> QED
    BY <1>2, <1>3, <1>4, <1>5, StateKeeps DEF runVars

\* A task or a backfill ends; no run comes or goes.
LEMMA RunStepKeeps ==
    ASSUME Inv, NEW d \in Dates, finish_task(d) \/ backfill_end(d)
    PROVE  Inv'
<1> USE DEF finish_task, backfill_end
<1>1. TypeOK /\ Counted
    BY DEF Inv
<1>2. /\ UNCHANGED <<dag, now, run_id, external_trigger, pc, next_run_date, procVars>>
      /\ now <= now'
    BY <1>1, DagFact DEF runVars, procVars
<1>3. TypeOK'
    BY <1>1 DEF TypeOK, runVars, procVars, envVars, Dates
<1>4. Counted'
    BY <1>1 DEF Counted, envVars
<1>5. \A e \in Dates : run_state[e] = "absent" <=> run_state'[e] = "absent"
    BY <1>1 DEF runVars, TypeOK
<1> QED
    BY <1>2, <1>3, <1>4, <1>5, StateKeeps

\* Events are counted.
LEMMA EventFact ==
    ASSUME TypeOK, Counted, Event
    PROVE  /\ events' \in 0..MaxEvents /\ clears + 1 \in 0..MaxEvents /\ backfills + 1 \in 0..MaxEvents
           /\ clears + backfills <= events' /\ clears + backfills + 1 <= events'
           /\ (clears + 1) + backfills <= events' /\ clears + (backfills + 1) <= events'
           /\ backfills + 1 > 0
<1>1. events \in 0..MaxEvents /\ clears \in 0..MaxEvents /\ backfills \in 0..MaxEvents
    BY DEF TypeOK
<1>2. clears + backfills <= events
    BY DEF Counted
<1>3. events < MaxEvents /\ events' = events + 1
    BY DEF Event
<1>4. MaxEvents \in Nat
    BY ConstantsAssumption
<1> QED
    BY <1>1, <1>2, <1>3, <1>4

\* A clear makes a run active again.
LEMMA ClearKeeps ==
    ASSUME Inv, NEW d \in Dates, clear(d)
    PROVE  Inv'
<1> USE DEF clear
<1>1. TypeOK /\ Counted
    BY DEF Inv
<1>2. UNCHANGED <<dag, run_id, external_trigger, procVars>> /\ now' = now /\ now <= now'
    BY <1>1, DagFact
<1>3. TypeOK'
    BY <1>1, EventFact DEF TypeOK, procVars, Dates
<1>4. Counted'
    BY <1>1, EventFact DEF Counted
<1>5. \A e \in Dates : run_state[e] = "absent" <=> run_state'[e] = "absent"
    BY <1>1 DEF TypeOK
<1> QED
    BY <1>2, <1>3, <1>4, <1>5, StateKeeps

\* A pause touches no run.
LEMMA PauseKeeps ==
    ASSUME Inv, set_is_paused
    PROVE  Inv'
<1> USE DEF set_is_paused
<1>1. TypeOK /\ Counted
    BY DEF Inv
<1>2. /\ UNCHANGED <<dag, run_state, run_id, external_trigger, procVars>>
      /\ now' = now /\ now <= now'
    BY <1>1, DagFact DEF runVars
<1>3. events' \in 0..MaxEvents /\ clears + backfills <= events'
  <2>1. CASE is_paused
      BY <1>1, <2>1 DEF TypeOK, Counted
  <2>2. CASE ~is_paused
      BY <1>1, <2>2, EventFact
  <2> QED
      BY <2>1, <2>2
<1>4. TypeOK'
    BY <1>1, <1>3 DEF TypeOK, runVars, procVars, Dates
<1>5. Counted'
    BY <1>1, <1>3 DEF Counted
<1> QED
    BY <1>2, <1>4, <1>5, StateKeeps

\* A trigger inserts a run that is not the scheduler's own.
LEMMA TriggerKeeps ==
    ASSUME Inv, NEW d \in TriggerDates, NEW id \in {"manual", "scheduled"}, trigger_dag(d, id)
    PROVE  Inv'
<1> USE DEF trigger_dag
<1>1. TypeOK /\ Counted /\ d \in Dates
    BY ConstantsAssumption DEF Inv, Dates
<1>2. UNCHANGED <<dag, procVars>> /\ now' = now /\ now <= now'
    BY <1>1, DagFact
<1>3. RunsKept /\ Made' \ Made \subseteq {d} /\ external_trigger'[d]
    BY <1>1 DEF TypeOK, RunsKept, Made, Insert
<1>4. TypeOK'
    BY <1>1, EventFact DEF TypeOK, Insert, procVars, Dates
<1>5. Counted'
    BY <1>1, EventFact DEF Counted
<1>6. (pc' = "last_run" => Found(next_run_date)) /\ (pc' = "create" => Chosen(next_run_date))
    BY <1>2 DEF procVars, Inv, DateIsFound, DateIsChosen
<1> PICK n : n = next_run_date'
  OBVIOUS
<1>7. n = next_run_date
    BY <1>2 DEF procVars
<1> QED
    BY <1>2, <1>3, <1>4, <1>5, <1>6, <1>7, StepKeeps

\* A backfill counts the active runs and looks for the run of its date.
LEMMA GetRunKeeps ==
    ASSUME Inv, NEW d \in BackfillDates, backfill_get_dag_run(d)
    PROVE  Inv'
<1> USE DEF backfill_get_dag_run
<1>1. TypeOK /\ Counted
    BY DEF Inv
<1>2. /\ UNCHANGED <<dag, run_state, run_id, external_trigger, procVars>>
      /\ now' = now /\ now <= now'
    BY <1>1, DagFact DEF runVars
<1>3. TypeOK'
  <2>1. PICK found : found = (d \in Made)
      OBVIOUS
  <2>2. found \in BOOLEAN
      BY <2>1
  <2>3. backfill' = [date |-> d, found |-> found]
      BY <2>1
  <2>4. backfill' \in [date : BackfillDates \cup {NoDate}, found : BOOLEAN]
      BY <2>2, <2>3
  <2>5. /\ events' \in 0..MaxEvents /\ clears' \in 0..MaxEvents /\ backfills' \in 0..MaxEvents
      BY <1>1, EventFact DEF TypeOK
  <2> QED
      BY <1>1, <2>4, <2>5 DEF TypeOK, runVars, procVars, Dates
<1>4. Counted'
    BY <1>1, EventFact DEF Counted
<1> QED
    BY <1>2, <1>3, <1>4, StateKeeps

\* A backfill takes over the run it has found, or inserts one.
LEMMA BackfillCreateKeeps ==
    ASSUME Inv, backfill_create_dagrun
    PROVE  Inv'
<1> USE DEF backfill_create_dagrun
<1>1. TypeOK /\ Counted
    BY DEF Inv
<1> PICK d : d = backfill.date
  OBVIOUS
<1>2. d \in Dates
    BY <1>1, ConstantsAssumption DEF Counted, Dates
<1>3. UNCHANGED <<dag, procVars>> /\ now' = now /\ now <= now'
    BY <1>1, DagFact
<1> PICK n : n = next_run_date'
  OBVIOUS
<1>4. (pc' = "last_run" => Found(n)) /\ (pc' = "create" => Chosen(n))
    BY <1>3 DEF procVars, Inv, DateIsFound, DateIsChosen
<1>5. CASE Insert(d, "backfill", external_trigger[d])
  <2>1. TypeOK'
      BY <1>1, <1>2, <1>5 DEF TypeOK, Insert, procVars, envVars, NoBackfill, Dates
  <2>2. RunsKept /\ Made' \ Made \subseteq {d} /\ run_id'[d] = "backfill"
      BY <1>1, <1>2, <1>5 DEF TypeOK, RunsKept, Made, Insert
  <2>3. Counted'
      BY <1>1 DEF Counted, envVars, NoBackfill
  <2> QED
      BY <1>3, <1>4, <2>1, <2>2, <2>3, StepKeeps
<1>6. CASE UNCHANGED runVars
  <2>1. TypeOK'
      BY <1>1, <1>6 DEF TypeOK, runVars, procVars, envVars, NoBackfill, Dates
  <2>2. RunsKept /\ Made' = Made
      BY <1>6 DEF RunsKept, Made, runVars
  <2>3. Counted'
      BY <1>1 DEF Counted, envVars, NoBackfill
  <2> QED
      BY <1>3, <1>4, <2>1, <2>2, <2>3, StepKeeps
<1> QED
    BY <1>5, <1>6

\* Every step keeps the invariant.
LEMMA NextKeeps == Inv /\ [Next]_vars => Inv'
<1> SUFFICES ASSUME Inv, [Next]_vars PROVE Inv'
  OBVIOUS
<1>1. CASE ProcessFile
    BY <1>1, CountKeeps, FindKeeps, ChooseKeeps, CreateKeeps, ExamineKeeps DEF ProcessFile
<1>2. CASE \E d \in Dates : finish_task(d) \/ backfill_end(d) \/ clear(d)
    BY <1>2, RunStepKeeps, ClearKeeps
<1>3. CASE \E d \in TriggerDates, id \in {"manual", "scheduled"} : trigger_dag(d, id)
    BY <1>3, TriggerKeeps
<1>4. CASE \E d \in BackfillDates : backfill_get_dag_run(d)
    BY <1>4, GetRunKeeps
<1>5. CASE UNCHANGED vars
  <2>1. TypeOK' /\ Counted'
      BY <1>5 DEF Inv, TypeOK, Counted, vars, runVars, procVars, envVars, Dates
  <2>2. /\ UNCHANGED <<dag, run_state, run_id, external_trigger, procVars>>
        /\ now' = now /\ now <= now'
      BY <1>5, DagFact DEF Inv, vars, runVars, procVars
  <2> QED
      BY <2>1, <2>2, StateKeeps
<1> QED
    BY <1>1, <1>2, <1>3, <1>4, <1>5, TickKeeps, BackfillCreateKeeps, PauseKeeps DEF Next

\* The invariant holds throughout.
LEMMA Invariance == Spec => []Inv
<1> QED
    BY InitEstablishes, NextKeeps, PTL DEF Spec

\* Every variable keeps its type, the counters of events their bound.
THEOREM TypeCorrect == Spec => []TypeOK
<1>1. Inv => TypeOK
    BY DEF Inv
<1> QED
    BY <1>1, Invariance, PTL

\* Whatever happens between the queries of create_dag_run and its insert, and whatever
\* backfills and users have made of the last run, the scheduler has a run only for a
\* period that is over and that lies within start_date and end_date.
THEOREM AlwaysPeriodIsOver == Spec => []PeriodIsOver
<1>1. Inv => PeriodIsOver
    BY DEF Inv, RunsAreChosen, Chosen, Due, is_due, PeriodIsOver
<1> QED
    BY <1>1, Invariance, PTL

\* With catchup create_dag_run never jumps an interval: not with runs inserted between
\* its two queries, not when a backfill takes a run over, for cron and for timedelta.
THEOREM NeverSkipsAnInterval == Spec => []NoIntervalSkipped
<1>1. Inv => NoIntervalSkipped
    BY DEF Inv, RunsAreChosen, Chosen, Follows, NoIntervalSkipped
<1> QED
    BY <1>1, Invariance, PTL

\* Two points behind a start date that catchup=False has moved up lie in the future, or
\* at this moment.
LEMMA LatestFact ==
    ASSUME TypeOK, ~dag.catchup, ~Once, NEW date \in Nat, start_date <= date
    PROVE  following_schedule(following_schedule(date)) >= now
<1>1. now \in Nat /\ dag.schedule_interval \in {"cron", "timedelta"}
    BY DagFact DEF Once
<1>2. CASE dag.schedule_interval = "timedelta"
    BY <1>1, <1>2, StartDateFact, ConstantsAssumption DEF following_schedule
<1>3. CASE dag.schedule_interval = "cron"
  <2> DEFINE p == (now - 1) \div Interval
             pp == (p * Interval - 1) \div Interval
             q == date \div Interval
             qq == following_schedule(date) \div Interval
  <2>1. p \in Int /\ p * Interval \in Int /\ now - 1 < p * Interval + Interval
      BY <1>1, Quotient, ConstantsAssumption
  <2>2. pp \in Int /\ pp * Interval \in Int /\ p * Interval - 1 < pp * Interval + Interval
      BY <2>1, Quotient, ConstantsAssumption
  <2>3. start_date \in Int /\ pp * Interval <= start_date
      BY <1>3, StartDateFact
  <2>4. q \in Int
      BY Quotient
  <2>5. pp <= q
    <3> HIDE DEF pp
    <3>1. pp * Interval <= date
        BY <2>2, <2>3
    <3> QED
        BY <2>2, <3>1, QuotientMonotone
  <2>6. following_schedule(date) = (q + 1) * Interval
      BY <1>3 DEF following_schedule
  <2>7. qq = q + 1
    <3> HIDE DEF q
    <3>1. q + 1 \in Int /\ (q + 1) * Interval \in Int
        BY <2>4, ConstantsAssumption
    <3>2. ((q + 1) * Interval) \div Interval = q + 1
        BY <3>1, QuotientUnique, ConstantsAssumption
    <3> QED
        BY <2>6, <3>2
  <2>8. following_schedule(following_schedule(date)) = (q + 2) * Interval
    <3>1. following_schedule(following_schedule(date)) = (qq + 1) * Interval
        BY <1>3 DEF following_schedule
    <3> HIDE DEF q, qq
    <3> QED
        BY <2>4, <2>7, <3>1
  <2> HIDE DEF p, pp, q
  <2>9. (pp + 2) * Interval <= (q + 2) * Interval
      BY <2>2, <2>4, <2>5, ConstantsAssumption
  <2>10. (pp + 2) * Interval = pp * Interval + Interval + Interval
      BY <2>2, ConstantsAssumption
  <2>11. now <= pp * Interval + Interval + Interval
      BY <1>1, <2>1, <2>2, ConstantsAssumption
  <2>12. (q + 2) * Interval \in Int /\ (pp + 2) * Interval \in Int
      BY <2>2, <2>4, ConstantsAssumption
  <2> QED
      BY <1>1, <2>8, <2>9, <2>10, <2>11, <2>12
<1> QED
    BY <1>1, <1>2, <1>3

\* Without catchup a run is created only for the latest interval that has ended, at
\* whatever time the file is processed.
THEOREM AlwaysLatestInterval == Spec => OnlyLatestInterval
<1> DEFINE A == (pc = "last_run" /\ pc' = "create" /\ ~dag.catchup /\ ~Once)
                  => following_schedule(following_schedule(next_run_date')) >= now
<1>1. ASSUME Inv, [Next]_vars PROVE [A]_vars
  <2> SUFFICES ASSUME pc = "last_run", pc' = "create", ~dag.catchup, ~Once
               PROVE  following_schedule(following_schedule(next_run_date')) >= now
    OBVIOUS
  <2>1. choose_next_run_date
      BY <1>1 DEF Next, vars, ProcessFile, count_active, find_last_scheduled_run, create_dagrun,
         process_task_instances, tick, finish_task, backfill_end, clear, trigger_dag,
         backfill_get_dag_run, backfill_create_dagrun, set_is_paused, procVars
  <2> PICK a : a = after_last_run(next_run_date)
    OBVIOUS
  <2> PICK date : date = not_before(start_date, a)
    OBVIOUS
  <2>2. next_run_date' = date
      BY <2>1 DEF choose_next_run_date
  <2>3. a \in Nat
      BY <1>1, AfterLastRunFact DEF Inv, DateIsFound, Found
  <2>4. start_date # NoDate
      BY <1>1, StartDateFact, ConstantsAssumption DEF Inv
  <2>5. date \in Nat /\ start_date <= date
      BY <1>1, <2>3, <2>4, NotBeforeFact DEF Inv
  <2> QED
      BY <1>1, <2>2, <2>5, LatestFact DEF Inv
<1>2. Inv /\ [Next]_vars => [A]_vars
    BY <1>1
<1> QED
    BY <1>2, Invariance, PTL DEF Spec, OnlyLatestInterval

-----------------------------------------------------------------------------
(* The active runs. *)

\* The run that a backfill has counted for and not made yet.
Pending == { d \in Dates : backfill # NoBackfill /\ d = backfill.date /\ ~external_trigger[d] }

Counts == Active \cup Pending

\* create_dag_run has counted the active runs and not created its run yet.
Creating == IF pc \in {"find", "last_run", "create"} THEN 1 ELSE 0

\* The strengthening of ActiveRunsBounded: each of the two who count first and create
\* later has a place of its own.
PlacesBounded ==
    Cardinality(Counts) + Creating
        <= dag.max_active_runs + clears + (IF backfills > 0 THEN 1 ELSE 0)

\* The size of a set of dates, of its subsets, and of the set with one more date.
LEMMA SizeFact ==
    ASSUME NEW S \in SUBSET Dates
    PROVE  /\ Cardinality(S) \in Nat
           /\ \A T \in SUBSET S : Cardinality(T) \in Nat /\ Cardinality(T) <= Cardinality(S)
           /\ \A x \in Dates : \A T \in SUBSET (S \cup {x}) :
                Cardinality(T) \in Nat /\ Cardinality(T) <= Cardinality(S) + 1
<1>1. IsFiniteSet(Dates)
    BY FS_Interval, ConstantsAssumption DEF Dates
<1>2. IsFiniteSet(S)
    BY <1>1, FS_Subset
<1>3. Cardinality(S) \in Nat
    BY <1>2, FS_CardinalityType
<1>4. ASSUME NEW T \in SUBSET S
      PROVE  Cardinality(T) \in Nat /\ Cardinality(T) <= Cardinality(S)
    BY <1>2, FS_Subset, FS_CardinalityType
<1>5. ASSUME NEW x \in Dates, NEW T \in SUBSET (S \cup {x})
      PROVE  Cardinality(T) \in Nat /\ Cardinality(T) <= Cardinality(S) + 1
  <2>1. /\ IsFiniteSet(S \cup {x})
        /\ Cardinality(S \cup {x}) \in Nat /\ Cardinality(S \cup {x}) <= Cardinality(S) + 1
    <3>1. CASE x \in S
      <4>1. S \cup {x} = S
          BY <3>1
      <4>2. Cardinality(S) <= Cardinality(S) + 1
          BY <1>3
      <4> QED
          BY <1>2, <1>3, <4>1, <4>2, Zenon
    <3>2. CASE x \notin S
        BY <1>2, <1>3, <3>2, FS_AddElement
    <3> QED
        BY <3>1, <3>2
  <2>2. IsFiniteSet(T) /\ Cardinality(T) <= Cardinality(S \cup {x})
      BY <2>1, FS_Subset
  <2> QED
      BY <1>3, <2>1, <2>2, FS_CardinalityType
<1> QED
    BY <1>3, <1>4, <1>5

\* The sets and numbers that PlacesBounded is about.
LEMMA PlacesFact ==
    ASSUME TypeOK
    PROVE  /\ Active \in SUBSET Dates /\ Pending \in SUBSET Dates /\ Counts \in SUBSET Dates
           /\ Creating \in {0, 1}
           /\ dag.max_active_runs \in Nat /\ clears \in Nat /\ backfills \in Nat
<1>1. clears \in 0..MaxEvents /\ backfills \in 0..MaxEvents
    BY DEF TypeOK
<1> QED
    BY <1>1, DagFact, ConstantsAssumption DEF Active, Running, Pending, Counts, Creating

\* A step that counts no more, with at most as many places taken as before.
LEMMA NoMorePlaces ==
    ASSUME TypeOK, TypeOK', PlacesBounded, dag' = dag, clears' = clears, backfills <= backfills',
           Counts' \subseteq Counts, Creating' <= Creating
    PROVE  PlacesBounded'
<1>1. Cardinality(Counts') \in Nat /\ Cardinality(Counts) \in Nat
      /\ Cardinality(Counts') <= Cardinality(Counts)
    BY PlacesFact, SizeFact
<1>2. /\ Creating \in {0, 1} /\ dag.max_active_runs \in Nat /\ clears \in Nat /\ backfills \in Nat
      /\ Creating' \in {0, 1} /\ backfills' \in Nat
  <2>1. Creating' \in {0, 1} /\ backfills' \in Nat
    <3>1. backfills' \in 0..MaxEvents
        BY DEF TypeOK
    <3> QED
        BY <3>1, ConstantsAssumption DEF Creating
  <2> QED
      BY <2>1, PlacesFact
<1> QED
    BY <1>1, <1>2 DEF PlacesBounded

\* create_dag_run goes on only if less than max_active_runs are active.
LEMMA CountPlaces ==
    ASSUME Inv, Inv', PlacesBounded, NEW timedout \in SUBSET Active, count_active(timedout)
    PROVE  PlacesBounded'
<1>1. TypeOK /\ TypeOK' /\ Counted
    BY DEF Inv
<1>2. /\ UNCHANGED <<dag, external_trigger, backfill, clears, backfills>>
      /\ pc = "idle" /\ Pending' = Pending
    BY DEF count_active, envVars, Pending, Dates
<1>3. Active' = Active \ timedout
    BY <1>1 DEF count_active, Active, Running, TypeOK, Dates
<1>4. CASE Cardinality(Active \ timedout) >= dag.max_active_runs
  <2>1. pc' = "examine"
      BY <1>4 DEF count_active
  <2>2. Creating' <= Creating /\ Counts' \subseteq Counts
      BY <1>2, <1>3, <2>1 DEF Creating, Counts
  <2>3. backfills <= backfills'
      BY <1>1, <1>2, PlacesFact
  <2> QED
      BY <1>1, <1>2, <2>2, <2>3, NoMorePlaces
<1>5. CASE ~(Cardinality(Active \ timedout) >= dag.max_active_runs)
  <2>1. Creating' = 1
      BY <1>5 DEF count_active, Creating
  <2>2. /\ dag.max_active_runs \in Nat /\ clears \in Nat /\ backfills \in Nat
        /\ Active \ timedout \in SUBSET Dates
      BY <1>1, PlacesFact
  <2>3. Cardinality(Active \ timedout) \in Nat
      BY <2>2, SizeFact
  <2>4. Cardinality(Active \ timedout) + 1 <= dag.max_active_runs
      BY <1>5, <2>2, <2>3
  <2>5. CASE backfill = NoBackfill
    <3>1. Counts' = Active \ timedout
        BY <1>2, <1>3, <2>5 DEF Counts, Pending
    <3> QED
        BY <1>2, <2>1, <2>2, <2>3, <2>4, <3>1 DEF PlacesBounded
  <2>6. CASE backfill # NoBackfill
    <3>1. PICK x \in Dates : x = backfill.date
        BY <1>1, <2>6, ConstantsAssumption DEF Counted, Dates
    <3>2. backfills > 0
        BY <1>1, <2>6 DEF Counted
    <3>3. Counts' \in SUBSET ((Active \ timedout) \cup {x})
        BY <1>2, <1>3, <3>1 DEF Counts, Pending
    <3>4. Cardinality(Counts') \in Nat /\ Cardinality(Counts') <= Cardinality(Active \ timedout) + 1
        BY <2>2, <3>3, SizeFact
    <3> QED
        BY <1>2, <2>1, <2>2, <2>3, <2>4, <3>2, <3>4 DEF PlacesBounded
  <2> QED
      BY <2>5, <2>6
<1> QED
    BY <1>4, <1>5

\* A step after which one more run counts, which had or gets a place.
LEMMA OneMorePlace ==
    ASSUME TypeOK, TypeOK', PlacesBounded, dag' = dag, backfills' = backfills,
           NEW x \in Dates, Counts' \subseteq Counts \cup {x},
           (Creating = 1 /\ Creating' = 0 /\ clears' = clears)
             \/ (Creating' = Creating /\ clears' = clears + 1)
    PROVE  PlacesBounded'
<1>1. Cardinality(Counts) \in Nat /\ Counts \in SUBSET Dates
    BY PlacesFact, SizeFact
<1>2. Cardinality(Counts') \in Nat /\ Cardinality(Counts') <= Cardinality(Counts) + 1
    BY <1>1, SizeFact
<1>3. Creating \in {0, 1} /\ dag.max_active_runs \in Nat /\ clears \in Nat /\ backfills \in Nat
    BY PlacesFact
<1> QED
    BY <1>1, <1>2, <1>3 DEF PlacesBounded

\* The scheduler takes a place that it has counted as free.
LEMMA CreatePlaces ==
    ASSUME Inv, Inv', PlacesBounded, create_dagrun
    PROVE  PlacesBounded'
<1>1. TypeOK /\ TypeOK'
    BY DEF Inv
<1> PICK n : n = next_run_date
  OBVIOUS
<1>2. /\ UNCHANGED <<dag, backfill, clears, backfills>>
      /\ Creating = 1 /\ Creating' = 0
    BY DEF create_dagrun, Creating, envVars
<1>3. n \in Dates
    BY DEF create_dagrun, Inv, DateIsChosen, Chosen
<1>4. CASE Insert(n, "scheduled", FALSE)
  <2>1. Counts' \subseteq Counts \cup {n}
      BY <1>1, <1>2, <1>3, <1>4 DEF Insert, Counts, Active, Running, Pending, TypeOK
  <2> QED
      BY <1>1, <1>2, <1>3, <2>1, OneMorePlace
<1>5. CASE UNCHANGED runVars
  <2>1. Counts' = Counts
      BY <1>2, <1>5 DEF runVars, Counts, Active, Running, Pending
  <2> QED
      BY <1>1, <1>2, <1>3, <2>1, OneMorePlace
<1> QED
    BY <1>4, <1>5 DEF create_dagrun

\* A clear takes one place more, which is allowed for.
LEMMA ClearPlaces ==
    ASSUME Inv, Inv', PlacesBounded, NEW d \in Dates, clear(d)
    PROVE  PlacesBounded'
<1>1. TypeOK /\ TypeOK'
    BY DEF Inv
<1>2. /\ UNCHANGED <<dag, backfill, external_trigger, backfills>>
      /\ clears' = clears + 1 /\ Creating' = Creating
    BY DEF clear, Creating, procVars
<1>3. Counts' \subseteq Counts \cup {d}
    BY <1>1, <1>2 DEF clear, Counts, Active, Running, Pending, TypeOK
<1> QED
    BY <1>1, <1>2, <1>3, OneMorePlace

\* A backfill goes on only if its run is active, or if less than max_active_runs are.
LEMMA GetRunPlaces ==
    ASSUME Inv, Inv', PlacesBounded, NEW d \in BackfillDates, backfill_get_dag_run(d)
    PROVE  PlacesBounded'
<1>1. TypeOK /\ TypeOK' /\ d \in Dates
    BY ConstantsAssumption DEF Inv, Dates
<1>2. /\ UNCHANGED <<dag, run_state, external_trigger, clears>>
      /\ backfills' = backfills + 1 /\ Creating' = Creating
      /\ backfill = NoBackfill /\ backfill'.date = d
    BY DEF backfill_get_dag_run, Creating, procVars, runVars
<1>3. Counts = Active /\ Active' = Active
    BY <1>2 DEF Counts, Pending, Active, Running
<1>4. Creating \in {0, 1} /\ dag.max_active_runs \in Nat /\ clears \in Nat /\ backfills \in Nat
      /\ Active \in SUBSET Dates /\ Cardinality(Active) \in Nat
    BY <1>1, PlacesFact, SizeFact
<1>5. CASE run_state[d] = "running"
  <2>1. Counts' \subseteq Counts
      BY <1>1, <1>2, <1>3, <1>5 DEF Counts, Pending, Active, Running
  <2>2. backfills <= backfills' /\ Creating' <= Creating
      BY <1>2, <1>4
  <2> QED
      BY <1>1, <1>2, <2>1, <2>2, NoMorePlaces
<1>6. CASE Cardinality(Active) < dag.max_active_runs
  <2>1. Counts' \in SUBSET (Active \cup {d})
      BY <1>2, <1>3 DEF Counts, Pending
  <2>2. Cardinality(Counts') \in Nat /\ Cardinality(Counts') <= Cardinality(Active) + 1
      BY <1>1, <1>4, <2>1, SizeFact
  <2> QED
      BY <1>2, <1>4, <1>6, <2>2 DEF PlacesBounded
<1> QED
    BY <1>5, <1>6 DEF backfill_get_dag_run

\* A backfill takes a place that it has counted as free.
LEMMA BackfillCreatePlaces ==
    ASSUME Inv, Inv', PlacesBounded, backfill_create_dagrun
    PROVE  PlacesBounded'
<1>1. TypeOK /\ TypeOK' /\ Counted
    BY DEF Inv
<1> PICK d : d = backfill.date
  OBVIOUS
<1>2. /\ UNCHANGED <<dag, clears, backfills>> /\ Creating' = Creating
      /\ backfill # NoBackfill /\ backfill' = NoBackfill /\ d \in Dates
    BY <1>1, ConstantsAssumption DEF backfill_create_dagrun, Creating, procVars, envVars, Counted, Dates
<1>3. Counts' = Active'
    BY <1>2 DEF Counts, Pending
<1>4. Active' \subseteq Active \cup Pending
  <2>1. CASE Insert(d, "backfill", external_trigger[d])
      BY <1>1, <1>2, <2>1 DEF Insert, Active, Running, Pending, TypeOK
  <2>2. CASE UNCHANGED runVars
      BY <2>2 DEF Active, Running, runVars
  <2> QED
      BY <2>1, <2>2 DEF backfill_create_dagrun
<1>5. backfills <= backfills' /\ Creating' <= Creating
    BY <1>1, <1>2, PlacesFact
<1> QED
    BY <1>1, <1>2, <1>3, <1>4, <1>5, NoMorePlaces DEF Counts

\* The other steps make no run that counts.
LEMMA OtherPlaces ==
    ASSUME Inv, Inv', PlacesBounded,
           \/ find_last_scheduled_run \/ choose_next_run_date \/ process_task_instances
           \/ tick \/ set_is_paused \/ UNCHANGED vars
           \/ \E d \in Dates : finish_task(d) \/ backfill_end(d)
           \/ \E d \in TriggerDates, id \in {"manual", "scheduled"} : trigger_dag(d, id)
    PROVE  PlacesBounded'
<1>1. TypeOK /\ TypeOK'
    BY DEF Inv
<1>2. UNCHANGED <<dag, clears, backfills, backfill>>
    BY DEF find_last_scheduled_run, choose_next_run_date, process_task_instances, tick,
       set_is_paused, vars, finish_task, backfill_end, trigger_dag, envVars
<1>3. Creating' <= Creating
  <2>1. Creating' \in {0, 1} /\ Creating \in {0, 1}
      BY DEF Creating
  <2>2. Creating = 0 => Creating' = 0
      BY DEF Creating, find_last_scheduled_run, choose_next_run_date, process_task_instances, tick,
         set_is_paused, vars, finish_task, backfill_end, trigger_dag, procVars
  <2> QED
      BY <2>1, <2>2
<1>4. Counts' \subseteq Counts
  <2>1. CASE UNCHANGED runVars
      BY <1>2, <2>1 DEF runVars, Counts, Active, Running, Pending
  <2>2. CASE process_task_instances
      BY <1>1, <1>2, <2>2 DEF process_task_instances, Counts, Active, Running, Pending, TypeOK, Dates
  <2>3. CASE \E d \in Dates : backfill_end(d)
    <3>1. PICK d \in Dates : run_state' = [run_state EXCEPT ![d] = "ended"] /\ external_trigger' = external_trigger
        BY <2>3 DEF backfill_end
    <3>2. \A e \in Dates : run_state'[e] = run_state[e] \/ run_state'[e] = "ended"
        BY <1>1, <3>1 DEF TypeOK
    <3>3. Active' \subseteq Active
        BY <3>1, <3>2 DEF Active, Running
    <3>4. Pending' = Pending
        BY <1>2, <3>1 DEF Pending
    <3> QED
        BY <3>3, <3>4 DEF Counts
  <2>4. CASE \E d \in TriggerDates, id \in {"manual", "scheduled"} : trigger_dag(d, id)
    <3>1. PICK d \in TriggerDates, id \in {"manual", "scheduled"} : trigger_dag(d, id)
        BY <2>4
    <3>2. d \in Dates
        BY ConstantsAssumption DEF Dates
    <3> QED
        BY <1>1, <1>2, <3>1, <3>2 DEF trigger_dag, Insert, Counts, Active, Running, Pending, TypeOK
  <2> QED
      BY <2>1, <2>2, <2>3, <2>4 DEF find_last_scheduled_run, choose_next_run_date, tick,
         set_is_paused, vars, finish_task
<1>5. backfills <= backfills'
    BY <1>1, <1>2, PlacesFact
<1> QED
    BY <1>1, <1>2, <1>3, <1>4, <1>5, NoMorePlaces

\* Scheduler and backfill never exceed max_active_runs by more than the one run that they
\* can both count as free, and users by no more than the runs that they have cleared.
THEOREM AlwaysBounded == Spec => []ActiveRunsBounded
<1>1. Init => PlacesBounded
  <2> SUFFICES ASSUME Init PROVE PlacesBounded
    OBVIOUS
  <2>1. Counts = {} /\ Creating = 0 /\ clears = 0 /\ backfills = 0
      BY DEF Init, Counts, Active, Running, Pending, Creating
  <2>2. dag.max_active_runs \in Nat
      BY InitEstablishes, DagFact DEF Inv
  <2> QED
      BY <2>1, <2>2, FS_EmptySet DEF PlacesBounded
<1>2. Inv /\ Inv' /\ PlacesBounded /\ [Next]_vars => PlacesBounded'
  <2> SUFFICES ASSUME Inv, Inv', PlacesBounded, [Next]_vars PROVE PlacesBounded'
    OBVIOUS
  <2>1. CASE ProcessFile
      BY <2>1, CountPlaces, CreatePlaces, OtherPlaces DEF ProcessFile
  <2>2. CASE \E d \in Dates : finish_task(d) \/ backfill_end(d) \/ clear(d)
    <3>1. PICK d \in Dates : finish_task(d) \/ backfill_end(d) \/ clear(d)
        BY <2>2
    <3>2. CASE clear(d)
        BY <3>2, ClearPlaces
    <3>3. CASE finish_task(d) \/ backfill_end(d)
        BY <3>3, OtherPlaces
    <3> QED
        BY <3>1, <3>2, <3>3
  <2>3. CASE \E d \in BackfillDates : backfill_get_dag_run(d)
      BY <2>3, GetRunPlaces
  <2>4. CASE backfill_create_dagrun
      BY <2>4, BackfillCreatePlaces
  <2>5. CASE tick \/ set_is_paused \/ UNCHANGED vars
      BY <2>5, OtherPlaces
  <2>6. CASE \E d \in TriggerDates, id \in {"manual", "scheduled"} : trigger_dag(d, id)
      BY <2>6, OtherPlaces
  <2> QED
      BY <2>1, <2>2, <2>3, <2>4, <2>5, <2>6 DEF Next
<1>3. Inv /\ PlacesBounded => ActiveRunsBounded
  <2> SUFFICES ASSUME Inv, PlacesBounded PROVE ActiveRunsBounded
    OBVIOUS
  <2>1. TypeOK
      BY DEF Inv
  <2>2. Counts \in SUBSET Dates /\ Active \in SUBSET Counts /\ Creating \in {0, 1}
        /\ dag.max_active_runs \in Nat /\ clears \in Nat /\ backfills \in Nat
      BY <2>1, PlacesFact DEF Counts
  <2>3. /\ Cardinality(Active) \in Nat /\ Cardinality(Counts) \in Nat
        /\ Cardinality(Active) <= Cardinality(Counts)
      BY <2>2, SizeFact
  <2> QED
      BY <2>2, <2>3 DEF PlacesBounded, ActiveRunsBounded
<1> QED
    BY <1>1, <1>2, <1>3, Invariance, PTL DEF Spec
=============================================================================
