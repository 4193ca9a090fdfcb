---------------------------- MODULE DagRunProofs ----------------------------
(***************************************************************************)
(* Proofs about DagRun.tla for every acyclic DAG, any rules and retries.   *)
(*                                                                         *)
(* Type correctness holds in general.  What the trigger rules promise is   *)
(* proved as long as nothing but the file processor and the tasks          *)
(* themselves have changed the run (DagRunClearLost shows that a clear     *)
(* breaks it), for branches whose targets wait for them.  What a branch    *)
(* has skipped is followed through clears in the last part.                *)
(***************************************************************************)
EXTENDS DagRun, TriggerRuleProofs, FiniteSetTheorems

(***************************************************************************)
(* The counts of TriggerRuleDep as a function of the parents P, those that *)
(* are looked at, F, and their states S.                                   *)
(***************************************************************************)
CountsOf(P, F, S) ==
    LET count(X) == Cardinality({ u \in P \cap F : S[u] \in X })
    IN  [success |-> count({SUCCESS}), skipped |-> count({SKIPPED}), failed |-> count({FAILED}),
         upstream_failed |-> count({UPSTREAM_FAILED}), done |-> count(DoneStates),
         n |-> Cardinality(P)]

\* The rule is met, and the evaluation leaves the row alone.
Go(rule, c) == rule_met(rule, c) /\ flagged_state(rule, c) = NoFlag

\* t may go by the rows, and by the copy of the file processor.
GoesNow(t) == Up[t] = {} \/ Go(trigger_rule[t], CountsOf(Up[t], Tasks, state))
GoesSeen(t) == Up[t] = {} \/ Go(trigger_rule[t], CountsOf(Up[t], finished_tasks, seen))

Started == {SCHEDULED, RUNNING, UP_FOR_RETRY}
Waiting == {NONE, UP_FOR_RETRY}

\* The rules that wait for every parent.
EarlyRules == {"dummy", "one_success", "one_failed"}
WaitsForAll(t) == trigger_rule[t] \notin EarlyRules

(***************************************************************************)
(* The parts of the inductive invariant.                                   *)
(***************************************************************************)

\* Only a task with a process is RUNNING, and what has been sent could go.
RowsAreRight ==
    /\ \A t \in Tasks : state[t] \in {NONE} \cup Started \cup DoneStates
    /\ working = { t \in Tasks : state[t] = RUNNING }
    /\ \A t \in Tasks : state[t] \in Started => GoesNow(t)

\* What is directly behind a branch waits for it, or has been skipped; what a branch has
\* recorded is skipped; and on the copy too, as long as the branch has not finished there, its
\* targets have not, unless they are skipped.
TargetsWait ==
    \A b \in Branches, t \in Tasks :
        (b \in Up[t] /\ state[b] \notin DoneStates) => state[t] \in {NONE, SKIPPED}
RecordIsKept ==
    \A b \in Branches : \A t \in xcom[b] : t \in Tasks /\ b \in Up[t] /\ state[t] = SKIPPED
CopyOfTargets ==
    step # "idle" =>
        /\ \A b \in Branches, t \in finished_tasks :
             (b \in Up[t] /\ b \notin finished_tasks) => seen[t] = SKIPPED
        /\ \A t \in Tasks \ finished_tasks : ~previously_skipped(t)
RulesAreKept == \A t \in Tasks : trigger_rule[t] \in RulesOf[t]

BranchesAreRight == TargetsWait /\ RecordIsKept /\ CopyOfTargets /\ RulesAreKept

\* Of the rows in the copy, the ones of tasks that were sent may have changed since, and so may
\* the ones behind a branch that had not finished; the others are as the copy has them.
SkippedSince(t) ==
    seen[t] = NONE /\ state[t] = SKIPPED /\ \E b \in Branches \cap Up[t] : b \notin finished_tasks
CopyIsRight ==
    step # "idle" =>
        /\ run_state = RUNNING
        /\ \A t \in Tasks :
             /\ seen[t] \in {NONE} \cup Started \cup DoneStates
             /\ seen[t] \in Waiting \cup DoneStates => state[t] = seen[t] \/ SkippedSince(t)
             /\ seen[t] \in Started => GoesSeen(t)
             /\ t \in finished_tasks => seen[t] \in DoneStates
             /\ (t \notin finished_tasks /\ seen[t] \in DoneStates) => flags(t) = {seen[t]}

\* What has been examined and is still waiting has no flag to be set.
ExaminedIsFlagged ==
    /\ step = "examine" => \A t \in todo : seen[t] \in Waiting
    /\ step \in {"examine", "premature", "decide"} =>
         \A t \in Tasks \ finished_tasks :
            /\ (seen[t] \in Waiting /\ ~(step = "examine" /\ t \in todo)) => flags(t) = {}
            /\ (seen[t] \in DoneStates /\ ~dependencies_met(t)) => changed_tis
    /\ step = "premature" => todo \subseteq unfinished_tasks

\* What is ready has its dependencies met, and is not flagged unless its row is.
ReadyIsMet ==
    step # "idle" =>
        \A t \in ready_tis :
            /\ t \in unfinished_tasks /\ dependencies_met(t)
            /\ seen[t] \in Waiting \cup DoneStates
            /\ seen[t] \in Waiting => flags(t) = {}

\* _are_premature_tis has found nothing so far.
PrematureIsMet ==
    (step \in {"premature", "decide"} /\ ready_tis = {} /\ ~changed_tis) =>
        \A t \in unfinished_tasks : (step = "premature" /\ t \in todo) \/ ~dependencies_met(t)

Inv == TypeOK /\ RowsAreRight /\ CopyIsRight /\ ExaminedIsFlagged /\ ReadyIsMet /\ PrematureIsMet
       /\ BranchesAreRight /\ VerdictIsSound

-----------------------------------------------------------------------------
(* Facts about the counts. *)

\* What is counted is a finite set of parents.
LEMMA CountIsNat ==
    ASSUME NEW P, IsFiniteSet(P), NEW F, NEW S, NEW X
    PROVE  /\ IsFiniteSet({ u \in P \cap F : S[u] \in X })
           /\ Cardinality({ u \in P \cap F : S[u] \in X }) \in Nat
           /\ Cardinality({ u \in P \cap F : S[u] \in X }) <= Cardinality(P)
           /\ Cardinality({ u \in P \cap F : S[u] \in X }) = Cardinality(P)
                => \A u \in P : u \in F /\ S[u] \in X
<1> DEFINE T == { u \in P \cap F : S[u] \in X }
<1>1. T \in SUBSET P
    OBVIOUS
<1>2. /\ IsFiniteSet(T) /\ Cardinality(T) <= Cardinality(P)
      /\ Cardinality(P) = Cardinality(T) => P = T
    BY <1>1, FS_Subset
<1>3. Cardinality(T) \in Nat
    BY <1>2, FS_CardinalityType
<1> QED
    BY <1>2, <1>3

\* Every parent that is done is in one of the four states.
LEMMA CountsAreTallied ==
    ASSUME NEW P, IsFiniteSet(P), P # {}, NEW F, NEW S
    PROVE  Tallied(CountsOf(P, F, S))
<1> DEFINE At(X) == { u \in P \cap F : S[u] \in X }
<1> DEFINE c == CountsOf(P, F, S)
<1>1. \A X : IsFiniteSet(At(X)) /\ Cardinality(At(X)) \in Nat /\ Cardinality(At(X)) <= Cardinality(P)
    BY CountIsNat
<1>2. Cardinality(P) \in Nat /\ Cardinality(P) # 0
    BY FS_CardinalityType, FS_EmptySet
<1>3. /\ c.success = Cardinality(At({SUCCESS})) /\ c.skipped = Cardinality(At({SKIPPED}))
      /\ c.failed = Cardinality(At({FAILED})) /\ c.upstream_failed = Cardinality(At({UPSTREAM_FAILED}))
      /\ c.done = Cardinality(At(DoneStates)) /\ c.n = Cardinality(P)
    BY DEF CountsOf
<1>4. c \in Counts
    BY <1>1, <1>2 DEF CountsOf, Counts
<1>5. \A X, Y : X \cap Y = {} => Cardinality(At(X \cup Y)) = Cardinality(At(X)) + Cardinality(At(Y))
  <2> SUFFICES ASSUME NEW X, NEW Y, X \cap Y = {}
               PROVE  Cardinality(At(X \cup Y)) = Cardinality(At(X)) + Cardinality(At(Y))
      OBVIOUS
  <2>1. At(X \cup Y) = At(X) \cup At(Y) /\ At(X) \cap At(Y) = {}
      OBVIOUS
  <2>2. Cardinality(At(X) \cup At(Y)) = Cardinality(At(X)) + Cardinality(At(Y)) - Cardinality(At(X) \cap At(Y))
      BY <1>1, FS_Union
  <2>4. Cardinality(At(X)) \in Nat /\ Cardinality(At(Y)) \in Nat
      BY <1>1
  <2>3. Cardinality(At(X) \cap At(Y)) = 0
      BY <2>1, FS_EmptySet
  <2>5. Cardinality(At(X \cup Y)) = Cardinality(At(X) \cup At(Y))
      BY <2>1
  <2> HIDE DEF At
  <2> QED
      BY <2>2, <2>3, <2>4, <2>5
<1>6. c.done = c.success + c.skipped + c.failed + c.upstream_failed
  <2> HIDE DEF At, c
  <2>1. /\ DoneStates = ({SUCCESS} \cup {SKIPPED}) \cup ({FAILED} \cup {UPSTREAM_FAILED})
        /\ ({SUCCESS} \cup {SKIPPED}) \cap ({FAILED} \cup {UPSTREAM_FAILED}) = {}
        /\ {SUCCESS} \cap {SKIPPED} = {} /\ {FAILED} \cap {UPSTREAM_FAILED} = {}
      BY DEF DoneStates, finished, SUCCESS, SKIPPED, FAILED, UPSTREAM_FAILED
  <2>2. /\ Cardinality(At(DoneStates)) =
             Cardinality(At({SUCCESS} \cup {SKIPPED})) + Cardinality(At({FAILED} \cup {UPSTREAM_FAILED}))
        /\ Cardinality(At({SUCCESS} \cup {SKIPPED})) = Cardinality(At({SUCCESS})) + Cardinality(At({SKIPPED}))
        /\ Cardinality(At({FAILED} \cup {UPSTREAM_FAILED})) =
             Cardinality(At({FAILED})) + Cardinality(At({UPSTREAM_FAILED}))
      BY <1>5, <2>1
  <2> QED
      BY <1>1, <1>3, <2>2
<1> QED
    BY <1>1, <1>2, <1>3, <1>4, <1>6 DEF Tallied

\* Done parents that keep their states are still counted.
LEMMA CountsGrow ==
    ASSUME NEW P, IsFiniteSet(P), NEW F, NEW S, NEW G, NEW R,
           \A u \in P \cap F : S[u] \in DoneStates => u \in G /\ R[u] = S[u]
    PROVE  Later(CountsOf(P, F, S), CountsOf(P, G, R))
<1>1. \A X : X \subseteq DoneStates =>
         Cardinality({ u \in P \cap F : S[u] \in X }) <= Cardinality({ u \in P \cap G : R[u] \in X })
  <2> SUFFICES ASSUME NEW X, X \subseteq DoneStates
               PROVE  Cardinality({ u \in P \cap F : S[u] \in X }) <= Cardinality({ u \in P \cap G : R[u] \in X })
      OBVIOUS
  <2>1. { u \in P \cap F : S[u] \in X } \in SUBSET { u \in P \cap G : R[u] \in X }
      OBVIOUS
  <2>2. IsFiniteSet({ u \in P \cap G : R[u] \in X })
      BY CountIsNat
  <2> QED
      BY <2>1, <2>2, FS_Subset
<1> QED
    BY <1>1 DEF Later, CountsOf, DoneStates, finished

\* A rule that lets a task go is not taken back by what other parents do.
LEMMA GoIsStable ==
    ASSUME NEW rule \in Rules, NEW c, NEW d, Tallied(c), Tallied(d), Later(c, d), Go(rule, c)
    PROVE  Go(rule, d)
<1>1. /\ c.success \in Nat /\ c.skipped \in Nat /\ c.failed \in Nat
      /\ c.upstream_failed \in Nat /\ c.done \in Nat /\ c.n \in Nat
      /\ d.success \in Nat /\ d.skipped \in Nat /\ d.failed \in Nat
      /\ d.upstream_failed \in Nat /\ d.done \in Nat /\ d.n \in Nat
    BY DEF Tallied, Counts
<1>2. rule_met(rule, d)
  <2>1. CASE rule \in {"all_success", "none_failed", "none_failed_or_skipped", "dummy"}
      BY <1>1, <2>1 DEF Go, Later, rule_met
  <2>2. CASE rule \in {"one_success", "one_failed"}
      BY <1>1, <2>2 DEF Go, Later, rule_met
  <2>3. CASE rule = "all_failed"
      BY <1>1, <2>3 DEF Go, Later, rule_met
  <2>4. CASE rule \in {"all_done", "none_skipped"}
      BY <1>1, <2>4 DEF Go, Tallied, Later, rule_met
  <2> QED
      BY <2>1, <2>2, <2>3, <2>4 DEF Rules
<1>3. Later(d, d)
    BY <1>1 DEF Later
<1>4. flagged_state(rule, d) = NoFlag
  <2> SUFFICES ASSUME flagged_state(rule, d) # NoFlag PROVE FALSE
      OBVIOUS
  <2>1. rule = "none_failed_or_skipped" /\ d.skipped = d.n
      BY <1>2, <1>3, FlagIsNeverPremature
  <2>2. rule_met(rule, c) /\ flagged_state(rule, c) = NoFlag
      BY DEF Go
  <2>3. c.n - c.success - c.skipped <= 0
      BY <2>1, <2>2 DEF rule_met
  <2>4. ~(c.failed > 0 \/ c.upstream_failed > 0)
      BY <2>1, <2>2 DEF flagged_state, NoFlag, UPSTREAM_FAILED
  <2>5. c.skipped # c.n
      BY <2>1, <2>2, <2>4 DEF flagged_state, NoFlag, SKIPPED, UPSTREAM_FAILED
  <2> QED
      BY <1>1, <2>1, <2>3, <2>5 DEF Tallied, Later
<1> QED
    BY <1>2, <1>4 DEF Go

\* The rule, with the states of the parents in R.
Documented(rule, P, R) == documented_rule(rule, P, LAMBDA p : R[p])

\* When a task may go by the counts, its parents are as docs/concepts.rst says, and they stay
\* so if those that are done keep their states.
LEMMA GoIsDocumented ==
    ASSUME NEW rule \in Rules, NEW P, IsFiniteSet(P), P # {}, NEW F, NEW S, NEW R,
           \A u \in P \cap F : S[u] \in DoneStates => R[u] = S[u],
           Go(rule, CountsOf(P, F, S))
    PROVE  Documented(rule, P, R)
<1> DEFINE At(X) == { u \in P \cap F : S[u] \in X }
<1> DEFINE c == CountsOf(P, F, S)
<1> USE DEF DoneStates, finished
<1>1. /\ c.success = Cardinality(At({SUCCESS})) /\ c.skipped = Cardinality(At({SKIPPED}))
      /\ c.failed = Cardinality(At({FAILED})) /\ c.upstream_failed = Cardinality(At({UPSTREAM_FAILED}))
      /\ c.done = Cardinality(At(DoneStates)) /\ c.n = Cardinality(P)
    BY DEF CountsOf
<1>2. \A X : IsFiniteSet(At(X)) /\ (Cardinality(At(X)) = Cardinality(P) => \A u \in P : u \in F /\ S[u] \in X)
    BY CountIsNat
<1>3. \A X : Cardinality(At(X)) # 0 => \E u \in P : u \in F /\ S[u] \in X
  <2> SUFFICES ASSUME NEW X, Cardinality(At(X)) # 0 PROVE At(X) # {}
      OBVIOUS
  <2> QED
      BY FS_EmptySet
<1>4. \A X : Cardinality(At(X)) = 0 => \A u \in P : u \in F => S[u] \notin X
  <2> SUFFICES ASSUME NEW X, Cardinality(At(X)) = 0 PROVE At(X) = {}
      OBVIOUS
  <2> QED
      BY <1>2, FS_EmptySet
<1>5. Tallied(c)
    BY CountsAreTallied
<1>6. /\ c.success \in Nat /\ c.skipped \in Nat /\ c.failed \in Nat
      /\ c.upstream_failed \in Nat /\ c.done \in Nat /\ c.n \in Nat
      /\ c.n > 0 /\ c.done <= c.n /\ c.done = c.success + c.skipped + c.failed + c.upstream_failed
    BY <1>5 DEF Tallied, Counts
<1>7. rule_met(rule, c) /\ flagged_state(rule, c) = NoFlag
    BY DEF Go
<1>8. c.success # 0 => \E u \in P : R[u] = SUCCESS
    BY <1>1, <1>3
<1>9. c.done = c.n => \A u \in P : u \in F /\ S[u] \in DoneStates /\ R[u] = S[u]
    BY <1>1, <1>2
<1>10. (c.done = c.n /\ c.skipped = 0) => \A u \in P : R[u] \in DoneStates \ {SKIPPED}
    BY <1>1, <1>4, <1>9
<1>11. (c.done = c.n /\ c.failed = 0 /\ c.upstream_failed = 0) => \A u \in P : R[u] \in {SUCCESS, SKIPPED}
  <2> SUFFICES ASSUME c.done = c.n, c.failed = 0, c.upstream_failed = 0, NEW u \in P
               PROVE  R[u] \in {SUCCESS, SKIPPED}
      OBVIOUS
  <2>1. u \in F /\ S[u] \in DoneStates /\ R[u] = S[u]
      BY <1>9
  <2>2. S[u] \notin {FAILED}
      BY <1>1, <1>4, <2>1
  <2>3. S[u] \notin {UPSTREAM_FAILED}
      BY <1>1, <1>4, <2>1
  <2> QED
      BY <2>1, <2>2, <2>3
<1>12. (c.done = c.n /\ c.success = 0 /\ c.skipped = 0) => \A u \in P : R[u] \in {FAILED, UPSTREAM_FAILED}
  <2> SUFFICES ASSUME c.done = c.n, c.success = 0, c.skipped = 0, NEW u \in P
               PROVE  R[u] \in {FAILED, UPSTREAM_FAILED}
      OBVIOUS
  <2>1. u \in F /\ S[u] \in DoneStates /\ R[u] = S[u]
      BY <1>9
  <2>2. S[u] \notin {SUCCESS}
      BY <1>1, <1>4, <2>1
  <2>3. S[u] \notin {SKIPPED}
      BY <1>1, <1>4, <2>1
  <2> QED
      BY <2>1, <2>2, <2>3
<1>13. c.success = c.n => \A u \in P : R[u] = SUCCESS
  <2> SUFFICES ASSUME c.success = c.n PROVE \A u \in P : R[u] = SUCCESS
      OBVIOUS
  <2>1. \A u \in P : u \in F /\ S[u] \in {SUCCESS}
      BY <1>1, <1>2
  <2> QED
      BY <2>1
<1>14. c.failed # 0 => \E u \in P : R[u] = FAILED
    BY <1>1, <1>3
<1>15. c.upstream_failed # 0 => \E u \in P : R[u] = UPSTREAM_FAILED
    BY <1>1, <1>3
<1> HIDE DEF c, DoneStates
<1>16. CASE rule = "all_success"
  <2>1. c.success = c.n
      BY <1>6, <1>7, <1>16 DEF rule_met
  <2> QED
      BY <1>13, <1>16, <2>1 DEF Documented, documented_rule
<1>17. CASE rule = "all_failed"
    BY <1>6, <1>7, <1>12, <1>17 DEF Documented, documented_rule, rule_met
<1>18. CASE rule = "all_done"
    BY <1>6, <1>7, <1>9, <1>18 DEF Documented, documented_rule, rule_met, DoneStates
<1>19. CASE rule = "one_failed"
    BY <1>6, <1>7, <1>14, <1>15, <1>19 DEF Documented, documented_rule, rule_met
<1>20. CASE rule = "one_success"
    BY <1>6, <1>7, <1>8, <1>20 DEF Documented, documented_rule, rule_met
<1>21. CASE rule = "none_failed"
    BY <1>6, <1>7, <1>11, <1>21 DEF Documented, documented_rule, rule_met
<1>22. CASE rule = "none_failed_or_skipped"
    BY <1>6, <1>7, <1>8, <1>11, <1>22 DEF Documented, documented_rule, rule_met, flagged_state, NoFlag, UPSTREAM_FAILED, SKIPPED
<1>23. CASE rule = "none_skipped"
    BY <1>6, <1>7, <1>10, <1>23 DEF Documented, documented_rule, rule_met, DoneStates
<1>24. CASE rule = "dummy"
    BY <1>24 DEF Documented, documented_rule
<1> QED
    BY <1>16, <1>17, <1>18, <1>19, <1>20, <1>21, <1>22, <1>23, <1>24 DEF Rules

-----------------------------------------------------------------------------
(* Type correctness. *)

\* A flag is a state that counts as done.
LEMMA FlagsAreDone == \A t \in Tasks : flags(t) \subseteq {SKIPPED, UPSTREAM_FAILED}
BY DEF flags, flagged_state, NoFlag

\* A flag written to the row and to the copy is a state.
LEMMA WriteKeepsType ==
    ASSUME TypeOK, NEW t \in Tasks, write_flags(t)
    PROVE  /\ state' \in [Tasks -> {NONE, SCHEDULED, RUNNING, SHUTDOWN, UP_FOR_RETRY} \cup DoneStates]
           /\ seen' \in [Tasks -> TaskStates]
<1>1. {SKIPPED, UPSTREAM_FAILED} \subseteq DoneStates \cap TaskStates
    BY DEF DoneStates, finished, TaskStates
<1>2. \A f \in flags(t) : f \in DoneStates /\ f \in TaskStates
    BY <1>1, FlagsAreDone
<1> QED
    BY <1>2 DEF write_flags, TypeOK

\* Every step keeps the types.
LEMMA TypeIsInductive == TypeOK /\ [Next]_vars => TypeOK'
<1> SUFFICES ASSUME TypeOK, [Next]_vars PROVE TypeOK'
    OBVIOUS
<1>1. CASE read_task_instances
  <2>1. seen' \in [Tasks -> TaskStates]
      BY <1>1 DEF read_task_instances, TypeOK, TaskStates, DoneStates, finished
  <2> QED
      BY <1>1, <2>1 DEF read_task_instances, TypeOK, taskVars
<1>2. CASE \E t \in Tasks, due \in BOOLEAN : get_ready_ti(t, due)
    BY <1>2, WriteKeepsType DEF get_ready_ti, TypeOK
<1>3. CASE examined
    BY <1>3 DEF examined, TypeOK, taskVars, unfinished_tasks
<1>4. CASE \E t \in Tasks : premature_ti(t)
    BY <1>4, WriteKeepsType DEF premature_ti, TypeOK
<1>5. CASE decide
    BY <1>5 DEF decide, verdict, TypeOK, taskVars
<1>6. CASE schedule
    BY <1>6 DEF schedule, TypeOK
<1>7. CASE \E t \in Tasks : start(t)
    BY <1>7 DEF start, TypeOK, procVars
<1>8. CASE \E t \in Tasks : finish(t)
    BY <1>8 DEF finish, is_eligible, TypeOK, procVars, DoneStates, finished
<1>9. CASE \E b \in Branches : \E F \in SUBSET Down(b) : skip_all_except(b, F)
    BY <1>9 DEF skip_all_except, Down, TypeOK, procVars, DoneStates, finished
<1>10. CASE \E S \in SUBSET Tasks : clear(S)
  <2>1. clears' \in 0..MaxClears
      BY <1>10, ClearsAssumption DEF clear, TypeOK
  <2> QED
      BY <1>10, <2>1 DEF clear, TypeOK, procVars
<1>11. CASE UNCHANGED vars
    BY <1>11 DEF vars, taskVars, procVars, TypeOK
<1> QED
    BY <1>1, <1>2, <1>3, <1>4, <1>5, <1>6, <1>7, <1>8, <1>9, <1>10, <1>11 DEF Next, ProcessorStep

\* The types hold at the start.
LEMMA InitHasType == Init => TypeOK
<1> SUFFICES ASSUME Init PROVE TypeOK
    OBVIOUS
<1>1. clears \in 0..MaxClears
    BY ClearsAssumption DEF Init
<1>2. trigger_rule \in [Tasks -> Rules]
    BY DEF Init
<1>3. seen \in [Tasks -> TaskStates]
    BY DEF Init, TaskStates
<1> QED
    BY <1>1, <1>2, <1>3 DEF Init, TypeOK

\* The run and its task instances have their types in every state, with clears and branches
\* (the columns of dag_run and task_instance, and the locals of update_state and process_file).
THEOREM TypeCorrect == Spec => []TypeOK
BY InitHasType, TypeIsInductive, PTL DEF Spec

-----------------------------------------------------------------------------
(* The evaluation of the dependencies. *)

\* Unless a branch has recorded the task, only the rule counts.
LEMMA Evaluation ==
    ASSUME NEW t \in Tasks, ~previously_skipped(t)
    PROVE  LET c == CountsOf(Up[t], finished_tasks, seen)
           IN  /\ dependencies_met(t) <=> (Up[t] = {} \/ rule_met(trigger_rule[t], c))
               /\ flags(t) = IF Up[t] = {} THEN {} ELSE {flagged_state(trigger_rule[t], c)} \ {NoFlag}
               /\ GoesSeen(t) <=> (dependencies_met(t) /\ flags(t) = {})
<1> DEFINE c == CountsOf(Up[t], finished_tasks, seen)
<1>1. upstream_counts(t) = c
    BY DEF upstream_counts, CountsOf
<1>2. dependencies_met(t) <=> (Up[t] = {} \/ rule_met(trigger_rule[t], c))
    BY <1>1 DEF dependencies_met
<1>3. flags(t) = IF Up[t] = {} THEN {} ELSE {flagged_state(trigger_rule[t], c)} \ {NoFlag}
    BY <1>1 DEF flags
<1>4. GoesSeen(t) <=> (dependencies_met(t) /\ flags(t) = {})
  <2> HIDE DEF c
  <2>1. GoesSeen(t) <=> (Up[t] = {} \/ (rule_met(trigger_rule[t], c) /\ flagged_state(trigger_rule[t], c) = NoFlag))
      BY DEF GoesSeen, Go, c
  <2> QED
      BY <1>2, <1>3, <2>1
<1> QED
    BY <1>2, <1>3, <1>4

\* The evaluation reads the copy of what had finished, and what finished branches have recorded:
\* it is the same all through a pass.
LEMMA EvaluationIsStable ==
    ASSUME NEW t \in Tasks, UNCHANGED <<trigger_rule, finished_tasks>>,
           \A u \in finished_tasks : seen'[u] = seen[u],
           \A b \in Branches \cap finished_tasks : xcom'[b] = xcom[b]
    PROVE  /\ dependencies_met(t)' <=> dependencies_met(t)
           /\ flags(t)' = flags(t)
           /\ GoesSeen(t)' <=> GoesSeen(t)
           /\ previously_skipped(t)' <=> previously_skipped(t)
<1>1. \A X : { u \in Up[t] \cap finished_tasks' : seen'[u] \in X }
             = { u \in Up[t] \cap finished_tasks : seen[u] \in X }
    OBVIOUS
<1>2. CountsOf(Up[t], finished_tasks', seen') = CountsOf(Up[t], finished_tasks, seen)
    BY <1>1 DEF CountsOf
<1>3. upstream_counts(t)' = upstream_counts(t)
    BY <1>1 DEF upstream_counts
<1>4. previously_skipped(t)' <=> previously_skipped(t)
    BY DEF previously_skipped
<1> QED
    BY <1>2, <1>3, <1>4 DEF dependencies_met, flags, GoesSeen

\* A task has finitely many parents.
LEMMA ParentsAreFinite == \A t \in Tasks : IsFiniteSet(Up[t])
BY FiniteAssumption, UpAssumption, FS_Subset

\* When a rule that waits for all parents is met on the copy, every parent had finished.
LEMMA MetMeansFinished ==
    ASSUME TypeOK, NEW t \in Tasks, WaitsForAll(t), Up[t] # {},
           rule_met(trigger_rule[t], upstream_counts(t))
    PROVE  Up[t] \subseteq finished_tasks
<1> DEFINE c == CountsOf(Up[t], finished_tasks, seen)
<1>1. IsFiniteSet(Up[t]) /\ Tallied(c) /\ upstream_counts(t) = c /\ trigger_rule[t] \in Rules
    BY ParentsAreFinite, CountsAreTallied DEF upstream_counts, CountsOf, TypeOK
<1>2. c.done >= c.n
  <2> HIDE DEF c
  <2>1. /\ c.success \in Nat /\ c.skipped \in Nat /\ c.failed \in Nat
        /\ c.upstream_failed \in Nat /\ c.done \in Nat /\ c.n \in Nat
      BY <1>1 DEF Tallied, Counts
  <2>2. rule_met(trigger_rule[t], c)
      BY <1>1
  <2> QED
      BY <1>1, <2>1, <2>2 DEF WaitsForAll, EarlyRules, Rules, rule_met, Tallied
<1>3. c.done = Cardinality({ u \in Up[t] \cap finished_tasks : seen[u] \in DoneStates }) /\ c.n = Cardinality(Up[t])
    BY DEF CountsOf
<1>4. Cardinality(Up[t]) \in Nat
    BY <1>1, FS_CardinalityType
<1>5. /\ Cardinality({ u \in Up[t] \cap finished_tasks : seen[u] \in DoneStates }) \in Nat
      /\ Cardinality({ u \in Up[t] \cap finished_tasks : seen[u] \in DoneStates }) <= Cardinality(Up[t])
      /\ Cardinality({ u \in Up[t] \cap finished_tasks : seen[u] \in DoneStates }) = Cardinality(Up[t])
            => \A u \in Up[t] : u \in finished_tasks /\ seen[u] \in DoneStates
    BY <1>1, CountIsNat
<1> QED
    BY <1>2, <1>3, <1>4, <1>5

\* A task that may go, goes on to do so as long as done rows keep their states.
LEMMA GoesNowIsStable ==
    ASSUME TypeOK, NEW t \in Tasks, GoesNow(t), trigger_rule' = trigger_rule,
           \A u \in Tasks : state[u] \in DoneStates => state'[u] = state[u]
    PROVE  GoesNow(t)'
<1>1. CASE Up[t] = {}
    BY <1>1 DEF GoesNow
<1>2. CASE Up[t] # {}
  <2> DEFINE c == CountsOf(Up[t], Tasks, state)
  <2> DEFINE d == CountsOf(Up[t], Tasks, state')
  <2>1. Tallied(c) /\ Tallied(d)
      BY <1>2, CountsAreTallied, ParentsAreFinite
  <2>2. Later(c, d)
      BY CountsGrow, ParentsAreFinite
  <2>3. Go(trigger_rule[t], c) /\ trigger_rule[t] \in Rules
      BY <1>2 DEF GoesNow, TypeOK
  <2>4. Go(trigger_rule[t], d)
      BY <2>1, <2>2, <2>3, GoIsStable
  <2> QED
      BY <2>4 DEF GoesNow
<1> QED
    BY <1>1, <1>2

\* What may go by the copy may go by the rows.
LEMMA SeenIsNow ==
    ASSUME TypeOK, NEW t \in Tasks, GoesSeen(t),
           \A u \in finished_tasks : state[u] = seen[u]
    PROVE  GoesNow(t)
<1>1. CASE Up[t] = {}
    BY <1>1 DEF GoesNow
<1>2. CASE Up[t] # {}
  <2> DEFINE c == CountsOf(Up[t], finished_tasks, seen)
  <2> DEFINE d == CountsOf(Up[t], Tasks, state)
  <2>1. Tallied(c) /\ Tallied(d)
      BY <1>2, CountsAreTallied, ParentsAreFinite
  <2>2. \A u \in Up[t] \cap finished_tasks : seen[u] \in DoneStates => u \in Tasks /\ state[u] = seen[u]
      BY UpAssumption
  <2>3. Later(c, d)
      BY <2>2, CountsGrow, ParentsAreFinite
  <2>4. Go(trigger_rule[t], c) /\ trigger_rule[t] \in Rules
      BY <1>2 DEF GoesSeen, TypeOK
  <2>5. Go(trigger_rule[t], d)
      BY <2>1, <2>3, <2>4, GoIsStable
  <2> QED
      BY <2>5 DEF GoesNow
<1> QED
    BY <1>1, <1>2

\* A flag is not SCHEDULED.
LEMMA FlagIsNotScheduled ==
    ASSUME TypeOK, NEW t \in Tasks, write_flags(t)
    PROVE  \A u \in Tasks : state'[u] = SCHEDULED => state[u] = SCHEDULED
<1>1. \A f \in flags(t) : f # SCHEDULED
    BY FlagsAreDone DEF SKIPPED, UPSTREAM_FAILED, SCHEDULED
<1> QED
    BY <1>1 DEF write_flags, TypeOK

\* Only the end of a pass schedules.
LEMMA OnlyScheduleSchedules ==
    ASSUME TypeOK, [Next]_vars, NEW t \in Tasks, state[t] # SCHEDULED, state'[t] = SCHEDULED
    PROVE  schedule
<1>1. ~ \E u \in Tasks, due \in BOOLEAN : get_ready_ti(u, due)
    BY FlagIsNotScheduled DEF get_ready_ti
<1>2. ~ \E u \in Tasks : premature_ti(u)
    BY FlagIsNotScheduled DEF premature_ti
<1>3. ~(read_task_instances \/ examined \/ decide \/ UNCHANGED vars)
    BY DEF read_task_instances, examined, decide, taskVars, vars
<1>4. ~ \E u \in Tasks : start(u) \/ finish(u)
    BY DEF TypeOK, start, finish, SCHEDULED, RUNNING, SUCCESS, SKIPPED, FAILED, UP_FOR_RETRY
<1>5. ~ \E b \in Branches : \E F \in SUBSET Down(b) : skip_all_except(b, F)
    BY DEF TypeOK, skip_all_except, SKIPPED, SCHEDULED
<1>6. ~ \E S \in SUBSET Tasks : clear(S)
    BY DEF TypeOK, clear, SHUTDOWN, NONE, SCHEDULED
<1> QED
    BY <1>1, <1>2, <1>3, <1>4, <1>5, <1>6 DEF Next, ProcessorStep

-----------------------------------------------------------------------------
(* The steps of an undisturbed run. *)

\* The tasks directly behind a branch wait for all their parents: the branch and, possibly,
\* other tasks directly behind it.
BranchesFirst ==
    \A b \in Branches, t \in Tasks : b \in Up[t] =>
        /\ RulesOf[t] \cap EarlyRules = {}
        /\ \A u \in Up[t] : u = b \/ b \in Up[u]

\* Nobody but the file processor and the tasks has changed the rows so far.
Undisturbed == clears = 0

\* Done rows, rows that wait and rows that were sent differ.
LEMMA StatesDiffer ==
    /\ DoneStates \cap ({NONE} \cup Started) = {}
    /\ Waiting \subseteq {NONE} \cup Started /\ Waiting \cap {SCHEDULED, RUNNING} = {}
    /\ Waiting \subseteq SCHEDULEABLE_STATES
    /\ SCHEDULEABLE_STATES \cap ({NONE} \cup Started \cup DoneStates) = Waiting
    /\ {SKIPPED, UPSTREAM_FAILED} \subseteq DoneStates
    /\ RUNNING \notin DoneStates /\ SCHEDULED \notin DoneStates /\ SCHEDULED # RUNNING
    /\ SCHEDULED \in Started /\ RUNNING \in Started /\ UP_FOR_RETRY \in Started
    /\ {SUCCESS, SKIPPED, FAILED} \subseteq DoneStates /\ UP_FOR_RETRY # RUNNING
BY DEF DoneStates, finished, Started, Waiting, SCHEDULEABLE_STATES, SUCCESS, SKIPPED, FAILED,
   UPSTREAM_FAILED, NONE, SCHEDULED, RUNNING, UP_FOR_RETRY, UP_FOR_RESCHEDULE

\* What had finished on the copy is still as the copy has it.
LEMMA FinishedIsStill ==
    ASSUME Inv, step # "idle", NEW u \in finished_tasks
    PROVE  u \in Tasks /\ state[u] = seen[u] /\ state[u] \in DoneStates
BY StatesDiffer DEF Inv, TypeOK, CopyIsRight, SkippedSince

\* As long as a branch has not finished on the copy, its targets are not ready there, and are
\* flagged SKIPPED if at all: the only parents that can have finished were skipped by it.
LEMMA FlagsOfTargets ==
    ASSUME BranchesFirst, Inv, step # "idle", NEW b \in Branches, NEW t \in Tasks \ finished_tasks,
           b \in Up[t], b \notin finished_tasks
    PROVE  flags(t) \subseteq {SKIPPED} /\ ~dependencies_met(t)
<1> DEFINE c == CountsOf(Up[t], finished_tasks, seen)
<1>1. ~previously_skipped(t) /\ trigger_rule[t] \in RulesOf[t] /\ WaitsForAll(t)
    BY DEF Inv, BranchesAreRight, CopyOfTargets, RulesAreKept, BranchesFirst, WaitsForAll
<1>2. \A u \in Up[t] \cap finished_tasks : seen[u] = SKIPPED
    BY UpAssumption DEF Inv, BranchesAreRight, CopyOfTargets, BranchesFirst
<1>3. /\ { u \in Up[t] \cap finished_tasks : seen[u] \in {FAILED} } = {}
      /\ { u \in Up[t] \cap finished_tasks : seen[u] \in {UPSTREAM_FAILED} } = {}
    BY <1>2 DEF SKIPPED, FAILED, UPSTREAM_FAILED
<1>4. c.failed = 0 /\ c.upstream_failed = 0
    BY <1>3, FS_EmptySet DEF CountsOf
<1>5. flagged_state(trigger_rule[t], c) \in {SKIPPED, NoFlag}
  <2> HIDE DEF c
  <2> QED
      BY <1>4 DEF flagged_state
<1>6. flags(t) \subseteq {SKIPPED}
  <2> HIDE DEF c
  <2>1. flags(t) \subseteq {flagged_state(trigger_rule[t], c)} \ {NoFlag}
      BY <1>1, Evaluation DEF c
  <2> QED
      BY <1>5, <2>1
<1>7. ~dependencies_met(t)
    BY <1>1, MetMeansFinished DEF Inv, dependencies_met
<1> QED
    BY <1>6, <1>7

\* What steps that leave done rows, and targets of branches at work, alone keep.
LEMMA TargetsKept ==
    ASSUME Inv, trigger_rule' = trigger_rule,
           \A u \in Tasks : state[u] \in DoneStates => state'[u] = state[u],
           \A b \in Branches, t \in Tasks :
              (b \in Up[t] /\ state[b] \notin DoneStates) => state'[t] \in {NONE, SKIPPED},
           \A b \in Branches : xcom'[b] \subseteq xcom[b]
    PROVE  TargetsWait' /\ RecordIsKept' /\ RulesAreKept'
<1>1. TargetsWait'
    BY UpAssumption DEF TargetsWait
<1>2. RecordIsKept'
    BY StatesDiffer DEF Inv, BranchesAreRight, RecordIsKept
<1>3. RulesAreKept'
    BY DEF Inv, BranchesAreRight, RulesAreKept
<1> QED
    BY <1>1, <1>2, <1>3

\* A task that was sent starts or ends.
LEMMA TaskKeeps ==
    ASSUME BranchesFirst, Inv, TypeOK', UNCHANGED <<trigger_rule, run_state, procVars>>,
           NEW t \in Tasks, NEW s \in Started \cup DoneStates,
           state[t] \in {SCHEDULED, RUNNING},
           state' = [state EXCEPT ![t] = s],
           working' = { u \in Tasks : state'[u] = RUNNING },
           \A b \in Branches : xcom'[b] \subseteq xcom[b] /\ (b # t => xcom'[b] = xcom[b])
    PROVE  Inv'
<1>1. UNCHANGED <<step, seen, finished_tasks, todo, ready_tis, changed_tis>>
    BY DEF procVars
<1>2. step # "idle" =>
        \A u \in Tasks : /\ dependencies_met(u)' <=> dependencies_met(u)
                         /\ flags(u)' = flags(u)
                         /\ GoesSeen(u)' <=> GoesSeen(u)
                         /\ previously_skipped(u)' <=> previously_skipped(u)
  <2> SUFFICES ASSUME step # "idle" PROVE \A b \in Branches \cap finished_tasks : xcom'[b] = xcom[b]
      BY <1>1, EvaluationIsStable
  <2>1. t \notin finished_tasks
      BY FinishedIsStill, StatesDiffer
  <2> QED
      BY <2>1
<1>3. state'[t] = s /\ \A u \in Tasks \ {t} : state'[u] = state[u]
    BY DEF Inv, TypeOK
<1>4. \A u \in Tasks : state[u] \in Waiting \cup DoneStates => state'[u] = state[u]
    BY <1>3, StatesDiffer
<1>5. RowsAreRight'
  <2>1. \A u \in Tasks : state'[u] \in {NONE} \cup Started \cup DoneStates
      BY <1>3 DEF Inv, RowsAreRight
  <2>2. \A u \in Tasks : state'[u] \in Started => state[u] \in Started
      BY <1>3, StatesDiffer
  <2>3. \A u \in Tasks : state'[u] \in Started => GoesNow(u)'
      BY <1>4, <2>2, GoesNowIsStable DEF Inv, RowsAreRight
  <2> QED
      BY <2>1, <2>3 DEF RowsAreRight
<1>6. CopyIsRight'
    BY <1>1, <1>2, <1>4, StatesDiffer DEF Inv, CopyIsRight, SkippedSince
<1>7. ExaminedIsFlagged'
    BY <1>1, <1>2 DEF Inv, ExaminedIsFlagged, unfinished_tasks
<1>8. ReadyIsMet' /\ PrematureIsMet'
    BY <1>1, <1>2 DEF Inv, TypeOK, ReadyIsMet, PrematureIsMet, unfinished_tasks
<1>9. VerdictIsSound'
    BY <1>4, StatesDiffer DEF Inv, VerdictIsSound, Leaves
<1>10. BranchesAreRight'
  <2>1. \A b \in Branches, u \in Tasks :
           (b \in Up[u] /\ state[b] \notin DoneStates) => state'[u] \in {NONE, SKIPPED}
    <3>1. {NONE, SKIPPED} \subseteq Waiting \cup DoneStates
        BY StatesDiffer DEF Waiting
    <3> QED
        BY <1>4, <3>1 DEF Inv, BranchesAreRight, TargetsWait
  <2>2. TargetsWait' /\ RecordIsKept' /\ RulesAreKept'
      BY <1>4, <2>1, TargetsKept
  <2>3. CopyOfTargets'
      BY <1>1, <1>2 DEF Inv, BranchesAreRight, CopyOfTargets
  <2> QED
      BY <2>2, <2>3 DEF BranchesAreRight
<1> QED
    BY <1>5, <1>6, <1>7, <1>8, <1>9, <1>10 DEF Inv

\* A process sets a SCHEDULED row RUNNING.
LEMMA StartKeeps ==
    ASSUME BranchesFirst, Inv, TypeOK', NEW t \in Tasks, start(t)
    PROVE  Inv'
<1>1. /\ state[t] = SCHEDULED /\ state' = [state EXCEPT ![t] = RUNNING]
      /\ working' = working \cup {t} /\ UNCHANGED <<trigger_rule, run_state, procVars>>
      /\ \A b \in Branches : xcom'[b] \subseteq xcom[b] /\ (b # t => xcom'[b] = xcom[b])
    BY DEF start
<1>2. working' = { u \in Tasks : state'[u] = RUNNING }
    BY <1>1 DEF Inv, RowsAreRight, TypeOK
<1> QED
    BY <1>1, <1>2, TaskKeeps, StatesDiffer

\* A process ends; its row gets done or waits for a retry.
LEMMA FinishKeeps ==
    ASSUME BranchesFirst, Inv, TypeOK', NEW t \in Tasks, finish(t)
    PROVE  Inv'
<1>1. PICK s \in {SUCCESS, SKIPPED, UP_FOR_RETRY, FAILED} : state' = [state EXCEPT ![t] = s]
    BY DEF finish
<1>2. t \in working /\ working' = working \ {t} /\ UNCHANGED <<trigger_rule, xcom, run_state, procVars>>
    BY DEF finish
<1>3. s \in Started \cup DoneStates /\ s # RUNNING
    BY StatesDiffer
<1>4. state[t] = RUNNING
    BY <1>2 DEF Inv, RowsAreRight
<1>5. working' = { u \in Tasks : state'[u] = RUNNING }
    BY <1>1, <1>2, <1>3 DEF Inv, RowsAreRight, TypeOK
<1> QED
    BY <1>1, <1>2, <1>3, <1>4, <1>5, TaskKeeps

\* A branch skips targets that wait for it, or were skipped by it before.
LEMMA SkipKeeps ==
    ASSUME BranchesFirst, Inv, TypeOK', NEW b \in Branches, NEW F \in SUBSET Down(b), skip_all_except(b, F)
    PROVE  Inv'
<1> DEFINE skip == Down(b) \ WithDescendants(F)
<1>1. /\ b \in working /\ UNCHANGED <<trigger_rule, working, run_state, procVars>>
      /\ state' = [t \in Tasks |-> IF t \in skip THEN SKIPPED ELSE state[t]]
      /\ xcom' = [xcom EXCEPT ![b] = skip]
    BY DEF skip_all_except
<1>2. UNCHANGED <<step, seen, finished_tasks, todo, ready_tis, changed_tis>>
    BY <1>1 DEF procVars
<1>3. skip \subseteq Tasks /\ \A t \in skip : b \in Up[t]
    BY DEF Down
<1> HIDE DEF skip
<1>4. b \in Tasks /\ state[b] = RUNNING /\ state[b] \notin DoneStates
    BY <1>1, StatesDiffer DEF Inv, RowsAreRight
<1>5. \A t \in skip : t \in Tasks /\ b \in Up[t] /\ state[t] \in {NONE, SKIPPED} /\ state'[t] = SKIPPED
    BY <1>1, <1>3, <1>4 DEF Inv, BranchesAreRight, TargetsWait
<1>6. \A t \in Tasks \ skip : state'[t] = state[t]
    BY <1>1
<1>7. \A t \in Tasks : /\ state[t] \in DoneStates => state'[t] = state[t]
                       /\ state'[t] = state[t] \/ (state[t] = NONE /\ state'[t] = SKIPPED)
    BY <1>5, <1>6, StatesDiffer
<1>8. step # "idle" => b \notin finished_tasks
    BY <1>4, FinishedIsStill
<1>9. step # "idle" =>
        \A u \in Tasks : /\ dependencies_met(u)' <=> dependencies_met(u)
                         /\ flags(u)' = flags(u)
                         /\ GoesSeen(u)' <=> GoesSeen(u)
                         /\ previously_skipped(u)' <=> previously_skipped(u)
  <2> SUFFICES ASSUME step # "idle" PROVE \A a \in Branches \cap finished_tasks : xcom'[a] = xcom[a]
      BY <1>1, <1>2, EvaluationIsStable
  <2> QED
      BY <1>1, <1>8 DEF Inv, TypeOK
<1>10. RowsAreRight'
  <2>1. \A t \in Tasks : state'[t] \in {NONE} \cup Started \cup DoneStates
      BY <1>7, StatesDiffer DEF Inv, RowsAreRight
  <2>2. \A t \in Tasks : state'[t] = RUNNING <=> state[t] = RUNNING
      BY <1>7, StatesDiffer DEF NONE, RUNNING, SKIPPED
  <2>3. working' = { t \in Tasks : state'[t] = RUNNING }
      BY <1>1, <2>2 DEF Inv, RowsAreRight
  <2>4. \A t \in Tasks : state'[t] \in Started => state[t] \in Started
      BY <1>7, StatesDiffer
  <2>5. \A t \in Tasks : state'[t] \in Started => GoesNow(t)'
      BY <1>1, <1>7, <2>4, GoesNowIsStable DEF Inv, RowsAreRight
  <2> QED
      BY <2>1, <2>3, <2>5 DEF RowsAreRight
<1>11. CopyIsRight'
  <2> SUFFICES ASSUME step # "idle", NEW t \in Tasks, seen[t] \in Waiting \cup DoneStates
               PROVE  state'[t] = seen[t] \/ SkippedSince(t)'
      BY <1>1, <1>2, <1>9 DEF Inv, CopyIsRight
  <2>1. state[t] = seen[t] \/ SkippedSince(t)
      BY DEF Inv, CopyIsRight
  <2>2. CASE t \notin skip
      BY <1>2, <1>6, <2>1, <2>2 DEF SkippedSince
  <2>3. CASE t \in skip
    <3>1. CASE state[t] = seen[t] /\ state[t] = NONE
        BY <1>2, <1>5, <1>8, <2>3, <3>1 DEF SkippedSince
    <3>2. CASE state[t] = seen[t] /\ state[t] = SKIPPED
        BY <1>5, <2>3, <3>2
    <3>3. CASE SkippedSince(t)
        BY <1>2, <1>5, <2>3, <3>3 DEF SkippedSince
    <3> QED
        BY <1>5, <2>1, <2>3, <3>1, <3>2, <3>3
  <2> QED
      BY <2>2, <2>3
<1>12. ExaminedIsFlagged'
    BY <1>2, <1>9 DEF Inv, ExaminedIsFlagged, unfinished_tasks
<1>13. ReadyIsMet' /\ PrematureIsMet'
    BY <1>2, <1>9 DEF Inv, TypeOK, ReadyIsMet, PrematureIsMet, unfinished_tasks
<1>14. VerdictIsSound'
    BY <1>1, <1>4 DEF Inv, VerdictIsSound
<1>15. BranchesAreRight'
  <2>1. TargetsWait'
      BY <1>7, UpAssumption DEF Inv, BranchesAreRight, TargetsWait
  <2>2. RecordIsKept'
    <3> SUFFICES ASSUME NEW a \in Branches, NEW t \in xcom'[a]
                 PROVE  t \in Tasks /\ a \in Up[t] /\ state'[t] = SKIPPED
        BY DEF RecordIsKept
    <3>1. CASE a = b
        BY <1>1, <1>5, <3>1 DEF Inv, TypeOK
    <3>2. CASE a # b
        BY <1>1, <1>7, <3>2, StatesDiffer DEF Inv, TypeOK, BranchesAreRight, RecordIsKept
    <3> QED
        BY <3>1, <3>2
  <2>3. CopyOfTargets' /\ RulesAreKept'
      BY <1>1, <1>2, <1>9 DEF Inv, BranchesAreRight, CopyOfTargets, RulesAreKept
  <2> QED
      BY <2>1, <2>2, <2>3 DEF BranchesAreRight
<1> QED
    BY <1>10, <1>11, <1>12, <1>13, <1>14, <1>15 DEF Inv

\* The copy is taken from the rows.
LEMMA ReadKeeps ==
    ASSUME BranchesFirst, Inv, TypeOK', read_task_instances
    PROVE  Inv'
<1>1. /\ run_state = RUNNING /\ seen' = state /\ step' = "examine"
      /\ finished_tasks' = { t \in Tasks : state[t] \in DoneStates }
      /\ todo' = { t \in Tasks : state[t] \in SCHEDULEABLE_STATES }
      /\ ready_tis' = {} /\ UNCHANGED <<trigger_rule, state, working, xcom, run_state>>
    BY DEF read_task_instances, taskVars
<1>2. RowsAreRight' /\ VerdictIsSound'
    BY <1>1 DEF Inv, RowsAreRight, GoesNow, VerdictIsSound, Leaves
<1>3. ASSUME NEW t \in Tasks, GoesNow(t) PROVE GoesSeen(t)'
  <2>1. CASE Up[t] = {}
      BY <2>1 DEF GoesSeen
  <2>2. CASE Up[t] # {}
    <3> DEFINE c == CountsOf(Up[t], Tasks, state)
    <3> DEFINE d == CountsOf(Up[t], finished_tasks', state)
    <3>1. Tallied(c) /\ Tallied(d)
        BY <2>2, CountsAreTallied, ParentsAreFinite
    <3>2. \A u \in Up[t] \cap Tasks : state[u] \in DoneStates => u \in finished_tasks' /\ state[u] = state[u]
        BY <1>1
    <3>3. Later(c, d)
        BY <3>2, CountsGrow, ParentsAreFinite
    <3>4. Go(trigger_rule[t], c) /\ trigger_rule[t] \in Rules
        BY <1>3, <2>2 DEF GoesNow, Inv, TypeOK
    <3>5. Go(trigger_rule[t], d)
        BY <3>1, <3>3, <3>4, GoIsStable
    <3> QED
        BY <1>1, <3>5 DEF GoesSeen
  <2> QED
      BY <2>1, <2>2
<1>4. \A t \in Tasks : /\ seen'[t] \in {NONE} \cup Started \cup DoneStates
                       /\ seen'[t] \in Started => GoesSeen(t)'
                       /\ t \in finished_tasks' <=> seen'[t] \in DoneStates
                       /\ t \in todo' <=> seen'[t] \in Waiting
    BY <1>1, <1>3, StatesDiffer DEF Inv, RowsAreRight
<1>5. CopyIsRight'
    BY <1>1, <1>4 DEF CopyIsRight
<1>6. ExaminedIsFlagged'
    BY <1>1, <1>4 DEF ExaminedIsFlagged
<1>7. BranchesAreRight'
  <2>1. TargetsWait' /\ RecordIsKept' /\ RulesAreKept'
      BY <1>1 DEF Inv, BranchesAreRight, TargetsWait, RecordIsKept, RulesAreKept
  <2>2. \A b \in Branches, t \in finished_tasks' :
           (b \in Up[t] /\ b \notin finished_tasks') => seen'[t] = SKIPPED
    <3>1. NONE \notin DoneStates
        BY StatesDiffer
    <3> QED
        BY <1>1, <3>1, UpAssumption DEF Inv, BranchesAreRight, TargetsWait
  <2>3. \A t \in Tasks \ finished_tasks' : ~previously_skipped(t)'
      BY <1>1, StatesDiffer DEF Inv, BranchesAreRight, RecordIsKept, previously_skipped
  <2> QED
      BY <2>1, <2>2, <2>3 DEF BranchesAreRight, CopyOfTargets
<1> QED
    BY <1>1, <1>2, <1>5, <1>6, <1>7 DEF Inv, ReadyIsMet, PrematureIsMet

\* A task instance is examined: it is flagged, in the row and the copy, or left alone.
LEMMA WriteOutcome ==
    ASSUME Inv, step # "idle", NEW t \in Tasks \ finished_tasks, write_flags(t)
    PROVE  \/ flags(t) \subseteq {seen[t]} /\ UNCHANGED <<state, seen>>
           \/ \E f \in {SKIPPED, UPSTREAM_FAILED} :
                 /\ flags(t) = {f} /\ f # seen[t]
                 /\ state' = [state EXCEPT ![t] = f]
                 /\ seen' = [seen EXCEPT ![t] = f]
<1>1. CASE flags(t) \subseteq {seen[t]}
    BY <1>1 DEF write_flags
<1>2. CASE ~(flags(t) \subseteq {seen[t]})
  <2>1. PICK f \in flags(t) : state' = [state EXCEPT ![t] = f] /\ seen' = [seen EXCEPT ![t] = f]
      BY <1>2 DEF write_flags
  <2>2. flags(t) = {f} /\ f \in {SKIPPED, UPSTREAM_FAILED}
    <3>1. f \in {SKIPPED, UPSTREAM_FAILED}
        BY FlagsAreDone
    <3>2. \E x : flags(t) \subseteq {x}
        BY Evaluation DEF Inv, BranchesAreRight, CopyOfTargets
    <3> QED
        BY <3>1, <3>2
  <2> QED
      BY <1>2, <2>1, <2>2
<1> QED
    BY <1>1, <1>2

\* _get_ready_tis for one row: ready on the copy, flagged, or neither.
LEMMA ExamineKeeps ==
    ASSUME BranchesFirst, Inv, TypeOK', NEW t \in Tasks, NEW due \in BOOLEAN, get_ready_ti(t, due)
    PROVE  Inv'
<1>1. /\ step = "examine" /\ step' = "examine" /\ t \in todo /\ todo' = todo \ {t}
      /\ write_flags(t)
      /\ UNCHANGED <<trigger_rule, working, xcom, run_state, finished_tasks>>
      /\ ready_tis' \subseteq ready_tis \cup {t} /\ ready_tis \subseteq ready_tis'
      /\ t \in ready_tis' => t \in ready_tis \/ dependencies_met(t)
      /\ changed_tis => changed_tis'
      /\ (~dependencies_met(t) /\ seen'[t] # seen[t]) => changed_tis'
    BY DEF get_ready_ti
<1>2. seen[t] \in Waiting /\ (state[t] = seen[t] \/ SkippedSince(t)) /\ t \notin finished_tasks
    BY <1>1, StatesDiffer DEF Inv, ExaminedIsFlagged, CopyIsRight
<1>3. (~dependencies_met(t) /\ flags(t) # {}) => changed_tis'
  <2>1. CASE flags(t) \subseteq {seen[t]}
    <3>1. flags(t) = {}
        BY <1>2, <2>1, FlagsAreDone, StatesDiffer
    <3> QED
        BY <3>1
  <2>2. CASE ~(flags(t) \subseteq {seen[t]})
    <3>1. seen'[t] # seen[t]
        BY <1>1, <1>2, <2>2, WriteOutcome DEF Inv, TypeOK
    <3> QED
        BY <1>1, <3>1
  <2> QED
      BY <2>1, <2>2
<1>4. /\ \A u \in Tasks \ {t} : state'[u] = state[u] /\ seen'[u] = seen[u]
      /\ flags(t) = {} => seen'[t] = seen[t] /\ state'[t] = state[t]
      /\ flags(t) # {} => seen'[t] \in DoneStates /\ flags(t) = {seen'[t]} /\ state'[t] = seen'[t]
  <2>1. CASE flags(t) \subseteq {seen[t]} /\ UNCHANGED <<state, seen>>
    <3>1. flags(t) = {}
        BY <1>2, <2>1, FlagsAreDone, StatesDiffer
    <3> QED
        BY <1>2, <2>1, <3>1
  <2>2. CASE \E f \in {SKIPPED, UPSTREAM_FAILED} : /\ flags(t) = {f} /\ f # seen[t]
                                                   /\ state' = [state EXCEPT ![t] = f]
                                                   /\ seen' = [seen EXCEPT ![t] = f]
      BY <2>2, StatesDiffer DEF Inv, TypeOK
  <2> QED
      BY <1>1, <1>2, <2>1, <2>2, WriteOutcome
<1>5. \A u \in Tasks : /\ dependencies_met(u)' <=> dependencies_met(u)
                       /\ flags(u)' = flags(u)
                       /\ GoesSeen(u)' <=> GoesSeen(u)
                       /\ previously_skipped(u)' <=> previously_skipped(u)
  <2>1. \A u \in finished_tasks : seen'[u] = seen[u]
      BY <1>2, <1>4 DEF Inv, TypeOK
  <2> QED
      BY <1>1, <2>1, EvaluationIsStable
<1>6. /\ state'[t] \in Waiting \cup DoneStates /\ (state'[t] = state[t] \/ state'[t] \in DoneStates)
      /\ state[t] \in Waiting \cup DoneStates
      /\ state[t] \in DoneStates => state'[t] = state[t]
  <2>1. CASE flags(t) = {}
      BY <1>2, <1>4, <2>1, StatesDiffer DEF SkippedSince
  <2>2. CASE flags(t) # {} /\ state[t] = seen[t]
      BY <1>2, <1>4, <2>2, StatesDiffer
  <2>3. CASE flags(t) # {} /\ SkippedSince(t)
    <3>1. flags(t) \subseteq {SKIPPED}
        BY <1>1, <1>2, <2>3, FlagsOfTargets DEF SkippedSince
    <3> QED
        BY <1>2, <1>4, <2>3, <3>1, StatesDiffer DEF SkippedSince
  <2> QED
      BY <1>2, <2>1, <2>2, <2>3
<1>7. RowsAreRight'
  <2>1. \A u \in Tasks : state'[u] \in {NONE} \cup Started \cup DoneStates
      BY <1>4, <1>6, StatesDiffer DEF Inv, RowsAreRight
  <2>2. working' = { u \in Tasks : state'[u] = RUNNING }
      BY <1>1, <1>2, <1>4, <1>6, StatesDiffer DEF Inv, RowsAreRight
  <2>3. \A u \in Tasks : state[u] \in DoneStates => state'[u] = state[u]
      BY <1>4, <1>6
  <2>4. \A u \in Tasks : state'[u] \in Started => state[u] \in Started
      BY <1>4, <1>6, StatesDiffer
  <2>5. \A u \in Tasks : state'[u] \in Started => GoesNow(u)'
      BY <1>1, <2>3, <2>4, GoesNowIsStable DEF Inv, RowsAreRight
  <2> QED
      BY <2>1, <2>2, <2>5 DEF RowsAreRight
<1>8. CopyIsRight'
  <2>1. ASSUME NEW u \in Tasks
        PROVE  /\ seen'[u] \in {NONE} \cup Started \cup DoneStates
               /\ seen'[u] \in Waiting \cup DoneStates => state'[u] = seen'[u] \/ SkippedSince(u)'
               /\ seen'[u] \in Started => GoesSeen(u)
               /\ u \in finished_tasks => seen'[u] \in DoneStates
               /\ (u \notin finished_tasks /\ seen'[u] \in DoneStates) => flags(u) = {seen'[u]}
    <3>1. CASE u = t
        BY <1>1, <1>2, <1>4, <3>1, StatesDiffer DEF Inv, CopyIsRight, SkippedSince
    <3>2. CASE u # t
        BY <1>1, <1>4, <3>2 DEF Inv, CopyIsRight, SkippedSince
    <3> QED
        BY <3>1, <3>2
  <2> QED
      BY <1>1, <1>5, <2>1 DEF Inv, CopyIsRight
<1>9. ExaminedIsFlagged'
  <2>1. \A u \in todo' : seen'[u] \in Waiting
      BY <1>1, <1>4 DEF Inv, TypeOK, ExaminedIsFlagged
  <2>2. ASSUME NEW u \in Tasks \ finished_tasks
        PROVE  /\ (seen'[u] \in Waiting /\ u \notin todo') => flags(u) = {}
               /\ (seen'[u] \in DoneStates /\ ~dependencies_met(u)) => changed_tis'
    <3>1. CASE u = t
        BY <1>2, <1>3, <1>4, <3>1, StatesDiffer
    <3>2. CASE u # t
        BY <1>1, <1>4, <3>2 DEF Inv, ExaminedIsFlagged
    <3> QED
        BY <3>1, <3>2
  <2> QED
      BY <1>1, <1>5, <2>1, <2>2 DEF ExaminedIsFlagged
<1>10. ReadyIsMet'
  <2>1. ASSUME NEW u \in ready_tis'
        PROVE  /\ u \in Tasks \ finished_tasks /\ dependencies_met(u)
               /\ seen'[u] \in Waiting \cup DoneStates
               /\ seen'[u] \in Waiting => flags(u) = {}
    <3>1. CASE u = t
        BY <1>1, <1>2, <1>4, <3>1, StatesDiffer DEF Inv, ReadyIsMet
    <3>2. CASE u # t
        BY <1>1, <1>4, <3>2 DEF Inv, ReadyIsMet, unfinished_tasks
    <3> QED
        BY <3>1, <3>2
  <2> QED
      BY <1>1, <1>5, <2>1 DEF ReadyIsMet, unfinished_tasks
<1>11. PrematureIsMet' /\ VerdictIsSound'
    BY <1>1 DEF Inv, CopyIsRight, PrematureIsMet, VerdictIsSound
<1>12. BranchesAreRight'
  <2>1. ASSUME NEW b \in Branches, NEW u \in Tasks, b \in Up[u], state[b] \notin DoneStates
        PROVE  state'[u] \in {NONE, SKIPPED}
    <3>1. state[u] \in {NONE, SKIPPED}
        BY <2>1 DEF Inv, BranchesAreRight, TargetsWait
    <3>2. CASE u = t /\ flags(t) # {}
      <4>1. b \notin finished_tasks
          BY <1>1, <2>1, FinishedIsStill
      <4>2. flags(t) \subseteq {SKIPPED}
          BY <1>1, <1>2, <2>1, <3>2, <4>1, FlagsOfTargets
      <4> QED
          BY <1>4, <3>2, <4>2
    <3>3. CASE u # t \/ flags(t) = {}
        BY <1>4, <3>1, <3>3
    <3> QED
        BY <3>2, <3>3
  <2>2. TargetsWait' /\ RecordIsKept' /\ RulesAreKept'
      BY <1>1, <1>4, <1>6, <2>1, TargetsKept
  <2>3. CopyOfTargets'
      BY <1>1, <1>2, <1>4, <1>5 DEF Inv, TypeOK, BranchesAreRight, CopyOfTargets
  <2> QED
      BY <2>2, <2>3 DEF BranchesAreRight
<1> QED
    BY <1>7, <1>8, <1>9, <1>10, <1>11, <1>12 DEF Inv

\* What holds of rows and copy when neither changes in the middle of a pass.
LEMMA PassKeeps ==
    ASSUME BranchesFirst, Inv, step # "idle",
           UNCHANGED <<trigger_rule, state, working, xcom, run_state, seen, finished_tasks, ready_tis>>
    PROVE  /\ RowsAreRight' /\ CopyIsRight' /\ ReadyIsMet' /\ BranchesAreRight' /\ VerdictIsSound'
           /\ \A u \in Tasks : /\ dependencies_met(u)' <=> dependencies_met(u)
                               /\ flags(u)' = flags(u)
<1>1. \A u \in Tasks : /\ dependencies_met(u)' <=> dependencies_met(u)
                       /\ flags(u)' = flags(u)
                       /\ GoesSeen(u)' <=> GoesSeen(u)
                       /\ previously_skipped(u)' <=> previously_skipped(u)
    BY EvaluationIsStable
<1>2. RowsAreRight'
    BY DEF Inv, RowsAreRight, GoesNow
<1>3. CopyIsRight'
    BY <1>1 DEF Inv, CopyIsRight, SkippedSince
<1>4. ReadyIsMet'
    BY <1>1 DEF Inv, TypeOK, ReadyIsMet, unfinished_tasks
<1>5. VerdictIsSound'
    BY DEF Inv, VerdictIsSound, Leaves
<1>6. BranchesAreRight'
    BY <1>1 DEF Inv, BranchesAreRight, TargetsWait, RecordIsKept, CopyOfTargets, RulesAreKept
<1> QED
    BY <1>1, <1>2, <1>3, <1>4, <1>5, <1>6

\* All schedulable rows have been looked at.
LEMMA ExaminedKeeps ==
    ASSUME BranchesFirst, Inv, TypeOK', examined
    PROVE  Inv'
<1>1. /\ step = "examine" /\ todo = {}
      /\ UNCHANGED <<trigger_rule, state, working, xcom, run_state, seen, finished_tasks, ready_tis,
                     changed_tis>>
      /\ \/ step' = "premature" /\ todo' = unfinished_tasks
         \/ step' = "decide" /\ (ready_tis # {} \/ unfinished_tasks = {})
    BY DEF examined, taskVars
<1>2. /\ RowsAreRight' /\ CopyIsRight' /\ ReadyIsMet' /\ BranchesAreRight' /\ VerdictIsSound'
      /\ \A u \in Tasks : /\ dependencies_met(u)' <=> dependencies_met(u)
                          /\ flags(u)' = flags(u)
    BY <1>1, PassKeeps
<1>3. ExaminedIsFlagged'
    BY <1>1, <1>2 DEF Inv, ExaminedIsFlagged, unfinished_tasks
<1>4. PrematureIsMet'
    BY <1>1 DEF PrematureIsMet, unfinished_tasks
<1> QED
    BY <1>2, <1>3, <1>4 DEF Inv

\* _are_premature_tis sets no flag that is not there already.
LEMMA PrematureWritesNothing ==
    ASSUME BranchesFirst, Inv, NEW t \in Tasks, premature_ti(t)
    PROVE  UNCHANGED <<state, seen>>
<1>1. step = "premature" /\ t \in todo /\ write_flags(t)
    BY DEF premature_ti
<1>2. t \notin finished_tasks
    BY <1>1 DEF Inv, ExaminedIsFlagged, unfinished_tasks
<1>3. seen[t] \in {NONE} \cup Started \cup DoneStates
    BY <1>1 DEF Inv, CopyIsRight
<1>4. ~previously_skipped(t)
    BY <1>1, <1>2 DEF Inv, BranchesAreRight, CopyOfTargets
<1>5. flags(t) \subseteq {seen[t]}
  <2>1. CASE seen[t] \in Started
    <3>1. GoesSeen(t)
        BY <1>1, <2>1 DEF Inv, CopyIsRight
    <3>2. flags(t) = {}
        BY <1>4, <3>1, Evaluation
    <3> QED
        BY <3>2
  <2>2. CASE seen[t] \in Waiting
      BY <1>1, <1>2, <2>2 DEF Inv, ExaminedIsFlagged
  <2>3. CASE seen[t] \in DoneStates
      BY <1>1, <1>2, <2>3 DEF Inv, CopyIsRight
  <2> QED
      BY <1>3, <2>1, <2>2, <2>3 DEF Waiting
<1> QED
    BY <1>1, <1>5 DEF write_flags

\* _are_premature_tis for one row.
LEMMA PrematureKeeps ==
    ASSUME BranchesFirst, Inv, TypeOK', NEW t \in Tasks, premature_ti(t)
    PROVE  Inv'
<1>1. /\ step = "premature" /\ t \in todo
      /\ UNCHANGED <<trigger_rule, working, xcom, run_state, finished_tasks, ready_tis>>
      /\ changed_tis' = (changed_tis \/ dependencies_met(t))
      /\ todo' = IF dependencies_met(t) THEN {} ELSE todo \ {t}
      /\ step' = IF todo' = {} THEN "decide" ELSE "premature"
    BY DEF premature_ti
<1>2. UNCHANGED <<state, seen>>
    BY PrematureWritesNothing
<1>3. /\ RowsAreRight' /\ CopyIsRight' /\ ReadyIsMet' /\ BranchesAreRight' /\ VerdictIsSound'
      /\ \A u \in Tasks : /\ dependencies_met(u)' <=> dependencies_met(u)
                          /\ flags(u)' = flags(u)
    BY <1>1, <1>2, PassKeeps
<1>4. ExaminedIsFlagged'
    BY <1>1, <1>2, <1>3 DEF Inv, ExaminedIsFlagged, unfinished_tasks
<1>5. PrematureIsMet'
    BY <1>1, <1>3 DEF Inv, PrematureIsMet, unfinished_tasks
<1> QED
    BY <1>3, <1>4, <1>5 DEF Inv

\* The first unfinished task in the order of the DAG is decided by its rule: the third branch of
\* update_state never declares a deadlock.
LEMMA NeverDeadlocked ==
    ASSUME BranchesFirst, Inv, step = "decide", unfinished_tasks # {}, ready_tis = {}, ~changed_tis
    PROVE  FALSE
<1>1. PICK t \in unfinished_tasks : Up[t] \cap unfinished_tasks = {}
    BY AcyclicAssumption DEF unfinished_tasks
<1>2. t \in Tasks /\ t \notin finished_tasks /\ Up[t] \subseteq finished_tasks
    BY <1>1, UpAssumption DEF unfinished_tasks
<1>3. ~dependencies_met(t)
    BY <1>1 DEF Inv, PrematureIsMet
<1>4. ~previously_skipped(t)
    BY <1>2 DEF Inv, BranchesAreRight, CopyOfTargets
<1> DEFINE c == CountsOf(Up[t], finished_tasks, seen)
<1>5. Up[t] # {} /\ ~rule_met(trigger_rule[t], c)
    BY <1>2, <1>3, <1>4, Evaluation
<1>6. Tallied(c)
    BY <1>2, <1>5, CountsAreTallied, ParentsAreFinite
<1>7. c.done = c.n
  <2>1. \A u \in Up[t] : u \in finished_tasks /\ seen[u] \in DoneStates
      BY <1>2, UpAssumption DEF Inv, CopyIsRight
  <2>2. { u \in Up[t] \cap finished_tasks : seen[u] \in DoneStates } = Up[t]
      BY <2>1
  <2> QED
      BY <2>2 DEF CountsOf
<1>8. flagged_state(trigger_rule[t], c) # NoFlag
    BY <1>2, <1>5, <1>6, <1>7, DoneIsDecided DEF Inv, TypeOK
<1>9. flags(t) # {}
    BY <1>2, <1>5, <1>8, <1>4, Evaluation
<1>10. CASE seen[t] \in Started
  <2>1. GoesSeen(t)
      BY <1>2, <1>10 DEF Inv, CopyIsRight
  <2> QED
      BY <1>2, <1>3, <1>4, <2>1, Evaluation
<1>11. CASE seen[t] \in Waiting
    BY <1>2, <1>9, <1>11 DEF Inv, ExaminedIsFlagged
<1>12. CASE seen[t] \in DoneStates
    BY <1>2, <1>3, <1>12 DEF Inv, ExaminedIsFlagged
<1> QED
    BY <1>2, <1>10, <1>11, <1>12 DEF Inv, CopyIsRight, Waiting

\* The verdict is taken on the copy; this is where NeverDeadlocked is needed.
LEMMA DecideKeeps ==
    ASSUME BranchesFirst, Inv, TypeOK', decide
    PROVE  Inv'
<1>1. /\ step = "decide"
      /\ run_state' = IF verdict = RUNNING THEN run_state ELSE verdict
      /\ step' = IF verdict = RUNNING THEN "schedule" ELSE "idle"
      /\ UNCHANGED <<trigger_rule, state, working, xcom, seen, finished_tasks, ready_tis>>
    BY DEF decide, taskVars
<1>2. CASE verdict = RUNNING
  <2>1. RowsAreRight' /\ CopyIsRight' /\ ReadyIsMet' /\ BranchesAreRight' /\ VerdictIsSound'
      BY <1>1, <1>2, PassKeeps
  <2>2. ExaminedIsFlagged' /\ PrematureIsMet'
      BY <1>1, <1>2 DEF ExaminedIsFlagged, PrematureIsMet
  <2> QED
      BY <2>1, <2>2 DEF Inv
<1>3. CASE verdict # RUNNING
  <2>1. unfinished_tasks = {}
      BY <1>1, <1>3, NeverDeadlocked DEF verdict
  <2>2. \A t \in Tasks : seen[t] \in DoneStates /\ state[t] = seen[t]
      BY <1>1, <2>1, FinishedIsStill DEF unfinished_tasks
  <2>3. (verdict = SUCCESS) <=> (\A t \in Leaves : state[t] \in {SUCCESS, SKIPPED})
    <3> DEFINE L == { seen[t] : t \in Leaves }
    <3>1. L \subseteq DoneStates /\ Leaves \subseteq Tasks
        BY <2>2 DEF Leaves
    <3>2. L \cap {FAILED, UPSTREAM_FAILED} # {} <=> ~(L \subseteq {SUCCESS, SKIPPED})
        BY <3>1 DEF DoneStates, finished, SUCCESS, SKIPPED, FAILED, UPSTREAM_FAILED
    <3>3. (verdict = SUCCESS) <=> L \subseteq {SUCCESS, SKIPPED}
        BY <2>1, <3>2 DEF verdict, SUCCESS, FAILED
    <3> QED
        BY <2>2, <3>1, <3>3
  <2>4. VerdictIsSound'
      BY <1>1, <1>3, <2>2, <2>3 DEF VerdictIsSound, Leaves
  <2>5. RowsAreRight'
      BY <1>1 DEF Inv, RowsAreRight, GoesNow
  <2>6. BranchesAreRight'
      BY <1>1, <1>3 DEF Inv, BranchesAreRight, TargetsWait, RecordIsKept, CopyOfTargets, RulesAreKept
  <2> QED
      BY <1>1, <1>3, <2>4, <2>5, <2>6 DEF Inv, CopyIsRight, ExaminedIsFlagged, ReadyIsMet, PrematureIsMet
<1> QED
    BY <1>2, <1>3

\* What the second look at the row lets through may go.
LEMMA ScheduledGoes ==
    ASSUME BranchesFirst, Inv, step = "schedule", NEW t \in ready_tis, state[t] \in SCHEDULEABLE_STATES
    PROVE  /\ t \in Tasks /\ GoesSeen(t) /\ GoesNow(t)
           /\ \A b \in Branches : b \in Up[t] => state[b] \in DoneStates
<1>1. /\ t \in Tasks \ finished_tasks /\ dependencies_met(t) /\ seen[t] \in Waiting \cup DoneStates
      /\ seen[t] \in Waiting => flags(t) = {}
    BY DEF Inv, ReadyIsMet, unfinished_tasks
<1>2. state[t] = seen[t]
  <2>1. SKIPPED \notin SCHEDULEABLE_STATES
      BY DEF SCHEDULEABLE_STATES, SKIPPED, NONE, UP_FOR_RETRY, UP_FOR_RESCHEDULE
  <2> QED
      BY <1>1, <2>1 DEF Inv, CopyIsRight, SkippedSince
<1>3. seen[t] \in Waiting
    BY <1>1, <1>2, StatesDiffer
<1>4. GoesSeen(t)
    BY <1>1, <1>3, Evaluation DEF Inv, BranchesAreRight, CopyOfTargets
<1>5. \A u \in finished_tasks : state[u] = seen[u]
    BY FinishedIsStill
<1>6. \A b \in Branches : b \in Up[t] => state[b] \in DoneStates
    BY <1>1, FlagsOfTargets, FinishedIsStill
<1> QED
    BY <1>1, <1>4, <1>5, <1>6, SeenIsNow DEF Inv

\* The ready rows that are still schedulable are SCHEDULED.
LEMMA ScheduleKeeps ==
    ASSUME BranchesFirst, Inv, TypeOK', schedule
    PROVE  Inv'
<1>1. /\ step = "schedule" /\ step' = "idle"
      /\ state' = [t \in Tasks |-> IF t \in ready_tis /\ state[t] \in SCHEDULEABLE_STATES
                                     THEN SCHEDULED ELSE state[t]]
      /\ UNCHANGED <<trigger_rule, working, xcom, run_state>>
    BY DEF schedule
<1>2. \A t \in Tasks : state[t] \in DoneStates \cup {RUNNING} => state'[t] = state[t]
    BY <1>1, StatesDiffer DEF Started
<1>3. RowsAreRight'
  <2>1. \A t \in Tasks : state'[t] \in {NONE} \cup Started \cup DoneStates
      BY <1>1, StatesDiffer DEF Inv, RowsAreRight
  <2>2. working' = { t \in Tasks : state'[t] = RUNNING }
      BY <1>1, <1>2, StatesDiffer DEF Inv, RowsAreRight
  <2>3. \A t \in Tasks : state'[t] \in Started => GoesNow(t)
      BY <1>1, ScheduledGoes DEF Inv, RowsAreRight
  <2>4. \A t \in Tasks : state'[t] \in Started => GoesNow(t)'
      BY <1>1, <1>2, <2>3, GoesNowIsStable DEF Inv
  <2> QED
      BY <2>1, <2>2, <2>4 DEF RowsAreRight
<1>4. run_state' = RUNNING
    BY <1>1 DEF Inv, CopyIsRight
<1>5. BranchesAreRight'
  <2>1. \A b \in Branches, t \in Tasks :
           (b \in Up[t] /\ state[b] \notin DoneStates) => state'[t] \in {NONE, SKIPPED}
      BY <1>1, ScheduledGoes DEF Inv, BranchesAreRight, TargetsWait
  <2>2. TargetsWait' /\ RecordIsKept' /\ RulesAreKept'
      BY <1>1, <1>2, <2>1, TargetsKept
  <2> QED
      BY <1>1, <2>2 DEF BranchesAreRight, CopyOfTargets
<1> QED
    BY <1>1, <1>3, <1>4, <1>5 DEF Inv, CopyIsRight, ExaminedIsFlagged, ReadyIsMet, PrematureIsMet, VerdictIsSound

-----------------------------------------------------------------------------
\* The invariant holds at the start.
LEMMA InitEstablishes ==
    ASSUME Init
    PROVE  Inv
<1>1. TypeOK
    BY InitHasType
<1>2. RowsAreRight
    BY DEF Init, RowsAreRight, Started, NONE, SCHEDULED, RUNNING, UP_FOR_RETRY
<1>3. BranchesAreRight
  <2>1. TargetsWait /\ RecordIsKept /\ CopyOfTargets
      BY DEF Init, TargetsWait, RecordIsKept, CopyOfTargets
  <2>2. RulesAreKept
      BY DEF Init, RulesAreKept
  <2> QED
      BY <2>1, <2>2 DEF BranchesAreRight
<1> QED
    BY <1>1, <1>2, <1>3 DEF Inv, Init, CopyIsRight, ExaminedIsFlagged, ReadyIsMet, PrematureIsMet, VerdictIsSound

\* A stutter keeps the invariant.
LEMMA StutterKeeps ==
    ASSUME Inv, UNCHANGED vars
    PROVE  Inv'
<1>1. UNCHANGED <<trigger_rule, state, working, xcom, run_state, step, seen, finished_tasks, todo, ready_tis,
                  changed_tis>>
    BY DEF vars, taskVars, procVars
<1>2. \A u \in Tasks : /\ dependencies_met(u)' <=> dependencies_met(u)
                       /\ flags(u)' = flags(u)
                       /\ GoesSeen(u)' <=> GoesSeen(u)
                       /\ previously_skipped(u)' <=> previously_skipped(u)
    BY <1>1, EvaluationIsStable
<1>3. TypeOK'
    BY TypeIsInductive DEF Inv
<1>4. RowsAreRight' /\ VerdictIsSound'
    BY <1>1 DEF Inv, RowsAreRight, GoesNow, VerdictIsSound, Leaves
<1>5. CopyIsRight'
    BY <1>1, <1>2 DEF Inv, CopyIsRight, SkippedSince
<1>6. BranchesAreRight'
    BY <1>1, <1>2 DEF Inv, BranchesAreRight, TargetsWait, RecordIsKept, CopyOfTargets, RulesAreKept
<1>7. ExaminedIsFlagged' /\ PrematureIsMet'
    BY <1>1, <1>2 DEF Inv, ExaminedIsFlagged, PrematureIsMet, unfinished_tasks
<1>8. ReadyIsMet'
    BY <1>1, <1>2 DEF Inv, TypeOK, ReadyIsMet, unfinished_tasks
<1> QED
    BY <1>3, <1>4, <1>5, <1>6, <1>7, <1>8 DEF Inv

\* Without clears, a step is one of the file processor, of a task or of a branch.
LEMMA StepsOfTheRun ==
    ASSUME TypeOK, Next, Undisturbed'
    PROVE  \/ ProcessorStep
           \/ \E t \in Tasks : start(t) \/ finish(t)
           \/ \E b \in Branches : \E F \in SUBSET Down(b) : skip_all_except(b, F)
<1>1. ~ \E S \in SUBSET Tasks : clear(S)
  <2>1. clears \in Nat
      BY ClearsAssumption DEF TypeOK
  <2> QED
      BY <2>1 DEF Undisturbed, clear
<1> QED
    BY <1>1 DEF Next

\* Every step of an undisturbed run keeps the invariant.
LEMMA InvIsInductive ==
    ASSUME BranchesFirst, Inv, [Next]_vars, Undisturbed'
    PROVE  Inv'
<1>1. TypeOK'
    BY TypeIsInductive DEF Inv
<1>2. CASE ProcessorStep
    BY <1>1, <1>2, ReadKeeps, ExamineKeeps, ExaminedKeeps, PrematureKeeps, DecideKeeps, ScheduleKeeps
       DEF ProcessorStep
<1>3. CASE \E t \in Tasks : start(t) \/ finish(t)
    BY <1>1, <1>3, StartKeeps, FinishKeeps
<1>4. CASE \E b \in Branches : \E F \in SUBSET Down(b) : skip_all_except(b, F)
    BY <1>1, <1>4, SkipKeeps
<1>5. CASE UNCHANGED vars
    BY <1>5, StutterKeeps
<1> QED
    BY <1>2, <1>3, <1>4, <1>5, StepsOfTheRun DEF Inv

\* A run that is undisturbed has been so before.
LEMMA UndisturbedBefore ==
    ASSUME TypeOK, [Next]_vars, Undisturbed'
    PROVE  Undisturbed
<1>1. clears \in Nat
    BY ClearsAssumption DEF TypeOK
<1>2. clears' = clears \/ clears' = clears + 1
    BY DEF Next, ProcessorStep, read_task_instances, get_ready_ti, examined, premature_ti, decide, schedule, start,
           skip_all_except, finish, clear, vars
<1> QED
    BY <1>1, <1>2 DEF Undisturbed

\* The invariant holds as long as the run is undisturbed.
LEMMA AlwaysInv ==
    ASSUME BranchesFirst
    PROVE  Spec => [](Undisturbed => Inv)
<1>1. TypeOK /\ (Undisturbed => Inv) /\ [Next]_vars => (Undisturbed => Inv)'
    BY InvIsInductive, UndisturbedBefore
<1> QED
    BY <1>1, InitEstablishes, TypeCorrect, PTL DEF Spec

(***************************************************************************)
(* update_state never fails a run as deadlocked, and never ends it before  *)
(* its tasks: when the run is SUCCESS or FAILED all its task instances are *)
(* done and its state is that of its leaves, for every acyclic DAG, every  *)
(* combination of trigger rules, and branches nested as one likes.         *)
(***************************************************************************)
THEOREM AlwaysSoundVerdict ==
    ASSUME BranchesFirst
    PROVE  Spec => [](Undisturbed => VerdictIsSound)
<1>1. Inv => VerdictIsSound
    BY DEF Inv
<1> QED
    BY <1>1, AlwaysInv, PTL

(***************************************************************************)
(* process_file schedules a task only when its parents are as              *)
(* docs/concepts.rst says of its trigger rule, at that moment, although    *)
(* TriggerRuleDep decided on a copy read earlier.                          *)
(***************************************************************************)
THEOREM AlwaysByTheRule ==
    ASSUME BranchesFirst
    PROVE  Spec /\ []Undisturbed => ScheduledByTheRule
<1> DEFINE ByTheRule ==
        \A t \in Tasks : (state[t] # SCHEDULED /\ state'[t] = SCHEDULED /\ Up[t] # {})
           => documented_rule(trigger_rule[t], Up[t], LAMBDA p : state[p])
<1>1. Inv /\ [Next]_vars /\ Undisturbed' => ByTheRule \/ UNCHANGED vars
  <2> SUFFICES ASSUME Inv, Next, Undisturbed', NEW t \in Tasks, state[t] # SCHEDULED, state'[t] = SCHEDULED, Up[t] # {}
               PROVE  documented_rule(trigger_rule[t], Up[t], LAMBDA p : state[p])
      OBVIOUS
  <2>1. schedule
      BY OnlyScheduleSchedules DEF Inv
  <2>2. step = "schedule" /\ t \in ready_tis /\ state[t] \in SCHEDULEABLE_STATES
      BY <2>1 DEF schedule
  <2>3. GoesSeen(t)
      BY <2>2, ScheduledGoes
  <2>4. \A u \in Up[t] \cap finished_tasks : seen[u] \in DoneStates => state[u] = seen[u]
      BY <2>2, FinishedIsStill
  <2>5. trigger_rule[t] \in Rules /\ Go(trigger_rule[t], CountsOf(Up[t], finished_tasks, seen))
      BY <2>3 DEF GoesSeen, Inv, TypeOK
  <2>6. Documented(trigger_rule[t], Up[t], state)
      BY <2>4, <2>5, GoIsDocumented, ParentsAreFinite
  <2> QED
      BY <2>6 DEF Documented
<1> QED
    BY <1>1, AlwaysInv, PTL DEF Spec, ScheduledByTheRule

(***************************************************************************)
(* The row of a running task changes only when its process ends: no flag   *)
(* of TriggerRuleDep, no scheduling decided on an old copy, and no branch  *)
(* hits it.                                                                *)
(***************************************************************************)
THEOREM RunningIsUndisturbed ==
    ASSUME BranchesFirst
    PROVE  Spec /\ []Undisturbed => RunningUndisturbed
<1> DEFINE Alone ==
        \A t \in Tasks : (state[t] = RUNNING /\ state'[t] # RUNNING)
           => t \notin working' \/ \E b \in Branches : t \in xcom'[b]
<1>1. Inv /\ [Next]_vars /\ Undisturbed' => Alone \/ UNCHANGED vars
  <2> SUFFICES ASSUME Inv, Next, Undisturbed', NEW t \in Tasks, state[t] = RUNNING, state'[t] # RUNNING
               PROVE  t \notin working'
      OBVIOUS
  <2>1. TypeOK' /\ Inv'
      BY InvIsInductive, TypeIsInductive DEF Inv
  <2> QED
      BY <2>1 DEF Inv, RowsAreRight
<1> QED
    BY <1>1, AlwaysInv, PTL DEF Spec, RunningUndisturbed

-----------------------------------------------------------------------------
(* What a branch has skipped, with any number of clears. *)

\* No branch is at work while its row says that it has ended: its row has not been cleared and
\* flagged, nor skipped by another branch, under it.
NoBranchOutlivesItsRow == \A b \in Branches \cap working : state[b] \notin DoneStates

\* skip_all_except records tasks directly downstream only.
SkipsChildren == \A b \in Branches : \A t \in xcom[b] : t \in Tasks /\ b \in Up[t]

\* A branch that had ended when the pass began is not running, and will not be before the pass is
\* over: only its end schedules.
EndedBranchRests ==
    step # "idle" => \A b \in Branches \cap finished_tasks : b \notin working /\ state[b] # SCHEDULED

\* What waits for every parent and has been found ready had no unfinished parent, and no parent
\* had recorded it.
ReadyIsUnskipped ==
    step # "idle" =>
        \A t \in ready_tis : WaitsForAll(t) =>
            Up[t] \subseteq finished_tasks /\ \A b \in Branches \cap Up[t] : t \notin xcom[b]

SkipInv == TypeOK /\ SkipsChildren /\ EndedBranchRests /\ ReadyIsUnskipped

\* Only a running branch records, and only its children; a start forgets.
LEMMA RecordsOfAStep ==
    ASSUME TypeOK, [Next]_vars, NEW b \in Branches, NEW t \in xcom'[b], t \notin xcom[b]
    PROVE  b \in working /\ t \in Tasks /\ b \in Up[t] /\ UNCHANGED <<trigger_rule, procVars>>
<1>1. xcom'[b] # xcom[b]
    OBVIOUS
<1>2. ~ProcessorStep
    BY <1>1 DEF ProcessorStep, read_task_instances, get_ready_ti, examined, premature_ti, decide, schedule,
                taskVars
<1>3. ~ \E u \in Tasks : start(u) \/ finish(u)
    BY <1>1 DEF start, finish, TypeOK
<1>4. ~(\E S \in SUBSET Tasks : clear(S)) /\ ~UNCHANGED vars
    BY <1>1 DEF clear, vars, taskVars
<1>5. PICK a \in Branches : \E F \in SUBSET Down(a) : skip_all_except(a, F)
    BY <1>2, <1>3, <1>4 DEF Next
<1>6. a = b
    BY <1>1, <1>5 DEF skip_all_except, TypeOK
<1> QED
    BY <1>5, <1>6 DEF skip_all_except, Down, TypeOK, procVars

\* A branch that rests begins only when its row is SCHEDULED.
LEMMA BeginsScheduled ==
    ASSUME TypeOK, [Next]_vars, NEW b \in Tasks, b \notin working, b \in working'
    PROVE  state[b] = SCHEDULED
<1>1. ~ProcessorStep
    BY DEF ProcessorStep, read_task_instances, get_ready_ti, examined, premature_ti, decide, schedule, taskVars
<1>2. /\ ~ \E u \in Tasks : finish(u)
      /\ ~ \E a \in Branches : \E F \in SUBSET Down(a) : skip_all_except(a, F)
      /\ ~ \E S \in SUBSET Tasks : clear(S)
      /\ ~UNCHANGED vars
    BY DEF finish, skip_all_except, clear, vars, taskVars
<1>3. PICK u \in Tasks : start(u)
    BY <1>1, <1>2 DEF Next
<1> QED
    BY <1>3 DEF start

\* A start leaves a row that is RUNNING.
LEMMA BeginsRunning ==
    ASSUME TypeOK, [Next]_vars, NEW t \in Tasks, t \notin working, t \in working'
    PROVE  state'[t] = RUNNING
<1>1. ~ProcessorStep
    BY DEF ProcessorStep, read_task_instances, get_ready_ti, examined, premature_ti, decide, schedule, taskVars
<1>2. /\ ~ \E u \in Tasks : finish(u)
      /\ ~ \E a \in Branches : \E F \in SUBSET Down(a) : skip_all_except(a, F)
      /\ ~ \E S \in SUBSET Tasks : clear(S)
      /\ ~UNCHANGED vars
    BY DEF finish, skip_all_except, clear, vars, taskVars
<1>3. PICK u \in Tasks : start(u)
    BY <1>1, <1>2 DEF Next
<1> QED
    BY <1>3 DEF start, TypeOK

\* What a pass keeps from its beginning to its end.
LEMMA PassSteps ==
    ASSUME TypeOK, [Next]_vars, ~read_task_instances, step' # "idle"
    PROVE  step # "idle" /\ UNCHANGED <<trigger_rule, finished_tasks>>
<1>1. CASE ProcessorStep
    BY <1>1 DEF ProcessorStep, get_ready_ti, examined, premature_ti, decide, schedule, taskVars
<1>2. CASE ~ProcessorStep
    BY <1>2 DEF Next, start, finish, skip_all_except, clear, vars, procVars
<1> QED
    BY <1>1, <1>2

\* What gets ready has been examined.
LEMMA ReadyIsExamined ==
    ASSUME TypeOK, [Next]_vars, ~read_task_instances, NEW t \in ready_tis', t \notin ready_tis
    PROVE  t \in Tasks /\ dependencies_met(t) /\ xcom' = xcom
<1>1. PICK u \in Tasks, due \in BOOLEAN : get_ready_ti(u, due)
  <2>1. ~(examined \/ decide \/ schedule \/ UNCHANGED vars) /\ ~ \E u \in Tasks : premature_ti(u)
      BY DEF examined, decide, schedule, premature_ti, vars, procVars
  <2>2. /\ ~ \E u \in Tasks : start(u) \/ finish(u)
        /\ ~ \E a \in Branches : \E F \in SUBSET Down(a) : skip_all_except(a, F)
        /\ ~ \E S \in SUBSET Tasks : clear(S)
      BY DEF start, finish, skip_all_except, clear, procVars
  <2> QED
      BY <2>1, <2>2 DEF Next, ProcessorStep
<1> QED
    BY <1>1 DEF get_ready_ti

\* Every step keeps the invariant.
LEMMA SkipInvIsInductive ==
    ASSUME SkipInv, NoBranchOutlivesItsRow, [Next]_vars
    PROVE  SkipInv'
<1>1. TypeOK /\ TypeOK'
    BY TypeIsInductive DEF SkipInv
<1>2. SkipsChildren'
    BY <1>1, RecordsOfAStep DEF SkipInv, SkipsChildren
<1>3. CASE read_task_instances
  <2>1. /\ finished_tasks' = { t \in Tasks : state[t] \in DoneStates } /\ ready_tis' = {}
        /\ UNCHANGED <<state, working>>
      BY <1>3 DEF read_task_instances, taskVars
  <2>2. EndedBranchRests'
      BY <2>1, StatesDiffer DEF EndedBranchRests, NoBranchOutlivesItsRow
  <2>3. ReadyIsUnskipped'
      BY <2>1 DEF ReadyIsUnskipped
  <2> QED
      BY <1>1, <1>2, <2>2, <2>3 DEF SkipInv
<1>4. CASE ~read_task_instances /\ step' # "idle"
  <2>1. step # "idle" /\ UNCHANGED <<trigger_rule, finished_tasks>>
      BY <1>1, <1>4, PassSteps
  <2>2. EndedBranchRests'
    <3> SUFFICES ASSUME NEW b \in Branches \cap finished_tasks
                 PROVE  b \notin working' /\ state'[b] # SCHEDULED
        BY <2>1 DEF EndedBranchRests
    <3>1. b \in Tasks /\ b \notin working /\ state[b] # SCHEDULED
        BY <1>1, <2>1 DEF SkipInv, EndedBranchRests, TypeOK
    <3>2. ~schedule
        BY <1>4 DEF schedule
    <3> QED
        BY <1>1, <3>1, <3>2, OnlyScheduleSchedules, BeginsScheduled
  <2>3. ReadyIsUnskipped'
    <3> SUFFICES ASSUME NEW t \in ready_tis', WaitsForAll(t)
                 PROVE  /\ Up[t] \subseteq finished_tasks
                        /\ \A b \in Branches \cap Up[t] : t \notin xcom'[b]
        BY <2>1 DEF ReadyIsUnskipped, WaitsForAll
    <3>1. CASE t \in ready_tis
      <4>1. Up[t] \subseteq finished_tasks /\ \A b \in Branches \cap Up[t] : t \notin xcom[b]
          BY <2>1, <3>1 DEF SkipInv, ReadyIsUnskipped
      <4>2. ASSUME NEW b \in Branches \cap Up[t] PROVE t \notin xcom'[b]
        <5>1. b \notin working
            BY <2>1, <4>1 DEF SkipInv, EndedBranchRests
        <5> QED
            BY <1>1, <4>1, <5>1, RecordsOfAStep
      <4> QED
          BY <4>1, <4>2
    <3>2. CASE t \notin ready_tis
      <4>1. t \in Tasks /\ dependencies_met(t) /\ xcom' = xcom
          BY <1>1, <1>4, <3>2, ReadyIsExamined
      <4>2. Up[t] \subseteq finished_tasks
          BY <1>1, <4>1, MetMeansFinished DEF dependencies_met
      <4>3. \A b \in Branches \cap Up[t] : t \notin xcom[b]
          BY <4>1, <4>2 DEF dependencies_met, previously_skipped
      <4> QED
          BY <4>1, <4>2, <4>3
    <3> QED
        BY <3>1, <3>2
  <2> QED
      BY <1>1, <1>2, <2>2, <2>3 DEF SkipInv
<1>5. CASE step' = "idle"
    BY <1>1, <1>2, <1>5 DEF SkipInv, EndedBranchRests, ReadyIsUnskipped
<1> QED
    BY <1>3, <1>4, <1>5

(***************************************************************************)
(* A task that SkipMixin has recorded is not scheduled as long as the      *)
(* branch has not been run again, however often and whenever it, the       *)
(* branch and the tasks around them are cleared (unless the clears leave a *)
(* branch at work under a row that has ended): NotPreviouslySkippedDep     *)
(* reads the record, but the finished parents are those of an older copy,  *)
(* and the rule is what makes sure that the branch is one of them.         *)
(***************************************************************************)
THEOREM SkippedStaysUnrun == Spec /\ []NoBranchOutlivesItsRow => SkippedIsNotRun
<1> DEFINE Unrun ==
        \A b \in Branches : \A t \in xcom[b] :
          (/\ state[b] \in DoneStates
           /\ trigger_rule[t] \notin {"dummy", "one_success", "one_failed"}
           /\ state[t] # SCHEDULED)
          => state'[t] # SCHEDULED
<1>1. Init => SkipInv
    BY InitHasType DEF SkipInv, Init, SkipsChildren, EndedBranchRests, ReadyIsUnskipped
<1>2. SkipInv /\ NoBranchOutlivesItsRow /\ [Next]_vars => SkipInv'
    BY SkipInvIsInductive
<1>3. SkipInv /\ [Next]_vars => Unrun \/ UNCHANGED vars
  <2> SUFFICES ASSUME SkipInv, [Next]_vars, NEW b \in Branches, NEW t \in xcom[b], WaitsForAll(t),
                      state[t] # SCHEDULED, state'[t] = SCHEDULED
               PROVE  FALSE
      BY DEF WaitsForAll, EarlyRules
  <2>1. t \in Tasks /\ b \in Up[t]
      BY DEF SkipInv, SkipsChildren
  <2>2. schedule
      BY <2>1, OnlyScheduleSchedules DEF SkipInv
  <2>3. step = "schedule" /\ t \in ready_tis
      BY <2>1, <2>2 DEF schedule
  <2> QED
      BY <2>1, <2>3 DEF SkipInv, ReadyIsUnskipped
<1> QED
    BY <1>1, <1>2, <1>3, PTL DEF Spec, SkippedIsNotRun

\* A branch without parents is neither flagged nor skipped.
RootBranches == \A b \in Branches : b \in Tasks => Up[b] = {}

\* Its process never outlives the end of its row, however often it is cleared.
LEMMA RootNeverOutlived ==
    ASSUME RootBranches, TypeOK, NoBranchOutlivesItsRow, [Next]_vars
    PROVE  NoBranchOutlivesItsRow'
<1> SUFFICES ASSUME NEW b \in Branches \cap working' PROVE state'[b] \notin DoneStates
    BY DEF NoBranchOutlivesItsRow
<1>1. b \in Tasks /\ Up[b] = {}
    BY TypeIsInductive DEF TypeOK, RootBranches
<1>2. CASE b \notin working
    BY <1>1, <1>2, BeginsRunning, StatesDiffer
<1>3. CASE b \in working
  <2>1. state[b] \notin DoneStates
      BY <1>3 DEF NoBranchOutlivesItsRow
  <2>2. flags(b) = {}
      BY <1>1 DEF flags, previously_skipped
  <2>3. ASSUME NEW t \in Tasks, write_flags(t) PROVE state'[b] = state[b]
      BY <1>1, <2>2, <2>3 DEF write_flags, TypeOK
  <2>4. CASE ProcessorStep
    <3>1. CASE schedule
        BY <1>1, <2>1, <3>1, StatesDiffer DEF schedule
    <3>2. CASE ~schedule
      <4>1. state'[b] = state[b]
          BY <2>3, <2>4, <3>2 DEF ProcessorStep, read_task_instances, get_ready_ti, examined, premature_ti, decide,
                                  taskVars
      <4> QED
          BY <2>1, <4>1
    <3> QED
        BY <3>1, <3>2
  <2>5. CASE \E t \in Tasks : start(t) \/ finish(t)
      BY <1>1, <2>1, <2>5, StatesDiffer DEF start, finish, TypeOK
  <2>6. CASE \E a \in Branches : \E F \in SUBSET Down(a) : skip_all_except(a, F)
      BY <1>1, <2>1, <2>6 DEF skip_all_except, Down
  <2>7. CASE \E S \in SUBSET Tasks : clear(S)
      BY <1>1, <2>1, <2>7 DEF clear, DoneStates, finished, SHUTDOWN, NONE, SUCCESS, SKIPPED, FAILED, UPSTREAM_FAILED
  <2>8. CASE UNCHANGED vars
      BY <2>1, <2>8 DEF vars, taskVars
  <2> QED
      BY <2>4, <2>5, <2>6, <2>7, <2>8 DEF Next
<1> QED
    BY <1>2, <1>3

(***************************************************************************)
(* The same with any clears at any time, for branches without parents,     *)
(* such as the one of DagRunBranch.                                        *)
(***************************************************************************)
THEOREM SkippedByRootStaysUnrun ==
    ASSUME RootBranches
    PROVE  Spec => SkippedIsNotRun
<1>1. Init => NoBranchOutlivesItsRow
    BY DEF Init, NoBranchOutlivesItsRow
<1>2. TypeOK /\ NoBranchOutlivesItsRow /\ [Next]_vars => NoBranchOutlivesItsRow'
    BY RootNeverOutlived
<1>3. Spec => []NoBranchOutlivesItsRow
    BY <1>1, <1>2, TypeCorrect, PTL DEF Spec
<1> QED
    BY <1>3, SkippedStaysUnrun, PTL

(***************************************************************************)
(* Without clears a branch may be skipped while it runs, by a branch       *)
(* before it that its rule did not wait for.  It can then record a task    *)
(* that has been found ready; the second look at the row stops that one.   *)
(***************************************************************************)

\* A task with a process neither waits nor is to be started; what the pass has yet to examine,
\* or found ready, has no process.
WaitingRests ==
    /\ \A t \in working : state[t] \notin SCHEDULEABLE_STATES \cup {SCHEDULED}
    /\ step = "examine" => \A t \in todo : t \notin working /\ state[t] # SCHEDULED
    /\ step # "idle" => \A t \in ready_tis : t \notin working /\ state[t] # SCHEDULED

\* What was found ready and is recorded as skipped no longer waits.
RecordedIsSkipped ==
    step # "idle" =>
        \A t \in ready_tis : \A b \in Branches :
            (WaitsForAll(t) /\ t \in xcom[b]) => state[t] \notin SCHEDULEABLE_STATES

RestInv == TypeOK /\ SkipsChildren /\ WaitingRests /\ RecordedIsSkipped

\* Without clears only the end of a process makes a row schedulable.
LEMMA OnlyFinishWaits ==
    ASSUME TypeOK, [Next]_vars, Undisturbed', NEW t \in Tasks,
           state[t] \notin SCHEDULEABLE_STATES, state'[t] \in SCHEDULEABLE_STATES
    PROVE  t \in working /\ t \notin working'
<1>1. ASSUME NEW u \in Tasks, write_flags(u) PROVE FALSE
  <2>1. \A f \in flags(u) : f \notin SCHEDULEABLE_STATES
      BY FlagsAreDone DEF SCHEDULEABLE_STATES, SKIPPED, UPSTREAM_FAILED, NONE, UP_FOR_RETRY, UP_FOR_RESCHEDULE
  <2> QED
      BY <1>1, <2>1 DEF write_flags, TypeOK
<1>2. ~ProcessorStep
  <2>1. ~schedule
      BY DEF schedule, TypeOK, SCHEDULEABLE_STATES, SCHEDULED, NONE, UP_FOR_RETRY, UP_FOR_RESCHEDULE
  <2> QED
      BY <1>1, <2>1 DEF ProcessorStep, read_task_instances, get_ready_ti, examined, premature_ti, decide, taskVars
<1>3. ~ \E b \in Branches : \E F \in SUBSET Down(b) : skip_all_except(b, F)
    BY DEF skip_all_except, SCHEDULEABLE_STATES, SKIPPED, NONE, UP_FOR_RETRY, UP_FOR_RESCHEDULE
<1>4. ~ \E S \in SUBSET Tasks : clear(S)
  <2>1. clears \in Nat
      BY ClearsAssumption DEF TypeOK
  <2> QED
      BY <2>1 DEF Undisturbed, clear
<1>5. ~ \E u \in Tasks : start(u)
    BY DEF start, TypeOK, SCHEDULEABLE_STATES, RUNNING, NONE, UP_FOR_RETRY, UP_FOR_RESCHEDULE
<1>6. PICK u \in Tasks : finish(u)
    BY <1>2, <1>3, <1>4, <1>5 DEF Next, vars, taskVars
<1>7. u = t
    BY <1>6 DEF finish, TypeOK
<1> QED
    BY <1>6, <1>7 DEF finish

\* What the pass has yet to examine only gets less.
LEMMA TodoShrinks ==
    ASSUME TypeOK, [Next]_vars, ~read_task_instances, step' = "examine"
    PROVE  step = "examine" /\ todo' \subseteq todo /\ ready_tis' \subseteq ready_tis \cup todo
<1>1. CASE ProcessorStep
    BY <1>1 DEF ProcessorStep, get_ready_ti, examined, premature_ti, decide, schedule, taskVars
<1>2. CASE ~ProcessorStep
    BY <1>2 DEF Next, start, finish, skip_all_except, clear, vars, procVars
<1> QED
    BY <1>1, <1>2

\* After the examination nothing gets ready.
LEMMA ReadyIsSettled ==
    ASSUME TypeOK, [Next]_vars, step' \notin {"idle", "examine"}
    PROVE  ready_tis' = ready_tis
<1>1. CASE ProcessorStep
    BY <1>1 DEF ProcessorStep, read_task_instances, get_ready_ti, examined, premature_ti, decide, schedule
<1>2. CASE ~ProcessorStep
    BY <1>2 DEF Next, start, finish, skip_all_except, clear, vars, procVars
<1> QED
    BY <1>1, <1>2

\* A task is recorded and its row skipped in one step.
LEMMA RecordedAtOnce ==
    ASSUME TypeOK, [Next]_vars, NEW b \in Branches, NEW t \in xcom'[b], t \notin xcom[b]
    PROVE  state'[t] = SKIPPED
<1>1. xcom'[b] # xcom[b]
    OBVIOUS
<1>2. ~ProcessorStep
    BY <1>1 DEF ProcessorStep, read_task_instances, get_ready_ti, examined, premature_ti, decide, schedule,
                taskVars
<1>3. ~ \E u \in Tasks : start(u) \/ finish(u)
    BY <1>1 DEF start, finish, TypeOK
<1>4. ~(\E S \in SUBSET Tasks : clear(S)) /\ ~UNCHANGED vars
    BY <1>1 DEF clear, vars, taskVars
<1>5. PICK a \in Branches : \E F \in SUBSET Down(a) : skip_all_except(a, F)
    BY <1>2, <1>3, <1>4 DEF Next
<1>6. a = b
    BY <1>1, <1>5 DEF skip_all_except, TypeOK
<1> QED
    BY <1>5, <1>6 DEF skip_all_except, Down, TypeOK

\* Every step without a clear keeps the invariant.
LEMMA RestInvIsInductive ==
    ASSUME RestInv, [Next]_vars, Undisturbed'
    PROVE  RestInv'
<1>1. TypeOK /\ TypeOK'
    BY TypeIsInductive DEF RestInv
<1>2. SkipsChildren'
    BY <1>1, RecordsOfAStep DEF RestInv, SkipsChildren
<1>3. \A t \in working' : state'[t] \notin SCHEDULEABLE_STATES \cup {SCHEDULED}
  <2> SUFFICES ASSUME NEW t \in working' PROVE state'[t] \notin SCHEDULEABLE_STATES \cup {SCHEDULED}
      OBVIOUS
  <2>1. t \in Tasks
      BY <1>1 DEF TypeOK
  <2>2. CASE t \notin working
    <3>1. state'[t] = RUNNING
        BY <1>1, <2>1, <2>2, BeginsRunning
    <3> QED
        BY <3>1 DEF SCHEDULEABLE_STATES, SCHEDULED, RUNNING, NONE, UP_FOR_RETRY, UP_FOR_RESCHEDULE
  <2>3. CASE t \in working
    <3>1. state[t] \notin SCHEDULEABLE_STATES \cup {SCHEDULED}
        BY <2>3 DEF RestInv, WaitingRests
    <3>2. state'[t] \notin SCHEDULEABLE_STATES
        BY <1>1, <2>1, <3>1, OnlyFinishWaits
    <3>3. state'[t] # SCHEDULED
      <4> SUFFICES ASSUME state'[t] = SCHEDULED PROVE FALSE
          OBVIOUS
      <4>1. schedule
          BY <1>1, <2>1, <3>1, OnlyScheduleSchedules
      <4> QED
          BY <2>1, <3>1, <4>1 DEF schedule
    <3> QED
        BY <3>2, <3>3
  <2> QED
      BY <2>2, <2>3
<1>4. CASE step' = "idle"
    BY <1>1, <1>2, <1>3, <1>4 DEF RestInv, WaitingRests, RecordedIsSkipped
<1>5. CASE read_task_instances
  <2>1. /\ todo' = { t \in Tasks : state[t] \in SCHEDULEABLE_STATES } /\ ready_tis' = {}
        /\ UNCHANGED <<state, working>>
      BY <1>5 DEF read_task_instances, taskVars
  <2>2. SCHEDULED \notin SCHEDULEABLE_STATES
      BY DEF SCHEDULEABLE_STATES, SCHEDULED, NONE, UP_FOR_RETRY, UP_FOR_RESCHEDULE
  <2>3. WaitingRests'
      BY <1>3, <2>1, <2>2 DEF RestInv, WaitingRests
  <2>4. RecordedIsSkipped'
      BY <2>1 DEF RecordedIsSkipped
  <2> QED
      BY <1>1, <1>2, <2>3, <2>4 DEF RestInv
<1>6. CASE ~read_task_instances /\ step' # "idle"
  <2>1. step # "idle" /\ UNCHANGED <<trigger_rule, finished_tasks>> /\ ~schedule
      BY <1>1, <1>6, PassSteps DEF schedule
  <2>2. \A t \in Tasks : (t \notin working /\ state[t] # SCHEDULED) => (t \notin working' /\ state'[t] # SCHEDULED)
      BY <1>1, <2>1, OnlyScheduleSchedules, BeginsScheduled
  <2>3. step' = "examine" => \A t \in todo' : t \in Tasks /\ t \notin working /\ state[t] # SCHEDULED
      BY <1>1, <1>6, TodoShrinks DEF RestInv, WaitingRests, TypeOK
  <2>4. \A t \in ready_tis' : t \in Tasks /\ t \notin working /\ state[t] # SCHEDULED
    <3>1. CASE step' = "examine"
        BY <1>1, <1>6, <2>1, <3>1, TodoShrinks DEF RestInv, WaitingRests, TypeOK
    <3>2. CASE step' # "examine"
        BY <1>1, <1>6, <2>1, <3>2, ReadyIsSettled DEF RestInv, WaitingRests, TypeOK
    <3> QED
        BY <3>1, <3>2
  <2>5. WaitingRests'
      BY <1>3, <2>2, <2>3, <2>4 DEF WaitingRests
  <2>6. RecordedIsSkipped'
    <3> SUFFICES ASSUME NEW t \in ready_tis', NEW b \in Branches, WaitsForAll(t), t \in xcom'[b]
                 PROVE  state'[t] \notin SCHEDULEABLE_STATES
        BY <2>1 DEF RecordedIsSkipped, WaitsForAll
    <3>1. t \in Tasks /\ b \in Up[t]
        BY <1>2, <2>4 DEF SkipsChildren
    <3>2. CASE t \notin xcom[b]
      <4>1. state'[t] = SKIPPED
          BY <1>1, <3>2, RecordedAtOnce
      <4> QED
          BY <4>1 DEF SCHEDULEABLE_STATES, SKIPPED, NONE, UP_FOR_RETRY, UP_FOR_RESCHEDULE
    <3>3. CASE t \in xcom[b] /\ t \in ready_tis
      <4>1. state[t] \notin SCHEDULEABLE_STATES
          BY <2>1, <3>3 DEF RestInv, RecordedIsSkipped
      <4> QED
          BY <1>1, <2>4, <3>1, <4>1, OnlyFinishWaits
    <3>4. CASE t \in xcom[b] /\ t \notin ready_tis
      <4>1. dependencies_met(t)
          BY <1>1, <1>6, <3>4, ReadyIsExamined
      <4>2. Up[t] \subseteq finished_tasks
          BY <1>1, <3>1, <4>1, MetMeansFinished DEF dependencies_met
      <4> QED
          BY <3>1, <3>4, <4>1, <4>2 DEF dependencies_met, previously_skipped
    <3> QED
        BY <3>2, <3>3, <3>4
  <2> QED
      BY <1>1, <1>2, <2>5, <2>6 DEF RestInv
<1> QED
    BY <1>4, <1>5, <1>6

(***************************************************************************)
(* In a run that nobody clears, a task that SkipMixin has recorded is not  *)
(* scheduled, even by a branch whose own row was skipped under it.         *)
(***************************************************************************)
THEOREM SkippedStaysUnrunUncleared == Spec /\ []Undisturbed => SkippedIsNotRun
<1> DEFINE Unrun ==
        \A b \in Branches : \A t \in xcom[b] :
          (/\ state[b] \in DoneStates
           /\ trigger_rule[t] \notin {"dummy", "one_success", "one_failed"}
           /\ state[t] # SCHEDULED)
          => state'[t] # SCHEDULED
<1>1. Init => RestInv
    BY InitHasType DEF RestInv, Init, SkipsChildren, WaitingRests, RecordedIsSkipped
<1>2. RestInv /\ [Next]_vars /\ Undisturbed' => RestInv'
    BY RestInvIsInductive
<1>3. RestInv /\ [Next]_vars => Unrun \/ UNCHANGED vars
  <2> SUFFICES ASSUME RestInv, [Next]_vars, NEW b \in Branches, NEW t \in xcom[b], WaitsForAll(t),
                      state[t] # SCHEDULED, state'[t] = SCHEDULED
               PROVE  FALSE
      BY DEF WaitsForAll, EarlyRules
  <2>1. t \in Tasks
      BY DEF RestInv, SkipsChildren
  <2>2. schedule
      BY <2>1, OnlyScheduleSchedules DEF RestInv
  <2>3. step = "schedule" /\ t \in ready_tis /\ state[t] \in SCHEDULEABLE_STATES
      BY <2>1, <2>2 DEF schedule
  <2> QED
      BY <2>3 DEF RestInv, RecordedIsSkipped
<1> QED
    BY <1>1, <1>2, <1>3, PTL DEF Spec, SkippedIsNotRun
=============================================================================
