------------------------- MODULE TriggerRuleProofs -------------------------
(***************************************************************************)
(* What TriggerRuleDep guarantees for any number of upstream tasks: it     *)
(* comes to a decision once they are all done, and never to one that what  *)
(* the others may still do would refute.                                   *)
(***************************************************************************)
EXTENDS TriggerRule, TLAPS

\* Counts of a task with parents: every finished one is in one of the states.
Tallied(c) ==
    /\ c \in Counts
    /\ c.n > 0
    /\ c.done = c.success + c.skipped + c.failed + c.upstream_failed
    /\ c.done <= c.n

\* d: the counts some time after c, when more parents are done.
Later(c, d) ==
    /\ d.n = c.n
    /\ c.success <= d.success
    /\ c.skipped <= d.skipped
    /\ c.failed <= d.failed
    /\ c.upstream_failed <= d.upstream_failed

(***************************************************************************)
(* With every parent done, each rule lets the task instance run or flags   *)
(* it, so that a run whose parents are all done is never taken for         *)
(* deadlocked (dagrun.py, _get_ready_tis and the third branch of           *)
(* update_state).                                                          *)
(***************************************************************************)
THEOREM DoneIsDecided ==
    ASSUME NEW rule \in Rules, NEW c, Tallied(c), c.done = c.n
    PROVE  rule_met(rule, c) \/ flagged_state(rule, c) # NoFlag
<1> SUFFICES ASSUME ~rule_met(rule, c)
             PROVE  flagged_state(rule, c) # NoFlag
  OBVIOUS
<1>1. /\ c.success \in Nat /\ c.skipped \in Nat /\ c.failed \in Nat
      /\ c.upstream_failed \in Nat /\ c.done \in Nat /\ c.n \in Nat
  BY DEF Tallied, Counts
<1>2. CASE rule \in {"all_success", "all_failed"}
  BY <1>1, <1>2 DEF Tallied, rule_met, flagged_state, NoFlag, UPSTREAM_FAILED, SKIPPED
<1>3. CASE rule \in {"one_success", "one_failed"}
  BY <1>1, <1>3 DEF Tallied, rule_met, flagged_state, NoFlag, UPSTREAM_FAILED, SKIPPED
<1>4. CASE rule \in {"none_failed", "none_failed_or_skipped", "none_skipped"}
  BY <1>1, <1>4 DEF Tallied, rule_met, flagged_state, NoFlag, UPSTREAM_FAILED, SKIPPED
<1>5. CASE rule \in {"all_done", "dummy"}
  BY <1>1, <1>5 DEF Tallied, rule_met
<1> QED
  BY <1>2, <1>3, <1>4, <1>5 DEF Rules

(***************************************************************************)
(* A flag that is set while parents are still to come is never premature:  *)
(* whatever they do, the rule would not have been met.  The one exception  *)
(* is none_failed_or_skipped with every parent skipped, which rule_met     *)
(* accepts: there only the second look of process_file at the row, now     *)
(* SKIPPED, keeps the task from being scheduled.                           *)
(***************************************************************************)
THEOREM FlagIsNeverPremature ==
    ASSUME NEW rule \in Rules, NEW c, NEW d, Tallied(c), Tallied(d), Later(c, d),
           flagged_state(rule, c) # NoFlag,
           rule_met(rule, d)
    PROVE  rule = "none_failed_or_skipped" /\ c.skipped = c.n
<1>1. /\ c.success \in Nat /\ c.skipped \in Nat /\ c.failed \in Nat
      /\ c.upstream_failed \in Nat /\ c.done \in Nat /\ c.n \in Nat
      /\ d.success \in Nat /\ d.skipped \in Nat /\ d.failed \in Nat
      /\ d.upstream_failed \in Nat /\ d.done \in Nat /\ d.n \in Nat
  BY DEF Tallied, Counts
<1>2. CASE rule \in {"all_success", "all_failed"}
  BY <1>1, <1>2 DEF Tallied, Later, rule_met, flagged_state, NoFlag, UPSTREAM_FAILED, SKIPPED
<1>3. CASE rule \in {"one_success", "one_failed"}
  BY <1>1, <1>3 DEF Tallied, Later, rule_met, flagged_state, NoFlag, UPSTREAM_FAILED, SKIPPED
<1>4. CASE rule \in {"none_failed", "none_failed_or_skipped", "none_skipped"}
  BY <1>1, <1>4 DEF Tallied, Later, rule_met, flagged_state, NoFlag, UPSTREAM_FAILED, SKIPPED
<1>5. CASE rule \in {"all_done", "dummy"}
  BY <1>5 DEF flagged_state
<1> QED
  BY <1>2, <1>3, <1>4, <1>5 DEF Rules
=============================================================================
