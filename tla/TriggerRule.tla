---------------------------- MODULE TriggerRule ----------------------------
(***************************************************************************)
(* TriggerRuleDep (airflow/ti_deps/deps/trigger_rule_dep.py) as constant   *)
(* operators on the counts it works with: how many of the n upstream task  *)
(* instances are done, and how many of those are in each finished state.   *)
(***************************************************************************)
EXTENDS TaskInstance

Rules == {"all_success", "all_failed", "all_done", "one_success", "one_failed",
          "none_failed", "none_failed_or_skipped", "none_skipped", "dummy"}

\* The counts: success, skipped, failed, upstream_failed and done of n upstream.
Counts == [success : Nat, skipped : Nat, failed : Nat, upstream_failed : Nat,
           done : Nat, n : Nat]

NoFlag == "no_flag"

\* Mutant: one_success gives up when some parent has not succeeded.
flagged_state_not_all(rule, c) ==
    IF rule = "one_success" /\ c.done >= c.n /\ c.success < c.n THEN SKIPPED ELSE NoFlag

\* The state that flag_upstream_failed assigns at once, if any.
flagged_state(rule, c) ==
    LET someFailed == c.failed > 0 \/ c.upstream_failed > 0
        upstream_done == c.done >= c.n
    IN  CASE rule \in {"all_success", "none_failed", "none_failed_or_skipped"} /\ someFailed
               -> UPSTREAM_FAILED
          [] \/ rule = "all_success" /\ ~someFailed /\ c.skipped > 0
             \/ rule = "all_failed" /\ (c.success > 0 \/ c.skipped > 0)
             \/ rule = "one_success" /\ upstream_done /\ c.success = 0
             \/ rule = "one_failed" /\ upstream_done /\ ~someFailed
             \/ rule = "none_failed_or_skipped" /\ ~someFailed /\ c.skipped = c.n
             \/ rule = "none_skipped" /\ c.skipped > 0
               -> SKIPPED
          [] OTHER -> NoFlag

\* Whether the rule lets the task instance run.
rule_met(rule, c) ==
    CASE rule = "dummy" -> TRUE
      [] rule = "one_success" -> c.success > 0
      [] rule = "one_failed" -> c.failed > 0 \/ c.upstream_failed > 0
      [] rule = "all_success" -> c.n - c.success <= 0
      [] rule = "all_failed" -> c.n - c.failed - c.upstream_failed <= 0
      [] rule = "all_done" -> c.done >= c.n
      [] rule \in {"none_failed", "none_failed_or_skipped"} -> c.n - c.success - c.skipped <= 0
      [] rule = "none_skipped" -> c.done >= c.n /\ c.skipped = 0
      [] OTHER -> FALSE

\* What docs/concepts.rst says a rule requires of the parents; S(p) is the state
\* of the parent p.
documented_rule(rule, parents, S(_)) ==
    CASE rule = "all_success" -> \A p \in parents : S(p) = SUCCESS
      [] rule = "all_failed" -> \A p \in parents : S(p) \in {FAILED, UPSTREAM_FAILED}
      [] rule = "all_done" -> \A p \in parents : S(p) \in finished \cup {UPSTREAM_FAILED}
      [] rule = "one_failed" -> \E p \in parents : S(p) \in {FAILED, UPSTREAM_FAILED}
      [] rule = "one_success" -> \E p \in parents : S(p) = SUCCESS
      [] rule = "none_failed" -> \A p \in parents : S(p) \in {SUCCESS, SKIPPED}
      [] rule = "none_failed_or_skipped" ->
           /\ \A p \in parents : S(p) \in {SUCCESS, SKIPPED}
           /\ \E p \in parents : S(p) = SUCCESS
      [] rule = "none_skipped" -> \A p \in parents : S(p) \in {SUCCESS, FAILED, UPSTREAM_FAILED}
      [] rule = "dummy" -> TRUE
=============================================================================
