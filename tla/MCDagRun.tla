------------------------------ MODULE MCDagRun ------------------------------
(***************************************************************************)
(* Small DAGs: a join of a and b with a task behind it, a chain, and a     *)
(* branch a one of whose targets is behind the other.  The rule of a task  *)
(* without parents makes no difference.                                    *)
(***************************************************************************)
EXTENDS DagRun

Join == [t \in {"a", "b", "c", "d"} |-> CASE t = "c" -> {"a", "b"} [] t = "d" -> {"c"} [] OTHER -> {}]
Chain == [t \in {"a", "b"} |-> IF t = "b" THEN {"a"} ELSE {}]
Fork == [t \in {"a", "b", "c"} |-> IF t = "a" THEN {} ELSE IF t = "b" THEN {"a"} ELSE {"a", "b"}]

AnyRule == [t \in Tasks |-> IF Up[t] = {} THEN {"all_success"} ELSE Rules]
SomeRulesForC ==
    [t \in Tasks |-> IF t # "c" THEN {"all_success"}
                     ELSE {"all_success", "all_failed", "all_done", "one_success",
                           "none_failed_or_skipped"}]
=============================================================================
