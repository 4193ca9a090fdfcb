---------------------------- MODULE MCLocalExecutor ----------------------------
(* Three keys of two DAGs with two priorities, for two workers or none. *)
EXTENDS LocalExecutor

MCKeys == {"a1", "a2", "b1"}
MCDags == {"A", "B"}
MCKeyDag == [k \in MCKeys |-> IF k = "b1" THEN "B" ELSE "A"]
MCKeyPriority == [k \in MCKeys |-> IF k = "a2" THEN 2 ELSE 1]
=============================================================================
