---------------------------- MODULE MCSchedulerJob ----------------------------
(***************************************************************************)
(* Task instances a1, a2 of DAG A and b1 of DAG B share one pool.          *)
(***************************************************************************)
EXTENDS SchedulerJob

MCDagOf == [t \in TIs |-> IF t = "b1" THEN "B" ELSE "A"]
MCDags == { MCDagOf[t] : t \in TIs }
MCTaskOf == [t \in TIs |-> t]
MCPoolOf == [t \in TIs |-> "default_pool"]
MCPriority == [t \in TIs |-> IF t = "a1" THEN 2 ELSE 1]
MCKeyDag == [k \in TaskKeys |-> MCDagOf[k[1]]]
MCKeyPriority == [k \in TaskKeys |-> MCPriority[k[1]]]

OneSlot == [t \in TIs |-> 1]
TwoSlotsForA2 == [t \in TIs |-> IF t = "a2" THEN 2 ELSE 1]
NoRetry == [t \in TIs |-> 0]
RetryA1Twice == [t \in TIs |-> IF t = "a1" THEN 2 ELSE 0]
OneEach == [d \in {"A", "B"} |-> 1]
Plenty == [x \in {"A", "B"} \cup TIs |-> 3]
TwoPoolSlots == [p \in {"default_pool"} |-> 2]
=============================================================================
