---------------------------- MODULE MCBackfillJob ----------------------------
(***************************************************************************)
(* A chain of tasks.                                                       *)
(***************************************************************************)
EXTENDS BackfillJob

Chain2 == [t \in {"a", "b"} |-> IF t = "b" THEN {"a"} ELSE {}]
Chain3 == [t \in {"a", "b", "c"} |-> IF t = "b" THEN {"a"} ELSE IF t = "c" THEN {"b"} ELSE {}]
Rank2 == [t \in {"a", "b"} |-> IF t = "a" THEN 1 ELSE 2]
Rank3 == [t \in {"a", "b", "c"} |-> IF t = "a" THEN 1 ELSE IF t = "b" THEN 2 ELSE 3]
RetryA == [t \in Tasks |-> IF t = "a" THEN 1 ELSE 0]
NoLimits == [t \in Tasks |-> 0]
ClearB == {<<"b", 1>>, <<"b", 2>>}
Fresh == { [ti \in TIs |-> NONE] }
\* The run of the first date is there already: a has succeeded, and b has not run,
\* or has failed, or was given up when a had failed.
Existing == { [ti \in TIs |-> CASE ti = <<"a", 1>> -> SUCCESS [] ti = <<"b", 1>> -> s [] OTHER -> NONE] :
              s \in {NONE, FAILED, UPSTREAM_FAILED} }
=============================================================================
