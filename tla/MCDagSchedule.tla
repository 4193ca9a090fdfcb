---------------------------- MODULE MCDagSchedule ----------------------------
(***************************************************************************)
(* Intervals of two units; start dates on and off the points of the        *)
(* schedule, and before that of the task.                                  *)
(***************************************************************************)
EXTENDS DagSchedule

MCDags ==
    { d \in [schedule_interval : {"cron", "timedelta", "@once"}, catchup : BOOLEAN,
             dagrun_timeout : BOOLEAN, start_date : {NoDate, 0, 1}, task_start : {1, 2},
             end_date : {NoDate, 2}, max_active_runs : {1, 2}] :
        /\ d.task_start = 2 <=> d.start_date = 0
        /\ d.dagrun_timeout <=> d.start_date = 1
        /\ d.end_date = 2 <=> d.start_date = 0 /\ d.max_active_runs = 1
        /\ d.max_active_runs = 2 => d.start_date = 0 /\ d.catchup
        /\ d.schedule_interval = "@once" => d.start_date # 1 /\ d.catchup }
=============================================================================
