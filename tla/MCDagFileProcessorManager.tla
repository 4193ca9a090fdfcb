------------------- MODULE MCDagFileProcessorManager -------------------
(***************************************************************************)
(* Two files, of which g may come later; no run limit, or one run each.     *)
(***************************************************************************)
EXTENDS DagFileProcessorManager

MCDirectories == {{"f"}, {"f", "g"}}
MCMaxRuns == {-1, 1}
=============================================================================
