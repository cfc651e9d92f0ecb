--------------------------- MODULE MCTaskWorkflow ---------------------------
(* Small instances of TaskWorkflow for TLC: the values of its set-valued   *)
(* constants; the numbers are in the configurations.                       *)
EXTENDS TaskWorkflow

(* Faults inside a run, and faults around it.                               *)
RunFaults    == {"node", "save", "finish"}
WorkerFaults == {"config", "finish", "report", "crash"}
\* An assessment that can be confirmed, another one, and a blocked one.
OneContent    == {"ok"}
ThreeContents == {"ok", "other", "policy_error"}
Blocked       == {"policy_error"}
=============================================================================
