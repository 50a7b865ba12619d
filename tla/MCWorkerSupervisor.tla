--------------------------- MODULE MCWorkerSupervisor ---------------------------
(* One destination whose configuration changes, with a slot for its worker and  *)
(* one for the successor.  Create waits for a vacant slot, so two workers of a   *)
(* key at a time are all the hazards need.                                       *)
EXTENDS WorkerSupervisor
===============================================================================
