------------------------------ MODULE MCTelemetry ------------------------------
(* Two sessions and three bytes, so that a session can overtake the counter of *)
(* the one before, stay below it, or end between two lists; every wait takes a  *)
(* tick, so that a list can be as old as it gets and still be in use.           *)
EXTENDS Telemetry
===============================================================================
