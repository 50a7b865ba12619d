------------------------------- MODULE MCTraffic -------------------------------
(* Two months, two boots and a counter that reaches four: a counter can stand   *)
(* below, at and above its last value on either side of each change.            *)
EXTENDS Traffic
===============================================================================
