-------------------------- MODULE MCDestinationWorker --------------------------
(* Three delays and times of a few ticks that keep the order of the real ones:  *)
(* grace < stall < reset, first delay < grace + 1.                              *)
EXTENDS DestinationWorker

MCBackoffs == <<1, 2, 3>>
===============================================================================
