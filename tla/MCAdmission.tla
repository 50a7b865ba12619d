------------------------------ MODULE MCAdmission ------------------------------
(* Two publishers and a cap of one or two: the last free slot is contended and   *)
(* the cap can fall below what is in use.  A reservation outlives a connect and  *)
(* two polls, as twenty seconds do in the code.                                  *)
EXTENDS Admission

MCCaps == {1, 2}
===============================================================================
