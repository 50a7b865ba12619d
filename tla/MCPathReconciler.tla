---------------------------- MODULE MCPathReconciler ----------------------------
(* Two paths, every subset of which can be desired: one path can be added,      *)
(* refused or deleted while the other one is still to be looked at.             *)
EXTENDS PathReconciler
===============================================================================
