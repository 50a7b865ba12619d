----------------------------- MODULE MCStateStore -----------------------------
(* Two generations, two contents, three instants, two PIDs. *)
EXTENDS StateStore

MCGenerations == {0, 1}
===============================================================================
