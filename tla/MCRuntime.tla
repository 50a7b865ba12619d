------------------------------- MODULE MCRuntime -------------------------------
(* One stream, three generations: a report can meet two changes of the limits. *)
EXTENDS Runtime
===============================================================================
