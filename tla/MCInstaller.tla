------------------------------ MODULE MCInstaller ------------------------------
(* Two runs of the installer: the second one meets what a failed, killed or      *)
(* contained first one left.                                                     *)
EXTENDS Installer

\* Bound: what follows an excused step is not explored; three of the invariants claim
\* nothing there, and no excuse concerns the credentials or the releases.  Nor are
\* failures of both rollback scripts in one history.
Explored == ~excused /\ ~(unrestored /\ silent)
===============================================================================
