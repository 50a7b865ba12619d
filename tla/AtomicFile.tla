------------------------------ MODULE AtomicFile ------------------------------
(***************************************************************************)
(* The effect of relay_agent/state_store.py _atomic_secret_json on the one *)
(* file it writes.  Every JSON file of the agent (signed cache, registry   *)
(* of managed paths) is written by it.  A file is a record:                *)
(*   visible - what a reader of the path sees (None: no such file);        *)
(*   durable - what the directory entry names after a power loss;          *)
(*   temps   - the PIDs whose temporary file .<name>.<PID>.tmp exists.     *)
(* The data itself is fsynced before the rename, so that a reader finds    *)
(* either the old or the new content and never a torn one.  Linux only:    *)
(* opening the parent directory (line 47) succeeds.                        *)
(***************************************************************************)
CONSTANT None        \* no content: the file does not exist

EmptyFile == [visible |-> None, durable |-> None, temps |-> {}]

FileOf(content, pids) ==
    [visible : content \cup {None}, durable : content \cup {None}, temps : SUBSET pids]

\* O_CREAT | O_EXCL: the open fails when a temporary file of the same PID exists.
CanCreateTemp(file, pid) == pid \notin file.temps

TempCreated(file, pid) == [file EXCEPT !.temps = @ \cup {pid}]

\* The finally clause: the temporary file goes whatever happened in the try.
TempUnlinked(file, pid) == [file EXCEPT !.temps = @ \ {pid}]

Renamed(file, pid, value) == [file EXCEPT !.visible = value, !.temps = @ \ {pid}]

DirectorySynced(file) == [file EXCEPT !.durable = file.visible]

\* A rename that was not synced may or may not have reached the disk.
AfterPowerLoss(file) ==
    { [file EXCEPT !.visible = v, !.durable = v] : v \in {file.visible, file.durable} }
===============================================================================
