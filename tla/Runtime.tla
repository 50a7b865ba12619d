--------------------------------- MODULE Runtime ---------------------------------
(***************************************************************************)
(* relay_agent/service.py Runtime: the state, path and telemetry loops and *)
(* the /healthz handler, which share the components by locks held for one  *)
(* field at a time.  Each place that takes a limit from a desired state    *)
(* (admission cap, supervisor cap, quota, applied revision) is represented *)
(* by the generation it took it from, 0 for the environment's defaults.    *)
(* The states are of schema 2, where the revision of the limits is the     *)
(* generation; a state of schema 1 sets the defaults and names no revision.*)
(* The desired state itself is the register of module DesiredStateRegister *)
(* reduced to generations; WorkerSupervisor, PathReconciler and Admission  *)
(* say what happens inside the calls that are one step here.               *)
(***************************************************************************)
EXTENDS Naturals, Sequences

CONSTANTS
    None,           \* not read yet
    Paths,          \* the paths live/<stream id>
    MaxGeneration   \* bound on the generations the manager issues

ASSUME GenerationAssumption == MaxGeneration \in Nat \ {0}

Generations == 0 .. MaxGeneration
ASSUME NoneAssumption == None \notin Generations

Limits == <<"admission", "supervisor", "quota", "revision">>
Places == {"admission", "supervisor", "quota", "revision"}
Observers == {"telemetry", "health"}

VARIABLES
    generation, \* of the desired state in memory, 0 before the first
    streams,    \* paths of its enabled streams
    applied,    \* place -> generation whose limit it holds
    toApply,    \* places _apply_limits has still to set
    stateLoop,  \* fetching, applying, reconciling, dead
    up,         \* external: MediaMTX answers
    publishing, \* external: its online publishers
    listing,    \* the list the path loop works on
    healthy,    \* _mediamtx_healthy
    snapshot,   \* the streams of the state the path loop read
    workers,    \* paths with workers
    pathLoop,   \* waiting, listed, snapshot, reconciling, dead
    observer,   \* the loop or handler whose reads are followed
    toRead,     \* what it has still to read
    view,       \* what it has read
    reported    \* history: the revision of the last report sent

stateVars == <<generation, streams, applied, toApply, stateLoop>>
pathVars == <<listing, healthy, snapshot, workers, pathLoop>>
externalVars == <<up, publishing>>
observerVars == <<observer, toRead, view, reported>>
vars == <<stateVars, externalVars, pathVars, observerVars>>

\* The order in which a report and a health answer collect their parts.  A report shows
\* the quota twice: with the traffic sample, taken first, and among the applied limits.
ReadOrder(o) ==
    IF o = "telemetry" THEN <<"sampledQuota", "revision", "admission", "generation", "quota">>
    ELSE <<"generation", "revision", "admission", "quota">>

Fields == {"sampledQuota", "generation", "revision", "admission", "quota"}
NothingRead == [f \in Fields |-> None]

Init ==
    /\ generation = 0 /\ streams = {}
    /\ applied = [p \in Places |-> 0]
    /\ toApply = <<>> /\ stateLoop = "fetching"
    /\ up \in BOOLEAN /\ publishing = {}
    /\ listing = {} /\ healthy = FALSE /\ snapshot = {} /\ workers = {}
    /\ pathLoop = "waiting"
    /\ observer = "telemetry" /\ toRead = <<>> /\ view = NothingRead
    /\ reported = 0

-------------------------------------------------------------------------------
\* fetch and accept_remote: the same generation again, or the next one.
Accept(g, S) ==
    /\ stateLoop = "fetching"
    /\ g \in {generation, generation + 1} /\ g \in 1 .. MaxGeneration
    /\ g = generation => S = streams
    /\ generation' = g /\ streams' = S
    /\ toApply' = Limits
    /\ stateLoop' = "applying"
    /\ UNCHANGED <<applied, externalVars, pathVars, observerVars>>

\* OSError from the cache write of accept_remote: nothing catches it.
AcceptFails ==
    /\ stateLoop = "fetching"
    /\ stateLoop' = "dead"
    /\ UNCHANGED <<generation, streams, applied, toApply, externalVars, pathVars,
                   observerVars>>

\* Mutant: the revision is published before the limits are in force.
ApplyRevisionFirst ==
    /\ stateLoop = "applying"
    /\ LET place == IF Len(toApply) = 4 THEN "revision"
                    ELSE IF Len(toApply) = 1 THEN "admission" ELSE Head(toApply)
       IN  applied' = [applied EXCEPT ![place] = generation]
    /\ toApply' = Tail(toApply)
    /\ stateLoop' = IF toApply' = <<>> THEN "reconciling" ELSE "applying"
    /\ UNCHANGED <<generation, streams, externalVars, pathVars, observerVars>>

\* _apply_limits, one lock after the other; the revision comes last.
ApplyNextLimit ==
    /\ stateLoop = "applying"
    /\ applied' = [applied EXCEPT ![Head(toApply)] = generation]
    /\ toApply' = Tail(toApply)
    /\ stateLoop' = IF toApply' = <<>> THEN "reconciling" ELSE "applying"
    /\ UNCHANGED <<generation, streams, externalVars, pathVars, observerVars>>

\* path_reconciler.reconcile: done or MediaMTXError, or an uncaught lost answer.
ReconcileState(outcome) ==
    /\ stateLoop = "reconciling"
    /\ stateLoop' = outcome
    /\ UNCHANGED <<generation, streams, applied, toApply, externalVars, pathVars,
                   observerVars>>

-------------------------------------------------------------------------------
\* list_active_paths answers.
ListPaths ==
    /\ pathLoop = "waiting"
    /\ up
    /\ listing' = publishing
    /\ pathLoop' = "listed"
    /\ UNCHANGED <<stateVars, externalVars, healthy, snapshot, workers, observerVars>>

\* MediaMTXError: unhealthy, and the workers are left to themselves.
ListFails ==
    /\ pathLoop = "waiting"
    /\ healthy' = FALSE
    /\ UNCHANGED <<stateVars, externalVars, listing, snapshot, workers, pathLoop,
                   observerVars>>

\* TimeoutError or RemoteDisconnected while the answer is read is not wrapped in
\* MediaMTXError: the thread ends.
ListLost ==
    /\ pathLoop = "waiting"
    /\ pathLoop' = "dead"
    /\ UNCHANGED <<stateVars, externalVars, listing, healthy, snapshot, workers,
                   observerVars>>

\* _paths and _mediamtx_healthy, then the ready set; the snapshot is read.
UsePaths ==
    /\ pathLoop = "listed"
    /\ healthy' = TRUE
    /\ snapshot' = streams
    /\ pathLoop' = IF generation = 0 THEN "waiting" ELSE "snapshot"
    /\ UNCHANGED <<stateVars, externalVars, listing, workers, observerVars>>

\* Mutant: workers are only ever added.
ReconcileAdding ==
    /\ pathLoop = "snapshot"
    /\ workers' = workers \cup (listing \cap snapshot)
    /\ pathLoop' = "reconciling"
    /\ UNCHANGED <<stateVars, externalVars, listing, healthy, snapshot, observerVars>>

\* supervisor.reconcile: workers for listed, enabled streams and for no others.
ReconcileWorkers ==
    /\ pathLoop = "snapshot"
    /\ workers' = listing \cap snapshot
    /\ pathLoop' = "reconciling"
    /\ UNCHANGED <<stateVars, externalVars, listing, healthy, snapshot, observerVars>>

\* Every 30 seconds path_reconciler.reconcile; its MediaMTXError is caught.
ReassertPaths(outcome) ==
    /\ pathLoop = "reconciling"
    /\ pathLoop' = outcome
    /\ UNCHANGED <<stateVars, externalVars, listing, healthy, snapshot, workers,
                   observerVars>>

-------------------------------------------------------------------------------
Shown(f) ==
    CASE f = "generation" -> generation
      [] f = "sampledQuota" -> applied["quota"]
      [] OTHER -> applied[f]

\* A telemetry period or a GET /healthz begins.  The two only read, so it is enough
\* to follow one of them at a time.
BeginView(o) ==
    /\ view = NothingRead
    /\ toRead = <<>>
    /\ observer' = o
    /\ toRead' = ReadOrder(o)
    /\ UNCHANGED <<stateVars, externalVars, pathVars, view, reported>>

\* The next part is read under the lock of its owner.
ReadNext ==
    /\ toRead # <<>>
    /\ view' = [view EXCEPT ![Head(toRead)] = Shown(Head(toRead))]
    /\ toRead' = Tail(toRead)
    /\ UNCHANGED <<stateVars, externalVars, pathVars, observer, reported>>

\* The report or the answer is sent, or its delivery fails.
SendView ==
    /\ toRead = <<>>
    /\ view # NothingRead
    /\ view' = NothingRead
    /\ reported' = IF observer = "telemetry" THEN view["revision"] ELSE reported
    /\ UNCHANGED <<stateVars, externalVars, pathVars, observer, toRead>>

-------------------------------------------------------------------------------
\* What a new process starts from: nothing but the cached state.
Restarted(limits) ==
    /\ applied' = limits
    /\ toApply' = <<>> /\ stateLoop' = "fetching"
    /\ listing' = {} /\ healthy' = FALSE /\ snapshot' = {} /\ workers' = {}
    /\ pathLoop' = "waiting"
    /\ toRead' = <<>> /\ view' = NothingRead
    /\ UNCHANGED <<generation, streams, externalVars, observer, reported>>

\* Mutant: the limits wait for the first answer of the manager.
RestartUnapplied == Restarted([p \in Places |-> 0])

\* load_cache (StateStore keeps the generation) and _apply_limits before any thread.
Restart == Restarted([p \in Places |-> generation])

\* External: MediaMTX and its publishers.
MediaMTXStops ==
    /\ up
    /\ up' = FALSE /\ publishing' = {}
    /\ UNCHANGED <<stateVars, pathVars, observerVars>>

MediaMTXStarts ==
    /\ ~up
    /\ up' = TRUE
    /\ UNCHANGED <<publishing, stateVars, pathVars, observerVars>>

PublishersChange(S) ==
    /\ up /\ publishing' = S
    /\ UNCHANGED <<up, stateVars, pathVars, observerVars>>

StateStep ==
    \/ \E g \in Generations, S \in SUBSET Paths : Accept(g, S)
    \/ ApplyNextLimit
    \/ ReconcileState("fetching")

PathStep == UsePaths \/ ReconcileWorkers \/ ReassertPaths("waiting")

Next ==
    \/ StateStep \/ AcceptFails \/ ReconcileState("dead")
    \/ ListPaths \/ ListFails \/ ListLost \/ PathStep \/ ReassertPaths("dead")
    \/ \E o \in Observers : BeginView(o)
    \/ ReadNext \/ SendView
    \/ Restart
    \/ MediaMTXStops \/ MediaMTXStarts
    \/ \E S \in SUBSET Paths : PublishersChange(S)

Spec == Init /\ [][Next]_vars

\* The loops run; a list that can be had again and again is had some day, and a
\* MediaMTX that stays down fails a list.
Fairness ==
    /\ WF_vars(ApplyNextLimit)
    /\ WF_vars(ReconcileState("fetching"))
    /\ WF_vars(PathStep)
    /\ SF_vars(ListPaths)
    /\ WF_vars(~up /\ ListFails)

FairSpec == Spec /\ Fairness

-------------------------------------------------------------------------------
\* Types, and the order of _apply_limits: a place is never behind the next one
\* (service.py 99-105).
TypeOK ==
    /\ generation \in Generations /\ streams \subseteq Paths
    /\ applied \in [Places -> Generations]
    /\ stateLoop \in {"fetching", "applying", "reconciling", "dead"}
    /\ toApply # <<>> <=> stateLoop = "applying"
    /\ up \in BOOLEAN /\ publishing \subseteq Paths /\ healthy \in BOOLEAN
    /\ {listing, snapshot, workers} \subseteq SUBSET Paths
    /\ pathLoop \in {"waiting", "listed", "snapshot", "reconciling", "dead"}
    /\ observer \in Observers
    /\ view \in [Fields -> Generations \cup {None}]
    /\ reported \in Generations
    /\ \A i \in 1 .. Len(Limits) - 1 : applied[Limits[i + 1]] <= applied[Limits[i]]
    /\ applied["admission"] <= generation

Read(f) == view[f] # None

\* Once the manager sees a revision in a report or in /healthz, the applied cap and the
\* applied quota beside it are those of that revision or of a later one, although every
\* part is read under another lock (service.py 66-84, 86-105 and 168-192); a report also
\* names a generation that is not older.  The quota of its traffic figures is read before
\* the revision (service.py:171, traffic.py:154, telemetry.py:229): it can be older than
\* the revision beside it, but not than the revision of the report before.
ViewsAreConsistent ==
    /\ Read("revision") =>
        /\ \A f \in {"admission", "quota"} : Read(f) => view[f] >= view["revision"]
        /\ observer = "telemetry" /\ Read("generation")
              => view["generation"] >= view["revision"]
    /\ Read("sampledQuota") => view["sampledQuota"] >= reported

\* Every step leaves them so, and the revisions of the reports never go back, not even over
\* a restart: the limits of the cached state are in force before the loops start
\* (service.py 197-231).
ReportsAreConsistent == [][ViewsAreConsistent' /\ reported' >= reported]_vars

\* While MediaMTX answers again and again: the workers of a publisher that is gone for
\* good, and of a stream that is disabled for good, end (service.py:140-141
\* "supervisor cleanup happens when their publishers disappear").
CleanupHappens ==
    []<>up =>
        \A p \in Paths :
            /\ <>[](p \notin publishing) => <>[](p \notin workers)
            /\ <>[](p \notin streams) => <>[](p \notin workers)

\* A loop does its work as long as no exception ended it.  The path loop cleans up and
\* reports a MediaMTX that is gone for good as unhealthy (service.py 137-149).  The state
\* loop brings what it accepted into force and asks for the next state, again and again
\* (service.py 107-129).
LoopsKeepUp ==
    /\ [](pathLoop # "dead") => CleanupHappens /\ (<>[]~up => <>[]~healthy)
    /\ [](stateLoop # "dead") => []<>(stateLoop = "fetching" /\ applied["revision"] = generation)
===============================================================================
