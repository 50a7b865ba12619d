---------------------------- MODULE WorkerSupervisor ----------------------------
(***************************************************************************)
(* relay_agent/worker.py WorkerSupervisor with the life of its workers,    *)
(* between the path loop (reconcile) and the main thread (stop_all), as    *)
(* relay_agent/service.py runs them.  A worker is one DestinationWorker    *)
(* object: a thread and at most one FFmpeg process at a time.  An object   *)
(* occupies a slot from its creation until its thread has ended and nobody *)
(* refers to it, so that the number of workers over time is unbounded.     *)
(***************************************************************************)
EXTENDS Naturals, FiniteSets

CONSTANTS
    None,       \* no worker, no configuration
    Keys,       \* (stream, destination) pairs
    Configs,    \* fingerprints a destination's configuration can have
    Slots       \* bound: worker objects that exist at one time

ASSUME FiniteAssumption == IsFiniteSet(Keys) /\ IsFiniteSet(Slots)

Worker == [key : Keys, config : Configs, stop : BOOLEAN, ffmpeg : BOOLEAN,
           thread : {"unstarted", "pausing", "spawning", "running", "reaping", "ended"}]

ASSUME NoneAssumption == None \notin Slots \cup Configs \cup Worker

Callers == {"paths", "main"}

VARIABLES
    workers,    \* slot -> worker object
    registry,   \* _workers: key -> worker
    wanted,     \* desired of the reconcile in progress or last completed
    path,       \* path loop: waiting, polling, stopping, creating, starting, ended
    main,       \* main thread: serving, stopping, joining, stopped, raised
    victims,    \* per caller: workers it still has to stop
    joining,    \* per caller: the worker whose thread it is joining
    starts,     \* to_start
    stopEvent,  \* Runtime.stop_event
    hung        \* history: a worker's thread outlasted the seven seconds of stop()

\* The life of the worker in a slot.
Life(s) == INSTANCE WorkerLife WITH w <- workers[s]

vars == <<workers, registry, wanted, path, main, victims, joining, starts, stopEvent, hung>>
callVars == <<victims, joining>>

Init ==
    /\ workers = [s \in Slots |-> None]
    /\ registry = [k \in Keys |-> None]
    /\ wanted = [k \in Keys |-> None]
    /\ path = "waiting"
    /\ main = "serving"
    /\ victims = [c \in Callers |-> {}]
    /\ joining = [c \in Callers |-> None]
    /\ starts = {}
    /\ stopEvent = FALSE
    /\ hung = FALSE

Exists(s) == workers[s] # None
Registered == {s \in Slots : \E k \in Keys : registry[k] = s}

\* The main thread returns or raises: the process ends and every thread, all of
\* them daemons, with it.  FFmpeg runs in a session of its own and lives on until
\* systemd kills what is left of the unit.
Exit(outcome) ==
    /\ main' = outcome
    /\ path' = "ended"
    /\ starts' = {}
    /\ victims' = [c \in Callers |-> {}]
    /\ joining' = [c \in Callers |-> None]
    /\ workers' = [s \in Slots |->
          IF Exists(s) THEN Life(s)!Ended ELSE None]
    /\ UNCHANGED <<registry, wanted, stopEvent, hung>>

-------------------------------------------------------------------------------
\* The path loop tests stop_event only here; list_active_paths follows.
PollPaths ==
    /\ path = "waiting"
    /\ path' = IF stopEvent THEN "ended" ELSE "polling"
    /\ UNCHANGED <<workers, registry, wanted, main, callVars, starts, stopEvent, hung>>

\* MediaMTXError, or no desired state yet.
PollFails ==
    /\ path = "polling"
    /\ path' = "waiting"
    /\ UNCHANGED <<workers, registry, wanted, main, callVars, starts, stopEvent, hung>>

\* Mutant: a changed configuration does not replace the worker.
ObsoleteByKey(desired) == {k \in Keys : registry[k] # None /\ desired[k] = None}

\* A registered worker stays only for the same fingerprint.
Obsolete(desired) ==
    {k \in Keys : registry[k] # None /\ desired[k] # workers[registry[k]].config}

\* First half of reconcile: workers of ready, enabled destinations stay, the
\* others leave the registry under the lock and are stopped outside it.
Collect(desired) ==
    LET obsolete == Obsolete(desired)
    IN  /\ path = "polling"
        /\ wanted' = desired
        /\ victims' = [victims EXCEPT !["paths"] = {registry[k] : k \in obsolete}]
        /\ registry' = [k \in Keys |-> IF k \in obsolete THEN None ELSE registry[k]]
        /\ path' = "stopping"
        /\ UNCHANGED <<workers, main, joining, starts, stopEvent, hung>>

\* Mutant: the joins are left out.
AllSignalled(c) == victims[c] = {}

AllStopped(c) == victims[c] = {} /\ joining[c] = None

\* Second half: create and publish what is missing, under the lock again.
Missing == {k \in Keys : wanted[k] # None /\ registry[k] = None}

Referenced == Registered \cup starts \cup victims["paths"] \cup victims["main"]
                \cup {s \in Slots : \E c \in Callers : joining[c] = s}

Vacant == {s \in Slots : ~Exists(s)}

Create ==
    /\ path = "stopping" /\ AllStopped("paths")
    /\ Cardinality(Missing) <= Cardinality(Vacant)
    /\ LET at == CHOOSE f \in [Missing -> Vacant] :
                     \A k, l \in Missing : f[k] = f[l] => k = l
           new(s) == {k \in Missing : at[k] = s}
       IN  /\ workers' = [s \in Slots |->
                 IF new(s) = {} THEN workers[s]
                 ELSE LET k == CHOOSE k \in new(s) : TRUE
                      IN  [key |-> k, config |-> wanted[k], stop |-> FALSE,
                           thread |-> "unstarted", ffmpeg |-> FALSE]]
           /\ registry' = [k \in Keys |-> IF k \in Missing THEN at[k] ELSE registry[k]]
           /\ starts' = {at[k] : k \in Missing}
    /\ path' = "starting"
    /\ UNCHANGED <<wanted, main, callVars, stopEvent, hung>>

\* Mutant: the list of workers to start is not consumed.
StartAgain(s) ==
    /\ path = "starting"
    /\ s \in starts
    /\ workers' = [workers EXCEPT ![s] = Life(s)!Started]
    /\ UNCHANGED <<registry, wanted, path, main, callVars, starts, stopEvent, hung>>

\* worker.start() outside the lock.
StartWorker(s) ==
    /\ path = "starting"
    /\ s \in starts
    /\ starts' = starts \ {s}
    /\ workers' = [workers EXCEPT ![s] = Life(s)!Started]
    /\ UNCHANGED <<registry, wanted, path, main, callVars, stopEvent, hung>>

ReconcileDone ==
    /\ path = "starting" /\ starts = {}
    /\ path' = "waiting"
    /\ UNCHANGED <<workers, registry, wanted, main, callVars, starts, stopEvent, hung>>

-------------------------------------------------------------------------------
\* Mutant: the process is signalled, the event is not set.
SignalOnly(c, s) ==
    /\ s \in victims[c] /\ joining[c] = None
    /\ victims' = [victims EXCEPT ![c] = @ \ {s}]
    /\ joining' = [joining EXCEPT ![c] = s]
    /\ workers' = [workers EXCEPT ![s] = Life(s)!Gone]
    /\ UNCHANGED <<registry, wanted, path, main, starts, stopEvent, hung>>

\* DestinationWorker.stop sets the event.  The signals it sends to a process it knows
\* are those the thread sends as well: FFmpeg is gone by a move of its own.
StopWorker(c, s) ==
    /\ s \in victims[c] /\ joining[c] = None
    /\ victims' = [victims EXCEPT ![c] = @ \ {s}]
    /\ joining' = [joining EXCEPT ![c] = s]
    /\ workers' = [workers EXCEPT ![s] = Life(s)!Told]
    /\ UNCHANGED <<registry, wanted, path, main, starts, stopEvent, hung>>

\* thread.join returns: the thread has ended, or seven seconds are over (bound: once).
Joined(c) ==
    /\ joining[c] # None
    /\ \/ workers[joining[c]].thread = "ended"
       \/ ~hung /\ workers[joining[c]].thread # "unstarted"
    /\ joining' = [joining EXCEPT ![c] = None]
    /\ hung' = (hung \/ workers[joining[c]].thread # "ended")
    /\ UNCHANGED <<workers, registry, wanted, path, main, victims, starts, stopEvent>>

\* join of a thread that was never started raises RuntimeError out of stop_all.
JoinRaises ==
    /\ joining["main"] # None
    /\ workers[joining["main"]].thread = "unstarted"
    /\ Exit("raised")

\* SIGTERM sets stop_event.
Terminate ==
    /\ ~stopEvent
    /\ stopEvent' = TRUE
    /\ UNCHANGED <<workers, registry, wanted, path, main, callVars, starts, hung>>

\* Runtime.stop: stop_all copies and clears the registry, then stops each worker.
StopAll ==
    /\ main = "serving" /\ stopEvent
    /\ main' = "stopping"
    /\ victims' = [victims EXCEPT !["main"] = Registered]
    /\ registry' = [k \in Keys |-> None]
    /\ UNCHANGED <<workers, wanted, path, joining, starts, stopEvent, hung>>

\* Mutant: shutdown waits until no worker is left.
JoinWhenNoneLeft ==
    /\ main = "stopping" /\ AllStopped("main")
    /\ \A s \in Slots : Exists(s) => workers[s].thread = "ended"
    /\ main' = "joining"
    /\ UNCHANGED <<workers, registry, wanted, path, callVars, starts, stopEvent, hung>>

JoinLoops ==
    /\ main = "stopping" /\ AllStopped("main")
    /\ main' = "joining"
    /\ UNCHANGED <<workers, registry, wanted, path, callVars, starts, stopEvent, hung>>

\* join(timeout=10) of the path loop, which may be longer at it, then "relay agent
\* stopped".
Stopped ==
    /\ main = "joining"
    /\ Exit("stopped")

-------------------------------------------------------------------------------
\* A worker moves by itself: its thread, or FFmpeg.
Moves(s, successors) ==
    /\ \E m \in successors : workers' = [workers EXCEPT ![s] = m]
    /\ UNCHANGED <<registry, wanted, path, main, callVars, starts, stopEvent, hung>>

WorkerThread(s) == Exists(s) /\ Moves(s, Life(s)!ThreadMoves)
FFmpeg(s) == Exists(s) /\ Moves(s, Life(s)!FFmpegMoves)

\* The object is garbage: its slot can be used again.
Forget(s) ==
    /\ Exists(s) /\ workers[s].thread = "ended" /\ ~workers[s].ffmpeg /\ s \notin Referenced
    /\ workers' = [workers EXCEPT ![s] = None]
    /\ UNCHANGED <<registry, wanted, path, main, callVars, starts, stopEvent, hung>>

PathStep ==
    \/ PollPaths \/ PollFails \/ Create \/ ReconcileDone
    \/ \E desired \in [Keys -> Configs \cup {None}] : Collect(desired)
    \/ \E s \in Slots : StartWorker(s) \/ StopWorker("paths", s)
    \/ Joined("paths")

MainStep ==
    \/ StopAll \/ JoinLoops \/ Stopped \/ JoinRaises
    \/ \E s \in Slots : StopWorker("main", s)
    \/ Joined("main")

Next ==
    \/ PathStep
    \/ MainStep
    \/ Terminate
    \/ \E s \in Slots : WorkerThread(s) \/ FFmpeg(s) \/ Forget(s)

Spec == Init /\ [][Next]_vars

\* Every thread runs; a worker thread ends its waits (all of them are timed), but a
\* healthy FFmpeg keeps it in the polling loop for as long as it likes.
Fairness ==
    /\ WF_vars(PathStep)
    /\ WF_vars(MainStep)
    /\ \A s \in Slots : WF_vars(WorkerThread(s)) /\ WF_vars(Forget(s))

FairSpec == Spec /\ Fairness

-------------------------------------------------------------------------------
\* Types of the supervisor's state, and: a worker that is being started is one
\* nobody has run yet (relay_agent/worker.py 72-102 and 394-407).
TypeOK ==
    /\ workers \in [Slots -> Worker \cup {None}]
    /\ registry \in [Keys -> Slots \cup {None}]
    /\ wanted \in [Keys -> Configs \cup {None}]
    /\ path \in {"waiting", "polling", "stopping", "starting", "ended"}
    /\ main \in {"serving", "stopping", "joining", "stopped", "raised"}
    /\ victims \in [Callers -> SUBSET Slots]
    /\ joining \in [Callers -> Slots \cup {None}]
    /\ starts \subseteq Slots
    /\ stopEvent \in BOOLEAN
    /\ hung \in BOOLEAN
    /\ \A s \in starts : Exists(s) /\ workers[s].thread = "unstarted"

\* Two processes never push the same stream to the same destination.
OneProcessPerKey ==
    \A s, t \in Slots :
        s # t /\ Exists(s) /\ Exists(t) /\ workers[s].key = workers[t].key
        => ~(workers[s].ffmpeg /\ workers[t].ffmpeg)

\* While the agent serves and no thread outlasted stop(): the replaced worker is
\* stopped before its successor is created (worker.py:1 and 390-405).
OneProcessWhileServing == ~stopEvent /\ ~hung => OneProcessPerKey

\* When a reconcile is over, the live workers are exactly those of the desired
\* destinations with their current configuration, and each is in the registry
\* (worker.py 376-407).
FanOutMatches ==
    path = "waiting" /\ ~stopEvent =>
        /\ \A k \in Keys :
              IF wanted[k] = None THEN registry[k] = None
              ELSE /\ registry[k] # None
                   /\ Exists(registry[k])
                   /\ workers[registry[k]].config = wanted[k]
                   /\ ~workers[registry[k]].stop
                   /\ workers[registry[k]].thread \notin {"unstarted", "ended"}
        /\ ~hung => \A s \in Slots : Exists(s) /\ s \notin Registered => ~workers[s].ffmpeg

\* A worker that left the registry ends its thread, one that outlasted stop() too
\* (worker.py 390-392 and 301-312); and Runtime.stop comes to an end, whatever the path
\* loop and the workers are doing (service.py 234-245; no lock is held while a worker is
\* joined).
StoppingEnds ==
    /\ \A s \in Slots :
          Exists(s) /\ s \notin Registered ~> ~Exists(s) \/ workers[s].thread = "ended"
    /\ stopEvent ~> main \in {"stopped", "raised"}
===============================================================================
