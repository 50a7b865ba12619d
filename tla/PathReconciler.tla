----------------------------- MODULE PathReconciler -----------------------------
(***************************************************************************)
(* relay_agent/mediamtx.py PathReconciler and its two callers in           *)
(* relay_agent/service.py: the state loop, which reconciles the state it   *)
(* has just accepted, and the path loop, which reasserts the snapshot it   *)
(* read before it got the reconciler's lock.  Each call to the MediaMTX    *)
(* Control API is a step of its own: it can be refused (MediaMTXError), or *)
(* its answer can be lost (TimeoutError, RemoteDisconnected: raised by     *)
(* urllib while it reads the answer, not wrapped, not caught by the loops).*)
(* The values of a path are reduced to whether they are the ones the agent *)
(* wants; the registry file is written atomically (module AtomicFile).     *)
(***************************************************************************)
EXTENDS Naturals

CONSTANT
    Paths       \* path names live/<stream id>

Callers == {"state", "path"}
Nobody == "nobody"

\* What the Control API knows of a path: nothing, the agent's current values,
\* values of an older agent release, or a configuration the operator made.
Configs == {"absent", "current", "outdated", "operator"}
Agents == {"current", "outdated"}

NoArg == [reconcile |-> "idle"]
ArgOf(S) == [reconcile |-> "pending", desired |-> S]
NoPath == [seen |-> "nothing"]

VARIABLES
    conf,       \* external: MediaMTX's path configuration, lost when it restarts
    snapshot,   \* enabled paths of the accepted desired state
    arg,        \* per caller: the desired state it wants to reconcile
    alive,      \* per caller: its thread runs
    holder,     \* who holds _lock
    phase,      \* of the holder: "desired" paths first, then "stale" ones
    todo,       \* paths of the phase not yet dealt with
    cur,        \* the path whose configuration was just read and must be changed
    managed,    \* _managed
    saved,      \* managed-paths.json
    unrecorded  \* history: a path was added and its record never reached the disk

vars == <<conf, snapshot, arg, alive, holder, phase, todo, cur, managed, saved, unrecorded>>
callerVars == <<snapshot, arg, alive>>
lockVars == <<holder, phase>>

Init ==
    /\ conf \in [Paths -> {"absent", "operator"}]
    /\ snapshot = {}
    /\ arg = [c \in Callers |-> NoArg]
    /\ alive = [c \in Callers |-> TRUE]
    /\ holder = Nobody
    /\ phase = "desired"
    /\ todo = {}
    /\ cur = NoPath
    /\ managed = {}
    /\ saved = {}
    /\ unrecorded = FALSE

-------------------------------------------------------------------------------
\* The state loop accepts a desired state (or the same one again).
AcceptState(S) ==
    /\ alive["state"]
    /\ arg["state"] = NoArg
    /\ snapshot' = S
    /\ arg' = [arg EXCEPT !["state"] = ArgOf(S)]
    /\ UNCHANGED <<conf, alive, lockVars, todo, cur, managed, saved, unrecorded>>

\* The path loop reads the snapshot; it has not got the lock yet.
ReadSnapshot ==
    /\ alive["path"]
    /\ arg["path"] = NoArg
    /\ arg' = [arg EXCEPT !["path"] = ArgOf(snapshot)]
    /\ UNCHANGED <<conf, snapshot, alive, lockVars, todo, cur, managed, saved,
                   unrecorded>>

Acquire(c) ==
    /\ holder = Nobody
    /\ arg[c] # NoArg
    /\ holder' = c
    /\ phase' = "desired"
    /\ todo' = arg[c].desired
    /\ UNCHANGED <<conf, callerVars, cur, managed, saved, unrecorded>>

\* The lock is released and the call returns or raises.
Leave ==
    /\ holder' = Nobody
    /\ arg' = [arg EXCEPT ![holder] = NoArg]
    /\ todo' = {}
    /\ cur' = NoPath
    /\ UNCHANGED <<phase, snapshot>>

\* get_path_config of a desired path: nothing to do when it is managed and current.
GetDesired(p) ==
    /\ holder # Nobody /\ phase = "desired" /\ cur = NoPath
    /\ p \in todo
    /\ IF conf[p] = "current" /\ p \in managed
       THEN todo' = todo \ {p} /\ cur' = NoPath
       ELSE cur' = [path |-> p, seen |-> conf[p]] /\ todo' = todo
    /\ UNCHANGED <<conf, callerVars, lockVars, managed, saved, unrecorded>>

Seen(what) == cur # NoPath /\ cur.seen \in what

\* Mutant: a path MediaMTX knows is patched, whoever made it.
PatchingAny == phase = "desired" /\ Seen(Configs \ {"absent"})

Adding == phase = "desired" /\ Seen({"absent"})
Patching == phase = "desired" /\ Seen(Configs \ {"absent"}) /\ cur.path \in managed
Deleting == phase = "stale" /\ Seen(Configs \ {"absent"})

\* add_path, then _managed.add; MediaMTX refuses a name it knows by now.
Add ==
    /\ Adding
    /\ conf[cur.path] = "absent"
    /\ conf' = [conf EXCEPT ![cur.path] = "current"]
    /\ managed' = managed \cup {cur.path}
    /\ todo' = todo \ {cur.path}
    /\ cur' = NoPath
    /\ UNCHANGED <<callerVars, lockVars, saved, unrecorded>>

Patch ==
    /\ Patching
    /\ conf[cur.path] # "absent"
    /\ conf' = [conf EXCEPT ![cur.path] = "current"]
    /\ todo' = todo \ {cur.path}
    /\ cur' = NoPath
    /\ UNCHANGED <<callerVars, lockVars, managed, saved, unrecorded>>

\* MediaMTXError "refusing to overwrite unmanaged MediaMTX path".
RefuseUnmanaged ==
    /\ phase = "desired" /\ Seen(Configs \ {"absent"})
    /\ cur.path \notin managed
    /\ Leave
    /\ UNCHANGED <<conf, alive, managed, saved, unrecorded>>

\* Mutant: stale paths are left alone.
TurnToNothing ==
    /\ holder # Nobody /\ phase = "desired" /\ todo = {} /\ cur = NoPath
    /\ phase' = "stale"
    /\ UNCHANGED <<conf, callerVars, holder, todo, cur, managed, saved, unrecorded>>

TurnToStale ==
    /\ holder # Nobody /\ phase = "desired" /\ todo = {} /\ cur = NoPath
    /\ phase' = "stale"
    /\ todo' = managed \ arg[holder].desired
    /\ UNCHANGED <<conf, callerVars, holder, cur, managed, saved, unrecorded>>

\* Mutant: the record goes before the path does.
ForgetStale(p) ==
    /\ holder # Nobody /\ phase = "stale" /\ cur = NoPath
    /\ p \in todo
    /\ managed' = managed \ {p}
    /\ IF conf[p] = "absent" THEN todo' = todo \ {p} /\ cur' = NoPath
       ELSE cur' = [path |-> p, seen |-> conf[p]] /\ UNCHANGED todo
    /\ UNCHANGED <<conf, callerVars, lockVars, saved, unrecorded>>

\* get_path_config of a stale path; a path MediaMTX lost is only forgotten.
GetStale(p) ==
    /\ holder # Nobody /\ phase = "stale" /\ cur = NoPath
    /\ p \in todo
    /\ IF conf[p] = "absent"
       THEN todo' = todo \ {p} /\ managed' = managed \ {p} /\ cur' = NoPath
       ELSE cur' = [path |-> p, seen |-> conf[p]] /\ UNCHANGED <<todo, managed>>
    /\ UNCHANGED <<conf, callerVars, lockVars, saved, unrecorded>>

Delete ==
    /\ Deleting
    /\ conf[cur.path] # "absent"
    /\ conf' = [conf EXCEPT ![cur.path] = "absent"]
    /\ managed' = managed \ {cur.path}
    /\ todo' = todo \ {cur.path}
    /\ cur' = NoPath
    /\ UNCHANGED <<callerVars, lockVars, saved, unrecorded>>

\* MediaMTX answers 4xx to a mutation that its present configuration rules out.
MutationRejected ==
    /\ \/ Adding /\ conf[cur.path] # "absent"
       \/ Patching /\ conf[cur.path] = "absent"
       \/ Deleting /\ conf[cur.path] = "absent"
    /\ Leave
    /\ UNCHANGED <<conf, alive, managed, saved, unrecorded>>

\* Mutant: the lock is not released.
SaveAndKeepLock ==
    /\ holder # Nobody /\ phase = "stale" /\ todo = {} /\ cur = NoPath
    /\ saved' = managed
    /\ arg' = [arg EXCEPT ![holder] = NoArg]
    /\ UNCHANGED <<conf, snapshot, alive, lockVars, todo, cur, managed, unrecorded>>

\* The only write of the registry, after every path.
SaveManaged ==
    /\ holder # Nobody /\ phase = "stale" /\ todo = {} /\ cur = NoPath
    /\ saved' = managed
    /\ Leave
    /\ UNCHANGED <<conf, alive, managed, unrecorded>>

-------------------------------------------------------------------------------
Calling == holder # Nobody /\ (todo # {} \/ cur # NoPath)

\* MediaMTXError from a call without effect: both loops catch it.
ApiRefused ==
    /\ Calling
    /\ Leave
    /\ UNCHANGED <<conf, alive, managed, saved, unrecorded>>

\* The answer is lost, before or after MediaMTX acted: the thread ends.
ApiLost ==
    /\ Calling
    /\ \/ UNCHANGED <<conf, unrecorded>>
       \/ /\ Adding /\ conf[cur.path] = "absent"
          /\ conf' = [conf EXCEPT ![cur.path] = "current"]
          /\ unrecorded' = TRUE
       \/ /\ Patching /\ conf[cur.path] # "absent"
          /\ conf' = [conf EXCEPT ![cur.path] = "current"]
          /\ UNCHANGED unrecorded
       \/ /\ Deleting
          /\ conf' = [conf EXCEPT ![cur.path] = "absent"]
          /\ UNCHANGED unrecorded
    /\ alive' = [alive EXCEPT ![holder] = FALSE]
    /\ Leave
    /\ UNCHANGED <<managed, saved>>

\* OSError from the registry write: not caught either.
SaveFails ==
    /\ holder # Nobody /\ phase = "stale" /\ todo = {} /\ cur = NoPath
    /\ alive' = [alive EXCEPT ![holder] = FALSE]
    /\ Leave
    /\ UNCHANGED <<conf, managed, saved, unrecorded>>

\* The agent is killed and started again, perhaps in another release, while
\* MediaMTX runs on: the registry is what the file says.
AgentRestart(upgraded) ==
    /\ managed' = saved
    /\ unrecorded' = (unrecorded \/ ~(managed \subseteq saved))
    /\ arg' = [c \in Callers |-> NoArg]
    /\ alive' = [c \in Callers |-> TRUE]
    /\ holder' = Nobody
    /\ phase' = "desired"
    /\ todo' = {}
    /\ cur' = NoPath
    /\ conf' = [p \in Paths |->
          IF upgraded /\ conf[p] = "current" THEN "outdated" ELSE conf[p]]
    /\ UNCHANGED <<snapshot, saved>>

\* MediaMTX restarts from mediamtx.yml: what the Control API added is gone.
MediaMTXRestart ==
    /\ conf' = [p \in Paths |-> IF conf[p] = "operator" THEN "operator" ELSE "absent"]
    /\ UNCHANGED <<callerVars, lockVars, todo, cur, managed, saved, unrecorded>>

\* External: the operator configures a path under any name that is free.  The agent's
\* record can still hold that name: nothing keeps the two apart.
OperatorAdds(p) ==
    /\ conf[p] = "absent"
    /\ conf' = [conf EXCEPT ![p] = "operator"]
    /\ UNCHANGED <<callerVars, lockVars, todo, cur, managed, saved, unrecorded>>

Step ==
    \/ \E p \in Paths : GetDesired(p) \/ GetStale(p)
    \/ Add \/ Patch \/ RefuseUnmanaged \/ TurnToStale \/ Delete \/ MutationRejected
    \/ SaveManaged

Next ==
    \/ \E S \in SUBSET Paths : AcceptState(S)
    \/ ReadSnapshot
    \/ \E c \in Callers : Acquire(c)
    \/ Step
    \/ ApiRefused \/ ApiLost \/ SaveFails
    \/ \E upgraded \in BOOLEAN : AgentRestart(upgraded)
    \/ MediaMTXRestart
    \/ \E p \in Paths : OperatorAdds(p)

Spec == Init /\ [][Next]_vars

\* Both loops come round again; a call that keeps being possible succeeds some day.
Fairness ==
    /\ WF_vars(ReadSnapshot)
    /\ \A c \in Callers : SF_vars(Acquire(c))
    /\ \A p \in Paths : SF_vars(GetDesired(p)) /\ SF_vars(GetStale(p))
    /\ \A p \in Paths : SF_vars(cur # NoPath /\ cur.path = p /\ (Add \/ Patch \/ Delete))
    /\ WF_vars(RefuseUnmanaged) /\ WF_vars(MutationRejected)
    /\ WF_vars(TurnToStale) /\ WF_vars(SaveManaged)

FairSpec == Spec /\ Fairness

-------------------------------------------------------------------------------
\* Types, and the lock: only its holder has a path in hand (mediamtx.py 120-178).
TypeOK ==
    /\ conf \in [Paths -> Configs]
    /\ snapshot \subseteq Paths
    /\ arg \in [Callers -> {NoArg} \cup {ArgOf(S) : S \in SUBSET Paths}]
    /\ alive \in [Callers -> BOOLEAN]
    /\ holder \in Callers \cup {Nobody}
    /\ phase \in {"desired", "stale"}
    /\ todo \subseteq Paths
    /\ cur \in {NoPath} \cup [path : Paths, seen : Configs]
    /\ managed \subseteq Paths
    /\ saved \subseteq Paths
    /\ unrecorded \in BOOLEAN
    /\ holder = Nobody => todo = {} /\ cur = NoPath
    /\ holder # Nobody => arg[holder] # NoArg

\* A path the operator configured under a name that is on no record, in memory or on
\* disk, is never changed or deleted by the agent, and its name never comes on record:
\* not through the lock, a lost answer, a failing write or a restart (mediamtx.py 164-177).
\* A path under a recorded name is patched or deleted, for all that mediamtx.py:170 says.
OperatorUntouched ==
    [][\A p \in Paths :
          conf[p] = "operator" /\ p \notin managed \cup saved =>
              conf'[p] = "operator" /\ p \notin managed' \cup saved']_<<conf, managed, saved>>

\* As long as no addition went unrecorded, the record in memory names all the agent
\* created, through refused calls, lost answers to other calls, restarts of either side,
\* failing writes and an operator who uses the same names (mediamtx.py 162-163, 173-177).
OwnershipIsKnown ==
    ~unrecorded => {p \in Paths : conf[p] \in Agents} \subseteq managed

\* The agent never takes a path it created itself for a foreign one (mediamtx.py
\* 164-171, where the refusal is for "Existing production configuration").
NeverRefusesItsOwn ==
    ~(phase = "desired" /\ Seen(Agents) /\ cur.path \notin managed)

\* Both loops live, no addition goes unrecorded, the operator configures none of the
\* names, and the agent is not restarted for ever.
Undisturbed ==
    /\ [](~unrecorded /\ \A c \in Callers : alive[c])
    /\ [](\A p \in Paths : conf[p] # "operator")
    /\ <>[][\A upgraded \in BOOLEAN : ~AgentRestart(upgraded)]_vars

\* Then a path that stays desired is configured again and again, and one that stays
\* undesired does not stay configured (service.py 115 and 151-157, mediamtx.py 150-177).
Converges ==
    Undisturbed =>
        \A p \in Paths :
            /\ <>[](p \in snapshot) => []<>(conf[p] = "current")
            /\ <>[](p \notin snapshot) => []<>(conf[p] = "absent")
===============================================================================
