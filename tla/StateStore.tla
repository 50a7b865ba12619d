------------------------------ MODULE StateStore ------------------------------
(***************************************************************************)
(* relay_agent/state_store.py StateStore, driven by the state loop of      *)
(* relay_agent/service.py: fetch an envelope, validate and compare it,     *)
(* write it to the signed cache, only then publish it to the readers.      *)
(* The process can be killed and the machine can lose power between any    *)
(* two steps; the disk can refuse a write; PIDs are reused.                *)
(* Only the state loop calls accept_remote and load_cache runs before the  *)
(* threads start, so the store's lock protects readers only: they see mem, *)
(* never an envelope that is still being written.                          *)
(***************************************************************************)
EXTENDS Envelopes

CONSTANT Pids       \* process identifiers the kernel hands out

INSTANCE AtomicFile

VARIABLES
    now,        \* the wall clock
    file,       \* cache_path (an AtomicFile record)
    mem,        \* _state and _envelope of the running process
    error,      \* last_error: none, stale (cache served after expiry), failed
    pc,         \* where the state loop stands; "down" without a process
    hand,       \* the envelope accept_remote is working on
    pid,        \* os.getpid()
    served,     \* history: the last state any reader could see
    trust       \* history: whether what was served is safe (see below)

vars == <<now, file, mem, error, pc, hand, pid, served, trust>>

\* "durable": a power loss changes nothing; "volatile": a process serves a cache
\* whose rename another process did not live to sync; "lost": such a rename was
\* put to the test of a power loss, or the wall clock was set back.
Trusted == trust # "lost"

Working == {"fetched", "temp", "renamed", "synced"}

Init ==
    /\ now = 0
    /\ file = EmptyFile
    /\ mem = None
    /\ error = "none"
    /\ pc = "down"
    /\ hand = None
    /\ pid \in Pids
    /\ served = None
    /\ trust = "durable"

-------------------------------------------------------------------------------
\* Runtime.start: load_cache, an invalid cache is logged and ignored.
Start(p) ==
    LET cached == file.visible
        usable == cached # None /\ CacheUsable(cached, now)
    IN  /\ pc = "down"
        /\ pc' = "idle"
        /\ pid' = p
        /\ mem' = IF usable THEN cached ELSE None
        /\ served' = IF usable THEN cached ELSE served
        /\ error' = IF usable /\ cached.expires <= now THEN "stale" ELSE "none"
        /\ trust' = IF ~Trusted THEN "lost"
                    ELSE IF cached # file.durable THEN "volatile" ELSE "durable"
        /\ UNCHANGED <<now, file, hand>>

\* manager.fetch returned an envelope; anything may come back.
Fetch(e) ==
    /\ pc = "idle"
    /\ pc' = "fetched"
    /\ hand' = e
    /\ UNCHANGED <<now, file, mem, error, pid, served, trust>>

\* StateFetchError, then mark_error.
FetchFails ==
    /\ pc = "idle"
    /\ error' = "failed"
    /\ UNCHANGED <<now, file, mem, pc, hand, pid, served, trust>>

\* Mutants: no comparison with the state held; only generations are compared.
AcceptableUncompared(e) == RemoteValid(e, now)

AcceptableByGeneration(e) == RemoteValid(e, now) /\ (mem # None => e.gen >= mem.gen)

\* What accept_remote lets pass: valid now and not behind what is held.
Acceptable(e) == RemoteValid(e, now) /\ AtLeast(e, mem)

\* StateValidationError, then mark_error.
Refuse ==
    /\ pc = "fetched"
    /\ ~Acceptable(hand)
    /\ error' = "failed"
    /\ pc' = "idle"
    /\ hand' = None
    /\ UNCHANGED <<now, file, mem, pid, served, trust>>

\* Exact replay: success without a write.
Replay ==
    /\ pc = "fetched"
    /\ Acceptable(hand)
    /\ hand = mem
    /\ error' = "none"
    /\ pc' = "idle"
    /\ hand' = None
    /\ UNCHANGED <<now, file, mem, pid, served, trust>>

CreateTemp ==
    /\ pc = "fetched"
    /\ Acceptable(hand)
    /\ hand # mem
    /\ CanCreateTemp(file, pid)
    /\ file' = TempCreated(file, pid)
    /\ pc' = "temp"
    /\ UNCHANGED <<now, mem, error, hand, pid, served, trust>>

\* FileExistsError: raised before the try, so the foreign temporary file stays.
\* It is an OSError, which the state loop does not catch: the thread ends.
CreateTempFails ==
    /\ pc = "fetched"
    /\ Acceptable(hand)
    /\ hand # mem
    /\ ~CanCreateTemp(file, pid)
    /\ pc' = "dead"
    /\ hand' = None
    /\ UNCHANGED <<now, file, mem, error, pid, served, trust>>

Rename ==
    /\ pc = "temp"
    /\ file' = Renamed(file, pid, hand)
    /\ pc' = "renamed"
    /\ UNCHANGED <<now, mem, error, hand, pid, served, trust>>

SyncDirectory ==
    /\ pc = "renamed"
    /\ file' = DirectorySynced(file)
    /\ pc' = "synced"
    /\ trust' = IF Trusted THEN "durable" ELSE "lost"
    /\ UNCHANGED <<now, mem, error, hand, pid, served>>

\* write, fsync, rename, chmod or the directory fsync raises OSError; the
\* finally clause unlinks the temporary file and the thread ends.
WriteFails ==
    /\ pc \in {"temp", "renamed"}
    /\ file' = TempUnlinked(file, pid)
    /\ pc' = "dead"
    /\ hand' = None
    /\ UNCHANGED <<now, mem, error, pid, served, trust>>

\* Mutant: memory is assigned before the cache is written.
PublishBeforeWrite ==
    /\ pc \in {"temp", "synced"} /\ mem # hand
    /\ mem' = hand
    /\ served' = hand
    /\ UNCHANGED <<now, file, error, pc, hand, pid, trust>>

\* The file is written: _state, _envelope and last_error change under the lock.
Publish ==
    /\ pc = "synced"
    /\ mem' = hand
    /\ served' = hand
    /\ error' = "none"
    /\ pc' = "idle"
    /\ hand' = None
    /\ UNCHANGED <<now, file, pid, trust>>

-------------------------------------------------------------------------------
\* The process ends (SIGKILL, or the main thread returns while the state loop,
\* a daemon thread, is in the middle of a step): memory is gone, files stay.
Kill ==
    /\ pc # "down"
    /\ pc' = "down"
    /\ mem' = None
    /\ hand' = None
    /\ error' = "none"
    /\ UNCHANGED <<now, file, pid, served, trust>>

\* The machine loses power: a rename that was not synced may be undone.
PowerLoss ==
    /\ pc # "down"
    /\ file' \in AfterPowerLoss(file)
    /\ trust' = IF trust = "durable" THEN "durable" ELSE "lost"
    /\ pc' = "down"
    /\ mem' = None
    /\ hand' = None
    /\ error' = "none"
    /\ UNCHANGED <<now, pid, served>>

Tick ==
    /\ now < MaxTime
    /\ now' = now + 1
    /\ UNCHANGED <<file, mem, error, pc, hand, pid, served, trust>>

\* datetime.now() is a wall clock: it may be set back.
ClockStepsBack ==
    /\ now > 0
    /\ now' = now - 1
    /\ trust' = "lost"
    /\ UNCHANGED <<file, mem, error, pc, hand, pid, served>>

Next ==
    \/ \E p \in Pids : Start(p)
    \/ \E e \in Envelope : Fetch(e)
    \/ FetchFails
    \/ Refuse
    \/ Replay
    \/ CreateTemp
    \/ CreateTempFails
    \/ Rename
    \/ SyncDirectory
    \/ WriteFails
    \/ Publish
    \/ Kill
    \/ PowerLoss
    \/ Tick
    \/ ClockStepsBack

Spec == Init /\ [][Next]_vars

-------------------------------------------------------------------------------
\* Types, and which variables hold something in which phase of the loop
\* (relay_agent/state_store.py StateStore fields).
TypeOK ==
    /\ now \in Times
    /\ file \in FileOf(Envelope, Pids)
    /\ mem \in Envelope \cup {None}
    /\ error \in {"none", "stale", "failed"}
    /\ pc \in {"down", "idle", "dead"} \cup Working
    /\ hand \in Envelope \cup {None}
    /\ pid \in Pids
    /\ served \in Envelope \cup {None}
    /\ trust \in {"durable", "volatile", "lost"}
    /\ hand # None <=> pc \in Working
    /\ pc = "down" => mem = None

\* A state a reader has seen is never lost or overtaken by an older one on disk:
\* what survives the next fault is at least what was served
\* (relay_agent/state_store.py 217-228, the cache is written before memory).
Surviving == IF trust = "durable" THEN {file.visible, file.durable} ELSE {file.visible}

ServedIsOnDisk ==
    Trusted /\ served # None => \A e \in Surviving : e # None /\ AtLeast(e, served)

\* The state readers see only moves forward: a higher generation, or the same
\* generation with the same content and later instants; no restart undoes it
\* (relay_agent/state_store.py 196-214 refuses rollback and equivocation).
NoRollback == [][served' # served /\ Trusted' => AtLeast(served', served)]_served

\* Once the relay has had a desired state, every later run of the agent has one
\* from its first step, however stale (load_cache allows an expired envelope).
StaysAvailable == Trusted /\ pc # "down" /\ served # None => mem # None

\* While one process runs, its memory never goes back and is never lost, whatever
\* the clock and the disk do (accept_remote compares before it assigns).
NoRollbackInProcess ==
    [][pc # "down" /\ pc' # "down" /\ mem' # mem
       => mem' # None /\ AtLeast(mem', mem)]_<<mem, pc>>

\* The inductive invariant behind the properties above, part by part.
ReadersSeeMemory == mem # None => served = mem

Loadable(e) == e # None => CacheUsable(e, now)

DiskIsLoadable == Loadable(file.visible) /\ Loadable(file.durable)

\* The envelope being written passed the comparison with memory.
HandIsNext ==
    pc \in {"temp", "renamed", "synced"} => CacheUsable(hand, now) /\ AtLeast(hand, mem)

WriteProgress ==
    /\ pc \in {"renamed", "synced"} => file.visible = hand
    /\ pc = "synced" => file.durable = hand

StoreInvariant ==
    /\ TypeOK
    /\ Trusted =>
        /\ ReadersSeeMemory
        /\ StaysAvailable
        /\ ServedIsOnDisk
        /\ DiskIsLoadable
        /\ HandIsNext
        /\ WriteProgress

Register == INSTANCE DesiredStateRegister
                WITH value <- served, available <- mem # None, trusted <- Trusted

\* The store implements the forward-only register.
ImplementsRegister == Register!RegisterSpec
===============================================================================
