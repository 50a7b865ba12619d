------------------------------ MODULE WorkerProofs ------------------------------
(***************************************************************************)
(* What relay_agent/worker.py guarantees for every number of destinations, *)
(* configurations and workers, every list of delays and all times.  The    *)
(* first part is about the supervisor: one process per destination while   *)
(* the agent serves, and the fan-out that was asked for.  The second is    *)
(* about one worker: when it kills, how it paces its restarts, how soon it *)
(* stops, and that it moves as the supervisor takes its workers to move.   *)
(***************************************************************************)
EXTENDS WorkerSupervisor, DestinationWorker, TLAPS, FunctionTheorems, FiniteSetTheorems,
        WellFoundedInduction

\* The workers a caller of stop() has still to stop, and the one it waits for.
Leaving(c) == victims[c] \cup {s \in Slots : joining[c] = s}

\* The process of the agent is over.
Exited == main \in {"stopped", "raised"}

\* The parts of TypeOK.
TypesOK ==
    /\ workers \in [Slots -> Worker \cup {None}]
    /\ registry \in [Keys -> Slots \cup {None}]
    /\ wanted \in [Keys -> Configs \cup {None}]
    /\ path \in {"waiting", "polling", "stopping", "starting", "ended"}
    /\ main \in {"serving", "stopping", "joining", "stopped", "raised"}
    /\ victims \in [Callers -> SUBSET Slots]
    /\ joining \in [Callers -> Slots \cup {None}]
    /\ starts \subseteq Slots
    /\ stopEvent \in BOOLEAN
    /\ hung \in BOOLEAN

\* Who is where when there are workers to start or to stop.
PhasesInOrder ==
    /\ starts # {} => path = "starting"
    /\ path # "stopping" => Leaving("paths") = {}
    /\ main = "serving" => Leaving("main") = {}
    /\ main # "serving" => stopEvent
    /\ Exited => path = "ended"

\* A worker in the registry is of its key, has the configuration wanted last and was not
\* told to stop.
RegistryIsCurrent ==
    \A k \in Keys : registry[k] # None =>
        /\ Exists(registry[k])
        /\ workers[registry[k]].key = k
        /\ workers[registry[k]].config = wanted[k]
        /\ ~workers[registry[k]].stop

\* A worker that is being stopped has left the registry, and its key gets no other as
\* long as the path loop is at it.
LeavingHasLeft ==
    /\ \A c \in Callers : \A s \in Leaving(c) : Exists(s) /\ s \notin Registered
    /\ \A s \in Leaving("paths") : registry[workers[s].key] = None
    /\ \A s, t \in Leaving("paths") : workers[s].key = workers[t].key => s = t

\* A worker is unstarted exactly as long as it is to be started, has FFmpeg only in its
\* loop, and ends only when it was told to, unless the process ended with it.
LivesInOrder ==
    /\ \A s \in starts : Exists(s)
    /\ \A s \in Slots : Exists(s) =>
          /\ workers[s].thread = "unstarted" <=> s \in starts
          /\ ~Exited /\ workers[s].ffmpeg => workers[s].thread \in {"running", "reaping"}
          /\ ~Exited /\ workers[s].thread = "ended" => workers[s].stop
          /\ Exited => workers[s].thread = "ended"

\* While the agent serves: nobody has lost sight of a worker that has not ended.
NobodyIsLost ==
    ~stopEvent /\ ~hung =>
        \A s \in Slots :
            Exists(s) => s \in Registered \cup Leaving("paths") \/ workers[s].thread = "ended"

\* ... and outside a reconcile every wanted destination has its worker.
NobodyIsMissing ==
    ~stopEvent /\ path # "stopping" => \A k \in Keys : wanted[k] # None => registry[k] # None

SupervisorInv ==
    /\ TypesOK /\ PhasesInOrder /\ RegistryIsCurrent /\ LeavingHasLeft /\ LivesInOrder
    /\ NobodyIsLost /\ NobodyIsMissing

\* What a move of a worker leaves alone and brings about.
Lives(w, m) ==
    /\ m \in Worker
    /\ m.key = w.key /\ m.config = w.config /\ m.stop = w.stop
    /\ m.thread = "unstarted" <=> w.thread = "unstarted"
    /\ w.thread = "ended" => m.thread = "ended"
    /\ m.thread = "ended" => w.thread = "ended" \/ (m.stop /\ ~m.ffmpeg)
    /\ m.ffmpeg => w.ffmpeg \/ m.thread = "running"
    /\ w.ffmpeg /\ m.ffmpeg /\ w.thread \in {"running", "reaping"} => m.thread \in {"running", "reaping"}

LEMMA LifeMoves ==
    ASSUME NEW s \in Slots, workers[s] \in Worker,
           workers[s].ffmpeg => workers[s].thread \in {"running", "reaping", "ended"},
           NEW m \in Life(s)!ThreadMoves \cup Life(s)!FFmpegMoves
    PROVE  Lives(workers[s], m)
<1>1. CASE m \in Life(s)!ThreadMoves
  BY <1>1 DEF Life!ThreadMoves, Life!Ended, Life!Started, Life!Gone, Lives, Worker
<1>2. CASE m \in Life(s)!FFmpegMoves
  BY <1>2 DEF Life!FFmpegMoves, Life!Gone, Lives, Worker
<1> QED
  BY <1>1, <1>2

\* A finite set goes one by one into another that is at least as large.
LEMMA FitsInto ==
    ASSUME NEW S, NEW T, IsFiniteSet(S), IsFiniteSet(T), Cardinality(S) <= Cardinality(T)
    PROVE  \E f \in [S -> T] : \A k, l \in S : f[k] = f[l] => k = l
<1>1. /\ Cardinality(S) \in Nat /\ Cardinality(T) \in Nat
      /\ ExistsBijection(1 .. Cardinality(S), S) /\ ExistsBijection(1 .. Cardinality(T), T)
  BY FS_CardinalityType
<1>2. PICK f \in Bijection(S, 1 .. Cardinality(S)) : TRUE
  BY <1>1, Fun_ExistsBijSymmetric, Fun_ExistsBij
<1>3. PICK g \in Bijection(1 .. Cardinality(T), T) : TRUE
  BY <1>1, Fun_ExistsBij
<1>4. f \in [S -> 1 .. Cardinality(S)] /\ \A k, l \in S : f[k] = f[l] => k = l
  BY <1>2 DEF Bijection, Injection, IsInjective
<1>5. /\ g \in [1 .. Cardinality(T) -> T]
      /\ \A i, j \in 1 .. Cardinality(T) : g[i] = g[j] => i = j
  BY <1>3 DEF Bijection, Injection, IsInjective
<1> DEFINE h == [k \in S |-> g[f[k]]]
<1>6. \A k \in S : f[k] \in 1 .. Cardinality(T)
  BY <1>1, <1>4
<1>7. h \in [S -> T] /\ \A k, l \in S : h[k] = h[l] => k = l
  BY <1>4, <1>5, <1>6
<1> QED
  BY <1>7

\* What Create does: each missing destination gets a vacant slot of its own.
New(k) == [key |-> k, config |-> wanted[k], stop |-> FALSE, thread |-> "unstarted", ffmpeg |-> FALSE]

LEMMA CreateEffect ==
    ASSUME TypesOK, Create
    PROVE  \E at \in [Missing -> Vacant] :
              /\ \A k, l \in Missing : at[k] = at[l] => k = l
              /\ registry' = [k \in Keys |-> IF k \in Missing THEN at[k] ELSE registry[k]]
              /\ starts' = {at[k] : k \in Missing}
              /\ workers' \in [Slots -> Worker \cup {None}]
              /\ \A k \in Missing : workers'[at[k]] = New(k)
              /\ \A s \in Slots : (\A k \in Missing : at[k] # s) => workers'[s] = workers[s]
<1> DEFINE at == CHOOSE f \in [Missing -> Vacant] : \A k, l \in Missing : f[k] = f[l] => k = l
           new(s) == {k \in Missing : at[k] = s}
           made(s) == CHOOSE k \in new(s) : TRUE
<1>1. at \in [Missing -> Vacant] /\ \A k, l \in Missing : at[k] = at[l] => k = l
  <2>1. IsFiniteSet(Missing) /\ IsFiniteSet(Vacant)
    BY FiniteAssumption, FS_Subset DEF Missing, Vacant
  <2>2. Cardinality(Missing) <= Cardinality(Vacant)
    BY DEF Create
  <2>3. \E f \in [Missing -> Vacant] : \A k, l \in Missing : f[k] = f[l] => k = l
    BY <2>1, <2>2, FitsInto
  <2> QED BY <2>3
<1>2. /\ registry' = [k \in Keys |-> IF k \in Missing THEN at[k] ELSE registry[k]]
      /\ starts' = {at[k] : k \in Missing}
      /\ workers' = [s \in Slots |-> IF new(s) = {} THEN workers[s] ELSE New(made(s))]
  BY DEF Create, New
<1> HIDE DEF at
<1>3. \A k \in Missing : at[k] \in Slots /\ made(at[k]) = k
  BY <1>1 DEF Vacant
<1>4. \A k \in Missing : New(k) \in Worker
  BY DEF New, Worker, Missing, TypesOK
<1>5. \A s \in Slots : new(s) # {} => made(s) \in Missing
  OBVIOUS
<1>6. workers' \in [Slots -> Worker \cup {None}]
  BY <1>2, <1>4, <1>5 DEF TypesOK
<1>7. \A k \in Missing : workers'[at[k]] = New(k)
  <2> TAKE k \in Missing
  <2>1. k \in new(at[k])
    OBVIOUS
  <2> QED BY <1>2, <1>3, <2>1
<1>8. \A s \in Slots : (\A k \in Missing : at[k] # s) => workers'[s] = workers[s]
  BY <1>2
<1> QED
  BY <1>1, <1>2, <1>6, <1>7, <1>8

LEMMA CreateStep ==
    ASSUME SupervisorInv, Create PROVE SupervisorInv'
<1> USE NoneAssumption
<1>0. TypesOK /\ PhasesInOrder /\ RegistryIsCurrent /\ LeavingHasLeft /\ LivesInOrder /\ NobodyIsLost
  BY DEF SupervisorInv
<1>1. /\ path = "stopping" /\ path' = "starting" /\ Leaving("paths") = {}
      /\ UNCHANGED <<wanted, main, victims, joining, stopEvent, hung>>
  BY DEF Create, AllStopped, Leaving, callVars
<1>2. PICK at \in [Missing -> Vacant] :
              /\ \A k, l \in Missing : at[k] = at[l] => k = l
              /\ registry' = [k \in Keys |-> IF k \in Missing THEN at[k] ELSE registry[k]]
              /\ starts' = {at[k] : k \in Missing}
              /\ workers' \in [Slots -> Worker \cup {None}]
              /\ \A k \in Missing : workers'[at[k]] = New(k)
              /\ \A s \in Slots : (\A k \in Missing : at[k] # s) => workers'[s] = workers[s]
  BY <1>0, CreateEffect
<1>3. \A k \in Missing : at[k] \in Slots /\ workers[at[k]] = None /\ at[k] # None /\ New(k) # None
  <2>1. \A k \in Missing : New(k) \in Worker
    BY <1>0 DEF New, Worker, Missing, TypesOK
  <2> QED BY <1>2, <2>1 DEF Vacant, Exists
<1>4. \A s \in Slots : Exists(s) => workers'[s] = workers[s]
  BY <1>2, <1>3 DEF Exists
<1>5. \A s \in Slots : Exists(s)' => Exists(s) \/ \E k \in Missing : s = at[k]
  BY <1>2 DEF Exists
<1>6. \A c \in Callers : Leaving(c)' = Leaving(c)
  BY <1>1 DEF Leaving
<1>7. TypesOK'
  BY <1>0, <1>1, <1>2, <1>3 DEF TypesOK
<1>8. PhasesInOrder'
  BY <1>0, <1>1, <1>6 DEF PhasesInOrder, Exited, Callers
<1>9. RegistryIsCurrent'
  <2> SUFFICES ASSUME NEW k \in Keys, registry'[k] # None
               PROVE  /\ Exists(registry[k])' /\ workers'[registry'[k]].key = k
                      /\ workers'[registry'[k]].config = wanted'[k] /\ ~workers'[registry'[k]].stop
    BY DEF RegistryIsCurrent
  <2>1. CASE k \in Missing
    <3>1. registry'[k] = at[k] /\ workers'[at[k]] = New(k)
      BY <1>2, <2>1
    <3> QED BY <1>1, <1>3, <2>1, <3>1 DEF New, Exists
  <2>2. CASE k \notin Missing
    <3>1. registry'[k] = registry[k] /\ registry[k] \in Slots
      BY <1>0, <1>2, <2>2 DEF TypesOK
    <3> QED BY <1>0, <1>1, <1>4, <3>1 DEF RegistryIsCurrent, Exists
  <2> QED BY <2>1, <2>2
<1>10. LeavingHasLeft'
  <2>1. \A c \in Callers : \A s \in Leaving(c) : s \in Slots /\ Exists(s)' /\ s \notin Registered'
    <3> TAKE c \in Callers
    <3> TAKE s \in Leaving(c)
    <3>1. s \in Slots /\ Exists(s) /\ s \notin Registered
      BY <1>0 DEF LeavingHasLeft, Leaving, TypesOK
    <3>2. \A k \in Keys : registry'[k] # s
      BY <1>2, <1>3, <3>1 DEF Registered, Exists
    <3> QED BY <1>4, <3>1, <3>2 DEF Registered, Exists
  <2> QED BY <1>1, <1>6, <2>1 DEF LeavingHasLeft, Callers
<1>11. LivesInOrder'
  <2>1. \A s \in starts' : Exists(s)' /\ workers'[s].thread = "unstarted"
    <3> TAKE s \in starts'
    <3>0. s \in {at[k] : k \in Missing}
      BY <1>2
    <3>1. PICK k \in Missing : s = at[k]
      BY <3>0
    <3>2. workers'[s] = New(k) /\ New(k) # None
      BY <1>2, <1>3, <3>1
    <3>3. Exists(s)'
      BY <3>2 DEF Exists
    <3> QED BY <3>2, <3>3 DEF New
  <2>2. starts = {} /\ ~Exited /\ ~Exited'
    BY <1>0, <1>1 DEF PhasesInOrder, Exited
  <2> SUFFICES ASSUME NEW s \in Slots, Exists(s)'
               PROVE  /\ workers'[s].thread = "unstarted" <=> s \in starts'
                      /\ ~Exited' /\ workers'[s].ffmpeg => workers'[s].thread \in {"running", "reaping"}
                      /\ ~Exited' /\ workers'[s].thread = "ended" => workers'[s].stop
                      /\ Exited' => workers'[s].thread = "ended"
    BY <2>1 DEF LivesInOrder
  <2>3. CASE Exists(s)
    <3>1. s \notin starts'
      BY <1>2, <1>3, <2>3 DEF Exists
    <3> QED BY <1>0, <1>4, <2>2, <2>3, <3>1 DEF LivesInOrder
  <2>4. ASSUME NEW k \in Missing, s = at[k]
        PROVE  s \in starts' /\ workers'[s].thread = "unstarted" /\ ~workers'[s].ffmpeg
    <3>1. s \in starts' /\ workers'[s] = New(k)
      BY <1>2, <2>4
    <3> QED BY <3>1 DEF New
  <2> QED BY <1>5, <2>2, <2>3, <2>4
<1>12. NobodyIsLost'
  <2> SUFFICES ASSUME ~stopEvent, ~hung, NEW s \in Slots, Exists(s)'
               PROVE  s \in Registered' \/ workers'[s].thread = "ended"
    BY <1>1 DEF NobodyIsLost
  <2>1. CASE Exists(s)
    <3>1. CASE s \in Registered
      <4>1. PICK k \in Keys : registry[k] = s
        BY <3>1 DEF Registered
      <4>2. registry'[k] = s
        BY <1>2, <4>1 DEF Missing
      <4> QED BY <4>2 DEF Registered
    <3>2. CASE workers[s].thread = "ended"
      BY <1>4, <2>1, <3>2
    <3> QED BY <1>0, <1>1, <2>1, <3>1, <3>2 DEF NobodyIsLost
  <2>2. ASSUME NEW k \in Missing, s = at[k] PROVE s \in Registered'
    <3>1. k \in Keys /\ registry'[k] = s
      BY <1>2, <2>2 DEF Missing
    <3> QED BY <3>1 DEF Registered
  <2> QED BY <1>5, <2>1, <2>2
<1>13. NobodyIsMissing'
  BY <1>1, <1>2, <1>3 DEF NobodyIsMissing, Missing
<1> QED
  BY <1>7, <1>8, <1>9, <1>10, <1>11, <1>12, <1>13 DEF SupervisorInv

\* The first half of reconcile: who leaves the registry is to be stopped, who stays has the
\* configuration wanted.
LEMMA CollectStep ==
    ASSUME SupervisorInv, NEW desired \in [Keys -> Configs \cup {None}], Collect(desired)
    PROVE  SupervisorInv'
<1> USE NoneAssumption
<1>0. TypesOK /\ PhasesInOrder /\ RegistryIsCurrent /\ LeavingHasLeft /\ LivesInOrder /\ NobodyIsLost
  BY DEF SupervisorInv
<1>1. /\ path = "polling" /\ path' = "stopping" /\ wanted' = desired
      /\ victims' = [victims EXCEPT !["paths"] = {registry[k] : k \in Obsolete(desired)}]
      /\ registry' = [k \in Keys |-> IF k \in Obsolete(desired) THEN None ELSE registry[k]]
      /\ UNCHANGED <<workers, main, joining, starts, stopEvent, hung>>
  BY DEF Collect
<1>2. \A k \in Obsolete(desired) : k \in Keys /\ registry[k] \in Slots /\ registry[k] # None
  BY <1>0 DEF Obsolete, TypesOK
<1>3. Leaving("main")' = Leaving("main") /\ Leaving("paths") = {}
  BY <1>0, <1>1 DEF Leaving, PhasesInOrder, TypesOK, Callers
<1>4. \A s \in Leaving("paths")' : \E k \in Obsolete(desired) : s = registry[k]
  BY <1>0, <1>1, <1>3 DEF Leaving, TypesOK, Callers
<1>5. \A k \in Obsolete(desired) : registry[k] \in Leaving("paths")'
  BY <1>0, <1>1 DEF Leaving, TypesOK, Callers
<1>6. TypesOK'
  BY <1>0, <1>1, <1>2 DEF TypesOK, Callers
<1>7. PhasesInOrder'
  BY <1>0, <1>1, <1>3 DEF PhasesInOrder, Exited
<1>8. RegistryIsCurrent'
  BY <1>0, <1>1 DEF RegistryIsCurrent, Exists, Obsolete
<1>9. LeavingHasLeft'
  <2>1. \A s \in Leaving("main") : Exists(s)' /\ s \notin Registered'
    BY <1>0, <1>1 DEF LeavingHasLeft, Exists, Registered, Leaving, TypesOK, Callers
  <2>2. ASSUME NEW s \in Leaving("paths")'
        PROVE  /\ Exists(s)' /\ s \notin Registered'
               /\ registry'[workers'[s].key] = None
               /\ \E k \in Keys : s = registry[k] /\ workers'[s].key = k
    <3>1. PICK k \in Obsolete(desired) : s = registry[k]
      BY <1>4, <2>2
    <3>2. Exists(s) /\ workers[s].key = k /\ k \in Keys /\ s \in Slots
      BY <1>0, <1>2, <3>1 DEF RegistryIsCurrent
    <3>3. registry'[k] = None /\ s # None
      BY <1>1, <1>2, <3>1
    <3>4. s \notin Registered'
      <4> SUFFICES ASSUME NEW l \in Keys, registry'[l] = s PROVE FALSE
        BY DEF Registered
      <4>1. registry[l] = s /\ l # k
        BY <1>1, <3>3
      <4>2. workers[s].key = l
        BY <1>0, <3>3, <4>1 DEF RegistryIsCurrent
      <4> QED BY <3>2, <4>1, <4>2
    <3>5. Exists(s)' /\ workers'[s] = workers[s]
      BY <1>1, <3>2 DEF Exists
    <3> QED BY <3>1, <3>2, <3>3, <3>4, <3>5
  <2> QED BY <1>3, <2>1, <2>2 DEF LeavingHasLeft, Callers
<1>10. LivesInOrder'
  BY <1>0, <1>1 DEF LivesInOrder, Exists, Exited
<1>11. NobodyIsLost'
  <2>1. Registered \subseteq Registered' \cup Leaving("paths")'
    <3> SUFFICES ASSUME NEW s \in Registered PROVE s \in Registered' \cup Leaving("paths")'
      OBVIOUS
    <3>1. PICK k \in Keys : registry[k] = s /\ s \in Slots
      BY DEF Registered
    <3>2. CASE k \in Obsolete(desired)
      BY <1>5, <3>1, <3>2
    <3>3. CASE k \notin Obsolete(desired)
      <4>1. registry'[k] = s
        BY <1>1, <3>1, <3>3
      <4> QED BY <3>1, <4>1 DEF Registered
    <3> QED BY <3>2, <3>3
  <2> QED BY <1>0, <1>1, <1>3, <2>1 DEF NobodyIsLost, Exists
<1>12. NobodyIsMissing'
  BY <1>1 DEF NobodyIsMissing
<1> QED
  BY <1>6, <1>7, <1>8, <1>9, <1>10, <1>11, <1>12 DEF SupervisorInv

\* One worker changes, and nothing else does but who is to start, stop or join it.
OneLives(s, m) ==
    /\ workers' = [workers EXCEPT ![s] = m]
    /\ UNCHANGED <<registry, wanted, path, main, stopEvent, hung>>

\* A worker that changes in its slot keeps its key and its configuration.
LEMMA OneLivesStep ==
    ASSUME SupervisorInv, NEW s \in Slots, Exists(s), NEW m \in Worker, OneLives(s, m),
           m.key = workers[s].key, m.config = workers[s].config,
           m.stop => workers[s].stop \/ s \notin Registered,
           \A c \in Callers : Leaving(c)' = Leaving(c)
    PROVE  RegistryIsCurrent' /\ LeavingHasLeft' /\ Registered' = Registered
           /\ (\A t \in Slots : Exists(t)' <=> Exists(t))
<1> USE NoneAssumption
<1>0. TypesOK /\ RegistryIsCurrent /\ LeavingHasLeft
  BY DEF SupervisorInv
<1>1. Registered' = Registered /\ UNCHANGED <<registry, wanted>>
  BY DEF OneLives, Registered
<1>2. m # None
  OBVIOUS
<1>3. /\ workers'[s] = m
      /\ \A t \in Slots : t # s => workers'[t] = workers[t]
  BY <1>0 DEF OneLives, TypesOK
<1>4. \A t \in Slots : Exists(t)' <=> Exists(t)
  BY <1>2, <1>3 DEF Exists
<1>5. \A t \in Slots : workers'[t].key = workers[t].key /\ workers'[t].config = workers[t].config
  BY <1>3
<1>6. RegistryIsCurrent'
  <2> SUFFICES ASSUME NEW k \in Keys, registry[k] # None
               PROVE  /\ Exists(registry[k])' /\ workers'[registry[k]].key = k
                      /\ workers'[registry[k]].config = wanted[k] /\ ~workers'[registry[k]].stop
    BY <1>1 DEF RegistryIsCurrent
  <2>1. registry[k] \in Slots /\ registry[k] \in Registered
    BY <1>0 DEF TypesOK, Registered
  <2>2. ~workers'[registry[k]].stop
    <3>1. CASE registry[k] = s
      BY <1>0, <1>3, <2>1, <3>1 DEF RegistryIsCurrent
    <3>2. CASE registry[k] # s
      BY <1>0, <1>3, <2>1, <3>2 DEF RegistryIsCurrent
    <3> QED BY <3>1, <3>2
  <2> QED BY <1>0, <1>1, <1>4, <1>5, <2>1, <2>2 DEF RegistryIsCurrent
<1>7. LeavingHasLeft'
  <2>1. \A c \in Callers : Leaving(c) \subseteq Slots
    BY <1>0 DEF Leaving, TypesOK
  <2>2. "paths" \in Callers
    BY DEF Callers
  <2> QED BY <1>0, <1>1, <1>4, <1>5, <2>1, <2>2 DEF LeavingHasLeft
<1> QED
  BY <1>1, <1>4, <1>6, <1>7

LEMMA StartStep ==
    ASSUME SupervisorInv, NEW s \in Slots, StartWorker(s) PROVE SupervisorInv'
<1> USE NoneAssumption
<1>0. TypesOK /\ PhasesInOrder /\ LivesInOrder /\ NobodyIsLost /\ NobodyIsMissing
  BY DEF SupervisorInv
<1> DEFINE m == Life(s)!Started
<1>1. /\ s \in starts /\ starts' = starts \ {s} /\ path = "starting" /\ OneLives(s, m)
      /\ UNCHANGED <<victims, joining>>
  BY DEF StartWorker, OneLives, callVars
<1>2. Exists(s) /\ workers[s] \in Worker /\ workers[s].thread = "unstarted"
  BY <1>0, <1>1 DEF LivesInOrder, TypesOK, Exists
<1>3. /\ m \in Worker /\ m.key = workers[s].key /\ m.config = workers[s].config
      /\ m.stop = workers[s].stop /\ m.ffmpeg = workers[s].ffmpeg /\ m.thread = "pausing"
  BY <1>2 DEF Life!Started, Worker
<1>4. \A c \in Callers : Leaving(c)' = Leaving(c)
  BY <1>1 DEF Leaving
<1> HIDE DEF m
<1>5. RegistryIsCurrent' /\ LeavingHasLeft' /\ Registered' = Registered
      /\ \A t \in Slots : Exists(t)' <=> Exists(t)
  BY <1>1, <1>2, <1>3, <1>4, OneLivesStep
<1>6. /\ workers'[s] = m
      /\ \A t \in Slots : t # s => workers'[t] = workers[t]
  BY <1>0, <1>1 DEF OneLives, TypesOK
<1>7. TypesOK'
  BY <1>0, <1>1, <1>3 DEF TypesOK, OneLives
<1>8. PhasesInOrder'
  BY <1>0, <1>1, <1>4 DEF PhasesInOrder, Exited, OneLives, Callers
<1>9. LivesInOrder'
  BY <1>0, <1>1, <1>2, <1>3, <1>5, <1>6 DEF LivesInOrder, Exited, OneLives, TypesOK
<1>10. NobodyIsLost' /\ NobodyIsMissing'
  BY <1>0, <1>1, <1>2, <1>3, <1>4, <1>5, <1>6 DEF NobodyIsLost, NobodyIsMissing, OneLives, Callers
<1> QED
  BY <1>5, <1>7, <1>8, <1>9, <1>10 DEF SupervisorInv

LEMMA StopStep ==
    ASSUME SupervisorInv, NEW c \in Callers, NEW s \in Slots, StopWorker(c, s) PROVE SupervisorInv'
<1> USE NoneAssumption
<1>0. TypesOK /\ PhasesInOrder /\ LivesInOrder /\ LeavingHasLeft /\ NobodyIsLost /\ NobodyIsMissing
  BY DEF SupervisorInv
<1> DEFINE m == Life(s)!Told
<1>1. /\ s \in victims[c] /\ joining[c] = None /\ OneLives(s, m)
      /\ victims' = [victims EXCEPT ![c] = @ \ {s}]
      /\ joining' = [joining EXCEPT ![c] = s]
      /\ UNCHANGED starts
  BY DEF StopWorker, OneLives
<1>2. Exists(s) /\ workers[s] \in Worker /\ s \notin Registered
  BY <1>0, <1>1 DEF LeavingHasLeft, Leaving, TypesOK, Exists
<1>3. /\ m \in Worker /\ m.key = workers[s].key /\ m.config = workers[s].config
      /\ m.ffmpeg = workers[s].ffmpeg /\ m.thread = workers[s].thread /\ m.stop
  BY <1>2 DEF Life!Told, Worker
<1>4. \A d \in Callers : Leaving(d)' = Leaving(d)
  BY <1>0, <1>1 DEF Leaving, TypesOK
<1> HIDE DEF m
<1>5. RegistryIsCurrent' /\ LeavingHasLeft' /\ Registered' = Registered
      /\ \A t \in Slots : Exists(t)' <=> Exists(t)
  BY <1>1, <1>2, <1>3, <1>4, OneLivesStep
<1>6. /\ workers'[s] = m
      /\ \A t \in Slots : t # s => workers'[t] = workers[t]
  BY <1>0, <1>1 DEF OneLives, TypesOK
<1>7. TypesOK'
  BY <1>0, <1>1, <1>3 DEF TypesOK, OneLives
<1>8. PhasesInOrder'
  BY <1>0, <1>1, <1>4 DEF PhasesInOrder, Exited, OneLives, Callers
<1>9. LivesInOrder'
  BY <1>0, <1>1, <1>2, <1>3, <1>5, <1>6 DEF LivesInOrder, Exited, OneLives, TypesOK
<1>10. NobodyIsLost' /\ NobodyIsMissing'
  BY <1>0, <1>1, <1>2, <1>3, <1>4, <1>5, <1>6 DEF NobodyIsLost, NobodyIsMissing, OneLives, Callers
<1> QED
  BY <1>5, <1>7, <1>8, <1>9, <1>10 DEF SupervisorInv

LEMMA MoveStep ==
    ASSUME SupervisorInv, NEW s \in Slots, WorkerThread(s) \/ FFmpeg(s) PROVE SupervisorInv'
<1> USE NoneAssumption
<1>0. TypesOK /\ PhasesInOrder /\ LivesInOrder /\ NobodyIsLost /\ NobodyIsMissing
  BY DEF SupervisorInv
<1>1. PICK m \in Life(s)!ThreadMoves \cup Life(s)!FFmpegMoves :
          OneLives(s, m) /\ UNCHANGED <<victims, joining, starts>>
  BY DEF WorkerThread, FFmpeg, Moves, OneLives, callVars
<1>2. Exists(s) /\ workers[s] \in Worker
  BY <1>0 DEF WorkerThread, FFmpeg, TypesOK, Exists
<1>3. Lives(workers[s], m)
  BY <1>0, <1>1, <1>2, LifeMoves DEF LivesInOrder
<1>4. \A c \in Callers : Leaving(c)' = Leaving(c)
  BY <1>1 DEF Leaving
<1>5. RegistryIsCurrent' /\ LeavingHasLeft' /\ Registered' = Registered
      /\ \A t \in Slots : Exists(t)' <=> Exists(t)
  BY <1>1, <1>2, <1>3, <1>4, OneLivesStep DEF Lives
<1>6. /\ workers'[s] = m
      /\ \A t \in Slots : t # s => workers'[t] = workers[t]
  BY <1>0, <1>1 DEF OneLives, TypesOK
<1>7. TypesOK'
  BY <1>0, <1>1, <1>3 DEF TypesOK, OneLives, Lives
<1>8. PhasesInOrder'
  BY <1>0, <1>1, <1>4 DEF PhasesInOrder, Exited, OneLives, Callers
<1>9. LivesInOrder'
  BY <1>0, <1>1, <1>2, <1>3, <1>5, <1>6 DEF LivesInOrder, Exited, OneLives, TypesOK, Lives
<1>10. NobodyIsLost' /\ NobodyIsMissing'
  BY <1>0, <1>1, <1>2, <1>3, <1>4, <1>5, <1>6 DEF NobodyIsLost, NobodyIsMissing, OneLives, Callers, Lives
<1> QED
  BY <1>5, <1>7, <1>8, <1>9, <1>10 DEF SupervisorInv

LEMMA ForgetStep ==
    ASSUME SupervisorInv, NEW s \in Slots, Forget(s) PROVE SupervisorInv'
<1> USE NoneAssumption
<1>0. /\ TypesOK /\ PhasesInOrder /\ RegistryIsCurrent /\ LeavingHasLeft /\ LivesInOrder
      /\ NobodyIsLost /\ NobodyIsMissing
  BY DEF SupervisorInv
<1>1. /\ workers' = [workers EXCEPT ![s] = None]
      /\ s \notin Referenced /\ s \notin starts
      /\ UNCHANGED <<registry, wanted, path, main, victims, joining, starts, stopEvent, hung>>
  BY DEF Forget, callVars, Referenced
<1>2. workers'[s] = None /\ \A t \in Slots : t # s => workers'[t] = workers[t]
  BY <1>0, <1>1 DEF TypesOK
<1>3. /\ Registered' = Registered /\ s \notin Registered
      /\ \A c \in Callers : Leaving(c)' = Leaving(c) /\ s \notin Leaving(c) /\ Leaving(c) \subseteq Slots
  BY <1>0, <1>1 DEF Registered, Referenced, Leaving, Callers, TypesOK
<1>4. TypesOK'
  BY <1>0, <1>1 DEF TypesOK
<1>5. PhasesInOrder'
  BY <1>0, <1>1, <1>3 DEF PhasesInOrder, Exited, Callers
<1>6. RegistryIsCurrent'
  BY <1>0, <1>1, <1>2, <1>3 DEF RegistryIsCurrent, Registered, TypesOK, Exists
<1>7. LeavingHasLeft'
  BY <1>0, <1>1, <1>2, <1>3 DEF LeavingHasLeft, Exists, Callers
<1>8. LivesInOrder'
  BY <1>0, <1>1, <1>2 DEF LivesInOrder, Exists, Exited, TypesOK
<1>9. NobodyIsLost' /\ NobodyIsMissing'
  BY <1>0, <1>1, <1>2, <1>3 DEF NobodyIsLost, NobodyIsMissing, Exists, Callers
<1> QED
  BY <1>4, <1>5, <1>6, <1>7, <1>8, <1>9 DEF SupervisorInv

LEMMA ExitStep ==
    ASSUME SupervisorInv, NEW outcome \in {"stopped", "raised"}, Exit(outcome), stopEvent
    PROVE  SupervisorInv'
<1> USE NoneAssumption
<1>0. TypesOK /\ RegistryIsCurrent
  BY DEF SupervisorInv
<1>1. /\ main' = outcome /\ path' = "ended" /\ starts' = {}
      /\ victims' = [c \in Callers |-> {}] /\ joining' = [c \in Callers |-> None]
      /\ UNCHANGED <<registry, wanted, stopEvent, hung>>
  BY DEF Exit
<1>2. \A s \in Slots : ~Exists(s) => workers'[s] = None
  BY DEF Exit
<1>3. ASSUME NEW s \in Slots, Exists(s)
      PROVE  /\ workers'[s] \in Worker /\ workers'[s].thread = "ended"
             /\ workers'[s].key = workers[s].key /\ workers'[s].config = workers[s].config
             /\ workers'[s].stop = workers[s].stop
  <2>1. workers[s] \in Worker /\ workers'[s] = Life(s)!Ended
    BY <1>0, <1>3 DEF Exit, Exists, TypesOK
  <2> QED BY <2>1 DEF Life!Ended, Worker
<1>4. workers' \in [Slots -> Worker \cup {None}]
  <2>1. workers' = [s \in Slots |-> workers'[s]]
    BY DEF Exit
  <2> QED BY <1>2, <1>3, <2>1
<1>5. \A s \in Slots : Exists(s)' <=> Exists(s)
  BY <1>2, <1>3 DEF Exists
<1>6. \A c \in Callers : Leaving(c)' = {}
  BY <1>1 DEF Leaving
<1>7. TypesOK'
  BY <1>0, <1>1, <1>4 DEF TypesOK
<1>8. PhasesInOrder'
  BY <1>1, <1>6 DEF PhasesInOrder, Callers
<1>9. RegistryIsCurrent'
  <2> SUFFICES ASSUME NEW k \in Keys, registry[k] # None
               PROVE  /\ Exists(registry[k])' /\ workers'[registry[k]].key = k
                      /\ workers'[registry[k]].config = wanted[k] /\ ~workers'[registry[k]].stop
    BY <1>1 DEF RegistryIsCurrent
  <2>1. registry[k] \in Slots /\ Exists(registry[k])
    BY <1>0 DEF TypesOK, RegistryIsCurrent
  <2> QED BY <1>0, <1>1, <1>3, <1>5, <2>1 DEF RegistryIsCurrent
<1>10. LeavingHasLeft'
  BY <1>6 DEF LeavingHasLeft, Callers
<1>11. LivesInOrder'
  BY <1>1, <1>3, <1>5 DEF LivesInOrder, Exited
<1>12. NobodyIsLost' /\ NobodyIsMissing'
  BY <1>1 DEF NobodyIsLost, NobodyIsMissing
<1> QED
  BY <1>7, <1>8, <1>9, <1>10, <1>11, <1>12 DEF SupervisorInv

LEMMA JoinedStep ==
    ASSUME SupervisorInv, NEW c \in Callers, Joined(c) PROVE SupervisorInv'
<1> USE NoneAssumption
<1>0. /\ TypesOK /\ PhasesInOrder /\ RegistryIsCurrent /\ LeavingHasLeft /\ LivesInOrder
      /\ NobodyIsLost /\ NobodyIsMissing
  BY DEF SupervisorInv
<1>1. /\ joining[c] \in Slots
      /\ joining' = [joining EXCEPT ![c] = None]
      /\ workers[joining[c]].thread = "ended" \/ hung'
      /\ hung => hung'
      /\ UNCHANGED <<workers, registry, wanted, path, main, victims, starts, stopEvent>>
  BY <1>0 DEF Joined, TypesOK
<1>2. hung' \in BOOLEAN
  BY <1>0 DEF Joined, TypesOK
<1>3. \A d \in Callers : /\ Leaving(d)' \subseteq Leaving(d)
                         /\ Leaving(d) \subseteq Leaving(d)' \cup {joining[c]}
  BY <1>0, <1>1 DEF Leaving, TypesOK
<1>4. Registered' = Registered /\ Exited' = Exited /\ \A s \in Slots : Exists(s)' <=> Exists(s)
  BY <1>1 DEF Registered, Exited, Exists
<1>5. TypesOK'
  BY <1>0, <1>1, <1>2 DEF TypesOK
<1>6. PhasesInOrder'
  BY <1>0, <1>1, <1>3, <1>4 DEF PhasesInOrder, Callers
<1>7. RegistryIsCurrent'
  BY <1>0, <1>1 DEF RegistryIsCurrent, Exists
<1>8. LeavingHasLeft'
  BY <1>0, <1>1, <1>3, <1>4 DEF LeavingHasLeft, Exists, Callers
<1>9. LivesInOrder'
  BY <1>0, <1>1, <1>4 DEF LivesInOrder, Exists
<1>10. NobodyIsLost' /\ NobodyIsMissing'
  BY <1>0, <1>1, <1>3, <1>4 DEF NobodyIsLost, NobodyIsMissing, Callers
<1> QED
  BY <1>5, <1>6, <1>7, <1>8, <1>9, <1>10 DEF SupervisorInv

LEMMA StopAllStep ==
    ASSUME SupervisorInv, StopAll PROVE SupervisorInv'
<1> USE NoneAssumption
<1>0. TypesOK /\ PhasesInOrder /\ LeavingHasLeft /\ LivesInOrder /\ RegistryIsCurrent
  BY DEF SupervisorInv
<1>1. /\ main = "serving" /\ stopEvent /\ main' = "stopping"
      /\ victims' = [victims EXCEPT !["main"] = Registered]
      /\ registry' = [k \in Keys |-> None]
      /\ UNCHANGED <<workers, wanted, path, joining, starts, stopEvent, hung>>
  BY DEF StopAll
<1>2. Registered' = {} /\ ~Exited' /\ ~Exited /\ Registered \subseteq Slots
  BY <1>1 DEF Registered, Exited
<1>3. Leaving("paths")' = Leaving("paths") /\ Leaving("main")' = Registered
  BY <1>0, <1>1 DEF Leaving, PhasesInOrder, TypesOK, Callers, Registered
<1>4. \A s \in Registered : Exists(s)
  BY <1>0 DEF Registered, RegistryIsCurrent, TypesOK
<1>5. TypesOK'
  BY <1>0, <1>1, <1>2 DEF TypesOK, Callers
<1>6. PhasesInOrder'
  BY <1>0, <1>1, <1>2, <1>3 DEF PhasesInOrder
<1>7. RegistryIsCurrent'
  BY <1>1 DEF RegistryIsCurrent
<1>8. LeavingHasLeft'
  <2>1. \A s \in Leaving("paths") : s \in Slots /\ Exists(s) /\ workers[s].key \in Keys
    BY <1>0 DEF LeavingHasLeft, Leaving, TypesOK, Callers, Exists, Worker
  <2> QED BY <1>0, <1>1, <1>2, <1>3, <1>4, <2>1 DEF LeavingHasLeft, Exists, Callers
<1>9. LivesInOrder'
  BY <1>0, <1>1, <1>2 DEF LivesInOrder, Exists
<1>10. NobodyIsLost' /\ NobodyIsMissing'
  BY <1>1 DEF NobodyIsLost, NobodyIsMissing
<1> QED
  BY <1>5, <1>6, <1>7, <1>8, <1>9, <1>10 DEF SupervisorInv

LEMMA QuietStep ==
    ASSUME SupervisorInv,
           PollPaths \/ PollFails \/ ReconcileDone \/ Terminate \/ JoinLoops \/ UNCHANGED vars
    PROVE  SupervisorInv'
<1>0. /\ TypesOK /\ PhasesInOrder /\ RegistryIsCurrent /\ LeavingHasLeft /\ LivesInOrder
      /\ NobodyIsLost /\ NobodyIsMissing
  BY DEF SupervisorInv
<1>1. UNCHANGED <<workers, registry, wanted, victims, joining, starts, hung>>
  BY DEF PollPaths, PollFails, ReconcileDone, Terminate, JoinLoops, vars, callVars
<1>2. /\ \A c \in Callers : Leaving(c)' = Leaving(c)
      /\ Registered' = Registered
      /\ \A s \in Slots : Exists(s)' <=> Exists(s)
  BY <1>1 DEF Leaving, Registered, Exists
<1>3. /\ Exited' = Exited
      /\ stopEvent => stopEvent'
      /\ path = "stopping" <=> path' = "stopping"
  BY DEF PollPaths, PollFails, ReconcileDone, Terminate, JoinLoops, vars, callVars, Exited
<1>4. TypesOK'
  BY <1>0, <1>1
  DEF PollPaths, PollFails, ReconcileDone, Terminate, JoinLoops, vars, callVars, TypesOK
<1>5. PhasesInOrder'
  BY <1>0, <1>2, <1>3
  DEF PollPaths, PollFails, ReconcileDone, Terminate, JoinLoops, vars, callVars, PhasesInOrder, Exited, Callers
<1>6. RegistryIsCurrent' /\ LeavingHasLeft'
  BY <1>0, <1>1, <1>2 DEF RegistryIsCurrent, LeavingHasLeft, Exists, Callers
<1>7. LivesInOrder'
  BY <1>0, <1>1, <1>2, <1>3 DEF LivesInOrder, Exists
<1>8. NobodyIsLost' /\ NobodyIsMissing'
  BY <1>0, <1>1, <1>2, <1>3 DEF NobodyIsLost, NobodyIsMissing, Callers, TypesOK
<1> QED
  BY <1>4, <1>5, <1>6, <1>7, <1>8 DEF SupervisorInv

-------------------------------------------------------------------------------
LEMMA SupervisorInit == Init => SupervisorInv
<1> SUFFICES ASSUME Init PROVE SupervisorInv
  OBVIOUS
<1> USE DEF Init
<1>1. TypesOK
  BY DEF TypesOK
<1>2. \A c \in Callers : Leaving(c) = {}
  BY NoneAssumption DEF Leaving
<1>3. PhasesInOrder
  BY <1>2 DEF PhasesInOrder, Exited, Callers
<1>4. RegistryIsCurrent /\ LeavingHasLeft /\ LivesInOrder /\ NobodyIsLost /\ NobodyIsMissing
  BY <1>2 DEF RegistryIsCurrent, LeavingHasLeft, LivesInOrder, NobodyIsLost, NobodyIsMissing, Exists, Callers
<1> QED
  BY <1>1, <1>3, <1>4 DEF SupervisorInv

LEMMA SupervisorStep == SupervisorInv /\ [Next]_vars => SupervisorInv'
<1> SUFFICES ASSUME SupervisorInv, [Next]_vars PROVE SupervisorInv'
  OBVIOUS
<1>1. CASE PollPaths \/ PollFails \/ ReconcileDone \/ Terminate \/ JoinLoops \/ UNCHANGED vars
  BY <1>1, QuietStep
<1>2. CASE Create
  BY <1>2, CreateStep
<1>3. CASE \E desired \in [Keys -> Configs \cup {None}] : Collect(desired)
  BY <1>3, CollectStep
<1>4. CASE \E s \in Slots : StartWorker(s)
  BY <1>4, StartStep
<1>5. CASE \E c \in Callers, s \in Slots : StopWorker(c, s)
  BY <1>5, StopStep
<1>6. CASE \E c \in Callers : Joined(c)
  BY <1>6, JoinedStep
<1>7. CASE StopAll
  BY <1>7, StopAllStep
<1>8. CASE Stopped \/ JoinRaises
  <2>1. stopEvent
    BY <1>8, NoneAssumption DEF Stopped, JoinRaises, SupervisorInv, PhasesInOrder, Leaving, TypesOK, Callers
  <2> QED BY <1>8, <2>1, ExitStep DEF Stopped, JoinRaises
<1>9. CASE \E s \in Slots : WorkerThread(s) \/ FFmpeg(s)
  BY <1>9, MoveStep
<1>10. CASE \E s \in Slots : Forget(s)
  BY <1>10, ForgetStep
<1> QED
  BY <1>1, <1>2, <1>3, <1>4, <1>5, <1>6, <1>7, <1>8, <1>9, <1>10 DEF Next, PathStep, MainStep, Callers

LEMMA SupervisorInvHolds == Spec => []SupervisorInv
  BY SupervisorInit, SupervisorStep, PTL DEF Spec

\* The supervisor's variables keep their types, and a worker that is being started is one
\* nobody has run yet (relay_agent/worker.py 72-102 and 394-407).
THEOREM SupervisorTypeCorrect == Spec => []TypeOK
<1>1. SupervisorInv => TypeOK
  BY DEF SupervisorInv, TypesOK, LivesInOrder, TypeOK
<1> QED
  BY <1>1, SupervisorInvHolds, PTL

\* While the agent serves, a destination has never two processes, however its configuration
\* changes and its workers fail (relay_agent/worker.py 1 and 390-405).
THEOREM NeverTwoProcesses == Spec => []OneProcessWhileServing
<1>1. SupervisorInv => OneProcessWhileServing
  <2> SUFFICES ASSUME SupervisorInv, ~stopEvent, ~hung,
                      NEW s \in Slots, NEW t \in Slots, s # t, Exists(s), Exists(t),
                      workers[s].key = workers[t].key, workers[s].ffmpeg, workers[t].ffmpeg
               PROVE  FALSE
    BY DEF OneProcessWhileServing, OneProcessPerKey
  <2>1. ~Exited
    BY DEF SupervisorInv, PhasesInOrder, Exited
  <2>2. s \in Registered \cup Leaving("paths") /\ t \in Registered \cup Leaving("paths")
    BY <2>1 DEF SupervisorInv, NobodyIsLost, LivesInOrder
  <2>3. \A u \in Registered : registry[workers[u].key] = u /\ u # None
    BY NoneAssumption DEF SupervisorInv, RegistryIsCurrent, Registered
  <2>4. /\ \A u \in Leaving("paths") : registry[workers[u].key] = None
        /\ \A u, v \in Leaving("paths") : workers[u].key = workers[v].key => u = v
    BY DEF SupervisorInv, LeavingHasLeft
  <2> QED BY <2>2, <2>3, <2>4
<1> QED
  BY <1>1, SupervisorInvHolds, PTL

\* When a reconcile is over, the live workers are those of the wanted destinations
\* (relay_agent/worker.py 376-407).
THEOREM FanOutIsWhatWasWanted == Spec => []FanOutMatches
<1>1. SupervisorInv => FanOutMatches
  <2> SUFFICES ASSUME SupervisorInv, path = "waiting", ~stopEvent PROVE FanOutMatches
    BY DEF FanOutMatches
  <2>1. ~Exited /\ starts = {} /\ Leaving("paths") = {}
    BY DEF SupervisorInv, PhasesInOrder, Exited
  <2>2. ASSUME NEW k \in Keys, wanted[k] = None PROVE registry[k] = None
    BY <2>2, NoneAssumption DEF SupervisorInv, RegistryIsCurrent, TypesOK, Exists, Worker
  <2>3. ASSUME NEW k \in Keys, wanted[k] # None
        PROVE  /\ registry[k] # None /\ Exists(registry[k])
               /\ workers[registry[k]].config = wanted[k] /\ ~workers[registry[k]].stop
               /\ workers[registry[k]].thread \notin {"unstarted", "ended"}
    <3>1. registry[k] # None /\ registry[k] \in Slots
      BY <2>3 DEF SupervisorInv, NobodyIsMissing, TypesOK
    <3>2. /\ Exists(registry[k])
          /\ workers[registry[k]].config = wanted[k] /\ ~workers[registry[k]].stop
      BY <3>1 DEF SupervisorInv, RegistryIsCurrent
    <3> QED BY <2>1, <3>1, <3>2 DEF SupervisorInv, LivesInOrder
  <2>4. ~hung => \A s \in Slots : Exists(s) /\ s \notin Registered => ~workers[s].ffmpeg
    BY <2>1 DEF SupervisorInv, NobodyIsLost, LivesInOrder
  <2> QED BY <2>2, <2>3, <2>4 DEF FanOutMatches
<1> QED
  BY <1>1, SupervisorInvHolds, PTL

-------------------------------------------------------------------------------
\* Every set of natural numbers has a least one.
LEMMA LeastNumber ==
    ASSUME NEW T \in SUBSET Nat, T # {} PROVE \E x \in T : \A y \in T : x <= y
<1> DEFINE R == OpToRel(<, Nat)
<1>1. IsWellFoundedOn(R, Nat)
  BY NatLessThanWellFounded
<1>2. \A x, y \in Nat : x < y => <<x, y>> \in R
  BY DEF OpToRel
<1> HIDE DEF R
<1>3. PICK x \in T : \A y \in T : ~(<<y, x>> \in R)
  BY <1>1, WFMin
<1>4. ASSUME NEW y \in T PROVE x <= y
  <2>1. x \in Nat /\ y \in Nat
    OBVIOUS
  <2>2. ~(y < x)
    BY <1>2, <1>3, <2>1
  <2> QED
    BY <2>1, <2>2
<1> QED
  BY <1>4

LEMMA DelaysAre ==
    /\ LastBackoff \in Nat \ {0}
    /\ \A i \in 1 .. LastBackoff : Backoffs[i] \in Nat \ {0}
  BY BackoffsAssumption DEF LastBackoff

\* There is a longest delay: the least bound of the delays is one of them.
LEMMA LongestDelayIs ==
    LongestDelay \in Nat /\ \A i \in 1 .. LastBackoff : Backoffs[i] <= LongestDelay
<1> DEFINE Longest(n) == {j \in 1 .. n : \A i \in 1 .. n : Backoffs[i] <= Backoffs[j]}
           T == {n \in 1 .. LastBackoff : Longest(n) = {}}
<1>1. T = {}
  <2> SUFFICES ASSUME T # {} PROVE FALSE
    OBVIOUS
  <2>1. T \in SUBSET Nat
    OBVIOUS
  <2> HIDE DEF T
  <2>2. PICK n \in T : \A y \in T : n <= y
    BY <2>1, LeastNumber
  <2>3. n \in 1 .. LastBackoff /\ Longest(n) = {}
    BY DEF T
  <2>4. CASE n = 1
    <3>1. 1 \in Longest(n)
      BY <2>4, DelaysAre
    <3> QED
      BY <2>3, <3>1
  <2>5. CASE n > 1
    <3>1. n - 1 \in 1 .. LastBackoff /\ n - 1 \notin T
      BY <2>1, <2>2, <2>3, <2>5, DelaysAre
    <3>2. Longest(n - 1) # {}
      BY <3>1 DEF T
    <3>3. PICK j \in 1 .. n - 1 : \A i \in 1 .. n - 1 : Backoffs[i] <= Backoffs[j]
      BY <3>2
    <3>4. \A i \in 1 .. n : i \in 1 .. n - 1 \/ i = n
      BY <2>3, DelaysAre
    <3>5. j \in 1 .. n /\ n \in 1 .. n /\ \A i \in 1 .. n : i \in 1 .. LastBackoff
      BY <2>3, DelaysAre
    <3>6. Backoffs[n] \in Nat /\ Backoffs[j] \in Nat /\ \A i \in 1 .. n : Backoffs[i] \in Nat
      BY <3>5, DelaysAre
    <3>7. CASE Backoffs[n] <= Backoffs[j]
      <4>1. j \in Longest(n)
        BY <3>3, <3>4, <3>5, <3>7
      <4> QED BY <2>3, <4>1
    <3>8. CASE Backoffs[j] <= Backoffs[n]
      <4>1. n \in Longest(n)
        BY <3>3, <3>4, <3>5, <3>6, <3>8
      <4> QED BY <2>3, <4>1
    <3> QED BY <3>6, <3>7, <3>8
  <2> QED BY <2>3, <2>4, <2>5, DelaysAre
<1>2. PICK j \in 1 .. LastBackoff : \A i \in 1 .. LastBackoff : Backoffs[i] <= Backoffs[j]
  <2>1. LastBackoff \in 1 .. LastBackoff
    BY DelaysAre
  <2>2. Longest(LastBackoff) # {}
    BY <1>1, <2>1
  <2> QED
    BY <2>2
<1>3. \E d \in {Backoffs[i] : i \in 1 .. LastBackoff} : \A i \in 1 .. LastBackoff : d >= Backoffs[i]
  BY <1>2, DelaysAre
<1>4. /\ LongestDelay \in {Backoffs[i] : i \in 1 .. LastBackoff}
      /\ \A i \in 1 .. LastBackoff : LongestDelay >= Backoffs[i]
  BY <1>3 DEF LongestDelay
<1> QED
  BY <1>4, DelaysAre

LEMMA TimesAre ==
    /\ StallAfter \in Nat /\ Grace \in Nat /\ ResetAfter \in Nat
    /\ JoinTakes \in Nat /\ PopenTakes \in Nat /\ MaxTotal \in Nat
    /\ StopTakes = PopenTakes + Grace + JoinTakes
  BY TimesAssumption DEF StopTakes

LEMMA LeastIs ==
    ASSUME NEW a \in Int, NEW b \in Int
    PROVE  /\ Least(a, b) \in {a, b} /\ Least(a, b) <= a /\ Least(a, b) <= b
  BY DEF Least

LEMMA DelayIndexIs ==
    ASSUME WorkerTypeOK PROVE DelayIndex \in 1 .. LastBackoff
  BY DelaysAre DEF WorkerTypeOK, DelayIndex

-------------------------------------------------------------------------------
LEMMA WorkerTypesStep ==
    ASSUME WorkerTypeOK, [WorkerNext]_workerVars PROVE WorkerTypeOK'
<1> USE TimesAre, DelaysAre, LongestDelayIs
<1> USE DEF WorkerTypeOK, worker, process, history, NoLine
<1>1. CASE BeginRun
  BY <1>1 DEF BeginRun
<1>11. CASE LoopEnds
  BY <1>11 DEF LoopEnds, Finish
<1>12. CASE Spawned
  <2>1. alive' \in BOOLEAN /\ signalled' \in BOOLEAN
    BY <1>12 DEF Spawned
  <2>2. /\ emitted' = 0 /\ line' = NoLine /\ thread' = "spawned"
        /\ UNCHANGED <<stop, known, state, counted, age, index, timer, run, oldLine>>
    BY <1>12 DEF Spawned
  <2>3. UNCHANGED <<silent, shortRuns, sinceEnd, sinceStop, misread>>
    BY <1>12 DEF Spawned
  <2> QED BY <2>1, <2>2, <2>3
<1>13. CASE SetProcess
  BY <1>13 DEF SetProcess
<1>2. CASE SpawnFails
  <2>1. shortRuns' \in 0 .. LastBackoff
    BY <1>2, LeastIs DEF SpawnFails, ShortRun
  <2> QED BY <1>2, <2>1 DEF SpawnFails
<1>3. CASE Stall
  BY <1>3 DEF Stall
<1>31. CASE LeavePolling
  BY <1>31 DEF LeavePolling
<1>32. CASE ForceKill
  BY <1>32 DEF ForceKill
<1>33. CASE Reap
  BY <1>33 DEF Reap
<1>4. CASE ReadersJoined
  <2>1. DelayIndex \in 1 .. LastBackoff
    BY DelayIndexIs
  <2>2. Least(DelayIndex + 1, LastBackoff) \in 1 .. LastBackoff
    BY <2>1, LeastIs
  <2>3. Least(shortRuns + 1, LastBackoff) \in 0 .. LastBackoff
    BY LeastIs
  <2>4. index' \in 1 .. LastBackoff /\ shortRuns' \in 0 .. LastBackoff /\ timer' \in Nat
    BY <1>4, <2>1, <2>2, <2>3 DEF ReadersJoined, ShortRun
  <2>5. state' \in {"stopped", "backoff"} /\ thread' \in {"ended", "backoff"}
    BY <1>4 DEF ReadersJoined, Finish
  <2>6. /\ line' = NoLine /\ oldLine' \in {oldLine, line} /\ sinceEnd' = 0
        /\ UNCHANGED <<stop, counted, age, run, alive, signalled, emitted, silent, sinceStop, misread>>
    BY <1>4 DEF ReadersJoined
  <2>7. ~alive /\ known' \in BOOLEAN
    BY <1>4 DEF ReadersJoined
  <2> QED BY <2>4, <2>5, <2>6, <2>7
<1>5. CASE DelayOver
  <2>1. index' \in 1 .. LastBackoff
    BY <1>5, LeastIs DEF DelayOver
  <2> QED BY <1>5, <2>1 DEF DelayOver, Finish
<1>6. ASSUME NEW total \in 0 .. MaxTotal, Report(total) PROVE WorkerTypeOK'
  BY <1>6 DEF Report
<1>7. CASE FFmpegExits
  BY <1>7 DEF FFmpegExits
<1>71. CASE Stop
  BY <1>71 DEF Stop
<1>8. CASE ConsumeProgress
  BY <1>8 DEF ConsumeProgress, Count
<1>81. CASE ConsumeOldProgress
  BY <1>81 DEF ConsumeOldProgress, Count
<1>9. CASE Tick
  <2>1. /\ age' \in 0 .. StallAfter + 1 /\ silent' \in 0 .. StallAfter + 1 /\ run' \in 0 .. ResetAfter
        /\ sinceEnd' \in 0 .. LongestDelay /\ sinceStop' \in 0 .. StopTakes + 1
    BY <1>9, LeastIs DEF Tick
  <2> QED BY <1>9, <2>1 DEF Tick
<1>10. CASE UNCHANGED workerVars
  BY <1>10 DEF workerVars
<1> QED
  BY <1>1, <1>11, <1>12, <1>13, <1>2, <1>3, <1>31, <1>32, <1>33, <1>4, <1>5, <1>6, <1>7, <1>71, <1>8, <1>81, <1>9, <1>10 DEF WorkerNext, Thread

-------------------------------------------------------------------------------
\* The reader's count is what FFmpeg reported, but for a line that waits in the pipe.
InRun == thread \in {"spawned", "running", "reaping", "joining"}

CountsAgree ==
    /\ ~InRun => line = NoLine
    /\ ~misread /\ thread = "spawning" => counted = 0
    /\ ~misread /\ InRun =>
          IF line = NoLine THEN counted = emitted ELSE line = emitted /\ counted <= emitted

\* The worker's measure of silence is the true one, unless the news is in the pipe.
SilenceAgrees ==
    ~misread /\ thread \in {"spawning", "spawned", "running"} =>
        IF line > counted THEN silent = 0 ELSE silent = age

\* The backoff index follows the short runs, and a delay is what the last of them asks.
Paced ==
    /\ thread # "ended" =>
          index = IF thread = "failed" THEN shortRuns ELSE Least(shortRuns + 1, LastBackoff)
    /\ thread \in {"backoff", "failed"} =>
          shortRuns > 0 /\ sinceEnd + timer >= Backoffs[shortRuns]
    /\ thread \in {"top", "spawning"} /\ shortRuns > 0 => sinceEnd >= Backoffs[shortRuns]

\* What is left of the time that stop() may take, by the line it found the thread at.
StopInTime ==
    /\ ~stop => sinceStop = 0
    /\ thread \in {"top", "backoff"} => sinceStop = 0
    /\ thread = "spawning" => sinceStop + timer <= PopenTakes
    /\ thread \in {"failed", "spawned", "running"} => sinceStop <= PopenTakes
    /\ thread = "reaping" => sinceStop + timer <= PopenTakes + Grace
    /\ thread = "joining" => sinceStop + timer <= StopTakes

LEMMA CountsStep ==
    ASSUME WorkerTypeOK, CountsAgree, [WorkerNext]_workerVars PROVE CountsAgree'
<1> USE DEF CountsAgree, InRun, WorkerTypeOK, NoLine, worker, process, history
<1>1. CASE BeginRun \/ LoopEnds
  BY <1>1 DEF BeginRun, LoopEnds, Finish
<1>2. CASE Spawned
  BY <1>2 DEF Spawned
<1>3. CASE SetProcess \/ SpawnFails \/ Stall \/ LeavePolling
  BY <1>3 DEF SetProcess, SpawnFails, Stall, LeavePolling
<1>4. CASE ForceKill \/ Reap \/ FFmpegExits \/ Stop \/ Tick
  BY <1>4 DEF ForceKill, Reap, FFmpegExits, Stop, Tick
<1>5. CASE ReadersJoined
  BY <1>5 DEF ReadersJoined, Finish
<1>6. CASE DelayOver
  BY <1>6 DEF DelayOver, Finish
<1>7. ASSUME NEW total \in 0 .. MaxTotal, Report(total) PROVE CountsAgree'
  BY <1>7, TimesAre DEF Report
<1>8. CASE ConsumeProgress
  BY <1>8, TimesAre DEF ConsumeProgress, Count
<1>9. CASE ConsumeOldProgress
  BY <1>9, TimesAre DEF ConsumeOldProgress, Count
<1>10. CASE UNCHANGED workerVars
  BY <1>10 DEF workerVars
<1> QED
  BY <1>1, <1>2, <1>3, <1>4, <1>5, <1>6, <1>7, <1>8, <1>9, <1>10 DEF WorkerNext, Thread

LEMMA SilenceStep ==
    ASSUME WorkerTypeOK, CountsAgree, SilenceAgrees, [WorkerNext]_workerVars PROVE SilenceAgrees'
<1> USE DEF CountsAgree, SilenceAgrees, InRun, WorkerTypeOK, NoLine, worker, process, history
<1>1. CASE BeginRun \/ LoopEnds
  BY <1>1 DEF BeginRun, LoopEnds, Finish
<1>2. CASE Spawned
  BY <1>2 DEF Spawned
<1>3. CASE SetProcess \/ SpawnFails \/ Stall \/ LeavePolling
  BY <1>3 DEF SetProcess, SpawnFails, Stall, LeavePolling
<1>4. CASE ForceKill \/ Reap \/ FFmpegExits \/ Stop
  BY <1>4 DEF ForceKill, Reap, FFmpegExits, Stop
<1>5. CASE ReadersJoined
  BY <1>5 DEF ReadersJoined, Finish
<1>6. CASE DelayOver
  BY <1>6 DEF DelayOver, Finish
<1>7. ASSUME NEW total \in 0 .. MaxTotal, Report(total) PROVE SilenceAgrees'
  BY <1>7, TimesAre DEF Report
<1>8. CASE ConsumeProgress
  BY <1>8, TimesAre DEF ConsumeProgress, Count
<1>9. CASE ConsumeOldProgress
  BY <1>9, TimesAre DEF ConsumeOldProgress, Count
<1>11. CASE Tick
  <2>1. thread \in {"spawning", "spawned", "running"} => line = NoLine
    BY <1>11 DEF Tick, Urgent
  <2> QED
    BY <1>11, <2>1 DEF Tick
<1>10. CASE UNCHANGED workerVars
  BY <1>10 DEF workerVars
<1> QED
  BY <1>1, <1>2, <1>3, <1>4, <1>5, <1>6, <1>7, <1>8, <1>9, <1>10, <1>11 DEF WorkerNext, Thread

LEMMA PacedStep ==
    ASSUME WorkerTypeOK, Paced, [WorkerNext]_workerVars PROVE Paced'
<1> USE DelaysAre, LongestDelayIs DEF Paced, Least, WorkerTypeOK
<1>1. CASE BeginRun \/ LoopEnds \/ Spawned \/ SetProcess
  BY <1>1 DEF BeginRun, LoopEnds, Finish, Spawned, SetProcess, history
<1>2. CASE SpawnFails
  BY <1>2 DEF SpawnFails, ShortRun
<1>3. CASE Stall \/ LeavePolling \/ ForceKill \/ Reap
  BY <1>3 DEF Stall, LeavePolling, ForceKill, Reap, worker, history
<1>4. CASE ReadersJoined
  BY <1>4 DEF ReadersJoined, Finish, DelayIndex, ShortRun
<1>5. CASE DelayOver
  BY <1>5 DEF DelayOver, Finish, history
<1>6. CASE Tick
  BY <1>6 DEF Tick, Urgent
<1>7. CASE UNCHANGED <<worker, shortRuns, sinceEnd>>
  BY <1>7 DEF worker
<1>8. CASE ConsumeProgress \/ ConsumeOldProgress \/ Stop
  BY <1>8 DEF ConsumeProgress, ConsumeOldProgress, Stop, history
<1> QED
  BY <1>1, <1>2, <1>3, <1>4, <1>5, <1>6, <1>7, <1>8
  DEF WorkerNext, Thread, Report, FFmpegExits, workerVars, history

LEMMA StopTimesStep ==
    ASSUME WorkerTypeOK, StopInTime, [WorkerNext]_workerVars PROVE StopInTime'
<1> USE TimesAre DEF StopInTime, Least, WorkerTypeOK
<1>1. CASE BeginRun \/ LoopEnds \/ Spawned \/ SetProcess
  BY <1>1 DEF BeginRun, LoopEnds, Finish, Spawned, SetProcess, history
<1>2. CASE SpawnFails
  BY <1>2 DEF SpawnFails
<1>3. CASE Stall \/ LeavePolling \/ ForceKill \/ Reap
  BY <1>3 DEF Stall, LeavePolling, ForceKill, Reap, worker, history
<1>4. CASE ReadersJoined
  BY <1>4 DEF ReadersJoined, Finish
<1>5. CASE DelayOver
  BY <1>5 DEF DelayOver, Finish, history
<1>6. CASE Tick
  BY <1>6 DEF Tick, Urgent
<1>7. CASE UNCHANGED <<worker, sinceStop>>
  BY <1>7 DEF worker
<1>8. CASE ConsumeProgress \/ ConsumeOldProgress \/ Stop
  BY <1>8 DEF ConsumeProgress, ConsumeOldProgress, Stop, history
<1> QED
  BY <1>1, <1>2, <1>3, <1>4, <1>5, <1>6, <1>7, <1>8
  DEF WorkerNext, Thread, Report, FFmpegExits, workerVars, history

WorkerInv == WorkerTypeOK /\ CountsAgree /\ SilenceAgrees /\ Paced /\ StopInTime

LEMMA WorkerInvHolds == WorkerSpec => []WorkerInv
<1>1. WorkerInit => WorkerInv
  <2> SUFFICES ASSUME WorkerInit PROVE WorkerInv
    OBVIOUS
  <2>1. WorkerTypeOK
    <3>1. /\ 0 \in 0 .. MaxTotal /\ 0 \in 0 .. StallAfter + 1 /\ 1 \in 1 .. LastBackoff /\ 0 \in 0 .. LastBackoff
          /\ 0 \in 0 .. ResetAfter /\ LongestDelay \in 0 .. LongestDelay /\ 0 \in 0 .. StopTakes + 1
      BY TimesAre, DelaysAre, LongestDelayIs
    <3>2. stop \in BOOLEAN /\ alive \in BOOLEAN /\ known \in BOOLEAN /\ signalled \in BOOLEAN /\ misread \in BOOLEAN
      BY DEF WorkerInit
    <3> QED
      BY <3>1, <3>2 DEF WorkerInit, WorkerTypeOK, NoLine
  <2>2. CountsAgree /\ SilenceAgrees
    BY DEF WorkerInit, CountsAgree, SilenceAgrees, InRun
  <2>3. Paced /\ StopInTime
    BY DelaysAre DEF WorkerInit, Paced, StopInTime, Least
  <2> QED
    BY <2>1, <2>2, <2>3 DEF WorkerInv
<1>2. WorkerInv /\ [WorkerNext]_workerVars => WorkerInv'
  BY WorkerTypesStep, CountsStep, SilenceStep, PacedStep, StopTimesStep DEF WorkerInv
<1> QED
  BY <1>1, <1>2, PTL DEF WorkerSpec

\* Types of the worker's fields, for every timing; the reader never counts more than was
\* reported, and FFmpeg lives only in a run (relay_agent/worker.py 198-300).
THEOREM WorkerTypeCorrect == WorkerSpec => []WorkerTypeOK
<1>1. WorkerInv => WorkerTypeOK
  BY DEF WorkerInv
<1> QED
  BY <1>1, WorkerInvHolds, PTL

\* FFmpeg is never left silent, as long as no line of an earlier run was counted: the stall
\* test sees every silence (relay_agent/worker.py 183-188 and 254-267).
THEOREM SilenceStaysBounded == WorkerSpec => []SilenceIsBounded
<1>1. WorkerInv => SilenceIsBounded
  BY TimesAre DEF WorkerInv, WorkerTypeOK, SilenceAgrees, SilenceIsBounded, NoLine
<1> QED
  BY <1>1, WorkerInvHolds, PTL

\* An FFmpeg that is killed for a stall reported nothing new for as long as that, or does so
\* in that instant (relay_agent/worker.py 183-188 and 254-267).
THEOREM StallsAreReal == WorkerSpec => NoFalseStall
<1>1. WorkerInv /\ [WorkerNext]_workerVars
        => [Stall /\ ~misread => silent > StallAfter \/ line # NoLine]_workerVars
  BY DEF WorkerInv, WorkerTypeOK, SilenceAgrees, Stall, NoLine
<1> QED
  BY <1>1, WorkerInvHolds, PTL DEF WorkerSpec, NoFalseStall

\* The n-th short run in a row is followed by at least the n-th delay, for every list of
\* delays (relay_agent/worker.py 217-228 and 293-298).
THEOREM RestartsStayPaced == WorkerSpec => RestartsArePaced
<1>1. WorkerInv /\ [WorkerNext]_workerVars
        => [Spawned /\ shortRuns > 0 => sinceEnd >= Backoffs[shortRuns]]_workerVars
  BY DEF WorkerInv, Paced, Spawned
<1> QED
  BY <1>1, WorkerInvHolds, PTL DEF WorkerSpec, RestartsArePaced

\* stop() is over in time, at whatever line it finds the thread (relay_agent/worker.py
\* 268-276 and 301-312).
THEOREM StopStaysPrompt == WorkerSpec => []StopIsPrompt
<1>1. WorkerInv => StopIsPrompt
  BY TimesAre DEF WorkerInv, WorkerTypeOK, StopInTime, StopIsPrompt
<1> QED
  BY <1>1, WorkerInvHolds, PTL

\* What becomes of the record that the supervisor sees when a part of it changes.
LifeRecord(s, f, t) == [stop |-> s, ffmpeg |-> f, thread |-> t]

LEMMA LifeParts ==
    \A s, f, t :
        /\ LifeRecord(s, f, t).stop = s
        /\ LifeRecord(s, f, t).ffmpeg = f
        /\ LifeRecord(s, f, t).thread = t
  BY DEF LifeRecord

LEMMA LifeTold ==
    \A s, f, t, x : [LifeRecord(s, f, t) EXCEPT !.stop = x] = LifeRecord(x, f, t)
  BY DEF LifeRecord

LEMMA LifeGone ==
    \A s, f, t, x : [LifeRecord(s, f, t) EXCEPT !.ffmpeg = x] = LifeRecord(s, x, t)
  BY DEF LifeRecord

LEMMA LifeMoved ==
    \A s, f, t, x : [LifeRecord(s, f, t) EXCEPT !.thread = x] = LifeRecord(s, f, x)
  BY DEF LifeRecord

\* Every step of the worker is a move of the life its supervisor knows, or none: what
\* WorkerSupervisor assumes of its workers, module WorkerLife, is what they do
\* (relay_agent/worker.py 198-312).
THEOREM WorkerMovesAsAWorker == WorkerSpec => SeenLife!Init /\ [][SeenLife!Next]_Seen
<1> DEFINE Line == CASE thread \in {"top", "backoff", "failed"} -> "pausing"
                     [] thread \in {"spawned", "running"} -> "running"
                     [] thread \in {"reaping", "joining"} -> "reaping"
                     [] OTHER -> thread
<1>1. WorkerInit => SeenLife!Init
  BY DEF WorkerInit, SeenLife!Init, Seen
<1>2. WorkerInv /\ [WorkerNext]_workerVars => [SeenLife!Next]_Seen
  <2> SUFFICES ASSUME WorkerTypeOK, [WorkerNext]_workerVars PROVE [SeenLife!Next]_Seen
    BY DEF WorkerInv
  <2>1. Seen = LifeRecord(stop, alive, Line) /\ Seen' = LifeRecord(stop', alive', Line')
    BY DEF Seen, LifeRecord
  <2>2. /\ Seen.stop = stop /\ Seen.ffmpeg = alive /\ Seen.thread = Line
        /\ SeenLife!Told = LifeRecord(TRUE, alive, Line)
        /\ SeenLife!Ended = LifeRecord(stop, alive, "ended")
        /\ SeenLife!Gone = LifeRecord(stop, FALSE, Line)
        /\ SeenLife!Started = LifeRecord(stop, alive, "pausing")
        /\ [Seen EXCEPT !.thread = "spawning"] = LifeRecord(stop, alive, "spawning")
        /\ [Seen EXCEPT !.thread = "reaping"] = LifeRecord(stop, alive, "reaping")
        /\ [Seen EXCEPT !.thread = "running", !.ffmpeg = TRUE] = LifeRecord(stop, TRUE, "running")
    <3> HIDE DEF Line
    <3>1. Seen.stop = stop /\ Seen.ffmpeg = alive /\ Seen.thread = Line
      BY <2>1, LifeParts
    <3>2. SeenLife!Told = LifeRecord(TRUE, alive, Line)
      <4>1. \A x : [Seen EXCEPT !.stop = x] = LifeRecord(x, alive, Line)
        BY <2>1, LifeTold
      <4> QED BY <4>1, Zenon DEF SeenLife!Told
    <3>3. SeenLife!Ended = LifeRecord(stop, alive, "ended")
      BY <2>1, LifeMoved DEF SeenLife!Ended
    <3>4. SeenLife!Gone = LifeRecord(stop, FALSE, Line)
      <4>1. \A x : [Seen EXCEPT !.ffmpeg = x] = LifeRecord(stop, x, Line)
        BY <2>1, LifeGone
      <4> QED BY <4>1, Zenon DEF SeenLife!Gone
    <3>5. SeenLife!Started = LifeRecord(stop, alive, "pausing")
      BY <2>1, LifeMoved DEF SeenLife!Started
    <3>6. [Seen EXCEPT !.thread = "spawning"] = LifeRecord(stop, alive, "spawning")
      BY <2>1, LifeMoved
    <3>7. [Seen EXCEPT !.thread = "reaping"] = LifeRecord(stop, alive, "reaping")
      BY <2>1, LifeMoved
    <3>8. [Seen EXCEPT !.thread = "running", !.ffmpeg = TRUE] = LifeRecord(stop, TRUE, "running")
      <4>1. [Seen EXCEPT !.thread = "running", !.ffmpeg = TRUE]
              = [[Seen EXCEPT !.thread = "running"] EXCEPT !.ffmpeg = TRUE]
        OBVIOUS
      <4>2. [Seen EXCEPT !.thread = "running"] = LifeRecord(stop, alive, "running")
        BY <2>1, LifeMoved
      <4>3. \A y : [LifeRecord(stop, alive, "running") EXCEPT !.ffmpeg = y] = LifeRecord(stop, y, "running")
        BY LifeGone
      <4> QED BY <4>1, <4>2, <4>3, Zenon
    <3> QED BY <3>1, <3>2, <3>3, <3>4, <3>5, <3>6, <3>7, <3>8
  <2>3. CASE BeginRun
    <3>1. Line = "pausing" /\ ~stop /\ Seen' = LifeRecord(stop, alive, "spawning")
      BY <2>1, <2>3 DEF BeginRun, process
    <3> QED BY <2>2, <3>1 DEF SeenLife!Next, SeenLife!ThreadMoves
  <2>4. CASE LoopEnds
    <3>1. Line = "pausing" /\ stop /\ Seen' = LifeRecord(stop, alive, "ended")
      BY <2>1, <2>4 DEF LoopEnds, Finish, process
    <3> QED BY <2>2, <3>1 DEF SeenLife!Next, SeenLife!ThreadMoves
  <2>5. CASE Spawned
    <3>1. Line = "spawning" /\ stop' = stop /\ alive' = TRUE /\ Line' = "running"
      BY <2>5 DEF Spawned
    <3> QED BY <2>1, <2>2, <3>1 DEF SeenLife!Next, SeenLife!ThreadMoves
  <2>6. CASE SpawnFails
    <3>1. Line = "spawning" /\ Seen' = LifeRecord(stop, alive, "pausing")
      BY <2>1, <2>6 DEF SpawnFails, process
    <3> QED BY <2>2, <3>1 DEF SeenLife!Next, SeenLife!ThreadMoves
  <2>7. CASE Stall
    <3>1. Line = "running" /\ alive /\ Seen' = LifeRecord(stop, alive, "reaping")
      BY <2>1, <2>7 DEF Stall
    <3> QED BY <2>2, <3>1 DEF SeenLife!Next, SeenLife!FFmpegMoves
  <2>8. CASE LeavePolling
    <3>1. Line = "running" /\ (stop \/ ~alive) /\ Seen' = LifeRecord(stop, alive, "reaping")
      BY <2>1, <2>8 DEF LeavePolling
    <3> QED BY <2>2, <3>1 DEF SeenLife!Next, SeenLife!ThreadMoves
  <2>9. CASE ForceKill \/ FFmpegExits
    <3>1. alive /\ stop' = stop /\ alive' = FALSE /\ Line' = Line
      BY <2>9 DEF ForceKill, FFmpegExits, worker
    <3> QED BY <2>1, <2>2, <3>1 DEF SeenLife!Next, SeenLife!FFmpegMoves
  <2>10. CASE ReadersJoined
    <3>1. Line = "reaping" /\ ~alive
      BY <2>10 DEF ReadersJoined, WorkerTypeOK
    <3>2. Seen' = IF stop THEN LifeRecord(stop, alive, "ended") ELSE LifeRecord(stop, alive, "pausing")
      BY <2>1, <2>10 DEF ReadersJoined, Finish
    <3> QED BY <2>2, <3>1, <3>2 DEF SeenLife!Next, SeenLife!ThreadMoves
  <2>11. CASE DelayOver
    <3>1. Line = "pausing" /\ Seen' = IF stop THEN LifeRecord(stop, alive, "ended") ELSE Seen
      BY <2>1, <2>11 DEF DelayOver, Finish, process
    <3> QED BY <2>2, <3>1 DEF SeenLife!Next, SeenLife!ThreadMoves
  <2>12. CASE Stop
    <3>1. stop' = TRUE /\ alive' = alive /\ Line' = Line
      BY <2>12 DEF Stop
    <3> QED BY <2>1, <2>2, <3>1 DEF SeenLife!Next
  <2>13. CASE SetProcess \/ Reap
    BY <2>1, <2>13 DEF SetProcess, Reap, process
  <2>14. CASE (\E total \in 0 .. MaxTotal : Report(total)) \/ ConsumeProgress \/ ConsumeOldProgress
                \/ Tick \/ UNCHANGED workerVars
    BY <2>14 DEF Report, ConsumeProgress, ConsumeOldProgress, Tick, workerVars, worker, process, Seen
  <2> QED
    BY <2>3, <2>4, <2>5, <2>6, <2>7, <2>8, <2>9, <2>10, <2>11, <2>12, <2>13, <2>14
    DEF WorkerNext, Thread
<1> QED
  BY <1>1, <1>2, WorkerInvHolds, PTL DEF WorkerSpec

===============================================================================
