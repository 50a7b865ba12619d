--------------------------- MODULE StateStoreProofs ---------------------------
(***************************************************************************)
(* What StateStore guarantees for every set of generations, contents and   *)
(* PIDs, every clock bound and tolerance.                                  *)
(***************************************************************************)
EXTENDS StateStore, TLAPS

\* A file record keeps its type under every operation of AtomicFile
\* (relay_agent/state_store.py _atomic_secret_json).
LEMMA FileTypes ==
    ASSUME NEW content, NEW pids,
           NEW f \in FileOf(content, pids), NEW p \in pids, NEW v \in content
    PROVE  /\ TempCreated(f, p) \in FileOf(content, pids)
           /\ TempUnlinked(f, p) \in FileOf(content, pids)
           /\ Renamed(f, p, v) \in FileOf(content, pids)
           /\ DirectorySynced(f) \in FileOf(content, pids)
           /\ AfterPowerLoss(f) \subseteq FileOf(content, pids)
  BY DEF FileOf, TempCreated, TempUnlinked, Renamed, DirectorySynced, AfterPowerLoss

\* The acceptance order is reflexive and transitive: a chain of accepted
\* envelopes never leads back (accept_remote's comparisons, lines 196-214).
LEMMA AtLeastReflexive ==
    ASSUME NEW e \in Envelope PROVE AtLeast(e, e)
  BY GenerationsAssumption, TimeAssumption DEF Envelope, AtLeast, Refreshes, Times

LEMMA AtLeastTransitive ==
    ASSUME NEW a \in Envelope, NEW b \in Envelope, NEW c \in Envelope \cup {None},
           AtLeast(a, b), AtLeast(b, c)
    PROVE  AtLeast(a, c)
<1> SUFFICES ASSUME c # None PROVE a.gen > c.gen \/ Refreshes(a, c)
  BY DEF AtLeast
<1>1. ASSUME NEW e \in Envelope
      PROVE  e.gen \in Nat /\ e.issued \in Nat /\ e.expires \in Nat
  <2>1. e.gen \in Generations /\ e.issued \in Times /\ e.expires \in Times
    BY DEF Envelope
  <2>2. \A t \in Times : t \in Nat
    BY TimeAssumption DEF Times
  <2>3. \A g \in Generations : g \in Nat
    BY GenerationsAssumption
  <2> HIDE DEF Times
  <2> QED BY <2>1, <2>2, <2>3
<1>2. a.gen > b.gen \/ Refreshes(a, b)
  BY NoneAssumption DEF AtLeast
<1>3. b.gen > c.gen \/ Refreshes(b, c)
  BY DEF AtLeast
<1> QED
  BY <1>1, <1>2, <1>3 DEF Refreshes

-------------------------------------------------------------------------------
\* Every variable of the store keeps its type, and the loop holds an envelope
\* exactly while it works on one (relay_agent/state_store.py StateStore).
THEOREM TypeCorrect == Spec => []TypeOK
<1>1. Init => TypeOK
  BY TimeAssumption, NoneAssumption
     DEF Init, TypeOK, Times, EmptyFile, FileOf, Working
<1>2. TypeOK /\ [Next]_vars => TypeOK'
  <2> SUFFICES ASSUME TypeOK, [Next]_vars PROVE TypeOK'
    OBVIOUS
  <2> USE NoneAssumption DEF TypeOK, Working
  <2>1. ASSUME NEW p \in Pids, Start(p) PROVE TypeOK'
    BY <2>1 DEF Start, FileOf
  <2>2. ASSUME NEW e \in Envelope, Fetch(e) PROVE TypeOK'
    BY <2>2 DEF Fetch
  <2>3. CASE FetchFails
    BY <2>3 DEF FetchFails
  <2>4. CASE Refuse
    BY <2>4 DEF Refuse
  <2>5. CASE Replay
    BY <2>5 DEF Replay
  <2>6. CASE CreateTemp
    <3>1. file' \in FileOf(Envelope, Pids)
      BY <2>6 DEF CreateTemp, FileOf, TempCreated
    <3> QED BY <2>6, <3>1 DEF CreateTemp
  <2>7. CASE CreateTempFails
    BY <2>7 DEF CreateTempFails
  <2>8. CASE Rename
    <3>1. file' \in FileOf(Envelope, Pids)
      BY <2>8, FileTypes DEF Rename
    <3> QED BY <2>8, <3>1 DEF Rename
  <2>9. CASE SyncDirectory
    <3>1. file' \in FileOf(Envelope, Pids)
      BY <2>9 DEF SyncDirectory, FileOf, DirectorySynced
    <3> QED BY <2>9, <3>1 DEF SyncDirectory
  <2>10. CASE WriteFails
    <3>1. file' \in FileOf(Envelope, Pids)
      BY <2>10 DEF WriteFails, FileOf, TempUnlinked
    <3> QED BY <2>10, <3>1 DEF WriteFails
  <2>11. CASE Publish
    BY <2>11 DEF Publish
  <2>12. CASE Kill
    BY <2>12 DEF Kill
  <2>13. CASE PowerLoss
    <3>1. file' \in FileOf(Envelope, Pids)
      BY <2>13 DEF PowerLoss, FileOf, AfterPowerLoss
    <3> QED BY <2>13, <3>1 DEF PowerLoss
  <2>14. CASE Tick
    BY <2>14, TimeAssumption DEF Tick, Times
  <2>15. CASE ClockStepsBack
    BY <2>15, TimeAssumption DEF ClockStepsBack, Times
  <2>16. CASE UNCHANGED vars
    BY <2>16 DEF vars
  <2> QED
    BY <2>1, <2>2, <2>3, <2>4, <2>5, <2>6, <2>7, <2>8, <2>9, <2>10, <2>11,
       <2>12, <2>13, <2>14, <2>15, <2>16 DEF Next
<1> QED
  BY <1>1, <1>2, PTL DEF Spec

-------------------------------------------------------------------------------
\* A step that ends in trust began in trust.
LEMMA TrustIsNotRegained ==
    ASSUME [Next]_vars, Trusted' PROVE Trusted
  BY DEF Trusted, vars, Next, Start, Fetch, FetchFails, Refuse, Replay, CreateTemp,
     CreateTempFails, Rename, SyncDirectory, WriteFails, Publish, Kill, PowerLoss, Tick,
     ClockStepsBack

\* As long as trust lasts, the disk, the memory and the envelope in hand stay
\* ordered through every kill and power loss (relay_agent/state_store.py
\* 192-229: write the cache, then publish; 173-190: load what was written).
THEOREM StoreInvariantHolds == Spec => []StoreInvariant
<1>1. Init => StoreInvariant
  <2> SUFFICES ASSUME Init PROVE StoreInvariant
    OBVIOUS
  <2>1. TypeOK
    BY TimeAssumption, NoneAssumption DEF Init, TypeOK, Times, EmptyFile, FileOf, Working
  <2> QED
    BY <2>1 DEF Init, StoreInvariant, ReadersSeeMemory, StaysAvailable, ServedIsOnDisk,
       DiskIsLoadable, Loadable, HandIsNext, WriteProgress, EmptyFile
<1>2. TypeOK /\ TypeOK' /\ StoreInvariant /\ [Next]_vars => StoreInvariant'
  <2> DEFINE Rest ==
        /\ ReadersSeeMemory /\ StaysAvailable /\ ServedIsOnDisk /\ DiskIsLoadable
        /\ HandIsNext /\ WriteProgress
  <2> SUFFICES ASSUME TypeOK, TypeOK', StoreInvariant, [Next]_vars, Trusted' PROVE Rest'
    BY DEF StoreInvariant
  <2>0. Trusted /\ Rest
    BY TrustIsNotRegained DEF StoreInvariant
  <2> USE <2>0, NoneAssumption
  <2>1. ASSUME NEW p \in Pids, Start(p) PROVE Rest'
    <3> DEFINE usable == file.visible # None /\ CacheUsable(file.visible, now)
    <3>1. file' = file /\ now' = now /\ pc = "down" /\ pc' = "idle"
      BY <2>1 DEF Start
    <3>2. trust' = "durable" => file.visible = file.durable
      BY <2>1 DEF Start
    <3>3. CASE usable
      <4>1. mem' = file.visible /\ served' = file.visible
        BY <2>1, <3>3 DEF Start
      <4>2. file.visible \in Envelope
        BY <3>3 DEF TypeOK, FileOf
      <4>3. ServedIsOnDisk'
        BY <3>1, <3>2, <4>1, <4>2, AtLeastReflexive DEF ServedIsOnDisk, Surviving
      <4> QED
        BY <3>1, <4>1, <4>2, <4>3 DEF ReadersSeeMemory, StaysAvailable, DiskIsLoadable,
           Loadable, HandIsNext, WriteProgress
    <3>4. CASE ~usable
      <4>1. mem' = None /\ served' = served
        BY <2>1, <3>4 DEF Start
      <4>2. file.visible = None
        BY <3>4 DEF DiskIsLoadable, Loadable
      <4>3. served = None
        BY <4>2 DEF ServedIsOnDisk, Surviving
      <4> QED
        BY <3>1, <4>1, <4>3 DEF ReadersSeeMemory, StaysAvailable, ServedIsOnDisk,
           DiskIsLoadable, Loadable, HandIsNext, WriteProgress
    <3> QED BY <3>3, <3>4
  \* A step that leaves clock, file, memory and history alone and does not enter
  \* the writing phases preserves every part.
  <2>2. ASSUME UNCHANGED <<now, file, mem, served, trust>>, pc # "down", pc' # "down",
               pc' \notin {"temp", "renamed", "synced"}
        PROVE  Rest'
    BY <2>2 DEF ReadersSeeMemory, StaysAvailable, ServedIsOnDisk, Surviving, Trusted,
       DiskIsLoadable, Loadable, HandIsNext, WriteProgress
  <2>3. ASSUME NEW e \in Envelope, Fetch(e) PROVE Rest'
    BY <2>2, <2>3 DEF Fetch
  <2>4. CASE FetchFails
    BY <2>2, <2>4 DEF FetchFails
  <2>5. CASE Refuse
    BY <2>2, <2>5 DEF Refuse
  <2>6. CASE Replay
    BY <2>2, <2>6 DEF Replay
  <2>7. CASE CreateTempFails
    BY <2>2, <2>7 DEF CreateTempFails
  <2>8. CASE CreateTemp
    <3>1. file'.visible = file.visible /\ file'.durable = file.durable
      BY <2>8 DEF CreateTemp, TempCreated, TypeOK, FileOf
    <3>2. HandIsNext'
      BY <2>8 DEF CreateTemp, HandIsNext, Acceptable, RemoteValid
    <3> QED
      BY <2>8, <3>1, <3>2 DEF CreateTemp, ReadersSeeMemory, StaysAvailable, ServedIsOnDisk,
         Surviving, Trusted, DiskIsLoadable, Loadable, WriteProgress
  <2>9. CASE Rename
    <3>1. /\ file'.visible = hand /\ file'.durable = file.durable
          /\ pc = "temp" /\ pc' = "renamed"
          /\ UNCHANGED <<now, mem, served, hand, trust>>
      BY <2>9 DEF Rename, Renamed, TypeOK, FileOf
    <3>2. hand \in Envelope /\ AtLeast(hand, mem) /\ CacheUsable(hand, now)
      BY <3>1 DEF TypeOK, Working, HandIsNext
    <3>3. ServedIsOnDisk'
      <4>1. served # None => AtLeast(hand, served)
        BY <3>1, <3>2 DEF ReadersSeeMemory, StaysAvailable
      <4> QED BY <3>1, <3>2, <4>1 DEF ServedIsOnDisk, Surviving, Trusted
    <3> QED
      BY <3>1, <3>2, <3>3 DEF ReadersSeeMemory, StaysAvailable, DiskIsLoadable, Loadable,
         HandIsNext, WriteProgress
  <2>10. CASE SyncDirectory
    <3>1. /\ file'.visible = file.visible /\ file'.durable = file.visible
          /\ pc = "renamed" /\ pc' = "synced"
          /\ UNCHANGED <<now, mem, served, hand>>
      BY <2>10 DEF SyncDirectory, DirectorySynced, TypeOK, FileOf
    <3> QED
      BY <3>1 DEF ReadersSeeMemory, StaysAvailable, ServedIsOnDisk, Surviving,
         DiskIsLoadable, Loadable, HandIsNext, WriteProgress
  <2>11. CASE WriteFails
    <3>1. /\ file'.visible = file.visible /\ file'.durable = file.durable
          /\ pc # "down" /\ pc' = "dead" /\ UNCHANGED <<now, mem, served, trust>>
      BY <2>11 DEF WriteFails, TempUnlinked, TypeOK, FileOf
    <3> QED
      BY <3>1 DEF ReadersSeeMemory, StaysAvailable, ServedIsOnDisk, Surviving, Trusted,
         DiskIsLoadable, Loadable, HandIsNext, WriteProgress
  <2>12. CASE Publish
    <3>1. /\ mem' = hand /\ served' = hand /\ pc = "synced" /\ pc' = "idle"
          /\ UNCHANGED <<now, file>>
      BY <2>12 DEF Publish
    <3>2. hand \in Envelope /\ file.visible = hand /\ file.durable = hand
      BY <3>1 DEF TypeOK, Working, WriteProgress
    <3>3. ServedIsOnDisk'
      BY <3>1, <3>2, AtLeastReflexive DEF ServedIsOnDisk, Surviving
    <3> QED
      BY <3>1, <3>2, <3>3 DEF ReadersSeeMemory, StaysAvailable, DiskIsLoadable, Loadable,
         HandIsNext, WriteProgress
  <2>13. CASE Kill
    BY <2>13 DEF Kill, ReadersSeeMemory, StaysAvailable, ServedIsOnDisk, Surviving, Trusted,
       DiskIsLoadable, Loadable, HandIsNext, WriteProgress
  <2>14. CASE PowerLoss
    <3>1. mem' = None /\ pc' = "down" /\ UNCHANGED <<now, served>>
      BY <2>14 DEF PowerLoss
    <3>2. trust = "durable"
      BY <2>14 DEF PowerLoss, Trusted
    <3>3. /\ file'.visible = file'.durable
          /\ file'.visible \in {file.visible, file.durable}
      BY <2>14 DEF PowerLoss, AfterPowerLoss, TypeOK, FileOf
    <3>4. ServedIsOnDisk'
      BY <3>1, <3>2, <3>3 DEF ServedIsOnDisk, Surviving
    <3> QED
      BY <3>1, <3>3, <3>4 DEF ReadersSeeMemory, StaysAvailable, DiskIsLoadable, Loadable,
         HandIsNext, WriteProgress
  <2>15. CASE Tick
    <3>1. /\ now' = now + 1 /\ UNCHANGED <<file, mem, pc, hand, served, trust>>
      BY <2>15 DEF Tick
    <3>2. ASSUME NEW e \in Envelope, CacheUsable(e, now) PROVE CacheUsable(e, now')
      BY <3>1, <3>2, TimeAssumption DEF CacheUsable, TypeOK, Envelope, Times
    <3>3. DiskIsLoadable'
      BY <3>1, <3>2 DEF DiskIsLoadable, Loadable, TypeOK, FileOf
    <3>4. HandIsNext'
      BY <3>1, <3>2 DEF HandIsNext, TypeOK, Working
    <3> QED
      BY <3>1, <3>3, <3>4 DEF ReadersSeeMemory, StaysAvailable, ServedIsOnDisk, Surviving,
         Trusted, WriteProgress
  <2>16. CASE ClockStepsBack
    BY <2>16 DEF ClockStepsBack, Trusted
  <2>17. CASE UNCHANGED vars
    BY <2>17 DEF vars, ReadersSeeMemory, StaysAvailable, ServedIsOnDisk, Surviving, Trusted,
       DiskIsLoadable, Loadable, HandIsNext, WriteProgress
  <2> QED
    BY <2>1, <2>3, <2>4, <2>5, <2>6, <2>7, <2>8, <2>9, <2>10, <2>11, <2>12, <2>13,
       <2>14, <2>15, <2>16, <2>17 DEF Next
<1> QED
  BY <1>1, <1>2, TypeCorrect, PTL DEF Spec

-------------------------------------------------------------------------------
\* Once a relay has had a desired state it always has one while the agent runs
\* (load_cache, relay_agent/state_store.py 173-190).
THEOREM AlwaysAvailable == Spec => []StaysAvailable
<1>1. StoreInvariant => StaysAvailable
  BY DEF StoreInvariant, StaysAvailable
<1> QED
  BY <1>1, StoreInvariantHolds, PTL

\* What was served is still on disk, whatever crash comes next
\* (accept_remote, relay_agent/state_store.py 217-229).
THEOREM ServedSurvives == Spec => []ServedIsOnDisk
<1>1. StoreInvariant => ServedIsOnDisk
  BY DEF StoreInvariant, ServedIsOnDisk
<1> QED
  BY <1>1, StoreInvariantHolds, PTL

\* Every step taken in trust that changes memory or history makes them newer and
\* equal (load_cache and accept_remote assign nothing older).
LEMMA StepMovesForward ==
    ASSUME StoreInvariant, StoreInvariant', [Next]_vars, Trusted'
    PROVE  \/ UNCHANGED <<served, mem>>
           \/ mem' = None /\ served' = served
           \/ mem' \in Envelope /\ served' = mem' /\ mem'.authentic /\ AtLeast(mem', served)
<1> USE NoneAssumption
<1>0. Trusted
  BY TrustIsNotRegained
<1>1. ASSUME NEW p \in Pids, Start(p)
      PROVE  \/ mem' = None /\ served' = served
             \/ /\ mem' \in Envelope /\ served' = mem' /\ mem'.authentic
                /\ AtLeast(mem', served)
  <2>1. CASE mem' = None
    BY <1>1, <2>1 DEF Start
  <2>2. CASE mem' # None
    <3>1. mem' = file.visible /\ served' = mem' /\ CacheUsable(mem', now)
      BY <1>1, <2>2 DEF Start
    <3>2. mem' \in Envelope
      BY <2>2 DEF StoreInvariant, TypeOK
    <3>3. served # None => AtLeast(mem', served)
      BY <1>0, <3>1 DEF StoreInvariant, ServedIsOnDisk, Surviving
    <3> QED BY <3>1, <3>2, <3>3 DEF CacheUsable, AtLeast
  <2> QED BY <2>1, <2>2
<1>2. CASE Publish
  <2>1. mem' = hand /\ served' = hand /\ pc = "synced"
    BY <1>2 DEF Publish
  <2>2. hand \in Envelope /\ CacheUsable(hand, now) /\ AtLeast(hand, mem)
    BY <1>0, <2>1 DEF StoreInvariant, TypeOK, Working, HandIsNext
  <2>3. served # None => served = mem
    BY <1>0, <2>1 DEF StoreInvariant, StaysAvailable, ReadersSeeMemory
  <2> QED BY <2>1, <2>2, <2>3 DEF CacheUsable, AtLeast
<1>3. CASE Kill \/ PowerLoss
  BY <1>3 DEF Kill, PowerLoss
<1>4. ASSUME \/ \E e \in Envelope : Fetch(e)
             \/ FetchFails \/ Refuse \/ Replay \/ CreateTemp \/ CreateTempFails \/ Rename
             \/ SyncDirectory \/ WriteFails \/ Tick \/ ClockStepsBack \/ UNCHANGED vars
      PROVE  UNCHANGED <<served, mem>>
  BY <1>4 DEF Fetch, FetchFails, Refuse, Replay, CreateTemp, CreateTempFails, Rename,
     SyncDirectory, WriteFails, Tick, ClockStepsBack, vars
<1> QED
  BY <1>1, <1>2, <1>3, <1>4 DEF Next

\* The desired state readers see never goes back, not even across a restart
\* (relay_agent/state_store.py:197 "desired-state generation rollback refused").
THEOREM NeverRollsBack == Spec => NoRollback
<1>1. StoreInvariant /\ StoreInvariant' /\ [Next]_vars
      => [served' # served /\ Trusted' => AtLeast(served', served)]_served
  BY StepMovesForward
<1> QED
  BY <1>1, StoreInvariantHolds, PTL DEF Spec, NoRollback

\* The store implements the forward-only register its readers rely on
\* (StateStore.snapshot of relay_agent/state_store.py 236-238).
THEOREM StoreImplementsRegister == Spec => ImplementsRegister
<1>1. Init => Register!RegisterInit
  BY DEF Init, Register!RegisterInit, Trusted
<1>2. StoreInvariant /\ StoreInvariant' /\ [Next]_vars
      => [Register!RegisterNext]_Register!registerVars
  <2> SUFFICES ASSUME StoreInvariant, StoreInvariant', [Next]_vars, Trusted'
               PROVE  \/ Register!Serve \/ Register!Outage
                      \/ UNCHANGED <<served, mem # None>>
    BY TrustIsNotRegained DEF Register!RegisterNext, Register!registerVars
  <2>1. CASE mem' = None /\ served' = served
    BY <2>1 DEF Register!Outage
  <2>2. CASE /\ mem' \in Envelope /\ served' = mem' /\ mem'.authentic
             /\ AtLeast(mem', served)
    <3>1. mem' # None
      BY <2>2, NoneAssumption
    <3> QED BY <2>2, <3>1 DEF Register!Serve, Register!Envelope, Envelope,
              Register!AtLeast, AtLeast, Register!Refreshes, Refreshes, Register!Times, Times
  <2>3. CASE UNCHANGED <<served, mem>>
    BY <2>3
  <2> QED
    BY <2>1, <2>2, <2>3, StepMovesForward
<1> QED
  BY <1>1, <1>2, StoreInvariantHolds, PTL DEF Spec, ImplementsRegister, Register!RegisterSpec

\* Within one process memory never goes back, whatever faults happen.
THEOREM NeverRollsBackInProcess == Spec => NoRollbackInProcess
<1> DEFINE Inv == TypeOK /\ (pc \in {"temp", "renamed", "synced"} => AtLeast(hand, mem))
<1>1. Init => Inv
  BY TypeCorrect, TimeAssumption, NoneAssumption
     DEF Init, TypeOK, Times, EmptyFile, FileOf, Working
<1>2. TypeOK' /\ Inv /\ [Next]_vars => Inv'
  BY DEF vars, Next, Start, Fetch, FetchFails, Refuse, Replay, CreateTemp, CreateTempFails,
     Rename, SyncDirectory, WriteFails, Publish, Kill, PowerLoss, Tick, ClockStepsBack,
     Acceptable
<1>3. Inv /\ [Next]_vars
      => [pc # "down" /\ pc' # "down" /\ mem' # mem
          => mem' # None /\ AtLeast(mem', mem)]_<<mem, pc>>
  <2> SUFFICES ASSUME Inv, [Next]_vars, pc # "down", pc' # "down", mem' # mem
               PROVE  mem' # None /\ AtLeast(mem', mem)
    OBVIOUS
  <2>1. Publish
    BY DEF vars, Next, Start, Fetch, FetchFails, Refuse, Replay, CreateTemp, CreateTempFails,
       Rename, SyncDirectory, WriteFails, Kill, PowerLoss, Tick, ClockStepsBack
  <2> QED BY <2>1 DEF Publish, TypeOK, Working
<1> QED
  BY <1>1, <1>2, <1>3, TypeCorrect, PTL DEF Spec, NoRollbackInProcess
===============================================================================
