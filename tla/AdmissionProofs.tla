----------------------------- MODULE AdmissionProofs -----------------------------
(***************************************************************************)
(* What Admission guarantees for every set of paths, every cap and all     *)
(* times that fit each other (ReservationOutlasts): as long as nothing     *)
(* disturbs the count, no publisher goes uncounted, and the cap is kept.   *)
(***************************************************************************)
EXTENDS Admission, TLAPS, FiniteSetTheorems

\* The parts of TypeOK, one per owner of the variables.
ControllerOK ==
    /\ checked \subseteq Paths /\ max \in Caps /\ ready \subseteq Paths
    /\ left \in [Paths -> 0 .. ReservationTTL]
    /\ ready \cap Reserved = {}

MediaMTXOK ==
    /\ publishing \subseteq Paths /\ connecting \subseteq Paths
    /\ due \in [Paths -> 0 .. ConnectWithin]

OthersOK ==
    /\ streams \subseteq Paths
    /\ polling \in BOOLEAN
    /\ listed \in {NoList} \cup {ListOf(S) : S \in SUBSET Paths}
    /\ sinceList \in 0 .. PollWithin
    /\ disturbed \in BOOLEAN

LEMMA ListTypes ==
    /\ \A S \in SUBSET Paths : ListOf(S) # NoList /\ ListOf(S).paths = S
    /\ \A l \in {NoList} \cup {ListOf(S) : S \in SUBSET Paths} : l # NoList => l.paths \subseteq Paths
  BY DEF ListOf, NoList

LEMMA Times == ReservationTTL \in Nat /\ ReservationTTL > 0 /\ ConnectWithin \in Nat /\ PollWithin \in Nat
  BY TimingAssumption

\* The controller's fields and MediaMTX's sets keep their types; a path is never ready and
\* reserved at once (relay_agent/http_server.py 49-84).
THEOREM AdmissionTypeCorrect == Spec => []TypeOK
<1> USE Times
<1>1. Init => TypeOK
  <2> SUFFICES ASSUME Init PROVE ControllerOK /\ MediaMTXOK /\ OthersOK
    BY DEF TypeOK, ControllerOK, MediaMTXOK, OthersOK
  <2>1. ControllerOK
    BY DEF Init, ControllerOK, Reserved
  <2>2. MediaMTXOK
    BY DEF Init, MediaMTXOK
  <2>3. OthersOK
    <3>1. streams \subseteq Paths /\ sinceList \in 0 .. PollWithin
      BY DEF Init
    <3>2. polling \in BOOLEAN /\ disturbed \in BOOLEAN
      BY DEF Init
    <3> QED BY <3>1, <3>2 DEF Init, OthersOK
  <2> QED BY <2>1, <2>2, <2>3
<1>2. TypeOK /\ [Next]_vars => TypeOK'
  <2> SUFFICES ASSUME ControllerOK, MediaMTXOK, OthersOK, [Next]_vars
               PROVE  ControllerOK' /\ MediaMTXOK' /\ OthersOK'
    BY DEF TypeOK, ControllerOK, MediaMTXOK, OthersOK, Reserved
  <2> USE DEF agentVars, externalVars
  <2>1. ASSUME NEW p \in Paths, CheckRequest(p) \/ PassAgain(p) \/ Deny(p)
        PROVE  ControllerOK' /\ MediaMTXOK' /\ OthersOK'
    <3>1. ControllerOK'
      BY <2>1 DEF CheckRequest, PassAgain, Deny, ControllerOK, OthersOK, Reserved
    <3>2. MediaMTXOK'
      BY <2>1 DEF CheckRequest, PassAgain, Deny, Admitted, MediaMTXOK
    <3>3. OthersOK'
      BY <2>1 DEF CheckRequest, PassAgain, Deny, OthersOK
    <3> QED BY <3>1, <3>2, <3>3
  <2>2. ASSUME NEW p \in Paths, Reserve(p) PROVE ControllerOK' /\ MediaMTXOK' /\ OthersOK'
    <3>1. ControllerOK'
      BY <2>2 DEF Reserve, ControllerOK, Reserved, Occupied
    <3>2. MediaMTXOK'
      BY <2>2 DEF Reserve, Admitted, MediaMTXOK
    <3> QED BY <2>2, <3>1, <3>2 DEF Reserve, OthersOK
  <2>3. ASSUME NEW p \in Paths, GoesOnline(p) \/ ConnectFails(p) \/ Disconnects(p)
        PROVE  ControllerOK' /\ MediaMTXOK' /\ OthersOK'
    BY <2>3 DEF GoesOnline, ConnectFails, Disconnects, ControllerOK, MediaMTXOK, OthersOK, Reserved
  <2>4. CASE List
    <3>1. ControllerOK' /\ MediaMTXOK'
      BY <2>4 DEF List, ControllerOK, MediaMTXOK, Reserved
    <3>2. streams' \subseteq Paths /\ listed' = ListOf(publishing) /\ publishing \subseteq Paths
          /\ sinceList' \in 0 .. PollWithin
      BY <2>4 DEF List, OthersOK, MediaMTXOK
    <3>3. polling' = polling /\ disturbed' = disturbed
      BY <2>4 DEF List
    <3> QED BY <3>1, <3>2, <3>3 DEF OthersOK
  <2>4a. CASE PathLoopEnds
    <3>1. ControllerOK' /\ MediaMTXOK'
      BY <2>4a DEF PathLoopEnds, ControllerOK, MediaMTXOK, Reserved
    <3> QED BY <2>4a, <3>1 DEF PathLoopEnds, OthersOK
  <2>5. CASE UpdateReadyPaths
    <3>1. listed.paths \subseteq Paths
      BY <2>5, ListTypes DEF UpdateReadyPaths, Updated, OthersOK
    <3>2. ControllerOK'
      BY <2>5, <3>1 DEF UpdateReadyPaths, Updated, Confirmed, ControllerOK, Reserved
    <3> QED BY <2>5, <3>2 DEF UpdateReadyPaths, Updated, MediaMTXOK, OthersOK
  <2>6. ASSUME NEW cap \in Caps, SetMaxServerConnections(cap)
        PROVE  ControllerOK' /\ MediaMTXOK' /\ OthersOK'
    BY <2>6 DEF SetMaxServerConnections, ControllerOK, MediaMTXOK, OthersOK, Reserved
  <2>7. ASSUME NEW S \in SUBSET Paths, SetStreams(S)
        PROVE  ControllerOK' /\ MediaMTXOK' /\ OthersOK'
    BY <2>7 DEF SetStreams, ControllerOK, MediaMTXOK, OthersOK, Reserved
  <2>8. CASE Restart
    BY <2>8 DEF Restart, ControllerOK, MediaMTXOK, OthersOK, Reserved
  <2>9. CASE Tick
    <3>1. ControllerOK'
      BY <2>9 DEF Tick, ControllerOK, Reserved
    <3>2. MediaMTXOK'
      BY <2>9 DEF Tick, MediaMTXOK
    <3> QED BY <2>9, <3>1, <3>2 DEF Tick, OthersOK
  <2>10. CASE UNCHANGED vars
    BY <2>10 DEF vars, ControllerOK, MediaMTXOK, OthersOK, Reserved
  <2> QED
    BY <2>1, <2>2, <2>3, <2>4, <2>4a, <2>5, <2>6, <2>7, <2>8, <2>9, <2>10 DEF Next
<1> QED
  BY <1>1, <1>2, PTL DEF Spec

-------------------------------------------------------------------------------
\* The paths of the list on its way.
Listed == IF listed = NoList THEN {} ELSE listed.paths

\* Nobody asks for a path that is still remembered.
RequestsAreNew == checked \cap Remembered = {}

\* A connecting publisher is neither online nor listed nor ready yet, and its reservation
\* lasts until it is online, listed, and the list applied.
ConnectingIsReserved ==
    \A p \in connecting :
        /\ p \notin publishing \cup ready \cup Listed
        /\ left[p] > due[p] + 2 * PollWithin

\* The reservation of an online publisher lasts until the list that has it is applied;
\* one that is ready stays on every list.
OnlineIsCounted ==
    \A p \in publishing :
        IF p \in ready THEN listed # NoList => p \in Listed
        ELSE left[p] > PollWithin - sinceList + (IF p \in Listed THEN 0 ELSE PollWithin)

Counted == RequestsAreNew /\ ConnectingIsReserved /\ OnlineIsCounted
CountInv == TypeOK /\ (~disturbed => Counted)

LEMMA DeadlineTypes ==
    ASSUME TypeOK
    PROVE  /\ \A p \in Paths : left[p] \in Nat /\ left[p] <= ReservationTTL /\ due[p] \in Nat
           /\ sinceList \in Nat /\ sinceList <= PollWithin
           /\ checked \subseteq Paths /\ publishing \subseteq Paths /\ connecting \subseteq Paths
           /\ Listed \subseteq Paths
<1>1. Listed \subseteq Paths
  BY ListTypes DEF TypeOK, Listed
<1> QED
  BY <1>1, Times DEF TypeOK

\* A path somebody asks for for the first time is in no set that counts.
LEMMA NewIsUnknown ==
    ASSUME RequestsAreNew, NEW p \in checked
    PROVE  p \notin Occupied /\ p \notin Live /\ p \notin Listed
  BY DEF RequestsAreNew, Remembered, Listed

\* Without a disturbance there was none before.
LEMMA DisturbedStays == [Next]_vars => (disturbed => disturbed')
  BY DEF Next, vars, CheckRequest, PassAgain, Reserve, Deny, GoesOnline, ConnectFails, Disconnects, List,
         UpdateReadyPaths, Updated, SetMaxServerConnections, SetStreams, Restart, Tick, PathLoopEnds

LEMMA CountStep ==
    ASSUME CountInv, [Next]_vars, TypeOK', ~disturbed' PROVE Counted'
<1> DEFINE Same == UNCHANGED <<ready, left, listed, publishing, connecting, due, sinceList>>
<1> USE Times DEF agentVars, externalVars
<1>0. TypeOK /\ ~disturbed /\ RequestsAreNew /\ ConnectingIsReserved /\ OnlineIsCounted
  BY DisturbedStays DEF CountInv, Counted
<1>1. ASSUME Same PROVE /\ ConnectingIsReserved' /\ OnlineIsCounted'
                        /\ Remembered' = Remembered
  BY <1>0, <1>1 DEF ConnectingIsReserved, OnlineIsCounted, Listed, Remembered, Occupied, Reserved, Live
<1>2. ASSUME NEW p \in Paths, CheckRequest(p) PROVE Counted'
  <2>1. p \notin Remembered /\ checked' = checked \cup {p} /\ Same
    BY <1>2 DEF CheckRequest
  <2> QED BY <1>0, <1>1, <2>1 DEF RequestsAreNew, Counted
<1>3. ASSUME NEW p \in Paths, PassAgain(p) PROVE Counted'
  BY <1>0, <1>3, NewIsUnknown DEF PassAgain
<1>4. ASSUME NEW p \in Paths, Reserve(p) PROVE Counted'
  <2>1. p \notin publishing \cup ready \cup Listed /\ p \notin connecting
    BY <1>0, <1>4, NewIsUnknown DEF Reserve, Live, Occupied
  <2>2. RequestsAreNew'
    BY <1>0, <1>4 DEF Reserve, Admitted, RequestsAreNew, Remembered, Occupied, Reserved, Live, TypeOK
  <2>3. ConnectingIsReserved'
    BY <1>0, <1>4, <2>1, ReservationOutlasts
    DEF Reserve, Admitted, ConnectingIsReserved, Listed, TypeOK
  <2>4. OnlineIsCounted'
    BY <1>0, <1>4, <2>1 DEF Reserve, OnlineIsCounted, Listed, TypeOK
  <2> QED BY <2>2, <2>3, <2>4 DEF Counted
<1>5. ASSUME NEW p \in Paths, Deny(p) PROVE Counted'
  <2>1. Same /\ checked' \subseteq checked
    BY <1>5 DEF Deny
  <2> QED BY <1>0, <1>1, <2>1 DEF RequestsAreNew, Counted
<1>6. ASSUME NEW p \in Paths, GoesOnline(p) PROVE Counted'
  <2>1. left[p] > 2 * PollWithin /\ p \notin ready \cup Listed
    BY <1>0, <1>6, DeadlineTypes DEF GoesOnline, ConnectingIsReserved
  <2>2. RequestsAreNew'
    BY <1>0, <1>6 DEF GoesOnline, RequestsAreNew, Remembered, Occupied, Reserved, Live
  <2>3. ConnectingIsReserved'
    BY <1>0, <1>6 DEF GoesOnline, ConnectingIsReserved, Listed
  <2>4. OnlineIsCounted'
    BY <1>0, <1>6, <2>1, DeadlineTypes DEF GoesOnline, OnlineIsCounted, Listed
  <2> QED BY <2>2, <2>3, <2>4 DEF Counted
<1>7. ASSUME NEW p \in Paths, ConnectFails(p) \/ Disconnects(p) PROVE Counted'
  <2>1. RequestsAreNew'
    BY <1>0, <1>7 DEF ConnectFails, Disconnects, RequestsAreNew, Remembered, Occupied, Reserved, Live
  <2>2. ConnectingIsReserved' /\ OnlineIsCounted'
    BY <1>0, <1>7 DEF ConnectFails, Disconnects, ConnectingIsReserved, OnlineIsCounted, Listed
  <2> QED BY <2>1, <2>2 DEF Counted
<1>8. CASE List
  <2>1. Listed = {} /\ Listed' = publishing /\ listed = NoList
    BY <1>8, ListTypes DEF List, Listed, ListOf, NoList
  <2>2. RequestsAreNew'
    BY <1>0, <1>8, <2>1 DEF List, RequestsAreNew, Remembered, Occupied, Reserved, Live, Listed
  <2>3. ConnectingIsReserved'
    BY <1>0, <1>8, <2>1 DEF List, ConnectingIsReserved
  <2>4. OnlineIsCounted'
    BY <1>0, <1>8, <2>1, DeadlineTypes DEF List, OnlineIsCounted
  <2> QED BY <2>2, <2>3, <2>4 DEF Counted
<1>9. CASE UpdateReadyPaths
  <2>1. /\ listed # NoList /\ Listed = listed.paths /\ Listed' = {} /\ ready' = Listed
        /\ \A p \in Paths : left'[p] = IF p \in Listed THEN 0 ELSE left[p]
    BY <1>9 DEF UpdateReadyPaths, Updated, Confirmed, Listed
  <2>2. RequestsAreNew'
    BY <1>0, <1>9, <2>1, DeadlineTypes
    DEF UpdateReadyPaths, Updated, RequestsAreNew, Remembered, Occupied, Reserved, Live, Listed
  <2>3. ConnectingIsReserved'
    BY <1>0, <1>9, <2>1, DeadlineTypes DEF UpdateReadyPaths, Updated, ConnectingIsReserved
  <2>4. OnlineIsCounted'
    BY <1>0, <1>9, <2>1, DeadlineTypes DEF UpdateReadyPaths, Updated, OnlineIsCounted
  <2> QED BY <2>2, <2>3, <2>4 DEF Counted
<1>10. ASSUME NEW cap \in Caps, SetMaxServerConnections(cap) PROVE Counted'
  <2>1. Same /\ checked' = checked
    BY <1>10 DEF SetMaxServerConnections
  <2> QED BY <1>0, <1>1, <2>1 DEF RequestsAreNew, Counted
<1>11. ASSUME NEW S \in SUBSET Paths, SetStreams(S) PROVE Counted'
  <2>1. Same /\ checked' = checked
    BY <1>11 DEF SetStreams
  <2> QED BY <1>0, <1>1, <2>1 DEF RequestsAreNew, Counted
<1>12. CASE Restart
  BY <1>12 DEF Restart
<1>13. CASE Tick
  <2>1. sinceList < PollWithin /\ sinceList' = sinceList + 1
    <3>1. sinceList # PollWithin
      BY <1>13 DEF Tick
    <3> QED BY <1>0, <1>13, <3>1, DeadlineTypes DEF Tick
  <2>2. \A p \in Paths : left'[p] = IF left[p] > 0 THEN left[p] - 1 ELSE 0
    BY <1>13 DEF Tick
  <2>3. \A p \in connecting : due[p] > 0 /\ due'[p] = due[p] - 1
    BY <1>0, <1>13, DeadlineTypes DEF Tick
  <2>4. RequestsAreNew'
    <3>1. Reserved' \subseteq Reserved
      BY <2>2, <1>0, DeadlineTypes DEF Reserved
    <3> QED BY <1>0, <1>13, <3>1 DEF Tick, RequestsAreNew, Remembered, Occupied, Live
  <2>5. ConnectingIsReserved'
    BY <1>0, <1>13, <2>2, <2>3, DeadlineTypes DEF Tick, ConnectingIsReserved, Listed
  <2>6. OnlineIsCounted'
    <3> SUFFICES ASSUME NEW p \in publishing, p \notin ready
                 PROVE  left'[p] > PollWithin - sinceList' + (IF p \in Listed THEN 0 ELSE PollWithin)
      BY <1>0, <1>13 DEF Tick, OnlineIsCounted, Listed
    <3>1. left[p] > PollWithin - sinceList + (IF p \in Listed THEN 0 ELSE PollWithin) /\ p \in Paths
      BY <1>0, DeadlineTypes DEF OnlineIsCounted
    <3> QED BY <1>0, <2>1, <2>2, <3>1, DeadlineTypes
  <2> QED BY <2>4, <2>5, <2>6 DEF Counted
<1>14. CASE PathLoopEnds \/ UNCHANGED vars
  <2>1. Same /\ checked' = checked
    BY <1>14 DEF PathLoopEnds, vars
  <2> QED BY <1>0, <1>1, <2>1 DEF RequestsAreNew, Counted
<1> QED
  BY <1>2, <1>3, <1>4, <1>5, <1>6, <1>7, <1>8, <1>9, <1>10, <1>11, <1>12, <1>13, <1>14 DEF Next

LEMMA CountInvHolds == Spec => []CountInv
<1>1. Init => Counted
  <2> SUFFICES ASSUME Init PROVE checked = {} /\ connecting = {} /\ publishing = {}
    BY DEF Counted, RequestsAreNew, ConnectingIsReserved, OnlineIsCounted
  <2> QED BY DEF Init
<1>2. CountInv /\ [Next]_vars /\ TypeOK' => CountInv'
  BY CountStep DEF CountInv
<1>3. Init /\ TypeOK => CountInv
  BY <1>1 DEF CountInv
<1> QED
  BY <1>2, <1>3, AdmissionTypeCorrect, PTL DEF Spec

LEMMA CountedIsOccupied == CountInv => EveryPublisherCounted
<1> SUFFICES ASSUME CountInv, ~disturbed, NEW p \in Live PROVE p \in Occupied
  BY DEF EveryPublisherCounted
<1>0. TypeOK /\ ConnectingIsReserved /\ OnlineIsCounted
  BY DEF CountInv, Counted
<1>1. p \in Paths
  BY <1>0, DeadlineTypes DEF Live
<1>2. CASE p \in connecting
  BY <1>0, <1>1, <1>2, DeadlineTypes, Times DEF ConnectingIsReserved, Occupied, Reserved
<1>3. CASE p \in publishing
  BY <1>0, <1>1, <1>3, DeadlineTypes, Times DEF OnlineIsCounted, Occupied, Reserved
<1> QED BY <1>2, <1>3 DEF Live

\* As long as no client comes back, the agent is not restarted and no list is late, every
\* admitted publisher is reserved or ready (relay_agent/http_server.py 49-84).
THEOREM NoPublisherUncounted == Spec => []EveryPublisherCounted
  BY CountInvHolds, CountedIsOccupied, PTL

\* Under the same conditions a publisher is admitted only while fewer than the cap are
\* publishing or coming online (relay_agent/http_server.py 72-84).
THEOREM CapIsNeverExceeded == Spec => NoOverAdmission
<1>1. CountInv /\ [Next]_vars => [~disturbed => CapIsKept]_vars
  <2> SUFFICES ASSUME CountInv, [Next]_vars, ~disturbed, NEW p \in connecting' \ Live
               PROVE  Cardinality(Live) < max
    BY DEF CapIsKept
  <2> USE DEF agentVars, externalVars
  <2>0. TypeOK /\ RequestsAreNew /\ Live \subseteq Occupied /\ p \notin connecting
    BY CountedIsOccupied DEF CountInv, Counted, EveryPublisherCounted, Live
  <2>1. ASSUME NEW q \in Paths, Reserve(q) PROVE Cardinality(Live) < max
    <3>1. Cardinality(Occupied) < max /\ max \in Nat
      BY <2>0, <2>1, CapsAssumption DEF Reserve, TypeOK
    <3>2. IsFiniteSet(Occupied)
      <4>1. Occupied \in SUBSET Paths
        BY <2>0 DEF Occupied, Reserved, TypeOK
      <4> QED BY <4>1, PathsAssumption, FS_Subset
    <3>3. Cardinality(Live) <= Cardinality(Occupied)
      BY <2>0, <3>2, FS_Subset
    <3>4. Cardinality(Live) \in Nat /\ Cardinality(Occupied) \in Nat
      BY <2>0, <3>2, FS_Subset, FS_CardinalityType
    <3> QED BY <3>1, <3>3, <3>4
  <2>2. ASSUME NEW q \in Paths, PassAgain(q) PROVE FALSE
    BY <2>0, <2>2, NewIsUnknown DEF PassAgain
  <2>3. CASE connecting' \subseteq connecting
    BY <2>0, <2>3
  <2> QED
    BY <2>1, <2>2, <2>3 DEF Next, vars, CheckRequest, Deny, GoesOnline, ConnectFails, Disconnects, List,
       UpdateReadyPaths, Updated, SetMaxServerConnections, SetStreams, Restart, Tick, PathLoopEnds
<1> QED
  BY <1>1, CountInvHolds, PTL DEF Spec, NoOverAdmission
===============================================================================
