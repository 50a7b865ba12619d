------------------------------ MODULE RuntimeProofs ------------------------------
(***************************************************************************)
(* The loops of relay_agent/service.py for any number of generations and   *)
(* paths: what a report or a health answer shows belongs together, and     *)
(* the revisions reported never go back.                                   *)
(***************************************************************************)
EXTENDS Runtime, TLAPS

\* The limits that are in force already are those of the generation in memory; the others
\* follow in the order of _apply_limits.
LimitsInOrder ==
    /\ toApply \in {<<>>, <<"revision">>, <<"quota", "revision">>,
                    <<"supervisor", "quota", "revision">>, Limits}
    /\ toApply # <<>> <=> stateLoop = "applying"
    /\ applied["revision"] <= applied["quota"]
    /\ applied["quota"] <= applied["supervisor"]
    /\ applied["supervisor"] <= applied["admission"]
    /\ applied["admission"] <= generation
    /\ toApply \in {<<"supervisor", "quota", "revision">>, <<"quota", "revision">>, <<"revision">>}
          => applied["admission"] = generation
    /\ toApply \in {<<"quota", "revision">>, <<"revision">>} => applied["supervisor"] = generation
    /\ toApply = <<"revision">> => applied["quota"] = generation

\* The parts of a report are read in its order.
ReadsInOrder ==
    \/ view = NothingRead /\ toRead \in {<<>>, ReadOrder(observer)}
    \/ /\ observer = "telemetry" /\ Read("sampledQuota")
       /\ \/ toRead = <<"revision", "admission", "generation", "quota">>
                /\ ~Read("revision") /\ ~Read("admission") /\ ~Read("generation") /\ ~Read("quota")
          \/ toRead = <<"admission", "generation", "quota">> /\ Read("revision")
                /\ ~Read("admission") /\ ~Read("generation") /\ ~Read("quota")
          \/ toRead = <<"generation", "quota">> /\ Read("revision") /\ ~Read("generation") /\ ~Read("quota")
          \/ toRead = <<"quota">> /\ Read("revision") /\ ~Read("quota")
          \/ toRead = <<>> /\ Read("revision")
    \/ /\ observer = "health" /\ Read("generation") /\ ~Read("sampledQuota")
       /\ \/ toRead = <<"revision", "admission", "quota">>
                /\ ~Read("revision") /\ ~Read("admission") /\ ~Read("quota")
          \/ toRead = <<"admission", "quota">> /\ Read("revision") /\ ~Read("admission") /\ ~Read("quota")
          \/ toRead = <<"quota">> /\ Read("revision") /\ ~Read("quota")
          \/ toRead = <<>> /\ Read("revision")

\* A revision that was read is in force still, and no older than what was reported.
ReadsAreInForce ==
    /\ reported <= applied["revision"]
    /\ Read("revision") => view["revision"] <= applied["revision"] /\ reported <= view["revision"]

\* The parts of TypeOK.
StateOK ==
    /\ generation \in Generations /\ streams \subseteq Paths
    /\ applied \in [Places -> Generations]
    /\ stateLoop \in {"fetching", "applying", "reconciling", "dead"}

PathOK ==
    /\ up \in BOOLEAN /\ publishing \subseteq Paths /\ healthy \in BOOLEAN
    /\ listing \subseteq Paths /\ snapshot \subseteq Paths /\ workers \subseteq Paths
    /\ pathLoop \in {"waiting", "listed", "snapshot", "reconciling", "dead"}

ObserverOK ==
    /\ observer \in Observers
    /\ view \in [Fields -> Generations \cup {None}]
    /\ reported \in Generations

RuntimeInv ==
    /\ StateOK /\ PathOK /\ ObserverOK
    /\ LimitsInOrder /\ ReadsInOrder /\ ReadsAreInForce /\ ViewsAreConsistent

LEMMA GenerationsAreNumbers == \A g \in Generations : g \in Nat /\ g # None
  BY GenerationAssumption, NoneAssumption DEF Generations

LEMMA LimitsDiffer ==
    /\ Limits # <<>> /\ Limits # <<"revision">> /\ Limits # <<"quota", "revision">>
    /\ Limits # <<"supervisor", "quota", "revision">>
    /\ <<"supervisor", "quota", "revision">> # <<>>
    /\ <<"supervisor", "quota", "revision">> # <<"quota", "revision">>
    /\ <<"supervisor", "quota", "revision">> # <<"revision">>
  BY DEF Limits

\* Places have their limit, one after the other, from the generation in memory.
LEMMA LimitsStep ==
    ASSUME RuntimeInv, [Next]_vars
    PROVE  /\ StateOK' /\ LimitsInOrder'
           /\ \A p \in Places : applied[p] <= applied'[p]
           /\ generation <= generation'
<1> USE GenerationsAreNumbers
<1>0. StateOK /\ LimitsInOrder
  BY DEF RuntimeInv
<1>1. ASSUME NEW g \in Generations, NEW S \in SUBSET Paths, Accept(g, S)
      PROVE  /\ StateOK' /\ LimitsInOrder'
             /\ UNCHANGED applied /\ generation <= generation'
  <2>1. g = generation \/ g = generation + 1
    BY <1>1 DEF Accept
  <2>2. generation \in Nat /\ g \in Nat /\ \A p \in Places : applied[p] \in Nat
    BY <1>0 DEF StateOK
  <2>3. /\ generation' = g /\ toApply' = Limits /\ stateLoop' = "applying" /\ applied' = applied
        /\ streams' \subseteq Paths
    BY <1>1 DEF Accept
  <2>4. StateOK'
    BY <1>0, <2>3 DEF StateOK
  <2>5. LimitsInOrder'
    BY <1>0, <2>1, <2>2, <2>3, LimitsDiffer DEF LimitsInOrder, Places
  <2> QED BY <2>1, <2>2, <2>3, <2>4, <2>5
<1>2. CASE ApplyNextLimit
  <2>1. /\ toApply # <<>> /\ toApply' = Tail(toApply)
        /\ applied' = [applied EXCEPT ![Head(toApply)] = generation]
        /\ stateLoop' = IF toApply' = <<>> THEN "reconciling" ELSE "applying"
        /\ UNCHANGED <<generation, streams>>
    BY <1>0, <1>2 DEF ApplyNextLimit, LimitsInOrder
  <2>2. CASE toApply = Limits
    <3>1. Head(toApply) = "admission" /\ toApply' = <<"supervisor", "quota", "revision">>
      BY <2>1, <2>2 DEF Limits
    <3>2. /\ applied' \in [Places -> Generations] /\ applied'["admission"] = generation
          /\ applied'["supervisor"] = applied["supervisor"]
          /\ applied'["quota"] = applied["quota"] /\ applied'["revision"] = applied["revision"]
      BY <1>0, <2>1, <3>1 DEF StateOK, Places
    <3>3. StateOK' /\ stateLoop' = "applying"
      BY <1>0, <2>1, <3>1, <3>2, LimitsDiffer DEF StateOK
    <3>4. /\ generation \in Nat /\ applied["supervisor"] \in Nat /\ applied["admission"] \in Nat
          /\ applied["quota"] \in Nat /\ applied["revision"] \in Nat
      BY <1>0 DEF StateOK, Places
    <3>5. /\ applied["revision"] <= applied["quota"] /\ applied["quota"] <= applied["supervisor"]
          /\ applied["supervisor"] <= generation /\ applied["admission"] <= generation
      BY <1>0, <3>4 DEF LimitsInOrder
    <3>6. LimitsInOrder'
      <4>1. toApply' \in {<<>>, <<"revision">>, <<"quota", "revision">>,
                          <<"supervisor", "quota", "revision">>, Limits}
        BY <3>1
      <4>2. toApply' \notin {<<"quota", "revision">>, <<"revision">>, <<>>} /\ toApply' # <<"revision">>
        BY <3>1, LimitsDiffer
      <4>3. toApply' # <<>> <=> stateLoop' = "applying"
        BY <3>3, <4>2
      <4>4. /\ applied'["revision"] <= applied'["quota"] /\ applied'["quota"] <= applied'["supervisor"]
            /\ applied'["supervisor"] <= applied'["admission"] /\ applied'["admission"] <= generation'
            /\ applied'["admission"] = generation'
        BY <2>1, <3>2, <3>4, <3>5
      <4> QED BY <4>1, <4>2, <4>3, <4>4 DEF LimitsInOrder
    <3>7. \A p \in Places : applied[p] <= applied'[p]
      BY <3>2, <3>4, <3>5 DEF Places
    <3> QED BY <2>1, <3>3, <3>4, <3>6, <3>7
  <2>3. CASE toApply = <<"supervisor", "quota", "revision">>
    <3>1. Head(toApply) = "supervisor" /\ toApply' = <<"quota", "revision">>
      BY <2>1, <2>3
    <3> QED BY <1>0, <2>1, <2>3, <3>1 DEF StateOK, LimitsInOrder, Places, Limits
  <2>4. CASE toApply = <<"quota", "revision">>
    <3>1. Head(toApply) = "quota" /\ toApply' = <<"revision">>
      BY <2>1, <2>4
    <3> QED BY <1>0, <2>1, <2>4, <3>1 DEF StateOK, LimitsInOrder, Places, Limits
  <2>5. CASE toApply = <<"revision">>
    <3>1. Head(toApply) = "revision" /\ toApply' = <<>>
      BY <2>1, <2>5
    <3> QED BY <1>0, <2>1, <2>5, <3>1 DEF StateOK, LimitsInOrder, Places, Limits
  <2> QED BY <1>0, <2>1, <2>2, <2>3, <2>4, <2>5 DEF LimitsInOrder
<1>3. CASE Restart
  BY <1>0, <1>3 DEF Restart, Restarted, StateOK, LimitsInOrder, Places, Limits
<1>4. CASE AcceptFails \/ ReconcileState("fetching") \/ ReconcileState("dead")
  BY <1>0, <1>4 DEF AcceptFails, ReconcileState, StateOK, LimitsInOrder, Places
<1>5. CASE UNCHANGED stateVars
  BY <1>0, <1>5 DEF stateVars, StateOK, LimitsInOrder, Places
<1> QED
  BY <1>0, <1>1, <1>2, <1>3, <1>4, <1>5
    DEF Next, StateStep, PathStep, vars, ListPaths, ListFails, ListLost, UsePaths,
        ReconcileWorkers, ReassertPaths, BeginView, ReadNext, SendView, MediaMTXStops,
        MediaMTXStarts, PublishersChange, StateOK, Places

\* The list of paths and what is made of it.
LEMMA PathTypesStep ==
    ASSUME StateOK, PathOK, [Next]_vars PROVE PathOK'
<1> USE DEF PathOK, StateOK
<1>1. CASE ListPaths \/ ListFails \/ ListLost \/ UsePaths \/ ReconcileWorkers
  BY <1>1 DEF ListPaths, ListFails, ListLost, UsePaths, ReconcileWorkers, externalVars
<1>2. CASE ReassertPaths("waiting") \/ ReassertPaths("dead")
  BY <1>2 DEF ReassertPaths, externalVars
<1>3. CASE Restart
  BY <1>3 DEF Restart, Restarted, externalVars
<1>4. CASE MediaMTXStops \/ MediaMTXStarts \/ \E S \in SUBSET Paths : PublishersChange(S)
  BY <1>4 DEF MediaMTXStops, MediaMTXStarts, PublishersChange, pathVars
<1>5. CASE UNCHANGED <<externalVars, pathVars>>
  BY <1>5 DEF externalVars, pathVars
<1> QED
  BY <1>1, <1>2, <1>3, <1>4, <1>5
    DEF Next, StateStep, PathStep, vars, Accept, ApplyNextLimit, ReconcileState, AcceptFails,
        BeginView, ReadNext, SendView

\* A report or an answer is collected part by part.
LEMMA ReadStep ==
    ASSUME RuntimeInv, ReadNext
    PROVE  ObserverOK' /\ ReadsInOrder' /\ ReadsAreInForce' /\ ViewsAreConsistent'
<1> USE GenerationsAreNumbers
<1>0. StateOK /\ ObserverOK /\ LimitsInOrder /\ ReadsInOrder /\ ReadsAreInForce /\ ViewsAreConsistent
  BY DEF RuntimeInv
<1>1. /\ toRead # <<>> /\ toRead' = Tail(toRead)
      /\ view' = [view EXCEPT ![Head(toRead)] = Shown(Head(toRead))]
      /\ UNCHANGED <<generation, applied, observer, reported>>
  BY DEF ReadNext, stateVars
<1>2. /\ Shown("generation") = generation /\ Shown("revision") = applied["revision"]
      /\ Shown("admission") = applied["admission"] /\ Shown("quota") = applied["quota"]
      /\ Shown("sampledQuota") = applied["quota"]
  BY DEF Shown
<1>3. /\ generation \in Generations /\ applied["revision"] \in Generations
      /\ applied["admission"] \in Generations /\ applied["quota"] \in Generations
      /\ applied["revision"] <= applied["admission"] /\ applied["revision"] <= applied["quota"]
      /\ applied["revision"] <= generation /\ reported \in Nat /\ reported <= applied["quota"]
  BY <1>0 DEF StateOK, LimitsInOrder, Places, ObserverOK, ReadsAreInForce
<1>4. /\ \A f \in Fields : view[f] \in Generations \cup {None}
      /\ Read("revision") => view["revision"] \in Nat
  BY <1>0 DEF ObserverOK, Fields, Read
\* One part that is read changes what is shown, and nothing else does.
<1>5. ASSUME NEW f \in Fields, Head(toRead) = f, Shown(f) \in Generations
      PROVE  /\ ObserverOK' /\ Read(f)' /\ view'[f] = Shown(f)
             /\ \A g \in Fields : g # f => view'[g] = view[g] /\ Read(g)' = Read(g)
  BY <1>0, <1>1, <1>5 DEF ObserverOK, Read
<1>6. view = NothingRead => \A f \in Fields : ~Read(f)
  BY DEF NothingRead, Read
<1>7. observer = "telemetry" \/ observer = "health"
  BY <1>0 DEF ObserverOK, Observers
<1>8. CASE view = NothingRead /\ observer = "telemetry"
  <2>1. toRead = <<"sampledQuota", "revision", "admission", "generation", "quota">>
    BY <1>0, <1>1, <1>6, <1>8 DEF ReadsInOrder, ReadOrder, Fields
  <2>2. Head(toRead) = "sampledQuota" /\ toRead' = <<"revision", "admission", "generation", "quota">>
    BY <1>1, <2>1
  <2>3. /\ ObserverOK' /\ view'["sampledQuota"] = applied["quota"] /\ Read("sampledQuota")'
        /\ ~Read("revision")' /\ ~Read("admission")' /\ ~Read("generation")' /\ ~Read("quota")'
    BY <1>2, <1>3, <1>5, <1>6, <1>8, <2>2 DEF Fields
  <2>4. ReadsInOrder'
    BY <1>1, <1>8, <2>2, <2>3 DEF ReadsInOrder
  <2>5. ReadsAreInForce'
    BY <1>0, <1>1, <2>3 DEF ReadsAreInForce
  <2> QED
    BY <1>1, <1>3, <2>3, <2>4, <2>5 DEF ViewsAreConsistent
<1>8a. CASE view # NothingRead /\ toRead = <<"revision", "admission", "generation", "quota">>
  <2>1. Head(toRead) = "revision" /\ toRead' = <<"admission", "generation", "quota">>
    BY <1>1, <1>8a
  <2>2. /\ observer = "telemetry" /\ Read("sampledQuota")
        /\ ~Read("admission") /\ ~Read("generation") /\ ~Read("quota")
    BY <1>0, <1>8a DEF ReadsInOrder, ReadOrder
  <2>3. /\ ObserverOK' /\ view'["revision"] = applied["revision"] /\ Read("revision")'
        /\ view'["sampledQuota"] = view["sampledQuota"] /\ Read("sampledQuota")'
        /\ ~Read("admission")' /\ ~Read("generation")' /\ ~Read("quota")'
    BY <1>2, <1>3, <1>5, <2>1, <2>2 DEF Fields
  <2>4. ReadsInOrder'
    BY <1>1, <2>1, <2>2, <2>3 DEF ReadsInOrder
  <2>5. ReadsAreInForce'
    BY <1>0, <1>1, <1>3, <2>3 DEF ReadsAreInForce
  <2> QED
    BY <1>0, <1>1, <2>2, <2>3, <2>4, <2>5 DEF ViewsAreConsistent
<1>9. CASE view = NothingRead /\ observer = "health"
  <2>1. toRead = <<"generation", "revision", "admission", "quota">>
    BY <1>0, <1>1, <1>6, <1>9 DEF ReadsInOrder, ReadOrder, Fields
  <2>2. Head(toRead) = "generation" /\ toRead' = <<"revision", "admission", "quota">>
    BY <1>1, <2>1
  <2> QED
    BY <1>0, <1>1, <1>2, <1>3, <1>5, <1>6, <1>9, <2>2 DEF ReadsInOrder, ReadsAreInForce,
           ViewsAreConsistent, Fields
<1>10. CASE view # NothingRead /\ toRead = <<"admission", "generation", "quota">>
  <2>1. Head(toRead) = "admission" /\ toRead' = <<"generation", "quota">>
    BY <1>1, <1>10
  <2> QED
    BY <1>0, <1>1, <1>2, <1>3, <1>4, <1>5, <1>10, <2>1 DEF ReadsInOrder, ReadsAreInForce,
           ViewsAreConsistent, Fields
<1>11. CASE view # NothingRead /\ toRead = <<"generation", "quota">>
  <2>1. Head(toRead) = "generation" /\ toRead' = <<"quota">>
    BY <1>1, <1>11
  <2> QED
    BY <1>0, <1>1, <1>2, <1>3, <1>4, <1>5, <1>11, <2>1 DEF ReadsInOrder, ReadsAreInForce,
           ViewsAreConsistent, Fields
<1>12. CASE view # NothingRead /\ toRead = <<"quota">>
  <2>1. Head(toRead) = "quota" /\ toRead' = <<>>
    BY <1>1, <1>12
  <2> QED
    BY <1>0, <1>1, <1>2, <1>3, <1>4, <1>5, <1>12, <2>1 DEF ReadsInOrder, ReadsAreInForce,
           ViewsAreConsistent, Fields
<1>13. CASE view # NothingRead /\ toRead = <<"revision", "admission", "quota">>
  <2>1. Head(toRead) = "revision" /\ toRead' = <<"admission", "quota">>
    BY <1>1, <1>13
  <2> QED
    BY <1>0, <1>1, <1>2, <1>3, <1>4, <1>5, <1>13, <2>1 DEF ReadsInOrder, ReadsAreInForce,
           ViewsAreConsistent, Fields
<1>14. CASE view # NothingRead /\ toRead = <<"admission", "quota">>
  <2>1. Head(toRead) = "admission" /\ toRead' = <<"quota">>
    BY <1>1, <1>14
  <2> QED
    BY <1>0, <1>1, <1>2, <1>3, <1>4, <1>5, <1>14, <2>1 DEF ReadsInOrder, ReadsAreInForce,
           ViewsAreConsistent, Fields
<1> QED
  BY <1>0, <1>1, <1>7, <1>8, <1>8a, <1>9, <1>10, <1>11, <1>12, <1>13, <1>14 DEF ReadsInOrder

\* What the other steps leave of a report: nothing, or all of it beside newer limits.
LEMMA OtherStepsKeepReads ==
    ASSUME RuntimeInv, [Next]_vars, ~ReadNext
    PROVE  ObserverOK' /\ ReadsInOrder' /\ ReadsAreInForce' /\ ViewsAreConsistent'
<1> USE GenerationsAreNumbers
<1>0. StateOK /\ ObserverOK /\ LimitsInOrder /\ ReadsInOrder /\ ReadsAreInForce /\ ViewsAreConsistent
  BY DEF RuntimeInv
<1>1. /\ StateOK' /\ applied["revision"] <= applied'["revision"]
      /\ applied["revision"] \in Nat /\ applied'["revision"] \in Nat /\ reported \in Nat
  BY <1>0, LimitsStep DEF StateOK, Places, ObserverOK
<1>2. view = NothingRead => \A f \in Fields : ~Read(f)
  BY DEF NothingRead, Read
<1>3. NothingRead \in [Fields -> Generations \cup {None}]
  BY DEF NothingRead
<1>4. ASSUME NEW o \in Observers, BeginView(o)
      PROVE  ObserverOK' /\ ReadsInOrder' /\ ReadsAreInForce' /\ ViewsAreConsistent'
  <2>1. /\ view' = NothingRead /\ view = NothingRead /\ observer' = o /\ toRead' = ReadOrder(o)
        /\ UNCHANGED <<applied, reported>>
    BY <1>4 DEF BeginView, stateVars
  <2>2. ObserverOK' /\ ReadsInOrder'
    BY <1>0, <2>1 DEF ObserverOK, ReadsInOrder
  <2>3. ~Read("revision")' /\ ~Read("sampledQuota")'
    BY <1>2, <2>1 DEF Fields, Read
  <2> QED
    BY <1>0, <2>1, <2>2, <2>3 DEF ReadsAreInForce, ViewsAreConsistent
<1>5. CASE SendView
  <2>1. /\ toRead = <<>> /\ toRead' = toRead /\ view # NothingRead /\ view' = NothingRead
        /\ observer' = observer /\ applied' = applied
        /\ reported' = IF observer = "telemetry" THEN view["revision"] ELSE reported
    BY <1>5 DEF SendView, stateVars
  <2>2. Read("revision")
    BY <1>0, <2>1 DEF ReadsInOrder
  <2>3. view["revision"] \in Generations /\ reported' \in Generations
         /\ reported' <= applied["revision"]
    BY <1>0, <2>1, <2>2 DEF ReadsAreInForce, ObserverOK, Read, Fields
  <2>4. ObserverOK' /\ ReadsInOrder'
    BY <1>0, <1>3, <2>1, <2>3 DEF ObserverOK, ReadsInOrder
  <2>5. ~Read("revision")' /\ ~Read("sampledQuota")'
    BY <2>1 DEF NothingRead, Fields, Read
  <2> QED
    BY <2>1, <2>3, <2>4, <2>5 DEF ReadsAreInForce, ViewsAreConsistent
<1>6. CASE Restart
  <2>1. /\ toRead' = <<>> /\ view' = NothingRead /\ UNCHANGED <<observer, reported>>
    BY <1>6 DEF Restart, Restarted
  <2>2. ~Read("revision")' /\ ~Read("sampledQuota")'
    BY <2>1 DEF NothingRead, Fields, Read
  <2>3. ObserverOK' /\ ReadsInOrder'
    BY <1>0, <1>3, <2>1 DEF ObserverOK, ReadsInOrder
  <2>4. reported <= applied'["revision"]
    BY <1>0, <1>1 DEF ReadsAreInForce
  <2> QED
    BY <2>1, <2>2, <2>3, <2>4 DEF ReadsAreInForce, ViewsAreConsistent
<1>7. CASE UNCHANGED observerVars
  <2>1. UNCHANGED <<observer, toRead, view, reported>>
    BY <1>7 DEF observerVars
  <2>2. ObserverOK' /\ ReadsInOrder' /\ ViewsAreConsistent'
    BY <1>0, <2>1 DEF ObserverOK, ReadsInOrder, ViewsAreConsistent, Read
  <2>3. Read("revision") => view["revision"] \in Nat
    BY <1>0 DEF ObserverOK, Read, Fields
  <2>4. ReadsAreInForce'
    BY <1>0, <1>1, <2>1, <2>3 DEF ReadsAreInForce, Read
  <2> QED
    BY <2>2, <2>4
<1> QED
  BY <1>4, <1>5, <1>6, <1>7
    DEF Next, StateStep, PathStep, vars, Accept, ApplyNextLimit, ReconcileState, AcceptFails,
        ListPaths, ListFails, ListLost, UsePaths, ReconcileWorkers, ReassertPaths,
        MediaMTXStops, MediaMTXStarts, PublishersChange

LEMMA RuntimeInvHolds == Spec => []RuntimeInv
<1>1. Init => RuntimeInv
  <2> SUFFICES ASSUME Init PROVE RuntimeInv
    OBVIOUS
  <2> USE GenerationAssumption, GenerationsAreNumbers
  <2>1. 0 \in Generations
    BY DEF Generations
  <2>2. StateOK /\ PathOK
    BY <2>1 DEF Init, StateOK, PathOK
  <2>3. ObserverOK /\ ReadsInOrder
    BY <2>1 DEF Init, ObserverOK, ReadsInOrder, NothingRead, Observers
  <2>4. LimitsInOrder
    BY DEF Init, LimitsInOrder, Places
  <2>5. ~Read("revision") /\ ~Read("sampledQuota")
    BY DEF Init, NothingRead, Read, Fields
  <2>6. ReadsAreInForce /\ ViewsAreConsistent
    BY <2>5 DEF Init, ReadsAreInForce, ViewsAreConsistent, Places
  <2> QED
    BY <2>2, <2>3, <2>4, <2>6 DEF RuntimeInv
<1>2. RuntimeInv /\ [Next]_vars => RuntimeInv'
  <2> SUFFICES ASSUME RuntimeInv, [Next]_vars PROVE RuntimeInv'
    OBVIOUS
  <2>1. StateOK' /\ LimitsInOrder' /\ PathOK'
    BY LimitsStep, PathTypesStep DEF RuntimeInv
  <2>2. ObserverOK' /\ ReadsInOrder' /\ ReadsAreInForce' /\ ViewsAreConsistent'
    BY ReadStep, OtherStepsKeepReads
  <2> QED
    BY <2>1, <2>2 DEF RuntimeInv
<1> QED
  BY <1>1, <1>2, PTL DEF Spec

\* Types, and a place that holds a limit of a generation is never behind the next one in
\* the order of _apply_limits (service.py 86-105).
THEOREM RuntimeTypeCorrect == Spec => []TypeOK
<1>1. RuntimeInv => TypeOK
  <2> SUFFICES ASSUME RuntimeInv PROVE TypeOK
    OBVIOUS
  <2>1. /\ Len(Limits) - 1 = 3 /\ Limits[1] = "admission" /\ Limits[2] = "supervisor"
        /\ Limits[3] = "quota" /\ Limits[4] = "revision"
    BY DEF Limits
  <2>2. /\ applied[Limits[1 + 1]] <= applied[Limits[1]] /\ applied[Limits[2 + 1]] <= applied[Limits[2]]
        /\ applied[Limits[3 + 1]] <= applied[Limits[3]]
    BY <2>1 DEF RuntimeInv, LimitsInOrder
  <2>3. \A i \in 1 .. Len(Limits) - 1 : applied[Limits[i + 1]] <= applied[Limits[i]]
    <3> SUFFICES ASSUME NEW i \in 1 .. 3 PROVE applied[Limits[i + 1]] <= applied[Limits[i]]
      BY <2>1
    <3>1. i = 1 \/ i = 2 \/ i = 3
      OBVIOUS
    <3> QED
      BY <2>2, <3>1
  <2> QED
    BY <2>3 DEF RuntimeInv, StateOK, PathOK, ObserverOK, LimitsInOrder, TypeOK
<1> QED
  BY <1>1, RuntimeInvHolds, PTL

\* A report and a health answer belong together although each of their parts is read under
\* another lock, and no report names an older revision than the one before, whatever
\* restarts lie between them (service.py 66-105 and 168-231).
THEOREM ReportsBelongTogether == Spec => ReportsAreConsistent
<1>1. RuntimeInv' => ViewsAreConsistent'
  BY DEF RuntimeInv
<1>2. RuntimeInv /\ [Next]_vars => [reported' >= reported]_reported
  <2> SUFFICES ASSUME RuntimeInv, [Next]_vars, reported' # reported PROVE reported' >= reported
    OBVIOUS
  <2>1. SendView
    BY  DEF Next, StateStep, PathStep, vars, observerVars, Accept, ApplyNextLimit,
           ReconcileState, AcceptFails, ListPaths, ListFails, ListLost, UsePaths,
           ReconcileWorkers, ReassertPaths, MediaMTXStops, MediaMTXStarts, PublishersChange,
           BeginView, ReadNext, Restart, Restarted
  <2>2. reported' = view["revision"] /\ toRead = <<>> /\ view # NothingRead
    BY <2>1 DEF SendView
  <2>3. Read("revision")
    BY <2>2 DEF RuntimeInv, ReadsInOrder
  <2>4. reported <= view["revision"]
    BY <2>3 DEF RuntimeInv, ReadsAreInForce
  <2>5. reported \in Nat /\ view["revision"] \in Nat
    BY <2>3, GenerationsAreNumbers DEF RuntimeInv, ObserverOK, Read, Fields
  <2> QED
    BY <2>2, <2>4, <2>5
<1>3. RuntimeInv /\ RuntimeInv' /\ [Next]_vars
        => [ViewsAreConsistent' /\ reported' >= reported]_vars
  <2> SUFFICES ASSUME RuntimeInv, RuntimeInv', [Next]_vars
               PROVE  ViewsAreConsistent' /\ reported' >= reported
    OBVIOUS
  <2>1. reported \in Nat /\ reported' \in Nat
    BY GenerationsAreNumbers DEF RuntimeInv, ObserverOK
  <2> QED
    BY <1>1, <1>2, <2>1
<1> QED
  BY <1>3, RuntimeInvHolds, PTL DEF Spec, ReportsAreConsistent
===============================================================================
