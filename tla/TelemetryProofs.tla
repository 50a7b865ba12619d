----------------------------- MODULE TelemetryProofs -----------------------------
(***************************************************************************)
(* For every timing and every number of bytes and sessions: the shape of   *)
(* the two loops' state, the order in which the readings follow each       *)
(* other, and from it that no received byte is in two rates.               *)
(***************************************************************************)
EXTENDS Telemetry, TLAPS

Counters ==
    /\ session \in 0 .. MaxSessions /\ sessions \in 0 .. MaxSessions
    /\ bytes \in 0 .. received /\ received \in 0 .. MaxBytes

Loops ==
    /\ loop \in {"waiting", "asking", "busy", "dead"} /\ telemetry \in {"waiting", "collecting"}
    /\ left \in Nat /\ fetching \in 0 .. CollectTakes

Flags == healthy \in BOOLEAN /\ complete \in BOOLEAN

Readings ==
    /\ paths \in Reading /\ used \in Reading
    /\ answer \in Reading \cup {None} /\ sample \in Reading \cup {None}

\* What the assumption says of each constant.
LEMMA Bounds ==
    /\ PollEvery \in Nat /\ ListTakes \in Nat /\ BusyTakes \in Nat /\ CollectTakes \in Nat
    /\ MaxBytes \in Nat /\ MaxSessions \in Nat /\ Oldest \in Nat
  BY TimesAssumption DEF Oldest, ListLasts

\* A reading that gets older stays one and says the same.
LEMMA OlderIsReading == \A r \in Reading : Older(r) \in Reading
  BY Bounds DEF Older, Reading

\* Readings, lists and samples keep their shape; a loop waits no longer than it was told
\* to (relay_agent/service.py 131-195, relay_agent/telemetry.py 154-159).
THEOREM TelemetryTypeCorrect == Spec => []TypeOK
<1> USE NoneAssumption, Bounds
<1>0. NoList \in Reading
  BY DEF NoList, Reading
<1>1. Init => TypeOK
  <2> SUFFICES ASSUME Init PROVE Counters /\ Loops /\ Flags /\ Readings
    BY DEF TypeOK, Counters, Loops, Flags, Readings
  <2>1. Counters
    BY DEF Init, Counters
  <2>2. Loops
    BY DEF Init, Loops
  <2>3. Flags
    BY DEF Init, Flags
  <2>4. Readings
    BY <1>0 DEF Init, Readings
  <2> QED
    BY <2>1, <2>2, <2>3, <2>4
<1>2. TypeOK /\ [Next]_vars => TypeOK'
  <2> SUFFICES ASSUME Counters, Loops, Flags, Readings, [Next]_vars
               PROVE Counters' /\ Loops' /\ Flags' /\ Readings'
    BY DEF TypeOK, Counters, Loops, Flags, Readings
  <2>1. Counters'
    <3> USE DEF Counters, externalVars
    <3>1. CASE PublisherComes
      BY <3>1 DEF PublisherComes
    <3>2. CASE PublisherLeaves
      BY <3>2 DEF PublisherLeaves
    <3>3. CASE Receive
      BY <3>3 DEF Receive
    <3>4. CASE UNCHANGED externalVars
      BY <3>4
    <3> QED
      BY <3>1, <3>2, <3>3, <3>4
      DEF Next, vars, Ask, MakeList, UsePaths, ListFails, ListLost, Reconciled, BeginReport, Collect,
          CollectFails, Restart, Tick
  <2>2. Loops'
    <3> USE DEF Loops, loopVars, reportVars
    <3>1. CASE UNCHANGED <<loopVars, reportVars>>
      BY <3>1
    <3>2. CASE Ask \/ MakeList \/ UsePaths \/ ListFails \/ ListLost \/ Reconciled
      BY <3>2 DEF Ask, MakeList, UsePaths, ListFails, Failed, ListLost, Reconciled
    <3>3. CASE BeginReport \/ Collect \/ CollectFails \/ Restart
      BY <3>3 DEF BeginReport, Collect, CollectFails, Restart
    <3>4. CASE Tick
      BY <3>4 DEF Tick
    <3> QED
      BY <3>1, <3>2, <3>3, <3>4 DEF Next, vars, PublisherComes, PublisherLeaves, Receive
  <2>3. Flags'
    <3> USE DEF Flags, loopVars, reportVars
    <3>1. CASE UNCHANGED <<loopVars, reportVars>>
      BY <3>1
    <3>2. CASE Ask \/ MakeList \/ ListLost \/ Reconciled
      BY <3>2 DEF Ask, MakeList, ListLost, Reconciled
    <3>3. CASE UsePaths \/ ListFails
      BY <3>3 DEF UsePaths, ListFails
    <3>4. CASE BeginReport \/ Collect \/ CollectFails
      BY <3>4 DEF BeginReport, Collect, CollectFails
    <3>5. CASE Restart \/ Tick
      BY <3>5 DEF Restart, Tick
    <3> QED
      BY <3>1, <3>2, <3>3, <3>4, <3>5 DEF Next, vars, PublisherComes, PublisherLeaves, Receive
  <2>4. Readings'
    <3> USE DEF Readings, loopVars, reportVars
    <3>1. CASE UNCHANGED <<loopVars, reportVars>>
      BY <3>1
    <3>2. CASE Ask \/ UsePaths \/ ListFails \/ ListLost \/ Reconciled
      BY <3>2 DEF Ask, UsePaths, ListFails, Failed, ListLost, Reconciled
    <3>3. CASE MakeList
      <4>1. [bytes |-> bytes, session |-> session, received |-> received, age |-> 0] \in Reading
        BY DEF Reading, Counters
      <4> QED BY <3>3, <4>1 DEF MakeList
    <3>4. CASE BeginReport \/ CollectFails \/ Restart
      BY <1>0, <3>4 DEF BeginReport, CollectFails, Restart
    <3>5. CASE Collect
      <4>1. [used EXCEPT !.age = 0] \in Reading
        BY DEF Reading
      <4> QED BY <1>0, <3>5, <4>1 DEF Collect
    <3>6. CASE Tick
      BY <3>6, OlderIsReading DEF Tick
    <3> QED
      BY <3>1, <3>2, <3>3, <3>4, <3>5, <3>6 DEF Next, vars, PublisherComes, PublisherLeaves, Receive
  <2> QED
    BY <2>1, <2>2, <2>3, <2>4
<1> QED
  BY <1>1, <1>2, PTL DEF Spec

-------------------------------------------------------------------------------
\* What MediaMTX would list now.
Now == [bytes |-> bytes, session |-> session, received |-> received]

Noted(r) == r.session \in Nat

\* Reading b is not older than a: what was received since a is what the counter rose by
\* if the session is the same, and at least b's counter if it began after a.
Follows(a, b) ==
    Noted(a) =>
        /\ Noted(b) /\ a.received <= b.received
        /\ a.session # b.session => b.bytes <= b.received - a.received
        /\ a.session = b.session => b.bytes - a.bytes = b.received - a.received \/ b.session = 0

Sound(r) == IF Noted(r) THEN r.session <= sessions /\ (r.session = 0 => r.bytes = 0) ELSE r.bytes = 0

\* A session number counts up; a counter without a session is zero.
Live == session <= sessions /\ (session = 0 => bytes = 0)
Known(r) == Sound(r) /\ Follows(r, Now)

\* The inductive invariant: the readings in use follow each other, from the last
\* report's to the list on its way to the counter of MediaMTX.
Ordered ==
    /\ Live
    /\ Known(paths)
    /\ answer # None => Known(answer) /\ Follows(paths, answer)
    /\ telemetry = "collecting" => Known(used) /\ Follows(used, paths)
    /\ telemetry = "collecting" /\ answer # None => Follows(used, answer)
    /\ sample # None => Known(sample) /\ Follows(sample, paths)
    /\ sample # None /\ answer # None => Follows(sample, answer)
    /\ sample # None /\ telemetry = "collecting" => Follows(sample, used)

\* Only the age changes.
LEMMA OlderSaysTheSame ==
    \A r \in Reading : /\ Older(r).bytes = r.bytes /\ Older(r).session = r.session
                       /\ Older(r).received = r.received
  BY DEF Older, Reading

\* Publishers coming, leaving and sending keep every reading behind MediaMTX's counter.
LEMMA StepsOfMediaMTX ==
    ASSUME TypeOK, Live, PublisherComes \/ PublisherLeaves \/ Receive
    PROVE  Live' /\ \A r \in Reading : Known(r) => Known(r)'
<1> USE Bounds, NoneAssumption DEF TypeOK, Live
<1>1. Live'
  BY DEF PublisherComes, PublisherLeaves, Receive
<1>2. ASSUME NEW r \in Reading, Known(r) PROVE Known(r)'
  <2>1. r.bytes \in Nat /\ r.received \in Nat /\ (r.session \in Nat \/ r.session = None)
    BY DEF Reading
  <2> USE <1>2, <2>1 DEF Known, Sound, Follows, Noted, Now
  <2>2. CASE PublisherComes
    BY <2>2 DEF PublisherComes
  <2>3. CASE PublisherLeaves
    BY <2>3 DEF PublisherLeaves
  <2>4. CASE Receive
    BY <2>4 DEF Receive
  <2> QED
    BY <2>2, <2>3, <2>4
<1> QED
  BY <1>1, <1>2

\* The property's fact about one report: its rate is what was received between the lists
\* of two reports, of one session at that.
LEMMA DeltaIsReceived ==
    ASSUME NEW a \in Reading, NEW b \in Reading, Sound(b), Noted(a), b.session \notin {0, None},
           Follows(a, b)
    PROVE  /\ Delta(b.bytes, a) <= b.received - a.received
           /\ b.session = a.session => Delta(b.bytes, a) = b.received - a.received
<1>1. a # None
  BY NoneAssumption
<1>2. /\ a.bytes \in Nat /\ a.received \in Nat /\ b.bytes \in Nat /\ b.received \in Nat
  BY Bounds DEF Reading
<1> QED
  BY <1>1, <1>2 DEF Delta, Follows

\* The list on its way, the list in use, the copy a report is made from and the sample of
\* the report before stay in the order they were read (service.py 131-148 and 168-192).
THEOREM OrderHolds == Spec => []Ordered
<1> USE NoneAssumption DEF Reading
<1>1. Init => Ordered
  BY DEF Init, Ordered, Live, Known, Sound, Follows, Noted, NoList
<1>2. TypeOK /\ Ordered /\ [Next]_vars => Ordered'
  <2> SUFFICES ASSUME TypeOK, Ordered, [Next]_vars PROVE Ordered'
    OBVIOUS
  <2> DEFINE Kept == UNCHANGED <<paths, answer, telemetry, used, sample>>
  <2>1. CASE PublisherComes \/ PublisherLeaves \/ Receive
    <3>1. Kept
      BY <2>1 DEF PublisherComes, PublisherLeaves, Receive, loopVars, reportVars
    <3>2. Live' /\ \A r \in Reading : Known(r) => Known(r)'
      BY <2>1, StepsOfMediaMTX DEF Ordered
    <3> QED
      BY <3>1, <3>2 DEF Ordered, TypeOK, Known, Follows, Noted
  <2>2. ASSUME UNCHANGED externalVars
        PROVE  Live' /\ \A r : Known(r) => Known(r)'
    BY <2>2 DEF Ordered, Live, Known, Sound, Follows, Noted, Now, externalVars
  <2>3. CASE Ask \/ ListFails \/ ListLost \/ Reconciled \/ CollectFails \/ UNCHANGED vars
    <3>1. /\ UNCHANGED <<externalVars, paths, sample>>
          /\ answer' = answer \/ answer' = None
          /\ UNCHANGED <<telemetry, used>> \/ telemetry' = "waiting"
      BY <2>3 DEF Ask, ListFails, Failed, ListLost, Reconciled, CollectFails, vars, loopVars, reportVars
    <3> QED
      BY <2>2, <3>1 DEF Ordered, Known, Follows, Noted
  <2>4. CASE MakeList
    <3> DEFINE new == [bytes |-> bytes, session |-> session, received |-> received, age |-> 0]
    <3>1. answer' = new /\ UNCHANGED <<externalVars, paths, reportVars>>
      BY <2>4 DEF MakeList
    <3>2. \A r : Follows(r, Now) => Follows(r, new)
      BY DEF Follows, Noted, Now
    <3>3. Known(new)
      BY DEF TypeOK, Ordered, Live, Known, Sound, Follows, Noted, Now
    <3> HIDE DEF new
    <3> QED
      BY <2>2, <3>1, <3>2, <3>3 DEF Ordered, Known, Follows, Noted, reportVars
  <2>5. CASE UsePaths
    <3>1. /\ answer # None /\ paths' = answer /\ answer' = None
          /\ UNCHANGED <<externalVars, reportVars>>
      BY <2>5 DEF UsePaths
    <3> QED
      BY <2>2, <3>1 DEF Ordered, Known, Follows, Noted, reportVars
  <2>6. CASE BeginReport
    <3>1. /\ used' = paths /\ UNCHANGED <<externalVars, paths, answer, sample>>
      BY <2>6 DEF BeginReport, loopVars
    <3>2. Follows(paths, paths)
      BY DEF Follows, Noted, TypeOK
    <3> QED
      BY <2>2, <3>1, <3>2 DEF Ordered, Known, Follows, Noted
  <2>7. CASE Collect
    <3> DEFINE new == [used EXCEPT !.age = 0]
    <3>1. /\ telemetry = "collecting" /\ telemetry' = "waiting"
          /\ sample' = new /\ UNCHANGED <<externalVars, paths, answer>>
      BY <2>7 DEF Collect, loopVars
    <3>2. new.bytes = used.bytes /\ new.session = used.session /\ new.received = used.received
      BY DEF TypeOK
    <3> HIDE DEF new
    <3>3. Known(new) /\ Follows(new, paths) /\ (answer # None => Follows(new, answer))
      BY <3>1, <3>2 DEF Ordered, Known, Sound, Follows, Noted
    <3> QED
      BY <2>2, <3>1, <3>3 DEF Ordered, Known, Follows, Noted
  <2>8. CASE Restart
    <3>1. /\ paths' = NoList /\ answer' = None /\ telemetry' = "waiting" /\ sample' = None
          /\ UNCHANGED externalVars
      BY <2>8 DEF Restart
    <3>2. Known(NoList)
      BY DEF Known, Sound, Follows, Noted, NoList
    <3> QED
      BY <2>2, <3>1, <3>2 DEF Ordered
  <2>9. CASE Tick
    <3>1. /\ paths' = Older(paths)
          /\ answer' = IF answer = None THEN None ELSE Older(answer)
          /\ used' = IF telemetry = "waiting" THEN used ELSE Older(used)
          /\ UNCHANGED <<externalVars, telemetry, sample>>
      BY <2>9 DEF Tick
    <3>2. \A r \in Reading : Known(r) => Known(Older(r))
      BY OlderSaysTheSame DEF Known, Sound, Follows, Noted
    <3>3. \A a : \A b \in Reading : Follows(a, b) => Follows(a, Older(b))
      BY OlderSaysTheSame DEF Follows, Noted
    <3>4. \A a \in Reading : \A b : Follows(a, b) => Follows(Older(a), b)
      BY OlderSaysTheSame DEF Follows, Noted
    <3>5. answer # None => answer' # None
      BY <3>1, OlderIsReading DEF TypeOK
    <3>6. telemetry = "collecting" => used' = Older(used)
      BY <3>1
    <3> QED
      BY <2>2, <3>1, <3>2, <3>3, <3>4, <3>5, <3>6, OlderIsReading DEF Ordered, TypeOK, Follows, Noted
  <2> QED
    BY <2>1, <2>3, <2>4, <2>5, <2>6, <2>7, <2>8, <2>9 DEF Next
<1> QED
  BY <1>1, <1>2, TelemetryTypeCorrect, PTL DEF Spec

\* No byte is in two rates, and while one session lasts none is left out
\* (telemetry.py 154-159, service.py 131-148).
THEOREM RatesShareNoByte == Spec => EveryByteInOneRate
<1>1. TypeOK /\ Ordered /\ [Next]_vars => [Collect => RateIsExact]_vars
  <2> SUFFICES ASSUME TypeOK, Ordered, Collect PROVE RateIsExact
    OBVIOUS
  <2>1. telemetry = "collecting"
    BY DEF Collect
  <2>2. used.session \in {0, None} => used.bytes = 0
    BY <2>1, NoneAssumption DEF Ordered, Known, Sound, Noted
  <2>3. CASE sample = None \/ used.session \in {0, None}
    BY <2>2, <2>3, Bounds DEF RateIsExact, Delta, TypeOK, Reading
  <2>4. CASE sample # None /\ used.session \notin {0, None} /\ sample.session # None
    <3>1. Noted(sample) /\ Sound(used) /\ Follows(sample, used)
      BY <2>1, <2>4 DEF Ordered, Known, Noted, TypeOK, Reading
    <3> QED
      BY <2>4, <3>1, DeltaIsReceived DEF TypeOK, RateIsExact
  <2>5. CASE sample # None /\ used.session \notin {0, None} /\ sample.session = None
    BY <2>5 DEF RateIsExact
  <2> QED
    BY <2>3, <2>4, <2>5
<1> QED
  BY <1>1, TelemetryTypeCorrect, OrderHolds, PTL DEF Spec, EveryByteInOneRate

-------------------------------------------------------------------------------
\* What is left until the list in use is a whole round old, and the report made of it.
InTime ==
    /\ answer # None => loop = "asking" /\ answer.age + left <= ListTakes
    /\ loop = "busy" => paths.age + left <= ListTakes + BusyTakes
    /\ loop = "waiting" /\ healthy => paths.age + left <= ListTakes + BusyTakes + PollEvery
    /\ loop = "asking" => left <= ListTakes
    /\ loop = "asking" /\ healthy => paths.age + left <= ListLasts
    /\ telemetry = "collecting" /\ complete /\ loop # "dead" => used.age + fetching <= Oldest

\* An older reading is older by at most one.
LEMMA OlderByOne == \A r \in Reading : r.age \in Nat /\ Older(r).age \in Nat /\ Older(r).age <= r.age + 1
  BY Bounds DEF Older, Reading

LEMMA InTimeStep ==
    ASSUME TypeOK, InTime, [Next]_vars PROVE InTime'
<1> USE Bounds, NoneAssumption DEF InTime
<1>0. /\ left \in Nat /\ fetching \in 0 .. CollectTakes /\ paths.age \in Nat /\ used.age \in Nat
      /\ ListLasts = ListTakes + BusyTakes + PollEvery + ListTakes /\ Oldest = ListLasts + CollectTakes
      /\ answer # None => answer.age \in Nat
      /\ healthy \in BOOLEAN /\ complete \in BOOLEAN
      /\ loop \in {"waiting", "asking", "busy", "dead"}
  BY OlderByOne DEF TypeOK, ListLasts, Oldest
<1>1. CASE PublisherComes \/ PublisherLeaves \/ Receive \/ UNCHANGED vars
  BY <1>1 DEF PublisherComes, PublisherLeaves, Receive, vars, loopVars, reportVars
<1>2. CASE Ask
  BY <1>0, <1>2 DEF Ask, reportVars
<1>3. CASE MakeList
  <2>1. answer'.age = 0
    BY <1>3 DEF MakeList
  <2> QED BY <1>0, <1>3, <2>1 DEF MakeList, reportVars
<1>4. CASE UsePaths
  BY <1>0, <1>4 DEF UsePaths, reportVars
<1>5. CASE ListFails \/ ListLost
  BY <1>0, <1>5 DEF ListFails, Failed, ListLost, reportVars
<1>6. CASE Reconciled
  BY <1>0, <1>6 DEF Reconciled, reportVars
<1>7. CASE BeginReport
  <2>1. healthy /\ loop # "dead" => paths.age <= ListLasts
    BY <1>0
  <2> QED BY <1>0, <1>7, <2>1 DEF BeginReport, loopVars
<1>8. CASE Collect \/ CollectFails
  BY <1>8 DEF Collect, CollectFails, loopVars
<1>9. CASE Restart
  BY <1>9 DEF Restart
<1>10. CASE Tick
  <2>1. /\ loop \in {"waiting", "asking", "busy"} => left > 0 /\ left' = left - 1
        /\ telemetry = "collecting" => fetching > 0 /\ fetching' = fetching - 1
        /\ UNCHANGED <<loop, healthy, telemetry, complete>>
    BY <1>0, <1>10 DEF Tick
  <2>2. paths'.age \in Nat /\ paths'.age <= paths.age + 1
    BY <1>10, OlderByOne DEF Tick, TypeOK
  <2>3. telemetry = "collecting" => used'.age \in Nat /\ used'.age <= used.age + 1
    BY <1>10, OlderByOne DEF Tick, TypeOK
  <2>4. answer' # None => answer # None /\ answer'.age \in Nat /\ answer'.age <= answer.age + 1
    BY <1>10, OlderByOne DEF Tick, TypeOK
  <2> QED BY <1>0, <2>1, <2>2, <2>3, <2>4
<1> QED
  BY <1>1, <1>2, <1>3, <1>4, <1>5, <1>6, <1>7, <1>8, <1>9, <1>10 DEF Next

\* A report that calls itself complete is made from a list at most one round of the path
\* loop old, for all timings, unless an exception ended the loop (telemetry.py 226,
\* service.py 137-146 and 172-174).
THEOREM CompleteReportsAreCurrent == Spec => []CompleteIsCurrent
<1>1. Init => InTime
  BY DEF Init, InTime
<1>2. TypeOK /\ InTime /\ [Next]_vars => InTime'
  BY InTimeStep
<1>3. TypeOK /\ InTime => CompleteIsCurrent
  BY Bounds, OlderByOne DEF TypeOK, InTime, CompleteIsCurrent
<1> QED
  BY <1>1, <1>2, <1>3, TelemetryTypeCorrect, PTL DEF Spec
===============================================================================
