------------------------------ MODULE TrafficProofs ------------------------------
(***************************************************************************)
(* The traffic accountant counts no byte twice and takes back no total it  *)
(* saved, for every number of months and boots and every size of the       *)
(* counters.  The argument: a total of this month always leaves room for   *)
(* what the next sample will add to it.                                    *)
(***************************************************************************)
EXTENDS Traffic, TLAPS

States == {mem, disk} \ {None}

\* What the next sample adds to a state of this month.
Addition(s) == IF s.boot = boot THEN Delta(kernel, s.last) ELSE kernel

\* A state belongs to the past or the present; if its month is this one, its total and
\* what the next sample adds were sent in it, or found by the first sample.
LeavesRoom(s) ==
    /\ s.month <= month /\ s.boot <= boot
    /\ s.month = month => s.total + Addition(s) <= sent + before

\* The first sample takes the whole counter for its total.
FirstLeavesRoom == disk = None => kernel <= sent + before

\* In a steady run both states are exact, and so is the first sample.
Exact(s) ==
    /\ s.month = month /\ s.boot = boot /\ s.last <= kernel
    /\ s.total + kernel = sent + before + s.last
SteadyIsExact ==
    steady => /\ disk = None => kernel = sent + before
              /\ \A s \in States : Exact(s)

\* The file lags behind memory within a month.
Lags ==
    disk # None =>
        /\ disk.month <= mem.month
        /\ disk.month = mem.month => disk.total <= mem.total

TrafficInv ==
    /\ TypeOK
    /\ \A s \in States : LeavesRoom(s)
    /\ FirstLeavesRoom
    /\ SteadyIsExact
    /\ Lags

-------------------------------------------------------------------------------
\* A sample, whatever memory holds, is a state that keeps every promise of the invariant
\* (relay_agent/traffic.py 78-116).
LEMMA SampleIsSound ==
    ASSUME TrafficInv
    PROVE  /\ Sampled(mem) \in State
           /\ Sampled(mem).total <= sent + before
           /\ steady => Sampled(mem).total = sent + before
           /\ mem # None /\ mem.month = month => mem.total <= Sampled(mem).total
<1> USE BoundsAssumption, NoneAssumption
<1> DEFINE s == Sampled(mem)
<1>1. s.month = month /\ s.boot = boot /\ s.last = kernel
  BY DEF Sampled
<1>2. CASE mem = None
  <2>1. s.total = kernel /\ disk = None
    BY <1>2 DEF Sampled, TrafficInv, TypeOK
  <2>2. s.total <= sent + before /\ (steady => s.total = sent + before)
    BY <2>1 DEF TrafficInv, FirstLeavesRoom, SteadyIsExact
  <2>3. s \in State
    BY <2>1, <1>2 DEF Sampled, State, Totals, TrafficInv, TypeOK
  <2> QED BY <2>2, <2>3, <1>2
<1>3. CASE mem # None /\ mem.month # month
  <2>1. s.total = 0 /\ ~steady
    BY <1>3 DEF Sampled, TrafficInv, SteadyIsExact, Exact, States
  <2>2. s \in State
    BY <2>1, <1>3 DEF Sampled, State, Totals, TrafficInv, TypeOK
  <2> QED BY <2>1, <2>2, <1>3 DEF TrafficInv, TypeOK
<1>4. CASE mem # None /\ mem.month = month
  <2>1. mem \in State /\ LeavesRoom(mem) /\ (steady => Exact(mem))
    BY <1>4 DEF TrafficInv, TypeOK, States, SteadyIsExact
  <2>2. s.total = mem.total + Addition(mem)
    BY <1>4, <2>1 DEF Sampled, Addition, State
  <2>3. Addition(mem) \in Nat /\ mem.total \in Nat
    BY <2>1 DEF Addition, Delta, State, Totals, TrafficInv, TypeOK
  <2>4. s.total <= sent + before
    BY <1>4, <2>1, <2>2 DEF LeavesRoom
  <2>5. steady => s.total = sent + before
    BY <2>1, <2>2 DEF Exact, Addition, Delta, State, Totals, TrafficInv, TypeOK
  <2>6. mem.total <= s.total
    BY <2>2, <2>3
  <2>7. s.total \in Totals
    BY <2>2, <2>3, <2>4 DEF Totals, TrafficInv, TypeOK
  <2>8. s \in State
    BY <2>7, <1>4 DEF Sampled, State, TrafficInv, TypeOK
  <2> QED BY <2>4, <2>5, <2>6, <2>8
<1> QED BY <1>2, <1>3, <1>4

\* The invariant holds through samples, failed writes, restarts, reboots, vanishing
\* interfaces and the turn of a month (relay_agent/traffic.py 78-117).
THEOREM TrafficInvHolds == Spec => []TrafficInv
<1> USE BoundsAssumption, NoneAssumption
<1>1. Init => TrafficInv
  BY DEF Init, TrafficInv, TypeOK, States, LeavesRoom, FirstLeavesRoom, SteadyIsExact, Lags
<1>2. TrafficInv /\ [Next]_vars => TrafficInv'
  <2> SUFFICES ASSUME TrafficInv, [Next]_vars PROVE TrafficInv'
    OBVIOUS
  <2>1. CASE Send
    <3>1. TypeOK'
      BY <2>1 DEF Send, TrafficInv, TypeOK
    <3>2. ASSUME NEW s \in States PROVE LeavesRoom(s)'
      BY <2>1, <3>2 DEF Send, TrafficInv, TypeOK, States, LeavesRoom, Addition, Delta, State, Totals
    <3>3. FirstLeavesRoom' /\ Lags'
      BY <2>1 DEF Send, TrafficInv, TypeOK, FirstLeavesRoom, Lags
    <3>4. SteadyIsExact'
      BY <2>1 DEF Send, TrafficInv, TypeOK, SteadyIsExact, Exact, States, State, Totals
    <3> QED BY <2>1, <3>1, <3>2, <3>3, <3>4 DEF TrafficInv, States, Send
  <2>2. CASE MonthBegins
    <3>1. TypeOK'
      BY <2>2 DEF MonthBegins, TrafficInv, TypeOK
    <3>2. ASSUME NEW s \in States PROVE LeavesRoom(s)'
      BY <2>2, <3>2 DEF MonthBegins, TrafficInv, TypeOK, States, LeavesRoom, State
    <3>3. FirstLeavesRoom' /\ Lags'
      BY <2>2 DEF MonthBegins, TrafficInv, TypeOK, FirstLeavesRoom, Lags
    <3>4. SteadyIsExact'
      <4> SUFFICES ASSUME steady' PROVE kernel' = sent' + before' /\ States' = {}
        BY DEF SteadyIsExact
      <4>1. mem = None /\ disk = None
        BY <2>2 DEF MonthBegins
      <4>2. States' = {}
        BY <2>2, <4>1 DEF MonthBegins, States
      <4> QED BY <2>2, <4>1, <4>2 DEF MonthBegins, TrafficInv, TypeOK
    <3> QED BY <2>2, <3>1, <3>2, <3>3, <3>4 DEF TrafficInv, States, MonthBegins
  <2>3. CASE Sample \/ SampleNotSaved
    <3> DEFINE n == Sampled(mem)
    <3>1. n \in State /\ n.total <= sent + before /\ (steady => n.total = sent + before)
      BY SampleIsSound
    <3>2. n.month = month /\ n.boot = boot /\ n.last = kernel
      BY DEF Sampled
    <3>3. mem' = n /\ disk' \in {n, disk}
          /\ UNCHANGED <<month, boot, kernel, sent, before, steady>>
      BY <2>3 DEF Sample, SampleNotSaved
    <3> HIDE DEF n
    <3>4. TypeOK'
      BY <3>1, <3>3 DEF TrafficInv, TypeOK
    <3>5. ASSUME NEW s \in States' PROVE LeavesRoom(s)'
      <4>1. CASE s = n
        BY <4>1, <3>1, <3>2, <3>3 DEF LeavesRoom, Addition, Delta, TrafficInv, TypeOK, State, Totals
      <4>2. CASE s \in States
        BY <4>2, <3>3 DEF LeavesRoom, Addition, TrafficInv
      <4> QED BY <4>1, <4>2, <3>3, <3>5 DEF States
    <3>6. FirstLeavesRoom'
      BY <3>1, <3>3 DEF FirstLeavesRoom, TrafficInv
    <3>7. SteadyIsExact'
      <4>1. ASSUME steady, NEW s, s = n PROVE Exact(s)'
        <5>1. kernel \in Nat /\ sent + before \in Nat
          BY DEF TrafficInv, TypeOK
        <5> QED BY <5>1, <4>1, <3>1, <3>2, <3>3 DEF Exact
      <4>2. ASSUME steady, NEW s \in States PROVE Exact(s)'
        BY <4>2, <3>3 DEF Exact, TrafficInv, SteadyIsExact
      <4>3. steady /\ disk' = None => kernel = sent + before
        BY <3>1, <3>3, NoneAssumption DEF TrafficInv, SteadyIsExact
      <4> QED BY <4>1, <4>2, <4>3, <3>3 DEF SteadyIsExact, States
    <3>8. Lags'
      <4>1. CASE disk' = n
        BY <4>1, <3>1, <3>3 DEF Lags, State, Totals
      <4>2. CASE disk' = disk
        <5> SUFFICES ASSUME disk # None
                     PROVE  disk.month <= month /\ (disk.month = month => disk.total <= n.total)
          BY <4>2, <3>2, <3>3 DEF Lags
        <5>1. mem \in State /\ disk \in State /\ mem.month <= month /\ disk.month <= month
          BY DEF TrafficInv, TypeOK, States, LeavesRoom
        <5>2. ASSUME disk.month = month PROVE disk.total <= n.total
          <6>1. mem.month = month /\ disk.total <= mem.total
            BY <5>1, <5>2 DEF TrafficInv, Lags, State, TypeOK
          <6>2. mem.total <= n.total
            BY <6>1, <5>1, SampleIsSound DEF n
          <6> QED BY <6>1, <6>2, <5>1, <3>1 DEF State, Totals
        <5> QED BY <5>1, <5>2
      <4> QED BY <4>1, <4>2, <3>3
    <3> QED BY <3>4, <3>5, <3>6, <3>7, <3>8 DEF TrafficInv
  <2>4. CASE AgentRestart
    BY <2>4 DEF AgentRestart, TrafficInv, TypeOK, States, LeavesRoom, Addition, FirstLeavesRoom,
                SteadyIsExact, Exact, Lags, State, Totals
  <2>5. CASE Reboot
    <3>5. steady' \in BOOLEAN
      BY <2>5 DEF Reboot
    <3>1. TypeOK' /\ FirstLeavesRoom'
      BY <2>5, <3>5 DEF Reboot, TrafficInv, TypeOK, FirstLeavesRoom
    <3>3. SteadyIsExact'
      BY <2>5 DEF Reboot, SteadyIsExact
    <3>4. Lags'
      BY <2>5 DEF Reboot, TrafficInv, TypeOK, Lags, State, Totals
    <3>2. ASSUME NEW s \in States' PROVE LeavesRoom(s)'
      <4>1. s \in State /\ s = disk /\ disk # None /\ LeavesRoom(s)
        BY <2>5, <3>2 DEF Reboot, States, TrafficInv, TypeOK
      <4>2. s.boot # boot' /\ s.boot <= boot' /\ Addition(s)' = 0 /\ Addition(s) >= 0
        BY <2>5, <4>1 DEF Reboot, LeavesRoom, Addition, Delta, State, TrafficInv, TypeOK
      <4> QED BY <2>5, <4>1, <4>2 DEF Reboot, LeavesRoom, Addition, Delta, State, Totals,
                                      TrafficInv, TypeOK
    <3> QED BY <3>1, <3>2, <3>3, <3>4 DEF TrafficInv
  <2>6. CASE InterfaceGoes
    <3>4. steady' \in BOOLEAN /\ kernel' \in 0 .. kernel
      BY <2>6 DEF InterfaceGoes
    <3>1. TypeOK' /\ FirstLeavesRoom' /\ Lags'
      BY <2>6, <3>4 DEF InterfaceGoes, TrafficInv, TypeOK, FirstLeavesRoom, Lags
    <3>3. SteadyIsExact'
      BY <2>6 DEF InterfaceGoes, SteadyIsExact
    <3>2. ASSUME NEW s \in States PROVE LeavesRoom(s)'
      BY <2>6, <3>2 DEF InterfaceGoes, States, TrafficInv, TypeOK, LeavesRoom, Addition, Delta,
                        State, Totals
    <3> QED BY <2>6, <3>1, <3>2, <3>3 DEF TrafficInv, States, InterfaceGoes
  <2>7. CASE UNCHANGED vars
    BY <2>7 DEF vars, TrafficInv, TypeOK, States, LeavesRoom, Addition, FirstLeavesRoom,
                SteadyIsExact, Exact, Lags
  <2> QED
    BY <2>1, <2>2, <2>3, <2>4, <2>5, <2>6, <2>7 DEF Next
<1> QED
  BY <1>1, <1>2, PTL DEF Spec

\* Memory and the file always hold a state of the right shape, the file never one that
\* memory does not know of (relay_agent/traffic.py 67-72, 116-117).
THEOREM TrafficTypeCorrect == Spec => []TypeOK
<1>1. TrafficInv => TypeOK
  BY DEF TrafficInv
<1> QED
  BY <1>1, TrafficInvHolds, PTL

\* No byte is counted twice (traffic.py 83-117).
THEOREM CountsNoByteTwice == Spec => []NoDoubleCounting
<1>1. TrafficInv => NoDoubleCounting
  <2> SUFFICES ASSUME TrafficInv, NEW s \in States, s.month = month
               PROVE  s.total <= sent + before
    BY DEF NoDoubleCounting, States
  <2>1. s.total + Addition(s) <= sent + before
    BY DEF TrafficInv, LeavesRoom
  <2>2. s.total \in Nat /\ Addition(s) \in Nat
    BY DEF TrafficInv, TypeOK, States, State, Totals, Addition, Delta
  <2>3. sent + before \in Nat
    BY DEF TrafficInv, TypeOK
  <2> QED BY <2>1, <2>2, <2>3
<1> QED
  BY <1>1, TrafficInvHolds, PTL

\* Every byte of a steady run is in the total or in the next sample (traffic.py 109-117).
THEOREM CountsEveryByteOfASteadyRun == Spec => []SteadyCountIsExact
<1>1. TrafficInv => SteadyCountIsExact
  <2> SUFFICES ASSUME TrafficInv, steady, NEW s \in States
               PROVE  s.total + Delta(kernel, s.last) = sent + before
    BY DEF SteadyCountIsExact, States
  <2>1. Exact(s)
    BY DEF TrafficInv, SteadyIsExact
  <2> QED BY <2>1 DEF Exact, Delta, TrafficInv, TypeOK, States, State, Totals
<1> QED
  BY <1>1, TrafficInvHolds, PTL

\* A saved total of a month only grows in it (traffic.py 114-119).
THEOREM SavedTotalsOnlyGrow == Spec => TotalNeverShrinks
<1>1. TrafficInv /\ [Next]_vars
        => [disk # None /\ disk'.month = disk.month => disk'.total >= disk.total]_disk
  <2> SUFFICES ASSUME TrafficInv, [Next]_vars, disk' # disk, disk # None,
                      disk'.month = disk.month
               PROVE  disk'.total >= disk.total
    OBVIOUS
  <2>1. disk' = Sampled(mem)
    BY DEF Next, vars, Send, MonthBegins, Sample, SampleNotSaved, AgentRestart, Reboot,
           InterfaceGoes
  <2>2. disk.month = month
    BY <2>1 DEF Sampled
  <2>3. mem \in State /\ disk \in State /\ mem.month <= month
    BY DEF TrafficInv, TypeOK, States, LeavesRoom
  <2>4. mem.month = month /\ disk.total <= mem.total
    BY <2>2, <2>3 DEF TrafficInv, Lags, State, TypeOK
  <2>5. mem.total <= Sampled(mem).total /\ Sampled(mem) \in State
    BY <2>3, <2>4, SampleIsSound, NoneAssumption
  <2> QED BY <2>1, <2>3, <2>4, <2>5 DEF State, Totals
<1> QED
  BY <1>1, TrafficInvHolds, PTL DEF Spec, TotalNeverShrinks
===============================================================================
