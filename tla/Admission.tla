------------------------------- MODULE Admission -------------------------------
(***************************************************************************)
(* relay_agent/http_server.py AdmissionController between its two callers: *)
(* the threads that answer MediaMTX's authentication requests, and the     *)
(* path loop of relay_agent/service.py that reports which paths are ready. *)
(* The publishers themselves live in MediaMTX, outside the agent: the      *)
(* controller only ever sees requests and, later, a list of paths.         *)
(*                                                                         *)
(* Time is kept as what is left of each deadline.  An expired reservation  *)
(* (left = 0) is the same as none: _reserve_capacity purges it first.      *)
(* Requests denied before _reserve_capacity (unknown stream, credentials,  *)
(* protocol) and read requests change nothing and are not actions.         *)
(***************************************************************************)
EXTENDS Naturals, FiniteSets

CONSTANTS
    Paths,          \* the paths live/<stream id> of the desired state
    Caps,           \* values max_server_connections takes
    ReservationTTL, \* 20 seconds in the code
    ConnectWithin,  \* bound on the time from an answer to the publisher being online
    PollWithin      \* a longer time between two successful path lists is a late list

ASSUME CapsAssumption == Caps \subseteq Nat \ {0} /\ Caps # {}
ASSUME TimingAssumption ==
    ReservationTTL \in Nat \ {0} /\ ConnectWithin \in Nat /\ PollWithin \in Nat
\* What makes a list late: a reservation outlives a connect, the wait for the next list and
\* the time until that list is applied.
ASSUME ReservationOutlasts == ReservationTTL > ConnectWithin + 2 * PollWithin
ASSUME PathsAssumption == IsFiniteSet(Paths)

NoList == [list |-> "none"]
ListOf(S) == [list |-> "paths", paths |-> S]

VARIABLES
    streams,    \* enabled streams of the desired state (state_store.snapshot)
    checked,    \* requests past the credential check, not yet at _reserve_capacity
    max,        \* max_active_models
    ready,      \* _ready_paths
    left,       \* _reservations: seconds left for each path, 0 without one
    publishing, \* external: paths with an online publisher in MediaMTX
    connecting, \* external: paths whose publisher was admitted and is not online yet
    due,        \* external: time left for a connecting publisher to come online
    polling,    \* the path loop's thread runs
    listed,     \* the path loop's list, fetched and not yet applied
    sinceList,  \* time since MediaMTX last produced a list
    disturbed   \* history: a client came back, the agent restarted, or a list was late

vars == <<streams, checked, max, ready, left, publishing, connecting, due, polling,
          listed, sinceList, disturbed>>
agentVars == <<ready, left, polling, listed, checked>>
externalVars == <<publishing, connecting, due>>

Reserved == {p \in Paths : left[p] > 0}
Occupied == ready \cup Reserved
Live == publishing \cup connecting
\* A path that somebody takes for occupied: the controller, MediaMTX, or the list on its
\* way from one to the other.
Remembered == Occupied \cup Live \cup (IF listed = NoList THEN {} ELSE listed.paths)

Init ==
    /\ streams \in {Paths, {}}
    /\ checked = {}
    /\ max \in Caps
    /\ ready = {}
    /\ left = [p \in Paths |-> 0]
    /\ publishing = {}
    /\ connecting = {}
    /\ due = [p \in Paths |-> 0]
    /\ polling = TRUE
    /\ listed = NoList
    /\ sinceList = 0
    /\ disturbed = FALSE

-------------------------------------------------------------------------------
\* authorize up to its last line: the snapshot has the stream and it is enabled.
\* A path that is still remembered is asked for only by a client that comes back.
CheckRequest(p) ==
    /\ p \in streams
    /\ p \notin checked
    /\ checked' = checked \cup {p}
    /\ disturbed' = (disturbed \/ p \in Remembered)
    /\ UNCHANGED <<streams, max, ready, left, externalVars, polling, listed, sinceList>>

\* MediaMTX gets the answer yes and lets the publisher set the path up.
Admitted(p) ==
    /\ connecting' = connecting \cup {p}
    /\ due' = [due EXCEPT ![p] = ConnectWithin]

\* Mutant: the cap is compared with > instead of >=.
ReserveOneMore(p) ==
    /\ p \in checked
    /\ p \notin Occupied
    /\ Cardinality(Occupied) <= max
    /\ left' = [left EXCEPT ![p] = ReservationTTL]
    /\ Admitted(p)
    /\ checked' = checked \ {p}
    /\ UNCHANGED <<streams, max, ready, publishing, polling, listed, sinceList, disturbed>>

\* _reserve_capacity: a ready or reserved path passes without a new reservation.
PassAgain(p) ==
    /\ p \in checked
    /\ p \in Occupied
    /\ Admitted(p)
    /\ checked' = checked \ {p}
    /\ UNCHANGED <<streams, max, ready, left, publishing, polling, listed, sinceList,
                   disturbed>>

Reserve(p) ==
    /\ p \in checked
    /\ p \notin Occupied
    /\ Cardinality(Occupied) < max
    /\ left' = [left EXCEPT ![p] = ReservationTTL]
    /\ Admitted(p)
    /\ checked' = checked \ {p}
    /\ UNCHANGED <<streams, max, ready, publishing, polling, listed, sinceList, disturbed>>

Deny(p) ==
    /\ p \in checked
    /\ p \notin Occupied
    /\ Cardinality(Occupied) >= max
    /\ checked' = checked \ {p}
    /\ UNCHANGED <<streams, max, ready, left, externalVars, polling, listed,
                   sinceList, disturbed>>

\* list_active_paths: MediaMTX answers with the publishers it has now.
List ==
    /\ polling
    /\ listed = NoList
    /\ listed' = ListOf(publishing)
    /\ sinceList' = 0
    /\ UNCHANGED <<streams, checked, max, ready, left, externalVars, polling, disturbed>>

\* The answer to a list, or later one to path_reconciler.reconcile, is lost while it is
\* read, or the registry cannot be written: nothing catches that, the thread ends.
PathLoopEnds ==
    /\ polling
    /\ listed = NoList
    /\ polling' = FALSE
    /\ UNCHANGED <<streams, checked, max, ready, left, externalVars, listed, sinceList,
                   disturbed>>

\* The update with the new ready set and reservations as parameters.
Updated(newReady, newLeft) ==
    /\ listed # NoList
    /\ ready' = newReady
    /\ left' = newLeft
    /\ listed' = NoList
    /\ UNCHANGED <<streams, checked, max, externalVars, polling, sinceList, disturbed>>

Confirmed == [p \in Paths |-> IF p \in listed.paths THEN 0 ELSE left[p]]

\* Mutants: reservations stay; all of them go; the ready set only grows.
UpdateKeepsReservations == Updated(listed.paths, left)

UpdateDropsReservations == Updated(listed.paths, [p \in Paths |-> 0])

UpdateAccumulates == Updated(ready \cup listed.paths, Confirmed)

\* update_ready_paths replaces the set and drops the reservations it confirms.
UpdateReadyPaths == Updated(listed.paths, Confirmed)

\* _apply_limits of a new revision.
SetMaxServerConnections(cap) ==
    /\ cap # max
    /\ max' = cap
    /\ UNCHANGED <<streams, agentVars, externalVars, sinceList, disturbed>>

\* A desired state that enables other streams is accepted.
SetStreams(S) ==
    /\ streams' = S
    /\ UNCHANGED <<agentVars, max, externalVars, sinceList, disturbed>>

\* The agent restarts while MediaMTX keeps its publishers: http.start comes
\* before the first list of the path loop.
Restart ==
    /\ ready' = {}
    /\ left' = [p \in Paths |-> 0]
    /\ polling' = TRUE
    /\ listed' = NoList
    /\ checked' = {}
    /\ disturbed' = TRUE
    /\ UNCHANGED <<streams, max, externalVars, sinceList>>

-------------------------------------------------------------------------------
\* External: MediaMTX and the publishers (overridePublisher: false).
GoesOnline(p) ==
    /\ p \in connecting
    /\ p \notin publishing
    /\ publishing' = publishing \cup {p}
    /\ connecting' = connecting \ {p}
    /\ UNCHANGED <<streams, agentVars, max, due, sinceList, disturbed>>

ConnectFails(p) ==
    /\ p \in connecting
    /\ connecting' = connecting \ {p}
    /\ UNCHANGED <<streams, agentVars, max, publishing, due, sinceList, disturbed>>

Disconnects(p) ==
    /\ p \in publishing
    /\ publishing' = publishing \ {p}
    /\ UNCHANGED <<streams, agentVars, max, connecting, due, sinceList, disturbed>>

Tick ==
    /\ \A p \in connecting : due[p] > 0
    /\ left' = [p \in Paths |-> IF left[p] > 0 THEN left[p] - 1 ELSE 0]
    /\ due' = [p \in Paths |-> IF p \in connecting THEN due[p] - 1 ELSE 0]
    /\ sinceList' = IF sinceList < PollWithin THEN sinceList + 1 ELSE sinceList
    /\ disturbed' = (disturbed \/ sinceList = PollWithin)
    /\ UNCHANGED <<streams, checked, max, ready, publishing, connecting, polling,
                   listed>>

Next ==
    \/ \E p \in Paths :
          \/ CheckRequest(p) \/ PassAgain(p) \/ Reserve(p) \/ Deny(p)
          \/ GoesOnline(p) \/ ConnectFails(p) \/ Disconnects(p)
    \/ List
    \/ PathLoopEnds
    \/ UpdateReadyPaths
    \/ \E cap \in Caps : SetMaxServerConnections(cap)
    \/ \E S \in SUBSET Paths : SetStreams(S)
    \/ Restart
    \/ Tick

Spec == Init /\ [][Next]_vars

\* The path loop polls as long as it runs, MediaMTX answers again and again, time passes.
Fairness ==
    /\ SF_vars(List)
    /\ WF_vars(UpdateReadyPaths)
    /\ WF_vars(Tick)
    /\ \A p \in Paths : WF_vars(GoesOnline(p) \/ ConnectFails(p))

FairSpec == Spec /\ Fairness

-------------------------------------------------------------------------------
\* Types of the controller's fields and of MediaMTX's sets; a reservation is
\* never kept for a path that the same update reported ready (http_server.py 49-58).
TypeOK ==
    /\ streams \subseteq Paths
    /\ checked \subseteq Paths
    /\ max \in Caps
    /\ ready \subseteq Paths
    /\ left \in [Paths -> 0 .. ReservationTTL]
    /\ publishing \subseteq Paths
    /\ connecting \subseteq Paths
    /\ due \in [Paths -> 0 .. ConnectWithin]
    /\ polling \in BOOLEAN
    /\ listed \in {NoList} \cup {ListOf(S) : S \in SUBSET Paths}
    /\ sinceList \in 0 .. PollWithin
    /\ disturbed \in BOOLEAN
    /\ ready \cap Reserved = {}

\* A publisher is admitted only while fewer than the cap are really publishing or
\* coming online, whatever the agent believes (tests/test_auth.py:21 the sixteenth
\* stream is denied, tests/test_limits_v2.py a lowered cap denies new publishers).
CapIsKept == \A p \in connecting' \ Live : Cardinality(Live) < max

\* As long as no client comes back to a path that is still counted, the agent is not
\* restarted and no list is late, the cap is kept (http_server.py 72-84).
NoOverAdmission == [][~disturbed => CapIsKept]_vars

\* The agent accounts for every admitted publisher, reserved or ready: the slot is
\* handed over from 72-84 to 49-58 of http_server.py without a gap.
EveryPublisherCounted == ~disturbed => Live \subseteq Occupied

\* What lets a publisher go uncounted: a client that comes back, a restart, a late list.
Disturbance ==
    \/ \E p \in Remembered : CheckRequest(p)
    \/ Restart
    \/ sinceList = PollWithin /\ Tick

\* The count comes right in the end, provided that the path loop runs from some time on: it
\* ends with the first answer that is lost while it is read (service.py:137, mediamtx.py
\* 62-68), and only a restart brings it back.  Then the slot of a publisher that is gone
\* for good is given back (http_server.py 75-77 expiry, 56 replacement of the ready set);
\* and once the disturbances are over every live publisher is counted again, those a
\* restarted agent knew nothing of too (service.py 223-231 opens the server before the
\* first list).
CountComesRight ==
    <>[]polling =>
        /\ \A p \in Paths : <>[](p \notin Live) => <>[](p \notin Occupied)
        /\ []<><<Disturbance>>_vars \/ <>[](Live \subseteq Occupied)
===============================================================================
