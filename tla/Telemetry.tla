-------------------------------- MODULE Telemetry --------------------------------
(***************************************************************************)
(* The figures of one stream in the telemetry of relay_agent/telemetry.py: *)
(* MediaMTX counts the bytes of the publisher's session, the path loop of  *)
(* relay_agent/service.py fetches the counter with its list now and then,  *)
(* and the telemetry loop turns two of the readings into a rate.  What is  *)
(* reported is the difference; the division by the time between the two    *)
(* reports is left out.  Times are bounds on what a step may take.         *)
(***************************************************************************)
EXTENDS Naturals

CONSTANTS
    None,           \* no answer yet, no sample yet, no list yet
    PollEvery,      \* path_poll_seconds
    ListTakes,      \* timeout of a request to MediaMTX
    BusyTakes,      \* bound on what the path loop does with a list
    CollectTakes,   \* timeout of the metrics request
    MaxBytes,       \* bound on the bytes received
    MaxSessions     \* bound on the publisher's sessions

ASSUME TimesAssumption ==
    {PollEvery, ListTakes, BusyTakes, CollectTakes, MaxBytes, MaxSessions} \subseteq Nat \ {0}

\* A list is at most this old when its successor is there or has failed, and a report
\* made from it when it is finished.
ListLasts == ListTakes + BusyTakes + PollEvery + ListTakes
Oldest == ListLasts + CollectTakes

\* The counter in a list (0 if the path is not in it); which bytes it stands for is
\* history: the session, how many were received before, and how long ago it was read.
Reading == [bytes : 0 .. MaxBytes, session : 0 .. MaxSessions \cup {None},
            received : 0 .. MaxBytes, age : 0 .. Oldest + 1]
NoList == [bytes |-> 0, session |-> None, received |-> 0, age |-> 0]
ASSUME NoneAssumption == None \notin Reading \cup Nat

VARIABLES
    session,    \* external: number of the publisher's session, 0 while there is none
    sessions,   \* external: sessions so far
    bytes,      \* external: inboundBytes of the session
    received,   \* history: bytes received so far, all sessions together
    loop,       \* path loop: waiting, asking, busy, dead
    left,       \* time left of what it does
    answer,     \* the list MediaMTX has made for the request
    paths,      \* _paths
    healthy,    \* _mediamtx_healthy
    telemetry,  \* telemetry loop: waiting, collecting
    fetching,   \* time left of the metrics request
    used,       \* the copy of _paths the report is made from
    complete,   \* the copy of _mediamtx_healthy: snapshot_complete
    sample      \* _path_byte_samples

externalVars == <<session, sessions, bytes, received>>
loopVars == <<loop, left, answer, paths, healthy>>
reportVars == <<telemetry, fetching, used, complete, sample>>
vars == <<externalVars, loopVars, reportVars>>

Init ==
    /\ session = 0 /\ sessions = 0 /\ bytes = 0 /\ received = 0
    /\ loop = "waiting" /\ left = 0
    /\ answer = None /\ paths = NoList /\ healthy = FALSE
    /\ telemetry = "waiting" /\ fetching = 0 /\ used = NoList /\ complete = FALSE
    /\ sample = None

-------------------------------------------------------------------------------
\* External: publishers of the stream, and MediaMTX that counts for each from zero.
PublisherComes ==
    /\ session = 0 /\ sessions < MaxSessions
    /\ session' = sessions + 1 /\ sessions' = sessions + 1
    /\ bytes' = 0
    /\ UNCHANGED <<received, loopVars, reportVars>>

PublisherLeaves ==
    /\ session # 0
    /\ session' = 0 /\ bytes' = 0
    /\ UNCHANGED <<sessions, received, loopVars, reportVars>>

Receive ==
    /\ session # 0 /\ received < MaxBytes
    /\ bytes' = bytes + 1 /\ received' = received + 1
    /\ UNCHANGED <<session, sessions, loopVars, reportVars>>

-------------------------------------------------------------------------------
\* The path loop asks for the list, MediaMTX makes it, and it arrives.
Ask ==
    /\ loop = "waiting" /\ left = 0
    /\ loop' = "asking" /\ left' = ListTakes /\ answer' = None
    /\ UNCHANGED <<externalVars, paths, healthy, reportVars>>

MakeList ==
    /\ loop = "asking" /\ answer = None
    /\ answer' = [bytes |-> bytes, session |-> session, received |-> received, age |-> 0]
    /\ UNCHANGED <<externalVars, loop, left, paths, healthy, reportVars>>

UsePaths ==
    /\ loop = "asking" /\ answer # None
    /\ loop' = "busy" /\ left' = BusyTakes
    /\ paths' = answer /\ healthy' = TRUE
    /\ answer' = None
    /\ UNCHANGED <<externalVars, reportVars>>

Failed == loop' = "waiting" /\ left' = PollEvery /\ answer' = None

\* Mutants: a failed list counts as an empty one; it leaves MediaMTX healthy.
ListFailsAndClears ==
    /\ loop = "asking"
    /\ Failed
    /\ paths' = [bytes |-> 0, session |-> 0, received |-> received, age |-> 0]
    /\ healthy' = FALSE
    /\ UNCHANGED <<externalVars, reportVars>>

ListFailsUnnoticed ==
    /\ loop = "asking"
    /\ Failed
    /\ UNCHANGED <<externalVars, paths, healthy, reportVars>>

\* MediaMTXError: the last list stays in use, marked unhealthy.
ListFails ==
    /\ loop = "asking"
    /\ Failed
    /\ healthy' = FALSE
    /\ UNCHANGED <<externalVars, paths, reportVars>>

\* An answer lost while it is read ends the thread (see Runtime), and marks nothing.
ListLost ==
    /\ loop = "asking"
    /\ loop' = "dead" /\ left' = 0 /\ answer' = None
    /\ UNCHANGED <<externalVars, paths, healthy, reportVars>>

\* Workers and paths are reconciled; then the loop waits for the next poll.
Reconciled ==
    /\ loop = "busy"
    /\ loop' = "waiting" /\ left' = PollEvery
    /\ UNCHANGED <<externalVars, answer, paths, healthy, reportVars>>

-------------------------------------------------------------------------------
\* traffic.sample succeeded; _paths and _mediamtx_healthy are copied under the runtime
\* lock.  (A sample that cannot be saved raises before: no report in this period.)
BeginReport ==
    /\ telemetry = "waiting"
    /\ telemetry' = "collecting" /\ fetching' = CollectTakes
    /\ used' = paths /\ complete' = healthy
    /\ UNCHANGED <<externalVars, loopVars, sample>>

\* What bitrate_bps is made of.
Delta(new, old) ==
    IF old # None /\ new > old.bytes THEN new - old.bytes ELSE 0

\* collect: the rate, and the reading becomes the next one's predecessor.
Collect ==
    /\ telemetry = "collecting"
    /\ telemetry' = "waiting" /\ fetching' = 0
    /\ sample' = [used EXCEPT !.age = 0]
    /\ used' = NoList /\ complete' = FALSE
    /\ UNCHANGED <<externalVars, loopVars>>

\* OSError of the metrics request: no report, and the sample stays.
CollectFails ==
    /\ telemetry = "collecting"
    /\ telemetry' = "waiting" /\ fetching' = 0
    /\ used' = NoList /\ complete' = FALSE
    /\ UNCHANGED <<externalVars, loopVars, sample>>

\* The agent starts anew.
Restart ==
    /\ loop' = "waiting" /\ left' = 0 /\ answer' = None
    /\ paths' = NoList /\ healthy' = FALSE
    /\ telemetry' = "waiting" /\ fetching' = 0 /\ used' = NoList /\ complete' = FALSE
    /\ sample' = None
    /\ UNCHANGED externalVars

Older(r) == [r EXCEPT !.age = IF @ <= Oldest THEN @ + 1 ELSE @]

\* Time passes, unless something has come to the end of its time.
Tick ==
    /\ loop \in {"waiting", "asking", "busy"} => left > 0
    /\ telemetry = "collecting" => fetching > 0
    /\ left' = IF left > 0 THEN left - 1 ELSE 0
    /\ fetching' = IF fetching > 0 THEN fetching - 1 ELSE 0
    /\ answer' = IF answer = None THEN None ELSE Older(answer)
    /\ paths' = Older(paths) /\ used' = IF telemetry = "waiting" THEN used ELSE Older(used)
    /\ UNCHANGED <<externalVars, loop, healthy, telemetry, complete, sample>>

Next ==
    \/ PublisherComes \/ PublisherLeaves \/ Receive
    \/ Ask \/ MakeList \/ UsePaths \/ ListFails \/ ListLost \/ Reconciled
    \/ BeginReport \/ Collect \/ CollectFails
    \/ Restart
    \/ Tick

Spec == Init /\ [][Next]_vars

-------------------------------------------------------------------------------
\* Types of the loops' variables and readings.
TypeOK ==
    /\ session \in 0 .. MaxSessions /\ sessions \in 0 .. MaxSessions
    /\ bytes \in 0 .. received /\ received \in 0 .. MaxBytes
    /\ loop \in {"waiting", "asking", "busy", "dead"} /\ telemetry \in {"waiting", "collecting"}
    /\ left \in Nat /\ fetching \in 0 .. CollectTakes
    /\ paths \in Reading /\ used \in Reading
    /\ answer \in Reading \cup {None} /\ sample \in Reading \cup {None}
    /\ healthy \in BOOLEAN /\ complete \in BOOLEAN

\* The rate of the report under way, against what was received between the two lists.
RateIsExact ==
    LET delta == Delta(used.bytes, sample)
    IN  IF sample = None \/ used.session \in {0, None}
        THEN delta = 0
        ELSE sample.session # None =>
                /\ delta <= used.received - sample.received
                /\ used.session = sample.session => delta = used.received - sample.received

\* A rate is made of bytes received between the list of the report before and its own,
\* of no others, and of all of them if the session is the same: no byte is in two
\* rates, whatever lists are late or fail, sessions end or the agent restarts, and while
\* one session lasts no byte is left out.  A report from before the first list is no
\* such predecessor: it notes a counter of zero (telemetry.py 154-159, service.py 131-148).
EveryByteInOneRate == [][Collect => RateIsExact]_vars

\* A report that calls itself complete is made from a list that was current when the
\* path loop last could get one: unless an exception ended the loop, its age is bounded
\* by one round of the loop (telemetry.py:226, service.py 137-146 and 172-174).
CompleteIsCurrent ==
    telemetry = "collecting" /\ complete /\ loop # "dead" => used.age <= Oldest
===============================================================================
