------------------------------ MODULE Generations -------------------------------
(***************************************************************************)
(* From the payloads of the manager to the FFmpeg that runs for each of    *)
(* their destinations: the state loop takes one generation after another   *)
(* through DesiredState, and the path loop's reconcile makes the workers   *)
(* of the streams that are online.  Reconcile is one step here: its        *)
(* interleavings are WorkerSupervisor's, the order of generations and the  *)
(* cache are StateStore's.  What is followed is the content; the names of  *)
(* the specification say so, and StateLoopProofs extends PathReconciler    *)
(* beside it.                                                              *)
(***************************************************************************)
EXTENDS DesiredState, FiniteSets

CONSTANTS
    None,       \* no generation yet
    Payloads    \* what the manager may send

VARIABLES
    payload,    \* history: the payload accepted last
    current,    \* the state made of it
    running,    \* the state loop's thread lives
    workers     \* key -> what the worker was started with, for which destination

contentVars == <<payload, current, running, workers>>

ContentInit ==
    /\ payload = None /\ current = None
    /\ running = TRUE
    /\ workers = <<>>

Newer(p) == current # None => p.generation > current.generation

Accept(p) ==
    /\ running
    /\ PayloadOk(p) /\ Newer(p)
    /\ payload' = p /\ current' = FromPayload(p)
    /\ UNCHANGED <<running, workers>>

\* StateValidationError: the state in use stays.
Refuse(p) ==
    /\ running
    /\ ~PayloadRaises(p)
    /\ ~(PayloadOk(p) /\ Newer(p))
    /\ UNCHANGED contentVars

\* Any other exception is not caught by the loop (service.py:123) and ends its thread.
Escapes(p) ==
    /\ running
    /\ PayloadRaises(p)
    /\ running' = FALSE
    /\ UNCHANGED <<payload, current, workers>>

-------------------------------------------------------------------------------
\* The destinations a payload enables, by their place in it.
Places(p) ==
    UNION {{<<i, j>> : j \in DOMAIN p.streams[i].destinations} : i \in DOMAIN p.streams}

At(p, place) == p.streams[place[1]].destinations[place[2]]

\* The worker's key: the path's stream and the destination.
Key(place) == <<current.streams[place[1]].stream_id, At(current, place).destination_id>>

Fingerprint(d) == <<d.destination_id, d.platform, d.ingest_url, d.stream_key>>

Desired(online) ==
    {place \in Places(current) :
        /\ current.streams[place[1]].stream_id \in online
        /\ current.streams[place[1]].enabled /\ At(current, place).enabled}

\* A worker with the fingerprint of its destination stays; others are made anew.
WorkerFor(place) ==
    LET d == At(current, place)
        made == [fingerprint |-> Fingerprint(d), since |-> current.generation,
                 target |-> BuildDestinationUrl(d.ingest_url, d.stream_key),
                 serves |-> At(payload, place)]
        key == Key(place)
    IN  IF key \in DOMAIN workers /\ workers[key].fingerprint = made.fingerprint
        THEN [workers[key] EXCEPT !.serves = made.serves]
        ELSE made

Reconcile(online) ==
    /\ current # None
    /\ workers' = [key \in {Key(place) : place \in Desired(online)} |->
                       WorkerFor(CHOOSE place \in Desired(online) : Key(place) = key)]
    /\ UNCHANGED <<payload, current, running>>

StreamsOf(p) == {p.streams[i].stream_id : i \in DOMAIN p.streams}

ContentNext ==
    \/ \E p \in Payloads : Accept(p) \/ Refuse(p) \/ Escapes(p)
    \/ \E online \in SUBSET (IF current = None THEN {} ELSE StreamsOf(current)) :
           Reconcile(online)

ContentSpec == ContentInit /\ [][ContentNext]_contentVars

-------------------------------------------------------------------------------
\* Whatever a generation that was accepted asks for can be done: every destination of
\* it has a worker key of its own, and a target its worker can build (else its thread
\* dies before the first FFmpeg, worker.py:199); every limit it sets is one that the
\* setters of the admission, the supervisor and the traffic accountant take, which raise
\* otherwise and would end the state loop (models.py 92-119, 133-157, 168-195).
AcceptedCanBeServed ==
    current # None =>
        /\ \A a, b \in Places(payload) : Key(a) = Key(b) => a = b
        /\ \A a \in Places(payload) :
              LET d == At(current, a)
              IN  BuildDestinationUrl(d.ingest_url, d.stream_key) # Malformed
        /\ current.limits # NoLimits =>
              /\ current.limits.revision = current.generation
              /\ current.limits.max_server_connections \in Nat \ {0}
              /\ current.limits.monthly_traffic_quota_bytes \in Nat \ {0}

\* The shape of what the checks let through: the destination ids and the URLs of the
\* payloads are records of the parts that DesiredState names, and of no others.
Shaped(d) ==
    /\ d.destination_id = [uuid |-> d.destination_id.uuid, capitals |-> d.destination_id.capitals]
    /\ LET u == d.ingest_url
       IN  /\ u = [scheme |-> u.scheme, capitals |-> u.capitals, host |-> u.host,
                   slashes |-> u.slashes, query |-> u.query]
           /\ u.query \in BOOLEAN

PayloadsShaped ==
    \A p \in Payloads :
        PayloadOk(p) => FromPayload(p) # None /\ \A place \in Places(p) : Shaped(At(p, place))

\* Two ways to write one destination.
SameDestination(c, d) ==
    /\ c.destination_id.uuid = d.destination_id.uuid
    /\ c.platform = d.platform
    /\ c.ingest_url.scheme = d.ingest_url.scheme /\ c.ingest_url.host = d.ingest_url.host
    /\ c.stream_key = d.stream_key

\* A worker goes on from one generation to the next exactly if its destination is the
\* same, however the manager writes its id and URL: no stream is interrupted without a
\* reason, and none goes on to where it no longer should (models.py 68, 119; worker.py
\* 24-28, 380).
KeptIfAndOnlyIfSame ==
    [][\A k \in DOMAIN workers \cap DOMAIN workers' :
          (workers'[k].since = workers[k].since)
             <=> SameDestination(workers[k].serves, workers'[k].serves)]_contentVars
===============================================================================
