----------------------------- MODULE StateLoopProofs -----------------------------
(***************************************************************************)
(* What the state loop does with one payload of the manager after another. *)
(* It takes it (Generations, ContentSpec): whatever payloads come, the     *)
(* generation in use was made of one that passed every check, the checks   *)
(* are enough to serve it, and workers go on exactly where nothing         *)
(* changed.  It brings MediaMTX's paths to it (PathReconciler, Spec): for  *)
(* every set of paths the record of the agent's own paths is right, the    *)
(* operator's are left alone, and the agent refuses a path of its own only *)
(* after an addition went unrecorded.                                      *)
(***************************************************************************)
EXTENDS Generations, PathReconciler, TLAPS

\* The inductive invariant.
Made == current # None => PayloadOk(payload) /\ current = FromPayload(payload)

\* Only a payload that passed from_payload becomes the state in use (models.py 159-218,
\* service.py 107-129).
THEOREM OnlyAcceptedIsUsed == ContentSpec => []Made
<1>1. ContentInit => Made
  BY DEF ContentInit, Made
<1>2. Made /\ [ContentNext]_contentVars => Made'
  <2> SUFFICES ASSUME Made, [ContentNext]_contentVars PROVE Made'
    OBVIOUS
  <2>1. ASSUME NEW p \in Payloads, Accept(p) PROVE Made'
    BY <2>1 DEF Accept, Made
  <2>2. CASE UNCHANGED <<payload, current>>
    BY <2>2 DEF Made
  <2> QED
    BY <2>1, <2>2 DEF ContentNext, Refuse, Escapes, Reconcile, contentVars
<1> QED
  BY <1>1, <1>2, PTL DEF ContentSpec

\* What the checks of a payload say of one destination of it.
LEMMA DestinationsAreOk ==
    ASSUME NEW p, PayloadOk(p), NEW a \in Places(p)
    PROVE  \E i \in DOMAIN p.streams : \E j \in DOMAIN p.streams[i].destinations :
               /\ a = <<i, j>>
               /\ StreamOk(p.streams[i])
               /\ DestinationOk(p.streams[i].destinations[j])
<1>1. PICK i \in DOMAIN p.streams : \E j \in DOMAIN p.streams[i].destinations : a = <<i, j>>
  BY DEF Places
<1>2. StreamOk(p.streams[i])
  BY DEF PayloadOk
<1> QED
  BY <1>1, <1>2 DEF StreamOk

\* A stream of the state made of a payload, and a destination of it.
LEMMA WhatIsMade ==
    ASSUME NEW p, NEW i \in DOMAIN p.streams, NEW j \in DOMAIN p.streams[i].destinations
    PROVE  /\ FromPayload(p).streams[i].stream_id = p.streams[i].stream_id
           /\ At(FromPayload(p), <<i, j>>) = Destination(p.streams[i].destinations[j])
  BY DEF FromPayload, Stream, At

\* Streams of a payload have different ids, and destinations of a stream different ones
\* whatever the case they are written in: one worker key each.
LEMMA KeysAreDistinct ==
    ASSUME PayloadOk(payload), current = FromPayload(payload),
           NEW a \in Places(payload), NEW b \in Places(payload), Key(a) = Key(b)
    PROVE  a = b
<1>1. PICK i \in DOMAIN payload.streams : \E j \in DOMAIN payload.streams[i].destinations :
              a = <<i, j>> /\ StreamOk(payload.streams[i])
  BY DestinationsAreOk
<1>2. PICK j \in DOMAIN payload.streams[i].destinations : a = <<i, j>>
  BY <1>1
<1>3. PICK k \in DOMAIN payload.streams : \E l \in DOMAIN payload.streams[k].destinations :
              b = <<k, l>>
  BY DestinationsAreOk
<1>4. PICK l \in DOMAIN payload.streams[k].destinations : b = <<k, l>>
  BY <1>3
<1>5. payload.streams[i].stream_id = payload.streams[k].stream_id
  BY <1>2, <1>4, WhatIsMade DEF Key
<1>6. i = k
  BY <1>5 DEF PayloadOk, Distinct, StreamIds
<1>7. Destination(payload.streams[i].destinations[j]).destination_id
        = Destination(payload.streams[i].destinations[l]).destination_id
  BY <1>2, <1>4, <1>6, WhatIsMade DEF Key
<1>8. j = l
  BY <1>1, <1>6, <1>7 DEF StreamOk, Distinct, DestinationIds
<1> QED
  BY <1>2, <1>4, <1>6, <1>8

\* Every generation in use can be served: keys, targets and limits (models.py 92-119,
\* 133-157, 168-195; worker.py:199).
THEOREM AcceptedIsServable == ContentSpec => []AcceptedCanBeServed
<1>1. Made => AcceptedCanBeServed
  <2> SUFFICES ASSUME PayloadOk(payload), current = FromPayload(payload)
               PROVE  AcceptedCanBeServed
    BY DEF Made, AcceptedCanBeServed
  <2>1. \A a, b \in Places(payload) : Key(a) = Key(b) => a = b
    BY KeysAreDistinct
  <2>2. ASSUME NEW a \in Places(payload)
        PROVE  BuildDestinationUrl(At(current, a).ingest_url, At(current, a).stream_key) # Malformed
    <3>1. PICK i \in DOMAIN payload.streams : \E j \in DOMAIN payload.streams[i].destinations :
                  a = <<i, j>> /\ DestinationOk(payload.streams[i].destinations[j])
      BY DestinationsAreOk
    <3>2. PICK j \in DOMAIN payload.streams[i].destinations :
                  a = <<i, j>> /\ DestinationOk(payload.streams[i].destinations[j])
      BY <3>1
    <3>3. At(current, a) = Destination(payload.streams[i].destinations[j])
      BY <3>2, WhatIsMade
    <3> QED
      BY <3>2, <3>3 DEF Destination, DestinationOk, Joins
  <2>3. ASSUME current.limits # NoLimits
        PROVE  /\ current.limits.revision = current.generation
               /\ current.limits.max_server_connections \in Nat \ {0}
               /\ current.limits.monthly_traffic_quota_bytes \in Nat \ {0}
    <3>1. current.limits = payload.limits /\ current.generation = payload.generation
      BY DEF FromPayload
    <3>2. Schema(payload) = 2
      BY <2>3, <3>1 DEF PayloadOk, HeadOk, KeysOk
    <3>3. LimitsOk(payload.limits) /\ payload.limits.revision = payload.generation
      BY <3>2 DEF PayloadOk
    <3> QED
      BY <3>1, <3>3 DEF LimitsOk, Integer
  <2> QED
    BY <2>1, <2>2, <2>3 DEF AcceptedCanBeServed
<1> QED
  BY <1>1, OnlyAcceptedIsUsed, PTL

-------------------------------------------------------------------------------
\* What is normalised keeps the other parts: two ids, and two URLs without a query, are
\* normalised to the same exactly if those parts are the same.
LEMMA NormalIdsTell ==
    ASSUME NEW c, NEW d,
           c = [f \in {"uuid", "capitals"} |-> c[f]], d = [f \in {"uuid", "capitals"} |-> d[f]]
    PROVE  LowerCase(c) = LowerCase(d) <=> c.uuid = d.uuid
<1>1. \A x : x = [f \in {"uuid", "capitals"} |-> x[f]] =>
          /\ LowerCase(x) = [f \in {"uuid", "capitals"} |-> LowerCase(x)[f]]
          /\ LowerCase(x).uuid = x.uuid
          /\ LowerCase(x).capitals = FALSE
  BY DEF LowerCase
<1>2. ASSUME c.uuid = d.uuid PROVE LowerCase(c) = LowerCase(d)
  <2>1. \A f \in {"uuid", "capitals"} : LowerCase(c)[f] = LowerCase(d)[f]
    BY <1>1, <1>2
  <2> QED
    BY <1>1, <2>1
<1> QED
  BY <1>1, <1>2

UrlParts == {"scheme", "capitals", "host", "slashes", "query"}

LEMMA NormalUrlParts ==
    ASSUME NEW u, u = [f \in UrlParts |-> u[f]]
    PROVE  /\ NormalUrl(u) = [f \in UrlParts |-> NormalUrl(u)[f]]
           /\ NormalUrl(u).scheme = u.scheme /\ NormalUrl(u).host = u.host
           /\ NormalUrl(u).slashes = 0 /\ NormalUrl(u).capitals = FALSE
           /\ NormalUrl(u).query = u.query
  BY DEF NormalUrl, UrlParts

LEMMA NormalUrlsTell ==
    ASSUME NEW u, NEW v, u = [f \in UrlParts |-> u[f]], v = [f \in UrlParts |-> v[f]],
           u.query = FALSE, v.query = FALSE
    PROVE  NormalUrl(u) = NormalUrl(v) <=> u.scheme = v.scheme /\ u.host = v.host
<1>1. ASSUME u.scheme = v.scheme, u.host = v.host PROVE NormalUrl(u) = NormalUrl(v)
  <2>1. \A f \in UrlParts : NormalUrl(u)[f] = NormalUrl(v)[f]
    BY <1>1, NormalUrlParts DEF UrlParts
  <2> QED
    BY <2>1, NormalUrlParts
<1> QED
  BY <1>1, NormalUrlParts

\* The checks normalise a destination so far that its fingerprint is the destination
\* itself, however it was written.
LEMMA FingerprintsTell ==
    ASSUME NEW c, NEW d, DestinationOk(c), DestinationOk(d), Shaped(c), Shaped(d)
    PROVE  Fingerprint(Destination(c)) = Fingerprint(Destination(d)) <=> SameDestination(c, d)
<1>1. \A x \in {c, d} : /\ x.destination_id = [f \in {"uuid", "capitals"} |-> x.destination_id[f]]
                        /\ x.ingest_url = [f \in UrlParts |-> x.ingest_url[f]]
                        /\ x.ingest_url.query \in BOOLEAN
  BY DEF Shaped, UrlParts
<1>2. c.ingest_url.query = FALSE /\ d.ingest_url.query = FALSE
  <2>1. /\ ~NormalUrl(NormalUrl(c.ingest_url)).query /\ ~NormalUrl(NormalUrl(d.ingest_url)).query
    BY DEF DestinationOk, Joins, BuildDestinationUrl
  <2>2. \A x \in {c, d} : NormalUrl(NormalUrl(x.ingest_url)).query = x.ingest_url.query
    BY <1>1, NormalUrlParts
  <2> QED
    BY <1>1, <2>1, <2>2
<1>3. LowerCase(c.destination_id) = LowerCase(d.destination_id)
        <=> c.destination_id.uuid = d.destination_id.uuid
  BY <1>1, NormalIdsTell
<1>4. NormalUrl(c.ingest_url) = NormalUrl(d.ingest_url)
        <=> c.ingest_url.scheme = d.ingest_url.scheme /\ c.ingest_url.host = d.ingest_url.host
  BY <1>1, <1>2, NormalUrlsTell
<1> QED
  BY <1>3, <1>4 DEF Fingerprint, Destination, SameDestination

\* Every worker knows the destination it was started for, and none comes from a later
\* generation; one of this generation serves the destination with its key.
IsWorker(w) ==
    w = [fingerprint |-> w.fingerprint, since |-> w.since, target |-> w.target, serves |-> w.serves]

WorkerIsRight(k) ==
    LET w == workers[k]
    IN  /\ IsWorker(w)
        /\ DestinationOk(w.serves) /\ Shaped(w.serves)
        /\ w.fingerprint = Fingerprint(Destination(w.serves))
        /\ w.since \in Int /\ w.since <= current.generation
        /\ w.since = current.generation
              => \E place \in Places(payload) : k = Key(place) /\ w.serves = At(payload, place)

ServingInv ==
    /\ Made
    /\ current # None => payload \in Payloads
    /\ \A k \in DOMAIN workers : current # None /\ WorkerIsRight(k)

\* A destination of the generation in use, and what its worker is made of.
LEMMA PlacesOfTheState ==
    ASSUME PayloadsShaped, Made, payload \in Payloads, current # None,
           NEW a \in Places(current)
    PROVE  /\ a \in Places(payload)
           /\ DestinationOk(At(payload, a)) /\ Shaped(At(payload, a))
           /\ At(current, a) = Destination(At(payload, a))
           /\ current.generation \in Int
<1>1. PayloadOk(payload) /\ current = FromPayload(payload)
  BY DEF Made
<1>2. a \in Places(payload)
  <2>1. PICK i \in DOMAIN current.streams : \E j \in DOMAIN current.streams[i].destinations : a = <<i, j>>
    BY DEF Places
  <2>2. i \in DOMAIN payload.streams /\ current.streams[i] = Stream(payload.streams[i])
    BY <1>1, <2>1 DEF FromPayload
  <2> QED
    BY <2>1, <2>2 DEF Stream, Places
<1>3. PICK i \in DOMAIN payload.streams : \E j \in DOMAIN payload.streams[i].destinations :
              a = <<i, j>> /\ DestinationOk(payload.streams[i].destinations[j])
  BY <1>1, <1>2, DestinationsAreOk
<1>4. PICK j \in DOMAIN payload.streams[i].destinations :
              a = <<i, j>> /\ DestinationOk(payload.streams[i].destinations[j])
  BY <1>3
<1>5. Shaped(At(payload, a))
  BY <1>1, <1>2 DEF PayloadsShaped
<1>6. At(payload, a) = payload.streams[i].destinations[j]
  BY <1>4 DEF At
<1>7. At(current, a) = Destination(payload.streams[i].destinations[j])
  BY <1>1, <1>3, <1>4, WhatIsMade
<1>8. current.generation \in Int
  BY <1>1 DEF FromPayload, PayloadOk, HeadOk, Integer
<1> QED
  BY <1>2, <1>4, <1>5, <1>6, <1>7, <1>8

\* The workers that reconcile leaves, one by one.
LEMMA ReconciledWorker ==
    ASSUME PayloadsShaped, ServingInv, NEW online, Reconcile(online), NEW k \in DOMAIN workers'
    PROVE  /\ WorkerIsRight(k)'
           /\ k \in DOMAIN workers =>
                ((workers'[k].since = workers[k].since)
                    <=> SameDestination(workers[k].serves, workers'[k].serves))
<1> DEFINE keys == {Key(place) : place \in Desired(online)}
           place == CHOOSE q \in Desired(online) : Key(q) = k
           d == At(payload, place)
           made == [fingerprint |-> Fingerprint(At(current, place)), since |-> current.generation,
                    target |-> BuildDestinationUrl(At(current, place).ingest_url,
                                                   At(current, place).stream_key),
                    serves |-> d]
<1>1. /\ current # None /\ Made /\ payload \in Payloads
      /\ UNCHANGED <<payload, current>>
      /\ workers' = [key \in keys |-> WorkerFor(CHOOSE q \in Desired(online) : Key(q) = key)]
  BY DEF Reconcile, ServingInv
<1>2. k \in keys
  BY <1>1
<1>3. place \in Desired(online) /\ Key(place) = k /\ workers'[k] = WorkerFor(place)
  BY <1>1, <1>2
<1>4. place \in Places(current)
  BY <1>3 DEF Desired
<1> HIDE DEF place
<1>5. /\ place \in Places(payload) /\ DestinationOk(d) /\ Shaped(d)
      /\ At(current, place) = Destination(d) /\ current.generation \in Int
  BY <1>1, <1>4, PlacesOfTheState
<1>6. IsWorker(made) /\ made.fingerprint = Fingerprint(Destination(d))
      /\ made.since = current.generation /\ made.serves = d
  BY <1>5 DEF IsWorker
<1>7. CASE k \in DOMAIN workers /\ workers[k].fingerprint = made.fingerprint
  <2>1. WorkerIsRight(k)
    BY <1>7 DEF ServingInv
  <2>2. workers'[k] = [workers[k] EXCEPT !.serves = d]
    BY <1>3, <1>7 DEF WorkerFor
  <2>3. /\ IsWorker(workers'[k]) /\ workers'[k].fingerprint = workers[k].fingerprint
        /\ workers'[k].since = workers[k].since /\ workers'[k].serves = d
    BY <2>1, <2>2 DEF WorkerIsRight, IsWorker
  <2>4. SameDestination(workers[k].serves, d)
    BY <1>5, <1>6, <1>7, <2>1, FingerprintsTell DEF WorkerIsRight
  <2>5. WorkerIsRight(k)'
    BY <1>1, <1>3, <1>5, <1>6, <1>7, <2>1, <2>3 DEF WorkerIsRight, Key
  <2> QED
    BY <2>3, <2>4, <2>5
<1>8. CASE ~(k \in DOMAIN workers /\ workers[k].fingerprint = made.fingerprint)
  <2>1. workers'[k] = made
    BY <1>3, <1>8 DEF WorkerFor
  <2>2. WorkerIsRight(k)'
    <3>1. \A q : Key(q)' = Key(q) /\ At(payload, q)' = At(payload, q) /\ Places(payload)' = Places(payload)
      BY <1>1 DEF Key
    <3>2. workers'[k].serves = At(payload, place)
      BY <1>6, <2>1
    <3>3. \E q \in Places(payload)' : k = Key(q)' /\ workers'[k].serves = At(payload, q)'
      BY <1>3, <1>5, <3>1, <3>2
    <3> QED
      BY <1>1, <1>5, <1>6, <2>1, <3>3 DEF WorkerIsRight
  <2>3. ASSUME k \in DOMAIN workers
        PROVE  /\ workers[k].since # current.generation
               /\ ~SameDestination(workers[k].serves, d)
    <3>1. WorkerIsRight(k) /\ workers[k].fingerprint # Fingerprint(Destination(d))
      BY <1>6, <1>8, <2>3 DEF ServingInv
    <3>2. ~SameDestination(workers[k].serves, d)
      BY <1>5, <3>1, FingerprintsTell DEF WorkerIsRight
    <3>3. ASSUME workers[k].since = current.generation PROVE FALSE
      <4>1. PICK q \in Places(payload) : k = Key(q) /\ workers[k].serves = At(payload, q)
        BY <3>1, <3>3 DEF WorkerIsRight
      <4>2. q = place
        BY <1>1, <1>3, <1>5, <4>1, KeysAreDistinct DEF Made
      <4> QED
        BY <3>1, <4>1, <4>2 DEF WorkerIsRight
    <3> QED
      BY <3>2, <3>3
  <2> QED
    BY <1>6, <2>1, <2>2, <2>3
<1> QED
  BY <1>7, <1>8

\* What every other step leaves: no worker is touched, and a generation that is taken is
\* newer than all of them.
LEMMA OtherStepsKeepWorkers ==
    ASSUME PayloadsShaped, ServingInv, NEW k \in DOMAIN workers, UNCHANGED workers,
           UNCHANGED <<payload, current>> \/ \E p \in Payloads : Accept(p)
    PROVE  WorkerIsRight(k)'
<1>1. WorkerIsRight(k) /\ current # None /\ Made
  BY DEF ServingInv
<1>2. CASE UNCHANGED <<payload, current>>
  BY <1>1, <1>2 DEF WorkerIsRight, Key
<1>3. ASSUME NEW p \in Payloads, Accept(p) PROVE WorkerIsRight(k)'
  <2>1. p.generation > current.generation /\ current' = FromPayload(p) /\ PayloadOk(p) /\ workers' = workers
    BY <1>1, <1>3 DEF Accept, Newer
  <2>2. current'.generation = p.generation /\ p.generation \in Int
    BY <2>1 DEF FromPayload, PayloadOk, HeadOk, Integer
  <2>3. current.generation \in Int
    BY <1>1 DEF Made, FromPayload, PayloadOk, HeadOk, Integer
  <2>4. workers[k].since < current'.generation
    BY <1>1, <2>1, <2>2, <2>3 DEF WorkerIsRight
  <2> QED
    BY <1>1, <2>1, <2>2, <2>3, <2>4 DEF WorkerIsRight
<1> QED
  BY <1>2, <1>3

\* A worker goes on with its stream exactly if its destination stays the same, however the
\* manager writes it: the fingerprint of the normalised destination tells, and the worker
\* of a generation serves the one destination that has its key (models.py 68 and 119;
\* worker.py 24-28 and 380).
THEOREM KeptExactlyIfSame ==
    ASSUME PayloadsShaped PROVE ContentSpec => KeptIfAndOnlyIfSame
<1> DEFINE Kept == \A k \in DOMAIN workers \cap DOMAIN workers' :
                      (workers'[k].since = workers[k].since)
                         <=> SameDestination(workers[k].serves, workers'[k].serves)
<1>1. ContentInit => ServingInv
  BY DEF ContentInit, ServingInv, Made
<1>2. ServingInv /\ [ContentNext]_contentVars => ServingInv' /\ [Kept]_contentVars
  <2> SUFFICES ASSUME ServingInv, [ContentNext]_contentVars PROVE ServingInv' /\ [Kept]_contentVars
    OBVIOUS
  <2>1. ASSUME NEW online, Reconcile(online) PROVE ServingInv' /\ Kept
    <3>1. UNCHANGED <<payload, current>> /\ current # None
      BY <2>1 DEF Reconcile
    <3> QED
      BY <2>1, <3>1, ReconciledWorker DEF ServingInv, Made
  <2>2. ASSUME NEW p \in Payloads, Accept(p) PROVE ServingInv' /\ Kept
    <3>1. workers' = workers /\ payload' = p /\ current' # None /\ Made'
      BY <2>2 DEF Accept, Made, PayloadsShaped
    <3>2. Kept
      BY <3>1 DEF SameDestination
    <3> QED
      BY <2>2, <3>1, <3>2, OtherStepsKeepWorkers DEF ServingInv
  <2>3. CASE UNCHANGED <<payload, current, workers>>
    BY <2>3, OtherStepsKeepWorkers DEF ServingInv, Made, SameDestination
  <2> QED
    BY <2>1, <2>2, <2>3 DEF ContentNext, Refuse, Escapes, contentVars
<1> QED
  BY <1>1, <1>2, PTL DEF ContentSpec, KeptIfAndOnlyIfSame

-------------------------------------------------------------------------------
\* The parts of TypeOK, one per group of variables.
CallersOK ==
    /\ snapshot \subseteq Paths
    /\ arg \in [Callers -> {NoArg} \cup {ArgOf(S) : S \in SUBSET Paths}]
    /\ alive \in [Callers -> BOOLEAN]

LockOK ==
    /\ holder \in Callers \cup {Nobody}
    /\ phase \in {"desired", "stale"}
    /\ todo \subseteq Paths
    /\ cur \in {NoPath} \cup [path : Paths, seen : Configs]
    /\ holder = Nobody => todo = {} /\ cur = NoPath
    /\ holder # Nobody => arg[holder] # NoArg

RecordsOK ==
    /\ conf \in [Paths -> Configs]
    /\ managed \subseteq Paths
    /\ saved \subseteq Paths
    /\ unrecorded \in BOOLEAN

LEMMA ArgTypes ==
    /\ \A S \in SUBSET Paths : ArgOf(S) # NoArg /\ ArgOf(S).desired = S
    /\ \A a \in {NoArg} \cup {ArgOf(S) : S \in SUBSET Paths} : a # NoArg => a.desired \subseteq Paths
  BY DEF ArgOf, NoArg

\* A path in hand names a path and what MediaMTX said of it.
LEMMA InHand ==
    ASSUME LockOK, cur # NoPath
    PROVE  cur.path \in Paths /\ cur.seen \in Configs /\ holder \in Callers
  BY DEF LockOK

\* The lock is released: nobody is in the middle of anything.
LEMMA LeaveKeepsTypes ==
    ASSUME CallersOK, LockOK, holder # Nobody, Leave, alive' \in [Callers -> BOOLEAN]
    PROVE  CallersOK' /\ LockOK'
  BY DEF CallersOK, LockOK, Leave

\* Every variable keeps its type, and whoever has a path in hand has the lock
\* (relay_agent/mediamtx.py 120-178).
THEOREM ReconcilerTypeCorrect == Spec => []TypeOK
<1>1. Init => TypeOK
  BY DEF Init, TypeOK, Configs, Callers, Nobody
<1>2. TypeOK /\ [Next]_vars => TypeOK'
  <2> SUFFICES ASSUME CallersOK, LockOK, RecordsOK, [Next]_vars
               PROVE  CallersOK' /\ LockOK' /\ RecordsOK'
    BY DEF TypeOK, CallersOK, LockOK, RecordsOK
  <2> USE DEF callerVars, lockVars
  <2>1. ASSUME NEW S \in SUBSET Paths, AcceptState(S) PROVE CallersOK' /\ LockOK' /\ RecordsOK'
    <3>1. CallersOK'
      BY <2>1, ArgTypes DEF AcceptState, CallersOK, Callers
    <3>2. LockOK'
      BY <2>1, ArgTypes DEF AcceptState, CallersOK, LockOK, Callers
    <3>3. RecordsOK'
      BY <2>1 DEF AcceptState, RecordsOK
    <3> QED BY <3>1, <3>2, <3>3
  <2>2. CASE ReadSnapshot
    <3>1. CallersOK'
      BY <2>2, ArgTypes DEF ReadSnapshot, CallersOK, Callers
    <3>2. LockOK'
      BY <2>2, ArgTypes DEF ReadSnapshot, CallersOK, LockOK, Callers
    <3>3. RecordsOK'
      BY <2>2 DEF ReadSnapshot, RecordsOK
    <3> QED BY <3>1, <3>2, <3>3
  <2>3. ASSUME NEW c \in Callers, Acquire(c) PROVE CallersOK' /\ LockOK' /\ RecordsOK'
    <3>1. todo' \subseteq Paths
      BY <2>3, ArgTypes DEF Acquire, CallersOK
    <3>2. LockOK'
      BY <2>3, <3>1 DEF Acquire, LockOK, Callers, Nobody
    <3> QED BY <2>3, <3>2 DEF Acquire, CallersOK, RecordsOK
  <2>4. ASSUME NEW p \in Paths, GetDesired(p) \/ GetStale(p)
        PROVE  CallersOK' /\ LockOK' /\ RecordsOK'
    <3>1. CallersOK' /\ RecordsOK'
      BY <2>4 DEF GetDesired, GetStale, CallersOK, RecordsOK
    <3>2. [path |-> p, seen |-> conf[p]] \in [path : Paths, seen : Configs]
      BY DEF RecordsOK
    <3>3. LockOK'
      BY <2>4, <3>2 DEF GetDesired, GetStale, LockOK
    <3> QED BY <3>1, <3>3
  <2>5. CASE Add \/ Patch \/ Delete
    <3>1. cur # NoPath
      BY <2>5 DEF Add, Adding, Patch, Patching, Delete, Deleting, Seen
    <3>2. CallersOK' /\ LockOK'
      BY <2>5, <3>1 DEF Add, Patch, Delete, CallersOK, LockOK
    <3>3. RecordsOK'
      BY <2>5, <3>1, InHand DEF Add, Patch, Delete, RecordsOK, Configs
    <3> QED BY <3>2, <3>3
  <2>6. CASE TurnToStale
    BY <2>6 DEF TurnToStale, CallersOK, LockOK, RecordsOK
  <2>7. CASE RefuseUnmanaged \/ MutationRejected \/ SaveManaged \/ ApiRefused \/ SaveFails
    <3>1. holder # Nobody /\ Leave
      BY <2>7 DEF RefuseUnmanaged, MutationRejected, SaveManaged, ApiRefused, SaveFails, Calling,
                  Adding, Patching, Deleting, Seen, LockOK
    <3>2. alive' \in [Callers -> BOOLEAN]
      BY <2>7 DEF RefuseUnmanaged, MutationRejected, SaveManaged, ApiRefused, SaveFails, CallersOK
    <3>3. RecordsOK'
      BY <2>7 DEF RefuseUnmanaged, MutationRejected, SaveManaged, ApiRefused, SaveFails, RecordsOK
    <3> QED BY <3>1, <3>2, <3>3, LeaveKeepsTypes
  <2>8. CASE ApiLost
    <3>1. CallersOK' /\ LockOK'
      BY <2>8, LeaveKeepsTypes DEF ApiLost, Calling, CallersOK
    <3>2. cur # NoPath => cur.path \in Paths
      BY InHand
    <3>3. RecordsOK'
      BY <2>8, <3>2 DEF ApiLost, Adding, Patching, Deleting, Seen, RecordsOK, Configs
    <3> QED BY <3>1, <3>3
  <2>9. ASSUME NEW upgraded \in BOOLEAN, AgentRestart(upgraded)
        PROVE  CallersOK' /\ LockOK' /\ RecordsOK'
    <3>1. CallersOK' /\ LockOK'
      BY <2>9 DEF AgentRestart, CallersOK, LockOK, Callers, Nobody
    <3>2. RecordsOK'
      BY <2>9 DEF AgentRestart, RecordsOK, Configs
    <3> QED BY <3>1, <3>2
  <2>10. ASSUME NEW p \in Paths, OperatorAdds(p) PROVE CallersOK' /\ LockOK' /\ RecordsOK'
    BY <2>10 DEF OperatorAdds, CallersOK, LockOK, RecordsOK, Configs
  <2>11. CASE MediaMTXRestart
    BY <2>11 DEF MediaMTXRestart, CallersOK, LockOK, RecordsOK, Configs
  <2>12. CASE UNCHANGED vars
    BY <2>12 DEF vars, CallersOK, LockOK, RecordsOK
  <2> QED
    BY <2>1, <2>2, <2>3, <2>4, <2>5, <2>6, <2>7, <2>8, <2>9, <2>10, <2>11, <2>12 DEF Next, Step
<1> QED
  BY <1>1, <1>2, PTL DEF Spec

-------------------------------------------------------------------------------
\* While stale paths are dealt with, those left and the one in hand are the agent's own:
\* only the holder of the lock changes the record.
StaleAreManaged ==
    phase = "stale" => todo \subseteq managed /\ (cur # NoPath => cur.path \in managed)

\* What the holder saw of its own path came with the record of it.
HandIsRecorded == ~unrecorded /\ Seen(Agents) => cur.path \in managed

OwnershipInv == TypeOK /\ OwnershipIsKnown /\ StaleAreManaged /\ HandIsRecorded

\* No step leaves a path in hand without its holder.
LEMMA HandHasHolder ==
    ASSUME TypeOK, cur # NoPath
    PROVE  holder # Nobody /\ cur.path \in Paths /\ cur.seen \in Configs
  BY DEF TypeOK

\* Leaving drops what was in hand.
LEMMA LeaveForgets ==
    ASSUME Leave PROVE StaleAreManaged' /\ HandIsRecorded'
  BY DEF Leave, StaleAreManaged, HandIsRecorded, Seen

\* What the agent patches and what it deletes is on record.
LEMMA HandIsManaged ==
    ASSUME OwnershipInv, Patching \/ Deleting
    PROVE  cur.path \in managed /\ cur.path \in Paths
  BY HandHasHolder DEF Patching, Deleting, Seen, OwnershipInv, StaleAreManaged

LEMMA OwnershipStep ==
    ASSUME OwnershipInv, TypeOK', [Next]_vars PROVE OwnershipInv'
<1> SUFFICES OwnershipIsKnown' /\ StaleAreManaged' /\ HandIsRecorded'
  BY DEF OwnershipInv
<1> DEFINE Inv == OwnershipIsKnown /\ StaleAreManaged /\ HandIsRecorded
<1> USE DEF callerVars, lockVars
<1>0. TypeOK /\ OwnershipIsKnown /\ StaleAreManaged /\ HandIsRecorded
  BY DEF OwnershipInv
<1>1. CASE (\E S \in SUBSET Paths : AcceptState(S)) \/ ReadSnapshot \/ UNCHANGED vars
  BY <1>0, <1>1 DEF AcceptState, ReadSnapshot, vars, OwnershipIsKnown, StaleAreManaged,
                    HandIsRecorded, Seen
<1>2. ASSUME NEW c \in Callers, Acquire(c) PROVE Inv'
  BY <1>0, <1>2 DEF Acquire, TypeOK, OwnershipIsKnown, StaleAreManaged, HandIsRecorded, Seen
<1>3. ASSUME NEW p \in Paths, GetDesired(p) PROVE Inv'
  BY <1>0, <1>3 DEF GetDesired, OwnershipIsKnown, StaleAreManaged, HandIsRecorded, Seen, Agents,
                    NoPath
<1>4. ASSUME NEW p \in Paths, GetStale(p) PROVE Inv'
  <2>1. p \in managed
    BY <1>0, <1>4 DEF GetStale, StaleAreManaged
  <2>2. OwnershipIsKnown'
    BY <1>0, <1>4 DEF GetStale, OwnershipIsKnown, Agents
  <2>3. StaleAreManaged' /\ HandIsRecorded'
    BY <1>0, <1>4, <2>1 DEF GetStale, StaleAreManaged, HandIsRecorded, Seen
  <2> QED BY <2>2, <2>3
<1>5. CASE Add
  <2>1. cur.path \in Paths /\ conf[cur.path] = "absent" /\ phase = "desired"
    BY <1>0, <1>5, HandHasHolder DEF Add, Adding, Seen
  <2>2. OwnershipIsKnown'
    BY <1>0, <1>5, <2>1 DEF Add, OwnershipIsKnown, TypeOK
  <2>3. StaleAreManaged' /\ HandIsRecorded'
    BY <1>5, <2>1 DEF Add, StaleAreManaged, HandIsRecorded, Seen
  <2> QED BY <2>2, <2>3
<1>6. CASE Patch
  <2>1. cur.path \in managed
    BY <1>6, HandIsManaged DEF Patch
  <2>2. OwnershipIsKnown'
    BY <1>0, <1>6, <2>1 DEF Patch, OwnershipIsKnown, TypeOK
  <2>3. StaleAreManaged' /\ HandIsRecorded'
    BY <1>6 DEF Patch, Patching, StaleAreManaged, HandIsRecorded, Seen
  <2> QED BY <2>2, <2>3
<1>7. CASE Delete
  <2>1. OwnershipIsKnown'
    BY <1>0, <1>7 DEF Delete, OwnershipIsKnown, TypeOK, Agents
  <2>2. StaleAreManaged' /\ HandIsRecorded'
    BY <1>0, <1>7 DEF Delete, Deleting, StaleAreManaged, HandIsRecorded, Seen
  <2> QED BY <2>1, <2>2
<1>8. CASE TurnToStale
  BY <1>0, <1>8 DEF TurnToStale, OwnershipIsKnown, StaleAreManaged, HandIsRecorded, Seen
<1>9. CASE RefuseUnmanaged \/ MutationRejected \/ SaveManaged \/ ApiRefused \/ SaveFails
  <2>1. OwnershipIsKnown'
    BY <1>0, <1>9 DEF RefuseUnmanaged, MutationRejected, SaveManaged, ApiRefused, SaveFails,
                      OwnershipIsKnown
  <2>2. Leave
    BY <1>9 DEF RefuseUnmanaged, MutationRejected, SaveManaged, ApiRefused, SaveFails
  <2> QED BY <2>1, <2>2, LeaveForgets
<1>10. CASE ApiLost
  <2>1. StaleAreManaged' /\ HandIsRecorded'
    BY <1>10, LeaveForgets DEF ApiLost
  <2>2. managed' = managed /\ saved' = saved
    BY <1>10 DEF ApiLost
  <2>3. CASE UNCHANGED <<conf, unrecorded>>
    BY <1>0, <2>1, <2>2, <2>3 DEF OwnershipIsKnown
  <2>4. CASE Adding /\ conf' = [conf EXCEPT ![cur.path] = "current"] /\ unrecorded' = TRUE
    BY <1>0, <2>1, <2>2, <2>4 DEF OwnershipIsKnown, TypeOK
  <2>5. CASE Patching /\ conf' = [conf EXCEPT ![cur.path] = "current"] /\ UNCHANGED unrecorded
    <3>1. cur.path \in managed
      BY <2>5, HandIsManaged
    <3> QED BY <1>0, <2>1, <2>2, <2>5, <3>1 DEF OwnershipIsKnown, TypeOK
  <2>6. CASE Deleting /\ conf' = [conf EXCEPT ![cur.path] = "absent"] /\ UNCHANGED unrecorded
    BY <1>0, <2>1, <2>2, <2>6 DEF OwnershipIsKnown, TypeOK, Agents
  <2> QED BY <1>10, <2>3, <2>4, <2>5, <2>6 DEF ApiLost
<1>11. ASSUME NEW upgraded \in BOOLEAN, AgentRestart(upgraded) PROVE Inv'
  <2>1. OwnershipIsKnown'
    BY <1>0, <1>11 DEF AgentRestart, OwnershipIsKnown, TypeOK, Agents
  <2>2. StaleAreManaged' /\ HandIsRecorded'
    BY <1>11 DEF AgentRestart, StaleAreManaged, HandIsRecorded, Seen
  <2> QED BY <2>1, <2>2
<1>12. CASE MediaMTXRestart
  BY <1>0, <1>12 DEF MediaMTXRestart, OwnershipIsKnown, StaleAreManaged, HandIsRecorded, Seen, Agents
<1>13. ASSUME NEW p \in Paths, OperatorAdds(p) PROVE Inv'
  BY <1>0, <1>13 DEF OperatorAdds, OwnershipIsKnown, StaleAreManaged, HandIsRecorded, Seen, Agents,
                     TypeOK
<1> QED
  BY <1>1, <1>2, <1>3, <1>4, <1>5, <1>6, <1>7, <1>8, <1>9, <1>10, <1>11, <1>12, <1>13
  DEF Next, Step

LEMMA OwnershipInvHolds == Spec => []OwnershipInv
<1>1. Init => OwnershipInv
  <2> SUFFICES ASSUME Init PROVE OwnershipInv
    OBVIOUS
  <2>1. TypeOK
    BY DEF Init, TypeOK, Configs, Callers, Nobody
  <2>2. OwnershipIsKnown
    BY DEF Init, OwnershipIsKnown, Agents
  <2>3. StaleAreManaged /\ HandIsRecorded
    BY DEF Init, StaleAreManaged, HandIsRecorded, Seen
  <2> QED BY <2>1, <2>2, <2>3 DEF OwnershipInv
<1> QED
  BY <1>1, OwnershipStep, ReconcilerTypeCorrect, PTL DEF Spec

\* Unless an addition went unrecorded, the record names every path of the agent, whoever
\* else uses the same names (relay_agent/mediamtx.py 162-163 and 173-177).
THEOREM OwnershipStaysKnown == Spec => []OwnershipIsKnown
<1>1. OwnershipInv => OwnershipIsKnown
  BY DEF OwnershipInv
<1> QED
  BY <1>1, OwnershipInvHolds, PTL

\* What the operator configured under a name that is on no record stays as it is and off
\* the record, whatever calls fail or get lost and whoever restarts: what the agent changes
\* is on record (HandIsManaged), and what it adds, and records, is absent
\* (relay_agent/mediamtx.py 164-177).
THEOREM OperatorIsLeftAlone == Spec => OperatorUntouched
<1>1. OwnershipInv /\ [Next]_vars =>
        [\A p \in Paths :
           conf[p] = "operator" /\ p \notin managed \cup saved =>
               conf'[p] = "operator" /\ p \notin managed' \cup saved']_<<conf, managed, saved>>
  <2> SUFFICES ASSUME OwnershipInv, [Next]_vars,
                      NEW p \in Paths, conf[p] = "operator", p \notin managed \cup saved
               PROVE  conf'[p] = "operator" /\ p \notin managed' \cup saved'
    OBVIOUS
  <2> USE DEF callerVars, lockVars
  <2>0. TypeOK
    BY DEF OwnershipInv
  <2>1. CASE Add
    <3>1. cur.path # p /\ cur.path \in Paths
      BY <2>0, <2>1, HandHasHolder DEF Add, Adding, Seen
    <3> QED BY <2>0, <2>1, <3>1 DEF Add, TypeOK
  <2>2. CASE Patch \/ Delete
    <3>1. cur.path # p
      BY <2>2, HandIsManaged DEF Patch, Delete
    <3> QED BY <2>0, <2>2, <3>1 DEF Patch, Delete, TypeOK
  <2>3. CASE ApiLost
    <3>1. managed' = managed /\ saved' = saved
      BY <2>3 DEF ApiLost
    <3>2. Patching \/ Deleting => cur.path # p
      BY HandIsManaged
    <3>3. conf'[p] = "operator"
      BY <2>0, <2>3, <3>2 DEF ApiLost, TypeOK
    <3> QED BY <3>1, <3>3
  <2>4. CASE MediaMTXRestart \/ \E upgraded \in BOOLEAN : AgentRestart(upgraded)
    BY <2>4 DEF MediaMTXRestart, AgentRestart
  <2>5. ASSUME NEW q \in Paths, OperatorAdds(q)
        PROVE  conf'[p] = "operator" /\ p \notin managed' \cup saved'
    BY <2>0, <2>5 DEF OperatorAdds, TypeOK
  <2>6. ASSUME NEW q \in Paths, GetDesired(q) \/ GetStale(q)
        PROVE  conf'[p] = "operator" /\ p \notin managed' \cup saved'
    BY <2>6 DEF GetDesired, GetStale
  <2> QED
    BY <2>1, <2>2, <2>3, <2>4, <2>5, <2>6 DEF Next, Step, vars, AcceptState, ReadSnapshot, Acquire,
       RefuseUnmanaged, TurnToStale, MutationRejected, SaveManaged, ApiRefused, SaveFails
<1> QED
  BY <1>1, OwnershipInvHolds, PTL DEF Spec, OperatorUntouched

\* The agent takes a path of its own for the operator's only after an addition that never
\* reached the record on disk: the lost answer or the crash before line 178 is the only way
\* to the refusal of lines 164-171.
THEOREM RefusesItsOwnOnlyUnrecorded == Spec => [](~unrecorded => NeverRefusesItsOwn)
<1>1. OwnershipInv => (~unrecorded => NeverRefusesItsOwn)
  BY DEF OwnershipInv, HandIsRecorded, NeverRefusesItsOwn
<1> QED
  BY <1>1, OwnershipInvHolds, PTL
===============================================================================
