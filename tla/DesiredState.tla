------------------------------ MODULE DesiredState ------------------------------
(***************************************************************************)
(* What relay_agent/models.py makes of the payload of an envelope.  A JSON *)
(* value is a number, Yes or No (true, false), a record for an object with *)
(* exactly the expected keys, a sequence for a list, or                    *)
(*   Malformed   a value that its check refuses with StateValidationError  *)
(*   Unreadable  one on which the check raises another exception: a URL    *)
(*               that urlsplit cannot split, a list where a set is asked,  *)
(*               a time that is out of range in UTC.                       *)
(* The checks of an object are made in the order of the source and the     *)
(* first that fails decides: an object is fine (Ok), refused with another  *)
(* exception (Raises), or refused.                                         *)
(***************************************************************************)
EXTENDS Integers, Sequences

CONSTANTS Yes, No, Malformed, Unreadable

ASSUME ValuesAssumption ==
    /\ Yes # No /\ {Yes, No} \cap {Malformed, Unreadable} = {}
    /\ {Yes, No, Malformed, Unreadable} \cap Int = {}

Bool(v) == v \in {Yes, No}
\* isinstance(v, int) and not isinstance(v, bool)
Integer(v) == v \in Int

Distinct(ids) == \A i, j \in DOMAIN ids : ids[i] = ids[j] => i = j

-------------------------------------------------------------------------------
\* An ingest URL: its scheme and whether it is written in capitals, the authority and
\* path as one, how many slashes end it, and whether it has a query.
UrlRaises(u) == u = Unreadable
UrlOk(u) == u \notin {Malformed, Unreadable} /\ u.scheme \in {"rtmp", "rtmps"}

\* Mutant: the slashes at the end stay.
NormalScheme(u) == [u EXCEPT !.capitals = FALSE]
NormalUrl(u) == [u EXCEPT !.capitals = FALSE, !.slashes = 0]

KeyOk(k) == k # Malformed

\* Checks and normalises again what was normalised; the slashes before the key go.
BuildDestinationUrl(url, key) ==
    IF UrlOk(url) /\ KeyOk(key) /\ ~NormalUrl(url).query
    THEN <<url.scheme, url.host, key.text>>
    ELSE Malformed

Joins(url, key) == BuildDestinationUrl(NormalUrl(url), key) # Malformed

-------------------------------------------------------------------------------
\* A destination: its id is a UUID and whether it is written in capitals.
DestinationOk(d) ==
    /\ d # Malformed
    /\ d.destination_id # Malformed
    /\ d.platform \notin {Malformed, Unreadable}
    /\ Bool(d.enabled)
    /\ UrlOk(d.ingest_url) /\ KeyOk(d.stream_key)
    /\ Joins(d.ingest_url, d.stream_key)

DestinationRaises(d) ==
    /\ d # Malformed
    /\ d.destination_id # Malformed
    /\ \/ d.platform = Unreadable
       \/ d.platform # Malformed /\ Bool(d.enabled) /\ UrlRaises(d.ingest_url)

LowerCase(id) == [id EXCEPT !.capitals = FALSE]

Destination(d) ==
    [destination_id |-> LowerCase(d.destination_id), platform |-> d.platform,
     enabled |-> d.enabled = Yes, ingest_url |-> NormalUrl(d.ingest_url),
     stream_key |-> d.stream_key]

-------------------------------------------------------------------------------
\* A stream: stream_id stands for the credential as well.
\* (Mutant: duplicates are looked for in the ids as they came.)
IdsAsWritten(s) == [i \in DOMAIN s.destinations |-> s.destinations[i].destination_id]
DestinationIds(s) ==
    [i \in DOMAIN s.destinations |-> Destination(s.destinations[i]).destination_id]

StreamHead(s) ==
    /\ s # Malformed
    /\ s.stream_id # Malformed
    /\ Bool(s.enabled)
    /\ s.destinations # Malformed

StreamOk(s) ==
    /\ StreamHead(s)
    /\ \A i \in DOMAIN s.destinations : DestinationOk(s.destinations[i])
    /\ Distinct(DestinationIds(s))

\* The items of a list are read one after another; the first bad one ends it.
StreamRaises(s) ==
    /\ StreamHead(s)
    /\ \E i \in DOMAIN s.destinations :
          /\ DestinationRaises(s.destinations[i])
          /\ \A j \in 1 .. i - 1 : DestinationOk(s.destinations[j])

Stream(s) ==
    [stream_id |-> s.stream_id, enabled |-> s.enabled = Yes,
     destinations |-> [i \in DOMAIN s.destinations |-> Destination(s.destinations[i])]]

-------------------------------------------------------------------------------
LimitsOk(l) ==
    /\ l # Malformed
    /\ Integer(l.revision) /\ Integer(l.max_server_connections)
    /\ Integer(l.monthly_traffic_quota_bytes)
    /\ l.revision >= 0 /\ l.max_server_connections >= 1 /\ l.monthly_traffic_quota_bytes >= 1

\* Python's true equals 1: a schema_version of true is schema 1.
Schema(p) == IF p.schema_version = Yes THEN 1 ELSE p.schema_version

\* expected_keys: limits are a key of every schema but the first.  (NoLimits: no key.)
NoLimits == <<>>
KeysOk(p) == (Schema(p) = 1) = (p.limits = NoLimits)

\* The checks up to streams; the first time or schema_version that raises ends them.
HeadRaises(p) ==
    /\ KeysOk(p)
    /\ \/ Schema(p) = Unreadable
       \/ /\ Schema(p) \in {1, 2} /\ p.relay_id = "ours"
          /\ Integer(p.generation) /\ p.generation >= 0
          /\ \/ p.issued_at = Unreadable
             \/ p.issued_at # Malformed /\ p.expires_at = Unreadable

HeadOk(p) ==
    /\ KeysOk(p) /\ Schema(p) \in {1, 2}
    /\ p.relay_id = "ours"
    /\ Integer(p.generation) /\ p.generation >= 0
    /\ p.issued_at \in Int /\ p.expires_at \in Int /\ p.expires_at > p.issued_at

StreamIds(p) == [i \in DOMAIN p.streams |-> p.streams[i].stream_id]

PayloadOk(p) ==
    /\ p # Malformed
    /\ HeadOk(p)
    /\ p.streams # Malformed
    /\ \A i \in DOMAIN p.streams : StreamOk(p.streams[i])
    /\ Distinct(StreamIds(p))
    /\ Schema(p) = 2 => LimitsOk(p.limits) /\ p.limits.revision = p.generation

PayloadRaises(p) ==
    /\ p # Malformed
    /\ \/ HeadRaises(p)
       \/ /\ HeadOk(p) /\ p.streams # Malformed
          /\ \E i \in DOMAIN p.streams :
                StreamRaises(p.streams[i]) /\ \A j \in 1 .. i - 1 : StreamOk(p.streams[j])

FromPayload(p) ==
    [generation |-> p.generation, limits |-> p.limits,
     streams |-> [i \in DOMAIN p.streams |-> Stream(p.streams[i])]]
===============================================================================
