------------------------------ MODULE MCGenerations -----------------------------
(* Two generations.  Every field takes every kind of value, one or two at a time: *)
(* the head, the limits, and the streams are varied each with the others fine.    *)
EXTENDS Generations

Uuids == {"u", "v"}
Ids == [uuid : Uuids, capitals : BOOLEAN] \cup {Malformed}
Urls == [scheme : {"rtmp", "http"}, capitals : BOOLEAN, host : {"h"}, slashes : {0, 2},
         query : BOOLEAN] \cup {Malformed, Unreadable}
Keys == [text : {"k", "l"}, slashes : {0, 1}] \cup {Malformed}

AnUrl == [scheme |-> "rtmp", capitals |-> FALSE, host |-> "h", slashes |-> 0, query |-> FALSE]
AKey == [text |-> "k", slashes |-> 0]
Plain(id) == [destination_id |-> id, platform |-> "p", enabled |-> Yes,
              ingest_url |-> AnUrl, stream_key |-> AKey]
AnId == [uuid |-> "u", capitals |-> FALSE]

\* One field of a destination varied, and two of them.
Destinations ==
    {Malformed}
    \cup {Plain(id) : id \in Ids}
    \cup {[Plain(AnId) EXCEPT !.platform = v] : v \in {"q", Malformed, Unreadable}}
    \cup {[Plain(AnId) EXCEPT !.enabled = e, !.ingest_url = u] :
             e \in {Yes, No, Malformed}, u \in Urls}
    \cup {[Plain(AnId) EXCEPT !.stream_key = k] : k \in Keys}

Few == {Malformed} \cup {Plain(id) : id \in Ids}
       \cup {[Plain(AnId) EXCEPT !.ingest_url = Unreadable],
             [Plain(AnId) EXCEPT !.ingest_url.capitals = TRUE, !.ingest_url.slashes = 2]}

AStream(id, ds) == [stream_id |-> id, enabled |-> Yes, destinations |-> ds]

OneStream ==
    {<<AStream("s", <<d>>)>> : d \in Destinations}
    \cup {<<AStream("s", <<c, d>>)>> : c \in Few, d \in Few}
    \cup {<<[AStream("s", <<Plain(AnId)>>) EXCEPT !.enabled = e]>> : e \in {No, Malformed}}
    \cup {<<Malformed>>, <<AStream(Malformed, <<>>)>>, <<AStream("s", Malformed)>>, <<>>}

TwoStreams ==
    {<<AStream("s", <<c>>), AStream(id, <<d>>)>> : id \in {"s", "t"}, c, d \in Few}

Plainly == <<AStream("s", <<Plain(AnId)>>)>>
Limits(g) == [revision |-> g, max_server_connections |-> 1, monthly_traffic_quota_bytes |-> 1]
Payload(g, ss) ==
    [schema_version |-> 2, relay_id |-> "ours", generation |-> g, issued_at |-> 0,
     expires_at |-> 1, streams |-> ss, limits |-> Limits(g)]

Numbers == {-1, 0, 1, 2, Yes, Malformed}
Times == {0, 1, Malformed, Unreadable}

Heads ==
    {[Payload(1, Plainly) EXCEPT !.schema_version = s, !.limits = l, !.relay_id = r] :
        s \in {1, 2, 3, Yes, Malformed, Unreadable}, l \in {NoLimits, Malformed, Limits(1)},
        r \in {"ours", "other"}}
    \cup {[Payload(1, Plainly) EXCEPT !.schema_version = s, !.issued_at = i, !.expires_at = e] :
             s \in {2, Malformed}, i, e \in Times}
    \cup {[Payload(1, Plainly) EXCEPT !.generation = n] : n \in Numbers}

WithLimits ==
    {[Payload(1, Plainly) EXCEPT !.limits = [revision |-> r, max_server_connections |-> m,
                                             monthly_traffic_quota_bytes |-> q]] :
        r, m, q \in Numbers}

MCPayloads ==
    {Malformed}
    \cup Heads \cup WithLimits
    \cup {Payload(g, ss) : g \in {1, 2}, ss \in OneStream \cup TwoStreams \cup {Malformed}}

ASSUME ShapesAssumption == PayloadsShaped
===============================================================================
