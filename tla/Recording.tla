------------------------------ MODULE Recording ------------------------------
(***************************************************************************)
(* What is recorded of one traced request, and what of it the reporter can *)
(* read: the trace it continues (CrossProcess), the spans of its calls     *)
(* with their tags (RedisCommand, and curl_exec here), and the text they   *)
(* are sent in (SegmentText).  When the segment is made and sent, and the  *)
(* numbers of its spans, are Request's matter.                             *)
(*                                                                         *)
(* Some texts are not ended by a zero byte, and go on with what the memory *)
(* behind them holds: what base64 decodes to, an operation name cut at a   *)
(* '?', one that fills its block (its zero byte is in the next), and the   *)
(* generated name of the instance.                                         *)
(*                                                                         *)
(* The code also writes past three allocations: the array of a header's    *)
(* tokens, an operation name that fills its block, and the host and port of*)
(* a transfer.  What lies there may be of no use to anyone, or it is in use*)
(* and the phase is "broken": nothing is claimed of what follows.          *)
(***************************************************************************)
EXTENDS CrossProcess, RedisCommand, SegmentText

CONSTANTS
    Headers,     \* the sw8 headers of requests, NoHeader among them
    Uris,        \* records: a path, what follows it with its '?', or <<>>, and
                 \* whether the path is as long as the block it is given
    Calls,       \* the redis calls of a script: records of keyword and args
    Responses,   \* of transfers: records of http_code, body, and if it is returned
    Urls,        \* what scripts transfer, records as Uris, and whether host and
                 \* port are long for a block of sizeof(char*) + 6
    Services,    \* what a script may leave in skywalking.service
    TraceIds,    \* the ids that headers carry, as bytes
    OwnId,       \* the segment's id, sky_core_report_trace_id
    Garbage,     \* the bytes that memory behind a text may hold
    Dirty,       \* the parts with quotes, backslashes or control characters
    CurlResponse,   \* skywalking.curl_response_enable
    MaxSpans     \* bound on the spans of the request

\* A sequence of anything: texts are of parts that are told apart.
IsSeq(s) == s \in Seq(Range(s))

\* A header is anything between dashes, base64 or not.  The texts that PHP hands
\* over have no zero byte.
ASSUME RecordingAssumption ==
    /\ TraceIds \subseteq Seq(1..255) /\ OwnId \in Seq(1..255) /\ Garbage \subseteq 1..255
    /\ Headers \subseteq Seq(Seq(0..64))
    /\ \A call \in Calls : IsCall(call.kw, call.args)
    /\ \A uri \in Uris \union Urls : IsSeq(uri.path) /\ IsSeq(uri.query) /\ uri.fills \in BOOLEAN
    /\ \A url \in Urls : url.long \in BOOLEAN
    /\ \A response \in Responses : IsSeq(response.body)
    /\ MaxSpans \in Nat /\ MaxSpans >= 1

VARIABLES
    phase,       \* "idle", "script", "sent"; "broken", or "lost" with its process
    header,      \* the request's sw8 header
    tail,        \* history: what undefined memory has added to the texts
    traceId,     \* of the segment, as bytes
    spans,       \* with their texts as sequences of parts
    redis,       \* history: the redis calls, in order
    service,     \* of the segment
    instance,    \* of the segment: what is behind the name that was generated
    freed,       \* history: the freed text, "whole", "spoiled" or "unmapped"
    parsed       \* whether the reporter could read the segment

vars == <<phase, header, tail, traceId, spans, redis, service, instance, freed, parsed>>
ending == <<service, instance, freed, parsed>>

Init ==
    /\ phase = "idle" /\ header = NoHeader /\ tail = {}
    /\ traceId = <<>> /\ spans = <<>> /\ redis = <<>>
    /\ service = <<>> /\ instance = <<>> /\ freed = "whole" /\ parsed = FALSE

\* What a text that is not ended goes on with.
Rests == {<<>>} \union {<<t>> : t \in Dirty}

\* A write past an allocation.
AfterWriting(past) == IF past THEN {"script", "broken"} ELSE {"script"}

-----------------------------------------------------------------------------
Ended(uri) == uri.query = <<>> /\ ~ uri.fills

\* sky_core_span_set_operation_name: the name is cut at the '?', or has its zero
\* byte behind what was allocated.
OperationName(uri, rest) ==
    IF Ended(uri) THEN uri.path ELSE uri.path \o rest

\* sky_core_span_set_peer: as many characters as the zeroed peer is long.
Peer(text) == SubSeq(text, 1, 0)

Span(uri, rest, peer, tags) ==
    [operationName |-> OperationName(uri, rest), peer |-> Peer(peer), tags |-> tags]

Tag(key, value) == [key |-> key, value |-> value]
Whole(uri) == uri.path \o uri.query

\* RINIT: sky_core_request_init, with the segment and its first span.
RequestInit ==
    /\ phase = "idle"
    /\ \E h \in Headers, uri \in Uris, rest \in Rests,
         behind \in {<<>>} \union {<<b>> : b \in Garbage},
         method \in {<<>>, <<Tag("http.method", <<>>)>>} :
          /\ phase' \in AfterWriting(Overrun(h) \/ (uri.query = <<>> /\ uri.fills))
          /\ header' = h
          /\ traceId' = TraceId(h, OwnId) \o IF RunsOn(h) THEN behind ELSE <<>>
          /\ tail' = {IF Ended(uri) THEN <<>> ELSE rest,
                      IF RunsOn(h) THEN behind ELSE <<>>} \ {<<>>}
          /\ spans' = <<Span(uri, rest, <<>>,
                             <<Tag("url", Whole(uri))>> \o method)>>
    /\ UNCHANGED <<redis, ending>>

\* A redis command that its hook could parse, and the hook's span.
RedisCall ==
    /\ phase = "script" /\ Len(spans) < MaxSpans
    /\ \E call \in Calls :
          /\ redis' = Append(redis, [call |-> call, span |-> Len(spans) + 1])
          /\ spans' = Append(spans,
                Span([path |-> <<>>, query |-> <<>>, fills |-> FALSE], <<>>, <<>>,
                     <<Tag("db.type", <<>>), Tag("db.command", Command(call.kw, call.args))>>))
    /\ UNCHANGED <<phase, header, tail, traceId, ending>>

\* The tags of a transfer by its outcome.
ResponseTags(response) ==
    <<Tag("status_code", <<response.http_code>>)>>
    \o IF response.http_code >= 400 /\ CurlResponse /\ response.returned
       THEN <<Tag("http.response", response.body)>> ELSE <<>>

\* A recorded transfer, and its hook's span; the name is the path alone.  That a
\* callback throws, and what is read then, is in Request.
CurlExec ==
    /\ phase = "script" /\ Len(spans) < MaxSpans
    /\ \E url \in Urls, rest \in Rests, response \in Responses :
          /\ phase' \in AfterWriting(url.long \/ url.fills)
          /\ tail' = tail \union ({IF url.fills THEN rest ELSE <<>>} \ {<<>>})
          /\ spans' = Append(spans,
                Span([path |-> url.path, query |-> <<>>, fills |-> url.fills], rest, url.path,
                     <<Tag("url", Whole(url))>> \o ResponseTags(response)))
    /\ UNCHANGED <<header, traceId, redis, ending>>

Clean(parts) == \A i \in DOMAIN parts : parts[i] \notin Dirty
CleanBytes(bytes) == \A i \in DOMAIN bytes : bytes[i] \in (32..126) \ {34, 92}

\* RSHUTDOWN writes the text, frees it and sends what is in its place: the text,
\* or what the allocator and others wrote over it; or the pages are gone.  The
\* reporter's receive_once reads it.
RequestFree ==
    /\ phase = "script"
    /\ service' \in Services /\ instance' \in Rests
    /\ freed' \in {"whole", "spoiled", "unmapped"}
    /\ phase' = IF freed' = "unmapped" THEN "lost" ELSE "sent"
    /\ parsed' = (freed' = "whole" /\ Parses(SegmentJson(
          [traceId |-> CleanBytes(traceId), service |-> Clean(service'), serviceInstance |-> Clean(instance'),
           spans |-> [i \in DOMAIN spans |->
                [operationName |-> Clean(spans[i].operationName),
                 peer |-> Clean(spans[i].peer),
                 tags |-> [j \in DOMAIN spans[i].tags |-> Clean(spans[i].tags[j].value)]]]])))
    /\ UNCHANGED <<header, tail, traceId, spans, redis>>

Next ==
    \/ RequestInit
    \/ RedisCall
    \/ CurlExec
    \/ RequestFree

Spec == Init /\ [][Next]_vars
-----------------------------------------------------------------------------
TypeOK ==
    /\ phase \in {"idle", "script", "broken", "sent", "lost"}
    /\ header \in Headers \union {NoHeader}
    /\ tail \subseteq {<<t>> : t \in Garbage \union Dirty}
    /\ traceId \in Seq(0..255)
    /\ Len(spans) \in 0..MaxSpans
    /\ \A i \in DOMAIN spans : spans[i].peer = <<>> /\ Len(spans[i].tags) \in 1..3
    /\ \A i \in DOMAIN redis : redis[i].call \in Calls /\ redis[i].span \in 2..Len(spans)
    /\ service \in Services \union {<<>>} /\ instance \in Rests
    /\ freed \in {"whole", "spoiled", "unmapped"} /\ parsed \in BOOLEAN

\* A request whose header is complete, and that the overrun of the array of its
\* tokens did not break, belongs to the trace the header names, for every length
\* of the id and of its padding, with or without fields behind the eighth, up to
\* what undefined memory adds; with eight fields and one of them empty, or with
\* fewer, it starts a trace of its own (sky_core_cross_process.c:27-62,
\* sky_util_base64.c:27-47).  Of more than eight fields some of which are empty,
\* where strtok shifts those behind, nothing is said.
TraceContinues ==
    phase \in {"script", "sent"} =>
        /\ Complete(header) =>
              \A id \in TraceIds : header[2] = Encoded(id) =>
                  \E rest \in tail \union {<<>>} : traceId = id \o rest
        /\ Len(header) <= 8 /\ ~ Complete(header) => traceId = OwnId

Subsequence(s, t) ==
    \E at \in [DOMAIN s -> DOMAIN t] :
        /\ \A i, j \in DOMAIN s : i < j => at[i] < at[j]
        /\ \A i \in DOMAIN s : s[i] = t[at[i]]

InInt(call) == call.kw = "SETRANGE" => Narrow(call.args[2]) = call.args[2]

\* The tag of a redis call has its keyword and every key it touches, in their
\* order, and nothing that phpredis does not send; values may be missing, and
\* offsets beyond an int are wrong (sky_plugin_redis.c:75-183).
CommandIsTold ==
    phase # "broken" => \A i \in DOMAIN redis :
        LET call == redis[i].call
            tag == spans[redis[i].span].tags[2].value
        IN  /\ Head(tag) = call.kw
            /\ Subsequence(Keys(call.kw, call.args), Tail(tag))
            /\ InInt(call) => Subsequence(Tail(tag), Tail(Sent(call.kw, call.args)))

\* The texts of a segment that the reporter is told.
Told == [i \in DOMAIN spans |->
            spans[i].operationName \o FlattenSeq([j \in DOMAIN spans[i].tags |-> spans[i].tags[j].value])]

\* The reporter can read a segment exactly if the freed text was still whole and
\* every text told in it is clean, the service and what is behind the instance
\* included: the commas, brackets and names that the workers write by hand are
\* those it wants, for any number of spans and tags (sky_core_segment.c:90-145).
CleanSegmentsAreRead ==
    phase = "sent" =>
        (parsed <=> /\ freed = "whole"
                    /\ CleanBytes(traceId) /\ Clean(service) /\ Clean(instance)
                    /\ \A i \in DOMAIN spans : Clean(Told[i]))

\* README.md lists the redis extension as supported: what a script stores in
\* redis does not keep its segment from the reporter, if nothing else does.
RedisSegmentsAreRead ==
    phase = "sent" /\ freed = "whole" /\ tail = {}
        /\ CleanBytes(traceId) /\ Clean(service) /\ Clean(instance) => parsed
=============================================================================
