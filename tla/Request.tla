------------------------------- MODULE Request -------------------------------
(***************************************************************************)
(* One php-fpm worker with the extension loaded: skywalking.c,             *)
(* src/src/sky_core_module.c, src/src/sky_core_segment.c and the way the   *)
(* hooks of sky_plugin_curl.c and sky_plugin_redis.c use a segment.        *)
(*                                                                         *)
(* A request's segment lives in the request's heap, but the table that     *)
(* names it (SKYWALKING_G(segments), always key 0 under php-fpm) lives as  *)
(* long as the process, and RINIT and RSHUTDOWN each ask skywalking.enable  *)
(* anew.  Hooked functions nest: a callback of curl_exec may call redis or *)
(* curl_exec again, and exit() leaves all of them at once.                 *)
(***************************************************************************)
EXTENDS Integers, Sequences, SequencesExt

CONSTANTS
    NoSegment,     \* no entry under key 0
    SpanTotal,     \* span_total of a new segment, 64 in the code
    MaxRequests,   \* bound on the requests of the worker
    MaxCalls       \* bound on the hooked calls of a request

ASSUME RequestAssumption ==
    /\ SpanTotal \in Nat /\ SpanTotal >= 2
    /\ MaxRequests \in Nat /\ MaxCalls \in Nat
    /\ NoSegment \notin 1..MaxRequests

VARIABLES
    phase,         \* "minit", "idle", "script" or "shutdown"
    enable,        \* SKYWALKING_G(enable)
    configured,    \* its value outside of scripts, in this worker
    hooked,        \* module_init ran: hooks are in place, segments is a table
    request,       \* number of the running, or of the last, request
    segment,       \* the entry under key 0: the request that allocated it
    curl_cache,    \* "undef", "array", or "freed" and still pointing there
    isSkip,        \* that field of the segment, which nothing initializes
    spans,         \* the segment's spans
    span_total,    \* the places allocated for them
    calls,         \* the hooked calls in progress, innermost last
    failure,       \* what the worker has run into, see Deadly and Wild, or "none"
    began,         \* history: enable at this request's RINIT
    mismatch,      \* history: a request ended under another value than it began
    traced,        \* history: the requests that began traced, in this worker
    returned,      \* history: the calls of this request to be recorded, by return
    sent           \* history: the segments this worker gave to sky_core_report_ipc_send

settings == <<configured, hooked>>
segmentVars == <<segment, isSkip, spans, span_total>>
\* Null pointers and unmapped memory kill the worker: a RINIT without a table
\* ("table") or without a REQUEST_URI ("uri"), an RSHUTDOWN that finds no
\* entry ("entry"), or finds the text it has freed unmapped ("text").
Deadly == {"table", "uri", "entry", "text"}

\* Other memory is used as if it were what it is not, and anything may follow:
\* an entry or a curl_cache of an earlier request ("heap"), or an answer of
\* curl_getinfo that was not given ("response").
Wild == {"heap", "response"}

history == <<began, mismatch, traced, returned, sent>>
vars == <<phase, enable, settings, request, segmentVars, curl_cache, calls, failure, history>>

Init ==
    /\ phase = "minit"
    /\ enable \in BOOLEAN /\ configured = enable /\ hooked = FALSE
    /\ request = 0 /\ segment = NoSegment /\ curl_cache = "undef"
    /\ isSkip = FALSE /\ spans = <<>> /\ span_total = SpanTotal
    /\ calls = <<>> /\ failure = "none"
    /\ began = FALSE /\ mismatch = FALSE /\ traced = <<>> /\ returned = <<>> /\ sent = <<>>

-----------------------------------------------------------------------------
\* Request memory is gone at the end of the request; the entry is not.
Dangling == segment # NoSegment /\ segment # request

\* Mutant of Grown: the array grows only when the end has been passed.
GrownLate(size, total) == IF size = total + 1 THEN 2 * total ELSE total

\* sky_core_segment_add_span: the span array doubles when one place is left.
Grown(size, total) == IF size = total - 1 THEN 2 * total ELSE total

\* Mutant of NextSpan: the parent is the span before.
NextSpanChained(type) ==
    [type |-> type, ended |-> type = "Exit",
     spanId |-> IF spans = <<>> THEN 0 ELSE Last(spans).spanId + 1,
     parentSpanId |-> IF spans = <<>> THEN -1 ELSE Last(spans).spanId]

NextSpan(type) ==
    [type |-> type, ended |-> type = "Exit",
     spanId |-> IF spans = <<>> THEN 0 ELSE Last(spans).spanId + 1,
     parentSpanId |-> IF spans = <<>> THEN -1 ELSE 0]

\* Mutant of AddSpan: the array does not grow, and the span is dropped.
AddSpanBounded(type) ==
    /\ spans' = IF Len(spans) = span_total - 1 THEN spans ELSE Append(spans, NextSpan(type))
    /\ UNCHANGED span_total

AddSpan(type) ==
    /\ span_total' = Grown(Len(spans), span_total)
    /\ spans' = Append(spans, NextSpan(type))

-----------------------------------------------------------------------------
\* Mutant of TracesRequest: RINIT does not ask for enable.
TracesAlways == hooked

\* RINIT makes a segment.
TracesRequest == enable /\ hooked

\* Mutant of DeleteEntry: the entry stays behind.
KeepEntry == UNCHANGED segment

\* zend_hash_index_del at the end of sky_core_request_free.
DeleteEntry == segment' = NoSegment

\* MINIT with the value of php.ini, in the master; then a worker starts,
\* under the value of its pool.
ModuleInit ==
    /\ phase = "minit"
    /\ hooked' = enable
    /\ configured' \in BOOLEAN
    /\ enable' = configured'
    /\ phase' = "idle"
    /\ UNCHANGED <<request, segmentVars, curl_cache, calls, failure, history>>

\* RINIT: sky_core_request_init.  An entry that is already under the key is
\* not replaced: zend_hash_index_add_ptr fails and the new segment is lost.
\* A request that has no REQUEST_URI kills the worker before that.
RequestInit ==
    \E uri \in BOOLEAN :
    /\ phase = "idle" /\ failure = "none" /\ request < MaxRequests
    /\ phase' = "script"
    /\ request' = request + 1
    /\ began' = enable
    /\ traced' = IF enable /\ hooked THEN Append(traced, request') ELSE traced
    /\ returned' = <<>>
    /\ curl_cache' = IF enable THEN "array" ELSE curl_cache
    /\ failure' = IF enable /\ ~uri THEN "uri" ELSE IF enable /\ ~hooked THEN "table" ELSE "none"
    /\ IF TracesRequest /\ uri /\ segment = NoSegment
       THEN /\ segment' = request + 1
            /\ isSkip' \in BOOLEAN
            /\ spans' = <<[type |-> "Entry", ended |-> FALSE, spanId |-> 0, parentSpanId |-> -1]>>
            /\ span_total' = Grown(0, SpanTotal)
       ELSE UNCHANGED segmentVars
    /\ UNCHANGED <<enable, settings, calls, mismatch, sent>>

\* The script calls ini_set("skywalking.enable", ...).
IniSet ==
    /\ phase = "script" /\ failure = "none"
    /\ enable' = ~enable
    /\ UNCHANGED <<phase, settings, request, segmentVars, curl_cache, calls, failure, history>>

\* What a hook works on.
sky_util_find_segment_idx == IF hooked THEN segment ELSE NoSegment

\* A curl_exec: the hook looks for the segment first, and keeps it for the
\* time of the call.  Only http and https URLs are recorded.
CurlExecBegins ==
    /\ phase = "script" /\ failure = "none" /\ hooked
    /\ Len(returned) + Len(calls) < MaxCalls
    /\ IF sky_util_find_segment_idx = NoSegment
       THEN calls' = Append(calls, [hook |-> "pass", segment |-> NoSegment])
       ELSE \E record \in IF isSkip THEN {FALSE} ELSE BOOLEAN :
               calls' = Append(calls, [hook |-> IF record THEN "curl" ELSE "pass",
                                       segment |-> segment])
    /\ failure' = IF Dangling THEN "heap" ELSE "none"
    /\ UNCHANGED <<phase, enable, settings, request, segmentVars, curl_cache, history>>

\* A redis command: the hook looks for the segment when the call is over.
RedisBegins ==
    /\ phase = "script" /\ failure = "none" /\ hooked
    /\ Len(returned) + Len(calls) < MaxCalls
    /\ calls' = Append(calls, [hook |-> "redis", segment |-> NoSegment])
    /\ UNCHANGED <<phase, enable, settings, request, segmentVars, curl_cache, failure, history>>

\* The innermost call returns to its hook, which adds the span.  When a
\* callback of a transfer threw (exit() throws too from PHP 8 on), PHP does not
\* make the hook's call of curl_getinfo, and what the hook reads is not set.
CallReturns ==
    \E threw \in BOOLEAN :
    /\ phase = "script" /\ failure = "none" /\ calls # <<>>
    /\ calls' = Front(calls)
    /\ LET call == Last(calls)
           target == IF call.hook = "redis" THEN sky_util_find_segment_idx ELSE call.segment
       IN  IF call.hook = "pass" \/ target = NoSegment
           THEN UNCHANGED <<spans, span_total, failure, returned>>
           ELSE IF call.hook = "curl" /\ threw
           THEN failure' = "response" /\ UNCHANGED <<spans, span_total, returned>>
           ELSE /\ AddSpan("Exit")
                /\ returned' = Append(returned, call.hook)
                /\ failure' = IF target # request THEN "heap" ELSE "none"
    /\ UNCHANGED <<phase, enable, settings, request, segment, isSkip, curl_cache,
                   began, mismatch, traced, sent>>

\* The script ends, or exit() or a fatal error leaves the calls in progress.
ScriptEnds ==
    /\ phase = "script" /\ failure = "none"
    /\ phase' = "shutdown"
    /\ calls' = <<>>
    /\ UNCHANGED <<enable, settings, request, segmentVars, curl_cache, failure, history>>

\* RSHUTDOWN: sky_core_request_free; then PHP restores the ini values and
\* frees the memory of the request.  The text is freed before it is sent: it
\* is still there, or its beginning is written over, or it cannot be read.
RequestFree ==
    \E text \in {"whole", "spoiled", "unmapped"} :
    /\ phase = "shutdown" /\ failure = "none"
    /\ phase' = "idle"
    /\ enable' = configured
    /\ mismatch' = (mismatch \/ enable # began)
    /\ curl_cache' = IF enable /\ curl_cache # "undef" THEN "freed" ELSE curl_cache
    /\ IF enable /\ hooked
       THEN /\ failure' = IF curl_cache = "freed" \/ Dangling THEN "heap"
                          ELSE IF segment = NoSegment THEN "entry"
                          ELSE IF text = "unmapped" THEN "text" ELSE "none"
            /\ sent' = IF segment = NoSegment \/ text = "unmapped" THEN sent
                       ELSE Append(sent, [spans |-> [spans EXCEPT ![1].ended = TRUE],
                                          segment |-> segment, calls |-> returned, text |-> text])
            /\ DeleteEntry
       ELSE /\ failure' = IF enable /\ curl_cache = "freed" THEN "heap" ELSE "none"
            /\ UNCHANGED <<segment, sent>>
    /\ UNCHANGED <<settings, request, isSkip, spans, span_total, calls, began, traced, returned>>

\* A worker is killed; the process manager starts another one.
Respawn ==
    /\ failure \in Deadly
    /\ failure' = "none" /\ phase' = "idle" /\ enable' = configured
    /\ segment' = NoSegment /\ curl_cache' = "undef" /\ calls' = <<>>
    /\ mismatch' = FALSE /\ traced' = <<>> /\ sent' = <<>>
    /\ UNCHANGED <<settings, request, isSkip, spans, span_total, began, returned>>

HookStep == CurlExecBegins \/ RedisBegins \/ CallReturns

Next ==
    \/ ModuleInit
    \/ RequestInit
    \/ IniSet
    \/ HookStep
    \/ ScriptEnds
    \/ RequestFree
    \/ Respawn

Spec == Init /\ [][Next]_vars

-----------------------------------------------------------------------------
Running == phase \in {"script", "shutdown"}

SpanType == [type : {"Entry", "Exit"}, ended : BOOLEAN, spanId : Nat, parentSpanId : {-1, 0}]
SentType == [spans : Seq(SpanType), segment : 1..MaxRequests, calls : Seq({"curl", "redis"}),
             text : {"whole", "spoiled"}]
CallType == [hook : {"curl", "redis", "pass"}, segment : 1..MaxRequests \union {NoSegment}]

TypeOK ==
    /\ phase \in {"minit", "idle", "script", "shutdown"}
    /\ {enable, configured, hooked, isSkip, began, mismatch} \subseteq BOOLEAN
    /\ request \in 0..MaxRequests
    /\ segment \in 1..MaxRequests \union {NoSegment}
    /\ curl_cache \in {"undef", "array", "freed"}
    /\ spans \in Seq(SpanType)
    /\ span_total \in Nat
    /\ calls \in Seq(CallType)
    /\ failure \in {"none"} \union Deadly \union Wild
    /\ traced \in Seq(1..MaxRequests)
    /\ returned \in Seq({"curl", "redis"})
    /\ sent \in Seq(SentType)

\* Key 0 names the running request's own segment from RINIT to RSHUTDOWN,
\* and nothing between requests, as long as each request has ended under the
\* value of skywalking.enable it began under (sky_core_module.c:160, 173-195):
\* a script may switch the agent off and on again in between.
KeyZeroIsCurrent ==
    ~mismatch /\ failure = "none" =>
        segment = IF Running /\ began /\ hooked THEN request ELSE NoSegment

\* A worker misses the table or its entry, or uses an entry or a curl_cache
\* of an earlier request, only where the value of skywalking.enable changed
\* between a RINIT and its RSHUTDOWN (skywalking.c:201, 208), or was switched
\* on for a worker whose master had it off at MINIT, so that there is no table
\* (sky_core_module.c:160).  The three other failures need no such change: a
\* request without REQUEST_URI (sky_core_module.c:129), the text that is read
\* when it has been freed (191), a transfer whose callback threw
\* (sky_plugin_curl.c:233).
EntryFailsOnlyWhenSwitched ==
    failure \in {"table", "entry", "heap"} => mismatch \/ (began /\ ~hooked)

\* Every request that ran traced to its end is sent, once, in its turn, and no
\* other, as long as each ended under the value it began under and none killed
\* the worker; and
\* its segment has a span for each recorded call that returned, in the order
\* of return: calls left by exit(), calls of other requests and calls
\* around a nested call do not disturb it (sky_core_module.c:163-197).
SentOncePerRequest ==
    ~mismatch /\ failure = "none" =>
        /\ \A i \in 1..Len(sent) : Len(sent[i].spans) = 1 + Len(sent[i].calls)
        /\ [i \in 1..Len(sent) |-> sent[i].segment] =
               IF Running /\ began /\ hooked THEN Front(traced) ELSE traced

\* In every segment sent the first span is the request's own, it is ended and
\* has no parent; the ids count up from 0 whatever the nesting of the calls
\* was, and every other span is a child of the first (sky_core_segment.c:68-74).
\* No span is written behind the end of the array, which doubles one place
\* before it is full (sky_core_segment.c:58-66).
SpansAreNumbered ==
    /\ Len(spans) <= span_total
    /\ \A s \in ToSet(sent) : \A i \in 1..Len(s.spans) :
          /\ s.spans[i].spanId = i - 1
          /\ s.spans[i].ended
          /\ s.spans[i].type = (IF i = 1 THEN "Entry" ELSE "Exit")
          /\ s.spans[i].parentSpanId = (IF i = 1 THEN -1 ELSE 0)
=============================================================================
