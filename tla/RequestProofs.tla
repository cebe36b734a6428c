---------------------------- MODULE RequestProofs ----------------------------
(* A php-fpm worker, for any number of requests, of calls and of places in a  *)
(* new segment: the table of segments, the numbering of the spans and what is *)
(* sent, as long as skywalking.enable is the same at both ends of a request.  *)
(* Then the headers of the curl transfers it makes, for any handles and lists. *)
EXTENDS Request, CurlPlugin, SequenceTheorems, TLAPS

\* Every span is numbered by its place, and only the first may not have ended.
Numbered(s) ==
    \A i \in 1..Len(s) :
        /\ s[i].spanId = i - 1
        /\ i # 1 => s[i].ended
        /\ s[i].type = (IF i = 1 THEN "Entry" ELSE "Exit")
        /\ s[i].parentSpanId = (IF i = 1 THEN -1 ELSE 0)

\* A place is left in the array, and whoever holds a segment finds its first
\* span in it.
SpansInv ==
    /\ Numbered(spans)
    /\ Len(spans) < span_total
    /\ spans = <<>> => /\ segment = NoSegment
                       /\ \A i \in 1..Len(calls) : calls[i].segment = NoSegment

\* Between RINIT and RSHUTDOWN the hooks hold no other segment than that of
\* the request, and the cache of curl headers is the one made at RINIT.
HooksInv ==
    /\ Running /\ began => curl_cache = "array"
    /\ phase # "script" => calls = <<>>
    /\ Running => request # 0
    /\ phase = "minit" => failure = "none"
    /\ ~mismatch /\ failure = "none" =>
          \A i \in 1..Len(calls) : calls[i].segment \in {NoSegment, request}

\* The request that runs traced is the last of traced.
TracedInv ==
    ~mismatch /\ failure = "none" /\ Running /\ began /\ hooked =>
        /\ traced # <<>> /\ Last(traced) = request
        /\ Len(spans) = 1 + Len(returned)

IInv ==
    /\ TypeOK
    /\ SpansInv
    /\ SpansAreNumbered
    /\ KeyZeroIsCurrent
    /\ HooksInv
    /\ EntryFailsOnlyWhenSwitched
    /\ TracedInv
    /\ SentOncePerRequest

-----------------------------------------------------------------------------
LEMMA InitIInv == Init => IInv
<1> SUFFICES ASSUME Init PROVE IInv
  OBVIOUS
<1> USE RequestAssumption DEF RequestAssumption, Init
<1>1. TypeOK
  <2>1. {enable, configured, hooked, isSkip, began, mismatch} \subseteq BOOLEAN
    OBVIOUS
  <2>2. /\ segment \in 1..MaxRequests \union {NoSegment} /\ request \in 0..MaxRequests
        /\ span_total \in Nat
    OBVIOUS
  <2>3. /\ spans \in Seq(SpanType) /\ calls \in Seq(CallType)
        /\ traced \in Seq(1..MaxRequests) /\ returned \in Seq({"curl", "redis"})
        /\ sent \in Seq(SentType)
    BY EmptySeq
  <2>4. QED
    BY <2>1, <2>2, <2>3 DEF TypeOK
<1>2. SpansInv /\ SpansAreNumbered
  BY DEF SpansInv, SpansAreNumbered, Numbered, ToSet
<1>3. KeyZeroIsCurrent /\ HooksInv /\ EntryFailsOnlyWhenSwitched /\ TracedInv
  BY DEF KeyZeroIsCurrent, HooksInv, EntryFailsOnlyWhenSwitched, TracedInv, Running
<1>4. SentOncePerRequest
  <2>1. [i \in 1..Len(sent) |-> sent[i].segment] = <<>>
    BY Z3
  <2>2. QED
    BY <2>1 DEF SentOncePerRequest, Running
<1>5. QED
  BY <1>1, <1>2, <1>3, <1>4 DEF IInv

\* A new segment has its first span, and a place left.
LEMMA NewSpans ==
    ASSUME NEW s, NEW total,
           s = <<[type |-> "Entry", ended |-> FALSE, spanId |-> 0, parentSpanId |-> -1]>>,
           total = Grown(0, SpanTotal)
    PROVE  /\ s \in Seq(SpanType) /\ Numbered(s) /\ Len(s) = 1
           /\ total \in Nat /\ Len(s) < total
BY RequestAssumption DEF RequestAssumption, SpanType, Numbered, Grown

\* Adding a span keeps the numbering and leaves a place.
LEMMA MoreSpans ==
    ASSUME spans \in Seq(SpanType), span_total \in Nat, Numbered(spans), spans # <<>>,
           Len(spans) < span_total, AddSpan("Exit")
    PROVE  /\ spans' \in Seq(SpanType) /\ Numbered(spans') /\ Len(spans') = Len(spans) + 1
           /\ span_total' \in Nat /\ Len(spans') < span_total'
<1>1. Len(spans) \in Nat /\ Len(spans) >= 1
  OBVIOUS
<1>2. /\ Last(spans) \in SpanType /\ Last(spans).spanId = Len(spans) - 1
  BY <1>1 DEF Last, Numbered
<1> DEFINE new == NextSpan("Exit")
<1>3. /\ new \in SpanType /\ new.spanId = Len(spans) /\ new.ended /\ new.type = "Exit"
      /\ new.parentSpanId = 0
  <2>1. ("Exit" = "Exit") = TRUE
    OBVIOUS
  <2>2. Last(spans).spanId + 1 = Len(spans)
    BY <1>1, <1>2
  <2>3. new = [type |-> "Exit", ended |-> TRUE, spanId |-> Len(spans), parentSpanId |-> 0]
    BY <2>1, <2>2 DEF NextSpan
  <2> HIDE DEF new
  <2>4. QED
    BY <1>1, <2>3 DEF SpanType
<1>4. spans' = Append(spans, new)
  BY DEF AddSpan
<1> HIDE DEF new
<1>5. /\ spans' \in Seq(SpanType) /\ Len(spans') = Len(spans) + 1
      /\ \A i \in 1..Len(spans) : spans'[i] = spans[i]
      /\ spans'[Len(spans) + 1] = new
  BY <1>3, <1>4
<1>6. Numbered(spans')
  BY <1>1, <1>3, <1>5 DEF Numbered
<1>7. span_total' \in Nat /\ Len(spans') < span_total'
  BY <1>1, <1>5 DEF AddSpan, Grown
<1>8. QED
  BY <1>5, <1>6, <1>7

\* Ending a span changes nothing else of it.
LEMMA EndSpan ==
    ASSUME NEW r \in SpanType, NEW f, f = [r EXCEPT !.ended = TRUE]
    PROVE  /\ f \in SpanType /\ f.ended
           /\ f.spanId = r.spanId /\ f.type = r.type /\ f.parentSpanId = r.parentSpanId
<1>1. f = [type |-> r.type, ended |-> TRUE, spanId |-> r.spanId,
           parentSpanId |-> r.parentSpanId]
  BY DEF SpanType
<1>2. QED
  BY <1>1 DEF SpanType

\* What is sent has its first span ended.
LEMMA EndedSpans ==
    ASSUME NEW s \in Seq(SpanType), s # <<>>, Numbered(s), NEW e,
           e = [s EXCEPT ![1].ended = TRUE]
    PROVE  /\ e \in Seq(SpanType) /\ Len(e) = Len(s)
           /\ Numbered(e) /\ \A i \in 1..Len(e) : e[i].ended
<1>1. Len(s) \in Nat /\ Len(s) >= 1 /\ 1 \in 1..Len(s) /\ s[1] \in SpanType
  OBVIOUS
<1>2. PICK f : f = [s[1] EXCEPT !.ended = TRUE]
  OBVIOUS
<1>3. /\ f \in SpanType /\ f.ended
      /\ f.spanId = s[1].spanId /\ f.type = s[1].type
      /\ f.parentSpanId = s[1].parentSpanId
  BY <1>1, <1>2, EndSpan
<1>4. e = [s EXCEPT ![1] = f]
  BY <1>2
<1>5. /\ e \in Seq(SpanType) /\ Len(e) = Len(s)
      /\ \A i \in 1..Len(s) : e[i] = IF i = 1 THEN f ELSE s[i]
  <2>1. /\ [s EXCEPT ![1] = f] \in Seq(SpanType)
        /\ Len([s EXCEPT ![1] = f]) = Len(s)
        /\ \A i \in 1..Len(s) : [s EXCEPT ![1] = f][i] = IF i = 1 THEN f ELSE s[i]
    BY <1>1, <1>3, ExceptSeq
  <2>2. QED
    BY <1>4, <2>1
<1>6. QED
  BY <1>1, <1>3, <1>5 DEF Numbered

-----------------------------------------------------------------------------
\* A call begins: the others stay as they are.
LEMMA CallsGrow ==
    ASSUME calls \in Seq(CallType), NEW c \in CallType, calls' = Append(calls, c)
    PROVE  /\ calls' \in Seq(CallType) /\ Len(calls') = Len(calls) + 1
           /\ \A i \in 1..Len(calls) : calls'[i] = calls[i]
           /\ calls'[Len(calls) + 1] = c
OBVIOUS

\* A call returns: the others stay as they are.
LEMMA CallsShrink ==
    ASSUME calls \in Seq(CallType), calls # <<>>, calls' = Front(calls)
    PROVE  /\ calls' \in Seq(CallType) /\ Len(calls') = Len(calls) - 1 /\ Len(calls) \in Nat
           /\ \A i \in 1..Len(calls') : calls'[i] = calls[i]
           /\ Len(calls) \in 1..Len(calls) /\ Last(calls) = calls[Len(calls)]
           /\ Last(calls) \in CallType
<1>1. Len(calls) \in Nat /\ Len(calls) >= 1
  OBVIOUS
<1>2. calls' = SubSeq(calls, 1, Len(calls) - 1)
  BY DEF Front
<1>3. /\ calls' \in Seq(CallType) /\ Len(calls') = Len(calls) - 1
      /\ \A i \in 1..Len(calls) - 1 : calls'[i] = calls[i]
  <2>1. 1 \in 1..Len(calls) + 1 /\ Len(calls) - 1 \in 0..Len(calls)
    BY <1>1
  <2>2. /\ SubSeq(calls, 1, Len(calls) - 1) \in Seq(CallType)
        /\ Len(SubSeq(calls, 1, Len(calls) - 1)) = Len(calls) - 1
        /\ \A i \in 1..Len(calls) - 1 : SubSeq(calls, 1, Len(calls) - 1)[i] = calls[i]
    BY <1>1, <2>1
  <2>3. QED
    BY <1>2, <2>2
<1>4. QED
  BY <1>1, <1>3 DEF Last

\* Whether a hook that returns adds a span, and to which segment.
LEMMA Returning ==
    ASSUME TypeOK, SpansInv, CallReturns
    PROVE  \/ UNCHANGED <<spans, span_total, returned>> /\ failure' \in {failure, "response"}
           \/ /\ AddSpan("Exit") /\ spans # <<>>
              /\ \E hook \in {"curl", "redis"} : returned' = Append(returned, hook)
              /\ \E target \in {segment, Last(calls).segment} :
                    target # NoSegment /\ failure' = IF target # request THEN "heap" ELSE "none"
<1>1. calls \in Seq(CallType) /\ calls # <<>> /\ calls' = Front(calls)
  BY DEF CallReturns, TypeOK
<1>2. /\ Last(calls) = calls[Len(calls)] /\ Len(calls) \in 1..Len(calls)
      /\ Last(calls) \in CallType
  BY <1>1, CallsShrink
<1> DEFINE target == IF Last(calls).hook = "redis" THEN sky_util_find_segment_idx
                     ELSE Last(calls).segment
<1>3. target \in {segment, NoSegment, Last(calls).segment}
  BY DEF sky_util_find_segment_idx
<1> DEFINE unset == UNCHANGED <<spans, span_total, returned>> /\ failure' = "response"
<1>4. CASE Last(calls).hook = "pass" \/ target = NoSegment \/ unset
  BY <1>4 DEF CallReturns
<1>5. CASE ~(Last(calls).hook = "pass" \/ target = NoSegment \/ unset)
  <2>1. /\ AddSpan("Exit") /\ returned' = Append(returned, Last(calls).hook)
        /\ failure' = IF target # request THEN "heap" ELSE "none"
    BY <1>5 DEF CallReturns
  <2>2. spans # <<>>
    BY <1>2, <1>3, <1>5 DEF SpansInv
  <2>3. Last(calls).hook \in {"curl", "redis"}
    BY <1>2, <1>5 DEF CallType
  <2>4. target \in {segment, Last(calls).segment} /\ target # NoSegment
    BY <1>3, <1>5
  <2>5. QED
    BY <2>1, <2>2, <2>3, <2>4
<1>6. QED
  BY <1>4, <1>5

\* The end of a request sends the segment of key 0, or nothing.
LEMMA Sending ==
    ASSUME TypeOK, SpansInv, RequestFree
    PROVE  \/ UNCHANGED sent
           \/ /\ enable /\ hooked /\ segment # NoSegment
              /\ \E e \in SentType :
                    /\ sent' = Append(sent, e)
                    /\ e.segment = segment /\ e.calls = returned
                    /\ Len(e.spans) = Len(spans) /\ Numbered(e.spans)
                    /\ \A i \in 1..Len(e.spans) : e.spans[i].ended
<1>1. CASE ~(enable /\ hooked /\ segment # NoSegment)
  BY <1>1 DEF RequestFree
<1>2. CASE enable /\ hooked /\ segment # NoSegment
  <2>1. PICK s : s = [spans EXCEPT ![1].ended = TRUE]
    OBVIOUS
  <2>2. /\ s \in Seq(SpanType) /\ Len(s) = Len(spans) /\ Numbered(s)
        /\ \A i \in 1..Len(s) : s[i].ended
    BY <1>2, <2>1, EndedSpans DEF TypeOK, SpansInv
  <2> SUFFICES ASSUME ~UNCHANGED sent
               PROVE  \E e \in SentType :
                         /\ sent' = Append(sent, e)
                         /\ e.segment = segment /\ e.calls = returned
                         /\ Len(e.spans) = Len(spans) /\ Numbered(e.spans)
                         /\ \A i \in 1..Len(e.spans) : e.spans[i].ended
    BY <1>2
  <2>3. PICK text \in {"whole", "spoiled"} :
            sent' = Append(sent, [spans |-> s, segment |-> segment, calls |-> returned, text |-> text])
    BY <1>2, <2>1 DEF RequestFree
  <2> DEFINE e == [spans |-> s, segment |-> segment, calls |-> returned, text |-> text]
  <2>4. sent' = Append(sent, e)
    BY <2>3
  <2>5. e \in SentType
    BY <1>2, <2>2, <2>3 DEF TypeOK, SentType
  <2>6. /\ e.segment = segment /\ e.calls = returned /\ e.spans = s
    OBVIOUS
  <2> HIDE DEF e
  <2>7. QED
    BY <2>2, <2>4, <2>5, <2>6
<1>3. QED
  BY <1>1, <1>2

LEMMA StepTypeOK == TypeOK /\ SpansInv /\ [Next]_vars => TypeOK'
<1> SUFFICES ASSUME TypeOK, SpansInv, [Next]_vars PROVE TypeOK'
  OBVIOUS
<1> USE DEF settings, segmentVars, history, Deadly, Wild
<1>1. CASE ModuleInit
  BY <1>1 DEF TypeOK, ModuleInit
<1>2. CASE RequestInit
  <2>1. /\ request' \in 1..MaxRequests /\ request' = request + 1
    BY <1>2, RequestAssumption DEF TypeOK, RequestInit, RequestAssumption
  <2>2. /\ traced' \in Seq(1..MaxRequests) /\ returned' = <<>>
    <3>1. traced \in Seq(1..MaxRequests) /\ Append(traced, request') \in Seq(1..MaxRequests)
      BY <2>1 DEF TypeOK
    <3>2. QED
      BY <1>2, <3>1 DEF RequestInit
  <2>3. /\ segment' \in 1..MaxRequests \union {NoSegment} /\ isSkip' \in BOOLEAN
        /\ spans' \in Seq(SpanType) /\ span_total' \in Nat
    <3>1. CASE ~UNCHANGED segmentVars
      <4>1. spans' \in Seq(SpanType) /\ span_total' \in Nat
        BY <1>2, <3>1, NewSpans DEF RequestInit
      <4>2. QED
        BY <1>2, <2>1, <3>1, <4>1 DEF RequestInit
    <3>2. CASE UNCHANGED segmentVars
      BY <3>2 DEF TypeOK
    <3>3. QED
      BY <3>1, <3>2
  <2>4. QED
    BY <1>2, <2>1, <2>2, <2>3 DEF TypeOK, RequestInit
<1>3. CASE IniSet
  BY <1>3 DEF TypeOK, IniSet
<1>4. CASE CurlExecBegins
  <2>1. PICK c \in CallType : calls' = Append(calls, c)
    <3>1. CASE sky_util_find_segment_idx = NoSegment
      BY <1>4, <3>1 DEF CurlExecBegins, CallType
    <3>2. CASE sky_util_find_segment_idx # NoSegment
      <4>1. PICK record \in BOOLEAN :
               calls' = Append(calls, [hook |-> IF record THEN "curl" ELSE "pass",
                                       segment |-> segment])
        BY <1>4, <3>2 DEF CurlExecBegins
      <4>2. [hook |-> IF record THEN "curl" ELSE "pass", segment |-> segment] \in CallType
        BY DEF CallType, TypeOK
      <4>3. QED
        BY <4>1, <4>2
    <3>3. QED
      BY <3>1, <3>2
  <2>2. calls' \in Seq(CallType)
    BY <2>1 DEF TypeOK
  <2>3. QED
    BY <1>4, <2>2 DEF TypeOK, CurlExecBegins
<1>5. CASE RedisBegins
  <2>1. [hook |-> "redis", segment |-> NoSegment] \in CallType
    BY DEF CallType
  <2>2. calls' \in Seq(CallType)
    BY <1>5, <2>1 DEF TypeOK, RedisBegins
  <2>3. QED
    BY <1>5, <2>2 DEF TypeOK, RedisBegins
<1>6. CASE CallReturns
  <2>1. calls' \in Seq(CallType)
    BY <1>6, CallsShrink DEF TypeOK, CallReturns
  <2>2. /\ spans' \in Seq(SpanType) /\ span_total' \in Nat
        /\ failure' \in {"none"} \union Deadly \union Wild /\ returned' \in Seq({"curl", "redis"})
    <3>1. CASE UNCHANGED <<spans, span_total, returned>>
      BY <1>6, <3>1, Returning DEF TypeOK
    <3>2. CASE ~UNCHANGED <<spans, span_total, returned>>
      <4>1. /\ AddSpan("Exit") /\ spans # <<>>
            /\ \E hook \in {"curl", "redis"} : returned' = Append(returned, hook)
            /\ failure' \in {"none", "heap"}
        BY <1>6, <3>2, Returning
      <4>2. spans' \in Seq(SpanType) /\ span_total' \in Nat
        BY <4>1, MoreSpans DEF TypeOK, SpansInv
      <4>3. QED
        BY <4>1, <4>2 DEF TypeOK
    <3>3. QED
      BY <3>1, <3>2
  <2>3. QED
    BY <1>6, <2>1, <2>2 DEF TypeOK, CallReturns
<1>7. CASE ScriptEnds
  BY <1>7, EmptySeq DEF TypeOK, ScriptEnds
<1>8. CASE RequestFree
  <2>1. sent' \in Seq(SentType)
    <3>1. sent \in Seq(SentType) /\ \A e \in SentType : Append(sent, e) \in Seq(SentType)
      BY DEF TypeOK
    <3>2. QED
      BY <1>8, <3>1, Sending
  <2>2. segment' \in {segment, NoSegment} /\ failure' \in {"none"} \union Deadly \union Wild
    BY <1>8 DEF RequestFree, DeleteEntry
  <2>3. QED
    BY <1>8, <2>1, <2>2 DEF TypeOK, RequestFree
<1>9. CASE Respawn
  BY <1>9, EmptySeq DEF TypeOK, Respawn
<1>10. CASE UNCHANGED vars
  BY <1>10 DEF TypeOK, vars
<1>11. QED
  BY <1>1, <1>2, <1>3, <1>4, <1>5, <1>6, <1>7, <1>8, <1>9, <1>10 DEF Next, HookStep

\* The spans of a request are numbered from its RINIT on, and only a worker
\* that never traced a request has none.
LEMMA StepSpans == TypeOK /\ SpansInv /\ [Next]_vars => SpansInv'
<1> SUFFICES ASSUME TypeOK, SpansInv, [Next]_vars PROVE SpansInv'
  OBVIOUS
<1>0. ASSUME UNCHANGED <<segment, spans, span_total, calls>>
      PROVE  SpansInv'
  BY <1>0 DEF SpansInv, Numbered
<1> USE DEF settings, segmentVars, history
<1>1. CASE ModuleInit \/ IniSet \/ UNCHANGED vars
  BY <1>0, <1>1 DEF ModuleInit, IniSet, vars
<1>2. CASE RequestInit
  <2>1. CASE ~UNCHANGED segmentVars
    <3>1. /\ Numbered(spans') /\ Len(spans') = 1 /\ Len(spans') < span_total'
          /\ spans' \in Seq(SpanType)
      BY <1>2, <2>1, NewSpans DEF RequestInit
    <3>2. spans' # <<>>
      BY <3>1, EmptySeq
    <3>3. QED
      BY <3>1, <3>2 DEF SpansInv
  <2>2. CASE UNCHANGED segmentVars
    BY <1>0, <1>2, <2>2 DEF RequestInit
  <2>3. QED
    BY <2>1, <2>2
<1>3. CASE CurlExecBegins
  <2>1. UNCHANGED <<segment, spans, span_total>>
    BY <1>3 DEF CurlExecBegins
  <2>2. ASSUME spans = <<>>
        PROVE  segment = NoSegment /\ \A i \in 1..Len(calls') : calls'[i].segment = NoSegment
    <3>1. /\ segment = NoSegment /\ calls \in Seq(CallType)
          /\ \A i \in 1..Len(calls) : calls[i].segment = NoSegment
      BY <2>2 DEF SpansInv, TypeOK
    <3>2. PICK c : c = [hook |-> "pass", segment |-> NoSegment]
      OBVIOUS
    <3>3. calls' = Append(calls, c)
      BY <1>3, <3>1, <3>2 DEF CurlExecBegins, sky_util_find_segment_idx
    <3>4. c \in CallType /\ c.segment = NoSegment
      BY <3>2 DEF CallType
    <3>5. QED
      BY <3>1, <3>3, <3>4
  <2>3. QED
    BY <2>1, <2>2 DEF SpansInv, Numbered
<1>4. CASE RedisBegins
  <2>1. UNCHANGED <<segment, spans, span_total>>
    BY <1>4 DEF RedisBegins
  <2>2. ASSUME spans = <<>>
        PROVE  segment = NoSegment /\ \A i \in 1..Len(calls') : calls'[i].segment = NoSegment
    <3>1. /\ segment = NoSegment /\ calls \in Seq(CallType)
          /\ \A i \in 1..Len(calls) : calls[i].segment = NoSegment
      BY <2>2 DEF SpansInv, TypeOK
    <3>2. PICK c : c = [hook |-> "redis", segment |-> NoSegment]
      OBVIOUS
    <3>3. calls' = Append(calls, c)
      BY <1>4, <3>2 DEF RedisBegins
    <3>4. c \in CallType /\ c.segment = NoSegment
      BY <3>2 DEF CallType
    <3>5. QED
      BY <3>1, <3>3, <3>4
  <2>3. QED
    BY <2>1, <2>2 DEF SpansInv, Numbered
<1>5. CASE CallReturns
  <2>1. CASE UNCHANGED <<spans, span_total, returned>>
    <3>1. /\ calls \in Seq(CallType) /\ calls # <<>> /\ calls' = Front(calls)
          /\ UNCHANGED segment
      BY <1>5 DEF CallReturns, TypeOK
    <3>2. /\ Len(calls') = Len(calls) - 1 /\ Len(calls) \in Nat
          /\ \A i \in 1..Len(calls') : calls'[i] = calls[i]
      BY <3>1, CallsShrink
    <3>3. QED
      BY <2>1, <3>1, <3>2 DEF SpansInv, Numbered
  <2>2. CASE ~UNCHANGED <<spans, span_total, returned>>
    <3>1. AddSpan("Exit") /\ spans # <<>>
      BY <1>5, <2>2, Returning
    <3>2. /\ Numbered(spans') /\ Len(spans') = Len(spans) + 1 /\ Len(spans') < span_total'
          /\ spans' \in Seq(SpanType)
      BY <3>1, MoreSpans DEF TypeOK, SpansInv
    <3>3. spans' # <<>>
      BY <3>2 DEF TypeOK
    <3>4. QED
      BY <3>2, <3>3 DEF SpansInv
  <2>3. QED
    BY <2>1, <2>2
<1>6. CASE ScriptEnds \/ RequestFree \/ Respawn
  <2>1. /\ UNCHANGED <<spans, span_total>> /\ segment' \in {segment, NoSegment}
        /\ calls' \in {calls, <<>>}
    BY <1>6 DEF ScriptEnds, RequestFree, Respawn, DeleteEntry
  <2>2. QED
    BY <2>1 DEF SpansInv, Numbered
<1>7. QED
  BY <1>1, <1>2, <1>3, <1>4, <1>5, <1>6 DEF Next, HookStep

\* One more segment.
LEMMA SentMore ==
    ASSUME sent \in Seq(SentType), NEW e \in SentType, sent' = Append(sent, e)
    PROVE  ToSet(sent') = ToSet(sent) \union {e}
<1>1. /\ Len(sent) \in Nat /\ DOMAIN sent = 1..Len(sent) /\ DOMAIN sent' = 1..Len(sent) + 1
      /\ \A i \in 1..Len(sent) : sent'[i] = sent[i]
      /\ sent'[Len(sent) + 1] = e
  OBVIOUS
<1>2. QED
  BY <1>1 DEF ToSet

LEMMA StepNumbered == TypeOK /\ SpansInv /\ SpansInv' /\ TypeOK' /\ SpansAreNumbered /\ [Next]_vars
                         => SpansAreNumbered'
<1> SUFFICES ASSUME TypeOK, SpansInv, SpansInv', TypeOK', SpansAreNumbered, [Next]_vars
             PROVE  SpansAreNumbered'
  OBVIOUS
<1>1. Len(spans') <= span_total'
  BY DEF SpansInv, TypeOK
<1>2. CASE UNCHANGED sent
  BY <1>1, <1>2 DEF SpansAreNumbered
<1>3. CASE sent' = <<>>
  BY <1>1, <1>3 DEF SpansAreNumbered, ToSet
<1>4. CASE RequestFree /\ ~UNCHANGED sent
  <2>1. PICK e \in SentType :
             /\ sent' = Append(sent, e) /\ Numbered(e.spans)
             /\ \A i \in 1..Len(e.spans) : e.spans[i].ended
    BY <1>4, Sending
  <2>2. ToSet(sent') = ToSet(sent) \union {e}
    BY <2>1, SentMore DEF TypeOK
  <2>3. QED
    BY <1>1, <2>1, <2>2 DEF SpansAreNumbered, Numbered
<1>5. QED
  <2> USE DEF settings, segmentVars, history
  <2>1. ModuleInit \/ RequestInit \/ IniSet \/ HookStep \/ ScriptEnds \/ UNCHANGED vars
            => UNCHANGED sent
    BY DEF ModuleInit, RequestInit, IniSet, HookStep, CurlExecBegins, RedisBegins,
           CallReturns, ScriptEnds, vars
  <2>2. Respawn => sent' = <<>>
    BY DEF Respawn
  <2>3. QED
    BY <1>2, <1>3, <1>4, <2>1, <2>2 DEF Next

-----------------------------------------------------------------------------
LEMMA StepKeyZero == TypeOK /\ KeyZeroIsCurrent /\ [Next]_vars => KeyZeroIsCurrent'
<1> SUFFICES ASSUME TypeOK, KeyZeroIsCurrent, [Next]_vars PROVE KeyZeroIsCurrent'
  OBVIOUS
<1> USE DEF KeyZeroIsCurrent, Running, settings, segmentVars, history
<1>1. CASE ModuleInit
  BY <1>1 DEF ModuleInit
<1>2. CASE RequestInit
  BY <1>2, RequestAssumption DEF RequestAssumption, RequestInit, TracesRequest, TypeOK
<1>3. CASE IniSet \/ ScriptEnds \/ Respawn
  BY <1>3 DEF IniSet, ScriptEnds, Respawn
<1>4. CASE HookStep
  <2>1. failure = "none" /\ UNCHANGED <<phase, began, hooked, mismatch, segment, request>>
    BY <1>4 DEF HookStep, CurlExecBegins, RedisBegins, CallReturns
  <2>2. QED
    BY <2>1
<1>5. CASE RequestFree
  BY <1>5 DEF RequestFree, DeleteEntry, TypeOK
<1>6. CASE UNCHANGED vars
  BY <1>6 DEF vars
<1>7. QED
  BY <1>1, <1>2, <1>3, <1>4, <1>5, <1>6 DEF Next

\* A hook that begins takes the segment from key 0; one that returns only
\* lets go.
LEMMA StepHooks ==
    TypeOK /\ KeyZeroIsCurrent /\ HooksInv /\ [Next]_vars => HooksInv'
<1> SUFFICES ASSUME TypeOK, KeyZeroIsCurrent, HooksInv, [Next]_vars PROVE HooksInv'
  OBVIOUS
<1> USE DEF HooksInv, Running, settings, segmentVars, history
<1>1. CASE ModuleInit \/ IniSet \/ RequestFree \/ Respawn
  BY <1>1 DEF ModuleInit, IniSet, RequestFree, Respawn, TypeOK
<1>2. CASE RequestInit
  BY <1>2 DEF RequestInit, TypeOK
<1>3. CASE ScriptEnds
  BY <1>3 DEF ScriptEnds
<1>4. CASE CurlExecBegins \/ RedisBegins
  <2>1. /\ failure = "none" /\ phase = "script"
        /\ UNCHANGED <<phase, request, curl_cache, began, mismatch>>
    BY <1>4 DEF CurlExecBegins, RedisBegins
  <2>2. PICK c \in CallType : calls' = Append(calls, c) /\ c.segment \in {NoSegment, segment}
    <3>1. CASE RedisBegins
      <4>1. PICK c : c = [hook |-> "redis", segment |-> NoSegment]
        OBVIOUS
      <4>2. c \in CallType /\ c.segment = NoSegment
        BY <4>1 DEF CallType
      <4>3. QED
        BY <3>1, <4>1, <4>2 DEF RedisBegins
    <3>2. CASE CurlExecBegins
      <4>1. \E hook \in {"pass", "curl"} : \E s \in {NoSegment, segment} :
                calls' = Append(calls, [hook |-> hook, segment |-> s])
        BY <3>2 DEF CurlExecBegins
      <4>2. PICK hook \in {"pass", "curl"}, s \in {NoSegment, segment} :
                calls' = Append(calls, [hook |-> hook, segment |-> s])
        BY <4>1
      <4>3. PICK c : c = [hook |-> hook, segment |-> s]
        OBVIOUS
      <4>4. c \in CallType /\ c.segment = s
        BY <4>3 DEF CallType, TypeOK
      <4>5. QED
        BY <4>2, <4>3, <4>4
    <3>3. QED
      BY <1>4, <3>1, <3>2
  <2>3. /\ Len(calls') = Len(calls) + 1 /\ Len(calls) \in Nat
        /\ \A i \in 1..Len(calls) : calls'[i] = calls[i]
        /\ calls'[Len(calls) + 1] = c
    BY <2>2, CallsGrow DEF TypeOK
  <2>4. ~mismatch => segment \in {NoSegment, request}
    BY <2>1 DEF KeyZeroIsCurrent
  <2>5. ASSUME ~mismatch, NEW i \in 1..Len(calls')
        PROVE  calls'[i].segment \in {NoSegment, request}
    <3>1. CASE i \in 1..Len(calls)
      BY <2>1, <2>3, <2>5, <3>1
    <3>2. CASE i = Len(calls) + 1
      BY <2>2, <2>3, <2>4, <2>5, <3>2
    <3>3. QED
      BY <2>3, <3>1, <3>2
  <2>6. QED
    BY <2>1, <2>5
<1>5. CASE CallReturns
  <2>1. /\ failure = "none" /\ phase = "script" /\ calls # <<>> /\ calls' = Front(calls)
        /\ UNCHANGED <<phase, request, curl_cache, began, mismatch>>
    BY <1>5 DEF CallReturns
  <2>2. /\ Len(calls') = Len(calls) - 1 /\ Len(calls) \in Nat
        /\ \A i \in 1..Len(calls') : calls'[i] = calls[i]
    BY <2>1, CallsShrink DEF TypeOK
  <2>3. \A i \in 1..Len(calls') : i \in 1..Len(calls)
    BY <2>2
  <2>4. QED
    BY <2>1, <2>2, <2>3
<1>6. CASE UNCHANGED vars
  BY <1>6 DEF vars
<1>7. QED
  BY <1>1, <1>2, <1>3, <1>4, <1>5, <1>6 DEF Next, HookStep

\* While the value of skywalking.enable is that of RINIT, what the hooks and
\* RSHUTDOWN use is the request's own.
LEMMA StepFails ==
    TypeOK /\ SpansInv /\ KeyZeroIsCurrent /\ HooksInv /\ EntryFailsOnlyWhenSwitched /\ [Next]_vars
        => EntryFailsOnlyWhenSwitched'
<1> SUFFICES ASSUME TypeOK, SpansInv, KeyZeroIsCurrent, HooksInv, EntryFailsOnlyWhenSwitched,
                    [Next]_vars
             PROVE  EntryFailsOnlyWhenSwitched'
  OBVIOUS
<1> USE DEF EntryFailsOnlyWhenSwitched, settings, segmentVars, history
<1>1. CASE ModuleInit
  BY <1>1 DEF ModuleInit, HooksInv
<1>2. CASE RequestInit \/ Respawn
  BY <1>2 DEF RequestInit, Respawn
<1>3. CASE IniSet \/ ScriptEnds \/ RedisBegins
  BY <1>3 DEF IniSet, ScriptEnds, RedisBegins
<1>4. CASE CurlExecBegins
  <2>1. failure = "none" /\ UNCHANGED <<began, hooked, mismatch>>
    BY <1>4 DEF CurlExecBegins
  <2>2. ~mismatch => ~Dangling
    BY <2>1 DEF KeyZeroIsCurrent, Dangling
  <2>3. QED
    BY <1>4, <2>1, <2>2 DEF CurlExecBegins
<1>5. CASE CallReturns
  <2>1. /\ failure = "none" /\ calls # <<>> /\ calls' = Front(calls)
        /\ UNCHANGED <<began, hooked, mismatch>>
    BY <1>5 DEF CallReturns
  <2>2. Last(calls) = calls[Len(calls)] /\ Len(calls) \in 1..Len(calls)
    BY <2>1, CallsShrink DEF TypeOK
  <2>3. ~mismatch => /\ segment \in {NoSegment, request}
                     /\ Last(calls).segment \in {NoSegment, request}
    BY <2>1, <2>2 DEF KeyZeroIsCurrent, HooksInv
  <2>4. failure' \in {failure, "response"} \/ \E target \in {segment, Last(calls).segment} :
            target # NoSegment /\ failure' = IF target # request THEN "heap" ELSE "none"
    BY <1>5, Returning
  <2>5. QED
    BY <2>1, <2>3, <2>4
<1>6. CASE RequestFree
  <2>1. /\ phase = "shutdown" /\ failure = "none" /\ UNCHANGED <<began, hooked>>
        /\ mismatch' = (mismatch \/ enable # began)
    BY <1>6 DEF RequestFree
  <2>2. SUFFICES ASSUME ~mismatch, enable = began PROVE failure' \in {"none", "text"}
    BY <2>1
  <2>3. /\ segment = IF began /\ hooked THEN request ELSE NoSegment
        /\ began => curl_cache = "array"
    BY <2>1, <2>2 DEF KeyZeroIsCurrent, HooksInv, Running
  <2>4. request # NoSegment
    BY <2>1, RequestAssumption DEF RequestAssumption, HooksInv, Running, TypeOK
  <2>5. QED
    BY <1>6, <2>2, <2>3, <2>4 DEF RequestFree, Dangling
<1>7. CASE UNCHANGED vars
  BY <1>7 DEF vars
<1>8. QED
  BY <1>1, <1>2, <1>3, <1>4, <1>5, <1>6, <1>7 DEF Next, HookStep

-----------------------------------------------------------------------------
LEMMA StepTraced ==
    TypeOK /\ SpansInv /\ KeyZeroIsCurrent /\ TracedInv /\ [Next]_vars => TracedInv'
<1> SUFFICES ASSUME TypeOK, SpansInv, KeyZeroIsCurrent, TracedInv, [Next]_vars
             PROVE  TracedInv'
  OBVIOUS
<1> USE DEF Running, settings, segmentVars, history
<1>1. CASE ModuleInit \/ RequestFree \/ Respawn
  BY <1>1 DEF TracedInv, ModuleInit, RequestFree, Respawn
<1>2. CASE RequestInit
  <2>1. SUFFICES ASSUME ~mismatch, failure' = "none", began', hooked
                 PROVE  /\ traced' # <<>> /\ Last(traced') = request'
                        /\ Len(spans') = 1 + Len(returned')
    BY <1>2 DEF TracedInv, RequestInit
  <2>2. segment = NoSegment /\ TracesRequest /\ traced' = Append(traced, request')
    BY <1>2, <2>1 DEF RequestInit, KeyZeroIsCurrent, TracesRequest
  <2>3. Len(spans') = 1 /\ returned' = <<>>
    <3>1. /\ spans' = <<[type |-> "Entry", ended |-> FALSE, spanId |-> 0, parentSpanId |-> -1]>>
          /\ returned' = <<>>
      BY <1>2, <2>1, <2>2 DEF RequestInit
    <3>2. QED
      BY <3>1
  <2>4. traced' # <<>> /\ Last(traced') = request'
    <3>1. /\ traced \in Seq(1..MaxRequests) /\ request' \in 1..MaxRequests
      BY <1>2, RequestAssumption DEF TypeOK, RequestInit, RequestAssumption
    <3>2. /\ Len(traced') = Len(traced) + 1 /\ traced'[Len(traced) + 1] = request'
          /\ Len(traced) \in Nat /\ traced' \in Seq(1..MaxRequests)
      BY <2>2, <3>1
    <3>3. QED
      BY <3>2, EmptySeq DEF Last
  <2>5. QED
    BY <2>3, <2>4
<1>3. CASE IniSet \/ ScriptEnds \/ CurlExecBegins \/ RedisBegins
  <2>1. /\ UNCHANGED <<request, traced, spans, returned, began, hooked, mismatch>>
        /\ phase = "script" /\ failure = "none"
    BY <1>3 DEF IniSet, ScriptEnds, CurlExecBegins, RedisBegins
  <2>2. QED
    BY <2>1 DEF TracedInv
<1>4. CASE CallReturns
  <2>1. /\ UNCHANGED <<request, traced, began, hooked, mismatch>>
        /\ phase = "script" /\ failure = "none"
    BY <1>4 DEF CallReturns
  <2>2. Len(spans') - Len(returned') = Len(spans) - Len(returned)
    <3>1. CASE UNCHANGED <<spans, span_total, returned>>
      BY <3>1
    <3>2. CASE ~UNCHANGED <<spans, span_total, returned>>
      <4>1. /\ AddSpan("Exit") /\ spans # <<>>
            /\ \E hook \in {"curl", "redis"} : returned' = Append(returned, hook)
        BY <1>4, <3>2, Returning
      <4>2. Len(spans') = Len(spans) + 1
        BY <4>1, MoreSpans DEF TypeOK, SpansInv
      <4>3. Len(returned') = Len(returned) + 1
        BY <4>1 DEF TypeOK
      <4>4. Len(spans) \in Nat /\ Len(returned) \in Nat
        BY DEF TypeOK
      <4>5. QED
        BY <4>2, <4>3, <4>4
    <3>3. QED
      BY <3>1, <3>2
  <2>3. Len(spans) \in Nat /\ Len(returned) \in Nat
    BY DEF TypeOK
  <2>4. Len(spans') \in Nat /\ Len(returned') \in Nat
    BY StepTypeOK DEF TypeOK
  <2>5. QED
    BY <2>1, <2>2, <2>3, <2>4 DEF TracedInv
<1>5. CASE UNCHANGED vars
  BY <1>5 DEF TracedInv, vars
<1>6. QED
  BY <1>1, <1>2, <1>3, <1>4, <1>5 DEF Next, HookStep

\* The requests whose segments have been sent.
SentRequests == [i \in 1..Len(sent) |-> sent[i].segment]

\* What is at the end of a sequence can be taken off and put back.
LEMMA FrontLast ==
    ASSUME NEW S, NEW s \in Seq(S)
    PROVE  /\ \A e \in S : Front(Append(s, e)) = s
           /\ s # <<>> => Append(Front(s), Last(s)) = s
<1>1. ASSUME NEW e \in S
      PROVE  Front(Append(s, e)) = s
  BY <1>1 DEF Front
<1>2. ASSUME s # <<>>
      PROVE  Append(Front(s), Last(s)) = s
  BY <1>2 DEF Front, Last
<1>3. QED
  BY <1>1, <1>2

\* One more segment is one more request.
LEMMA SentOneMore ==
    ASSUME sent \in Seq(SentType), NEW e \in SentType, sent' = Append(sent, e)
    PROVE  /\ SentRequests' = Append(SentRequests, e.segment)
           /\ \A i \in 1..Len(sent') : sent'[i] = IF i <= Len(sent) THEN sent[i] ELSE e
<1>1. /\ Len(sent) \in Nat /\ Len(sent') = Len(sent) + 1
      /\ \A i \in 1..Len(sent) : sent[i] \in SentType
      /\ \A i \in 1..Len(sent') : sent'[i] = IF i <= Len(sent) THEN sent[i] ELSE e
  OBVIOUS
<1>2. /\ SentRequests \in Seq(1..MaxRequests) /\ e.segment \in 1..MaxRequests
      /\ Len(SentRequests) = Len(sent)
      /\ \A i \in 1..Len(sent) : SentRequests[i] = sent[i].segment
  BY <1>1 DEF SentRequests, SentType
<1>3. PICK a \in Seq(1..MaxRequests) : a = Append(SentRequests, e.segment)
  <2>1. Append(SentRequests, e.segment) \in Seq(1..MaxRequests)
    BY <1>2, AppendProperties
  <2>2. QED
    BY <2>1
<1>4. /\ Len(a) = Len(sent) + 1
      /\ \A i \in 1..Len(sent) : a[i] = sent[i].segment
      /\ a[Len(sent) + 1] = e.segment
  BY <1>2, <1>3
<1>5. /\ SentRequests' = [i \in 1..Len(sent) + 1 |-> sent'[i].segment]
  BY <1>1 DEF SentRequests
<1>6. a = [i \in 1..Len(sent) + 1 |-> a[i]]
  BY <1>1, <1>4
<1>7. \A i \in 1..Len(sent) + 1 : a[i] = sent'[i].segment
  BY <1>1, <1>4
<1>8. QED
  BY <1>1, <1>3, <1>5, <1>6, <1>7

\* The segment of a request is sent at its end, when the request is the last
\* of traced.
LEMMA StepSent ==
    TypeOK /\ SpansInv /\ KeyZeroIsCurrent /\ TracedInv /\ SentOncePerRequest /\ [Next]_vars
        => SentOncePerRequest'
<1> SUFFICES ASSUME TypeOK, SpansInv, KeyZeroIsCurrent, TracedInv, SentOncePerRequest,
                    [Next]_vars, ~mismatch', failure' = "none"
             PROVE  /\ \A i \in 1..Len(sent') : Len(sent'[i].spans) = 1 + Len(sent'[i].calls)
                    /\ SentRequests' = IF (Running /\ began /\ hooked)' THEN Front(traced')
                                       ELSE traced'
  BY DEF SentOncePerRequest, SentRequests
<1>0. ~mismatch /\ failure = "none" =>
          /\ \A i \in 1..Len(sent) : Len(sent[i].spans) = 1 + Len(sent[i].calls)
          /\ SentRequests = IF Running /\ began /\ hooked THEN Front(traced) ELSE traced
  BY DEF SentOncePerRequest, SentRequests
<1> USE DEF Running, settings, segmentVars, history
<1>1. CASE ModuleInit
  <2>1. UNCHANGED <<sent, traced, began, mismatch, failure>> /\ phase = "minit" /\ phase' = "idle"
    BY <1>1 DEF ModuleInit
  <2>2. SentRequests' = SentRequests
    BY <2>1 DEF SentRequests
  <2>3. QED
    BY <1>0, <2>1, <2>2
<1>2. CASE RequestInit
  <2>1. /\ UNCHANGED <<sent, hooked, mismatch>> /\ phase = "idle" /\ failure = "none"
        /\ phase' = "script" /\ began' = enable /\ (enable => hooked)
        /\ traced' = IF enable /\ hooked THEN Append(traced, request') ELSE traced
        /\ request' \in 1..MaxRequests
    BY <1>2, RequestAssumption DEF RequestInit, TypeOK, RequestAssumption
  <2>2. SentRequests' = SentRequests /\ SentRequests = traced
    BY <1>0, <2>1 DEF SentRequests
  <2>3. Front(Append(traced, request')) = traced
    <3>1. traced \in Seq(1..MaxRequests)
      BY DEF TypeOK
    <3>2. \A e \in 1..MaxRequests : Front(Append(traced, e)) = traced
      BY <3>1, FrontLast
    <3>3. QED
      BY <2>1, <3>2
  <2>4. QED
    BY <1>0, <2>1, <2>2, <2>3
<1>3. CASE IniSet \/ HookStep \/ ScriptEnds
  <2>1. /\ UNCHANGED <<sent, traced, began, hooked, mismatch>> /\ failure = "none"
        /\ phase = "script" /\ phase' \in {"script", "shutdown"}
    BY <1>3 DEF IniSet, HookStep, CurlExecBegins, RedisBegins, CallReturns, ScriptEnds
  <2>2. SentRequests' = SentRequests
    BY <2>1 DEF SentRequests
  <2>3. QED
    BY <1>0, <2>1, <2>2
<1>4. CASE RequestFree
  <2>1. /\ ~mismatch /\ enable = began /\ failure = "none" /\ phase = "shutdown"
        /\ phase' = "idle" /\ UNCHANGED <<hooked, began, traced>>
    BY <1>4 DEF RequestFree
  <2>2. CASE began /\ hooked
    <3>1. segment = request /\ segment # NoSegment
      BY <1>4, <2>1, <2>2 DEF KeyZeroIsCurrent, RequestFree
    <3>2. ~UNCHANGED sent
      <4>1. Len(sent') = Len(sent) + 1 /\ Len(sent) \in Nat
        BY <1>4, <2>1, <2>2, <3>1 DEF RequestFree, TypeOK
      <4>2. QED
        BY <4>1
    <3>3. PICK e \in SentType :
               /\ sent' = Append(sent, e) /\ e.segment = segment /\ e.calls = returned
               /\ Len(e.spans) = Len(spans)
      BY <1>4, <3>2, Sending
    <3>4. /\ SentRequests' = Append(SentRequests, e.segment)
          /\ \A i \in 1..Len(sent') : sent'[i] = IF i <= Len(sent) THEN sent[i] ELSE e
      BY <3>3, SentOneMore DEF TypeOK
    <3>5. traced # <<>> /\ Last(traced) = request /\ Len(spans) = 1 + Len(returned)
      BY <2>1, <2>2 DEF TracedInv
    <3>6. SentRequests' = traced
      <4>1. SentRequests = Front(traced)
        BY <1>0, <2>1, <2>2
      <4>2. Append(Front(traced), Last(traced)) = traced
        BY <3>5, FrontLast DEF TypeOK
      <4>3. QED
        BY <3>1, <3>3, <3>4, <3>5, <4>1, <4>2
    <3>7. Len(e.spans) = 1 + Len(e.calls)
      BY <3>3, <3>5
    <3>8. Len(sent) \in Nat /\ Len(sent') = Len(sent) + 1
      BY <3>3 DEF TypeOK
    <3>9. ASSUME NEW i \in 1..Len(sent')
          PROVE  Len(sent'[i].spans) = 1 + Len(sent'[i].calls)
      <4>1. CASE i \in 1..Len(sent)
        <5>1. sent'[i] = sent[i]
          BY <3>4, <3>8, <4>1
        <5>2. QED
          BY <1>0, <2>1, <4>1, <5>1
      <4>2. CASE i = Len(sent) + 1
        <5>1. sent'[i] = e
          BY <3>4, <3>8, <4>2
        <5>2. QED
          BY <3>7, <5>1
      <4>3. QED
        BY <3>8, <3>9, <4>1, <4>2
    <3>10. QED
      BY <2>1, <3>6, <3>9
  <2>3. CASE ~(began /\ hooked)
    <3>1. UNCHANGED sent
      BY <1>4, <2>1, <2>3 DEF RequestFree
    <3>2. SentRequests' = SentRequests
      BY <3>1 DEF SentRequests
    <3>3. QED
      BY <1>0, <2>1, <2>3, <3>1, <3>2
  <2>4. QED
    BY <2>2, <2>3
<1>5. CASE Respawn
  <2>1. sent' = <<>> /\ traced' = <<>> /\ phase' = "idle"
    BY <1>5 DEF Respawn
  <2>2. SentRequests' = <<>>
    BY <2>1, Z3 DEF SentRequests
  <2>3. QED
    BY <2>1, <2>2
<1>6. CASE UNCHANGED vars
  <2>1. UNCHANGED <<sent, traced, began, hooked, mismatch, failure, phase>>
    BY <1>6 DEF vars
  <2>2. SentRequests' = SentRequests
    BY <2>1 DEF SentRequests
  <2>3. QED
    BY <1>0, <2>1, <2>2
<1>7. QED
  BY <1>1, <1>2, <1>3, <1>4, <1>5, <1>6 DEF Next

-----------------------------------------------------------------------------
\* Every state of a worker satisfies the inductive invariant.
THEOREM WorkerInvariant == Spec => []IInv
<1>1. Init => IInv
  BY InitIInv
<1>2. IInv /\ [Next]_vars => IInv'
  BY StepTypeOK, StepSpans, StepNumbered, StepKeyZero, StepHooks, StepFails, StepTraced,
     StepSent
  DEF IInv
<1>3. QED
  BY <1>1, <1>2, PTL DEF Spec

\* The globals, the segment and its spans keep to their types.
THEOREM TypeCorrect == Spec => []TypeOK
<1>1. IInv => TypeOK
  BY DEF IInv
<1>2. QED
  BY <1>1, WorkerInvariant, PTL

\* Key 0 names the running request's own segment, and nothing between requests.
THEOREM KeyZero == Spec => []KeyZeroIsCurrent
<1>1. IInv => KeyZeroIsCurrent
  BY DEF IInv
<1>2. QED
  BY <1>1, WorkerInvariant, PTL

\* A missing table or entry, or an entry or a cache of an earlier request, is
\* met only where skywalking.enable was switched.
THEOREM EntrySafeUnlessSwitched == Spec => []EntryFailsOnlyWhenSwitched
<1>1. IInv => EntryFailsOnlyWhenSwitched
  BY DEF IInv
<1>2. QED
  BY <1>1, WorkerInvariant, PTL

\* Every traced request that ends is sent once, with a span for each call.
THEOREM SentOnce == Spec => []SentOncePerRequest
<1>1. IInv => SentOncePerRequest
  BY DEF IInv
<1>2. QED
  BY <1>1, WorkerInvariant, PTL

\* The spans sent are numbered, ended, children of the first, and none is
\* written behind the end of the array.
THEOREM SpansNumbered == Spec => []SpansAreNumbered
<1>1. IInv => SpansAreNumbered
  BY DEF IInv
<1>2. QED
  BY <1>1, WorkerInvariant, PTL

-----------------------------------------------------------------------------
\* What a transfer sends is what the cache or libcurl has at that moment, so
\* HeadersAreTheScripts needs that both mirror the script's list before it.
CurlIInv == CurlTypeOK /\ CacheMirrorsHandle /\ HeadersAreTheScripts

LEMMA InitCurlIInv == CurlInit => CurlIInv
BY CurlPluginAssumption
DEF CurlPluginAssumption, CurlInit, CurlIInv, CurlTypeOK, CacheMirrorsHandle, HeadersAreTheScripts,
    ListToSet, Value

\* Whatever is in the cache, the hook leaves the handle with a list of headers.
LEMMA ListToSetIsAValue ==
    ASSUME CurlTypeOK, NEW n \in Number
    PROVE  ListToSet(n) \in Value
BY CurlPluginAssumption DEF CurlPluginAssumption, CurlTypeOK, ListToSet, Value

\* A step of one handle keeps the types.
LEMMA StepCurlTypeOK ==
    ASSUME CurlTypeOK, NEW n \in Number, HandleStep(n)
    PROVE  CurlTypeOK'
<1> USE CurlPluginAssumption DEF CurlPluginAssumption, CurlTypeOK, Value
<1>1. CASE Create(n)
  BY <1>1 DEF Create, Gets, Deceive
<1>2. ASSUME NEW list \in Headers \union {NoHeaders}, Setopt(n, list)
      PROVE  CurlTypeOK'
  BY <1>2 DEF Setopt, Gets, Deceive
<1>3. ASSUME NEW value \in Headers \union {NotAList}, SetoptArrayFails(n, value)
      PROVE  CurlTypeOK'
  BY <1>3 DEF SetoptArrayFails, CacheOnFailure, Deceive
<1>4. ASSUME NEW recorded \in BOOLEAN, Exec(n, recorded)
      PROVE  CurlTypeOK'
  <2> DEFINE list == IF recorded THEN ListToSet(n) ELSE option[n]
  <2>1. list \in Value
    BY ListToSetIsAValue
  <2>2. /\ option' = [option EXCEPT ![n] = list]
        /\ transfer' = [sent |-> list, wanted |-> wanted[n], deceived |-> n \in deceived]
        /\ UNCHANGED <<php8, handles, cached, wanted, deceived>>
    BY <1>4 DEF Exec
  <2> HIDE DEF list
  <2>3. QED
    BY <2>1, <2>2
<1>5. CASE Close(n)
  BY <1>5 DEF Close, Deceive
<1>6. CASE Drop(n)
  BY <1>6 DEF Drop
<1>7. ASSUME NEW copy \in Number, Copy(n, copy)
      PROVE  CurlTypeOK'
  BY <1>7 DEF Copy, Deceive
<1>8. CASE Reset(n)
  BY <1>8 DEF Reset, Gets, Deceive
<1>9. QED
  BY <1>1, <1>2, <1>3, <1>4, <1>5, <1>6, <1>7, <1>8 DEF HandleStep

\* A handle for which a step does nothing keeps its mirror; for the one it
\* works on, each use that breaks the mirror is a deception.
LEMMA StepMirrors ==
    ASSUME CurlTypeOK, CacheMirrorsHandle, NEW n \in Number, HandleStep(n)
    PROVE  CacheMirrorsHandle'
<1> USE CurlPluginAssumption
    DEF CurlPluginAssumption, CurlTypeOK, Value, CacheMirrorsHandle, ListToSet
<1>1. CASE Create(n)
  BY <1>1 DEF Create, Gets, Deceive
<1>2. ASSUME NEW list \in Headers \union {NoHeaders}, Setopt(n, list)
      PROVE  CacheMirrorsHandle'
  BY <1>2 DEF Setopt, Gets, Deceive
<1>3. ASSUME NEW value \in Headers \union {NotAList}, SetoptArrayFails(n, value)
      PROVE  CacheMirrorsHandle'
  BY <1>3 DEF SetoptArrayFails, CacheOnFailure, Deceive
<1>4. ASSUME NEW recorded \in BOOLEAN, Exec(n, recorded)
      PROVE  CacheMirrorsHandle'
  BY <1>4 DEF Exec
<1>5. CASE Close(n)
  BY <1>5 DEF Close, Deceive
<1>6. CASE Drop(n)
  BY <1>6 DEF Drop
<1>7. ASSUME NEW copy \in Number, Copy(n, copy)
      PROVE  CacheMirrorsHandle'
  BY <1>7 DEF Copy, Deceive
<1>8. CASE Reset(n)
  BY <1>8 DEF Reset, Gets, Deceive
<1>9. QED
  BY <1>1, <1>2, <1>3, <1>4, <1>5, <1>6, <1>7, <1>8 DEF HandleStep

\* Only curl_exec makes a transfer, and it sends what the mirror says.
LEMMA StepHeaders ==
    ASSUME CurlTypeOK, CacheMirrorsHandle, HeadersAreTheScripts, NEW n \in Number, HandleStep(n)
    PROVE  HeadersAreTheScripts'
<1>1. ASSUME NEW recorded \in BOOLEAN, Exec(n, recorded)
      PROVE  HeadersAreTheScripts'
  <2>1. n \notin deceived => ListToSet(n) = wanted[n] /\ option[n] = wanted[n]
    BY <1>1 DEF Exec, CacheMirrorsHandle
  <2>2. transfer' = [sent |-> IF recorded THEN ListToSet(n) ELSE option[n],
                     wanted |-> wanted[n], deceived |-> n \in deceived]
    BY <1>1 DEF Exec
  <2>3. QED
    BY <2>1, <2>2 DEF HeadersAreTheScripts
<1>2. CASE UNCHANGED transfer
  BY <1>2 DEF HeadersAreTheScripts
<1>3. QED
  BY <1>1, <1>2 DEF HandleStep, Create, Setopt, SetoptArrayFails, Close, Drop, Copy, Reset

LEMMA StepCurlIInv == CurlIInv /\ [CurlNext]_curlVars => CurlIInv'
<1> SUFFICES ASSUME CurlIInv, [CurlNext]_curlVars PROVE CurlIInv'
  OBVIOUS
<1>1. ASSUME NEW n \in Number, HandleStep(n)
      PROVE  CurlIInv'
  BY <1>1, StepCurlTypeOK, StepMirrors, StepHeaders DEF CurlIInv
<1>2. CASE UNCHANGED curlVars
  BY <1>2 DEF curlVars, CurlIInv, CurlTypeOK, CacheMirrorsHandle, HeadersAreTheScripts, ListToSet
<1>3. QED
  BY <1>1, <1>2 DEF CurlNext

\* The inductive invariant of the curl plugin's cache.
THEOREM CacheInvariant == CurlSpec => []CurlIInv
<1>1. QED
  BY InitCurlIInv, StepCurlIInv, PTL DEF CurlSpec

\* The type invariant, for every set of handles and lists.
THEOREM CurlTypeCorrect == CurlSpec => []CurlTypeOK
<1>1. CurlIInv => CurlTypeOK
  BY DEF CurlIInv
<1>2. QED
  BY <1>1, CacheInvariant, PTL

\* A transfer has the headers its script set (sky_plugin_curl.c:167-222),
\* unless the script used one of the five things the hooks do not follow.
THEOREM HeadersKept == CurlSpec => []HeadersAreTheScripts
<1>1. CurlIInv => HeadersAreTheScripts
  BY DEF CurlIInv
<1>2. QED
  BY <1>1, CacheInvariant, PTL

\* curl_cache agrees with libcurl and the script for every other handle.
THEOREM CacheIsRight == CurlSpec => []CacheMirrorsHandle
<1>1. CurlIInv => CacheMirrorsHandle
  BY DEF CurlIInv
<1>2. QED
  BY <1>1, CacheInvariant, PTL
=============================================================================
