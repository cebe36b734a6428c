----------------------------- MODULE SegmentText -----------------------------
(***************************************************************************)
(* The text in which a segment goes from a worker to the reporter.  C code *)
(* writes it piece by piece (sky_core_segment.c, sky_core_span.c,          *)
(* sky_core_tag.c, sky_util_php.c); serde reads it into the types of       *)
(* Tracing.proto, where no field may be missing (build.rs:18-19).  Nothing *)
(* is escaped, so a string is a token that tells whether it is clean: free *)
(* of quotes, backslashes and control characters, and UTF-8.               *)
(***************************************************************************)
EXTENDS Integers, Sequences, SequencesExt

Comma == <<[t |-> ","]>>

\* sky_util_json_key, and the helpers of sky_util_php.c; those whose name ends
\* in _ex write a comma at the end.
JsonKey(k) == <<[t |-> "key", name |-> k]>>
JsonStr(k, clean) == JsonKey(k) \o <<[t |-> "string", clean |-> clean]>>
JsonInt(k) == JsonKey(k) \o <<[t |-> "number"]>>
JsonBool(k) == JsonKey(k) \o <<[t |-> "bool"]>>
JsonRaw(k, tokens) == JsonKey(k) \o tokens

\* Mutant of List: a comma after each element.
ListTrailing(elements) ==
    <<[t |-> "["]>> \o FlattenSeq([i \in DOMAIN elements |-> elements[i] \o Comma]) \o <<[t |-> "]"]>>

\* The loops over spans, tags and logs.
List(elements) ==
    <<[t |-> "["]>>
    \o FlattenSeq([i \in DOMAIN elements |->
                      elements[i] \o IF i < Len(elements) THEN Comma ELSE <<>>])
    \o <<[t |-> "]"]>>

Object(tokens) == <<[t |-> "{"]>> \o tokens \o <<[t |-> "}"]>>

\* sky_core_tag_to_json.
TagJson(clean) == Object(JsonStr("key", TRUE) \o Comma \o JsonStr("value", clean))

\* sky_core_span_to_json: no span counts its references, and no hook adds logs.
SpanJson(span) ==
    Object(
        JsonInt("span_id") \o Comma \o JsonInt("parent_span_id") \o Comma
        \o JsonInt("start_time") \o Comma \o JsonInt("end_time") \o Comma
        \o JsonRaw("refs", List(<<>>)) \o Comma
        \o JsonStr("operation_name", span.operationName) \o Comma
        \o JsonStr("peer", span.peer) \o Comma
        \o JsonInt("span_type") \o Comma \o JsonInt("span_layer") \o Comma
        \o JsonInt("component_id") \o Comma \o JsonBool("is_error") \o Comma
        \o JsonRaw("tags", List([i \in DOMAIN span.tags |-> TagJson(span.tags[i])])) \o Comma
        \o JsonRaw("logs", List(<<>>)) \o Comma
        \o JsonBool("skip_analysis"))

\* sky_core_segment_to_json.
SegmentJson(segment) ==
    Object(
        JsonStr("trace_id", segment.traceId) \o Comma
        \o JsonStr("trace_segment_id", TRUE) \o Comma
        \o JsonRaw("spans", List([i \in DOMAIN segment.spans |-> SpanJson(segment.spans[i])])) \o Comma
        \o JsonStr("service", segment.service) \o Comma
        \o JsonStr("service_instance", segment.serviceInstance) \o Comma
        \o JsonBool("is_size_limited"))

-----------------------------------------------------------------------------
\* The messages of Tracing.proto as serde derives them.
Schema == [
    SegmentObject |-> [trace_id |-> "string", trace_segment_id |-> "string", spans |-> "Spans",
                       service |-> "string", service_instance |-> "string",
                       is_size_limited |-> "bool"],
    SpanObject |-> [span_id |-> "number", parent_span_id |-> "number", start_time |-> "number",
                    end_time |-> "number", refs |-> "Refs", operation_name |-> "string",
                    peer |-> "string", span_type |-> "number", span_layer |-> "number",
                    component_id |-> "number", is_error |-> "bool", tags |-> "Tags",
                    logs |-> "Logs", skip_analysis |-> "bool"],
    KeyStringValuePair |-> [key |-> "string", value |-> "string"] ]

ElementOf == [Text |-> "SegmentObject", Spans |-> "SpanObject", Tags |-> "KeyStringValuePair",
              Refs |-> "SegmentReference", Logs |-> "Log"]

\* A reader of serde_json is a stack of what it is inside of, with the place
\* it is at: before a "name", a "value" or the "first" one of a list, or
\* "after" a value.
Frame(type, next) == [type |-> type, next |-> next, names |-> {}, name |-> ""]
Rejected == <<>>

Wanted(frame) ==
    IF frame.type \in DOMAIN ElementOf THEN ElementOf[frame.type] ELSE Schema[frame.type][frame.name]

Read(stack, token) ==
    LET top == Last(stack)
        value == top.next \in {"value", "first"}
        Turn(frame) == Append(Front(stack), frame)
        Close == LET outer == Front(stack) IN Append(Front(outer), [Last(outer) EXCEPT !.next = "after"])
    IN  CASE token.t = "string" /\ value /\ Wanted(top) = "string" /\ token.clean ->
                Turn([top EXCEPT !.next = "after"])
          [] token.t \in {"number", "bool"} /\ value /\ Wanted(top) = token.t ->
                Turn([top EXCEPT !.next = "after"])
          [] token.t = "{" /\ value /\ Wanted(top) \in DOMAIN Schema ->
                Append(stack, Frame(Wanted(top), "name"))
          [] token.t = "[" /\ value /\ Wanted(top) \in DOMAIN ElementOf ->
                Append(stack, Frame(Wanted(top), "first"))
          [] token.t = "key" /\ top.next = "name"
                /\ token.name \in DOMAIN Schema[top.type] \ top.names ->
                Turn([type |-> top.type, next |-> "value",
                      names |-> top.names \union {token.name}, name |-> token.name])
          [] token.t = "," /\ top.next = "after" /\ top.type # "Text" ->
                Turn([top EXCEPT !.next = IF top.type \in DOMAIN ElementOf THEN "value" ELSE "name"])
          [] token.t = "]" /\ top.type \in DOMAIN ElementOf \ {"Text"}
                /\ top.next \in {"first", "after"} -> Close
          [] token.t = "}" /\ top.type \in DOMAIN Schema /\ top.next = "after"
                /\ top.names = DOMAIN Schema[top.type] -> Close
          [] OTHER -> Rejected

\* A row of tokens, one after the other; and the text in rows of ten, which
\* keeps TLC's recursion shallow.
ReadRow(stack, row) ==
    LET read[i \in 0..Len(row)] ==
            IF i = 0 THEN stack
            ELSE LET before == read[i - 1]
                 IN  IF before = Rejected THEN Rejected ELSE Read(before, row[i])
    IN  read[Len(row)]

\* serde_json::from_str in the reporter's receive_once.
Parses(tokens) ==
    LET rows == (Len(tokens) + 9) \div 10
        row(i) == SubSeq(tokens, 10 * i - 9, IF i = rows THEN Len(tokens) ELSE 10 * i)
        read[i \in 0..rows] ==
            IF i = 0 THEN <<Frame("Text", "value")>>
            ELSE LET before == read[i - 1]
                 IN  IF before = Rejected THEN Rejected ELSE ReadRow(before, row(i))
    IN  read[rows] = <<Frame("Text", "after")>>
=============================================================================
