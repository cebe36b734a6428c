---------------------------- MODULE MCRecording ----------------------------
(* A small instance of Recording: ids of one to four bytes, headers with    *)
(* seven to nine fields of which at most one is empty, one with letters that*)
(* base64 does not have, and every hooked redis command.                    *)
EXTENDS Recording

CONSTANTS
    k1, k2,   \* keys
    v, q,     \* a value, and one with a quote in it
    option    \* what SET may have behind its value

Values == {v, q}

MCTraceIds == {<<97>>, <<97, 98>>, <<97, 98, 122>>, <<97, 46, 49, 57>>}
MCOwnId == <<115, 46, 49>>

Field(i, id) == IF i = 2 THEN Encoded(id) ELSE <<48, 48, 61, 64>>

\* Letters that decode to bytes with a zero among them, some not of the map, and
\* too few of them.
MCSeconds == {<<24, 16, 1, 1>>, <<64, 1, 64, 5>>, <<7>>}

Fields(n, id) == [i \in 1..n |-> Field(i, id)]

MCHeaders ==
    {NoHeader} \union {Fields(8, id) : id \in MCTraceIds}
    \union {Fields(n, <<97>>) : n \in {7, 9}}
    \union {[Fields(8, <<97>>) EXCEPT ![empty] = <<>>] : empty \in {2, 8}}
    \union {[Fields(9, <<97>>) EXCEPT ![1] = <<>>]}
    \union {[Fields(8, <<97>>) EXCEPT ![2] = second] : second \in MCSeconds}

ZString(text) == [type |-> "string", text |-> text]
ZLong(n) == [type |-> "long", text |-> n]
Zvals == {ZString(text) : text \in Values} \union {ZLong(3)}
Element(key, z) == [key |-> key, value |-> z]

Args(kw) ==
    CASE kw \in {"GET", "STRLEN"}                  -> {<<k1>>}
      [] kw \in {"APPEND", "GETSET", "SETNX"}      -> {<<k1, z>> : z \in Zvals}
      [] kw = "SET"                                -> {<<k1, z>> : z \in Zvals} \union {<<k1, ZString(v), option>>}
      [] kw \in {"DECR", "INCR", "DECRBY", "INCRBY"} -> {<<k1, n>> : n \in {1, 2}}
      [] kw \in {"PSETEX", "SETEX"}                -> {<<k1, 5, z>> : z \in Zvals}
      [] kw = "GETRANGE"                           -> {<<k1, 0, 9>>}
      [] kw = "INCRBYFLOAT"                        -> {<<k1, 2>>}
      [] kw = "SETRANGE"                           -> {<<k1, n, text>> : n \in {0, 9}, text \in Values}
      [] kw = "MGET"                               -> {<< <<Element(0, ZString(k1)), Element(1, z)>> >> :
                                                         z \in {ZString(k2), ZLong(7)}}
      [] kw \in {"MSET", "MSETNX"}                 -> {<< <<Element(k1, z), Element(7, ZString(v))>> >> :
                                                         z \in Zvals}

Keywords == {"GET", "STRLEN", "APPEND", "GETSET", "SETNX", "SET", "DECR", "INCR", "DECRBY", "INCRBY",
             "PSETEX", "SETEX", "GETRANGE", "INCRBYFLOAT", "SETRANGE", "MGET", "MSET", "MSETNX"}

MCCalls == UNION {{[kw |-> kw, args |-> args] : args \in Args(kw)} : kw \in Keywords}

Uri(query, fills) == [path |-> <<v>>, query |-> query, fills |-> fills]
Url(uri, long) == [path |-> uri.path, query |-> uri.query, fills |-> uri.fills, long |-> long]
MCUris == {Uri(<<>>, FALSE), Uri(<<>>, TRUE), Uri(<<q>>, FALSE)}
MCUrls == {Url(uri, FALSE) : uri \in MCUris} \union {Url(Uri(<<>>, FALSE), TRUE)}
MCResponses == {[http_code |-> code, body |-> <<text>>, returned |-> returned] :
                  code \in {200, 500}, text \in Values, returned \in BOOLEAN}
MCServices == {<<v>>, <<q>>}
MCCleanUris == {Uri(<<>>, FALSE)}
MCCleanUrls == {Url(Uri(<<>>, FALSE), FALSE)}
MCCleanResponses == {response \in MCResponses : response.body = <<v>>}
MCGarbage == {255}
MCDirty == {q}
=============================================================================
