------------------------------ MODULE Execute ------------------------------
(***************************************************************************)
(* How the C++ agent before this one, whose files are still in src/src and *)
(* which config.m4 does not build, takes part in the execution of a        *)
(* script: the hooks of sky_execute.cc on every user and internal function *)
(* with the plugins they call (Plugins), sky_module.cc around them, and    *)
(* the error hook.  A worker of php-fpm has one stack of calls, a worker   *)
(* of swoole one for each coroutine, and a segment for each connection.    *)
(*                                                                         *)
(* External, modelled from the calls: the table of segments and the        *)
(* segment itself, the file's missing rest of sky_request_init, which      *)
(* makes the segment of a request that the limiter lets through, and       *)
(* sky_request_flush.                                                      *)
(***************************************************************************)
EXTENDS Plugins, SequencesExt

CONSTANTS
    Coroutines,        \* of swoole; php-fpm uses the first only
    Fds,               \* numbers of connections
    Calls,             \* the calls that scripts make
    MaxRequests, MaxCalls   \* bounds

ASSUME ExecuteAssumption ==
    /\ Coroutines # {} /\ Fds \subseteq Nat \ {0}
    /\ {MaxRequests, MaxCalls} \subseteq Nat

VARIABLES
    sapi,              \* "fpm" or "swoole"
    module,            \* "loaded", "on", "off" after an early return, or "down"
    isSwoole,          \* SKYWALKING_G(is_swoole)
    segments,          \* SKYWALKING_G(segment), by connection; php-fpm's key is 0
    stack,             \* the frames of each coroutine
    requests, calls,   \* so far
    died,              \* the call in which the process died
    disturbed,         \* history: calls that did not run as without the agent
    wild,              \* history: a span of a freed segment was written
    shared,            \* history: two handlers had the same connection at once
    raised, bailed     \* history: a reported error, and a bailout, in the request

tables == <<isSwoole, segments>>
history == <<disturbed, wild, shared, raised, bailed>>
vars == <<sapi, module, tables, stack, requests, calls, died, history>>

Keys == Fds \union {0}
Main == CHOOSE c \in Coroutines : TRUE
Segment(id, skip) == [id |-> id, skip |-> skip, status |-> 0, error |-> FALSE, spans |-> <<>>]
NoSegment == Segment(0, FALSE)
NoCall == [class |-> None, method |-> None, server |-> NoPeer]
InModule == [NoCall EXCEPT !.class = "sky_module"]

Init ==
    /\ sapi \in {"fpm", "swoole"}
    /\ module = "loaded" /\ isSwoole = FALSE
    /\ segments = [k \in Keys |-> NoSegment]
    /\ stack = [c \in Coroutines |-> <<>>]
    /\ requests = 0 /\ calls = 0 /\ died = NoCall
    /\ disturbed = {} /\ wild = FALSE /\ shared = FALSE /\ raised = FALSE /\ bailed = FALSE

Alive == died = NoCall /\ module # "down"
IsHandler(frame) == frame.call = NoCall

\* Mutant of SwooleFd: coroutines are taken for children of any other.
FdOfAny(c) ==
    LET live == {d \in Coroutines : stack[d] # <<>>}
    IN  IF live = {} THEN -1 ELSE stack[IF c \in live THEN c ELSE CHOOSE d \in live : TRUE][1].key

\* sky_find_swoole_fd: the connection of the nearest handler below, in the
\* coroutine of the call.  In a coroutine that a handler has started there is none.
SwooleFd(c) ==
    LET handlers == {i \in DOMAIN stack[c] : IsHandler(stack[c][i])}
    IN  IF handlers = {} THEN -1 ELSE stack[c][Max(handlers)].key

\* sky_get_segment
Key(c) == IF isSwoole THEN SwooleFd(c) ELSE 0
GetSegment(key) == IF module = "on" /\ key \in Keys THEN segments[key] ELSE NoSegment

-----------------------------------------------------------------------------
\* Only its first part can fail.  Without a key or an id it returns, and nothing
\* is hooked and nothing is made; the failure of shmat is not looked at, and its
\* answer is written to as if it were memory.
ModuleInit ==
    /\ Alive /\ module = "loaded"
    /\ \/ module' \in {"on", "off"} /\ UNCHANGED died
       \/ died' = InModule /\ UNCHANGED module
    /\ UNCHANGED <<sapi, tables, stack, requests, calls, history>>

\* The table is gone through without asking whether there is one.
ModuleCleanup ==
    /\ Alive /\ module # "loaded" /\ \A c \in Coroutines : stack[c] = <<>>
    /\ IF module = "off" THEN died' = InModule /\ UNCHANGED <<module, segments>>
       ELSE /\ module' = "down" /\ segments' = [k \in Keys |-> NoSegment]
            /\ UNCHANGED died
    /\ UNCHANGED <<sapi, isSwoole, stack, requests, calls, history>>

\* insert() does not replace: the segment of a connection that has one stays.
\* A request that the limiter rejects has a skipped segment.
RequestInit(key) ==
    \E made \in {Segment(requests', skip) : skip \in BOOLEAN} \union {NoSegment} :
        segments' = IF segments[key] = NoSegment THEN [segments EXCEPT ![key] = made] ELSE segments

\* A handler's frame knows whether it found a segment, and flushes if so.
Handler(key, flushes) ==
    [key |-> key, flushes |-> flushes, call |-> NoCall, segment |-> 0, span |-> 0, runs |-> 1, throws |-> FALSE]

\* RINIT of php-fpm, also when the limiter was never made.
FpmRequestBegins ==
    /\ Alive /\ module # "loaded" /\ sapi = "fpm" /\ requests < MaxRequests
    /\ stack[Main] = <<>>
    /\ requests' = requests + 1
    /\ raised' = FALSE /\ bailed' = FALSE
    /\ IF module = "off" THEN died' = InModule /\ UNCHANGED <<segments, stack>>
       ELSE /\ RequestInit(0)
            /\ stack' = [stack EXCEPT ![Main] = <<Handler(0, segments'[0] # NoSegment)>>]
            /\ UNCHANGED died
    /\ UNCHANGED <<sapi, module, isSwoole, calls, disturbed, wild, shared>>

\* sky_execute_ex at a function whose arguments are a request and a response
\* of swoole: a handler, or the handler of a framework called by one.
SwooleRequestBegins(c, key) ==
    /\ Alive /\ module # "loaded" /\ sapi = "swoole" /\ requests < MaxRequests
    /\ stack[c] # <<>> => IsHandler(Last(stack[c])) /\ Last(stack[c]).key = key
    /\ requests' = requests + 1
    /\ IF module = "off" THEN UNCHANGED tables
       ELSE isSwoole' = TRUE /\ RequestInit(key)
    /\ stack' = [stack EXCEPT ![c] = Append(@, Handler(key, segments'[key] # NoSegment))]
    /\ shared' = (shared \/ \E d \in Coroutines : \E frame \in ToSet(stack[d]) : frame.key = key)
    /\ UNCHANGED <<sapi, module, calls, died, disturbed, wild, raised, bailed>>

\* The handler returns, or RSHUTDOWN: sky_request_flush sends the segment
\* unless it is skipped, and removes it.
RequestReturns(c) ==
    /\ Alive /\ stack[c] # <<>> /\ IsHandler(Last(stack[c]))
    /\ stack' = [stack EXCEPT ![c] = Front(@)]
    /\ segments' = IF Last(stack[c]).flushes
                   THEN [segments EXCEPT ![Last(stack[c]).key] = NoSegment] ELSE segments
    /\ UNCHANGED <<sapi, module, isSwoole, requests, calls, died, history>>

-----------------------------------------------------------------------------
\* The two hooks: which plugin they give a call to.
GuzzleHandlers == {"Hyperf\\Guzzle\\CoroutineHandler", "Hyperf\\Guzzle\\PoolHandler"}
InternalClasses == {"PDO", "PDOStatement", "mysqli", "Memcached", "Yar_Client", "Yar_Server",
                    "Swoole\\Http\\Response"}
IsInternal(call) == call.class \in InternalClasses \/ call.method \in MysqliFunctions

ByExecuteEx(call, skip) ==
    IF call.class # None /\ call.method = "executeCommand" THEN sky_predis(call, skip)
    ELSE CASE call.class = "Grpc\\BaseStub"                   -> sky_plugin_grpc(call, skip)
           [] call.class = "PhpAmqpLib\\Channel\\AMQPChannel" -> sky_plugin_rabbit_mq(call, skip)
           [] call.class \in GuzzleHandlers /\ call.method = "__invoke" ->
                 sky_plugin_hyperf_guzzle(call, skip)
           [] call.class = None /\ call.method = "swoole_curl_exec" -> sky_plugin_swoole_curl(call)
           [] OTHER -> Nothing

ByExecuteInternal(call, skip) ==
    CASE call.class \in {"PDO", "PDOStatement"} -> sky_pdo(call, skip)
      [] call.class \in {"mysqli", None}          -> sky_plugin_mysqli(call, skip)
      [] call.class = "Memcached"               -> sky_plugin_memcached(call)
      [] call.class = "Yar_Client"              -> sky_plugin_yar_client(call)
      [] call.class = "Yar_Server"              -> sky_plugin_yar_server(call)
      [] OTHER                                  -> Nothing

Plugin(call, skip) == IF IsInternal(call) THEN ByExecuteInternal(call, skip) ELSE ByExecuteEx(call, skip)

\* Mutant of AfterExec: the plugins that execute the call are forgotten.
AfterExecAlways(call, does) == TRUE

\* Whether the hook executes the call after the plugin.
AfterExec(call, does) ==
    CASE call.class = "Grpc\\BaseStub" -> does.opened = <<>>
      [] call.class \in GuzzleHandlers /\ call.method = "__invoke" -> FALSE
      [] call.class = None /\ call.method = "swoole_curl_exec" -> FALSE
      [] OTHER -> TRUE

Runs(call, does) == (IF does.ran THEN 1 ELSE 0) + (IF AfterExec(call, does) THEN 1 ELSE 0)

\* Swoole\Http\Response->status
SetStatus(segment, call) ==
    IF call.class = "Swoole\\Http\\Response" /\ call.method = "status"
    THEN [segment EXCEPT !.status = call.status] ELSE segment

CreateSpan(segment, call, opened) ==
    IF opened = <<>> THEN segment
    ELSE [segment EXCEPT !.spans = Append(@,
            [call |-> call, peer |-> opened[1].peer, header |-> opened[1].header,
             ended |-> FALSE, error |-> FALSE, failed |-> FALSE])]

Frame(call, segment, does, runs) ==
    [key |-> -1, flushes |-> FALSE, call |-> call, segment |-> segment.id,
     span |-> IF does.opened = <<>> THEN 0 ELSE Len(segment.spans),
     runs |-> runs, throws |-> does.throws]

Disturbed(call, runs, throws) ==
    IF runs = 1 /\ ~throws THEN disturbed
    ELSE disturbed \union {[call |-> call, runs |-> runs, throws |-> throws]}

\* A call up to its execution.  One that nothing executes is over at once,
\* and its span, if the plugin has opened one, is left as it is.
CallBegins(c, call) ==
    LET found == GetSegment(Key(c))
        does == IF found = NoSegment THEN Nothing ELSE Plugin(call, found.skip)
        runs == IF found = NoSegment THEN 1 ELSE Runs(call, does)
        segment == CreateSpan(SetStatus(found, call), call, does.opened)
    IN  /\ Alive /\ module # "loaded" /\ calls < MaxCalls
        /\ IF sapi = "fpm" THEN c = Main /\ stack[c] # <<>> /\ ~call.coroutine ELSE TRUE
        /\ calls' = calls + 1
        /\ \/ /\ TRUE \in does.dies
              /\ died' = call
              /\ UNCHANGED <<segments, stack, disturbed>>
           \/ /\ FALSE \in does.dies
              /\ UNCHANGED died
              /\ segments' = IF found = NoSegment THEN segments ELSE [segments EXCEPT ![Key(c)] = segment]
              /\ IF runs = 0
                 THEN disturbed' = Disturbed(call, 0, does.throws) /\ UNCHANGED stack
                 ELSE /\ stack' = [stack EXCEPT ![c] = Append(@, Frame(call, segment, does, runs))]
                      /\ UNCHANGED disturbed
        /\ UNCHANGED <<sapi, module, isSwoole, requests, wild, shared, raised, bailed>>

\* Of which failures a plugin or hook takes notice.
NoticesFailure(call) ==
    \/ call.class \in {"PDO", "PDOStatement", "mysqli"}
    \/ call.class = None /\ call.method \in MysqliFunctions \union {"swoole_curl_exec"}
OfMysqli(call) == call.class = "mysqli" \/ (call.class = None /\ call.method \in MysqliFunctions)
ChecksErrors(call) ==
    IF call.class \in {"PDO", "PDOStatement"} THEN sky_pdo_check_errors(call)
    ELSE IF OfMysqli(call) THEN sky_plugin_mysqli_check_errors(call)
    ELSE {FALSE}

\* The call has been executed: its span, through the pointer the hook has
\* kept, gets its error and its end.
CallReturns(c, failed) ==
    LET frame == Last(stack[c])
        error == failed /\ NoticesFailure(frame.call)
        keys == {k \in Keys : segments[k].id = frame.segment}
    IN  /\ Alive /\ stack[c] # <<>> /\ ~IsHandler(frame)
        /\ \E dies \in IF frame.span # 0 /\ error THEN ChecksErrors(frame.call) ELSE {FALSE} :
              died' = IF dies THEN frame.call ELSE NoCall
        /\ stack' = [stack EXCEPT ![c] = Front(@)]
        /\ IF frame.span = 0 THEN UNCHANGED <<segments, wild>>
           ELSE /\ wild' = (wild \/ keys = {})
                /\ segments' = [k \in Keys |->
                     IF k \notin keys THEN segments[k]
                     ELSE [segments[k] EXCEPT !.spans[frame.span] =
                             [@ EXCEPT !.ended = TRUE, !.error = error, !.failed = failed]]]
        /\ disturbed' = Disturbed(frame.call, frame.runs, frame.throws)
        /\ UNCHANGED <<sapi, module, isSwoole, requests, calls, shared, raised, bailed>>

-----------------------------------------------------------------------------
\* sky_plugin_error_cb, with skywalking.error_handler_enable on: a log in the
\* first span, which is an error if error_reporting reports this type.
PhpError(isError) ==
    /\ Alive /\ module = "on" /\ \E c \in Coroutines : stack[c] # <<>>
    /\ segments' = IF ~isSwoole /\ segments[0] # NoSegment /\ ~segments[0].skip
                   THEN [segments EXCEPT ![0].error = @ \/ isError] ELSE segments
    /\ raised' = (sapi = "fpm" /\ (raised \/ isError))
    /\ UNCHANGED <<sapi, module, isSwoole, stack, requests, calls, died, disturbed, wild, shared, bailed>>

\* exit() or a fatal error in a php-fpm request: the calls never return.
Bailout ==
    /\ Alive /\ sapi = "fpm" /\ Len(stack[Main]) > 1
    /\ stack' = [stack EXCEPT ![Main] = <<Head(@)>>]
    /\ bailed' = TRUE
    /\ UNCHANGED <<sapi, module, tables, requests, calls, died, disturbed, wild, shared, raised>>

Next ==
    \/ ModuleInit \/ ModuleCleanup \/ FpmRequestBegins \/ Bailout
    \/ \E c \in Coroutines, key \in Fds : SwooleRequestBegins(c, key)
    \/ \E c \in Coroutines : RequestReturns(c)
    \/ \E c \in Coroutines, call \in Calls : CallBegins(c, call)
    \/ \E c \in Coroutines, failed \in BOOLEAN : CallReturns(c, failed)
    \/ \E isError \in BOOLEAN : PhpError(isError)

Spec == Init /\ [][Next]_vars

-----------------------------------------------------------------------------
\* The calls in which the plugins do harm by themselves, whatever goes on
\* around them.
Unconstructed(call) == call.class \in {"PDO", "PDOStatement", "Yar_Client"} /\ ~call.constructed
Unexplained(call) == call.class \in {"PDO", "PDOStatement"} /\ ~call.driverMessage
Unkeyed(call) == call.class = "Memcached" /\ call.key # "string"
StoresObject(call) == call.class \in {"Memcached", "Yar_Client"} /\ "object" \in call.values
Unaddressed(call) == call.method = "swoole_curl_exec" /\ call.scheme = None
OfGuzzle(call) == call.class \in GuzzleHandlers
Untyped(call) ==
    /\ \/ call.class = None /\ call.method \in MysqliFunctions
       \/ call.class = "Predis\\Connection\\AbstractConnection"
       \/ OfGuzzle(call)
    /\ ~call.typed
Unconnected(call) == OfMysqli(call) /\ ~call.connected

\* The process may die before the call, or after one that has failed.
KillsBefore(call) == Unconstructed(call) \/ Unkeyed(call) \/ Unaddressed(call) \/ Untyped(call)
KillsAfter(call) == Unexplained(call) \/ Unconnected(call)

\* The calls whose server the objects do not tell: a data source that leaves
\* it to the driver, a connection of predis over a socket, and a uri of another
\* scheme than HTTP without a port.
LeavesServerOpen(call) ==
    \/ call.class \in {"PDO", "PDOStatement"} /\ (call.host = None \/ call.port = 0)
    \/ call.class = "Predis\\Connection\\AbstractConnection" /\ call.socket
    \/ /\ call.class \in GuzzleHandlers \union {"Yar_Client"}
       /\ call.port = 0 /\ call.scheme \notin {"http", "https"}

\* External: what a client connects to when it is told no host or no port.
UsualHost(call) == IF call.class = "mysqli" \/ call.method \in MysqliFunctions THEN "127.0.0.1" ELSE None
UsualPort(call) ==
    CASE call.class = "PhpAmqpLib\\Channel\\AMQPChannel" -> 5672
      [] call.class \in GuzzleHandlers \union {"Yar_Client"} /\ call.scheme = "http"  -> 80
      [] call.class \in GuzzleHandlers \union {"Yar_Client"} /\ call.scheme = "https" -> 443
      [] OTHER -> 0

\* The calls whose objects tell the host and the port of a server.
TellsServer(call) ==
    \/ call.class \in {"PDO", "PDOStatement", "mysqli", "Predis\\Connection\\AbstractConnection",
                      "PhpAmqpLib\\Channel\\AMQPChannel", "Grpc\\BaseStub", "Yar_Client"}
    \/ call.class \in GuzzleHandlers
    \/ call.class = None /\ call.method \in MysqliFunctions \union {"swoole_curl_exec"}

\* What a script can call has a class or a name, and goes where its objects say.
ASSUME CallsAssumption ==
    \A call \in Calls :
        /\ call.class # None \/ call.method # None
        /\ TellsServer(call) /\ ~LeavesServerOpen(call) =>
              call.server = Peer(OrElse(call.host, None, UsualHost(call)),
                                 OrElse(call.port, 0, UsualPort(call)))

\* The agent is not seen by the script (README.md, Support List): every call
\* of it is executed, and once only, no call leaves an exception it would not
\* have left, and the process lives, but for the kinds of calls named above and
\* a start that failed: with an early return, or in the middle of ModuleInit;
\* and no freed memory is written unless two handlers share a connection.
CallsAreTransparent ==
    /\ \A d \in disturbed : \/ OfGuzzle(d.call) /\ d.runs = 0
                            \/ StoresObject(d.call) /\ d.runs = 1
    /\ \/ died \in {NoCall, InModule}
       \/ KillsBefore(died) \/ KillsAfter(died)
    /\ died = InModule => module # "on"
    /\ wild => shared

\* A segment that is sent has all its spans ended, each is an error exactly if
\* its call was one and is of a kind whose failures are noticed, and the first
\* span exactly if PHP reported an error (php-fpm only).  Not so for the calls
\* of guzzle that are not executed, after a bailout in the middle of calls, and
\* where two handlers share a connection.
SentSpansAreComplete ==
    [][\A c \in Coroutines, k \in Keys :
          (RequestReturns(c) /\ segments[k] # segments'[k] /\ ~segments[k].skip /\ ~shared /\ ~bailed) =>
              /\ sapi = "fpm" => segments[k].error = raised
              /\ \A span \in ToSet(segments[k].spans) :
                    /\ span.ended \/ OfGuzzle(span.call)
                    /\ span.error = (span.failed /\ NoticesFailure(span.call))]_vars

\* The plugins that do not ask whether the segment is skipped.
Unasking(call) ==
    \/ call.class \in {"Memcached", "Yar_Client", "Yar_Server"}
    \/ call.method = "swoole_curl_exec"

\* Nothing is recorded, and no header sent, of a request that the limiter
\* rejects, but for calls of the four plugins that do not ask.
UnsampledAreSilent ==
    \A k \in Keys : segments[k].skip =>
        \A span \in ToSet(segments[k].spans) : Unasking(span.call)

\* Whether a span with this peer, and a callee with or without the header,
\* lead to where the call goes.
Leads(call, peer, header) ==
    /\ \/ peer \in {NoPeer, call.server}
       \/ LeavesServerOpen(call)
       \/ Untyped(call)
       \/ call.class = "Memcached"
       \/ call.class = "Grpc\\BaseStub" /\ call.override # None
    /\ \/ call.class \in {"Grpc\\BaseStub", "Yar_Client"} \union GuzzleHandlers
       \/ call.method = "swoole_curl_exec"
       => \/ header
          \/ OfGuzzle(call) /\ (peer = NoPeer \/ call.request \notin GuzzleRequests)

\* A span that names a peer names the server its call goes to, and an HTTP or
\* RPC callee gets the header.  Not so for a data source that leaves its server
\* to the driver, predis over a socket, every memcached command, a function of
\* mysqli given no connection, an overridden host name of gRPC, a Yar uri of
\* another scheme without a port, and the header for requests of guzzle that are
\* not of its own two classes.
SpansLeadToTheServer ==
    \A k \in Keys : \A span \in ToSet(segments[k].spans) : Leads(span.call, span.peer, span.header)

=============================================================================
