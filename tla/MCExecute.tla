----------------------------- MODULE MCExecute -----------------------------
(* A small instance of Execute: for each plugin the calls that take its      *)
(* different ways.                                                          *)
EXTENDS Execute

CONSTANTS host, proxy   \* the server every call speaks to, and another name

Call(class, method, port) ==
    [class |-> class, method |-> method, server |-> Peer(host, port), coroutine |-> FALSE]

Pdo(class, method, h, p, constructed, message) ==
    Call(class, method, 3306) @@
    [host |-> h, port |-> p, constructed |-> constructed, driverMessage |-> message]
PdoCalls ==
    {Pdo("PDO", "query", host, 3306, TRUE, TRUE), Pdo("PDO", "query", None, 0, TRUE, TRUE),
     Pdo("PDO", "beginTransaction", host, 0, TRUE, TRUE), Pdo("PDO", "commit", host, 0, FALSE, TRUE),
     Pdo("PDOStatement", "execute", host, 3306, TRUE, FALSE), Pdo("PDOStatement", "fetch", host, 3306, TRUE, TRUE)}

Mysqli(class, method, connected, typed) ==
    Call(class, method, 3306) @@
    [host |-> host, port |-> 3306, connected |-> connected, typed |-> typed]
MysqliCalls ==
    {Mysqli("mysqli", "query", TRUE, TRUE), Mysqli("mysqli", "ping", TRUE, TRUE),
     Mysqli(None, "mysqli_query", FALSE, TRUE), Mysqli(None, "mysqli_commit", TRUE, FALSE)}

Predis(class, port, typed) ==
    Call("Predis\\Connection\\" \o class, "executeCommand", port) @@
    [host |-> host, port |-> 6379, parameters |-> TRUE, socket |-> port = 0, typed |-> typed]
PredisCalls ==
    {Predis("AbstractConnection", 6379, TRUE), Predis("AbstractConnection", 0, TRUE),
     Predis("AbstractConnection", 6379, FALSE), Predis("Aggregate\\PredisCluster", 6379, TRUE)}

RabbitCalls ==
    {Call("PhpAmqpLib\\Channel\\AMQPChannel", "basic_publish", 5672) @@ [host |-> host, port |-> p] :
        p \in {0, 5672}}

GrpcCalls ==
    {Call("Grpc\\BaseStub", method, 50051) @@ [host |-> host, port |-> 50051, override |-> name] :
        method \in {"_bidiRequest", "getTarget"}, name \in {None, proxy}}

Guzzle(scheme, p, port, request, typed) ==
    [Call("Hyperf\\Guzzle\\CoroutineHandler", "__invoke", port) EXCEPT !.coroutine = TRUE] @@
    [scheme |-> scheme, host |-> host, port |-> p, request |-> request, typed |-> typed]
GuzzleCalls ==
    {Guzzle("http", 0, 80, "GuzzleHttp\\Psr7\\Request", TRUE),
     Guzzle("https", 0, 443, "GuzzleHttp\\Psr7\\Request", TRUE),
     Guzzle("https", 8443, 8443, "App\\Request", TRUE),
     Guzzle("ftp", 0, 21, "GuzzleHttp\\Psr7\\Request", TRUE), Guzzle(None, 0, 0, None, FALSE)}

SwooleCurlCalls ==
    {[Call(None, "swoole_curl_exec", 80) EXCEPT !.coroutine = TRUE] @@
        [scheme |-> scheme, host |-> host, port |-> 80] : scheme \in {"http", "ftp", None}}

Memcached(method, key, values) ==
    Call("Memcached", method, 11211) @@ [host |-> host, port |-> 11211, key |-> key, values |-> values]
MemcachedCalls ==
    {Memcached("get", "string", {}), Memcached("set", "string", {"object"}),
     Memcached("getmulti", "array", {}), Memcached("quit", "none", {})}

Yar(scheme, p, constructed, values) ==
    Call("Yar_Client", "__call", 80) @@
    [scheme |-> scheme, host |-> host, port |-> p, constructed |-> constructed, values |-> values]
YarCalls ==
    {Yar("http", 80, TRUE, {}), Yar("http", 0, TRUE, {"object"}), Yar("tcp", 80, TRUE, {}),
     Yar("tcp", 0, TRUE, {}), Yar(None, 0, FALSE, {})}
    \union {Call("Yar_Server", "__construct", 0)}

OtherCalls ==
    {[Call("Swoole\\Http\\Response", "status", 0) EXCEPT !.coroutine = TRUE] @@ [status |-> 500],
     Call("App", "run", 0)}

MCCalls == PdoCalls \union MysqliCalls \union PredisCalls \union RabbitCalls \union GrpcCalls
    \union GuzzleCalls \union SwooleCurlCalls \union MemcachedCalls \union YarCalls \union OtherCalls
=============================================================================
