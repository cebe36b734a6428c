------------------------------ MODULE Plugins ------------------------------
(***************************************************************************)
(* The plugins of the C++ agent, which config.m4 no longer builds: one     *)
(* operator for each plugin function of src/src/sky_*.cc, named as in the  *)
(* code.  Each takes an intercepted call and whether its segment is        *)
(* skipped, and tells what the plugin does before the call is executed.    *)
(*                                                                         *)
(* A call is a record of its class (None for a function), its method, the  *)
(* server it speaks to, and of what its plugin reads of the objects: the   *)
(* fields that a plugin's operator names.  A text is None and a number 0   *)
(* when it is not there.  Operation names and tags are left out.           *)
(***************************************************************************)
EXTENDS Naturals, Sequences

None == ""

Peer(host, port) == [host |-> host, port |-> port]
NoPeer == Peer(None, 0)

\* A call's typed is FALSE when its first argument is not of the type that PHP
\* would ask for: the plugins look at the arguments before PHP does.  One that
\* takes such an argument for an object reads whatever is there, which may kill
\* the process, and a peer that it makes of it has no meaning.
Stray == Peer(None, 65536)

\* What a plugin does: whether the process may die in it, the span it opens,
\* if any, with the peer and whether the callee gets the sw8 header, whether
\* it leaves the script an exception, and whether it has executed the call.
Does(opened) == [dies |-> {FALSE}, opened |-> opened, throws |-> FALSE, ran |-> FALSE]
Nothing == Does(<<>>)
Opens(peer) == Does(<<[peer |-> peer, header |-> FALSE]>>)
OpensWithHeader(peer) == Does(<<[peer |-> peer, header |-> TRUE]>>)
Dies == [Nothing EXCEPT !.dies = {TRUE}]
MayDie(does) == [does EXCEPT !.dies = BOOLEAN]

OrElse(value, missing, default) == IF value = missing THEN default ELSE value

-----------------------------------------------------------------------------
\* host and port of the data source, whatever its driver.
sky_pdo_dbh_peer(call) == Peer(OrElse(call.host, None, "not_found"), OrElse(call.port, 0, 3306))

PdoNames == {"exec", "query", "prepare", "commit", "begintransaction", "rollback"}

\* Mutant of sky_pdo: the skip of the segment is not asked.
PdoEvenSkipped(call, skip) ==
    IF call.class = "PDO" /\ call.method \in PdoNames /\ call.constructed
    THEN Opens(sky_pdo_dbh_peer(call)) ELSE Nothing

\* Names are compared as they are, and PHP's own are beginTransaction and
\* rollBack.  An object whose constructor has not run has neither a data source
\* nor a query string: a std::string is made of nullptr.
sky_pdo(call, skip) ==
    IF \/ call.class = "PDO" /\ call.method \notin PdoNames
       \/ call.class = "PDOStatement" /\ call.method # "execute"
       \/ skip
    THEN Nothing
    ELSE IF call.constructed THEN Opens(sky_pdo_dbh_peer(call)) ELSE Dies

\* The third place of errorInfo is null when the driver has no message, and
\* is read as a string all the same.
sky_pdo_check_errors(call) == IF call.driverMessage THEN {FALSE} ELSE BOOLEAN

sky_mysqli_peer(call) == Peer(OrElse(call.host, None, "127.0.0.1"), call.port)

MysqliFunctions == {"mysqli_query", "mysqli_autocommit", "mysqli_commit", "mysqli_rollback"}
MysqliNames == {"query", "autocommit", "commit", "rollback"} \union MysqliFunctions

\* The first argument of a function, if it is not null, is taken for a mysqli
\* object: the FALSE of a connection that failed too, and what the stack holds
\* where there is no argument.
sky_plugin_mysqli(call, skip) ==
    IF call.method \notin MysqliNames \/ skip THEN Nothing
    ELSE IF call.class = None /\ ~call.typed THEN MayDie(Opens(Stray))
    ELSE Opens(IF call.connected THEN sky_mysqli_peer(call) ELSE NoPeer)

\* External: an object without a connection has no error_list, and what is
\* read for it is taken for an array all the same.
sky_plugin_mysqli_check_errors(call) == IF call.connected THEN {FALSE} ELSE BOOLEAN

-----------------------------------------------------------------------------
\* The parameters have a host and a port, also where the connection is a socket.
sky_predis_peer(call) == IF call.parameters THEN Peer(call.host, call.port) ELSE NoPeer

sky_predis(call, skip) ==
    IF call.class # "Predis\\Connection\\AbstractConnection" \/ skip THEN Nothing
    ELSE IF ~call.typed THEN MayDie(Opens(NoPeer))
    ELSE Opens(sky_predis_peer(call))

sky_plugin_rabbit_mq_peer(call) == Peer(call.host, OrElse(call.port, 0, 5672))

sky_plugin_rabbit_mq(call, skip) ==
    IF call.method # "basic_publish" \/ skip THEN Nothing
    ELSE Opens(sky_plugin_rabbit_mq_peer(call))

\* The plugin executes the call itself, between adding the header to the
\* metadata and ending the span.  host is the stub's hostname.
GrpcNames == {"_simpleRequest", "_clientStreamRequest", "_serverStreamRequest", "_bidiRequest"}

sky_plugin_grpc(call, skip) ==
    IF call.method \notin GrpcNames \/ skip THEN Nothing
    ELSE [OpensWithHeader(Peer(OrElse(call.override, None, call.host), call.port)) EXCEPT !.ran = TRUE]

\* Mutant of GuzzlePort: the port of https is forgotten.
GuzzlePortHttp(call) == OrElse(call.port, 0, 80)
GuzzlePort(call) == OrElse(call.port, 0, IF call.scheme = "https" THEN 443 ELSE 80)

GuzzleRequests == {"GuzzleHttp\\Psr7\\Request", "GuzzleHttp\\Psr7\\ServerRequest"}

\* Only the plugin executes the call, and only on the way through: not in a
\* skipped segment, and neither without a uri nor with another scheme, where
\* it has opened a span.  The headers are reached in two classes only.
sky_plugin_hyperf_guzzle(call, skip) ==
    IF skip THEN Nothing
    ELSE IF ~call.typed THEN MayDie(Opens(NoPeer))
    ELSE IF call.scheme \notin {"http", "https"} THEN Opens(NoPeer)
    ELSE LET peer == Peer(call.host, GuzzlePort(call))
         IN  [(IF call.request \in GuzzleRequests THEN OpensWithHeader(peer) ELSE Opens(peer))
                EXCEPT !.ran = TRUE]

\* Whether the segment is skipped is not asked.  A handle without a url has
\* no scheme to look at, and neither has what is no handle: a null pointer is
\* read, or an object that is none.
sky_plugin_swoole_curl(call) ==
    [(CASE call.scheme = None -> MayDie(Nothing)
        [] call.scheme \in {"http", "https"} -> OpensWithHeader(Peer(call.host, call.port))
        [] OTHER -> Nothing) EXCEPT !.ran = TRUE]

-----------------------------------------------------------------------------
\* mecStrKeysCommands and, behind them, the rest of mecKeysCommands.  Names
\* are in lower case, as the plugin makes them.
KeyCommands ==
    {"set", "setbykey", "setmulti", "setmultibykey", "add", "addbykey", "replace", "replacebykey",
     "append", "appendbykey", "prepend", "prependbykey", "get", "getbykey", "getmulti",
     "getmultibykey", "getallkeys", "delete", "deletebykey", "deletemulti", "deletemultibykey",
     "increment", "incrementbykey", "decrement", "decrementbykey"}
MemcachedCommands == KeyCommands \union
    {"getstats", "ispersistent", "ispristine", "flush", "flushbuffers", "getdelayed",
     "getdelayedbykey", "fetch", "fetchall", "addserver", "addservers", "getoption", "setoption",
     "setoptions", "getresultcode", "getserverlist", "resetserverlist", "getversion", "quit",
     "setsaslauthdata", "touch", "touchbykey"}

\* The port is read of the zval of the host: it is the address of a string.
Address == 65536
sky_plugin_memcached_peer(call) == Peer(call.host, Address)

\* The first argument is read as a string whatever it is, and every argument
\* but an array is made a string, at which an object without __toString throws,
\* as one that an array holds may when it is encoded.
\* The segment's skip is not asked.
sky_plugin_memcached(call) ==
    IF call.method \notin MemcachedCommands THEN Nothing
    ELSE IF call.method \in KeyCommands /\ call.key # "string"
         THEN MayDie(Opens(NoPeer))
         ELSE [Opens(IF call.method \in KeyCommands THEN sky_plugin_memcached_peer(call) ELSE NoPeer)
                 EXCEPT !.throws = "object" \in call.values]

\* Yar's client: the port that the uri has, or the one of its scheme.
YarPort(call) == OrElse(call.port, 0, IF call.scheme = "http" THEN 80 ELSE 443)
YarPeer(call) == IF None \in {call.scheme, call.host} THEN NoPeer ELSE Peer(call.host, YarPort(call))

\* Neither asks for the segment's skip.  A client whose constructor has not run
\* has no uri, and what is there is read as a string.  An argument is made a
\* string as memcached's are, or encoded, at which an object may throw.
sky_plugin_yar_client(call) ==
    IF call.method # "__call" THEN Nothing
    ELSE IF ~call.constructed THEN MayDie(OpensWithHeader(NoPeer))
    ELSE [OpensWithHeader(YarPeer(call)) EXCEPT !.throws = "object" \in call.values]
sky_plugin_yar_server(call) ==
    IF call.method = "__construct" THEN Opens(NoPeer) ELSE Nothing

=============================================================================
