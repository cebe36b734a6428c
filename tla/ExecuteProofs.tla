---------------------------- MODULE ExecuteProofs ----------------------------
(* The hooks of the former C++ agent, for any set of coroutines, connections   *)
(* and calls, and any number of requests and calls.  The first part shows of   *)
(* every plugin, whatever the call, how often the call runs, what it may       *)
(* break, and where its span leads; the second that every step keeps IInv; the *)
(* last is the rate limiter that picks the requests of this agent.             *)
EXTENDS Execute, RateLimiter, TLAPS, FiniteSetTheorems, WellFoundedInduction

\* What the properties ask of the answer of a plugin.
Opening(call, skip, opened) ==
    \/ opened = <<>>
    \/ \E peer, header : /\ opened = <<[peer |-> peer, header |-> header]>>
                         /\ Leads(call, peer, header)
                         /\ skip => Unasking(call)

Behaves(call, skip, does) ==
    /\ TRUE \in does.dies => KillsBefore(call)
    /\ does.throws = FALSE \/ (does.throws = TRUE /\ StoresObject(call))
    /\ Runs(call, does) = 1 \/ (Runs(call, does) = 0 /\ OfGuzzle(call))
    /\ Opening(call, skip, does.opened)

\* No name, the empty string, is none of the names the hooks compare with.
LEMMA NoneIsNoName ==
    /\ None \notin {"PDO", "PDOStatement", "mysqli", "Memcached", "Yar_Client",
                 "Yar_Server", "Swoole\\Http\\Response"}
    /\ None \notin {"Predis\\Connection\\AbstractConnection", "PhpAmqpLib\\Channel\\AMQPChannel",
                 "Grpc\\BaseStub"}
    /\ None \notin {"Hyperf\\Guzzle\\CoroutineHandler", "Hyperf\\Guzzle\\PoolHandler"}
    /\ None \notin {"http", "https"} /\ None \notin {"sky_module", "swoole_curl_exec"}
BY Zenon DEF None

\* Where a call goes that the objects tell the server of.
LEMMA Told ==
    ASSUME NEW call \in Calls, TellsServer(call), ~LeavesServerOpen(call)
    PROVE  call.server = Peer(OrElse(call.host, None, UsualHost(call)),
                              OrElse(call.port, 0, UsualPort(call)))
  BY CallsAssumption DEF CallsAssumption

\* A plugin's answer that only opens, field by field.
LEMMA DoesIs ==
    ASSUME NEW opened
    PROVE  /\ TRUE \notin Does(opened).dies /\ Does(opened).opened = opened
           /\ Does(opened).throws = FALSE /\ Does(opened).ran = FALSE
<1>1. TRUE \notin Does(opened).dies
  BY Zenon DEF Does
<1>2. QED
  BY <1>1 DEF Does

\* How often a call runs, with the two flags known.
LEMMA RunsCounts ==
    ASSUME NEW call, NEW does, NEW ran \in BOOLEAN, does.ran = ran,
           NEW after \in BOOLEAN, AfterExec(call, does) = after
    PROVE  Runs(call, does) = (IF ran THEN 1 ELSE 0) + (IF after THEN 1 ELSE 0)
BY Zenon DEF Runs

ByHook(call) ==
    \/ call.class = "Grpc\\BaseStub"
    \/ call.class \in GuzzleHandlers /\ call.method = "__invoke"
    \/ call.class = None /\ call.method = "swoole_curl_exec"

\* The hook executes every call but those of the three plugins that do.
LEMMA AfterOthers ==
    ASSUME NEW call, NEW does, ~ByHook(call)
    PROVE  AfterExec(call, does) = TRUE
BY NoneIsNoName DEF AfterExec, ByHook, GuzzleHandlers

\* A plugin that only opens a span, or does nothing, before the hook executes the call.
LEMMA OnlyOpens ==
    ASSUME NEW call, NEW skip, NEW opened, ~ByHook(call), Opening(call, skip, opened)
    PROVE  Behaves(call, skip, Does(opened))
<1>1. Runs(call, Does(opened)) = 1
  <2>1. Runs(call, Does(opened)) = (IF FALSE THEN 1 ELSE 0) + (IF TRUE THEN 1 ELSE 0)
    BY DoesIs, AfterOthers, RunsCounts, Zenon
  <2>2. QED
    BY <2>1
<1>2. Opening(call, skip, Does(opened).opened)
  BY DoesIs, Zenon
<1>3. QED
  BY <1>1, <1>2, DoesIs, Zenon DEF Behaves

\* A plugin that does nothing.
LEMMA QuietIsHarmless ==
    ASSUME NEW call, NEW skip, ~ByHook(call)
    PROVE  Behaves(call, skip, Nothing)
BY OnlyOpens DEF Nothing, Opening

\* One that opens a span, or none, and may die of what it reads.
LEMMA MayDieOpens ==
    ASSUME NEW call, NEW skip, NEW opened, ~ByHook(call), Opening(call, skip, opened),
           KillsBefore(call)
    PROVE  Behaves(call, skip, MayDie(Does(opened)))
<1> DEFINE does == MayDie(Does(opened))
<1>1. does.opened = opened /\ does.throws = FALSE /\ does.ran = FALSE
  BY DEF MayDie, Does
<1> HIDE DEF does
<1>2. Runs(call, does) = (IF FALSE THEN 1 ELSE 0) + (IF TRUE THEN 1 ELSE 0)
  BY <1>1, AfterOthers, RunsCounts, Zenon
<1>3. Runs(call, does) = 1
  BY <1>2
<1>4. Opening(call, skip, does.opened)
  BY <1>1, Zenon
<1>5. Behaves(call, skip, does)
  BY <1>1, <1>3, <1>4, Zenon DEF Behaves
<1>6. QED
  BY <1>5 DEF does

\* A span opened by a plugin that has asked for the segment's skip.
LEMMA AskedOpens ==
    ASSUME NEW call, NEW peer, ~ByHook(call), Leads(call, peer, FALSE)
    PROVE  Behaves(call, FALSE, Opens(peer))
BY OnlyOpens DEF Opens, Opening

\* The server that the objects tell, found by a plugin, is where the call goes.
LEMMA ServerLeads ==
    ASSUME NEW call, NEW peer, peer = call.server \/ peer = NoPeer,
           call.class \notin {"Grpc\\BaseStub", "Yar_Client"}, call.class \notin GuzzleHandlers,
           call.method # "swoole_curl_exec"
    PROVE  Leads(call, peer, FALSE)
BY DEF Leads

\* sky_pdo: a peer only if the data source has a host and a port.
LEMMA Pdo ==
    ASSUME NEW call \in Calls, NEW skip \in BOOLEAN, call.class \in {"PDO", "PDOStatement"}
    PROVE  Behaves(call, skip, sky_pdo(call, skip))
<1>0. call.class \notin GuzzleHandlers /\ ~ByHook(call)
  BY NoneIsNoName DEF GuzzleHandlers, ByHook
<1>1. Behaves(call, skip, Nothing)
  BY <1>0, OnlyOpens DEF Nothing, Opening
<1>2. ASSUME call.method # "swoole_curl_exec" PROVE Leads(call, sky_pdo_dbh_peer(call), FALSE)
  <2>1. CASE ~LeavesServerOpen(call)
    <3>1. call.host # None /\ call.port # 0
      BY <2>1 DEF LeavesServerOpen
    <3>2. sky_pdo_dbh_peer(call) = call.server
      BY <2>1, <3>1, Told DEF TellsServer, OrElse, sky_pdo_dbh_peer
    <3>3. QED
      BY <1>0, <1>2, <3>2 DEF Leads
  <2>2. QED
    BY <1>0, <1>2, <2>1 DEF Leads
<1>3. ASSUME ~skip, call.method # "swoole_curl_exec"
      PROVE  Behaves(call, skip, Opens(sky_pdo_dbh_peer(call)))
  BY <1>0, <1>2, <1>3, OnlyOpens DEF Opens, Opening
<1>4. ASSUME ~call.constructed PROVE Behaves(call, skip, Dies)
  <2>1. /\ Dies.throws = FALSE /\ Dies.ran = FALSE /\ Dies.opened = <<>>
    BY DEF Dies, Nothing, Does
  <2>2. Runs(call, Dies) = (IF FALSE THEN 1 ELSE 0) + (IF TRUE THEN 1 ELSE 0)
    BY <1>0, <2>1, AfterOthers, RunsCounts, Zenon
  <2>3. Runs(call, Dies) = 1
    BY <2>2
  <2>4. Opening(call, skip, Dies.opened)
    BY <2>1, Zenon DEF Opening
  <2>5. Unconstructed(call)
    BY <1>4 DEF Unconstructed
  <2>6. QED
    BY <2>1, <2>3, <2>4, <2>5, Zenon DEF Behaves, KillsBefore
<1>5. QED
  BY <1>1, <1>3, <1>4 DEF sky_pdo, PdoNames

\* sky_plugin_mysqli, for the class and for the functions.
LEMMA Mysqli ==
    ASSUME NEW call \in Calls, NEW skip \in BOOLEAN,
           call.class = "mysqli" \/ (call.class = None /\ call.method \in MysqliFunctions)
    PROVE  Behaves(call, skip, sky_plugin_mysqli(call, skip))
<1>0. call.class \notin GuzzleHandlers /\ ~ByHook(call)
  BY NoneIsNoName DEF GuzzleHandlers, ByHook, MysqliFunctions
<1>1. call.class \notin {"Yar_Client", "PhpAmqpLib\\Channel\\AMQPChannel", "PDO", "PDOStatement",
                       "Grpc\\BaseStub", "Predis\\Connection\\AbstractConnection"}
  BY NoneIsNoName
<1>2. ASSUME call.method \in MysqliNames PROVE Leads(call, sky_mysqli_peer(call), FALSE)
  <2>1. TellsServer(call) /\ ~LeavesServerOpen(call)
    BY <1>0, <1>1 DEF TellsServer, LeavesServerOpen
  <2>2. UsualPort(call) = 0
    BY <1>0, <1>1, SMT DEF UsualPort, GuzzleHandlers
  <2>3. UsualHost(call) = "127.0.0.1"
    BY DEF UsualHost
  <2>4. OrElse(call.port, 0, 0) = call.port
    BY DEF OrElse
  <2>5. sky_mysqli_peer(call) = call.server
    BY <2>1, <2>2, <2>3, <2>4, Told DEF sky_mysqli_peer
  <2>6. QED
    BY <1>0, <1>1, <1>2, <2>5, ServerLeads DEF MysqliNames, MysqliFunctions
<1>3. ASSUME call.method \in MysqliNames PROVE Leads(call, NoPeer, FALSE)
  BY <1>0, <1>1, <1>3, ServerLeads DEF MysqliNames, MysqliFunctions
<1>4. ASSUME call.method \in MysqliNames, ~skip
      PROVE  Behaves(call, skip, Opens(IF call.connected THEN sky_mysqli_peer(call) ELSE NoPeer))
  BY <1>0, <1>2, <1>3, <1>4, AskedOpens
<1>5. ASSUME call.class = None /\ ~call.typed, call.method \in MysqliNames, ~skip
      PROVE  Behaves(call, skip, MayDie(Opens(Stray)))
  <2>1. Untyped(call)
    BY <1>5, NoneIsNoName DEF Untyped
  <2>2. call.method # "swoole_curl_exec" /\ ~OfGuzzle(call)
    BY <1>0, <1>5 DEF MysqliNames, MysqliFunctions, OfGuzzle
  <2>3. Leads(call, Stray, FALSE)
    BY <1>0, <1>1, <2>1, <2>2, Zenon DEF Leads
  <2>4. Opening(call, skip, <<[peer |-> Stray, header |-> FALSE]>>)
    BY <1>5, <2>3, Zenon DEF Opening
  <2>5. QED
    BY <1>0, <2>1, <2>4, MayDieOpens, Zenon DEF Opens, KillsBefore
<1>6. Behaves(call, skip, Nothing)
  BY <1>0, QuietIsHarmless
<1>7. QED
  BY <1>4, <1>5, <1>6, Zenon DEF sky_plugin_mysqli

\* sky_predis, for every class with an executeCommand.
LEMMA Predis ==
    ASSUME NEW call \in Calls, NEW skip \in BOOLEAN, call.class # None, call.method = "executeCommand"
    PROVE  ~ByHook(call) => Behaves(call, skip, sky_predis(call, skip))
<1>0. ASSUME call.class = "Predis\\Connection\\AbstractConnection", NEW peer, LeavesServerOpen(call)
      PROVE  Leads(call, peer, FALSE)
  BY <1>0 DEF Leads, GuzzleHandlers
<1>1. ASSUME call.class = "Predis\\Connection\\AbstractConnection", ~LeavesServerOpen(call)
      PROVE  Leads(call, sky_predis_peer(call), FALSE)
  <2>0. call.class \notin GuzzleHandlers \union {"Yar_Client", "PhpAmqpLib\\Channel\\AMQPChannel"}
    BY <1>1 DEF GuzzleHandlers
  <2>1. TellsServer(call) /\ ~LeavesServerOpen(call)
    BY <1>1, <2>0 DEF TellsServer
  <2>2. UsualPort(call) = 0
    BY <1>1, <2>0, SMT DEF UsualPort, GuzzleHandlers
  <2>3. UsualHost(call) = None
    BY <1>1 DEF UsualHost, MysqliFunctions
  <2>4. OrElse(call.port, 0, 0) = call.port /\ OrElse(call.host, None, None) = call.host
    BY DEF OrElse
  <2>5. sky_predis_peer(call) = call.server \/ sky_predis_peer(call) = NoPeer
    BY <2>1, <2>2, <2>3, <2>4, Told DEF sky_predis_peer
  <2>6. QED
    BY <1>1, <2>0, <2>5, ServerLeads
<1>2. ASSUME call.class = "Predis\\Connection\\AbstractConnection", ~ByHook(call), ~skip
      PROVE  Behaves(call, skip, Opens(sky_predis_peer(call)))
  BY <1>0, <1>1, <1>2, AskedOpens
<1>3. ASSUME call.class = "Predis\\Connection\\AbstractConnection", ~ByHook(call), ~skip, ~call.typed
      PROVE  Behaves(call, skip, MayDie(Opens(NoPeer)))
  <2>1. Untyped(call)
    BY <1>3 DEF Untyped
  <2>2. Leads(call, NoPeer, FALSE)
    BY <1>3, ServerLeads DEF GuzzleHandlers
  <2>3. Opening(call, skip, <<[peer |-> NoPeer, header |-> FALSE]>>)
    BY <1>3, <2>2, Zenon DEF Opening
  <2>4. QED
    BY <1>3, <2>1, <2>3, MayDieOpens, Zenon DEF Opens, KillsBefore
<1>4. QED
  BY <1>2, <1>3, QuietIsHarmless, Zenon DEF sky_predis

\* sky_plugin_rabbit_mq, whose port is 5672 if the objects have none.
LEMMA RabbitMq ==
    ASSUME NEW call \in Calls, NEW skip \in BOOLEAN,
           call.class = "PhpAmqpLib\\Channel\\AMQPChannel", call.method \notin MysqliFunctions
    PROVE  Behaves(call, skip, sky_plugin_rabbit_mq(call, skip))
<1>0. call.class \notin GuzzleHandlers /\ ~ByHook(call)
  BY NoneIsNoName DEF GuzzleHandlers, ByHook
<1>1. ASSUME call.method = "basic_publish"
      PROVE  Leads(call, sky_plugin_rabbit_mq_peer(call), FALSE)
  <2>1. TellsServer(call) /\ ~LeavesServerOpen(call)
    BY <1>0 DEF TellsServer, LeavesServerOpen
  <2>2. UsualPort(call) = 5672
    BY <1>0, SMT DEF UsualPort, GuzzleHandlers
  <2>3. UsualHost(call) = None
    BY DEF UsualHost
  <2>4. OrElse(call.host, None, None) = call.host
    BY DEF OrElse
  <2>5. sky_plugin_rabbit_mq_peer(call) = call.server
    BY <2>1, <2>2, <2>3, <2>4, Told DEF sky_plugin_rabbit_mq_peer
  <2>6. \A peer : peer = call.server => Leads(call, peer, FALSE)
    BY <1>0, <1>1, ServerLeads
  <2>7. QED
    BY <2>5, <2>6, Zenon
<1>2. ASSUME call.method = "basic_publish"
      PROVE  Behaves(call, FALSE, Opens(sky_plugin_rabbit_mq_peer(call)))
  BY <1>0, <1>1, <1>2, AskedOpens, Zenon
<1>3. QED
  BY <1>0, <1>2, QuietIsHarmless, Zenon DEF sky_plugin_rabbit_mq

\* A plugin that executes the call itself, and the hook does not.
LEMMA RunsOnce ==
    ASSUME NEW call, NEW skip, NEW opened, Opening(call, skip, opened),
           AfterExec(call, [Does(opened) EXCEPT !.ran = TRUE]) = FALSE
    PROVE  Behaves(call, skip, [Does(opened) EXCEPT !.ran = TRUE])
<1> DEFINE does == [Does(opened) EXCEPT !.ran = TRUE]
<1>1. does.opened = opened /\ does.throws = FALSE /\ does.ran = TRUE
  BY DEF Does
<1>2. does.dies = Does(opened).dies
  BY DEF Does
<1>3. TRUE \notin does.dies
  BY <1>2, DoesIs, Zenon
<1> HIDE DEF does
<1>4. AfterExec(call, does) = FALSE
  BY Zenon DEF does
<1>5. Runs(call, does) = (IF TRUE THEN 1 ELSE 0) + (IF FALSE THEN 1 ELSE 0)
  BY <1>1, <1>4, RunsCounts, Zenon
<1>6. Runs(call, does) = 1
  BY <1>5
<1>7. Opening(call, skip, does.opened)
  BY <1>1, Zenon
<1>8. Behaves(call, skip, does)
  BY <1>1, <1>3, <1>6, <1>7, Zenon DEF Behaves
<1>9. QED
  BY <1>8, Zenon DEF does

\* sky_plugin_grpc executes the call itself exactly if it opens a span.
LEMMA Grpc ==
    ASSUME NEW call \in Calls, NEW skip \in BOOLEAN, call.class = "Grpc\\BaseStub"
    PROVE  /\ Behaves(call, skip, sky_plugin_grpc(call, skip))
           /\ Behaves(call, skip, Nothing)
<1> DEFINE peer == Peer(OrElse(call.override, None, call.host), call.port)
           opened == <<[peer |-> peer, header |-> TRUE]>>
<1>0. call.class \notin GuzzleHandlers \union {"Yar_Client", "PhpAmqpLib\\Channel\\AMQPChannel"}
  BY DEF GuzzleHandlers
<1>1. Behaves(call, skip, Nothing)
  <2>1. Nothing.opened = <<>> /\ Nothing.throws = FALSE /\ Nothing.ran = FALSE
    BY DEF Nothing, Does
  <2>2. AfterExec(call, Nothing) = TRUE
    BY <1>0, <2>1, NoneIsNoName DEF AfterExec, GuzzleHandlers
  <2>3. Runs(call, Nothing) = (IF FALSE THEN 1 ELSE 0) + (IF TRUE THEN 1 ELSE 0)
    BY <2>1, <2>2, RunsCounts, Zenon
  <2>4. Runs(call, Nothing) = 1
    BY <2>3
  <2>5. Opening(call, skip, Nothing.opened)
    BY <2>1, Zenon DEF Opening
  <2>6. TRUE \notin Nothing.dies
    BY DoesIs, Zenon DEF Nothing
  <2>7. QED
    BY <2>1, <2>4, <2>5, <2>6, Zenon DEF Behaves
<1>2. ASSUME call.method \in GrpcNames, ~skip
      PROVE  Behaves(call, skip, [Does(opened) EXCEPT !.ran = TRUE])
  <2>1. Leads(call, peer, TRUE)
    <3>1. CASE call.override = None
      <4>1. TellsServer(call) /\ ~LeavesServerOpen(call)
        BY <1>0 DEF TellsServer, LeavesServerOpen
      <4>2. UsualPort(call) = 0
        BY <1>0, SMT DEF UsualPort, GuzzleHandlers
      <4>3. UsualHost(call) = None
        BY <1>2 DEF UsualHost, GrpcNames, MysqliFunctions
      <4>4. OrElse(call.port, 0, 0) = call.port /\ OrElse(call.host, None, None) = call.host
        BY DEF OrElse
      <4>5. peer = call.server
        BY <3>1, <4>1, <4>2, <4>3, <4>4, Told DEF OrElse
      <4>6. QED
        BY <4>5, Zenon DEF Leads
    <3>2. CASE call.override # None
      BY <3>2, Zenon DEF Leads
    <3>3. QED
      BY <3>1, <3>2
  <2>2. Opening(call, skip, opened)
    BY <1>2, <2>1, Zenon DEF Opening
  <2>3. [Does(opened) EXCEPT !.ran = TRUE].opened # <<>>
    BY DEF Does
  <2>4. AfterExec(call, [Does(opened) EXCEPT !.ran = TRUE]) = FALSE
    <3>1. AfterExec(call, [Does(opened) EXCEPT !.ran = TRUE])
             = ([Does(opened) EXCEPT !.ran = TRUE].opened = <<>>)
      BY <1>0, NoneIsNoName, Zenon DEF AfterExec
    <3>2. QED
      BY <2>3, <3>1, Zenon
  <2>5. QED
    BY <2>2, <2>4, RunsOnce, Zenon
<1>3. [OpensWithHeader(peer) EXCEPT !.ran = TRUE] = [Does(opened) EXCEPT !.ran = TRUE]
  BY Zenon DEF OpensWithHeader
<1>4. QED
  BY <1>1, <1>2, <1>3, Zenon DEF sky_plugin_grpc

\* sky_plugin_hyperf_guzzle: the call is executed once or not at all.
LEMMA Guzzle ==
    ASSUME NEW call \in Calls, NEW skip \in BOOLEAN,
           call.class \in GuzzleHandlers, call.method = "__invoke"
    PROVE  Behaves(call, skip, sky_plugin_hyperf_guzzle(call, skip))
<1> DEFINE peer == Peer(call.host, GuzzlePort(call))
<1>0. /\ call.class \notin {"Grpc\\BaseStub", "PhpAmqpLib\\Channel\\AMQPChannel", "PDO", "PDOStatement",
                          "Predis\\Connection\\AbstractConnection"}
      /\ call.class # "mysqli" /\ call.class # None
  BY NoneIsNoName DEF GuzzleHandlers
<1>1. ASSUME NEW does PROVE AfterExec(call, does) = FALSE
  BY <1>0, Zenon DEF AfterExec
<1>2. ASSUME NEW opened, Opening(call, skip, opened) PROVE Behaves(call, skip, Does(opened))
  <2>1. Runs(call, Does(opened)) = (IF FALSE THEN 1 ELSE 0) + (IF FALSE THEN 1 ELSE 0)
    BY <1>1, DoesIs, RunsCounts, Zenon
  <2>2. Runs(call, Does(opened)) = 0
    BY <2>1
  <2>3. Opening(call, skip, Does(opened).opened)
    BY <1>2, DoesIs, Zenon
  <2>4. QED
    BY <2>2, <2>3, DoesIs, Zenon DEF Behaves, OfGuzzle
<1>3. Behaves(call, skip, Nothing)
  BY <1>2, Zenon DEF Nothing, Opening
<1>4. ASSUME ~skip PROVE Behaves(call, skip, Opens(NoPeer))
  <2>1. Leads(call, NoPeer, FALSE)
    BY Zenon DEF Leads, OfGuzzle
  <2>2. Opening(call, skip, <<[peer |-> NoPeer, header |-> FALSE]>>)
    BY <1>4, <2>1, Zenon DEF Opening
  <2>3. QED
    BY <1>2, <2>2, Zenon DEF Opens
<1>5. ASSUME ~skip, call.scheme \in {"http", "https"},
             NEW header \in BOOLEAN, header \/ call.request \notin GuzzleRequests
      PROVE  Behaves(call, skip, [Does(<<[peer |-> peer, header |-> header]>>) EXCEPT !.ran = TRUE])
  <2>1. TellsServer(call) /\ ~LeavesServerOpen(call)
    BY <1>0, <1>5 DEF TellsServer, LeavesServerOpen
  <2>2. call.scheme # "https" => call.scheme = "http"
    BY <1>5
  <2>3. UsualPort(call) = IF call.scheme = "https" THEN 443 ELSE 80
    BY <1>0, <2>2, SMT DEF UsualPort, GuzzleHandlers
  <2>4. UsualHost(call) = None
    BY <1>0 DEF UsualHost, MysqliFunctions
  <2>5. OrElse(call.host, None, None) = call.host
    BY DEF OrElse
  <2>6. peer = call.server
    BY <2>1, <2>3, <2>4, <2>5, Told DEF GuzzlePort
  <2>7. Leads(call, peer, header)
    BY <1>5, <2>6, Zenon DEF Leads, OfGuzzle
  <2>8. Opening(call, skip, <<[peer |-> peer, header |-> header]>>)
    BY <1>5, <2>7, Zenon DEF Opening
  <2>9. QED
    BY <1>1, <2>8, RunsOnce, Zenon
<1>6. ASSUME ~skip, ~call.typed PROVE Behaves(call, skip, MayDie(Opens(NoPeer)))
  <2> DEFINE does == MayDie(Opens(NoPeer))
  <2>1. /\ does.opened = <<[peer |-> NoPeer, header |-> FALSE]>>
        /\ does.throws = FALSE /\ does.ran = FALSE
    BY DEF MayDie, Opens, Does
  <2> HIDE DEF does
  <2>2. Runs(call, does) = (IF FALSE THEN 1 ELSE 0) + (IF FALSE THEN 1 ELSE 0)
    BY <1>1, <2>1, RunsCounts, Zenon
  <2>3. Runs(call, does) = 0
    BY <2>2
  <2>4. Leads(call, NoPeer, FALSE)
    BY Zenon DEF Leads, OfGuzzle
  <2>5. Opening(call, skip, does.opened)
    BY <1>6, <2>1, <2>4, Zenon DEF Opening
  <2>6. KillsBefore(call)
    BY <1>6, Zenon DEF KillsBefore, Untyped, OfGuzzle
  <2>7. Behaves(call, skip, does)
    BY <2>1, <2>3, <2>5, <2>6, Zenon DEF Behaves, OfGuzzle
  <2>8. QED
    BY <2>7 DEF does
<1>7. QED
  BY <1>3, <1>4, <1>5, <1>6, Zenon DEF sky_plugin_hyperf_guzzle, Opens, OpensWithHeader

\* sky_plugin_swoole_curl executes the transfer itself.
LEMMA SwooleCurl ==
    ASSUME NEW call \in Calls, NEW skip \in BOOLEAN,
           call.class = None, call.method = "swoole_curl_exec"
    PROVE  Behaves(call, skip, sky_plugin_swoole_curl(call))
<1> DEFINE peer == Peer(call.host, call.port)
           unaddressed == [MayDie(Nothing) EXCEPT !.ran = TRUE]
<1>0. call.class \notin GuzzleHandlers \union InternalClasses \union
          {"Grpc\\BaseStub", "PhpAmqpLib\\Channel\\AMQPChannel", "Predis\\Connection\\AbstractConnection"}
  BY NoneIsNoName DEF GuzzleHandlers, InternalClasses
<1>1. ASSUME NEW does PROVE AfterExec(call, does) = FALSE
  BY <1>0, Zenon DEF AfterExec
<1>2. Unasking(call)
  BY Zenon DEF Unasking
<1>3. ASSUME call.scheme = None PROVE Behaves(call, skip, unaddressed)
  <2>1. unaddressed.opened = <<>> /\ unaddressed.throws = FALSE /\ unaddressed.ran = TRUE
    BY DEF MayDie, Nothing, Does
  <2>2. KillsBefore(call)
    BY <1>3 DEF KillsBefore, Unaddressed
  <2>3. Runs(call, unaddressed) = (IF TRUE THEN 1 ELSE 0) + (IF FALSE THEN 1 ELSE 0)
    BY <1>1, <2>1, RunsCounts, Zenon
  <2>4. Runs(call, unaddressed) = 1
    BY <2>3
  <2>5. Opening(call, skip, unaddressed.opened)
    BY <2>1, Zenon DEF Opening
  <2>6. QED
    BY <2>1, <2>2, <2>4, <2>5, Zenon DEF Behaves
<1>4. ASSUME call.scheme \in {"http", "https"}
      PROVE  Behaves(call, skip, [OpensWithHeader(peer) EXCEPT !.ran = TRUE])
  <2>1. TellsServer(call) /\ ~LeavesServerOpen(call)
    BY <1>0 DEF TellsServer, LeavesServerOpen, InternalClasses
  <2>2. UsualPort(call) = 0
    BY <1>0, SMT DEF UsualPort, GuzzleHandlers, InternalClasses
  <2>3. UsualHost(call) = None
    BY <1>0 DEF UsualHost, MysqliFunctions, InternalClasses
  <2>4. OrElse(call.port, 0, 0) = call.port /\ OrElse(call.host, None, None) = call.host
    BY DEF OrElse
  <2>5. peer = call.server
    BY <2>1, <2>2, <2>3, <2>4, Told
  <2>6. Opening(call, skip, <<[peer |-> peer, header |-> TRUE]>>)
    BY <1>2, <2>5, Zenon DEF Opening, Leads
  <2>7. QED
    BY <1>1, <2>6, RunsOnce, Zenon DEF OpensWithHeader
<1>5. Behaves(call, skip, [Nothing EXCEPT !.ran = TRUE])
  BY <1>1, RunsOnce, Zenon DEF Nothing, Opening
<1>6. None \notin {"http", "https"}
  BY NoneIsNoName
<1>7. QED
  BY <1>3, <1>4, <1>5, <1>6, Zenon DEF sky_plugin_swoole_curl

\* sky_plugin_memcached: a key that is no string may be fatal, a value that
\* is an object leaves an exception.
LEMMA Memcached ==
    ASSUME NEW call \in Calls, NEW skip \in BOOLEAN, call.class = "Memcached"
    PROVE  Behaves(call, skip, sky_plugin_memcached(call))
<1>0. ~ByHook(call) /\ Unasking(call) /\ ~OfGuzzle(call)
  BY NoneIsNoName DEF ByHook, GuzzleHandlers, Unasking, OfGuzzle
<1>1. ASSUME NEW does, does.ran = FALSE PROVE Runs(call, does) = 1
  <2>1. Runs(call, does) = (IF FALSE THEN 1 ELSE 0) + (IF TRUE THEN 1 ELSE 0)
    BY <1>0, <1>1, AfterOthers, RunsCounts, Zenon
  <2>2. QED
    BY <2>1
<1>2. ASSUME NEW peer
      PROVE  call.method # "swoole_curl_exec" => Opening(call, skip, <<[peer |-> peer, header |-> FALSE]>>)
  BY <1>0 DEF Opening, Leads, GuzzleHandlers
<1>3. ASSUME NEW peer, call.method # "swoole_curl_exec" PROVE Behaves(call, skip, Opens(peer))
  BY <1>0, <1>2, <1>3, OnlyOpens, Zenon DEF Opens
<1>4. ASSUME NEW peer, NEW throws, throws => StoresObject(call), throws \in BOOLEAN,
             call.method # "swoole_curl_exec"
      PROVE  Behaves(call, skip, [Opens(peer) EXCEPT !.throws = throws])
  <2> DEFINE does == [Opens(peer) EXCEPT !.throws = throws]
  <2>1. /\ does.opened = <<[peer |-> peer, header |-> FALSE]>>
        /\ does.throws = throws /\ does.ran = FALSE /\ does.dies = Opens(peer).dies
    BY DEF Opens, Does
  <2>2. TRUE \notin does.dies
    BY <2>1, DoesIs, Zenon DEF Opens
  <2>3. does.throws = FALSE \/ (does.throws = TRUE /\ StoresObject(call))
    BY <1>4, <2>1, Zenon
  <2>4. Runs(call, does) = 1
    BY <1>1, <2>1, Zenon
  <2>5. Opening(call, skip, does.opened)
    BY <1>2, <1>4, <2>1, Zenon
  <2>6. QED
    BY <2>2, <2>3, <2>4, <2>5, Zenon DEF Behaves
<1>5. ASSUME call.key # "string", call.method # "swoole_curl_exec"
      PROVE  Behaves(call, skip, MayDie(Opens(NoPeer)))
  <2>1. KillsBefore(call)
    BY <1>5 DEF KillsBefore, Unkeyed
  <2>2. QED
    BY <1>0, <1>2, <1>5, <2>1, MayDieOpens, Zenon DEF Opens
<1>6. "swoole_curl_exec" \notin MemcachedCommands
  BY DEF MemcachedCommands, KeyCommands
<1>7. ASSUME call.method \in MemcachedCommands PROVE call.method # "swoole_curl_exec"
  BY <1>6, <1>7
<1>8. ("object" \in call.values) => StoresObject(call)
  BY DEF StoresObject
<1>9. Behaves(call, skip, Nothing)
  BY <1>0, QuietIsHarmless, Zenon
<1>10. CASE call.method \notin MemcachedCommands
  BY <1>9, <1>10, Zenon DEF sky_plugin_memcached
<1>11. CASE call.method \in MemcachedCommands /\ call.method \in KeyCommands /\ call.key # "string"
  BY <1>5, <1>7, <1>11, Zenon DEF sky_plugin_memcached
<1>12. CASE call.method \in MemcachedCommands /\ ~(call.method \in KeyCommands /\ call.key # "string")
  <2> DEFINE peer == IF call.method \in KeyCommands THEN sky_plugin_memcached_peer(call) ELSE NoPeer
             throws == "object" \in call.values
  <2>1. Behaves(call, skip, [Opens(peer) EXCEPT !.throws = throws])
    <3> HIDE DEF peer
    <3>1. throws \in BOOLEAN
      OBVIOUS
    <3> HIDE DEF throws
    <3>2. throws => StoresObject(call)
      BY <1>8 DEF throws
    <3>3. QED
      BY <1>4, <1>7, <1>12, <3>1, <3>2, Zenon
  <2>2. sky_plugin_memcached(call) = [Opens(peer) EXCEPT !.throws = throws]
    BY <1>12, Zenon DEF sky_plugin_memcached
  <2>3. QED
    BY <2>1, <2>2, Zenon
<1>13. QED
  BY <1>10, <1>11, <1>12

\* sky_plugin_yar_client: the port is that of the scheme if the uri has none.
LEMMA YarClient ==
    ASSUME NEW call \in Calls, NEW skip \in BOOLEAN, call.class = "Yar_Client"
    PROVE  Behaves(call, skip, sky_plugin_yar_client(call))
<1>0. ~ByHook(call) /\ Unasking(call) /\ call.class \notin GuzzleHandlers
  BY NoneIsNoName DEF ByHook, GuzzleHandlers, Unasking
<1>1. ASSUME call.method = "__call" PROVE Leads(call, YarPeer(call), TRUE)
  <2>1. CASE YarPeer(call) = NoPeer
    BY <2>1, Zenon DEF Leads
  <2>2. CASE LeavesServerOpen(call)
    BY <2>2, Zenon DEF Leads
  <2>3. CASE YarPeer(call) # NoPeer /\ ~LeavesServerOpen(call)
    <3>1. TellsServer(call)
      BY DEF TellsServer
    <3>2. UsualHost(call) = None
      BY <1>1 DEF UsualHost, MysqliFunctions
    <3>3. OrElse(call.host, None, None) = call.host
      BY DEF OrElse
    <3>4. OrElse(call.port, 0, UsualPort(call)) = YarPort(call)
      <4>1. CASE call.port # 0
        BY <4>1 DEF OrElse, YarPort
      <4>2. CASE call.port = 0
        <5>1. call.scheme \in {"http", "https"}
          BY <2>3, <4>2 DEF LeavesServerOpen
        <5>2. UsualPort(call) = IF call.scheme = "http" THEN 80 ELSE 443
          BY <1>0, <5>1, SMT DEF UsualPort, GuzzleHandlers
        <5>3. QED
          BY <5>2 DEF YarPort
      <4>3. QED
        BY <4>1, <4>2
    <3>5. YarPeer(call) = call.server
      BY <2>3, <3>1, <3>2, <3>3, <3>4, Told DEF YarPeer
    <3>6. QED
      BY <3>5, Zenon DEF Leads
  <2>4. QED
    BY <2>1, <2>2, <2>3
<1>2. ASSUME call.method = "__call", NEW throws \in BOOLEAN, throws => StoresObject(call)
      PROVE  Behaves(call, skip, [OpensWithHeader(YarPeer(call)) EXCEPT !.throws = throws])
  <2> DEFINE does == [OpensWithHeader(YarPeer(call)) EXCEPT !.throws = throws]
  <2>1. /\ does.opened = <<[peer |-> YarPeer(call), header |-> TRUE]>>
        /\ does.throws = throws /\ does.ran = FALSE /\ does.dies = OpensWithHeader(YarPeer(call)).dies
    BY DEF OpensWithHeader, Does
  <2>2. TRUE \notin does.dies
    BY <2>1, DoesIs, Zenon DEF OpensWithHeader
  <2>3. does.throws = FALSE \/ (does.throws = TRUE /\ StoresObject(call))
    BY <1>2, <2>1, Zenon
  <2> HIDE DEF does
  <2>4. Runs(call, does) = (IF FALSE THEN 1 ELSE 0) + (IF TRUE THEN 1 ELSE 0)
    BY <1>0, <2>1, AfterOthers, RunsCounts, Zenon
  <2>5. Runs(call, does) = 1
    BY <2>4
  <2>6. Opening(call, skip, does.opened)
    BY <1>0, <1>1, <1>2, <2>1, Zenon DEF Opening
  <2>7. Behaves(call, skip, does)
    BY <2>2, <2>3, <2>5, <2>6, Zenon DEF Behaves
  <2>8. QED
    BY <2>7 DEF does
<1>3. ASSUME call.method = "__call", ~call.constructed
      PROVE  Behaves(call, skip, MayDie(OpensWithHeader(NoPeer)))
  <2>1. KillsBefore(call)
    BY <1>3 DEF KillsBefore, Unconstructed
  <2>2. Opening(call, skip, <<[peer |-> NoPeer, header |-> TRUE]>>)
    BY <1>0, Zenon DEF Opening, Leads
  <2>3. QED
    BY <1>0, <2>1, <2>2, MayDieOpens, Zenon DEF OpensWithHeader
<1>4. CASE call.method # "__call"
  BY <1>0, <1>4, QuietIsHarmless, Zenon DEF sky_plugin_yar_client
<1>5. CASE call.method = "__call" /\ ~call.constructed
  BY <1>3, <1>5, Zenon DEF sky_plugin_yar_client
<1>6. CASE call.method = "__call" /\ call.constructed
  <2> DEFINE throws == "object" \in call.values
  <2>1. throws \in BOOLEAN /\ (throws => StoresObject(call))
    BY DEF StoresObject
  <2>2. sky_plugin_yar_client(call) = [OpensWithHeader(YarPeer(call)) EXCEPT !.throws = throws]
    BY <1>6, Zenon DEF sky_plugin_yar_client
  <2> HIDE DEF throws
  <2>3. QED
    BY <1>2, <1>6, <2>1, <2>2, Zenon
<1>7. QED
  BY <1>4, <1>5, <1>6

\* sky_plugin_yar_server has no peer.
LEMMA YarServer ==
    ASSUME NEW call \in Calls, NEW skip \in BOOLEAN, call.class = "Yar_Server"
    PROVE  Behaves(call, skip, sky_plugin_yar_server(call))
<1>0. ~ByHook(call) /\ Unasking(call)
  BY NoneIsNoName DEF ByHook, GuzzleHandlers, Unasking
<1>1. ASSUME call.method = "__construct" PROVE Leads(call, NoPeer, FALSE)
  BY <1>1, ServerLeads DEF GuzzleHandlers
<1>2. ASSUME call.method = "__construct" PROVE Behaves(call, skip, Opens(NoPeer))
  BY <1>0, <1>1, <1>2, OnlyOpens, Zenon DEF Opens, Opening
<1>3. QED
  BY <1>0, <1>2, QuietIsHarmless, Zenon DEF sky_plugin_yar_server

\* The plugin of the first hook, and of the second: the one of the class.
LEMMA InternalAnswers ==
    ASSUME NEW call, NEW skip
    PROVE  /\ call.class \in {"PDO", "PDOStatement"} => ByExecuteInternal(call, skip) = sky_pdo(call, skip)
           /\ call.class \in {"mysqli", None} => ByExecuteInternal(call, skip) = sky_plugin_mysqli(call, skip)
           /\ call.class = "Memcached" => ByExecuteInternal(call, skip) = sky_plugin_memcached(call)
           /\ call.class = "Yar_Client" => ByExecuteInternal(call, skip) = sky_plugin_yar_client(call)
           /\ call.class = "Yar_Server" => ByExecuteInternal(call, skip) = sky_plugin_yar_server(call)
           /\ (call.class \notin {"PDO", "PDOStatement", "Memcached", "Yar_Client", "Yar_Server"} /\
               call.class \notin {"mysqli", None}) => ByExecuteInternal(call, skip) = Nothing
<1>1. CASE call.class \in {"PDO", "PDOStatement"}
  <2>1. call.class \notin {"mysqli", None} /\ call.class \notin {"Memcached", "Yar_Client", "Yar_Server"}
    BY <1>1, NoneIsNoName
  <2>2. QED
    BY <1>1, <2>1, Zenon DEF ByExecuteInternal
<1>2. CASE call.class \in {"mysqli", None}
  <2>1. call.class \notin {"PDO", "PDOStatement"} /\ call.class \notin {"Memcached", "Yar_Client", "Yar_Server"}
    BY <1>2, NoneIsNoName
  <2>2. QED
    BY <1>2, <2>1, Zenon DEF ByExecuteInternal
<1>3. CASE call.class = "Memcached"
  <2>1. call.class \notin {"PDO", "PDOStatement"} /\ call.class \notin {"mysqli", None}
    BY <1>3, NoneIsNoName
  <2>2. QED
    BY <1>3, <2>1, Zenon DEF ByExecuteInternal
<1>4. CASE call.class = "Yar_Client"
  <2>1. call.class \notin {"PDO", "PDOStatement"} /\ call.class \notin {"mysqli", None}
    BY <1>4, NoneIsNoName
  <2>2. QED
    BY <1>4, <2>1, Zenon DEF ByExecuteInternal
<1>5. CASE call.class = "Yar_Server"
  <2>1. call.class \notin {"PDO", "PDOStatement"} /\ call.class \notin {"mysqli", None}
    BY <1>5, NoneIsNoName
  <2>2. QED
    BY <1>5, <2>1, Zenon DEF ByExecuteInternal
<1>6. CASE /\ call.class \notin {"PDO", "PDOStatement", "Memcached", "Yar_Client", "Yar_Server"}
           /\ call.class \notin {"mysqli", None}
  BY <1>6, Zenon DEF ByExecuteInternal
<1>7. QED
  BY <1>1, <1>2, <1>3, <1>4, <1>5, <1>6, Zenon

\* The same of the hook on user functions.
LEMMA ExAnswers ==
    ASSUME NEW call, NEW skip, ~(call.class # None /\ call.method = "executeCommand")
    PROVE  /\ call.class = "Grpc\\BaseStub" => ByExecuteEx(call, skip) = sky_plugin_grpc(call, skip)
           /\ call.class = "PhpAmqpLib\\Channel\\AMQPChannel" =>
                 ByExecuteEx(call, skip) = sky_plugin_rabbit_mq(call, skip)
           /\ (call.class \in GuzzleHandlers /\ call.method = "__invoke") =>
                 ByExecuteEx(call, skip) = sky_plugin_hyperf_guzzle(call, skip)
           /\ (call.class = None /\ call.method = "swoole_curl_exec") =>
                 ByExecuteEx(call, skip) = sky_plugin_swoole_curl(call)
           /\ (~ByHook(call) /\ call.class # "PhpAmqpLib\\Channel\\AMQPChannel") =>
                 ByExecuteEx(call, skip) = Nothing
<1> DEFINE grpc == call.class = "Grpc\\BaseStub"
           rabbit == call.class = "PhpAmqpLib\\Channel\\AMQPChannel"
           guzzle == call.class \in GuzzleHandlers
<1>1. CASE grpc
  <2>1. ~rabbit /\ ~guzzle /\ call.class # None
    BY <1>1, NoneIsNoName DEF GuzzleHandlers
  <2>2. QED
    BY <1>1, <2>1, Zenon DEF ByExecuteEx, ByHook
<1>2. CASE rabbit
  <2>1. ~grpc /\ ~guzzle /\ call.class # None
    BY <1>2, NoneIsNoName DEF GuzzleHandlers
  <2>2. QED
    BY <1>2, <2>1, Zenon DEF ByExecuteEx, ByHook
<1>3. CASE guzzle
  <2>1. ~grpc /\ ~rabbit /\ call.class # None
    BY <1>3, NoneIsNoName DEF GuzzleHandlers
  <2>2. QED
    BY <1>3, <2>1, Zenon DEF ByExecuteEx, ByHook
<1>4. CASE ~grpc /\ ~rabbit /\ ~guzzle
  BY <1>4, Zenon DEF ByExecuteEx, ByHook
<1>5. QED
  BY <1>1, <1>2, <1>3, <1>4, Zenon

\* Every plugin that the hook on internal functions calls behaves.
LEMMA Internal ==
    ASSUME NEW call \in Calls, NEW skip \in BOOLEAN, IsInternal(call)
    PROVE  Behaves(call, skip, ByExecuteInternal(call, skip))
<1>0. Behaves(call, skip, Nothing)
  <2>1. CASE call.class = "Grpc\\BaseStub"
    BY <2>1, Grpc
  <2>2. CASE call.class # "Grpc\\BaseStub"
    <3>1. ~ByHook(call)
      BY <2>2, NoneIsNoName DEF ByHook, IsInternal, InternalClasses, GuzzleHandlers, MysqliFunctions
    <3>2. QED
      BY <3>1, QuietIsHarmless, Zenon
  <2>3. QED
    BY <2>1, <2>2
<1>2. ASSUME call.class = None PROVE call.method \in MysqliFunctions
  BY <1>2, NoneIsNoName DEF IsInternal, InternalClasses
<1>3. call.class \in {"mysqli", None} => Behaves(call, skip, sky_plugin_mysqli(call, skip))
  <2>1. call.class \in {"mysqli", None} =>
           call.class = "mysqli" \/ (call.class = None /\ call.method \in MysqliFunctions)
    BY <1>2
  <2>2. QED
    BY <2>1, Mysqli, Zenon
<1>4. QED
  BY <1>0, <1>3, InternalAnswers, Pdo, Memcached, YarClient, YarServer, Zenon

\* Every plugin that the hook on user functions calls behaves.
LEMMA Ex ==
    ASSUME NEW call \in Calls, NEW skip \in BOOLEAN, ~IsInternal(call)
    PROVE  Behaves(call, skip, ByExecuteEx(call, skip))
<1>1. CASE call.class # None /\ call.method = "executeCommand"
  <2>1. ByExecuteEx(call, skip) = sky_predis(call, skip)
    BY <1>1, Zenon DEF ByExecuteEx
  <2>2. CASE call.class = "Grpc\\BaseStub"
    <3>1. sky_predis(call, skip) = Nothing
      BY <2>2 DEF sky_predis
    <3>2. QED
      BY <2>1, <2>2, <3>1, Grpc, Zenon
  <2>3. CASE call.class # "Grpc\\BaseStub"
    <3>1. ~ByHook(call)
      BY <1>1, <2>3 DEF ByHook
    <3>2. QED
      BY <1>1, <2>1, <3>1, Predis, Zenon
  <2>4. QED
    BY <2>2, <2>3
<1>2. CASE ~(call.class # None /\ call.method = "executeCommand")
  <2>2. call.method \notin MysqliFunctions
    BY Zenon DEF IsInternal
  <2>3. CASE call.class = "Grpc\\BaseStub"
    BY <1>2, <2>3, ExAnswers, Grpc, Zenon
  <2>4. CASE call.class = "PhpAmqpLib\\Channel\\AMQPChannel"
    BY <1>2, <2>2, <2>4, ExAnswers, RabbitMq, Zenon
  <2>5. CASE call.class \in GuzzleHandlers /\ call.method = "__invoke"
    BY <1>2, <2>5, ExAnswers, Guzzle, Zenon
  <2>6. CASE call.class = None /\ call.method = "swoole_curl_exec"
    BY <1>2, <2>6, ExAnswers, SwooleCurl, Zenon
  <2>7. CASE ~ByHook(call) /\ call.class # "PhpAmqpLib\\Channel\\AMQPChannel"
    BY <1>2, <2>7, ExAnswers, QuietIsHarmless, Zenon
  <2>8. QED
    BY <2>2, <2>3, <2>4, <2>5, <2>6, <2>7, Zenon DEF ByHook
<1>3. QED
  BY <1>1, <1>2

\* Whatever the call, the plugin that the hooks give it to behaves.
LEMMA PluginBehaves ==
    ASSUME NEW call \in Calls, NEW skip \in BOOLEAN
    PROVE  Behaves(call, skip, Plugin(call, skip))
BY Internal, Ex, Zenon DEF Plugin

-----------------------------------------------------------------------------
\* The fields of the records, in the set of all values that the calls give them.
Peers == {Plugin(call, skip).opened[1].peer : call \in Calls, skip \in BOOLEAN}
Headers == {Plugin(call, skip).opened[1].header : call \in Calls, skip \in BOOLEAN}
Statuses == {0} \union {call.status : call \in Calls}
Spans == [call : Calls, peer : Peers, header : Headers, ended : BOOLEAN,
          error : BOOLEAN, failed : BOOLEAN]
Segments == [id : Nat, skip : BOOLEAN, status : Statuses, error : BOOLEAN, spans : Seq(Spans)]
Frames == [key : Keys \union {-1}, flushes : BOOLEAN, call : Calls \union {NoCall}, segment : Nat,
           span : Nat, runs : {1}, throws : BOOLEAN]

TypeInv ==
    /\ sapi \in {"fpm", "swoole"} /\ module \in {"loaded", "on", "off", "down"}
    /\ isSwoole \in BOOLEAN /\ raised \in BOOLEAN
    /\ segments \in [Keys -> Segments]
    /\ stack \in [Coroutines -> Seq(Frames)]
    /\ requests \in Nat

\* A segment, but the empty one, has an id of its own, which has been given.
SegmentsInv ==
    \A k \in Keys :
        /\ segments[k].id <= requests
        /\ segments[k].id = 0 => segments[k] = NoSegment
        /\ segments[k].id # 0 => \A l \in Keys : segments[l].id = segments[k].id => l = k

\* php-fpm has one handler, at the bottom of one stack, and its segment is
\* flushed by it; with swoole the key of php-fpm is not used.
SapiInv ==
    IF sapi = "fpm"
    THEN /\ ~isSwoole
         /\ \A k \in Keys : segments[k].id # 0 => k = 0
         /\ \A c \in Coroutines : stack[c] # <<>> => c = Main
         /\ \A i \in DOMAIN stack[Main] : IsHandler(stack[Main][i]) <=> i = 1
         /\ stack[Main] # <<>> => stack[Main][1].key = 0
         /\ segments[0].id # 0 => stack[Main] # <<>> /\ stack[Main][1].flushes
    ELSE segments[0].id = 0

\* What a frame knows of its call and of its span.
FramesInv ==
    \A c \in Coroutines : \A i \in DOMAIN stack[c] :
        LET frame == stack[c][i]
        IN  IF IsHandler(frame) THEN frame.key \in Keys /\ frame.span = 0
            ELSE /\ frame.key = -1
                 /\ frame.throws => StoresObject(frame.call)
                 /\ frame.segment <= requests
                 /\ frame.span # 0 =>
                       /\ frame.segment # 0
                       /\ \A k \in Keys : segments[k].id = frame.segment =>
                             /\ frame.span \in DOMAIN segments[k].spans
                             /\ segments[k].spans[frame.span].call = frame.call

\* As long as no two handlers share a connection, a key is that of one
\* handler, and a frame's span is in the segment of a handler below it.
HandlersInv ==
    ~shared =>
        /\ \A c, d \in Coroutines : \A i \in DOMAIN stack[c], j \in DOMAIN stack[d] :
              (IsHandler(stack[c][i]) /\ IsHandler(stack[d][j]) /\ stack[c][i].key = stack[d][j].key)
              => c = d /\ i = j
        /\ \A c \in Coroutines : \A i \in DOMAIN stack[c] :
              stack[c][i].span # 0 =>
                 \E j \in 1..(i - 1) : /\ IsHandler(stack[c][j])
                                       /\ segments[stack[c][j].key].id = stack[c][i].segment

\* What the spans of a segment say.
SpansInv ==
    \A k \in Keys : \A i \in DOMAIN segments[k].spans :
        LET span == segments[k].spans[i]
        IN  /\ span.error = (span.failed /\ NoticesFailure(span.call))
            /\ ~shared /\ ~bailed =>
                  \/ span.ended
                  \/ OfGuzzle(span.call)
                  \/ \E c \in Coroutines : \E j \in DOMAIN stack[c] :
                        stack[c][j].span = i /\ stack[c][j].segment = segments[k].id

ErrorInv == sapi = "fpm" /\ segments[0].id # 0 /\ ~segments[0].skip => segments[0].error = raised

IInv ==
    /\ TypeInv /\ SegmentsInv /\ SapiInv /\ FramesInv /\ HandlersInv /\ SpansInv /\ ErrorInv
    /\ CallsAreTransparent /\ UnsampledAreSilent /\ SpansLeadToTheServer

-----------------------------------------------------------------------------
\* A nonempty set of numbers up to n has a greatest.
LEMMA GreatestOf ==
    ASSUME NEW n \in Nat, NEW S, S \subseteq 1..n, S # {}
    PROVE  Max(S) \in S /\ \A i \in S : Max(S) >= i
<1> DEFINE U == {i..n : i \in S}
<1>0. IsFiniteSet(0..n)
  BY FS_Interval
<1>1. U \subseteq SUBSET (0..n) /\ U # {}
  <2>1. \A i \in S : i..n \subseteq 0..n
    OBVIOUS
  <2>2. QED
    BY <2>1, Zenon
<1>2. IsWellFoundedOn(StrictSubsetOrdering(0..n), SUBSET (0..n))
  BY <1>0, FS_StrictSubsetOrderingWellFounded, FS_FiniteSubsetsOfFinite
<1>3. PICK low \in U : \A other \in U : <<other, low>> \notin StrictSubsetOrdering(0..n)
  <2> HIDE DEF U
  <2>1. QED
    BY <1>1, <1>2, WFMin, Zenon
<1>4. PICK i \in S : low = i..n
  OBVIOUS
<1>5. \A j \in S : i >= j
  <2> SUFFICES ASSUME NEW j \in S, i < j PROVE FALSE
    OBVIOUS
  <2>1. (j..n) \in U
    OBVIOUS
  <2>2. (j..n) \subseteq i..n /\ i \in i..n /\ i \notin j..n
    OBVIOUS
  <2>3. QED
    BY <1>1, <1>3, <1>4, <2>1, <2>2 DEF StrictSubsetOrdering
<1>6. \E m \in S : \A j \in S : m >= j
  BY <1>5
<1>7. QED
  BY <1>6, Zenon DEF Max

\* What the updates of the stacks do, place by place.
LEMMA Pushed ==
    ASSUME stack \in [Coroutines -> Seq(Frames)], NEW c \in Coroutines, NEW frame \in Frames,
           stack' = [stack EXCEPT ![c] = Append(@, frame)]
    PROVE  /\ stack' \in [Coroutines -> Seq(Frames)]
           /\ DOMAIN stack'[c] = 1..(Len(stack[c]) + 1) /\ stack'[c][Len(stack[c]) + 1] = frame
           /\ DOMAIN stack[c] = 1..Len(stack[c]) /\ Len(stack[c]) \in Nat
           /\ \A d \in Coroutines : d # c => stack'[d] = stack[d]
           /\ \A i \in DOMAIN stack[c] : stack'[c][i] = stack[c][i]
OBVIOUS

\* The same of a pop.
LEMMA Popped ==
    ASSUME stack \in [Coroutines -> Seq(Frames)], NEW c \in Coroutines, stack[c] # <<>>,
           stack' = [stack EXCEPT ![c] = Front(@)]
    PROVE  /\ stack' \in [Coroutines -> Seq(Frames)]
           /\ DOMAIN stack'[c] = 1..(Len(stack[c]) - 1) /\ Last(stack[c]) = stack[c][Len(stack[c])]
           /\ DOMAIN stack[c] = 1..Len(stack[c]) /\ Len(stack[c]) \in Nat \ {0}
           /\ \A d \in Coroutines : d # c => stack'[d] = stack[d]
           /\ \A i \in DOMAIN stack'[c] : stack'[c][i] = stack[c][i]
BY DEF Front, Last

\* The two records that stand for no call are none of the calls.
LEMMA HandlerOfModule ==
    /\ NoCall \notin Calls /\ NoCall # InModule
    /\ \A call : call = InModule => ~(KillsBefore(call) \/ KillsAfter(call))
BY CallsAssumption, NoneIsNoName DEF CallsAssumption, NoCall, InModule, KillsBefore, KillsAfter, Unconstructed, Unexplained, Unkeyed,
    Unaddressed, Untyped, Unconnected, OfMysqli, OfGuzzle, GuzzleHandlers

\* php-fpm's coroutine is one of them.
LEMMA MainIsOne == Main \in Coroutines
BY ExecuteAssumption DEF ExecuteAssumption, Main

\* The empty segment, field by field.
LEMMA NoSegmentIs ==
    /\ NoSegment.id = 0 /\ NoSegment.spans = <<>> /\ NoSegment.skip = FALSE /\ NoSegment.error = FALSE
    /\ NoSegment \in Segments
BY DEF NoSegment, Segment, Segments, Statuses

\* Before MINIT.
LEMMA InitEstablishes == Init => IInv
<1> SUFFICES ASSUME Init PROVE IInv
  OBVIOUS
<1>0. Statuses # {} /\ 0 \in Statuses
  BY DEF Statuses
<1>1. TypeInv
  <2>1. NoSegment \in Segments
    BY <1>0 DEF NoSegment, Segment, Segments
  <2>2. segments \in [Keys -> Segments]
    BY <2>1 DEF Init
  <2>3. stack \in [Coroutines -> Seq(Frames)]
    BY DEF Init
  <2>4. QED
    BY <2>2, <2>3 DEF Init, TypeInv
<1>2. SegmentsInv
  BY DEF Init, SegmentsInv, NoSegment, Segment
<1>3. SapiInv
  BY MainIsOne DEF Init, SapiInv, NoSegment, Segment, Keys
<1>4. FramesInv /\ HandlersInv
  BY DEF Init, FramesInv, HandlersInv
<1>5. SpansInv
  BY DEF Init, SpansInv, NoSegment, Segment
<1>6. ErrorInv
  BY DEF Init, ErrorInv, NoSegment, Segment, Keys
<1>7. CallsAreTransparent
  BY HandlerOfModule DEF Init, CallsAreTransparent
<1>8. UnsampledAreSilent
  BY DEF Init, UnsampledAreSilent, NoSegment, Segment
<1>9. SpansLeadToTheServer
  BY DEF Init, SpansLeadToTheServer, NoSegment, Segment, ToSet
<1>10. QED
  BY <1>1, <1>2, <1>3, <1>4, <1>5, <1>6, <1>7, <1>8, <1>9 DEF IInv

-----------------------------------------------------------------------------
\* MINIT only decides whether the agent is on.
LEMMA ModuleInitKeeps ==
    ASSUME IInv, ModuleInit
    PROVE  IInv'
<1>1. UNCHANGED <<sapi, isSwoole, segments, stack, requests, disturbed, wild, shared, raised, bailed>>
  BY DEF ModuleInit, tables, history
<1>2. TypeInv'
  BY <1>1 DEF IInv, TypeInv, ModuleInit
<1>3. SegmentsInv' /\ SapiInv' /\ FramesInv' /\ HandlersInv'
  BY <1>1 DEF IInv, SegmentsInv, SapiInv, FramesInv, HandlersInv, IsHandler
<1>4. SpansInv' /\ ErrorInv'
  BY <1>1 DEF IInv, SpansInv, ErrorInv
<1>5. CallsAreTransparent'
  BY <1>1, HandlerOfModule DEF IInv, CallsAreTransparent, ModuleInit, Alive
<1>6. UnsampledAreSilent' /\ SpansLeadToTheServer'
  BY <1>1 DEF IInv, UnsampledAreSilent, SpansLeadToTheServer
<1>7. QED
  BY <1>2, <1>3, <1>4, <1>5, <1>6 DEF IInv

\* A step that changes nothing.
LEMMA StutterKeeps ==
    ASSUME IInv, UNCHANGED vars
    PROVE  IInv'
<1>1. UNCHANGED <<sapi, module, isSwoole, segments, stack, requests, died, disturbed, wild, shared, raised, bailed>>
  BY DEF vars, tables, history
<1>2. TypeInv'
  BY <1>1 DEF IInv, TypeInv
<1>3. SegmentsInv' /\ SapiInv' /\ FramesInv' /\ HandlersInv'
  BY <1>1 DEF IInv, SegmentsInv, SapiInv, FramesInv, HandlersInv, IsHandler
<1>4. SpansInv' /\ ErrorInv'
  BY <1>1 DEF IInv, SpansInv, ErrorInv
<1>5. CallsAreTransparent'
  BY <1>1 DEF IInv, CallsAreTransparent
<1>6. UnsampledAreSilent' /\ SpansLeadToTheServer'
  BY <1>1 DEF IInv, UnsampledAreSilent, SpansLeadToTheServer
<1>7. QED
  BY <1>2, <1>3, <1>4, <1>5, <1>6 DEF IInv

\* MSHUTDOWN comes when no handler runs, and empties the table.
LEMMA ModuleCleanupKeeps ==
    ASSUME IInv, ModuleCleanup
    PROVE  IInv'
<1>1. /\ UNCHANGED <<sapi, isSwoole, stack, requests, disturbed, wild, shared, raised, bailed>>
      /\ \A c \in Coroutines : stack[c] = <<>>
      /\ Alive /\ 0 \in Keys
  BY DEF ModuleCleanup, history, Keys
<1>2. CASE module = "off" /\ died' = InModule /\ UNCHANGED <<module, segments>>
  <2>1. TypeInv'
    BY <1>1, <1>2 DEF IInv, TypeInv
  <2>2. SegmentsInv' /\ SapiInv' /\ FramesInv' /\ HandlersInv'
    BY <1>1, <1>2 DEF IInv, SegmentsInv, SapiInv, FramesInv, HandlersInv, IsHandler
  <2>3. SpansInv' /\ ErrorInv'
    BY <1>1, <1>2 DEF IInv, SpansInv, ErrorInv
  <2>4. CallsAreTransparent'
    BY <1>1, <1>2 DEF IInv, CallsAreTransparent
  <2>5. UnsampledAreSilent' /\ SpansLeadToTheServer'
    BY <1>1, <1>2 DEF IInv, UnsampledAreSilent, SpansLeadToTheServer
  <2>6. QED
    BY <2>1, <2>2, <2>3, <2>4, <2>5 DEF IInv
<1>3. CASE module' = "down" /\ segments' = [k \in Keys |-> NoSegment] /\ UNCHANGED died
  <2>0. NoSegment \in Segments
    BY DEF NoSegment, Segment, Segments, Statuses
  <2>1. TypeInv'
    BY <1>1, <1>3, <2>0 DEF IInv, TypeInv
  <2>2. SegmentsInv'
    BY <1>1, <1>3 DEF IInv, TypeInv, SegmentsInv, NoSegment, Segment
  <2>3. SapiInv'
    BY <1>1, <1>3 DEF IInv, SapiInv, IsHandler, NoSegment, Segment
  <2>4. FramesInv' /\ HandlersInv'
    BY <1>1, <1>3 DEF FramesInv, HandlersInv
  <2>5. SpansInv' /\ ErrorInv'
    BY <1>1, <1>3 DEF SpansInv, ErrorInv, NoSegment, Segment
  <2>6. CallsAreTransparent'
    BY <1>1, <1>3, HandlerOfModule DEF IInv, CallsAreTransparent, Alive
  <2>7. UnsampledAreSilent' /\ SpansLeadToTheServer'
    BY <1>1, <1>3 DEF UnsampledAreSilent, SpansLeadToTheServer, NoSegment, Segment, ToSet
  <2>8. QED
    BY <2>1, <2>2, <2>3, <2>4, <2>5, <2>6, <2>7 DEF IInv
<1>4. QED
  BY <1>2, <1>3 DEF ModuleCleanup

\* A bailout drops the calls above php-fpm's handler.
LEMMA BailoutKeeps ==
    ASSUME IInv, Bailout
    PROVE  IInv'
<1>1. /\ UNCHANGED <<sapi, module, isSwoole, segments, requests, died, disturbed, wild, shared, raised>>
      /\ sapi = "fpm" /\ Len(stack[Main]) > 1 /\ bailed'
      /\ stack' = [stack EXCEPT ![Main] = <<Head(@)>>]
  BY DEF Bailout, tables
<1>2. /\ stack' \in [Coroutines -> Seq(Frames)]
      /\ DOMAIN stack'[Main] = {1} /\ stack'[Main][1] = stack[Main][1]
      /\ \A c \in Coroutines : c # Main => stack'[c] = <<>>
      /\ stack[Main] # <<>> /\ stack'[Main] # <<>> /\ 1 \in DOMAIN stack[Main]
  BY <1>1, MainIsOne DEF IInv, TypeInv, SapiInv
<1>3. IsHandler(stack[Main][1])
  BY <1>1, <1>2 DEF IInv, SapiInv
<1>4. TypeInv'
  BY <1>1, <1>2 DEF IInv, TypeInv
<1>5. SegmentsInv'
  BY <1>1 DEF IInv, SegmentsInv
<1>6. SapiInv'
  BY <1>1, <1>2, MainIsOne DEF IInv, SapiInv, IsHandler
<1>7. FramesInv'
  BY SMTT(30), <1>1, <1>2, <1>3, MainIsOne DEF IInv, FramesInv, IsHandler
<1>8. HandlersInv'
  BY <1>1, <1>2, <1>3, MainIsOne DEF IInv, FramesInv, HandlersInv, IsHandler
<1>9. SpansInv' /\ ErrorInv'
  BY <1>1 DEF IInv, SpansInv, ErrorInv
<1>10. CallsAreTransparent'
  BY <1>1 DEF IInv, CallsAreTransparent
<1>11. UnsampledAreSilent' /\ SpansLeadToTheServer'
  BY <1>1 DEF IInv, UnsampledAreSilent, SpansLeadToTheServer
<1>12. QED
  BY <1>4, <1>5, <1>6, <1>7, <1>8, <1>9, <1>10, <1>11 DEF IInv

\* A reported error marks php-fpm's segment as it marks the history.
LEMMA PhpErrorKeeps ==
    ASSUME IInv, NEW isError \in BOOLEAN, PhpError(isError)
    PROVE  IInv'
<1> DEFINE marks == ~isSwoole /\ segments[0] # NoSegment /\ ~segments[0].skip
<1>1. /\ UNCHANGED <<sapi, module, isSwoole, stack, requests, died, disturbed, wild, shared, bailed>>
      /\ raised' = (sapi = "fpm" /\ (raised \/ isError))
      /\ segments' = IF marks THEN [segments EXCEPT ![0].error = @ \/ isError] ELSE segments
      /\ segments \in [Keys -> Segments] /\ 0 \in Keys
  BY DEF PhpError, IInv, TypeInv, Keys
<1>2. segments' \in [Keys -> Segments]
  BY <1>1 DEF Segments
<1>3. /\ \A k \in Keys : /\ segments'[k].id = segments[k].id /\ segments'[k].skip = segments[k].skip
                         /\ segments'[k].spans = segments[k].spans
                         /\ segments[k] = NoSegment => segments'[k] = NoSegment
      /\ segments'[0].error = IF marks THEN segments[0].error \/ isError ELSE segments[0].error
  BY <1>1 DEF Segments
<1>4. TypeInv'
  BY <1>1, <1>2 DEF IInv, TypeInv
<1>5. SegmentsInv'
  BY <1>1, <1>3 DEF IInv, SegmentsInv
<1>6. SapiInv'
  BY <1>1, <1>3 DEF IInv, SapiInv, IsHandler
<1>7. FramesInv'
  BY <1>1, <1>3 DEF IInv, FramesInv, IsHandler
<1>8. HandlersInv'
  BY <1>1, <1>3 DEF IInv, FramesInv, HandlersInv, IsHandler
<1>9. SpansInv'
  BY <1>1, <1>3 DEF IInv, SpansInv
<1>10. ErrorInv'
  BY <1>1, <1>3 DEF IInv, SapiInv, ErrorInv, NoSegment, Segment
<1>11. CallsAreTransparent'
  BY <1>1 DEF IInv, CallsAreTransparent
<1>12. UnsampledAreSilent'
  <2> SUFFICES ASSUME NEW k \in Keys, segments'[k].skip, NEW span \in ToSet(segments'[k].spans)
               PROVE  Unasking(span.call)
    BY Zenon DEF UnsampledAreSilent
  <2>1. segments'[k].skip = segments[k].skip /\ segments'[k].spans = segments[k].spans
    BY <1>3
  <2>2. QED
    BY <2>1, Zenon DEF IInv, UnsampledAreSilent
<1>13. SpansLeadToTheServer'
  <2> SUFFICES ASSUME NEW k \in Keys, NEW span \in ToSet(segments'[k].spans)
               PROVE  Leads(span.call, span.peer, span.header)
    BY Zenon DEF SpansLeadToTheServer
  <2>1. segments'[k].spans = segments[k].spans
    BY <1>3
  <2>2. QED
    BY <2>1, Zenon DEF IInv, SpansLeadToTheServer
<1>14. QED
  BY <1>4, <1>5, <1>6, <1>7, <1>8, <1>9, <1>10, <1>11, <1>12, <1>13 DEF IInv

\* The segment that a request finds or gets.
LEMMA Made ==
    ASSUME IInv, NEW key \in Keys, RequestInit(key), requests' = requests + 1
    PROVE  /\ segments' \in [Keys -> Segments]
           /\ \A k \in Keys : k # key => segments'[k] = segments[k]
           /\ segments[key].id # 0 => segments'[key] = segments[key]
           /\ segments[key].id = 0 =>
                 /\ segments'[key].id \in {0, requests'} /\ segments'[key].spans = <<>>
                 /\ segments'[key].error = FALSE
                 /\ segments'[key].id = 0 => segments'[key] = NoSegment
<1>1. segments[key].id = 0 <=> segments[key] = NoSegment
  BY DEF IInv, SegmentsInv, NoSegment, Segment
<1>2. requests' \in Nat \ {0}
  BY DEF IInv, TypeInv
<1>3. \A made : made \in {Segment(requests', skip) : skip \in BOOLEAN} \union {NoSegment} =>
          /\ made \in Segments /\ made.id \in {0, requests'} /\ made.spans = <<>> /\ made.error = FALSE
          /\ made.id = 0 => made = NoSegment
  <2> SUFFICES ASSUME NEW skip \in BOOLEAN
               PROVE  /\ Segment(requests', skip) \in Segments /\ NoSegment \in Segments
                      /\ Segment(requests', skip).id = requests' /\ Segment(requests', skip).spans = <<>>
                      /\ Segment(requests', skip).error = FALSE
                      /\ NoSegment.id = 0 /\ NoSegment.spans = <<>> /\ NoSegment.error = FALSE
    BY <1>2
  <2>2. NoSegment \in Segments /\ NoSegment.id = 0 /\ NoSegment.spans = <<>> /\ NoSegment.error = FALSE
    BY DEF NoSegment, Segment, Segments, Statuses
  <2>3. <<>> \in Seq(Spans) /\ 0 \in Statuses
    BY DEF Statuses
  <2>4. Segment(requests', skip) \in Segments
    BY <1>2, <2>3 DEF Segment, Segments
  <2>5. QED
    BY <2>2, <2>4 DEF Segment
<1>4. PICK made \in {Segment(requests', skip) : skip \in BOOLEAN} \union {NoSegment} :
          segments' = IF segments[key] = NoSegment THEN [segments EXCEPT ![key] = made] ELSE segments
  BY DEF RequestInit
<1>5. QED
  BY <1>1, <1>3, <1>4 DEF IInv, TypeInv

\* A handler's frame, field by field.
LEMMA HandlerIs ==
    ASSUME NEW key \in Keys, NEW flushes \in BOOLEAN
    PROVE  /\ Handler(key, flushes) \in Frames /\ IsHandler(Handler(key, flushes))
           /\ Handler(key, flushes).key = key /\ Handler(key, flushes).flushes = flushes
           /\ Handler(key, flushes).span = 0
BY DEF Handler, Frames, IsHandler

\* RINIT finds the stacks empty and, by SapiInv, no segment left.
LEMMA FpmRequestBeginsKeeps ==
    ASSUME IInv, FpmRequestBegins
    PROVE  IInv'
<1>1. /\ UNCHANGED <<sapi, module, isSwoole, disturbed, wild, shared>>
      /\ sapi = "fpm" /\ stack[Main] = <<>> /\ requests' = requests + 1 /\ requests \in Nat
      /\ ~bailed' /\ Alive /\ 0 \in Keys
  BY DEF FpmRequestBegins, IInv, TypeInv, SapiInv, Keys
<1>0. raised' = FALSE /\ raised' \in BOOLEAN /\ isSwoole' \in BOOLEAN
  BY Zenon DEF FpmRequestBegins, IInv, TypeInv
<1>2. (\A k \in Keys : segments[k].id = 0 /\ segments[k] = NoSegment) /\ \A c \in Coroutines : stack[c] = <<>>
  BY <1>1 DEF IInv, SapiInv, SegmentsInv
<1>3. CASE module = "off" /\ died' = InModule /\ UNCHANGED <<segments, stack>>
  <2>1. TypeInv'
    BY <1>0, <1>1, <1>3 DEF IInv, TypeInv
  <2>2. SegmentsInv'
    BY <1>1, <1>2, <1>3 DEF IInv, SegmentsInv, TypeInv
  <2>3. SapiInv' /\ HandlersInv'
    BY <1>1, <1>3 DEF IInv, SapiInv, HandlersInv, IsHandler
  <2>4. FramesInv'
    BY <1>2, <1>3 DEF FramesInv
  <2>5. SpansInv' /\ ErrorInv'
    BY <1>1, <1>2, <1>3 DEF SpansInv, ErrorInv, NoSegment, Segment
  <2>6. CallsAreTransparent'
    BY <1>1, <1>3 DEF IInv, CallsAreTransparent
  <2>7. UnsampledAreSilent' /\ SpansLeadToTheServer'
    BY <1>3 DEF IInv, UnsampledAreSilent, SpansLeadToTheServer
  <2>8. QED
    BY <2>1, <2>2, <2>3, <2>4, <2>5, <2>6, <2>7 DEF IInv
<1>4. CASE /\ RequestInit(0) /\ UNCHANGED died
           /\ stack' = [stack EXCEPT ![Main] = <<Handler(0, segments'[0] # NoSegment)>>]
  <2> DEFINE handler == Handler(0, segments'[0] # NoSegment)
  <2>1. /\ segments' \in [Keys -> Segments]
        /\ \A k \in Keys :
              /\ k # 0 => segments'[k] = segments[k]
              /\ segments'[k].id \in {0, requests'} /\ segments'[k].spans = <<>>
              /\ segments'[k].error = FALSE
              /\ segments'[k].id = 0 => segments'[k] = NoSegment
    <3>1. \A k \in Keys : /\ segments[k].id = 0 /\ segments[k].spans = <<>>
                          /\ segments[k].error = FALSE
      BY <1>2 DEF NoSegment, Segment
    <3>2. QED
      BY <1>1, <1>2, <1>4, <3>1, Made
  <2>2. /\ handler \in Frames /\ IsHandler(handler) /\ handler.key = 0 /\ handler.span = 0
        /\ handler.flushes <=> segments'[0] # NoSegment
    <3>1. (segments'[0] # NoSegment) \in BOOLEAN
      OBVIOUS
    <3>2. QED
      BY <1>1, <3>1, HandlerIs
  <2> HIDE DEF handler
  <2>3. /\ stack' \in [Coroutines -> Seq(Frames)]
        /\ DOMAIN stack'[Main] = {1} /\ stack'[Main][1] = handler
        /\ \A c \in Coroutines : c # Main => stack'[c] = <<>>
        /\ stack'[Main] # <<>>
    <3>1. stack' = [stack EXCEPT ![Main] = <<handler>>]
      BY <1>4 DEF handler
    <3>2. QED
      BY <1>2, <2>2, <3>1, MainIsOne DEF IInv, TypeInv
  <2>4. TypeInv'
    BY <1>0, <1>1, <2>1, <2>3 DEF IInv, TypeInv
  <2>5. SegmentsInv'
    BY <1>1, <1>2, <2>1 DEF SegmentsInv
  <2>6. SapiInv'
    <3>1. segments'[0].id # 0 => handler.flushes
      BY <2>2 DEF NoSegment, Segment
    <3>2. \A k \in Keys : segments'[k].id # 0 => k = 0
      BY <1>2, <2>1
    <3>3. ~isSwoole'
      BY <1>1 DEF IInv, SapiInv
    <3>4. QED
      BY <1>1, <2>2, <2>3, <3>1, <3>2, <3>3, MainIsOne DEF SapiInv, IsHandler
  <2>7. FramesInv'
    BY <1>1, <2>2, <2>3, MainIsOne DEF FramesInv, IsHandler
  <2>8. HandlersInv'
    BY <1>1, <2>2, <2>3, MainIsOne DEF HandlersInv, IsHandler
  <2>9. SpansInv' /\ ErrorInv'
    <3>1. SpansInv'
      BY <2>1 DEF SpansInv
    <3>2. segments'[0].error = raised'
      BY <1>0, <1>1, <2>1, Zenon
    <3>3. QED
      BY <3>1, <3>2, Zenon DEF ErrorInv
  <2>10. CallsAreTransparent'
    BY <1>1, <1>4 DEF IInv, CallsAreTransparent
  <2>11. UnsampledAreSilent' /\ SpansLeadToTheServer'
    BY <2>1 DEF UnsampledAreSilent, SpansLeadToTheServer, ToSet
  <2>12. QED
    BY <2>4, <2>5, <2>6, <2>7, <2>8, <2>9, <2>10, <2>11 DEF IInv
<1>5. QED
  BY <1>3, <1>4 DEF FpmRequestBegins

\* A handler of swoole puts a key on its stack that is another's only if shared.
LEMMA SwooleRequestBeginsKeeps ==
    ASSUME IInv, NEW c \in Coroutines, NEW key \in Fds, SwooleRequestBegins(c, key)
    PROVE  IInv'
<1> DEFINE handler == Handler(key, segments'[key] # NoSegment)
           top == Len(stack[c]) + 1
<1>1. /\ UNCHANGED <<sapi, module, died, disturbed, wild, bailed>>
      /\ sapi = "swoole" /\ requests' = requests + 1 /\ requests \in Nat
      /\ Alive /\ 0 \in Keys /\ key \in Keys /\ key # 0 /\ key # -1
      /\ ~shared' => ~shared /\ \A d \in Coroutines : \A i \in DOMAIN stack[d] : stack[d][i].key # key
  <2>1. ~shared' => ~shared /\ \A d \in Coroutines : \A frame \in ToSet(stack[d]) : frame.key # key
    BY Zenon DEF SwooleRequestBegins
  <2>2. ~shared' => ~shared /\ \A d \in Coroutines : \A i \in DOMAIN stack[d] : stack[d][i].key # key
    BY <2>1 DEF ToSet
  <2>3. UNCHANGED <<sapi, module, died, disturbed, wild, bailed>>
    BY DEF SwooleRequestBegins
  <2>4. QED
    BY <2>2, <2>3, ExecuteAssumption DEF ExecuteAssumption, SwooleRequestBegins, IInv, TypeInv, Keys
<1>2. /\ segments' \in [Keys -> Segments]
      /\ \A k \in Keys : k # key => segments'[k] = segments[k]
      /\ segments[key].id # 0 => segments'[key] = segments[key]
      /\ segments[key].id = 0 =>
            /\ segments'[key].id \in {0, requests'} /\ segments'[key].spans = <<>>
            /\ segments'[key].id = 0 => segments'[key] = NoSegment
  <2>1. CASE module = "off" /\ UNCHANGED segments
    BY <1>1, <2>1 DEF IInv, TypeInv, SegmentsInv, NoSegment, Segment
  <2>2. CASE RequestInit(key)
    BY <1>1, <2>2, Made
  <2>3. QED
    BY <2>1, <2>2 DEF SwooleRequestBegins, tables
<1>3. isSwoole' \in BOOLEAN /\ raised' \in BOOLEAN
  BY Zenon DEF SwooleRequestBegins, IInv, TypeInv, tables
<1>4. handler \in Frames /\ IsHandler(handler) /\ handler.key = key /\ handler.span = 0
  <2>1. (segments'[key] # NoSegment) \in BOOLEAN
    OBVIOUS
  <2>2. QED
    BY <1>1, <2>1, HandlerIs
<1>5. stack' = [stack EXCEPT ![c] = Append(@, handler)]
  BY DEF SwooleRequestBegins
<1> HIDE DEF handler
<1>6. /\ stack' \in [Coroutines -> Seq(Frames)]
      /\ DOMAIN stack'[c] = 1..top /\ stack'[c][top] = handler
      /\ DOMAIN stack[c] = 1..(top - 1) /\ top \in Nat \ {0}
      /\ \A d \in Coroutines : d # c => stack'[d] = stack[d]
      /\ \A i \in DOMAIN stack[c] : stack'[c][i] = stack[c][i]
  BY <1>4, <1>5, Pushed DEF IInv, TypeInv
<1> HIDE DEF top
\* A place of a stack is the new one, or what it was.
<1>7. ASSUME NEW d \in Coroutines, NEW i \in DOMAIN stack'[d]
      PROVE  \/ d = c /\ i = top /\ stack'[d][i] = handler
             \/ i \in DOMAIN stack[d] /\ stack'[d][i] = stack[d][i] /\ (d = c => i # top)
  BY <1>6, <1>7
<1>8. ASSUME NEW d \in Coroutines, NEW i \in DOMAIN stack[d]
      PROVE  i \in DOMAIN stack'[d] /\ stack'[d][i] = stack[d][i]
  BY <1>6, <1>8
<1>9. TypeInv'
  BY <1>1, <1>2, <1>3, <1>6 DEF IInv, TypeInv
<1>10. SegmentsInv'
  <2>1. \A k \in Keys : segments[k].id \in Nat /\ segments[k].id <= requests
    BY DEF IInv, TypeInv, SegmentsInv, Segments
  <2>2. \A k \in Keys : segments'[k].id <= requests' /\ (segments'[k].id = 0 => segments'[k] = NoSegment)
    BY <1>1, <1>2, <2>1 DEF IInv, SegmentsInv
  <2>3. \A k, l \in Keys : segments'[k].id # 0 /\ segments'[l].id = segments'[k].id => l = k
    BY <1>1, <1>2, <2>1 DEF IInv, SegmentsInv
  <2>4. QED
    BY <2>2, <2>3, Zenon DEF SegmentsInv
<1>11. SapiInv'
  BY <1>1, <1>2 DEF IInv, SapiInv
<1>12. FramesInv'
  <2> SUFFICES ASSUME NEW d \in Coroutines, NEW i \in DOMAIN stack'[d]
               PROVE  LET frame == stack'[d][i]
                      IN  IF IsHandler(frame) THEN frame.key \in Keys /\ frame.span = 0
                          ELSE /\ frame.key = -1
                               /\ frame.throws => StoresObject(frame.call)
                               /\ frame.segment <= requests'
                               /\ frame.span # 0 =>
                                     /\ frame.segment # 0
                                     /\ \A k \in Keys : segments'[k].id = frame.segment =>
                                           /\ frame.span \in DOMAIN segments'[k].spans
                                           /\ segments'[k].spans[frame.span].call = frame.call
    BY Zenon DEF FramesInv, IsHandler
  <2>1. CASE d = c /\ i = top /\ stack'[d][i] = handler
    BY <1>1, <1>4, <2>1
  <2>2. CASE i \in DOMAIN stack[d] /\ stack'[d][i] = stack[d][i]
    <3>1. ASSUME NEW k \in Keys, stack[d][i].segment # 0, stack[d][i].segment <= requests,
                 segments'[k].id = stack[d][i].segment
          PROVE  segments'[k] = segments[k]
      BY <1>1, <1>2, <3>1 DEF IInv, TypeInv, Frames
    <3>2. stack[d][i].segment <= requests => stack[d][i].segment <= requests'
      <4>1. stack[d][i] \in Frames
        BY <2>2 DEF IInv, TypeInv
      <4>2. QED
        BY <1>1, <4>1 DEF Frames
    <3>3. QED
      BY <2>2, <3>1, <3>2 DEF IInv, FramesInv
  <2>3. QED
    BY <1>7, <2>1, <2>2
<1>13. HandlersInv'
  <2> SUFFICES ASSUME ~shared' PROVE HandlersInv'
    BY DEF HandlersInv
  <2>1. ~shared /\ \A d \in Coroutines : \A i \in DOMAIN stack[d] : stack[d][i].key # key
    BY <1>1
  <2>2. \A d, e \in Coroutines : \A i \in DOMAIN stack'[d], j \in DOMAIN stack'[e] :
              (IsHandler(stack'[d][i]) /\ IsHandler(stack'[e][j]) /\ stack'[d][i].key = stack'[e][j].key)
              => d = e /\ i = j
    BY <1>4, <1>7, <2>1 DEF IInv, HandlersInv
  <2>3. ASSUME NEW d \in Coroutines, NEW i \in DOMAIN stack'[d], stack'[d][i].span # 0
        PROVE  \E j \in 1..(i - 1) : /\ IsHandler(stack'[d][j])
                                     /\ segments'[stack'[d][j].key].id = stack'[d][i].segment
    <3>1. i \in DOMAIN stack[d] /\ stack'[d][i] = stack[d][i]
      BY <1>4, <1>7, <2>3
    <3>2. PICK j \in 1..(i - 1) : /\ IsHandler(stack[d][j])
                                  /\ segments[stack[d][j].key].id = stack[d][i].segment
      BY <2>1, <2>3, <3>1 DEF IInv, HandlersInv
    <3>3. j \in DOMAIN stack[d]
      BY <3>1, <3>2 DEF IInv, TypeInv
    <3>4. stack[d][j].key \in Keys /\ stack[d][j].key # key
      BY <2>1, <3>2, <3>3 DEF IInv, FramesInv
    <3>5. QED
      BY <1>2, <1>8, <3>1, <3>2, <3>3, <3>4
  <2>4. QED
    BY <2>2, <2>3, Zenon DEF HandlersInv, IsHandler
<1>14. SpansInv'
  <2> SUFFICES ASSUME NEW k \in Keys, NEW i \in DOMAIN segments'[k].spans
               PROVE  LET span == segments'[k].spans[i]
                      IN  /\ span.error = (span.failed /\ NoticesFailure(span.call))
                          /\ ~shared' /\ ~bailed' =>
                                \/ span.ended
                                \/ OfGuzzle(span.call)
                                \/ \E d \in Coroutines : \E j \in DOMAIN stack'[d] :
                                      stack'[d][j].span = i /\ stack'[d][j].segment = segments'[k].id
    BY Zenon DEF SpansInv
  <2>1. segments'[k] = segments[k]
    BY <1>1, <1>2
  <2>2. shared => shared'
    BY <1>1
  <2>3. QED
    BY <1>1, <1>8, <2>1, <2>2 DEF IInv, SpansInv
<1>15. ErrorInv'
  BY <1>1 DEF ErrorInv
<1>16. CallsAreTransparent'
  BY <1>1 DEF IInv, CallsAreTransparent
<1>17. UnsampledAreSilent'
  BY <1>2 DEF IInv, UnsampledAreSilent, ToSet
<1>18. SpansLeadToTheServer'
  BY <1>2 DEF IInv, SpansLeadToTheServer, ToSet
<1>19. QED
  BY <1>9, <1>10, <1>11, <1>12, <1>13, <1>14, <1>15, <1>16, <1>17, <1>18 DEF IInv

\* A handler leaves, with its segment if it has to send it.
LEMMA RequestReturnsKeeps ==
    ASSUME IInv, NEW c \in Coroutines, RequestReturns(c)
    PROVE  IInv'
<1> DEFINE top == Len(stack[c])
           key == stack[c][top].key
<1>1. /\ UNCHANGED <<sapi, module, isSwoole, requests, died, disturbed, wild, shared, raised, bailed>>
      /\ Alive /\ 0 \in Keys
  BY DEF RequestReturns, history, Keys
<1>2. stack[c] # <<>> /\ stack' = [stack EXCEPT ![c] = Front(@)]
  BY DEF RequestReturns
<1>3. /\ stack' \in [Coroutines -> Seq(Frames)]
      /\ DOMAIN stack'[c] = 1..(top - 1) /\ Last(stack[c]) = stack[c][top]
      /\ DOMAIN stack[c] = 1..top /\ top \in Nat \ {0}
      /\ \A d \in Coroutines : d # c => stack'[d] = stack[d]
      /\ \A i \in DOMAIN stack'[c] : stack'[c][i] = stack[c][i]
  BY <1>2, Popped DEF IInv, TypeInv
<1>4. IsHandler(stack[c][top]) /\ key \in Keys /\ stack[c][top].span = 0 /\ top \in DOMAIN stack[c]
  BY <1>3 DEF RequestReturns, IInv, FramesInv
<1>5. /\ segments' \in [Keys -> Segments]
      /\ \A k \in Keys : segments'[k] \in {segments[k], NoSegment}
      /\ \A k \in Keys : k # key => segments'[k] = segments[k]
      /\ stack[c][top].flushes => segments'[key] = NoSegment
  <2>1. NoSegment \in Segments
    BY DEF NoSegment, Segment, Segments, Statuses
  <2>2. segments' = IF stack[c][top].flushes THEN [segments EXCEPT ![key] = NoSegment] ELSE segments
    BY <1>3 DEF RequestReturns
  <2>3. QED
    BY <1>4, <2>1, <2>2 DEF IInv, TypeInv
<1> HIDE DEF top, key
<1>6. ASSUME NEW d \in Coroutines, NEW i \in DOMAIN stack'[d]
      PROVE  i \in DOMAIN stack[d] /\ stack'[d][i] = stack[d][i] /\ (d = c => i # top)
  BY <1>3, <1>6
<1>7. ASSUME NEW d \in Coroutines, NEW i \in DOMAIN stack[d], d # c \/ i # top
      PROVE  i \in DOMAIN stack'[d] /\ stack'[d][i] = stack[d][i]
  BY <1>3, <1>7
<1>8. NoSegment.id = 0 /\ NoSegment.spans = <<>> /\ NoSegment.skip = FALSE
  BY DEF NoSegment, Segment
<1>9. TypeInv'
  BY <1>1, <1>3, <1>5 DEF IInv, TypeInv
<1>10. SegmentsInv'
  <2>1. \A k \in Keys : 0 <= requests
    BY DEF IInv, TypeInv
  <2>2. QED
    BY <1>1, <1>5, <1>8, <2>1 DEF IInv, SegmentsInv
<1>11. SapiInv'
  <2>1. CASE sapi = "fpm"
    <3>1. c = Main /\ top = 1 /\ key = 0 /\ stack'[c] = <<>>
      BY <1>2, <1>3, <1>4, <2>1, MainIsOne DEF IInv, SapiInv, key
    <3>2. \A k \in Keys : segments'[k].id = 0
      BY <1>4, <1>5, <1>8, <2>1, <3>1 DEF IInv, SapiInv
    <3>3. \A d \in Coroutines : stack'[d] = <<>>
      BY <1>3, <2>1, <3>1 DEF IInv, SapiInv
    <3>4. QED
      BY <1>1, <2>1, <3>2, <3>3, MainIsOne DEF IInv, SapiInv
  <2>2. CASE sapi # "fpm"
    BY <1>1, <1>5, <1>8, <2>2 DEF IInv, SapiInv
  <2>3. QED
    BY <2>1, <2>2
<1>12. FramesInv'
  <2>1. ASSUME NEW k \in Keys, NEW id, id # 0, segments'[k].id = id
        PROVE  segments'[k] = segments[k]
    BY <1>5, <1>8, <2>1
  <2>2. QED
    BY <1>1, <1>6, <2>1 DEF IInv, FramesInv, IsHandler
<1>13. HandlersInv'
  <2> SUFFICES ASSUME ~shared PROVE HandlersInv'
    BY <1>1 DEF HandlersInv
  <2>1. \A d, e \in Coroutines : \A i \in DOMAIN stack'[d], j \in DOMAIN stack'[e] :
              (IsHandler(stack'[d][i]) /\ IsHandler(stack'[e][j]) /\ stack'[d][i].key = stack'[e][j].key)
              => d = e /\ i = j
    BY <1>6 DEF IInv, HandlersInv
  <2>2. ASSUME NEW d \in Coroutines, NEW i \in DOMAIN stack'[d], stack'[d][i].span # 0
        PROVE  \E j \in 1..(i - 1) : /\ IsHandler(stack'[d][j])
                                     /\ segments'[stack'[d][j].key].id = stack'[d][i].segment
    <3>1. i \in DOMAIN stack[d] /\ stack'[d][i] = stack[d][i]
      BY <1>6
    <3>2. PICK j \in 1..(i - 1) : /\ IsHandler(stack[d][j])
                                  /\ segments[stack[d][j].key].id = stack[d][i].segment
      BY <2>2, <3>1 DEF IInv, HandlersInv
    <3>3. j \in DOMAIN stack'[d] /\ j \in DOMAIN stack[d] /\ (d = c => j # top)
      BY <1>3, <3>1 DEF IInv, TypeInv
    <3>4. stack[d][j].key \in Keys /\ stack[d][j].key # key
      BY <1>4, <3>2, <3>3 DEF IInv, FramesInv, HandlersInv, key
    <3>5. QED
      BY <1>5, <1>6, <3>1, <3>2, <3>3, <3>4
  <2>3. QED
    BY <2>1, <2>2, Zenon DEF HandlersInv, IsHandler
<1>14. SpansInv'
  <2> SUFFICES ASSUME NEW k \in Keys, NEW i \in DOMAIN segments'[k].spans
               PROVE  LET span == segments'[k].spans[i]
                      IN  /\ span.error = (span.failed /\ NoticesFailure(span.call))
                          /\ ~shared' /\ ~bailed' =>
                                \/ span.ended
                                \/ OfGuzzle(span.call)
                                \/ \E d \in Coroutines : \E j \in DOMAIN stack'[d] :
                                      stack'[d][j].span = i /\ stack'[d][j].segment = segments'[k].id
    BY Zenon DEF SpansInv
  <2>1. segments'[k] = segments[k]
    BY <1>5, <1>8
  <2>2. i # 0
    BY <2>1 DEF IInv, TypeInv, Segments
  <2>3. QED
    BY <1>1, <1>4, <1>7, <2>1, <2>2 DEF IInv, SpansInv
<1>15. ErrorInv'
  BY <1>1, <1>5, <1>8 DEF IInv, ErrorInv
<1>16. CallsAreTransparent'
  BY <1>1 DEF IInv, CallsAreTransparent
<1>17. UnsampledAreSilent'
  <2>1. \A k \in Keys : segments'[k].skip => segments'[k] = segments[k]
    BY <1>5, <1>8
  <2>2. QED
    BY <2>1 DEF IInv, UnsampledAreSilent
<1>18. SpansLeadToTheServer'
  <2>1. ToSet(NoSegment.spans) = {}
    BY <1>8 DEF ToSet
  <2>2. QED
    BY <1>5, <2>1 DEF IInv, SpansLeadToTheServer
<1>19. QED
  BY <1>9, <1>10, <1>11, <1>12, <1>13, <1>14, <1>15, <1>16, <1>17, <1>18 DEF IInv

\* A sequence with one place replaced.
LEMMA ReplacedInSeq ==
    ASSUME NEW S, NEW s \in Seq(S), NEW i, NEW v, s[i] \in S => v \in S
    PROVE  /\ [s EXCEPT ![i] = v] \in Seq(S) /\ DOMAIN [s EXCEPT ![i] = v] = DOMAIN s
<1>1. s \in [1..Len(s) -> S] /\ Len(s) \in Nat
  OBVIOUS
<1>2. i \in 1..Len(s) => s[i] \in S
  BY <1>1
<1>3. [s EXCEPT ![i] = v] \in [1..Len(s) -> S]
  BY <1>1, <1>2
<1>4. QED
  BY <1>1, <1>3

\* The segments after a call has returned, span by span.
LEMMA SpanEnds ==
    ASSUME IInv, NEW c \in Coroutines, NEW failed \in BOOLEAN, CallReturns(c, failed),
           NEW frame, frame = Last(stack[c]), frame \in Frames
    PROVE  /\ segments' \in [Keys -> Segments]
           /\ \A k \in Keys :
                 /\ segments'[k].id = segments[k].id /\ segments'[k].skip = segments[k].skip
                 /\ segments'[k].error = segments[k].error
                 /\ segments[k] = NoSegment => segments'[k] = NoSegment
                 /\ DOMAIN segments'[k].spans = DOMAIN segments[k].spans
                 /\ \A i \in DOMAIN segments[k].spans :
                       /\ segments'[k].spans[i].call = segments[k].spans[i].call
                       /\ segments'[k].spans[i].peer = segments[k].spans[i].peer
                       /\ segments'[k].spans[i].header = segments[k].spans[i].header
                       /\ IF frame.span # 0 /\ segments[k].id = frame.segment /\ i = frame.span
                          THEN /\ segments'[k].spans[i].ended
                               /\ segments'[k].spans[i].failed = failed
                               /\ segments'[k].spans[i].error = (failed /\ NoticesFailure(frame.call))
                          ELSE segments'[k].spans[i] = segments[k].spans[i]
<1> DEFINE error == failed /\ NoticesFailure(frame.call)
           keys == {k \in Keys : segments[k].id = frame.segment}
           Ended(span) == [span EXCEPT !.ended = TRUE, !.error = error, !.failed = failed]
<1>1. segments \in [Keys -> Segments]
  BY DEF IInv, TypeInv
<1>2. CASE frame.span = 0
  BY <1>1, <1>2 DEF CallReturns
<1>3. CASE frame.span # 0
  <2>1. segments' = [k \in Keys |-> IF k \notin keys THEN segments[k]
                                    ELSE [segments[k] EXCEPT !.spans[frame.span] =
                                            [@ EXCEPT !.ended = TRUE, !.error = error, !.failed = failed]]]
    BY <1>3, Zenon DEF CallReturns
  <2>2. ASSUME NEW span \in Spans
        PROVE  /\ Ended(span) \in Spans /\ Ended(span).call = span.call /\ Ended(span).peer = span.peer
               /\ Ended(span).header = span.header /\ Ended(span).ended = TRUE
               /\ Ended(span).failed = failed /\ Ended(span).error = error
    <3>1. error \in BOOLEAN
      BY Zenon DEF NoticesFailure
    <3> HIDE DEF error
    <3>2. QED
      BY <3>1 DEF Spans
  <2> HIDE DEF error
  <2>3. ASSUME NEW k \in Keys
        PROVE  /\ segments'[k] \in Segments
               /\ segments'[k].id = segments[k].id /\ segments'[k].skip = segments[k].skip
               /\ segments'[k].error = segments[k].error
               /\ DOMAIN segments'[k].spans = DOMAIN segments[k].spans
               /\ IF k \in keys
                  THEN segments'[k].spans = [segments[k].spans EXCEPT ![frame.span] = Ended(@)]
                  ELSE segments'[k] = segments[k]
    <3>1. CASE k \notin keys
      BY <1>1, <2>1, <3>1
    <3>2. CASE k \in keys
      <4> DEFINE spans == [segments[k].spans EXCEPT ![frame.span] = Ended(@)]
      <4>1. segments'[k] = [segments[k] EXCEPT !.spans = spans]
        BY <2>1, <3>2, Zenon
      <4>2. segments[k] \in Segments /\ segments[k].spans \in Seq(Spans)
        BY <1>1 DEF Segments
      <4>3. spans \in Seq(Spans) /\ DOMAIN spans = DOMAIN segments[k].spans
        BY <2>2, <4>2, ReplacedInSeq, Zenon
      <4> HIDE DEF spans
      <4>4. QED
        BY <3>2, <4>1, <4>2, <4>3 DEF Segments, spans
    <3>3. QED
      BY <3>1, <3>2
  <2>4. segments' \in [Keys -> Segments]
    <3>1. segments' = [k \in Keys |-> segments'[k]]
      BY <2>1
    <3>2. QED
      BY <2>3, <3>1
  <2>5. ASSUME NEW k \in Keys, NEW i \in DOMAIN segments[k].spans
        PROVE  /\ segments'[k].spans[i].call = segments[k].spans[i].call
               /\ segments'[k].spans[i].peer = segments[k].spans[i].peer
               /\ segments'[k].spans[i].header = segments[k].spans[i].header
               /\ IF frame.span # 0 /\ segments[k].id = frame.segment /\ i = frame.span
                  THEN /\ segments'[k].spans[i].ended
                       /\ segments'[k].spans[i].failed = failed
                       /\ segments'[k].spans[i].error = error
                  ELSE segments'[k].spans[i] = segments[k].spans[i]
    <3>1. segments[k].spans[i] \in Spans
      BY <1>1, <2>5 DEF Segments
    <3>2. segments'[k].spans[i] = IF k \in keys /\ i = frame.span
                                  THEN Ended(segments[k].spans[i]) ELSE segments[k].spans[i]
      <4> HIDE DEF Ended
      <4>1. QED
        BY <2>3, <2>5
    <3>3. CASE k \in keys /\ i = frame.span
      <4> HIDE DEF Ended
      <4>1. segments'[k].spans[i] = Ended(segments[k].spans[i])
        BY <3>2, <3>3
      <4>2. QED
        BY <1>3, <2>2, <3>1, <3>3, <4>1, ZenonT(60)
    <3>4. CASE ~(k \in keys /\ i = frame.span)
      BY <3>2, <3>4
    <3>5. QED
      BY <3>3, <3>4
  <2>6. ASSUME NEW k \in Keys, segments[k] = NoSegment PROVE segments'[k] = NoSegment
    <3>0. Len(stack[c]) \in DOMAIN stack[c] /\ frame = stack[c][Len(stack[c])] /\ ~IsHandler(frame)
      <4>1. stack[c] # <<>> /\ ~IsHandler(frame)
        BY Zenon DEF CallReturns
      <4>2. QED
        BY <4>1 DEF IInv, TypeInv, Last
    <3>1. frame.segment # 0
      BY <1>3, <3>0 DEF IInv, FramesInv
    <3>2. k \notin keys
      BY <2>6, <3>1 DEF NoSegment, Segment
    <3>3. QED
      BY <2>3, <2>6, <3>2
  <2>7. QED
    BY <2>3, <2>4, <2>5, <2>6 DEF error
<1>4. QED
  BY <1>2, <1>3

\* A call returns: its span is in the segment of its handler, and ends there.
LEMMA CallReturnsKeeps ==
    ASSUME IInv, NEW c \in Coroutines, NEW failed \in BOOLEAN, CallReturns(c, failed)
    PROVE  IInv'
<1> DEFINE top == Len(stack[c])
           frame == stack[c][top]
<1>1. /\ UNCHANGED <<sapi, module, isSwoole, requests, shared, raised, bailed>>
      /\ Alive /\ 0 \in Keys
  BY DEF CallReturns, Keys
<1>2. stack[c] # <<>> /\ stack' = [stack EXCEPT ![c] = Front(@)]
  BY DEF CallReturns
<1>3. /\ stack' \in [Coroutines -> Seq(Frames)]
      /\ DOMAIN stack'[c] = 1..(top - 1) /\ Last(stack[c]) = frame
      /\ DOMAIN stack[c] = 1..top /\ top \in Nat \ {0}
      /\ \A d \in Coroutines : d # c => stack'[d] = stack[d]
      /\ \A i \in DOMAIN stack'[c] : stack'[c][i] = stack[c][i]
  BY <1>2, Popped DEF IInv, TypeInv
<1>4. /\ ~IsHandler(frame) /\ frame \in Frames /\ top \in DOMAIN stack[c]
      /\ frame.call \in Calls /\ frame.runs = 1 /\ frame.throws \in BOOLEAN
  <2>1. ~IsHandler(Last(stack[c]))
    BY Zenon DEF CallReturns
  <2>2. top \in DOMAIN stack[c] /\ frame \in Frames
    BY <1>3 DEF IInv, TypeInv
  <2>3. QED
    BY <1>3, <2>1, <2>2 DEF Frames, IsHandler
<1> HIDE DEF top, frame
<1>5. /\ segments' \in [Keys -> Segments]
      /\ \A k \in Keys :
            /\ segments'[k].id = segments[k].id /\ segments'[k].skip = segments[k].skip
            /\ segments'[k].error = segments[k].error
            /\ segments[k] = NoSegment => segments'[k] = NoSegment
            /\ DOMAIN segments'[k].spans = DOMAIN segments[k].spans
            /\ \A i \in DOMAIN segments[k].spans :
                  /\ segments'[k].spans[i].call = segments[k].spans[i].call
                  /\ segments'[k].spans[i].peer = segments[k].spans[i].peer
                  /\ segments'[k].spans[i].header = segments[k].spans[i].header
                  /\ IF frame.span # 0 /\ segments[k].id = frame.segment /\ i = frame.span
                     THEN /\ segments'[k].spans[i].ended
                          /\ segments'[k].spans[i].failed = failed
                          /\ segments'[k].spans[i].error = (failed /\ NoticesFailure(frame.call))
                     ELSE segments'[k].spans[i] = segments[k].spans[i]
  <2>1. frame = Last(stack[c]) /\ frame \in Frames
    BY <1>3, <1>4
  <2>2. QED
    BY <2>1, SpanEnds
<1>6. ASSUME NEW d \in Coroutines, NEW i \in DOMAIN stack'[d]
      PROVE  i \in DOMAIN stack[d] /\ stack'[d][i] = stack[d][i]
  BY SMTT(30), <1>3, <1>6
<1>7. ASSUME NEW d \in Coroutines, NEW i \in DOMAIN stack[d], d # c \/ i # top
      PROVE  i \in DOMAIN stack'[d] /\ stack'[d][i] = stack[d][i]
  BY <1>3, <1>7
<1>8. ~shared /\ frame.span # 0 => \E k \in Keys : segments[k].id = frame.segment
  <2> SUFFICES ASSUME ~shared, frame.span # 0 PROVE \E k \in Keys : segments[k].id = frame.segment
    OBVIOUS
  <2>1. PICK j \in 1..(top - 1) : /\ IsHandler(stack[c][j])
                                  /\ segments[stack[c][j].key].id = frame.segment
    BY <1>4 DEF IInv, HandlersInv, frame
  <2>2. stack[c][j].key \in Keys
    BY <1>3, <2>1 DEF IInv, FramesInv
  <2>3. QED
    BY <2>1, <2>2
<1>9. TypeInv'
  BY <1>1, <1>3, <1>5 DEF IInv, TypeInv
<1>10. SegmentsInv'
  BY <1>1, <1>5, NoSegmentIs DEF IInv, SegmentsInv
<1>11. SapiInv'
  <2>1. CASE sapi = "fpm"
    <3>1. c = Main /\ top # 1
      BY <1>2, <1>4, <2>1 DEF IInv, SapiInv, frame
    <3>2. stack'[Main] # <<>> /\ stack'[Main][1] = stack[Main][1] /\ 1 \in DOMAIN stack'[Main]
      BY <1>3, <3>1
    <3>3. \A i \in DOMAIN stack'[Main] : IsHandler(stack'[Main][i]) <=> i = 1
      BY <1>6, <2>1, <3>1 DEF IInv, SapiInv
    <3>4. \A d \in Coroutines : stack'[d] # <<>> => d = Main
      BY <1>3, <2>1, <3>1 DEF IInv, SapiInv
    <3>5. \A k \in Keys : segments'[k].id # 0 => k = 0 /\ stack'[Main][1].flushes
      BY <1>1, <1>5, <2>1, <3>2 DEF IInv, SapiInv
    <3>6. stack'[Main][1].key = 0 /\ ~isSwoole
      BY <1>2, <2>1, <3>1, <3>2 DEF IInv, SapiInv
    <3>7. QED
      BY <1>1, <2>1, <3>2, <3>3, <3>4, <3>5, <3>6 DEF SapiInv, IsHandler
  <2>2. CASE sapi # "fpm"
    BY <1>1, <1>5, <2>2 DEF IInv, SapiInv
  <2>3. QED
    BY <2>1, <2>2
<1>12. FramesInv'
  BY <1>1, <1>5, <1>6 DEF IInv, FramesInv, IsHandler
<1>13. HandlersInv'
  <2> SUFFICES ASSUME ~shared PROVE HandlersInv'
    BY <1>1 DEF HandlersInv
  <2>1. \A d, e \in Coroutines : \A i \in DOMAIN stack'[d], j \in DOMAIN stack'[e] :
              (IsHandler(stack'[d][i]) /\ IsHandler(stack'[e][j]) /\ stack'[d][i].key = stack'[e][j].key)
              => d = e /\ i = j
    BY <1>6 DEF IInv, HandlersInv
  <2>2. ASSUME NEW d \in Coroutines, NEW i \in DOMAIN stack'[d], stack'[d][i].span # 0
        PROVE  \E j \in 1..(i - 1) : /\ IsHandler(stack'[d][j])
                                     /\ segments'[stack'[d][j].key].id = stack'[d][i].segment
    <3>1. i \in DOMAIN stack[d] /\ stack'[d][i] = stack[d][i]
      BY <1>6
    <3>2. PICK j \in 1..(i - 1) : /\ IsHandler(stack[d][j])
                                  /\ segments[stack[d][j].key].id = stack[d][i].segment
      BY <2>2, <3>1 DEF IInv, HandlersInv
    <3>3. j \in DOMAIN stack'[d] /\ j \in DOMAIN stack[d]
      BY <1>3, <3>1 DEF IInv, TypeInv
    <3>4. stack[d][j].key \in Keys
      BY <3>2, <3>3 DEF IInv, FramesInv
    <3>5. QED
      BY <1>5, <1>6, <3>1, <3>2, <3>3, <3>4
  <2>3. QED
    BY <2>1, <2>2, Zenon DEF HandlersInv, IsHandler
<1>14. SpansInv'
  <2> SUFFICES ASSUME NEW k \in Keys, NEW i \in DOMAIN segments'[k].spans
               PROVE  LET span == segments'[k].spans[i]
                      IN  /\ span.error = (span.failed /\ NoticesFailure(span.call))
                          /\ ~shared' /\ ~bailed' =>
                                \/ span.ended
                                \/ OfGuzzle(span.call)
                                \/ \E d \in Coroutines : \E j \in DOMAIN stack'[d] :
                                      stack'[d][j].span = i /\ stack'[d][j].segment = segments'[k].id
    BY Zenon DEF SpansInv
  <2>0. i \in DOMAIN segments[k].spans
    BY <1>5
  <2>1. CASE frame.span # 0 /\ segments[k].id = frame.segment /\ i = frame.span
    <3>1. segments[k].spans[i].call = frame.call
      BY <1>4, <2>1 DEF IInv, FramesInv, frame
    <3>2. /\ segments'[k].spans[i].ended /\ segments'[k].spans[i].call = frame.call
          /\ segments'[k].spans[i].failed = failed
          /\ segments'[k].spans[i].error = (failed /\ NoticesFailure(frame.call))
      BY <1>5, <2>0, <2>1, <3>1
    <3>3. QED
      BY <3>2, Zenon
  <2>2. CASE ~(frame.span # 0 /\ segments[k].id = frame.segment /\ i = frame.span)
    <3>1. segments'[k].spans[i] = segments[k].spans[i] /\ segments'[k].id = segments[k].id
      BY <1>5, <2>0, <2>2
    <3>2. i # 0
      BY <2>0 DEF IInv, TypeInv, Segments
    <3>3. ASSUME NEW d \in Coroutines, NEW j \in DOMAIN stack[d],
                 stack[d][j].span = i, stack[d][j].segment = segments[k].id
          PROVE  j \in DOMAIN stack'[d] /\ stack'[d][j] = stack[d][j]
      BY <1>7, <2>2, <3>2, <3>3 DEF frame
    <3>4. QED
      BY <1>1, <2>0, <3>1, <3>3 DEF IInv, SpansInv
  <2>3. QED
    BY <2>1, <2>2
<1>15. ErrorInv'
  BY <1>1, <1>5 DEF IInv, ErrorInv
<1>16. CallsAreTransparent'
  <2>1. frame.throws => StoresObject(frame.call)
    BY <1>4 DEF IInv, FramesInv, frame
  <2>2. \A d \in disturbed' : \/ OfGuzzle(d.call) /\ d.runs = 0
                              \/ StoresObject(d.call) /\ d.runs = 1
    <3>1. disturbed' = Disturbed(frame.call, frame.runs, frame.throws)
      BY <1>3 DEF CallReturns
    <3>2. CASE ~frame.throws
      BY <1>4, <3>1, <3>2 DEF Disturbed, IInv, CallsAreTransparent
    <3>3. CASE frame.throws
      <4>1. disturbed' = disturbed \union {[call |-> frame.call, runs |-> frame.runs, throws |-> frame.throws]}
        BY <3>1, <3>3, Zenon DEF Disturbed
      <4>2. QED
        BY <1>4, <2>1, <3>3, <4>1 DEF IInv, CallsAreTransparent
    <3>4. QED
      BY <3>2, <3>3
  <2>3. died' = NoCall \/ (died' = frame.call /\ KillsAfter(frame.call))
    <3>1. \A dies \in ChecksErrors(frame.call) : dies => KillsAfter(frame.call)
      BY DEF ChecksErrors, sky_pdo_check_errors, sky_plugin_mysqli_check_errors, KillsAfter,
             Unexplained, Unconnected
    <3>2. QED
      BY <1>3, <3>1 DEF CallReturns
  <2>4. wild' => shared'
    <3>1. wild' => wild \/ (frame.span # 0 /\ {k \in Keys : segments[k].id = frame.segment} = {})
      BY <1>3 DEF CallReturns
    <3>2. QED
      BY <1>1, <1>8, <3>1 DEF IInv, CallsAreTransparent
  <2>5. died' = InModule => module' # "on"
    BY <2>3, HandlerOfModule
  <2>6. died' \in {NoCall, InModule} \/ KillsAfter(died')
    BY <2>3
  <2>7. QED
    BY <2>2, <2>4, <2>5, <2>6, Zenon DEF CallsAreTransparent
<1>17. UnsampledAreSilent'
  <2> SUFFICES ASSUME NEW k \in Keys, segments'[k].skip, NEW i \in DOMAIN segments'[k].spans
               PROVE  Unasking(segments'[k].spans[i].call)
    BY DEF UnsampledAreSilent, ToSet
  <2>1. /\ segments[k].skip /\ i \in DOMAIN segments[k].spans
        /\ segments'[k].spans[i].call = segments[k].spans[i].call
    BY <1>5
  <2>2. QED
    BY <2>1 DEF IInv, UnsampledAreSilent, ToSet
<1>18. SpansLeadToTheServer'
  <2> SUFFICES ASSUME NEW k \in Keys, NEW i \in DOMAIN segments'[k].spans
               PROVE  Leads(segments'[k].spans[i].call, segments'[k].spans[i].peer, segments'[k].spans[i].header)
    BY DEF SpansLeadToTheServer, ToSet
  <2>1. /\ i \in DOMAIN segments[k].spans
        /\ segments'[k].spans[i].call = segments[k].spans[i].call
        /\ segments'[k].spans[i].peer = segments[k].spans[i].peer
        /\ segments'[k].spans[i].header = segments[k].spans[i].header
    BY <1>5
  <2>2. QED
    BY <2>1 DEF IInv, SpansLeadToTheServer, ToSet
<1>19. QED
  BY <1>9, <1>10, <1>11, <1>12, <1>13, <1>14, <1>15, <1>16, <1>17, <1>18 DEF IInv

\* The segment that a hook finds is that of a handler below, in its own stack.
LEMMA Found ==
    ASSUME IInv, NEW c \in Coroutines, sapi = "fpm" => c = Main /\ stack[c] # <<>>,
           GetSegment(Key(c)) # NoSegment
    PROVE  /\ Key(c) \in Keys /\ GetSegment(Key(c)) = segments[Key(c)]
           /\ segments[Key(c)] \in Segments /\ segments[Key(c)].id # 0
           /\ \E j \in DOMAIN stack[c] : IsHandler(stack[c][j]) /\ stack[c][j].key = Key(c)
<1>1. /\ Key(c) \in Keys /\ GetSegment(Key(c)) = segments[Key(c)]
      /\ segments[Key(c)] \in Segments /\ segments[Key(c)].id # 0
  BY DEF GetSegment, IInv, TypeInv, SegmentsInv
<1>2. CASE isSwoole
  <2> DEFINE handlers == {i \in DOMAIN stack[c] : IsHandler(stack[c][i])}
  <2>1. Key(c) = IF handlers = {} THEN -1 ELSE stack[c][Max(handlers)].key
    BY <1>2 DEF Key, SwooleFd
  <2>2. handlers # {}
    <3>1. -1 \notin Keys
      BY ExecuteAssumption DEF ExecuteAssumption, Keys
    <3>2. QED
      BY <1>1, <2>1, <3>1
  <2>3. Len(stack[c]) \in Nat /\ handlers \subseteq 1..Len(stack[c])
    BY DEF IInv, TypeInv
  <2>4. Max(handlers) \in handlers
    <3> HIDE DEF handlers
    <3>1. QED
      BY <2>2, <2>3, GreatestOf
  <2>5. QED
    BY <1>1, <2>1, <2>2, <2>4
<1>3. CASE ~isSwoole
  <2>1. Key(c) = 0
    BY <1>3 DEF Key
  <2>2. sapi = "fpm"
    BY <1>1, <2>1 DEF IInv, SapiInv
  <2>3. 1 \in DOMAIN stack[c]
    BY <2>2 DEF IInv, TypeInv
  <2>4. QED
    BY <1>1, <2>1, <2>2, <2>3 DEF IInv, SapiInv
<1>4. QED
  BY <1>2, <1>3

\* A segment's spans, and the same with one more, that of a call.
OneMore(before, after, call) ==
    LET n == Len(after)
    IN  /\ n \in Nat \ {0} /\ DOMAIN before = 1..(n - 1) /\ DOMAIN after = 1..n
        /\ \A i \in DOMAIN before : after[i] = before[i]
        /\ after[n].call = call /\ after[n].error = FALSE /\ after[n].failed = FALSE
        /\ Leads(call, after[n].peer, after[n].header)

\* The segment after a plugin has opened a span in it, or not.
LEMMA SpanOpens ==
    ASSUME NEW found \in Segments, NEW call \in Calls, NEW opened,
           opened = Plugin(call, found.skip).opened, Opening(call, found.skip, opened),
           NEW segment, segment = CreateSpan(SetStatus(found, call), call, opened)
    PROVE  /\ segment \in Segments
           /\ segment.id = found.id /\ segment.skip = found.skip /\ segment.error = found.error
           /\ opened = <<>> => segment.spans = found.spans
           /\ opened # <<>> => OneMore(found.spans, segment.spans, call) /\ (found.skip => Unasking(call))
<1> DEFINE status == SetStatus(found, call)
<1>1. /\ status \in Segments /\ status.id = found.id /\ status.skip = found.skip
      /\ status.error = found.error /\ status.spans = found.spans
  BY DEF SetStatus, Segments, Statuses
<1>2. CASE opened = <<>>
  BY <1>1, <1>2 DEF CreateSpan
<1>3. CASE opened # <<>>
  <2>1. PICK peer, header : /\ opened = <<[peer |-> peer, header |-> header]>>
                            /\ Leads(call, peer, header)
                            /\ found.skip => Unasking(call)
    BY <1>3 DEF Opening
  <2>2. opened[1].peer = peer /\ opened[1].header = header
    BY <2>1
  <2>3. peer \in Peers /\ header \in Headers
    BY <2>2 DEF Peers, Headers, Segments
  <2> DEFINE span == [call |-> call, peer |-> peer, header |-> header,
                      ended |-> FALSE, error |-> FALSE, failed |-> FALSE]
  <2>4. span \in Spans
    BY <2>3 DEF Spans
  <2>5. segment = [status EXCEPT !.spans = Append(@, span)]
    BY <1>3, <2>2 DEF CreateSpan
  <2>6. /\ span.call = call /\ span.peer = peer /\ span.header = header
        /\ span.error = FALSE /\ span.failed = FALSE
    OBVIOUS
  <2> HIDE DEF span, status
  <2>7. found.spans \in Seq(Spans)
    BY DEF Segments
  <2>8. /\ segment \in Segments
        /\ segment.id = found.id /\ segment.skip = found.skip /\ segment.error = found.error
        /\ segment.spans = Append(found.spans, span)
    BY SMTT(30), <1>1, <2>4, <2>5, <2>7 DEF Segments
  <2>9. /\ Len(segment.spans) = Len(found.spans) + 1
        /\ \A i \in DOMAIN found.spans : segment.spans[i] = found.spans[i]
        /\ segment.spans[Len(segment.spans)] = span
        /\ DOMAIN found.spans = 1..Len(found.spans) /\ Len(found.spans) \in Nat
        /\ DOMAIN segment.spans = 1..Len(segment.spans)
    BY <2>4, <2>7, <2>8
  <2>10. OneMore(found.spans, segment.spans, call)
    BY <2>1, <2>6, <2>9 DEF OneMore
  <2>11. QED
    BY <1>3, <2>1, <2>8, <2>10
<1>4. QED
  BY <1>2, <1>3

\* What a call does that survives its beginning, in terms of its frame: either
\* nothing is opened, or the segment of a handler below has one span more.
Begun(c, call, frame) ==
    /\ UNCHANGED died /\ segments' \in [Keys -> Segments]
    /\ \A k \in Keys :
          /\ segments'[k].id = segments[k].id /\ segments'[k].skip = segments[k].skip
          /\ segments'[k].error = segments[k].error
          /\ segments[k].id = 0 => segments'[k] = segments[k]
    /\ \/ stack' = [stack EXCEPT ![c] = Append(@, frame)] /\ UNCHANGED disturbed
       \/ UNCHANGED stack /\ OfGuzzle(call) /\ disturbed' = Disturbed(call, 0, frame.throws)
    /\ frame.call = call /\ frame.key = -1 /\ (frame.throws => StoresObject(call))
    /\ frame.segment <= requests
    /\ frame.span = 0 => \A k \in Keys : segments'[k].spans = segments[k].spans
    /\ frame.span # 0 =>
          \E key \in Keys :
             /\ segments[key].id # 0 /\ frame.segment = segments[key].id
             /\ \E j \in DOMAIN stack[c] : IsHandler(stack[c][j]) /\ stack[c][j].key = key
             /\ \A k \in Keys : k # key => segments'[k].spans = segments[k].spans
             /\ OneMore(segments[key].spans, segments'[key].spans, call)
             /\ frame.span = Len(segments'[key].spans)
             /\ segments[key].skip => Unasking(call)

\* What CallBegins does, by what the plugin it calls does.
LEMMA CallOpens ==
    ASSUME IInv, NEW c \in Coroutines, NEW call \in Calls, CallBegins(c, call)
    PROVE  \/ /\ UNCHANGED <<segments, stack, disturbed>> /\ died' = call
              /\ KillsBefore(call)
           \/ \E frame \in Frames : Begun(c, call, frame)
<1> DEFINE found == GetSegment(Key(c))
           does == IF found = NoSegment THEN Nothing ELSE Plugin(call, found.skip)
           runs == IF found = NoSegment THEN 1 ELSE Runs(call, does)
           segment == CreateSpan(SetStatus(found, call), call, does.opened)
           frame == Frame(call, segment, does, 1)
<1>1. /\ sapi = "fpm" => c = Main /\ stack[c] # <<>>
      /\ segments \in [Keys -> Segments] /\ requests \in Nat
  BY DEF CallBegins, IInv, TypeInv
<1>2. \/ TRUE \in does.dies /\ died' = call /\ UNCHANGED <<segments, stack, disturbed>>
      \/ /\ UNCHANGED died
         /\ segments' = IF found = NoSegment THEN segments ELSE [segments EXCEPT ![Key(c)] = segment]
         /\ \/ /\ runs # 0 /\ UNCHANGED disturbed
               /\ stack' = [stack EXCEPT ![c] = Append(@, Frame(call, segment, does, runs))]
            \/ runs = 0 /\ UNCHANGED stack /\ disturbed' = Disturbed(call, 0, does.throws)
  BY Zenon DEF CallBegins
<1>3. frame = [key |-> -1, flushes |-> FALSE, call |-> call, segment |-> segment.id,
               span |-> IF does.opened = <<>> THEN 0 ELSE Len(segment.spans),
               runs |-> 1, throws |-> does.throws]
  BY Zenon DEF Frame
<1>4. CASE found = NoSegment
  <2>1. does = Nothing /\ runs = 1
    BY <1>4
  <2>2. TRUE \notin does.dies /\ does.opened = <<>> /\ does.throws = FALSE
    BY <2>1, DoesIs, Zenon DEF Nothing
  <2>3. segment.id = 0
    BY <1>4, <2>2, NoSegmentIs DEF CreateSpan, SetStatus, NoSegment, Segment
  <2> HIDE DEF found, does, runs, segment, frame
  <2>4. /\ frame \in Frames /\ frame.call = call /\ frame.key = -1 /\ frame.throws = FALSE
        /\ frame.segment = 0 /\ frame.span = 0
    <3>1. frame = [key |-> -1, flushes |-> FALSE, call |-> call, segment |-> 0,
                   span |-> 0, runs |-> 1, throws |-> FALSE]
      BY <1>3, <2>2, <2>3
    <3>2. QED
      BY <3>1 DEF Frames
  <2>5. /\ UNCHANGED <<died, segments, disturbed>>
        /\ stack' = [stack EXCEPT ![c] = Append(@, frame)]
    <3>1. runs # 0
      BY <2>1
    <3>2. Frame(call, segment, does, runs) = frame
      BY <2>1, Zenon DEF frame
    <3>3. QED
      BY <1>2, <1>4, <2>2, <3>1, <3>2, Zenon
  <2>6. Begun(c, call, frame)
    BY <1>1, <2>4, <2>5 DEF Begun
  <2>7. QED
    BY <2>4, <2>6, Zenon
<1>5. CASE found # NoSegment
  <2>1. /\ Key(c) \in Keys /\ found = segments[Key(c)] /\ found \in Segments /\ found.id # 0
        /\ \E j \in DOMAIN stack[c] : IsHandler(stack[c][j]) /\ stack[c][j].key = Key(c)
    BY <1>1, <1>5, Found
  <2>2. does = Plugin(call, found.skip) /\ runs = Runs(call, does) /\ found.skip \in BOOLEAN
    BY <1>5, <2>1 DEF Segments
  <2>3. Behaves(call, found.skip, does)
    BY <2>2, PluginBehaves, Zenon
  <2> HIDE DEF found, does, runs, segment, frame
  <2>4. CASE TRUE \in does.dies /\ died' = call /\ UNCHANGED <<segments, stack, disturbed>>
    <3>1. KillsBefore(call)
      BY <2>3, <2>4, Zenon DEF Behaves
    <3>2. QED
      BY <2>4, <3>1
  <2>5. CASE /\ UNCHANGED died
             /\ segments' = [segments EXCEPT ![Key(c)] = segment]
             /\ \/ /\ runs # 0 /\ UNCHANGED disturbed
                   /\ stack' = [stack EXCEPT ![c] = Append(@, Frame(call, segment, does, runs))]
                \/ runs = 0 /\ UNCHANGED stack /\ disturbed' = Disturbed(call, 0, does.throws)
    <3>1. /\ does.throws \in BOOLEAN /\ (does.throws => StoresObject(call))
          /\ Opening(call, found.skip, does.opened)
      BY <2>3, Zenon DEF Behaves
    <3>2. runs = 1 \/ (runs = 0 /\ OfGuzzle(call))
      BY <2>2, <2>3, Zenon DEF Behaves
    <3>3. /\ segment \in Segments
          /\ segment.id = found.id /\ segment.skip = found.skip /\ segment.error = found.error
          /\ does.opened = <<>> => segment.spans = found.spans
          /\ does.opened # <<>> =>
                OneMore(found.spans, segment.spans, call) /\ (found.skip => Unasking(call))
      <4>1. does.opened = Plugin(call, found.skip).opened
        BY <2>2
      <4>2. segment = CreateSpan(SetStatus(found, call), call, does.opened)
        BY DEF segment
      <4>3. found \in Segments /\ Opening(call, found.skip, does.opened)
        BY <2>1, <3>1
      <4>4. QED
        BY <4>1, <4>2, <4>3, SpanOpens
    <3>4. /\ frame \in Frames /\ frame.call = call /\ frame.key = -1 /\ frame.throws = does.throws
          /\ frame.segment = segment.id
          /\ does.opened = <<>> => frame.span = 0
          /\ does.opened # <<>> => frame.span = Len(segment.spans)
      <4>1. segment.spans \in Seq(Spans) /\ segment.id \in Nat
        BY <3>3 DEF Segments
      <4>2. (IF does.opened = <<>> THEN 0 ELSE Len(segment.spans)) \in Nat
        BY <4>1
      <4>3. frame \in Frames
        BY <1>3, <3>1, <4>1, <4>2 DEF Frames
      <4>4. /\ frame.call = call /\ frame.key = -1 /\ frame.throws = does.throws
            /\ frame.segment = segment.id
            /\ frame.span = IF does.opened = <<>> THEN 0 ELSE Len(segment.spans)
        BY <1>3
      <4>5. QED
        BY <4>3, <4>4
    <3>5. /\ segments' \in [Keys -> Segments]
          /\ segments'[Key(c)] = segment
          /\ \A k \in Keys : k # Key(c) => segments'[k] = segments[k]
      BY <1>1, <2>1, <2>5, <3>3
    <3>6. \/ stack' = [stack EXCEPT ![c] = Append(@, frame)] /\ UNCHANGED disturbed
          \/ UNCHANGED stack /\ OfGuzzle(call) /\ disturbed' = Disturbed(call, 0, does.throws)
      <4>1. runs = 1 => Frame(call, segment, does, runs) = frame
        BY Zenon DEF frame
      <4>2. runs = 1 => runs # 0
        OBVIOUS
      <4>3. QED
        BY <2>5, <3>2, <4>1, <4>2, Zenon
    <3>7. segments[Key(c)].id <= requests
      BY <2>1 DEF IInv, SegmentsInv
    <3>8. \A k \in Keys : /\ segments'[k].id = segments[k].id /\ segments'[k].skip = segments[k].skip
                          /\ segments'[k].error = segments[k].error
                          /\ segments[k].id = 0 => segments'[k] = segments[k]
      BY <2>1, <3>3, <3>5
    <3>9. does.opened = <<>> => \A k \in Keys : segments'[k].spans = segments[k].spans
      BY <2>1, <3>3, <3>5
    <3>10. does.opened # <<>> =>
              /\ \A k \in Keys : k # Key(c) => segments'[k].spans = segments[k].spans
              /\ OneMore(segments[Key(c)].spans, segments'[Key(c)].spans, call)
              /\ segments[Key(c)].skip => Unasking(call)
              /\ frame.segment = segments[Key(c)].id
              /\ frame.span = Len(segments'[Key(c)].spans) /\ frame.span # 0
      BY <2>1, <3>3, <3>4, <3>5 DEF OneMore
    <3>11. Begun(c, call, frame)
      <4>1. frame.span # 0 <=> does.opened # <<>>
        BY <3>4, <3>10
      <4>2. frame.segment <= requests /\ (frame.throws => StoresObject(call))
        BY <2>1, <3>1, <3>3, <3>4, <3>7
      <4>3. UNCHANGED died
        BY <2>5
      <4>4. \/ stack' = [stack EXCEPT ![c] = Append(@, frame)] /\ UNCHANGED disturbed
            \/ UNCHANGED stack /\ OfGuzzle(call) /\ disturbed' = Disturbed(call, 0, frame.throws)
        BY <3>4, <3>6, Zenon
      <4>5. QED
        BY <2>1, <3>4, <3>5, <3>8, <3>9, <3>10, <4>1, <4>2, <4>3, <4>4, Zenon DEF Begun
    <3>12. QED
      BY <3>4, <3>11, Zenon
  <2>6. QED
    BY <1>2, <1>5, <2>4, <2>5
<1>6. QED
  BY <1>4, <1>5

\* A call begins: its span is a new one in the segment of a handler below.
LEMMA CallBeginsKeeps ==
    ASSUME IInv, NEW c \in Coroutines, NEW call \in Calls, CallBegins(c, call)
    PROVE  IInv'
<1>1. /\ UNCHANGED <<sapi, module, isSwoole, requests, wild, shared, raised, bailed>>
      /\ Alive /\ 0 \in Keys
      /\ sapi = "fpm" => c = Main /\ stack[c] # <<>>
  BY DEF CallBegins, Keys
<1>2. CASE /\ UNCHANGED <<segments, stack, disturbed>> /\ died' = call
           /\ KillsBefore(call)
  <2>1. TypeInv'
    BY <1>1, <1>2 DEF IInv, TypeInv
  <2>2. SegmentsInv' /\ SapiInv' /\ FramesInv' /\ HandlersInv'
    BY <1>1, <1>2 DEF IInv, SegmentsInv, SapiInv, FramesInv, HandlersInv, IsHandler
  <2>3. SpansInv' /\ ErrorInv'
    BY <1>1, <1>2 DEF IInv, SpansInv, ErrorInv
  <2>4. CallsAreTransparent'
    <3>1. KillsBefore(died')
      BY <1>2
    <3>2. died' # InModule
      BY <1>2, HandlerOfModule
    <3>3. QED
      BY <1>1, <1>2, <3>1, <3>2 DEF IInv, CallsAreTransparent
  <2>5. UnsampledAreSilent' /\ SpansLeadToTheServer'
    BY <1>1, <1>2 DEF IInv, UnsampledAreSilent, SpansLeadToTheServer
  <2>6. QED
    BY <2>1, <2>2, <2>3, <2>4, <2>5 DEF IInv
<1>3. ASSUME NEW frame \in Frames, Begun(c, call, frame) PROVE IInv'
  <2> DEFINE top == Len(stack[c]) + 1
  <2>1. /\ UNCHANGED died /\ segments' \in [Keys -> Segments]
        /\ \A k \in Keys :
              /\ segments'[k].id = segments[k].id /\ segments'[k].skip = segments[k].skip
              /\ segments'[k].error = segments[k].error
              /\ segments[k].id = 0 => segments'[k] = segments[k]
        /\ frame.call = call /\ frame.key = -1 /\ (frame.throws => StoresObject(call))
        /\ frame.segment <= requests /\ frame.span \in Nat /\ frame.segment \in Nat
        /\ ~IsHandler(frame)
    BY <1>3, HandlerOfModule DEF Begun, Frames, IsHandler
  \* Whatever is opened, the spans that there were are kept.
  <2>2. ASSUME NEW k \in Keys
        PROVE  /\ \A i \in DOMAIN segments[k].spans :
                     i \in DOMAIN segments'[k].spans /\ segments'[k].spans[i] = segments[k].spans[i]
               /\ \A i \in DOMAIN segments'[k].spans :
                     \/ i \in DOMAIN segments[k].spans
                     \/ /\ frame.span # 0 /\ i = frame.span /\ segments[k].id = frame.segment
                        /\ segments'[k].spans[i].call = call
                        /\ segments'[k].spans[i].error = FALSE /\ segments'[k].spans[i].failed = FALSE
                        /\ Leads(call, segments'[k].spans[i].peer, segments'[k].spans[i].header)
                        /\ segments[k].skip => Unasking(call)
    BY <1>3 DEF Begun, OneMore
  <2>3. frame.span # 0 =>
           /\ frame.segment # 0
           /\ \A k \in Keys : segments'[k].id = frame.segment =>
                 frame.span \in DOMAIN segments'[k].spans /\ segments'[k].spans[frame.span].call = call
           /\ \E j \in DOMAIN stack[c] : /\ IsHandler(stack[c][j]) /\ stack[c][j].key \in Keys
                                         /\ segments'[stack[c][j].key].id = frame.segment
    <3> SUFFICES ASSUME frame.span # 0
                 PROVE  /\ frame.segment # 0
                        /\ \A k \in Keys : segments'[k].id = frame.segment =>
                              frame.span \in DOMAIN segments'[k].spans /\ segments'[k].spans[frame.span].call = call
                        /\ \E j \in DOMAIN stack[c] : /\ IsHandler(stack[c][j]) /\ stack[c][j].key \in Keys
                                                      /\ segments'[stack[c][j].key].id = frame.segment
      OBVIOUS
    <3>1. PICK key \in Keys :
             /\ segments[key].id # 0 /\ frame.segment = segments[key].id
             /\ \E j \in DOMAIN stack[c] : IsHandler(stack[c][j]) /\ stack[c][j].key = key
             /\ OneMore(segments[key].spans, segments'[key].spans, call)
             /\ frame.span = Len(segments'[key].spans)
      BY <1>3 DEF Begun
    <3>2. \A k \in Keys : segments'[k].id = frame.segment => k = key
      BY <2>1, <3>1 DEF IInv, SegmentsInv
    <3>3. frame.span \in DOMAIN segments'[key].spans /\ segments'[key].spans[frame.span].call = call
      BY <3>1 DEF OneMore
    <3>4. QED
      BY <2>1, <3>1, <3>2, <3>3
  <2>4. SegmentsInv'
    BY <1>1, <2>1 DEF IInv, SegmentsInv
  <2>5. ErrorInv'
    BY <1>1, <2>1 DEF IInv, ErrorInv
  <2>6. UnsampledAreSilent'
    <3> SUFFICES ASSUME NEW k \in Keys, segments'[k].skip, NEW i \in DOMAIN segments'[k].spans
                 PROVE  Unasking(segments'[k].spans[i].call)
      BY DEF UnsampledAreSilent, ToSet
    <3>1. segments[k].skip
      BY <2>1
    <3>2. QED
      BY <2>2, <3>1 DEF IInv, UnsampledAreSilent, ToSet
  <2>7. SpansLeadToTheServer'
    <3> SUFFICES ASSUME NEW k \in Keys, NEW i \in DOMAIN segments'[k].spans
                 PROVE  Leads(segments'[k].spans[i].call, segments'[k].spans[i].peer, segments'[k].spans[i].header)
      BY DEF SpansLeadToTheServer, ToSet
    <3>1. QED
      BY <2>2 DEF IInv, SpansLeadToTheServer, ToSet
  \* What a frame knows of its span stays true.
  <2>held. ASSUME NEW d \in Coroutines, NEW i \in DOMAIN stack[d], ~IsHandler(stack[d][i]),
                  stack[d][i].span # 0
           PROVE  /\ stack[d][i].segment # 0
                  /\ \A k \in Keys : segments'[k].id = stack[d][i].segment =>
                        /\ stack[d][i].span \in DOMAIN segments'[k].spans
                        /\ segments'[k].spans[stack[d][i].span].call = stack[d][i].call
    <3>1. /\ stack[d][i].segment # 0
          /\ \A k \in Keys : segments[k].id = stack[d][i].segment =>
                /\ stack[d][i].span \in DOMAIN segments[k].spans
                /\ segments[k].spans[stack[d][i].span].call = stack[d][i].call
      BY <2>held DEF IInv, FramesInv
    <3>2. ASSUME NEW k \in Keys, segments'[k].id = stack[d][i].segment
          PROVE  /\ stack[d][i].span \in DOMAIN segments'[k].spans
                 /\ segments'[k].spans[stack[d][i].span].call = stack[d][i].call
      <4>1. /\ stack[d][i].span \in DOMAIN segments[k].spans
            /\ segments[k].spans[stack[d][i].span].call = stack[d][i].call
        BY <2>1, <3>1, <3>2
      <4>2. QED
        BY <2>2, <4>1
    <3>3. QED
      BY <3>1, <3>2
  <2>8. CASE stack' = [stack EXCEPT ![c] = Append(@, frame)] /\ UNCHANGED disturbed
    <3>1. /\ stack' \in [Coroutines -> Seq(Frames)]
          /\ DOMAIN stack'[c] = 1..top /\ stack'[c][top] = frame
          /\ DOMAIN stack[c] = 1..(top - 1) /\ top \in Nat \ {0}
          /\ \A d \in Coroutines : d # c => stack'[d] = stack[d]
          /\ \A i \in DOMAIN stack[c] : stack'[c][i] = stack[c][i]
      BY <2>8, Pushed DEF IInv, TypeInv
    <3> HIDE DEF top
    <3>2. ASSUME NEW d \in Coroutines, NEW i \in DOMAIN stack'[d]
          PROVE  \/ d = c /\ i = top /\ stack'[d][i] = frame
                 \/ i \in DOMAIN stack[d] /\ stack'[d][i] = stack[d][i] /\ (d = c => i # top)
      BY <3>1, <3>2
    <3>3. ASSUME NEW d \in Coroutines, NEW i \in DOMAIN stack[d]
          PROVE  i \in DOMAIN stack'[d] /\ stack'[d][i] = stack[d][i]
      BY <3>1, <3>3
    <3>4. TypeInv'
      BY <1>1, <2>1, <3>1 DEF IInv, TypeInv
    <3>5. SapiInv'
      <4>1. CASE sapi = "fpm"
        <5>1. c = Main /\ stack[Main] # <<>> /\ top # 1 /\ 1 \in DOMAIN stack[Main] /\ stack'[Main] # <<>>
          BY <1>1, <3>1, <4>1 DEF IInv, TypeInv
        <5>2. stack'[Main][1] = stack[Main][1]
          BY <3>1, <5>1
        <5>3. \A i \in DOMAIN stack'[Main] : IsHandler(stack'[Main][i]) <=> i = 1
          BY <2>1, <3>2, <4>1, <5>1 DEF IInv, SapiInv
        <5>4. \A d \in Coroutines : stack'[d] # <<>> => d = Main
          BY <3>1, <4>1, <5>1 DEF IInv, SapiInv
        <5>5. \A k \in Keys : segments'[k].id # 0 => k = 0 /\ stack'[Main][1].flushes
          BY <1>1, <2>1, <4>1, <5>2 DEF IInv, SapiInv
        <5>6. stack'[Main][1].key = 0 /\ ~isSwoole
          BY <4>1, <5>1, <5>2 DEF IInv, SapiInv
        <5>7. QED
          BY <1>1, <4>1, <5>1, <5>3, <5>4, <5>5, <5>6 DEF SapiInv, IsHandler
      <4>2. CASE sapi # "fpm"
        BY <1>1, <2>1, <4>2 DEF IInv, SapiInv
      <4>3. QED
        BY <4>1, <4>2
    <3>6. FramesInv'
      <4> SUFFICES ASSUME NEW d \in Coroutines, NEW i \in DOMAIN stack'[d]
                   PROVE  LET held == stack'[d][i]
                          IN  IF IsHandler(held) THEN held.key \in Keys /\ held.span = 0
                              ELSE /\ held.key = -1
                                   /\ held.throws => StoresObject(held.call)
                                   /\ held.segment <= requests'
                                   /\ held.span # 0 =>
                                         /\ held.segment # 0
                                         /\ \A k \in Keys : segments'[k].id = held.segment =>
                                               /\ held.span \in DOMAIN segments'[k].spans
                                               /\ segments'[k].spans[held.span].call = held.call
        BY Zenon DEF FramesInv, IsHandler
      <4>1. CASE d = c /\ i = top /\ stack'[d][i] = frame
        BY <1>1, <2>1, <2>3, <4>1
      <4>2. CASE i \in DOMAIN stack[d] /\ stack'[d][i] = stack[d][i]
        <5>1. CASE IsHandler(stack[d][i])
          BY <4>2, <5>1 DEF IInv, FramesInv
        <5>2. CASE ~IsHandler(stack[d][i])
          <6>1. /\ stack[d][i].key = -1
                /\ stack[d][i].throws => StoresObject(stack[d][i].call)
                /\ stack[d][i].segment <= requests
            BY <4>2, <5>2 DEF IInv, FramesInv
          <6>2. QED
            BY <1>1, <2>held, <4>2, <5>2, <6>1
        <5>3. QED
          BY <5>1, <5>2
      <4>3. QED
        BY <3>2, <4>1, <4>2
    <3>7. HandlersInv'
      <4> SUFFICES ASSUME ~shared PROVE HandlersInv'
        BY <1>1 DEF HandlersInv
      <4>1. \A d, e \in Coroutines : \A i \in DOMAIN stack'[d], j \in DOMAIN stack'[e] :
                  (IsHandler(stack'[d][i]) /\ IsHandler(stack'[e][j]) /\ stack'[d][i].key = stack'[e][j].key)
                  => d = e /\ i = j
        BY <2>1, <3>2 DEF IInv, HandlersInv
      <4>2. ASSUME NEW d \in Coroutines, NEW i \in DOMAIN stack'[d], stack'[d][i].span # 0
            PROVE  \E j \in 1..(i - 1) : /\ IsHandler(stack'[d][j])
                                         /\ segments'[stack'[d][j].key].id = stack'[d][i].segment
        <5>1. CASE d = c /\ i = top /\ stack'[d][i] = frame
          <6>1. PICK j \in DOMAIN stack[c] : /\ IsHandler(stack[c][j]) /\ stack[c][j].key \in Keys
                                             /\ segments'[stack[c][j].key].id = frame.segment
            BY <2>3, <4>2, <5>1
          <6>2. QED
            BY <3>1, <5>1, <6>1
        <5>2. CASE i \in DOMAIN stack[d] /\ stack'[d][i] = stack[d][i]
          <6>1. PICK j \in 1..(i - 1) : /\ IsHandler(stack[d][j])
                                        /\ segments[stack[d][j].key].id = stack[d][i].segment
            BY <4>2, <5>2 DEF IInv, HandlersInv
          <6>2. j \in DOMAIN stack[d]
            BY <5>2, <6>1 DEF IInv, TypeInv
          <6>3. stack[d][j].key \in Keys
            BY <6>1, <6>2 DEF IInv, FramesInv
          <6>4. QED
            BY <2>1, <3>3, <5>2, <6>1, <6>2, <6>3
        <5>3. QED
          BY <3>2, <5>1, <5>2
      <4>3. QED
        BY <4>1, <4>2, Zenon DEF HandlersInv, IsHandler
    <3>8. SpansInv'
      <4> SUFFICES ASSUME NEW k \in Keys, NEW i \in DOMAIN segments'[k].spans
                   PROVE  LET span == segments'[k].spans[i]
                          IN  /\ span.error = (span.failed /\ NoticesFailure(span.call))
                              /\ ~shared' /\ ~bailed' =>
                                    \/ span.ended
                                    \/ OfGuzzle(span.call)
                                    \/ \E d \in Coroutines : \E j \in DOMAIN stack'[d] :
                                          stack'[d][j].span = i /\ stack'[d][j].segment = segments'[k].id
        BY Zenon DEF SpansInv
      <4>1. CASE i \in DOMAIN segments[k].spans
        <5>1. segments'[k].spans[i] = segments[k].spans[i] /\ segments'[k].id = segments[k].id
          BY <2>1, <2>2, <4>1
        <5>2. QED
          BY <1>1, <3>3, <4>1, <5>1 DEF IInv, SpansInv
      <4>2. CASE i \notin DOMAIN segments[k].spans
        <5>1. /\ i = frame.span /\ segments'[k].id = frame.segment
              /\ segments'[k].spans[i].error = FALSE /\ segments'[k].spans[i].failed = FALSE
          BY <2>1, <2>2, <4>2
        <5>2. \E d \in Coroutines : \E j \in DOMAIN stack'[d] :
                  stack'[d][j].span = i /\ stack'[d][j].segment = segments'[k].id
          <6>1. top \in DOMAIN stack'[c]
            BY <3>1
          <6>2. QED
            BY <3>1, <5>1, <6>1
        <5>3. QED
          BY <5>1, <5>2, Zenon
      <4>3. QED
        BY <4>1, <4>2
    <3>9. CallsAreTransparent'
      BY <1>1, <2>1, <2>8 DEF IInv, CallsAreTransparent
    <3>10. QED
      BY <2>4, <2>5, <2>6, <2>7, <3>4, <3>5, <3>6, <3>7, <3>8, <3>9 DEF IInv
  \* A call of guzzle that nothing executes has no frame.
  <2>9. CASE UNCHANGED stack /\ OfGuzzle(call) /\ disturbed' = Disturbed(call, 0, frame.throws)
    <3>1. TypeInv'
      BY <1>1, <2>1, <2>9 DEF IInv, TypeInv
    <3>2. SapiInv'
      BY <1>1, <2>1, <2>9 DEF IInv, SapiInv, IsHandler
    <3>3. FramesInv'
      <4> SUFFICES ASSUME NEW d \in Coroutines, NEW i \in DOMAIN stack[d]
                   PROVE  LET held == stack[d][i]
                          IN  IF IsHandler(held) THEN held.key \in Keys /\ held.span = 0
                              ELSE /\ held.key = -1
                                   /\ held.throws => StoresObject(held.call)
                                   /\ held.segment <= requests'
                                   /\ held.span # 0 =>
                                         /\ held.segment # 0
                                         /\ \A k \in Keys : segments'[k].id = held.segment =>
                                               /\ held.span \in DOMAIN segments'[k].spans
                                               /\ segments'[k].spans[held.span].call = held.call
        BY <2>9 DEF FramesInv, IsHandler
      <4>1. CASE IsHandler(stack[d][i])
        BY <4>1 DEF IInv, FramesInv
      <4>2. CASE ~IsHandler(stack[d][i])
        <5>1. /\ stack[d][i].key = -1
              /\ stack[d][i].throws => StoresObject(stack[d][i].call)
              /\ stack[d][i].segment <= requests
          BY <4>2 DEF IInv, FramesInv
        <5>2. QED
          BY <1>1, <2>held, <4>2, <5>1
      <4>3. QED
        BY <4>1, <4>2
    <3>4. HandlersInv'
      <4> SUFFICES ASSUME ~shared PROVE HandlersInv'
        BY <1>1 DEF HandlersInv
      <4>1. ASSUME NEW d \in Coroutines, NEW i \in DOMAIN stack[d], stack[d][i].span # 0
            PROVE  \E j \in 1..(i - 1) : /\ IsHandler(stack[d][j])
                                         /\ segments'[stack[d][j].key].id = stack[d][i].segment
        <5>1. PICK j \in 1..(i - 1) : /\ IsHandler(stack[d][j])
                                      /\ segments[stack[d][j].key].id = stack[d][i].segment
          BY <4>1 DEF IInv, HandlersInv
        <5>2. j \in DOMAIN stack[d]
          BY <4>1, <5>1 DEF IInv, TypeInv
        <5>3. stack[d][j].key \in Keys
          BY <5>1, <5>2 DEF IInv, FramesInv
        <5>4. QED
          BY <2>1, <5>1, <5>3
      <4>2. QED
        BY <2>9, <4>1 DEF IInv, HandlersInv, IsHandler
    <3>5. SpansInv'
      <4> SUFFICES ASSUME NEW k \in Keys, NEW i \in DOMAIN segments'[k].spans
                   PROVE  LET span == segments'[k].spans[i]
                          IN  /\ span.error = (span.failed /\ NoticesFailure(span.call))
                              /\ ~shared' /\ ~bailed' =>
                                    \/ span.ended
                                    \/ OfGuzzle(span.call)
                                    \/ \E d \in Coroutines : \E j \in DOMAIN stack'[d] :
                                          stack'[d][j].span = i /\ stack'[d][j].segment = segments'[k].id
        BY Zenon DEF SpansInv
      <4>1. CASE i \in DOMAIN segments[k].spans
        <5>1. segments'[k].spans[i] = segments[k].spans[i] /\ segments'[k].id = segments[k].id
          BY <2>1, <2>2, <4>1
        <5>2. QED
          BY <1>1, <2>9, <4>1, <5>1 DEF IInv, SpansInv
      <4>2. CASE i \notin DOMAIN segments[k].spans
        <5>1. /\ segments'[k].spans[i].call = call
              /\ segments'[k].spans[i].error = FALSE /\ segments'[k].spans[i].failed = FALSE
          BY <2>2, <4>2
        <5>2. QED
          BY <2>9, <5>1, Zenon
      <4>3. QED
        BY <4>1, <4>2
    <3>6. CallsAreTransparent'
      <4>1. disturbed' = disturbed \union {[call |-> call, runs |-> 0, throws |-> frame.throws]}
        BY <2>9 DEF Disturbed
      <4>2. QED
        BY <1>1, <2>1, <2>9, <4>1 DEF IInv, CallsAreTransparent
    <3>7. QED
      BY <2>4, <2>5, <2>6, <2>7, <3>1, <3>2, <3>3, <3>4, <3>5, <3>6 DEF IInv
  <2>10. QED
    BY <1>3, <2>8, <2>9 DEF Begun
<1>4. QED
  BY <1>2, <1>3, CallOpens, Zenon

-----------------------------------------------------------------------------
\* Every step of the system keeps the inductive invariant.
LEMMA NextKeeps == IInv /\ [Next]_vars => IInv'
<1> SUFFICES ASSUME IInv, [Next]_vars PROVE IInv'
  OBVIOUS
<1>1. CASE ModuleInit
  BY <1>1, ModuleInitKeeps
<1>2. CASE ModuleCleanup
  BY <1>2, ModuleCleanupKeeps
<1>3. CASE FpmRequestBegins
  BY <1>3, FpmRequestBeginsKeeps
<1>4. CASE Bailout
  BY <1>4, BailoutKeeps
<1>5. ASSUME NEW c \in Coroutines, NEW key \in Fds, SwooleRequestBegins(c, key) PROVE IInv'
  BY <1>5, SwooleRequestBeginsKeeps
<1>6. ASSUME NEW c \in Coroutines, RequestReturns(c) PROVE IInv'
  BY <1>6, RequestReturnsKeeps
<1>7. ASSUME NEW c \in Coroutines, NEW call \in Calls, CallBegins(c, call) PROVE IInv'
  BY <1>7, CallBeginsKeeps
<1>8. ASSUME NEW c \in Coroutines, NEW failed \in BOOLEAN, CallReturns(c, failed) PROVE IInv'
  BY <1>8, CallReturnsKeeps
<1>9. ASSUME NEW isError \in BOOLEAN, PhpError(isError) PROVE IInv'
  BY <1>9, PhpErrorKeeps
<1>10. CASE UNCHANGED vars
  BY <1>10, StutterKeeps
<1>11. QED
  BY <1>1, <1>2, <1>3, <1>4, <1>5, <1>6, <1>7, <1>8, <1>9, <1>10, Zenon DEF Next

\* Every state of the hooks satisfies the inductive invariant.
THEOREM ExecuteInvariant == Spec => []IInv
<1>1. QED
  BY InitEstablishes, NextKeeps, PTL DEF Spec

\* The agent is not seen by the script: sky_execute_ex and
\* sky_execute_internal run every call once, but for the calls named there.
THEOREM Transparent == Spec => []CallsAreTransparent
<1>1. IInv => CallsAreTransparent
  BY DEF IInv
<1>2. QED
  BY <1>1, ExecuteInvariant, PTL

\* Of a request that the limiter rejects only the four plugins that do not
\* ask whether the segment is skipped record a span.
THEOREM Silent == Spec => []UnsampledAreSilent
<1>1. IInv => UnsampledAreSilent
  BY DEF IInv
<1>2. QED
  BY <1>1, ExecuteInvariant, PTL

\* The peer of every span is where its call goes, and the callees that are
\* told of the trace get its header, with the exceptions named there.
THEOREM Leading == Spec => []SpansLeadToTheServer
<1>1. IInv => SpansLeadToTheServer
  BY DEF IInv
<1>2. QED
  BY <1>1, ExecuteInvariant, PTL

\* What a segment says of its calls when sky_request_flush sends it.
LEMMA FlushedIsComplete ==
    ASSUME IInv, NEW c \in Coroutines, NEW k \in Keys,
           RequestReturns(c), segments[k] # segments'[k], ~segments[k].skip, ~shared, ~bailed
    PROVE  /\ sapi = "fpm" => segments[k].error = raised
           /\ \A span \in ToSet(segments[k].spans) :
                 /\ span.ended \/ OfGuzzle(span.call)
                 /\ span.error = (span.failed /\ NoticesFailure(span.call))
<1> DEFINE top == Len(stack[c])
\* The handler that returns is the one of the segment.
<1>1. /\ IsHandler(stack[c][top]) /\ stack[c][top].key = k /\ top \in DOMAIN stack[c]
      /\ DOMAIN stack[c] = 1..top /\ top \in Nat
  <2>1. stack[c] # <<>> /\ IsHandler(Last(stack[c])) /\ stack[c] \in Seq(Frames)
    BY DEF RequestReturns, IInv, TypeInv
  <2>2. Last(stack[c]) = stack[c][top] /\ top \in DOMAIN stack[c] /\ DOMAIN stack[c] = 1..top /\ top \in Nat
    BY <2>1 DEF Last
  <2>3. segments' = [segments EXCEPT ![stack[c][top].key] = NoSegment] \/ segments' = segments
    BY <2>2 DEF RequestReturns
  <2>4. stack[c][top].key = k
    BY <2>3 DEF IInv, TypeInv
  <2>5. QED
    BY <2>1, <2>2, <2>4
<1>2. segments[k].id # 0
  <2>1. segments'[k] \in {segments[k], NoSegment}
    BY DEF RequestReturns, IInv, TypeInv
  <2>2. QED
    BY <2>1 DEF IInv, SegmentsInv
<1> HIDE DEF top
<1>3. sapi = "fpm" => segments[k].error = raised
  BY <1>2 DEF IInv, SapiInv, ErrorInv
<1>4. ASSUME NEW i \in DOMAIN segments[k].spans
      PROVE  LET span == segments[k].spans[i]
             IN  /\ span.ended \/ OfGuzzle(span.call)
                 /\ span.error = (span.failed /\ NoticesFailure(span.call))
  \* No frame above the handler is left to end the span.
  <2>1. ASSUME NEW d \in Coroutines, NEW j \in DOMAIN stack[d],
               stack[d][j].span = i, stack[d][j].segment = segments[k].id
        PROVE  FALSE
    <3>1. i # 0
      BY DEF IInv, TypeInv, Segments
    <3>2. PICK l \in 1..(j - 1) : /\ IsHandler(stack[d][l])
                                  /\ segments[stack[d][l].key].id = segments[k].id
      BY <2>1, <3>1 DEF IInv, HandlersInv
    <3>3. l \in DOMAIN stack[d] /\ l < j
      BY <3>2 DEF IInv, TypeInv
    <3>4. stack[d][l].key = k
      BY <1>2, <3>2, <3>3 DEF IInv, SegmentsInv, FramesInv
    <3>5. d = c /\ l = top
      BY <1>1, <3>2, <3>3, <3>4 DEF IInv, HandlersInv
    <3>6. QED
      BY <1>1, <3>3, <3>5
  <2>2. QED
    BY <2>1 DEF IInv, SpansInv
<1>5. QED
  BY <1>3, <1>4 DEF ToSet

\* A segment that is sent tells all its calls, as complete as they were.
THEOREM SpansComplete == Spec => SentSpansAreComplete
<1>1. IInv => \A c \in Coroutines, k \in Keys :
          (RequestReturns(c) /\ segments[k] # segments'[k] /\ ~segments[k].skip /\ ~shared /\ ~bailed) =>
              /\ sapi = "fpm" => segments[k].error = raised
              /\ \A span \in ToSet(segments[k].spans) :
                    /\ span.ended \/ OfGuzzle(span.call)
                    /\ span.error = (span.failed /\ NoticesFailure(span.call))
  BY FlushedIsComplete
<1>2. QED
  BY <1>1, ExecuteInvariant, PTL DEF SentSpansAreComplete

-----------------------------------------------------------------------------
\* The rate limiter, for every rate, every window and every resolution of the
\* clock: no window of the clock lets more than the rate through, and none
\* refuses before.

W == WindowLength

\* The beginnings of windows, and the one before t.
Multiple(t) == \E n \in Nat : t = W * n
WindowStart(t) == W * Window(t)

LEMMA WType == /\ TimeWindow \in Nat \ {0} /\ TicksPerSecond \in Nat \ {0}
               /\ W = TimeWindow * TicksPerSecond /\ W \in Nat \ {0}
<1>1. TimeWindow \in Nat \ {0} /\ TicksPerSecond \in Nat \ {0}
  BY RateLimiterAssumption DEF RateLimiterAssumption, TimeWindow
<1>2. \A a, b \in Nat \ {0} : a * b \in Nat \ {0}
  OBVIOUS
<1>3. QED
  BY <1>1, <1>2 DEF W, WindowLength

LEMMA Division ==
    ASSUME NEW a \in Nat, NEW d \in Nat \ {0}
    PROVE  /\ a \div d \in Nat /\ a % d \in 0..(d - 1) /\ a = d * (a \div d) + (a % d)
OBVIOUS

\* Every time lies in the window that begins at WindowStart.
LEMMA InWindow ==
    ASSUME NEW t \in Nat
    PROVE  /\ Window(t) \in Nat /\ WindowStart(t) \in Nat /\ Multiple(WindowStart(t))
           /\ WindowStart(t) <= t /\ t < WindowStart(t) + W
           /\ t % W = 0 <=> t = WindowStart(t)
<1>1. W \in Nat \ {0}
  BY WType
<1>2. /\ t \div W \in Nat /\ t % W \in 0..(W - 1) /\ t = W * (t \div W) + (t % W)
  BY <1>1, Division
<1>3. Window(t) = t \div W
  BY DEF Window, W
<1>4. W * (t \div W) \in Nat
  BY <1>1, <1>2
<1>5. QED
  BY <1>1, <1>2, <1>3, <1>4 DEF WindowStart, Multiple

\* Windows are a whole window apart.
LEMMA Apart ==
    ASSUME NEW s \in Nat, NEW t \in Nat, Multiple(s), Multiple(t), s < t
    PROVE  s + W <= t
<1>1. PICK m \in Nat, n \in Nat : s = W * m /\ t = W * n
  BY DEF Multiple
<1>2. W \in Nat \ {0}
  BY WType
<1>3. m < n
  <2>1. ASSUME n <= m PROVE W * n <= W * m
    BY <1>2, <2>1
  <2>2. QED
    BY <1>1, <2>1
<1>4. W * (m + 1) <= W * n
  BY <1>2, <1>3
<1>5. W * (m + 1) = s + W
  BY <1>1, <1>2
<1>6. QED
  BY <1>1, <1>4, <1>5

\* A beginning not later than t, and less than a window before it, is the
\* beginning of its window.
LEMMA TheStart ==
    ASSUME NEW s \in Nat, NEW t \in Nat, Multiple(s), s <= t, t < s + W
    PROVE  s = WindowStart(t)
<1>1. /\ WindowStart(t) \in Nat /\ Multiple(WindowStart(t))
      /\ WindowStart(t) <= t /\ t < WindowStart(t) + W
  BY InWindow
<1>2. W \in Nat
  BY WType
<1>3. ~(s < WindowStart(t))
  BY <1>1, <1>2, Apart
<1>4. ~(WindowStart(t) < s)
  BY <1>1, <1>2, Apart
<1>5. QED
  BY <1>1, <1>3, <1>4

\* TimeSpan is the largest whole number of windows in the span.
LEMMA TimeSpanIsWhole ==
    ASSUME NEW n \in Nat, n = elapsed
    PROVE  /\ TimeSpan \in Nat /\ Multiple(TimeSpan)
           /\ TimeSpan <= n /\ n < TimeSpan + W
<1> DEFINE T == TimeWindow
           S == TicksPerSecond
           seconds == n \div S
           q == seconds \div T
           r == seconds % T
           rest == n % S
<1>1. T \in Nat \ {0} /\ S \in Nat \ {0} /\ W = T * S /\ W \in Nat \ {0}
  BY WType
<1>2. seconds \in Nat /\ rest \in 0..(S - 1) /\ n = S * seconds + rest
  BY <1>1, Division
<1>3. q \in Nat /\ r \in 0..(T - 1) /\ seconds = T * q + r
  BY <1>1, <1>2, Division
<1>4. TimeSpan = (seconds - r) * S
  BY DEF TimeSpan
<1> HIDE DEF T, S, seconds, q, r, rest
<1>5. seconds - r = T * q
  <2>1. T * q \in Int
    BY <1>1, <1>3
  <2>2. QED
    BY <1>2, <1>3, <2>1
<1>6. (T * q) * S = (T * S) * q
  BY <1>1, <1>3
<1>7. TimeSpan = W * q
  BY <1>1, <1>4, <1>5, <1>6
<1>8. S * seconds = W * q + S * r
  <2>1. S * (T * q + r) = (T * S) * q + S * r
    BY <1>1, <1>3
  <2>2. QED
    BY <1>1, <1>3, <2>1
<1>9. S * r \in Nat /\ S * r <= W - S
  <2>1. S * r <= S * (T - 1)
    BY <1>1, <1>3
  <2>2. S * (T - 1) = T * S - S /\ S * r \in Nat
    BY <1>1, <1>3
  <2>3. QED
    BY <1>1, <2>1, <2>2
<1>10. W * q \in Nat
  BY <1>1, <1>3
<1>11. n = W * q + (S * r + rest) /\ S * r + rest <= W - 1 /\ S * r + rest >= 0
  BY <1>1, <1>2, <1>8, <1>9, <1>10
<1>12. QED
  BY <1>1, <1>2, <1>3, <1>7, <1>9, <1>10, <1>11 DEF Multiple

\* Beginnings add up.
LEMMA MultiplesAdd ==
    ASSUME NEW s \in Nat, NEW t \in Nat, Multiple(s), Multiple(t)
    PROVE  Multiple(s + t)
<1>1. PICK m \in Nat, n \in Nat : s = W * m /\ t = W * n
  BY DEF Multiple
<1>2. W \in Nat
  BY WType
<1>3. W * (m + n) = W * m + W * n /\ m + n \in Nat
  BY <1>2
<1>4. QED
  BY <1>1, <1>3 DEF Multiple

-----------------------------------------------------------------------------
\* The clock's window of the last call, and whether it is the first instant.
Begin == WindowStart(begun)
AtEdge == begun > 0 /\ begun = Begin

\* Where a call is, and what it knows of the clock.
CallInv ==
    /\ resetLock <=> pc \in {"check", "reset"}
    /\ pc = "unlimited" => rate < 1
    /\ pc \in {"exchange", "check", "reset"} =>
          rate >= 1 /\ elapsed = begun - startTime /\ elapsed > W
    /\ pc = "count" => rate >= 1
    /\ pc = "count" /\ startTime < Begin => elapsed >= W
    /\ pc = "count" /\ startTime = Begin => elapsed < W \/ currentCount = 0
    /\ pc # "idle" => validations >= 1 /\ {currentCount, passed, atEdge} \subseteq 0..(validations - 1)

\* The limiter's window begins with one of the clock, never later than the
\* last call's.
StartInv == Multiple(startTime) /\ startTime <= Begin /\ begun <= now

\* While the limiter is still in an earlier window, only a spurious failure
\* lets a request pass; once it has moved on, what passes is counted.
CountInv ==
    rate >= 1 =>
        /\ startTime < Begin =>
              passed + (IF pc = "count" /\ ~AtEdge THEN 1 ELSE 0) <= spurious
        /\ startTime = Begin =>
              /\ passed <= currentCount + spurious
              /\ passed + atEdge >= (IF currentCount < rate THEN currentCount ELSE rate)

LimiterIInv == LimiterTypeOK /\ CallInv /\ StartInv /\ CountInv /\ LimitKept

\* What the arithmetic says of the last call.
LEMMA Begins ==
    ASSUME LimiterTypeOK
    PROVE  /\ now \in Nat /\ begun \in Nat /\ startTime \in Nat /\ elapsed \in Nat
           /\ rate \in Int /\ W \in Nat \ {0} /\ W = WindowLength
           /\ Begin \in Nat /\ Multiple(Begin) /\ Begin <= begun /\ begun < Begin + W
           /\ {validations, currentCount, passed, atEdge, spurious} \subseteq Nat
           /\ AtEdge <=> begun > 0 /\ begun % WindowLength = 0
<1>1. /\ now \in Nat /\ begun \in Nat /\ startTime \in Nat /\ elapsed \in Nat
      /\ rate \in Int /\ {validations, currentCount, passed, atEdge, spurious} \subseteq Nat
  BY RateLimiterAssumption DEF RateLimiterAssumption, LimiterTypeOK
<1>2. W \in Nat \ {0} /\ W = WindowLength
  BY WType DEF W
<1>3. /\ Begin \in Nat /\ Multiple(Begin) /\ Begin <= begun /\ begun < Begin + W
      /\ begun % W = 0 <=> begun = Begin
  BY <1>1, InWindow DEF Begin
<1>4. QED
  BY <1>1, <1>2, <1>3 DEF AtEdge

LEMMA LimiterInitIInv == LimiterInit => LimiterIInv
<1> SUFFICES ASSUME LimiterInit PROVE LimiterIInv
  OBVIOUS
<1>1. LimiterTypeOK
  <2>1. {MaxTime, MaxValidations, MaxSpurious} \subseteq Nat
    BY RateLimiterAssumption DEF RateLimiterAssumption
  <2>2. 0 \in 0..MaxTime /\ 0 \in 0..MaxValidations /\ 0 \in 0..MaxSpurious
    BY <2>1
  <2>3. {currentCount, passed, atEdge} \subseteq 0..validations
    BY DEF LimiterInit
  <2>4. QED
    BY <2>2, <2>3 DEF LimiterInit, LimiterTypeOK
<1>2. Begin = 0
  BY <1>1, Begins DEF LimiterInit
<1>3. Multiple(0)
  BY WType DEF Multiple
<1>4. rate \in Int /\ W \in Nat \ {0}
  BY <1>1, Begins
<1>5. QED
  BY <1>1, <1>2, <1>3, <1>4 DEF LimiterInit, LimiterIInv, CallInv, StartInv, CountInv, LimitKept

\* A call begins: a new window has no history, and in the same one the span
\* tells whether the limiter has moved on.
LEMMA StepValidate == LimiterIInv /\ Validate => LimiterIInv'
<1> SUFFICES ASSUME LimiterIInv, Validate PROVE LimiterIInv'
  OBVIOUS
<1>0. LimiterTypeOK /\ CallInv /\ StartInv /\ CountInv /\ LimitKept
  BY DEF LimiterIInv
<1>1. /\ now \in Nat /\ begun \in Nat /\ startTime \in Nat /\ rate \in Int
      /\ W \in Nat \ {0} /\ W = WindowLength
      /\ Begin \in Nat /\ Multiple(Begin) /\ Begin <= begun /\ begun < Begin + W
      /\ {validations, currentCount, passed, atEdge, spurious} \subseteq Nat
  BY <1>0, Begins
<1>2. /\ pc = "idle" /\ validations' = validations + 1 /\ validations < MaxValidations
      /\ begun' = now /\ elapsed' = now - startTime
      /\ pc' = IF rate < 1 THEN "unlimited" ELSE IF elapsed' > W THEN "exchange" ELSE "count"
      /\ UNCHANGED <<now, rate, startTime, currentCount, resetLock, answer, spurious>>
  BY <1>1 DEF Validate, limiter
<1>3. /\ Begin' = WindowStart(now) /\ Begin' \in Nat /\ Multiple(Begin')
      /\ Begin' <= now /\ now < Begin' + W
  BY <1>1, <1>2, InWindow DEF Begin
<1>4. startTime <= Begin /\ begun <= now /\ Multiple(startTime)
  BY <1>0 DEF StartInv
<1>5. Begin <= Begin'
  <2>1. ~(Begin' < Begin)
    BY <1>1, <1>3, <1>4, Apart
  <2>2. QED
    BY <1>1, <1>3, <2>1
<1>6. /\ startTime <= Begin' /\ elapsed' \in 0..now
  BY <1>1, <1>2, <1>3, <1>4, <1>5
<1>7. /\ Begin' = Begin => UNCHANGED <<passed, atEdge>>
      /\ Begin' # Begin => passed' = 0 /\ atEdge' = 0
  <2>1. Window(now) = Window(begun) <=> Begin' = Begin
    <3>1. Begin' = W * Window(now) /\ Begin = W * Window(begun)
      BY <1>2 DEF Begin, WindowStart
    <3>2. Window(now) \in Nat /\ Window(begun) \in Nat
      BY <1>1, InWindow
    <3>3. \A a, b \in Nat : W * a = W * b => a = b
      BY <1>1
    <3>4. QED
      BY <3>1, <3>2, <3>3
  <2>2. IF Window(now) = Window(begun) THEN UNCHANGED <<passed, atEdge>>
        ELSE passed' = 0 /\ atEdge' = 0
    BY DEF Validate
  <2>3. QED
    BY <2>1, <2>2
<1>8. /\ startTime < Begin' => elapsed' >= W /\ (elapsed' = W => now = Begin')
      /\ startTime = Begin' => elapsed' < W
  <2>1. startTime < Begin' => startTime + W <= Begin'
    BY <1>1, <1>3, <1>4, Apart
  <2>2. QED
    BY <1>1, <1>2, <1>3, <2>1
<1>9. {currentCount, passed, atEdge} \subseteq 0..validations
  BY <1>0 DEF LimiterTypeOK
<1>10. passed' \in 0..validations /\ atEdge' \in 0..validations /\ passed' <= passed
  BY <1>1, <1>7, <1>9
<1>11. LimiterTypeOK'
  <2>1. begun' \in 0..MaxTime /\ elapsed' \in 0..MaxTime /\ validations' \in 0..MaxValidations
    <3>1. now \in 0..MaxTime /\ MaxTime \in Nat /\ MaxValidations \in Nat
      BY <1>0, RateLimiterAssumption DEF RateLimiterAssumption, LimiterTypeOK
    <3>2. QED
      BY <1>1, <1>2, <1>6, <3>1
  <2>2. {currentCount', passed', atEdge'} \subseteq 0..validations'
    BY <1>1, <1>2, <1>9, <1>10
  <2>3. pc' \in {"idle", "exchange", "check", "reset", "count", "unlimited"}
    BY <1>2
  <2>4. QED
    BY <1>0, <1>2, <2>1, <2>2, <2>3 DEF LimiterTypeOK
<1>12. CallInv'
  <2>1. ~resetLock
    BY <1>0, <1>2 DEF CallInv
  <2>2. {currentCount', passed', atEdge'} \subseteq 0..(validations' - 1) /\ validations' >= 1
    BY <1>1, <1>2, <1>9, <1>10
  <2>3. W' = W
    BY DEF W, WindowLength, TimeWindow
  <2>4. QED
    BY <1>1, <1>2, <1>8, <2>1, <2>2, <2>3 DEF CallInv
<1>13. StartInv'
  BY <1>1, <1>2, <1>3, <1>4, <1>6 DEF StartInv, Multiple
<1>14. CountInv'
  <2>1. SUFFICES ASSUME rate >= 1
                 PROVE  /\ startTime < Begin' =>
                              passed' + (IF pc' = "count" /\ ~AtEdge' THEN 1 ELSE 0) <= spurious
                        /\ startTime = Begin' =>
                              /\ passed' <= currentCount + spurious
                              /\ passed' + atEdge' >= (IF currentCount < rate THEN currentCount ELSE rate)
    BY <1>2 DEF CountInv
  <2>2. CASE startTime < Begin'
    <3>1. pc' = "count" => now = Begin'
      BY <1>1, <1>2, <1>6, <1>8, <2>1, <2>2
    <3>2. pc' = "count" => AtEdge'
      BY <1>1, <1>2, <1>3, <2>2, <3>1 DEF AtEdge
    <3>3. passed' <= spurious
      BY <1>0, <1>1, <1>2, <1>4, <1>5, <1>7, <2>1, <2>2 DEF CountInv
    <3>4. passed' \in Nat
      BY <1>10
    <3>5. QED
      BY <1>1, <2>2, <3>2, <3>3, <3>4
  <2>3. CASE startTime = Begin'
    <3>1. Begin' = Begin
      BY <1>1, <1>3, <1>4, <1>5, <2>3
    <3>2. QED
      BY <1>0, <1>1, <1>7, <2>1, <2>3, <3>1 DEF CountInv
  <2>4. QED
    BY <2>2, <2>3
<1>15. LimitKept'
  BY <1>0, <1>1, <1>2, <1>10 DEF LimitKept
<1>16. QED
  BY <1>11, <1>12, <1>13, <1>14, <1>15 DEF LimiterIInv

\* The steps within a call leave its beginning alone; the first instant of a
\* window is told by the remainder in the code.
LEMMA StepCall ==
    LimiterIInv /\ (Unlimited \/ ExchangeOk \/ ExchangeFails \/ CheckAgain \/ Reset \/ Count) => LimiterIInv'
<1> SUFFICES ASSUME LimiterIInv,
                    Unlimited \/ ExchangeOk \/ ExchangeFails \/ CheckAgain \/ Reset \/ Count
             PROVE  LimiterIInv'
  OBVIOUS
<1>0. LimiterTypeOK /\ CallInv /\ StartInv /\ CountInv /\ LimitKept
  BY DEF LimiterIInv
<1>1. /\ now \in Nat /\ begun \in Nat /\ startTime \in Nat /\ elapsed \in Nat /\ rate \in Int
      /\ W \in Nat \ {0} /\ W = WindowLength
      /\ Begin \in Nat /\ Multiple(Begin) /\ Begin <= begun /\ begun < Begin + W
      /\ {validations, currentCount, passed, atEdge, spurious} \subseteq Nat
      /\ AtEdge <=> begun > 0 /\ begun % WindowLength = 0
  BY <1>0, Begins
<1>2. UNCHANGED <<now, begun, rate, validations>>
  BY DEF Unlimited, ExchangeOk, ExchangeFails, CheckAgain, Reset, Count, limiter
<1>3. Begin' = Begin /\ AtEdge' = AtEdge /\ W' = W
  BY <1>2 DEF Begin, WindowStart, Window, AtEdge, W, WindowLength, TimeWindow
<1>4. startTime <= Begin /\ begun <= now /\ Multiple(startTime)
  BY <1>0 DEF StartInv
<1>5. startTime < Begin => startTime + W <= Begin
  BY <1>1, <1>4, Apart
<1>6. /\ pc # "idle" /\ validations >= 1
      /\ currentCount <= validations - 1 /\ passed <= validations - 1 /\ atEdge <= validations - 1
  BY <1>0, <1>1 DEF CallInv, Unlimited, ExchangeOk, ExchangeFails, CheckAgain, Reset, Count
<1>7. ASSUME NEW edge \in BOOLEAN, edge = AtEdge,
             answer' = "true",
             passed' = IF edge THEN passed ELSE passed + 1,
             atEdge' = IF edge THEN atEdge + 1 ELSE atEdge
      PROVE  /\ passed' \in 0..validations /\ atEdge' \in 0..validations /\ passed' \in Nat /\ atEdge' \in Nat
             /\ passed' + atEdge' = passed + atEdge + 1
             /\ passed' <= passed + 1 /\ (AtEdge => passed' = passed)
  BY <1>1, <1>6, <1>7
<1>8. LetThrough(begun) =>
          /\ passed' \in 0..validations /\ atEdge' \in 0..validations /\ passed' \in Nat /\ atEdge' \in Nat
          /\ passed' + atEdge' = passed + atEdge + 1
          /\ passed' <= passed + 1 /\ (AtEdge => passed' = passed) /\ answer' = "true"
  <2>1. SUFFICES ASSUME LetThrough(begun)
                 PROVE  \E edge \in BOOLEAN :
               /\ edge = AtEdge /\ answer' = "true"
               /\ passed' = IF edge THEN passed ELSE passed + 1
               /\ atEdge' = IF edge THEN atEdge + 1 ELSE atEdge
    BY <1>7
  <2>2. (begun > 0 /\ begun % WindowLength = 0) = AtEdge
    BY <1>1 DEF AtEdge
  <2>3. AtEdge \in BOOLEAN
    BY DEF AtEdge
  <2>4. QED
    BY <2>1, <2>2, <2>3 DEF LetThrough
<1>9. CASE Unlimited
  <2>1. /\ pc = "unlimited" /\ pc' = "idle" /\ LetThrough(begun)
        /\ UNCHANGED <<startTime, currentCount, resetLock, elapsed, spurious>>
    BY <1>9 DEF Unlimited, limiter
  <2>2. rate < 1
    BY <1>0, <2>1 DEF CallInv
  <2>3. {currentCount', passed', atEdge'} \subseteq 0..validations'
    BY <1>1, <1>2, <1>6, <1>8, <2>1
  <2>4. LimiterTypeOK'
    BY <1>0, <1>2, <1>8, <2>1, <2>3 DEF LimiterTypeOK
  <2>5. CallInv'
    BY <1>0, <1>2, <2>1 DEF CallInv
  <2>6. StartInv' /\ CountInv' /\ LimitKept'
    BY <1>1, <1>2, <1>3, <1>4, <2>1, <2>2 DEF StartInv, CountInv, LimitKept, Multiple
  <2>7. QED
    BY <2>4, <2>5, <2>6 DEF LimiterIInv
<1>10. CASE ExchangeOk
  <2>1. /\ pc = "exchange" /\ pc' = "check" /\ resetLock' = TRUE
        /\ UNCHANGED <<startTime, currentCount, elapsed, answer, passed, atEdge, spurious>>
    BY <1>10 DEF ExchangeOk, limiterHistory
  <2>2. LimiterTypeOK' /\ CallInv'
    BY <1>0, <1>2, <1>3, <2>1 DEF LimiterTypeOK, CallInv
  <2>3. StartInv' /\ CountInv' /\ LimitKept'
    BY <1>0, <1>1, <1>2, <1>3, <2>1 DEF StartInv, CountInv, LimitKept, Multiple
  <2>4. QED
    BY <2>2, <2>3 DEF LimiterIInv
<1>11. CASE ExchangeFails
  <2>1. /\ pc = "exchange" /\ pc' = "count" /\ ~resetLock /\ spurious' = spurious + 1
        /\ spurious < MaxSpurious
        /\ UNCHANGED <<startTime, currentCount, resetLock, elapsed, answer, passed, atEdge>>
    BY <1>0, <1>11 DEF ExchangeFails, limiter, CallInv
  <2>2. rate >= 1 /\ elapsed = begun - startTime /\ elapsed > W
    BY <1>0, <2>1 DEF CallInv
  <2>3. startTime < Begin
    BY <1>1, <1>4, <2>2
  <2>4. spurious' \in 0..MaxSpurious
    BY <1>1, <2>1, RateLimiterAssumption DEF RateLimiterAssumption
  <2>5. LimiterTypeOK' /\ CallInv'
    BY <1>0, <1>1, <1>2, <1>3, <2>1, <2>2, <2>3, <2>4 DEF LimiterTypeOK, CallInv
  <2>6. passed <= spurious
    BY <1>0, <1>1, <2>1, <2>2, <2>3 DEF CountInv
  <2>7. StartInv'
    BY <1>0, <1>1, <1>2, <1>3, <2>1 DEF StartInv, Multiple
  <2>8. CountInv'
    BY <1>1, <1>2, <1>3, <2>1, <2>3, <2>6 DEF CountInv
  <2>9. LimitKept'
    BY <1>0, <1>1, <1>2, <2>1 DEF LimitKept
  <2>10. QED
    BY <2>5, <2>7, <2>8, <2>9 DEF LimiterIInv
<1>12. CASE CheckAgain
  <2>1. /\ pc = "check"
        /\ pc' = IF now - startTime > W THEN "reset" ELSE "count"
        /\ UNCHANGED <<startTime, currentCount, resetLock, elapsed, answer, passed, atEdge, spurious>>
    BY <1>1, <1>12 DEF CheckAgain, limiter, limiterHistory
  <2>2. rate >= 1 /\ elapsed = begun - startTime /\ elapsed > W
    BY <1>0, <2>1 DEF CallInv
  <2>3. pc' = "reset"
    BY <1>1, <1>4, <2>1, <2>2
  <2>4. LimiterTypeOK' /\ CallInv'
    BY <1>0, <1>2, <1>3, <2>1, <2>3 DEF LimiterTypeOK, CallInv
  <2>5. StartInv' /\ CountInv' /\ LimitKept'
    BY <1>0, <1>1, <1>2, <1>3, <2>1, <2>3 DEF StartInv, CountInv, LimitKept, Multiple
  <2>6. QED
    BY <2>4, <2>5 DEF LimiterIInv
<1>13. CASE Reset
  <2>1. /\ pc = "reset" /\ pc' = "count" /\ startTime' = startTime + TimeSpan
        /\ elapsed' = now - startTime' /\ currentCount' = 0 /\ resetLock' = FALSE
        /\ UNCHANGED <<answer, passed, atEdge, spurious>>
    BY <1>13 DEF Reset, limiterHistory
  <2>2. rate >= 1 /\ elapsed = begun - startTime /\ elapsed > W
    BY <1>0, <2>1 DEF CallInv
  <2>3. /\ TimeSpan \in Nat /\ Multiple(TimeSpan) /\ TimeSpan <= elapsed /\ elapsed < TimeSpan + W
    BY <1>1, TimeSpanIsWhole
  <2>4. startTime' = Begin
    <3>1. Multiple(startTime + TimeSpan)
      BY <1>1, <1>4, <2>3, MultiplesAdd
    <3>2. startTime + TimeSpan \in Nat /\ startTime + TimeSpan <= begun
          /\ begun < (startTime + TimeSpan) + W
      BY <1>1, <2>2, <2>3
    <3>3. startTime + TimeSpan = WindowStart(begun)
      BY <1>1, <3>1, <3>2, TheStart
    <3>4. QED
      BY <2>1, <3>3 DEF Begin
  <2>5. startTime < Begin
    BY <1>1, <1>4, <2>2
  <2>6. startTime' \in 0..MaxTime /\ elapsed' \in 0..MaxTime
    <3>1. now \in 0..MaxTime /\ MaxTime \in Nat
      BY <1>0, RateLimiterAssumption DEF LimiterTypeOK, RateLimiterAssumption
    <3>2. QED
      BY <1>1, <1>4, <2>1, <2>4, <3>1
  <2>7. {currentCount', passed', atEdge'} \subseteq 0..(validations' - 1)
    BY <1>1, <1>2, <1>6, <2>1
  <2>8. LimiterTypeOK'
    <3>1. {currentCount', passed', atEdge'} \subseteq 0..validations'
      BY <1>1, <1>2, <2>7
    <3>2. QED
      BY <1>0, <1>2, <2>1, <2>6, <3>1 DEF LimiterTypeOK
  <2>9. CallInv'
    BY <1>1, <1>2, <1>3, <1>6, <2>1, <2>2, <2>4, <2>7 DEF CallInv
  <2>10. passed <= spurious
    BY <1>0, <1>1, <2>1, <2>2, <2>5 DEF CountInv
  <2>11. StartInv'
    BY <1>1, <1>2, <1>3, <1>4, <2>4 DEF StartInv, Multiple
  <2>12. CountInv' /\ LimitKept'
    BY <1>0, <1>1, <1>2, <1>3, <2>1, <2>2, <2>4, <2>10 DEF CountInv, LimitKept
  <2>13. QED
    BY <2>8, <2>9, <2>11, <2>12 DEF LimiterIInv
<1>14. CASE Count
  <2>1. /\ pc = "count" /\ pc' = "idle" /\ currentCount' = currentCount + 1
        /\ UNCHANGED <<startTime, resetLock, elapsed, spurious>>
    BY <1>14 DEF Count
  <2>2. rate >= 1 /\ (startTime < Begin => elapsed >= W)
        /\ (startTime = Begin => elapsed < W \/ currentCount = 0)
    BY <1>0, <2>1 DEF CallInv
  <2>3. \/ /\ currentCount' > rate /\ elapsed < W
           /\ answer' = "false" /\ UNCHANGED <<passed, atEdge>>
        \/ ~(currentCount' > rate /\ elapsed < W) /\ LetThrough(begun)
    BY <1>1, <1>14 DEF Count
  <2>4. /\ passed' \in 0..validations /\ atEdge' \in 0..validations /\ answer' \in {"none", "true", "false"}
    BY <1>1, <1>6, <1>8, <2>3
  <2>5. {currentCount', passed', atEdge'} \subseteq 0..validations'
    BY <1>1, <1>2, <1>6, <2>1, <2>4
  <2>6. LimiterTypeOK'
    BY <1>0, <1>2, <2>1, <2>4, <2>5 DEF LimiterTypeOK
  <2>7. CallInv'
    BY <1>0, <1>2, <2>1 DEF CallInv
  <2>8. StartInv'
    BY <1>1, <1>2, <1>3, <1>4, <2>1 DEF StartInv, Multiple
  <2>9. CASE startTime < Begin
    <3>1. passed' <= spurious
      BY <1>0, <1>1, <1>8, <2>1, <2>2, <2>3, <2>9 DEF CountInv
    <3>2. CountInv' /\ LimitKept'
      BY <1>1, <1>2, <1>3, <2>1, <2>2, <2>4, <2>9, <3>1 DEF CountInv, LimitKept
    <3>3. QED
      BY <2>6, <2>7, <2>8, <3>2 DEF LimiterIInv
  <2>10. CASE startTime = Begin
    <3>1. /\ passed <= currentCount + spurious
          /\ passed + atEdge >= (IF currentCount < rate THEN currentCount ELSE rate)
      BY <1>0, <2>2, <2>10 DEF CountInv
    <3>2. CountInv'
      BY <1>1, <1>2, <1>3, <1>8, <2>1, <2>2, <2>3, <2>10, <3>1 DEF CountInv
    <3>3. LimitKept'
      <4>1. CASE UNCHANGED <<passed, atEdge>>
        BY <1>0, <1>2, <2>1, <4>1 DEF LimitKept
      <4>2. CASE LetThrough(begun) /\ currentCount' <= rate
        BY <1>1, <1>2, <1>8, <2>1, <3>1, <4>2 DEF LimitKept
      <4>3. CASE LetThrough(begun) /\ ~(elapsed < W)
        BY <1>1, <1>2, <1>8, <2>1, <2>2, <2>10, <3>1, <4>3 DEF LimitKept
      <4>4. QED
        BY <1>1, <2>1, <2>3, <4>1, <4>2, <4>3
    <3>4. QED
      BY <2>6, <2>7, <2>8, <3>2, <3>3 DEF LimiterIInv
  <2>11. QED
    BY <1>1, <1>4, <2>9, <2>10
<1>15. QED
  BY <1>9, <1>10, <1>11, <1>12, <1>13, <1>14

\* The clock goes on.
LEMMA StepTick == LimiterIInv /\ (Tick \/ UNCHANGED limiterVars) => LimiterIInv'
<1> SUFFICES ASSUME LimiterIInv, Tick \/ UNCHANGED limiterVars PROVE LimiterIInv'
  OBVIOUS
<1>0. LimiterTypeOK /\ CallInv /\ StartInv /\ CountInv /\ LimitKept
  BY DEF LimiterIInv
<1>1. UNCHANGED <<limiter, validation, limiterHistory>>
  BY DEF Tick, limiterVars
<1>2. now' \in 0..MaxTime /\ now <= now'
  BY <1>0, RateLimiterAssumption DEF RateLimiterAssumption, LimiterTypeOK, Tick, limiterVars
<1>3. begun <= now'
  BY <1>0, <1>2, Begins DEF StartInv
<1>4. Begin' = Begin /\ AtEdge' = AtEdge /\ W' = W
  BY <1>1 DEF Begin, WindowStart, Window, AtEdge, W, WindowLength, TimeWindow, validation
<1>5. QED
  BY <1>0, <1>1, <1>2, <1>3, <1>4
  DEF LimiterIInv, LimiterTypeOK, CallInv, StartInv, CountInv, LimitKept, Multiple, limiter, validation, limiterHistory

-----------------------------------------------------------------------------
\* Every state of the limiter satisfies the inductive invariant.
THEOREM LimiterInvariant == LimiterSpec => []LimiterIInv
<1>1. LimiterIInv /\ [LimiterNext]_limiterVars => LimiterIInv'
  BY StepValidate, StepCall, StepTick DEF LimiterNext
<1>2. QED
  BY <1>1, LimiterInitIInv, PTL DEF LimiterSpec

\* The clock, the limiter and its counters keep to their types.
THEOREM LimiterTypeCorrect == LimiterSpec => []LimiterTypeOK
<1>1. LimiterIInv => LimiterTypeOK
  BY DEF LimiterIInv
<1>2. QED
  BY <1>1, LimiterInvariant, PTL

\* No window of the clock lets more requests through than the rate and the
\* spurious failures.
THEOREM LimitIsKept == LimiterSpec => []LimitKept
<1>1. LimiterIInv => LimitKept
  BY DEF LimiterIInv
<1>2. QED
  BY <1>1, LimiterInvariant, PTL

\* No request is refused before the rate of its own window is used up.
THEOREM NotRefusedBefore == LimiterSpec => RefusedOnlyWhenUsedUp
<1>1. ASSUME LimiterIInv, LimiterNext, pc = "count", pc' = "idle", answer' = "false"
      PROVE  passed + atEdge >= rate
  <2>1. /\ LimiterTypeOK /\ CallInv /\ StartInv /\ CountInv
    BY <1>1 DEF LimiterIInv
  <2>2. /\ currentCount + 1 > rate /\ elapsed < WindowLength
    BY <1>1 DEF LimiterNext, Tick, Validate, Unlimited, ExchangeOk, ExchangeFails, CheckAgain, Reset,
                Count, LetThrough, validation
  <2>3. rate >= 1 /\ startTime = Begin
    BY <1>1, <2>1, <2>2, Begins DEF CallInv, StartInv
  <2>4. QED
    BY <2>1, <2>2, <2>3, Begins DEF CountInv
<1>2. LimiterIInv /\ [LimiterNext]_limiterVars
          => [pc = "count" /\ pc' = "idle" /\ answer' = "false" => passed + atEdge >= rate]_limiterVars
  BY <1>1
<1>3. QED
  BY <1>2, LimiterInvariant, PTL DEF LimiterSpec, RefusedOnlyWhenUsedUp
=============================================================================
