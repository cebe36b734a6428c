--------------------------- MODULE ReporterProofs ---------------------------
(* The reporter process, for every set of segments, every size of the buffer  *)
(* and every behaviour of the collector: the counted channel keeps its        *)
(* promise inside it, no accepted segment is lost or duplicated between the   *)
(* tasks, the collector gets what it gets once and in order, and never for an *)
(* instance it was not told of.                                               *)
EXTENDS Reporter, SequenceTheorems, TLAPS

ChanP == INSTANCE CountedChannelProofs WITH Item <- Segment, Capacity <- BufferSize

\* Both cells are write-once, and what depends on the second comes after it.
CellsInv ==
    /\ register => loginTask = "done" /\ oapKnows # "never"
    /\ keepAliveTask = "calling" => register
    /\ senderTask # "gate" => register
    /\ collected # <<>> => register

\* The segment that is being parsed is not among those accepted before it.
FreshInv ==
    /\ ToSet(accepted) \subseteq received
    /\ IsInjective(accepted)
    /\ receiveTask = "receiving" => content = NoContent
    /\ receiveTask = "parsing" /\ content \in Segment =>
          content \in received \ ToSet(accepted)

\* What the collector has got are places of what was handed over, in order.
Places ==
    { f \in [1..Len(collected) -> 1..Len(handed)] :
        /\ \A i, j \in 1..Len(collected) : i < j => f[i] < f[j]
        /\ \A i \in 1..Len(collected) : collected[i] = handed[f[i]] }

PlacesInv == Places # {}

IInv ==
    /\ TypeOK
    /\ ChanP!IInv
    /\ CellsInv
    /\ EveryAcceptedSegmentIsSomewhere
    /\ FreshInv
    /\ PlacesInv

-----------------------------------------------------------------------------
\* The channel as Reporter and as the proofs of CountedChannel see it.
LEMMA SameInit == Chan!Init <=> ChanP!Init
BY DEF Chan!Init, ChanP!Init

LEMMA SameStep == [Chan!Next]_chanVars <=> [ChanP!Next]_(ChanP!vars)
<1> USE DEF Chan!HasRoom, ChanP!HasRoom, Chan!sendEnd, ChanP!sendEnd, Chan!recvEnd,
            ChanP!recvEnd
<1>1. \A m \in Segment : Chan!TrySendPush(m) <=> ChanP!TrySendPush(m)
  BY DEF Chan!TrySendPush, ChanP!TrySendPush
<1>2. Chan!TrySendCount <=> ChanP!TrySendCount
  BY DEF Chan!TrySendCount, ChanP!TrySendCount
<1>3. Chan!RecvAllLoad <=> ChanP!RecvAllLoad
  BY DEF Chan!RecvAllLoad, ChanP!RecvAllLoad
<1>4. Chan!RecvAllRecv <=> ChanP!RecvAllRecv
  BY DEF Chan!RecvAllRecv, ChanP!RecvAllRecv
<1>5. Chan!RecvAllSub <=> ChanP!RecvAllSub
  BY DEF Chan!RecvAllSub, ChanP!RecvAllSub
<1>6. UNCHANGED chanVars <=> UNCHANGED ChanP!vars
  BY DEF chanVars, ChanP!vars
<1>7. QED
  BY <1>1, <1>2, <1>3, <1>4, <1>5, <1>6
  DEF Chan!Next, ChanP!Next, Chan!RecvAllStep, ChanP!RecvAllStep

LEMMA StepChannel ==
    ASSUME ChanP!IInv, [Chan!Next]_chanVars
    PROVE  ChanP!IInv'
<1>1. BufferSize \in Nat \ {0}
  BY ReporterAssumption DEF ReporterAssumption
<1>2. [ChanP!Next]_(ChanP!vars)
  BY SameStep
<1>3. QED
  BY <1>1, <1>2, ChanP!StepIInv DEF ChanP!CountedChannelAssumption

\* Every step of the reporter is one of the channel, or leaves it alone.
LEMMA ChannelStep == [Next]_vars => [Chan!Next]_chanVars
<1> SUFFICES ASSUME [Next]_vars PROVE [Chan!Next]_chanVars
  OBVIOUS
<1>1. CASE ConnectStep \/ LoginStep \/ KeepAliveStep
  BY <1>1 DEF ConnectStep, LoginStep, KeepAliveStep, ConnectOk, ConnectFails,
              ConnectAgain, LoginStarts, LoginBegins, LoginOk, LoginFails,
              KeepAliveBegins, KeepAliveEnds
<1>2. CASE HandleContent
  BY <1>2 DEF HandleContent, ParseFails, TrySendPush, TrySendFails, TrySendCount, Chan!Next
<1>3. CASE SenderStep
  BY <1>3 DEF SenderStep, Collect, SendOnce, RecvAllRecv, RecvAllSub, CollectEnds,
              Chan!Next, Chan!RecvAllStep
<1>4. CASE (\E c \in Content \ received : ReceiveContent(c)) \/ Exit \/ OapChanges
  BY <1>4 DEF ReceiveContent, Exit, OapChanges
<1>5. CASE UNCHANGED vars
  BY <1>5 DEF vars
<1>6. QED
  BY <1>1, <1>2, <1>3, <1>4, <1>5 DEF Next, Internal

\* The counted channel keeps its promise inside the reporter.
THEOREM ChannelKeptPromise == Spec => ChannelKeepsPromise
<1>1. Init => Chan!Init
  BY DEF Init
<1>2. [Next]_vars => [Chan!Next]_(Chan!vars)
  <2>1. UNCHANGED chanVars => UNCHANGED Chan!vars
    BY DEF chanVars, Chan!vars, Chan!sendEnd, Chan!recvEnd
  <2>2. QED
    BY <2>1, ChannelStep
<1>3. QED
  BY <1>1, <1>2, PTL DEF Spec, ChannelKeepsPromise, Chan!Spec

-----------------------------------------------------------------------------
LEMMA InitIInv == Init => IInv
<1> SUFFICES ASSUME Init PROVE IInv
  OBVIOUS
<1>1. ChanP!IInv
  <2>1. BufferSize \in Nat \ {0}
    BY ReporterAssumption DEF ReporterAssumption
  <2>2. ChanP!Init
    BY SameInit DEF Init
  <2>3. QED
    BY <2>1, <2>2, ChanP!InitIInv DEF ChanP!CountedChannelAssumption
<1>2. Chan!TypeOK
  BY DEF Init, Chan!Init, Chan!TypeOK
<1>3. TypeOK
  <2>1. /\ {alive, grpcChannel, register, oapUp} \subseteq BOOLEAN
        /\ oapKnows \in {"never", "yes", "forgot"}
        /\ received \subseteq Segment
        /\ content \in Content \union {NoContent}
    BY DEF Init
  <2>2. accepted \in Seq(Segment) /\ handed \in Seq(Segment) /\ collected \in Seq(Segment)
    BY EmptySeq DEF Init
  <2>3. QED
    BY <1>2, <2>1, <2>2 DEF Init, TypeOK
<1>4. CellsInv
  BY DEF Init, CellsInv
<1>5. EveryAcceptedSegmentIsSomewhere
  <2>1. Collecting = <<>> /\ handed = <<>> /\ buffered = <<>> /\ queue = <<>> /\ accepted = <<>>
    BY DEF Init, Collecting, Chan!Init
  <2>2. <<>> \o <<>> = <<>>
    OBVIOUS
  <2>3. QED
    BY <2>1, <2>2 DEF EveryAcceptedSegmentIsSomewhere
<1>6. FreshInv
  BY DEF Init, FreshInv, ToSet, IsInjective
<1>7. PlacesInv
  <2>1. Len(collected) = 0 /\ Len(handed) = 0
    BY DEF Init
  <2>2. [i \in 1..0 |-> i] \in Places
    BY <2>1 DEF Places
  <2>3. QED
    BY <2>2 DEF PlacesInv
<1>8. QED
  BY <1>1, <1>3, <1>4, <1>5, <1>6, <1>7 DEF IInv

LEMMA StepTypeOK == TypeOK /\ ChanP!IInv' /\ [Next]_vars => TypeOK'
<1> SUFFICES ASSUME TypeOK, ChanP!IInv', [Next]_vars PROVE TypeOK'
  OBVIOUS
<1>0. Chan!TypeOK'
  BY DEF ChanP!IInv, ChanP!TypeOK, Chan!TypeOK
<1> USE DEF TypeOK, oapVars, senderVars, receiveVars, tasks, cells
<1>1. CASE ConnectStep
  BY <1>0, <1>1 DEF ConnectStep, ConnectOk, ConnectFails, ConnectAgain
<1>2. CASE LoginStep
  BY <1>0, <1>2 DEF LoginStep, LoginStarts, LoginBegins, LoginOk, LoginFails
<1>3. CASE KeepAliveStep
  BY <1>0, <1>3 DEF KeepAliveStep, KeepAliveBegins, KeepAliveEnds
<1>4. CASE HandleContent
  <2>1. CASE TrySendPush
    <3>1. Append(accepted, content) \in Seq(Segment)
      BY <2>1, AppendProperties DEF TrySendPush
    <3>2. QED
      BY <1>0, <2>1, <3>1 DEF TrySendPush
  <2>2. CASE ParseFails \/ TrySendFails \/ TrySendCount
    BY <1>0, <2>2 DEF ParseFails, TrySendFails, TrySendCount
  <2>3. QED
    BY <1>4, <2>1, <2>2 DEF HandleContent
<1>5. CASE SendOnce \/ RecvAllRecv \/ RecvAllSub
  BY <1>0, <1>5 DEF SendOnce, RecvAllRecv, RecvAllSub
<1>6. ASSUME NEW n \in 0..Len(result), CollectEnds(n)
      PROVE  TypeOK'
  <2>1. SubSeq(result, 1, n) \in Seq(Segment) /\ result \in Seq(Segment)
    BY DEF Chan!TypeOK
  <2>2. collected' \in Seq(Segment) /\ handed' \in Seq(Segment)
    BY <1>6, <2>1, ConcatProperties DEF CollectEnds
  <2>3. QED
    BY <1>0, <1>6, <2>2 DEF CollectEnds
<1>7. ASSUME NEW c \in Content \ received, ReceiveContent(c)
      PROVE  TypeOK'
  BY <1>0, <1>7 DEF ReceiveContent
<1>8. CASE Exit \/ OapChanges
  BY <1>0, <1>8 DEF Exit, OapChanges
<1>9. CASE UNCHANGED vars
  BY <1>0, <1>9 DEF vars, chanVars
<1>10. QED
  BY <1>1, <1>2, <1>3, <1>4, <1>5, <1>6, <1>7, <1>8, <1>9
  DEF Next, Internal, SenderStep, Collect

\* The login ends before REGISTER is set, and the tasks that wait for REGISTER
\* begin nothing before.
LEMMA StepCells == TypeOK /\ CellsInv /\ [Next]_vars => CellsInv'
<1> SUFFICES ASSUME TypeOK, CellsInv, [Next]_vars PROVE CellsInv'
  OBVIOUS
<1> USE DEF CellsInv, oapVars, senderVars, receiveVars, tasks, cells, chanVars
<1>1. CASE ConnectStep
  BY <1>1 DEF ConnectStep, ConnectOk, ConnectFails, ConnectAgain
<1>2. CASE LoginStep
  BY <1>2 DEF LoginStep, LoginStarts, LoginBegins, LoginOk, LoginFails
<1>3. CASE KeepAliveStep
  BY <1>3 DEF KeepAliveStep, KeepAliveBegins, KeepAliveEnds
<1>4. CASE HandleContent
  BY <1>4 DEF HandleContent, ParseFails, TrySendPush, TrySendFails, TrySendCount
<1>5. CASE SendOnce \/ RecvAllRecv \/ RecvAllSub
  BY <1>5 DEF SendOnce, RecvAllRecv, RecvAllSub
<1>6. CASE Collect
  BY <1>6 DEF Collect, CollectEnds
<1>7. CASE (\E c \in Content \ received : ReceiveContent(c)) \/ Exit
  BY <1>7 DEF ReceiveContent, Exit
<1>8. CASE OapChanges
  BY <1>8 DEF OapChanges
<1>9. CASE UNCHANGED vars
  BY <1>9 DEF vars
<1>10. QED
  BY <1>1, <1>2, <1>3, <1>4, <1>5, <1>6, <1>7, <1>8, <1>9
  DEF Next, Internal, SenderStep

-----------------------------------------------------------------------------
\* The segments between the calls that ended and the channel.
Taken == (handed \o Collecting) \o buffered

\* try_send adds the accepted segment at the end of the chain, recv_all moves
\* the boundary between vector and channel, its end and the end of the call
\* rename the parts.
LEMMA StepSomewhere ==
    TypeOK /\ EveryAcceptedSegmentIsSomewhere /\ [Next]_vars => EveryAcceptedSegmentIsSomewhere'
<1> SUFFICES ASSUME TypeOK, EveryAcceptedSegmentIsSomewhere, [Next]_vars
             PROVE  accepted' = Taken' \o queue'
  BY DEF EveryAcceptedSegmentIsSomewhere, Taken
<1>0. accepted = Taken \o queue
  BY DEF EveryAcceptedSegmentIsSomewhere, Taken
<1>1. /\ queue \in Seq(Segment) /\ buffered \in Seq(Segment) /\ result \in Seq(Segment)
      /\ handed \in Seq(Segment) /\ accepted \in Seq(Segment)
  BY DEF TypeOK, Chan!TypeOK
<1>2. /\ Collecting \in Seq(Segment) /\ handed \o Collecting \in Seq(Segment)
      /\ Taken \in Seq(Segment)
  BY <1>1, EmptySeq, ConcatProperties DEF Collecting, Taken
<1>4. ASSUME UNCHANGED <<senderTask, handed, accepted, queue, buffered, result>>
      PROVE  accepted' = Taken' \o queue'
  BY <1>0, <1>4 DEF Taken, Collecting
<1> USE DEF oapVars, senderVars, receiveVars, tasks, cells, chanVars
<1>5. CASE ConnectStep \/ LoginStep \/ KeepAliveStep
  BY <1>4, <1>5 DEF ConnectStep, LoginStep, KeepAliveStep, ConnectOk, ConnectFails,
              ConnectAgain, LoginStarts, LoginBegins, LoginOk, LoginFails,
              KeepAliveBegins, KeepAliveEnds
<1>6. CASE ParseFails \/ TrySendFails \/ TrySendCount
  BY <1>4, <1>6 DEF ParseFails, TrySendFails, TrySendCount, Chan!TrySendCount, Chan!recvEnd
<1>7. CASE TrySendPush
  <2>1. /\ content \in Segment
        /\ accepted' = Append(accepted, content) /\ queue' = Append(queue, content)
        /\ UNCHANGED <<senderTask, handed, buffered, result>>
    BY <1>7 DEF TrySendPush, Chan!TrySendPush, Chan!recvEnd
  <2>2. Taken' = Taken
    BY <2>1 DEF Taken, Collecting
  <2>3. Taken \o Append(queue, content) = Append(Taken \o queue, content)
    BY <1>1, <1>2, <2>1, ChanP!PutAtEnd
  <2>4. QED
    BY <1>0, <2>1, <2>2, <2>3
<1>8. CASE SendOnce
  <2>1. /\ UNCHANGED <<handed, accepted, queue, buffered>>
        /\ senderTask = "gate" /\ senderTask' # "collecting"
    BY <1>8 DEF SendOnce, Chan!RecvAllLoad
  <2>2. Collecting = <<>> /\ Collecting' = <<>>
    BY <2>1 DEF Collecting
  <2>3. QED
    BY <1>0, <2>1, <2>2 DEF Taken
<1>9. CASE RecvAllRecv
  <2>1. /\ queue # <<>> /\ buffered' = Append(buffered, Head(queue)) /\ queue' = Tail(queue)
        /\ UNCHANGED <<senderTask, handed, accepted, result>>
    BY <1>9 DEF RecvAllRecv, Chan!RecvAllRecv
  <2>2. Collecting' = Collecting
    BY <2>1 DEF Collecting
  <2>3. Head(queue) \in Segment /\ Tail(queue) \in Seq(Segment)
    BY <1>1, <2>1
  <2>4. (handed \o Collecting) \o Append(buffered, Head(queue)) = Append(Taken, Head(queue))
    BY <1>1, <1>2, <2>3, ChanP!PutAtEnd DEF Taken
  <2>5. Append(Taken, Head(queue)) \o Tail(queue) = Taken \o queue
    BY <1>1, <1>2, <2>1, ChanP!MoveBoundary
  <2>6. QED
    BY <1>0, <2>1, <2>2, <2>4, <2>5 DEF Taken
<1>10. CASE RecvAllSub
  <2>1. /\ UNCHANGED <<handed, accepted, queue>> /\ senderTask = "recv_all"
        /\ recvAllPc = "sub"
    BY <1>10 DEF RecvAllSub, Chan!RecvAllSub
  <2>2. CASE left > 1
    <3>1. senderTask' = "recv_all" /\ UNCHANGED <<buffered, result>>
      BY <1>10, <2>2 DEF RecvAllSub, Chan!RecvAllSub
    <3>2. QED
      BY <1>4, <2>1, <3>1
  <2>3. CASE ~(left > 1)
    <3>1. senderTask' = "collecting" /\ buffered' = <<>> /\ result' = buffered
      BY <1>10, <2>3 DEF RecvAllSub, Chan!RecvAllSub
    <3>2. Collecting = <<>> /\ Collecting' = buffered
      BY <2>1, <3>1 DEF Collecting
    <3>3. handed \o <<>> = handed /\ (handed \o buffered) \o <<>> = handed \o buffered
      BY <1>1, ConcatProperties, ConcatEmptySeq
    <3>4. QED
      BY <1>0, <2>1, <3>1, <3>2, <3>3 DEF Taken
  <2>4. QED
    BY <2>2, <2>3
<1>11. ASSUME NEW n \in 0..Len(result), CollectEnds(n)
       PROVE  accepted' = Taken' \o queue'
  <2>1. /\ senderTask = "collecting" /\ senderTask' = "gate" /\ handed' = handed \o result
        /\ UNCHANGED <<accepted, queue, buffered>>
    BY <1>11 DEF CollectEnds
  <2>2. Collecting = result /\ Collecting' = <<>>
    BY <2>1 DEF Collecting
  <2>3. (handed \o result) \o <<>> = handed \o result
    BY <1>1, ConcatProperties, ConcatEmptySeq
  <2>4. QED
    BY <1>0, <2>1, <2>2, <2>3 DEF Taken
<1>12. CASE (\E c \in Content \ received : ReceiveContent(c)) \/ Exit \/ OapChanges
  BY <1>4, <1>12 DEF ReceiveContent, Exit, OapChanges
<1>13. CASE UNCHANGED vars
  BY <1>4, <1>13 DEF vars
<1>14. QED
  BY <1>5, <1>6, <1>7, <1>8, <1>9, <1>10, <1>11, <1>12, <1>13
  DEF Next, Internal, HandleContent, SenderStep, Collect

\* Only what ipc::receive has just returned for the first time is accepted.
LEMMA StepFresh == TypeOK /\ FreshInv /\ [Next]_vars => FreshInv'
<1> SUFFICES ASSUME TypeOK, FreshInv, [Next]_vars PROVE FreshInv'
  OBVIOUS
<1>0. /\ Garbage \cap Segment = {} /\ NoContent \notin Segment
      /\ receiveTask \in {"receiving", "parsing"}
  BY ReporterAssumption DEF ReporterAssumption, TypeOK
<1> USE DEF FreshInv, oapVars, senderVars, receiveVars, tasks, cells, chanVars
<1>1. CASE ConnectStep \/ LoginStep \/ KeepAliveStep
  BY <1>1 DEF ConnectStep, LoginStep, KeepAliveStep, ConnectOk, ConnectFails,
              ConnectAgain, LoginStarts, LoginBegins, LoginOk, LoginFails,
              KeepAliveBegins, KeepAliveEnds
<1>2. CASE ParseFails \/ TrySendFails
  BY <1>0, <1>2 DEF ParseFails, TrySendFails
<1>3. CASE TrySendPush
  <2>1. /\ content \in received \ ToSet(accepted)
        /\ accepted' = Append(accepted, content) /\ content' = NoContent
        /\ receiveTask' = "receiving" /\ UNCHANGED received
    BY <1>3 DEF TrySendPush
  <2>2. /\ accepted \in Seq(Segment) /\ Len(accepted) \in Nat
        /\ DOMAIN accepted = 1..Len(accepted)
        /\ DOMAIN accepted' = 1..Len(accepted) + 1
        /\ \A i \in 1..Len(accepted) : accepted'[i] = accepted[i]
        /\ accepted'[Len(accepted) + 1] = content
    BY <2>1 DEF TypeOK
  <2>3. ToSet(accepted') = ToSet(accepted) \union {content}
    BY <2>2 DEF ToSet
  <2>4. \A i \in 1..Len(accepted) : accepted[i] # content
    BY <2>1, <2>2 DEF ToSet
  <2>5. IsInjective(accepted')
    BY <2>2, <2>4 DEF IsInjective
  <2>6. QED
    BY <2>1, <2>3, <2>5
<1>4. CASE TrySendCount
  BY <1>4 DEF TrySendCount
<1>5. CASE SendOnce \/ RecvAllRecv \/ RecvAllSub \/ Collect
  BY <1>5 DEF SendOnce, RecvAllRecv, RecvAllSub, Collect, CollectEnds
<1>6. ASSUME NEW c \in Content \ received, ReceiveContent(c)
      PROVE  FreshInv'
  BY <1>0, <1>6 DEF ReceiveContent
<1>7. CASE Exit \/ OapChanges
  BY <1>7 DEF Exit, OapChanges
<1>8. CASE UNCHANGED vars
  BY <1>8 DEF vars
<1>9. QED
  BY <1>1, <1>2, <1>3, <1>4, <1>5, <1>6, <1>7, <1>8
  DEF Next, Internal, HandleContent, SenderStep

\* What a call delivered gets the places at the end of what was handed over.
LEMMA StepPlaces == TypeOK /\ PlacesInv /\ [Next]_vars => PlacesInv'
<1> SUFFICES ASSUME TypeOK, PlacesInv, [Next]_vars PROVE PlacesInv'
  OBVIOUS
<1>1. ASSUME UNCHANGED <<handed, collected>>
      PROVE  PlacesInv'
  BY <1>1 DEF PlacesInv, Places
<1>2. ASSUME NEW n \in 0..Len(result), CollectEnds(n)
      PROVE  PlacesInv'
  <2>1. PICK f \in Places : TRUE
    BY DEF PlacesInv
  <2> DEFINE part == SubSeq(result, 1, n)
             c == Len(collected)
             h == Len(handed)
             g == [i \in 1..c + n |-> IF i <= c THEN f[i] ELSE h + (i - c)]
  <2>2. /\ handed \in Seq(Segment) /\ collected \in Seq(Segment) /\ result \in Seq(Segment)
        /\ c \in Nat /\ h \in Nat /\ Len(result) \in Nat /\ n \in Nat /\ n <= Len(result)
    BY DEF TypeOK, Chan!TypeOK
  <2>3. /\ part \in Seq(Segment) /\ Len(part) = n
        /\ \A i \in 1..n : part[i] = result[i]
    BY <2>2
  <2>4. /\ Len(collected') = c + n /\ Len(handed') = h + Len(result)
        /\ \A i \in 1..c + n :
              collected'[i] = IF i <= c THEN collected[i] ELSE part[i - c]
        /\ \A i \in 1..h + Len(result) :
              handed'[i] = IF i <= h THEN handed[i] ELSE result[i - h]
    BY <1>2, <2>2, <2>3, ConcatProperties DEF CollectEnds
  <2>5. /\ \A i \in 1..c : f[i] \in 1..h /\ collected[i] = handed[f[i]]
        /\ \A i, j \in 1..c : i < j => f[i] < f[j]
    BY <2>1 DEF Places
  <2>6. g \in [1..c + n -> 1..h + Len(result)]
    BY <2>2, <2>5
  <2>7. ASSUME NEW i \in 1..c + n, NEW j \in 1..c + n, i < j
        PROVE  g[i] < g[j]
    <3>1. /\ i < j /\ i \in 1..c + n /\ j \in 1..c + n
          /\ g[i] = IF i <= c THEN f[i] ELSE h + (i - c)
          /\ g[j] = IF j <= c THEN f[j] ELSE h + (j - c)
      BY <2>7
    <3>2. i <= c => f[i] \in 1..h
      BY <2>2, <2>5, <2>7
    <3> HIDE DEF g
    <3>3. CASE j <= c
      BY <2>2, <2>5, <3>1, <3>3
    <3>4. CASE j > c
      BY <2>2, <3>1, <3>2, <3>4
    <3>5. QED
      BY <2>2, <3>3, <3>4
  <2>8. ASSUME NEW i \in 1..c + n
        PROVE  collected'[i] = handed'[g[i]]
    <3>1. CASE i <= c
      BY <2>2, <2>4, <2>5, <3>1
    <3>2. CASE i > c
      <4>1. g[i] = h + (i - c) /\ i - c \in 1..n
        BY <2>2, <3>2
      <4>2. collected'[i] = result[i - c]
        BY <2>2, <2>3, <2>4, <3>2, <4>1
      <4>3. /\ h + (i - c) \in 1..h + Len(result) /\ ~(h + (i - c) <= h)
            /\ (h + (i - c)) - h = i - c
        BY <2>2, <4>1
      <4>4. handed'[h + (i - c)] = result[i - c]
        BY <2>4, <4>3
      <4>5. QED
        BY <4>1, <4>2, <4>4
    <3>3. QED
      BY <2>2, <3>1, <3>2
  <2>9. g \in Places'
    BY <2>4, <2>6, <2>7, <2>8 DEF Places
  <2>10. QED
    BY <2>9 DEF PlacesInv
<1> USE DEF oapVars, senderVars, receiveVars, tasks, cells, chanVars
<1>3. CASE ConnectStep \/ LoginStep \/ KeepAliveStep
  BY <1>1, <1>3 DEF ConnectStep, LoginStep, KeepAliveStep, ConnectOk, ConnectFails,
              ConnectAgain, LoginStarts, LoginBegins, LoginOk, LoginFails,
              KeepAliveBegins, KeepAliveEnds
<1>4. CASE HandleContent
  BY <1>1, <1>4 DEF HandleContent, ParseFails, TrySendPush, TrySendFails, TrySendCount
<1>5. CASE SendOnce \/ RecvAllRecv \/ RecvAllSub
  BY <1>1, <1>5 DEF SendOnce, RecvAllRecv, RecvAllSub
<1>6. CASE (\E c \in Content \ received : ReceiveContent(c)) \/ Exit \/ OapChanges
  BY <1>1, <1>6 DEF ReceiveContent, Exit, OapChanges
<1>7. CASE UNCHANGED vars
  BY <1>1, <1>7 DEF vars
<1>8. QED
  BY <1>2, <1>3, <1>4, <1>5, <1>6, <1>7 DEF Next, Internal, SenderStep, Collect

-----------------------------------------------------------------------------
\* Every state of the reporter satisfies the inductive invariant.
THEOREM ReporterInvariant == Spec => []IInv
<1>1. Init => IInv
  BY InitIInv
<1>2. IInv /\ [Next]_vars => IInv'
  <2> SUFFICES ASSUME IInv, [Next]_vars PROVE IInv'
    OBVIOUS
  <2>1. ChanP!IInv'
    BY ChannelStep, StepChannel DEF IInv
  <2>2. TypeOK' /\ CellsInv' /\ EveryAcceptedSegmentIsSomewhere' /\ FreshInv' /\ PlacesInv'
    BY <2>1, StepTypeOK, StepCells, StepSomewhere, StepFresh, StepPlaces DEF IInv
  <2>3. QED
    BY <2>1, <2>2 DEF IInv
<1>3. QED
  BY <1>1, <1>2, PTL DEF Spec

\* The five tasks, their two cells and the channel between them keep to their
\* types.
THEOREM TypeCorrect == Spec => []TypeOK
<1>1. IInv => TypeOK
  BY DEF IInv
<1>2. QED
  BY <1>1, ReporterInvariant, PTL

\* No accepted segment is lost or duplicated on its way from try_send to the
\* end of a collect call.
THEOREM NothingGetsLost == Spec => []EveryAcceptedSegmentIsSomewhere
<1>1. IInv => EveryAcceptedSegmentIsSomewhere
  BY DEF IInv
<1>2. QED
  BY <1>1, ReporterInvariant, PTL

\* Nothing is collected, and no ping is sent, for an instance the collector
\* was never told of.
THEOREM RegisteredFirst == Spec => []RegisteredBeforeReport
<1>1. IInv => RegisteredBeforeReport
  BY DEF IInv, CellsInv, RegisteredBeforeReport
<1>2. QED
  BY <1>1, ReporterInvariant, PTL

\* What the collector has got is part of what was accepted, each segment once
\* and in the order of acceptance, whatever calls failed in their middle.
THEOREM OnceInOrder == Spec => []CollectedOnceInOrder
<1>1. ASSUME IInv PROVE CollectedOnceInOrder
  <2>1. /\ handed \in Seq(Segment) /\ collected \in Seq(Segment) /\ accepted \in Seq(Segment)
        /\ queue \in Seq(Segment) /\ buffered \in Seq(Segment) /\ result \in Seq(Segment)
        /\ Len(collected) \in Nat /\ Len(handed) \in Nat
    BY <1>1 DEF IInv, TypeOK, Chan!TypeOK
  <2>2. Collecting \in Seq(Segment)
    BY <2>1, EmptySeq DEF Collecting
  <2>3. /\ accepted = handed \o ((Collecting \o buffered) \o queue)
        /\ (Collecting \o buffered) \o queue \in Seq(Segment)
    <3>1. (Collecting \o buffered) \o queue \in Seq(Segment)
      BY <2>1, <2>2, ConcatProperties
    <3>2. PICK s \in Seq(Segment) : s = Collecting \o buffered
      BY <2>1, <2>2, ConcatProperties
    <3>3. (handed \o Collecting) \o buffered = handed \o s
      <4>1. handed \in Seq(Segment) /\ buffered \in Seq(Segment)
        BY <2>1
      <4>2. (handed \o Collecting) \o buffered = handed \o (Collecting \o buffered)
        BY <2>2, <4>1, ConcatAssociative
      <4>3. QED
        BY <3>2, <4>2
    <3>4. (handed \o s) \o queue = handed \o (s \o queue)
      <4>1. handed \in Seq(Segment) /\ queue \in Seq(Segment) /\ s \in Seq(Segment)
        BY <2>1, <3>2
      <4>2. QED
        BY <4>1, ConcatAssociative
    <3>5. accepted = ((handed \o Collecting) \o buffered) \o queue
      BY <1>1 DEF IInv, EveryAcceptedSegmentIsSomewhere
    <3>6. QED
      BY <3>1, <3>2, <3>3, <3>4, <3>5
  <2> DEFINE rest == (Collecting \o buffered) \o queue
             c == Len(collected)
             h == Len(handed)
  <2>4. /\ h <= Len(accepted) /\ Len(accepted) \in Nat
        /\ \A i \in 1..h : accepted[i] = handed[i]
    BY <2>1, <2>3, ConcatProperties
  <2>5. PICK f \in [1..c -> 1..h] :
             /\ \A i, j \in 1..c : i < j => f[i] < f[j]
             /\ \A i \in 1..c : collected[i] = handed[f[i]]
    BY <1>1 DEF IInv, PlacesInv, Places
  <2>6. ASSUME NEW i \in 1..c
        PROVE  f[i] \in 1..Len(accepted) /\ collected[i] = accepted[f[i]]
    <3>1. f[i] \in 1..h /\ collected[i] = handed[f[i]]
      BY <2>5
    <3> HIDE DEF c
    <3>2. QED
      BY <2>1, <2>4, <3>1
  <2>7. IsInjective(accepted) /\ DOMAIN accepted = 1..Len(accepted)
    BY <1>1, <2>1 DEF IInv, FreshInv
  <2>8. ASSUME NEW i \in 1..c, NEW j \in 1..c, i # j
        PROVE  collected[i] # collected[j]
    <3>1. f[i] < f[j] \/ f[j] < f[i]
      <4>1. i < j \/ j < i
        BY <2>8
      <4>2. QED
        BY <2>5, <4>1
    <3>2. f[i] \in Int /\ f[j] \in Int
      BY <2>6
    <3>3. f[i] # f[j]
      BY <3>1, <3>2
    <3>4. QED
      BY <2>6, <2>7, <3>3 DEF IsInjective
  <2>9. IsInjective(collected)
    BY <2>1, <2>8 DEF IsInjective
  <2>10. ASSUME NEW i \in 1..c, NEW j \in 1..c, i < j
         PROVE  \E k, l \in 1..Len(accepted) :
                   k < l /\ accepted[k] = collected[i] /\ accepted[l] = collected[j]
    <3>1. f[i] < f[j]
      BY <2>5, <2>10
    <3>2. QED
      BY <2>6, <3>1
  <2>11. QED
    BY <2>9, <2>10 DEF CollectedOnceInOrder
<1>2. QED
  BY <1>1, ReporterInvariant, PTL

\* A collector that has lost the instance after its login is never told of it
\* again.
THEOREM NeverToldAgain == Spec => ForgottenForever
<1>1. IInv /\ [Next]_vars => [register /\ oapKnows = "forgot" => oapKnows' = "forgot"]_vars
  <2> SUFFICES ASSUME IInv, Next, register, oapKnows = "forgot"
               PROVE  oapKnows' = "forgot"
    OBVIOUS
  <2>1. loginTask = "done"
    BY DEF IInv, CellsInv
  <2> USE DEF oapVars
  <2>2. CASE ConnectStep \/ KeepAliveStep
    BY <2>2 DEF ConnectStep, KeepAliveStep, ConnectOk, ConnectFails, ConnectAgain,
                KeepAliveBegins, KeepAliveEnds
  <2>3. CASE LoginStep
    BY <2>1, <2>3 DEF LoginStep, LoginStarts, LoginBegins, LoginOk, LoginFails
  <2>4. CASE HandleContent
    BY <2>4 DEF HandleContent, ParseFails, TrySendPush, TrySendFails, TrySendCount
  <2>5. CASE SenderStep
    BY <2>5 DEF SenderStep, Collect, SendOnce, RecvAllRecv, RecvAllSub, CollectEnds
  <2>6. CASE (\E c \in Content \ received : ReceiveContent(c)) \/ Exit \/ OapChanges
    BY <2>6 DEF ReceiveContent, Exit, OapChanges
  <2>7. QED
    BY <2>2, <2>3, <2>4, <2>5, <2>6 DEF Next, Internal
<1>2. QED
  BY <1>1, ReporterInvariant, PTL DEF Spec, ForgottenForever
=============================================================================
