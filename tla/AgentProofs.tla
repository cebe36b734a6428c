----------------------------- MODULE AgentProofs -----------------------------
(* The whole agent, for every number of workers, every limit, every size of   *)
(* the two buffers and every fault: it is the message queue and the reporter   *)
(* at once, and what it delivers of the segments that entered comes once and   *)
(* in the order of entry.                                                      *)
EXTENDS Agent, SequenceTheorems, TLAPS

\* The lemmas on sequences of CountedChannelProofs, for whatever is sent.
SeqP == INSTANCE CountedChannelProofs WITH Item <- Rep!Content, Capacity <- BufferSize

TypeInv ==
    /\ queue \in Seq(Segment) /\ buffered \in Seq(Segment) /\ result \in Seq(Segment)
    /\ collected \in Seq(Segment) /\ channel \in Seq(Rep!Content)
    /\ sendPc \in [Workers -> {"idle", "send", "clip"}]
    /\ data \in [Workers -> Rep!Content \union {NoContent}]
    /\ \A w \in Workers : sendPc[w] # "idle" => data[w] \in Rep!Content
    /\ received \subseteq entered /\ entered \subseteq offered /\ offered \subseteq Segment

\* receive is called between two contents, so the receive task has one content
\* in its hands at most.
HandInv ==
    /\ receivePc = "sub" => /\ buffer \in Rep!Content
                            /\ receiveTask = "receiving" /\ trySendPc = "out"
    /\ receiveTask = "parsing" => content \in Rep!Content

\* A segment is at one place at most between its worker and the receive task.
DataInv ==
    /\ \A w \in Workers : data[w] \in Segment => data[w] \in offered \ entered
    /\ \A v, w \in Workers : v # w /\ data[v] \in Segment => data[v] # data[w]

ChannelInv ==
    /\ \A i \in 1..Len(channel) : channel[i] \in Segment => channel[i] \in entered \ received
    /\ \A i, j \in 1..Len(channel) : i # j /\ channel[i] \in Segment => channel[i] # channel[j]
    /\ receivePc = "sub" /\ buffer \in Segment =>
          /\ buffer \in entered \ received
          /\ \A i \in 1..Len(channel) : channel[i] # buffer

IInv == TypeInv /\ HandInv /\ DataInv /\ ChannelInv

-----------------------------------------------------------------------------
LEMMA Disjoint ==
    /\ BufferSize \in Nat \ {0} /\ Rep!Content = Segment \union Garbage
    /\ Segment \cap Garbage = {} /\ NoContent \notin Rep!Content
BY AgentAssumption DEF Rep!ReporterAssumption, Rep!Content

LEMMA InitIInv == Init => IInv
<1> SUFFICES ASSUME Init PROVE IInv
  OBVIOUS
<1>1. /\ channel = <<>> /\ sendPc = [w \in Workers |-> "idle"]
      /\ data = [w \in Workers |-> NoContent] /\ receivePc = "recv"
      /\ queue = <<>> /\ buffered = <<>> /\ result = <<>> /\ collected = <<>>
      /\ receiveTask = "receiving" /\ received = {} /\ offered = {} /\ entered = {}
  BY DEF Init, Ipc!Init, Rep!Init, Rep!Chan!Init
<1>2. QED
  BY <1>1, Disjoint, EmptySeq DEF IInv, TypeInv, HandInv, DataInv, ChannelInv

\* The steps of the reporter's own tasks do not touch what the queue holds.
LEMMA InternalLeaves ==
    ASSUME IInv, Rep!Internal, UNCHANGED <<ipcOnly, offered, entered>>
    PROVE  IInv'
<1>0. UNCHANGED <<channel, sendPc, data, receivePc, buffer, offered, entered>>
  BY DEF ipcOnly
<1> USE DEF Rep!cells, Rep!tasks, Rep!receiveVars, Rep!senderVars, Rep!chanVars, Rep!oapVars
<1>1. ASSUME UNCHANGED <<queue, buffered, result, collected, receiveTask, content, received,
                       trySendPc>>
      PROVE  IInv'
  BY <1>0, <1>1 DEF IInv, TypeInv, HandInv, DataInv, ChannelInv
<1>2. CASE Rep!ConnectStep \/ Rep!LoginStep \/ Rep!KeepAliveStep
  BY <1>1, <1>2 DEF Rep!ConnectStep, Rep!LoginStep, Rep!KeepAliveStep, Rep!ConnectOk,
       Rep!ConnectFails, Rep!ConnectAgain, Rep!LoginStarts, Rep!LoginBegins, Rep!LoginOk,
       Rep!LoginFails, Rep!KeepAliveBegins, Rep!KeepAliveEnds
<1>3. ASSUME UNCHANGED <<received, collected>>, queue' \in Seq(Segment), buffered' \in Seq(Segment),
             result' \in Seq(Segment), UNCHANGED <<receiveTask, content>>,
             UNCHANGED trySendPc \/ trySendPc' = "out"
      PROVE  IInv'
  BY <1>0, <1>3 DEF IInv, TypeInv, HandInv, DataInv, ChannelInv
<1>4. CASE Rep!ParseFails \/ Rep!TrySendFails
  <2>1. /\ UNCHANGED <<queue, buffered, result, collected, received, trySendPc>>
        /\ receiveTask' = "receiving"
    BY <1>4 DEF Rep!ParseFails, Rep!TrySendFails
  <2>2. QED
    BY <1>0, <2>1 DEF IInv, TypeInv, HandInv, DataInv, ChannelInv
<1>5. CASE Rep!TrySendPush
  <2>1. /\ content \in Segment /\ queue' = Append(queue, content)
        /\ UNCHANGED <<buffered, result, collected, received>>
        /\ receiveTask = "parsing" /\ receiveTask' = "receiving"
    BY <1>5 DEF Rep!TrySendPush, Rep!Chan!TrySendPush, Rep!Chan!recvEnd
  <2>2. queue' \in Seq(Segment)
    BY <2>1, AppendProperties DEF IInv, TypeInv
  <2>3. QED
    BY <1>0, <2>1, <2>2 DEF IInv, TypeInv, HandInv, DataInv, ChannelInv
<1>6. CASE Rep!TrySendCount
  BY <1>3, <1>6 DEF Rep!TrySendCount, Rep!Chan!TrySendCount, Rep!Chan!recvEnd, IInv, TypeInv
<1>7. CASE Rep!SendOnce
  BY <1>3, <1>7, EmptySeq DEF Rep!SendOnce, Rep!Chan!RecvAllLoad, Rep!Chan!sendEnd, IInv, TypeInv
<1>8. CASE Rep!RecvAllRecv
  <2>1. queue # <<>> /\ buffered' = Append(buffered, Head(queue)) /\ queue' = Tail(queue)
    BY <1>8 DEF Rep!RecvAllRecv, Rep!Chan!RecvAllRecv
  <2>2. queue' \in Seq(Segment) /\ buffered' \in Seq(Segment)
    BY <2>1, HeadTailProperties, AppendProperties DEF IInv, TypeInv
  <2>3. QED
    BY <1>3, <1>8, <2>2 DEF Rep!RecvAllRecv, Rep!Chan!RecvAllRecv, Rep!Chan!sendEnd, IInv, TypeInv
<1>9. CASE Rep!RecvAllSub
  BY <1>3, <1>9, EmptySeq DEF Rep!RecvAllSub, Rep!Chan!RecvAllSub, Rep!Chan!sendEnd, IInv, TypeInv
<1>10. CASE Rep!Collect
  <2>1. PICK n \in 0..Len(result) : Rep!CollectEnds(n)
    BY <1>10 DEF Rep!Collect
  <2>2. collected' = collected \o SubSeq(result, 1, n)
    BY <2>1 DEF Rep!CollectEnds
  <2>3. SubSeq(result, 1, n) \in Seq(Segment)
    <3>1. \A i \in 1..n : result[i] \in Segment
      BY LenProperties, ElementOfSeq DEF IInv, TypeInv
    <3>2. QED
      BY <3>1, SubSeqProperties
  <2>4. collected' \in Seq(Segment)
    BY <2>2, <2>3, ConcatProperties DEF IInv, TypeInv
  <2>5. QED
    BY <1>0, <2>1, <2>4 DEF Rep!CollectEnds, IInv, TypeInv, HandInv, DataInv, ChannelInv
<1>11. QED
  BY <1>2, <1>4, <1>5, <1>6, <1>7, <1>8, <1>9, <1>10
  DEF Rep!Internal, Rep!HandleContent, Rep!SenderStep

\* A content is passed on from the worker to the channel and from there to the
\* receive task, and is nowhere else at the same time.
LEMMA StepIInv == IInv /\ [Next]_vars => IInv'
<1> SUFFICES ASSUME IInv, [Next]_vars PROVE IInv'
  OBVIOUS
<1>0. /\ channel \in Seq(Rep!Content) /\ Len(channel) \in Nat
      /\ data \in [Workers -> Rep!Content \union {NoContent}]
      /\ sendPc \in [Workers -> {"idle", "send", "clip"}]
  BY LenProperties DEF IInv, TypeInv
<1>1. ASSUME NEW w \in Workers, NEW s \in Segment, RequestEnds(w, s)
      PROVE  IInv'
  <2>1. PICK m \in {s} \union Garbage : Ipc!SendFetchAdd(w, m)
    BY <1>1 DEF RequestEnds
  <2>2. /\ s \notin offered /\ offered' = offered \union {s}
        /\ UNCHANGED <<queue, buffered, result, collected, receiveTask, content, received, trySendPc,
                       entered, channel, receivePc, buffer>>
        /\ data' = [data EXCEPT ![w] = m]
        /\ sendPc' \in [Workers -> {"idle", "send", "clip"}]
        /\ \A v \in Workers : v # w => sendPc'[v] = sendPc[v]
    BY <1>0, <1>1, <2>1 DEF RequestEnds, repOnly, Ipc!SendFetchAdd, Ipc!reporterVars
  <2>3. m \in Rep!Content /\ (m \in Segment => m = s)
    BY Disjoint
  <2>4. QED
    BY <1>0, <2>2, <2>3, Disjoint DEF IInv, TypeInv, HandInv, DataInv, ChannelInv
<1>2. ASSUME NEW w \in Workers, Ipc!LeaveSend(w), UNCHANGED repOnly,
             UNCHANGED <<offered, receivePc, buffer>>
      PROVE  /\ data' = [data EXCEPT ![w] = NoContent]
             /\ sendPc' = [sendPc EXCEPT ![w] = "idle"]
             /\ UNCHANGED <<queue, buffered, result, collected, receiveTask, content, received,
                       trySendPc>>
  BY <1>2 DEF Ipc!LeaveSend, repOnly
<1>3. ASSUME NEW w \in Workers, SendToChannel(w)
      PROVE  IInv'
  <2>1. /\ channel' = Append(channel, data[w]) /\ data[w] \in Rep!Content
        /\ entered' = entered \union ({data[w]} \cap Segment)
        /\ data' = [data EXCEPT ![w] = NoContent] /\ sendPc' = [sendPc EXCEPT ![w] = "idle"]
        /\ UNCHANGED <<queue, buffered, result, collected, receiveTask, content, received, trySendPc,
                       offered, receivePc, buffer>>
    BY <1>2, <1>3 DEF SendToChannel, Ipc!SendToChannel, Ipc!reporterVars, IInv, TypeInv
  <2>2. /\ channel' \in Seq(Rep!Content) /\ Len(channel') = Len(channel) + 1
        /\ \A i \in 1..Len(channel) : channel'[i] = channel[i]
        /\ channel'[Len(channel) + 1] = data[w]
    BY <1>0, <2>1, AppendProperties
  <2>3. TypeInv' /\ HandInv'
    BY <1>0, <2>1, <2>2, Disjoint DEF IInv, TypeInv, HandInv, DataInv
  <2>4. DataInv'
    BY <1>0, <2>1, Disjoint DEF IInv, DataInv
  <2>5. data[w] \in Segment => data[w] \notin entered \union received
    BY DEF IInv, TypeInv, DataInv
  <2>6. \A i \in 1..Len(channel) : channel[i] \in Segment => channel[i] # data[w]
    BY <2>5 DEF IInv, ChannelInv
  <2>7. ChannelInv'
    BY <1>0, <2>1, <2>2, <2>5, <2>6 DEF IInv, ChannelInv
  <2>8. QED
    BY <2>3, <2>4, <2>7 DEF IInv
<1>4. ASSUME NEW w \in Workers, SendGivesUp(w)
      PROVE  IInv'
  <2>1. /\ data' = [data EXCEPT ![w] = NoContent] /\ sendPc' = [sendPc EXCEPT ![w] = "idle"]
        /\ UNCHANGED <<queue, buffered, result, collected, receiveTask, content, received, trySendPc,
                       offered, entered, channel, receivePc, buffer>>
    BY <1>2, <1>4 DEF SendGivesUp, Ipc!SendFetchMin, Ipc!SendError, Ipc!WorkerKilled,
                      Ipc!reporterVars
  <2>2. QED
    BY <1>0, <2>1, Disjoint DEF IInv, TypeInv, HandInv, DataInv, ChannelInv
<1>5. ASSUME channel # <<>>, channel' = Tail(channel)
      PROVE  /\ Head(channel) = channel[1] /\ Head(channel) \in Rep!Content
             /\ channel' \in Seq(Rep!Content) /\ Len(channel') = Len(channel) - 1
             /\ \A i \in 1..Len(channel') : channel'[i] = channel[i + 1]
             /\ Len(channel) >= 1
  BY <1>0, <1>5, EmptySeq, HeadTailProperties
<1>6. CASE ReceiveFromChannel
  <2>1. /\ channel # <<>> /\ channel' = Tail(channel) /\ buffer' = Head(channel)
        /\ receiveTask = "receiving" /\ trySendPc = "out"
        /\ UNCHANGED <<queue, buffered, result, collected, receiveTask, content, received, trySendPc,
                       offered, entered, sendPc, data>>
    BY <1>6 DEF ReceiveFromChannel, Ipc!ReceiveFromChannel, repOnly
  <2>2. TypeInv' /\ HandInv' /\ DataInv'
    BY <1>5, <2>1 DEF IInv, TypeInv, HandInv, DataInv
  <2>3. ChannelInv'
    BY <1>0, <1>5, <2>1 DEF IInv, ChannelInv
  <2>4. QED
    BY <2>2, <2>3 DEF IInv
<1>7. CASE ReceiveFails
  <2>1. /\ channel # <<>> /\ channel' = Tail(channel) /\ receivePc = "recv"
        /\ UNCHANGED <<queue, buffered, result, collected, receiveTask, content, received, trySendPc,
                       offered, entered, sendPc, data, receivePc, buffer>>
    BY <1>7 DEF ReceiveFails, Ipc!ReceiveError, Ipc!reporterVars, repOnly
  <2>2. TypeInv' /\ HandInv' /\ DataInv'
    BY <1>5, <2>1 DEF IInv, TypeInv, HandInv, DataInv
  <2>3. ChannelInv'
    BY <1>0, <1>5, <2>1 DEF IInv, ChannelInv
  <2>4. QED
    BY <2>2, <2>3 DEF IInv
<1>8. CASE ReceiveReturns
  <2>1. /\ receivePc = "sub" /\ receivePc' = "recv" /\ content' = buffer
        /\ received' = (IF buffer \in Segment THEN received \union {buffer} ELSE received)
        /\ UNCHANGED <<queue, buffered, result, collected, offered, entered, sendPc, data, channel>>
    BY <1>8 DEF ReceiveReturns, Ipc!ReceiveFetchSub, Rep!ReceiveContent, Rep!chanVars,
                Rep!senderVars
  <2>2. QED
    BY <2>1 DEF IInv, TypeInv, HandInv, DataInv, ChannelInv
<1>9. CASE ReporterStep
  BY <1>9, InternalLeaves DEF ReporterStep
<1>10. CASE ReporterExit \/ OapChanges
  <2>1. UNCHANGED <<queue, buffered, result, collected, receiveTask, content, received, trySendPc,
                    offered, entered, channel, sendPc, data, receivePc, buffer>>
    BY <1>10 DEF ReporterExit, OapChanges, Ipc!ReporterExit, Rep!Exit, Rep!OapChanges,
                 Rep!receiveVars, Rep!senderVars, Rep!chanVars, ipcOnly
  <2>2. QED
    BY <2>1 DEF IInv, TypeInv, HandInv, DataInv, ChannelInv
<1>11. CASE UNCHANGED vars
  BY <1>11 DEF vars, ipcOnly, repOnly, IInv, TypeInv, HandInv, DataInv, ChannelInv
<1>12. QED
  BY <1>1, <1>3, <1>4, <1>6, <1>7, <1>8, <1>9, <1>10, <1>11 DEF Next

\* A content is at one place at most between its worker and the receive task,
\* and none is received twice.
THEOREM AgentInvariant == Spec => []IInv
<1>1. QED
  BY InitIInv, StepIInv, PTL DEF Spec

-----------------------------------------------------------------------------
\* Both parts of the agent do only what they do on their own: the workers and
\* the receive task keep to the message queue, and the reporter receives no
\* segment it has received before.
THEOREM KeepsToItsParts == Spec => Ipc!Spec /\ Rep!Spec
<1>1. Init => Ipc!Init /\ Rep!Init
  BY DEF Init
<1>2. IInv /\ [Next]_vars => [Ipc!Next]_(Ipc!vars)
  <2> SUFFICES ASSUME IInv, [Next]_vars PROVE Ipc!Next \/ UNCHANGED Ipc!vars
    OBVIOUS
  <2>1. ASSUME NEW w \in Workers, NEW s \in Segment, RequestEnds(w, s)
        PROVE  Ipc!Next
    <3>1. {s} \union Garbage \subseteq Segment \union Garbage
      OBVIOUS
    <3>2. QED
      BY <2>1, <3>1 DEF RequestEnds, Ipc!Next, Ipc!WorkerStep
  <2>2. ASSUME NEW w \in Workers, SendToChannel(w) \/ SendGivesUp(w)
        PROVE  Ipc!Next
    BY <2>2 DEF SendToChannel, SendGivesUp, Ipc!Next, Ipc!WorkerStep
  <2>3. CASE ReceiveFromChannel \/ ReceiveFails \/ ReceiveReturns \/ ReporterExit
    BY <2>3 DEF ReceiveFromChannel, ReceiveFails, ReceiveReturns, ReporterExit, Ipc!Next
  <2>4. CASE ReporterStep
    <3>1. UNCHANGED alive
      BY <2>4 DEF ReporterStep, Rep!Internal, Rep!ConnectStep, Rep!LoginStep, Rep!KeepAliveStep,
           Rep!ConnectOk, Rep!ConnectFails, Rep!ConnectAgain, Rep!LoginStarts, Rep!LoginBegins,
           Rep!LoginOk, Rep!LoginFails, Rep!KeepAliveBegins, Rep!KeepAliveEnds,
           Rep!HandleContent, Rep!ParseFails, Rep!TrySendPush, Rep!TrySendFails,
           Rep!TrySendCount, Rep!SenderStep, Rep!SendOnce, Rep!RecvAllRecv, Rep!RecvAllSub,
           Rep!Collect, Rep!CollectEnds, Rep!cells
    <3>2. QED
      BY <2>4, <3>1 DEF ReporterStep, ipcOnly, Ipc!vars
  <2>5. CASE OapChanges \/ UNCHANGED vars
    BY <2>5 DEF OapChanges, Rep!OapChanges, Rep!cells, ipcOnly, Ipc!vars, vars
  <2>6. QED
    BY <2>1, <2>2, <2>3, <2>4, <2>5 DEF Next
<1>3. IInv /\ [Next]_vars => [Rep!Next]_(Rep!vars)
  <2> SUFFICES ASSUME IInv, [Next]_vars PROVE Rep!Next \/ UNCHANGED Rep!vars
    OBVIOUS
  <2> USE DEF Rep!vars, Rep!cells, Rep!tasks, Rep!receiveVars, Rep!senderVars, Rep!chanVars,
              Rep!oapVars, repOnly
  <2>1. ASSUME NEW w \in Workers, NEW s \in Segment, RequestEnds(w, s)
        PROVE  UNCHANGED Rep!vars
    BY <2>1 DEF RequestEnds, Ipc!SendFetchAdd, Ipc!reporterVars
  <2>2. ASSUME NEW w \in Workers, SendToChannel(w) \/ SendGivesUp(w)
        PROVE  UNCHANGED Rep!vars
    BY <2>2 DEF SendToChannel, SendGivesUp, Ipc!SendToChannel, Ipc!SendFetchMin, Ipc!SendError,
                Ipc!WorkerKilled, Ipc!reporterVars
  <2>3. CASE ReceiveFromChannel \/ ReceiveFails
    BY <2>3 DEF ReceiveFromChannel, ReceiveFails, Ipc!ReceiveFromChannel, Ipc!ReceiveError,
                Ipc!reporterVars
  <2>4. CASE ReceiveReturns
    <3>1. buffer \in Rep!Content \ received
      BY <2>4, Disjoint
      DEF ReceiveReturns, Ipc!ReceiveFetchSub, IInv, TypeInv, HandInv, ChannelInv
    <3>2. QED
      BY <2>4, <3>1 DEF ReceiveReturns, Rep!Next
  <2>5. CASE ReporterStep \/ ReporterExit \/ OapChanges
    BY <2>5 DEF ReporterStep, ReporterExit, OapChanges, Rep!Next
  <2>6. CASE UNCHANGED vars
    BY <2>6 DEF vars
  <2>7. QED
    BY <2>1, <2>2, <2>3, <2>4, <2>5, <2>6 DEF Next
<1>4. QED
  BY <1>1, <1>2, <1>3, AgentInvariant, PTL DEF Spec, Ipc!Spec, Rep!Spec

-----------------------------------------------------------------------------
\* What the reporter has accepted and not handed over.
Held == (Rep!Collecting \o buffered) \o queue

\* A content between two sequences, lost.
LEMMA LoseMiddle ==
    ASSUME NEW s \in Seq(Rep!Content), NEW m \in Rep!Content, NEW t \in Seq(Rep!Content),
           NEW q, q = (s \o <<m>>) \o t
    PROVE  \E i \in 1..Len(q) : SubSeq(q, 1, i - 1) \o SubSeq(q, i + 1, Len(q)) = s \o t
<1>1. /\ <<m>> \in Seq(Rep!Content) /\ Len(<<m>>) = 1
      /\ s \o <<m>> \in Seq(Rep!Content) /\ Len(s \o <<m>>) = Len(s) + 1
      /\ <<m>> \o t \in Seq(Rep!Content) /\ Len(s) \in Nat
  BY ConcatProperties, LenProperties
<1>2. Rep!Content = Rep!Content /\ SeqP!CountedChannelAssumption
  BY Disjoint DEF SeqP!CountedChannelAssumption
<1>3. Len(s) + 1 \in 1..Len(q) /\ SubSeq(q, Len(s) + 2, Len(q)) = t
  BY <1>1, <1>2, SeqP!TakeFront
<1>4. SubSeq(q, 1, Len(s)) = s
  <2>1. CASE Len(s) = 0
    BY <1>1, <2>1, EmptySeq, SubSeqEmpty
  <2>2. CASE Len(s) # 0
    <3>1. q = s \o (<<m>> \o t)
      BY <1>1, ConcatAssociative
    <3>2. QED
      BY <1>1, <1>2, <2>2, <3>1, SeqP!TakeFront
  <2>3. QED
    BY <2>1, <2>2
<1>5. (Len(s) + 1) - 1 = Len(s) /\ (Len(s) + 1) + 1 = Len(s) + 2
  BY <1>1
<1>6. QED
  BY <1>3, <1>4, <1>5

LEMMA Types ==
    ASSUME IInv
    PROVE  /\ queue \in Seq(Rep!Content) /\ buffered \in Seq(Rep!Content)
           /\ result \in Seq(Rep!Content) /\ channel \in Seq(Rep!Content)
           /\ Rep!Collecting \in Seq(Rep!Content)
           /\ Rep!Collecting \o buffered \in Seq(Rep!Content)
           /\ Held \in Seq(Rep!Content) /\ InHand \in Seq(Rep!Content)
           /\ Held \o InHand \in Seq(Rep!Content)
<1>1. /\ queue \in Seq(Rep!Content) /\ buffered \in Seq(Rep!Content)
      /\ result \in Seq(Rep!Content) /\ channel \in Seq(Rep!Content)
  <2>1. Segment \subseteq Rep!Content
    BY Disjoint
  <2>2. QED
    BY <2>1, SeqMonotonic DEF IInv, TypeInv
<1>2. Rep!Collecting \in Seq(Rep!Content) /\ InHand \in Seq(Rep!Content)
  BY <1>1, EmptySeq DEF Rep!Collecting, InHand, IInv, HandInv
<1>3. Rep!Collecting \o buffered \in Seq(Rep!Content)
  BY <1>1, <1>2, ConcatProperties
<1>4. Held \in Seq(Rep!Content)
  BY <1>1, <1>3, ConcatProperties DEF Held
<1>5. QED
  BY <1>1, <1>2, <1>3, <1>4, ConcatProperties

\* The reporter's own steps move boundaries within what is on its way, lose the
\* content in the hands of the receive task, or deliver the oldest segments.
LEMMA InternalDelivers ==
    ASSUME IInv, Rep!Internal, UNCHANGED <<ipcOnly, offered, entered>>
    PROVE  Fifo!Next \/ UNCHANGED Fifo!vars
<1>0. /\ UNCHANGED <<channel, receivePc, buffer, entered>>
      /\ Transit = (Held \o InHand) \o channel
      /\ SeqP!CountedChannelAssumption
      /\ receiveTask = "parsing" => InHand = <<content>>
  BY Disjoint DEF ipcOnly, Transit, Held, SeqP!CountedChannelAssumption, InHand
<1> USE DEF Rep!cells, Rep!tasks, Rep!receiveVars, Rep!senderVars, Rep!chanVars, Rep!oapVars
<1>1. ASSUME UNCHANGED collected, Held' \o InHand' = Held \o InHand
      PROVE  UNCHANGED Fifo!vars
  BY <1>0, <1>1 DEF Fifo!vars, Transit, Held
<1>2. ASSUME UNCHANGED <<senderTask, queue, buffered, result, receiveTask, content, collected>>
      PROVE  UNCHANGED Fifo!vars
  BY <1>0, <1>1, <1>2 DEF Held, InHand, Rep!Collecting
<1>3. ASSUME receiveTask = "parsing", receiveTask' = "receiving"
      PROVE  InHand = <<content>> /\ InHand' = <<>>
  BY <1>0, <1>3 DEF InHand, IInv, HandInv
<1>4. ASSUME UNCHANGED <<receiveTask, content>>
      PROVE  InHand' = InHand
  BY <1>0, <1>4 DEF InHand
<1>5. CASE Rep!ConnectStep \/ Rep!LoginStep \/ Rep!KeepAliveStep
  BY <1>2, <1>5 DEF Rep!ConnectStep, Rep!LoginStep, Rep!KeepAliveStep, Rep!ConnectOk,
       Rep!ConnectFails, Rep!ConnectAgain, Rep!LoginStarts, Rep!LoginBegins, Rep!LoginOk,
       Rep!LoginFails, Rep!KeepAliveBegins, Rep!KeepAliveEnds
<1>6. CASE Rep!ParseFails \/ Rep!TrySendFails
  <2>1. /\ UNCHANGED <<senderTask, queue, buffered, result, collected>>
        /\ receiveTask = "parsing" /\ receiveTask' = "receiving"
    BY <1>6 DEF Rep!ParseFails, Rep!TrySendFails
  <2>2. Held' = Held
    BY <2>1 DEF Held, Rep!Collecting
  <2>3. content \in Rep!Content
    BY <2>1 DEF IInv, HandInv
  <2>4. PICK i \in 1..Len(Transit) :
            SubSeq(Transit, 1, i - 1) \o SubSeq(Transit, i + 1, Len(Transit)) = Held \o channel
    <3>1. Transit = (Held \o <<content>>) \o channel
      BY <1>0, <2>1
    <3>2. Held \in Seq(Rep!Content) /\ channel \in Seq(Rep!Content)
      BY Types
    <3>3. QED
      BY ONLY <2>3, <3>1, <3>2, LoseMiddle
  <2>5. Transit' = Held \o channel
    BY <1>0, <1>3, <2>1, <2>2, Types, ConcatEmptySeq DEF Transit, Held
  <2>6. Fifo!Lose(i)
    BY <1>0, <2>1, <2>4, <2>5 DEF Fifo!Lose
  <2>7. QED
    BY <2>6 DEF Fifo!Next
<1>7. CASE Rep!TrySendPush
  <2>1. /\ content \in Segment /\ queue' = Append(queue, content)
        /\ UNCHANGED <<senderTask, buffered, result, collected>>
        /\ receiveTask = "parsing" /\ receiveTask' = "receiving"
    BY <1>7 DEF Rep!TrySendPush, Rep!Chan!TrySendPush, Rep!Chan!recvEnd
  <2>2. content \in Rep!Content /\ Rep!Collecting' = Rep!Collecting
    BY <2>1, Disjoint DEF Rep!Collecting
  <2>3. Held' = Append(Held, content)
    BY <1>0, <2>1, <2>2, Types, SeqP!PutAtEnd DEF Held
  <2>4. Append(Held, content) = Held \o <<content>> /\ Append(Held, content) \in Seq(Rep!Content)
    BY <2>2, Types, AppendIsConcat, AppendProperties
  <2>5. Held' \o InHand' = Held \o InHand
    BY <1>3, <2>1, <2>3, <2>4, ConcatEmptySeq
  <2>6. QED
    BY <1>1, <2>1, <2>5
<1>8. CASE Rep!TrySendCount
  BY <1>2, <1>8 DEF Rep!TrySendCount, Rep!Chan!TrySendCount, Rep!Chan!recvEnd
<1>9. CASE Rep!SendOnce
  <2>1. /\ UNCHANGED <<queue, buffered, collected, receiveTask, content>>
        /\ senderTask = "gate" /\ senderTask' # "collecting"
    BY <1>9 DEF Rep!SendOnce, Rep!Chan!RecvAllLoad
  <2>2. Rep!Collecting' = Rep!Collecting
    BY <2>1 DEF Rep!Collecting
  <2>3. QED
    BY <1>1, <1>4, <2>1, <2>2 DEF Held
<1>10. CASE Rep!RecvAllRecv
  <2>1. /\ queue # <<>> /\ buffered' = Append(buffered, Head(queue)) /\ queue' = Tail(queue)
        /\ UNCHANGED <<senderTask, collected, result, receiveTask, content>>
    BY <1>10 DEF Rep!RecvAllRecv, Rep!Chan!RecvAllRecv
  <2>2. Rep!Collecting' = Rep!Collecting
    BY <2>1 DEF Rep!Collecting
  <2>3. Head(queue) \in Rep!Content /\ Tail(queue) \in Seq(Rep!Content)
    BY <2>1, Types, HeadTailProperties
  <2>4. Rep!Collecting \o Append(buffered, Head(queue))
          = Append(Rep!Collecting \o buffered, Head(queue))
    BY <1>0, <2>3, Types, SeqP!PutAtEnd
  <2>5. Append(Rep!Collecting \o buffered, Head(queue)) \o Tail(queue) = Held
    BY <1>0, <2>1, Types, SeqP!MoveBoundary DEF Held
  <2>6. Held' = Held
    BY <2>1, <2>2, <2>4, <2>5 DEF Held
  <2>7. QED
    BY <1>1, <1>4, <2>1, <2>6
<1>11. CASE Rep!RecvAllSub
  <2>1. /\ UNCHANGED <<queue, collected, receiveTask, content>> /\ senderTask = "recv_all"
    BY <1>11 DEF Rep!RecvAllSub, Rep!Chan!RecvAllSub
  <2>2. Rep!Collecting = <<>> /\ Held = buffered \o queue
    BY <2>1, Types, ConcatEmptySeq DEF Rep!Collecting, Held
  <2>3. CASE left > 1
    <3>1. senderTask' = "recv_all" /\ UNCHANGED buffered
      BY <1>11, <2>3 DEF Rep!RecvAllSub, Rep!Chan!RecvAllSub
    <3>2. QED
      BY <1>1, <1>4, <2>1, <2>2, <3>1 DEF Held, Rep!Collecting
  <2>4. CASE ~(left > 1)
    <3>1. senderTask' = "collecting" /\ buffered' = <<>> /\ result' = buffered
      BY <1>11, <2>1, <2>4 DEF Rep!RecvAllSub, Rep!Chan!RecvAllSub
    <3>2. Held' = buffered \o queue
      BY <2>1, <3>1, Types, ConcatEmptySeq DEF Held, Rep!Collecting
    <3>3. QED
      BY <1>1, <1>4, <2>1, <2>2, <3>2
  <2>5. QED
    BY <2>3, <2>4
<1>12. ASSUME NEW n \in 0..Len(result), Rep!CollectEnds(n)
       PROVE  Fifo!Next \/ UNCHANGED Fifo!vars
  <2> DEFINE rest == ((buffered \o queue) \o InHand) \o channel
  <2>1. /\ UNCHANGED <<queue, buffered, receiveTask, content>>
        /\ senderTask = "collecting" /\ senderTask' = "gate"
        /\ collected' = collected \o SubSeq(result, 1, n)
    BY <1>12 DEF Rep!CollectEnds
  <2>2. /\ buffered \o queue \in Seq(Rep!Content)
        /\ (buffered \o queue) \o InHand \in Seq(Rep!Content)
        /\ rest \in Seq(Rep!Content)
    BY Types, ConcatProperties
  <2>3. Rep!Collecting = result /\ Rep!Collecting' = <<>>
    BY <2>1 DEF Rep!Collecting
  <2>4. Transit = result \o rest
    <3>0. /\ result \in Seq(Rep!Content) /\ buffered \in Seq(Rep!Content)
          /\ queue \in Seq(Rep!Content) /\ InHand \in Seq(Rep!Content)
          /\ channel \in Seq(Rep!Content)
      BY Types
    <3>1. (result \o buffered) \o queue = result \o (buffered \o queue)
      BY ONLY <3>0, ConcatAssociative
    <3>2. \A x \in Seq(Rep!Content) : (result \o x) \o InHand = result \o (x \o InHand)
      BY ONLY <3>0, ConcatAssociative
    <3>3. \A x \in Seq(Rep!Content) : (result \o x) \o channel = result \o (x \o channel)
      BY ONLY <3>0, ConcatAssociative
    <3>4. (result \o (buffered \o queue)) \o InHand = result \o ((buffered \o queue) \o InHand)
      BY ONLY <2>2, <3>2
    <3>5. (result \o ((buffered \o queue) \o InHand)) \o channel
            = result \o (((buffered \o queue) \o InHand) \o channel)
      BY ONLY <2>2, <3>3
    <3>6. QED
      BY <1>0, <2>3, <3>1, <3>4, <3>5 DEF Held
  <2>5. Transit' = rest
    <3>1. Held' = buffered \o queue
      BY <2>1, <2>3, Types, ConcatEmptySeq DEF Held
    <3>2. InHand' = InHand
      BY <1>4, <2>1
    <3>3. QED
      BY <1>0, <3>1, <3>2 DEF Transit, Held
  <2>6. Len(result) \in Nat /\ Len(rest) \in Nat /\ Len(Transit) = Len(result) + Len(rest)
    BY <2>2, <2>4, Types, ConcatProperties, LenProperties
  <2>7. CASE Len(result) = 0
    <3>1. result = <<>> /\ n = 0 /\ SubSeq(result, 1, n) = <<>>
      BY <2>7, Types, EmptySeq, SubSeqEmpty
    <3>2. Transit = rest
      BY <2>2, <2>4, <3>1, ConcatEmptySeq
    <3>3. QED
      <4>1. collected' = collected
        BY <2>1, <3>1, ConcatEmptySeq DEF IInv, TypeInv
      <4>2. QED
        BY <1>0, <2>5, <3>2, <4>1 DEF Fifo!vars
  <2>8. CASE Len(result) # 0
    <3>1. /\ Len(result) \in 1..Len(Transit)
          /\ SubSeq(Transit, Len(result) + 1, Len(Transit)) = rest
      <4>1. result \in Seq(Rep!Content) /\ Len(result) >= 1
        BY <2>6, <2>8, Types
      <4>2. /\ Len(result) \in 1..Len(result \o rest)
            /\ SubSeq(result \o rest, Len(result) + 1, Len(result \o rest)) = rest
        BY <1>0, <2>2, <4>1, SeqP!TakeFront
      <4>3. QED
        BY <2>4, <4>2
    <3>2. SubSeq(Transit, 1, n) = SubSeq(result, 1, n)
      <4>1. CASE n = 0
        BY <4>1, SubSeqEmpty
      <4>2. CASE n # 0
        <5>1. 1 \in 1..Len(result) /\ n \in 1..Len(result)
          BY <2>6, <2>8, <4>2
        <5>2. QED
          BY <2>2, <2>4, <5>1, Types, SubSeqOfConcat1
      <4>3. QED
        BY <4>1, <4>2
    <3>3. SubSeq(result, 1, n) \in Seq(Segment)
      <4>1. result \in Seq(Segment) /\ \A i \in 1..n : result[i] \in Segment
        BY <2>6, ElementOfSeq DEF IInv, TypeInv
      <4>2. QED
        BY <4>1, SubSeqProperties
    <3>4. Fifo!Deliver(n, Len(result))
      BY <1>0, <2>1, <2>5, <3>1, <3>2, <3>3 DEF Fifo!Deliver
    <3>5. QED
      BY <3>1, <3>4 DEF Fifo!Next
  <2>9. QED
    BY <2>7, <2>8
<1>13. QED
  BY <1>5, <1>6, <1>7, <1>8, <1>9, <1>10, <1>11, <1>12
  DEF Rep!Internal, Rep!HandleContent, Rep!SenderStep, Rep!Collect

\* A write to the kernel channel enters, a read only moves what is on its way,
\* and a failed read loses it.
LEMMA StepDelivers == IInv /\ [Next]_vars => [Fifo!Next]_(Fifo!vars)
<1> SUFFICES ASSUME IInv, [Next]_vars PROVE Fifo!Next \/ UNCHANGED Fifo!vars
  OBVIOUS
<1>0. /\ Transit = (Held \o InHand) \o channel /\ SeqP!CountedChannelAssumption
      /\ data \in [Workers -> Rep!Content \union {NoContent}]
  BY Disjoint DEF Transit, Held, SeqP!CountedChannelAssumption, IInv, TypeInv
<1>1. ASSUME UNCHANGED repOnly
      PROVE  Held' = Held /\ UNCHANGED <<collected, receiveTask, content>>
  BY <1>1 DEF repOnly, Held, Rep!Collecting
<1>2. ASSUME UNCHANGED <<repOnly, entered, channel, receivePc, buffer>>
      PROVE  UNCHANGED Fifo!vars
  BY <1>0, <1>1, <1>2 DEF Fifo!vars, InHand, Transit, Held
<1>3. ASSUME NEW w \in Workers, NEW s \in Segment, RequestEnds(w, s)
      PROVE  UNCHANGED Fifo!vars
  BY <1>2, <1>3 DEF RequestEnds, Ipc!SendFetchAdd, Ipc!reporterVars
<1>4. ASSUME NEW w \in Workers, SendGivesUp(w)
      PROVE  UNCHANGED Fifo!vars
  BY <1>2, <1>4 DEF SendGivesUp, Ipc!SendFetchMin, Ipc!SendError, Ipc!WorkerKilled,
                    Ipc!reporterVars
<1>5. ASSUME NEW w \in Workers, SendToChannel(w)
      PROVE  Fifo!Next
  <2>1. /\ channel' = Append(channel, data[w]) /\ data[w] \in Rep!Content
        /\ entered' = entered \union ({data[w]} \cap Segment)
        /\ UNCHANGED <<repOnly, receivePc, buffer>>
    BY <1>5 DEF SendToChannel, Ipc!SendToChannel, Ipc!reporterVars, IInv, TypeInv
  <2>2. InHand' = InHand /\ Held' = Held /\ UNCHANGED collected
    BY <1>1, <2>1 DEF InHand
  <2>3. Transit' = Append(Transit, data[w])
    <3>1. Held \o InHand \in Seq(Rep!Content) /\ channel \in Seq(Rep!Content)
      BY Types
    <3>2. (Held \o InHand) \o Append(channel, data[w])
            = Append((Held \o InHand) \o channel, data[w])
      BY <1>0, <2>1, <3>1, SeqP!PutAtEnd
    <3>3. QED
      BY <1>0, <2>1, <2>2, <3>2 DEF Transit, Held
  <2>4. data[w] \notin entered
    BY <2>1, Disjoint DEF IInv, TypeInv, DataInv
  <2>5. Fifo!Enter(data[w])
    BY <2>1, <2>2, <2>3, <2>4 DEF Fifo!Enter
  <2>6. QED
    BY <2>1, <2>5, Disjoint DEF Fifo!Next
<1>6. CASE ReceiveFromChannel
  <2>1. /\ channel # <<>> /\ channel' = Tail(channel) /\ buffer' = Head(channel)
        /\ receiveTask = "receiving" /\ receivePc = "recv" /\ receivePc' = "sub"
        /\ UNCHANGED <<repOnly, entered>>
    BY <1>6 DEF ReceiveFromChannel, Ipc!ReceiveFromChannel
  <2>2. InHand = <<>> /\ InHand' = <<Head(channel)>> /\ Held' = Held /\ UNCHANGED collected
    BY <1>1, <2>1 DEF InHand
  <2>3. Head(channel) \in Rep!Content
    BY <2>1, Types, HeadTailProperties
  <2>4. Held \o <<Head(channel)>> = Append(Held, Head(channel)) /\ Held \o <<>> = Held
    BY <2>3, Types, AppendIsConcat, ConcatEmptySeq
  <2>5. Append(Held, Head(channel)) \o Tail(channel) = Held \o channel
    BY <1>0, <2>1, Types, SeqP!MoveBoundary
  <2>6. QED
    BY <1>0, <2>1, <2>2, <2>4, <2>5 DEF Fifo!vars, Transit, Held
<1>7. CASE ReceiveFails
  <2>1. /\ channel # <<>> /\ channel' = Tail(channel) /\ receivePc = "recv"
        /\ UNCHANGED <<repOnly, receivePc, buffer, entered>>
    BY <1>7 DEF ReceiveFails, Ipc!ReceiveError, Ipc!reporterVars
  <2>2. InHand' = InHand /\ Held' = Held /\ UNCHANGED collected
    BY <1>1, <2>1 DEF InHand
  <2>3. Head(channel) \in Rep!Content /\ Tail(channel) \in Seq(Rep!Content)
    BY <2>1, Types, HeadTailProperties
  <2>4. Transit = ((Held \o InHand) \o <<Head(channel)>>) \o Tail(channel)
    <3>1. Append(Held \o InHand, Head(channel)) \o Tail(channel) = Transit
      BY <1>0, <2>1, Types, SeqP!MoveBoundary
    <3>2. Append(Held \o InHand, Head(channel)) = (Held \o InHand) \o <<Head(channel)>>
      BY <2>3, Types, AppendIsConcat
    <3>3. QED
      BY <3>1, <3>2
  <2>5. PICK i \in 1..Len(Transit) :
            SubSeq(Transit, 1, i - 1) \o SubSeq(Transit, i + 1, Len(Transit))
              = (Held \o InHand) \o Tail(channel)
    <3>1. PICK front \in Seq(Rep!Content) : front = Held \o InHand
      BY Types
    <3>2. Transit = (front \o <<Head(channel)>>) \o Tail(channel)
      BY <2>4, <3>1
    <3>3. \E i \in 1..Len(Transit) :
              SubSeq(Transit, 1, i - 1) \o SubSeq(Transit, i + 1, Len(Transit))
                = front \o Tail(channel)
      BY ONLY <2>3, <3>2, LoseMiddle
    <3>4. QED
      BY <3>1, <3>3
  <2>6. Transit' = (Held \o InHand) \o Tail(channel)
    BY <2>1, <2>2 DEF Transit, Held
  <2>7. Fifo!Lose(i)
    BY <2>1, <2>2, <2>5, <2>6 DEF Fifo!Lose
  <2>8. QED
    BY <2>7 DEF Fifo!Next
<1>8. CASE ReceiveReturns
  <2>1. /\ receiveTask = "receiving" /\ receivePc = "sub" /\ receiveTask' = "parsing"
        /\ content' = buffer
        /\ UNCHANGED <<queue, buffered, senderTask, result, collected, channel, entered>>
    BY <1>8 DEF ReceiveReturns, Ipc!ReceiveFetchSub, Rep!ReceiveContent, Rep!chanVars,
                Rep!senderVars
  <2>2. QED
    BY <1>0, <2>1 DEF Fifo!vars, Transit, Held, InHand, Rep!Collecting
<1>9. CASE ReporterStep
  BY <1>9, InternalDelivers DEF ReporterStep
<1>10. CASE ReporterExit \/ OapChanges
  <2>1. /\ UNCHANGED <<queue, buffered, senderTask, result, collected, receiveTask, content>>
        /\ UNCHANGED <<entered, channel, receivePc, buffer>>
    BY <1>10 DEF ReporterExit, OapChanges, Ipc!ReporterExit, Rep!Exit, Rep!OapChanges,
                 Rep!receiveVars, Rep!senderVars, Rep!chanVars, ipcOnly
  <2>2. QED
    BY <1>0, <2>1 DEF Fifo!vars, Transit, Held, InHand, Rep!Collecting
<1>11. CASE UNCHANGED vars
  BY <1>2, <1>11 DEF vars, ipcOnly
<1>12. QED
  BY <1>3, <1>4, <1>5, <1>6, <1>7, <1>8, <1>9, <1>10, <1>11 DEF Next

\* The agent delivers each segment that entered the queue at most once and in
\* the order of entry, whatever its workers, its tasks and the collector do.
THEOREM Delivers == Spec => DeliversAtMostOnceInOrder
<1>1. Init => Fifo!Init
  <2> SUFFICES ASSUME Init PROVE Fifo!Init
    OBVIOUS
  <2>1. /\ channel = <<>> /\ receivePc = "recv" /\ receiveTask = "receiving"
        /\ queue = <<>> /\ buffered = <<>> /\ senderTask = "gate"
        /\ collected = <<>> /\ entered = {}
    BY DEF Init, Ipc!Init, Rep!Init, Rep!Chan!Init
  <2>2. <<>> \o <<>> = <<>>
    BY EmptySeq, ConcatEmptySeq
  <2>3. QED
    BY <2>1, <2>2 DEF Fifo!Init, Transit, Rep!Collecting, InHand
<1>2. IInv /\ [Next]_vars => [Fifo!Next]_(Fifo!vars)
  BY StepDelivers
<1>3. QED
  BY <1>1, <1>2, AgentInvariant, PTL DEF Spec, DeliversAtMostOnceInOrder, Fifo!Spec
=============================================================================
