------------------------- MODULE CountedChannelProofs -------------------------
(* The counted channel of the reporter, for every capacity and every set of   *)
(* segments: its counter is right whenever it is read, recv_all never waits,   *)
(* and together they implement the queue of BatchQueue.                        *)
EXTENDS CountedChannel, SequenceTheorems, TLAPS

USE CountedChannelAssumption DEF CountedChannelAssumption

\* What makes the properties of the counter inductive: the vector of recv_all
\* is empty outside it and holds what it took inside.
BufferedInv ==
    /\ recvAllPc = "out" => buffered = <<>>
    /\ recvAllPc = "sub" => Len(buffered) >= 1
    /\ Len(queue) <= Capacity

IInv ==
    /\ TypeOK
    /\ CountMatches
    /\ LoopIsCovered
    /\ CountInRange
    /\ BufferedInv

LEMMA InitIInv == Init => IInv
BY DEF Init, IInv, TypeOK, CountMatches, LoopIsCovered, CountInRange, BufferedInv,
       Uncounted, Unsubtracted

\* How the operations on sequences change the lengths.
LEMMA Lengths ==
    ASSUME TypeOK
    PROVE  /\ Len(queue) \in Nat /\ Len(buffered) \in Nat
           /\ \A m \in Item : /\ Append(queue, m) \in Seq(Item)
                              /\ Len(Append(queue, m)) = Len(queue) + 1
           /\ queue # <<>> => /\ Head(queue) \in Item
                              /\ Tail(queue) \in Seq(Item)
                              /\ Len(Tail(queue)) = Len(queue) - 1
                              /\ Len(queue) >= 1
                              /\ Append(buffered, Head(queue)) \in Seq(Item)
                              /\ Len(Append(buffered, Head(queue))) = Len(buffered) + 1
BY DEF TypeOK

\* try_send moves the counter away from the length by one in its first step
\* and back in its second; recv_all does the same in the other direction and
\* never takes out more than it counted.
LEMMA StepIInv == IInv /\ [Next]_vars => IInv'
<1> SUFFICES ASSUME IInv, [Next]_vars PROVE IInv'
  OBVIOUS
<1>0. TypeOK
  BY DEF IInv
<1> USE DEF IInv, TypeOK, CountMatches, LoopIsCovered, CountInRange, BufferedInv,
            Uncounted, Unsubtracted
<1>1. ASSUME NEW m \in Item, TrySendPush(m)
      PROVE  IInv'
  <2>1. Append(queue, m) \in Seq(Item) /\ Len(Append(queue, m)) = Len(queue) + 1
    BY <1>0, Lengths
  <2>2. QED
    BY <1>0, <1>1, <2>1, Lengths DEF TrySendPush, HasRoom, recvEnd
<1>2. CASE TrySendCount
  BY <1>0, <1>2, Lengths DEF TrySendCount, recvEnd
<1>3. CASE RecvAllLoad
  BY <1>0, <1>3, Lengths DEF RecvAllLoad, sendEnd
<1>4. CASE RecvAllRecv
  <2>1. queue # <<>> /\ Len(queue) >= 1
    BY <1>0, <1>4, Lengths DEF RecvAllRecv
  <2>2. /\ queue' \in Seq(Item) /\ Len(queue)' = Len(queue) - 1
        /\ buffered' \in Seq(Item) /\ Len(buffered)' = Len(buffered) + 1
    BY <1>0, <1>4, <2>1, Lengths DEF RecvAllRecv
  <2>3. /\ recvAllPc = "recv" /\ recvAllPc' = "sub"
        /\ UNCHANGED <<counted, trySendPc, left, result>>
    BY <1>4 DEF RecvAllRecv, sendEnd
  <2>4. Unsubtracted = 0 /\ Unsubtracted' = 1 /\ Uncounted' = Uncounted
    BY <2>3
  <2>5. QED
    BY <1>0, <2>1, <2>2, <2>3, <2>4, Lengths
<1>5. CASE RecvAllSub
  <2>1. /\ recvAllPc = "sub" /\ counted' = counted - 1 /\ left' = left - 1
        /\ UNCHANGED <<queue, trySendPc>>
    BY <1>5 DEF RecvAllSub, sendEnd
  <2>2. Unsubtracted = 1 /\ Unsubtracted' = 0 /\ Uncounted' = Uncounted
    BY <1>5, <2>1 DEF RecvAllSub
  <2>3. CASE left > 1
    <3>1. recvAllPc' = "recv" /\ UNCHANGED <<buffered, result>>
      BY <1>5, <2>3 DEF RecvAllSub
    <3>2. QED
      BY <1>0, <2>1, <2>2, <2>3, <3>1, Lengths
  <2>4. CASE ~(left > 1)
    <3>1. recvAllPc' = "out" /\ buffered' = <<>> /\ result' = buffered
      BY <1>5, <2>4 DEF RecvAllSub
    <3>2. QED
      BY <1>0, <2>1, <2>2, <2>4, <3>1, Lengths
  <2>5. QED
    BY <2>3, <2>4
<1>6. CASE UNCHANGED vars
  BY <1>6 DEF vars, sendEnd, recvEnd
<1>7. QED
  BY <1>1, <1>2, <1>3, <1>4, <1>5, <1>6 DEF Next, RecvAllStep

\* Every state of the channel satisfies the inductive invariant.
THEOREM ChannelInvariant == Spec => []IInv
<1>1. Init => IInv
  BY InitIInv
<1>2. IInv /\ [Next]_vars => IInv'
  BY StepIInv
<1>3. QED
  BY <1>1, <1>2, PTL DEF Spec

\* recv_all never waits inside its loop: the counter it read when it began
\* covers each of its iterations, whatever try_send does meanwhile.
THEOREM NeverWaits == Spec => []RecvAllNeverWaits
<1>1. IInv => RecvAllNeverWaits
  BY DEF IInv, TypeOK, LoopIsCovered, CountMatches, CountInRange, RecvAllNeverWaits,
         Uncounted, Unsubtracted
<1>2. QED
  BY <1>1, ChannelInvariant, PTL

\* The counter is the channel's length, but for the element that try_send has
\* not counted yet and the one that recv_all has not subtracted yet.
THEOREM CountIsExact == Spec => []CountMatches
<1>1. IInv => CountMatches
  BY DEF IInv
<1>2. QED
  BY <1>1, ChannelInvariant, PTL

\* The counter is never negative and never more than one above the capacity.
THEOREM CounterInRange == Spec => []CountInRange
<1>1. IInv => CountInRange
  BY DEF IInv
<1>2. QED
  BY <1>1, ChannelInvariant, PTL

-----------------------------------------------------------------------------
\* What is pending in the abstract queue.
Pending == buffered \o queue

\* Putting in at the end, moving the boundary between the vector and the
\* channel, and taking the vector out, said of any two sequences.
LEMMA PutAtEnd ==
    ASSUME NEW b \in Seq(Item), NEW q \in Seq(Item), NEW m \in Item
    PROVE  b \o Append(q, m) = Append(b \o q, m)
<1>1. <<m>> \in Seq(Item) /\ b \o q \in Seq(Item)
  BY ConcatProperties
<1>2. Append(q, m) = q \o <<m>> /\ Append(b \o q, m) = (b \o q) \o <<m>>
  BY <1>1, AppendIsConcat
<1>3. (b \o q) \o <<m>> = b \o (q \o <<m>>)
  BY <1>1, ConcatAssociative
<1>4. QED
  BY <1>2, <1>3

LEMMA MoveBoundary ==
    ASSUME NEW b \in Seq(Item), NEW q \in Seq(Item), q # <<>>
    PROVE  Append(b, Head(q)) \o Tail(q) = b \o q
<1>1. /\ Head(q) \in Item /\ Tail(q) \in Seq(Item) /\ <<Head(q)>> \in Seq(Item)
      /\ Head(q) = q[1] /\ Len(q) \in Nat \ {0}
  BY EmptySeq, HeadTailProperties
<1>2. <<Head(q)>> \o Tail(q) = q
  <2>1. SubSeq(q, 1, Len(q)) = <<q[1]>> \o SubSeq(q, 2, Len(q))
    BY <1>1, SubSeqRecursiveFirst
  <2>2. SubSeq(q, 1, Len(q)) = q /\ SubSeq(q, 2, Len(q)) = Tail(q)
    BY <1>1, SubSeqFull, TailIsSubSeq
  <2>3. QED
    BY <1>1, <2>1, <2>2
<1>3. Append(b, Head(q)) = b \o <<Head(q)>>
  BY <1>1, AppendIsConcat
<1>4. (b \o <<Head(q)>>) \o Tail(q) = b \o (<<Head(q)>> \o Tail(q))
  BY <1>1, ConcatAssociative
<1>5. QED
  BY <1>2, <1>3, <1>4

LEMMA TakeFront ==
    ASSUME NEW b \in Seq(Item), NEW q \in Seq(Item), Len(b) >= 1
    PROVE  /\ Len(b) \in 1..Len(b \o q)
           /\ SubSeq(b \o q, 1, Len(b)) = b
           /\ SubSeq(b \o q, Len(b) + 1, Len(b \o q)) = q
<1>1. Len(b) \in Nat /\ Len(q) \in Nat /\ Len(b \o q) = Len(b) + Len(q)
  BY LenProperties, ConcatProperties
<1>2. SubSeq(b \o q, 1, Len(b)) = b
  <2>1. SubSeq(b \o q, 1, Len(b)) = SubSeq(b, 1, Len(b))
    BY <1>1, SubSeqOfConcat1
  <2>2. QED
    BY <2>1, SubSeqFull
<1>3. CASE Len(q) = 0
  <2>1. q = <<>> /\ SubSeq(b \o q, Len(b) + 1, Len(b \o q)) = <<>>
    BY <1>1, <1>3, EmptySeq, SubSeqEmpty
  <2>2. QED
    BY <1>1, <1>2, <2>1
<1>4. CASE Len(q) # 0
  <2>1. SubSeq(b \o q, Len(b) + 1, Len(b) + Len(q)) = SubSeq(q, 1, Len(q))
    <3>1. /\ Len(b) + 1 \in Len(b) + 1 .. Len(b) + Len(q)
          /\ Len(b) + Len(q) \in Len(b) + 1 .. Len(b) + Len(q)
      BY <1>1, <1>4
    <3>2. SubSeq(b \o q, Len(b) + 1, Len(b) + Len(q))
            = SubSeq(q, Len(b) + 1 - Len(b), Len(b) + Len(q) - Len(b))
      BY <3>1, SubSeqOfConcat2
    <3>3. QED
      BY <1>1, <3>2
  <2>2. SubSeq(q, 1, Len(q)) = q
    BY SubSeqFull
  <2>3. QED
    BY <1>1, <1>2, <2>1, <2>2
<1>5. QED
  BY <1>3, <1>4

LEMMA StepImplements == IInv /\ [Next]_vars => [Batches!Next]_(Batches!vars)
<1> SUFFICES ASSUME IInv, [Next]_vars
             PROVE  Batches!Next \/ UNCHANGED <<Pending, result>>
  BY DEF Batches!vars, Pending
<1>0. TypeOK /\ queue \in Seq(Item) /\ buffered \in Seq(Item)
  BY DEF IInv, TypeOK
<1>1. ASSUME NEW m \in Item, TrySendPush(m)
      PROVE  Batches!Put(m)
  <2>1. queue' = Append(queue, m) /\ UNCHANGED <<buffered, result>>
    BY <1>1 DEF TrySendPush, recvEnd
  <2>2. QED
    BY <1>0, <2>1, PutAtEnd DEF Batches!Put
<1>2. CASE TrySendCount
  BY <1>2 DEF TrySendCount, recvEnd, Pending
<1>3. CASE RecvAllLoad
  <2>1. UNCHANGED <<queue, buffered>> /\ buffered = <<>>
    BY <1>3 DEF RecvAllLoad, IInv, BufferedInv
  <2>2. Pending' = Pending /\ Pending = queue
    BY <1>0, <2>1, ConcatEmptySeq DEF Pending
  <2>3. CASE counted <= 0
    <3>1. Len(queue) <= 1 /\ Len(queue) \in Nat
      BY <1>0, <1>3, <2>3, Lengths
      DEF RecvAllLoad, IInv, TypeOK, CountMatches, Uncounted, Unsubtracted
    <3>2. SubSeq(queue, 1, 0) = <<>> /\ SubSeq(queue, 1, Len(queue)) = queue
      BY <1>0, SubSeqEmpty, SubSeqFull
    <3>3. result' = <<>>
      BY <1>3, <2>3 DEF RecvAllLoad
    <3>4. Batches!Take(0)
      BY <2>2, <3>2, <3>3 DEF Batches!Take, Pending
    <3>5. QED
      BY <2>2, <3>1, <3>4 DEF Batches!Next, Pending
  <2>4. CASE ~(counted <= 0)
    BY <1>3, <2>2, <2>4 DEF RecvAllLoad
  <2>5. QED
    BY <2>3, <2>4
<1>4. CASE RecvAllRecv
  BY <1>0, <1>4, MoveBoundary DEF RecvAllRecv, Pending
<1>5. CASE RecvAllSub
  <2>1. CASE left > 1
    BY <1>5, <2>1 DEF RecvAllSub, Pending
  <2>2. CASE ~(left > 1)
    <3>1. buffered' = <<>> /\ result' = buffered /\ queue' = queue
      BY <1>5, <2>2 DEF RecvAllSub
    <3>2. Len(buffered) >= 1
      BY <1>5 DEF RecvAllSub, IInv, BufferedInv
    <3>3. Pending' = queue
      BY <1>0, <3>1, ConcatEmptySeq DEF Pending
    <3>4. /\ Len(buffered) \in 1..Len(Pending)
          /\ SubSeq(Pending, 1, Len(buffered)) = buffered
          /\ SubSeq(Pending, Len(buffered) + 1, Len(Pending)) = queue
      BY <1>0, <3>2, TakeFront DEF Pending
    <3>5. Batches!Take(Len(buffered))
      BY <3>1, <3>3, <3>4 DEF Batches!Take, Pending
    <3>6. Len(buffered) \in 0..Len(Pending) /\ Len(buffered) # 0
      BY <1>0, <3>2, <3>4, LenProperties
    <3>7. QED
      BY <3>5, <3>6 DEF Batches!Next, Pending
  <2>3. QED
    BY <2>1, <2>2
<1>6. CASE UNCHANGED vars
  BY <1>6 DEF vars, recvEnd, Pending
<1>7. QED
  BY <1>1, <1>2, <1>3, <1>4, <1>5, <1>6 DEF Next, RecvAllStep, Batches!Next

\* The counted channel is a queue: segments leave in batches, in the order in
\* which try_send accepted them, each exactly once, and recv_all returns an
\* empty batch only while at most one segment is on its way in.
THEOREM Implements == Spec => ImplementsBatchQueue
<1>1. Init => Batches!Init
  BY ConcatEmptySeq, EmptySeq DEF Init, Batches!Init
<1>2. IInv /\ [Next]_vars => [Batches!Next]_(Batches!vars)
  BY StepImplements
<1>3. QED
  BY <1>1, <1>2, ChannelInvariant, PTL DEF Spec, ImplementsBatchQueue, Batches!Spec
=============================================================================
