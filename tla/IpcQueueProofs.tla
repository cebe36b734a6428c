--------------------------- MODULE IpcQueueProofs ---------------------------
(* The safety of the shared counter of IpcQueue, for every number of        *)
(* workers, every limit and every size of the kernel's buffer.              *)
EXTENDS IpcQueue, FiniteSetTheorems, TLAPS

USE IpcQueueAssumption DEF IpcQueueAssumption

Pc == {"idle", "send", "clip"}

\* The workers that a control state puts at place v.
At(pc, v) == {w \in Workers : pc[w] = v}

\* The places of all workers are finite sets, none larger than the pool.
LEMMA AtFinite ==
    ASSUME NEW pc \in [Workers -> Pc], NEW v
    PROVE  /\ IsFiniteSet(At(pc, v))
           /\ Cardinality(At(pc, v)) \in Nat
           /\ Cardinality(At(pc, v)) <= Cardinality(Workers)
           /\ Cardinality(Workers) \in Nat
<1>1. At(pc, v) \subseteq Workers
  BY DEF At
<1>2. QED
  BY <1>1, FS_Subset, FS_CardinalityType

\* A pool with a worker elsewhere is not entirely at place v.
LEMMA AtMissesOne ==
    ASSUME NEW pc \in [Workers -> Pc], NEW v, NEW w \in Workers, pc[w] # v
    PROVE  Cardinality(At(pc, v)) <= Cardinality(Workers) - 1
<1>1. At(pc, v) \subseteq Workers \ {w}
  BY DEF At
<1>2. IsFiniteSet(Workers \ {w}) /\ Cardinality(Workers \ {w}) = Cardinality(Workers) - 1
  BY FS_RemoveElement
<1>3. QED
  BY <1>1, <1>2, FS_Subset

\* Moving one worker changes the size of a place by at most that worker.
LEMMA MoveOne ==
    ASSUME NEW pc \in [Workers -> Pc], NEW w \in Workers, NEW to \in Pc, NEW v \in Pc
    PROVE  Cardinality(At([pc EXCEPT ![w] = to], v))
             = Cardinality(At(pc, v)) + (IF to = v THEN 1 ELSE 0)
                                      - (IF pc[w] = v THEN 1 ELSE 0)
<1> DEFINE new == [pc EXCEPT ![w] = to]
           others == At(pc, v) \ {w}
<1>1. IsFiniteSet(At(pc, v)) /\ Cardinality(At(pc, v)) \in Nat
  BY AtFinite
<1>2. IsFiniteSet(others) /\ Cardinality(others) \in Nat
  BY <1>1, FS_RemoveElement, FS_CardinalityType
<1>3. Cardinality(At(pc, v)) = Cardinality(others) + (IF pc[w] = v THEN 1 ELSE 0)
  <2>1. CASE pc[w] = v
    <3>1. w \in At(pc, v)
      BY <2>1 DEF At
    <3>2. QED
      BY <1>1, <2>1, <3>1, <1>2, FS_RemoveElement
  <2>2. CASE pc[w] # v
    <3>1. others = At(pc, v)
      BY <2>2 DEF At
    <3>2. QED
      BY <1>1, <2>2, <3>1
  <2>3. QED
    BY <2>1, <2>2
<1>4. Cardinality(At(new, v)) = Cardinality(others) + (IF to = v THEN 1 ELSE 0)
  <2>1. CASE to = v
    <3>1. At(new, v) = others \union {w} /\ w \notin others
      BY <2>1 DEF At
    <3>2. QED
      BY <1>2, <2>1, <3>1, FS_AddElement
  <2>2. CASE to # v
    <3>1. At(new, v) = others
      BY <2>2 DEF At
    <3>2. Cardinality(At(new, v)) = Cardinality(others)
      BY <3>1
    <3> HIDE DEF others, new
    <3>3. QED
      BY <1>2, <2>2, <3>2
  <2>3. QED
    BY <2>1, <2>2
<1>5. QED
  BY <1>1, <1>2, <1>3, <1>4

-----------------------------------------------------------------------------
\* The counter's safety, inductive together with the types.
IInv ==
    /\ TypeOK
    /\ CapacityRespected
    /\ CountCoversOutstanding
    /\ DriftBounded

LEMMA InitIInv == Init => IInv
<1> SUFFICES ASSUME Init PROVE IInv
  OBVIOUS
<1> USE DEF Init
<1>1. Admitted = {} /\ Refused = {}
  BY DEF Admitted, Refused
<1>2. Outstanding = 0 /\ Cardinality(Refused) = 0
  BY <1>1, FS_EmptySet DEF Outstanding, Receiving
<1>3. TypeOK
  BY DEF TypeOK
<1>4. QED
  BY <1>2, <1>3 DEF IInv, CapacityRespected, CountCoversOutstanding, DriftBounded

\* What the sizes of the current and the next state have in common in every
\* step: they are natural numbers.
LEMMA Sizes ==
    ASSUME TypeOK
    PROVE  /\ sendPc \in [Workers -> Pc]
           /\ Admitted = At(sendPc, "send")
           /\ Refused = At(sendPc, "clip")
           /\ Cardinality(Admitted) \in Nat
           /\ Cardinality(Refused) \in Nat
           /\ Cardinality(Workers) \in Nat
           /\ Len(channel) \in Nat
           /\ Receiving \in {0, 1}
           /\ count \in Nat
           /\ faults \in Nat
<1>1. sendPc \in [Workers -> Pc]
  BY DEF TypeOK, Pc
<1>2. Admitted = At(sendPc, "send") /\ Refused = At(sendPc, "clip")
  BY DEF Admitted, Refused, At
<1>3. Len(channel) \in Nat /\ Receiving \in {0, 1} /\ count \in Nat /\ faults \in Nat
  BY DEF TypeOK, Receiving
<1>4. QED
  BY <1>1, <1>2, <1>3, AtFinite

\* The sizes after worker w has moved to place to.
LEMMA WorkerMoves ==
    ASSUME TypeOK, NEW w \in Workers, NEW to \in Pc,
           sendPc' = [sendPc EXCEPT ![w] = to]
    PROVE  \A v \in Pc : Cardinality(At(sendPc', v))
             = Cardinality(At(sendPc, v)) + (IF to = v THEN 1 ELSE 0)
                                          - (IF sendPc[w] = v THEN 1 ELSE 0)
<1>1. sendPc \in [Workers -> Pc]
  BY Sizes
<1>2. \A v \in Pc : Cardinality(At([sendPc EXCEPT ![w] = to], v))
             = Cardinality(At(sendPc, v)) + (IF to = v THEN 1 ELSE 0)
                                          - (IF sendPc[w] = v THEN 1 ELSE 0)
  BY <1>1, MoveOne
<1>3. \A v \in Pc : At(sendPc', v) = At([sendPc EXCEPT ![w] = to], v)
  OBVIOUS
<1>4. QED
  BY <1>2, <1>3

\* Worker w enters ipc::send, admitted or refused.
LEMMA WorkerEnters ==
    ASSUME TypeOK, NEW w \in Workers, NEW to \in {"send", "clip"},
           sendPc[w] = "idle", sendPc' = [sendPc EXCEPT ![w] = to]
    PROVE  /\ to = "send" => /\ Cardinality(Admitted)' = Cardinality(Admitted) + 1
                             /\ Cardinality(Refused)' = Cardinality(Refused)
           /\ to = "clip" => /\ Cardinality(Admitted)' = Cardinality(Admitted)
                             /\ Cardinality(Refused)' = Cardinality(Refused) + 1
<1>1. to \in Pc /\ "send" \in Pc /\ "clip" \in Pc
  BY DEF Pc
<1>2. \A v \in Pc : Cardinality(At(sendPc', v))
             = Cardinality(At(sendPc, v)) + (IF to = v THEN 1 ELSE 0)
                                          - (IF sendPc[w] = v THEN 1 ELSE 0)
  BY <1>1, WorkerMoves
<1>3. Admitted' = At(sendPc', "send") /\ Refused' = At(sendPc', "clip")
  BY DEF Admitted, Refused, At
<1>4. /\ Cardinality(Admitted)' = Cardinality(Admitted)
            + (IF to = "send" THEN 1 ELSE 0) - (IF sendPc[w] = "send" THEN 1 ELSE 0)
      /\ Cardinality(Refused)' = Cardinality(Refused)
            + (IF to = "clip" THEN 1 ELSE 0) - (IF sendPc[w] = "clip" THEN 1 ELSE 0)
  <2>1. Admitted = At(sendPc, "send") /\ Refused = At(sendPc, "clip")
    BY Sizes
  <2>2. QED
    BY <1>1, <1>2, <1>3, <2>1
<1>5. QED
  BY <1>4, Sizes

\* Worker w leaves ipc::send from place v.
LEMMA WorkerLeaves ==
    ASSUME TypeOK, NEW w \in Workers,
           sendPc[w] \in {"send", "clip"}, sendPc' = [sendPc EXCEPT ![w] = "idle"]
    PROVE  /\ sendPc[w] = "send" => /\ Cardinality(Admitted)' = Cardinality(Admitted) - 1
                                    /\ Cardinality(Refused)' = Cardinality(Refused)
           /\ sendPc[w] = "clip" => /\ Cardinality(Admitted)' = Cardinality(Admitted)
                                    /\ Cardinality(Refused)' = Cardinality(Refused) - 1
<1>1. "idle" \in Pc /\ "send" \in Pc /\ "clip" \in Pc
  BY DEF Pc
<1>2. \A v \in Pc : Cardinality(At(sendPc', v))
             = Cardinality(At(sendPc, v)) + (IF "idle" = v THEN 1 ELSE 0)
                                          - (IF sendPc[w] = v THEN 1 ELSE 0)
  BY <1>1, WorkerMoves
<1>3. Admitted' = At(sendPc', "send") /\ Refused' = At(sendPc', "clip")
  BY DEF Admitted, Refused, At
<1>4. /\ Cardinality(Admitted)' = Cardinality(Admitted)
            + (IF "idle" = "send" THEN 1 ELSE 0) - (IF sendPc[w] = "send" THEN 1 ELSE 0)
      /\ Cardinality(Refused)' = Cardinality(Refused)
            + (IF "idle" = "clip" THEN 1 ELSE 0) - (IF sendPc[w] = "clip" THEN 1 ELSE 0)
  <2>1. Admitted = At(sendPc, "send") /\ Refused = At(sendPc, "clip")
    BY Sizes
  <2>2. QED
    BY <1>1, <1>2, <1>3, <2>1
<1>5. QED
  BY <1>4, Sizes

-----------------------------------------------------------------------------
\* A step that moves no worker leaves the two places as they are.
LEMMA WorkersStay ==
    ASSUME UNCHANGED sendPc
    PROVE  Cardinality(Admitted)' = Cardinality(Admitted)
        /\ Cardinality(Refused)' = Cardinality(Refused)
BY DEF Admitted, Refused

LEMMA StepTypeOK == TypeOK /\ [Next]_vars => TypeOK'
<1> SUFFICES ASSUME TypeOK, [Next]_vars PROVE TypeOK'
  OBVIOUS
<1> USE DEF TypeOK
<1>1. ASSUME NEW w \in Workers, NEW m \in Message, SendFetchAdd(w, m)
      PROVE  TypeOK'
  BY <1>1 DEF SendFetchAdd, FetchAdd, reporterVars
<1>2. ASSUME NEW w \in Workers, SendFetchMin(w)
      PROVE  TypeOK'
  <2>1. FetchMin(count) \in 0..USIZE_MAX
    BY DEF FetchMin
  <2>2. QED
    BY <1>2, <2>1 DEF SendFetchMin, LeaveSend, reporterVars
<1>3. ASSUME NEW w \in Workers, SendToChannel(w)
      PROVE  TypeOK'
  BY <1>3 DEF SendToChannel, LeaveSend, reporterVars
<1>4. ASSUME NEW w \in Workers, SendError(w) \/ WorkerKilled(w)
      PROVE  TypeOK'
  BY <1>4 DEF SendError, WorkerKilled, LeaveSend, reporterVars
<1>5. CASE ReceiveFromChannel
  <2>1. Head(channel) \in Message /\ Tail(channel) \in Seq(Message)
    BY <1>5 DEF ReceiveFromChannel
  <2>2. QED
    BY <1>5, <2>1 DEF ReceiveFromChannel
<1>6. CASE ReceiveFetchSub
  BY <1>6 DEF ReceiveFetchSub, FetchSub
<1>7. CASE ReceiveError
  BY <1>7 DEF ReceiveError, reporterVars
<1>8. CASE ReporterExit
  BY <1>8 DEF ReporterExit
<1>9. CASE UNCHANGED vars
  BY <1>9 DEF vars, reporterVars
<1>10. QED
  BY <1>1, <1>2, <1>3, <1>4, <1>5, <1>6, <1>7, <1>8, <1>9 DEF Next, WorkerStep

\* The three bounds on the counter, action by action.  An admitted sender
\* adds one on both sides of Outstanding <= count and saw a counter below
\* the limit; a fetch_min cannot fall below Outstanding because Outstanding
\* is at most the limit; a fetch_sub takes one from both sides.
LEMMA StepIInv == IInv /\ [Next]_vars => IInv'
<1> SUFFICES ASSUME IInv, [Next]_vars PROVE IInv'
  OBVIOUS
<1>0. TypeOK /\ TypeOK'
  BY StepTypeOK DEF IInv
<1> DEFINE Bounds == CapacityRespected /\ CountCoversOutstanding /\ DriftBounded
<1> SUFFICES Bounds'
  BY <1>0 DEF IInv
<1>b. Bounds
  BY DEF IInv
<1>t. /\ Outstanding \in Nat /\ count \in Nat /\ faults \in Nat
      /\ Cardinality(Admitted) \in Nat /\ Cardinality(Refused) \in Nat
      /\ Len(channel) \in Nat /\ Receiving \in Nat /\ MAX_MESSAGE_QUEUE_COUNT \in Nat
  BY <1>0, Sizes, IpcQueueAssumption DEF Outstanding
<1> USE DEF CapacityRespected, CountCoversOutstanding, DriftBounded
<1>1. ASSUME NEW w \in Workers, NEW m \in Message, SendFetchAdd(w, m)
      PROVE  Bounds'
  <2>1. sendPc[w] = "idle" /\ UNCHANGED <<channel, receivePc, faults>>
    BY <1>1 DEF SendFetchAdd, reporterVars
  <2>2. Receiving' = Receiving /\ Len(channel)' = Len(channel)
    BY <2>1 DEF Receiving
  <2>3. Cardinality(Refused) <= Cardinality(Workers) - 1
    BY <1>0, <2>1, AtMissesOne, Sizes
  <2>4. count' = count + 1
    <3>1. count < USIZE_MAX
      BY <1>0, <1>b, <2>3, Sizes DEF TypeOK
    <3>2. QED
      BY <1>1, <3>1, <1>t DEF SendFetchAdd, FetchAdd
  <2>5. CASE Full(count)
    <3>1. sendPc' = [sendPc EXCEPT ![w] = "clip"]
      BY <1>1, <2>5 DEF SendFetchAdd
    <3>2. /\ Cardinality(Admitted)' = Cardinality(Admitted)
          /\ Cardinality(Refused)' = Cardinality(Refused) + 1
      BY <1>0, <2>1, <3>1, WorkerEnters
    <3>3. Outstanding' = Outstanding
      BY <2>2, <3>2 DEF Outstanding
    <3>4. QED
      BY <1>b, <1>t, <2>1, <2>4, <3>2, <3>3
  <2>6. CASE ~Full(count)
    <3>1. sendPc' = [sendPc EXCEPT ![w] = "send"]
      BY <1>1, <2>6 DEF SendFetchAdd
    <3>2. /\ Cardinality(Admitted)' = Cardinality(Admitted) + 1
          /\ Cardinality(Refused)' = Cardinality(Refused)
      BY <1>0, <2>1, <3>1, WorkerEnters
    <3>3. count < MAX_MESSAGE_QUEUE_COUNT
      BY <1>t, <2>6 DEF Full
    <3>4. Outstanding' = Outstanding + 1
      BY <1>t, <2>2, <3>2 DEF Outstanding
    <3>5. QED
      BY <1>b, <1>t, <2>1, <2>4, <3>2, <3>3, <3>4
  <2>7. QED
    BY <2>5, <2>6
<1>2. ASSUME NEW w \in Workers, SendFetchMin(w)
      PROVE  Bounds'
  <2>1. /\ sendPc[w] = "clip"
        /\ sendPc' = [sendPc EXCEPT ![w] = "idle"]
        /\ UNCHANGED <<channel, receivePc, faults>>
    BY <1>2 DEF SendFetchMin, LeaveSend, reporterVars, Pc
  <2>2. Receiving' = Receiving /\ Len(channel)' = Len(channel)
    BY <2>1 DEF Receiving
  <2>3. /\ Cardinality(Admitted)' = Cardinality(Admitted)
        /\ Cardinality(Refused)' = Cardinality(Refused) - 1
    BY <1>0, <2>1, WorkerLeaves
  <2>4. faults' = faults /\ Outstanding' = Outstanding
    BY <2>1, <2>2, <2>3 DEF Outstanding
  <2>5. count' = FetchMin(count) /\ Cardinality(Refused)' \in Nat
    <3>1. count' = FetchMin(count)
      BY <1>2 DEF SendFetchMin
    <3>2. sendPc' \in [Workers -> Pc]
      BY <1>0 DEF TypeOK, Pc
    <3>3. Refused' = At(sendPc', "clip")
      BY DEF Refused, At
    <3>4. Cardinality(At(sendPc', "clip")) \in Nat
      BY <3>2, AtFinite
    <3>5. QED
      BY <3>1, <3>3, <3>4
  <2>6. faults >= 0
    BY <1>0, Sizes
  <2>7. CASE count < MAX_MESSAGE_QUEUE_COUNT
    <3>1. count' = count
      BY <2>5, <2>7 DEF FetchMin
    <3>2. QED
      BY <1>b, <1>t, <2>3, <2>4, <2>5, <2>6, <2>7, <3>1
  <2>8. CASE ~(count < MAX_MESSAGE_QUEUE_COUNT)
    <3>1. count' = MAX_MESSAGE_QUEUE_COUNT
      BY <2>5, <2>8 DEF FetchMin
    <3>2. QED
      BY <1>b, <1>t, <2>3, <2>4, <2>5, <2>6, <3>1
  <2>9. QED
    BY <2>7, <2>8
<1>3. ASSUME NEW w \in Workers, SendToChannel(w)
      PROVE  Bounds'
  <2>1. /\ sendPc[w] = "send"
        /\ sendPc' = [sendPc EXCEPT ![w] = "idle"]
        /\ UNCHANGED <<count, receivePc, faults>>
    BY <1>3 DEF SendToChannel, LeaveSend, reporterVars, Pc
  <2>2. Receiving' = Receiving /\ Len(channel)' = Len(channel) + 1
    BY <1>0, <1>3, <2>1 DEF Receiving, SendToChannel, TypeOK
  <2>3. /\ Cardinality(Admitted)' = Cardinality(Admitted) - 1
        /\ Cardinality(Refused)' = Cardinality(Refused)
    BY <1>0, <2>1, WorkerLeaves
  <2>4. Outstanding' = Outstanding
    BY <1>t, <2>2, <2>3 DEF Outstanding
  <2>5. QED
    BY <1>b, <2>1, <2>3, <2>4
<1>4. ASSUME NEW w \in Workers, SendError(w) \/ WorkerKilled(w)
      PROVE  Bounds'
  <2>1. /\ sendPc[w] \in {"send", "clip"}
        /\ sendPc' = [sendPc EXCEPT ![w] = "idle"]
        /\ UNCHANGED <<channel, receivePc>>
    BY <1>0, <1>4 DEF SendError, WorkerKilled, LeaveSend, reporterVars, Pc, TypeOK
  <2>2. count' = count /\ faults' = faults + 1
    BY <1>4 DEF SendError, WorkerKilled
  <2>3. Receiving' = Receiving /\ Len(channel)' = Len(channel)
    BY <2>1 DEF Receiving
  <2>4. \/ /\ Cardinality(Admitted)' = Cardinality(Admitted) - 1
           /\ Cardinality(Refused)' = Cardinality(Refused)
        \/ /\ Cardinality(Admitted)' = Cardinality(Admitted)
           /\ Cardinality(Refused)' = Cardinality(Refused) - 1
    BY <1>0, <2>1, WorkerLeaves
  <2>5. Outstanding' \in Int /\ Outstanding' <= Outstanding
    BY <1>t, <2>3, <2>4 DEF Outstanding
  <2>6. Cardinality(Refused)' \in Int /\ Cardinality(Refused)' >= Cardinality(Refused) - 1
    BY <1>t, <2>4
  <2>7. QED
    BY <1>b, <1>t, <2>2, <2>5, <2>6
<1>5. CASE ReceiveFromChannel
  <2>1. UNCHANGED <<sendPc, count, faults>>
    BY <1>5 DEF ReceiveFromChannel
  <2>2. Receiving = 0 /\ Receiving' = 1 /\ Len(channel)' = Len(channel) - 1
    BY <1>0, <1>5 DEF Receiving, ReceiveFromChannel, TypeOK
  <2>3. Outstanding' = Outstanding /\ Cardinality(Refused)' = Cardinality(Refused)
    BY <1>t, <2>1, <2>2, WorkersStay DEF Outstanding
  <2>4. QED
    BY <1>b, <2>1, <2>3
<1>6. CASE ReceiveFetchSub
  <2>1. UNCHANGED <<sendPc, channel, faults>>
    BY <1>6 DEF ReceiveFetchSub
  <2>2. Receiving = 1 /\ Receiving' = 0 /\ Len(channel)' = Len(channel)
    BY <1>6, <2>1 DEF Receiving, ReceiveFetchSub
  <2>3. Outstanding' = Outstanding - 1 /\ Cardinality(Refused)' = Cardinality(Refused)
    BY <1>t, <2>1, <2>2, WorkersStay DEF Outstanding
  <2>4. count >= 1
    BY <1>0, <1>b, <1>t, <2>2, Sizes DEF Outstanding
  <2>5. count' = count - 1
    BY <1>6, <1>t, <2>4 DEF ReceiveFetchSub, FetchSub
  <2>6. QED
    BY <1>b, <1>t, <2>1, <2>3, <2>5
<1>7. CASE ReporterExit \/ UNCHANGED vars
  <2>1. UNCHANGED <<sendPc, count, channel, receivePc, faults>>
    BY <1>7 DEF ReporterExit, vars, reporterVars
  <2>2. Receiving' = Receiving /\ Len(channel)' = Len(channel)
    BY <2>1 DEF Receiving
  <2>3. Outstanding' = Outstanding /\ Cardinality(Refused)' = Cardinality(Refused)
    BY <2>1, <2>2, WorkersStay DEF Outstanding
  <2>4. QED
    BY <1>b, <2>1, <2>3
<1>8. CASE ReceiveError
  <2>1. UNCHANGED <<sendPc, count, receivePc>> /\ faults' = faults + 1
    BY <1>8 DEF ReceiveError, reporterVars
  <2>2. Receiving' = Receiving
    BY <2>1 DEF Receiving
  <2>3. Len(channel)' = Len(channel) - 1
    BY <1>0, <1>8 DEF ReceiveError, TypeOK
  <2>4. Outstanding' = Outstanding - 1 /\ Cardinality(Refused)' = Cardinality(Refused)
    BY <1>t, <2>1, <2>2, <2>3, WorkersStay DEF Outstanding
  <2>5. QED
    BY <1>b, <1>t, <2>1, <2>4
<1>9. QED
  BY <1>1, <1>2, <1>3, <1>4, <1>5, <1>6, <1>7, <1>8 DEF Next, WorkerStep

\* Every state of the program satisfies the inductive invariant: the bounds
\* on the shared counter of ipc.rs:45-77 hold for every pool and every limit.
THEOREM CounterInvariant == Spec => []IInv
<1>1. Init => IInv
  BY InitIInv
<1>2. IInv /\ [Next]_vars => IInv'
  BY StepIInv
<1>3. QED
  BY <1>1, <1>2, PTL DEF Spec

\* The variables of the workers, of the kernel channel and of the reporter
\* keep their types.
THEOREM TypeCorrect == Spec => []TypeOK
<1>1. IInv => TypeOK
  BY DEF IInv
<1>2. QED
  BY <1>1, CounterInvariant, PTL

\* The limit of ipc.rs:27 is never exceeded, although the test of the counter
\* and the write to the channel are separate steps of many processes.
THEOREM LimitHolds == Spec => []CapacityRespected
<1>1. IInv => CapacityRespected
  BY DEF IInv
<1>2. QED
  BY <1>1, CounterInvariant, PTL

\* The fetch_sub of ipc::receive never finds the counter at zero, whatever
\* fetch_min of refused senders came before it.
THEOREM NoUnderflow == Spec => []CountCoversOutstanding
<1>1. IInv => CountCoversOutstanding
  BY DEF IInv
<1>2. QED
  BY <1>1, CounterInvariant, PTL

\* The counter exceeds the limit by no more than the refused senders that are
\* still inside send and the workers that failed there.
THEOREM DriftIsBounded == Spec => []DriftBounded
<1>1. IInv => DriftBounded
  BY DEF IInv
<1>2. QED
  BY <1>1, CounterInvariant, PTL

-----------------------------------------------------------------------------
\* In a wedged queue nobody is admitted, nothing is queued and nothing is
\* being received.
LEMMA WedgedIsEmpty ==
    ASSUME TypeOK, Wedged
    PROVE  /\ \A w \in Workers : sendPc[w] # "send"
           /\ channel = <<>>
           /\ receivePc = "recv"
           /\ count >= MAX_MESSAGE_QUEUE_COUNT
<1>1. Cardinality(Admitted) = 0 /\ Len(channel) = 0 /\ Receiving = 0
  BY Sizes DEF Wedged, Outstanding
<1>2. IsFiniteSet(Admitted)
  BY Sizes, AtFinite
<1>3. Admitted = {}
  BY <1>1, <1>2, FS_EmptySet
<1>4. \A w \in Workers : sendPc[w] # "send"
  BY <1>3 DEF Admitted
<1>5. channel = <<>>
  BY <1>1 DEF TypeOK
<1>6. receivePc = "recv"
  BY <1>1 DEF Receiving, TypeOK
<1>7. QED
  BY <1>4, <1>5, <1>6 DEF Wedged, Full

\* Conversely, those four facts of the next state make it a wedged one.
LEMMA EmptyIsWedged ==
    ASSUME \A w \in Workers : sendPc'[w] # "send",
           channel' = <<>>, receivePc' = "recv", count' >= MAX_MESSAGE_QUEUE_COUNT
    PROVE  Wedged'
<1>1. Admitted' = {} /\ Len(channel)' = 0 /\ Receiving' = 0
  BY DEF Admitted, Receiving
<1>2. QED
  BY <1>1, FS_EmptySet DEF Wedged, Outstanding, Full

LEMMA StepWedged == IInv /\ Wedged /\ [Next]_vars => Wedged'
<1> SUFFICES ASSUME IInv, Wedged, [Next]_vars PROVE Wedged'
  OBVIOUS
<1>0. TypeOK
  BY DEF IInv
<1>1. /\ \A w \in Workers : sendPc[w] # "send"
      /\ channel = <<>>
      /\ receivePc = "recv"
      /\ count >= MAX_MESSAGE_QUEUE_COUNT
  BY <1>0, WedgedIsEmpty
<1> SUFFICES /\ \A w \in Workers : sendPc'[w] # "send"
             /\ channel' = <<>>
             /\ receivePc' = "recv"
             /\ count' >= MAX_MESSAGE_QUEUE_COUNT
  BY EmptyIsWedged
<1>2. ASSUME NEW w \in Workers, NEW m \in Message, SendFetchAdd(w, m)
      PROVE  /\ sendPc' = [sendPc EXCEPT ![w] = "clip"]
             /\ count' = count + 1
             /\ UNCHANGED <<channel, receivePc>>
  <2>1. Full(count)
    BY <1>1 DEF Full
  <2>2. Cardinality(Refused) <= Cardinality(Workers) - 1
    BY <1>0, <1>2, AtMissesOne, Sizes DEF SendFetchAdd
  <2>3. count < USIZE_MAX
    BY <1>0, <2>2, Sizes DEF IInv, DriftBounded, TypeOK
  <2>4. QED
    BY <1>0, <1>2, <2>1, <2>3, Sizes DEF SendFetchAdd, FetchAdd, reporterVars
<1>3. ASSUME NEW w \in Workers, SendFetchMin(w)
      PROVE  /\ sendPc' = [sendPc EXCEPT ![w] = "idle"]
             /\ count' = MAX_MESSAGE_QUEUE_COUNT
             /\ UNCHANGED <<channel, receivePc>>
  BY <1>0, <1>1, <1>3, Sizes DEF SendFetchMin, LeaveSend, FetchMin, reporterVars
<1>4. ASSUME NEW w \in Workers, SendToChannel(w)
      PROVE  FALSE
  BY <1>1, <1>4 DEF SendToChannel
<1>5. ASSUME NEW w \in Workers, SendError(w) \/ WorkerKilled(w)
      PROVE  /\ sendPc' = [sendPc EXCEPT ![w] = "idle"]
             /\ UNCHANGED <<count, channel, receivePc>>
  BY <1>5 DEF SendError, WorkerKilled, LeaveSend, reporterVars
<1>6. CASE ReceiveFromChannel \/ ReceiveFetchSub \/ ReceiveError
  BY <1>1, <1>6 DEF ReceiveFromChannel, ReceiveFetchSub, ReceiveError
<1>7. CASE ReporterExit \/ UNCHANGED vars
  BY <1>1, <1>7 DEF ReporterExit, vars, reporterVars
<1>8. CASE \E w \in Workers : WorkerStep(w)
  <2>1. PICK w \in Workers : WorkerStep(w)
    BY <1>8
  <2>2. \/ sendPc' = [sendPc EXCEPT ![w] = "clip"]
        \/ sendPc' = [sendPc EXCEPT ![w] = "idle"]
    BY <2>1, <1>2, <1>3, <1>4, <1>5 DEF WorkerStep
  <2>3. UNCHANGED <<channel, receivePc>> /\ count' >= MAX_MESSAGE_QUEUE_COUNT
    BY <2>1, <1>0, <1>1, <1>2, <1>3, <1>4, <1>5, Sizes DEF WorkerStep
  <2>4. QED
    BY <1>0, <1>1, <2>2, <2>3 DEF TypeOK
<1>9. QED
  BY <1>6, <1>7, <1>8 DEF Next

\* A queue whose counter is stuck at the limit with nothing in it refuses
\* every message until php-fpm is restarted (ipc.rs:50-52): no step of any
\* process leads out of that state.
THEOREM WedgedIsForever == Spec => WedgedForever
<1>1. IInv /\ [Next]_vars => [Wedged => Wedged']_vars
  BY StepWedged
<1>2. QED
  BY <1>1, CounterInvariant, PTL DEF Spec, WedgedForever
=============================================================================
