--------------------------- MODULE CountedChannel ---------------------------
(***************************************************************************)
(* The counted mpsc channel of src/src/reporter/grpc.rs:64-101 and 357-367.*)
(* The receive task puts segments in with try_send, the sender task takes  *)
(* out all it knows of with recv_all.  tokio's channel has no length, so a *)
(* counter beside it says how many recv().await will not wait; each        *)
(* operation on the channel and each one on the counter is a step of its   *)
(* own, and the two tasks run on different threads.                        *)
(***************************************************************************)
EXTENDS Integers, Sequences

CONSTANTS
    Item,       \* the segments
    Capacity    \* counted_channel(5000), grpc.rs:155

ASSUME CountedChannelAssumption == Capacity \in Nat \ {0}

VARIABLES
    queue,      \* contents of the mpsc channel, oldest first
    counted,    \* the AtomicI32 count shared by both ends
    trySendPc,  \* where the receive task is in try_send
    recvAllPc,  \* where the sender task is in recv_all
    left,       \* iterations of recv_all's loop that remain
    buffered,   \* recv_all's local vector
    result      \* what the last recv_all returned

sendEnd == <<trySendPc>>
recvEnd == <<recvAllPc, left, buffered, result>>
vars == <<queue, counted, sendEnd, recvEnd>>

Init ==
    /\ queue = <<>>
    /\ counted = 0
    /\ trySendPc = "out"
    /\ recvAllPc = "out"
    /\ left = 0
    /\ buffered = <<>>
    /\ result = <<>>

-----------------------------------------------------------------------------
(* CountedSender::try_send.  On a full channel the error leaves the counter  *)
(* alone: see TrySendFails of Reporter.                                      *)

HasRoom == Len(queue) < Capacity

TrySendPush(m) ==
    /\ trySendPc = "out"
    /\ HasRoom
    /\ queue' = Append(queue, m)
    /\ trySendPc' = "count"
    /\ UNCHANGED <<counted, recvEnd>>

\* Mutant of TrySendCount: the counter is set instead of added to.
TrySendStores ==
    /\ trySendPc = "count"
    /\ counted' = Len(queue)
    /\ trySendPc' = "out"
    /\ UNCHANGED <<queue, recvEnd>>

TrySendCount ==
    /\ trySendPc = "count"
    /\ counted' = counted + 1
    /\ trySendPc' = "out"
    /\ UNCHANGED <<queue, recvEnd>>

-----------------------------------------------------------------------------
(* CountedReceiver::recv_all.                                                *)

\* Mutant of RecvAllLoad: one iteration too many.
LoadInclusive ==
    /\ recvAllPc = "out"
    /\ left' = counted + 1
    /\ recvAllPc' = IF counted <= 0 THEN "out" ELSE "recv"
    /\ result' = IF counted <= 0 THEN <<>> ELSE result
    /\ UNCHANGED <<queue, counted, sendEnd, buffered>>

\* The load of the counter; nothing counted, nothing returned.
RecvAllLoad ==
    /\ recvAllPc = "out"
    /\ left' = counted
    /\ recvAllPc' = IF counted <= 0 THEN "out" ELSE "recv"
    /\ result' = IF counted <= 0 THEN <<>> ELSE result
    /\ UNCHANGED <<queue, counted, sendEnd, buffered>>

\* self.receiver.recv().await: waits while the channel is empty.
RecvAllRecv ==
    /\ recvAllPc = "recv"
    /\ queue # <<>>
    /\ buffered' = Append(buffered, Head(queue))
    /\ queue' = Tail(queue)
    /\ recvAllPc' = "sub"
    /\ UNCHANGED <<counted, sendEnd, left, result>>

\* Mutant of RecvAllSub: the vector begins anew with each iteration.
RecvAllSubForgets ==
    /\ recvAllPc = "sub"
    /\ counted' = counted - 1
    /\ left' = left - 1
    /\ IF left > 1
       THEN recvAllPc' = "recv" /\ buffered' = <<>> /\ UNCHANGED result
       ELSE recvAllPc' = "out" /\ buffered' = <<>> /\ result' = buffered
    /\ UNCHANGED <<queue, sendEnd>>

\* fetch_sub and the end of the iteration; the last one returns the vector.
RecvAllSub ==
    /\ recvAllPc = "sub"
    /\ counted' = counted - 1
    /\ left' = left - 1
    /\ IF left > 1
       THEN recvAllPc' = "recv" /\ UNCHANGED <<buffered, result>>
       ELSE recvAllPc' = "out" /\ buffered' = <<>> /\ result' = buffered
    /\ UNCHANGED <<queue, sendEnd>>

RecvAllStep == RecvAllLoad \/ RecvAllRecv \/ RecvAllSub

Next ==
    \/ \E m \in Item : TrySendPush(m)
    \/ TrySendCount
    \/ RecvAllStep

Spec == Init /\ [][Next]_vars

-----------------------------------------------------------------------------
Uncounted == IF trySendPc = "count" THEN 1 ELSE 0
Unsubtracted == IF recvAllPc = "sub" THEN 1 ELSE 0

TypeOK ==
    /\ queue \in Seq(Item)
    /\ counted \in Int
    /\ trySendPc \in {"out", "count"}
    /\ recvAllPc \in {"out", "recv", "sub"}
    /\ left \in Nat
    /\ buffered \in Seq(Item)
    /\ result \in Seq(Item)

\* The counter is the length of the channel, but for the one segment that
\* try_send has pushed and not counted (grpc.rs:73-76) and the one that
\* recv_all has received and not subtracted (grpc.rs:95-96).
CountMatches == counted = Len(queue) + Unsubtracted - Uncounted

\* Every iteration that recv_all still has to make finds a segment that was
\* counted when it began, whatever try_send does in between (grpc.rs:94-98).
LoopIsCovered ==
    recvAllPc # "out" => left >= 1 /\ left - Unsubtracted <= Len(queue) - Uncounted

\* recv_all never waits inside its loop, so what it has already taken out is
\* not held back until another request happens to be traced, and the sender
\* task goes on to collect (grpc.rs:88-100).
RecvAllNeverWaits == recvAllPc = "recv" => queue # <<>>

\* The segment in the middle of try_send is still in the channel: recv_all
\* takes out only what was counted, so the counter, although the push comes
\* before the fetch_add, is never negative; nor does it exceed the capacity
\* by more than the segment received and not yet subtracted.
CountInRange == Uncounted <= Len(queue) /\ counted \in 0..Capacity + 1

\* Segments leave in batches, in order, each exactly once.
Batches == INSTANCE BatchQueue WITH pending <- buffered \o queue, result <- result
ImplementsBatchQueue == Batches!Spec
=============================================================================
