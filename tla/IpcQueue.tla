------------------------------ MODULE IpcQueue ------------------------------
(***************************************************************************)
(* The message queue between the php-fpm workers and the reporter process, *)
(* src/src/reporter/ipc.rs: a kernel channel of bounded size (bytes_channel)*)
(* and a counter in shared memory that is meant to hold the number of      *)
(* queued messages.  ipc::send reserves a place with fetch_add before it   *)
(* writes to the channel, ipc::receive gives it back with fetch_sub after  *)
(* it has read, and a refused sender pulls the counter down with           *)
(* fetch_min.  No lock covers these steps: each atomic operation is a step *)
(* of its own here, and a worker may be killed between any two of them.    *)
(***************************************************************************)
EXTENDS Integers, Sequences, FiniteSets

CONSTANTS
    Workers,                  \* the php-fpm worker processes
    Message,                  \* the byte strings a worker may send
    NoMessage,                \* no byte string at all
    MAX_MESSAGE_QUEUE_COUNT,  \* ipc.rs:27, 4096 in the code
    ChannelCapacity,          \* messages the kernel's socket buffer holds
    USIZE_MAX,                \* largest value of the shared AtomicUsize
    MaxFaults                 \* bound on killed workers, failed writes and reads

ASSUME IpcQueueAssumption ==
    /\ IsFiniteSet(Workers)
    /\ NoMessage \notin Message
    /\ MAX_MESSAGE_QUEUE_COUNT \in Nat \ {0}
    /\ ChannelCapacity \in Nat \ {0}
    /\ MaxFaults \in Nat
    /\ USIZE_MAX \in Nat
    /\ USIZE_MAX >= MAX_MESSAGE_QUEUE_COUNT + Cardinality(Workers) + MaxFaults

VARIABLES
    count,       \* MESSAGE_QUEUE_COUNT
    channel,     \* messages in the kernel channel, oldest first
    sendPc,      \* where each worker is in ipc::send
    data,        \* the argument of each worker's send
    receivePc,   \* where the reporter is in ipc::receive
    buffer,      \* the reporter's local variable of that name
    alive,       \* the reporter process runs
    faults       \* workers killed inside send, failed writes and reads, so far

vars == <<count, channel, sendPc, data, receivePc, buffer, alive, faults>>
reporterVars == <<receivePc, buffer, alive>>

(***************************************************************************)
(* The atomic operations of AtomicUsize, which wrap around.                *)
(***************************************************************************)
FetchAdd(c) == IF c = USIZE_MAX THEN 0 ELSE c + 1
FetchSub(c) == IF c = 0 THEN USIZE_MAX ELSE c - 1
\* Mutant of FetchMin: it makes room for the next sender.
FetchMinBelow(c) == IF c < MAX_MESSAGE_QUEUE_COUNT THEN c ELSE MAX_MESSAGE_QUEUE_COUNT - 1

FetchMin(c) == IF c < MAX_MESSAGE_QUEUE_COUNT THEN c ELSE MAX_MESSAGE_QUEUE_COUNT

\* Mutant of Full: the boundary is off by one.
FullBeyond(c) == c > MAX_MESSAGE_QUEUE_COUNT

Full(c) == c >= MAX_MESSAGE_QUEUE_COUNT

Init ==
    /\ count = 0
    /\ channel = <<>>
    /\ sendPc = [w \in Workers |-> "idle"]
    /\ data = [w \in Workers |-> NoMessage]
    /\ receivePc = "recv"
    /\ buffer = NoMessage
    /\ alive = TRUE
    /\ faults = 0

-----------------------------------------------------------------------------
\* Mutant of LeaveSend: an error is followed by another attempt to write.
LeaveSendRetries(w) ==
    /\ sendPc' = [sendPc EXCEPT ![w] = "send"]
    /\ data' = [data EXCEPT ![w] = NoMessage]

\* Worker w is back in its request.
LeaveSend(w) ==
    /\ sendPc' = [sendPc EXCEPT ![w] = "idle"]
    /\ data' = [data EXCEPT ![w] = NoMessage]

(* ipc::send, run by a worker at the end of a request.                      *)

\* fetch_add, and the test of the value it returned: a sender that saw a
\* full queue goes on to the fetch_min, any other one to the channel.
SendFetchAdd(w, m) ==
    /\ sendPc[w] = "idle"
    /\ count' = FetchAdd(count)
    /\ sendPc' = [sendPc EXCEPT ![w] = IF Full(count) THEN "clip" ELSE "send"]
    /\ data' = [data EXCEPT ![w] = m]
    /\ UNCHANGED <<channel, reporterVars, faults>>

\* Mutant of SendFetchMin: the refused sender leaves the counter as it is.
SendBails(w) ==
    /\ sendPc[w] = "clip"
    /\ LeaveSend(w)
    /\ UNCHANGED <<count, channel, reporterVars, faults>>

\* Mutant of SendFetchMin: the refused sender tries until there is room.
SendSpins(w) ==
    /\ sendPc[w] = "clip"
    /\ count' = FetchMin(count)
    /\ IF Full(count') THEN UNCHANGED <<sendPc, data>> ELSE LeaveSend(w)
    /\ UNCHANGED <<channel, reporterVars, faults>>

\* fetch_min, then "message queue is fulled".
SendFetchMin(w) ==
    /\ sendPc[w] = "clip"
    /\ count' = FetchMin(count)
    /\ LeaveSend(w)
    /\ UNCHANGED <<channel, reporterVars, faults>>

\* lock.send: blocks while the socket buffer is full.
SendToChannel(w) ==
    /\ sendPc[w] = "send"
    /\ Len(channel) < ChannelCapacity
    /\ channel' = Append(channel, data[w])
    /\ LeaveSend(w)
    /\ UNCHANGED <<count, reporterVars, faults>>

\* try_lock or lock.send return an error: send leaves without touching count.
SendError(w) ==
    /\ sendPc[w] = "send"
    /\ faults < MaxFaults
    /\ faults' = faults + 1
    /\ LeaveSend(w)
    /\ UNCHANGED <<count, channel, reporterVars>>

\* Mutant of WorkerKilled: the killed worker's place is given back.
WorkerKilledGivesBack(w) ==
    /\ sendPc[w] # "idle"
    /\ faults < MaxFaults
    /\ faults' = faults + 1
    /\ count' = FetchSub(count)
    /\ LeaveSend(w)
    /\ UNCHANGED <<channel, reporterVars>>

\* The process manager kills the worker inside send and starts another one
\* in its place, which finds the shared counter as it was left.
WorkerKilled(w) ==
    /\ sendPc[w] # "idle"
    /\ faults < MaxFaults
    /\ faults' = faults + 1
    /\ LeaveSend(w)
    /\ UNCHANGED <<count, channel, reporterVars>>

-----------------------------------------------------------------------------
(* ipc::receive, run by the reporter on a blocking thread.                  *)

ReceiveFromChannel ==
    /\ alive
    /\ receivePc = "recv"
    /\ channel # <<>>
    /\ buffer' = Head(channel)
    /\ channel' = Tail(channel)
    /\ receivePc' = "sub"
    /\ UNCHANGED <<count, sendPc, data, alive, faults>>

ReceiveFetchSub ==
    /\ alive
    /\ receivePc = "sub"
    /\ count' = FetchSub(count)
    /\ receivePc' = "recv"
    /\ buffer' = NoMessage
    /\ UNCHANGED <<channel, sendPc, data, alive, faults>>

\* recv returns an error: its sender was killed between the packets of a long
\* message.  What was read is lost, and the error leaves before the fetch_sub.
ReceiveError ==
    /\ alive
    /\ receivePc = "recv"
    /\ channel # <<>>
    /\ faults < MaxFaults
    /\ faults' = faults + 1
    /\ channel' = Tail(channel)
    /\ UNCHANGED <<count, sendPc, data, reporterVars>>

\* SIGTERM: worker() in grpc.rs calls exit(0) wherever receive is.  Nothing
\* starts another reporter; the workers hold the receiver's descriptor too,
\* so the channel stays open and keeps what it holds.
ReporterExit ==
    /\ alive
    /\ alive' = FALSE
    /\ UNCHANGED <<count, channel, sendPc, data, receivePc, buffer, faults>>

-----------------------------------------------------------------------------
WorkerStep(w) ==
    \/ \E m \in Message : SendFetchAdd(w, m)
    \/ SendFetchMin(w)
    \/ SendToChannel(w)
    \/ SendError(w)
    \/ WorkerKilled(w)

ReceiveStep == ReceiveFromChannel \/ ReceiveFetchSub

Next ==
    \/ \E w \in Workers : WorkerStep(w)
    \/ ReceiveFromChannel
    \/ ReceiveFetchSub
    \/ ReceiveError
    \/ ReporterExit

Spec == Init /\ [][Next]_vars

\* The receive loop of the reporter never pauses, a worker inside send runs
\* on, and the kernel wakes a writer blocked on a full socket buffer.
Fairness ==
    /\ WF_vars(ReceiveStep)
    /\ \A w \in Workers : WF_vars(SendFetchMin(w)) /\ SF_vars(SendToChannel(w))

FairSpec == Spec /\ Fairness

-----------------------------------------------------------------------------
Admitted == {w \in Workers : sendPc[w] = "send"}
Refused == {w \in Workers : sendPc[w] = "clip"}
Receiving == IF receivePc = "sub" THEN 1 ELSE 0

\* Messages admitted by the counter and not yet given back by fetch_sub:
\* about to be written, in the channel, or read but not yet subtracted.
Outstanding == Cardinality(Admitted) + Len(channel) + Receiving

TypeOK ==
    /\ count \in 0..USIZE_MAX
    /\ channel \in Seq(Message)
    /\ sendPc \in [Workers -> {"idle", "send", "clip"}]
    /\ data \in [Workers -> Message \union {NoMessage}]
    /\ \A w \in Workers : sendPc[w] # "idle" => data[w] \in Message
    /\ receivePc \in {"recv", "sub"}
    /\ buffer \in Message \union {NoMessage}
    /\ receivePc = "sub" => buffer \in Message
    /\ alive \in BOOLEAN
    /\ faults \in 0..MaxFaults

\* However the atomic operations of the workers and of the reporter
\* interleave, and wherever a worker is killed, no more than
\* MAX_MESSAGE_QUEUE_COUNT messages are admitted and not yet received: the
\* limit of ipc.rs:27 is never exceeded although the test and the write are
\* separate steps.
CapacityRespected == Outstanding <= MAX_MESSAGE_QUEUE_COUNT

\* The counter never falls behind the messages it stands for, not even by
\* the fetch_min of a sender that was refused while others were received
\* (ipc.rs:51).  The fetch_sub of receive therefore never wraps below zero,
\* which would refuse every later message.
CountCoversOutstanding == Outstanding <= count

\* Upwards the counter drifts by at most one for every sender between its
\* fetch_add and its fetch_min and one for every killed sender, failed write or read, so
\* the fetch_add of a busy pool never wraps around (ipc.rs:47).
DriftBounded ==
    count <= MAX_MESSAGE_QUEUE_COUNT + Cardinality(Refused) + faults

\* The counter says "full" and nothing is left that a fetch_sub could
\* follow.
Wedged == Outstanding = 0 /\ Full(count)

\* A wedged queue stays wedged: no step of a worker or of the reporter ever
\* lowers the counter below the limit again, since fetch_min stops there
\* (ipc.rs:51) and receive blocks before its fetch_sub (ipc.rs:70-74).  Only
\* a restart of php-fpm, which makes a new counter, reports traces again.
WedgedForever == [][Wedged => Wedged']_vars

\* While the reporter lives, no worker stays inside send for ever: a worker
\* that was admitted gets its place in the channel and one that was refused
\* returns to its request (ipc.rs:45-62).
SendReturns ==
    \A w \in Workers : sendPc[w] # "idle" ~> (sendPc[w] = "idle" \/ ~alive)

\* What the error of ipc.rs:52, "message queue is fulled", says of a queue
\* that refuses a message: not when nothing is queued and nobody is inside
\* send.
EmptyQueueAccepts == Outstanding = 0 /\ Refused = {} => ~Full(count)
=============================================================================
