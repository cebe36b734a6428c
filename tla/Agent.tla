-------------------------------- MODULE Agent --------------------------------
(***************************************************************************)
(* The whole agent of one php-fpm master: the workers that send a segment  *)
(* at the end of each request, the message queue (IpcQueue) and the        *)
(* reporter process (Reporter), as sky_core_module_init wires them with a  *)
(* fork (src/src/sky_core_module.c:76-86).  The receive task of the        *)
(* reporter is the receiver of the queue; SIGTERM ends both at once.       *)
(***************************************************************************)
EXTENDS Integers, Sequences, FiniteSets, SequencesExt

CONSTANTS
    Workers, MAX_MESSAGE_QUEUE_COUNT, ChannelCapacity, USIZE_MAX, MaxFaults,
    Segment, Garbage, NoContent, BufferSize, OapForgets

VARIABLES
    \* IpcQueue
    count, channel, sendPc, data, receivePc, buffer, faults,
    \* Reporter
    grpcChannel, register, connectTask, loginTask, keepAliveTask, senderTask,
    receiveTask, content, queue, counted, trySendPc, recvAllPc, left, buffered,
    result, oapUp, oapKnows, received, accepted, handed, collected,
    \* both
    alive,
    \* the segments the workers have sent so far
    offered,
    \* those of them that were written to the kernel channel
    entered

Ipc == INSTANCE IpcQueue WITH
    Message <- Segment \union Garbage, NoMessage <- NoContent

Rep == INSTANCE Reporter

ASSUME AgentAssumption == Ipc!IpcQueueAssumption /\ Rep!ReporterAssumption

ipcOnly == <<count, channel, sendPc, data, receivePc, buffer, faults>>
repOnly == <<grpcChannel, register, connectTask, loginTask, keepAliveTask, senderTask,
             receiveTask, content, queue, counted, trySendPc, recvAllPc, left, buffered,
             result, oapUp, oapKnows, received, accepted, handed, collected>>
vars == <<ipcOnly, repOnly, alive, offered, entered>>

Init ==
    /\ Ipc!Init
    /\ Rep!Init
    /\ offered = {}
    /\ entered = {}

-----------------------------------------------------------------------------
\* sky_core_request_free sends the request's segment, whose id is new.  The
\* JSON has been freed before it is sent (sky_core_module.c:191-192), so the
\* bytes may also be anything else.
RequestEnds(w, s) ==
    /\ s \in Segment \ offered
    /\ \E m \in {s} \union Garbage : Ipc!SendFetchAdd(w, m)
    /\ offered' = offered \union {s}
    /\ UNCHANGED <<repOnly, entered>>

SendToChannel(w) ==
    /\ Ipc!SendToChannel(w)
    /\ entered' = entered \union ({data[w]} \cap Segment)
    /\ UNCHANGED <<repOnly, offered>>

SendGivesUp(w) ==
    /\ Ipc!SendFetchMin(w) \/ Ipc!SendError(w) \/ Ipc!WorkerKilled(w)
    /\ UNCHANGED <<repOnly, offered, entered>>

\* Mutant of ReceiveFromChannel: receive waits for the login, as sender does.
ReceiveWhenRegistered ==
    /\ receiveTask = "receiving" /\ trySendPc = "out" /\ register
    /\ Ipc!ReceiveFromChannel
    /\ UNCHANGED <<repOnly, offered, entered>>

\* receive_once calls ipc::receive again when it is through with a content.
ReceiveFromChannel ==
    /\ receiveTask = "receiving" /\ trySendPc = "out"
    /\ Ipc!ReceiveFromChannel
    /\ UNCHANGED <<repOnly, offered, entered>>

\* ipc::receive fails; receive_once passes the error on and is called again.
ReceiveFails ==
    /\ receiveTask = "receiving" /\ trySendPc = "out"
    /\ Ipc!ReceiveError
    /\ UNCHANGED <<repOnly, offered, entered>>

\* ipc::receive returns what it has read.
ReceiveReturns ==
    /\ Ipc!ReceiveFetchSub
    /\ Rep!ReceiveContent(buffer)
    /\ UNCHANGED <<offered, entered>>

ReporterStep ==
    /\ Rep!Internal
    /\ UNCHANGED <<ipcOnly, offered, entered>>

ReporterExit ==
    /\ Ipc!ReporterExit
    /\ Rep!Exit
    /\ UNCHANGED <<offered, entered>>

OapChanges ==
    /\ Rep!OapChanges
    /\ UNCHANGED <<ipcOnly, offered, entered>>

Next ==
    \/ \E w \in Workers : \E s \in Segment : RequestEnds(w, s)
    \/ \E w \in Workers : SendToChannel(w) \/ SendGivesUp(w)
    \/ ReceiveFromChannel
    \/ ReceiveFails
    \/ ReceiveReturns
    \/ ReporterStep
    \/ ReporterExit
    \/ OapChanges

Spec == Init /\ [][Next]_vars

\* The fairness of the two parts: tasks run on, the kernel wakes blocked
\* writers.  Nothing is assumed of the collector.
Fairness ==
    /\ WF_vars(ReceiveFromChannel \/ ReceiveReturns)
    /\ WF_vars(Rep!HandleContent /\ UNCHANGED <<ipcOnly, offered, entered>>)
    /\ WF_vars(Rep!ConnectStep /\ UNCHANGED <<ipcOnly, offered, entered>>)
    /\ WF_vars(Rep!LoginStep /\ UNCHANGED <<ipcOnly, offered, entered>>)
    /\ WF_vars(Rep!SenderStep /\ UNCHANGED <<ipcOnly, offered, entered>>)
    /\ \A w \in Workers : /\ WF_vars(Ipc!SendFetchMin(w)
                                       /\ UNCHANGED <<repOnly, offered, entered>>)
                          /\ SF_vars(SendToChannel(w))

FairSpec == Spec /\ Fairness

-----------------------------------------------------------------------------
\* What the receive task has in its hands, in receive or in receive_once.
InHand ==
    IF receiveTask = "parsing" THEN <<content>>
    ELSE IF receivePc = "sub" THEN <<buffer>> ELSE <<>>

\* Everything between the kernel channel and the collector, oldest first.
Transit == (Rep!Collecting \o buffered) \o queue \o InHand \o channel

\* The agent delivers each segment that entered the queue at most once and in
\* the order of entry, through every interleaving of workers, receive task and
\* sender task, through killed workers, failed calls and SIGTERM.
Fifo == INSTANCE LossyFifo WITH transit <- Transit, delivered <- collected
DeliversAtMostOnceInOrder == Fifo!Spec

\* A collector that is away, for however long, blocks no worker at the end of
\* its request: while the reporter lives, every send returns.
OutageBlocksNoWorker ==
    \A w \in Workers : sendPc[w] # "idle" ~> (sendPc[w] = "idle" \/ ~alive)

\* Segments that the reporter's full channel refused: received, no longer in
\* receive_once's hands, and not accepted.
Lost == (received \ {content}) \ ToSet(accepted)

\* Segments whose read failed: written, and no longer in the kernel, in the
\* hands of receive or received.
TakenByFailedRead ==
    entered \ (received \union ToSet(channel)
                 \union IF receivePc = "sub" THEN {buffer} ELSE {})

\* With a collector that stays reachable from some time on, every segment
\* that entered the queue is handed to a collect call, unless its read failed,
\* the reporter's channel was full, the login panicked or the reporter was
\* told to exit.  A killed worker or a refused one holds up nobody else's.
EventuallyReported ==
    <>[]oapUp => \A s \in Segment :
        s \in entered ~> \/ s \in ToSet(handed) \union Lost \union TakenByFailedRead
                        \/ ~alive \/ loginTask = "panicked"
=============================================================================
