------------------------------ MODULE Reporter ------------------------------
(***************************************************************************)
(* The reporter process, src/src/reporter/grpc.rs: five tokio tasks on     *)
(* four threads that share two write-once cells (GRPC_CHANNEL, REGISTER)   *)
(* and the counted channel of CountedChannel.  do_connect fills the first  *)
(* cell, login the second; keep_alive and sender wait for both; receive    *)
(* turns what the workers sent into segments, from the first moment on.    *)
(* The two sleeps with which a task polls a cell are the waiting for its   *)
(* guard here; the outcome of every call to the collector is open.         *)
(***************************************************************************)
EXTENDS Integers, Sequences, FiniteSets, SequencesExt

CONSTANTS
    Segment,      \* contents that parse as a SegmentObject, each sent once
    Garbage,      \* contents that do not: empty, not UTF-8, not JSON
    NoContent,    \* no content
    BufferSize,   \* counted_channel(5000), grpc.rs:155
    OapForgets    \* may the collector lose the instance while it is away?

ASSUME ReporterAssumption ==
    /\ BufferSize \in Nat \ {0} /\ OapForgets \in BOOLEAN
    /\ Segment \cap Garbage = {}
    /\ NoContent \notin Segment \union Garbage

Content == Segment \union Garbage

VARIABLES
    alive,          \* the process has not been told to exit
    grpcChannel,    \* GRPC_CHANNEL is set
    register,       \* REGISTER is set
    connectTask, loginTask, keepAliveTask, senderTask, receiveTask,
    content,        \* receive_once's local variable
    queue, counted, trySendPc, recvAllPc, left, buffered, result,
    oapUp,          \* the collector answers
    oapKnows,       \* has the collector the instance's properties, or had it?
    received,       \* history: segments received from the workers
    accepted,       \* history: segments put into the channel, in order
    handed,         \* history: segments of the collect calls that ended
    collected       \* history: segments the collector got, in order

Chan == INSTANCE CountedChannel WITH Item <- Segment, Capacity <- BufferSize

chanVars == <<queue, counted, trySendPc, recvAllPc, left, buffered, result>>
cells == <<alive, grpcChannel, register>>
tasks == <<connectTask, loginTask, keepAliveTask>>
receiveVars == <<receiveTask, content, received, accepted>>
senderVars == <<senderTask, handed, collected>>
oapVars == <<oapUp, oapKnows>>
vars == <<cells, tasks, receiveVars, senderVars, chanVars, oapVars>>

Init ==
    /\ alive = TRUE /\ grpcChannel = FALSE /\ register = FALSE
    /\ connectTask = "connecting"
    /\ loginTask = "starting"
    /\ keepAliveTask = "sleeping"
    /\ senderTask = "gate"
    /\ receiveTask = "receiving"
    /\ content = NoContent
    /\ Chan!Init
    /\ oapUp \in BOOLEAN /\ oapKnows = "never"
    /\ received = {} /\ accepted = <<>> /\ handed = <<>> /\ collected = <<>>

-----------------------------------------------------------------------------
(* do_connect: one attempt a second until one succeeds.                      *)

ConnectOk ==
    /\ alive /\ connectTask = "connecting" /\ oapUp
    /\ connectTask' = "done"
    /\ grpcChannel' = TRUE
    /\ UNCHANGED <<alive, register, loginTask, keepAliveTask, receiveVars, senderVars,
                   chanVars, oapVars>>

\* Mutant of ConnectFails: one failure is the last.
ConnectGivesUp ==
    /\ alive /\ connectTask = "connecting" /\ ~oapUp
    /\ connectTask' = "done"
    /\ UNCHANGED <<cells, loginTask, keepAliveTask, receiveVars, senderVars, chanVars, oapVars>>

ConnectFails ==
    /\ alive /\ connectTask = "connecting" /\ ~oapUp
    /\ connectTask' = "sleeping"
    /\ UNCHANGED <<cells, loginTask, keepAliveTask, receiveVars, senderVars, chanVars, oapVars>>

ConnectAgain ==
    /\ alive /\ connectTask = "sleeping"
    /\ connectTask' = "connecting"
    /\ UNCHANGED <<cells, loginTask, keepAliveTask, receiveVars, senderVars, chanVars, oapVars>>

(* login: report_instance_properties until one call succeeds.                *)

\* The properties are put together first.  A host without an address, or with
\* a name that is not UTF-8, makes unwrap() panic, which ends this task alone.
LoginStarts ==
    /\ alive /\ loginTask = "starting"
    /\ loginTask' \in {"sleeping", "panicked"}
    /\ UNCHANGED <<cells, connectTask, keepAliveTask, receiveVars, senderVars, chanVars, oapVars>>

LoginBegins ==
    /\ alive /\ loginTask = "sleeping" /\ grpcChannel
    /\ loginTask' = "calling"
    /\ UNCHANGED <<cells, connectTask, keepAliveTask, receiveVars, senderVars, chanVars, oapVars>>

LoginOk ==
    /\ alive /\ loginTask = "calling" /\ oapUp
    /\ loginTask' = "done"
    /\ register' = TRUE
    /\ oapKnows' = "yes"
    /\ UNCHANGED <<alive, grpcChannel, connectTask, keepAliveTask, receiveVars, senderVars,
                   chanVars, oapUp>>

\* The answer, or the request, got lost.
LoginFails ==
    /\ alive /\ loginTask = "calling" /\ ~oapUp
    /\ loginTask' = "sleeping"
    /\ oapKnows' \in {oapKnows, "yes"}
    /\ UNCHANGED <<cells, connectTask, keepAliveTask, receiveVars, senderVars, chanVars, oapUp>>

(* keep_alive: a ping every five seconds, whose outcome is ignored.          *)

KeepAliveBegins ==
    /\ alive /\ keepAliveTask = "sleeping" /\ register /\ grpcChannel
    /\ keepAliveTask' = "calling"
    /\ UNCHANGED <<cells, connectTask, loginTask, receiveVars, senderVars, chanVars, oapVars>>

\* Mutant of KeepAliveEnds: a ping that fails logs the instance in again.
KeepAliveLogsIn ==
    /\ alive /\ keepAliveTask = "calling"
    /\ keepAliveTask' = "sleeping"
    /\ loginTask' = IF oapUp THEN loginTask ELSE "sleeping"
    /\ UNCHANGED <<cells, connectTask, receiveVars, senderVars, chanVars, oapVars>>

KeepAliveEnds ==
    /\ alive /\ keepAliveTask = "calling"
    /\ keepAliveTask' = "sleeping"
    /\ UNCHANGED <<cells, connectTask, loginTask, receiveVars, senderVars, chanVars, oapVars>>

-----------------------------------------------------------------------------
(* receive: receive_once in a loop, an error is logged and forgotten.        *)

\* ipc::receive returns c on its blocking thread.
ReceiveContent(c) ==
    /\ alive /\ receiveTask = "receiving" /\ trySendPc = "out"
    /\ content' = c
    /\ received' = IF c \in Segment THEN received \union {c} ELSE received
    /\ receiveTask' = "parsing"
    /\ UNCHANGED <<cells, tasks, accepted, senderVars, chanVars, oapVars>>

\* Empty, str::from_utf8 or serde_json::from_str fail.
ParseFails ==
    /\ alive /\ receiveTask = "parsing" /\ content \in Garbage
    /\ receiveTask' = "receiving"
    /\ content' = NoContent
    /\ UNCHANGED <<cells, tasks, received, accepted, senderVars, chanVars, oapVars>>

\* Mutant of TrySendPush: what does not parse is sent as well.
TrySendUnparsed ==
    /\ alive /\ receiveTask = "parsing"
    /\ Chan!TrySendPush(content)
    /\ accepted' = Append(accepted, content)
    /\ receiveTask' = "receiving"
    /\ content' = NoContent
    /\ UNCHANGED <<cells, tasks, received, senderVars, oapVars>>

TrySendPush ==
    /\ alive /\ receiveTask = "parsing" /\ content \in Segment
    /\ Chan!TrySendPush(content)
    /\ accepted' = Append(accepted, content)
    /\ receiveTask' = "receiving"
    /\ content' = NoContent
    /\ UNCHANGED <<cells, tasks, received, senderVars, oapVars>>

\* Mutant of TrySendFails: a full channel is waited for.
TrySendWaits ==
    /\ alive /\ receiveTask = "parsing" /\ content \in Segment
    /\ ~Chan!HasRoom
    /\ UNCHANGED vars

\* Mutant of TrySendFails: the dropped segment is counted.
TrySendFailsCounts ==
    /\ alive /\ receiveTask = "parsing" /\ content \in Segment
    /\ ~Chan!HasRoom
    /\ counted' = counted + 1
    /\ receiveTask' = "receiving"
    /\ content' = NoContent
    /\ UNCHANGED <<cells, tasks, received, accepted, senderVars, oapVars,
                   queue, trySendPc, recvAllPc, left, buffered, result>>

\* "send failed or fulled": the segment is dropped.
TrySendFails ==
    /\ alive /\ receiveTask = "parsing" /\ content \in Segment
    /\ ~Chan!HasRoom
    /\ receiveTask' = "receiving"
    /\ content' = NoContent
    /\ UNCHANGED <<cells, tasks, received, accepted, senderVars, chanVars, oapVars>>

TrySendCount ==
    /\ alive
    /\ Chan!TrySendCount
    /\ UNCHANGED <<cells, tasks, receiveVars, senderVars, oapVars>>

-----------------------------------------------------------------------------
(* sender: send_once in a loop, behind both cells.                           *)

\* Mutant of SendOnce: the sender waits for the connection only.
SendOnceConnected ==
    /\ alive /\ senderTask = "gate" /\ grpcChannel
    /\ Chan!RecvAllLoad
    /\ senderTask' = IF recvAllPc' = "out" THEN "gate" ELSE "recv_all"
    /\ UNCHANGED <<cells, tasks, receiveVars, handed, collected, oapVars>>

\* recv_all begins; with nothing counted it returns at once and the loop
\* starts again.
SendOnce ==
    /\ alive /\ senderTask = "gate" /\ register /\ grpcChannel
    /\ Chan!RecvAllLoad
    /\ senderTask' = IF recvAllPc' = "out" THEN "gate" ELSE "recv_all"
    /\ UNCHANGED <<cells, tasks, receiveVars, handed, collected, oapVars>>

RecvAllRecv ==
    /\ alive /\ senderTask = "recv_all"
    /\ Chan!RecvAllRecv
    /\ UNCHANGED <<cells, tasks, receiveVars, senderVars, oapVars>>

\* Mutant of RecvAllSub: the batch is not collected when the collector is away.
RecvAllSubChecks ==
    /\ alive /\ senderTask = "recv_all"
    /\ Chan!RecvAllSub
    /\ senderTask' = IF recvAllPc' # "out" THEN "recv_all"
                     ELSE IF oapUp THEN "collecting" ELSE "gate"
    /\ UNCHANGED <<cells, tasks, receiveVars, handed, collected, oapVars>>

\* The last iteration returns the batch and do_collect begins.
RecvAllSub ==
    /\ alive /\ senderTask = "recv_all"
    /\ Chan!RecvAllSub
    /\ senderTask' = IF recvAllPc' = "out" THEN "collecting" ELSE "recv_all"
    /\ UNCHANGED <<cells, tasks, receiveVars, handed, collected, oapVars>>

\* Mutant of CollectEnds: a batch that did not arrive whole is sent again.
CollectRetries(n) ==
    /\ alive /\ senderTask = "collecting"
    /\ collected' = collected \o SubSeq(result, 1, n)
    /\ Len(collected') < 9
    /\ IF n < Len(result)
       THEN UNCHANGED <<handed, senderTask>>
       ELSE handed' = handed \o result /\ senderTask' = "gate"
    /\ UNCHANGED <<cells, tasks, receiveVars, chanVars, oapVars>>

\* do_collect returns.  The batch is a stream: when the call fails, or times
\* out after five seconds, the collector may have got any prefix of it.  The
\* error is logged and the sender goes on as after a success.
CollectEnds(n) ==
    /\ alive /\ senderTask = "collecting"
    /\ collected' = collected \o SubSeq(result, 1, n)
    /\ handed' = handed \o result
    /\ senderTask' = "gate"
    /\ UNCHANGED <<cells, tasks, receiveVars, chanVars, oapVars>>

-----------------------------------------------------------------------------
(* SIGTERM, and the collector going away and coming back, with or without    *)
(* what it knew: nothing in the reporter notices either.                     *)

Exit ==
    /\ alive
    /\ alive' = FALSE
    /\ UNCHANGED <<grpcChannel, register, tasks, receiveVars, senderVars, chanVars, oapVars>>

OapChanges ==
    /\ oapUp' = ~oapUp
    /\ oapKnows' \in IF OapForgets /\ oapKnows = "yes" THEN {"yes", "forgot"} ELSE {oapKnows}
    /\ UNCHANGED <<cells, tasks, receiveVars, senderVars, chanVars>>

ConnectStep == ConnectOk \/ ConnectFails \/ ConnectAgain
LoginStep == LoginStarts \/ LoginBegins \/ LoginOk \/ LoginFails
KeepAliveStep == KeepAliveBegins \/ KeepAliveEnds
HandleContent == ParseFails \/ TrySendPush \/ TrySendFails \/ TrySendCount
Collect == \E n \in 0..Len(result) : CollectEnds(n)
SenderStep == SendOnce \/ RecvAllRecv \/ RecvAllSub \/ Collect

\* The steps of the process other than the return of ipc::receive.
Internal ==
    ConnectStep \/ LoginStep \/ KeepAliveStep \/ HandleContent \/ SenderStep

Next ==
    \/ Internal
    \/ \E c \in Content \ received : ReceiveContent(c)
    \/ Exit
    \/ OapChanges

Spec == Init /\ [][Next]_vars

\* tokio schedules every task that can run.  Whether a call to the collector
\* succeeds is not up to the code: the properties say what they assume of it.
Fairness ==
    /\ WF_vars(ConnectStep) /\ WF_vars(LoginStep) /\ WF_vars(KeepAliveStep)
    /\ WF_vars(HandleContent) /\ WF_vars(SenderStep)

FairSpec == Spec /\ Fairness

-----------------------------------------------------------------------------
Collecting == IF senderTask = "collecting" THEN result ELSE <<>>

TypeOK ==
    /\ {alive, grpcChannel, register, oapUp} \subseteq BOOLEAN
    /\ oapKnows \in {"never", "yes", "forgot"}
    /\ connectTask \in {"connecting", "sleeping", "done"}
    /\ loginTask \in {"starting", "panicked", "sleeping", "calling", "done"}
    /\ keepAliveTask \in {"sleeping", "calling"}
    /\ senderTask \in {"gate", "recv_all", "collecting"}
    /\ receiveTask \in {"receiving", "parsing"}
    /\ content \in Content \union {NoContent}
    /\ Chan!TypeOK
    /\ received \subseteq Segment
    /\ {accepted, handed, collected} \subseteq Seq(Segment)

\* While the reporter runs, every segment that try_send accepted is in exactly
\* one place, in the order of acceptance: handed over in a collect call that
\* has ended, in the batch of the running call, in the vector of recv_all or
\* in the channel (grpc.rs:71-99, 331-346).  Nothing is dropped or
\* duplicated between the tasks.
EveryAcceptedSegmentIsSomewhere ==
    accepted = handed \o Collecting \o buffered \o queue

\* The collector gets no segment twice and none out of order, whatever calls
\* fail in their middle: a batch whose call has failed is not sent again
\* (grpc.rs:324-326).
CollectedOnceInOrder ==
    /\ IsInjective(collected)
    /\ \A i, j \in 1..Len(collected) :
          i < j => \E k, l \in 1..Len(accepted) :
                      k < l /\ accepted[k] = collected[i] /\ accepted[l] = collected[j]

\* Nothing is collected, and no ping is sent, for an instance the collector
\* was never told of, although three tasks share this knowledge through two
\* cells only and the first of them may have panicked (grpc.rs:194-329).
RegisteredBeforeReport ==
    collected # <<>> \/ senderTask = "collecting" \/ keepAliveTask = "calling"
        => oapKnows # "never"

\* A collector that has lost the instance after its login is never told of it
\* again, whatever fails later: REGISTER is set once and nothing takes it back
\* (grpc.rs:232-235).  Its operator has to reload php-fpm.
ForgottenForever ==
    [][register /\ oapKnows = "forgot" => oapKnows' = "forgot"]_vars

\* The counted channel keeps its promise inside the reporter.
ChannelKeepsPromise == Chan!Spec

\* Whenever the collector stays reachable from some time on, every segment
\* that was accepted before or after that is handed to a collect call, unless
\* the process is told to exit or the login has panicked: however connecting, registering, receiving
\* and sending were interleaved with the collector's failures.
EventuallyHanded ==
    <>[]oapUp => \A s \in Segment :
        s \in ToSet(accepted) ~> (s \in ToSet(handed) \/ ~alive \/ loginTask = "panicked")

\* The receive task returns to ipc::receive for as long as the process runs,
\* also while the collector is away for ever and the channel is full: the
\* workers are not held up by the collector (grpc.rs:283-305).
KeepsReceiving ==
    []<>((receiveTask = "receiving" /\ trySendPc = "out") \/ ~alive)
=============================================================================
