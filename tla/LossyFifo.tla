------------------------------ MODULE LossyFifo ------------------------------
(* What the agent promises to a worker that has put a trace segment into the  *)
(* message queue: it is delivered to the collector at most once, after all     *)
(* segments that entered before it and were delivered, or it is lost.  What    *)
(* enters and is no segment is never delivered.                                *)
EXTENDS Integers, Sequences

CONSTANTS Segment, Garbage

VARIABLES
    entered,     \* the segments that ever entered
    transit,     \* contents on their way, oldest first
    delivered    \* segments delivered, oldest first

vars == <<entered, transit, delivered>>

Init == entered = {} /\ transit = <<>> /\ delivered = <<>>

Enter(m) ==
    /\ m \notin entered
    /\ entered' = entered \union ({m} \cap Segment)
    /\ transit' = Append(transit, m)
    /\ UNCHANGED delivered

\* The oldest k segments leave; the first n of them arrive.
Deliver(n, k) ==
    /\ SubSeq(transit, 1, n) \in Seq(Segment)
    /\ delivered' = delivered \o SubSeq(transit, 1, n)
    /\ transit' = SubSeq(transit, k + 1, Len(transit))
    /\ UNCHANGED entered

Lose(i) ==
    /\ transit' = SubSeq(transit, 1, i - 1) \o SubSeq(transit, i + 1, Len(transit))
    /\ UNCHANGED <<entered, delivered>>

Next ==
    \/ \E m \in Segment \union Garbage : Enter(m)
    \/ \E k \in 1..Len(transit) : \E n \in 0..k : Deliver(n, k)
    \/ \E i \in 1..Len(transit) : Lose(i)

Spec == Init /\ [][Next]_vars
=============================================================================
