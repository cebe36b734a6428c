----------------------------- MODULE BatchQueue -----------------------------
(* What the in-process channel of the reporter promises: segments come out   *)
(* in batches, in the order they went in, each exactly once, and a batch     *)
(* leaves at most the one segment that is being put in behind.               *)
EXTENDS Integers, Sequences

CONSTANT Item

VARIABLES
    pending,   \* items put in and not yet taken out, oldest first
    result     \* the batch that was taken out last

vars == <<pending, result>>

Init == pending = <<>> /\ result = <<>>

Put(m) ==
    /\ pending' = Append(pending, m)
    /\ UNCHANGED result

Take(n) ==
    /\ result' = SubSeq(pending, 1, n)
    /\ pending' = SubSeq(pending, n + 1, Len(pending))

Next ==
    \/ \E m \in Item : Put(m)
    \/ \E n \in 0..Len(pending) : (n = 0 => Len(pending) <= 1) /\ Take(n)

Spec == Init /\ [][Next]_vars
=============================================================================
