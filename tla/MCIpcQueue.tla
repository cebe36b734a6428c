----------------------------- MODULE MCIpcQueue -----------------------------
(* Small instances of IpcQueue: the workers are interchangeable.            *)
EXTENDS IpcQueue, TLC

Symmetry == Permutations(Workers)
=============================================================================
