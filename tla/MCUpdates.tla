------------------------------ MODULE MCUpdates -------------------------------
(* Two commands that run again and again, each with a worker of its own, and    *)
(* two updates at once.                                                         *)
EXTENDS Updates

CONSTANTS c1, c2, a1, a2, w1, w2

MCCommands == {c1, c2}
MCAppliers == {a1, a2}
MCWorkers == {w1, w2}
MCWorkerOf == [p \in MCCommands |-> IF p = c1 THEN w1 ELSE w2]
MCVersions == 1..2
==============================================================================
