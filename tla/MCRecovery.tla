----------------------------- MODULE MCRecovery -----------------------------
(* Instances of Recovery for TLC.                                           *)
EXTENDS Recovery

CONSTANTS a, b

\* 1 and 5 are messages of one thread, 3 is another one or belongs to it; the
\* ids of turns sort before and behind those of events.
TwoThreads == [e \in Events |-> IF e = 3 THEN {a, b} ELSE {a}]
=============================================================================
