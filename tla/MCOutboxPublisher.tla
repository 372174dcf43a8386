-------------------------- MODULE MCOutboxPublisher --------------------------
(* Instances of OutboxPublisher for TLC.                                    *)
EXTENDS OutboxPublisher

CONSTANTS m1, m2, m3, t1, t2

\* m1 and m2 are messages of one turn, m3 of another.
TwoTurns == [m \in Messages |-> IF m = m3 THEN t2 ELSE t1]

\* The first message is split.
FirstIsLong == [m \in Messages |-> IF m = m1 THEN 2 ELSE 1]

\* Nothing is split.
AllShort == [m \in Messages |-> 1]
=============================================================================
