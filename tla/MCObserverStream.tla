--------------------------- MODULE MCObserverStream ---------------------------
(* A provider that reports everything and one that reports no total; a session  *)
(* that talks, one that works, two at once, and one of two turns that is billed. *)
EXTENDS ObserverStream

Usages == {[input |-> 1, cached |-> 1, output |-> 1, total |-> 3],
           [input |-> 1, cached |-> Unknown, output |-> 0, total |-> Unknown]}

(* What a message reports of each count is a number or nothing. *)
ASSUME SamplesAreUsage ==
  Samples \subseteq LET count == Nat \cup {Unknown} IN
                       [input : count, cached : count, output : count, total : count]

CONSTANTS s1, s2
Both(n, m) == (s1 :> n) @@ (s2 :> m)
None == Both(0, 0)
Quiet == [turns |-> Both(1, 0), deltas |-> None, tools |-> None, usages |-> None,
          messages |-> None, beats |-> None, faults |-> 0]
Loads ==
  {[Quiet EXCEPT !.messages = Both(1, 0), !.deltas = Both(3, 0), !.tools = Both(1, 0)],
   [Quiet EXCEPT !.deltas = Both(1, 0), !.tools = Both(2, 0), !.beats = Both(1, 0),
                   !.faults = 1],
   [Quiet EXCEPT !.turns = Both(1, 1), !.deltas = Both(2, 0), !.tools = Both(0, 1)],
   [Quiet EXCEPT !.turns = Both(2, 0), !.usages = Both(2, 0), !.faults = 1],
   [Quiet EXCEPT !.turns = Both(2, 1), !.usages = Both(0, 1), !.beats = Both(1, 0)]}
===============================================================================
