------------------------------ MODULE Semaphore ------------------------------
(***************************************************************************)
(* The global concurrency limit (src/runtime/scheduler.ts): at most so many *)
(* turns run at once, across channels, and a hot config push may change     *)
(* how many while turns are running and channels are waiting.               *)
(*                                                                         *)
(* Every method is synchronous up to its return or its only await, so each  *)
(* is one action.  A waiter whose promise was resolved holds its permit     *)
(* from that moment: nothing it still has to do touches the semaphore.      *)
(***************************************************************************)
EXTENDS Integers, Sequences, FiniteSets

CONSTANTS
  Holders,   \* who acquires: the channels with a turn to run
  Sizes      \* the ceilings a configuration may ask for

\* The constructor and setPermits throw below one permit.
ASSUME SemaphoreAssumption ==
  /\ IsFiniteSet(Holders)
  /\ Sizes \subseteq Nat \ {0}
  /\ Sizes # {}

VARIABLES
  permits,    \* #permits, the ceiling
  available,  \* #available, below zero after a shrink
  waiters,    \* #waiters, first come first served
  held        \* holders whose release function was not called yet

vars == <<permits, available, waiters, held>>

Waiting == {waiters[i] : i \in DOMAIN waiters}

Init ==
  /\ permits \in Sizes
  /\ available = permits
  /\ waiters = <<>>
  /\ held = {}

\* Mutant: newcomers do not wait behind those who wait already.
AcquireOvertakes(h) ==
  /\ h \notin held \cup Waiting
  /\ IF available > 0
     THEN /\ available' = available - 1
          /\ held' = held \cup {h}
          /\ UNCHANGED waiters
     ELSE /\ waiters' = <<h>> \o waiters
          /\ UNCHANGED <<available, held>>
  /\ UNCHANGED permits

Acquire(h) ==
  /\ h \notin held \cup Waiting
  /\ IF available > 0
     THEN /\ available' = available - 1
          /\ held' = held \cup {h}
          /\ UNCHANGED waiters
     ELSE /\ waiters' = Append(waiters, h)
          /\ UNCHANGED <<available, held>>
  /\ UNCHANGED permits

\* The release function does nothing when it is called again.
Release(h) ==
  /\ h \in held
  /\ IF available >= 0 /\ waiters # <<>>
     THEN /\ held' = (held \ {h}) \cup {Head(waiters)}
          /\ waiters' = Tail(waiters)
          /\ UNCHANGED available
     ELSE /\ held' = held \ {h}
          /\ available' = available + 1
          /\ UNCHANGED waiters
  /\ UNCHANGED permits

\* How many waiters the loop of setPermits wakes when `a` permits are free.
Woken(a) ==
  IF a <= 0 THEN 0 ELSE IF a <= Len(waiters) THEN a ELSE Len(waiters)

SetPermits(n) ==
  LET a == available + n - permits
      k == Woken(a)
  IN /\ permits' = n
     /\ available' = a - k
     /\ waiters' = SubSeq(waiters, k + 1, Len(waiters))
     /\ held' = held \cup {waiters[i] : i \in 1 .. k}

Next ==
  \/ \E h \in Holders : Acquire(h) \/ Release(h)
  \/ \E n \in Sizes : SetPermits(n)

Spec == Init /\ [][Next]_vars

\* Every turn comes to an end.
Fairness == \A h \in Holders : WF_vars(Release(h))

FairSpec == Spec /\ Fairness

-----------------------------------------------------------------------------
\* Type correctness; nobody waits twice, or waits while holding.
TypeOK ==
  /\ permits \in Sizes
  /\ available \in Int
  /\ held \subseteq Holders
  /\ waiters \in Seq(Holders \ held)
  /\ \A i, j \in DOMAIN waiters : i # j => waiters[i] # waiters[j]

\* No permit is lost or made up by releases, handovers, shrinks and growth:
\* the free ones and the held ones add up to the ceiling, a deficit counting
\* as negative.
Conservation == available + Cardinality(held) = permits

\* Nobody waits while a permit is free.
NoIdlePermit == available > 0 => waiters = <<>>

\* A permit is only given out within the ceiling that holds then, also while
\* a shrink has left more holders than permits.
GrantsFit ==
  [][ ~(held' \subseteq held) => Cardinality(held') <= permits' ]_vars

\* Who gets a permit was at the head of the line, or nobody waited.
ServedInOrder ==
  \A h \in held' \ held :
     /\ h \notin Waiting => waiters = <<>>
     /\ \A i, j \in DOMAIN waiters :
          i < j /\ waiters[j] = h => waiters[i] \in held'

\* Who starts to wait stands behind those who waited already.
JoinsBehind ==
  \A i, j \in DOMAIN waiters' :
     i < j /\ waiters'[j] \in Waiting => waiters'[i] \in Waiting

\* First come, first served: nobody overtakes a waiter.
NoOvertaking == [][ServedInOrder /\ JoinsBehind]_vars

\* Every waiter is served, however the ceiling moves.
EveryWaiterServed == \A h \in Holders : (h \in Waiting) ~> (h \in held)
=============================================================================
