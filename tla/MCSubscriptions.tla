--------------------------- MODULE MCSubscriptions ---------------------------
(* Instances of Subscriptions for TLC: a subscription whose handler does     *)
(* nothing but return or throw, and one over a connection that holds, whose  *)
(* events become turns of sessions that also ask for history.                *)
EXTENDS ConversationMemory, TLC

CONSTANTS channel, e1, e2, e3, e4,
          TurnClock  \* bounds the seconds that pass when events become turns

VARIABLE spare  \* the event that is not published then, or None

OneChannel == [e \in Events |-> channel]

\* The events of one channel are interchangeable.
Alike == Permutations(Events)

MCInit ==
  /\ Init /\ MemoryInit
  /\ spare \in Events \cup {None}
  /\ \A e \in Events : spare = None \/ e = spare =>
       /\ author[e] = "allowed" /\ \A f \in Events : root[f] = e => f = e
  /\ \A n \in Limits : n <= limit

MCNext ==
  /\ \/ spare = None /\ Next /\ UNCHANGED memoryVars
     \/ /\ spare # None
        /\ MemoryNext
        /\ up' => channel \in Registered'
        /\ stamp'[spare] = None /\ clock' <= TurnClock /\ troubles' = 0
  /\ UNCHANGED spare

MCSpec == MCInit /\ [][MCNext]_<<vars, memoryVars, spare>>
=============================================================================
