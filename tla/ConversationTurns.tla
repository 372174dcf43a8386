------------------------- MODULE ConversationTurns -------------------------
(***************************************************************************)
(* What a channel promises about the messages it accepted, with nothing    *)
(* said of sessions, mailboxes or rows: one turn at a time, every turn     *)
(* about one conversation, and every message part of at most one turn,     *)
(* which is either answered or visibly lost.                               *)
(***************************************************************************)
CONSTANTS
  Events,       \* messages
  ThreadRoot,   \* the conversation each message belongs to
  None          \* no turn

VARIABLES
  status,       \* of each message
  current       \* the message that opened the turn in progress

vars == <<status, current>>

Statuses == {"new", "pending", "active", "answered", "lost"}

Init ==
  /\ status = [e \in Events |-> "new"]
  /\ current = None

Accept(e) ==
  /\ status[e] = "new"
  /\ status' = [status EXCEPT ![e] = "pending"]
  /\ UNCHANGED current

\* A message gets a turn of its own once no other turn is in progress.
Open(e) ==
  /\ current = None
  /\ status[e] = "pending"
  /\ status' = [status EXCEPT ![e] = "active"]
  /\ current' = e

\* A message joins the turn in progress if it continues its conversation.
Join(e) ==
  /\ current # None
  /\ ThreadRoot[e] = ThreadRoot[current]
  /\ status[e] = "pending"
  /\ status' = [status EXCEPT ![e] = "active"]
  /\ UNCHANGED current

\* The turn ends and takes all its messages with it.
Close ==
  /\ current # None
  /\ status' = [e \in Events |->
                  IF status[e] = "active" THEN "answered" ELSE status[e]]
  /\ current' = None

\* A handler failed on the message.
Lose(e) ==
  /\ status[e] = "pending"
  /\ status' = [status EXCEPT ![e] = "lost"]
  /\ UNCHANGED current

Next ==
  \/ \E e \in Events : Accept(e) \/ Open(e) \/ Join(e) \/ Lose(e)
  \/ Close

Spec == Init /\ [][Next]_vars
=============================================================================
