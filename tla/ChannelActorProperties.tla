----------------------- MODULE ChannelActorProperties -----------------------
(***************************************************************************)
(* What the channel actor promises, stated over the specification of       *)
(* ChannelActor.                                                           *)
(***************************************************************************)
EXTENDS ChannelActor

Elements(s) == {s[i] : i \in DOMAIN s}

Dispositions == {"none", "queued", "prompted", "steer_pending", "steer_delivered",
                 "completed"}

\* Only a control may name no event: a cancel that found no turn.
MessageType ==
  [kind : {"inbound"} \cup PiKinds, event : Events]
    \cup [kind : Control, event : Events \cup {None}]

FrameType ==
  [at : {"ready", "acquiring", "opening", "preparing", "steering", "aborting",
         "resuming", "releasing"},
   event : Events \cup {None},
   then : {"done", "rotate", "close"}]

InboxType ==
  [Events -> [disposition : Dispositions, turn : Events \cup {None}]]

TurnStateType ==
  [Events -> {"none", "created", "running", "settling", "completed"}]

TurnType == [trigger : Events \cup {None}, inputs : Seq(Events)]

ActorTypeOK ==
  /\ mailbox \in Seq(MessageType)
  /\ frame \in FrameType
  /\ state \in {"idle", "starting", "running", "settling", "closed"}
  /\ turn \in TurnType
  /\ session \in Keys \cup {None}
  /\ queue \in Seq(Events)
  /\ staleSettles \in Nat
  /\ permits \in Nat
  /\ closing \in BOOLEAN

DurableTypeOK ==
  /\ inbox \in InboxType
  /\ turnState \in TurnStateType
  /\ turnInputs \subseteq
       [turn : Events, event : Events, ordinal : Nat, delivered : BOOLEAN]

PiTypeOK ==
  /\ registry \subseteq Keys
  /\ live \in [Keys -> Events \cup {None}]
  /\ trailing \in [Keys -> Seq(Events)]
  /\ emitted \in [Events -> SUBSET PiKinds]

HistoryTypeOK ==
  /\ delivered \in [Events -> Nat]
  /\ outputs \subseteq Events \X Events
  /\ dropped \subseteq Events
  /\ spent \in Nat

\* Type correctness of every variable.
TypeOK == ActorTypeOK /\ DurableTypeOK /\ PiTypeOK /\ HistoryTypeOK

\* What every suspended handler relies on when it resumes: a turn is being
\* started only while none is active, the permit it was granted is still there,
\* and a steer or an abort finds the turn and the session it was meant for.
FramesOK ==
  /\ state = "idle" => ~Active
  /\ Active => permits > 0
  /\ frame.at \in {"acquiring", "opening", "preparing"} => ~Active
  /\ frame.at \in {"opening", "preparing"} => permits > 0
  /\ frame.at = "preparing" => session # None
  /\ frame.at \in {"steering", "aborting"} => Active /\ session # None
  /\ frame.at \in {"acquiring", "opening", "preparing", "steering"} =>
       frame.event # None

-----------------------------------------------------------------------------
(* Where an accepted event can be while nobody has answered it.             *)

InMailbox(e) == \E i \in DOMAIN mailbox : mailbox[i] = Message("inbound", e)
InHand(e)    == frame.at \in {"acquiring", "opening", "preparing", "steering"}
                /\ frame.event = e
InQueue(e)   == e \in Elements(queue)
InTurn(e)    == e \in Elements(turn.inputs)
Answered(e)  == inbox[e].disposition = "completed"

Places(e) == {p \in {"mailbox", "hand", "queue", "turn", "answered", "dropped"} :
                CASE p = "mailbox"  -> InMailbox(e)
                  [] p = "hand"     -> InHand(e)
                  [] p = "queue"    -> InQueue(e)
                  [] p = "turn"     -> InTurn(e)
                  [] p = "answered" -> Answered(e)
                  [] p = "dropped"  -> e \in dropped}

\* Every accepted event is in exactly one place: waiting in the mailbox,
\* being handled, queued, part of the active turn, answered, or dropped by an
\* exception in its handler.  Steering, requeueing, cancelling, rotating and
\* closing move it and never lose or copy it.
Accounted ==
  \A e \in Events : inbox[e].disposition # "none" =>
    Cardinality(Places(e)) = 1

\* A steer or a prompt is handed to Pi at most once per event, whatever races
\* with it ("never delivered twice", #steer).
DeliveredOnce ==
  /\ \A e \in Events : delivered[e] <= 1
  /\ \A e \in Events : delivered[e] = 1 => inbox[e].disposition \notin {"none", "queued"}

\* The rows recovery reads agree with the memory that a crash would lose.
DurableMatchesMemory ==
  /\ \A e \in Elements(queue) : inbox[e].disposition = "queued"
  /\ \A e \in Elements(turn.inputs) :
       /\ inbox[e].disposition \in {"prompted", "steer_delivered"}
       /\ inbox[e].turn = turn.trigger
  /\ \A i \in DOMAIN turn.inputs :
       [turn |-> turn.trigger, event |-> turn.inputs[i], ordinal |-> i - 1,
        delivered |-> TRUE] \in turnInputs
  /\ \A e \in Events :
       inbox[e].disposition = "steer_pending" => frame.at = "steering" /\ frame.event = e

\* An input joins a turn only if it belongs to the conversation of the turn.
SteersStayInConversation ==
  \A r \in turnInputs : Conversation(r.event) = Conversation(r.turn)

\* An idle actor has nothing queued: settling always dispatches the queue.
IdleMeansNothingQueued ==
  frame.at = "ready" /\ state = "idle" => queue = <<>>

\* The permit is held from the moment the semaphore grants it until the turn
\* settles, and by nothing else.
PermitFollowsTurn ==
  permits = IF Active \/ frame.at \in {"opening", "preparing"} THEN 1 ELSE 0

\* At most one run executes for the channel, and it is the active turn's.
OneRun ==
  \A k \in Keys : live[k] # None =>
    /\ \A j \in Keys : live[j] # None => j = k
    /\ turn.trigger = live[k]

\* A visible answer replies to the message that triggered the run producing
\* it, never to the trigger of another turn.
OutputsFollowTheirTurn ==
  \A o \in outputs : o[1] = o[2]

\* The agent_settled of a run that was already closed out never closes
\* another turn.
ForeignSettleIsHarmless ==
  [][ frame.at = "ready" /\ mailbox # <<>> /\ mailbox' = Tail(mailbox)
      /\ Head(mailbox).kind = "agent_settled" /\ Head(mailbox).event # turn.trigger
      => turn' = turn ]_vars

\* The agent_settled of the active turn closes it.
OwnSettleCloses ==
  [][ frame.at = "ready" /\ mailbox # <<>> /\ mailbox' = Tail(mailbox)
      /\ Head(mailbox).kind = "agent_settled" /\ Head(mailbox).event = turn.trigger
      => turn' = NoTurn ]_vars

\* The actor keeps the session its active turn was prompted on: without it the
\* turn can neither be joined nor cancelled, and its end is not heard.
TurnKeepsItsSession ==
  Active /\ frame.at \in {"ready", "releasing"} => session = SessionKey(turn.trigger)

\* A turn becomes active only on a session the registry still holds.
TurnsStartOnLiveSessions ==
  [][ turn'.trigger # None /\ turn'.trigger # turn.trigger
      => session' \in registry' ]_vars

\* No handler ever loses an accepted event.
NothingDropped == dropped = {}

\* A removed channel runs nothing: no turn, no permit.
ClosedRunsNothing ==
  state = "closed" => ~Active /\ permits = 0

\* The events of the actor as ConversationTurns sees them.
EventStatus(e) ==
  CASE inbox[e].disposition = "none" -> "new"
    [] InTurn(e)                     -> "active"
    [] Answered(e)                   -> "answered"
    [] e \in dropped                 -> "lost"
    [] OTHER                         -> "pending"

Abstract == INSTANCE ConversationTurns
  WITH status <- [e \in Events |-> EventStatus(e)], current <- turn.trigger

\* The actor implements ConversationTurns: whatever is cancelled, rotated,
\* closed or failing, it runs one turn at a time, a message joins only a turn
\* of its own conversation, and no message is part of two turns.
ImplementsConversationTurns == Abstract!Spec

\* Every accepted event is answered in the end.
EveryEventAnswered ==
  \A e \in Events : (inbox[e].disposition = "queued") ~> Answered(e)
=============================================================================
