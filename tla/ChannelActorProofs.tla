-------------------------- MODULE ChannelActorProofs --------------------------
(* What ChannelActor guarantees for any set of events, any thread structure, *)
(* any number of permits and any mixture of disturbances.                    *)
EXTENDS ChannelActorProperties, FiniteSetTheorems, TLAPS

\* The invariant the proofs are about.
ActorInv == TypeOK /\ FramesOK

\* A session is keyed by a thread root or by the channel.
LEMMA SessionKeys ==
  /\ None \notin Events /\ None \notin Keys
  /\ \A e \in Events : SessionKey(e) \in Keys /\ ThreadRoot[e] \in Events
BY ActorAssumption DEF Keys, SessionKey

\* Whatever the state of the actor, posting keeps the mailbox well typed.
LEMMA PostType ==
  ASSUME ActorTypeOK, NEW m \in MessageType, Post(m)
  PROVE  mailbox' \in Seq(MessageType)
BY DEF ActorTypeOK, Post

\* The message taken is one of those the mailbox can hold.
LEMMA TakeType ==
  ASSUME ActorTypeOK, NEW kind, Take(kind)
  PROVE  /\ mailbox' \in Seq(MessageType)
         /\ Head(mailbox) \in MessageType
         /\ Head(mailbox).kind = kind
         /\ frame.at = "ready"
         /\ kind \notin Control => Head(mailbox).event \in Events
<1>1. /\ mailbox \in Seq(MessageType) /\ mailbox # <<>>
      /\ mailbox' = Tail(mailbox) /\ Head(mailbox).kind = kind /\ frame.at = "ready"
  BY DEF ActorTypeOK, Take
<1>2. Head(mailbox) \in MessageType
  BY <1>1
<1>3. mailbox' \in Seq(MessageType)
  BY <1>1
<1>4. kind \notin Control => Head(mailbox).event \in Events
  BY <1>1, <1>2 DEF MessageType
<1> QED
  BY <1>1, <1>2, <1>3, <1>4

\* A kind and an event of the right sort make a message.
LEMMA MessageTypes ==
  /\ \A kind \in {"inbound"} \cup PiKinds, e \in Events :
       Message(kind, e) \in MessageType
  /\ \A kind \in Control, e \in Events \cup {None} :
       Message(kind, e) \in MessageType
BY DEF Message, MessageType

-----------------------------------------------------------------------------
(* The helpers of the handlers.                                             *)

LEMMA ReturnType ==
  ASSUME NEW next \in {"done", "rotate", "close"}, Return(next)
  PROVE  frame' \in FrameType /\ frame'.at \in {"ready", "resuming"}
BY DEF Return, Ready, FrameType

LEMMA RowType ==
  \A t, e \in Events, n \in Nat :
    Row(t, e, n) \in [turn : Events, event : Events, ordinal : Nat, delivered : BOOLEAN]
BY DEF Row

LEMMA BeginTurnType ==
  ASSUME DurableTypeOK, NEW e \in Events, NEW next \in {"done", "rotate", "close"},
         NEW inb \in InboxType, NEW ts \in TurnStateType,
         BeginTurn(e, next, inb, ts)
  PROVE  /\ DurableTypeOK'
         /\ frame' \in FrameType
         /\ frame'.at = "acquiring" /\ frame'.event = e
         /\ state' = "starting"
<1>1. turnState' \in TurnStateType
  BY DEF BeginTurn, TurnStateType
<1>2. inbox' \in InboxType
  BY DEF BeginTurn, InboxType, Dispositions
<1>3. turnInputs' \subseteq
        [turn : Events, event : Events, ordinal : Nat, delivered : BOOLEAN]
  BY RowType DEF BeginTurn, DurableTypeOK
<1>4. /\ frame' \in FrameType
      /\ frame'.at = "acquiring" /\ frame'.event = e
      /\ state' = "starting"
  BY DEF BeginTurn, FrameType
<1> QED
  BY <1>1, <1>2, <1>3, <1>4 DEF DurableTypeOK

\* Whoever settles leaves no turn active; what follows is the next message, the
\* rest of a rotation or a close, or the start of a queued event's turn.
LEMMA SettleType ==
  ASSUME ActorInv, NEW next \in {"done", "rotate", "close"}, Settle(next)
  PROVE  /\ DurableTypeOK'
         /\ frame' \in FrameType
         /\ state' \in {"idle", "starting", "closed"}
         /\ turn' \in TurnType /\ ~Active'
         /\ queue' \in Seq(Events)
         /\ permits' \in Nat
         /\ frame'.at \in {"ready", "resuming", "acquiring"}
         /\ frame'.at = "acquiring" => frame'.event # None
<1>1. CASE SettleNothing(next)
  <2>1. UNCHANGED <<turn, queue, permits, inbox, turnState, turnInputs>>
    BY <1>1 DEF SettleNothing, durable
  <2>2. turn' \in TurnType /\ ~Active'
    BY <1>1, <2>1 DEF SettleNothing, Active, ActorInv, TypeOK, ActorTypeOK
  <2> QED
    BY <1>1, <2>1, <2>2, ReturnType
       DEF SettleNothing, ActorInv, TypeOK, ActorTypeOK, DurableTypeOK
<1>2. CASE CloseTurn(next) /\ permits' = permits - 1
  <2> DEFINE inb == CompletedInputs(turn.trigger)
             ts == [turnState EXCEPT ![turn.trigger] = "completed"]
  <2>1. turn' = NoTurn /\ Dispatch(next, inb, ts)
    BY <1>2 DEF CloseTurn
  <2>0. turn' \in TurnType /\ ~Active'
    BY <2>1 DEF NoTurn, TurnType, Active
  <2>2. permits' \in Nat
    BY <1>2 DEF CloseTurn, ActorInv, TypeOK, ActorTypeOK, FramesOK
  <2>3. inb \in InboxType
    BY DEF ActorInv, TypeOK, DurableTypeOK, InboxType, CompletedInputs, Dispositions
  <2>4. ts \in TurnStateType
    BY DEF ActorInv, TypeOK, DurableTypeOK, TurnStateType
  <2> HIDE DEF inb, ts
  <2>5. CASE queue = <<>>
    BY <2>0, <2>1, <2>2, <2>3, <2>4, <2>5, ReturnType
       DEF Dispatch, ActorInv, TypeOK, ActorTypeOK, DurableTypeOK
  <2>6. CASE queue # <<>>
    <3>1. /\ queue' = Tail(queue)
          /\ BeginTurn(Head(queue), next, inb, ts)
      BY <2>1, <2>6 DEF Dispatch
    <3>2. Head(queue) \in Events /\ queue' \in Seq(Events)
      BY <2>6, <3>1 DEF ActorInv, TypeOK, ActorTypeOK
    <3>3. DurableTypeOK
      BY DEF ActorInv, TypeOK
    <3> QED
      BY <2>0, <2>1, <2>2, <2>3, <2>4, <3>1, <3>2, <3>3, BeginTurnType, SessionKeys
  <2> QED
    BY <2>5, <2>6
<1> QED
  BY <1>1, <1>2 DEF Settle

\* Settling a turn, or finding none to settle, keeps the invariant.
LEMMA SettleInv ==
  ASSUME ActorInv, NEW next \in {"done", "rotate", "close"}, Settle(next),
         mailbox' \in Seq(MessageType), staleSettles' \in Nat,
         PiTypeOK', HistoryTypeOK',
         UNCHANGED <<session, closing>>
  PROVE  ActorInv'
<1>1. TypeOK'
  BY SettleType DEF ActorInv, TypeOK, ActorTypeOK
<1>2. FramesOK'
  BY SettleType DEF FramesOK
<1> QED
  BY <1>1, <1>2 DEF ActorInv

-----------------------------------------------------------------------------
\* The inductive invariant: every variable keeps its type, and each suspended
\* handler finds on resuming the turn, the permit and the session it left,
\* whatever was posted, cancelled, rotated, closed, reconfigured or failing in
\* between.
LEMMA ActorInvariant == Spec => []ActorInv
<1>1. Init => ActorInv
  <2> SUFFICES ASSUME Init PROVE ActorInv
    OBVIOUS
  <2>1. frame \in FrameType /\ frame.at = "ready"
    BY DEF Init, Ready, FrameType
  <2>2. turn \in TurnType /\ ~Active
    BY DEF Init, NoTurn, TurnType, Active
  <2>3. inbox \in InboxType /\ turnState \in TurnStateType
    BY DEF Init, InboxType, TurnStateType, Dispositions
  <2>4. TypeOK
    <3>1. ActorTypeOK
      <4>1. /\ mailbox = <<>> /\ queue = <<>> /\ state = "idle" /\ session = None
            /\ staleSettles = 0 /\ permits = 0 /\ closing = FALSE
        BY DEF Init
      <4>2. mailbox \in Seq(MessageType) /\ queue \in Seq(Events)
        BY <4>1
      <4>3. /\ session \in Keys \cup {None} /\ closing \in BOOLEAN
            /\ staleSettles \in Nat /\ permits \in Nat
            /\ state \in {"idle", "starting", "running", "settling", "closed"}
        BY <4>1
      <4> QED
        BY <2>1, <2>2, <4>2, <4>3 DEF ActorTypeOK
    <3>2. DurableTypeOK
      BY <2>3 DEF Init, DurableTypeOK
    <3>3. PiTypeOK
      BY DEF Init, PiTypeOK
    <3>4. HistoryTypeOK
      BY DEF Init, HistoryTypeOK
    <3> QED
      BY <3>1, <3>2, <3>3, <3>4 DEF TypeOK
  <2>5. FramesOK
    BY <2>1, <2>2 DEF FramesOK
  <2> QED
    BY <2>4, <2>5 DEF ActorInv
<1>2. ActorInv /\ [Next]_vars => ActorInv'
  <2> SUFFICES ASSUME ActorInv, [Next]_vars PROVE ActorInv'
    OBVIOUS
  <2>1. ASSUME NEW e \in Events, Submit(e) PROVE ActorInv'
    BY <2>1, PostType, MessageTypes
       DEF Submit, InboxType, Dispositions,
       ActorInv, TypeOK, ActorTypeOK, DurableTypeOK, PiTypeOK, HistoryTypeOK, FramesOK, Active, durable, pi, history
  <2>2. ASSUME WatchFires PROVE ActorInv'
    BY <2>2, PostType, MessageTypes
       DEF WatchFires, PostOnly, Spend, Control, TurnType,
       ActorInv, TypeOK, ActorTypeOK, DurableTypeOK, PiTypeOK, HistoryTypeOK, FramesOK, Active, durable, pi, history
  <2>3. ASSUME OwnerCancels PROVE ActorInv'
    BY <2>3, PostType, MessageTypes
       DEF OwnerCancels, PostOnly, Spend, Control, TurnType,
       ActorInv, TypeOK, ActorTypeOK, DurableTypeOK, PiTypeOK, HistoryTypeOK, FramesOK, Active, durable, pi, history
  <2>4. ASSUME PostRotate PROVE ActorInv'
    BY <2>4, PostType, MessageTypes
       DEF PostRotate, PostOnly, Spend, Control,
       ActorInv, TypeOK, ActorTypeOK, DurableTypeOK, PiTypeOK, HistoryTypeOK, FramesOK, Active, durable, pi, history
  <2>5. ASSUME PostClose PROVE ActorInv'
    BY <2>5, PostType, MessageTypes
       DEF PostClose, PostOnly, Spend, Control,
       ActorInv, TypeOK, ActorTypeOK, DurableTypeOK, PiTypeOK, HistoryTypeOK, FramesOK, Active, durable, pi, history
  <2>6. ASSUME TakeStartsTurn PROVE ActorInv'
    <3> DEFINE e == Head(mailbox).event
    <3>1. /\ mailbox' \in Seq(MessageType)
          /\ e \in Events
          /\ frame.at = "ready"
      BY <2>6, TakeType DEF TakeStartsTurn, Control, ActorInv, TypeOK
    <3>2. /\ state = "idle" /\ BeginTurn(e, "done", inbox, turnState)
          /\ UNCHANGED <<turn, session, queue, staleSettles, permits, pi, closing,
                         history, spent>>
      BY <2>6 DEF TakeStartsTurn
    <3>3. /\ DurableTypeOK'
          /\ frame' \in FrameType
          /\ frame'.at = "acquiring" /\ frame'.event = e
          /\ state' = "starting"
      BY <3>1, <3>2, BeginTurnType DEF ActorInv, TypeOK, DurableTypeOK
    <3> HIDE DEF e
    <3> QED
      BY <3>1, <3>2, <3>3, SessionKeys
         DEF ActorInv, TypeOK, ActorTypeOK, PiTypeOK, HistoryTypeOK, FramesOK, Active,
             pi, history
  <2>7. ASSUME TakeQueues PROVE ActorInv'
    <3> DEFINE e == Head(mailbox).event
    <3>1. /\ mailbox' \in Seq(MessageType)
          /\ e \in Events
          /\ frame.at = "ready"
      BY <2>7, TakeType DEF TakeQueues, Control, ActorInv, TypeOK
    <3>2. /\ Enqueue(e)
          /\ UNCHANGED <<frame, state, turn, session, staleSettles, permits,
                         turnState, turnInputs, pi, closing, history, spent>>
      BY <2>7 DEF TakeQueues
    <3> HIDE DEF e
    <3>3. queue' \in Seq(Events) /\ inbox' \in InboxType
      <4>1. queue' \in Seq(Events)
        BY <3>1, <3>2 DEF Enqueue, ActorInv, TypeOK, ActorTypeOK
      <4>2. inbox' \in InboxType
        BY <3>1, <3>2
           DEF Enqueue, InboxType, Dispositions, ActorInv, TypeOK, DurableTypeOK
      <4> QED
        BY <4>1, <4>2
    <3> QED
      BY <3>1, <3>2, <3>3
         DEF ActorInv, TypeOK, ActorTypeOK, DurableTypeOK, PiTypeOK, HistoryTypeOK,
             FramesOK, Active, pi, history
  <2>8. ASSUME TakeSteers PROVE ActorInv'
    <3> DEFINE e == Head(mailbox).event
    <3>1. /\ mailbox' \in Seq(MessageType)
          /\ e \in Events
          /\ frame.at = "ready"
      BY <2>8, TakeType DEF TakeSteers, Control, ActorInv, TypeOK
    <3> DEFINE t == turn.trigger
               n == Len(turn.inputs)
    <3>2. /\ Active /\ session # None
          /\ turnInputs' = turnInputs \cup {Row(t, e, n)}
          /\ inbox' = [inbox EXCEPT ![e] = [disposition |-> "steer_pending", turn |-> t]]
          /\ frame' = [at |-> "steering", event |-> e, then |-> "done"]
          /\ UNCHANGED <<state, turn, session, queue, staleSettles, permits,
                         turnState, pi, closing, history, spent>>
      BY <2>8 DEF TakeSteers, Steerable
    <3>3. t \in Events /\ n \in Nat
      BY <3>2 DEF Active, TurnType, ActorInv, TypeOK, ActorTypeOK
    <3> HIDE DEF e, t, n
    <3>4. inbox' \in InboxType
      BY <3>1, <3>2, <3>3 DEF InboxType, Dispositions, ActorInv, TypeOK, DurableTypeOK
    <3>5. turnInputs' \subseteq
            [turn : Events, event : Events, ordinal : Nat, delivered : BOOLEAN]
      BY <3>1, <3>2, <3>3, RowType DEF ActorInv, TypeOK, DurableTypeOK
    <3>6. /\ frame' \in FrameType
          /\ frame'.at = "steering" /\ frame'.event # None
      BY <3>1, <3>2, SessionKeys DEF FrameType
    <3> QED
      BY <3>1, <3>2, <3>4, <3>5, <3>6
         DEF ActorInv, TypeOK, ActorTypeOK, DurableTypeOK, PiTypeOK, HistoryTypeOK,
             FramesOK, Active, pi, history
  <2>9. ASSUME TakeSteerCollides PROVE ActorInv'
    <3> DEFINE e == Head(mailbox).event
    <3>1. /\ mailbox' \in Seq(MessageType)
          /\ e \in Events
          /\ frame.at = "ready"
      BY <2>9, TakeType DEF TakeSteerCollides, Control, ActorInv, TypeOK
    <3>2. /\ dropped' = dropped \cup {e}
          /\ UNCHANGED <<frame, state, turn, session, queue, staleSettles, permits,
                         durable, pi, closing, delivered, outputs, spent>>
      BY <2>9 DEF TakeSteerCollides
    <3> HIDE DEF e
    <3> QED
      BY <3>1, <3>2
         DEF ActorInv, TypeOK, ActorTypeOK, DurableTypeOK, PiTypeOK, HistoryTypeOK,
             FramesOK, Active, durable, pi
  <2>10. ASSUME SteerAccepted PROVE ActorInv'
    <3> DEFINE e == frame.event
               t == turn.trigger
    <3>1. e \in Events /\ frame.at = "steering" /\ Active
      BY <2>10 DEF SteerAccepted, ActorInv, TypeOK, ActorTypeOK, FramesOK, FrameType
    <3>2. /\ turn' = [turn EXCEPT !.inputs = Append(@, e)]
          /\ inbox' = [inbox EXCEPT ![e].disposition = "steer_delivered"]
          /\ turnInputs' = Delivered(t, e)
          /\ delivered' = [delivered EXCEPT ![e] = @ + 1]
          /\ frame' = Ready
          /\ UNCHANGED <<mailbox, state, session, queue, staleSettles, permits,
                         turnState, pi, closing, outputs, dropped, spent>>
      BY <2>10 DEF SteerAccepted
    <3> HIDE DEF e, t
    <3>3. turn' \in TurnType /\ turn'.trigger = turn.trigger
      <4>1. turn \in TurnType
        BY DEF ActorInv, TypeOK, ActorTypeOK
      <4>2. Append(turn.inputs, e) \in Seq(Events)
        BY <3>1, <4>1 DEF TurnType
      <4> QED
        BY <3>2, <4>1, <4>2 DEF TurnType
    <3>4. inbox' \in InboxType
      BY <3>1, <3>2 DEF InboxType, Dispositions, ActorInv, TypeOK, DurableTypeOK
    <3>5. turnInputs' \subseteq
            [turn : Events, event : Events, ordinal : Nat, delivered : BOOLEAN]
      BY <3>2 DEF Delivered, ActorInv, TypeOK, DurableTypeOK
    <3>6. delivered' \in [Events -> Nat]
      BY <3>1, <3>2 DEF ActorInv, TypeOK, HistoryTypeOK
    <3>7. frame' \in FrameType /\ frame'.at = "ready"
      BY <3>2 DEF Ready, FrameType
    <3> QED
      BY <3>1, <3>2, <3>3, <3>4, <3>5, <3>6, <3>7
         DEF ActorInv, TypeOK, ActorTypeOK, DurableTypeOK, PiTypeOK, HistoryTypeOK,
             FramesOK, Active, pi
  <2>11. ASSUME SteerRejected PROVE ActorInv'
    BY <2>11, SessionKeys
       DEF SteerRejected, Ready, FrameType, InboxType, Dispositions,
       ActorInv, TypeOK, ActorTypeOK, DurableTypeOK, PiTypeOK, HistoryTypeOK, FramesOK, Active, durable, pi, history
  <2>12. ASSUME GrantPermit PROVE ActorInv'
    <3>1. /\ frame.at = "acquiring" /\ permits' = permits + 1
          /\ UNCHANGED <<mailbox, state, turn, queue, staleSettles, durable, pi,
                         closing, history, spent>>
      BY <2>12 DEF GrantPermit
    <3>2. frame.event \in Events /\ ~Active
      BY <3>1 DEF ActorInv, TypeOK, ActorTypeOK, FramesOK, FrameType
    <3>3. CASE Reusable(frame.event)
      <4>1. frame' = [frame EXCEPT !.at = "preparing"] /\ session' = session
        BY <2>12, <3>3 DEF GrantPermit
      <4>2. session # None
        BY <3>2, <3>3, SessionKeys DEF Reusable
      <4>3. /\ frame' \in FrameType
            /\ frame'.at = "preparing" /\ frame'.event = frame.event
        BY <4>1 DEF FrameType, ActorInv, TypeOK, ActorTypeOK
      <4> QED
        BY <3>1, <3>2, <4>1, <4>2, <4>3, SessionKeys
           DEF ActorInv, TypeOK, ActorTypeOK, DurableTypeOK, PiTypeOK, HistoryTypeOK,
               FramesOK, Active, durable, pi, history
    <3>4. CASE ~Reusable(frame.event)
      <4>1. frame' = [frame EXCEPT !.at = "opening"] /\ session' = None
        BY <2>12, <3>4 DEF GrantPermit
      <4>2. /\ frame' \in FrameType
            /\ frame'.at = "opening" /\ frame'.event = frame.event
        BY <4>1 DEF FrameType, ActorInv, TypeOK, ActorTypeOK
      <4> QED
        BY <3>1, <3>2, <4>1, <4>2, SessionKeys
           DEF ActorInv, TypeOK, ActorTypeOK, DurableTypeOK, PiTypeOK, HistoryTypeOK,
               FramesOK, Active, durable, pi, history
    <3> QED
      BY <3>3, <3>4
  <2>13. ASSUME OpenSucceeds PROVE ActorInv'
    BY <2>13, SessionKeys
       DEF OpenSucceeds, FrameType,
       ActorInv, TypeOK, ActorTypeOK, DurableTypeOK, PiTypeOK, HistoryTypeOK, FramesOK, Active, durable, pi, history
  <2>14. ASSUME OpenFails PROVE ActorInv'
    BY <2>14, SessionKeys
       DEF OpenFails, Spend, Ready, FrameType,
       ActorInv, TypeOK, ActorTypeOK, DurableTypeOK, PiTypeOK, HistoryTypeOK, FramesOK, Active, durable, pi, history
  <2>15. ASSUME PromptStarts PROVE ActorInv'
    <3> DEFINE e == frame.event
    <3>1. /\ e \in Events /\ frame.at = "preparing"
          /\ frame.then \in {"done", "rotate", "close"}
          /\ session \in Keys /\ permits > 0
      BY <2>15 DEF PromptStarts, ActorInv, TypeOK, ActorTypeOK, FramesOK, FrameType
    <3>2. /\ turn' = [trigger |-> e, inputs |-> <<e>>]
          /\ turnState' = [turnState EXCEPT ![e] = "running"]
          /\ turnInputs' = Delivered(e, e)
          /\ delivered' = [delivered EXCEPT ![e] = @ + 1]
          /\ state' = "running"
          /\ Return(frame.then)
          /\ UNCHANGED <<session, queue, staleSettles, permits, inbox, registry,
                         trailing, emitted, closing, outputs, dropped, spent>>
      BY <2>15 DEF PromptStarts
    <3>3. \/ live' = live
          \/ live' = [live EXCEPT ![session] = e]
      BY <2>15 DEF PromptStarts
    <3>4. \/ mailbox' = mailbox
          \/ mailbox' = Append(mailbox, Message("cancel", None))
      BY <2>15 DEF PromptStarts
    <3> HIDE DEF e
    <3>5. live' \in [Keys -> Events \cup {None}]
      BY <3>1, <3>3 DEF ActorInv, TypeOK, PiTypeOK
    <3>6. mailbox' \in Seq(MessageType)
      BY <3>1, <3>4, MessageTypes DEF Control, ActorInv, TypeOK, ActorTypeOK
    <3>7. turn' \in TurnType
      BY <3>1, <3>2 DEF TurnType
    <3>8. turnState' \in TurnStateType
      BY <3>1, <3>2 DEF TurnStateType, ActorInv, TypeOK, DurableTypeOK
    <3>9. turnInputs' \subseteq
            [turn : Events, event : Events, ordinal : Nat, delivered : BOOLEAN]
      BY <3>2 DEF Delivered, ActorInv, TypeOK, DurableTypeOK
    <3>10. delivered' \in [Events -> Nat]
      BY <3>1, <3>2 DEF ActorInv, TypeOK, HistoryTypeOK
    <3>11. frame' \in FrameType /\ frame'.at \in {"ready", "resuming"}
      BY <3>1, <3>2, ReturnType
    <3> QED
      BY <3>1, <3>2, <3>5, <3>6, <3>7, <3>8, <3>9, <3>10, <3>11
         DEF ActorInv, TypeOK, ActorTypeOK, DurableTypeOK, PiTypeOK, HistoryTypeOK,
             FramesOK, Active
  <2>16. ASSUME TakeMessageEnd PROVE ActorInv'
    <3> DEFINE e == Head(mailbox).event
    <3>1. /\ mailbox' \in Seq(MessageType)
          /\ e \in Events
          /\ frame.at = "ready"
      BY <2>16, TakeType DEF TakeMessageEnd, Control, ActorInv, TypeOK
    <3>2. /\ outputs' = IF Active THEN outputs \cup {<<e, turn.trigger>>} ELSE outputs
          /\ UNCHANGED <<frame, state, turn, session, queue, staleSettles, permits,
                         durable, pi, closing, delivered, dropped, spent>>
      BY <2>16 DEF TakeMessageEnd
    <3> HIDE DEF e
    <3>3. Active => turn.trigger \in Events
      BY DEF Active, TurnType, ActorInv, TypeOK, ActorTypeOK
    <3>4. outputs' \subseteq Events \X Events
      BY <3>1, <3>2, <3>3 DEF ActorInv, TypeOK, HistoryTypeOK
    <3> QED
      BY <3>1, <3>2, <3>4
         DEF ActorInv, TypeOK, ActorTypeOK, DurableTypeOK, PiTypeOK, HistoryTypeOK,
             FramesOK, Active, durable, pi
  <2>17. ASSUME TakeAgentEnd PROVE ActorInv'
    BY <2>17, TakeType
       DEF TakeAgentEnd, Control, TurnType, TurnStateType,
       ActorInv, TypeOK, ActorTypeOK, DurableTypeOK, PiTypeOK, HistoryTypeOK, FramesOK, Active, durable, pi, history
  <2>18. ASSUME TakeStaleSettle PROVE ActorInv'
    BY <2>18, TakeType
       DEF TakeStaleSettle, Control,
       ActorInv, TypeOK, ActorTypeOK, DurableTypeOK, PiTypeOK, HistoryTypeOK, FramesOK, Active, durable, pi, history
  <2>19. ASSUME TakeSettle PROVE ActorInv'
    BY <2>19, TakeType, SettleInv
       DEF TakeSettle, Control,
       ActorInv, TypeOK, ActorTypeOK, DurableTypeOK, PiTypeOK, HistoryTypeOK, FramesOK, Active, durable, pi, history
  <2>20. ASSUME NEW kind \in Control, TakeControl(kind) PROVE ActorInv'
    <3>1. PICK next \in {"done", "rotate", "close"} :
            IF Active /\ session # None
            THEN frame' = [Ready EXCEPT !.at = "aborting", !.then = next]
            ELSE Return(next)
      BY <2>20 DEF TakeControl, Control
    <3>2. /\ mailbox' \in Seq(MessageType)
          /\ UNCHANGED <<state, turn, session, queue, staleSettles, permits, durable,
                         pi, closing, history, spent>>
      BY <2>20, TakeType DEF TakeControl, ActorInv, TypeOK
    <3>3. CASE Active /\ session # None
      <4>1. frame' \in FrameType /\ frame'.at = "aborting"
        BY <3>1, <3>3 DEF Ready, FrameType
      <4> QED
        BY <3>2, <3>3, <4>1
           DEF ActorInv, TypeOK, ActorTypeOK, DurableTypeOK, PiTypeOK, HistoryTypeOK,
               FramesOK, Active, durable, pi, history
    <3>4. CASE ~(Active /\ session # None)
      <4>1. frame' \in FrameType /\ frame'.at \in {"ready", "resuming"}
        BY <3>1, <3>4, ReturnType
      <4> QED
        BY <3>2, <4>1
           DEF ActorInv, TypeOK, ActorTypeOK, DurableTypeOK, PiTypeOK, HistoryTypeOK,
               FramesOK, Active, durable, pi, history
    <3> QED
      BY <3>3, <3>4
  <2>21. ASSUME AbortReturns PROVE ActorInv'
    <3>1. /\ frame.at = "aborting"
          /\ live' = [live EXCEPT ![session] = None]
          /\ trailing' = IF live[session] = None THEN trailing
                         ELSE [trailing EXCEPT ![session] = Append(@, live[session])]
          /\ staleSettles' = staleSettles + 1
          /\ Settle(frame.then)
          /\ UNCHANGED <<mailbox, session, registry, emitted, closing, history, spent>>
      BY <2>21 DEF AbortReturns
    <3>2. /\ session \in Keys
          /\ frame.then \in {"done", "rotate", "close"}
      BY <3>1 DEF ActorInv, TypeOK, ActorTypeOK, FramesOK, FrameType
    <3>3. live' \in [Keys -> Events \cup {None}]
      BY <3>1, <3>2 DEF ActorInv, TypeOK, PiTypeOK
    <3>4. trailing' \in [Keys -> Seq(Events)]
      <4>1. CASE live[session] = None
        BY <3>1, <4>1 DEF ActorInv, TypeOK, PiTypeOK
      <4>2. CASE live[session] # None
        <5>1. /\ live[session] \in Events
              /\ trailing[session] \in Seq(Events)
          BY <3>2, <4>2 DEF ActorInv, TypeOK, PiTypeOK
        <5>2. Append(trailing[session], live[session]) \in Seq(Events)
          BY <5>1
        <5> QED
          BY <3>1, <3>2, <4>2, <5>2 DEF ActorInv, TypeOK, PiTypeOK
      <4> QED
        BY <4>1, <4>2
    <3>5. PiTypeOK'
      BY <3>1, <3>3, <3>4 DEF ActorInv, TypeOK, PiTypeOK
    <3>6. /\ HistoryTypeOK' /\ staleSettles' \in Nat
          /\ mailbox' \in Seq(MessageType)
      BY <3>1 DEF ActorInv, TypeOK, ActorTypeOK, HistoryTypeOK, history
    <3> QED
      BY <3>1, <3>2, <3>5, <3>6, SettleInv
  <2>22. ASSUME AbortFails PROVE ActorInv'
    <3>1. /\ staleSettles' = staleSettles + 1 /\ spent' = spent + 1
          /\ Settle(frame.then)
          /\ UNCHANGED <<mailbox, session, pi, closing, history>>
      BY <2>22 DEF AbortFails, Spend
    <3>2. frame.then \in {"done", "rotate", "close"}
      BY DEF ActorInv, TypeOK, ActorTypeOK, FrameType
    <3>3. /\ PiTypeOK' /\ HistoryTypeOK' /\ staleSettles' \in Nat
          /\ mailbox' \in Seq(MessageType)
      BY <3>1 DEF ActorInv, TypeOK, ActorTypeOK, PiTypeOK, HistoryTypeOK, pi, history
    <3> QED
      BY <3>1, <3>2, <3>3, SettleInv
  <2>23. ASSUME RotateResumes PROVE ActorInv'
    BY <2>23
       DEF RotateResumes, Ready, FrameType,
       ActorInv, TypeOK, ActorTypeOK, DurableTypeOK, PiTypeOK, HistoryTypeOK, FramesOK, Active, durable, pi, history
  <2>24. ASSUME RotateReleases PROVE ActorInv'
    BY <2>24
       DEF RotateReleases, Dispose, Ready, FrameType,
       ActorInv, TypeOK, ActorTypeOK, DurableTypeOK, PiTypeOK, HistoryTypeOK, FramesOK, Active, durable, pi, history
  <2>25. ASSUME CloseResumes PROVE ActorInv'
    BY <2>25
       DEF CloseResumes, Ready, FrameType,
       ActorInv, TypeOK, ActorTypeOK, DurableTypeOK, PiTypeOK, HistoryTypeOK, FramesOK, Active, durable, pi, history
  <2>26. ASSUME RemoveReleases PROVE ActorInv'
    BY <2>26
       DEF RemoveReleases, Dispose,
       ActorInv, TypeOK, ActorTypeOK, DurableTypeOK, PiTypeOK, HistoryTypeOK, FramesOK, Active, durable, pi, history
  <2>27. ASSUME NEW k \in Keys, NEW kind \in Reports, PiEmits(k, kind) PROVE ActorInv'
    BY <2>27, PostType, MessageTypes, ActorAssumption
       DEF PiEmits, Emit, PiKinds,
       ActorInv, TypeOK, ActorTypeOK, DurableTypeOK, PiTypeOK, HistoryTypeOK, FramesOK, Active, durable, pi, history
  <2>28. ASSUME NEW k \in Keys, PiSettles(k) PROVE ActorInv'
    BY <2>28, PostType, MessageTypes
       DEF PiSettles, Emit, PiKinds,
       ActorInv, TypeOK, ActorTypeOK, DurableTypeOK, PiTypeOK, HistoryTypeOK, FramesOK, Active, durable, pi, history
  <2>29. ASSUME NEW k \in Keys, TrailingSettles(k) PROVE ActorInv'
    BY <2>29, PostType, MessageTypes
       DEF TrailingSettles, Emit, PiKinds,
       ActorInv, TypeOK, ActorTypeOK, DurableTypeOK, PiTypeOK, HistoryTypeOK, FramesOK, Active, durable, pi, history
  <2>30. ASSUME NEW k \in Keys, PromptFails(k) PROVE ActorInv'
    BY <2>30, PostType, MessageTypes
       DEF PromptFails, Spend, Control,
       ActorInv, TypeOK, ActorTypeOK, DurableTypeOK, PiTypeOK, HistoryTypeOK, FramesOK, Active, durable, pi, history
  <2>31. ASSUME ConfigPush PROVE ActorInv'
    BY <2>31
       DEF ConfigPush, Spend, Dispose,
       ActorInv, TypeOK, ActorTypeOK, DurableTypeOK, PiTypeOK, HistoryTypeOK, FramesOK, Active, durable, pi, history
  <2>32. CASE UNCHANGED vars
    BY <2>32 DEF vars, ActorInv, TypeOK, ActorTypeOK, DurableTypeOK, PiTypeOK, HistoryTypeOK, FramesOK, Active, durable, pi, history
  <2> QED
    BY <2>1, <2>2, <2>3, <2>4, <2>5, <2>6, <2>7, <2>8, <2>9, <2>10, <2>11, <2>12, <2>13, <2>14, <2>15, <2>16, <2>17, <2>18, <2>19, <2>20, <2>21, <2>22, <2>23, <2>24, <2>25, <2>26, <2>27, <2>28, <2>29, <2>30, <2>31, <2>32,
       ActorAssumption DEF Next, Pump, Pi, Environment
<1> QED
  BY <1>1, <1>2, PTL DEF Spec

\* The types alone, the type invariant of the runs.
THEOREM TypeCorrect == Spec => []TypeOK
<1>1. ActorInv => TypeOK
  BY DEF ActorInv
<1> QED
  BY <1>1, ActorInvariant, PTL

\* Each suspended handler finds on resuming the turn, the permit and the session
\* it was suspended with: the pump takes no other message in between.
THEOREM HandlersResumeSafely == Spec => []FramesOK
<1>1. ActorInv => FramesOK
  BY DEF ActorInv
<1> QED
  BY <1>1, ActorInvariant, PTL

\* An input joins a turn only if it belongs to the conversation of the turn: the
\* rows of turn_inputs never mix conversations, also not through a rejected,
\* requeued and restarted steer.
THEOREM NoForeignInputs == Spec => []SteersStayInConversation
<1>1. Init => SteersStayInConversation
  BY DEF Init, SteersStayInConversation
<1>2. ActorInv /\ SteersStayInConversation /\ [Next]_vars => SteersStayInConversation'
  <2> DEFINE Fits(r) == Conversation(r.event) = Conversation(r.turn)
  <2> SUFFICES ASSUME ActorInv, SteersStayInConversation, [Next]_vars,
                      NEW r \in turnInputs'
               PROVE  Fits(r)
    BY DEF SteersStayInConversation
  <2>1. ASSUME NEW e, NEW next, NEW inb, NEW ts, BeginTurn(e, next, inb, ts)
        PROVE  Fits(r)
    BY <2>1 DEF BeginTurn, Row, SteersStayInConversation
  <2>2. CASE UNCHANGED turnInputs
    BY <2>2 DEF SteersStayInConversation
  <2>3. ASSUME NEW next, Settle(next) PROVE Fits(r)
    BY <2>1, <2>2, <2>3
       DEF Settle, SettleNothing, CloseTurn, Dispatch, durable
  <2>4. CASE TakeSteers
    BY <2>4 DEF TakeSteers, Steerable, Row, SteersStayInConversation
  <2>5. ASSUME NEW t, NEW e,
               turnInputs' = Delivered(t, e)
        PROVE  Fits(r)
    <3>1. PICK s \in turnInputs :
            r = IF s.turn = t /\ s.event = e THEN [s EXCEPT !.delivered = TRUE] ELSE s
      BY <2>5 DEF Delivered
    <3>2. s \in [turn : Events, event : Events, ordinal : Nat, delivered : BOOLEAN]
      BY DEF ActorInv, TypeOK, DurableTypeOK
    <3>3. r.event = s.event /\ r.turn = s.turn
      BY <3>1, <3>2
    <3> QED
      BY <3>3 DEF SteersStayInConversation
  <2>6. CASE SteerAccepted
    BY <2>5, <2>6 DEF SteerAccepted
  <2>7. CASE PromptStarts
    BY <2>5, <2>7 DEF PromptStarts
  <2>8. CASE TakeStartsTurn
    BY <2>1, <2>8 DEF TakeStartsTurn
  <2>9. CASE TakeSettle \/ AbortReturns \/ AbortFails
    BY <2>3, <2>9 DEF TakeSettle, AbortReturns, AbortFails
  <2>10. CASE \/ TakeQueues \/ TakeSteerCollides \/ SteerRejected \/ GrantPermit
              \/ OpenSucceeds \/ TakeMessageEnd \/ TakeAgentEnd \/ TakeStaleSettle
              \/ (\E kind \in Control : TakeControl(kind))
              \/ RotateResumes \/ RotateReleases \/ CloseResumes
    BY <2>2, <2>10 DEF TakeQueues, TakeSteerCollides, SteerRejected, GrantPermit,
       OpenSucceeds, TakeMessageEnd, TakeAgentEnd, TakeStaleSettle, TakeControl,
       RotateResumes, RotateReleases, CloseResumes, durable
  <2>11. CASE Pi \/ Environment \/ UNCHANGED vars
    BY <2>2, <2>9, <2>11 DEF Pi, PiEmits, PiSettles, TrailingSettles, PromptFails,
       Environment, Submit, WatchFires, OwnerCancels, PostRotate, PostClose, PostOnly,
       RemoveReleases, OpenFails, ConfigPush, vars, durable
  <2> QED
    BY <2>4, <2>6, <2>7, <2>8, <2>9, <2>10, <2>11 DEF Next, Pump
<1> QED
  BY <1>1, <1>2, ActorInvariant, PTL DEF Spec

-----------------------------------------------------------------------------
\* No event is lost or copied by the channel actor, what is durable agrees with
\* what is in memory, and the actor implements ConversationTurns.
\* The frames in which the handler on the pump holds an event.
StartingFrames == {"acquiring", "opening", "preparing"}
HoldingFrames == StartingFrames \cup {"steering"}

\* What the row of an event says of the place where the event is, and back.
PlaceOK(e) ==
  LET d == inbox[e].disposition IN
  /\ InMailbox(e) => d = "queued" /\ ~InQueue(e) /\ e \notin dropped
  /\ InQueue(e) => d = "queued" /\ e \notin dropped
  /\ InHand(e) =>
       /\ e \notin dropped
       /\ IF frame.at = "steering"
          THEN d = "steer_pending" /\ inbox[e].turn = turn.trigger
          ELSE d = "prompted" /\ inbox[e].turn = e
  /\ InTurn(e) =>
       /\ e \notin dropped
       /\ d \in {"prompted", "steer_delivered"}
       /\ inbox[e].turn = turn.trigger
  /\ e \in dropped => d = "queued" \/ (d = "prompted" /\ inbox[e].turn = e)
  /\ d = "queued" => InMailbox(e) \/ InQueue(e) \/ e \in dropped
  /\ d \in {"prompted", "steer_delivered"} => InTurn(e) \/ InHand(e) \/ e \in dropped
  /\ d = "steer_pending" => frame.at = "steering" /\ frame.event = e

PlacesOK == \A e \in Events : PlaceOK(e)

\* Neither the mailbox nor the queue holds an event twice.
MailOnce ==
  \A i, j \in DOMAIN mailbox :
    mailbox[i] = mailbox[j] /\ mailbox[i].kind = "inbound" => i = j

QueueOnce == \A i, j \in DOMAIN queue : queue[i] = queue[j] => i = j

\* The trigger of a turn is one of its inputs, and no turn has no inputs.
TurnOK ==
  IF Active THEN turn.trigger \in Elements(turn.inputs) ELSE turn.inputs = <<>>

\* The rows of turn_inputs that the resuming handler marks, and those it marked.
RowsOK ==
  /\ frame.at \in StartingFrames =>
       Row(frame.event, frame.event, 0) \in turnInputs
  /\ frame.at = "steering" =>
       Row(turn.trigger, frame.event, Len(turn.inputs)) \in turnInputs
  /\ \A i \in DOMAIN turn.inputs :
       [turn |-> turn.trigger, event |-> turn.inputs[i], ordinal |-> i - 1,
        delivered |-> TRUE] \in turnInputs

\* An actor is closed, or on the way to it, only on behalf of a removed channel.
MailClosing == \A i \in DOMAIN mailbox : mailbox[i].kind = "close" => closing

ClosingOK ==
  /\ state = "closed" => closing
  /\ frame.then = "close" => closing

\* Pi got exactly the events that are in the turn or answered, once.
HandedOver ==
  \A e \in Events : delivered[e] = IF InTurn(e) \/ Answered(e) THEN 1 ELSE 0

\* The inductive invariant of the accounting, on top of ActorInv and
\* SteersStayInConversation.
Known == ActorInv /\ SteersStayInConversation

AccountInv ==
  /\ PlacesOK /\ MailOnce /\ QueueOnce
  /\ TurnOK /\ RowsOK
  /\ MailClosing /\ ClosingOK /\ HandedOver

-----------------------------------------------------------------------------
(* Sequences and their elements.                                            *)

\* Appending adds one element.
LEMMA ElementsAppend ==
  ASSUME NEW S, NEW s \in Seq(S), NEW x \in S
  PROVE  Elements(Append(s, x)) = Elements(s) \cup {x}
<1>1. /\ DOMAIN Append(s, x) = 1 .. Len(s) + 1
      /\ DOMAIN s = 1 .. Len(s) /\ Len(s) \in Nat
      /\ \A i \in 1 .. Len(s) : Append(s, x)[i] = s[i]
      /\ Append(s, x)[Len(s) + 1] = x
  OBVIOUS
<1>2. Elements(Append(s, x)) \subseteq Elements(s) \cup {x}
  <2> SUFFICES ASSUME NEW i \in 1 .. Len(s) + 1
               PROVE  Append(s, x)[i] \in Elements(s) \cup {x}
    BY <1>1 DEF Elements
  <2>1. CASE i = Len(s) + 1
    BY <1>1, <2>1
  <2>2. CASE i # Len(s) + 1
    <3>1. i \in 1 .. Len(s)
      BY <1>1, <2>2
    <3> QED
      BY <1>1, <3>1 DEF Elements
  <2> QED
    BY <2>1, <2>2
<1>3. Elements(s) \cup {x} \subseteq Elements(Append(s, x))
  <2>1. \A i \in 1 .. Len(s) : i \in 1 .. Len(s) + 1
    BY <1>1
  <2>2. Len(s) + 1 \in 1 .. Len(s) + 1
    BY <1>1
  <2> QED
    BY <1>1, <2>1, <2>2 DEF Elements
<1> QED
  BY <1>2, <1>3

\* The elements of a sequence are its head and the elements of its tail.
LEMMA ElementsTail ==
  ASSUME NEW S, NEW s \in Seq(S), s # <<>>
  PROVE  /\ Elements(s) = Elements(Tail(s)) \cup {Head(s)}
         /\ \A i \in DOMAIN Tail(s) : i + 1 \in DOMAIN s /\ Tail(s)[i] = s[i + 1]
         /\ 1 \in DOMAIN s /\ Head(s) = s[1]
<1>1. /\ DOMAIN s = 1 .. Len(s) /\ Len(s) \in Nat \ {0}
      /\ Tail(s) \in Seq(S)
      /\ DOMAIN Tail(s) = 1 .. Len(s) - 1
      /\ \A i \in 1 .. Len(s) - 1 : Tail(s)[i] = s[i + 1]
      /\ Head(s) = s[1]
  OBVIOUS
<1>2. \A i \in 1 .. Len(s) - 1 : i + 1 \in 1 .. Len(s)
  BY <1>1
<1>3. \A i \in 1 .. Len(s) : i = 1 \/ (i - 1 \in 1 .. Len(s) - 1 /\ (i - 1) + 1 = i)
  BY <1>1
<1>4. Elements(s) \subseteq Elements(Tail(s)) \cup {Head(s)}
  <2> SUFFICES ASSUME NEW i \in 1 .. Len(s)
               PROVE  s[i] \in Elements(Tail(s)) \cup {Head(s)}
    BY <1>1 DEF Elements
  <2>1. CASE i = 1
    BY <1>1, <2>1
  <2>2. CASE i - 1 \in 1 .. Len(s) - 1 /\ (i - 1) + 1 = i
    <3>1. Tail(s)[i - 1] = s[i]
      BY <1>1, <2>2
    <3> QED
      BY <1>1, <2>2, <3>1 DEF Elements
  <2> QED
    BY <1>3, <2>1, <2>2
<1>5. 1 \in 1 .. Len(s)
  BY <1>1
<1>6. Elements(Tail(s)) \cup {Head(s)} \subseteq Elements(s)
  BY <1>1, <1>2, <1>5 DEF Elements
<1> QED
  BY <1>1, <1>2, <1>4, <1>5, <1>6

-----------------------------------------------------------------------------
(* What happens to the mailbox.                                             *)

\* The mailbox holds the same events, each once, and no new close.
MailKept ==
  /\ \A e \in Events : InMailbox(e)' <=> InMailbox(e)
  /\ MailOnce => MailOnce'
  /\ MailClosing => MailClosing'

\* The event is in the mailbox if its message is an element of it.
LEMMA MailElements ==
  \A e : InMailbox(e) <=> Message("inbound", e) \in Elements(mailbox)
BY DEF InMailbox, Elements

\* Posting a message that carries no inbound event, and nothing at all.
LEMMA PostKeepsMail ==
  ASSUME mailbox \in Seq(MessageType), NEW m \in MessageType, m.kind # "inbound",
         mailbox' = mailbox \/ mailbox' = Append(mailbox, m),
         closing => closing', m.kind = "close" => closing'
  PROVE  MailKept
<1>1. CASE mailbox' = mailbox
  BY <1>1 DEF MailKept, InMailbox, MailOnce, MailClosing
<1>2. CASE mailbox' = Append(mailbox, m)
  <2>1. Elements(mailbox') = Elements(mailbox) \cup {m}
    BY <1>2, ElementsAppend
  <2>2. \A e : Message("inbound", e) # m
    BY DEF Message
  <2>3. \A e \in Events : InMailbox(e)' <=> InMailbox(e)
    BY <2>1, <2>2 DEF InMailbox, Elements
  <2>4. \A i \in DOMAIN mailbox' :
          \/ i \in DOMAIN mailbox /\ mailbox'[i] = mailbox[i]
          \/ mailbox'[i] = m
    BY <1>2
  <2>5. MailOnce => MailOnce'
    BY <2>4 DEF MailOnce
  <2>6. MailClosing => MailClosing'
    BY <2>4 DEF MailClosing
  <2> QED
    BY <2>3, <2>5, <2>6 DEF MailKept
<1> QED
  BY <1>1, <1>2

\* Taking a message that carries no inbound event.
LEMMA TakeKeepsMail ==
  ASSUME ActorTypeOK, NEW kind, kind # "inbound", Take(kind), closing' = closing
  PROVE  MailKept
<1>1. /\ mailbox \in Seq(MessageType) /\ mailbox # <<>>
      /\ mailbox' = Tail(mailbox) /\ Head(mailbox).kind # "inbound"
  BY DEF ActorTypeOK, Take
<1>2. /\ Elements(mailbox) = Elements(Tail(mailbox)) \cup {Head(mailbox)}
      /\ \A i \in DOMAIN Tail(mailbox) :
           i + 1 \in DOMAIN mailbox /\ Tail(mailbox)[i] = mailbox[i + 1]
  BY <1>1, ElementsTail
<1>3. \A e : Message("inbound", e) # Head(mailbox)
  BY <1>1 DEF Message
<1>4. \A e \in Events : InMailbox(e)' <=> InMailbox(e)
  BY <1>1, <1>2, <1>3 DEF InMailbox, Elements
<1>5. DOMAIN Tail(mailbox) \subseteq Int
  BY <1>1
<1>6. MailOnce => MailOnce'
  BY <1>1, <1>2, <1>5 DEF MailOnce
<1>7. MailClosing => MailClosing'
  BY <1>1, <1>2 DEF MailClosing
<1> QED
  BY <1>4, <1>6, <1>7 DEF MailKept

\* Taking an inbound event takes it out of the mailbox.
LEMMA TakeEmptiesMail ==
  ASSUME ActorTypeOK, MailOnce, MailClosing, Take("inbound"), closing' = closing
  PROVE  /\ Head(mailbox).event \in Events
         /\ InMailbox(Head(mailbox).event)
         /\ \A e \in Events :
              InMailbox(e)' <=> InMailbox(e) /\ e # Head(mailbox).event
         /\ MailOnce' /\ MailClosing'
<1>1. /\ mailbox \in Seq(MessageType) /\ mailbox # <<>>
      /\ mailbox' = Tail(mailbox) /\ Head(mailbox).kind = "inbound"
  BY DEF ActorTypeOK, Take
<1>2. /\ Elements(mailbox) = Elements(Tail(mailbox)) \cup {Head(mailbox)}
      /\ \A i \in DOMAIN Tail(mailbox) :
           i + 1 \in DOMAIN mailbox /\ Tail(mailbox)[i] = mailbox[i + 1]
      /\ 1 \in DOMAIN mailbox /\ Head(mailbox) = mailbox[1]
  BY <1>1, ElementsTail
<1>3. Head(mailbox) = Message("inbound", Head(mailbox).event)
      /\ Head(mailbox).event \in Events
  <2>1. Head(mailbox) \in MessageType
    BY <1>1
  <2>2. Head(mailbox) \in [kind : {"inbound"} \cup PiKinds, event : Events]
    BY <1>1, <2>1 DEF MessageType, Control
  <2> QED
    BY <1>1, <2>2 DEF Message
<1>4. InMailbox(Head(mailbox).event)
  BY <1>2, <1>3 DEF InMailbox
<1>5. DOMAIN Tail(mailbox) \subseteq Nat \ {0}
  BY <1>1
<1>6. Head(mailbox) \notin Elements(Tail(mailbox))
  <2> SUFFICES ASSUME NEW i \in DOMAIN Tail(mailbox), Tail(mailbox)[i] = Head(mailbox)
               PROVE  FALSE
    BY DEF Elements
  <2>1. i + 1 = 1
    BY <1>1, <1>2 DEF MailOnce
  <2> QED
    BY <1>5, <2>1
<1>7. \A e : Message("inbound", e) = Head(mailbox) <=> e = Head(mailbox).event
  BY <1>3 DEF Message
<1>8. \A e \in Events : InMailbox(e)' <=> InMailbox(e) /\ e # Head(mailbox).event
  BY <1>1, <1>2, <1>6, <1>7 DEF InMailbox, Elements
<1>9. MailOnce'
  BY <1>1, <1>2, <1>5 DEF MailOnce
<1>10. MailClosing'
  BY <1>1, <1>2 DEF MailClosing
<1> QED
  BY <1>3, <1>4, <1>8, <1>9, <1>10

-----------------------------------------------------------------------------
(* What happens to the rest.                                                *)

\* The handler on the pump holds the same event as before, or none.
HandKept ==
  \/ frame' = frame
  \/ /\ frame.at \in StartingFrames /\ frame'.at \in StartingFrames
     /\ frame'.event = frame.event /\ frame'.then = frame.then
  \/ /\ frame.at \notin HoldingFrames /\ frame'.at \notin HoldingFrames
     /\ frame'.then = "close" => closing'

\* Of a step that moves no event the whole accounting is kept.
LEMMA NothingMoves ==
  ASSUME AccountInv, MailKept, HandKept,
         UNCHANGED <<turn, queue, inbox, turnInputs, delivered, dropped>>,
         closing => closing',
         state' = state \/ state' # "closed" \/ closing'
  PROVE  AccountInv'
<1>1. /\ \A e \in Events : InMailbox(e)' <=> InMailbox(e)
      /\ MailOnce' /\ MailClosing'
  BY DEF AccountInv, MailKept
<1>2. \A e : /\ InQueue(e)' <=> InQueue(e)
             /\ InTurn(e)' <=> InTurn(e)
             /\ Answered(e)' <=> Answered(e)
  BY DEF InQueue, InTurn, Answered
<1>3. \A e : /\ InHand(e)' <=> InHand(e)
             /\ InHand(e) => (frame'.at = "steering" <=> frame.at = "steering")
             /\ frame.at = "steering" => frame' = frame
  BY DEF InHand, HandKept, HoldingFrames, StartingFrames
<1>4. PlacesOK'
  <2> SUFFICES ASSUME NEW e \in Events PROVE PlaceOK(e)'
    BY DEF PlacesOK
  <2> QED
    BY <1>1, <1>2, <1>3 DEF AccountInv, PlacesOK, PlaceOK
<1>5. QueueOnce' /\ TurnOK' /\ HandedOver'
  BY <1>2 DEF AccountInv, QueueOnce, TurnOK, Active, HandedOver
<1>6. RowsOK'
  BY DEF AccountInv, RowsOK, HandKept, HoldingFrames, StartingFrames
<1>7. ClosingOK'
  BY DEF AccountInv, ClosingOK, HandKept
<1> QED
  BY <1>1, <1>4, <1>5, <1>6, <1>7 DEF AccountInv

\* Completing the inputs of the active turn answers exactly those: no other row
\* carries the turn in one of the dispositions that are completed.
LEMMA CompletedRows ==
  ASSUME Known, AccountInv, Active, frame.at \notin HoldingFrames, NEW e \in Events
  PROVE  /\ InTurn(e) => CompletedInputs(turn.trigger)[e].disposition = "completed"
         /\ ~InTurn(e) => CompletedInputs(turn.trigger)[e] = inbox[e]
<1> DEFINE t == turn.trigger
<1>1. PlaceOK(e) /\ ~InHand(e)
  BY DEF AccountInv, PlacesOK, InHand, HoldingFrames, StartingFrames
<1>2. inbox[e] \in [disposition : Dispositions, turn : Events \cup {None}]
  BY DEF Known, ActorInv, TypeOK, DurableTypeOK, InboxType
<1>3. t \in Events /\ InTurn(t) /\ PlaceOK(t)
  BY DEF AccountInv, TurnOK, InTurn, PlacesOK, Active, TurnType, Known, ActorInv,
     TypeOK, ActorTypeOK
<1>4. CASE InTurn(e)
  BY <1>1, <1>2, <1>4 DEF CompletedInputs, PlaceOK
<1>5. CASE ~InTurn(e)
  <2>1. ~(inbox[e].turn = t /\ inbox[e].disposition \in {"prompted", "steer_delivered"})
    BY <1>1, <1>3, <1>5 DEF PlaceOK
  <2> QED
    BY <1>5, <2>1 DEF CompletedInputs
<1> QED
  BY <1>4, <1>5

\* Settling closes the active turn, if any: its inputs are answered, and the
\* head of the queue goes from the queue into the hand of the handler.
LEMMA SettleAccounts ==
  ASSUME Known, AccountInv, NEW next \in {"done", "rotate", "close"}, Settle(next),
         MailKept, frame.at \notin HoldingFrames, next = "close" => closing,
         UNCHANGED <<closing, delivered, dropped>>
  PROVE  AccountInv'
<1>0. next = "close" => closing'
  OBVIOUS
<1>1. CASE SettleNothing(next)
  <2>1. /\ UNCHANGED <<turn, queue, inbox, turnInputs>>
        /\ state' = state \/ state' # "closed"
        /\ HandKept
    BY <1>1 DEF SettleNothing, durable, HandKept, Return, Ready, HoldingFrames, StartingFrames
  <2> QED
    BY <2>1, NothingMoves
<1>2. CASE CloseTurn(next)
  <2> DEFINE t == turn.trigger
             ts == [turnState EXCEPT ![t] = "completed"]
  <2>1. /\ Active /\ turn' = NoTurn
        /\ Dispatch(next, CompletedInputs(t), ts)
    BY <1>2 DEF CloseTurn
  <2>2. /\ t \in Events /\ None \notin Events /\ inbox \in InboxType
        /\ queue \in Seq(Events) /\ turn.inputs \in Seq(Events)
    BY <2>1, SessionKeys DEF Active, TurnType, Known, ActorInv, TypeOK, ActorTypeOK,
       DurableTypeOK
  <2>3. /\ \A e \in Events : InMailbox(e)' <=> InMailbox(e)
        /\ MailOnce' /\ MailClosing'
    BY DEF AccountInv, MailKept
  <2>4. \A e : /\ ~InTurn(e)' /\ ~InHand(e)
    BY <2>1 DEF InTurn, Elements, NoTurn, InHand, HoldingFrames, StartingFrames
  <2>5. TurnOK'
    BY <2>1 DEF TurnOK, NoTurn, Active
  <2> DEFINE inb == CompletedInputs(t)
  <2>9. ASSUME NEW e \in Events
        PROVE  /\ InTurn(e) => inb[e].disposition = "completed"
               /\ ~InTurn(e) => inb[e] = inbox[e]
    BY <2>1, CompletedRows
  <2>10. inb = [e \in Events |-> inb[e]]
    BY DEF CompletedInputs
  <2> HIDE DEF t, ts, inb
  <2>11. CASE queue = <<>>
    <3>1. /\ state' = "idle" /\ inbox' = inb /\ Return(next)
          /\ UNCHANGED <<queue, turnInputs>>
      BY <2>1, <2>11 DEF Dispatch, inb, ts
    <3>2. \A e : ~InHand(e)' /\ ~InQueue(e) /\ ~InQueue(e)'
      BY <2>11, <3>1 DEF InHand, Return, Ready, InQueue, Elements
    <3>3. frame'.at \notin HoldingFrames
      BY <3>1 DEF Return, Ready, HoldingFrames, StartingFrames
    <3>4. PlacesOK'
      <4> SUFFICES ASSUME NEW e \in Events PROVE PlaceOK(e)'
        BY DEF PlacesOK
      <4> QED
        BY <2>3, <2>4, <2>9, <3>1, <3>2 DEF AccountInv, PlacesOK, PlaceOK, InHand, HoldingFrames, StartingFrames
    <3>5. HandedOver'
      BY <2>4, <2>9, <3>1 DEF AccountInv, HandedOver, PlacesOK, PlaceOK, Answered
    <3>6. QueueOnce' /\ ClosingOK'
      BY <1>0, <3>1 DEF AccountInv, QueueOnce, ClosingOK, Return, Ready
    <3>7. RowsOK'
      BY <2>1, <3>1, <3>3 DEF RowsOK, NoTurn, HoldingFrames, StartingFrames
    <3> QED
      BY <2>3, <2>5, <3>4, <3>5, <3>6, <3>7 DEF AccountInv
  <2>12. CASE queue # <<>>
    <3> DEFINE h == Head(queue)
    <3>1. /\ queue' = Tail(queue) /\ state' = "starting"
          /\ turnInputs' = turnInputs \cup {Row(h, h, 0)}
          /\ inbox' = [inb EXCEPT ![h] = [disposition |-> "prompted", turn |-> h]]
          /\ frame' = [at |-> "acquiring", event |-> h, then |-> next]
      BY <2>1, <2>12 DEF Dispatch, BeginTurn, inb, ts
    <3>2. /\ h \in Events
          /\ Elements(queue) = Elements(Tail(queue)) \cup {h}
          /\ \A i \in DOMAIN Tail(queue) :
               i + 1 \in DOMAIN queue /\ Tail(queue)[i] = queue[i + 1]
          /\ 1 \in DOMAIN queue /\ h = queue[1]
          /\ DOMAIN Tail(queue) \subseteq Nat \ {0}
      BY <2>2, <2>12, ElementsTail
    <3> HIDE DEF h
    <3>3. h \notin Elements(Tail(queue))
      <4> SUFFICES ASSUME NEW i \in DOMAIN Tail(queue), Tail(queue)[i] = h
                   PROVE  FALSE
        BY DEF Elements
      <4>1. i + 1 = 1
        BY <3>2 DEF AccountInv, QueueOnce
      <4> QED
        BY <3>2, <4>1
    <3>4. QueueOnce'
      BY <3>1, <3>2 DEF AccountInv, QueueOnce
    <3>5. \A e \in Events : InQueue(e)' <=> InQueue(e) /\ e # h
      BY <3>1, <3>2, <3>3 DEF InQueue, Elements
    <3>6. \A e : InHand(e)' <=> e = h
      BY <3>1 DEF InHand
    <3>7. InQueue(h)
      BY <3>2 DEF InQueue
    <3>8. \A e \in Events : e # h => inbox'[e] = inb[e]
      BY <2>10, <3>1, <3>2
    <3>9. inbox'[h] = [disposition |-> "prompted", turn |-> h]
      BY <2>10, <3>1, <3>2
    <3>10. PlacesOK'
      <4> SUFFICES ASSUME NEW e \in Events PROVE PlaceOK(e)'
        BY DEF PlacesOK
      <4>1. CASE e = h
        BY <2>3, <2>4, <3>1, <3>5, <3>6, <3>7, <3>9, <4>1, <3>2
           DEF AccountInv, PlacesOK, PlaceOK
      <4>2. CASE e # h
        BY <2>3, <2>4, <2>9, <3>1, <3>5, <3>6, <3>8, <4>2
           DEF AccountInv, PlacesOK, PlaceOK, InHand, HoldingFrames, StartingFrames
      <4> QED
        BY <4>1, <4>2
    <3>11. HandedOver'
      BY <2>4, <2>9, <3>2, <3>7, <3>8, <3>9
         DEF AccountInv, HandedOver, PlacesOK, PlaceOK, Answered
    <3>12. ClosingOK'
      BY <1>0, <3>1 DEF AccountInv, ClosingOK
    <3>13. RowsOK'
      BY <2>1, <3>1 DEF RowsOK, NoTurn, StartingFrames
    <3> QED
      BY <2>3, <2>5, <3>4, <3>10, <3>11, <3>12, <3>13 DEF AccountInv
  <2> QED
    BY <2>11, <2>12
<1> QED
  BY <1>1, <1>2 DEF Settle

-----------------------------------------------------------------------------
(* The actions that move an event.                                          *)

\* Submitting puts a new event in the mailbox: nothing is submitted to a
\* channel that is closing.
LEMMA SubmitAccounts ==
  ASSUME Known, AccountInv, NEW x \in Events, Submit(x)
  PROVE  AccountInv'
<1> DEFINE m == Message("inbound", x)
<1>1. /\ mailbox \in Seq(MessageType) /\ m \in MessageType
      /\ inbox \in InboxType
  BY MessageTypes DEF Known, ActorInv, TypeOK, ActorTypeOK, DurableTypeOK
<1>2. /\ mailbox' = Append(mailbox, m)
      /\ inbox[x].disposition = "none"
      /\ inbox' = [inbox EXCEPT ![x].disposition = "queued"]
      /\ UNCHANGED <<frame, state, turn, queue, turnInputs, closing, delivered, dropped>>
  BY DEF Submit, Post, AccountInv, ClosingOK, history
<1>3. /\ Elements(mailbox') = Elements(mailbox) \cup {m}
      /\ \A i \in DOMAIN mailbox' :
           \/ i \in DOMAIN mailbox /\ mailbox'[i] = mailbox[i]
           \/ i = Len(mailbox) + 1 /\ mailbox'[i] = m
  BY <1>1, <1>2, ElementsAppend
<1>4. \A e \in Events : InMailbox(e)' <=> InMailbox(e) \/ e = x
  <2>1. \A e : Message("inbound", e) = m <=> e = x
    BY DEF Message
  <2> QED
    BY <1>3, <2>1 DEF InMailbox, Elements
<1>5. \A e : /\ InQueue(e)' <=> InQueue(e)
             /\ InTurn(e)' <=> InTurn(e)
             /\ InHand(e)' <=> InHand(e)
  BY <1>2 DEF InQueue, InTurn, InHand
<1>6. /\ ~InMailbox(x) /\ ~InQueue(x) /\ ~InHand(x) /\ ~InTurn(x) /\ x \notin dropped
  BY <1>2 DEF AccountInv, PlacesOK, PlaceOK
<1>7. \A e \in Events : e # x => inbox'[e] = inbox[e]
  BY <1>1, <1>2 DEF InboxType
<1>8. inbox'[x].disposition = "queued"
  BY <1>1, <1>2 DEF InboxType
<1>9. PlacesOK'
  <2> SUFFICES ASSUME NEW e \in Events PROVE PlaceOK(e)'
    BY DEF PlacesOK
  <2>1. CASE e = x
    BY <1>2, <1>4, <1>5, <1>6, <1>8, <2>1 DEF PlaceOK
  <2>2. CASE e # x
    BY <1>2, <1>4, <1>5, <1>7, <2>2 DEF AccountInv, PlacesOK, PlaceOK
  <2> QED
    BY <2>1, <2>2
<1>10. MailOnce'
  <2>1. \A i \in DOMAIN mailbox : mailbox[i] # m
    BY <1>6 DEF InMailbox
  <2> QED
    BY <1>3, <2>1 DEF AccountInv, MailOnce
<1>11. MailClosing'
  BY <1>2, <1>3 DEF AccountInv, MailClosing, Message
<1>12. HandedOver'
  BY <1>2, <1>5, <1>7, <1>8 DEF AccountInv, HandedOver, Answered
<1>13. QueueOnce' /\ TurnOK' /\ RowsOK' /\ ClosingOK'
  BY <1>2 DEF AccountInv, QueueOnce, TurnOK, Active, RowsOK, ClosingOK, StartingFrames
<1> QED
  BY <1>9, <1>10, <1>11, <1>12, <1>13 DEF AccountInv

\* The event taken goes from the mailbox into the hand of a handler that starts
\* a turn of its own for it.
LEMMA StartAccounts ==
  ASSUME Known, AccountInv, TakeStartsTurn
  PROVE  AccountInv'
<1> DEFINE h == Head(mailbox).event
<1>1. /\ frame.at = "ready" /\ Take("inbound")
      /\ state = "idle" /\ state' = "starting"
      /\ turnInputs' = turnInputs \cup {Row(h, h, 0)}
      /\ inbox' = [inbox EXCEPT ![h] = [disposition |-> "prompted", turn |-> h]]
      /\ frame' = [at |-> "acquiring", event |-> h, then |-> "done"]
      /\ UNCHANGED <<turn, queue, closing, delivered, dropped>>
  BY DEF TakeStartsTurn, BeginTurn, Take, history
<1>2. /\ h \in Events /\ InMailbox(h)
      /\ \A e \in Events : InMailbox(e)' <=> InMailbox(e) /\ e # h
      /\ MailOnce' /\ MailClosing'
  BY <1>1, TakeEmptiesMail DEF AccountInv, Known, ActorInv, TypeOK
<1> HIDE DEF h
<1>3. inbox \in InboxType
  BY DEF Known, ActorInv, TypeOK, DurableTypeOK
<1>4. /\ inbox'[h] = [disposition |-> "prompted", turn |-> h]
      /\ \A e \in Events : e # h => inbox'[e] = inbox[e]
  BY <1>1, <1>2, <1>3 DEF InboxType
<1>5. \A e : /\ InQueue(e)' <=> InQueue(e)
             /\ InTurn(e)' <=> InTurn(e)
             /\ ~InTurn(e)
             /\ InHand(e)' <=> e = h
             /\ ~InHand(e)
  BY <1>1 DEF InQueue, InTurn, InHand, AccountInv, TurnOK, Known, ActorInv, FramesOK,
     Elements
<1>6. PlacesOK'
  <2> SUFFICES ASSUME NEW e \in Events PROVE PlaceOK(e)'
    BY DEF PlacesOK
  <2>1. CASE e = h
    BY <1>1, <1>2, <1>4, <1>5, <2>1 DEF AccountInv, PlacesOK, PlaceOK
  <2>2. CASE e # h
    BY <1>1, <1>2, <1>4, <1>5, <2>2 DEF AccountInv, PlacesOK, PlaceOK
  <2> QED
    BY <2>1, <2>2
<1>7. HandedOver'
  BY <1>1, <1>2, <1>4, <1>5 DEF AccountInv, HandedOver, PlacesOK, PlaceOK, Answered
<1>8. QueueOnce' /\ TurnOK' /\ ClosingOK'
  BY <1>1 DEF AccountInv, QueueOnce, TurnOK, Active, ClosingOK
<1>9. RowsOK'
  BY <1>1 DEF AccountInv, RowsOK, StartingFrames
<1> QED
  BY <1>2, <1>6, <1>7, <1>8, <1>9 DEF AccountInv

\* The event taken goes to the end of the queue.
LEMMA QueueAccounts ==
  ASSUME Known, AccountInv, TakeQueues
  PROVE  AccountInv'
<1> DEFINE h == Head(mailbox).event
<1>1. /\ frame.at = "ready" /\ Take("inbound")
      /\ inbox' = [inbox EXCEPT ![h].disposition = "queued"]
      /\ queue' = Append(queue, h)
      /\ UNCHANGED <<frame, state, turn, turnInputs, closing, delivered, dropped>>
  BY DEF TakeQueues, Enqueue, Take, history
<1>2. /\ h \in Events /\ InMailbox(h)
      /\ \A e \in Events : InMailbox(e)' <=> InMailbox(e) /\ e # h
      /\ MailOnce' /\ MailClosing'
  BY <1>1, TakeEmptiesMail DEF AccountInv, Known, ActorInv, TypeOK
<1> HIDE DEF h
<1>3. inbox \in InboxType /\ queue \in Seq(Events)
  BY DEF Known, ActorInv, TypeOK, ActorTypeOK, DurableTypeOK
<1>4. /\ inbox'[h].disposition = "queued"
      /\ \A e \in Events : e # h => inbox'[e] = inbox[e]
  BY <1>1, <1>2, <1>3 DEF InboxType
<1>5. /\ Elements(queue') = Elements(queue) \cup {h}
      /\ \A i \in DOMAIN queue' :
           \/ i \in DOMAIN queue /\ queue'[i] = queue[i]
           \/ i = Len(queue) + 1 /\ queue'[i] = h
  BY <1>1, <1>2, <1>3, ElementsAppend
<1>6. \A e : /\ InQueue(e)' <=> InQueue(e) \/ e = h
             /\ InTurn(e)' <=> InTurn(e)
             /\ InHand(e)' <=> InHand(e)
             /\ ~InHand(e)
  BY <1>1, <1>5 DEF InQueue, InTurn, InHand, Elements
<1>7. ~InQueue(h) /\ ~InTurn(h) /\ h \notin dropped
  BY <1>2 DEF AccountInv, PlacesOK, PlaceOK
<1>8. PlacesOK'
  <2> SUFFICES ASSUME NEW e \in Events PROVE PlaceOK(e)'
    BY DEF PlacesOK
  <2>1. CASE e = h
    BY <1>1, <1>2, <1>4, <1>6, <1>7, <2>1 DEF PlaceOK
  <2>2. CASE e # h
    BY <1>1, <1>2, <1>4, <1>6, <2>2 DEF AccountInv, PlacesOK, PlaceOK
  <2> QED
    BY <2>1, <2>2
<1>9. QueueOnce'
  <2>1. \A i \in DOMAIN queue : queue[i] # h
    BY <1>7 DEF InQueue, Elements
  <2> QED
    BY <1>5, <2>1 DEF AccountInv, QueueOnce
<1>10. HandedOver'
  BY <1>1, <1>2, <1>4, <1>6, <1>7 DEF AccountInv, HandedOver, PlacesOK, PlaceOK, Answered
<1>11. TurnOK' /\ RowsOK' /\ ClosingOK'
  BY <1>1 DEF AccountInv, TurnOK, Active, RowsOK, ClosingOK, StartingFrames
<1> QED
  BY <1>2, <1>8, <1>9, <1>10, <1>11 DEF AccountInv

\* The event taken goes into the hand of a steer, marked steer_pending.
LEMMA SteerAccounts ==
  ASSUME Known, AccountInv, TakeSteers
  PROVE  AccountInv'
<1> DEFINE h == Head(mailbox).event
           t == turn.trigger
<1>1. /\ frame.at = "ready" /\ Take("inbound") /\ Active
      /\ turnInputs' = turnInputs \cup {Row(t, h, Len(turn.inputs))}
      /\ inbox' = [inbox EXCEPT ![h] = [disposition |-> "steer_pending", turn |-> t]]
      /\ frame' = [at |-> "steering", event |-> h, then |-> "done"]
      /\ UNCHANGED <<state, turn, queue, closing, delivered, dropped>>
  BY DEF TakeSteers, Steerable, Take, history
<1>2. /\ h \in Events /\ InMailbox(h)
      /\ \A e \in Events : InMailbox(e)' <=> InMailbox(e) /\ e # h
      /\ MailOnce' /\ MailClosing'
  BY <1>1, TakeEmptiesMail DEF AccountInv, Known, ActorInv, TypeOK
<1> HIDE DEF h
<1>3. inbox \in InboxType
  BY DEF Known, ActorInv, TypeOK, DurableTypeOK
<1>4. /\ inbox'[h] = [disposition |-> "steer_pending", turn |-> t]
      /\ \A e \in Events : e # h => inbox'[e] = inbox[e]
  BY <1>1, <1>2, <1>3 DEF InboxType
<1>5. \A e : /\ InQueue(e)' <=> InQueue(e)
             /\ InTurn(e)' <=> InTurn(e)
             /\ InHand(e)' <=> e = h
             /\ ~InHand(e)
  BY <1>1 DEF InQueue, InTurn, InHand
<1>6. ~InQueue(h) /\ ~InTurn(h) /\ h \notin dropped
  BY <1>2 DEF AccountInv, PlacesOK, PlaceOK
<1>7. PlacesOK'
  <2> SUFFICES ASSUME NEW e \in Events PROVE PlaceOK(e)'
    BY DEF PlacesOK
  <2>1. CASE e = h
    BY <1>1, <1>2, <1>4, <1>5, <1>6, <2>1 DEF PlaceOK
  <2>2. CASE e # h
    BY <1>1, <1>2, <1>4, <1>5, <2>2 DEF AccountInv, PlacesOK, PlaceOK
  <2> QED
    BY <2>1, <2>2
<1>8. HandedOver'
  BY <1>1, <1>2, <1>4, <1>5, <1>6 DEF AccountInv, HandedOver, PlacesOK, PlaceOK, Answered
<1>9. QueueOnce' /\ TurnOK' /\ ClosingOK'
  BY <1>1 DEF AccountInv, QueueOnce, TurnOK, Active, ClosingOK
<1>10. RowsOK'
  BY <1>1 DEF AccountInv, RowsOK, StartingFrames
<1> QED
  BY <1>2, <1>7, <1>8, <1>9, <1>10 DEF AccountInv

\* The event taken is dropped by the exception of the unique index.
LEMMA CollisionAccounts ==
  ASSUME Known, AccountInv, TakeSteerCollides
  PROVE  AccountInv'
<1> DEFINE h == Head(mailbox).event
<1>1. /\ frame.at = "ready" /\ Take("inbound")
      /\ dropped' = dropped \cup {h}
      /\ UNCHANGED <<frame, state, turn, queue, inbox, turnInputs, closing, delivered>>
  BY DEF TakeSteerCollides, Take, durable
<1>2. /\ h \in Events /\ InMailbox(h)
      /\ \A e \in Events : InMailbox(e)' <=> InMailbox(e) /\ e # h
      /\ MailOnce' /\ MailClosing'
  BY <1>1, TakeEmptiesMail DEF AccountInv, Known, ActorInv, TypeOK
<1> HIDE DEF h
<1>3. \A e : /\ InQueue(e)' <=> InQueue(e)
             /\ InTurn(e)' <=> InTurn(e)
             /\ InHand(e)' <=> InHand(e)
             /\ Answered(e)' <=> Answered(e)
             /\ ~InHand(e)
  BY <1>1 DEF InQueue, InTurn, InHand, Answered
<1>4. PlacesOK'
  <2> SUFFICES ASSUME NEW e \in Events PROVE PlaceOK(e)'
    BY DEF PlacesOK
  <2> QED
    BY <1>1, <1>2, <1>3 DEF AccountInv, PlacesOK, PlaceOK
<1>5. /\ HandedOver' /\ QueueOnce' /\ TurnOK' /\ RowsOK' /\ ClosingOK'
  BY <1>1, <1>3 DEF AccountInv, HandedOver, QueueOnce, TurnOK, Active, RowsOK, ClosingOK, StartingFrames
<1> QED
  BY <1>2, <1>4, <1>5 DEF AccountInv

\* Marking the rows of an input keeps the rows already marked and marks its own.
LEMMA DeliveredRows ==
  ASSUME DurableTypeOK, NEW t \in Events, NEW x \in Events, NEW n \in Nat, NEW r \in turnInputs
  PROVE  /\ r.delivered = TRUE => r \in Delivered(t, x)
         /\ r = Row(t, x, n) =>
              [turn |-> t, event |-> x, ordinal |-> n, delivered |-> TRUE]
                \in Delivered(t, x)
<1>1. r \in [turn : Events, event : Events, ordinal : Nat, delivered : BOOLEAN]
  BY DEF DurableTypeOK
<1>2. (IF r.turn = t /\ r.event = x THEN [r EXCEPT !.delivered = TRUE] ELSE r)
        \in Delivered(t, x)
  BY DEF Delivered
<1>3. r.delivered = TRUE => [r EXCEPT !.delivered = TRUE] = r
  BY <1>1
<1>4. ASSUME r = Row(t, x, n)
      PROVE  [r EXCEPT !.delivered = TRUE] =
               [turn |-> t, event |-> x, ordinal |-> n, delivered |-> TRUE]
  <2>1. r.turn = t /\ r.event = x /\ r.ordinal = n
    BY <1>4 DEF Row
  <2> DEFINE q == [r EXCEPT !.delivered = TRUE]
             w == [turn |-> t, event |-> x, ordinal |-> n, delivered |-> TRUE]
             Rows == [turn : Events, event : Events, ordinal : Nat, delivered : BOOLEAN]
  <2>2. q \in Rows /\ w \in Rows
    BY <1>1
  <2>3. /\ q.turn = w.turn /\ q.event = w.event
        /\ q.ordinal = w.ordinal /\ q.delivered = w.delivered
    BY <1>1, <2>1
  <2> QED
    BY <2>2, <2>3
<1> QED
  BY <1>2, <1>3, <1>4 DEF Row

\* An accepted steer goes from the hand into the turn, its row marked.
LEMMA AcceptAccounts ==
  ASSUME Known, AccountInv, SteerAccepted
  PROVE  AccountInv'
<1> DEFINE h == frame.event
           t == turn.trigger
<1>1. /\ frame.at = "steering" /\ Active
      /\ h \in Events /\ turn \in TurnType /\ turn.inputs \in Seq(Events)
      /\ inbox \in InboxType /\ delivered \in [Events -> Nat]
      /\ DurableTypeOK
  BY DEF SteerAccepted, Known, ActorInv, TypeOK, ActorTypeOK, DurableTypeOK,
     HistoryTypeOK, FramesOK, FrameType, TurnType
<1>2. /\ turn' = [turn EXCEPT !.inputs = Append(@, h)]
      /\ inbox' = [inbox EXCEPT ![h].disposition = "steer_delivered"]
      /\ turnInputs' = Delivered(t, h)
      /\ delivered' = [delivered EXCEPT ![h] = @ + 1]
      /\ frame' = Ready
      /\ UNCHANGED <<mailbox, state, queue, closing, dropped>>
  BY DEF SteerAccepted
<1>3. InHand(h) /\ \A e : InHand(e) => e = h
  BY <1>1 DEF InHand
<1> HIDE DEF h, t
<1>4. /\ turn'.trigger = turn.trigger
      /\ turn'.inputs = Append(turn.inputs, h)
  BY <1>1, <1>2 DEF TurnType
<1>5. /\ Elements(turn'.inputs) = Elements(turn.inputs) \cup {h}
      /\ \A i \in DOMAIN turn'.inputs :
           \/ i \in DOMAIN turn.inputs /\ turn'.inputs[i] = turn.inputs[i]
           \/ i = Len(turn.inputs) + 1 /\ turn'.inputs[i] = h
  BY <1>1, <1>4, ElementsAppend
<1>6. \A e : /\ InMailbox(e)' <=> InMailbox(e)
             /\ InQueue(e)' <=> InQueue(e)
             /\ InTurn(e)' <=> InTurn(e) \/ e = h
             /\ ~InHand(e)'
  BY <1>2, <1>5 DEF InMailbox, InQueue, InTurn, InHand, Ready, Elements
<1>7. /\ inbox[h].disposition = "steer_pending"
      /\ ~InMailbox(h) /\ ~InQueue(h) /\ ~InTurn(h) /\ h \notin dropped
  BY <1>1, <1>3 DEF AccountInv, PlacesOK, PlaceOK
<1>8. inbox[h].turn = t
  BY <1>1, <1>3 DEF AccountInv, PlacesOK, PlaceOK, t
<1>9. /\ inbox'[h] = [disposition |-> "steer_delivered", turn |-> t]
      /\ \A e \in Events : e # h => inbox'[e] = inbox[e]
  BY <1>1, <1>2, <1>8 DEF InboxType
<1>10. PlacesOK'
  <2> SUFFICES ASSUME NEW e \in Events PROVE PlaceOK(e)'
    BY DEF PlacesOK
  <2>1. CASE e = h
    BY <1>2, <1>4, <1>6, <1>7, <1>9, <2>1 DEF PlaceOK, t
  <2>2. CASE e # h
    BY <1>1, <1>2, <1>3, <1>4, <1>6, <1>9, <2>2 DEF AccountInv, PlacesOK, PlaceOK, h
  <2> QED
    BY <2>1, <2>2
<1>11. HandedOver'
  <2> SUFFICES ASSUME NEW e \in Events
               PROVE  delivered'[e] = IF InTurn(e)' \/ Answered(e)' THEN 1 ELSE 0
    BY DEF HandedOver
  <2>1. CASE e = h
    BY <1>1, <1>2, <1>6, <1>7, <2>1 DEF AccountInv, HandedOver, Answered
  <2>2. CASE e # h
    BY <1>1, <1>2, <1>6, <1>9, <2>2 DEF AccountInv, HandedOver, Answered
  <2> QED
    BY <2>1, <2>2
<1>12. TurnOK'
  BY <1>1, <1>4, <1>5 DEF AccountInv, TurnOK, Active
<1>13. t \in Events /\ Len(turn.inputs) \in Nat
  BY <1>1 DEF t, TurnType, Active
<1>14. RowsOK'
  <2>1. Row(t, h, Len(turn.inputs)) \in turnInputs
    BY <1>1 DEF AccountInv, RowsOK, t, h, StartingFrames
  <2>2. [turn |-> t, event |-> h, ordinal |-> Len(turn.inputs), delivered |-> TRUE]
          \in turnInputs'
    BY <1>1, <1>2, <1>13, <2>1, DeliveredRows
  <2>3. ASSUME NEW i \in DOMAIN turn'.inputs
        PROVE  [turn |-> t, event |-> turn'.inputs[i], ordinal |-> i - 1,
                delivered |-> TRUE] \in turnInputs'
    <3>1. CASE i \in DOMAIN turn.inputs /\ turn'.inputs[i] = turn.inputs[i]
      <4> DEFINE r == [turn |-> t, event |-> turn.inputs[i], ordinal |-> i - 1,
                       delivered |-> TRUE]
      <4>1. r \in turnInputs
        BY <3>1 DEF AccountInv, RowsOK, t, StartingFrames
      <4>2. r.delivered = TRUE
        OBVIOUS
      <4> HIDE DEF r
      <4>3. r \in turnInputs'
        BY <1>1, <1>2, <1>13, <4>1, <4>2, DeliveredRows
      <4> QED
        BY <3>1, <4>3 DEF r
    <3>2. CASE i = Len(turn.inputs) + 1 /\ turn'.inputs[i] = h
      <4>1. i - 1 = Len(turn.inputs)
        BY <1>13, <3>2
      <4> QED
        BY <2>2, <3>2, <4>1
    <3> QED
      BY <1>5, <3>1, <3>2
  <2>4. frame'.at = "ready"
    BY <1>2 DEF Ready
  <2> QED
    BY <1>4, <2>3, <2>4 DEF RowsOK, t, StartingFrames
<1>15. MailOnce' /\ QueueOnce' /\ MailClosing' /\ ClosingOK'
  BY <1>2 DEF AccountInv, MailOnce, QueueOnce, MailClosing, ClosingOK, Ready
<1> QED
  BY <1>10, <1>11, <1>12, <1>14, <1>15 DEF AccountInv

\* A rejected steer goes from the hand to the end of the queue.
LEMMA RejectAccounts ==
  ASSUME Known, AccountInv, SteerRejected
  PROVE  AccountInv'
<1> DEFINE h == frame.event
<1>1. /\ frame.at = "steering" /\ h \in Events
      /\ inbox \in InboxType /\ queue \in Seq(Events)
  BY DEF SteerRejected, Known, ActorInv, TypeOK, ActorTypeOK, DurableTypeOK, FramesOK,
     FrameType
<1>2. /\ inbox' = [inbox EXCEPT ![h] = [disposition |-> "queued", turn |-> None]]
      /\ queue' = Append(queue, h)
      /\ frame' = Ready
      /\ UNCHANGED <<mailbox, state, turn, turnInputs, closing, delivered, dropped>>
  BY DEF SteerRejected, history
<1>3. InHand(h) /\ \A e : InHand(e) => e = h
  BY <1>1 DEF InHand
<1> HIDE DEF h
<1>4. /\ Elements(queue') = Elements(queue) \cup {h}
      /\ \A i \in DOMAIN queue' :
           \/ i \in DOMAIN queue /\ queue'[i] = queue[i]
           \/ i = Len(queue) + 1 /\ queue'[i] = h
  BY <1>1, <1>2, ElementsAppend
<1>5. \A e : /\ InMailbox(e)' <=> InMailbox(e)
             /\ InQueue(e)' <=> InQueue(e) \/ e = h
             /\ InTurn(e)' <=> InTurn(e)
             /\ ~InHand(e)'
  BY <1>2, <1>4 DEF InMailbox, InQueue, InTurn, InHand, Ready, Elements
<1>6. /\ inbox[h].disposition = "steer_pending"
      /\ ~InMailbox(h) /\ ~InQueue(h) /\ ~InTurn(h) /\ h \notin dropped
  BY <1>1, <1>3 DEF AccountInv, PlacesOK, PlaceOK
<1>7. /\ inbox'[h].disposition = "queued"
      /\ \A e \in Events : e # h => inbox'[e] = inbox[e]
  BY <1>1, <1>2 DEF InboxType
<1>8. PlacesOK'
  <2> SUFFICES ASSUME NEW e \in Events PROVE PlaceOK(e)'
    BY DEF PlacesOK
  <2>1. CASE e = h
    BY <1>2, <1>5, <1>6, <1>7, <2>1 DEF PlaceOK
  <2>2. CASE e # h
    BY <1>1, <1>2, <1>3, <1>5, <1>7, <2>2 DEF AccountInv, PlacesOK, PlaceOK, h
  <2> QED
    BY <2>1, <2>2
<1>9. HandedOver'
  BY <1>2, <1>5, <1>6, <1>7 DEF AccountInv, HandedOver, Answered
<1>10. QueueOnce'
  <2>1. \A i \in DOMAIN queue : queue[i] # h
    BY <1>6 DEF InQueue, Elements
  <2> QED
    BY <1>4, <2>1 DEF AccountInv, QueueOnce
<1>11. MailOnce' /\ TurnOK' /\ MailClosing' /\ RowsOK' /\ ClosingOK'
  BY <1>2 DEF AccountInv, MailOnce, TurnOK, Active, MailClosing, RowsOK, ClosingOK, Ready, StartingFrames
<1> QED
  BY <1>8, <1>9, <1>10, <1>11 DEF AccountInv

\* An event whose session cannot be opened is dropped from the hand.
LEMMA FailureAccounts ==
  ASSUME Known, AccountInv, OpenFails
  PROVE  AccountInv'
<1> DEFINE h == frame.event
<1>1. /\ frame.at = "opening" /\ h \in Events
      /\ dropped' = dropped \cup {h}
      /\ frame' = Ready
      /\ UNCHANGED <<mailbox, state, turn, queue, inbox, turnInputs, closing, delivered>>
  BY DEF OpenFails, durable, Known, ActorInv, TypeOK, ActorTypeOK, FramesOK, FrameType
<1>2. InHand(h) /\ \A e : InHand(e) => e = h
  BY <1>1 DEF InHand
<1>3. \A e : /\ InMailbox(e)' <=> InMailbox(e)
             /\ InQueue(e)' <=> InQueue(e)
             /\ InTurn(e)' <=> InTurn(e)
             /\ Answered(e)' <=> Answered(e)
             /\ ~InTurn(e) /\ ~InHand(e)'
  BY <1>1 DEF InMailbox, InQueue, InTurn, InHand, Answered, Ready, AccountInv, TurnOK,
     Known, ActorInv, FramesOK, Elements
<1> HIDE DEF h
<1>4. PlacesOK'
  <2> SUFFICES ASSUME NEW e \in Events PROVE PlaceOK(e)'
    BY DEF PlacesOK
  <2> QED
    BY <1>1, <1>2, <1>3 DEF AccountInv, PlacesOK, PlaceOK, h
<1>5. HandedOver'
  BY <1>1, <1>3 DEF AccountInv, HandedOver
<1>6. /\ QueueOnce' /\ MailOnce' /\ TurnOK' /\ MailClosing' /\ RowsOK' /\ ClosingOK'
  BY <1>1 DEF AccountInv, QueueOnce, MailOnce, TurnOK, Active, MailClosing, RowsOK,
     ClosingOK, Ready, StartingFrames
<1> QED
  BY <1>4, <1>5, <1>6 DEF AccountInv

\* The event prompted goes from the hand into its own turn, its row marked.
LEMMA PromptAccounts ==
  ASSUME Known, AccountInv, PromptStarts
  PROVE  AccountInv'
<1> DEFINE h == frame.event
<1>1. /\ frame.at = "preparing" /\ h \in Events /\ ~Active
      /\ frame.then \in {"done", "rotate", "close"}
      /\ inbox \in InboxType /\ delivered \in [Events -> Nat]
      /\ mailbox \in Seq(MessageType) /\ DurableTypeOK
  BY DEF PromptStarts, Known, ActorInv, TypeOK, ActorTypeOK, DurableTypeOK, HistoryTypeOK,
     FramesOK, FrameType
<1>2. /\ turn' = [trigger |-> h, inputs |-> <<h>>]
      /\ turnInputs' = Delivered(h, h)
      /\ delivered' = [delivered EXCEPT ![h] = @ + 1]
      /\ \/ mailbox' = mailbox
         \/ mailbox' = Append(mailbox, Message("cancel", None))
      /\ state' = "running"
      /\ Return(frame.then)
      /\ UNCHANGED <<queue, inbox, closing, dropped>>
  BY DEF PromptStarts
<1>3. InHand(h) /\ \A e : InHand(e) => e = h
  BY <1>1 DEF InHand
<1>4. MailKept
  <2>1. Message("cancel", None) \in MessageType
    BY MessageTypes DEF Control
  <2>2. Message("cancel", None).kind = "cancel"
    BY DEF Message
  <2> QED
    BY <1>1, <1>2, <2>1, <2>2, PostKeepsMail
<1>5. frame'.at \notin HoldingFrames /\ (frame'.then = "close" => frame.then = "close")
  BY <1>2 DEF Return, Ready, HoldingFrames, StartingFrames
<1>6. Elements(<<h>>) = {h}
  BY DEF Elements
<1>7. \A e \in Events : /\ InMailbox(e)' <=> InMailbox(e)
                        /\ InQueue(e)' <=> InQueue(e)
                        /\ InTurn(e)' <=> e = h
                        /\ ~InTurn(e) /\ ~InHand(e)'
                        /\ Answered(e)' <=> Answered(e)
  BY <1>1, <1>2, <1>4, <1>5, <1>6 DEF MailKept, InQueue, InTurn, InHand, HoldingFrames,
     Answered, AccountInv, TurnOK, Elements, StartingFrames
<1> HIDE DEF h
<1>8. /\ inbox[h] \in [disposition : Dispositions, turn : Events \cup {None}]
      /\ inbox[h].disposition = "prompted" /\ inbox[h].turn = h /\ h \notin dropped
  BY <1>1, <1>3 DEF AccountInv, PlacesOK, PlaceOK, InboxType
<1>9. PlacesOK'
  <2> SUFFICES ASSUME NEW e \in Events PROVE PlaceOK(e)'
    BY DEF PlacesOK
  <2>1. CASE e = h
    BY <1>2, <1>3, <1>7, <1>8, <2>1 DEF AccountInv, PlacesOK, PlaceOK
  <2>2. CASE e # h
    BY <1>1, <1>2, <1>3, <1>7, <2>2 DEF AccountInv, PlacesOK, PlaceOK
  <2> QED
    BY <2>1, <2>2
<1>10. HandedOver'
  <2> SUFFICES ASSUME NEW e \in Events
               PROVE  delivered'[e] = IF InTurn(e)' \/ Answered(e)' THEN 1 ELSE 0
    BY DEF HandedOver
  <2>1. CASE e = h
    BY <1>1, <1>2, <1>7, <1>8, <2>1 DEF AccountInv, HandedOver, Answered
  <2>2. CASE e # h
    BY <1>1, <1>2, <1>7, <2>2 DEF AccountInv, HandedOver
  <2> QED
    BY <2>1, <2>2
<1>11. TurnOK'
  BY <1>1, <1>2, <1>6, SessionKeys DEF TurnOK, Active
<1>12. RowsOK'
  <2>1. Row(h, h, 0) \in turnInputs
    BY <1>1 DEF AccountInv, RowsOK, h, StartingFrames
  <2>2. [turn |-> h, event |-> h, ordinal |-> 0, delivered |-> TRUE] \in turnInputs'
    BY <1>1, <1>2, <2>1, DeliveredRows
  <2>3. \A i \in DOMAIN turn'.inputs : i = 1 /\ turn'.inputs[i] = h
    BY <1>2
  <2>4. turn'.trigger = h
    BY <1>2
  <2>5. 1 - 1 = 0
    OBVIOUS
  <2>6. \A i \in DOMAIN turn'.inputs :
          [turn |-> turn'.trigger, event |-> turn'.inputs[i], ordinal |-> i - 1,
           delivered |-> TRUE] \in turnInputs'
    BY <2>2, <2>3, <2>4, <2>5
  <2> QED
    BY <1>5, <2>6 DEF RowsOK, HoldingFrames, StartingFrames
<1>13. MailOnce' /\ MailClosing' /\ QueueOnce' /\ ClosingOK'
  BY <1>2, <1>4, <1>5 DEF AccountInv, MailKept, QueueOnce, ClosingOK
<1> QED
  BY <1>9, <1>10, <1>11, <1>12, <1>13 DEF AccountInv

-----------------------------------------------------------------------------
\* Initially no event was accepted and nothing is anywhere.
LEMMA InitAccounts == Init => AccountInv
<1> SUFFICES ASSUME Init PROVE AccountInv
  OBVIOUS
<1>1. \A e : ~InMailbox(e) /\ ~InQueue(e) /\ ~InHand(e) /\ ~InTurn(e)
  BY DEF Init, InMailbox, InQueue, InHand, InTurn, Elements, Ready, NoTurn
<1>2. PlacesOK /\ HandedOver
  BY <1>1 DEF Init, PlacesOK, PlaceOK, HandedOver, Answered
<1>3. MailOnce /\ QueueOnce /\ MailClosing /\ ClosingOK
  BY DEF Init, MailOnce, QueueOnce, MailClosing, ClosingOK, Ready
<1>4. TurnOK /\ RowsOK
  BY DEF Init, TurnOK, RowsOK, Active, NoTurn, Ready, StartingFrames
<1> QED
  BY <1>2, <1>3, <1>4 DEF AccountInv

\* Every step of the actor, of Pi and of what surrounds them keeps the
\* accounting.
LEMMA NextAccounts ==
  ASSUME Known, AccountInv, [Next]_vars
  PROVE  AccountInv'
<1>0. /\ ActorTypeOK /\ mailbox \in Seq(MessageType)
      /\ frame.then \in {"done", "rotate", "close"}
  BY DEF Known, ActorInv, TypeOK, ActorTypeOK, FrameType
<1>1. ASSUME NEW m \in MessageType, m.kind # "inbound", m.kind = "close" => closing',
             Post(m), closing => closing',
             UNCHANGED <<frame, state, turn, queue, inbox, turnInputs, delivered, dropped>>
      PROVE  AccountInv'
  <2>1. MailKept
    BY <1>0, <1>1, PostKeepsMail DEF Post
  <2> QED
    BY <1>1, <2>1, NothingMoves DEF HandKept
<1>2. \A kind \in Control : /\ Message(kind, None) \in MessageType
                           /\ Message(kind, None).kind = kind
  BY MessageTypes DEF Message
<1>3. \A kind \in PiKinds, e \in Events : /\ Message(kind, e) \in MessageType
                                         /\ Message(kind, e).kind = kind
  BY MessageTypes DEF Message
<1>4. CASE WatchFires \/ OwnerCancels \/ PostRotate \/ PostClose
  BY <1>1, <1>2, <1>4
     DEF WatchFires, OwnerCancels, PostRotate, PostClose, PostOnly, Control, durable, history
<1>5. ASSUME NEW k \in Keys, NEW kind \in PiKinds, NEW e \in Events, Emit(k, kind, e),
             UNCHANGED <<frame, state, turn, queue, inbox, turnInputs, delivered,
                         dropped, closing>>
      PROVE  AccountInv'
  <2>1. CASE Post(Message(kind, e))
    BY <1>1, <1>3, <1>5, <2>1 DEF PiKinds
  <2>2. CASE UNCHANGED mailbox
    <3>1. MailKept /\ HandKept
      BY <1>5, <2>2 DEF MailKept, InMailbox, MailOnce, MailClosing, HandKept
    <3> QED
      BY <1>5, <3>1, NothingMoves
  <2> QED
    BY <1>5, <2>1, <2>2 DEF Emit
<1>6. ASSUME NEW k \in Keys, NEW kind \in Reports, PiEmits(k, kind) PROVE AccountInv'
  <2>1. live[k] \in Events /\ kind \in PiKinds
    BY <1>6, ActorAssumption DEF PiEmits, Known, ActorInv, TypeOK, PiTypeOK, PiKinds
  <2> QED
    BY <1>5, <1>6, <2>1 DEF PiEmits, durable, history
<1>7. ASSUME NEW k \in Keys, PiSettles(k) PROVE AccountInv'
  <2>1. live[k] \in Events /\ "agent_settled" \in PiKinds
    BY <1>7 DEF PiSettles, Known, ActorInv, TypeOK, PiTypeOK, PiKinds
  <2> QED
    BY <1>5, <1>7, <2>1 DEF PiSettles, durable, history
<1>8. ASSUME NEW k \in Keys, TrailingSettles(k) PROVE AccountInv'
  <2>1. Head(trailing[k]) \in Events /\ "agent_settled" \in PiKinds
    <3>1. trailing[k] \in Seq(Events) /\ trailing[k] # <<>>
      BY <1>8 DEF TrailingSettles, Known, ActorInv, TypeOK, PiTypeOK
    <3> QED
      BY <3>1 DEF PiKinds
  <2> QED
    BY <1>5, <1>8, <2>1 DEF TrailingSettles, durable, history
<1>9. ASSUME NEW k \in Keys, PromptFails(k) PROVE AccountInv'
  BY <1>1, <1>2, <1>9 DEF PromptFails, Control, durable, history
<1>10. ASSUME NEW e \in Events, Submit(e) PROVE AccountInv'
  BY <1>10, SubmitAccounts
<1>11. CASE TakeStartsTurn
  BY <1>11, StartAccounts
<1>12. CASE TakeQueues
  BY <1>12, QueueAccounts
<1>13. CASE TakeSteers
  BY <1>13, SteerAccounts
<1>14. CASE TakeSteerCollides
  BY <1>14, CollisionAccounts
<1>15. CASE SteerAccepted
  BY <1>15, AcceptAccounts
<1>16. CASE SteerRejected
  BY <1>16, RejectAccounts
<1>17. CASE OpenFails
  BY <1>17, FailureAccounts
<1>18. CASE PromptStarts
  BY <1>18, PromptAccounts
<1>19. ASSUME UNCHANGED mailbox, HandKept, state' = state,
              UNCHANGED <<turn, queue, inbox, turnInputs, delivered, dropped, closing>>
       PROVE  AccountInv'
  <2>1. MailKept
    BY <1>19 DEF MailKept, InMailbox, MailOnce, MailClosing
  <2> QED
    BY <1>19, <2>1, NothingMoves
<1>20. CASE GrantPermit
  BY <1>19, <1>20 DEF GrantPermit, HandKept, StartingFrames, durable, history, FrameType,
     ActorTypeOK, Known, ActorInv, TypeOK
<1>21. CASE OpenSucceeds
  BY <1>19, <1>21 DEF OpenSucceeds, HandKept, StartingFrames, durable, history, FrameType,
     ActorTypeOK, Known, ActorInv, TypeOK
<1>22. CASE RotateResumes \/ RotateReleases
  BY <1>19, <1>22 DEF RotateResumes, RotateReleases, HandKept, HoldingFrames,
     StartingFrames, Ready, durable, history
<1>23. CASE RemoveReleases \/ ConfigPush \/ UNCHANGED vars
  BY <1>19, <1>23 DEF RemoveReleases, ConfigPush, HandKept, durable, history, vars
<1>24. CASE CloseResumes
  <2>1. MailKept /\ HandKept /\ closing
    BY <1>24 DEF CloseResumes, MailKept, InMailbox, MailOnce, MailClosing, HandKept,
       HoldingFrames, StartingFrames, Ready, AccountInv, ClosingOK
  <2> QED
    BY <1>24, <2>1, NothingMoves DEF CloseResumes, durable, history
<1>25. ASSUME NEW kind \in PiKinds \cup Control, Take(kind), UNCHANGED closing
       PROVE  MailKept /\ frame.at = "ready"
  BY <1>0, <1>25, TakeKeepsMail DEF PiKinds, Control, Take
<1>26. CASE TakeMessageEnd \/ TakeAgentEnd \/ TakeStaleSettle
  <2>1. MailKept
    BY <1>25, <1>26 DEF TakeMessageEnd, TakeAgentEnd, TakeStaleSettle, PiKinds
  <2> QED
    BY <1>26, <2>1, NothingMoves
       DEF TakeMessageEnd, TakeAgentEnd, TakeStaleSettle, HandKept, durable, history
<1>27. CASE TakeSettle
  <2>1. MailKept /\ frame.at \notin HoldingFrames
    BY <1>25, <1>27 DEF TakeSettle, PiKinds, HoldingFrames, StartingFrames
  <2> QED
    BY <1>27, <2>1, SettleAccounts DEF TakeSettle, history
<1>28. CASE AbortReturns \/ AbortFails
  <2>1. /\ MailKept /\ frame.at \notin HoldingFrames /\ Settle(frame.then)
        /\ UNCHANGED <<closing, delivered, dropped>>
        /\ frame.then = "close" => closing
    BY <1>28 DEF AbortReturns, AbortFails, MailKept, InMailbox, MailOnce, MailClosing,
       HoldingFrames, StartingFrames, history, AccountInv, ClosingOK
  <2> QED
    BY <1>0, <2>1, SettleAccounts
<1>29. ASSUME NEW kind \in Control, TakeControl(kind) PROVE AccountInv'
  <2>1. /\ Take(kind)
        /\ UNCHANGED <<state, turn, queue, inbox, turnInputs, delivered, dropped, closing>>
    BY <1>29 DEF TakeControl, durable, history
  <2>2. MailKept /\ frame.at = "ready"
    BY <1>25, <2>1
  <2>3. kind = "close" => closing
    BY <1>0, <2>1 DEF Take, AccountInv, MailClosing
  <2>4. HandKept
    <3>1. PICK next \in {"done", "rotate", "close"} :
            /\ next = "close" => kind = "close"
            /\ \/ frame' = [Ready EXCEPT !.at = "aborting", !.then = next]
               \/ Return(next)
      BY <1>29 DEF TakeControl, Control
    <3>2. /\ frame'.at \in {"aborting", "resuming", "ready"}
          /\ frame'.then = "close" => next = "close"
      <4>1. CASE frame' = [Ready EXCEPT !.at = "aborting", !.then = next]
        BY <4>1 DEF Ready
      <4>2. CASE Return(next) /\ next = "done"
        BY <4>2 DEF Return, Ready
      <4>3. CASE Return(next) /\ next # "done"
        BY <4>3 DEF Return, Ready
      <4> QED
        BY <3>1, <4>1, <4>2, <4>3
    <3> QED
      BY <2>1, <2>2, <2>3, <3>1, <3>2 DEF HandKept, HoldingFrames, StartingFrames
  <2> QED
    BY <2>1, <2>2, <2>4, NothingMoves
<1> QED
  BY <1>4, <1>6, <1>7, <1>8, <1>9, <1>10, <1>11, <1>12, <1>13, <1>14, <1>15, <1>16, <1>17,
     <1>18, <1>20, <1>21, <1>22, <1>23, <1>24, <1>26, <1>27, <1>28, <1>29
     DEF Next, Pump, Pi, Environment

\* The accounting holds in every state of every execution.
LEMMA AccountInvariant == Spec => [](Known /\ AccountInv)
<1>1. ActorInv /\ SteersStayInConversation => Known
  BY DEF Known
<1>2. Init => AccountInv
  BY InitAccounts
<1>3. Known /\ AccountInv /\ [Next]_vars => AccountInv'
  BY NextAccounts
<1> QED
  BY <1>1, <1>2, <1>3, ActorInvariant, NoForeignInputs, PTL DEF Spec

\* Every accepted event is in exactly one place, whatever disturbs the actor: no
\* race of a steer with the end of the run, no cancel, rotation, removal or
\* failure loses or copies one.
THEOREM EventsAccounted == Spec => []Accounted
<1>1. Known /\ AccountInv => Accounted
  <2> SUFFICES ASSUME Known, AccountInv, NEW e \in Events, inbox[e].disposition # "none"
               PROVE  Cardinality(Places(e)) = 1
    BY DEF Accounted
  <2>1. inbox[e].disposition \in Dispositions \ {"none"}
    BY DEF Known, ActorInv, TypeOK, DurableTypeOK, InboxType
  <2>2. PlaceOK(e)
    BY DEF AccountInv, PlacesOK
  <2>3. InHand(e) /\ frame.at # "steering" => ~InTurn(e)
    BY DEF InHand, InTurn, AccountInv, TurnOK, Known, ActorInv, FramesOK, Elements
  <2>4. PICK p : Places(e) = {p}
    <3>1. Places(e) \subseteq {"mailbox", "hand", "queue", "turn", "answered", "dropped"}
      BY DEF Places
    <3>2. /\ "mailbox" \in Places(e) <=> InMailbox(e)
          /\ "hand" \in Places(e) <=> InHand(e)
          /\ "queue" \in Places(e) <=> InQueue(e)
          /\ "turn" \in Places(e) <=> InTurn(e)
          /\ "answered" \in Places(e) <=> Answered(e)
          /\ "dropped" \in Places(e) <=> e \in dropped
      BY DEF Places
    <3>3. CASE InMailbox(e)
      <4>1. ~InHand(e) /\ ~InQueue(e) /\ ~InTurn(e) /\ ~Answered(e) /\ e \notin dropped
        BY <2>2, <3>3 DEF PlaceOK, Answered
      <4> QED
        BY <3>1, <3>2, <3>3, <4>1
    <3>4. CASE InQueue(e) /\ ~InMailbox(e)
      <4>1. ~InHand(e) /\ ~InTurn(e) /\ ~Answered(e) /\ e \notin dropped
        BY <2>2, <3>4 DEF PlaceOK, Answered
      <4> QED
        BY <3>1, <3>2, <3>4, <4>1
    <3>5. CASE InHand(e) /\ ~InMailbox(e) /\ ~InQueue(e)
      <4>1. ~InTurn(e) /\ ~Answered(e) /\ e \notin dropped
        BY <2>2, <2>3, <3>5 DEF PlaceOK, Answered
      <4> QED
        BY <3>1, <3>2, <3>5, <4>1
    <3>6. CASE InTurn(e) /\ ~InMailbox(e) /\ ~InQueue(e) /\ ~InHand(e)
      <4>1. ~Answered(e) /\ e \notin dropped
        BY <2>2, <3>6 DEF PlaceOK, Answered
      <4> QED
        BY <3>1, <3>2, <3>6, <4>1
    <3>7. CASE e \in dropped /\ ~InMailbox(e) /\ ~InQueue(e) /\ ~InHand(e) /\ ~InTurn(e)
      <4>1. ~Answered(e)
        BY <2>2, <3>7 DEF PlaceOK, Answered
      <4> QED
        BY <3>1, <3>2, <3>7, <4>1
    <3>8. CASE e \notin dropped /\ ~InMailbox(e) /\ ~InQueue(e) /\ ~InHand(e) /\ ~InTurn(e)
      <4>1. Answered(e)
        BY <2>1, <2>2, <3>8 DEF PlaceOK, Answered, Dispositions, InHand
      <4> QED
        BY <3>1, <3>2, <3>8, <4>1
    <3> QED
      BY <3>3, <3>4, <3>5, <3>6, <3>7, <3>8
  <2> QED
    BY <2>4, FS_Singleton
<1> QED
  BY <1>1, AccountInvariant, PTL

\* The rows that recovery would read after a crash agree with the memory the
\* crash would lose: the queue, the inputs of the turn with their ordinals, and
\* the one steer that may be pending.
THEOREM RowsMatchMemory == Spec => []DurableMatchesMemory
<1>1. Known /\ AccountInv => DurableMatchesMemory
  <2> SUFFICES ASSUME Known, AccountInv PROVE DurableMatchesMemory
    OBVIOUS
  <2>1. Elements(queue) \subseteq Events /\ Elements(turn.inputs) \subseteq Events
    BY DEF Known, ActorInv, TypeOK, ActorTypeOK, TurnType, Elements
  <2> QED
    BY <2>1 DEF DurableMatchesMemory, AccountInv, PlacesOK, PlaceOK, RowsOK, InQueue, InTurn
<1> QED
  BY <1>1, AccountInvariant, PTL

\* A prompt or a steer hands an event to Pi at most once, and never while the
\* event is still to be handled.
THEOREM HandedOverOnce == Spec => []DeliveredOnce
<1>1. Known /\ AccountInv => DeliveredOnce
  BY DEF DeliveredOnce, AccountInv, HandedOver, PlacesOK, PlaceOK, Answered
<1> QED
  BY <1>1, AccountInvariant, PTL

-----------------------------------------------------------------------------
(* The actor implements ConversationTurns.                                  *)

\* The status of an event whose row and place agree.
StatusFits(e) ==
  LET d == inbox[e].disposition
      accepted == d \notin {"none", "completed"}
  IN /\ d = "none" /\ ~InTurn(e) /\ e \notin dropped => EventStatus(e) = "new"
     /\ accepted /\ InTurn(e) /\ e \notin dropped => EventStatus(e) = "active"
     /\ d = "completed" /\ ~InTurn(e) /\ e \notin dropped => EventStatus(e) = "answered"
     /\ accepted /\ ~InTurn(e) /\ e \in dropped => EventStatus(e) = "lost"
     /\ accepted /\ ~InTurn(e) /\ e \notin dropped => EventStatus(e) = "pending"

\* It does, before and after every step.
LEMMA StatusIs == \A e : StatusFits(e) /\ StatusFits(e)'
<1>1. ASSUME NEW e PROVE StatusFits(e)
  BY DEF StatusFits, EventStatus, Answered
<1>2. ASSUME NEW e PROVE StatusFits(e)'
  BY DEF StatusFits, EventStatus, Answered
<1> QED
  BY <1>1, <1>2

\* A step of the actor that neither opens, joins, closes nor loses anything: it
\* may queue, requeue or take up an event, and start a turn that is not active.
LEMMA StatusKept ==
  ASSUME UNCHANGED <<turn, dropped>>,
         \A e \in Events :
           /\ inbox'[e].disposition = "none" <=> inbox[e].disposition = "none"
           /\ inbox'[e].disposition = "completed" <=> inbox[e].disposition = "completed"
  PROVE  UNCHANGED Abstract!vars
<1>1. \A e \in Events : EventStatus(e)' = EventStatus(e)
  BY DEF EventStatus, InTurn, Answered
<1> QED
  BY <1>1 DEF Abstract!vars

\* The same when only the row of one event that was accepted before changes.
LEMMA OneRowKeepsStatus ==
  ASSUME Known, UNCHANGED <<turn, dropped>>, NEW h \in Events,
         inbox[h].disposition \notin {"none", "completed"},
         inbox'[h].disposition \notin {"none", "completed"},
         \A e \in Events : e # h => inbox'[e] = inbox[e]
  PROVE  UNCHANGED Abstract!vars
<1>1. \A e \in Events :
        /\ inbox'[e].disposition = "none" <=> inbox[e].disposition = "none"
        /\ inbox'[e].disposition = "completed" <=> inbox[e].disposition = "completed"
  OBVIOUS
<1> QED
  BY <1>1, StatusKept

\* Closing a turn answers its messages and those only.
LEMMA CloseMaps ==
  ASSUME Known, AccountInv, NEW next, CloseTurn(next), frame.at \notin HoldingFrames,
         UNCHANGED dropped
  PROVE  Abstract!Close
<1> DEFINE t == turn.trigger
           inb == CompletedInputs(t)
           ts == [turnState EXCEPT ![t] = "completed"]
<1>1. /\ Active /\ turn' = NoTurn /\ Dispatch(next, inb, ts)
      /\ queue \in Seq(Events)
  BY DEF CloseTurn, Known, ActorInv, TypeOK, ActorTypeOK
<1>2. ASSUME NEW e \in Events
      PROVE  /\ InTurn(e) => inb[e].disposition = "completed"
             /\ ~InTurn(e) => inb[e] = inbox[e]
  BY <1>1, CompletedRows
<1>3. inb = [e \in Events |-> inb[e]]
  BY DEF CompletedInputs
<1> HIDE DEF t, inb, ts
<1>4. ASSUME NEW e \in Events
      PROVE  /\ InTurn(e) => inbox'[e].disposition = "completed"
             /\ ~InTurn(e) =>
                  /\ inbox'[e].disposition = "none" <=> inbox[e].disposition = "none"
                  /\ inbox'[e].disposition = "completed" <=>
                       inbox[e].disposition = "completed"
  <2>1. CASE queue = <<>>
    <3>1. inbox' = inb
      BY <1>1, <2>1 DEF Dispatch
    <3> QED
      BY <1>2, <3>1
  <2>2. CASE queue # <<>>
    <3> DEFINE h == Head(queue)
    <3>1. inbox' = [inb EXCEPT ![h] = [disposition |-> "prompted", turn |-> h]]
      BY <1>1, <2>2 DEF Dispatch, BeginTurn
    <3>2. h \in Events /\ InQueue(h)
      BY <1>1, <2>2, ElementsTail DEF InQueue
    <3> HIDE DEF h
    <3>3. inbox[h].disposition = "queued" /\ ~InTurn(h)
      BY <3>2 DEF AccountInv, PlacesOK, PlaceOK
    <3>4. CASE e = h
      <4>1. inbox'[e] = [disposition |-> "prompted", turn |-> h]
        BY <1>3, <3>1, <3>2, <3>4
      <4> QED
        BY <3>3, <3>4, <4>1
    <3>5. CASE e # h
      <4>1. inbox'[e] = inb[e]
        BY <1>3, <3>1, <3>5
      <4> QED
        BY <1>2, <4>1
    <3> QED
      BY <3>4, <3>5
  <2> QED
    BY <2>1, <2>2
<1>5. \A e : ~InTurn(e)'
  BY <1>1 DEF NoTurn, InTurn, Elements
<1>6. ASSUME NEW e \in Events
      PROVE  EventStatus(e)' = IF EventStatus(e) = "active" THEN "answered"
                               ELSE EventStatus(e)
  <2>1. CASE InTurn(e)
    <3>1. EventStatus(e) = "active"
      BY <2>1, StatusIs DEF StatusFits, AccountInv, PlacesOK, PlaceOK
    <3>2. /\ inbox'[e].disposition = "completed" /\ ~InTurn(e)'
          /\ e \notin dropped'
      BY <1>4, <1>5, <2>1 DEF AccountInv, PlacesOK, PlaceOK
    <3>3. EventStatus(e)' = "answered"
      BY <3>2, StatusIs DEF StatusFits
    <3> QED
      BY <3>1, <3>3
  <2>2. CASE ~InTurn(e)
    <3>1. EventStatus(e) # "active"
      BY <2>2 DEF EventStatus
    <3>2. EventStatus(e)' = EventStatus(e)
      BY <1>4, <1>5, <2>2 DEF EventStatus, Answered
    <3> QED
      BY <3>1, <3>2
  <2> QED
    BY <2>1, <2>2
<1>7. turn.trigger # None /\ turn'.trigger = None
  BY <1>1 DEF Active, NoTurn
<1> QED
  BY <1>6, <1>7 DEF Abstract!Close

\* Settling closes the turn, or there was none and nothing happens.
LEMMA SettleMaps ==
  ASSUME Known, AccountInv, NEW next, Settle(next), frame.at \notin HoldingFrames,
         UNCHANGED dropped
  PROVE  Abstract!Close \/ UNCHANGED Abstract!vars
<1>1. CASE SettleNothing(next)
  BY <1>1, StatusKept DEF SettleNothing, durable
<1>2. CASE CloseTurn(next)
  BY <1>2, CloseMaps
<1> QED
  BY <1>1, <1>2 DEF Settle

\* Every step of the actor is a step of ConversationTurns or changes nothing there.
LEMMA StepMaps ==
  ASSUME Known, AccountInv, [Next]_vars
  PROVE  [Abstract!Next]_(Abstract!vars)
<1>0. /\ inbox \in InboxType /\ turn \in TurnType /\ ActorTypeOK
  BY DEF Known, ActorInv, TypeOK, ActorTypeOK, DurableTypeOK
<1>1. CASE UNCHANGED <<turn, inbox, dropped>>
  BY <1>1, StatusKept
<1>2. ASSUME NEW x \in Events, Submit(x) PROVE Abstract!Accept(x)
  <2>1. /\ inbox[x].disposition = "none"
        /\ inbox' = [inbox EXCEPT ![x].disposition = "queued"]
        /\ UNCHANGED <<turn, dropped>>
    BY <1>2 DEF Submit, history
  <2>2. /\ inbox'[x].disposition = "queued"
        /\ \A e \in Events : e # x => inbox'[e] = inbox[e]
    BY <1>0, <2>1 DEF InboxType
  <2>3. ~InTurn(x) /\ x \notin dropped
    BY <2>1 DEF AccountInv, PlacesOK, PlaceOK
  <2>4. /\ EventStatus(x) = "new" /\ EventStatus(x)' = "pending"
        /\ \A e \in Events : e # x => EventStatus(e)' = EventStatus(e)
    BY <2>1, <2>2, <2>3 DEF EventStatus, InTurn, Answered
  <2> QED
    BY <2>1, <2>4 DEF Abstract!Accept
<1>3. ASSUME Take("inbound")
      PROVE  LET h == Head(mailbox).event IN
             /\ h \in Events /\ inbox[h].disposition = "queued"
             /\ ~InTurn(h) /\ h \notin dropped
  <2> DEFINE h == Head(mailbox).event
  <2>1. Head(mailbox) \in Elements(mailbox) /\ Head(mailbox) \in MessageType
    BY <1>0, <1>3, ElementsTail DEF Take, ActorTypeOK
  <2>2. h \in Events /\ Head(mailbox) = Message("inbound", h)
    <3>1. Head(mailbox) \in [kind : {"inbound"} \cup PiKinds, event : Events]
      BY <1>3, <2>1 DEF Take, MessageType, Control
    <3> QED
      BY <1>3, <3>1 DEF Take, Message
  <2>3. InMailbox(h)
    BY <2>1, <2>2 DEF InMailbox, Elements
  <2> QED
    BY <2>2, <2>3 DEF AccountInv, PlacesOK, PlaceOK
<1>4. CASE TakeStartsTurn \/ TakeQueues \/ TakeSteers
  <2> DEFINE h == Head(mailbox).event
  <2>1. /\ Take("inbound") /\ UNCHANGED <<turn, dropped>>
        /\ \/ inbox' = [inbox EXCEPT ![h] = [disposition |-> "prompted", turn |-> h]]
           \/ inbox' = [inbox EXCEPT ![h].disposition = "queued"]
           \/ inbox' = [inbox EXCEPT ![h] = [disposition |-> "steer_pending",
                                             turn |-> turn.trigger]]
    BY <1>4 DEF TakeStartsTurn, TakeQueues, TakeSteers, BeginTurn, Enqueue, history
  <2>2. h \in Events /\ inbox[h].disposition = "queued"
    BY <1>3, <2>1
  <2> HIDE DEF h
  <2>3. /\ inbox'[h].disposition \in {"prompted", "queued", "steer_pending"}
        /\ \A e \in Events : e # h => inbox'[e] = inbox[e]
    BY <1>0, <2>1, <2>2 DEF InboxType
  <2> QED
    BY <2>1, <2>2, <2>3, OneRowKeepsStatus
<1>5. CASE SteerRejected
  <2> DEFINE h == frame.event
  <2>1. /\ h \in Events /\ InHand(h) /\ frame.at = "steering" /\ UNCHANGED <<turn, dropped>>
        /\ inbox' = [inbox EXCEPT ![h] = [disposition |-> "queued", turn |-> None]]
    BY <1>5 DEF SteerRejected, history, InHand, Known, ActorInv, TypeOK, ActorTypeOK,
       FramesOK, FrameType
  <2>2. inbox[h].disposition = "steer_pending"
    BY <2>1 DEF AccountInv, PlacesOK, PlaceOK
  <2> HIDE DEF h
  <2>3. /\ inbox'[h].disposition = "queued"
        /\ \A e \in Events : e # h => inbox'[e] = inbox[e]
    BY <1>0, <2>1 DEF InboxType
  <2> QED
    BY <2>1, <2>2, <2>3, OneRowKeepsStatus
<1>6. ASSUME NEW h \in Events, inbox[h].disposition \notin {"none", "completed"},
             ~InTurn(h), h \notin dropped, dropped' = dropped \cup {h},
             UNCHANGED <<turn, inbox>>
      PROVE  Abstract!Lose(h)
  <2>1. /\ EventStatus(h) = "pending" /\ EventStatus(h)' = "lost"
        /\ \A e \in Events : e # h => EventStatus(e)' = EventStatus(e)
    BY <1>6 DEF EventStatus, InTurn, Answered
  <2> QED
    BY <1>6, <2>1 DEF Abstract!Lose
<1>7. CASE TakeSteerCollides
  <2> DEFINE h == Head(mailbox).event
  <2>1. /\ Take("inbound") /\ dropped' = dropped \cup {h}
        /\ UNCHANGED <<turn, inbox>>
    BY <1>7 DEF TakeSteerCollides, durable
  <2> HIDE DEF h
  <2>2. /\ h \in Events /\ inbox[h].disposition = "queued"
        /\ ~InTurn(h) /\ h \notin dropped
    BY <1>3, <2>1 DEF h
  <2> QED
    BY <1>6, <2>1, <2>2 DEF Abstract!Next
<1>8. CASE OpenFails
  <2> DEFINE h == frame.event
  <2>1. /\ h \in Events /\ InHand(h) /\ frame.at = "opening" /\ ~Active
        /\ dropped' = dropped \cup {h} /\ UNCHANGED <<turn, inbox>>
    BY <1>8 DEF OpenFails, durable, InHand, Known, ActorInv, TypeOK, ActorTypeOK,
       FramesOK, FrameType
  <2>2. /\ inbox[h].disposition = "prompted" /\ h \notin dropped /\ ~InTurn(h)
    BY <2>1 DEF AccountInv, PlacesOK, PlaceOK, TurnOK, InTurn, Elements
  <2> QED
    BY <1>6, <2>1, <2>2 DEF Abstract!Next
<1>9. CASE PromptStarts
  <2>1. PICK h \in Events :
        /\ h = frame.event /\ InHand(h) /\ frame.at = "preparing" /\ ~Active
        /\ turn' = [trigger |-> h, inputs |-> <<h>>] /\ UNCHANGED <<dropped, inbox>>
    BY <1>9 DEF PromptStarts, InHand, Known, ActorInv, TypeOK, ActorTypeOK, FramesOK,
       FrameType
  <2>2. /\ inbox[h].disposition = "prompted" /\ h \notin dropped
    BY <2>1 DEF AccountInv, PlacesOK, PlaceOK
  <2>3. Elements(<<h>>) = {h}
    BY DEF Elements
  <2>4. \A e : ~InTurn(e) /\ (InTurn(e)' <=> e = h)
    BY <2>1, <2>3 DEF AccountInv, TurnOK, InTurn, Elements
  <2>5. /\ EventStatus(h) = "pending" /\ EventStatus(h)' = "active"
        /\ \A e \in Events : e # h => EventStatus(e)' = EventStatus(e)
    <3>1. EventStatus(h) = "pending"
      BY <2>2, <2>4, StatusIs DEF StatusFits
    <3>2. EventStatus(h)' = "active"
      BY <2>1, <2>2, <2>4, StatusIs DEF StatusFits
    <3>3. ASSUME NEW e \in Events, e # h PROVE EventStatus(e)' = EventStatus(e)
      BY <2>1, <2>4, <3>3 DEF EventStatus, Answered
    <3> QED
      BY <3>1, <3>2, <3>3
  <2>6. Abstract!Open(h)
    BY <2>1, <2>5 DEF Abstract!Open, Active
  <2> QED
    BY <2>1, <2>6 DEF Abstract!Next
<1>10. CASE SteerAccepted
  <2> DEFINE t == turn.trigger
  <2>1. PICK h \in Events :
        /\ h = frame.event /\ t \in Events /\ InHand(h) /\ frame.at = "steering" /\ Active
        /\ turn.inputs \in Seq(Events)
        /\ turn' = [turn EXCEPT !.inputs = Append(@, h)]
        /\ inbox' = [inbox EXCEPT ![h].disposition = "steer_delivered"]
        /\ UNCHANGED dropped
    BY <1>0, <1>10 DEF SteerAccepted, InHand, Known, ActorInv, TypeOK, ActorTypeOK,
       FramesOK, FrameType, TurnType, Active
  <2>2. /\ inbox[h].disposition = "steer_pending" /\ h \notin dropped /\ ~InTurn(h)
    BY <2>1 DEF AccountInv, PlacesOK, PlaceOK
  <2>3. ThreadRoot[h] = ThreadRoot[t]
    <3>1. Row(t, h, Len(turn.inputs)) \in turnInputs
      BY <2>1 DEF AccountInv, RowsOK
    <3> QED
      BY <3>1 DEF Known, SteersStayInConversation, Conversation, Row
  <2> HIDE DEF t
  <2>4. /\ inbox'[h].disposition = "steer_delivered"
        /\ \A e \in Events : e # h => inbox'[e] = inbox[e]
    BY <1>0, <2>1 DEF InboxType
  <2>5. /\ turn'.trigger = turn.trigger
        /\ turn'.inputs = Append(turn.inputs, h)
    BY <1>0, <2>1 DEF TurnType
  <2>6. \A e : InTurn(e)' <=> InTurn(e) \/ e = h
    <3>1. Elements(turn'.inputs) = Elements(turn.inputs) \cup {h}
      BY <2>1, <2>5, ElementsAppend
    <3> QED
      BY <3>1 DEF InTurn, Elements
  <2>7. /\ EventStatus(h) = "pending" /\ EventStatus(h)' = "active"
        /\ \A e \in Events : e # h => EventStatus(e)' = EventStatus(e)
    <3>1. EventStatus(h) = "pending"
      BY <2>2, StatusIs DEF StatusFits
    <3>2. EventStatus(h)' = "active"
      BY <2>1, <2>2, <2>4, <2>6, StatusIs DEF StatusFits
    <3>3. ASSUME NEW e \in Events, e # h PROVE EventStatus(e)' = EventStatus(e)
      BY <2>1, <2>4, <2>6, <3>3 DEF EventStatus, Answered
    <3> QED
      BY <3>1, <3>2, <3>3
  <2>8. Abstract!Join(h)
    BY <2>1, <2>3, <2>5, <2>7 DEF Abstract!Join, Active, t
  <2> QED
    BY <2>1, <2>8 DEF Abstract!Next
<1>11. CASE TakeSettle \/ AbortReturns \/ AbortFails
  <2>1. PICK next : Settle(next)
    BY <1>11 DEF TakeSettle, AbortReturns, AbortFails
  <2>2. frame.at \notin HoldingFrames /\ UNCHANGED dropped
    BY <1>11 DEF TakeSettle, Take, AbortReturns, AbortFails, HoldingFrames,
       StartingFrames, history
  <2> QED
    BY <2>1, <2>2, SettleMaps DEF Abstract!Next
<1>12. CASE \/ GrantPermit \/ OpenSucceeds \/ TakeMessageEnd \/ TakeAgentEnd
            \/ TakeStaleSettle \/ RotateResumes \/ RotateReleases \/ CloseResumes
            \/ (\E kind \in Control : TakeControl(kind))
  BY <1>1, <1>12 DEF GrantPermit, OpenSucceeds, TakeMessageEnd, TakeAgentEnd,
     TakeStaleSettle, RotateResumes, RotateReleases, CloseResumes, TakeControl, durable,
     history
<1>13. CASE Pi
  BY <1>1, <1>13 DEF Pi, PiEmits, PiSettles, TrailingSettles, PromptFails, durable, history
<1>14. CASE WatchFires \/ OwnerCancels \/ PostRotate \/ PostClose \/ RemoveReleases
            \/ ConfigPush \/ UNCHANGED vars
  BY <1>1, <1>14 DEF WatchFires, OwnerCancels, PostRotate, PostClose, PostOnly,
     RemoveReleases, ConfigPush, durable, history, vars
<1> QED
  BY <1>2, <1>4, <1>5, <1>7, <1>8, <1>9, <1>10, <1>11, <1>12, <1>13, <1>14
     DEF Next, Pump, Environment, Abstract!Next

\* The actor implements ConversationTurns: whatever is cancelled, rotated, closed
\* or failing, it runs one turn at a time, a message joins only a turn of its own
\* conversation, and no message is part of two turns.
THEOREM ActorImplementsTurns == Spec => ImplementsConversationTurns
<1>1. Init => Abstract!Init
  <2> SUFFICES ASSUME Init PROVE Abstract!Init
    OBVIOUS
  <2>1. \A e : ~InTurn(e)
    BY DEF Init, NoTurn, InTurn, Elements
  <2>2. \A e \in Events : EventStatus(e) = "new"
    BY <2>1, StatusIs DEF Init, StatusFits
  <2> QED
    BY <2>2 DEF Init, NoTurn, Abstract!Init
<1>2. Known /\ AccountInv /\ [Next]_vars => [Abstract!Next]_(Abstract!vars)
  BY StepMaps
<1> QED
  BY <1>1, <1>2, AccountInvariant, PTL DEF Spec, ImplementsConversationTurns, Abstract!Spec

-----------------------------------------------------------------------------
(* The permit of the semaphore.                                             *)

\* Settling gives the permit back exactly when a turn held it.
LEMMA SettleReturnsPermit ==
  ASSUME Known, PermitFollowsTurn, NEW next, Settle(next),
         frame.at \notin {"opening", "preparing"}
  PROVE  PermitFollowsTurn'
<1>0. Return(next) => frame'.at \in {"ready", "resuming"}
  <2>1. CASE Return(next) /\ next = "done"
    BY <2>1 DEF Return, Ready
  <2>2. CASE Return(next) /\ next # "done"
    <3>1. frame' = [Ready EXCEPT !.at = "resuming", !.then = next]
      BY <2>2 DEF Return
    <3> QED
      BY <3>1 DEF Ready
  <2> QED
    BY <2>1, <2>2
<1>1. frame'.at \notin {"opening", "preparing"}
  BY <1>0 DEF Settle, SettleNothing, CloseTurn, Dispatch, BeginTurn
<1>2. CASE SettleNothing(next)
  BY <1>1, <1>2 DEF SettleNothing, PermitFollowsTurn, Active
<1>3. CASE CloseTurn(next) /\ permits' = permits - 1
  BY <1>1, <1>3 DEF CloseTurn, PermitFollowsTurn, Active, NoTurn
<1> QED
  BY <1>2, <1>3 DEF Settle

\* Steps that touch neither the permits nor the turn, and whose handler is not
\* between the grant of a permit and the prompt.
LEMMA PermitKept ==
  ASSUME PermitFollowsTurn, UNCHANGED <<permits, turn>>,
         frame'.at \in {"opening", "preparing"} <=> frame.at \in {"opening", "preparing"}
  PROVE  PermitFollowsTurn'
BY DEF PermitFollowsTurn, Active

\* As long as sessions can be opened, the actor holds one permit from the grant to
\* the end of its turn and none otherwise: no cancel, rotation, removal, failed
\* prompt or failed abort leaks one or gives one back twice.  (A session that
\* cannot be opened does leak the permit of its turn.)
THEOREM PermitsFollowTurns ==
  ASSUME "open_failure" \notin Allowed
  PROVE  Spec => []PermitFollowsTurn
<1>1. Init => PermitFollowsTurn
  BY DEF Init, PermitFollowsTurn, Active, NoTurn, Ready
<1>2. Known /\ PermitFollowsTurn /\ [Next]_vars => PermitFollowsTurn'
  <2> SUFFICES ASSUME Known, PermitFollowsTurn, [Next]_vars PROVE PermitFollowsTurn'
    OBVIOUS
  <2>1. CASE TakeSettle \/ AbortReturns \/ AbortFails
    BY <2>1, SettleReturnsPermit DEF TakeSettle, Take, AbortReturns, AbortFails
  <2>2. CASE GrantPermit
    <3>1. ~Active /\ frame.at = "acquiring"
      BY <2>2 DEF GrantPermit, Known, ActorInv, FramesOK
    <3>2. frame'.at \in {"opening", "preparing"} /\ permits' = permits + 1 /\ turn' = turn
      BY <2>2 DEF GrantPermit, Known, ActorInv, TypeOK, ActorTypeOK, FrameType
    <3> QED
      BY <3>1, <3>2 DEF PermitFollowsTurn, Active
  <2>3. CASE OpenSucceeds
    BY <2>3, PermitKept DEF OpenSucceeds, Known, ActorInv, TypeOK, ActorTypeOK, FrameType
  <2>4. CASE PromptStarts
    <3>1. /\ frame.at = "preparing" /\ permits' = permits
          /\ turn'.trigger = frame.event /\ frame.event # None
      BY <2>4 DEF PromptStarts, Known, ActorInv, FramesOK
    <3> QED
      BY <3>1 DEF PermitFollowsTurn, Active
  <2>5. CASE SteerAccepted
    <3>1. turn'.trigger = turn.trigger
      BY <2>5 DEF SteerAccepted, Known, ActorInv, TypeOK, ActorTypeOK, TurnType
    <3> QED
      BY <2>5, <3>1 DEF SteerAccepted, Ready, PermitFollowsTurn, Active
  <2>6. ~OpenFails
    BY DEF OpenFails, Spend
  <2>7. CASE TakeStartsTurn \/ TakeQueues \/ TakeSteers \/ TakeSteerCollides \/ SteerRejected
             \/ TakeMessageEnd \/ TakeAgentEnd \/ TakeStaleSettle
    BY <2>7, PermitKept DEF TakeStartsTurn, BeginTurn, TakeQueues, TakeSteers,
       TakeSteerCollides, SteerRejected, TakeMessageEnd, TakeAgentEnd, TakeStaleSettle,
       Take, Ready
  <2>8. ASSUME NEW kind \in Control, TakeControl(kind) PROVE PermitFollowsTurn'
    <3>1. frame.at = "ready" /\ UNCHANGED <<permits, turn>>
      BY <2>8 DEF TakeControl, Take
    <3>2. PICK next \in {"done", "rotate", "close"} :
            \/ frame' = [Ready EXCEPT !.at = "aborting", !.then = next]
            \/ Return(next)
      BY <2>8 DEF TakeControl, Control
    <3>3. frame'.at \in {"aborting", "ready", "resuming"}
      <4>1. CASE frame' = [Ready EXCEPT !.at = "aborting", !.then = next]
        BY <4>1 DEF Ready
      <4>2. CASE Return(next)
        BY <4>2, ReturnType
      <4> QED
        BY <3>2, <4>1, <4>2
    <3> QED
      BY <3>1, <3>3, PermitKept
  <2>9. CASE RotateResumes \/ RotateReleases \/ CloseResumes
    BY <2>9, PermitKept DEF RotateResumes, RotateReleases, CloseResumes, Ready
  <2>10. CASE Pi
    BY <2>10, PermitKept DEF Pi, PiEmits, PiSettles, TrailingSettles, PromptFails
  <2>11. CASE \/ (\E e \in Events : Submit(e)) \/ WatchFires \/ OwnerCancels \/ PostRotate
              \/ PostClose \/ RemoveReleases \/ ConfigPush \/ UNCHANGED vars
    BY <2>11, PermitKept DEF Submit, WatchFires, OwnerCancels, PostRotate, PostClose,
       PostOnly, RemoveReleases, ConfigPush, vars
  <2> QED
    BY <2>1, <2>2, <2>3, <2>4, <2>5, <2>6, <2>7, <2>8, <2>9, <2>10, <2>11
       DEF Next, Pump, Environment
<1> QED
  BY <1>1, <1>2, AccountInvariant, PTL DEF Spec

-----------------------------------------------------------------------------
(* The runs of Pi.                                                          *)

\* The positions of the agent_settled messages of a mailbox.
Settles(q) == {i \in DOMAIN q : q[i].kind = "agent_settled"}

\* The aborted runs whose agent_settled is still to come, each by its session
\* and its place among the aborted runs of that session.
Owed == UNION {{k} \X DOMAIN trailing[k] : k \in Keys}

\* The run of the active turn has ended, or never began.
RunOver == Active /\ \A k \in Keys : live[k] = None

\* Every agent_settled on its way but one is discounted by staleSettles, and the
\* one is that of a turn whose run is over.
SettlesCounted ==
  /\ IsFiniteSet(Owed)
  /\ Cardinality(Settles(mailbox)) + Cardinality(Owed)
       <= staleSettles + (IF RunOver THEN 1 ELSE 0)

\* Only a session of the registry runs or owes anything.
RegistryRuns ==
  \A k \in Keys : live[k] # None \/ trailing[k] # <<>> => k \in registry

\* The actor listens to the session that runs, except while a rotation disposes it.
RunIsHeard ==
  \A k \in Keys : live[k] # None => session = k \/ frame.at = "releasing"

RunInv == SettlesCounted /\ RegistryRuns /\ RunIsHeard /\ OneRun

\* Appending to a mailbox adds at most the message appended.
LEMMA SettlesAppend ==
  ASSUME NEW q \in Seq(MessageType), NEW m \in MessageType
  PROVE  /\ IsFiniteSet(Settles(q)) /\ IsFiniteSet(Settles(Append(q, m)))
         /\ Cardinality(Settles(q)) \in Nat
         /\ Cardinality(Settles(Append(q, m)))
              = Cardinality(Settles(q)) + (IF m.kind = "agent_settled" THEN 1 ELSE 0)
<1>1. /\ DOMAIN q = 1 .. Len(q) /\ Len(q) \in Nat
      /\ DOMAIN Append(q, m) = 1 .. Len(q) + 1
      /\ \A i \in 1 .. Len(q) : Append(q, m)[i] = q[i]
      /\ Append(q, m)[Len(q) + 1] = m
  OBVIOUS
<1>2. IsFiniteSet(Settles(q)) /\ Cardinality(Settles(q)) \in Nat
  <2>1. IsFiniteSet(1 .. Len(q))
    BY <1>1, FS_Interval
  <2>2. Settles(q) \in SUBSET (1 .. Len(q))
    BY <1>1 DEF Settles
  <2> QED
    BY <2>1, <2>2, FS_Subset, FS_CardinalityType
<1>3. Len(q) + 1 \notin Settles(q)
  BY <1>1 DEF Settles
<1>4. \A i : i \in 1 .. Len(q) + 1 <=> i \in 1 .. Len(q) \/ i = Len(q) + 1
  BY <1>1
<1>5. CASE m.kind = "agent_settled"
  <2>1. Settles(Append(q, m)) = Settles(q) \cup {Len(q) + 1}
    BY <1>1, <1>4, <1>5 DEF Settles
  <2> QED
    BY <1>2, <1>3, <1>5, <2>1, FS_AddElement
<1>6. CASE m.kind # "agent_settled"
  <2>1. Settles(Append(q, m)) = Settles(q)
    <3>1. \A i \in 1 .. Len(q) + 1 :
            Append(q, m)[i].kind = "agent_settled"
              <=> i \in 1 .. Len(q) /\ q[i].kind = "agent_settled"
      BY <1>1, <1>4, <1>6
    <3> QED
      BY <1>1, <1>4, <3>1 DEF Settles
  <2> QED
    BY <1>2, <1>6, <2>1
<1> QED
  BY <1>5, <1>6

\* Taking the head of a mailbox removes at most that message.
LEMMA SettlesTail ==
  ASSUME NEW q \in Seq(MessageType), q # <<>>
  PROVE  /\ IsFiniteSet(Settles(q)) /\ IsFiniteSet(Settles(Tail(q)))
         /\ Cardinality(Settles(Tail(q))) \in Nat
         /\ Cardinality(Settles(q)) = Cardinality(Settles(Tail(q)))
              + (IF Head(q).kind = "agent_settled" THEN 1 ELSE 0)
<1> DEFINE S == Settles(q) \ {1}
           T == Settles(Tail(q))
           f == [i \in S |-> i - 1]
<1>1. /\ DOMAIN q = 1 .. Len(q) /\ Len(q) \in Nat \ {0}
      /\ DOMAIN Tail(q) = 1 .. Len(q) - 1
      /\ \A i \in 1 .. Len(q) - 1 : Tail(q)[i] = q[i + 1]
      /\ Head(q) = q[1]
  OBVIOUS
<1>2. IsFiniteSet(Settles(q))
  <2>1. IsFiniteSet(1 .. Len(q))
    BY <1>1, FS_Interval
  <2>2. Settles(q) \in SUBSET (1 .. Len(q))
    BY <1>1 DEF Settles
  <2> QED
    BY <2>1, <2>2, FS_Subset
<1>3. f \in Bijection(S, T)
  <2>1. \A i \in S : i \in Int /\ i - 1 \in T
    <3> SUFFICES ASSUME NEW i \in S PROVE i \in Int /\ i - 1 \in T
      OBVIOUS
    <3>1. i \in 1 .. Len(q) /\ i # 1 /\ q[i].kind = "agent_settled"
      BY <1>1 DEF Settles
    <3>2. i \in Int /\ i - 1 \in 1 .. Len(q) - 1 /\ (i - 1) + 1 = i
      BY <1>1, <3>1
    <3> QED
      BY <1>1, <3>1, <3>2 DEF Settles
  <2>2. \A j \in T : j + 1 \in S /\ (j + 1) - 1 = j
    <3> SUFFICES ASSUME NEW j \in T PROVE j + 1 \in S /\ (j + 1) - 1 = j
      OBVIOUS
    <3>1. j \in 1 .. Len(q) - 1 /\ Tail(q)[j].kind = "agent_settled"
      BY <1>1 DEF Settles
    <3>2. j + 1 \in 1 .. Len(q) /\ j + 1 # 1 /\ (j + 1) - 1 = j
      BY <1>1, <3>1
    <3> QED
      BY <1>1, <3>1, <3>2 DEF Settles
  <2> HIDE DEF S, T
  <2>3. \A i, j \in S : i - 1 = j - 1 => i = j
    BY <2>1
  <2>4. f \in [S -> T]
    BY <2>1
  <2>5. f \in Injection(S, T)
    BY <2>3, <2>4 DEF Injection, IsInjective
  <2>6. f \in Surjection(S, T)
    BY <2>2, <2>4 DEF Surjection
  <2> QED
    BY <2>5, <2>6 DEF Bijection
<1>4. IsFiniteSet(S)
  BY <1>2, FS_RemoveElement
<1>5. IsFiniteSet(T) /\ Cardinality(T) = Cardinality(S) /\ Cardinality(T) \in Nat
  <2> HIDE DEF S, T, f
  <2>1. ExistsBijection(S, T)
    BY <1>3 DEF ExistsBijection
  <2> QED
    BY <1>4, <2>1, FS_Bijection, FS_CardinalityType
<1>6. 1 \in Settles(q) <=> Head(q).kind = "agent_settled"
  BY <1>1 DEF Settles
<1>7. Cardinality(S) = IF 1 \in Settles(q) THEN Cardinality(Settles(q)) - 1
                       ELSE Cardinality(Settles(q))
  BY <1>2, FS_RemoveElement
<1>8. Cardinality(Settles(q)) \in Nat
  BY <1>2, FS_CardinalityType
<1> QED
  BY <1>2, <1>5, <1>6, <1>7, <1>8

\* One more aborted run owes its agent_settled.
LEMMA OwedAppend ==
  ASSUME trailing \in [Keys -> Seq(Events)], NEW k \in Keys, NEW e \in Events,
         trailing' = [trailing EXCEPT ![k] = Append(@, e)],
         IsFiniteSet(Owed)
  PROVE  /\ IsFiniteSet(Owed')
         /\ Cardinality(Owed') = Cardinality(Owed) + 1
<1> DEFINE n == Len(trailing[k]) + 1
<1>1. /\ trailing[k] \in Seq(Events) /\ trailing'[k] = Append(trailing[k], e)
      /\ \A j \in Keys : j # k => trailing'[j] = trailing[j]
  OBVIOUS
<1>2. DOMAIN trailing'[k] = DOMAIN trailing[k] \cup {n} /\ n \notin DOMAIN trailing[k]
  <2>1. \A s \in Seq(Events) :
          DOMAIN Append(s, e) = DOMAIN s \cup {Len(s) + 1} /\ Len(s) + 1 \notin DOMAIN s
    <3> TAKE s \in Seq(Events)
    <3>1. /\ DOMAIN Append(s, e) = 1 .. Len(s) + 1
          /\ DOMAIN s = 1 .. Len(s) /\ Len(s) \in Nat
      OBVIOUS
    <3> QED
      BY <3>1
  <2> QED
    BY <1>1, <2>1
<1> HIDE DEF n
<1>3. Owed' = Owed \cup {<<k, n>>} /\ <<k, n>> \notin Owed
  BY <1>1, <1>2 DEF Owed
<1> QED
  BY <1>3, FS_AddElement

\* One of the aborted runs reports.
LEMMA OwedTail ==
  ASSUME trailing \in [Keys -> Seq(Events)], NEW k \in Keys, trailing[k] # <<>>,
         trailing' = [trailing EXCEPT ![k] = Tail(@)],
         IsFiniteSet(Owed)
  PROVE  /\ IsFiniteSet(Owed')
         /\ Cardinality(Owed') = Cardinality(Owed) - 1
<1> DEFINE n == Len(trailing[k])
<1>1. /\ trailing[k] \in Seq(Events) /\ trailing'[k] = Tail(trailing[k])
      /\ \A j \in Keys : j # k => trailing'[j] = trailing[j]
  OBVIOUS
<1>2. DOMAIN trailing'[k] = DOMAIN trailing[k] \ {n} /\ n \in DOMAIN trailing[k]
  <2>1. \A s \in Seq(Events) : s # <<>> =>
          DOMAIN Tail(s) = DOMAIN s \ {Len(s)} /\ Len(s) \in DOMAIN s
    <3> SUFFICES ASSUME NEW s \in Seq(Events), s # <<>>
                 PROVE  DOMAIN Tail(s) = DOMAIN s \ {Len(s)} /\ Len(s) \in DOMAIN s
      OBVIOUS
    <3>1. /\ DOMAIN Tail(s) = 1 .. Len(s) - 1
          /\ DOMAIN s = 1 .. Len(s) /\ Len(s) \in Nat \ {0}
      OBVIOUS
    <3> QED
      BY <3>1
  <2> QED
    BY <1>1, <2>1
<1> HIDE DEF n
<1>3. Owed' = Owed \ {<<k, n>>} /\ <<k, n>> \in Owed
  BY <1>1, <1>2 DEF Owed
<1> QED
  BY <1>3, FS_RemoveElement

\* The number of agent_settled messages in the mailbox.
SettlesWaiting == Cardinality(Settles(mailbox))

\* It is a number, whatever is in the mailbox.
LEMMA SettlesType ==
  ASSUME mailbox \in Seq(MessageType)
  PROVE  SettlesWaiting \in Nat
<1>1. Message("cancel", None) \in MessageType
  BY MessageTypes DEF Control
<1> QED
  BY <1>1, SettlesAppend DEF SettlesWaiting

\* Posting an agent_settled adds one unless the actor is closed; any other message
\* adds none.
LEMMA PostSettles ==
  ASSUME mailbox \in Seq(MessageType), NEW m \in MessageType,
         mailbox' \in {mailbox, Append(mailbox, m)}
  PROVE  /\ SettlesWaiting \in Nat /\ SettlesWaiting' \in Nat
         /\ SettlesWaiting' <= SettlesWaiting + (IF m.kind = "agent_settled" THEN 1 ELSE 0)
<1>1. /\ SettlesWaiting \in Nat
      /\ Cardinality(Settles(Append(mailbox, m)))
           = SettlesWaiting + (IF m.kind = "agent_settled" THEN 1 ELSE 0)
  BY SettlesAppend DEF SettlesWaiting
<1>2. SettlesWaiting' \in {SettlesWaiting, Cardinality(Settles(Append(mailbox, m)))}
  BY DEF SettlesWaiting
<1> QED
  BY <1>1, <1>2

\* Taking an agent_settled removes one, taking any other message none.
LEMMA TakeSettles ==
  ASSUME mailbox \in Seq(MessageType), NEW kind, Take(kind)
  PROVE  /\ SettlesWaiting \in Nat /\ SettlesWaiting' \in Nat
         /\ SettlesWaiting' = SettlesWaiting - (IF kind = "agent_settled" THEN 1 ELSE 0)
<1>1. mailbox # <<>> /\ Head(mailbox).kind = kind /\ mailbox' = Tail(mailbox)
  BY DEF Take
<1>2. SettlesWaiting' = Cardinality(Settles(Tail(mailbox)))
  BY <1>1 DEF SettlesWaiting
<1>3. /\ Cardinality(Settles(Tail(mailbox))) \in Nat
      /\ Cardinality(Settles(mailbox)) = Cardinality(Settles(Tail(mailbox)))
           + (IF Head(mailbox).kind = "agent_settled" THEN 1 ELSE 0)
  BY <1>1, SettlesTail
<1>4. SettlesWaiting = Cardinality(Settles(mailbox))
  BY DEF SettlesWaiting
<1> QED
  BY <1>1, <1>2, <1>3, <1>4

\* Steps that touch neither the sessions nor the turn.
LEMMA RunKept ==
  ASSUME RunInv, SettlesWaiting \in Nat, SettlesWaiting' \in Nat,
         SettlesWaiting' <= SettlesWaiting,
         UNCHANGED <<session, staleSettles, registry, live, trailing>>,
         staleSettles \in Nat,
         turn'.trigger = turn.trigger,
         frame.at = "releasing" => frame'.at = "releasing"
  PROVE  RunInv'
<1>1. Owed' = Owed /\ (RunOver' <=> RunOver)
  BY DEF Owed, RunOver, Active
<1>2. Cardinality(Owed) \in Nat
  BY FS_CardinalityType DEF RunInv, SettlesCounted
<1>3. SettlesCounted'
  <2>1. IsFiniteSet(Owed') /\ Cardinality(Owed') = Cardinality(Owed)
    BY <1>1 DEF RunInv, SettlesCounted
  <2>2. /\ SettlesWaiting + Cardinality(Owed) <= staleSettles + (IF RunOver THEN 1 ELSE 0)
        /\ SettlesWaiting' + Cardinality(Owed)' <= SettlesWaiting + Cardinality(Owed)
    BY <1>1, <1>2 DEF RunInv, SettlesCounted, SettlesWaiting
  <2>3. SettlesWaiting' + Cardinality(Owed)' <= staleSettles' + (IF RunOver' THEN 1 ELSE 0)
    BY <1>1, <1>2, <2>1, <2>2
  <2> QED
    BY <2>1, <2>3 DEF SettlesCounted, SettlesWaiting
<1>4. RegistryRuns' /\ RunIsHeard' /\ OneRun'
  BY DEF RunInv, RegistryRuns, RunIsHeard, OneRun
<1> QED
  BY <1>3, <1>4 DEF RunInv

\* What a session that runs tells: it is the active turn's, and no agent_settled is
\* on its way that staleSettles does not discount.
LEMMA RunsBelongToTurn ==
  ASSUME RunInv, Known, NEW k \in Keys, live[k] # None
  PROVE  /\ Active /\ ~RunOver
         /\ \A j \in Keys : j # k => live[j] = None
BY DEF RunInv, OneRun, RunOver, Active

\* The end of a run, whoever ends it, is the end of the active turn's run.
LEMMA RunEnds ==
  ASSUME RunInv, Known, NEW k \in Keys, live[k] # None,
         live' = [live EXCEPT ![k] = None], turn' = turn
  PROVE  /\ RunOver' /\ ~RunOver
         /\ RunIsHeard' /\ OneRun'
<1>1. /\ Active /\ ~RunOver
      /\ \A j \in Keys : j # k => live[j] = None
  BY RunsBelongToTurn
<1>2. \A j \in Keys : live'[j] = None
  BY <1>1 DEF Known, ActorInv, TypeOK, PiTypeOK
<1> QED
  BY <1>1, <1>2 DEF RunOver, Active, RunIsHeard, OneRun

\* Disposing sessions, the one that runs among them or not.
LEMMA DisposeRuns ==
  ASSUME RunInv, Known, NEW S \in SUBSET registry, Dispose(S),
         UNCHANGED <<turn, staleSettles, mailbox>>,
         S = registry \/ ((\A k \in S : live[k] = None) /\ UNCHANGED <<session, frame>>)
  PROVE  RunInv'
<1>1. /\ registry' = registry \ S
      /\ \A k \in Keys : live'[k] = IF k \in S THEN None ELSE live[k]
      /\ \A k \in Keys : trailing'[k] = IF k \in S THEN <<>> ELSE trailing[k]
  BY DEF Dispose
<1>2. Owed' \in SUBSET Owed
  BY <1>1 DEF Owed
<1>3. /\ IsFiniteSet(Owed') /\ Cardinality(Owed') \in Nat
      /\ Cardinality(Owed) \in Nat /\ Cardinality(Owed') <= Cardinality(Owed)
  BY <1>2, FS_Subset, FS_CardinalityType DEF RunInv, SettlesCounted
<1>4. RunOver => RunOver'
  BY <1>1 DEF RunOver, Active
<1>5. SettlesWaiting \in Nat /\ SettlesWaiting' = SettlesWaiting /\ staleSettles \in Nat
  <2>1. mailbox \in Seq(MessageType) /\ staleSettles \in Nat
    BY DEF Known, ActorInv, TypeOK, ActorTypeOK
  <2> QED
    BY <2>1, SettlesType DEF SettlesWaiting
<1>6. SettlesWaiting + Cardinality(Owed) <= staleSettles + (IF RunOver THEN 1 ELSE 0)
  BY DEF RunInv, SettlesCounted, SettlesWaiting
<1>7. SettlesWaiting' + Cardinality(Owed') <= staleSettles' + (IF RunOver' THEN 1 ELSE 0)
  BY <1>3, <1>4, <1>5, <1>6
<1>8. SettlesCounted'
  BY <1>3, <1>7 DEF SettlesCounted, SettlesWaiting
<1>9. RegistryRuns'
  BY <1>1 DEF RunInv, RegistryRuns
<1>10. RunIsHeard' /\ OneRun'
  <2>1. CASE S = registry
    BY <1>1, <2>1 DEF RunInv, RegistryRuns, RunIsHeard, OneRun
  <2>2. CASE (\A k \in S : live[k] = None) /\ UNCHANGED <<session, frame>>
    <3>1. \A k \in Keys : live'[k] = live[k]
      BY <1>1, <2>2
    <3> QED
      BY <2>2, <3>1 DEF RunInv, RunIsHeard, OneRun
  <2> QED
    BY <2>1, <2>2
<1> QED
  BY <1>8, <1>9, <1>10 DEF RunInv

\* abort() resolves: the run it ended owes its agent_settled, staleSettles discounts
\* one more, and the turn is closed.
LEMMA AbortRuns ==
  ASSUME RunInv, Known, AbortReturns
  PROVE  RunInv'
<1>1. /\ frame.at = "aborting" /\ Active /\ session \in Keys
      /\ frame.then \in {"done", "rotate", "close"}
      /\ live \in [Keys -> Events \cup {None}]
      /\ trailing \in [Keys -> Seq(Events)]
      /\ mailbox \in Seq(MessageType) /\ staleSettles \in Nat
  BY DEF AbortReturns, Known, ActorInv, TypeOK, ActorTypeOK, PiTypeOK, FramesOK, FrameType
<1>2. /\ live' = [live EXCEPT ![session] = None]
      /\ trailing' = IF live[session] = None THEN trailing
                     ELSE [trailing EXCEPT ![session] = Append(@, live[session])]
      /\ staleSettles' = staleSettles + 1
      /\ UNCHANGED <<mailbox, session, registry>>
  BY DEF AbortReturns
<1>3. ~Active'
  BY <1>1, SettleType DEF AbortReturns, Known
<1>4. \A k \in Keys : live'[k] = None
  BY <1>1, <1>2 DEF RunInv, RunIsHeard
<1>5. RunIsHeard' /\ OneRun'
  BY <1>4 DEF RunIsHeard, OneRun
<1>6. ~RunOver' /\ (RunOver <=> live[session] = None)
  BY <1>1, <1>2, <1>3, <1>4 DEF RunOver
<1>7. /\ SettlesWaiting \in Nat /\ SettlesWaiting' = SettlesWaiting
      /\ IsFiniteSet(Owed) /\ Cardinality(Owed) \in Nat
      /\ SettlesWaiting + Cardinality(Owed) <= staleSettles + (IF RunOver THEN 1 ELSE 0)
  BY <1>1, <1>2, SettlesType, FS_CardinalityType DEF SettlesWaiting, RunInv, SettlesCounted
<1>8. /\ IsFiniteSet(Owed')
      /\ Cardinality(Owed') = Cardinality(Owed) + (IF RunOver THEN 0 ELSE 1)
  <2>1. CASE live[session] = None
    <3>1. Owed' = Owed
      BY <1>2, <2>1 DEF Owed
    <3> QED
      BY <1>6, <1>7, <2>1, <3>1
  <2>2. CASE live[session] # None
    <3>1. live[session] \in Events
      BY <1>1, <2>2
    <3>2. trailing' = [trailing EXCEPT ![session] = Append(@, live[session])]
      BY <1>2, <2>2
    <3> QED
      BY <1>1, <1>6, <1>7, <2>2, <3>1, <3>2, OwedAppend
  <2> QED
    BY <2>1, <2>2
<1>9. SettlesWaiting' + Cardinality(Owed') <= staleSettles' + (IF RunOver' THEN 1 ELSE 0)
  BY <1>1, <1>2, <1>6, <1>7, <1>8
<1>10. RegistryRuns'
  <2> SUFFICES ASSUME NEW k \in Keys, trailing'[k] # <<>> PROVE k \in registry
    BY <1>2, <1>4 DEF RegistryRuns
  <2>1. CASE k = session /\ live[session] # None
    BY <2>1 DEF RunInv, RegistryRuns
  <2>2. CASE ~(k = session /\ live[session] # None)
    <3>1. trailing'[k] = trailing[k]
      BY <1>1, <1>2, <2>2
    <3> QED
      BY <3>1 DEF RunInv, RegistryRuns
  <2> QED
    BY <2>1, <2>2
<1> QED
  BY <1>5, <1>8, <1>9, <1>10 DEF RunInv, SettlesCounted, SettlesWaiting

\* The agent_settled that nothing discounts is that of the active turn, whose run is
\* over: closing the turn leaves nothing running and nothing owed.
LEMMA SettleRuns ==
  ASSUME RunInv, Known, TakeSettle
  PROVE  RunInv'
<1>1. /\ mailbox \in Seq(MessageType)
      /\ staleSettles = 0 /\ Take("agent_settled") /\ frame.at = "ready"
      /\ Settle("done")
      /\ UNCHANGED <<session, staleSettles, registry, live, trailing>>
  BY DEF TakeSettle, Take, pi, Known, ActorInv, TypeOK, ActorTypeOK
<1>2. /\ SettlesWaiting \in Nat /\ SettlesWaiting' \in Nat
      /\ SettlesWaiting' = SettlesWaiting - 1
  BY <1>1, TakeSettles
<1>3. /\ IsFiniteSet(Owed) /\ Cardinality(Owed) \in Nat
      /\ SettlesWaiting + Cardinality(Owed) <= staleSettles + (IF RunOver THEN 1 ELSE 0)
  BY FS_CardinalityType DEF SettlesWaiting, RunInv, SettlesCounted
<1>4. RunOver /\ SettlesWaiting' + Cardinality(Owed) = 0
  BY <1>1, <1>2, <1>3
<1>5. Owed' = Owed
  BY <1>1 DEF Owed
<1>6. SettlesCounted'
  <2>1. SettlesWaiting' + Cardinality(Owed') <= staleSettles' + (IF RunOver' THEN 1 ELSE 0)
    BY <1>1, <1>4, <1>5
  <2> QED
    BY <1>3, <1>5, <2>1 DEF SettlesCounted, SettlesWaiting
<1>7. RegistryRuns' /\ RunIsHeard' /\ OneRun'
  BY <1>1, <1>4 DEF RunOver, RunInv, RegistryRuns, RunIsHeard, OneRun
<1> QED
  BY <1>6, <1>7 DEF RunInv

\* An agent_settled that staleSettles discounts.
LEMMA StaleSettleRuns ==
  ASSUME RunInv, Known, TakeStaleSettle
  PROVE  RunInv'
<1>1. /\ mailbox \in Seq(MessageType) /\ staleSettles \in Nat
      /\ staleSettles' = staleSettles - 1 /\ Take("agent_settled")
      /\ UNCHANGED <<frame, turn, session, registry, live, trailing>>
  BY DEF TakeStaleSettle, pi, Known, ActorInv, TypeOK, ActorTypeOK
<1>2. /\ SettlesWaiting \in Nat /\ SettlesWaiting' \in Nat
      /\ SettlesWaiting' = SettlesWaiting - 1
  BY <1>1, TakeSettles
<1>3. /\ IsFiniteSet(Owed) /\ Cardinality(Owed) \in Nat
      /\ SettlesWaiting + Cardinality(Owed) <= staleSettles + (IF RunOver THEN 1 ELSE 0)
  BY FS_CardinalityType DEF SettlesWaiting, RunInv, SettlesCounted
<1>4. Owed' = Owed /\ (RunOver' <=> RunOver)
  BY <1>1 DEF Owed, RunOver, Active
<1>5. SettlesCounted'
  <2>1. SettlesWaiting' + Cardinality(Owed') <= staleSettles' + (IF RunOver' THEN 1 ELSE 0)
    BY <1>1, <1>2, <1>3, <1>4
  <2> QED
    BY <1>3, <1>4, <2>1 DEF SettlesCounted, SettlesWaiting
<1>6. RegistryRuns' /\ RunIsHeard' /\ OneRun'
  BY <1>1 DEF RunInv, RegistryRuns, RunIsHeard, OneRun
<1> QED
  BY <1>5, <1>6 DEF RunInv

\* prompt() starts the run of a turn while no other runs.
LEMMA PromptRuns ==
  ASSUME RunInv, Known, PromptStarts
  PROVE  RunInv'
<1>1. /\ frame.at = "preparing" /\ ~Active /\ session \in Keys
      /\ frame.event \in Events /\ frame.event # None
      /\ mailbox \in Seq(MessageType) /\ staleSettles \in Nat
      /\ live \in [Keys -> Events \cup {None}]
  BY DEF PromptStarts, Known, ActorInv, TypeOK, ActorTypeOK, PiTypeOK, FramesOK, FrameType
<1>2. \A k \in Keys : live[k] = None
  BY <1>1 DEF RunInv, OneRun, Active
<1>3. /\ turn'.trigger = frame.event
      /\ live' = IF session \notin registry THEN live
                 ELSE [live EXCEPT ![session] = frame.event]
      /\ mailbox' = mailbox
      /\ UNCHANGED <<session, staleSettles, registry, trailing>>
  BY <1>1, <1>2 DEF PromptStarts
<1>4. \A k \in Keys : live'[k] # None =>
        k = session /\ k \in registry /\ live'[k] = turn'.trigger
  BY <1>1, <1>2, <1>3
<1>5. RegistryRuns' /\ RunIsHeard' /\ OneRun'
  BY <1>3, <1>4 DEF RunInv, RegistryRuns, RunIsHeard, OneRun
<1>6. SettlesCounted'
  <2>1. Owed' = Owed /\ ~RunOver
    BY <1>1, <1>3 DEF Owed, RunOver
  <2>2. /\ IsFiniteSet(Owed) /\ Cardinality(Owed) \in Nat
        /\ SettlesWaiting + Cardinality(Owed) <= staleSettles
    BY <1>1, <2>1, FS_CardinalityType DEF SettlesWaiting, RunInv, SettlesCounted
  <2>3. SettlesWaiting \in Nat /\ SettlesWaiting' = SettlesWaiting
    BY <1>1, <1>3, SettlesType DEF SettlesWaiting
  <2>4. SettlesWaiting' + Cardinality(Owed') <= staleSettles' + (IF RunOver' THEN 1 ELSE 0)
    BY <1>1, <1>3, <2>1, <2>2, <2>3
  <2> QED
    BY <2>1, <2>2, <2>4 DEF SettlesCounted, SettlesWaiting
<1> QED
  BY <1>5, <1>6 DEF RunInv

\* A run ends by itself, or because its prompt is rejected: it is the active turn's,
\* and at most one agent_settled is posted for it.
LEMMA EndRuns ==
  ASSUME RunInv, Known, NEW k \in Keys, PiSettles(k) \/ PromptFails(k)
  PROVE  RunInv'
<1>1. /\ live[k] # None /\ live' = [live EXCEPT ![k] = None]
      /\ UNCHANGED <<frame, turn, session, staleSettles, registry, trailing>>
  BY DEF PiSettles, PromptFails
<1>2. /\ mailbox \in Seq(MessageType) /\ staleSettles \in Nat
      /\ live \in [Keys -> Events \cup {None}]
  BY DEF Known, ActorInv, TypeOK, ActorTypeOK, PiTypeOK
<1>3. /\ SettlesWaiting \in Nat /\ SettlesWaiting' \in Nat
      /\ SettlesWaiting' <= SettlesWaiting + 1
  <2>1. CASE PiSettles(k)
    <3>1. Message("agent_settled", live[k]) \in MessageType
      BY <1>1, <1>2, MessageTypes DEF PiKinds
    <3>2. mailbox' \in {mailbox, Append(mailbox, Message("agent_settled", live[k]))}
      BY <2>1 DEF PiSettles, Emit, Post
    <3> QED
      BY <1>2, <3>1, <3>2, PostSettles
  <2>2. CASE PromptFails(k)
    <3>1. Message("cancel", None) \in MessageType
      BY MessageTypes DEF Control
    <3>2. mailbox' \in {mailbox, Append(mailbox, Message("cancel", None))}
      BY <2>2 DEF PromptFails, Post
    <3> QED
      BY <1>2, <3>1, <3>2, PostSettles
  <2> QED
    BY <2>1, <2>2
<1>4. RunOver' /\ ~RunOver /\ RunIsHeard' /\ OneRun'
  BY <1>1, RunEnds
<1>5. SettlesCounted'
  <2>1. Owed' = Owed
    BY <1>1 DEF Owed
  <2>2. /\ IsFiniteSet(Owed) /\ Cardinality(Owed) \in Nat
        /\ SettlesWaiting + Cardinality(Owed) <= staleSettles
    BY <1>2, <1>4, FS_CardinalityType DEF SettlesWaiting, RunInv, SettlesCounted
  <2>3. SettlesWaiting' + Cardinality(Owed') <= staleSettles' + (IF RunOver' THEN 1 ELSE 0)
    BY <1>1, <1>2, <1>3, <1>4, <2>1, <2>2
  <2> QED
    BY <2>1, <2>2, <2>3 DEF SettlesCounted, SettlesWaiting
<1>6. RegistryRuns'
  BY <1>1, <1>2 DEF RunInv, RegistryRuns
<1> QED
  BY <1>4, <1>5, <1>6 DEF RunInv

\* An aborted run reports: what was owed is now on its way, or unheard.
LEMMA TrailingRuns ==
  ASSUME RunInv, Known, NEW k \in Keys, TrailingSettles(k)
  PROVE  RunInv'
<1>1. /\ trailing[k] # <<>> /\ trailing' = [trailing EXCEPT ![k] = Tail(@)]
      /\ UNCHANGED <<frame, turn, session, staleSettles, registry, live>>
      /\ mailbox' \in {mailbox, Append(mailbox, Message("agent_settled", Head(trailing[k])))}
  BY DEF TrailingSettles, Emit, Post
<1>2. /\ mailbox \in Seq(MessageType) /\ staleSettles \in Nat
      /\ trailing \in [Keys -> Seq(Events)]
  BY DEF Known, ActorInv, TypeOK, ActorTypeOK, PiTypeOK
<1>3. Message("agent_settled", Head(trailing[k])) \in MessageType
  <2>1. trailing[k] \in Seq(Events)
    BY <1>2
  <2>2. Head(trailing[k]) \in Events
    BY <1>1, <2>1
  <2> QED
    BY <2>2, MessageTypes DEF PiKinds
<1>4. /\ SettlesWaiting \in Nat /\ SettlesWaiting' \in Nat
      /\ SettlesWaiting' <= SettlesWaiting + 1
  BY <1>1, <1>2, <1>3, PostSettles
<1>5. /\ IsFiniteSet(Owed) /\ Cardinality(Owed) \in Nat
      /\ SettlesWaiting + Cardinality(Owed) <= staleSettles + (IF RunOver THEN 1 ELSE 0)
  BY FS_CardinalityType DEF SettlesWaiting, RunInv, SettlesCounted
<1>6. IsFiniteSet(Owed') /\ Cardinality(Owed') = Cardinality(Owed) - 1
  BY <1>1, <1>2, <1>5, OwedTail
<1>7. RunOver' <=> RunOver
  BY <1>1 DEF RunOver, Active
<1>8. SettlesCounted'
  <2>1. SettlesWaiting' + Cardinality(Owed') <= staleSettles' + (IF RunOver' THEN 1 ELSE 0)
    BY <1>1, <1>2, <1>4, <1>5, <1>6, <1>7
  <2> QED
    BY <1>6, <2>1 DEF SettlesCounted, SettlesWaiting
<1>9. RegistryRuns' /\ RunIsHeard' /\ OneRun'
  BY <1>1, <1>2 DEF RunInv, RegistryRuns, RunIsHeard, OneRun
<1> QED
  BY <1>8, <1>9 DEF RunInv

\* A message other than agent_settled reaches the mailbox while a handler goes on.
LEMMA PostRuns ==
  ASSUME RunInv, Known, NEW m \in MessageType, m.kind # "agent_settled",
         mailbox' \in {mailbox, Append(mailbox, m)},
         UNCHANGED <<frame, turn, session, staleSettles, registry, live, trailing>>
  PROVE  RunInv'
<1>1. mailbox \in Seq(MessageType) /\ staleSettles \in Nat
  BY DEF Known, ActorInv, TypeOK, ActorTypeOK
<1>2. SettlesWaiting \in Nat /\ SettlesWaiting' \in Nat /\ SettlesWaiting' <= SettlesWaiting
  BY <1>1, PostSettles
<1> QED
  BY <1>1, <1>2, RunKept

\* A message other than agent_settled is taken, and no session is touched.
LEMMA TakeRuns ==
  ASSUME RunInv, Known, NEW kind, Take(kind), kind # "agent_settled",
         UNCHANGED <<turn, session, staleSettles, registry, live, trailing>>
  PROVE  RunInv'
<1>1. mailbox \in Seq(MessageType) /\ staleSettles \in Nat /\ frame.at = "ready"
  BY DEF Take, Known, ActorInv, TypeOK, ActorTypeOK
<1>2. SettlesWaiting \in Nat /\ SettlesWaiting' \in Nat /\ SettlesWaiting' <= SettlesWaiting
  BY <1>1, TakeSettles
<1> QED
  BY <1>1, <1>2, RunKept

\* The session may change while no turn is active, or for a rotation.
LEMMA SessionRuns ==
  ASSUME RunInv, Known,
         UNCHANGED <<mailbox, turn, staleSettles, live, trailing>>,
         registry \subseteq registry',
         ~Active \/ frame'.at = "releasing"
  PROVE  RunInv'
<1>1. SettlesCounted'
  BY DEF RunInv, SettlesCounted, Owed, RunOver, Active
<1>2. RegistryRuns' /\ OneRun'
  BY DEF RunInv, RegistryRuns, OneRun
<1>3. RunIsHeard'
  BY DEF RunInv, RunIsHeard, OneRun, Active
<1> QED
  BY <1>1, <1>2, <1>3 DEF RunInv

\* Each step keeps the invariant, unless it is the failure of an abort().
LEMMA NextRuns ==
  ASSUME Known, RunInv, [Next]_vars, ~AbortFails
  PROVE  RunInv'
<1>0. /\ mailbox \in Seq(MessageType) /\ staleSettles \in Nat
      /\ SettlesWaiting \in Nat
  BY SettlesType DEF Known, ActorInv, TypeOK, ActorTypeOK
<1>1. CASE TakeStartsTurn \/ TakeQueues \/ TakeSteers \/ TakeSteerCollides
  BY <1>1, TakeRuns DEF TakeStartsTurn, TakeQueues, TakeSteers, TakeSteerCollides, pi
<1>2. CASE SteerAccepted \/ SteerRejected
  <2>1. turn'.trigger = turn.trigger
    BY <1>2 DEF SteerAccepted, SteerRejected, Known, ActorInv, TypeOK, ActorTypeOK, TurnType
  <2>2. /\ frame.at = "steering"
        /\ UNCHANGED <<mailbox, session, staleSettles, registry, live, trailing>>
    BY <1>2 DEF SteerAccepted, SteerRejected, pi
  <2> QED
    BY <1>0, <2>1, <2>2, RunKept DEF SettlesWaiting
<1>3. CASE GrantPermit \/ OpenSucceeds
  <2>1. /\ ~Active
        /\ UNCHANGED <<mailbox, turn, staleSettles, live, trailing>>
        /\ registry \subseteq registry'
    BY <1>3 DEF GrantPermit, OpenSucceeds, pi, Known, ActorInv, FramesOK
  <2> QED
    BY <2>1, SessionRuns
<1>4. CASE PromptStarts
  BY <1>4, PromptRuns
<1>5. CASE TakeMessageEnd \/ TakeAgentEnd
  BY <1>5, TakeRuns DEF TakeMessageEnd, TakeAgentEnd, pi
<1>6. CASE TakeStaleSettle
  BY <1>6, StaleSettleRuns
<1>7. CASE TakeSettle
  BY <1>7, SettleRuns
<1>8. ASSUME NEW kind \in Control, TakeControl(kind) PROVE RunInv'
  BY <1>8, TakeRuns DEF TakeControl, Control, pi
<1>9. CASE AbortReturns
  BY <1>9, AbortRuns
<1>10. CASE RotateResumes
  BY <1>10, SessionRuns DEF RotateResumes, Ready, pi
<1>11. CASE RotateReleases \/ RemoveReleases
  BY <1>11, DisposeRuns DEF RotateReleases, RemoveReleases
<1>12. CASE CloseResumes
  <2>1. /\ frame.at = "resuming"
        /\ UNCHANGED <<mailbox, turn, session, staleSettles, registry, live, trailing>>
    BY <1>12 DEF CloseResumes, pi
  <2> QED
    BY <1>0, <2>1, RunKept DEF SettlesWaiting
<1>13. ASSUME NEW k \in Keys, NEW kind \in Reports, PiEmits(k, kind) PROVE RunInv'
  <2>1. Message(kind, live[k]) \in MessageType /\ Message(kind, live[k]).kind # "agent_settled"
    <3>1. live[k] \in Events /\ kind \in PiKinds /\ kind # "agent_settled"
      BY <1>13, ActorAssumption DEF PiEmits, PiKinds, Known, ActorInv, TypeOK, PiTypeOK
    <3> QED
      BY <3>1, MessageTypes DEF Message
  <2>2. /\ mailbox' \in {mailbox, Append(mailbox, Message(kind, live[k]))}
        /\ UNCHANGED <<frame, turn, session, staleSettles, registry, live, trailing>>
    BY <1>13 DEF PiEmits, Emit, Post
  <2> QED
    BY <2>1, <2>2, PostRuns
<1>14. ASSUME NEW k \in Keys, PiSettles(k) \/ PromptFails(k) PROVE RunInv'
  BY <1>14, EndRuns
<1>15. ASSUME NEW k \in Keys, TrailingSettles(k) PROVE RunInv'
  BY <1>15, TrailingRuns
<1>16. ASSUME NEW e \in Events, Submit(e) PROVE RunInv'
  <2>1. Message("inbound", e) \in MessageType /\ Message("inbound", e).kind # "agent_settled"
    BY MessageTypes DEF Message
  <2> QED
    BY <1>16, <2>1, PostRuns DEF Submit, Post, pi
<1>17. CASE WatchFires \/ OwnerCancels \/ PostRotate \/ PostClose
  <2>1. PICK kind \in Control : PostOnly(Message(kind, None))
    BY <1>17 DEF WatchFires, OwnerCancels, PostRotate, PostClose, Control
  <2>2. Message(kind, None) \in MessageType /\ Message(kind, None).kind # "agent_settled"
    BY MessageTypes DEF Message, Control
  <2> QED
    BY <2>1, <2>2, PostRuns DEF PostOnly, Post, pi
<1>18. CASE OpenFails
  <2>1. /\ frame.at = "opening"
        /\ UNCHANGED <<mailbox, turn, session, staleSettles, registry, live, trailing>>
    BY <1>18 DEF OpenFails, pi
  <2> QED
    BY <1>0, <2>1, RunKept DEF SettlesWaiting
<1>19. CASE ConfigPush
  BY <1>19, DisposeRuns DEF ConfigPush, Known, ActorInv, TypeOK, PiTypeOK
<1>20. CASE UNCHANGED vars
  BY <1>0, <1>20, RunKept DEF vars, pi, SettlesWaiting
<1> QED
  BY <1>1, <1>2, <1>3, <1>4, <1>5, <1>6, <1>7, <1>8, <1>9, <1>10, <1>11, <1>12, <1>13,
     <1>14, <1>15, <1>16, <1>17, <1>18, <1>19, <1>20
     DEF Next, Pump, Pi, Environment

\* In the beginning nothing runs, is owed or is on its way.
LEMMA InitRuns == Init => RunInv
<1> SUFFICES ASSUME Init PROVE RunInv
  OBVIOUS
<1>1. Owed = {} /\ Settles(mailbox) = {} /\ ~RunOver /\ staleSettles = 0
  BY DEF Init, Owed, Settles, RunOver, Active, NoTurn
<1>2. SettlesCounted
  BY <1>1, FS_EmptySet DEF SettlesCounted
<1> QED
  BY <1>2 DEF Init, RunInv, RegistryRuns, RunIsHeard, OneRun

\* The inductive invariant of the runs.
LEMMA RunsInvariant ==
  ASSUME "abort_failure" \notin Allowed
  PROVE  Spec => []RunInv
<1>1. Init => RunInv
  BY InitRuns
<1>2. Known /\ RunInv /\ [Next]_vars => RunInv'
  BY NextRuns DEF AbortFails, Spend
<1> QED
  BY <1>1, <1>2, AccountInvariant, PTL DEF Spec

\* As long as abort() succeeds, at most one run executes for the channel, and it is
\* that of the active turn, although turns are closed by messages that may be those
\* of earlier runs: staleSettles discounts every agent_settled of an aborted run,
\* before it or after it is posted.  (A failed abort leaves a run behind.)
THEOREM OneRunAtATime ==
  ASSUME "abort_failure" \notin Allowed
  PROVE  Spec => []OneRun
BY RunsInvariant, PTL DEF RunInv

-----------------------------------------------------------------------------
(* What the runs report.                                                    *)

NothingRuns == \A k \in Keys : live[k] = None

FromPi(m) == m.kind \in PiKinds

\* Whatever of Pi waits in the mailbox is of the active turn's run, which emitted it.
ReportsOfTurn ==
  \A i \in DOMAIN mailbox : FromPi(mailbox[i]) =>
    /\ Active /\ mailbox[i].event = turn.trigger
    /\ mailbox[i].kind # "agent_settled" => mailbox[i].kind \in emitted[turn.trigger]

\* The agent_settled is the last the run has to say.
SettleComesLast ==
  \A i \in DOMAIN mailbox : mailbox[i].kind = "agent_settled" =>
    /\ NothingRuns
    /\ \A j \in DOMAIN mailbox : FromPi(mailbox[j]) => j <= i

\* A cancel is that of a prompt that was rejected: there is one, the turn is still
\* active, and its run said nothing.
CancelIsOfPrompt ==
  \A i \in DOMAIN mailbox : mailbox[i].kind = "cancel" =>
    /\ Active /\ NothingRuns /\ frame.at # "aborting"
    /\ \A j \in DOMAIN mailbox :
         ~FromPi(mailbox[j]) /\ (mailbox[j].kind = "cancel" => j = i)

AbortFindsNothing ==
  frame.at = "aborting" =>
    NothingRuns /\ \A i \in DOMAIN mailbox : ~FromPi(mailbox[i])

\* Nobody rotates or removes the channel, and no run was aborted.
Undisturbed ==
  /\ \A i \in DOMAIN mailbox : mailbox[i].kind \notin {"rotate", "close"}
  /\ \A k \in Keys : trailing[k] = <<>>

ReportInv ==
  /\ ReportsOfTurn /\ SettleComesLast /\ CancelIsOfPrompt /\ AbortFindsNothing
  /\ Undisturbed /\ OutputsFollowTheirTurn

\* Steps that take at most the first message, and leave the turn to its run.
LEMMA ReportsTaken ==
  ASSUME ReportInv, NEW c \in Nat, DOMAIN mailbox' \subseteq Nat,
         \A i \in DOMAIN mailbox' : i + c \in DOMAIN mailbox /\ mailbox'[i] = mailbox[i + c],
         turn'.trigger = turn.trigger, emitted' = emitted,
         NothingRuns => NothingRuns',
         \A k \in Keys : trailing'[k] = <<>>,
         OutputsFollowTheirTurn', frame'.at # "aborting"
  PROVE  ReportInv'
<1>1. ReportsOfTurn'
  BY DEF ReportInv, ReportsOfTurn, FromPi, Active
<1>2. SettleComesLast'
  <2> SUFFICES ASSUME NEW i \in DOMAIN mailbox', mailbox'[i].kind = "agent_settled"
               PROVE  /\ NothingRuns'
                      /\ \A j \in DOMAIN mailbox' : FromPi(mailbox'[j]) => j <= i
    BY DEF SettleComesLast, FromPi
  <2>1. /\ NothingRuns
        /\ \A j \in DOMAIN mailbox : FromPi(mailbox[j]) => j <= i + c
    BY DEF ReportInv, SettleComesLast
  <2>2. ASSUME NEW j \in DOMAIN mailbox', FromPi(mailbox'[j]) PROVE j <= i
    <3>1. j + c <= i + c
      BY <2>1, <2>2
    <3> QED
      BY <3>1
  <2> QED
    BY <2>1, <2>2
<1>3. CancelIsOfPrompt'
  <2> SUFFICES ASSUME NEW i \in DOMAIN mailbox', mailbox'[i].kind = "cancel"
               PROVE  /\ Active' /\ NothingRuns'
                      /\ \A j \in DOMAIN mailbox' :
                           ~FromPi(mailbox'[j]) /\ (mailbox'[j].kind = "cancel" => j = i)
    BY DEF CancelIsOfPrompt, FromPi
  <2>1. /\ Active /\ NothingRuns
        /\ \A j \in DOMAIN mailbox :
             ~FromPi(mailbox[j]) /\ (mailbox[j].kind = "cancel" => j = i + c)
    BY DEF ReportInv, CancelIsOfPrompt
  <2>2. ASSUME NEW j \in DOMAIN mailbox'
        PROVE  ~FromPi(mailbox'[j]) /\ (mailbox'[j].kind = "cancel" => j = i)
    <3>1. ~FromPi(mailbox'[j]) /\ (mailbox'[j].kind = "cancel" => j + c = i + c)
      BY <2>1
    <3> QED
      BY <3>1
  <2> QED
    BY <2>1, <2>2 DEF Active
<1>4. AbortFindsNothing' /\ Undisturbed'
  BY DEF ReportInv, AbortFindsNothing, Undisturbed
<1> QED
  BY <1>1, <1>2, <1>3, <1>4 DEF ReportInv

\* Steps that leave the mailbox alone.
LEMMA ReportsKept ==
  ASSUME ReportInv, mailbox \in Seq(MessageType), mailbox' = mailbox,
         turn'.trigger = turn.trigger, emitted' = emitted,
         NothingRuns => NothingRuns',
         \A k \in Keys : trailing'[k] = <<>>,
         OutputsFollowTheirTurn',
         frame'.at = "aborting" => frame.at = "aborting"
  PROVE  ReportInv'
BY DEF ReportInv, ReportsOfTurn, SettleComesLast, CancelIsOfPrompt, AbortFindsNothing,
   Undisturbed, FromPi, Active

\* With nothing but inbound events in the mailbox nothing is claimed of the turn.
LEMMA ReportsNone ==
  ASSUME \A i \in DOMAIN mailbox' : mailbox'[i].kind = "inbound",
         \A k \in Keys : trailing'[k] = <<>>,
         OutputsFollowTheirTurn', frame'.at # "aborting"
  PROVE  ReportInv'
BY DEF ReportInv, ReportsOfTurn, SettleComesLast, CancelIsOfPrompt, AbortFindsNothing,
   Undisturbed, FromPi, PiKinds

\* Taking the first message shifts the others.
LEMMA MailShifts ==
  ASSUME mailbox \in Seq(MessageType), NEW kind, Take(kind)
  PROVE  /\ DOMAIN mailbox' \subseteq Nat \ {0}
         /\ \A i \in DOMAIN mailbox' : i + 1 \in DOMAIN mailbox /\ mailbox'[i] = mailbox[i + 1]
         /\ 1 \in DOMAIN mailbox /\ mailbox[1] = Head(mailbox) /\ mailbox[1].kind = kind
<1>1. mailbox # <<>> /\ mailbox' = Tail(mailbox) /\ Head(mailbox).kind = kind
  BY DEF Take
<1>2. /\ DOMAIN mailbox = 1 .. Len(mailbox) /\ Len(mailbox) \in Nat \ {0}
      /\ DOMAIN Tail(mailbox) = 1 .. Len(mailbox) - 1
      /\ \A i \in 1 .. Len(mailbox) - 1 : Tail(mailbox)[i] = mailbox[i + 1]
      /\ Head(mailbox) = mailbox[1]
  BY <1>1
<1> QED
  BY <1>1, <1>2

\* Posting adds the last message.
LEMMA MailGrows ==
  ASSUME mailbox \in Seq(MessageType), NEW m, mailbox' = Append(mailbox, m)
  PROVE  /\ \A i \in DOMAIN mailbox : i \in DOMAIN mailbox' /\ mailbox'[i] = mailbox[i]
         /\ \A i \in DOMAIN mailbox' : i \in DOMAIN mailbox \/ mailbox'[i] = m
         /\ \E n \in Nat : /\ n \in DOMAIN mailbox' /\ mailbox'[n] = m
                           /\ n \notin DOMAIN mailbox
                           /\ DOMAIN mailbox' = DOMAIN mailbox \cup {n}
                           /\ \A i \in DOMAIN mailbox : i <= n
<1>1. /\ DOMAIN mailbox = 1 .. Len(mailbox) /\ Len(mailbox) \in Nat
      /\ DOMAIN mailbox' = 1 .. Len(mailbox) + 1
      /\ \A i \in 1 .. Len(mailbox) : mailbox'[i] = mailbox[i]
      /\ mailbox'[Len(mailbox) + 1] = m
  OBVIOUS
<1>2. /\ Len(mailbox) + 1 \in 1 .. Len(mailbox) + 1
      /\ 1 .. Len(mailbox) + 1 = (1 .. Len(mailbox)) \cup {Len(mailbox) + 1}
      /\ \A i \in 1 .. Len(mailbox) : i <= Len(mailbox) + 1
      /\ Len(mailbox) + 1 \notin 1 .. Len(mailbox) /\ Len(mailbox) + 1 \in Nat
  BY <1>1
<1> QED
  BY <1>1, <1>2

\* An inbound event is posted.
LEMMA SubmitReports ==
  ASSUME ReportInv, Known, NEW e \in Events, Submit(e)
  PROVE  ReportInv'
<1>1. /\ mailbox \in Seq(MessageType)
      /\ mailbox' \in {mailbox, Append(mailbox, Message("inbound", e))}
      /\ UNCHANGED <<frame, turn, live, trailing, emitted, outputs>>
  BY DEF Submit, Post, pi, history, Known, ActorInv, TypeOK, ActorTypeOK
<1>2. CASE mailbox' = mailbox
  BY <1>1, <1>2, ReportsKept DEF ReportInv, Undisturbed, NothingRuns, OutputsFollowTheirTurn
<1>3. CASE mailbox' = Append(mailbox, Message("inbound", e))
  <2>1. /\ \A i \in DOMAIN mailbox : i \in DOMAIN mailbox' /\ mailbox'[i] = mailbox[i]
        /\ \A i \in DOMAIN mailbox' :
             i \in DOMAIN mailbox \/ mailbox'[i].kind = "inbound"
    BY <1>1, <1>3, MailGrows DEF Message
  <2>2. ReportsOfTurn' /\ SettleComesLast'
    BY <1>1, <2>1
       DEF ReportInv, ReportsOfTurn, SettleComesLast, FromPi, PiKinds, Active, NothingRuns
  <2>3. CancelIsOfPrompt' /\ AbortFindsNothing'
    BY <1>1, <2>1
       DEF ReportInv, CancelIsOfPrompt, AbortFindsNothing, FromPi, PiKinds, Active,
           NothingRuns
  <2>4. Undisturbed' /\ OutputsFollowTheirTurn'
    BY <1>1, <2>1 DEF ReportInv, Undisturbed, OutputsFollowTheirTurn
  <2> QED
    BY <2>2, <2>3, <2>4 DEF ReportInv
<1> QED
  BY <1>1, <1>2, <1>3

\* The run of the active turn emits a report, or its agent_settled.
LEMMA RunReports ==
  ASSUME ReportInv, RunInv, Known, NEW k \in Keys, NEW kind \in PiKinds, live[k] # None,
         mailbox' \in {mailbox, Append(mailbox, Message(kind, live[k]))},
         UNCHANGED <<frame, turn, trailing, outputs>>,
         IF kind = "agent_settled"
         THEN live' = [live EXCEPT ![k] = None] /\ emitted' = emitted
         ELSE live' = live /\ emitted' = [emitted EXCEPT ![live[k]] = @ \cup {kind}]
  PROVE  ReportInv'
<1>1. /\ mailbox \in Seq(MessageType) /\ live[k] \in Events
      /\ emitted \in [Events -> SUBSET PiKinds]
      /\ live \in [Keys -> Events \cup {None}]
  BY DEF Known, ActorInv, TypeOK, ActorTypeOK, PiTypeOK
<1>2. /\ Active /\ turn.trigger = live[k] /\ ~NothingRuns
      /\ \A j \in Keys : j # k => live[j] = None
  BY DEF RunInv, OneRun, Active, NothingRuns
<1>3. /\ frame.at # "aborting"
      /\ \A i \in DOMAIN mailbox : mailbox[i].kind \notin {"agent_settled", "cancel"}
  BY <1>2 DEF ReportInv, SettleComesLast, CancelIsOfPrompt, AbortFindsNothing
<1>4. /\ emitted[live[k]] \subseteq emitted'[live[k]]
      /\ kind # "agent_settled" => kind \in emitted'[live[k]]
  BY <1>1
<1>5. kind = "agent_settled" => NothingRuns'
  BY <1>1, <1>2 DEF NothingRuns
<1>6. OutputsFollowTheirTurn' /\ \A j \in Keys : trailing'[j] = <<>>
  BY DEF ReportInv, Undisturbed, OutputsFollowTheirTurn
<1>7. CASE mailbox' = mailbox
  <2>1. ReportsOfTurn'
    BY <1>2, <1>4, <1>7 DEF ReportInv, ReportsOfTurn, FromPi, Active
  <2>2. SettleComesLast' /\ CancelIsOfPrompt' /\ AbortFindsNothing'
    BY <1>3, <1>7 DEF SettleComesLast, CancelIsOfPrompt, AbortFindsNothing
  <2>3. Undisturbed'
    BY <1>6, <1>7 DEF ReportInv, Undisturbed
  <2> QED
    BY <1>6, <2>1, <2>2, <2>3 DEF ReportInv
<1>8. CASE mailbox' = Append(mailbox, Message(kind, live[k]))
  <2>1. PICK n \in Nat : /\ n \in DOMAIN mailbox' /\ mailbox'[n] = Message(kind, live[k])
                         /\ n \notin DOMAIN mailbox
                         /\ DOMAIN mailbox' = DOMAIN mailbox \cup {n}
                         /\ \A i \in DOMAIN mailbox : i <= n
    BY <1>1, <1>8, MailGrows
  <2>2. \A i \in DOMAIN mailbox : mailbox'[i] = mailbox[i]
    BY <1>1, <1>8, MailGrows
  <2>3. mailbox'[n].kind = kind /\ mailbox'[n].event = live[k]
    BY <2>1 DEF Message
  <2>4. ReportsOfTurn'
    BY <1>2, <1>4, <2>1, <2>2, <2>3 DEF ReportInv, ReportsOfTurn, FromPi, Active
  <2>5. SettleComesLast'
    <3> SUFFICES ASSUME NEW i \in DOMAIN mailbox', mailbox'[i].kind = "agent_settled"
                 PROVE  NothingRuns' /\ \A j \in DOMAIN mailbox' : j <= i
      BY DEF SettleComesLast
    <3>1. i = n
      BY <1>3, <2>1, <2>2
    <3> QED
      BY <1>5, <2>1, <2>3, <3>1
  <2>6. CancelIsOfPrompt' /\ AbortFindsNothing'
    BY <1>3, <2>1, <2>2, <2>3 DEF CancelIsOfPrompt, AbortFindsNothing, PiKinds
  <2>7. Undisturbed'
    BY <1>6, <2>1, <2>2, <2>3 DEF ReportInv, Undisturbed, PiKinds
  <2> QED
    BY <1>6, <2>4, <2>5, <2>6, <2>7 DEF ReportInv
<1> QED
  BY <1>7, <1>8

\* A prompt is rejected before its run said anything: the cancel finds the mailbox
\* without a message of Pi, and no run.
LEMMA PromptFailReports ==
  ASSUME ReportInv, RunInv, Known, NEW k \in Keys, PromptFails(k)
  PROVE  ReportInv'
<1>1. /\ mailbox \in Seq(MessageType) /\ live \in [Keys -> Events \cup {None}]
      /\ live[k] # None /\ emitted[live[k]] = {}
      /\ live' = [live EXCEPT ![k] = None]
      /\ mailbox' \in {mailbox, Append(mailbox, Message("cancel", None))}
      /\ UNCHANGED <<frame, turn, trailing, emitted, outputs>>
  BY DEF PromptFails, Post, history, Known, ActorInv, TypeOK, ActorTypeOK, PiTypeOK
<1>2. /\ Active /\ turn.trigger = live[k] /\ ~NothingRuns
      /\ \A j \in Keys : j # k => live[j] = None
  BY <1>1 DEF RunInv, OneRun, Active, NothingRuns
<1>3. NothingRuns' /\ Active'
  BY <1>1, <1>2 DEF NothingRuns, Active
<1>4. /\ frame.at # "aborting"
      /\ \A i \in DOMAIN mailbox : mailbox[i].kind \notin {"agent_settled", "cancel"}
  BY <1>2 DEF ReportInv, SettleComesLast, CancelIsOfPrompt, AbortFindsNothing
<1>5. \A i \in DOMAIN mailbox : ~FromPi(mailbox[i])
  BY <1>1, <1>2, <1>4 DEF ReportInv, ReportsOfTurn
<1>6. OutputsFollowTheirTurn' /\ \A j \in Keys : trailing'[j] = <<>>
  BY <1>1 DEF ReportInv, Undisturbed, OutputsFollowTheirTurn
<1>7. CASE mailbox' = mailbox
  BY <1>1, <1>3, <1>6, <1>7, ReportsKept
<1>8. CASE mailbox' = Append(mailbox, Message("cancel", None))
  <2>1. PICK n \in Nat : /\ n \in DOMAIN mailbox' /\ mailbox'[n] = Message("cancel", None)
                         /\ DOMAIN mailbox' = DOMAIN mailbox \cup {n}
    BY <1>1, <1>8, MailGrows
  <2>2. \A i \in DOMAIN mailbox : mailbox'[i] = mailbox[i]
    BY <1>1, <1>8, MailGrows
  <2>3. mailbox'[n].kind = "cancel"
    BY <2>1 DEF Message
  <2>4. \A i \in DOMAIN mailbox' : ~FromPi(mailbox'[i]) /\ (mailbox'[i].kind = "cancel" => i = n)
    BY <1>4, <1>5, <2>1, <2>2, <2>3 DEF FromPi, PiKinds
  <2>5. ReportsOfTurn' /\ SettleComesLast'
    BY <2>4 DEF ReportsOfTurn, SettleComesLast, FromPi, PiKinds
  <2>6. CancelIsOfPrompt'
    BY <1>1, <1>3, <1>4, <2>1, <2>2, <2>4 DEF CancelIsOfPrompt, FromPi
  <2>7. AbortFindsNothing' /\ Undisturbed'
    BY <1>1, <1>4, <1>6, <2>1, <2>2, <2>3 DEF ReportInv, AbortFindsNothing, Undisturbed
  <2> QED
    BY <1>6, <2>5, <2>6, <2>7 DEF ReportInv
<1> QED
  BY <1>1, <1>7, <1>8

\* An inbound event, or a report, is taken.
LEMMA TakenReports ==
  ASSUME ReportInv, Known, NEW kind, Take(kind), frame'.at # "aborting",
         turn'.trigger = turn.trigger, UNCHANGED <<live, trailing, emitted>>,
         OutputsFollowTheirTurn'
  PROVE  ReportInv'
<1>1. mailbox \in Seq(MessageType)
  BY DEF Known, ActorInv, TypeOK, ActorTypeOK
<1>2. /\ DOMAIN mailbox' \subseteq Nat \ {0}
      /\ \A i \in DOMAIN mailbox' : i + 1 \in DOMAIN mailbox /\ mailbox'[i] = mailbox[i + 1]
  BY <1>1, MailShifts
<1>3. 1 \in Nat /\ (NothingRuns => NothingRuns') /\ \A k \in Keys : trailing'[k] = <<>>
  BY DEF NothingRuns, ReportInv, Undisturbed
<1> QED
  BY <1>2, <1>3, ReportsTaken

\* The agent_settled that closes the turn leaves no report of it behind.
LEMMA SettleReports ==
  ASSUME ReportInv, Known, TakeSettle
  PROVE  ReportInv'
<1>1. /\ mailbox \in Seq(MessageType) /\ Take("agent_settled") /\ frame.at = "ready"
      /\ Settle("done")
      /\ UNCHANGED <<live, trailing, emitted, outputs>>
  BY DEF TakeSettle, Take, pi, history, Known, ActorInv, TypeOK, ActorTypeOK
<1>2. /\ DOMAIN mailbox' \subseteq Nat \ {0}
      /\ \A i \in DOMAIN mailbox' : i + 1 \in DOMAIN mailbox /\ mailbox'[i] = mailbox[i + 1]
      /\ 1 \in DOMAIN mailbox /\ mailbox[1].kind = "agent_settled"
  BY <1>1, MailShifts
<1>3. \A i \in DOMAIN mailbox' : mailbox'[i].kind = "inbound"
  <2> SUFFICES ASSUME NEW i \in DOMAIN mailbox' PROVE mailbox[i + 1].kind = "inbound"
    BY <1>2
  <2>1. i \in Nat /\ i + 1 \in DOMAIN mailbox
    BY <1>2
  <2>2. ~FromPi(mailbox[i + 1])
    <3>1. FromPi(mailbox[i + 1]) => i + 1 <= 1
      BY <1>2, <2>1 DEF ReportInv, SettleComesLast
    <3>2. i # 0
      BY <1>2
    <3> QED
      BY <2>1, <3>1, <3>2
  <2>3. mailbox[i + 1].kind \notin Control
    BY <1>2, <2>1 DEF ReportInv, Undisturbed, CancelIsOfPrompt, Control, FromPi, PiKinds
  <2>4. mailbox[i + 1] \in MessageType
    BY <1>1, <2>1
  <2> QED
    BY <2>2, <2>3, <2>4 DEF MessageType, FromPi
<1>4. frame'.at # "aborting"
  BY <1>1, SettleType DEF Known
<1>5. OutputsFollowTheirTurn' /\ \A k \in Keys : trailing'[k] = <<>>
  BY <1>1 DEF ReportInv, Undisturbed, OutputsFollowTheirTurn
<1> QED
  BY <1>3, <1>4, <1>5, ReportsNone

\* The abort of a turn whose prompt was rejected closes it with nothing in the
\* mailbox but inbound events.
LEMMA AbortReports ==
  ASSUME ReportInv, Known, AbortReturns \/ AbortFails
  PROVE  ReportInv'
<1>1. /\ mailbox \in Seq(MessageType) /\ frame.at = "aborting" /\ session \in Keys
      /\ frame.then \in {"done", "rotate", "close"}
      /\ Settle(frame.then)
      /\ UNCHANGED <<mailbox, outputs>>
  BY DEF AbortReturns, AbortFails, history, Known, ActorInv, TypeOK, ActorTypeOK, FramesOK,
         FrameType
<1>2. NothingRuns /\ \A i \in DOMAIN mailbox : ~FromPi(mailbox[i])
  BY <1>1 DEF ReportInv, AbortFindsNothing
<1>3. trailing' = trailing
  BY <1>1, <1>2 DEF AbortReturns, AbortFails, NothingRuns, pi
<1>4. \A i \in DOMAIN mailbox' : mailbox'[i].kind = "inbound"
  <2> SUFFICES ASSUME NEW i \in DOMAIN mailbox PROVE mailbox[i].kind = "inbound"
    BY <1>1
  <2>1. mailbox[i].kind \notin Control
    BY <1>1 DEF ReportInv, Undisturbed, CancelIsOfPrompt, Control
  <2>2. mailbox[i] \in MessageType
    BY <1>1
  <2> QED
    BY <1>2, <2>1, <2>2 DEF MessageType, FromPi
<1>5. frame'.at # "aborting"
  BY <1>1, SettleType DEF Known
<1>6. OutputsFollowTheirTurn' /\ \A k \in Keys : trailing'[k] = <<>>
  BY <1>1, <1>3 DEF ReportInv, Undisturbed, OutputsFollowTheirTurn
<1> QED
  BY <1>4, <1>5, <1>6, ReportsNone

\* A turn becomes active with nothing in the mailbox but inbound events.
LEMMA PromptReports ==
  ASSUME ReportInv, RunInv, Known, PromptStarts
  PROVE  ReportInv'
<1>1. /\ mailbox \in Seq(MessageType) /\ ~Active /\ session \in Keys
      /\ frame.then \in {"done", "rotate", "close"} /\ Return(frame.then)
      /\ UNCHANGED <<trailing, outputs>>
  BY DEF PromptStarts, Known, ActorInv, TypeOK, ActorTypeOK, FramesOK, FrameType
<1>2. live[session] = None
  BY <1>1 DEF RunInv, OneRun, Active
<1>3. mailbox' = mailbox
  BY <1>2 DEF PromptStarts
<1>4. \A i \in DOMAIN mailbox' : mailbox'[i].kind = "inbound"
  <2> SUFFICES ASSUME NEW i \in DOMAIN mailbox PROVE mailbox[i].kind = "inbound"
    BY <1>3
  <2>1. ~FromPi(mailbox[i]) /\ mailbox[i].kind \notin Control
    BY <1>1 DEF ReportInv, ReportsOfTurn, Undisturbed, CancelIsOfPrompt, Control
  <2>2. mailbox[i] \in MessageType
    BY <1>1
  <2> QED
    BY <2>1, <2>2 DEF MessageType, FromPi
<1>5. frame'.at # "aborting"
  BY <1>1, ReturnType
<1>6. OutputsFollowTheirTurn' /\ \A k \in Keys : trailing'[k] = <<>>
  BY <1>1 DEF ReportInv, Undisturbed, OutputsFollowTheirTurn
<1> QED
  BY <1>4, <1>5, <1>6, ReportsNone

\* The cancel of a rejected prompt is taken.
LEMMA CancelReports ==
  ASSUME ReportInv, Known, NEW kind \in Control, TakeControl(kind)
  PROVE  ReportInv'
<1>1. /\ mailbox \in Seq(MessageType) /\ Take(kind) /\ frame.at = "ready"
      /\ UNCHANGED <<turn, live, trailing, emitted, outputs>>
  BY DEF TakeControl, Take, pi, history, Known, ActorInv, TypeOK, ActorTypeOK
<1>2. /\ DOMAIN mailbox' \subseteq Nat \ {0}
      /\ \A i \in DOMAIN mailbox' : i + 1 \in DOMAIN mailbox /\ mailbox'[i] = mailbox[i + 1]
      /\ 1 \in DOMAIN mailbox /\ mailbox[1].kind = kind
  BY <1>1, MailShifts
<1>3. kind = "cancel"
  BY <1>2 DEF ReportInv, Undisturbed, Control
<1>4. /\ Active /\ NothingRuns
      /\ \A i \in DOMAIN mailbox : ~FromPi(mailbox[i]) /\ (mailbox[i].kind = "cancel" => i = 1)
  BY <1>2, <1>3 DEF ReportInv, CancelIsOfPrompt
<1>5. \A i \in DOMAIN mailbox' : mailbox'[i].kind = "inbound"
  <2> SUFFICES ASSUME NEW i \in DOMAIN mailbox' PROVE mailbox[i + 1].kind = "inbound"
    BY <1>2
  <2>1. i + 1 \in DOMAIN mailbox /\ i + 1 # 1
    BY <1>2
  <2>2. ~FromPi(mailbox[i + 1]) /\ mailbox[i + 1].kind \notin Control
    BY <1>4, <2>1 DEF ReportInv, Undisturbed, Control
  <2>3. mailbox[i + 1] \in MessageType
    BY <1>1, <2>1
  <2> QED
    BY <2>2, <2>3 DEF MessageType, FromPi
<1>6. NothingRuns' /\ \A k \in Keys : trailing'[k] = <<>>
  BY <1>1, <1>4 DEF NothingRuns, ReportInv, Undisturbed
<1>7. OutputsFollowTheirTurn'
  BY <1>1 DEF ReportInv, OutputsFollowTheirTurn
<1>8. ReportsOfTurn' /\ SettleComesLast' /\ CancelIsOfPrompt'
  BY <1>5 DEF ReportsOfTurn, SettleComesLast, CancelIsOfPrompt, FromPi, PiKinds
<1>9. AbortFindsNothing' /\ Undisturbed'
  BY <1>5, <1>6 DEF AbortFindsNothing, Undisturbed, FromPi, PiKinds
<1> QED
  BY <1>7, <1>8, <1>9 DEF ReportInv

\* Each step keeps the invariant, as long as nobody cancels, rotates or removes.
LEMMA NextReports ==
  ASSUME Allowed \cap {"cancel", "rotate", "close"} = {},
         Known, RunInv, ReportInv, [Next]_vars
  PROVE  ReportInv'
<1>0. /\ mailbox \in Seq(MessageType)
      /\ \A k \in Keys : trailing[k] = <<>>
      /\ OutputsFollowTheirTurn
  BY DEF ReportInv, Undisturbed, Known, ActorInv, TypeOK, ActorTypeOK
<1>1. CASE TakeStartsTurn \/ TakeQueues \/ TakeSteers \/ TakeSteerCollides
  <2>1. /\ Take("inbound") /\ frame'.at # "aborting"
        /\ UNCHANGED <<turn, live, trailing, emitted, outputs>>
    BY <1>1 DEF TakeStartsTurn, BeginTurn, TakeQueues, TakeSteers, TakeSteerCollides, Take,
       pi, history
  <2> QED
    BY <1>0, <2>1, TakenReports DEF OutputsFollowTheirTurn
<1>2. CASE TakeMessageEnd
  <2>1. /\ Take("message_end") /\ frame'.at # "aborting"
        /\ UNCHANGED <<turn, live, trailing, emitted>>
    BY <1>2 DEF TakeMessageEnd, Take, pi
  <2>2. Active /\ Head(mailbox).event = turn.trigger
    <3>1. /\ 1 \in DOMAIN mailbox /\ mailbox[1] = Head(mailbox)
          /\ mailbox[1].kind = "message_end"
      BY <1>0, <2>1, MailShifts
    <3> QED
      BY <3>1 DEF ReportInv, ReportsOfTurn, FromPi, PiKinds
  <2>3. outputs' = outputs \cup {<<turn.trigger, turn.trigger>>}
    BY <1>2, <2>2 DEF TakeMessageEnd
  <2>4. OutputsFollowTheirTurn'
    BY <1>0, <2>3 DEF OutputsFollowTheirTurn
  <2> QED
    BY <2>1, <2>4, TakenReports
<1>3. CASE TakeAgentEnd \/ TakeStaleSettle
  <2>1. PICK kind \in {"agent_end", "agent_settled"} : Take(kind)
    BY <1>3 DEF TakeAgentEnd, TakeStaleSettle
  <2>2. /\ frame'.at # "aborting"
        /\ UNCHANGED <<turn, live, trailing, emitted, outputs>>
    BY <1>3 DEF TakeAgentEnd, TakeStaleSettle, Take, pi, history
  <2> QED
    BY <1>0, <2>1, <2>2, TakenReports DEF OutputsFollowTheirTurn
<1>4. CASE TakeSettle
  BY <1>4, SettleReports
<1>5. ASSUME NEW kind \in Control, TakeControl(kind) PROVE ReportInv'
  BY <1>5, CancelReports
<1>6. CASE AbortReturns \/ AbortFails
  BY <1>6, AbortReports
<1>7. CASE PromptStarts
  BY <1>7, PromptReports
<1>8. CASE SteerAccepted \/ SteerRejected
  <2>1. turn'.trigger = turn.trigger
    BY <1>8 DEF SteerAccepted, SteerRejected, Known, ActorInv, TypeOK, ActorTypeOK, TurnType
  <2>2. frame'.at # "aborting" /\ UNCHANGED <<mailbox, live, trailing, emitted, outputs>>
    BY <1>8 DEF SteerAccepted, SteerRejected, Ready, pi, history
  <2> QED
    BY <1>0, <2>1, <2>2, ReportsKept DEF NothingRuns, OutputsFollowTheirTurn
<1>9. CASE GrantPermit \/ OpenSucceeds
  <2>1. frame'.at # "aborting"
    BY <1>9 DEF GrantPermit, OpenSucceeds, Known, ActorInv, TypeOK, ActorTypeOK, FrameType
  <2>2. UNCHANGED <<mailbox, turn, live, trailing, emitted, outputs>>
    BY <1>9 DEF GrantPermit, OpenSucceeds, pi, history
  <2> QED
    BY <1>0, <2>1, <2>2, ReportsKept DEF NothingRuns, OutputsFollowTheirTurn
<1>10. CASE OpenFails \/ RotateResumes \/ CloseResumes
  <2>1. frame'.at # "aborting" /\ UNCHANGED <<mailbox, turn, live, trailing, emitted, outputs>>
    BY <1>10 DEF OpenFails, RotateResumes, CloseResumes, Ready, pi, history
  <2> QED
    BY <1>0, <2>1, ReportsKept DEF NothingRuns, OutputsFollowTheirTurn
<1>11. CASE RotateReleases \/ RemoveReleases \/ ConfigPush
  <2>1. /\ frame'.at = "aborting" => frame.at = "aborting"
        /\ UNCHANGED <<mailbox, turn, emitted, outputs>>
    BY <1>11 DEF RotateReleases, RemoveReleases, ConfigPush, Ready, history
  <2>2. PICK S : Dispose(S)
    BY <1>11 DEF RotateReleases, RemoveReleases, ConfigPush
  <2>3. (NothingRuns => NothingRuns') /\ \A k \in Keys : trailing'[k] = <<>>
    BY <1>0, <2>2 DEF Dispose, NothingRuns
  <2> QED
    BY <1>0, <2>1, <2>3, ReportsKept DEF OutputsFollowTheirTurn
<1>12. ASSUME NEW k \in Keys, NEW kind \in Reports, PiEmits(k, kind) PROVE ReportInv'
  <2>1. kind \in PiKinds /\ kind # "agent_settled"
    BY ActorAssumption DEF PiKinds
  <2>2. /\ live[k] # None
        /\ mailbox' \in {mailbox, Append(mailbox, Message(kind, live[k]))}
        /\ UNCHANGED <<frame, turn, trailing, outputs, live>>
        /\ emitted' = [emitted EXCEPT ![live[k]] = @ \cup {kind}]
    BY <1>12 DEF PiEmits, Emit, Post, history
  <2> QED
    BY <2>1, <2>2, RunReports
<1>13. ASSUME NEW k \in Keys, PiSettles(k) PROVE ReportInv'
  <2>1. /\ live[k] # None
        /\ mailbox' \in {mailbox, Append(mailbox, Message("agent_settled", live[k]))}
        /\ UNCHANGED <<frame, turn, trailing, outputs, emitted>>
        /\ live' = [live EXCEPT ![k] = None]
    BY <1>13 DEF PiSettles, Emit, Post, history
  <2> QED
    BY <2>1, RunReports DEF PiKinds
<1>14. ASSUME NEW k \in Keys PROVE ~TrailingSettles(k)
  BY <1>0 DEF TrailingSettles
<1>15. ASSUME NEW k \in Keys, PromptFails(k) PROVE ReportInv'
  BY <1>15, PromptFailReports
<1>16. ASSUME NEW e \in Events, Submit(e) PROVE ReportInv'
  BY <1>16, SubmitReports
<1>17. ~(WatchFires \/ OwnerCancels \/ PostRotate \/ PostClose)
  BY DEF WatchFires, OwnerCancels, PostRotate, PostClose, Spend
<1>18. CASE UNCHANGED vars
  BY <1>0, <1>18, ReportsKept DEF vars, pi, history, NothingRuns, OutputsFollowTheirTurn
<1> QED
  BY <1>1, <1>2, <1>3, <1>4, <1>5, <1>6, <1>7, <1>8, <1>9, <1>10, <1>11, <1>12, <1>13,
     <1>14, <1>15, <1>16, <1>17, <1>18
     DEF Next, Pump, Pi, Environment

\* As long as nobody cancels, rotates or removes the channel, every visible answer is
\* recorded for the turn whose message triggered the run that produced it, whatever
\* arrives, joins or queues behind the turn, and whether or not sessions open, prompts
\* start, aborts succeed or the configuration changes.
THEOREM OutputsStayWithTheirTurn ==
  ASSUME Allowed \cap {"cancel", "rotate", "close"} = {}
  PROVE  Spec => []OutputsFollowTheirTurn
<1>1. Init => RunInv /\ ReportInv
  <2>1. Init => ReportInv
    BY DEF Init, Ready, ReportInv, ReportsOfTurn, SettleComesLast, CancelIsOfPrompt,
       AbortFindsNothing, Undisturbed, OutputsFollowTheirTurn
  <2> QED
    BY <2>1, InitRuns
<1>2. Known /\ RunInv /\ ReportInv /\ [Next]_vars => RunInv' /\ ReportInv'
  <2> SUFFICES ASSUME Known, RunInv, ReportInv, [Next]_vars PROVE RunInv' /\ ReportInv'
    OBVIOUS
  <2>1. ~AbortFails
    BY DEF AbortFails, ReportInv, AbortFindsNothing, NothingRuns, Known, ActorInv, TypeOK,
       ActorTypeOK, FramesOK
  <2> QED
    BY <2>1, NextRuns, NextReports
<1>3. RunInv /\ ReportInv => OutputsFollowTheirTurn
  BY DEF ReportInv
<1> QED
  BY <1>1, <1>2, <1>3, AccountInvariant, PTL DEF Spec

-----------------------------------------------------------------------------
(* The end of an undisturbed turn.                                          *)

\* Nothing was ever aborted: no agent_settled is discounted, and no control is on its
\* way.
NothingAborted ==
  /\ staleSettles = 0
  /\ frame.at # "aborting"
  /\ \A i \in DOMAIN mailbox : mailbox[i].kind \notin Control

\* As long as nobody cancels, rotates or removes and no prompt is rejected, the
\* agent_settled of the active turn closes it: it is never taken for that of another
\* run.
THEOREM OwnSettlesClose ==
  ASSUME Allowed \cap {"cancel", "rotate", "close", "prompt_failure"} = {}
  PROVE  Spec => OwnSettleCloses
<1> DEFINE OwnClose ==
      frame.at = "ready" /\ mailbox # <<>> /\ mailbox' = Tail(mailbox)
      /\ Head(mailbox).kind = "agent_settled" /\ Head(mailbox).event = turn.trigger
      => turn' = NoTurn
<1>1. Init => RunInv /\ NothingAborted
  BY InitRuns DEF Init, Ready, NothingAborted
<1>2. Known /\ RunInv /\ NothingAborted /\ [Next]_vars => RunInv' /\ NothingAborted'
  <2> SUFFICES ASSUME Known, RunInv, NothingAborted, [Next]_vars
               PROVE  RunInv' /\ NothingAborted'
    OBVIOUS
  <2>1. mailbox \in Seq(MessageType)
    BY DEF Known, ActorInv, TypeOK, ActorTypeOK
  <2>2. /\ ~AbortReturns /\ ~AbortFails
        /\ ~(WatchFires \/ OwnerCancels \/ PostRotate \/ PostClose)
        /\ \A k \in Keys : ~PromptFails(k)
    BY DEF AbortReturns, AbortFails, NothingAborted, WatchFires, OwnerCancels, PostRotate,
       PostClose, PromptFails, Spend
  <2>3. RunInv'
    BY <2>2, NextRuns
  <2>4. ASSUME NEW kind, Take(kind)
        PROVE  kind \notin Control /\ \A i \in DOMAIN mailbox' : mailbox'[i].kind \notin Control
    BY <2>1, <2>4, MailShifts DEF NothingAborted
  <2>5. ASSUME NEW kind, kind \notin Control, NEW e,
               mailbox' \in {mailbox, Append(mailbox, Message(kind, e))}
        PROVE  \A i \in DOMAIN mailbox' : mailbox'[i].kind \notin Control
    <3>1. CASE mailbox' = Append(mailbox, Message(kind, e))
      <4>1. \A i \in DOMAIN mailbox' :
              \/ i \in DOMAIN mailbox /\ mailbox'[i] = mailbox[i]
              \/ mailbox'[i] = Message(kind, e)
        BY <2>1, <3>1, MailGrows
      <4> QED
        BY <2>5, <4>1 DEF NothingAborted, Message
    <3> QED
      BY <2>5, <3>1 DEF NothingAborted
  <2>6. CASE TakeStartsTurn \/ TakeQueues \/ TakeSteers \/ TakeSteerCollides
             \/ TakeMessageEnd \/ TakeAgentEnd
    <3>1. staleSettles' = 0 /\ frame'.at # "aborting"
      BY <2>6 DEF TakeStartsTurn, BeginTurn, TakeQueues, TakeSteers, TakeSteerCollides,
         TakeMessageEnd, TakeAgentEnd, NothingAborted
    <3>2. \E kind : Take(kind)
      BY <2>6 DEF TakeStartsTurn, TakeQueues, TakeSteers, TakeSteerCollides, TakeMessageEnd,
         TakeAgentEnd
    <3> QED
      BY <2>3, <2>4, <3>1, <3>2 DEF NothingAborted
  <2>7. CASE TakeSettle
    <3>1. frame'.at # "aborting"
      BY <2>7, SettleType DEF TakeSettle, Known
    <3> QED
      BY <2>3, <2>4, <2>7, <3>1 DEF TakeSettle, NothingAborted
  <2>8. ~TakeStaleSettle
    BY DEF TakeStaleSettle, NothingAborted
  <2>9. ASSUME NEW kind \in Control PROVE ~TakeControl(kind)
    BY <2>4 DEF TakeControl
  <2>10. CASE PromptStarts
    <3>1. mailbox' = mailbox
      BY <2>10 DEF PromptStarts, Known, ActorInv, TypeOK, ActorTypeOK, FramesOK, RunInv, OneRun,
         Active
    <3>2. frame'.at # "aborting"
      <4>1. frame.then \in {"done", "rotate", "close"} /\ Return(frame.then)
        BY <2>10 DEF PromptStarts, Known, ActorInv, TypeOK, ActorTypeOK, FrameType
      <4> QED
        BY <4>1, ReturnType
    <3> QED
      BY <2>3, <2>10, <3>1, <3>2 DEF PromptStarts, NothingAborted
  <2>11. CASE SteerAccepted \/ SteerRejected \/ OpenFails \/ RotateResumes \/ RotateReleases
              \/ CloseResumes \/ RemoveReleases \/ ConfigPush
    BY <2>3, <2>11 DEF SteerAccepted, SteerRejected, OpenFails, RotateResumes, RotateReleases,
       CloseResumes, RemoveReleases, ConfigPush, Ready, NothingAborted
  <2>12. CASE GrantPermit \/ OpenSucceeds
    <3>1. frame'.at # "aborting"
      BY <2>12 DEF GrantPermit, OpenSucceeds, Known, ActorInv, TypeOK, ActorTypeOK, FrameType
    <3> QED
      BY <2>3, <2>12, <3>1 DEF GrantPermit, OpenSucceeds, NothingAborted
  <2>13. ASSUME NEW k \in Keys,
                \/ \E kind \in Reports : PiEmits(k, kind)
                \/ PiSettles(k) \/ TrailingSettles(k)
         PROVE  NothingAborted'
    <3>1. PICK kind, e : /\ kind \notin Control
                         /\ mailbox' \in {mailbox, Append(mailbox, Message(kind, e))}
      BY <2>13, ActorAssumption DEF PiEmits, PiSettles, TrailingSettles, Emit, Post, Control
    <3> QED
      BY <2>5, <2>13, <3>1 DEF PiEmits, PiSettles, TrailingSettles, NothingAborted
  <2>14. ASSUME NEW e \in Events, Submit(e) PROVE NothingAborted'
    <3>1. mailbox' \in {mailbox, Append(mailbox, Message("inbound", e))}
      BY <2>14 DEF Submit, Post
    <3> QED
      BY <2>5, <2>14, <3>1 DEF Submit, NothingAborted, Control
  <2>15. CASE UNCHANGED vars
    BY <2>3, <2>15 DEF vars, NothingAborted
  <2> QED
    BY <2>2, <2>3, <2>6, <2>7, <2>8, <2>9, <2>10, <2>11, <2>12, <2>13, <2>14, <2>15
       DEF Next, Pump, Pi, Environment
<1>3. Known /\ RunInv /\ NothingAborted /\ [Next]_vars => [OwnClose]_vars
  <2> SUFFICES ASSUME Known, NothingAborted, Next,
                      mailbox # <<>>, mailbox' = Tail(mailbox),
                      Head(mailbox).kind = "agent_settled",
                      Head(mailbox).event = turn.trigger
               PROVE  turn' = NoTurn
    OBVIOUS
  <2>1. mailbox \in Seq(MessageType)
    BY DEF Known, ActorInv, TypeOK, ActorTypeOK
  <2>2. /\ mailbox' # mailbox
        /\ \A m : mailbox' # Append(mailbox, m)
    <3>1. Len(mailbox) \in DOMAIN mailbox /\ Len(mailbox) \notin DOMAIN mailbox'
      <4>1. /\ DOMAIN mailbox = 1 .. Len(mailbox) /\ Len(mailbox) \in Nat \ {0}
            /\ DOMAIN Tail(mailbox) = 1 .. Len(mailbox) - 1
        BY <2>1
      <4> QED
        BY <4>1
    <3>2. \A m : mailbox' = Append(mailbox, m) => DOMAIN mailbox \subseteq DOMAIN mailbox'
      BY <2>1, MailGrows
    <3> QED
      BY <3>1, <3>2
  <2>3. TakeSettle
    <3>1. ~TakeStaleSettle /\ \A kind : Take(kind) => kind = "agent_settled"
      BY DEF TakeStaleSettle, NothingAborted, Take
    <3>2. ~(TakeStartsTurn \/ TakeQueues \/ TakeSteers \/ TakeSteerCollides \/ TakeMessageEnd
            \/ TakeAgentEnd \/ \E kind \in Control : TakeControl(kind))
      BY <3>1 DEF TakeStartsTurn, TakeQueues, TakeSteers, TakeSteerCollides, TakeMessageEnd,
         TakeAgentEnd, TakeControl, Control
    <3>3. ~(SteerAccepted \/ SteerRejected \/ GrantPermit \/ OpenSucceeds \/ PromptStarts
            \/ AbortReturns \/ RotateResumes \/ RotateReleases \/ CloseResumes)
      BY <2>2 DEF SteerAccepted, SteerRejected, GrantPermit, OpenSucceeds, PromptStarts,
         AbortReturns, RotateResumes, RotateReleases, CloseResumes
    <3>4. ~Pi
      BY <2>2 DEF Pi, PiEmits, PiSettles, TrailingSettles, PromptFails, Emit, Post
    <3>5. ~Environment
      BY <2>2 DEF Environment, Submit, WatchFires, OwnerCancels, PostRotate, PostClose, PostOnly,
         RemoveReleases, OpenFails, AbortFails, ConfigPush, Post
    <3> QED
      BY <3>1, <3>2, <3>3, <3>4, <3>5 DEF Next, Pump
  <2>4. Active
    <3>1. Head(mailbox) \in MessageType
      BY <2>1
    <3>2. Head(mailbox).event \in Events
      BY <3>1 DEF MessageType, Control
    <3> QED
      BY <3>2, SessionKeys DEF Active
  <2> QED
    BY <2>3, <2>4 DEF TakeSettle, Settle, SettleNothing, CloseTurn
<1> QED
  BY <1>1, <1>2, <1>3, AccountInvariant, PTL DEF Spec, OwnSettleCloses
=============================================================================
