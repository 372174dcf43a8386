------------------------------ MODULE Recovery ------------------------------
(***************************************************************************)
(* What one channel keeps in the database about accepted events and turns   *)
(* (src/state/inbox-repository.ts, src/state/turn-repository.ts), how the   *)
(* inbound pipeline and the channel actor write it, and what start-up makes *)
(* of it after a crash (src/state/recovery.ts).                             *)
(*                                                                         *)
(* The clock stands still unless it ticks: steps of one millisecond carry   *)
(* one timestamp.  A process is "early" from the moment its subscriptions   *)
(* are open until recovery has run; events arrive then as at any later time.*)
(***************************************************************************)
EXTENDS Integers, Sequences, FiniteSets

CONSTANTS
  Events,      \* accepted events, numbered in the order of their ids
  TurnIds,     \* ids for new turns, numbered likewise: a bound
  Roots,       \* the threads each event may belong to
  None,        \* neither an event, a turn nor a time
  MaxClock,    \* a bound
  MaxCrashes   \* a bound

ASSUME RecoveryAssumption ==
  /\ Events \subseteq Nat
  /\ TurnIds \subseteq Nat
  /\ Events \cap TurnIds = {}
  /\ DOMAIN Roots = Events
  /\ None \notin Nat
  /\ MaxClock \in Nat
  /\ MaxCrashes \in Nat

VARIABLES
  inbox,     \* table inbox: the row of each event
  turns,     \* table turns: state and started_at
  inputs,    \* table turn_inputs: ordinal and delivered_at
  intents,   \* latest created_at of the output_intents of each turn
  judging,   \* events whose author the gate is looking up
  mailbox,   \* events submitted to the actor and not handled yet
  waiting,   \* #queue of the actor
  actor,     \* its state, turn and trigger, how many inputs, awaited steer
  phase,     \* of the process: down, early or live
  clock,     \* milliseconds
  answer,    \* history: whether, and when, each event was answered
  crashes    \* so far

tables == <<inbox, turns, inputs, intents>>
memory == <<judging, mailbox, waiting, actor>>
vars   == <<tables, memory, phase, clock, answer, crashes>>

NoTurn  == [state |-> "none", startedAt |-> 0]
NoInput == [ordinal |-> None, delivered |-> None]
Idle ==
  [state |-> "idle", turn |-> None, primary |-> None, count |-> 0, steering |-> None]

Row(d, t, n, at, r) ==
  [disposition |-> d, turn |-> t, ordinal |-> n, receivedAt |-> at, root |-> r]
NoRow == Row("none", None, None, 0, None)

\* A row as assignToTurn, or setDisposition with a turn, leaves it.
Assigned(row, d, t, n) == Row(d, t, n, row.receivedAt, row.root)

Init ==
  /\ inbox = [e \in Events |-> NoRow]
  /\ turns = [t \in TurnIds |-> NoTurn]
  /\ inputs = [t \in TurnIds |-> [e \in Events |-> NoInput]]
  /\ intents = [t \in TurnIds |-> None]
  /\ judging = {}
  /\ mailbox = <<>>
  /\ waiting = <<>>
  /\ actor = Idle
  /\ phase = "live"
  /\ clock = 0
  /\ answer = [e \in Events |-> "none"]
  /\ crashes = 0

Up == phase # "down"

-----------------------------------------------------------------------------
(* The inbound pipeline: the row first, everything else after.              *)

\* Mutant: the relay's second copy of an event replaces its row.
ReceiveAgain(e, r) ==
  /\ Up
  /\ e \notin judging
  /\ inbox' = [inbox EXCEPT ![e] = Row("queued", None, None, clock, r)]
  /\ judging' = judging \cup {e}
  /\ UNCHANGED <<turns, inputs, intents, mailbox, waiting, actor, phase, clock,
                 answer, crashes>>

\* onInboundMessage up to the gate.  A copy of an event that has a row already
\* ends at insertIfAbsent and changes nothing.
Receive(e, r) ==
  /\ Up
  /\ inbox[e] = NoRow
  /\ inbox' = [inbox EXCEPT ![e] = Row("queued", None, None, clock, r)]
  /\ judging' = judging \cup {e}
  /\ UNCHANGED <<turns, inputs, intents, mailbox, waiting, actor, phase, clock,
                 answer, crashes>>

\* The event is for the actor.
Admit(e) ==
  /\ e \in judging
  /\ judging' = judging \ {e}
  /\ mailbox' = Append(mailbox, e)
  /\ UNCHANGED <<tables, waiting, actor, phase, clock, answer, crashes>>

\* The event is a control command, or its author has no say here, or the agent
\* is degraded.  The row of a command becomes "completed"; either way it is done.
Dismiss(e) ==
  /\ e \in judging
  /\ judging' = judging \ {e}
  /\ inbox' = [inbox EXCEPT ![e].disposition = "rejected"]
  /\ UNCHANGED <<turns, inputs, intents, mailbox, waiting, actor, phase, clock,
                 answer, crashes>>

-----------------------------------------------------------------------------
(* The channel actor, as far as it writes                                   *)

OpenTurn(e, t, ts, ib) ==
  /\ turns[t] = NoTurn
  /\ turns' = [ts EXCEPT ![t] = [state |-> "created", startedAt |-> clock]]
  /\ inputs' = [inputs EXCEPT ![t][e] = [ordinal |-> 0, delivered |-> None]]
  /\ inbox' = [ib EXCEPT ![e] = Assigned(@, "prompted", t, 0)]
  /\ actor' = [state |-> "starting", turn |-> t, primary |-> e, count |-> 1,
                steering |-> None]

\* The mailbox handler is not waiting for a session or for Pi.
Free == Up /\ actor.state # "starting" /\ actor.steering = None

Joinable(e) ==
  /\ actor.state \in {"running", "settling"}
  /\ inbox[actor.primary].root = inbox[e].root

OrdinalTaken(t, n) == \E e \in Events : inputs[t][e].ordinal = n

\* onInbound of an event that starts a turn.
TakeStart ==
  /\ Free
  /\ mailbox # <<>>
  /\ actor.state = "idle"
  /\ \E t \in TurnIds : OpenTurn(Head(mailbox), t, turns, inbox)
  /\ mailbox' = Tail(mailbox)
  /\ UNCHANGED <<intents, judging, waiting, phase, clock, answer, crashes>>

\* onInbound of an event of another conversation.
TakeQueue ==
  /\ Free
  /\ mailbox # <<>>
  /\ actor.state # "idle"
  /\ ~Joinable(Head(mailbox))
  /\ inbox' = [inbox EXCEPT ![Head(mailbox)].disposition = "queued"]
  /\ waiting' = Append(waiting, Head(mailbox))
  /\ mailbox' = Tail(mailbox)
  /\ UNCHANGED <<turns, inputs, intents, judging, actor, phase, clock, answer,
                 crashes>>

\* steer up to session.steer().
TakeSteer ==
  /\ Free
  /\ mailbox # <<>>
  /\ Joinable(Head(mailbox))
  /\ ~OrdinalTaken(actor.turn, actor.count)
  /\ LET e == Head(mailbox)
         t == actor.turn
         n == actor.count
     IN /\ inputs' = [inputs EXCEPT ![t][e] = [ordinal |-> n, delivered |-> None]]
        /\ inbox' = [inbox EXCEPT ![e] = Assigned(@, "steer_pending", t, n)]
        /\ actor' = [actor EXCEPT !.steering = e]
  /\ mailbox' = Tail(mailbox)
  /\ UNCHANGED <<turns, intents, judging, waiting, phase, clock, answer, crashes>>

\* steer: a steer that was refused left its ordinal behind, the index of
\* turn_inputs refuses the next one and the mailbox logs the error.
TakeSteerCollides ==
  /\ Free
  /\ mailbox # <<>>
  /\ Joinable(Head(mailbox))
  /\ OrdinalTaken(actor.turn, actor.count)
  /\ mailbox' = Tail(mailbox)
  /\ UNCHANGED <<tables, judging, waiting, actor, phase, clock, answer, crashes>>

\* startTurn, from the session being open to its end.
Prompt ==
  /\ Up
  /\ actor.state = "starting"
  /\ turns' = [turns EXCEPT ![actor.turn].state = "running"]
  /\ inputs' = [inputs EXCEPT ![actor.turn][actor.primary].delivered = clock]
  /\ actor' = [actor EXCEPT !.state = "running"]
  /\ UNCHANGED <<inbox, intents, judging, mailbox, waiting, phase, clock, answer,
                 crashes>>

\* steer, from the answer of session.steer() to its end.
SteerAccepted ==
  LET e == actor.steering
      t == actor.turn
  IN /\ Up
     /\ e # None
     /\ inbox' = [inbox EXCEPT ![e].disposition = "steer_delivered"]
     /\ inputs' = [inputs EXCEPT ![t][e].delivered = clock]
     /\ actor' = [actor EXCEPT !.steering = None, !.count = @ + 1]
     /\ UNCHANGED <<turns, intents, judging, mailbox, waiting, phase, clock,
                    answer, crashes>>

\* steer, Pi having settled first: only the inbox row forgets the turn.
SteerRejected ==
  LET e == actor.steering
  IN /\ Up
     /\ e # None
     /\ inbox' = [inbox EXCEPT ![e] = Assigned(@, "queued", None, None)]
     /\ waiting' = Append(waiting, e)
     /\ actor' = [actor EXCEPT !.steering = None]
     /\ UNCHANGED <<turns, inputs, intents, judging, mailbox, phase, clock,
                    answer, crashes>>

Given(t) == {e \in Events : inputs[t][e].delivered # None}

\* An event is answered by an output of the turn it was delivered in.
Answers(t) ==
  [e \in Events |->
     IF e \notin Given(t) THEN answer[e]
     ELSE IF inputs[t][e].delivered < clock THEN "later"
     ELSE IF answer[e] = "none" THEN "at_once" ELSE answer[e]]

\* message_end of an assistant message with a visible text.
Output ==
  LET t == actor.turn
  IN /\ Free
     /\ t # None
     /\ intents' = [intents EXCEPT ![t] = clock]
     /\ answer' = Answers(t)
     /\ UNCHANGED <<inbox, turns, inputs, memory, phase, clock, crashes>>

\* agent_end with nothing left to retry.
AgentEnd ==
  /\ Free
  /\ actor.state = "running"
  /\ turns' = [turns EXCEPT ![actor.turn].state = "settling"]
  /\ actor' = [actor EXCEPT !.state = "settling"]
  /\ UNCHANGED <<inbox, inputs, intents, judging, mailbox, waiting, phase, clock,
                 answer, crashes>>

\* completeTurnInputs
Completed(t) ==
  [e \in Events |->
     IF inbox[e].turn = t /\ inbox[e].disposition \in {"prompted", "steer_delivered"}
     THEN [inbox[e] EXCEPT !.disposition = "completed"] ELSE inbox[e]]

\* settle, whatever the reason: the turn is closed in one transaction, then the
\* oldest waiting event starts the next one.
Settle ==
  LET closed == [turns EXCEPT ![actor.turn].state = "completed"]
      settled == Completed(actor.turn)
  IN /\ Free
     /\ actor.turn # None
     /\ IF waiting = <<>>
        THEN /\ turns' = closed
             /\ inbox' = settled
             /\ actor' = Idle
             /\ UNCHANGED <<inputs, waiting>>
        ELSE /\ \E t \in TurnIds : OpenTurn(Head(waiting), t, closed, settled)
             /\ waiting' = Tail(waiting)
     /\ UNCHANGED <<intents, judging, mailbox, phase, clock, answer, crashes>>

-----------------------------------------------------------------------------
(* Crash and start-up                                                       *)

GoDown ==
  /\ crashes < MaxCrashes
  /\ crashes' = crashes + 1
  /\ phase' = "down"
  /\ judging' = {}
  /\ mailbox' = <<>>
  /\ waiting' = <<>>
  /\ actor' = Idle

Crash ==
  /\ Up
  /\ GoDown
  /\ UNCHANGED <<tables, clock, answer>>

\* The process dies between the two transactions of settle.
CrashInSettle ==
  /\ Free
  /\ actor.turn # None
  /\ GoDown
  /\ turns' = [turns EXCEPT ![actor.turn].state = "completed"]
  /\ inbox' = Completed(actor.turn)
  /\ UNCHANGED <<inputs, intents, clock, answer>>

\* start() up to memberships.start(): the subscriptions are open.
Restart ==
  /\ phase = "down"
  /\ phase' = "early"
  /\ UNCHANGED <<tables, memory, clock, answer, crashes>>

Tick ==
  /\ clock < MaxClock
  /\ clock' = clock + 1
  /\ UNCHANGED <<tables, memory, phase, answer, crashes>>

-----------------------------------------------------------------------------
(* planRecovery and applyRecovery                                           *)

Unsettled(e) ==
  inbox[e].disposition \in {"queued", "prompted", "steer_pending", "steer_delivered"}

LiveStates == {"created", "running", "settling", "settled"}

Unfinished == {t \in TurnIds : turns[t].state \in LiveStates}

\* Mutant: an output of the very millisecond of the delivery answers it.
AnsweredSinceDelivery(t, at) == intents[t] # None /\ intents[t] >= at

AnsweredAfter(t, at) == intents[t] # None /\ intents[t] > at

DeliveredAt(e) == IF inbox[e].turn = None THEN None ELSE inputs[inbox[e].turn][e].delivered

Replayed(e) ==
  /\ Unsettled(e)
  /\ ~(DeliveredAt(e) # None /\ AnsweredAfter(inbox[e].turn, DeliveredAt(e)))

\* What the plan hands back to the scheduler.
Requeue == {e \in Events : Replayed(e)}

GroupAt(e) ==
  IF inbox[e].turn = None THEN inbox[e].receivedAt ELSE turns[inbox[e].turn].startedAt

GroupId(e) == IF inbox[e].turn = None THEN e ELSE inbox[e].turn

Ordinal(e) == IF inbox[e].turn = None THEN 0 ELSE inputs[inbox[e].turn][e].ordinal

Key(e) == <<GroupAt(e), GroupId(e), Ordinal(e), inbox[e].receivedAt, e>>

\* compareReplay
ReplayBefore(e, f) ==
  \E i \in DOMAIN Key(e) :
    /\ Key(e)[i] < Key(f)[i]
    /\ \A j \in 1 .. i - 1 : Key(e)[j] = Key(f)[j]

\* The plan as a relation: its events, and which one comes before which.
Plan == {p \in Requeue \X Requeue : p[1] = p[2] \/ ReplayBefore(p[1], p[2])}

Requeued(row) == [row EXCEPT !.disposition = "queued"]

\* recover: plan and apply.  Nothing else happens to the plan: what it wants
\* replayed stays in the table.
Recover ==
  /\ phase = "early"
  /\ phase' = "live"
  /\ turns' = [t \in TurnIds |->
       IF t \in Unfinished
       THEN [turns[t] EXCEPT !.state = "interrupted"] ELSE turns[t]]
  /\ inbox' = [e \in Events |->
       IF e \in Requeue THEN Requeued(inbox[e]) ELSE inbox[e]]
  /\ UNCHANGED <<inputs, intents, memory, clock, answer, crashes>>

Take == TakeStart \/ TakeQueue \/ TakeSteer \/ TakeSteerCollides

Next ==
  \/ \E e \in Events :
       \/ \E r \in Roots[e] : Receive(e, r)
       \/ Admit(e) \/ Dismiss(e)
  \/ Take
  \/ Prompt \/ SteerAccepted \/ SteerRejected
  \/ Output \/ AgentEnd \/ Settle
  \/ Crash \/ CrashInSettle \/ Restart \/ Recover
  \/ Tick

Spec == Init /\ [][Next]_vars

\* The gate, the mailbox, Pi and the supervisor of the process do their part.
Fairness ==
  /\ \A e \in Events : WF_vars(Admit(e) \/ Dismiss(e))
  /\ WF_vars(Take)
  /\ WF_vars(Prompt)
  /\ WF_vars(SteerAccepted \/ SteerRejected)
  /\ WF_vars(Settle)
  /\ WF_vars(Restart)
  /\ WF_vars(Recover)

FairSpec == Spec /\ Fairness

-----------------------------------------------------------------------------
Time == 0 .. MaxClock
RowType ==
  [disposition : {"none", "queued", "prompted", "steer_pending", "steer_delivered",
                  "completed", "rejected"},
   turn : TurnIds \cup {None}, ordinal : Nat \cup {None}, receivedAt : Time,
   root : (UNION {Roots[e] : e \in Events}) \cup {None}]

\* Type correctness; a row and the input of the turn it names agree, as the
\* replay order needs.
TypeOK ==
  /\ inbox \in [Events -> RowType]
  /\ turns \in [TurnIds -> [state : LiveStates \cup {"none", "interrupted", "completed"},
                            startedAt : Time]]
  /\ inputs \in [TurnIds -> [Events -> [ordinal : Nat \cup {None},
                                        delivered : Time \cup {None}]]]
  /\ intents \in [TurnIds -> Time \cup {None}]
  /\ judging \subseteq Events
  /\ mailbox \in Seq(Events)
  /\ waiting \in Seq(Events)
  /\ actor \in [state : {"idle", "starting", "running", "settling"},
                turn : TurnIds \cup {None}, primary : Events \cup {None},
                count : Nat, steering : Events \cup {None}]
  /\ phase \in {"down", "early", "live"}
  /\ clock \in Time
  /\ answer \in [Events -> {"none", "at_once", "later"}]
  /\ crashes \in 0 .. MaxCrashes
  /\ \A e \in Events : inbox[e].turn # None =>
       inputs[inbox[e].turn][e].ordinal = inbox[e].ordinal

\* An accepted event that is neither settled nor answered is replayed, whatever
\* the crash cut short ("a user message that was never answered must not be
\* dropped").
UnansweredIsReplayed ==
  \A e \in Events : Unsettled(e) /\ answer[e] = "none" => e \in Requeue

\* An event that was answered later than it was delivered is not replayed, in
\* this recovery or any other ("a message that was answered must not be
\* answered a second time").
AnsweredStaysAnswered ==
  \A e \in Events : answer[e] = "later" => e \notin Requeue

\* The inputs of a turn replay together and in the order the turn accepted
\* them: the first keeps the turn's reply target.
ReplayKeepsTurns ==
  \A e, f \in Requeue :
    LET t == inbox[e].turn
    IN t # None /\ inbox[f].turn = t /\ inputs[t][e].ordinal < inputs[t][f].ordinal =>
         /\ ReplayBefore(e, f)
         /\ \A g \in Requeue :
              ReplayBefore(e, g) /\ ReplayBefore(g, f) => inbox[g].turn = t

\* Once recovery has run, no turn of an earlier process is left open.
DeadTurnsClosed ==
  phase = "live" =>
    \A t \in TurnIds \ {actor.turn} :
      turns[t].state \in {"none", "interrupted", "completed"}

\* However often the relay sends it and whatever Pi refuses, an event reaches
\* Pi in one turn at most.
DeliveredOnce ==
  \A e \in Events : \A t, u \in TurnIds : e \in Given(t) \cap Given(u) => t = u

\* A second recovery would replay the same events in the same order, whether
\* or not anything of the first was carried out.
RecoveryIdempotent == [][Recover => Plan' = Plan]_vars

\* Every accepted event is settled or answered in the end, also after a crash.
EveryEventIsHandled ==
  \A e \in Events : Unsettled(e) ~> (~Unsettled(e) \/ answer[e] # "none")
=============================================================================
