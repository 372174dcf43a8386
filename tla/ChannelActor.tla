---------------------------- MODULE ChannelActor ----------------------------
(***************************************************************************)
(* The per-channel actor (src/runtime/channel-actor.ts) with the durable    *)
(* rows it writes (inbox, turns, turn_inputs) and the Pi sessions it        *)
(* drives, the latter modelled from the way the actor uses them.            *)
(*                                                                         *)
(* A handler runs from one `await` to the next in one step; `frame` is the  *)
(* place where the handler on the pump is suspended.  Everything else (new  *)
(* events, Pi events, cancels, config pushes) happens between those steps.  *)
(*                                                                         *)
(* A turn is named by the event that triggered it: newTurnId() is unique    *)
(* and DeliveredOnce below shows that no event starts two turns.            *)
(***************************************************************************)
EXTENDS Integers, Sequences, FiniteSets

CONSTANTS
  Events,       \* accepted inbound Nostr events
  ThreadRoot,   \* canonicalThreadRoot: the root event of each event's thread,
                \* which may itself never have been submitted
  ChannelKey,   \* session key of the channel-level conversation
  None,         \* no event, no session, no run
  Permits,      \* semaphore permits this channel can obtain
  Reports,      \* the events a run emits before it ends: a bound
  Allowed,          \* the disturbances that may happen
  MaxDisturbances   \* and how many of them: a bound

Disturbances == {"cancel", "rotate", "close", "open_failure",
                 "prompt_failure", "abort_failure", "config_push"}

Keys == Events \cup {ChannelKey}

ASSUME ActorAssumption ==
  /\ ThreadRoot \in [Events -> Events]
  /\ ChannelKey \notin Events
  /\ None \notin Keys
  /\ Permits \in Nat \ {0}
  /\ Reports \subseteq {"message_end", "agent_end"}
  /\ Allowed \subseteq Disturbances
  /\ MaxDisturbances \in Nat

VARIABLES
  mailbox,       \* #mailbox, first in first out
  frame,         \* where the running handler awaits; see Ready
  state,         \* #state
  turn,          \* #turn: its trigger and the inputs accepted so far
  session,       \* #session: key of the cached, subscribed session
  queue,         \* #queue: events waiting for a turn of their own
  staleSettles,  \* #staleSettles
  permits,       \* semaphore permits held on behalf of this actor
  inbox,         \* inbox rows: disposition and turn_id
  turnState,     \* turns.state, by trigger
  turnInputs,    \* turn_inputs rows
  registry,      \* keys with a live session in the session registry
  live,          \* the run each session is executing, by trigger
  trailing,      \* aborted runs of each session that still owe agent_settled
  emitted,       \* non-terminal Pi events each run has emitted
  closing,       \* the channel was removed: no more submits
  delivered,     \* history: how often an event was handed to Pi
  outputs,       \* history: <<run, turn>> for every recorded output
  dropped,       \* history: events whose handler threw inside the pump
  spent          \* disturbances so far

durable  == <<inbox, turnState, turnInputs>>
pi       == <<registry, live, trailing, emitted>>
history  == <<delivered, outputs, dropped>>
vars     == <<mailbox, frame, state, turn, session, queue, staleSettles, permits,
              durable, pi, closing, history, spent>>

-----------------------------------------------------------------------------
NoTurn == [trigger |-> None, inputs |-> <<>>]
Active == turn.trigger # None

Ready == [at |-> "ready", event |-> None, then |-> "done"]

Conversation(e) == ThreadRoot[e]

\* A thread gets its own session; top-level messages share the channel's.
SessionKey(e) == IF ThreadRoot[e] = e THEN ChannelKey ELSE ThreadRoot[e]

Row(t, e, n) == [turn |-> t, event |-> e, ordinal |-> n, delivered |-> FALSE]

Message(kind, e) == [kind |-> kind, event |-> e]

Control == {"cancel", "rotate", "close"}
PiKinds == {"message_end", "agent_end", "agent_settled"}

\* #post: a closed actor drops everything that arrives.
Post(m) == mailbox' = IF state = "closed" THEN mailbox ELSE Append(mailbox, m)

Spend(d) ==
  /\ d \in Allowed
  /\ spent < MaxDisturbances
  /\ spent' = spent + 1

-----------------------------------------------------------------------------
Init ==
  /\ mailbox = <<>>
  /\ frame = Ready
  /\ state = "idle"
  /\ turn = NoTurn
  /\ session = None
  /\ queue = <<>>
  /\ staleSettles = 0
  /\ permits = 0
  /\ inbox = [e \in Events |-> [disposition |-> "none", turn |-> None]]
  /\ turnState = [e \in Events |-> "none"]
  /\ turnInputs = {}
  /\ registry = {}
  /\ live = [k \in Keys |-> None]
  /\ trailing = [k \in Keys |-> <<>>]
  /\ emitted = [e \in Events |-> {}]
  /\ closing = FALSE
  /\ delivered = [e \in Events |-> 0]
  /\ outputs = {}
  /\ dropped = {}
  /\ spent = 0

-----------------------------------------------------------------------------
(* What reaches the mailbox from outside.                                   *)

\* AppRuntime inserts the row and ChannelRegistry.submit posts the event.
Submit(e) ==
  /\ ~closing
  /\ inbox[e].disposition = "none"
  /\ inbox' = [inbox EXCEPT ![e].disposition = "queued"]
  /\ Post(Message("inbound", e))
  /\ UNCHANGED <<frame, state, turn, session, queue, staleSettles, permits,
                 turnState, turnInputs, pi, closing, history, spent>>

PostOnly(m) ==
  /\ Post(m)
  /\ UNCHANGED <<frame, state, turn, session, queue, staleSettles, permits,
                 durable, pi, history>>

\* #watchIdle: the turn went quiet or ran too long.  Nothing remembers that a
\* cancel was already posted, so every tick posts another.
WatchFires ==
  /\ Active
  /\ Spend("cancel")
  /\ PostOnly(Message("cancel", None))
  /\ UNCHANGED closing

\* cancel(): the owner's command.  A cancel names no turn: it aborts the one
\* that is active when it is taken.
OwnerCancels ==
  /\ ~closing
  /\ Spend("cancel")
  /\ PostOnly(Message("cancel", None))
  /\ UNCHANGED closing

PostRotate ==
  /\ ~closing
  /\ Spend("rotate")
  /\ PostOnly(Message("rotate", None))
  /\ UNCHANGED closing

PostClose ==
  /\ ~closing
  /\ Spend("close")
  /\ PostOnly(Message("close", None))
  /\ closing' = TRUE

-----------------------------------------------------------------------------
(* Helpers of the handlers.                                                 *)

\* The pump takes the next message once no handler is running.
Take(kind) ==
  /\ frame.at = "ready"
  /\ mailbox # <<>>
  /\ Head(mailbox).kind = kind
  /\ mailbox' = Tail(mailbox)

\* What the caller of an awaited step does next: the rest of #onRotate or
\* #onClose, or the next message of the pump.
Return(next) ==
  frame' = IF next = "done" THEN Ready
           ELSE [Ready EXCEPT !.at = "resuming", !.then = next]

\* Mutant: the turn is created without assigning the inbox row to it.
BeginTurnUnassigned(e, next, inb, ts) ==
  /\ state' = "starting"
  /\ turnState' = [ts EXCEPT ![e] = "created"]
  /\ turnInputs' = turnInputs \cup {Row(e, e, 0)}
  /\ inbox' = inb
  /\ frame' = [at |-> "acquiring", event |-> e, then |-> next]

\* #startTurn up to its first await, on top of the rows `inb` and `ts`.
BeginTurn(e, next, inb, ts) ==
  /\ state' = "starting"
  /\ turnState' = [ts EXCEPT ![e] = "created"]
  /\ turnInputs' = turnInputs \cup {Row(e, e, 0)}
  /\ inbox' = [inb EXCEPT ![e] = [disposition |-> "prompted", turn |-> e]]
  /\ frame' = [at |-> "acquiring", event |-> e, then |-> next]

\* InboxRepository.completeTurnInputs
CompletedInputs(t) ==
  [e \in Events |->
     IF inbox[e].turn = t /\ inbox[e].disposition \in {"prompted", "steer_delivered"}
     THEN [inbox[e] EXCEPT !.disposition = "completed"]
     ELSE inbox[e]]

\* TurnRepository.markInputDelivered
Delivered(t, e) ==
  {IF r.turn = t /\ r.event = e THEN [r EXCEPT !.delivered = TRUE] ELSE r :
     r \in turnInputs}

\* #dispatchQueued
Dispatch(next, inb, ts) ==
  \/ /\ queue = <<>>
     /\ state' = "idle"
     /\ turnState' = ts
     /\ inbox' = inb
     /\ Return(next)
     /\ UNCHANGED <<queue, turnInputs>>
  \/ /\ queue # <<>>
     /\ queue' = Tail(queue)
     /\ BeginTurn(Head(queue), next, inb, ts)

CloseTurn(next) ==
  /\ Active
  /\ turn' = NoTurn
  /\ Dispatch(next, CompletedInputs(turn.trigger),
              [turnState EXCEPT ![turn.trigger] = "completed"])

\* A turn was closed already, or its start failed.
SettleNothing(next) ==
  /\ ~Active
  /\ state' = IF state = "closed" THEN "closed" ELSE "idle"
  /\ Return(next)
  /\ UNCHANGED <<turn, queue, permits, durable>>

\* Mutant: the semaphore permit is not given back.
SettleKeepsPermit(next) ==
  SettleNothing(next) \/ (CloseTurn(next) /\ UNCHANGED permits)

\* #settle
Settle(next) ==
  \/ SettleNothing(next)
  \/ CloseTurn(next) /\ permits' = permits - 1

\* Mutant: the event is queued durably and forgotten in memory.
EnqueueOnDiskOnly(e) ==
  /\ inbox' = [inbox EXCEPT ![e].disposition = "queued"]
  /\ UNCHANGED queue

Enqueue(e) ==
  /\ inbox' = [inbox EXCEPT ![e].disposition = "queued"]
  /\ queue' = Append(queue, e)

-----------------------------------------------------------------------------
(* #onInbound                                                               *)

\* Mutant: the conversation is not compared.
SteerableAnyThread(e) ==
  /\ Active
  /\ state \in {"running", "settling"}

Steerable(e) ==
  /\ Active
  /\ state \in {"running", "settling"}
  /\ Conversation(turn.trigger) = Conversation(e)

TakeStartsTurn ==
  /\ Take("inbound")
  /\ LET e == Head(mailbox).event IN
       /\ ~Steerable(e)
       /\ state = "idle"
       /\ BeginTurn(e, "done", inbox, turnState)
  /\ UNCHANGED <<turn, session, queue, staleSettles, permits, pi, closing,
                 history, spent>>

\* Another conversation, a turn that cannot be joined, or (in #steer) a turn
\* whose session is gone.
TakeQueues ==
  /\ Take("inbound")
  /\ LET e == Head(mailbox).event IN
       /\ IF Steerable(e) THEN session = None ELSE state # "idle"
       /\ Enqueue(e)
  /\ UNCHANGED <<frame, state, turn, session, staleSettles, permits, turnState,
                 turnInputs, pi, closing, history, spent>>

\* (turn_id, ordinal) is a unique index; (turn_id, event_id) only ignores.
OrdinalTaken(t, e, n) ==
  \E r \in turnInputs : r.turn = t /\ r.ordinal = n /\ r.event # e

\* #steer up to its first await: the durable steer_pending marker.
TakeSteers ==
  /\ Take("inbound")
  /\ LET e == Head(mailbox).event
         t == turn.trigger
         n == Len(turn.inputs)
     IN /\ Steerable(e)
        /\ session # None
        /\ ~OrdinalTaken(t, e, n)
        /\ turnInputs' = turnInputs \cup {Row(t, e, n)}
        /\ inbox' = [inbox EXCEPT ![e] = [disposition |-> "steer_pending", turn |-> t]]
        /\ frame' = [at |-> "steering", event |-> e, then |-> "done"]
  /\ UNCHANGED <<state, turn, session, queue, staleSettles, permits, turnState,
                 pi, closing, history, spent>>

\* The transaction violates the unique index, rolls back, and the pump logs
\* the exception: the event is no longer anywhere in memory.
TakeSteerCollides ==
  /\ Take("inbound")
  /\ LET e == Head(mailbox).event IN
       /\ Steerable(e)
       /\ session # None
       /\ OrdinalTaken(turn.trigger, e, Len(turn.inputs))
       /\ dropped' = dropped \cup {e}
  /\ UNCHANGED <<frame, state, turn, session, queue, staleSettles, permits,
                 durable, pi, closing, delivered, outputs, spent>>

\* session.steer() accepts while the run is still going.
SteerAccepted ==
  /\ frame.at = "steering"
  /\ live[session] # None
  /\ LET e == frame.event
         t == turn.trigger
     IN /\ turn' = [turn EXCEPT !.inputs = Append(@, e)]
        /\ inbox' = [inbox EXCEPT ![e].disposition = "steer_delivered"]
        /\ turnInputs' = Delivered(t, e)
        /\ delivered' = [delivered EXCEPT ![e] = @ + 1]
  /\ frame' = Ready
  /\ UNCHANGED <<mailbox, state, session, queue, staleSettles, permits, turnState,
                 pi, closing, outputs, dropped, spent>>

\* Mutant: the catch block does not return.
SteerRejectedFallsThrough ==
  /\ frame.at = "steering"
  /\ live[session] = None
  /\ queue' = Append(queue, frame.event)
  /\ turn' = [turn EXCEPT !.inputs = Append(@, frame.event)]
  /\ inbox' = [inbox EXCEPT ![frame.event].disposition = "steer_delivered"]
  /\ frame' = Ready
  /\ UNCHANGED <<mailbox, state, session, staleSettles, permits, turnState,
                 turnInputs, pi, closing, history, spent>>

\* session.steer() rejects because the run settled first: the event is
\* requeued; its turn_inputs row stays behind.
SteerRejected ==
  /\ frame.at = "steering"
  /\ live[session] = None
  /\ inbox' = [inbox EXCEPT ![frame.event] = [disposition |-> "queued", turn |-> None]]
  /\ queue' = Append(queue, frame.event)
  /\ frame' = Ready
  /\ UNCHANGED <<mailbox, state, turn, session, staleSettles, permits, turnState,
                 turnInputs, pi, closing, history, spent>>

-----------------------------------------------------------------------------
(* #startTurn after its awaits.                                             *)

\* The cached session still lives and belongs to the conversation of e.
Reusable(e) == session = SessionKey(e) /\ session \in registry

\* Semaphore.acquire() resolves; #ensureSession drops a session that was
\* disposed or belongs to another conversation, or reuses the cached one.
GrantPermit ==
  /\ frame.at = "acquiring"
  /\ permits < Permits
  /\ permits' = permits + 1
  /\ IF Reusable(frame.event)
     THEN /\ frame' = [frame EXCEPT !.at = "preparing"]
          /\ UNCHANGED session
     ELSE /\ frame' = [frame EXCEPT !.at = "opening"]
          /\ session' = None
  /\ UNCHANGED <<mailbox, state, turn, queue, staleSettles, durable, pi, closing,
                 history, spent>>

\* SessionRegistry.acquire returns the session it holds, or a new one.
OpenSucceeds ==
  /\ frame.at = "opening"
  /\ session' = SessionKey(frame.event)
  /\ registry' = registry \cup {SessionKey(frame.event)}
  /\ frame' = [frame EXCEPT !.at = "preparing"]
  /\ UNCHANGED <<mailbox, state, turn, queue, staleSettles, permits, durable, live,
                 trailing, emitted, closing, history, spent>>

\* acquireSession throws: the exception leaves #startTurn and every caller up
\* to the pump, which logs it.
OpenFails ==
  /\ frame.at = "opening"
  /\ Spend("open_failure")
  /\ dropped' = dropped \cup {frame.event}
  /\ frame' = Ready
  /\ UNCHANGED <<mailbox, state, turn, session, queue, staleSettles, permits,
                 durable, pi, closing, delivered, outputs>>

\* History and labels are in; the turn becomes active and prompt() is called.
\* A session disposed in the meantime has no listeners any more, and a busy
\* session rejects the prompt.
PromptStarts ==
  /\ frame.at = "preparing"
  /\ LET e == frame.event
         busy == live[session] # None
     IN /\ turn' = [trigger |-> e, inputs |-> <<e>>]
        /\ turnState' = [turnState EXCEPT ![e] = "running"]
        /\ turnInputs' = Delivered(e, e)
        /\ delivered' = [delivered EXCEPT ![e] = @ + 1]
        /\ live' = IF busy \/ session \notin registry THEN live
                   ELSE [live EXCEPT ![session] = e]
        /\ mailbox' = IF busy THEN Append(mailbox, Message("cancel", None)) ELSE mailbox
  /\ state' = "running"
  /\ Return(frame.then)
  /\ UNCHANGED <<session, queue, staleSettles, permits, inbox, registry, trailing,
                 emitted, closing, outputs, dropped, spent>>

-----------------------------------------------------------------------------
(* #onPiEvent                                                               *)

\* A visible answer is recorded for the turn that is active now.
TakeMessageEnd ==
  /\ Take("message_end")
  /\ outputs' = IF Active THEN outputs \cup {<<Head(mailbox).event, turn.trigger>>}
                ELSE outputs
  /\ UNCHANGED <<frame, state, turn, session, queue, staleSettles, permits, durable,
                 pi, closing, delivered, dropped, spent>>

\* Mutant: agent_end is taken for the end of the turn.
TakeAgentEndSettles ==
  /\ Take("agent_end")
  /\ Settle("done")
  /\ UNCHANGED <<session, staleSettles, pi, closing, history, spent>>

\* agent_end without willRetry; with willRetry nothing changes.
TakeAgentEnd ==
  /\ Take("agent_end")
  /\ \/ /\ Active
        /\ state' = "settling"
        /\ turnState' = [turnState EXCEPT ![turn.trigger] = "settling"]
     \/ /\ ~Active
        /\ UNCHANGED <<state, turnState>>
  /\ UNCHANGED <<frame, turn, session, queue, staleSettles, permits, inbox,
                 turnInputs, pi, closing, history, spent>>

\* Mutant: every agent_settled is discounted.
TakeAnyAsStale ==
  /\ Take("agent_settled")
  /\ staleSettles' = staleSettles - 1
  /\ UNCHANGED <<frame, state, turn, session, queue, permits, durable, pi, closing,
                 history, spent>>

TakeStaleSettle ==
  /\ Take("agent_settled")
  /\ staleSettles > 0
  /\ staleSettles' = staleSettles - 1
  /\ UNCHANGED <<frame, state, turn, session, queue, permits, durable, pi, closing,
                 history, spent>>

\* Mutant: the stragglers of aborted runs are not told apart.
TakeAnySettle ==
  /\ Take("agent_settled")
  /\ Settle("done")
  /\ UNCHANGED <<session, staleSettles, pi, closing, history, spent>>

TakeSettle ==
  /\ Take("agent_settled")
  /\ staleSettles = 0
  /\ Settle("done")
  /\ UNCHANGED <<session, staleSettles, pi, closing, history, spent>>

-----------------------------------------------------------------------------
(* #onCancel, #onRotate, #onClose                                           *)

\* #onCancel returns at once without a turn or a session, and awaits
\* session.abort() otherwise.  The rest of the caller follows.
TakeControl(kind) ==
  /\ Take(kind)
  /\ LET next == IF kind = "cancel" THEN "done" ELSE kind IN
       IF Active /\ session # None
       THEN frame' = [Ready EXCEPT !.at = "aborting", !.then = next]
       ELSE Return(next)
  /\ UNCHANGED <<state, turn, session, queue, staleSettles, permits, durable, pi,
                 closing, history, spent>>

\* abort() resolves: the run is over and may still owe its agent_settled.
AbortReturns ==
  /\ frame.at = "aborting"
  /\ live' = [live EXCEPT ![session] = None]
  /\ trailing' = IF live[session] = None THEN trailing
                 ELSE [trailing EXCEPT ![session] = Append(@, live[session])]
  /\ staleSettles' = staleSettles + 1
  /\ Settle(frame.then)
  /\ UNCHANGED <<mailbox, session, registry, emitted, closing, history, spent>>

\* abort() rejects: the error is logged and the turn is closed all the same.
AbortFails ==
  /\ frame.at = "aborting"
  /\ live[session] # None
  /\ Spend("abort_failure")
  /\ staleSettles' = staleSettles + 1
  /\ Settle(frame.then)
  /\ UNCHANGED <<mailbox, session, pi, closing, history>>

\* #onRotate drops the cached session, then awaits releaseChannelSessions.
RotateResumes ==
  /\ frame.at = "resuming"
  /\ frame.then = "rotate"
  /\ session' = None
  /\ frame' = [Ready EXCEPT !.at = "releasing"]
  /\ UNCHANGED <<mailbox, state, turn, queue, staleSettles, permits, durable, pi,
                 closing, history, spent>>

\* Disposing a session ends its run for good: it has no listeners left.
Dispose(S) ==
  /\ registry' = registry \ S
  /\ live' = [k \in Keys |-> IF k \in S THEN None ELSE live[k]]
  /\ trailing' = [k \in Keys |-> IF k \in S THEN <<>> ELSE trailing[k]]

RotateReleases ==
  /\ frame.at = "releasing"
  /\ Dispose(registry)
  /\ frame' = Ready
  /\ UNCHANGED <<mailbox, state, turn, session, queue, staleSettles, permits,
                 durable, emitted, closing, history, spent>>

CloseResumes ==
  /\ frame.at = "resuming"
  /\ frame.then = "close"
  /\ state' = "closed"
  /\ frame' = Ready
  /\ UNCHANGED <<mailbox, turn, session, queue, staleSettles, permits, durable, pi,
                 closing, history, spent>>

\* ChannelRegistry.remove after actor.close() has drained the mailbox.
RemoveReleases ==
  /\ closing
  /\ frame = Ready
  /\ mailbox = <<>>
  /\ registry # {}
  /\ Dispose(registry)
  /\ UNCHANGED <<mailbox, frame, state, turn, session, queue, staleSettles, permits,
                 durable, emitted, closing, history, spent>>

-----------------------------------------------------------------------------
(* Pi sessions (external).  Events reach the mailbox of a subscribed actor. *)

Emit(k, kind, run) ==
  IF session = k THEN Post(Message(kind, run)) ELSE UNCHANGED mailbox

\* A run emits each of its reports at most once: a bound.
PiEmits(k, kind) ==
  /\ live[k] # None
  /\ kind \notin emitted[live[k]]
  /\ emitted' = [emitted EXCEPT ![live[k]] = @ \cup {kind}]
  /\ Emit(k, kind, live[k])
  /\ UNCHANGED <<frame, state, turn, session, queue, staleSettles, permits, durable,
                 registry, live, trailing, closing, history, spent>>

\* The run ends.  Aborted runs of the same session report before it.
PiSettles(k) ==
  /\ live[k] # None
  /\ trailing[k] = <<>>
  /\ live' = [live EXCEPT ![k] = None]
  /\ Emit(k, "agent_settled", live[k])
  /\ UNCHANGED <<frame, state, turn, session, queue, staleSettles, permits, durable,
                 registry, trailing, emitted, closing, history, spent>>

TrailingSettles(k) ==
  /\ trailing[k] # <<>>
  /\ trailing' = [trailing EXCEPT ![k] = Tail(@)]
  /\ Emit(k, "agent_settled", Head(trailing[k]))
  /\ UNCHANGED <<frame, state, turn, session, queue, staleSettles, permits, durable,
                 registry, live, emitted, closing, history, spent>>

\* prompt() rejects before the run produced anything (no key, no model): no
\* agent_settled is emitted, only the cancel of the catch handler.
PromptFails(k) ==
  /\ live[k] # None
  /\ emitted[live[k]] = {}
  /\ Spend("prompt_failure")
  /\ live' = [live EXCEPT ![k] = None]
  /\ Post(Message("cancel", None))
  /\ UNCHANGED <<frame, state, turn, session, queue, staleSettles, permits, durable,
                 registry, trailing, emitted, closing, history>>

\* SessionRegistry.applyConfig disposes every session that is not streaming.
ConfigPush ==
  /\ Spend("config_push")
  /\ Dispose({k \in registry : live[k] = None})
  /\ UNCHANGED <<mailbox, frame, state, turn, session, queue, staleSettles, permits,
                 durable, emitted, closing, history>>

-----------------------------------------------------------------------------
Pump ==
  \/ TakeStartsTurn \/ TakeQueues \/ TakeSteers \/ TakeSteerCollides
  \/ SteerAccepted \/ SteerRejected
  \/ GrantPermit \/ OpenSucceeds \/ PromptStarts
  \/ TakeMessageEnd \/ TakeAgentEnd \/ TakeStaleSettle \/ TakeSettle
  \/ \E kind \in Control : TakeControl(kind)
  \/ AbortReturns \/ RotateResumes \/ RotateReleases \/ CloseResumes

Pi ==
  \E k \in Keys :
    \/ \E kind \in Reports : PiEmits(k, kind)
    \/ PiSettles(k)
    \/ TrailingSettles(k)
    \/ PromptFails(k)

Environment ==
  \/ \E e \in Events : Submit(e)
  \/ WatchFires \/ OwnerCancels \/ PostRotate \/ PostClose
  \/ RemoveReleases
  \/ OpenFails \/ AbortFails
  \/ ConfigPush

Next == Pump \/ Pi \/ Environment

Spec == Init /\ [][Next]_vars

\* The pump never stops between two awaits, every promise it awaits settles
\* (the relay query, the permit and the session are all bounded), a run comes
\* to an end, and an aborted run reports.
Fairness ==
  /\ WF_vars(Pump)
  /\ \A k \in Keys : WF_vars(PiSettles(k)) /\ WF_vars(TrailingSettles(k))

FairSpec == Spec /\ Fairness
=============================================================================
