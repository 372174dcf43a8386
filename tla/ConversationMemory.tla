-------------------------- MODULE ConversationMemory --------------------------
(***************************************************************************)
(* What the session of a conversation has been told of its channel           *)
(* (src/runtime/history-fetcher.ts and the watermarks of                       *)
(* src/runtime/channel-actor.ts).  A message reaches a session as a prompt, as  *)
(* a steer, or as history: the actor asks the relay for it before it prompts.    *)
(*                                                                                *)
(* The relay the history comes from is the one the subscription replays:          *)
(* module Subscriptions.  The agent's own messages are left out: they are in        *)
(* the transcript of the session that wrote them.                                   *)
(***************************************************************************)
EXTENDS Subscriptions

CONSTANTS
  Limits,     \* contextMessageLimit, before and after pushes
  MaxPushes   \* configurations pushed and rotations: a bound

ASSUME MemoryAssumption == Limits \subseteq Nat /\ MaxPushes \in Nat

VARIABLES
  root,      \* the thread root of each event, itself for a top-level one
  author,    \* whether the author gate lets its author pass
  row,       \* inbox row: none, unjudged, queued, rejected, delivered
  told,      \* what each session was told; a session that exists was prompted
  watermark, \* #watermarks
  turn,      \* the active turn: its trigger, its stage, and (history) whether its
             \* query or an injection failed
  limit,     \* #limit
  ahead,     \* history: events a session was told before the agent received them
  again,     \* history: events told to a session that had been told them
  pushes     \* so far

memoryVars == <<root, author, row, told, watermark, turn, limit, ahead, again,
                pushes>>
fixed      == <<root, author>>
pushed     == <<limit, pushes>>

NoTurn == [trigger |-> None, stage |-> "idle", spoilt |-> FALSE]

\* A top-level message shares the channel's session, a thread has its own.
Keys   == Events \cup {None}
Key(e) == IF root[e] = e THEN None ELSE root[e]

MemoryInit ==
  /\ root \in [Events -> Events] /\ \A e \in Events : root[root[e]] = root[e]
  /\ author \in [Events -> {"allowed", "stranger"}]
  /\ row = [e \in Events |-> "none"]
  /\ told = [k \in Keys |-> {}]
  /\ watermark = [k \in Keys |-> None]
  /\ turn = NoTurn
  /\ limit \in Limits
  /\ ahead = {} /\ again = {} /\ pushes = 0

-----------------------------------------------------------------------------
(* The inbox                                                                *)

\* The handler of the subscription inserts the row, which reads "queued" while
\* the author gate is awaited.
Inserted ==
  row' = [row EXCEPT ![Head1.event] = IF @ = "none" THEN "unjudged" ELSE @]

Judged(e) ==
  /\ row[e] = "unjudged"
  /\ row' = [row EXCEPT ![e] = IF author[e] = "allowed" THEN "queued" ELSE "rejected"]
  /\ UNCHANGED <<vars, fixed, told, watermark, turn, ahead, again, pushed>>

-----------------------------------------------------------------------------
(* History                                                                  *)

\* A thread sees itself and its root, a top-level message the whole channel.
SameConversation(trigger, m) == root[trigger] = trigger \/ root[m] = root[trigger]

Seeds(trigger) == told[Key(trigger)] = {}

\* Mutant: what waits for a turn of its own is history as well.
RelevantWithQueued(trigger) ==
  LET mark == watermark[Key(trigger)]
  IN {m \in Events \ {trigger} :
        /\ Stored(m) /\ SameConversation(trigger, m)
        /\ Seeds(trigger) \/ (row[m] # "delivered" /\ (mark = None \/ stamp[m] > mark))}

\* Events waiting for a turn of their own are left out, and of a session that
\* continues the delivered ones and those up to the watermark.
Relevant(trigger) ==
  LET mark == watermark[Key(trigger)]
  IN {m \in Events \ {trigger} :
        /\ Stored(m) /\ SameConversation(trigger, m)
        /\ row[m] \notin {"unjudged", "queued"}
        /\ Seeds(trigger) \/ (row[m] # "delivered" /\ (mark = None \/ stamp[m] > mark))}

\* Mutant: the oldest of them are kept.
WindowsOldest(trigger) ==
  LET all == Relevant(trigger)
  IN {w \in SUBSET all :
        /\ Cardinality(w) = Min2(limit, Cardinality(all))
        /\ \A m \in all \ w : \A n \in w : stamp[m] >= stamp[n]}

\* The newest of them, up to the limit.
Windows(trigger) ==
  LET all == Relevant(trigger)
  IN {w \in SUBSET all :
        /\ Cardinality(w) = Min2(limit, Cardinality(all))
        /\ \A m \in all \ w : \A n \in w : stamp[m] <= stamp[n]}

\* It never moves back.
NoteWatermark(k, events) ==
  \E at \in {stamp[e] : e \in events} \cup ({watermark[k]} \ {None}) :
    /\ \A e \in events : stamp[e] <= at
    /\ watermark[k] # None => watermark[k] <= at
    /\ watermark' = [watermark EXCEPT ![k] = at]

Tells(k, events) ==
  /\ told' = [told EXCEPT ![k] = @ \cup events]
  /\ again' = again \cup (told[k] \cap events)

-----------------------------------------------------------------------------
(* Turns                                                                    *)

\* The trigger is prompted durably before the session is opened.
StartTurn(e) ==
  /\ turn = NoTurn /\ row[e] = "queued"
  /\ turn' = [NoTurn EXCEPT !.trigger = e, !.stage = "starting"]
  /\ row' = [row EXCEPT ![e] = "delivered"]
  /\ UNCHANGED <<vars, fixed, told, watermark, ahead, again, pushed>>

\* The relay answers with the window, or not at all; of a delta each message is
\* injected or fails to be.  Then the trigger is prompted.
Prompt ==
  /\ turn.stage = "starting"
  /\ LET e == turn.trigger IN
       \E window \in {{}} \cup Windows(e) : \E heard \in SUBSET window :
         /\ Seeds(e) => heard = window
         /\ turn' = [turn EXCEPT !.stage = "running",
                                  !.spoilt = window \notin Windows(e) \/ heard # window]
         /\ Tells(Key(e), heard \cup {e})
         /\ NoteWatermark(Key(e), heard \cup {e})
         /\ ahead' = ahead \cup {m \in heard : row[m] = "none"}
  /\ UNCHANGED <<vars, fixed, row, pushed>>

\* A message of the conversation joins the turn that runs, in its session.
Steer(e) ==
  /\ turn.stage = "running"
  /\ row[e] = "queued" /\ root[e] = root[turn.trigger]
  /\ row' = [row EXCEPT ![e] = "delivered"]
  /\ Tells(Key(turn.trigger), {e})
  /\ NoteWatermark(Key(turn.trigger), {e})
  /\ UNCHANGED <<vars, fixed, turn, ahead, pushed>>

Settle ==
  /\ turn.stage = "running"
  /\ turn' = NoTurn
  /\ UNCHANGED <<vars, fixed, row, told, watermark, ahead, again, pushed>>

Streaming == IF turn.stage = "running" THEN {Key(turn.trigger)} ELSE {}

\* A configuration push disposes of the sessions that do not stream and keeps the
\* watermarks; it may bring another limit.
ConfigPush ==
  /\ pushes < MaxPushes /\ pushes' = pushes + 1
  /\ told' = [k \in Keys |-> IF k \in Streaming THEN told[k] ELSE {}]
  /\ limit' \in Limits
  /\ UNCHANGED <<vars, fixed, row, watermark, turn, ahead, again>>

\* The owner's !rotate ends the turn and drops the sessions of the channel.
Rotate ==
  /\ pushes < MaxPushes /\ pushes' = pushes + 1
  /\ turn.stage # "starting"
  /\ turn' = NoTurn
  /\ told' = [k \in Keys |-> {}]
  /\ watermark' = [k \in Keys |-> None]
  /\ UNCHANGED <<vars, fixed, row, limit, ahead, again>>

Actor ==
  \/ \E e \in Events : Judged(e) \/ StartTurn(e) \/ Steer(e)
  \/ Prompt \/ Settle \/ ConfigPush \/ Rotate

\* A handler that throws has inserted nothing.
MemoryNext ==
  \/ Actor
  \/ Deliver /\ Inserted
       /\ UNCHANGED <<fixed, told, watermark, turn, ahead, again, pushed>>
  \/ Elsewhere /\ UNCHANGED memoryVars

MemorySpec == Init /\ MemoryInit /\ [][MemoryNext]_<<vars, memoryVars>>

-----------------------------------------------------------------------------
\* "Nothing enters a session twice" (channel-actor.ts, #watermarks): neither as
\* history after a prompt or a steer, nor as history of two turns, nor as a prompt
\* after history; but an event that the relay shows before the subscription
\* delivers it is not recognised.
NothingToldTwice == again \subseteq ahead

\* What is newer than everything a session was told, of its conversation, not
\* waiting for a turn of its own and not delivered to another session, is told
\* with the next prompt, up to the limit, whatever was pushed, rotated or lost
\* before; unless the query or the injection of this very turn fails.
NewsReachTheSession ==
  [][ turn.stage = "starting" /\ turn'.stage = "running"
      /\ ~turn'.spoilt =>
        LET e == turn.trigger  k == Key(e) IN
          \A m \in Events \ {e} :
            /\ Stored(m) /\ SameConversation(e, m)
            /\ row[m] \notin {"unjudged", "queued"}
            /\ row[m] = "delivered" => told[k] = {}
            /\ \A n \in told[k] : stamp[n] < stamp[m]
            => \/ m \in told'[k]
               \/ Cardinality({n \in told'[k] \ (told[k] \cup {e}) : stamp[n] >= stamp[m]})
                    >= limit ]_<<vars, memoryVars>>
=============================================================================
