--------------------------- MODULE OutboxPublisher ---------------------------
(***************************************************************************)
(* From a finished assistant message to an event on the relay: the output   *)
(* router (src/runtime/output-router.ts), the tables it fills               *)
(* (src/state/outbox-repository.ts) and the publisher loop that drains them *)
(* (src/nostr/publisher.ts), with a relay that may refuse an event, lose it *)
(* or lose its answer, and a process that may crash anywhere.               *)
(*                                                                         *)
(* A part is one chunk of one message; its logical id is the message and    *)
(* the index of the chunk.  Signing a part again would give another event,  *)
(* so an event is a part with the number of its signature.                  *)
(***************************************************************************)
EXTENDS Integers, Sequences, FiniteSets

CONSTANTS
  Messages,     \* assistant messages with a visible text
  Turn,         \* the turn each message belongs to
  Chunks,       \* how many chunks the oversize policy makes of each message
  NoPart,         \* no part
  MaxAttempts,  \* maxAttempts of the publisher
  MaxOrdinal,   \* ordinals a turn hands out: a bound
  MaxCrashes    \* a bound

Turns == {Turn[m] : m \in Messages}

ASSUME PublisherAssumption ==
  /\ Chunks \in [Messages -> Nat]
  /\ MaxAttempts \in Nat \ {0}
  /\ MaxOrdinal \in Nat
  /\ MaxCrashes \in Nat

\* A part is named by its message and its index in it.
PartsOf(m) == {<<m, i>> : i \in 0 .. Chunks[m] - 1}
Parts == UNION {PartsOf(m) : m \in Messages}
TurnOf(p) == Turn[p[1]]
Chunk(p) == p[2]

ASSUME NoPartAssumption == NoPart \notin Parts

VARIABLES
  intents,   \* output_intents: state and ordinal of each part
  rows,      \* outbox: state, attempts, whether next_retry_at is ahead, event
  signed,    \* how many signatures each part has
  ordinals,  \* #ordinals of the output router: the next one of each turn
  over,      \* turns that can produce no more output
  phase,     \* of the publisher loop
  batch,     \* what the current drain has still to publish
  sending,   \* the part whose publish() is awaited
  woken,     \* #woken
  network,   \* events sent and neither stored nor lost yet
  relay,     \* events the relay stored, in the order they arrived
  crashes    \* so far

tables == <<intents, rows, signed>>
loop   == <<phase, batch, sending, woken>>
outboxVars   == <<tables, ordinals, over, loop, network, relay, crashes>>

NoIntent == [state |-> "none", ordinal |-> 0]
NoRow    == [state |-> "none", attempts |-> 0, waiting |-> FALSE, event |-> 0]

\* A row in a new state; its event never changes.
Marked(row, state, attempts, waiting) ==
  [state |-> state, attempts |-> attempts, waiting |-> waiting, event |-> row.event]

Event(p) == <<p, rows[p].event>>
OnRelay(v) == \E i \in DOMAIN relay : relay[i] = v

OutboxInit ==
  /\ intents = [p \in Parts |-> NoIntent]
  /\ rows = [p \in Parts |-> NoRow]
  /\ signed = [p \in Parts |-> 0]
  /\ ordinals = [t \in Turns |-> 0]
  /\ over = {}
  /\ phase = "start"
  /\ batch = {}
  /\ sending = NoPart
  /\ woken = FALSE
  /\ network = {}
  /\ relay = <<>>
  /\ crashes = 0

-----------------------------------------------------------------------------
(* OutputRouter                                                             *)

New(S) == {p \in S : intents[p].state = "none"}

\* putIntent; `whole` will be signed before anything else happens.
PutIntents(whole, half) ==
  intents' = [p \in Parts |->
    IF p \in whole \cup half
    THEN [state |-> IF p \in whole THEN "signed" ELSE "pending",
          ordinal |-> ordinals[TurnOf(p)] + Chunk(p)]
    ELSE intents[p]]

\* build and putSigned.
PutSigned(S) ==
  /\ signed' = [p \in Parts |-> IF p \in S THEN signed[p] + 1 ELSE signed[p]]
  /\ rows' = [p \in Parts |->
       IF p \in S
       THEN [state |-> "pending", attempts |-> 0, waiting |-> FALSE,
             event |-> signed[p] + 1]
       ELSE rows[p]]

\* Mutant: a part that was recorded before is signed and stored again.
StoreAgain(whole, half) == PutIntents(whole, half) /\ PutSigned(whole)

\* The loop of record(): the parts of `whole` to the end, those of `half` only
\* to their intent.  A part whose intent exists is skipped, the first record of
\* a logical id is authoritative.
Store(whole, half) ==
  PutIntents(New(whole), New(half)) /\ PutSigned(New(whole))

Recordable(m) ==
  /\ phase # "down"
  /\ Turn[m] \notin over
  /\ ordinals[Turn[m]] + Chunks[m] <= MaxOrdinal

\* record(), to its end.  A message may be recorded again: the ids of messages
\* are only unique within a session.
Record(m) ==
  /\ Recordable(m)
  /\ Store(PartsOf(m), {})
  /\ ordinals' = [ordinals EXCEPT ![Turn[m]] = @ + Chunks[m]]
  /\ IF New(PartsOf(m)) # {}
     THEN /\ woken' = TRUE
          /\ phase' = IF phase = "sleeping" THEN "start" ELSE phase
     ELSE UNCHANGED <<woken, phase>>
  /\ UNCHANGED <<over, batch, sending, network, relay, crashes>>

\* finishTurn
FinishTurn(t) ==
  /\ phase # "down"
  /\ t \notin over
  /\ over' = over \cup {t}
  /\ ordinals' = [ordinals EXCEPT ![t] = 0]
  /\ UNCHANGED <<tables, loop, network, relay, crashes>>

-----------------------------------------------------------------------------
(* Crashes.  A new process gives its turns new names, so the turns of the    *)
(* old one are over.                                                         *)

Die ==
  /\ crashes < MaxCrashes
  /\ crashes' = crashes + 1
  /\ phase' = "down"
  /\ batch' = {}
  /\ sending' = NoPart
  /\ woken' = FALSE
  /\ over' = Turns
  /\ ordinals' = [t \in Turns |-> 0]
  /\ UNCHANGED <<network, relay>>

Crash ==
  /\ phase # "down"
  /\ Die
  /\ UNCHANGED tables

\* The process dies in record(), after n chunks and possibly after the intent
\* of the next one.
CrashInRecord(m) ==
  /\ Recordable(m)
  /\ \E n \in 0 .. Chunks[m] - 1, further \in BOOLEAN :
       Store({p \in PartsOf(m) : Chunk(p) < n},
             IF further THEN {<<m, n>>} ELSE {})
  /\ Die

Restart ==
  /\ phase = "down"
  /\ phase' = "start"
  /\ UNCHANGED <<tables, ordinals, over, batch, sending, woken, network, relay, crashes>>

-----------------------------------------------------------------------------
(* OutboxPublisher                                                          *)

\* duePublishes: unacknowledged and not waiting for a retry.
Due == {p \in Parts : rows[p].state \in {"pending", "failed"} /\ ~rows[p].waiting}

\* drainOnce up to its first publish.
BeginDrain ==
  /\ phase = "start"
  /\ phase' = "draining"
  /\ batch' = Due
  /\ UNCHANGED <<tables, ordinals, over, sending, woken, network, relay, crashes>>

\* Mutant: a newer message goes first.
PrecedesNewest(q, p) ==
  Chunk(q) < Chunk(p) \/ (Chunk(q) = Chunk(p) /\ intents[q].ordinal > intents[p].ordinal)

\* The sort of orderForPublish, on top of the ordinals of the query: by the
\* last component of the logical id, which is the index of the chunk.
Precedes(q, p) ==
  Chunk(q) < Chunk(p) \/ (Chunk(q) = Chunk(p) /\ intents[q].ordinal < intents[p].ordinal)

\* The parts of a turn go out one by one; between turns any order will do.
PublishNext(p) ==
  /\ phase = "draining"
  /\ sending = NoPart
  /\ p \in batch
  /\ \A q \in batch : TurnOf(q) = TurnOf(p) => ~Precedes(q, p)
  /\ sending' = p
  /\ batch' = batch \ {p}
  /\ UNCHANGED <<tables, ordinals, over, phase, woken, network, relay, crashes>>

\* The frame leaves; publish() may also fail while the relay is not ready.
Send ==
  /\ sending # NoPart
  /\ ~OnRelay(Event(sending))
  /\ network' = network \cup {Event(sending)}
  /\ UNCHANGED <<tables, ordinals, over, loop, relay, crashes>>

\* markPublished
PublishAccepted ==
  /\ sending # NoPart
  /\ OnRelay(Event(sending))
  /\ rows' = [rows EXCEPT ![sending] =
       Marked(rows[sending], "published", rows[sending].attempts, FALSE)]
  /\ intents' = [intents EXCEPT ![sending].state = "published"]
  /\ sending' = NoPart
  /\ UNCHANGED <<signed, ordinals, over, phase, batch, woken, network, relay, crashes>>

\* A gap in a turn must not be filled by its own later outputs: blockedTurns.
Blocked(p) == {q \in batch : TurnOf(q) = TurnOf(p)}

\* markDeadLetter
Abandon(p) ==
  /\ rows' = [rows EXCEPT ![p] =
       Marked(rows[p], "dead_letter", rows[p].attempts, FALSE)]
  /\ intents' = [intents EXCEPT ![p].state = "abandoned"]

\* markFailed
Postpone(p) ==
  /\ rows' = [rows EXCEPT ![p] =
       Marked(rows[p], "failed", rows[p].attempts + 1, TRUE)]
  /\ UNCHANGED intents

\* Mutant: the attempts are not counted.
PublishFailsUncounted ==
  /\ sending # NoPart
  /\ rows' = [rows EXCEPT ![sending] =
       Marked(rows[sending], "failed", rows[sending].attempts, TRUE)]
  /\ batch' = batch \ Blocked(sending)
  /\ sending' = NoPart
  /\ UNCHANGED <<intents, signed, ordinals, over, phase, woken, network, relay, crashes>>

\* Mutant: a timeout counts as an acknowledgement.
PublishFailsAsPublished ==
  /\ sending # NoPart
  /\ rows' = [rows EXCEPT ![sending] =
       Marked(rows[sending], "published", rows[sending].attempts, FALSE)]
  /\ intents' = [intents EXCEPT ![sending].state = "published"]
  /\ sending' = NoPart
  /\ UNCHANGED <<signed, ordinals, over, phase, batch, woken, network, relay, crashes>>

\* No answer, a connection that is not ready, or a refusal that may pass: the
\* same event is tried again later, up to the attempt bound.
PublishFails ==
  /\ sending # NoPart
  /\ IF rows[sending].attempts + 1 >= MaxAttempts
     THEN Abandon(sending)
     ELSE Postpone(sending)
  /\ batch' = batch \ Blocked(sending)
  /\ sending' = NoPart
  /\ UNCHANGED <<signed, ordinals, over, phase, woken, network, relay, crashes>>

\* The relay refuses the event for good.
PublishRejected ==
  /\ sending # NoPart
  /\ Event(sending) \in network
  /\ Abandon(sending)
  /\ network' = network \ {Event(sending)}
  /\ batch' = batch \ Blocked(sending)
  /\ sending' = NoPart
  /\ UNCHANGED <<signed, ordinals, over, phase, woken, relay, crashes>>

\* #run: drain again if notify() was called meanwhile, sleep otherwise.
EndDrain ==
  /\ phase = "draining"
  /\ sending = NoPart
  /\ batch = {}
  /\ phase' = IF woken THEN "start" ELSE "sleeping"
  /\ woken' = FALSE
  /\ UNCHANGED <<tables, ordinals, over, batch, sending, network, relay, crashes>>

\* #sleepUntilWork: the poll interval is over.
Poll ==
  /\ phase = "sleeping"
  /\ phase' = "start"
  /\ UNCHANGED <<tables, ordinals, over, batch, sending, woken, network, relay, crashes>>

\* next_retry_at is reached.
BackoffElapses(p) ==
  /\ rows[p].waiting
  /\ rows' = [rows EXCEPT ![p].waiting = FALSE]
  /\ UNCHANGED <<intents, signed, ordinals, over, loop, network, relay, crashes>>

-----------------------------------------------------------------------------
(* The relay (external).  It stores an event once, whenever it arrives.      *)

RelayStores(v) ==
  /\ v \in network
  /\ network' = network \ {v}
  /\ relay' = IF OnRelay(v) THEN relay ELSE Append(relay, v)
  /\ UNCHANGED <<tables, ordinals, over, loop, crashes>>

-----------------------------------------------------------------------------
PublishSettles == PublishAccepted \/ PublishFails \/ PublishRejected

OutboxNext ==
  \/ \E m \in Messages : Record(m) \/ CrashInRecord(m)
  \/ \E t \in Turns : FinishTurn(t)
  \/ Crash \/ Restart
  \/ BeginDrain \/ EndDrain \/ Poll \/ Send \/ PublishSettles
  \/ \E p \in Parts : PublishNext(p) \/ BackoffElapses(p)
  \/ \E v \in network : RelayStores(v)

OutboxSpec == OutboxInit /\ [][OutboxNext]_outboxVars

\* The loop keeps running, publish() has a timeout, clocks advance, and the
\* process is started again.
OutboxFairness ==
  /\ WF_outboxVars(Restart)
  /\ WF_outboxVars(BeginDrain) /\ WF_outboxVars(EndDrain) /\ WF_outboxVars(Poll)
  /\ WF_outboxVars(\E p \in Parts : PublishNext(p))
  /\ WF_outboxVars(PublishSettles)
  /\ \A p \in Parts : WF_outboxVars(BackoffElapses(p))

OutboxFairSpec == OutboxSpec /\ OutboxFairness

-----------------------------------------------------------------------------
EventType == Parts \X Nat

\* Type correctness; the attempt bound is never passed.
OutboxTypeOK ==
  /\ intents \in [Parts ->
       [state : {"none", "pending", "signed", "published", "abandoned"}, ordinal : Nat]]
  /\ rows \in [Parts ->
       [state : {"none", "pending", "failed", "published", "dead_letter"},
        attempts : 0 .. MaxAttempts - 1, waiting : BOOLEAN, event : Nat]]
  /\ signed \in [Parts -> Nat]
  /\ ordinals \in [Turns -> Nat]
  /\ over \subseteq Turns
  /\ phase \in {"start", "draining", "sleeping", "down"}
  /\ batch \subseteq Parts
  /\ sending \in Parts \cup {NoPart}
  /\ woken \in BOOLEAN
  /\ network \subseteq EventType
  /\ relay \in Seq(EventType)
  /\ crashes \in Nat

\* However often it is retried, recorded again or interrupted, an output is on
\* the relay as one event at most ("a lost OK can never produce a second event
\* id for the same message").
EffectivelyOnce ==
  \A i, j \in DOMAIN relay : relay[i][1] = relay[j][1] => i = j

\* Nothing is sent that is not durable under the same event id, and nothing
\* counts as published that the relay does not have.
DurableFirst ==
  /\ \A p \in Parts : rows[p].state = "published" => OnRelay(Event(p))
  /\ \A v \in network \cup {relay[i] : i \in DOMAIN relay} :
       rows[v[1]].state # "none" /\ rows[v[1]].event = v[2]

\* The intents tell the same story as the outbox at every moment a crash can
\* show: a signed event behind an intent that looks unsigned would be signed
\* again by recovery.
RowState(s) ==
  CASE s = "none" -> {"none"}
    [] s = "pending" -> {"none"}
    [] s = "signed" -> {"pending", "failed"}
    [] s = "published" -> {"published"}
    [] s = "abandoned" -> {"dead_letter"}
IntentsMatchRows == \A p \in Parts : rows[p].state \in RowState(intents[p].state)

\* Output p of a turn comes before q.
Earlier(p, q) ==
  /\ TurnOf(p) = TurnOf(q)
  /\ intents[p].state # "none"
  /\ intents[q].state # "none"
  /\ intents[p].ordinal < intents[q].ordinal

Arrived(p) == \E i \in DOMAIN relay : relay[i][1] = p
ArrivedBefore(q, p) ==
  \E i \in DOMAIN relay :
    relay[i][1] = q /\ \A j \in DOMAIN relay : relay[j][1] = p => i < j

\* The relay sees the outputs of a turn in the order of their ordinals.
OutputsInOrder ==
  \A p, q \in Parts : Earlier(p, q) => ~ArrivedBefore(q, p)

\* A later output overtakes an earlier one only if the earlier one was tried
\* and failed, never signed because of a crash, or a later chunk of its message.
OrderedUnlessFailed ==
  \A p, q \in Parts :
    Earlier(p, q) /\ Chunk(p) <= Chunk(q) /\ ArrivedBefore(q, p) =>
      rows[p].attempts > 0 \/ rows[p].state \in {"none", "dead_letter"}

\* Every stored output is published or given up in the end, whatever the relay
\* does and whenever the process crashes.
EveryOutputSettles ==
  \A p \in Parts : (rows[p].state \in {"pending", "failed"})
                     ~> (rows[p].state \in {"published", "dead_letter"})
=============================================================================
