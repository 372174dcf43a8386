---------------------------- MODULE Subscriptions ----------------------------
(***************************************************************************)
(* What the agent asks the relay for after a reconnect, and what it does    *)
(* with an event that arrives again (src/nostr/subscriptions.ts, driven by  *)
(* src/nostr/relay-supervisor.ts).  The connection is up, with its handshake  *)
(* over, or down.                                                           *)
(*                                                                         *)
(* The relay replays the stored events of a request oldest first, then says *)
(* EOSE, then passes on what is published; everything it has sent and the   *)
(* agent has not read is lost with the connection.                          *)
(***************************************************************************)
EXTENDS Integers, Sequences, FiniteSets

CONSTANTS
  Subs,        \* subscription ids
  Events,      \* events other people publish
  SubOf,       \* the subscription each event matches
  Skew,        \* REPLAY_SKEW_SEC
  Lag,         \* how far behind the relay's an author's clock can be
  RotateAt,    \* size at which a generation of seen ids is rotated out
  None,        \* no time, no request
  MaxClock,    \* a bound
  MaxTroubles  \* connections lost, subscriptions closed by either side and
               \* handlers that throw: a bound

ASSUME SubscriptionsAssumption ==
  /\ IsFiniteSet(Events) /\ SubOf \in [Events -> Subs]
  /\ Skew \in Nat /\ Lag \in 0 .. Skew
  /\ RotateAt \in Nat \ {0}
  /\ None \notin Int
  /\ MaxClock \in Nat /\ MaxTroubles \in Nat

VARIABLES
  clock,     \* seconds; the supervisor was constructed at 0
  stamp,     \* created_at of each event, once the relay has stored it
  up,        \* whether there is an authenticated connection
  serving,   \* the since of the request the relay serves, per subscription
  incoming,  \* frames sent by the relay and not read yet
  parked,    \* how many REQs of each wait behind the rate-limit gate
  records,   \* #records: the floors of each registered subscription
  seen,      \* #seen: the two generations of SeenEventIds
  handed,    \* history: events given to a handler, in order
  failed,    \* history: events whose handler threw when it got them last
  reused,    \* history: subscriptions opened while frames of an earlier one
             \* with their id were unread
  ended,     \* history: subscriptions the relay ended for good on this connection
  troubles   \* so far

relay == <<clock, stamp>>
wire  == <<up, serving, incoming, parked>>
vars  == <<relay, wire, records, seen, handed, failed, reused, ended, troubles>>

StartupWatermark == 0

Unregistered == [registered |-> FALSE, lastSeen |-> None, droppedSince |-> None]
Fresh        == [registered |-> TRUE, lastSeen |-> None, droppedSince |-> None]

Registered == {s \in Subs : records[s].registered}

Min2(a, b) == IF a <= b THEN a ELSE b

Trouble == troubles < MaxTroubles /\ troubles' = troubles + 1

Frame(kind, s, e) == [kind |-> kind, sub |-> s, event |-> e]

Init ==
  /\ clock = 0
  /\ stamp = [e \in Events |-> None]
  /\ up = FALSE
  /\ serving = [s \in Subs |-> None]
  /\ incoming = <<>>
  /\ parked = [s \in Subs |-> 0]
  /\ records = [s \in Subs |-> Unregistered]
  /\ seen = [current |-> {}, previous |-> {}]
  /\ handed = <<>>
  /\ failed = {}
  /\ reused = {}
  /\ ended = {}
  /\ troubles = 0

-----------------------------------------------------------------------------
(* Requests                                                                 *)

\* since
Since(r) ==
  LET base == IF r.lastSeen = None THEN StartupWatermark ELSE r.lastSeen - Skew
  IN IF r.droppedSince = None THEN base ELSE Min2(base, r.droppedSince)

Stored(e) == stamp[e] # None

Matches(s, since) == {e \in Events : SubOf[e] = s /\ Stored(e) /\ stamp[e] >= since}

\* The orders in which the relay may replay E.
OldestFirst(E) ==
  {q \in [1 .. Cardinality(E) -> E] :
     \A i, j \in 1 .. Cardinality(E) :
       i < j => q[i] # q[j] /\ stamp[q[i]] <= stamp[q[j]]}

\* The REQ of s, with record r, reaches the relay over a connection whose
\* frames `queue` are unread.
Request(s, r, queue) ==
  LET since == Since(r)
  IN /\ serving' = [serving EXCEPT ![s] = since]
     /\ \E q \in OldestFirst(Matches(s, since)) :
          incoming' = queue \o [i \in DOMAIN q |-> Frame("EVENT", s, q[i])]
                            \o <<Frame("EOSE", s, None)>>

\* #sendReq: at once, or parked while the gate is armed.
SendReq(s, r, queue) ==
  \/ /\ Request(s, r, queue)
     /\ UNCHANGED parked
  \/ /\ parked' = [parked EXCEPT ![s] = @ + 1]
     /\ incoming' = queue
     /\ UNCHANGED serving

-----------------------------------------------------------------------------
(* The supervisor                                                           *)

\* subscribe
Subscribe(s) ==
  /\ s \notin Registered
  /\ records' = [records EXCEPT ![s] = Fresh]
  /\ IF up
     THEN SendReq(s, Fresh, incoming)
     ELSE UNCHANGED <<serving, incoming, parked>>
  /\ reused' = IF \E i \in DOMAIN incoming : incoming[i].sub = s
               THEN reused \cup {s} ELSE reused
  /\ UNCHANGED <<relay, up, seen, handed, failed, troubles, ended>>

\* close() of a subscription; a REQ of its that waits is not written any more.
Unsubscribe(s) ==
  /\ s \in Registered
  /\ Trouble
  /\ records' = [records EXCEPT ![s] = Unregistered]
  /\ serving' = [serving EXCEPT ![s] = None]
  /\ parked' = [parked EXCEPT ![s] = 0]
  /\ ended' = ended \ {s}
  /\ UNCHANGED <<relay, up, incoming, seen, handed, failed, reused>>

\* Mutant: only what was asked for first is asked for again.
ReconnectForgets ==
  /\ ~up
  /\ up' = TRUE
  /\ ended' = {}
  /\ parked' = [s \in Subs |-> IF s \in Registered /\ records[s].lastSeen = None
                              THEN parked[s] + 1 ELSE parked[s]]
  /\ UNCHANGED <<relay, serving, incoming, records, seen, handed, failed, reused, troubles>>

\* #connectOnce: the REQ of every registered subscription.  Each is written or
\* parked; ParkedWrite stands for both.
Reconnect ==
  /\ ~up
  /\ up' = TRUE
  /\ ended' = {}
  /\ parked' = [s \in Subs |-> IF s \in Registered THEN parked[s] + 1 ELSE parked[s]]
  /\ UNCHANGED <<relay, serving, incoming, records, seen, handed, failed, reused, troubles>>

\* The gate lets a REQ go; without a connection it is written to nobody.
ParkedWrite(s) ==
  /\ parked[s] > 0
  /\ parked' = [parked EXCEPT ![s] = @ - 1]
  /\ IF up THEN Request(s, records[s], incoming) ELSE UNCHANGED <<serving, incoming>>
  /\ UNCHANGED <<relay, up, records, seen, handed, failed, reused, troubles, ended>>

\* The connection is lost; REQs stay parked.
Break ==
  /\ up
  /\ Trouble
  /\ up' = FALSE
  /\ serving' = [s \in Subs |-> None]
  /\ incoming' = <<>>
  /\ UNCHANGED <<relay, parked, records, seen, handed, failed, reused, ended>>

Head1 == Head(incoming)

\* admit, for an id that was not seen
Admit(e) ==
  LET current == seen.current \cup {e}
  IN seen' = IF Cardinality(current) >= RotateAt
             THEN [current |-> {}, previous |-> current]
             ELSE [seen EXCEPT !.current = current]

\* noteDelivered
NoteDelivered(r, at) ==
  [r EXCEPT !.lastSeen = IF r.lastSeen = None \/ at > r.lastSeen THEN at ELSE r.lastSeen]

\* noteDropped
NoteDropped(r, at) ==
  [r EXCEPT !.droppedSince =
     IF r.droppedSince = None \/ at < r.droppedSince THEN at ELSE r.droppedSince]

Seen(e) == e \in seen.current \cup seen.previous

Reads(kind) ==
  /\ incoming # <<>>
  /\ Head1.kind = kind
  /\ UNCHANGED <<relay, up>>

\* deliver, for an event of a closed subscription or one seen before.
Ignore ==
  /\ Reads("EVENT")
  /\ Head1.sub \notin Registered \/ Seen(Head1.event)
  /\ incoming' = Tail(incoming)
  /\ UNCHANGED <<serving, parked, records, seen, handed, failed, reused, troubles, ended>>

\* deliver, to a handler that returns.
Deliver ==
  /\ Reads("EVENT")
  /\ Head1.sub \in Registered
  /\ ~Seen(Head1.event)
  /\ Admit(Head1.event)
  /\ records' = [records EXCEPT ![Head1.sub] = NoteDelivered(@, stamp[Head1.event])]
  /\ handed' = Append(handed, Head1.event)
  /\ failed' = failed \ {Head1.event}
  /\ incoming' = Tail(incoming)
  /\ UNCHANGED <<serving, parked, reused, troubles, ended>>

\* deliver, to a handler that throws: the event counts as seen all the same.
DeliverFails ==
  /\ Reads("EVENT")
  /\ Trouble
  /\ Head1.sub \in Registered
  /\ ~Seen(Head1.event)
  /\ Admit(Head1.event)
  /\ records' = [records EXCEPT ![Head1.sub] =
       NoteDropped(NoteDelivered(@, stamp[Head1.event]), stamp[Head1.event])]
  /\ handed' = Append(handed, Head1.event)
  /\ failed' = failed \cup {Head1.event}
  /\ incoming' = Tail(incoming)
  /\ UNCHANGED <<serving, parked, reused, ended>>

\* noteReplayComplete
ReadEose ==
  /\ Reads("EOSE")
  /\ records' = [records EXCEPT ![Head1.sub].droppedSince = None]
  /\ incoming' = Tail(incoming)
  /\ UNCHANGED <<serving, parked, seen, handed, failed, reused, troubles, ended>>

\* #onSubscriptionClosed: asked for again unless the reason is a terminal one.
ReadClosed ==
  /\ Reads("CLOSED")
  /\ IF Head1.sub \in Registered
     THEN \/ SendReq(Head1.sub, records[Head1.sub], Tail(incoming)) /\ UNCHANGED ended
          \/ /\ incoming' = Tail(incoming)
             /\ ended' = ended \cup {Head1.sub}
             /\ UNCHANGED <<serving, parked>>
     ELSE incoming' = Tail(incoming) /\ UNCHANGED <<serving, parked, ended>>
  /\ UNCHANGED <<records, seen, handed, failed, reused, troubles>>

-----------------------------------------------------------------------------
(* The relay and the authors (external)                                     *)

\* An event is published; its author's clock may be behind.
Publish(e, at) ==
  /\ ~Stored(e)
  /\ stamp' = [stamp EXCEPT ![e] = at]
  /\ LET s == SubOf[e]
     IN incoming' = IF up /\ serving[s] # None /\ serving[s] <= at
                    THEN Append(incoming, Frame("EVENT", s, e)) ELSE incoming
  /\ UNCHANGED <<clock, up, serving, parked, records, seen, handed, failed, reused, troubles, ended>>

\* The relay ends a subscription.
RelayCloses(s) ==
  /\ up
  /\ serving[s] # None
  /\ Trouble
  /\ serving' = [serving EXCEPT ![s] = None]
  /\ incoming' = Append(incoming, Frame("CLOSED", s, None))
  /\ UNCHANGED <<relay, up, parked, records, seen, handed, failed, reused, ended>>

Tick ==
  /\ clock < MaxClock
  /\ clock' = clock + 1
  /\ UNCHANGED <<stamp, wire, records, seen, handed, failed, reused, troubles, ended>>

\* All but the deliveries, on which the rest of the agent hangs.
Elsewhere ==
  \/ \E s \in Subs : Subscribe(s) \/ Unsubscribe(s) \/ ParkedWrite(s) \/ RelayCloses(s)
  \/ Reconnect \/ Break
  \/ Ignore \/ DeliverFails \/ ReadEose \/ ReadClosed
  \/ \E e \in Events, at \in clock - Lag .. clock : Publish(e, at)
  \/ Tick

Next == Elsewhere \/ Deliver

Spec == Init /\ [][Next]_vars

-----------------------------------------------------------------------------
Elements(q) == {q[i] : i \in DOMAIN q}
Seconds == -Lag .. MaxClock

\* Type correctness; the memory of seen ids is bounded by two generations.
TypeOK ==
  /\ clock \in 0 .. MaxClock
  /\ stamp \in [Events -> Seconds \cup {None}]
  /\ up \in BOOLEAN
  /\ serving \in [Subs -> Int \cup {None}]
  /\ incoming \in Seq([kind : {"EVENT", "EOSE", "CLOSED"}, sub : Subs,
                       event : Events \cup {None}])
  /\ parked \in [Subs -> Nat] /\ \A s \in Subs \ Registered : parked[s] = 0
  /\ records \in [Subs -> [registered : BOOLEAN, lastSeen : Seconds \cup {None},
                           droppedSince : Seconds \cup {None}]]
  /\ seen \in [current : SUBSET Events, previous : SUBSET Events]
  /\ Cardinality(seen.current) < RotateAt
  /\ Cardinality(seen.previous) <= RotateAt
  /\ handed \in Seq(Events)
  /\ failed \subseteq Elements(handed)
  /\ reused \subseteq Subs
  /\ ended \subseteq Subs
  /\ troubles \in 0 .. MaxTroubles

\* Events the agent should have heard of and no handler was given.
Missed(s) ==
  {e \in Events : /\ SubOf[e] = s /\ Stored(e) /\ stamp[e] >= StartupWatermark
                  /\ e \notin Elements(handed)}

\* Once everything was read and no request is parked, nothing is missing, whatever
\* was lost with earlier connections, unless the relay ended the subscription
\* ("replays the REQ on every new socket with a floor derived from what was
\* actually delivered").
NothingMissing ==
  up /\ incoming = <<>> =>
    \A s \in Registered \ reused :
      parked[s] = 0 /\ (s \in ended => serving[s] # None) => Missed(s) = {}

\* Wherever the connection breaks, the next request asks for every event that
\* was not delivered yet, also one whose author's clock is behind.  (An unread
\* frame of a subscription that was closed and opened again counts as delivered
\* to the new one, whose own request may still be parked: `reused`.)
FloorCoversMissing ==
  \A s \in Registered \ reused : \A e \in Missed(s) : stamp[e] >= Since(records[s])

\* An event is given to a handler again only after a whole generation of others.
SeenWindow ==
  \A i, j \in DOMAIN handed : i < j /\ handed[i] = handed[j] => j - i > RotateAt

\* An event whose handler threw is handed over again when the relay replays it
\* ("the next REQ rewinds far enough to see the event again instead of silently
\* losing it").
FailuresAreRedelivered ==
  [][ incoming # <<>> /\ incoming' = Tail(incoming) /\ Head1.kind = "EVENT"
      /\ Head1.sub \in Registered \ reused /\ Head1.event \in failed
      => handed' # handed ]_vars
=============================================================================
