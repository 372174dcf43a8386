--------------------------- MODULE RelaySupervisor ---------------------------
(***************************************************************************)
(* One logical connection over many sockets (src/nostr/relay-supervisor.ts): *)
(* dialling, the NIP-42 handshake, reconnects, the rate-limit gate, and the   *)
(* publishes and queries that wait for an answer while sockets come and go.   *)
(* Socket n is the n-th one dialled, and also names the challenge the relay   *)
(* sends on it.  What a socket the supervisor has abandoned still says is     *)
(* delivered until it ends.  Floors and duplicates: module Subscriptions.     *)
(***************************************************************************)
EXTENDS Integers, Sequences, FiniteSets, SequencesExt

CONSTANTS
  Subs,            \* subscription ids
  Events,          \* events given to publish
  Query,           \* the id of the one query
  None,
  StartupAttempts, \* STARTUP_ATTEMPTS
  MaxSockets,      \* a bound on the sockets dialled
  MaxUnread,       \* a bound on the frames unread on a socket
  MaxTroubles      \* refusals, rate limits, broken links and closed
                   \* subscriptions: a bound

ASSUME RelaySupervisorAssumption ==
  /\ Query \notin Subs /\ None \notin Subs \cup Events \cup {Query}
  /\ None \notin {"challenge", "auth", "held", "displaced"}
  /\ StartupAttempts \in Nat \ {0} /\ MaxSockets \in Nat
  /\ MaxUnread \in Nat \ {0} /\ MaxTroubles \in Nat

VARIABLES
  state,     \* #state
  current,   \* #socket, 0 for null
  sockets,   \* every socket dialled so far, with what is under way on it
  challenge, \* #challenge: the buffered challenge, 0 for null
  awaiting,  \* what #connectOnce waits for: "challenge", the OK of "auth", or None
  attempt,   \* #attempt, counted up to StartupAttempts
  ready,     \* #everConnected
  closed,    \* close() was called
  gated,     \* RateLimitGate.gated
  parked,    \* the gate's queue: the subscription or query whose REQ waits
  records,   \* the registered subscriptions
  ended,     \* those the relay closed for good on this connection
  calls,     \* where the publish of each event is
  orphans,   \* OK waiters whose publish has gone: "held", "displaced" or None
  query,     \* where the query is
  crashed,   \* a promise rejected with nobody listening: node ends the process
  troubles

session == <<state, current, challenge, awaiting, attempt, ready, closed>>
gate    == <<gated, parked>>
waiters == <<calls, orphans, query>>
subs    == <<records, ended>>
vars    == <<session, sockets, gate, waiters, subs, crashed, troubles>>

Waiting == {"ready", "gate", "ok"}
Answers == {"accepted", "transient", "terminal"}
Failed  == state = "failed"

Frame(kind, id) == [kind |-> kind, id |-> id, verdict |-> "good"]
Verdict(kind, id, v) == [kind |-> kind, id |-> id, verdict |-> v]

Trouble(v) == /\ v # "good" => troubles < MaxTroubles
              /\ troubles' = troubles + (IF v = "good" THEN 0 ELSE 1)

Init ==
  /\ state = "disconnected" /\ current = 0 /\ sockets = <<>>
  /\ challenge = 0 /\ awaiting = None /\ attempt = 0
  /\ ready = FALSE /\ closed = FALSE
  /\ gated = FALSE /\ parked = <<>>
  /\ records = {} /\ ended = {}
  /\ calls = [e \in Events |-> "idle"]
  /\ orphans = [e \in Events |-> None]
  /\ query = "idle"
  /\ crashed = FALSE /\ troubles = 0

-----------------------------------------------------------------------------
(* Writing to the socket.  #send throws without one, and the socket throws    *)
(* while it still dials; one that is over drops what it is given.  `base` is  *)
(* the sockets with what the step has read taken out.                         *)

Throws == current = 0 \/ sockets[current].link = "dialing"

Sent(base, frames) ==
  [base EXCEPT ![current].pending = IF base[current].link = "open" THEN @ \cup frames ELSE @]

(* A CLOSE has no answer: the relay forgets the request.                      *)
Dropped(base, x) == IF Throws THEN base
                    ELSE [base EXCEPT ![current].serving = @ \ {x},
                                      ![current].pending = @ \ {Frame("req", x)}]

Read(s) == [sockets EXCEPT ![s].inbox = Tail(@)]

(* RateLimitGate.defer for every REQ of the set, else write.                 *)
Defers(limited) == limited \/ parked # <<>>

Requests(base, ids, limited) ==
  IF Defers(limited) \/ ids = {}
  THEN sockets' = base /\ parked' = parked \o SetToSeq(ids)
  ELSE sockets' = Sent(base, {Frame("req", x) : x \in ids}) /\ parked' = parked

(* A record that is removed and a query that is settled leave a parked write  *)
(* that does nothing.                                                        *)
Unpark(x) == [i \in DOMAIN parked |-> IF parked[i] = x THEN None ELSE parked[i]]

-----------------------------------------------------------------------------
(* The life of a connection.                                                 *)

Dial ==
  /\ Len(sockets) < MaxSockets
  /\ sockets' = Append(sockets, [link |-> "dialing", inbox |-> <<>>, pending |-> {},
                                 challenged |-> FALSE, authed |-> FALSE, serving |-> {}])
  /\ current' = Len(sockets) + 1
  /\ state' = "connecting"
  /\ UNCHANGED <<challenge, awaiting, attempt, ready, closed>>

(* connect(); a second call finds the loop running.                          *)
Connect == /\ state = "disconnected" /\ sockets = <<>> /\ ~closed
           /\ Dial
           /\ UNCHANGED <<gate, waiters, subs, crashed, troubles>>

BackoffEnds == /\ state = "backing_off"
               /\ Dial
               /\ UNCHANGED <<gate, waiters, subs, crashed, troubles>>

(* rejectWaiters: whoever waits for an OK is told the connection is gone, and *)
(* a waiter nobody listens to any more rejects into the void.                *)
RejectWaiters(fatal) ==
  /\ calls' = [e \in Events |->
                 IF calls[e] = "ok" \/ (fatal /\ calls[e] = "ready") THEN "transient" ELSE calls[e]]
  /\ crashed' = (\E e \in Events : orphans[e] = "held")
  /\ orphans' = orphans

(* What follows a failure of the connection in #supervise.                   *)
ConnectionEnds(terminal) ==
  LET gaveUp == terminal \/ (~ready /\ attempt + 1 >= StartupAttempts) IN
  /\ current' = 0 /\ awaiting' = None /\ ended' = {}
  /\ attempt' = IF attempt < StartupAttempts THEN attempt + 1 ELSE attempt
  /\ state' = IF gaveUp THEN "failed" ELSE "backing_off"
  /\ RejectWaiters(gaveUp)
  /\ query' = IF gaveUp /\ query = "ready" THEN "rejected" ELSE query
  /\ UNCHANGED <<ready, closed, gate, records>>

Opens(s) == /\ s = current /\ sockets[s].link = "dialing"
            /\ sockets' = [sockets EXCEPT ![s].link = "open"]
            /\ UNCHANGED <<session, gate, waiters, subs, crashed, troubles>>

Authenticate(c, base) == awaiting' = "auth" /\ sockets' = Sent(base, {Frame("auth", c)})

(* #connectOnce goes on: a challenge that came first is buffered.             *)
AwaitChallenge ==
  /\ state = "connecting" /\ sockets[current].link # "dialing"
  /\ state' = "authenticating"
  /\ IF challenge # 0 THEN Authenticate(challenge, sockets)
     ELSE awaiting' = "challenge" /\ sockets' = sockets
  /\ challenge' = 0
  /\ UNCHANGED <<current, attempt, ready, closed, gate, waiters, subs, crashed, troubles>>

(* The upgrade is refused, for good when the HTTP status says so, or nothing   *)
(* answers before CONNECT_TIMEOUT.                                           *)
Refused(s, terminal) ==
  /\ s = current /\ sockets[s].link = "dialing"
  /\ sockets' = [sockets EXCEPT ![s].link = "over"]
  /\ Trouble("bad")
  /\ challenge' = 0
  /\ ConnectionEnds(terminal)

(* AUTH_TIMEOUT: the supervisor drops the socket, which may go on talking.    *)
AuthTimeout ==
  /\ state = "authenticating"
  /\ Trouble("bad")
  /\ ConnectionEnds(FALSE)
  /\ UNCHANGED <<sockets, challenge>>

(* Before the handshake has begun nobody listens to the close, and the        *)
(* handshake runs into its deadline.                                         *)
Breaks(s) ==
  /\ sockets[s].link = "open"
  /\ sockets' = [sockets EXCEPT ![s].link = "over", ![s].inbox = <<>>, ![s].pending = {}]
  /\ IF s # current THEN UNCHANGED <<session, gate, waiters, subs, crashed, troubles>>
     ELSE /\ Trouble("bad")
          /\ challenge' = 0
          /\ IF state = "connecting"
             THEN UNCHANGED <<state, current, awaiting, attempt, ready, closed, gate, waiters,
                              subs, crashed>>
             ELSE ConnectionEnds(FALSE)

(* STABILITY_RESET_MS of uptime.                                             *)
Stable ==
  /\ state = "ready" /\ attempt # 0
  /\ attempt' = 0
  /\ UNCHANGED <<state, current, challenge, awaiting, ready, closed, sockets, gate, waiters,
                 subs, crashed, troubles>>

(* The handshake is accepted: every subscription is asked for again, and      *)
(* publishes and the query that waited for the connection go on.              *)
BecomeReady(base) ==
  LET late == {e \in Events : calls[e] = "ready"}
      asks == records \cup (IF query = "ready" THEN {Query} ELSE {})
      out  == IF gated THEN base ELSE Sent(base, {Frame("event", e) : e \in late})
  IN /\ state' = "ready" /\ ready' = TRUE /\ awaiting' = None
     /\ Requests(out, asks, gated)
     /\ calls' = [e \in Events |-> IF e \in late THEN IF gated THEN "gate" ELSE "ok" ELSE calls[e]]
     /\ orphans' = [e \in Events |-> IF e \in late /\ ~gated /\ orphans[e] = "held"
                                     THEN "displaced" ELSE orphans[e]]
     /\ query' = IF query = "ready" THEN "open" ELSE query
     /\ UNCHANGED <<current, challenge, attempt, closed, gated, subs, crashed>>

(* close(): the process is stopping.                                         *)
Close ==
  /\ ~closed /\ ~Failed
  /\ closed' = TRUE
  /\ current' = 0 /\ awaiting' = None
  /\ state' = "disconnected"
  /\ RejectWaiters(FALSE)
  /\ query' = IF query = "open" THEN "done" ELSE query
  /\ parked' = Unpark(Query)
  /\ UNCHANGED <<challenge, attempt, ready, sockets, gated, subs, troubles>>

-----------------------------------------------------------------------------
(* Frames the relay sends.                                                   *)

OnChallenge(s) ==
  /\ IF awaiting = "challenge"
     THEN /\ Authenticate(s, Read(s)) /\ UNCHANGED challenge
     ELSE challenge' = s /\ sockets' = Read(s) /\ UNCHANGED awaiting
  /\ UNCHANGED <<state, current, attempt, ready, closed, gate, waiters, subs, crashed, troubles>>

(* The OK of the handshake.                                                  *)
OnAuthOk(s, v) ==
  /\ awaiting = "auth"
  /\ CASE v = "good" -> BecomeReady(Read(s)) /\ UNCHANGED troubles
       [] OTHER -> /\ sockets' = Read(s) /\ UNCHANGED <<challenge, troubles>>
                   /\ ConnectionEnds(v = "terminal")

(* The OK of a publish, late or matched; a rate limit arms the gate either way. *)
OnOk(s, e, v) ==
  /\ sockets' = Read(s)
  /\ gated' = (gated \/ v = "limited")
  /\ calls' = [calls EXCEPT ![e] =
                 IF @ # "ok" THEN @
                 ELSE CASE v = "good" -> "accepted" [] v = "terminal" -> "terminal"
                        [] OTHER -> "transient"]
  /\ orphans' = [orphans EXCEPT ![e] =
                   IF @ = "held" /\ calls[e] # "ok" THEN None ELSE @]
  /\ UNCHANGED <<session, parked, query, subs, crashed, troubles>>

(* finish(): the query is answered with what it has, and its request closed.  *)
Finished(base) ==
  /\ query' = "done"
  /\ sockets' = Dropped(base, Query)
  /\ parked' = Unpark(Query)

OnQueryAnswer(s, x) ==
  /\ x = Query
  /\ IF query = "open" THEN Finished(Read(s))
     ELSE sockets' = Read(s) /\ UNCHANGED <<parked, query>>
  /\ UNCHANGED <<session, gated, calls, orphans, subs, crashed, troubles>>

(* Mutant: a rate limit only arms the gate.                                   *)
ClosedForgets(s, x, v) ==
  /\ x \in Subs
  /\ gated' = (gated \/ (v = "limited" /\ x \in records))
  /\ ended' = IF x \in records /\ v = "terminal" THEN ended \cup {x} ELSE ended
  /\ Requests(Read(s), IF v \in {"good", "transient"} THEN records \cap {x} ELSE {}, gated)
  /\ UNCHANGED <<session, waiters, records, crashed, troubles>>

(* CLOSED: asked for again, behind the gate after a rate limit, unless the    *)
(* reason is one that retrying cannot fix.                                   *)
OnSubscriptionClosed(s, x, v) ==
  /\ x \in Subs
  /\ gated' = (gated \/ (v = "limited" /\ x \in records))
  /\ ended' = IF x \in records /\ v = "terminal" THEN ended \cup {x} ELSE ended
  /\ Requests(Read(s), IF v # "terminal" THEN records \cap {x} ELSE {}, gated \/ v = "limited")
  /\ UNCHANGED <<session, waiters, records, crashed, troubles>>

OnNotice(s) == /\ sockets' = Read(s)
               /\ gated' = TRUE
               /\ UNCHANGED <<session, parked, waiters, subs, crashed, troubles>>

(* What an abandoned socket says is ignored, and nothing but the floors hangs  *)
(* on a subscription's EOSE.                                                 *)
Ignore(s) == /\ sockets' = Read(s)
             /\ UNCHANGED <<session, gate, waiters, subs, crashed, troubles>>

(* Mutant: frames of an abandoned socket are handled.                         *)
HandleAny(s) ==
  LET f == Head(sockets[s].inbox) IN
  IF s # current /\ f.kind # "challenge" THEN Ignore(s)
  ELSE
     \/ f.kind = "challenge" /\ (IF current # 0 THEN OnChallenge(s) ELSE Ignore(s))
     \/ f.kind = "auth" /\ OnAuthOk(s, f.verdict)
     \/ f.kind = "event" /\ OnOk(s, f.id, f.verdict)
     \/ f.kind \in {"eose", "closed"} /\ (IF f.id \in Subs THEN Ignore(s) ELSE OnQueryAnswer(s, f.id))
     \/ f.kind = "closed" /\ OnSubscriptionClosed(s, f.id, f.verdict)
     \/ f.kind = "notice" /\ OnNotice(s)

HandleMessage(s) ==
  LET f == Head(sockets[s].inbox) IN
  IF s # current \/ (f.kind = "eose" /\ f.id \in Subs) THEN Ignore(s)
  ELSE
     \/ f.kind = "challenge" /\ OnChallenge(s)
     \/ f.kind = "auth" /\ OnAuthOk(s, f.verdict)
     \/ f.kind = "event" /\ OnOk(s, f.id, f.verdict)
     \/ f.kind \in {"eose", "closed"} /\ OnQueryAnswer(s, f.id)
     \/ f.kind = "closed" /\ OnSubscriptionClosed(s, f.id, f.verdict)
     \/ f.kind = "notice" /\ OnNotice(s)

Receive(s) == sockets[s].inbox # <<>> /\ HandleMessage(s)

-----------------------------------------------------------------------------
(* The gate.  Time only passes: GateOpens is its deadline.                    *)

GateOpens == /\ gated /\ gated' = FALSE
             /\ UNCHANGED <<session, sockets, parked, waiters, subs, crashed, troubles>>

(* One parked write.  With no socket it does nothing, a query ends; on a      *)
(* socket that still dials the write throws, and no caller is there to see it. *)
DrainOne ==
  LET x == Head(parked) IN
  /\ ~gated /\ parked # <<>>
  /\ IF current = 0 /\ x = Query
     THEN query' = "done" ELSE UNCHANGED query
  /\ parked' = Tail(parked)
  /\ crashed' = (x # None /\ current # 0 /\ Throws)
  /\ sockets' = IF x = None \/ Throws THEN sockets ELSE Sent(sockets, {Frame("req", x)})
  /\ UNCHANGED <<session, gated, calls, orphans, subs, troubles>>

-----------------------------------------------------------------------------
(* Callers.                                                                  *)

Subscribe(x) ==
  /\ x \notin records
  /\ records' = records \cup {x}
  /\ IF state = "ready" THEN Requests(sockets, {x}, gated) ELSE UNCHANGED <<sockets, parked>>
  /\ UNCHANGED <<session, gated, waiters, ended, crashed, troubles>>

Unsubscribe(x) ==
  /\ x \in records
  /\ records' = records \ {x} /\ ended' = ended \ {x}
  /\ parked' = Unpark(x)
  /\ sockets' = Dropped(sockets, x)
  /\ Trouble("bad")
  /\ UNCHANGED <<session, gated, waiters, crashed>>

(* The EVENT is written and its OK awaited; when the write throws the answer   *)
(* is transient and the waiter stays behind.                                 *)
SendEvent(e) ==
  /\ calls' = [calls EXCEPT ![e] = IF Throws THEN "transient" ELSE "ok"]
  /\ orphans' = [orphans EXCEPT ![e] = IF Throws THEN "held" ELSE IF @ = "held" THEN "displaced" ELSE @]
  /\ sockets' = IF Throws THEN sockets ELSE Sent(sockets, {Frame("event", e)})

Publish(e) ==
  /\ calls[e] \in {"idle", "transient"}
  /\ \/ Failed /\ calls' = [calls EXCEPT ![e] = "transient"] /\ UNCHANGED <<orphans, sockets>>
     \/ ~Failed /\ state # "ready" /\ calls' = [calls EXCEPT ![e] = "ready"]
        /\ UNCHANGED <<orphans, sockets>>
     \/ state = "ready" /\ gated /\ calls' = [calls EXCEPT ![e] = "gate"]
        /\ UNCHANGED <<orphans, sockets>>
     \/ state = "ready" /\ ~gated /\ SendEvent(e)
  /\ UNCHANGED <<session, gate, query, subs, crashed, troubles>>

(* gate.open() resolves, whatever has become of the connection meanwhile.     *)
PublishGoes(e) == /\ calls[e] = "gate" /\ ~gated
                  /\ SendEvent(e)
                  /\ UNCHANGED <<session, gate, query, subs, crashed, troubles>>

(* Mutant: only the OK has a deadline.                                        *)
OkTimeout(e) ==
  /\ calls[e] = "ok"
  /\ calls' = [calls EXCEPT ![e] = "transient"]
  /\ UNCHANGED <<session, sockets, gate, orphans, query, subs, crashed, troubles>>

(* PUBLISH_TIMEOUT, waiting for the connection or for the OK.                 *)
PublishTimeout(e) ==
  /\ calls[e] \in {"ready", "ok"}
  /\ calls' = [calls EXCEPT ![e] = "transient"]
  /\ UNCHANGED <<session, sockets, gate, orphans, query, subs, crashed, troubles>>

(* The timer of a waiter left behind deletes whatever waits under its id now  *)
(* and rejects its own promise, which nobody listens to.                     *)
OrphanTimeout(e) ==
  /\ orphans[e] # None
  /\ orphans' = [orphans EXCEPT ![e] = None]
  /\ crashed' = (orphans[e] = "held" \/ calls[e] = "ok")
  /\ UNCHANGED <<session, sockets, gate, calls, query, subs, troubles>>

(* An ephemeral event: dropped unless it can go now.                          *)
PublishEphemeral ==
  /\ state = "ready" /\ ~gated
  /\ sockets' = Sent(sockets, {Frame("ephemeral", None)})
  /\ UNCHANGED <<session, gate, waiters, subs, crashed, troubles>>

Ask == /\ query = "idle" /\ ~Failed
       /\ query' = IF state = "ready" THEN "open" ELSE "ready"
       /\ IF state = "ready" THEN Requests(sockets, {Query}, gated)
          ELSE UNCHANGED <<sockets, parked>>
       /\ UNCHANGED <<session, gated, calls, orphans, subs, crashed, troubles>>

QueryTimeout ==
  /\ \/ query = "ready" /\ query' = "rejected" /\ UNCHANGED <<sockets, parked>>
     \/ query = "open" /\ Finished(sockets)
  /\ UNCHANGED <<session, gated, calls, orphans, subs, crashed, troubles>>

-----------------------------------------------------------------------------
(* The relay.  It challenges once, answers in any order, and serves nothing    *)
(* before the handshake.                                                     *)

CanSay(s) == sockets[s].link = "open" /\ Len(sockets[s].inbox) < MaxUnread

Says(s, frame) == [sockets EXCEPT ![s].inbox = Append(@, frame)]

RelayChallenges(s) ==
  /\ CanSay(s) /\ ~sockets[s].challenged
  /\ sockets' = [Says(s, Frame("challenge", s)) EXCEPT ![s].challenged = TRUE]
  /\ UNCHANGED <<session, gate, waiters, subs, crashed, troubles>>

RelayAnswers(s, f, v) ==
  LET done == [sockets EXCEPT ![s].pending = @ \ {f}]
      says(kind, verdict) == [done EXCEPT ![s].inbox = Append(@, Verdict(kind, f.id, verdict))]
  IN
  /\ CanSay(s) /\ f \in sockets[s].pending
  /\ CASE f.kind = "auth" ->
            /\ v \in {"good", "transient", "terminal"} /\ f.id # s => v # "good"
            /\ sockets' = [says("auth", v) EXCEPT ![s].authed = (v = "good")]
       [] f.kind = "event" ->
            /\ ~sockets[s].authed => v = "terminal"
            /\ sockets' = says("event", v)
       [] f.kind = "req" ->
            /\ ~sockets[s].authed => v = "terminal"
            /\ sockets' = IF v = "good" THEN [says("eose", v) EXCEPT ![s].serving = @ \cup {f.id}]
                          ELSE [says("closed", v) EXCEPT ![s].serving = @ \ {f.id}]
       [] OTHER -> v \in {"good", "limited"} /\ sockets' = IF v = "good" THEN done ELSE says("notice", v)
  /\ Trouble(IF sockets[s].authed \/ f.kind = "auth" THEN v ELSE "good")
  /\ UNCHANGED <<session, gate, waiters, subs, crashed>>

(* The relay ends a subscription it serves.                                  *)
RelayCloses(s, x, v) ==
  /\ CanSay(s) /\ x \in sockets[s].serving /\ v # "good"
  /\ sockets' = [Says(s, Verdict("closed", x, v)) EXCEPT ![s].serving = @ \ {x}]
  /\ Trouble(v)
  /\ UNCHANGED <<session, gate, waiters, subs, crashed>>

Verdicts == {"good", "transient", "terminal", "limited"}

Environment ==
  \/ \E s \in DOMAIN sockets :
       \/ Opens(s) \/ Breaks(s) \/ RelayChallenges(s)
       \/ \E terminal \in BOOLEAN : Refused(s, terminal)
       \/ \E v \in Verdicts :
            \/ \E f \in sockets[s].pending : RelayAnswers(s, f, v)
            \/ \E x \in Subs : RelayCloses(s, x, v)

Callers ==
  \/ \E x \in Subs : Subscribe(x) \/ Unsubscribe(x)
  \/ \E e \in Events : Publish(e)
  \/ PublishEphemeral \/ Ask \/ Connect \/ Close

Supervisor ==
  \/ BackoffEnds \/ AwaitChallenge \/ AuthTimeout \/ Stable \/ GateOpens \/ DrainOne
  \/ QueryTimeout
  \/ \E e \in Events : PublishGoes(e) \/ PublishTimeout(e) \/ OrphanTimeout(e)
  \/ \E s \in DOMAIN sockets : Receive(s)

Next == ~crashed /\ (Environment \/ Callers \/ Supervisor)

(* Timers run out and the gate's deadline passes.                            *)
Fairness == /\ WF_vars(~crashed /\ GateOpens) /\ WF_vars(~crashed /\ QueryTimeout)
            /\ \A e \in Events : /\ WF_vars(~crashed /\ PublishGoes(e))
                                 /\ WF_vars(~crashed /\ PublishTimeout(e))

Spec == Init /\ [][Next]_vars /\ Fairness


-----------------------------------------------------------------------------
Ids    == Subs \cup Events \cup {Query, None} \cup 1 .. MaxSockets
Frames == [kind : {"auth", "event", "req", "ephemeral"}, id : Ids, verdict : {"good"}]
Answer == [kind : {"challenge", "auth", "event", "eose", "closed", "notice"}, id : Ids,
           verdict : Verdicts]

(* Type correctness; the current socket is the last one dialled.              *)
TypeOK ==
  /\ state \in {"disconnected", "connecting", "authenticating", "ready", "backing_off", "failed"}
  /\ current \in {0, Len(sockets)}
  /\ Len(sockets) <= MaxSockets
  /\ \A s \in DOMAIN sockets :
       /\ sockets[s].link \in {"dialing", "open", "over"}
       /\ \A i \in DOMAIN sockets[s].inbox : sockets[s].inbox[i] \in Answer
       /\ sockets[s].pending \subseteq Frames
       /\ sockets[s].challenged \in BOOLEAN /\ sockets[s].authed \in BOOLEAN
       /\ sockets[s].serving \subseteq Subs \cup {Query}
  /\ challenge \in 0 .. MaxSockets
  /\ awaiting \in {"challenge", "auth", None} /\ (awaiting # None) = (state = "authenticating")
  /\ attempt \in 0 .. StartupAttempts /\ troubles \in 0 .. MaxTroubles
  /\ {ready, closed, gated, crashed} \subseteq BOOLEAN
  /\ parked \in Seq(Subs \cup {Query, None})
  /\ records \subseteq Subs /\ ended \subseteq Subs
  /\ calls \in [Events -> {"idle"} \cup Waiting \cup Answers]
  /\ orphans \in [Events -> {"held", "displaced", None}]
  /\ query \in {"idle", "ready", "open", "done", "rejected"}

(* The handshake on a socket answers the challenge sent on that socket, though *)
(* the challenge is buffered apart from the socket and abandoned sockets still  *)
(* deliver.                                                                  *)
AuthAnswersOwnChallenge ==
  \A s \in DOMAIN sockets : \A f \in sockets[s].pending : f.kind = "auth" => f.id = s

(* On a connection that is ready no registered subscription is forgotten: it   *)
(* is served, asked for, waits behind the gate, or a CLOSED of it is unread;    *)
(* only what the relay ended for good is none of these.                       *)
ReadyServesAll ==
  state = "ready" =>
    \A x \in records \ ended :
      \/ x \in sockets[current].serving
      \/ Frame("req", x) \in sockets[current].pending
      \/ \E i \in DOMAIN parked : parked[i] = x
      \/ \E i \in DOMAIN sockets[current].inbox :
           sockets[current].inbox[i].kind = "closed" /\ sockets[current].inbox[i].id = x

(* The gate holds back every REQ and EVENT while the relay says the agent is    *)
(* too fast, whichever path they take.                                        *)
GateHolds ==
  [][gated => \A s \in DOMAIN sockets : \A f \in sockets'[s].pending \ sockets[s].pending :
                f.kind = "auth"]_vars

(* publish always answers, whatever the connection does meanwhile.            *)
CallsAnswered ==
  \A e \in Events : calls[e] \in Waiting ~> (calls[e] \notin Waiting \/ crashed)
=============================================================================
