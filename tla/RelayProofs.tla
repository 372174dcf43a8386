----------------------------- MODULE RelayProofs -----------------------------
(* What the connection to the relay and those that publish over it guarantee:   *)
(* the supervisor for any subscriptions, any number of sockets and whatever the   *)
(* relay says on them; the publisher of answers for any messages, turns and        *)
(* chunks, any attempt bound and any number of crashes; the observer stream for     *)
(* any sessions, turns and events, any frame size, queue length and rate.            *)
EXTENDS RelaySupervisor, OutboxPublisher, ObserverStream, FiniteSetTheorems, TLAPS

\* What is pending on a socket: a request is for a subscription or for the query.
Sendable == {f \in Frames : f.kind = "req" => f.id \in Subs \cup {Query}}

SocketType ==
  [link : {"dialing", "open", "over"}, inbox : Seq(Answer), pending : SUBSET Sendable,
   challenged : BOOLEAN, authed : BOOLEAN, serving : SUBSET (Subs \cup {Query})]

\* The types, with every socket a record of its own.
SocketsOK == sockets \in Seq(SocketType)

\* A socket is current exactly while the state says there is a connection; a
\* supervisor that was closed stays disconnected and dials no more.
StateOK ==
  /\ current = IF state \in {"connecting", "authenticating", "ready"}
               THEN Len(sockets) ELSE 0
  /\ state \in {"connecting", "authenticating", "ready"} => sockets # <<>>
  /\ closed => state = "disconnected"
  /\ state = "disconnected" /\ ~closed => sockets = <<>>

\* Only an open socket has something unread.
UnreadOnOpen ==
  \A s \in DOMAIN sockets : sockets[s].link # "open" => sockets[s].inbox = <<>>

\* A socket challenges once.
ChallengedOnce ==
  \A s \in DOMAIN sockets : \A i, j \in DOMAIN sockets[s].inbox :
    sockets[s].inbox[i].kind = "challenge" =>
      /\ sockets[s].challenged
      /\ sockets[s].inbox[j].kind = "challenge" => i = j

\* What concerns the sockets alone.
SocketsInv == SocketsOK /\ UnreadOnOpen /\ ChallengedOnce /\ AuthAnswersOwnChallenge

\* A connection that is ready is on an open socket.
LinkOK == state = "ready" => sockets[current].link = "open"

\* The challenge of a socket was sent and is not unread any more.
Spent(s) ==
  /\ sockets[s].challenged
  /\ \A i \in DOMAIN sockets[s].inbox : sockets[s].inbox[i].kind # "challenge"

\* A buffered challenge is that of the socket whose handshake is about to begin, and
\* a handshake under way has had its challenge.
ChallengeOK ==
  /\ challenge # 0 /\ ~closed =>
       state = "connecting" /\ challenge = current /\ Spent(current)
  /\ awaiting = "auth" \/ state = "ready" => Spent(current)

\* TypeOK in two parts: the session, and everything but the session and sockets.
SessionTypeOK ==
  /\ state \in {"disconnected", "connecting", "authenticating", "ready", "backing_off",
               "failed"}
  /\ Len(sockets) <= MaxSockets
  /\ challenge \in 0 .. MaxSockets
  /\ awaiting \in {"challenge", "auth", None}
  /\ (awaiting # None) <=> (state = "authenticating")
  /\ attempt \in 0 .. StartupAttempts
  /\ ready \in BOOLEAN /\ closed \in BOOLEAN

OtherTypeOK ==
  /\ troubles \in 0 .. MaxTroubles
  /\ gated \in BOOLEAN /\ crashed \in BOOLEAN
  /\ parked \in Seq(Subs \cup {Query, None})
  /\ records \subseteq Subs /\ IsFiniteSet(records) /\ ended \subseteq Subs
  /\ calls \in [Events -> {"idle"} \cup Waiting \cup Answers]
  /\ orphans \in [Events -> {"held", "displaced", None}]
  /\ query \in {"idle", "ready", "open", "done", "rejected"}

\* The inductive invariant: what concerns the session and its sockets, and the rest.
SessionInv == SocketsInv /\ SessionTypeOK /\ StateOK /\ LinkOK /\ ChallengeOK

SupervisorInv == SessionInv /\ OtherTypeOK /\ ReadyServesAll

\* What is known of one socket.
LEMMA SocketFields ==
  ASSUME NEW sk \in Seq(SocketType), NEW s \in DOMAIN sk
  PROVE  /\ sk[s] \in SocketType
         /\ sk[s].link \in {"dialing", "open", "over"}
         /\ sk[s].inbox \in Seq(Answer)
         /\ sk[s].pending \subseteq Sendable
         /\ sk[s].challenged \in BOOLEAN /\ sk[s].authed \in BOOLEAN
         /\ sk[s].serving \subseteq Subs \cup {Query}
<1>1. sk[s] \in SocketType
  OBVIOUS
<1> HIDE DEF SocketType
<1> DEFINE r == sk[s]
<1>2. r \in SocketType
  BY <1>1
<1> HIDE DEF r
<1>3. /\ r.link \in {"dialing", "open", "over"}
      /\ r.inbox \in Seq(Answer)
      /\ r.pending \subseteq Sendable
      /\ r.challenged \in BOOLEAN /\ r.authed \in BOOLEAN
      /\ r.serving \subseteq Subs \cup {Query}
  BY <1>2 DEF SocketType
<1> QED
  BY <1>2, <1>3 DEF r

\* The parts are the type invariant.
LEMMA TypeParts == SupervisorInv => TypeOK
<1> SUFFICES ASSUME SupervisorInv PROVE TypeOK
  OBVIOUS
<1>1. current \in {0, Len(sockets)}
  BY DEF SupervisorInv, SessionInv, SocketsInv, StateOK
<1>2. ASSUME NEW s \in DOMAIN sockets
      PROVE  /\ sockets[s].link \in {"dialing", "open", "over"}
             /\ \A i \in DOMAIN sockets[s].inbox : sockets[s].inbox[i] \in Answer
             /\ sockets[s].pending \subseteq Frames
             /\ sockets[s].challenged \in BOOLEAN /\ sockets[s].authed \in BOOLEAN
             /\ sockets[s].serving \subseteq Subs \cup {Query}
  BY SocketFields DEF SupervisorInv, SessionInv, SocketsInv, SocketsOK, Sendable
<1> QED
  BY <1>1, <1>2 DEF SupervisorInv, SessionInv, SocketsInv, SessionTypeOK, OtherTypeOK, TypeOK

-----------------------------------------------------------------------------
(* Steps that leave the handshake alone.                                     *)

\* Sockets that differ in what is under way on them, but not in their handshake:
\* something was read, something but a challenge was said, and nothing was written
\* that authenticates.
Quiet(new, old) ==
  /\ new \in Seq(SocketType) /\ Len(new) = Len(old)
  /\ \A s \in DOMAIN old :
       /\ new[s].link = old[s].link
       /\ new[s].challenged = old[s].challenged
       /\ \/ new[s].inbox = old[s].inbox
          \/ old[s].inbox # <<>> /\ new[s].inbox = Tail(old[s].inbox)
          \/ /\ old[s].link = "open"
             /\ \E f \in Answer : f.kind # "challenge" /\ new[s].inbox = Append(old[s].inbox, f)
       /\ \A f \in new[s].pending : f.kind = "auth" => f \in old[s].pending

\* An unread challenge keeps its place or moves up by one.
LEMMA InboxShift ==
  ASSUME NEW old \in Seq(Answer), NEW new,
         \/ new = old
         \/ old # <<>> /\ new = Tail(old)
         \/ \E f \in Answer : f.kind # "challenge" /\ new = Append(old, f)
  PROVE  \E d \in {0, 1} : \A i \in DOMAIN new :
           /\ i \in Nat
           /\ new[i].kind = "challenge" => i + d \in DOMAIN old /\ new[i] = old[i + d]
<1>1. CASE new = old
  <2>1. \A i \in DOMAIN new : i \in Nat /\ i + 0 = i
    BY <1>1
  <2> QED
    BY <1>1, <2>1
<1>2. CASE old # <<>> /\ new = Tail(old)
  <2>1. \A i \in DOMAIN new : i \in Nat /\ i + 1 \in DOMAIN old /\ new[i] = old[i + 1]
    BY <1>2
  <2> QED
    BY <2>1
<1>3. CASE \E f \in Answer : f.kind # "challenge" /\ new = Append(old, f)
  <2>1. PICK f \in Answer : f.kind # "challenge" /\ new = Append(old, f)
    BY <1>3
  <2>2. \A i \in DOMAIN new :
          /\ i \in Nat /\ i + 0 = i
          /\ (i \in DOMAIN old /\ new[i] = old[i]) \/ new[i] = f
    BY <2>1
  <2> QED
    BY <2>1, <2>2
<1> QED
  BY <1>1, <1>2, <1>3

\* Quiet steps keep what concerns the sockets alone, whatever becomes of the session.
LEMMA QuietSockets ==
  ASSUME SocketsInv, Quiet(sockets', sockets)
  PROVE  /\ SocketsInv'
         /\ \A s \in DOMAIN sockets : Spent(s) => Spent(s)'
<1>1. /\ sockets \in Seq(SocketType) /\ sockets' \in Seq(SocketType)
      /\ Len(sockets') = Len(sockets) /\ DOMAIN sockets' = DOMAIN sockets
      /\ SocketsOK'
  BY DEF Quiet, SocketsInv, SocketsOK
<1>2. \A s \in DOMAIN sockets :
        /\ sockets'[s].link = sockets[s].link
        /\ sockets'[s].challenged = sockets[s].challenged
        /\ \A f \in sockets'[s].pending : f.kind = "auth" => f \in sockets[s].pending
  BY DEF Quiet
<1>3. ASSUME NEW s \in DOMAIN sockets
      PROVE  \E d \in {0, 1} : \A i \in DOMAIN sockets'[s].inbox :
               /\ i \in Nat
               /\ sockets'[s].inbox[i].kind = "challenge" =>
                    /\ i + d \in DOMAIN sockets[s].inbox
                    /\ sockets'[s].inbox[i] = sockets[s].inbox[i + d]
  <2>1. sockets[s].inbox \in Seq(Answer)
    BY <1>1, SocketFields
  <2> QED
    BY <2>1, InboxShift DEF Quiet
<1>4. UnreadOnOpen'
  BY <1>1, <1>2 DEF SocketsInv, UnreadOnOpen, Quiet
<1>5. ChallengedOnce'
  <2>1. ASSUME NEW s \in DOMAIN sockets', NEW i \in DOMAIN sockets'[s].inbox,
               NEW j \in DOMAIN sockets'[s].inbox, sockets'[s].inbox[i].kind = "challenge"
        PROVE  /\ sockets'[s].challenged
               /\ sockets'[s].inbox[j].kind = "challenge" => i = j
    <3>1. PICK d \in {0, 1} : \A k \in DOMAIN sockets'[s].inbox :
               /\ k \in Nat
               /\ sockets'[s].inbox[k].kind = "challenge" =>
                    /\ k + d \in DOMAIN sockets[s].inbox
                    /\ sockets'[s].inbox[k] = sockets[s].inbox[k + d]
      BY <1>1, <1>3
    <3>2. i \in Nat /\ j \in Nat /\ i + d \in DOMAIN sockets[s].inbox
          /\ sockets[s].inbox[i + d].kind = "challenge"
      BY <2>1, <3>1
    <3>3. sockets'[s].challenged
      BY <1>1, <1>2, <3>2 DEF SocketsInv, ChallengedOnce
    <3>4. ASSUME sockets'[s].inbox[j].kind = "challenge" PROVE i = j
      <4>1. j + d \in DOMAIN sockets[s].inbox /\ sockets[s].inbox[j + d].kind = "challenge"
        BY <3>1, <3>4
      <4>2. i + d = j + d
        BY <1>1, <3>2, <4>1 DEF SocketsInv, ChallengedOnce
      <4> QED
        BY <3>2, <4>2
    <3> QED
      BY <3>3, <3>4
  <2> QED
    BY <2>1 DEF ChallengedOnce
<1>6. AuthAnswersOwnChallenge'
  BY <1>1, <1>2 DEF SocketsInv, AuthAnswersOwnChallenge
<1>7. ASSUME NEW s \in DOMAIN sockets, Spent(s) PROVE Spent(s)'
  BY <1>2, <1>3, <1>7 DEF Spent
<1> QED
  BY <1>1, <1>4, <1>5, <1>6, <1>7 DEF SocketsInv

\* Steps that leave the handshake alone keep the session part of the invariant.
LEMMA QuietKeeps ==
  ASSUME SessionInv, UNCHANGED session, Quiet(sockets', sockets)
  PROVE  SessionInv'
<1>1. /\ sockets \in Seq(SocketType) /\ sockets' \in Seq(SocketType)
      /\ Len(sockets') = Len(sockets)
      /\ \A s \in DOMAIN sockets : sockets'[s].link = sockets[s].link
      /\ UNCHANGED <<state, current, challenge, awaiting, attempt, ready, closed>>
  BY DEF Quiet, SessionInv, SocketsInv, SocketsOK, session
<1>2. SocketsInv' /\ \A s \in DOMAIN sockets : Spent(s) => Spent(s)'
  BY QuietSockets DEF SessionInv, SocketsInv
<1>3. SessionTypeOK'
  BY <1>1 DEF SessionInv, SocketsInv, SessionTypeOK
<1>4. StateOK'
  BY <1>1 DEF SessionInv, SocketsInv, StateOK
<1>5. current # 0 => current \in DOMAIN sockets
  BY <1>1 DEF SessionInv, SocketsInv, StateOK
<1>6. LinkOK'
  BY <1>1 DEF SessionInv, SocketsInv, LinkOK, StateOK
<1>7. ChallengeOK'
  <2>1. (challenge # 0 /\ ~closed) \/ awaiting = "auth" \/ state = "ready"
          => current # 0 /\ Spent(current)
    BY <1>1, RelaySupervisorAssumption DEF SessionInv, SocketsInv, ChallengeOK, StateOK, SessionTypeOK
  <2>2. current # 0 /\ Spent(current) => Spent(current)'
    BY <1>1, <1>2, <1>5 DEF Spent
  <2> QED
    BY <1>1, <2>1, <2>2 DEF SessionInv, SocketsInv, ChallengeOK
<1> QED
  BY <1>2, <1>3, <1>4, <1>6, <1>7 DEF SessionInv, SocketsInv

-----------------------------------------------------------------------------
(* Writing one field of one socket.                                          *)

\* The sequences agree in everything but the socket s, whose record is r.
Replaced(new, old, s, r) ==
  /\ new \in Seq(SocketType) /\ Len(new) = Len(old)
  /\ new[s] = r
  /\ \A q \in DOMAIN old : q # s => new[q] = old[q]

\* A socket record with one field written.
LEMMA RecordPending ==
  ASSUME NEW x \in SocketType, NEW P \in SUBSET Sendable
  PROVE  LET r == [x EXCEPT !.pending = P] IN
         /\ r \in SocketType
         /\ r.link = x.link /\ r.inbox = x.inbox /\ r.pending = P
         /\ r.challenged = x.challenged /\ r.authed = x.authed /\ r.serving = x.serving
BY DEF SocketType

\* The same for what is unread.
LEMMA RecordInbox ==
  ASSUME NEW x \in SocketType, NEW B \in Seq(Answer)
  PROVE  LET r == [x EXCEPT !.inbox = B] IN
         /\ r \in SocketType
         /\ r.link = x.link /\ r.inbox = B /\ r.pending = x.pending
         /\ r.challenged = x.challenged /\ r.authed = x.authed /\ r.serving = x.serving
BY DEF SocketType

\* The same for what is served.
LEMMA RecordServing ==
  ASSUME NEW x \in SocketType, NEW S \in SUBSET (Subs \cup {Query})
  PROVE  LET r == [x EXCEPT !.serving = S] IN
         /\ r \in SocketType
         /\ r.link = x.link /\ r.inbox = x.inbox /\ r.pending = x.pending
         /\ r.challenged = x.challenged /\ r.authed = x.authed /\ r.serving = S
BY DEF SocketType

\* The same for the link.
LEMMA RecordLink ==
  ASSUME NEW x \in SocketType, NEW l \in {"dialing", "open", "over"}
  PROVE  LET r == [x EXCEPT !.link = l] IN
         /\ r \in SocketType
         /\ r.link = l /\ r.inbox = x.inbox /\ r.pending = x.pending
         /\ r.challenged = x.challenged /\ r.authed = x.authed /\ r.serving = x.serving
BY DEF SocketType

\* The same for the challenge.
LEMMA RecordChallenged ==
  ASSUME NEW x \in SocketType, NEW b \in BOOLEAN
  PROVE  LET r == [x EXCEPT !.challenged = b] IN
         /\ r \in SocketType
         /\ r.link = x.link /\ r.inbox = x.inbox /\ r.pending = x.pending
         /\ r.challenged = b /\ r.authed = x.authed /\ r.serving = x.serving
BY DEF SocketType

\* The same for the handshake.
LEMMA RecordAuthed ==
  ASSUME NEW x \in SocketType, NEW b \in BOOLEAN
  PROVE  LET r == [x EXCEPT !.authed = b] IN
         /\ r \in SocketType
         /\ r.link = x.link /\ r.inbox = x.inbox /\ r.pending = x.pending
         /\ r.challenged = x.challenged /\ r.authed = b /\ r.serving = x.serving
BY DEF SocketType

\* Replacing the record of one socket.
LEMMA PutSocket ==
  ASSUME NEW base \in Seq(SocketType), NEW s \in DOMAIN base, NEW r \in SocketType,
         NEW new, new = [base EXCEPT ![s] = r]
  PROVE  Replaced(new, base, s, r)
<1> HIDE DEF SocketType
<1> QED
  BY DEF Replaced

-----------------------------------------------------------------------------
(* The helpers of the actions.                                               *)

\* A frame of the right kind about something the supervisor knows.
LEMMA FrameType ==
  \A kind \in {"auth", "event", "req", "ephemeral"}, id \in Ids :
    /\ Frame(kind, id).kind = kind /\ Frame(kind, id).id = id
    /\ (kind = "req" => id \in Subs \cup {Query}) => Frame(kind, id) \in Sendable
BY DEF Frame, Frames, Sendable

\* The current socket is one of the sockets.
LEMMA CurrentSocket ==
  ASSUME SessionInv, current # 0
  PROVE  /\ current \in DOMAIN sockets /\ current = Len(sockets)
         /\ current \in 1 .. MaxSockets
         /\ state \in {"connecting", "authenticating", "ready"} /\ ~closed
BY RelaySupervisorAssumption DEF SessionInv, SocketsInv, StateOK, SocketsOK, SessionTypeOK

\* Sockets in which nothing has changed.
LEMMA QuietRefl ==
  ASSUME SocketsOK PROVE Quiet(sockets, sockets)
BY DEF Quiet, SocketsOK

\* The record of the current socket after a write.
LEMMA SentRecord ==
  ASSUME NEW base \in Seq(SocketType), current \in DOMAIN base, NEW frames \in SUBSET Sendable
  PROVE  \E r \in SocketType :
           /\ Replaced(Sent(base, frames), base, current, r)
           /\ r.link = base[current].link /\ r.inbox = base[current].inbox
           /\ r.pending = base[current].pending
                            \cup (IF base[current].link = "open" THEN frames ELSE {})
           /\ r.challenged = base[current].challenged /\ r.authed = base[current].authed
           /\ r.serving = base[current].serving
<1> DEFINE P == IF base[current].link = "open" THEN base[current].pending \cup frames
                ELSE base[current].pending
           r == [base[current] EXCEPT !.pending = P]
<1>1. base[current] \in SocketType /\ P \in SUBSET Sendable
  BY SocketFields
<1>2. Sent(base, frames) = [base EXCEPT ![current] = r]
  BY DEF Sent
<1>3. P = base[current].pending \cup (IF base[current].link = "open" THEN frames ELSE {})
  OBVIOUS
<1> HIDE DEF P
<1>4. /\ r \in SocketType
      /\ r.link = base[current].link /\ r.inbox = base[current].inbox /\ r.pending = P
      /\ r.challenged = base[current].challenged /\ r.authed = base[current].authed
      /\ r.serving = base[current].serving
  BY <1>1, RecordPending
<1> HIDE DEF r
<1>5. Replaced(Sent(base, frames), base, current, r)
  BY <1>2, <1>4, PutSocket
<1> QED
  BY <1>3, <1>4, <1>5

\* Sockets that are quiet stay so when one record changes in nothing but what is
\* pending and served.
LEMMA QuietReplaced ==
  ASSUME SocketsOK, NEW base, Quiet(base, sockets), NEW c \in DOMAIN sockets,
         NEW new, NEW r \in SocketType, Replaced(new, base, c, r),
         r.link = base[c].link, r.inbox = base[c].inbox, r.challenged = base[c].challenged,
         \A f \in r.pending : f.kind = "auth" => f \in base[c].pending
  PROVE  Quiet(new, sockets)
<1>1. /\ new \in Seq(SocketType) /\ Len(new) = Len(sockets)
      /\ DOMAIN base = DOMAIN sockets
  BY DEF Quiet, SocketsOK, Replaced
<1>2. ASSUME NEW s \in DOMAIN sockets
      PROVE  /\ new[s].link = base[s].link /\ new[s].inbox = base[s].inbox
             /\ new[s].challenged = base[s].challenged
             /\ \A f \in new[s].pending : f.kind = "auth" => f \in base[s].pending
  BY <1>1 DEF Replaced
<1> QED
  BY <1>1, <1>2 DEF Quiet

\* Writing frames that do not authenticate.
LEMMA SentQuiet ==
  ASSUME SocketsOK, NEW base, Quiet(base, sockets), current \in DOMAIN sockets,
         NEW frames \in SUBSET Sendable, \A f \in frames : f.kind # "auth"
  PROVE  Quiet(Sent(base, frames), sockets)
<1>1. /\ base \in Seq(SocketType) /\ Len(base) = Len(sockets)
      /\ DOMAIN base = DOMAIN sockets
  BY DEF Quiet, SocketsOK
<1>2. PICK r \in SocketType :
           /\ Replaced(Sent(base, frames), base, current, r)
           /\ r.link = base[current].link /\ r.inbox = base[current].inbox
           /\ r.pending = base[current].pending
                            \cup (IF base[current].link = "open" THEN frames ELSE {})
           /\ r.challenged = base[current].challenged
  BY <1>1, SentRecord
<1> QED
  BY <1>2, QuietReplaced

\* Reading a frame.
LEMMA ReadQuiet ==
  ASSUME SocketsOK, NEW s \in DOMAIN sockets, sockets[s].inbox # <<>>
  PROVE  /\ Quiet(Read(s), sockets)
         /\ \E r \in SocketType :
              /\ Replaced(Read(s), sockets, s, r)
              /\ r.link = sockets[s].link /\ r.inbox = Tail(sockets[s].inbox)
              /\ r.pending = sockets[s].pending
              /\ r.challenged = sockets[s].challenged /\ r.authed = sockets[s].authed
              /\ r.serving = sockets[s].serving
<1> DEFINE B == Tail(sockets[s].inbox)
           r == [sockets[s] EXCEPT !.inbox = B]
<1>1. /\ sockets[s] \in SocketType /\ sockets \in Seq(SocketType)
      /\ B \in Seq(Answer)
  BY SocketFields DEF SocketsOK
<1>2. Read(s) = [sockets EXCEPT ![s] = r]
  BY DEF Read
<1> HIDE DEF B
<1>3. /\ r \in SocketType
      /\ r.link = sockets[s].link /\ r.inbox = B /\ r.pending = sockets[s].pending
      /\ r.challenged = sockets[s].challenged /\ r.authed = sockets[s].authed
      /\ r.serving = sockets[s].serving
  BY <1>1, RecordInbox
<1> HIDE DEF r
<1>4. Replaced(Read(s), sockets, s, r)
  BY <1>1, <1>2, <1>3, PutSocket
<1>5. Quiet(Read(s), sockets)
  BY <1>3, <1>4 DEF Quiet, Replaced, B
<1> QED
  BY <1>3, <1>4, <1>5 DEF B

\* Withdrawing a request.
LEMMA DroppedQuiet ==
  ASSUME SocketsOK, StateOK, NEW base, Quiet(base, sockets), NEW x
  PROVE  /\ Quiet(Dropped(base, x), sockets)
         /\ \A s \in DOMAIN sockets :
              /\ Dropped(base, x)[s].inbox = base[s].inbox
              /\ base[s].serving \ {x} \subseteq Dropped(base, x)[s].serving
              /\ base[s].pending \ {Frame("req", x)} \subseteq Dropped(base, x)[s].pending
<1>1. /\ base \in Seq(SocketType) /\ Len(base) = Len(sockets)
      /\ DOMAIN base = DOMAIN sockets
  BY DEF Quiet, SocketsOK
<1>2. CASE Throws
  BY <1>2 DEF Dropped
<1>3. CASE ~Throws
  <2> DEFINE S == base[current].serving \ {x}
             P == base[current].pending \ {Frame("req", x)}
             q == [base[current] EXCEPT !.serving = S]
             r == [q EXCEPT !.pending = P]
  <2>0. current \in DOMAIN sockets
    BY <1>3 DEF Throws, StateOK, SocketsOK
  <2>1. /\ base[current] \in SocketType /\ S \in SUBSET (Subs \cup {Query})
        /\ P \in SUBSET Sendable
    BY <1>1, <2>0, SocketFields
  <2>2. Dropped(base, x) = [base EXCEPT ![current] = r]
    BY <1>1, <1>3, <2>0 DEF Dropped
  <2> HIDE DEF S, P
  <2>3. /\ q \in SocketType
        /\ q.link = base[current].link /\ q.inbox = base[current].inbox
        /\ q.challenged = base[current].challenged /\ q.serving = S
    BY <2>1, RecordServing
  <2> HIDE DEF q
  <2>4. /\ r \in SocketType
        /\ r.link = base[current].link /\ r.inbox = base[current].inbox
        /\ r.challenged = base[current].challenged /\ r.serving = S /\ r.pending = P
    BY <2>1, <2>3, RecordPending
  <2> HIDE DEF r
  <2>5. Replaced(Dropped(base, x), base, current, r)
    BY <1>1, <2>0, <2>2, <2>4, PutSocket
  <2>6. Quiet(Dropped(base, x), sockets)
    BY <2>0, <2>4, <2>5, QuietReplaced DEF P
  <2> QED
    BY <1>1, <2>4, <2>5, <2>6 DEF Replaced, P, S
<1> QED
  BY <1>2, <1>3

\* A finite set listed: the list holds its elements and nothing else.
LEMMA SetToSeqElements ==
  ASSUME NEW S, IsFiniteSet(S)
  PROVE  /\ SetToSeq(S) \in Seq(S)
         /\ \A x \in S : \E i \in DOMAIN SetToSeq(S) : SetToSeq(S)[i] = x
<1> DEFINE n == Cardinality(S)
<1>1. n \in Nat /\ ExistsBijection(1 .. n, S)
  BY FS_CardinalityType
<1>2. \E f \in [1 .. n -> S] : IsInjective(f)
  BY <1>1 DEF ExistsBijection, Bijection, Injection
<1> DEFINE g == SetToSeq(S)
<1>3. g \in [1 .. n -> S] /\ IsInjective(g)
  BY <1>2 DEF SetToSeq
<1>4. Cardinality(1 .. n) = n
  BY <1>1, FS_Interval
<1> HIDE DEF g
<1>5. g \in Injection(1 .. n, S)
  BY <1>3 DEF Injection
<1>6. g \in Surjection(1 .. n, S)
  BY <1>4, <1>5, FS_Injection
<1>7. \A x \in S : \E i \in 1 .. n : g[i] = x
  BY <1>6 DEF Surjection
<1>8. g \in Seq(S) /\ DOMAIN g = 1 .. n
  BY <1>1, <1>3
<1> QED
  BY <1>7, <1>8 DEF g

\* Asking for a set of subscriptions: each is parked or pending on the current
\* socket, and nothing that was parked, pending or served is lost.
LEMMA RequestsAsk ==
  ASSUME SessionInv, OtherTypeOK, NEW base, Quiet(base, sockets), current \in DOMAIN sockets,
         NEW ids \in SUBSET (Subs \cup {Query}), IsFiniteSet(ids), NEW limited,
         Requests(base, ids, limited)
  PROVE  /\ Quiet(sockets', sockets)
         /\ parked' \in Seq(Subs \cup {Query, None})
         /\ \A i \in DOMAIN parked : i \in DOMAIN parked' /\ parked'[i] = parked[i]
         /\ sockets'[current].inbox = base[current].inbox
         /\ base[current].serving \subseteq sockets'[current].serving
         /\ base[current].pending \subseteq sockets'[current].pending
         /\ base[current].link = "open" =>
              \A x \in ids : \/ Frame("req", x) \in sockets'[current].pending
                            \/ \E i \in DOMAIN parked' : parked'[i] = x
<1>0. SocketsOK /\ base \in Seq(SocketType) /\ current \in DOMAIN base
      /\ parked \in Seq(Subs \cup {Query, None})
  BY DEF SessionInv, SocketsInv, SocketsOK, Quiet, OtherTypeOK
<1>1. CASE Defers(limited) \/ ids = {}
  <2> DEFINE q == SetToSeq(ids)
  <2>1. sockets' = base /\ parked' = parked \o q
    BY <1>1 DEF Requests
  <2>2. /\ q \in Seq(ids)
        /\ \A x \in ids : \E i \in DOMAIN q : q[i] = x
    BY SetToSeqElements
  <2> HIDE DEF q
  <2>3. q \in Seq(Subs \cup {Query, None})
    BY <2>2
  <2>4. parked' \in Seq(Subs \cup {Query, None})
    BY <1>0, <2>1, <2>3
  <2>5. \A i \in DOMAIN parked : i \in DOMAIN parked' /\ parked'[i] = parked[i]
    BY <1>0, <2>1, <2>3
  <2>6. \A i \in DOMAIN q : Len(parked) + i \in DOMAIN parked'
                          /\ parked'[Len(parked) + i] = q[i]
    BY <1>0, <2>1, <2>3
  <2>7. \A x \in ids : \E i \in DOMAIN parked' : parked'[i] = x
    BY <2>2, <2>6
  <2> QED
    BY <2>1, <2>4, <2>5, <2>7
<1>2. CASE ~(Defers(limited) \/ ids = {})
  <2> DEFINE frames == {Frame("req", x) : x \in ids}
  <2>1. sockets' = Sent(base, frames) /\ parked' = parked
    BY <1>2 DEF Requests
  <2>2. frames \in SUBSET Sendable /\ \A f \in frames : f.kind # "auth"
    BY FrameType DEF Ids
  <2>3. \A x \in ids : Frame("req", x) \in frames
    OBVIOUS
  <2> HIDE DEF frames
  <2>4. PICK r \in SocketType :
           /\ Replaced(Sent(base, frames), base, current, r)
           /\ r.inbox = base[current].inbox
           /\ r.pending = base[current].pending
                            \cup (IF base[current].link = "open" THEN frames ELSE {})
           /\ r.serving = base[current].serving
    BY <1>0, <2>2, SentRecord
  <2>5. Quiet(sockets', sockets)
    BY <1>0, <2>1, <2>2, SentQuiet
  <2> QED
    BY <1>0, <2>1, <2>3, <2>4, <2>5 DEF Replaced
<1> QED
  BY <1>1, <1>2

-----------------------------------------------------------------------------
(* Steps that leave the session alone.                                       *)

\* What ReadyServesAll says of one subscription.
Asked(x) ==
  \/ x \in sockets[current].serving
  \/ Frame("req", x) \in sockets[current].pending
  \/ \E i \in DOMAIN parked : parked[i] = x
  \/ \E i \in DOMAIN sockets[current].inbox :
       sockets[current].inbox[i].kind = "closed" /\ sockets[current].inbox[i].id = x

\* A quiet step needs an account of the subscriptions and of the other types.
LEMMA QuietStep ==
  ASSUME SupervisorInv, UNCHANGED session, Quiet(sockets', sockets), OtherTypeOK',
         ASSUME state = "ready", NEW x \in records' \ ended' PROVE Asked(x)'
  PROVE  SupervisorInv'
<1>1. SessionInv'
  BY QuietKeeps DEF SupervisorInv
<1>2. ReadyServesAll'
  BY DEF ReadyServesAll, Asked, session
<1> QED
  BY <1>1, <1>2 DEF SupervisorInv

\* A step that touches neither sockets nor subscriptions.
LEMMA SameSockets ==
  ASSUME SupervisorInv, UNCHANGED <<session, sockets, parked, records, ended>>, OtherTypeOK'
  PROVE  SupervisorInv'
<1>1. Quiet(sockets', sockets)
  BY QuietRefl DEF SupervisorInv, SessionInv, SocketsInv
<1>2. ASSUME state = "ready", NEW x \in records' \ ended' PROVE Asked(x)'
  BY <1>2 DEF SupervisorInv, ReadyServesAll, Asked, session
<1> QED
  BY <1>1, <1>2, QuietStep

\* The trouble counter stays within its bound.
LEMMA TroubleType ==
  ASSUME OtherTypeOK, NEW v, Trouble(v) PROVE troubles' \in 0 .. MaxTroubles
BY RelaySupervisorAssumption DEF Trouble, OtherTypeOK

\* Taking a parked write back keeps the others.
LEMMA Unparked ==
  ASSUME OtherTypeOK, NEW x
  PROVE  /\ Unpark(x) \in Seq(Subs \cup {Query, None})
         /\ DOMAIN Unpark(x) = DOMAIN parked
         /\ \A i \in DOMAIN parked : parked[i] # x => Unpark(x)[i] = parked[i]
<1>1. parked \in Seq(Subs \cup {Query, None})
  BY DEF OtherTypeOK
<1> QED
  BY <1>1 DEF Unpark

\* The gate's deadline, the timers of publishes, and a query that is given up.
LEMMA TimersKeep ==
  ASSUME SupervisorInv,
         \/ GateOpens
         \/ \E e \in Events : PublishTimeout(e) \/ OrphanTimeout(e)
  PROVE  SupervisorInv'
<1>0. OtherTypeOK
  BY DEF SupervisorInv
<1>1. CASE GateOpens
  <2>1. OtherTypeOK'
    BY <1>0, <1>1 DEF GateOpens, OtherTypeOK, waiters, subs
  <2> QED
    BY <1>1, <2>1, SameSockets DEF GateOpens, waiters, subs
<1>2. ASSUME NEW e \in Events, PublishTimeout(e) PROVE SupervisorInv'
  <2>1. OtherTypeOK'
    BY <1>0, <1>2 DEF PublishTimeout, OtherTypeOK, gate, subs, Waiting, Answers
  <2> QED
    BY <1>2, <2>1, SameSockets DEF PublishTimeout, gate, subs
<1>3. ASSUME NEW e \in Events, OrphanTimeout(e) PROVE SupervisorInv'
  <2>1. OtherTypeOK'
    BY <1>0, <1>3 DEF OrphanTimeout, OtherTypeOK, gate, subs
  <2> QED
    BY <1>3, <2>1, SameSockets DEF OrphanTimeout, gate, subs
<1> QED
  BY <1>1, <1>2, <1>3

\* Writing an event: the sockets stay quiet, and nothing under way is lost.
LEMMA SendEventQuiet ==
  ASSUME SessionInv, OtherTypeOK, NEW e \in Events, SendEvent(e)
  PROVE  /\ Quiet(sockets', sockets)
         /\ calls' \in [Events -> {"idle"} \cup Waiting \cup Answers]
         /\ orphans' \in [Events -> {"held", "displaced", None}]
         /\ current # 0 => /\ sockets'[current].inbox = sockets[current].inbox
                           /\ sockets'[current].serving = sockets[current].serving
                           /\ sockets[current].pending \subseteq sockets'[current].pending
<1>1. /\ calls' \in [Events -> {"idle"} \cup Waiting \cup Answers]
      /\ orphans' \in [Events -> {"held", "displaced", None}]
  BY DEF SendEvent, OtherTypeOK, Waiting, Answers
<1>2. CASE Throws
  BY <1>1, <1>2, QuietRefl DEF SendEvent, SessionInv, SocketsInv
<1>3. CASE ~Throws
  <2>1. current \in DOMAIN sockets /\ sockets \in Seq(SocketType)
    BY <1>3, CurrentSocket DEF Throws, SessionInv, SocketsInv, SocketsOK
  <2> DEFINE frames == {Frame("event", e)}
  <2>2. frames \in SUBSET Sendable /\ \A f \in frames : f.kind # "auth"
    BY FrameType DEF Ids
  <2>3. sockets' = Sent(sockets, frames)
    BY <1>3 DEF SendEvent
  <2> HIDE DEF frames
  <2>4. Quiet(sockets', sockets)
    BY <2>1, <2>2, <2>3, SentQuiet, QuietRefl DEF SessionInv, SocketsInv
  <2>5. PICK r \in SocketType :
           /\ Replaced(Sent(sockets, frames), sockets, current, r)
           /\ r.inbox = sockets[current].inbox
           /\ r.pending = sockets[current].pending
                            \cup (IF sockets[current].link = "open" THEN frames ELSE {})
           /\ r.serving = sockets[current].serving
    BY <2>1, <2>2, SentRecord
  <2> QED
    BY <1>1, <2>3, <2>4, <2>5 DEF Replaced
<1> QED
  BY <1>2, <1>3

\* An event that is written leaves the subscriptions where they are.
LEMMA SendEventKeeps ==
  ASSUME SupervisorInv, NEW e \in Events, SendEvent(e),
         UNCHANGED <<session, gate, query, subs, crashed, troubles>>
  PROVE  SupervisorInv'
<1>1. /\ SessionInv /\ OtherTypeOK
      /\ UNCHANGED <<state, current, parked, gated, records, ended, query, crashed, troubles>>
  BY DEF SupervisorInv, session, gate, subs
<1>2. OtherTypeOK'
  BY <1>1, SendEventQuiet DEF OtherTypeOK
<1>3. ASSUME state = "ready", NEW x \in records' \ ended' PROVE Asked(x)'
  <2>1. current # 0
    BY <1>1, <1>3 DEF SessionInv, SocketsInv, StateOK, SocketsOK
  <2>2. Asked(x)
    BY <1>1, <1>3 DEF SupervisorInv, ReadyServesAll, Asked
  <2> QED
    BY <1>1, <2>1, <2>2, SendEventQuiet DEF Asked
<1> QED
  BY <1>1, <1>2, <1>3, SendEventQuiet, QuietStep

\* The paths of an event into the connection.
LEMMA PublishKeeps ==
  ASSUME SupervisorInv, NEW e \in Events, Publish(e) \/ PublishGoes(e)
  PROVE  SupervisorInv'
<1>0. OtherTypeOK
  BY DEF SupervisorInv
<1>1. CASE SendEvent(e) /\ UNCHANGED <<session, gate, query, subs, crashed, troubles>>
  BY <1>1, SendEventKeeps
<1>2. CASE /\ \E w \in {"transient", "ready", "gate"} : calls' = [calls EXCEPT ![e] = w]
           /\ UNCHANGED <<session, sockets, gate, orphans, query, subs, crashed, troubles>>
  <2>1. OtherTypeOK'
    BY <1>0, <1>2 DEF OtherTypeOK, gate, subs, Waiting, Answers
  <2> QED
    BY <1>2, <2>1, SameSockets DEF gate, subs
<1> QED
  BY <1>1, <1>2 DEF Publish, PublishGoes

-----------------------------------------------------------------------------
(* Steps that ask for subscriptions and give them up.                        *)

\* What was asked stays asked when nothing under way is lost.
LEMMA AskedKept ==
  ASSUME NEW x, Asked(x), current' = current,
         sockets'[current].inbox = sockets[current].inbox,
         sockets[current].serving \subseteq sockets'[current].serving,
         sockets[current].pending \subseteq sockets'[current].pending,
         \A i \in DOMAIN parked :
           parked[i] = x => i \in DOMAIN parked' /\ parked'[i] = parked[i]
  PROVE  Asked(x)'
BY DEF Asked

\* A subscription registered on a ready connection is asked for.
LEMMA SubscribeKeeps ==
  ASSUME SupervisorInv, NEW x \in Subs, Subscribe(x)
  PROVE  SupervisorInv'
<1>0. /\ SessionInv /\ OtherTypeOK /\ SocketsOK /\ LinkOK
      /\ UNCHANGED <<state, current, gated, ended, crashed, troubles, calls, orphans, query>>
      /\ records' = records \cup {x}
  BY DEF SupervisorInv, SessionInv, SocketsInv, Subscribe, session, waiters
<1>1. records' \subseteq Subs /\ IsFiniteSet(records')
  BY <1>0, FS_AddElement DEF OtherTypeOK
<1>2. CASE state = "ready"
  <2>1. Requests(sockets, {x}, gated)
    BY <1>2 DEF Subscribe
  <2>2. /\ current \in DOMAIN sockets /\ Quiet(sockets, sockets) /\ IsFiniteSet({x})
        /\ sockets[current].link = "open"
    <3>1. current \in DOMAIN sockets /\ sockets[current].link = "open"
      BY <1>0, <1>2 DEF SessionInv, SocketsInv, StateOK, SocketsOK, LinkOK
    <3>2. IsFiniteSet({x})
      BY FS_Singleton
    <3> QED
      BY <1>0, <3>1, <3>2, QuietRefl
  <2>3. /\ Quiet(sockets', sockets)
        /\ parked' \in Seq(Subs \cup {Query, None})
        /\ \A i \in DOMAIN parked : i \in DOMAIN parked' /\ parked'[i] = parked[i]
        /\ sockets'[current].inbox = sockets[current].inbox
        /\ sockets[current].serving \subseteq sockets'[current].serving
        /\ sockets[current].pending \subseteq sockets'[current].pending
        /\ \/ Frame("req", x) \in sockets'[current].pending
           \/ \E i \in DOMAIN parked' : parked'[i] = x
    BY <1>0, <2>1, <2>2, RequestsAsk
  <2>4. OtherTypeOK'
    BY <1>0, <1>1, <2>3 DEF OtherTypeOK
  <2>5. ASSUME NEW y \in records' \ ended' PROVE Asked(y)'
    <3>1. CASE y = x
      BY <1>0, <2>3, <3>1 DEF Asked
    <3>2. CASE y # x
      <4>1. Asked(y)
        BY <1>0, <1>2, <2>5, <3>2 DEF SupervisorInv, ReadyServesAll, Asked
      <4> QED
        BY <1>0, <2>3, <4>1, AskedKept
    <3> QED
      BY <3>1, <3>2
  <2> QED
    BY <2>3, <2>4, <2>5, QuietStep DEF Subscribe
<1>3. CASE state # "ready"
  <2>1. UNCHANGED <<sockets, parked>>
    BY <1>3 DEF Subscribe
  <2>2. OtherTypeOK'
    BY <1>0, <1>1, <2>1 DEF OtherTypeOK
  <2>3. Quiet(sockets', sockets)
    BY <1>0, <2>1, QuietRefl
  <2> QED
    BY <1>3, <2>2, <2>3, QuietStep DEF Subscribe
<1> QED
  BY <1>2, <1>3

\* Requests for two different subscriptions are different frames.
LEMMA FrameInjective ==
  ASSUME NEW x, NEW y, Frame("req", x) = Frame("req", y) PROVE x = y
BY DEF Frame

\* Withdrawing one request leaves every other asked for.
LEMMA WithdrawnKeeps ==
  ASSUME SupervisorInv, NEW x, current \in DOMAIN sockets, NEW base, Quiet(base, sockets),
         base[current].serving = sockets[current].serving,
         base[current].pending = sockets[current].pending,
         \A i \in DOMAIN sockets[current].inbox :
           sockets[current].inbox[i].kind = "closed" /\ sockets[current].inbox[i].id # x =>
             \E j \in DOMAIN base[current].inbox :
               base[current].inbox[j] = sockets[current].inbox[i],
         current' = current, sockets' = Dropped(base, x), parked' = Unpark(x),
         NEW y, y # x, Asked(y)
  PROVE  Asked(y)'
<1>1. /\ SocketsOK /\ StateOK /\ OtherTypeOK
  BY DEF SupervisorInv, SessionInv, SocketsInv
<1>2. /\ sockets'[current].inbox = base[current].inbox
      /\ sockets[current].serving \ {x} \subseteq sockets'[current].serving
      /\ sockets[current].pending \ {Frame("req", x)} \subseteq sockets'[current].pending
  BY <1>1, DroppedQuiet
<1>3. Frame("req", y) # Frame("req", x)
  BY FrameInjective
<1>4. \A i \in DOMAIN parked : parked[i] # x => i \in DOMAIN parked' /\ parked'[i] = parked[i]
  BY <1>1, Unparked
<1>5. CASE y \in sockets[current].serving \/ Frame("req", y) \in sockets[current].pending
  BY <1>2, <1>3, <1>5 DEF Asked
<1>6. CASE \E i \in DOMAIN parked : parked[i] = y
  BY <1>4, <1>6 DEF Asked
<1>7. CASE \E i \in DOMAIN sockets[current].inbox :
             sockets[current].inbox[i].kind = "closed" /\ sockets[current].inbox[i].id = y
  BY <1>2, <1>7 DEF Asked
<1> QED
  BY <1>5, <1>6, <1>7 DEF Asked

\* A subscription that is given up takes no other with it.
LEMMA UnsubscribeKeeps ==
  ASSUME SupervisorInv, NEW x \in Subs, Unsubscribe(x)
  PROVE  SupervisorInv'
<1>0. /\ SessionInv /\ OtherTypeOK /\ SocketsOK /\ StateOK
      /\ UNCHANGED <<state, current, gated, crashed, calls, orphans, query>>
      /\ records' = records \ {x} /\ ended' = ended \ {x}
      /\ parked' = Unpark(x) /\ sockets' = Dropped(sockets, x)
  BY DEF SupervisorInv, SessionInv, SocketsInv, Unsubscribe, session, waiters
<1>1. OtherTypeOK'
  <2>1. records' \subseteq Subs /\ IsFiniteSet(records') /\ ended' \subseteq Subs
    BY <1>0, FS_Subset DEF OtherTypeOK
  <2>2. troubles' \in 0 .. MaxTroubles /\ parked' \in Seq(Subs \cup {Query, None})
    BY <1>0, TroubleType, Unparked DEF Unsubscribe
  <2> QED
    BY <1>0, <2>1, <2>2 DEF OtherTypeOK
<1>2. Quiet(sockets', sockets)
  BY <1>0, QuietRefl, DroppedQuiet
<1>3. ASSUME state = "ready", NEW y \in records' \ ended' PROVE Asked(y)'
  <2>1. current \in DOMAIN sockets
    BY <1>0, <1>3 DEF StateOK, SocketsOK
  <2>2. y # x /\ Asked(y)
    BY <1>0, <1>3 DEF SupervisorInv, ReadyServesAll, Asked
  <2> QED
    BY <1>0, <2>1, <2>2, QuietRefl, WithdrawnKeeps
<1> QED
  BY <1>1, <1>2, <1>3, QuietStep DEF Unsubscribe

\* A parked write that goes out, or has nobody left to go out for.
LEMMA DrainOneKeeps ==
  ASSUME SupervisorInv, DrainOne
  PROVE  SupervisorInv'
<1> DEFINE x == Head(parked)
<1>0. /\ SessionInv /\ OtherTypeOK /\ SocketsOK /\ StateOK /\ LinkOK
      /\ UNCHANGED <<state, current, gated, troubles, calls, orphans, records, ended>>
      /\ parked \in Seq(Subs \cup {Query, None}) /\ parked # <<>>
      /\ parked' = Tail(parked)
      /\ x \in Subs \cup {Query, None}
  BY DEF SupervisorInv, SessionInv, SocketsInv, DrainOne, session, subs, OtherTypeOK
<1>1. crashed' \in BOOLEAN /\ query' \in {"idle", "ready", "open", "done", "rejected"}
  BY <1>0 DEF DrainOne, OtherTypeOK
<1>2. parked' \in Seq(Subs \cup {Query, None})
  BY <1>0
<1>3. OtherTypeOK'
  BY <1>0, <1>1, <1>2 DEF OtherTypeOK
<1>4. ASSUME NEW i \in DOMAIN parked, i # 1
      PROVE  i - 1 \in DOMAIN parked' /\ parked'[i - 1] = parked[i]
  BY <1>0, <1>4
<1>5. parked[1] = x
  BY <1>0
<1> HIDE DEF x
<1>6. CASE x = None \/ Throws
  <2>1. sockets' = sockets
    BY <1>6 DEF DrainOne, x
  <2>2. Quiet(sockets', sockets)
    BY <1>0, <2>1, QuietRefl
  <2>3. ASSUME state = "ready", NEW y \in records' \ ended' PROVE Asked(y)'
    <3>1. Asked(y) /\ y # None
      BY <1>0, <2>3, RelaySupervisorAssumption
         DEF SupervisorInv, ReadyServesAll, Asked, OtherTypeOK
    <3>2. ~Throws
      BY <1>0, <2>3 DEF StateOK, LinkOK, SocketsOK, Throws
    <3>3. \A i \in DOMAIN parked : parked[i] = y => i # 1
      BY <1>5, <1>6, <3>1, <3>2
    <3> QED
      BY <1>0, <1>4, <2>1, <3>1, <3>3 DEF Asked
  <2> QED
    BY <1>3, <2>2, <2>3, QuietStep DEF DrainOne
<1>7. CASE ~(x = None \/ Throws)
  <2> DEFINE frames == {Frame("req", x)}
  <2>1. sockets' = Sent(sockets, frames)
    BY <1>7 DEF DrainOne, x
  <2>2. frames \in SUBSET Sendable /\ (\A f \in frames : f.kind # "auth")
        /\ Frame("req", x) \in frames
    BY <1>0, <1>7, FrameType DEF Ids
  <2>3. current \in DOMAIN sockets
    BY <1>0, <1>7, CurrentSocket DEF Throws
  <2> HIDE DEF frames
  <2>4. Quiet(sockets', sockets)
    BY <1>0, <2>1, <2>2, <2>3, QuietRefl, SentQuiet
  <2>5. PICK r \in SocketType :
           /\ Replaced(Sent(sockets, frames), sockets, current, r)
           /\ r.inbox = sockets[current].inbox
           /\ r.pending = sockets[current].pending
                            \cup (IF sockets[current].link = "open" THEN frames ELSE {})
           /\ r.serving = sockets[current].serving
    BY <1>0, <2>2, <2>3, SentRecord DEF SocketsOK
  <2>6. sockets'[current] = r
    BY <2>1, <2>5 DEF Replaced
  <2>7. ASSUME state = "ready", NEW y \in records' \ ended' PROVE Asked(y)'
    <3>1. Asked(y) /\ sockets[current].link = "open"
      BY <1>0, <2>7 DEF SupervisorInv, ReadyServesAll, Asked, LinkOK
    <3>2. CASE y = x
      BY <1>0, <2>2, <2>5, <2>6, <3>1, <3>2 DEF Asked
    <3>3. CASE y # x
      <4>1. \A i \in DOMAIN parked : parked[i] = y => i # 1
        BY <1>5, <3>3
      <4> QED
        BY <1>0, <1>4, <2>5, <2>6, <3>1, <4>1 DEF Asked
    <3> QED
      BY <3>2, <3>3
  <2> QED
    BY <1>3, <2>4, <2>7, QuietStep DEF DrainOne
<1> QED
  BY <1>6, <1>7

\* An ephemeral event.
LEMMA EphemeralKeeps ==
  ASSUME SupervisorInv, PublishEphemeral
  PROVE  SupervisorInv'
<1> DEFINE frames == {Frame("ephemeral", None)}
<1>0. /\ SessionInv /\ OtherTypeOK /\ SocketsOK /\ StateOK
      /\ UNCHANGED <<state, current, parked, gated, troubles, crashed, calls, orphans, query,
                     records, ended>>
      /\ state = "ready" /\ sockets' = Sent(sockets, frames)
  BY DEF SupervisorInv, SessionInv, SocketsInv, PublishEphemeral, session, gate, waiters, subs
<1>1. OtherTypeOK'
  BY <1>0 DEF OtherTypeOK
<1>2. frames \in SUBSET Sendable /\ \A f \in frames : f.kind # "auth"
  BY FrameType DEF Ids
<1>3. current \in DOMAIN sockets
  BY <1>0 DEF StateOK, SocketsOK
<1> HIDE DEF frames
<1>4. Quiet(sockets', sockets)
  BY <1>0, <1>2, <1>3, QuietRefl, SentQuiet
<1>5. PICK r \in SocketType :
         /\ Replaced(Sent(sockets, frames), sockets, current, r)
         /\ r.inbox = sockets[current].inbox
         /\ r.pending = sockets[current].pending
                          \cup (IF sockets[current].link = "open" THEN frames ELSE {})
         /\ r.serving = sockets[current].serving
  BY <1>0, <1>2, <1>3, SentRecord DEF SocketsOK
<1>6. ASSUME NEW x \in records' \ ended' PROVE Asked(x)'
  <2>1. Asked(x)
    BY <1>0, <1>6 DEF SupervisorInv, ReadyServesAll, Asked
  <2> QED
    BY <1>0, <1>5, <2>1, AskedKept DEF Replaced
<1> QED
  BY <1>1, <1>4, <1>6, QuietStep DEF PublishEphemeral

\* A query that starts takes nothing from the subscriptions.
LEMMA AskKeeps ==
  ASSUME SupervisorInv, Ask
  PROVE  SupervisorInv'
<1>0. /\ SessionInv /\ OtherTypeOK /\ SocketsOK /\ StateOK
      /\ UNCHANGED <<state, current, gated, troubles, crashed, calls, orphans, records, ended>>
      /\ query' \in {"open", "ready"}
  BY DEF SupervisorInv, SessionInv, SocketsInv, Ask, session, subs
<1>1. CASE state = "ready"
  <2>1. Requests(sockets, {Query}, gated)
    BY <1>1 DEF Ask
  <2>2. current \in DOMAIN sockets /\ Quiet(sockets, sockets)
    BY <1>0, <1>1, QuietRefl DEF StateOK, SocketsOK
  <2>3. IsFiniteSet({Query})
    BY FS_Singleton
  <2>4. /\ Quiet(sockets', sockets)
        /\ parked' \in Seq(Subs \cup {Query, None})
        /\ \A i \in DOMAIN parked : i \in DOMAIN parked' /\ parked'[i] = parked[i]
        /\ sockets'[current].inbox = sockets[current].inbox
        /\ sockets[current].serving \subseteq sockets'[current].serving
        /\ sockets[current].pending \subseteq sockets'[current].pending
    BY <1>0, <2>1, <2>2, <2>3, RequestsAsk
  <2>5. OtherTypeOK'
    BY <1>0, <2>4 DEF OtherTypeOK
  <2>6. ASSUME NEW y \in records' \ ended' PROVE Asked(y)'
    <3>1. Asked(y)
      BY <1>0, <1>1, <2>6 DEF SupervisorInv, ReadyServesAll, Asked
    <3> QED
      BY <1>0, <2>4, <3>1, AskedKept
  <2> QED
    BY <2>4, <2>5, <2>6, QuietStep DEF Ask
<1>2. CASE state # "ready"
  <2>1. UNCHANGED <<sockets, parked>>
    BY <1>2 DEF Ask
  <2>2. OtherTypeOK'
    BY <1>0, <2>1 DEF OtherTypeOK
  <2>3. Quiet(sockets', sockets)
    BY <1>0, <2>1, QuietRefl
  <2> QED
    BY <1>2, <2>2, <2>3, QuietStep DEF Ask
<1> QED
  BY <1>1, <1>2

\* A query that ends withdraws its own request only.
LEMMA FinishedKeeps ==
  ASSUME SupervisorInv, NEW base, Quiet(base, sockets), Finished(base),
         \A s \in DOMAIN sockets : /\ base[s].serving = sockets[s].serving
                                   /\ base[s].pending = sockets[s].pending,
         current # 0 =>
           \A i \in DOMAIN sockets[current].inbox :
             /\ sockets[current].inbox[i].kind = "closed"
             /\ sockets[current].inbox[i].id # Query
             => \E j \in DOMAIN base[current].inbox :
                  base[current].inbox[j] = sockets[current].inbox[i],
         UNCHANGED <<session, gated, calls, orphans, subs, crashed, troubles>>
  PROVE  SupervisorInv'
<1>0. /\ SessionInv /\ OtherTypeOK /\ SocketsOK /\ StateOK
      /\ UNCHANGED <<state, current, gated, troubles, crashed, calls, orphans, records, ended>>
      /\ query' = "done" /\ sockets' = Dropped(base, Query) /\ parked' = Unpark(Query)
  BY DEF SupervisorInv, SessionInv, SocketsInv, Finished, session, subs
<1>1. OtherTypeOK'
  BY <1>0, Unparked DEF OtherTypeOK
<1>2. Quiet(sockets', sockets)
  BY <1>0, DroppedQuiet
<1>3. ASSUME state = "ready", NEW y \in records' \ ended' PROVE Asked(y)'
  <2>1. current \in DOMAIN sockets /\ current # 0
    BY <1>0, <1>3 DEF StateOK, SocketsOK
  <2>2. y # Query /\ Asked(y)
    BY <1>0, <1>3, RelaySupervisorAssumption
       DEF SupervisorInv, ReadyServesAll, Asked, OtherTypeOK
  <2> QED
    BY <1>0, <2>1, <2>2, WithdrawnKeeps
<1> QED
  BY <1>1, <1>2, <1>3, QuietStep

\* A query that times out.
LEMMA QueryTimeoutKeeps ==
  ASSUME SupervisorInv, QueryTimeout
  PROVE  SupervisorInv'
<1>0. /\ SessionInv /\ OtherTypeOK /\ SocketsOK
  BY DEF SupervisorInv, SessionInv, SocketsInv
<1>1. CASE query = "ready" /\ query' = "rejected" /\ UNCHANGED <<sockets, parked>>
  <2>1. OtherTypeOK'
    BY <1>0, <1>1 DEF QueryTimeout, OtherTypeOK, subs
  <2> QED
    BY <1>1, <2>1, SameSockets DEF QueryTimeout, subs
<1>2. CASE Finished(sockets)
  BY <1>0, <1>2, QuietRefl, FinishedKeeps DEF QueryTimeout
<1> QED
  BY <1>1, <1>2 DEF QueryTimeout

-----------------------------------------------------------------------------
(* Frames that leave the session alone.                                      *)

\* Reading a frame shifts what is unread: everything but the frame is still there.
LEMMA ReadShift ==
  ASSUME SocketsOK, NEW s \in DOMAIN sockets, sockets[s].inbox # <<>>
  PROVE  /\ Quiet(Read(s), sockets)
         /\ Head(sockets[s].inbox) \in Answer
         /\ Head(sockets[s].inbox) = sockets[s].inbox[1]
         /\ \A q \in DOMAIN sockets :
              /\ Read(s)[q].link = sockets[q].link
              /\ Read(s)[q].serving = sockets[q].serving
              /\ Read(s)[q].pending = sockets[q].pending
              /\ q # s => Read(s)[q].inbox = sockets[q].inbox
         /\ \A i \in DOMAIN sockets[s].inbox : i # 1 =>
              /\ i - 1 \in DOMAIN Read(s)[s].inbox
              /\ Read(s)[s].inbox[i - 1] = sockets[s].inbox[i]
<1>1. PICK r \in SocketType :
              /\ Replaced(Read(s), sockets, s, r)
              /\ r.link = sockets[s].link /\ r.inbox = Tail(sockets[s].inbox)
              /\ r.pending = sockets[s].pending
              /\ r.serving = sockets[s].serving
  BY ReadQuiet
<1>2. sockets[s].inbox \in Seq(Answer)
  BY SocketFields DEF SocketsOK
<1>3. \A i \in DOMAIN sockets[s].inbox : i # 1 =>
        /\ i - 1 \in DOMAIN Tail(sockets[s].inbox)
        /\ Tail(sockets[s].inbox)[i - 1] = sockets[s].inbox[i]
  BY <1>2
<1>4. Head(sockets[s].inbox) \in Answer /\ Head(sockets[s].inbox) = sockets[s].inbox[1]
  BY <1>2
<1> QED
  BY <1>1, <1>3, <1>4, ReadQuiet DEF Replaced

\* A frame that is not a CLOSED of x leaves x asked for.
LEMMA ReadKeeps ==
  ASSUME SocketsOK, current \in DOMAIN sockets, NEW s \in DOMAIN sockets,
         sockets[s].inbox # <<>>, NEW x,
         \/ s # current
         \/ Head(sockets[s].inbox).kind # "closed" \/ Head(sockets[s].inbox).id # x,
         Asked(x), current' = current, sockets' = Read(s), parked' = parked
  PROVE  Asked(x)'
<1>1. /\ Read(s)[current].serving = sockets[current].serving
      /\ Read(s)[current].pending = sockets[current].pending
  BY ReadShift
<1>2. ASSUME NEW i \in DOMAIN sockets[current].inbox,
             sockets[current].inbox[i].kind = "closed", sockets[current].inbox[i].id = x
      PROVE  \E j \in DOMAIN sockets'[current].inbox :
               sockets'[current].inbox[j] = sockets[current].inbox[i]
  <2>1. CASE s # current
    BY <1>2, <2>1, ReadShift
  <2>2. CASE s = current
    BY <1>2, <2>2, ReadShift
  <2> QED
    BY <2>1, <2>2
<1> QED
  BY <1>1, <1>2 DEF Asked

\* A frame that changes nothing but the gate, the publishes and their waiters.
LEMMA ReadStep ==
  ASSUME SupervisorInv, NEW s \in DOMAIN sockets, sockets[s].inbox # <<>>,
         \/ s # current
         \/ Head(sockets[s].inbox).kind # "closed"
         \/ Head(sockets[s].inbox).id \notin Subs,
         UNCHANGED <<session, parked, records, ended>>, sockets' = Read(s), OtherTypeOK'
  PROVE  SupervisorInv'
<1>0. SocketsOK /\ StateOK /\ UNCHANGED <<state, current>> /\ OtherTypeOK
  BY DEF SupervisorInv, SessionInv, SocketsInv, session
<1>1. Quiet(sockets', sockets)
  BY <1>0, ReadShift
<1>2. ASSUME state = "ready", NEW x \in records' \ ended' PROVE Asked(x)'
  <2>1. Asked(x) /\ x \in Subs
    BY <1>0, <1>2 DEF SupervisorInv, ReadyServesAll, Asked, OtherTypeOK
  <2>2. current \in DOMAIN sockets
    BY <1>0, <1>2 DEF StateOK, SocketsOK
  <2> QED
    BY <1>0, <2>1, <2>2, ReadKeeps
<1> QED
  BY <1>1, <1>2, QuietStep

\* An abandoned socket, an EOSE, a notice and the answer to an event.
LEMMA FramesKeep ==
  ASSUME SupervisorInv, NEW s \in DOMAIN sockets, sockets[s].inbox # <<>>,
         LET f == Head(sockets[s].inbox) IN
         \/ (s # current \/ f.kind = "eose") /\ Ignore(s)
         \/ f.kind = "notice" /\ OnNotice(s)
         \/ f.kind = "event" /\ OnOk(s, f.id, f.verdict)
  PROVE  SupervisorInv'
<1> DEFINE f == Head(sockets[s].inbox)
<1>0. OtherTypeOK
  BY DEF SupervisorInv
<1>1. CASE (s # current \/ f.kind = "eose") /\ Ignore(s)
  <2>1. OtherTypeOK'
    BY <1>0, <1>1 DEF Ignore, OtherTypeOK, gate, waiters, subs
  <2> QED
    BY <1>1, <2>1, ReadStep DEF Ignore, gate, waiters, subs
<1>2. CASE f.kind = "notice" /\ OnNotice(s)
  <2>1. OtherTypeOK'
    BY <1>0, <1>2 DEF OnNotice, OtherTypeOK, waiters, subs
  <2> QED
    BY <1>2, <2>1, ReadStep DEF OnNotice, waiters, subs
<1>3. CASE f.kind = "event" /\ OnOk(s, f.id, f.verdict)
  <2> DEFINE e == f.id
             v == f.verdict
  <2>1. OnOk(s, e, v)
    BY <1>3
  <2> HIDE DEF e, v
  <2>2. gated' \in BOOLEAN
    BY <1>0, <2>1 DEF OnOk, OtherTypeOK
  <2>3. calls' \in [Events -> {"idle"} \cup Waiting \cup Answers]
    <3> DEFINE w == IF calls[e] # "ok" THEN calls[e]
                    ELSE CASE v = "good" -> "accepted" [] v = "terminal" -> "terminal"
                           [] OTHER -> "transient"
    <3>1. calls' = [calls EXCEPT ![e] = w]
      BY <2>1 DEF OnOk
    <3>2. e \in Events => w \in {"idle"} \cup Waiting \cup Answers
      <4>1. CASE v = "good"
        BY <1>0, <4>1 DEF OtherTypeOK, Waiting, Answers
      <4>2. CASE v = "terminal"
        BY <1>0, <4>2 DEF OtherTypeOK, Waiting, Answers
      <4>3. CASE v # "good" /\ v # "terminal"
        BY <1>0, <4>3 DEF OtherTypeOK, Waiting, Answers
      <4> QED
        BY <4>1, <4>2, <4>3
    <3> HIDE DEF w
    <3> QED
      BY <1>0, <3>1, <3>2 DEF OtherTypeOK
  <2>4. orphans' \in [Events -> {"held", "displaced", None}]
    BY <1>0, <2>1 DEF OnOk, OtherTypeOK
  <2>5. OtherTypeOK'
    BY <1>0, <2>1, <2>2, <2>3, <2>4 DEF OnOk, OtherTypeOK, subs
  <2> QED
    BY <1>3, <2>1, <2>5, ReadStep DEF OnOk, subs
<1> QED
  BY <1>1, <1>2, <1>3

\* The answer to the query.
LEMMA QueryAnswerKeeps ==
  ASSUME SupervisorInv, NEW s \in DOMAIN sockets, sockets[s].inbox # <<>>,
         OnQueryAnswer(s, Head(sockets[s].inbox).id)
  PROVE  SupervisorInv'
<1>0. /\ OtherTypeOK /\ SocketsOK /\ Head(sockets[s].inbox).id = Query
      /\ Query \notin Subs
  BY RelaySupervisorAssumption DEF SupervisorInv, SessionInv, SocketsInv, OnQueryAnswer
<1>1. CASE query = "open"
  <2>1. Finished(Read(s))
    BY <1>1 DEF OnQueryAnswer
  <2>2. /\ Quiet(Read(s), sockets)
        /\ \A q \in DOMAIN sockets : /\ Read(s)[q].serving = sockets[q].serving
                                     /\ Read(s)[q].pending = sockets[q].pending
                                     /\ q # s => Read(s)[q].inbox = sockets[q].inbox
    BY <1>0, ReadShift
  <2>3. ASSUME current # 0, NEW i \in DOMAIN sockets[current].inbox,
               sockets[current].inbox[i].kind = "closed",
               sockets[current].inbox[i].id # Query
        PROVE  \E j \in DOMAIN Read(s)[current].inbox :
                 Read(s)[current].inbox[j] = sockets[current].inbox[i]
    <3>1. current \in DOMAIN sockets
      BY <2>3, CurrentSocket DEF SupervisorInv
    <3>2. CASE s # current
      BY <2>2, <2>3, <3>1, <3>2
    <3>3. CASE s = current
      BY <1>0, <2>3, <3>3, ReadShift
    <3> QED
      BY <3>2, <3>3
  <2> QED
    BY <2>1, <2>2, <2>3, FinishedKeeps DEF OnQueryAnswer
<1>2. CASE query # "open"
  <2>1. sockets' = Read(s) /\ UNCHANGED <<parked, query>>
    BY <1>2 DEF OnQueryAnswer
  <2>2. OtherTypeOK'
    BY <1>0, <2>1 DEF OnQueryAnswer, OtherTypeOK, subs
  <2> QED
    BY <1>0, <2>1, <2>2, ReadStep DEF OnQueryAnswer, subs
<1> QED
  BY <1>1, <1>2

\* A CLOSED is answered by a new request, or by giving the subscription up for good.
LEMMA ClosedKeeps ==
  ASSUME SupervisorInv, NEW s \in DOMAIN sockets, sockets[s].inbox # <<>>, s = current,
         NEW x, x = Head(sockets[s].inbox).id,
         NEW v, OnSubscriptionClosed(s, x, v)
  PROVE  SupervisorInv'
<1> DEFINE ids == IF v # "terminal" THEN records \cap {x} ELSE {}
           limited == gated \/ v = "limited"
<1>0. /\ SessionInv /\ OtherTypeOK /\ SocketsOK /\ StateOK /\ UnreadOnOpen
      /\ UNCHANGED <<state, current, troubles, crashed, calls, orphans, query, records>>
      /\ Requests(Read(s), ids, limited) /\ x \in Subs
  BY DEF SupervisorInv, SessionInv, SocketsInv, OnSubscriptionClosed, session, waiters
<1>1. /\ ids \in SUBSET (Subs \cup {Query}) /\ IsFiniteSet(ids)
  BY <1>0, FS_Subset, FS_EmptySet DEF OtherTypeOK
<1>2. /\ Quiet(Read(s), sockets) /\ sockets[current].link = "open"
      /\ Read(s)[current].link = "open"
      /\ Read(s)[current].serving = sockets[current].serving
      /\ Read(s)[current].pending = sockets[current].pending
  BY <1>0, ReadShift DEF UnreadOnOpen
<1>3. gated' \in BOOLEAN /\ ended' \subseteq Subs
  BY <1>0 DEF OnSubscriptionClosed, OtherTypeOK
<1> HIDE DEF limited
<1>4. /\ Quiet(sockets', sockets)
      /\ parked' \in Seq(Subs \cup {Query, None})
      /\ \A i \in DOMAIN parked : i \in DOMAIN parked' /\ parked'[i] = parked[i]
      /\ sockets'[current].inbox = Read(s)[current].inbox
      /\ sockets[current].serving \subseteq sockets'[current].serving
      /\ sockets[current].pending \subseteq sockets'[current].pending
      /\ \A y \in ids : \/ Frame("req", y) \in sockets'[current].pending
                       \/ \E i \in DOMAIN parked' : parked'[i] = y
  <2> HIDE DEF ids
  <2> QED
    BY <1>0, <1>1, <1>2, RequestsAsk
<1>5. OtherTypeOK'
  BY <1>0, <1>3, <1>4 DEF OtherTypeOK
<1>6. ASSUME NEW y \in records' \ ended', state = "ready" PROVE Asked(y)'
  <2>1. CASE y = x
    <3>1. v # "terminal" /\ y \in ids
      BY <1>0, <1>6, <2>1 DEF OnSubscriptionClosed
    <3> QED
      BY <1>0, <1>4, <3>1 DEF Asked
  <2>2. CASE y # x
    <3>1. Asked(y)
      BY <1>0, <1>6 DEF SupervisorInv, ReadyServesAll, Asked, OnSubscriptionClosed
    <3>2. ASSUME NEW i \in DOMAIN sockets[current].inbox,
                 sockets[current].inbox[i].kind = "closed", sockets[current].inbox[i].id = y
          PROVE  \E j \in DOMAIN sockets'[current].inbox :
                   sockets'[current].inbox[j] = sockets[current].inbox[i]
      <4>1. i # 1
        BY <1>0, <2>2, <3>2, ReadShift
      <4> QED
        BY <1>0, <1>4, <3>2, <4>1, ReadShift
    <3> QED
      BY <1>0, <1>4, <3>1, <3>2 DEF Asked
  <2> QED
    BY <2>1, <2>2
<1> QED
  BY <1>4, <1>5, <1>6, QuietStep DEF OnSubscriptionClosed

-----------------------------------------------------------------------------
(* What the relay does.                                                      *)

\* The relay says something but a challenge, or nothing, and what it no longer
\* serves or has pending it has answered.
LEMMA RelaySays ==
  ASSUME SupervisorInv, NEW s \in DOMAIN sockets, CanSay(s),
         NEW r \in SocketType, Replaced(sockets', sockets, s, r),
         r.link = sockets[s].link, r.challenged = sockets[s].challenged,
         r.pending \subseteq sockets[s].pending,
         \/ r.inbox = sockets[s].inbox
         \/ \E w \in Answer : w.kind # "challenge" /\ r.inbox = Append(sockets[s].inbox, w),
         \A x \in Subs :
           \/ x \in r.serving \/ Frame("req", x) \in r.pending
           \/ \E i \in DOMAIN r.inbox : r.inbox[i].kind = "closed" /\ r.inbox[i].id = x
           \/ x \notin sockets[s].serving /\ Frame("req", x) \notin sockets[s].pending,
         NEW v, Trouble(v),
         UNCHANGED <<session, gate, waiters, subs, crashed>>
  PROVE  SupervisorInv'
<1>0. /\ OtherTypeOK /\ SocketsOK /\ StateOK
      /\ UNCHANGED <<state, current, parked, gated, crashed, calls, orphans, query, records,
                     ended>>
  BY DEF SupervisorInv, SessionInv, SocketsInv, session, gate, waiters, subs
<1>1. OtherTypeOK'
  BY <1>0, TroubleType DEF OtherTypeOK
<1>2. /\ sockets' \in Seq(SocketType) /\ Len(sockets') = Len(sockets)
      /\ sockets'[s] = r
      /\ \A q \in DOMAIN sockets : q # s => sockets'[q] = sockets[q]
  BY DEF Replaced
<1>3. Quiet(sockets', sockets)
  BY <1>2 DEF Quiet, CanSay
<1>4. ASSUME state = "ready", NEW x \in records' \ ended' PROVE Asked(x)'
  <2>1. x \in Subs /\ Asked(x) /\ current \in DOMAIN sockets
    BY <1>0, <1>4 DEF SupervisorInv, ReadyServesAll, Asked, OtherTypeOK, StateOK, SocketsOK
  <2>2. CASE current # s
    BY <1>0, <1>2, <2>1, <2>2 DEF Asked
  <2>3. CASE current = s
    <3>1. CASE x \notin sockets[s].serving /\ Frame("req", x) \notin sockets[s].pending
      <4>1. CASE \E i \in DOMAIN parked : parked[i] = x
        BY <1>0, <4>1 DEF Asked
      <4>2. CASE \E i \in DOMAIN sockets[s].inbox :
                   sockets[s].inbox[i].kind = "closed" /\ sockets[s].inbox[i].id = x
        <5>1. sockets[s].inbox \in Seq(Answer)
          BY <1>0, SocketFields DEF SocketsOK
        <5>2. PICK i \in DOMAIN sockets[s].inbox :
                sockets[s].inbox[i].kind = "closed" /\ sockets[s].inbox[i].id = x
          BY <4>2
        <5>3. i \in DOMAIN r.inbox /\ r.inbox[i] = sockets[s].inbox[i]
          BY <5>1
        <5> QED
          BY <1>0, <1>2, <2>3, <5>2, <5>3 DEF Asked
      <4> QED
        BY <2>1, <2>3, <3>1, <4>1, <4>2 DEF Asked
    <3>2. CASE ~(x \notin sockets[s].serving /\ Frame("req", x) \notin sockets[s].pending)
      BY <1>0, <1>2, <2>1, <2>3, <3>2 DEF Asked
    <3> QED
      BY <3>1, <3>2
  <2> QED
    BY <2>2, <2>3
<1> QED
  BY <1>1, <1>3, <1>4, QuietStep

\* The types of what the relay says.
LEMMA VerdictType ==
  \A kind \in {"challenge", "auth", "event", "eose", "closed", "notice"}, id \in Ids,
     v \in Verdicts :
    /\ Verdict(kind, id, v) \in Answer
    /\ Verdict(kind, id, v).kind = kind /\ Verdict(kind, id, v).id = id
BY DEF Verdict, Answer

\* A frame the relay has to answer.
LEMMA PendingFrame ==
  ASSUME SocketsOK, NEW s \in DOMAIN sockets, NEW f \in sockets[s].pending
  PROVE  /\ f.id \in Ids /\ f.kind \in {"auth", "event", "req", "ephemeral"}
         /\ f = Frame(f.kind, f.id)
         /\ f.kind = "req" => f.id \in Subs \cup {Query}
<1>1. f \in Sendable
  BY SocketFields DEF SocketsOK
<1> QED
  BY <1>1 DEF Frames, Frame, Sendable

\* Appending to what is unread.
LEMMA SaidLast ==
  ASSUME SocketsOK, NEW s \in DOMAIN sockets, NEW w \in Answer
  PROVE  LET B == Append(sockets[s].inbox, w) IN
         B \in Seq(Answer) /\ \E i \in DOMAIN B : B[i] = w
<1>1. sockets[s].inbox \in Seq(Answer)
  BY SocketFields DEF SocketsOK
<1> DEFINE B == Append(sockets[s].inbox, w)
<1>2. B \in Seq(Answer) /\ Len(B) \in DOMAIN B /\ B[Len(B)] = w
  BY <1>1
<1> QED
  BY <1>2

\* The relay ends a subscription: the CLOSED is unread.
LEMMA RelayClosesKeeps ==
  ASSUME SupervisorInv, NEW s \in DOMAIN sockets, NEW x \in Subs, NEW v \in Verdicts,
         RelayCloses(s, x, v)
  PROVE  SupervisorInv'
<1> DEFINE w == Verdict("closed", x, v)
           B == Append(sockets[s].inbox, w)
           S == sockets[s].serving \ {x}
           q == [sockets[s] EXCEPT !.inbox = B]
           r == [q EXCEPT !.serving = S]
<1>0. SocketsOK /\ sockets \in Seq(SocketType)
  BY DEF SupervisorInv, SessionInv, SocketsInv, SocketsOK
<1>1. w \in Answer /\ w.kind = "closed" /\ w.id = x
  BY VerdictType DEF Ids
<1>2. sockets' = [sockets EXCEPT ![s] = r]
  BY <1>0 DEF RelayCloses, Says
<1> HIDE DEF w
<1>3. /\ sockets[s] \in SocketType /\ S \in SUBSET (Subs \cup {Query})
      /\ B \in Seq(Answer) /\ \E i \in DOMAIN B : B[i] = w
  BY <1>0, <1>1, SocketFields, SaidLast
<1>4. B = Append(sockets[s].inbox, w) /\ S = sockets[s].serving \ {x}
  OBVIOUS
<1> HIDE DEF B, S
<1>5. /\ q \in SocketType
      /\ q.link = sockets[s].link /\ q.inbox = B /\ q.pending = sockets[s].pending
      /\ q.challenged = sockets[s].challenged
  BY <1>3, RecordInbox
<1> HIDE DEF q
<1>6. /\ r \in SocketType
      /\ r.link = sockets[s].link /\ r.inbox = B /\ r.pending = sockets[s].pending
      /\ r.challenged = sockets[s].challenged /\ r.serving = S
  BY <1>3, <1>5, RecordServing
<1> HIDE DEF r
<1>7. Replaced(sockets', sockets, s, r)
  BY <1>0, <1>2, <1>6, PutSocket
<1>8. \A y \in Subs :
           \/ y \in r.serving \/ Frame("req", y) \in r.pending
           \/ \E i \in DOMAIN r.inbox : r.inbox[i].kind = "closed" /\ r.inbox[i].id = y
           \/ y \notin sockets[s].serving /\ Frame("req", y) \notin sockets[s].pending
  BY <1>1, <1>3, <1>4, <1>6
<1>9. CanSay(s) /\ Trouble(v) /\ UNCHANGED <<session, gate, waiters, subs, crashed>>
  BY DEF RelayCloses
<1>10. \E u \in Answer : u.kind # "challenge" /\ r.inbox = Append(sockets[s].inbox, u)
  BY <1>1, <1>4, <1>6
<1> QED
  BY <1>6, <1>7, <1>8, <1>9, <1>10, RelaySays

\* The relay answers: a request is served or a CLOSED of it is unread.
LEMMA RelayAnswersKeeps ==
  ASSUME SupervisorInv, NEW s \in DOMAIN sockets, NEW f \in sockets[s].pending,
         NEW v \in Verdicts, RelayAnswers(s, f, v)
  PROVE  SupervisorInv'
<1> DEFINE P == sockets[s].pending \ {f}
           q == [sockets[s] EXCEPT !.pending = P]
<1>0. /\ SocketsOK /\ sockets \in Seq(SocketType) /\ sockets[s] \in SocketType
      /\ P \in SUBSET Sendable
      /\ sockets[s].inbox \in Seq(Answer)
      /\ sockets[s].serving \in SUBSET (Subs \cup {Query})
  BY SocketFields DEF SupervisorInv, SessionInv, SocketsInv, SocketsOK
<1>1. /\ f.id \in Ids /\ f.kind \in {"auth", "event", "req", "ephemeral"}
      /\ f = Frame(f.kind, f.id)
  BY <1>0, PendingFrame
<1>2. CanSay(s) /\ (\E t : Trouble(t)) /\ UNCHANGED <<session, gate, waiters, subs, crashed>>
  BY DEF RelayAnswers
<1>3. P = sockets[s].pending \ {f}
  OBVIOUS
<1>4. [sockets EXCEPT ![s].pending = @ \ {f}] = [sockets EXCEPT ![s] = q]
  OBVIOUS
<1> HIDE DEF P
<1>5. /\ q \in SocketType
      /\ q.link = sockets[s].link /\ q.inbox = sockets[s].inbox /\ q.pending = P
      /\ q.challenged = sockets[s].challenged /\ q.serving = sockets[s].serving
  BY <1>0, RecordPending
<1> HIDE DEF q
<1> DEFINE done == [sockets EXCEPT ![s] = q]
           Says2(kind, verdict) == [done EXCEPT ![s].inbox = Append(@, Verdict(kind, f.id, verdict))]
<1>6. f.kind = "auth" => sockets' = [Says2("auth", v) EXCEPT ![s].authed = (v = "good")]
  BY <1>4 DEF RelayAnswers
<1>7. f.kind = "event" => sockets' = Says2("event", v)
  BY <1>4 DEF RelayAnswers
<1>8. f.kind = "req" =>
        sockets' = IF v = "good" THEN [Says2("eose", v) EXCEPT ![s].serving = @ \cup {f.id}]
                   ELSE [Says2("closed", v) EXCEPT ![s].serving = @ \ {f.id}]
  BY <1>4 DEF RelayAnswers
<1>9. f.kind = "ephemeral" => sockets' = IF v = "good" THEN done ELSE Says2("notice", v)
  BY <1>4 DEF RelayAnswers
<1>10. ASSUME NEW kind \in {"auth", "event", "eose", "closed", "notice"}
       PROVE  \E x \in SocketType :
                /\ Says2(kind, v) = [sockets EXCEPT ![s] = x]
                /\ x.link = sockets[s].link /\ x.pending = P
                /\ x.challenged = sockets[s].challenged /\ x.serving = sockets[s].serving
                /\ \E w \in Answer : /\ w.kind = kind /\ w.id = f.id
                                     /\ x.inbox = Append(sockets[s].inbox, w)
  <2> DEFINE w == Verdict(kind, f.id, v)
             B == Append(sockets[s].inbox, w)
             x == [q EXCEPT !.inbox = B]
  <2>1. w \in Answer /\ w.kind = kind /\ w.id = f.id
    BY <1>1, VerdictType
  <2>2. Says2(kind, v) = [sockets EXCEPT ![s] = x]
    BY <1>0, <1>5
  <2> HIDE DEF w
  <2>3. B \in Seq(Answer) /\ B = Append(sockets[s].inbox, w)
    BY <1>0, <2>1
  <2> HIDE DEF B
  <2>4. /\ x \in SocketType
        /\ x.link = sockets[s].link /\ x.pending = P /\ x.inbox = B
        /\ x.challenged = sockets[s].challenged /\ x.serving = sockets[s].serving
    BY <1>5, <2>3, RecordInbox
  <2> HIDE DEF x
  <2> QED
    BY <2>1, <2>2, <2>3, <2>4
<1>11. ASSUME NEW x \in SocketType, sockets' = [sockets EXCEPT ![s] = x],
              x.link = sockets[s].link, x.challenged = sockets[s].challenged, x.pending = P,
              \/ x.inbox = sockets[s].inbox
              \/ \E w \in Answer : w.kind # "challenge" /\ x.inbox = Append(sockets[s].inbox, w),
              x.serving \cup {f.id} = sockets[s].serving \cup {f.id},
              \/ f.kind # "req" /\ x.serving = sockets[s].serving
              \/ f.id \in x.serving
              \/ \E i \in DOMAIN x.inbox : x.inbox[i].kind = "closed" /\ x.inbox[i].id = f.id
       PROVE  SupervisorInv'
  <2>1. Replaced(sockets', sockets, s, x)
    BY <1>0, <1>11, PutSocket
  <2>2. x.pending \subseteq sockets[s].pending
    BY <1>3, <1>11
  <2>3. ASSUME NEW y \in Subs
        PROVE  \/ y \in x.serving \/ Frame("req", y) \in x.pending
               \/ \E i \in DOMAIN x.inbox : x.inbox[i].kind = "closed" /\ x.inbox[i].id = y
               \/ y \notin sockets[s].serving /\ Frame("req", y) \notin sockets[s].pending
    <3>1. CASE f = Frame("req", y)
      <4>1. f.kind = "req" /\ f.id = y
        BY <3>1 DEF Frame
      <4> QED
        BY <1>11, <4>1
    <3>2. CASE f # Frame("req", y)
      <4>1. Frame("req", y) \in sockets[s].pending => Frame("req", y) \in x.pending
        BY <1>3, <1>11, <3>2
      <4> QED
        BY <1>11, <4>1
    <3> QED
      BY <3>1, <3>2
  <2> QED
    BY <1>2, <1>11, <2>1, <2>2, <2>3, RelaySays
<1> HIDE DEF done, Says2
<1>12. CASE f.kind = "auth"
  <2>1. PICK x \in SocketType :
                /\ Says2("auth", v) = [sockets EXCEPT ![s] = x]
                /\ x.link = sockets[s].link /\ x.pending = P
                /\ x.challenged = sockets[s].challenged /\ x.serving = sockets[s].serving
                /\ \E w \in Answer : /\ w.kind = "auth" /\ w.id = f.id
                                     /\ x.inbox = Append(sockets[s].inbox, w)
    BY <1>10
  <2> DEFINE b == (v = "good")
             y == [x EXCEPT !.authed = b]
  <2>2. sockets' = [sockets EXCEPT ![s] = y]
    BY <1>0, <1>6, <1>12, <2>1
  <2>3. b \in BOOLEAN
    OBVIOUS
  <2> HIDE DEF b
  <2>4. /\ y \in SocketType
        /\ y.link = x.link /\ y.pending = x.pending /\ y.inbox = x.inbox
        /\ y.challenged = x.challenged /\ y.serving = x.serving
    BY <2>3, RecordAuthed
  <2> HIDE DEF y
  <2>5. /\ y.link = sockets[s].link /\ y.pending = P
        /\ y.challenged = sockets[s].challenged /\ y.serving = sockets[s].serving
    BY <2>1, <2>4
  <2>6. \E w \in Answer : w.kind # "challenge" /\ y.inbox = Append(sockets[s].inbox, w)
    BY <2>1, <2>4
  <2> QED
    BY <1>11, <1>12, <2>2, <2>4, <2>5, <2>6
<1>13. CASE f.kind = "event"
  <2>1. PICK x \in SocketType :
                /\ Says2("event", v) = [sockets EXCEPT ![s] = x]
                /\ x.link = sockets[s].link /\ x.pending = P
                /\ x.challenged = sockets[s].challenged /\ x.serving = sockets[s].serving
                /\ \E w \in Answer : /\ w.kind = "event" /\ w.id = f.id
                                     /\ x.inbox = Append(sockets[s].inbox, w)
    BY <1>10
  <2>2. sockets' = [sockets EXCEPT ![s] = x]
    BY <1>7, <1>13, <2>1
  <2>3. \E w \in Answer : w.kind # "challenge" /\ x.inbox = Append(sockets[s].inbox, w)
    BY <2>1
  <2> QED
    BY <1>11, <1>13, <2>1, <2>2, <2>3
<1>14. CASE f.kind = "req"
  <2>1. CASE v = "good"
    <3>1. PICK x \in SocketType :
                /\ Says2("eose", v) = [sockets EXCEPT ![s] = x]
                /\ x.link = sockets[s].link /\ x.pending = P
                /\ x.challenged = sockets[s].challenged /\ x.serving = sockets[s].serving
                /\ \E w \in Answer : /\ w.kind = "eose" /\ w.id = f.id
                                     /\ x.inbox = Append(sockets[s].inbox, w)
      BY <1>10
    <3> DEFINE S == x.serving \cup {f.id}
               y == [x EXCEPT !.serving = S]
    <3>2. sockets' = [sockets EXCEPT ![s] = y]
      BY <1>0, <1>8, <1>14, <2>1, <3>1
    <3>3. S \in SUBSET (Subs \cup {Query})
      <4>1. f.id \in Subs \cup {Query}
        BY <1>0, <1>14, PendingFrame
      <4> QED
        BY <1>0, <3>1, <4>1
    <3>4. S = x.serving \cup {f.id}
      OBVIOUS
    <3> HIDE DEF S
    <3>5. /\ y \in SocketType
          /\ y.link = x.link /\ y.pending = x.pending /\ y.inbox = x.inbox
          /\ y.challenged = x.challenged /\ y.serving = S
      BY <3>3, RecordServing
    <3> HIDE DEF y
    <3>6. /\ y.link = sockets[s].link /\ y.pending = P
          /\ y.challenged = sockets[s].challenged
      BY <3>1, <3>5
    <3>7. f.id \in y.serving /\ y.serving \cup {f.id} = sockets[s].serving \cup {f.id}
      BY <3>1, <3>4, <3>5
    <3>8. \E w \in Answer : w.kind # "challenge" /\ y.inbox = Append(sockets[s].inbox, w)
      BY <3>1, <3>5
    <3> QED
      BY <1>11, <3>2, <3>5, <3>6, <3>7, <3>8
  <2>2. CASE v # "good"
    <3>1. PICK x \in SocketType :
                /\ Says2("closed", v) = [sockets EXCEPT ![s] = x]
                /\ x.link = sockets[s].link /\ x.pending = P
                /\ x.challenged = sockets[s].challenged /\ x.serving = sockets[s].serving
                /\ \E w \in Answer : /\ w.kind = "closed" /\ w.id = f.id
                                     /\ x.inbox = Append(sockets[s].inbox, w)
      BY <1>10
    <3>2. PICK w \in Answer : /\ w.kind = "closed" /\ w.id = f.id
                              /\ x.inbox = Append(sockets[s].inbox, w)
      BY <3>1
    <3> DEFINE S == x.serving \ {f.id}
               y == [x EXCEPT !.serving = S]
    <3>3. sockets' = [sockets EXCEPT ![s] = y]
      BY <1>0, <1>8, <1>14, <2>2, <3>1
    <3>4. S \in SUBSET (Subs \cup {Query}) /\ S = x.serving \ {f.id}
      BY <1>0, <3>1
    <3> HIDE DEF S
    <3>5. /\ y \in SocketType
          /\ y.link = x.link /\ y.pending = x.pending /\ y.inbox = x.inbox
          /\ y.challenged = x.challenged /\ y.serving = S
      BY <3>4, RecordServing
    <3> HIDE DEF y
    <3>6. /\ y.link = sockets[s].link /\ y.pending = P
          /\ y.challenged = sockets[s].challenged
      BY <3>1, <3>5
    <3>7. y.serving \cup {f.id} = sockets[s].serving \cup {f.id}
      BY <3>1, <3>4, <3>5
    <3>8. \E i \in DOMAIN y.inbox : y.inbox[i].kind = "closed" /\ y.inbox[i].id = f.id
      <4>1. PICK B : B = Append(sockets[s].inbox, w)
        OBVIOUS
      <4>2. \E i \in DOMAIN B : B[i] = w
        BY <1>0, <4>1, SaidLast
      <4>3. y.inbox = B
        BY <3>2, <3>5, <4>1
      <4> QED
        BY <3>2, <4>2, <4>3
    <3>9. w.kind # "challenge" /\ y.inbox = Append(sockets[s].inbox, w)
      BY <3>2, <3>5
    <3> QED
      BY <1>11, <3>3, <3>5, <3>6, <3>7, <3>8, <3>9
  <2> QED
    BY <2>1, <2>2
<1>15. CASE f.kind = "ephemeral"
  <2>1. CASE v = "good"
    BY <1>5, <1>9, <1>11, <1>15, <2>1 DEF done
  <2>2. CASE v # "good"
    BY <1>9, <1>10, <1>11, <1>15, <2>2
  <2> QED
    BY <2>1, <2>2
<1> QED
  BY <1>1, <1>12, <1>13, <1>14, <1>15

-----------------------------------------------------------------------------
(* Steps of the session.                                                     *)

\* A step that ends away from a ready connection needs no account of the
\* subscriptions.
LEMMA NotReadyStep ==
  ASSUME SessionInv', OtherTypeOK', state' # "ready"
  PROVE  SupervisorInv'
BY DEF SupervisorInv, ReadyServesAll

\* One socket changes in any way that keeps what concerns the sockets alone.
LEMMA SocketReplaced ==
  ASSUME SocketsInv, NEW s \in DOMAIN sockets, NEW r \in SocketType,
         Replaced(sockets', sockets, s, r),
         r.link # "open" => r.inbox = <<>>,
         \A i, j \in DOMAIN r.inbox :
           r.inbox[i].kind = "challenge" =>
             r.challenged /\ (r.inbox[j].kind = "challenge" => i = j),
         \A f \in r.pending : f.kind = "auth" => f.id = s
  PROVE  /\ SocketsInv' /\ DOMAIN sockets' = DOMAIN sockets /\ Len(sockets') = Len(sockets)
         /\ sockets'[s] = r
         /\ \A q \in DOMAIN sockets : q # s => sockets'[q] = sockets[q]
<1>1. /\ sockets' \in Seq(SocketType) /\ sockets \in Seq(SocketType)
      /\ DOMAIN sockets' = DOMAIN sockets /\ Len(sockets') = Len(sockets)
      /\ sockets'[s] = r
      /\ \A q \in DOMAIN sockets : q # s => sockets'[q] = sockets[q]
  BY DEF Replaced, SocketsInv, SocketsOK
<1>2. SocketsOK'
  BY <1>1 DEF SocketsOK
<1>3. UnreadOnOpen'
  BY <1>1 DEF SocketsInv, UnreadOnOpen
<1>4. ChallengedOnce'
  <2>1. ASSUME NEW q \in DOMAIN sockets', NEW i \in DOMAIN sockets'[q].inbox,
               NEW j \in DOMAIN sockets'[q].inbox, sockets'[q].inbox[i].kind = "challenge"
        PROVE  /\ sockets'[q].challenged
               /\ sockets'[q].inbox[j].kind = "challenge" => i = j
    <3>1. CASE q = s
      BY <1>1, <2>1, <3>1
    <3>2. CASE q # s
      BY <1>1, <2>1, <3>2 DEF SocketsInv, ChallengedOnce
    <3> QED
      BY <3>1, <3>2
  <2> QED
    BY <2>1 DEF ChallengedOnce
<1>5. AuthAnswersOwnChallenge'
  BY <1>1 DEF SocketsInv, AuthAnswersOwnChallenge
<1> QED
  BY <1>1, <1>2, <1>3, <1>4, <1>5 DEF SocketsInv

\* A new socket: nothing is unread, pending or served on it.
LEMMA DialKeeps ==
  ASSUME SupervisorInv, Connect \/ BackoffEnds
  PROVE  SupervisorInv'
<1> DEFINE new == [link |-> "dialing", inbox |-> <<>>, pending |-> {},
                   challenged |-> FALSE, authed |-> FALSE, serving |-> {}]
<1>0. /\ SocketsInv /\ SessionTypeOK /\ StateOK /\ ChallengeOK /\ OtherTypeOK
      /\ sockets \in Seq(SocketType)
      /\ state \in {"disconnected", "backing_off"} /\ ~closed
      /\ UNCHANGED <<gate, waiters, subs, crashed, troubles>>
  BY DEF SupervisorInv, SessionInv, SocketsInv, SocketsOK, Connect, BackoffEnds, StateOK
<1>1. /\ Len(sockets) < MaxSockets /\ sockets' = Append(sockets, new)
      /\ current' = Len(sockets) + 1 /\ state' = "connecting"
      /\ UNCHANGED <<challenge, awaiting, attempt, ready, closed>>
  BY DEF Connect, BackoffEnds, Dial
<1>2. new \in SocketType /\ new.inbox = <<>> /\ new.pending = {}
  BY DEF SocketType
<1> HIDE DEF new
<1>3. /\ sockets' \in Seq(SocketType) /\ Len(sockets') = Len(sockets) + 1
      /\ \A q \in DOMAIN sockets' :
           (q \in DOMAIN sockets /\ sockets'[q] = sockets[q]) \/ sockets'[q] = new
  BY <1>0, <1>1, <1>2
<1>4. SocketsInv'
  <2>1. UnreadOnOpen'
    BY <1>0, <1>2, <1>3 DEF SocketsInv, UnreadOnOpen
  <2>2. ChallengedOnce'
    BY <1>0, <1>2, <1>3 DEF SocketsInv, ChallengedOnce
  <2>3. AuthAnswersOwnChallenge'
    BY <1>0, <1>2, <1>3 DEF SocketsInv, AuthAnswersOwnChallenge
  <2> QED
    BY <1>3, <2>1, <2>2, <2>3 DEF SocketsInv, SocketsOK
<1>5. challenge = 0 /\ awaiting = None
  BY <1>0 DEF ChallengeOK, SessionTypeOK
<1>6. SessionTypeOK'
  BY <1>0, <1>1, <1>3, <1>5, RelaySupervisorAssumption DEF SessionTypeOK
<1>7. StateOK'
  BY <1>0, <1>1, <1>3 DEF StateOK
<1>8. LinkOK' /\ ChallengeOK'
  BY <1>1, <1>5, RelaySupervisorAssumption DEF LinkOK, ChallengeOK
<1>9. OtherTypeOK'
  BY <1>0 DEF OtherTypeOK, gate, waiters, subs
<1> QED
  BY <1>1, <1>4, <1>6, <1>7, <1>8, <1>9, NotReadyStep DEF SessionInv

\* A socket opens.
LEMMA OpensKeeps ==
  ASSUME SupervisorInv, NEW s \in DOMAIN sockets, Opens(s)
  PROVE  SupervisorInv'
<1> DEFINE r == [sockets[s] EXCEPT !.link = "open"]
<1>0. /\ SocketsInv /\ SessionTypeOK /\ StateOK /\ LinkOK /\ ChallengeOK /\ OtherTypeOK
      /\ sockets \in Seq(SocketType) /\ sockets[s] \in SocketType
      /\ UNCHANGED <<session, gate, waiters, subs, crashed, troubles>>
      /\ s = current /\ sockets[s].link = "dialing"
      /\ sockets' = [sockets EXCEPT ![s] = r]
  BY SocketFields DEF SupervisorInv, SessionInv, SocketsInv, SocketsOK, Opens
<1>1. /\ r \in SocketType /\ r.link = "open" /\ r.inbox = sockets[s].inbox
      /\ r.pending = sockets[s].pending /\ r.challenged = sockets[s].challenged
  BY <1>0, RecordLink
<1> HIDE DEF r
<1>2. r.inbox = <<>> /\ state # "ready"
  BY <1>0, <1>1 DEF SocketsInv, UnreadOnOpen, LinkOK
<1>3. /\ \A f \in r.pending : f.kind = "auth" => f.id = s
      /\ \A i, j \in DOMAIN r.inbox : r.inbox[i].kind = "challenge" =>
             r.challenged /\ (r.inbox[j].kind = "challenge" => i = j)
  BY <1>0, <1>1, <1>2 DEF SocketsInv, AuthAnswersOwnChallenge
<1>4. Replaced(sockets', sockets, s, r)
  BY <1>0, <1>1, PutSocket
<1>5. /\ SocketsInv' /\ DOMAIN sockets' = DOMAIN sockets /\ Len(sockets') = Len(sockets)
      /\ sockets'[s] = r
  BY <1>0, <1>1, <1>2, <1>3, <1>4, SocketReplaced
<1>6. UNCHANGED <<state, current, challenge, awaiting, attempt, ready, closed>>
  BY <1>0 DEF session
<1>7. SessionTypeOK' /\ StateOK' /\ LinkOK'
  <2>1. SessionTypeOK'
    BY <1>0, <1>5, <1>6 DEF SessionTypeOK
  <2>2. StateOK'
    BY <1>0, <1>5, <1>6 DEF StateOK, SocketsInv, SocketsOK
  <2> QED
    BY <1>2, <1>6, <2>1, <2>2 DEF LinkOK
<1>8. ChallengeOK'
  BY <1>0, <1>1, <1>5, <1>6 DEF ChallengeOK, Spent
<1>9. OtherTypeOK'
  BY <1>0 DEF OtherTypeOK, gate, waiters, subs
<1> QED
  BY <1>2, <1>5, <1>6, <1>7, <1>8, <1>9, NotReadyStep DEF SessionInv

\* The relay's challenge is the first on its socket.
LEMMA ChallengesKeeps ==
  ASSUME SupervisorInv, NEW s \in DOMAIN sockets, RelayChallenges(s)
  PROVE  SupervisorInv'
<1> DEFINE w == Frame("challenge", s)
           B == Append(sockets[s].inbox, w)
           q == [sockets[s] EXCEPT !.inbox = B]
           r == [q EXCEPT !.challenged = TRUE]
<1>0. /\ SocketsInv /\ SessionTypeOK /\ StateOK /\ LinkOK /\ ChallengeOK /\ OtherTypeOK
      /\ SocketsOK /\ sockets \in Seq(SocketType) /\ sockets[s] \in SocketType
      /\ sockets[s].inbox \in Seq(Answer)
      /\ UNCHANGED <<session, gate, waiters, subs, crashed, troubles>>
      /\ sockets[s].link = "open" /\ ~sockets[s].challenged
      /\ sockets' = [sockets EXCEPT ![s] = r]
  BY SocketFields
     DEF SupervisorInv, SessionInv, SocketsInv, SocketsOK, RelayChallenges, CanSay, Says
<1>1. w \in Answer /\ w.kind = "challenge"
  <2>1. s \in 1 .. MaxSockets
    BY <1>0, RelaySupervisorAssumption DEF SessionTypeOK
  <2> QED
    BY <2>1 DEF Frame, Answer, Ids, Verdicts
<1> HIDE DEF w
<1>2. B \in Seq(Answer) /\ B = Append(sockets[s].inbox, w)
  BY <1>0, <1>1
<1> HIDE DEF B
<1>3. /\ q \in SocketType
      /\ q.link = sockets[s].link /\ q.inbox = B /\ q.pending = sockets[s].pending
      /\ q.challenged = sockets[s].challenged /\ q.serving = sockets[s].serving
  BY <1>0, <1>2, RecordInbox
<1> HIDE DEF q
<1>4. /\ r \in SocketType /\ r.link = "open" /\ r.inbox = B
      /\ r.pending = sockets[s].pending /\ r.challenged /\ r.serving = sockets[s].serving
  BY <1>0, <1>3, RecordChallenged
<1> HIDE DEF r
<1>5. \A i \in DOMAIN sockets[s].inbox : sockets[s].inbox[i].kind # "challenge"
  BY <1>0 DEF SocketsInv, ChallengedOnce
<1>6. \A i \in DOMAIN B : \/ i \in DOMAIN sockets[s].inbox /\ B[i] = sockets[s].inbox[i]
                          \/ i = Len(sockets[s].inbox) + 1
  BY <1>0, <1>2
<1>7. /\ \A f \in r.pending : f.kind = "auth" => f.id = s
      /\ \A i, j \in DOMAIN r.inbox : r.inbox[i].kind = "challenge" =>
             r.challenged /\ (r.inbox[j].kind = "challenge" => i = j)
  BY <1>0, <1>4, <1>5, <1>6 DEF SocketsInv, AuthAnswersOwnChallenge
<1>8. Replaced(sockets', sockets, s, r)
  BY <1>0, <1>4, PutSocket
<1>9. /\ SocketsInv' /\ DOMAIN sockets' = DOMAIN sockets /\ Len(sockets') = Len(sockets)
      /\ sockets'[s] = r
      /\ \A p \in DOMAIN sockets : p # s => sockets'[p] = sockets[p]
  BY <1>0, <1>4, <1>7, <1>8, SocketReplaced
<1>10. UNCHANGED <<state, current, challenge, awaiting, attempt, ready, closed, gated, parked,
                   calls, orphans, query, records, ended>>
  BY <1>0 DEF session, gate, waiters, subs
<1>11. SessionTypeOK'
  BY <1>0, <1>9, <1>10 DEF SessionTypeOK
<1>12. StateOK'
  BY <1>0, <1>9, <1>10 DEF StateOK, SocketsInv, SocketsOK
<1>13. current # 0 => current \in DOMAIN sockets
  BY <1>0 DEF StateOK, SocketsOK
<1>14. state = "ready" => current # 0
  BY <1>0 DEF StateOK, SocketsOK
<1>15. LinkOK'
  BY <1>0, <1>4, <1>9, <1>10, <1>13, <1>14 DEF LinkOK
<1>16. ChallengeOK'
  <2>1. ASSUME current # 0, Spent(current) PROVE current # s /\ Spent(current)'
    BY <1>0, <1>9, <1>10, <1>13, <2>1 DEF Spent
  <2>2. (challenge # 0 /\ ~closed) \/ awaiting = "auth" \/ state = "ready"
          => current # 0 /\ Spent(current)
    BY <1>0, RelaySupervisorAssumption DEF ChallengeOK, StateOK, SessionTypeOK, SocketsOK
  <2> QED
    BY <1>0, <1>10, <2>1, <2>2 DEF ChallengeOK
<1>17. OtherTypeOK'
  BY <1>0, <1>10 DEF OtherTypeOK
<1>18. ReadyServesAll'
  <2>1. ASSUME state = "ready", NEW x \in records \ ended PROVE Asked(x)'
    <3>1. Asked(x) /\ current \in DOMAIN sockets
      BY <1>13, <1>14, <2>1 DEF SupervisorInv, ReadyServesAll, Asked
    <3>2. CASE current # s
      BY <1>9, <1>10, <3>1, <3>2 DEF Asked
    <3>3. CASE current = s
      <4>1. \A i \in DOMAIN sockets[s].inbox : i \in DOMAIN B /\ B[i] = sockets[s].inbox[i]
        BY <1>0, <1>2
      <4> QED
        BY <1>4, <1>9, <1>10, <3>1, <3>3, <4>1 DEF Asked
    <3> QED
      BY <3>2, <3>3
  <2> QED
    BY <1>10, <2>1 DEF ReadyServesAll, Asked
<1> QED
  BY <1>9, <1>11, <1>12, <1>15, <1>16, <1>17, <1>18 DEF SessionInv, SupervisorInv

\* A failed connection leaves no socket, no challenge and nothing to wait for.
LEMMA EndsKeeps ==
  ASSUME SupervisorInv, state \in {"connecting", "authenticating", "ready"},
         NEW terminal \in BOOLEAN, ConnectionEnds(terminal),
         SocketsInv', Len(sockets') = Len(sockets), challenge' = 0,
         troubles' \in 0 .. MaxTroubles
  PROVE  SupervisorInv'
<1>0. /\ SessionTypeOK /\ StateOK /\ OtherTypeOK /\ ~closed
      /\ current' = 0 /\ awaiting' = None /\ ended' = {}
      /\ state' \in {"failed", "backing_off"}
      /\ UNCHANGED <<ready, closed, gated, parked, records>>
  BY DEF SupervisorInv, SessionInv, StateOK, ConnectionEnds, gate
<1>1. attempt' \in 0 .. StartupAttempts
  BY <1>0, RelaySupervisorAssumption DEF ConnectionEnds, SessionTypeOK
<1>2. SessionTypeOK'
  BY <1>0, <1>1, RelaySupervisorAssumption DEF SessionTypeOK
<1>3. StateOK' /\ LinkOK' /\ ChallengeOK'
  BY <1>0, RelaySupervisorAssumption DEF StateOK, LinkOK, ChallengeOK
<1>4. /\ calls' \in [Events -> {"idle"} \cup Waiting \cup Answers]
      /\ crashed' \in BOOLEAN /\ orphans' = orphans
  BY <1>0 DEF ConnectionEnds, RejectWaiters, OtherTypeOK, Waiting, Answers
<1>5. query' \in {"idle", "ready", "open", "done", "rejected"}
  BY <1>0 DEF ConnectionEnds, OtherTypeOK
<1>6. OtherTypeOK'
  BY <1>0, <1>4, <1>5 DEF OtherTypeOK
<1> QED
  BY <1>0, <1>2, <1>3, <1>6, NotReadyStep DEF SessionInv

\* The handshake runs out of time.
LEMMA AuthTimeoutKeeps ==
  ASSUME SupervisorInv, AuthTimeout
  PROVE  SupervisorInv'
<1>1. SocketsInv' /\ Len(sockets') = Len(sockets)
  BY DEF AuthTimeout, SupervisorInv, SessionInv, SocketsInv, SocketsOK, UnreadOnOpen,
         ChallengedOnce, AuthAnswersOwnChallenge
<1>2. challenge' = 0
  BY DEF AuthTimeout, SupervisorInv, SessionInv, ChallengeOK, StateOK
<1>3. troubles' \in 0 .. MaxTroubles
  BY TroubleType DEF AuthTimeout, SupervisorInv
<1> QED
  BY <1>1, <1>2, <1>3, EndsKeeps DEF AuthTimeout

\* A connection that stays up starts counting its attempts anew.
LEMMA StableKeeps ==
  ASSUME SupervisorInv, Stable
  PROVE  SupervisorInv'
<1>0. /\ SessionInv /\ OtherTypeOK /\ ReadyServesAll
      /\ attempt' = 0
      /\ UNCHANGED <<state, current, challenge, awaiting, ready, closed, sockets, gated, parked,
                     calls, orphans, query, records, ended, crashed, troubles>>
  BY DEF SupervisorInv, Stable, gate, waiters, subs
<1>1. SocketsInv'
  BY <1>0 DEF SessionInv, SocketsInv, SocketsOK, UnreadOnOpen, ChallengedOnce,
              AuthAnswersOwnChallenge
<1>2. SessionTypeOK' /\ StateOK' /\ LinkOK' /\ ChallengeOK'
  BY <1>0, RelaySupervisorAssumption
     DEF SessionInv, SessionTypeOK, StateOK, LinkOK, ChallengeOK, Spent
<1>3. OtherTypeOK' /\ ReadyServesAll'
  BY <1>0 DEF OtherTypeOK, ReadyServesAll
<1> QED
  BY <1>1, <1>2, <1>3 DEF SupervisorInv, SessionInv

\* The upgrade is refused.
LEMMA RefusedKeeps ==
  ASSUME SupervisorInv, NEW s \in DOMAIN sockets, NEW terminal \in BOOLEAN,
         Refused(s, terminal)
  PROVE  SupervisorInv'
<1> DEFINE r == [sockets[s] EXCEPT !.link = "over"]
<1>0. /\ SocketsInv /\ StateOK /\ OtherTypeOK
      /\ sockets \in Seq(SocketType) /\ sockets[s] \in SocketType
      /\ s = current /\ sockets[s].link = "dialing"
      /\ sockets' = [sockets EXCEPT ![s] = r] /\ challenge' = 0
      /\ ConnectionEnds(terminal)
  BY SocketFields DEF SupervisorInv, SessionInv, SocketsInv, SocketsOK, Refused
<1>1. /\ r \in SocketType /\ r.inbox = sockets[s].inbox /\ r.pending = sockets[s].pending
  BY <1>0, RecordLink
<1> HIDE DEF r
<1>2. r.inbox = <<>>
  BY <1>0, <1>1 DEF SocketsInv, UnreadOnOpen
<1>3. /\ \A f \in r.pending : f.kind = "auth" => f.id = s
      /\ \A i, j \in DOMAIN r.inbox : r.inbox[i].kind = "challenge" =>
             r.challenged /\ (r.inbox[j].kind = "challenge" => i = j)
  BY <1>0, <1>1, <1>2 DEF SocketsInv, AuthAnswersOwnChallenge
<1>4. Replaced(sockets', sockets, s, r)
  BY <1>0, <1>1, PutSocket
<1>5. SocketsInv' /\ Len(sockets') = Len(sockets)
  BY <1>0, <1>1, <1>2, <1>3, <1>4, SocketReplaced
<1>6. state \in {"connecting", "authenticating", "ready"}
  BY <1>0 DEF StateOK
<1>7. troubles' \in 0 .. MaxTroubles
  BY <1>0, TroubleType DEF Refused
<1> QED
  BY <1>0, <1>5, <1>6, <1>7, EndsKeeps

\* A socket breaks, the current one or one that was abandoned.
LEMMA BreaksKeeps ==
  ASSUME SupervisorInv, NEW s \in DOMAIN sockets, Breaks(s)
  PROVE  SupervisorInv'
<1> DEFINE q1 == [sockets[s] EXCEPT !.link = "over"]
           q2 == [q1 EXCEPT !.inbox = <<>>]
           r == [q2 EXCEPT !.pending = {}]
<1>0. /\ SocketsInv /\ SessionTypeOK /\ StateOK /\ LinkOK /\ ChallengeOK /\ OtherTypeOK
      /\ sockets \in Seq(SocketType) /\ sockets[s] \in SocketType
      /\ sockets[s].link = "open"
      /\ sockets' = [sockets EXCEPT ![s] = r]
  BY SocketFields DEF SupervisorInv, SessionInv, SocketsInv, SocketsOK, Breaks
<1>1. q1 \in SocketType
  BY <1>0, RecordLink
<1> HIDE DEF q1
<1>2. q2 \in SocketType /\ q2.inbox = <<>>
  <2>1. <<>> \in Seq(Answer)
    OBVIOUS
  <2> QED
    BY <1>1, <2>1, RecordInbox
<1> HIDE DEF q2
<1>3. r \in SocketType /\ r.inbox = <<>> /\ r.pending = {}
  BY <1>2, RecordPending
<1> HIDE DEF r
<1>4. Replaced(sockets', sockets, s, r)
  BY <1>0, <1>3, PutSocket
<1>5. /\ SocketsInv' /\ DOMAIN sockets' = DOMAIN sockets /\ Len(sockets') = Len(sockets)
      /\ \A p \in DOMAIN sockets : p # s => sockets'[p] = sockets[p]
  <2>1. \A i, j \in DOMAIN r.inbox : r.inbox[i].kind = "challenge" =>
             r.challenged /\ (r.inbox[j].kind = "challenge" => i = j)
    BY <1>3
  <2>2. \A f \in r.pending : f.kind = "auth" => f.id = s
    BY <1>3
  <2> QED
    BY <1>0, <1>3, <1>4, <2>1, <2>2, SocketReplaced
<1>6. current # 0 => current \in DOMAIN sockets
  BY <1>0 DEF StateOK, SocketsOK
<1>7. CASE s # current
  <2>1. UNCHANGED <<state, current, challenge, awaiting, attempt, ready, closed, gated, parked,
                    calls, orphans, query, records, ended, crashed, troubles>>
    BY <1>7 DEF Breaks, session, gate, waiters, subs
  <2>2. (challenge # 0 /\ ~closed) \/ awaiting = "auth" \/ state = "ready" => current # 0
    BY <1>0, RelaySupervisorAssumption DEF ChallengeOK, StateOK, SessionTypeOK, SocketsOK
  <2>3. SessionTypeOK' /\ StateOK'
    BY <1>0, <1>5, <2>1 DEF SessionTypeOK, StateOK, SocketsInv, SocketsOK
  <2>4. LinkOK'
    BY <1>0, <1>5, <1>6, <1>7, <2>1, <2>2 DEF LinkOK
  <2>5. ChallengeOK'
    BY <1>0, <1>5, <1>6, <1>7, <2>1, <2>2 DEF ChallengeOK, Spent
  <2>6. OtherTypeOK'
    BY <1>0, <2>1 DEF OtherTypeOK
  <2>7. ReadyServesAll'
    BY <1>5, <1>6, <1>7, <2>1, <2>2 DEF SupervisorInv, ReadyServesAll
  <2> QED
    BY <1>5, <2>3, <2>4, <2>5, <2>6, <2>7 DEF SessionInv, SupervisorInv
<1>8. CASE s = current /\ state = "connecting"
  <2>1. /\ UNCHANGED <<state, current, awaiting, attempt, ready, closed, gated, parked, calls,
                       orphans, query, records, ended, crashed>>
        /\ challenge' = 0 /\ Trouble("bad")
    BY <1>8 DEF Breaks, gate, waiters, subs
  <2>2. awaiting = None
    BY <1>0, <1>8 DEF SessionTypeOK
  <2>3. SessionTypeOK'
    BY <1>0, <1>5, <2>1, RelaySupervisorAssumption DEF SessionTypeOK
  <2>4. StateOK'
    BY <1>0, <1>5, <2>1 DEF StateOK, SocketsInv, SocketsOK
  <2>5. LinkOK' /\ ChallengeOK'
    BY <1>8, <2>1, <2>2, RelaySupervisorAssumption DEF LinkOK, ChallengeOK
  <2>6. OtherTypeOK'
    BY <1>0, <2>1, TroubleType DEF OtherTypeOK
  <2> QED
    BY <1>5, <1>8, <2>1, <2>3, <2>4, <2>5, <2>6, NotReadyStep DEF SessionInv
<1>9. CASE s = current /\ state # "connecting"
  <2>1. challenge' = 0 /\ Trouble("bad") /\ ConnectionEnds(FALSE)
    BY <1>9 DEF Breaks
  <2>2. state \in {"connecting", "authenticating", "ready"}
    BY <1>0, <1>9 DEF StateOK
  <2>3. troubles' \in 0 .. MaxTroubles
    BY <1>0, <2>1, TroubleType
  <2> QED
    BY <1>5, <2>1, <2>2, <2>3, EndsKeeps
<1> QED
  BY <1>7, <1>8, <1>9

\* close().
LEMMA CloseKeeps ==
  ASSUME SupervisorInv, Close
  PROVE  SupervisorInv'
<1>0. /\ SessionInv /\ OtherTypeOK
      /\ closed' = TRUE /\ current' = 0 /\ awaiting' = None /\ state' = "disconnected"
      /\ parked' = Unpark(Query)
      /\ UNCHANGED <<challenge, attempt, ready, sockets, gated, records, ended, troubles>>
  BY DEF SupervisorInv, Close, subs
<1>1. SocketsInv'
  BY <1>0 DEF SessionInv, SocketsInv, SocketsOK, UnreadOnOpen, ChallengedOnce,
              AuthAnswersOwnChallenge
<1>2. SessionTypeOK' /\ StateOK' /\ LinkOK' /\ ChallengeOK'
  BY <1>0, RelaySupervisorAssumption
     DEF SessionInv, SessionTypeOK, StateOK, LinkOK, ChallengeOK
<1>3. /\ calls' \in [Events -> {"idle"} \cup Waiting \cup Answers]
      /\ crashed' \in BOOLEAN /\ orphans' = orphans
  BY <1>0 DEF Close, RejectWaiters, OtherTypeOK, Waiting, Answers
<1>4. /\ query' \in {"idle", "ready", "open", "done", "rejected"}
      /\ parked' \in Seq(Subs \cup {Query, None})
  BY <1>0, Unparked DEF Close, OtherTypeOK
<1>5. OtherTypeOK'
  BY <1>0, <1>3, <1>4 DEF OtherTypeOK
<1> QED
  BY <1>0, <1>1, <1>2, <1>5, NotReadyStep DEF SessionInv

-----------------------------------------------------------------------------
(* The handshake.                                                            *)

\* The answer to the challenge is written on the current socket.
LEMMA AuthenticateSockets ==
  ASSUME SessionInv, current \in DOMAIN sockets, NEW base,
         \/ base = sockets
         \/ base = Read(current) /\ sockets[current].inbox # <<>>,
         sockets' = Sent(base, {Frame("auth", current)})
  PROVE  /\ SocketsInv' /\ DOMAIN sockets' = DOMAIN sockets /\ Len(sockets') = Len(sockets)
         /\ sockets'[current].inbox = base[current].inbox
         /\ sockets'[current].challenged = sockets[current].challenged
<1> DEFINE frames == {Frame("auth", current)}
<1>0. /\ SocketsInv /\ SocketsOK /\ sockets \in Seq(SocketType)
      /\ current \in 1 .. MaxSockets
  BY RelaySupervisorAssumption DEF SessionInv, SocketsInv, SocketsOK, SessionTypeOK
<1>1. /\ frames \in SUBSET Sendable
      /\ \A f \in frames : f.kind = "auth" /\ f.id = current
  BY <1>0, FrameType DEF Ids
<1>2. sockets' = Sent(base, frames)
  OBVIOUS
<1> HIDE DEF frames
<1>3. /\ base \in Seq(SocketType) /\ Len(base) = Len(sockets)
      /\ DOMAIN base = DOMAIN sockets
      /\ base[current].link = sockets[current].link
      /\ base[current].challenged = sockets[current].challenged
      /\ base[current].pending = sockets[current].pending
      /\ \A q \in DOMAIN sockets : q # current => base[q] = sockets[q]
  <2>1. CASE base = sockets
    BY <1>0, <2>1
  <2>2. CASE base = Read(current) /\ sockets[current].inbox # <<>>
    <3>1. PICK r \in SocketType :
              /\ Replaced(Read(current), sockets, current, r)
              /\ r.link = sockets[current].link
              /\ r.pending = sockets[current].pending
              /\ r.challenged = sockets[current].challenged
      BY <1>0, <2>2, ReadQuiet
    <3> QED
      BY <1>0, <2>2, <3>1 DEF Replaced
  <2> QED
    BY <2>1, <2>2
<1>4. /\ base[current].link # "open" => base[current].inbox = <<>>
      /\ \A i, j \in DOMAIN base[current].inbox :
           base[current].inbox[i].kind = "challenge" =>
             /\ base[current].challenged
             /\ base[current].inbox[j].kind = "challenge" => i = j
  <2>1. CASE base = sockets
    BY <1>0, <2>1 DEF SocketsInv, UnreadOnOpen, ChallengedOnce
  <2>2. CASE base = Read(current) /\ sockets[current].inbox # <<>>
    <3>1. sockets[current].inbox \in Seq(Answer)
      BY <1>0, SocketFields
    <3>2. base[current].inbox = Tail(sockets[current].inbox)
      BY <1>0, <2>2, ReadQuiet DEF Replaced
    <3>3. \A i \in DOMAIN base[current].inbox :
            /\ i \in Nat /\ i + 1 \in DOMAIN sockets[current].inbox
            /\ base[current].inbox[i] = sockets[current].inbox[i + 1]
      BY <3>1, <3>2, <2>2
    <3>4. \A i, j \in DOMAIN base[current].inbox :
            base[current].inbox[i].kind = "challenge" =>
             /\ base[current].challenged
             /\ base[current].inbox[j].kind = "challenge" => i + 1 = j + 1
      BY <1>0, <1>3, <3>3 DEF SocketsInv, ChallengedOnce
    <3>5. \A i, j \in DOMAIN base[current].inbox : i + 1 = j + 1 => i = j
      BY <3>3
    <3>6. base[current].link = "open"
      BY <1>0, <1>3, <2>2 DEF SocketsInv, UnreadOnOpen
    <3> QED
      BY <3>4, <3>5, <3>6
  <2> QED
    BY <2>1, <2>2
<1>5. PICK r \in SocketType :
           /\ Replaced(Sent(base, frames), base, current, r)
           /\ r.link = base[current].link /\ r.inbox = base[current].inbox
           /\ r.pending = base[current].pending
                            \cup (IF base[current].link = "open" THEN frames ELSE {})
           /\ r.challenged = base[current].challenged
  BY <1>1, <1>3, SentRecord
<1>6. Replaced(sockets', sockets, current, r)
  BY <1>2, <1>3, <1>5 DEF Replaced
<1>7. \A f \in r.pending : f.kind = "auth" => f.id = current
  BY <1>0, <1>1, <1>3, <1>5 DEF SocketsInv, AuthAnswersOwnChallenge
<1>8. /\ r.link # "open" => r.inbox = <<>>
      /\ \A i, j \in DOMAIN r.inbox :
           r.inbox[i].kind = "challenge" =>
             r.challenged /\ (r.inbox[j].kind = "challenge" => i = j)
  BY <1>4, <1>5
<1>9. /\ SocketsInv' /\ DOMAIN sockets' = DOMAIN sockets /\ Len(sockets') = Len(sockets)
      /\ sockets'[current] = r
  BY <1>0, <1>6, <1>7, <1>8, SocketReplaced
<1> QED
  BY <1>3, <1>5, <1>9

\* The handshake begins, with the challenge when it came first.
LEMMA AwaitChallengeKeeps ==
  ASSUME SupervisorInv, AwaitChallenge
  PROVE  SupervisorInv'
<1>0. /\ SessionInv /\ SocketsInv /\ SessionTypeOK /\ StateOK /\ ChallengeOK /\ OtherTypeOK
      /\ SocketsOK
      /\ state = "connecting" /\ state' = "authenticating" /\ challenge' = 0
      /\ UNCHANGED <<current, attempt, ready, closed, gated, parked, calls, orphans, query,
                     records, ended, crashed, troubles>>
  BY DEF SupervisorInv, SessionInv, SocketsInv, AwaitChallenge, gate, waiters, subs
<1>1. current \in DOMAIN sockets /\ ~closed
  BY <1>0 DEF StateOK, SocketsOK
<1>2. /\ SocketsInv' /\ Len(sockets') = Len(sockets)
      /\ awaiting' \in {"challenge", "auth"}
      /\ awaiting' = "auth" => Spent(current)'
  <2>1. CASE challenge # 0
    <3>1. challenge = current /\ Spent(current)
      BY <1>0, <1>1, <2>1 DEF ChallengeOK
    <3>2. awaiting' = "auth" /\ sockets' = Sent(sockets, {Frame("auth", current)})
      BY <2>1, <3>1 DEF AwaitChallenge, Authenticate
    <3>3. /\ SocketsInv' /\ Len(sockets') = Len(sockets)
          /\ sockets'[current].inbox = sockets[current].inbox
          /\ sockets'[current].challenged = sockets[current].challenged
      BY <1>0, <1>1, <3>2, AuthenticateSockets
    <3> QED
      BY <1>0, <3>1, <3>2, <3>3 DEF Spent
  <2>2. CASE challenge = 0
    <3>1. awaiting' = "challenge" /\ sockets' = sockets
      BY <2>2 DEF AwaitChallenge
    <3>2. SocketsInv'
      BY <1>0, <3>1 DEF SocketsInv, SocketsOK, UnreadOnOpen, ChallengedOnce,
                        AuthAnswersOwnChallenge
    <3> QED
      BY <3>1, <3>2
  <2> QED
    BY <2>1, <2>2
<1>3. SessionTypeOK'
  BY <1>0, <1>2, RelaySupervisorAssumption DEF SessionTypeOK
<1>4. StateOK'
  BY <1>0, <1>1, <1>2 DEF StateOK, SocketsInv, SocketsOK
<1>5. LinkOK' /\ ChallengeOK'
  BY <1>0, <1>2 DEF LinkOK, ChallengeOK
<1>6. OtherTypeOK'
  BY <1>0 DEF OtherTypeOK
<1> QED
  BY <1>0, <1>2, <1>3, <1>4, <1>5, <1>6, NotReadyStep DEF SessionInv

\* A challenge is buffered before the handshake and answered in it; afterwards the
\* current socket has none to give.
LEMMA OnChallengeKeeps ==
  ASSUME SupervisorInv, NEW s \in DOMAIN sockets, s = current, sockets[s].inbox # <<>>,
         Head(sockets[s].inbox).kind = "challenge", OnChallenge(s)
  PROVE  SupervisorInv'
<1>0. /\ SessionInv /\ SocketsInv /\ SessionTypeOK /\ StateOK /\ ChallengeOK /\ OtherTypeOK
      /\ SocketsOK /\ sockets \in Seq(SocketType)
      /\ UNCHANGED <<state, current, attempt, ready, closed, gated, parked, calls, orphans, query,
                     records, ended, crashed, troubles>>
  BY DEF SupervisorInv, SessionInv, SocketsInv, SocketsOK, OnChallenge, gate, waiters, subs
<1>1. /\ 1 \in DOMAIN sockets[s].inbox /\ sockets[s].inbox[1].kind = "challenge"
      /\ \A i \in DOMAIN sockets[s].inbox :
           i # 1 => sockets[s].inbox[i].kind # "challenge"
      /\ sockets[s].challenged /\ sockets[s].inbox \in Seq(Answer)
  <2>1. sockets[s].inbox \in Seq(Answer)
    BY <1>0, SocketFields
  <2>2. 1 \in DOMAIN sockets[s].inbox /\ sockets[s].inbox[1].kind = "challenge"
    BY <2>1
  <2> QED
    BY <1>0, <2>1, <2>2 DEF SocketsInv, ChallengedOnce
<1>2. ~Spent(current)
  BY <1>1 DEF Spent
<1>3. /\ current \in DOMAIN sockets /\ ~closed /\ challenge = 0
      /\ state \in {"connecting", "authenticating"} /\ awaiting # "auth"
      /\ awaiting = "challenge" => state = "authenticating"
      /\ awaiting # "challenge" => state = "connecting" /\ awaiting = None
  BY <1>0, <1>2, RelaySupervisorAssumption DEF StateOK, ChallengeOK, SessionTypeOK, SocketsOK
<1>4. /\ Read(s)[s].inbox = Tail(sockets[s].inbox)
      /\ Read(s)[s].challenged
      /\ \A i \in DOMAIN Read(s)[s].inbox : Read(s)[s].inbox[i].kind # "challenge"
      /\ Quiet(Read(s), sockets)
  <2>1. PICK r \in SocketType :
              /\ Replaced(Read(s), sockets, s, r)
              /\ r.inbox = Tail(sockets[s].inbox)
              /\ r.challenged = sockets[s].challenged
    BY <1>0, ReadQuiet
  <2>2. \A i \in DOMAIN Tail(sockets[s].inbox) :
           /\ i + 1 \in DOMAIN sockets[s].inbox /\ i + 1 # 1
           /\ Tail(sockets[s].inbox)[i] = sockets[s].inbox[i + 1]
    BY <1>1
  <2> QED
    BY <1>0, <1>1, <2>1, <2>2, ReadQuiet DEF Replaced
<1>5. CASE awaiting = "challenge"
  <2>1. /\ awaiting' = "auth" /\ challenge' = 0
        /\ sockets' = Sent(Read(current), {Frame("auth", current)})
    BY <1>3, <1>5 DEF OnChallenge, Authenticate
  <2>2. /\ SocketsInv' /\ Len(sockets') = Len(sockets)
        /\ sockets'[current].inbox = Read(current)[current].inbox
        /\ sockets'[current].challenged = sockets[current].challenged
    BY <1>0, <1>3, <2>1, AuthenticateSockets
  <2>3. Spent(current)'
    BY <1>0, <1>1, <1>4, <2>2 DEF Spent
  <2>4. SessionTypeOK'
    BY <1>0, <1>3, <1>5, <2>1, <2>2, RelaySupervisorAssumption DEF SessionTypeOK
  <2>5. StateOK'
    BY <1>0, <1>3, <2>2 DEF StateOK, SocketsInv, SocketsOK
  <2>6. LinkOK' /\ ChallengeOK' /\ OtherTypeOK'
    BY <1>0, <1>3, <2>1, <2>3 DEF LinkOK, ChallengeOK, OtherTypeOK
  <2> QED
    BY <1>0, <1>3, <2>2, <2>4, <2>5, <2>6, NotReadyStep DEF SessionInv
<1>6. CASE awaiting # "challenge"
  <2>1. challenge' = s /\ sockets' = Read(s) /\ awaiting' = None
    BY <1>3, <1>6 DEF OnChallenge
  <2>2. SocketsInv' /\ Len(sockets') = Len(sockets)
    BY <1>0, <1>4, <2>1, QuietSockets DEF Quiet
  <2>3. Spent(current)'
    BY <1>0, <1>4, <2>1 DEF Spent
  <2>4. s \in 1 .. MaxSockets
    BY <1>0, RelaySupervisorAssumption DEF SessionTypeOK
  <2>5. SessionTypeOK'
    BY <1>0, <1>3, <1>6, <2>1, <2>2, <2>4, RelaySupervisorAssumption DEF SessionTypeOK
  <2>6. StateOK'
    BY <1>0, <1>3, <2>2 DEF StateOK, SocketsInv, SocketsOK
  <2>7. LinkOK' /\ ChallengeOK' /\ OtherTypeOK'
    BY <1>0, <1>3, <1>6, <2>1, <2>3, RelaySupervisorAssumption
       DEF LinkOK, ChallengeOK, OtherTypeOK
  <2> QED
    BY <1>0, <1>3, <1>6, <2>2, <2>5, <2>6, <2>7, NotReadyStep DEF SessionInv
<1> QED
  BY <1>5, <1>6

\* The handshake is accepted: the connection is ready and every registered
\* subscription has been asked for.
LEMMA BecomeReadyKeeps ==
  ASSUME SupervisorInv, current \in DOMAIN sockets, sockets[current].inbox # <<>>,
         awaiting = "auth", BecomeReady(Read(current)), UNCHANGED troubles
  PROVE  SupervisorInv'
<1> DEFINE base == Read(current)
           late == {e \in Events : calls[e] = "ready"}
           asks == records \cup (IF query = "ready" THEN {Query} ELSE {})
           frames == {Frame("event", e) : e \in late}
           out == IF gated THEN base ELSE Sent(base, frames)
<1>0. /\ SessionInv /\ SocketsInv /\ SessionTypeOK /\ StateOK /\ ChallengeOK /\ OtherTypeOK
      /\ SocketsOK /\ UnreadOnOpen
  BY DEF SupervisorInv, SessionInv, SocketsInv
<1>1. /\ state' = "ready" /\ ready' = TRUE /\ awaiting' = None
      /\ Requests(out, asks, gated)
      /\ UNCHANGED <<current, challenge, attempt, closed, gated, records, ended, crashed>>
  BY DEF BecomeReady, subs
<1>2. /\ calls' \in [Events -> {"idle"} \cup Waiting \cup Answers]
      /\ orphans' \in [Events -> {"held", "displaced", None}]
      /\ query' \in {"idle", "ready", "open", "done", "rejected"}
  BY <1>0 DEF BecomeReady, OtherTypeOK, Waiting, Answers
<1>3. /\ asks \in SUBSET (Subs \cup {Query}) /\ IsFiniteSet(asks) /\ records \subseteq asks
  <2>1. IsFiniteSet({Query}) /\ IsFiniteSet({})
    BY FS_Singleton, FS_EmptySet
  <2>2. IsFiniteSet(records)
    BY <1>0 DEF OtherTypeOK
  <2>3. IsFiniteSet(asks)
    BY <2>1, <2>2, FS_Union
  <2> QED
    BY <1>0, <2>3 DEF OtherTypeOK
<1>4. frames \in SUBSET Sendable /\ \A f \in frames : f.kind # "auth"
  BY FrameType DEF Ids
<1>5. Quiet(base, sockets) /\ sockets[current].link = "open"
  BY <1>0, ReadQuiet DEF UnreadOnOpen
<1> HIDE DEF base, late, asks, frames
<1>6. Quiet(Sent(base, frames), sockets)
  BY <1>0, <1>4, <1>5, SentQuiet
<1>7. Quiet(out, sockets) /\ out[current].link = "open"
  BY <1>5, <1>6 DEF Quiet
<1> HIDE DEF out
<1>8. /\ Quiet(sockets', sockets)
      /\ parked' \in Seq(Subs \cup {Query, None})
      /\ \A x \in asks : \/ Frame("req", x) \in sockets'[current].pending
                        \/ \E i \in DOMAIN parked' : parked'[i] = x
  BY <1>0, <1>1, <1>3, <1>7, RequestsAsk
<1>9. state = "authenticating" /\ ~closed /\ challenge = 0 /\ Spent(current)
  BY <1>0, RelaySupervisorAssumption DEF SessionTypeOK, StateOK, ChallengeOK
<1>10. /\ SocketsInv' /\ Len(sockets') = Len(sockets) /\ Spent(current)'
       /\ sockets'[current].link = "open"
  BY <1>0, <1>1, <1>5, <1>8, <1>9, QuietSockets DEF Quiet, Spent
<1>11. SessionTypeOK'
  BY <1>0, <1>1, <1>10 DEF SessionTypeOK
<1>12. StateOK'
  BY <1>0, <1>1, <1>9, <1>10 DEF StateOK, SocketsInv, SocketsOK
<1>13. LinkOK' /\ ChallengeOK'
  BY <1>1, <1>9, <1>10, RelaySupervisorAssumption DEF LinkOK, ChallengeOK
<1>14. OtherTypeOK'
  BY <1>0, <1>1, <1>2, <1>8 DEF OtherTypeOK
<1>15. ReadyServesAll'
  BY <1>1, <1>3, <1>8 DEF ReadyServesAll
<1> QED
  BY <1>10, <1>11, <1>12, <1>13, <1>14, <1>15 DEF SessionInv, SupervisorInv

\* The answer to the handshake.
LEMMA OnAuthOkKeeps ==
  ASSUME SupervisorInv, NEW s \in DOMAIN sockets, s = current, sockets[s].inbox # <<>>,
         NEW v, OnAuthOk(s, v)
  PROVE  SupervisorInv'
<1>1. CASE v = "good"
  BY <1>1, BecomeReadyKeeps DEF OnAuthOk
<1>2. CASE v # "good"
  <2>1. /\ awaiting = "auth" /\ sockets' = Read(s) /\ UNCHANGED <<challenge, troubles>>
        /\ ConnectionEnds(v = "terminal")
    BY <1>2 DEF OnAuthOk
  <2>2. /\ SocketsInv /\ SessionTypeOK /\ StateOK /\ ChallengeOK /\ OtherTypeOK /\ SocketsOK
    BY DEF SupervisorInv, SessionInv, SocketsInv
  <2>3. state = "authenticating" /\ challenge' = 0
    BY <2>1, <2>2, RelaySupervisorAssumption DEF SessionTypeOK, StateOK, ChallengeOK
  <2>4. Quiet(sockets', sockets)
    BY <2>1, <2>2, ReadQuiet
  <2>5. SocketsInv' /\ Len(sockets') = Len(sockets)
    BY <2>2, <2>4, QuietSockets DEF Quiet
  <2>6. troubles' \in 0 .. MaxTroubles /\ (v = "terminal") \in BOOLEAN
    BY <2>1, <2>2 DEF OtherTypeOK
  <2> QED
    BY <2>1, <2>3, <2>5, <2>6, EndsKeeps
<1> QED
  BY <1>1, <1>2

\* Every frame.
LEMMA ReceiveKeeps ==
  ASSUME SupervisorInv, NEW s \in DOMAIN sockets, Receive(s)
  PROVE  SupervisorInv'
<1> DEFINE f == Head(sockets[s].inbox)
<1>0. sockets[s].inbox # <<>> /\ HandleMessage(s)
  BY DEF Receive
<1>1. CASE s # current \/ (f.kind = "eose" /\ f.id \in Subs)
  <2>1. Ignore(s) /\ (s # current \/ f.kind = "eose")
    BY <1>0, <1>1 DEF HandleMessage
  <2> QED
    BY <1>0, <2>1, FramesKeep
<1>2. CASE ~(s # current \/ (f.kind = "eose" /\ f.id \in Subs))
  <2>1. s = current
    BY <1>2
  <2>2. \/ f.kind = "challenge" /\ OnChallenge(s)
        \/ f.kind = "auth" /\ OnAuthOk(s, f.verdict)
        \/ f.kind = "event" /\ OnOk(s, f.id, f.verdict)
        \/ f.kind \in {"eose", "closed"} /\ OnQueryAnswer(s, f.id)
        \/ f.kind = "closed" /\ OnSubscriptionClosed(s, f.id, f.verdict)
        \/ f.kind = "notice" /\ OnNotice(s)
    BY <1>0, <1>2 DEF HandleMessage
  <2>3. CASE f.kind = "challenge" /\ OnChallenge(s)
    BY <1>0, <2>1, <2>3, OnChallengeKeeps
  <2>4. CASE f.kind = "auth" /\ OnAuthOk(s, f.verdict)
    BY <1>0, <2>1, <2>4, OnAuthOkKeeps
  <2>5. CASE f.kind = "event" /\ OnOk(s, f.id, f.verdict)
    BY <1>0, <2>5, FramesKeep
  <2>6. CASE f.kind \in {"eose", "closed"} /\ OnQueryAnswer(s, f.id)
    BY <1>0, <2>6, QueryAnswerKeeps
  <2>7. CASE f.kind = "closed" /\ OnSubscriptionClosed(s, f.id, f.verdict)
    BY <1>0, <2>1, <2>7, ClosedKeeps
  <2>8. CASE f.kind = "notice" /\ OnNotice(s)
    BY <1>0, <2>8, FramesKeep
  <2> QED
    BY <2>2, <2>3, <2>4, <2>5, <2>6, <2>7, <2>8
<1> QED
  BY <1>1, <1>2

-----------------------------------------------------------------------------
(* The invariant and what follows from it.                                   *)

\* The invariant holds before anything is dialled.
LEMMA SupervisorInit == Init => SupervisorInv
<1> SUFFICES ASSUME Init PROVE SupervisorInv
  OBVIOUS
<1>1. sockets = <<>> /\ sockets \in Seq(SocketType) /\ DOMAIN sockets = {} /\ Len(sockets) = 0
  BY DEF Init
<1>2. SocketsInv
  BY <1>1 DEF SocketsInv, SocketsOK, UnreadOnOpen, ChallengedOnce, AuthAnswersOwnChallenge
<1>3. SessionTypeOK
  <2>1. /\ 0 \in 0 .. MaxSockets /\ 0 <= MaxSockets /\ 0 \in 0 .. StartupAttempts
    BY RelaySupervisorAssumption
  <2>2. /\ state = "disconnected" /\ challenge = 0 /\ awaiting = None /\ attempt = 0
        /\ ready = FALSE /\ closed = FALSE
    BY DEF Init
  <2> QED
    BY <1>1, <2>1, <2>2 DEF SessionTypeOK
<1>4. StateOK
  BY <1>1 DEF Init, StateOK
<1>5. LinkOK /\ ChallengeOK
  BY RelaySupervisorAssumption DEF Init, LinkOK, ChallengeOK
<1>6. OtherTypeOK
  <2>1. IsFiniteSet({})
    BY FS_EmptySet
  <2>2. parked \in Seq(Subs \cup {Query, None}) /\ 0 \in 0 .. MaxTroubles
    BY RelaySupervisorAssumption DEF Init
  <2>3. calls \in [Events -> {"idle"} \cup Waiting \cup Answers]
    BY DEF Init
  <2> QED
    BY <2>1, <2>2, <2>3 DEF Init, OtherTypeOK
<1>7. ReadyServesAll
  BY DEF Init, ReadyServesAll
<1> QED
  BY <1>2, <1>3, <1>4, <1>5, <1>6, <1>7 DEF SupervisorInv, SessionInv

\* Every step preserves it.
LEMMA SupervisorNext == SupervisorInv /\ [Next]_vars => SupervisorInv'
<1> SUFFICES ASSUME SupervisorInv, [Next]_vars PROVE SupervisorInv'
  OBVIOUS
<1>1. CASE Environment
  <2>1. ASSUME NEW s \in DOMAIN sockets,
               \/ Opens(s) \/ Breaks(s) \/ RelayChallenges(s)
               \/ \E terminal \in BOOLEAN : Refused(s, terminal)
        PROVE  SupervisorInv'
    BY <2>1, OpensKeeps, BreaksKeeps, ChallengesKeeps, RefusedKeeps
  <2>2. ASSUME NEW s \in DOMAIN sockets, NEW v \in Verdicts,
               \/ \E f \in sockets[s].pending : RelayAnswers(s, f, v)
               \/ \E x \in Subs : RelayCloses(s, x, v)
        PROVE  SupervisorInv'
    BY <2>2, RelayAnswersKeeps, RelayClosesKeeps
  <2> QED
    BY <1>1, <2>1, <2>2 DEF Environment
<1>2. CASE Callers
  <2>1. ASSUME NEW x \in Subs, Subscribe(x) \/ Unsubscribe(x) PROVE SupervisorInv'
    BY <2>1, SubscribeKeeps, UnsubscribeKeeps
  <2>2. ASSUME NEW e \in Events, Publish(e) PROVE SupervisorInv'
    BY <2>2, PublishKeeps
  <2>3. ASSUME PublishEphemeral \/ Ask \/ Connect \/ Close PROVE SupervisorInv'
    BY <2>3, EphemeralKeeps, AskKeeps, DialKeeps, CloseKeeps
  <2> QED
    BY <1>2, <2>1, <2>2, <2>3 DEF Callers
<1>3. CASE Supervisor
  <2>1. ASSUME \/ BackoffEnds \/ AwaitChallenge \/ AuthTimeout \/ Stable \/ GateOpens
               \/ DrainOne \/ QueryTimeout
        PROVE  SupervisorInv'
    BY <2>1, DialKeeps, AwaitChallengeKeeps, AuthTimeoutKeeps, StableKeeps, TimersKeep,
       DrainOneKeeps, QueryTimeoutKeeps
  <2>2. ASSUME NEW e \in Events, PublishGoes(e) \/ PublishTimeout(e) \/ OrphanTimeout(e)
        PROVE  SupervisorInv'
    BY <2>2, PublishKeeps, TimersKeep
  <2>3. ASSUME NEW s \in DOMAIN sockets, Receive(s) PROVE SupervisorInv'
    BY <2>3, ReceiveKeeps
  <2> QED
    BY <1>3, <2>1, <2>2, <2>3 DEF Supervisor
<1>4. CASE UNCHANGED vars
  <2>1. UNCHANGED <<state, current, sockets, challenge, awaiting, attempt, ready, closed, gated,
                    parked, records, ended, calls, orphans, query, crashed, troubles>>
    BY <1>4 DEF vars, session, gate, waiters, subs
  <2>2. OtherTypeOK'
    BY <2>1 DEF SupervisorInv, OtherTypeOK
  <2> QED
    BY <2>1, <2>2, SameSockets DEF session
<1> QED
  BY <1>1, <1>2, <1>3, <1>4 DEF Next

\* Type correctness, with every socket's frames.
THEOREM RelayTypes == Spec => []TypeOK
<1>1. Spec => []SupervisorInv
  BY SupervisorInit, SupervisorNext, PTL DEF Spec
<1> QED
  BY <1>1, TypeParts, PTL

\* A handshake is never answered with another socket's challenge, though the
\* challenge is kept apart from the socket and abandoned sockets go on delivering
\* (#onMessage, #onAuthChallenge, #connectOnce).
THEOREM HandshakesMatch == Spec => []AuthAnswersOwnChallenge
<1>1. Spec => []SupervisorInv
  BY SupervisorInit, SupervisorNext, PTL DEF Spec
<1>2. SupervisorInv => AuthAnswersOwnChallenge
  BY DEF SupervisorInv, SessionInv, SocketsInv
<1> QED
  BY <1>1, <1>2, PTL

\* However sockets, rate limits and CLOSED frames come and go, a ready connection
\* has forgotten no registered subscription (#resubscribeAll, #onClosed, the gate).
THEOREM NoSubscriptionForgotten == Spec => []ReadyServesAll
<1>1. Spec => []SupervisorInv
  BY SupervisorInit, SupervisorNext, PTL DEF Spec
<1>2. SupervisorInv => ReadyServesAll
  BY DEF SupervisorInv
<1> QED
  BY <1>1, <1>2, PTL

-----------------------------------------------------------------------------
(* The publisher *)

\* The relay never stores an event twice.
NoCopies == \A i, j \in DOMAIN relay : relay[i] = relay[j] => i = j

\* What the loop has in hand is stored and neither published nor given up.
Unacknowledged(p) == rows[p].state \in {"pending", "failed"}
LoopOK ==
  /\ \A p \in batch : Unacknowledged(p)
  /\ sending # NoPart =>
       phase = "draining" /\ Unacknowledged(sending) /\ sending \notin batch

\* The invariant the proofs are about.
PublisherInv == OutboxTypeOK /\ IntentsMatchRows /\ DurableFirst /\ NoCopies /\ LoopOK

\* The components of the name of a part.
LEMMA PartFacts ==
  /\ \A p \in Parts : Chunk(p) \in Nat /\ TurnOf(p) \in Turns
  /\ \A m \in Messages : PartsOf(m) \subseteq Parts
BY PublisherAssumption DEF Parts, PartsOf, Chunk, TurnOf, Turns

\* A part that has a row keeps it; a new one gets a pending row or none.
LEMMA StoreStep ==
  ASSUME OutboxTypeOK, IntentsMatchRows,
         NEW whole \in SUBSET Parts, NEW half \in SUBSET Parts, Store(whole, half)
  PROVE  /\ intents' \in [Parts ->
              [state : {"none", "pending", "signed", "published", "abandoned"},
               ordinal : Nat]]
         /\ rows' \in [Parts ->
              [state : {"none", "pending", "failed", "published", "dead_letter"},
               attempts : 0 .. MaxAttempts - 1, waiting : BOOLEAN, event : Nat]]
         /\ signed' \in [Parts -> Nat]
         /\ IntentsMatchRows'
         /\ \A p \in Parts : rows[p].state # "none" => rows'[p] = rows[p]
         /\ \A p \in Parts :
              rows[p].state = "none" => rows'[p].state \in {"none", "pending"}
<1>1. PICK w \in SUBSET Parts, h \in SUBSET Parts :
        /\ PutIntents(w, h) /\ PutSigned(w)
        /\ \A p \in w \cup h : intents[p].state = "none"
  BY DEF Store, New
<1>2. \A p \in w \cup h : rows[p].state = "none"
  BY <1>1 DEF IntentsMatchRows, RowState
<1>3. \A p \in Parts : ordinals[TurnOf(p)] + Chunk(p) \in Nat
  BY PartFacts DEF OutboxTypeOK
<1>4. 0 \in 0 .. MaxAttempts - 1
  BY PublisherAssumption
<1>5. intents' \in [Parts ->
        [state : {"none", "pending", "signed", "published", "abandoned"},
         ordinal : Nat]]
  BY <1>1, <1>3 DEF PutIntents, OutboxTypeOK
<1>6. /\ rows' \in [Parts ->
           [state : {"none", "pending", "failed", "published", "dead_letter"},
            attempts : 0 .. MaxAttempts - 1, waiting : BOOLEAN, event : Nat]]
      /\ signed' \in [Parts -> Nat]
  BY <1>1, <1>4 DEF PutSigned, OutboxTypeOK
<1>7. \A p \in Parts :
        /\ p \in w => intents'[p].state = "signed" /\ rows'[p].state = "pending"
        /\ p \in h \ w => intents'[p].state = "pending" /\ rows'[p] = rows[p]
        /\ p \notin w \cup h => intents'[p] = intents[p] /\ rows'[p] = rows[p]
  BY <1>1 DEF PutIntents, PutSigned
<1>8. IntentsMatchRows'
  BY <1>2, <1>7 DEF IntentsMatchRows, RowState
<1> QED
  BY <1>2, <1>5, <1>6, <1>7, <1>8

\* Storing disturbs nothing the relay or the loop relies on.
LEMMA StoreKeeps ==
  ASSUME PublisherInv,
         \A p \in Parts : rows[p].state # "none" => rows'[p] = rows[p],
         \A p \in Parts :
           rows[p].state = "none" => rows'[p].state \in {"none", "pending"},
         UNCHANGED <<network, relay>>
  PROVE  /\ DurableFirst' /\ NoCopies'
         /\ \A p \in Parts : Unacknowledged(p) => Unacknowledged(p)'
<1>1. \A p \in Parts : rows'[p].state = "published" =>
        rows[p].state = "published" /\ rows'[p] = rows[p]
  BY DEF PublisherInv, OutboxTypeOK
<1>2. \A v \in network \cup {relay[i] : i \in DOMAIN relay} : v[1] \in Parts
  BY DEF PublisherInv, OutboxTypeOK, EventType
<1>3. \A p \in Parts : rows'[p].state = "published" => OnRelay(Event(p))'
  BY <1>1 DEF PublisherInv, DurableFirst, OnRelay, Event
<1>4. \A v \in network' \cup {relay'[i] : i \in DOMAIN relay'} :
        rows'[v[1]].state # "none" /\ rows'[v[1]].event = v[2]
  BY <1>2 DEF PublisherInv, DurableFirst
<1>5. \A p \in Parts : Unacknowledged(p) => Unacknowledged(p)'
  BY DEF Unacknowledged
<1> QED
  BY <1>3, <1>4, <1>5 DEF DurableFirst, NoCopies, PublisherInv

\* Steps of the loop alone leave what the tables and the relay agree on.
LEMMA TablesKept ==
  ASSUME PublisherInv, UNCHANGED <<tables, network, relay>>
  PROVE  IntentsMatchRows' /\ DurableFirst' /\ NoCopies'
BY DEF PublisherInv, tables, IntentsMatchRows, DurableFirst, NoCopies, OnRelay, Event

\* The answer for `sending` changes its row and no other, and not its event.
LEMMA AnswerKeeps ==
  ASSUME PublisherInv, sending # NoPart,
         NEW r \in {"published", "failed", "dead_letter"},
         NEW n \in 0 .. MaxAttempts - 1, NEW b \in BOOLEAN,
         NEW i \in {"published", "signed", "abandoned"},
         rows' = [rows EXCEPT ![sending] =
                    [state |-> r, attempts |-> n, waiting |-> b,
                     event |-> rows[sending].event]],
         intents' = [intents EXCEPT ![sending].state = i],
         <<i, r>> \in {<<"published", "published">>, <<"signed", "failed">>,
                       <<"abandoned", "dead_letter">>},
         r = "published" => OnRelay(Event(sending)),
         network' \subseteq network,
         batch' \subseteq batch, sending' = NoPart,
         UNCHANGED <<signed, ordinals, over, phase, woken, relay, crashes>>
  PROVE  PublisherInv'
<1>1. sending \in Parts /\ rows[sending].event \in Nat
  BY DEF PublisherInv, OutboxTypeOK
<1>2. rows'[sending] = [state |-> r, attempts |-> n, waiting |-> b,
                        event |-> rows[sending].event]
  BY <1>1 DEF PublisherInv, OutboxTypeOK
<1>3. \A p \in Parts \ {sending} : rows'[p] = rows[p] /\ intents'[p] = intents[p]
  BY DEF PublisherInv, OutboxTypeOK
<1>4. \A p \in Parts : rows'[p].event = rows[p].event
  BY <1>2, <1>3
<1>5. OutboxTypeOK'
  <2>1. OutboxTypeOK
    BY DEF PublisherInv
  <2> DEFINE Rows == [state : {"none", "pending", "failed", "published", "dead_letter"},
                      attempts : 0 .. MaxAttempts - 1, waiting : BOOLEAN, event : Nat]
             row == [state |-> r, attempts |-> n, waiting |-> b, event |-> rows[sending].event]
  <2>2. rows' \in [Parts -> Rows]
    <3>1. row \in Rows /\ rows \in [Parts -> Rows]
      BY <1>1, <2>1 DEF OutboxTypeOK
    <3>2. rows' = [rows EXCEPT ![sending] = row]
      OBVIOUS
    <3> HIDE DEF Rows, row
    <3> QED
      BY <1>1, <3>1, <3>2
  <2>3. intents' \in [Parts ->
          [state : {"none", "pending", "signed", "published", "abandoned"}, ordinal : Nat]]
    BY <1>1, <2>1 DEF OutboxTypeOK
  <2>4. network' \subseteq EventType /\ batch' \subseteq Parts /\ sending' \in Parts \cup {NoPart}
    BY <2>1 DEF OutboxTypeOK
  <2> HIDE DEF row
  <2> QED
    BY <2>1, <2>2, <2>3, <2>4 DEF OutboxTypeOK
<1>6. IntentsMatchRows'
  <2>1. intents'[sending].state = i
    BY <1>1 DEF PublisherInv, OutboxTypeOK
  <2>2. r \in RowState(i)
    BY DEF RowState
  <2>3. rows'[sending].state \in RowState(intents'[sending].state)
    BY <1>2, <2>1, <2>2
  <2>4. \A p \in Parts \ {sending} : rows'[p].state \in RowState(intents'[p].state)
    BY <1>3 DEF PublisherInv, IntentsMatchRows
  <2> QED
    BY <2>3, <2>4 DEF IntentsMatchRows
<1>7. DurableFirst'
  <2>1. \A p \in Parts : rows'[p].state = "published" => OnRelay(Event(p))'
    BY <1>2, <1>3, <1>4 DEF PublisherInv, DurableFirst, OnRelay, Event
  <2>2. \A v \in network \cup {relay[k] : k \in DOMAIN relay} : v[1] \in Parts
    BY DEF PublisherInv, OutboxTypeOK, EventType
  <2>3. \A p \in Parts : rows[p].state # "none" => rows'[p].state # "none"
    BY <1>2, <1>3
  <2>4. \A v \in network' \cup {relay'[k] : k \in DOMAIN relay'} :
          rows'[v[1]].state # "none" /\ rows'[v[1]].event = v[2]
    BY <1>4, <2>2, <2>3 DEF PublisherInv, DurableFirst
  <2> QED
    BY <2>1, <2>4 DEF DurableFirst
<1>8. NoCopies'
  BY DEF PublisherInv, NoCopies
<1>9. LoopOK'
  <2>1. \A p \in batch' : p \in Parts \ {sending} /\ rows[p].state \in {"pending", "failed"}
    BY DEF PublisherInv, OutboxTypeOK, LoopOK, Unacknowledged
  <2> QED
    BY <1>3, <2>1 DEF LoopOK, Unacknowledged
<1> QED
  BY <1>5, <1>6, <1>7, <1>8, <1>9 DEF PublisherInv

\* What a dead process leaves is well typed if the tables are.
LEMMA DeadType ==
  ASSUME OutboxTypeOK, Die,
         intents' \in [Parts ->
           [state : {"none", "pending", "signed", "published", "abandoned"},
            ordinal : Nat]],
         rows' \in [Parts ->
           [state : {"none", "pending", "failed", "published", "dead_letter"},
            attempts : 0 .. MaxAttempts - 1, waiting : BOOLEAN, event : Nat]],
         signed' \in [Parts -> Nat]
  PROVE  OutboxTypeOK'
<1>1. ordinals' \in [Turns -> Nat]
  BY DEF Die
<1>2. /\ over' \subseteq Turns /\ phase' = "down" /\ batch' = {}
      /\ sending' = NoPart /\ woken' = FALSE /\ crashes' \in Nat
      /\ UNCHANGED <<network, relay>>
  BY DEF Die, OutboxTypeOK
<1> QED
  BY <1>1, <1>2 DEF OutboxTypeOK

-----------------------------------------------------------------------------
LEMMA PublisherInvariant == OutboxSpec => []PublisherInv
<1>1. OutboxInit => PublisherInv
  <2> SUFFICES ASSUME OutboxInit PROVE PublisherInv
    OBVIOUS
  <2>1. OutboxTypeOK
    <3>1. 0 \in 0 .. MaxAttempts - 1
      BY PublisherAssumption
    <3>2. intents \in [Parts ->
            [state : {"none", "pending", "signed", "published", "abandoned"},
             ordinal : Nat]]
      BY DEF OutboxInit, NoIntent
    <3>3. rows \in [Parts ->
            [state : {"none", "pending", "failed", "published", "dead_letter"},
             attempts : 0 .. MaxAttempts - 1, waiting : BOOLEAN, event : Nat]]
      BY <3>1 DEF OutboxInit, NoRow
    <3>4. signed \in [Parts -> Nat] /\ ordinals \in [Turns -> Nat]
      BY DEF OutboxInit
    <3>5. /\ over = {} /\ phase = "start" /\ batch = {} /\ sending = NoPart
          /\ woken = FALSE /\ network = {} /\ crashes = 0
      BY DEF OutboxInit
    <3>6. relay \in Seq(EventType)
      BY DEF OutboxInit
    <3> QED
      BY <3>2, <3>3, <3>4, <3>5, <3>6 DEF OutboxTypeOK
  <2>2. IntentsMatchRows
    BY DEF OutboxInit, IntentsMatchRows, RowState, NoIntent, NoRow
  <2>3. DurableFirst /\ NoCopies /\ LoopOK
    BY DEF OutboxInit, DurableFirst, NoCopies, LoopOK, NoRow
  <2> QED
    BY <2>1, <2>2, <2>3 DEF PublisherInv
<1>2. PublisherInv /\ [OutboxNext]_outboxVars => PublisherInv'
  <2> SUFFICES ASSUME PublisherInv, [OutboxNext]_outboxVars PROVE PublisherInv'
    OBVIOUS
  <2>0. /\ OutboxTypeOK /\ IntentsMatchRows /\ DurableFirst /\ NoCopies /\ LoopOK
        /\ sending \in Parts \cup {NoPart}
    BY DEF PublisherInv, OutboxTypeOK
  <2>1. ASSUME NEW m \in Messages, Record(m) PROVE PublisherInv'
    <3>1. /\ Store(PartsOf(m), {}) /\ PartsOf(m) \in SUBSET Parts
          /\ UNCHANGED <<over, batch, sending, network, relay, crashes>>
      BY <2>1, PartFacts DEF Record
    <3>2. /\ IntentsMatchRows'
          /\ \A p \in Parts : rows[p].state # "none" => rows'[p] = rows[p]
          /\ \A p \in Parts :
               rows[p].state = "none" => rows'[p].state \in {"none", "pending"}
      BY <2>0, <3>1, StoreStep, Zenon
    <3>3. /\ DurableFirst' /\ NoCopies'
          /\ \A p \in Parts : Unacknowledged(p) => Unacknowledged(p)'
      BY <3>1, <3>2, StoreKeeps
    <3>4. LoopOK'
      <4>1. sending # NoPart => phase' = "draining"
        BY <2>0, <2>1 DEF LoopOK, Record
      <4> QED
        BY <2>0, <3>1, <3>3, <4>1, NoPartAssumption DEF LoopOK, OutboxTypeOK
    <3>5. /\ ordinals' \in [Turns -> Nat]
          /\ phase' \in {"start", "draining", "sleeping", "down"}
          /\ woken' \in BOOLEAN
      <4>1. Turn[m] \in Turns /\ ordinals \in [Turns -> Nat]
        BY <2>0 DEF OutboxTypeOK, Turns
      <4>2. ordinals[Turn[m]] + Chunks[m] \in Nat
        BY <4>1, PublisherAssumption
      <4>3. ordinals' = [ordinals EXCEPT ![Turn[m]] = ordinals[Turn[m]] + Chunks[m]]
        BY <2>1, <4>1 DEF Record
      <4>4. ordinals' \in [Turns -> Nat]
        BY <4>1, <4>2, <4>3
      <4> QED
        BY <2>0, <2>1, <4>4 DEF Record, OutboxTypeOK
    <3>6. OutboxTypeOK'
      <4>1. /\ intents' \in [Parts ->
                 [state : {"none", "pending", "signed", "published", "abandoned"},
                  ordinal : Nat]]
            /\ rows' \in [Parts ->
                 [state : {"none", "pending", "failed", "published", "dead_letter"},
                  attempts : 0 .. MaxAttempts - 1, waiting : BOOLEAN, event : Nat]]
            /\ signed' \in [Parts -> Nat]
        BY <2>0, <3>1, StoreStep, Zenon
      <4> QED
        BY <2>0, <3>1, <3>5, <4>1 DEF OutboxTypeOK
    <3> QED
      BY <3>2, <3>3, <3>4, <3>6 DEF PublisherInv
  <2>2. ASSUME NEW t \in Turns, FinishTurn(t) PROVE PublisherInv'
    BY <2>0, <2>2, TablesKept
       DEF FinishTurn, PublisherInv, OutboxTypeOK, LoopOK, Unacknowledged, tables, loop
  <2>3. ASSUME NEW m \in Messages, CrashInRecord(m) PROVE PublisherInv'
    <3>1. PICK n \in 0 .. Chunks[m] - 1, further \in BOOLEAN :
            Store({p \in PartsOf(m) : Chunk(p) < n}, IF further THEN {<<m, n>>} ELSE {})
      BY <2>3 DEF CrashInRecord
    <3>2. PICK whole \in SUBSET Parts, half \in SUBSET Parts : Store(whole, half)
      <4>1. <<m, n>> \in PartsOf(m)
        BY DEF PartsOf
      <4> QED
        BY <3>1, <4>1, PartFacts
    <3>3. /\ IntentsMatchRows'
          /\ \A p \in Parts : rows[p].state # "none" => rows'[p] = rows[p]
          /\ \A p \in Parts :
               rows[p].state = "none" => rows'[p].state \in {"none", "pending"}
      BY <2>0, <3>2, StoreStep, Zenon
    <3>4. Die
      BY <2>3 DEF CrashInRecord
    <3>5. DurableFirst' /\ NoCopies'
      BY <3>3, <3>4, StoreKeeps DEF Die
    <3>6. OutboxTypeOK'
      <4>1. /\ intents' \in [Parts ->
                 [state : {"none", "pending", "signed", "published", "abandoned"},
                  ordinal : Nat]]
            /\ rows' \in [Parts ->
                 [state : {"none", "pending", "failed", "published", "dead_letter"},
                  attempts : 0 .. MaxAttempts - 1, waiting : BOOLEAN, event : Nat]]
            /\ signed' \in [Parts -> Nat]
        BY <2>0, <3>2, StoreStep, Zenon
      <4> QED
        BY <2>0, <3>4, <4>1, DeadType
    <3> QED
      BY <3>3, <3>4, <3>5, <3>6 DEF PublisherInv, LoopOK, Die
  <2>4. CASE Crash
    <3>1. Die /\ UNCHANGED tables
      BY <2>4 DEF Crash
    <3>2. UNCHANGED <<tables, network, relay>>
      BY <3>1 DEF Die
    <3>3. OutboxTypeOK'
      BY <2>0, <3>1, DeadType DEF OutboxTypeOK, tables
    <3> QED
      BY <3>1, <3>2, <3>3, TablesKept DEF PublisherInv, LoopOK, Die
  <2>5. CASE Restart
    BY <2>0, <2>5, TablesKept
       DEF Restart, PublisherInv, OutboxTypeOK, LoopOK, Unacknowledged, tables
  <2>6. CASE BeginDrain
    <3>1. sending = NoPart
      BY <2>0, <2>6 DEF LoopOK, BeginDrain
    <3> QED
      BY <2>0, <2>6, <3>1, TablesKept
         DEF BeginDrain, Due, PublisherInv, OutboxTypeOK, LoopOK, Unacknowledged, tables
  <2>7. CASE EndDrain
    BY <2>0, <2>7, TablesKept
       DEF EndDrain, PublisherInv, OutboxTypeOK, LoopOK, Unacknowledged, tables
  <2>8. CASE Poll
    BY <2>0, <2>8, TablesKept
       DEF Poll, PublisherInv, OutboxTypeOK, LoopOK, Unacknowledged, tables
  <2>9. ASSUME NEW p \in Parts, PublishNext(p) PROVE PublisherInv'
    BY <2>0, <2>9, TablesKept
       DEF PublishNext, PublisherInv, OutboxTypeOK, LoopOK, Unacknowledged, tables
  <2>10. CASE Send
    <3>1. /\ sending \in Parts /\ rows[sending].state # "none"
          /\ Event(sending) \in EventType
          /\ Event(sending)[1] = sending /\ Event(sending)[2] = rows[sending].event
      BY <2>0, <2>10 DEF Send, LoopOK, Unacknowledged, OutboxTypeOK, Event, EventType
    <3>2. IntentsMatchRows' /\ NoCopies' /\ LoopOK'
      BY <2>0, <2>10
         DEF Send, tables, loop, IntentsMatchRows, NoCopies, LoopOK, Unacknowledged
    <3>3. OutboxTypeOK'
      BY <2>0, <2>10, <3>1 DEF Send, tables, loop, OutboxTypeOK
    <3>4. DurableFirst'
      BY <2>0, <2>10, <3>1 DEF Send, tables, DurableFirst, OnRelay, Event
    <3> QED
      BY <3>2, <3>3, <3>4 DEF PublisherInv
  <2>11. CASE PublishAccepted
    <3>1. sending # NoPart /\ sending \in Parts
      BY <2>0, <2>11 DEF PublishAccepted
    <3>2. rows' = [rows EXCEPT ![sending] =
                     [state |-> "published", attempts |-> rows[sending].attempts,
                      waiting |-> FALSE, event |-> rows[sending].event]]
      BY <2>11 DEF PublishAccepted, Marked
    <3>3. rows[sending].attempts \in 0 .. MaxAttempts - 1
      BY <2>0, <3>1 DEF OutboxTypeOK
    <3> QED
      BY <2>11, <3>1, <3>2, <3>3, AnswerKeeps DEF PublishAccepted
  <2>12. ASSUME sending # NoPart, Abandon(sending), network' \subseteq network,
                batch' = batch \ Blocked(sending), sending' = NoPart,
                UNCHANGED <<signed, ordinals, over, phase, woken, relay, crashes>>
         PROVE  PublisherInv'
    <3>1. rows' = [rows EXCEPT ![sending] =
                     [state |-> "dead_letter", attempts |-> rows[sending].attempts,
                      waiting |-> FALSE, event |-> rows[sending].event]]
      BY <2>12 DEF Abandon, Marked
    <3>2. rows[sending].attempts \in 0 .. MaxAttempts - 1
      BY <2>0, <2>12 DEF OutboxTypeOK
    <3> QED
      BY <2>12, <3>1, <3>2, AnswerKeeps DEF Abandon
  <2>13. CASE PublishFails
    <3>1. CASE rows[sending].attempts + 1 >= MaxAttempts
      BY <2>12, <2>13, <3>1 DEF PublishFails
    <3>2. CASE ~(rows[sending].attempts + 1 >= MaxAttempts)
      <4>1. sending # NoPart /\ sending \in Parts /\ Postpone(sending)
        BY <2>0, <2>13, <3>2 DEF PublishFails
      <4>2. intents[sending].state = "signed"
        BY <2>0, <4>1 DEF LoopOK, Unacknowledged, IntentsMatchRows, RowState, OutboxTypeOK
      <4>3. intents' = [intents EXCEPT ![sending].state = "signed"]
        BY <2>0, <4>1, <4>2 DEF Postpone, OutboxTypeOK
      <4>4. rows[sending].attempts + 1 \in 0 .. MaxAttempts - 1
        BY <2>0, <3>2, <4>1, PublisherAssumption DEF OutboxTypeOK
      <4>5. rows' = [rows EXCEPT ![sending] =
                       [state |-> "failed", attempts |-> rows[sending].attempts + 1,
                        waiting |-> TRUE, event |-> rows[sending].event]]
        BY <4>1 DEF Postpone, Marked
      <4>6. batch' \subseteq batch /\ sending' = NoPart
            /\ UNCHANGED <<signed, ordinals, over, phase, woken, network, relay, crashes>>
        BY <2>13 DEF PublishFails
      <4> QED
        BY <4>1, <4>3, <4>4, <4>5, <4>6, AnswerKeeps
    <3> QED
      BY <3>1, <3>2
  <2>14. CASE PublishRejected
    BY <2>12, <2>14 DEF PublishRejected
  <2>15. ASSUME NEW p \in Parts, BackoffElapses(p) PROVE PublisherInv'
    <3>1. /\ rows' = [rows EXCEPT ![p].waiting = FALSE]
          /\ UNCHANGED <<intents, signed, ordinals, over, loop, network, relay, crashes>>
      BY <2>15 DEF BackoffElapses
    <3>2. \A q \in Parts : rows'[q].state = rows[q].state /\ rows'[q].event = rows[q].event
      BY <2>0, <3>1 DEF OutboxTypeOK
    <3>3. OutboxTypeOK'
      BY <2>0, <3>1 DEF OutboxTypeOK, loop
    <3>4. IntentsMatchRows' /\ NoCopies'
      BY <2>0, <3>1, <3>2 DEF IntentsMatchRows, NoCopies
    <3>5. LoopOK'
      BY <2>0, <3>1, <3>2 DEF LoopOK, Unacknowledged, loop, OutboxTypeOK
    <3>6. DurableFirst'
      <4>1. \A v \in network \cup {relay[k] : k \in DOMAIN relay} : v[1] \in Parts
        BY <2>0 DEF OutboxTypeOK, EventType
      <4> QED
        BY <2>0, <3>1, <3>2, <4>1 DEF DurableFirst, OnRelay, Event
    <3> QED
      BY <3>3, <3>4, <3>5, <3>6 DEF PublisherInv
  <2>16. ASSUME NEW v \in network, RelayStores(v) PROVE PublisherInv'
    <3>1. /\ v \in EventType /\ relay \in Seq(EventType)
          /\ network' \subseteq network
          /\ UNCHANGED <<tables, ordinals, over, loop, crashes>>
      BY <2>0, <2>16 DEF RelayStores, OutboxTypeOK
    <3>2. CASE OnRelay(v)
      <4>1. relay' = relay
        BY <2>16, <3>2 DEF RelayStores
      <4>2. OutboxTypeOK'
        BY <2>0, <3>1, <4>1 DEF OutboxTypeOK, tables, loop
      <4> QED
        BY <2>0, <3>1, <4>1, <4>2
           DEF PublisherInv, IntentsMatchRows, DurableFirst, NoCopies, LoopOK,
               Unacknowledged, OnRelay, Event, tables, loop
    <3>3. CASE ~OnRelay(v)
      <4>1. relay' = Append(relay, v)
        BY <2>16, <3>3 DEF RelayStores
      <4>2. /\ Len(relay') = Len(relay) + 1 /\ relay'[Len(relay) + 1] = v
            /\ \A k \in DOMAIN relay : k \in DOMAIN relay' /\ relay'[k] = relay[k]
            /\ \A k \in DOMAIN relay' : k \in DOMAIN relay \/ k = Len(relay) + 1
            /\ relay' \in Seq(EventType)
        BY <3>1, <4>1
      <4>3. OutboxTypeOK'
        BY <2>0, <3>1, <4>2 DEF OutboxTypeOK, tables, loop
      <4>4. NoCopies'
        BY <2>0, <3>3, <4>2 DEF NoCopies, OnRelay
      <4>5. DurableFirst'
        <5>1. \A p \in Parts : OnRelay(Event(p)) => OnRelay(Event(p))'
          BY <3>1, <4>2 DEF OnRelay, Event, tables
        <5>2. \A u \in network' \cup {relay'[k] : k \in DOMAIN relay'} :
                u \in network \cup {relay[k] : k \in DOMAIN relay}
          BY <3>1, <4>2
        <5> QED
          BY <2>0, <3>1, <5>1, <5>2 DEF DurableFirst, tables
      <4> QED
        BY <2>0, <3>1, <4>3, <4>4, <4>5
           DEF PublisherInv, IntentsMatchRows, LoopOK, Unacknowledged, tables, loop
    <3> QED
      BY <3>2, <3>3
  <2>17. CASE UNCHANGED outboxVars
    BY <2>0, <2>17, TablesKept
       DEF outboxVars, PublisherInv, OutboxTypeOK, LoopOK, Unacknowledged, tables, loop
  <2> QED
    BY <2>1, <2>2, <2>3, <2>4, <2>5, <2>6, <2>7, <2>8, <2>9, <2>10, <2>11, <2>13,
       <2>14, <2>15, <2>16, <2>17 DEF OutboxNext, PublishSettles
<1> QED
  BY <1>1, <1>2, PTL DEF OutboxSpec

-----------------------------------------------------------------------------
\* Every variable keeps its type and no output is tried more often than the
\* publisher is configured to, whatever the relay does.
THEOREM TypeCorrect == OutboxSpec => []OutboxTypeOK
BY PublisherInvariant, PTL DEF PublisherInv

\* An output is sent under the event it is stored with, and counts as published
\* only if the relay has it.
THEOREM DurableBeforeSent == OutboxSpec => []DurableFirst
BY PublisherInvariant, PTL DEF PublisherInv

\* Intents and outbox rows never disagree, at whatever moment the process dies.
THEOREM TablesAgree == OutboxSpec => []IntentsMatchRows
BY PublisherInvariant, PTL DEF PublisherInv

\* The relay has an output as one event at most, however often it was retried,
\* recorded again or interrupted.
THEOREM NoDuplicates == OutboxSpec => []EffectivelyOnce
<1>1. PublisherInv => EffectivelyOnce
  <2> SUFFICES ASSUME PublisherInv, NEW i \in DOMAIN relay, NEW j \in DOMAIN relay,
                      relay[i][1] = relay[j][1]
               PROVE  i = j
    BY DEF EffectivelyOnce
  <2>1. relay[i] \in EventType /\ relay[j] \in EventType
    BY DEF PublisherInv, OutboxTypeOK
  <2>2. relay[i][2] = relay[j][2]
    BY DEF PublisherInv, DurableFirst
  <2>3. relay[i] = relay[j]
    BY <2>1, <2>2 DEF EventType
  <2> QED
    BY <2>3 DEF PublisherInv, NoCopies
<1> QED
  BY <1>1, PublisherInvariant, PTL

-----------------------------------------------------------------------------
(* The order of a turn's outputs on the relay.  An output that never failed  *)
(* is published before a later one is even sent, because the drain that      *)
(* sends the later one had it in its batch too, and went by the order.       *)

\* Stored, not given up and never refused.
Clean(p) == rows[p].state \notin {"none", "dead_letter"} /\ rows[p].attempts = 0

\* The loop publishes p before q.
Ahead(p, q) == Earlier(p, q) /\ Chunk(p) <= Chunk(q)

WasSent(q) == (\E v \in network : v[1] = q) \/ Arrived(q)

RowsOK ==
  \A p \in Parts : /\ rows[p].waiting => rows[p].state = "failed"
                   /\ rows[p].state = "failed" => rows[p].attempts > 0

\* The router hands out an ordinal above all of a turn that still produces.
OrdinalsOK ==
  \A p \in Parts : intents[p].state # "none" /\ TurnOf(p) \notin over =>
                     intents[p].ordinal < ordinals[TurnOf(p)]

BatchOK ==
  \A p, q \in Parts : q \in batch /\ Ahead(p, q) /\ Clean(p) =>
    p \in batch \/ p = sending \/ rows[p].state = "published"

SendingOK ==
  \A p \in Parts :
    sending # NoPart /\ Ahead(p, sending) /\ Clean(p) => rows[p].state = "published"

SentOK ==
  \A p, q \in Parts : WasSent(q) /\ Ahead(p, q) /\ Clean(p) =>
                        rows[p].state = "published" /\ ~ArrivedBefore(q, p)

OrderInv == RowsOK /\ OrdinalsOK /\ BatchOK /\ SendingOK /\ SentOK

\* No step puts an untried output before one that is stored already, and none
\* takes a publication back.
Settled ==
  /\ \A p, q \in Parts :
       rows[q].state # "none" /\ Ahead(p, q)' /\ Clean(p)' => Ahead(p, q) /\ Clean(p)
  /\ \A p \in Parts : rows[p].state = "published" => rows'[p].state = "published"

\* A part that was sent or has arrived has a row, with the event that arrived.
LEMMA SentStored ==
  ASSUME PublisherInv
  PROVE  /\ \A q \in Parts : WasSent(q) => rows[q].state # "none"
         /\ \A i \in DOMAIN relay : relay[i] = Event(relay[i][1])
<1>1. \A i \in DOMAIN relay : relay[i] \in EventType
  BY DEF PublisherInv, OutboxTypeOK
<1>2. \A q \in Parts : WasSent(q) => rows[q].state # "none"
  BY DEF PublisherInv, DurableFirst, WasSent, Arrived
<1>3. \A i \in DOMAIN relay : relay[i] = Event(relay[i][1])
  BY <1>1 DEF PublisherInv, DurableFirst, Event, EventType
<1> QED
  BY <1>2, <1>3

\* What is sent stays behind what is published.
LEMMA SentKept ==
  ASSUME PublisherInv, OrderInv, Settled, network' \subseteq network, relay' = relay
  PROVE  SentOK'
<1> SUFFICES ASSUME NEW p \in Parts, NEW q \in Parts, WasSent(q)', Ahead(p, q)', Clean(p)'
             PROVE  rows'[p].state = "published" /\ ~ArrivedBefore(q, p)'
  BY DEF SentOK
<1>1. WasSent(q)
  BY DEF WasSent, Arrived
<1>2. Ahead(p, q) /\ Clean(p)
  BY <1>1, SentStored DEF Settled
<1>3. rows[p].state = "published" /\ ~ArrivedBefore(q, p)
  BY <1>1, <1>2 DEF OrderInv, SentOK
<1> QED
  BY <1>3 DEF Settled, ArrivedBefore

\* The loop loses nothing that goes before what it keeps.
LEMMA LoopKept ==
  ASSUME PublisherInv, OrderInv, Settled,
         batch' \subseteq batch, sending' \in {sending, NoPart},
         \A p \in Parts, q \in batch' :
           TurnOf(p) = TurnOf(q) /\ (p \in batch \/ p = sending) /\ Clean(p)' =>
             p \in batch' \/ p = sending' \/ rows'[p].state = "published"
  PROVE  BatchOK' /\ SendingOK'
<1>1. BatchOK'
  <2> SUFFICES ASSUME NEW p \in Parts, NEW q \in Parts,
                      q \in batch', Ahead(p, q)', Clean(p)'
               PROVE  p \in batch' \/ p = sending' \/ rows'[p].state = "published"
    BY DEF BatchOK
  <2>1. q \in batch /\ rows[q].state # "none"
    BY DEF PublisherInv, LoopOK, Unacknowledged
  <2>2. Ahead(p, q) /\ Clean(p)
    BY <2>1 DEF Settled
  <2>3. p \in batch \/ p = sending \/ rows[p].state = "published"
    BY <2>1, <2>2 DEF OrderInv, BatchOK
  <2>4. TurnOf(p) = TurnOf(q)
    BY <2>2 DEF Ahead, Earlier
  <2> QED
    BY <2>3, <2>4 DEF Settled
<1>2. SendingOK'
  <2> SUFFICES ASSUME NEW p \in Parts, sending' # NoPart, Ahead(p, sending)', Clean(p)'
               PROVE  rows'[p].state = "published"
    BY DEF SendingOK
  <2>1. sending' = sending /\ sending # NoPart
    OBVIOUS
  <2>2. sending \in Parts /\ rows[sending].state # "none"
    BY <2>1 DEF PublisherInv, OutboxTypeOK, LoopOK, Unacknowledged
  <2>3. \A q \in Parts : q = sending' /\ Ahead(p, sending)' => Ahead(p, q)'
    BY DEF Ahead, Earlier
  <2>4. Ahead(p, sending) /\ Clean(p)
    BY <2>1, <2>2, <2>3 DEF Settled
  <2> QED
    BY <2>1, <2>4 DEF OrderInv, SendingOK, Settled
<1> QED
  BY <1>1, <1>2

\* Steps that leave the tables alone settle nothing new.
LEMMA TablesSettled ==
  ASSUME UNCHANGED <<intents, rows>>
  PROVE  Settled
BY DEF Settled, Ahead, Earlier, Clean

\* A message is stored behind everything its turn has stored before.
LEMMA StoreSettled ==
  ASSUME PublisherInv, OrderInv, NEW m \in Messages, Turn[m] \notin over,
         NEW whole \in SUBSET PartsOf(m), NEW half \in SUBSET PartsOf(m),
         Store(whole, half)
  PROVE  /\ Settled /\ RowsOK'
         /\ \A p \in Parts : intents'[p].state # "none" =>
              \/ intents'[p] = intents[p]
              \/ /\ p \in PartsOf(m)
                 /\ intents'[p].ordinal = ordinals[Turn[m]] + Chunk(p)
<1>1. PICK w \in SUBSET PartsOf(m), h \in SUBSET PartsOf(m) :
        /\ PutIntents(w, h) /\ PutSigned(w)
        /\ \A p \in w \cup h : intents[p].state = "none"
  BY DEF Store, New
<1>2. \A p \in PartsOf(m) : p \in Parts /\ TurnOf(p) = Turn[m]
  BY PartFacts DEF PartsOf, TurnOf
<1>3. \A p \in w \cup h : rows[p].state = "none"
  BY <1>1, <1>2 DEF PublisherInv, IntentsMatchRows, RowState
<1>4. \A p \in Parts :
        /\ p \in w => rows'[p].state = "pending" /\ ~rows'[p].waiting
        /\ p \notin w => rows'[p] = rows[p]
        /\ p \in w \cup h => intents'[p].ordinal = ordinals[TurnOf(p)] + Chunk(p)
        /\ p \notin w \cup h => intents'[p] = intents[p]
  BY <1>1, <1>2 DEF PutIntents, PutSigned
<1>5. RowsOK'
  BY <1>4 DEF OrderInv, RowsOK
<1>6. ASSUME NEW p \in Parts, NEW q \in Parts,
             rows[q].state # "none", Ahead(p, q)', Clean(p)'
      PROVE  Ahead(p, q) /\ Clean(p)
  <2>1. q \notin w \cup h /\ intents'[q] = intents[q]
    BY <1>3, <1>4, <1>6
  <2>2. TurnOf(p) = TurnOf(q) /\ intents[q].state # "none"
        /\ intents'[p].ordinal < intents[q].ordinal /\ Chunk(p) <= Chunk(q)
        /\ intents'[p].state # "none"
    BY <1>6, <2>1 DEF Ahead, Earlier
  <2>3. p \notin w \cup h
    <3> SUFFICES ASSUME p \in w \cup h PROVE FALSE
      OBVIOUS
    <3>1. TurnOf(p) = Turn[m] /\ intents'[p].ordinal = ordinals[Turn[m]] + Chunk(p)
      BY <1>2, <1>4
    <3>2. intents[q].ordinal < ordinals[Turn[m]]
      BY <2>2, <3>1 DEF OrderInv, OrdinalsOK
    <3>3. ordinals[Turn[m]] \in Nat /\ Chunk(p) \in Nat /\ intents[q].ordinal \in Nat
      BY <3>1, PartFacts DEF PublisherInv, OutboxTypeOK
    <3> QED
      BY <2>2, <3>1, <3>2, <3>3
  <2>4. intents'[p] = intents[p] /\ rows'[p] = rows[p]
    BY <1>4, <2>3
  <2> QED
    BY <1>6, <2>2, <2>4 DEF Ahead, Earlier, Clean
<1>7. \A p \in Parts : rows[p].state = "published" => rows'[p].state = "published"
  BY <1>3, <1>4
<1>8. Settled
  BY <1>6, <1>7 DEF Settled
<1> QED
  BY <1>1, <1>2, <1>4, <1>5, <1>8

LEMMA OrderInvariant == OutboxSpec => []OrderInv
<1>1. OutboxInit => OrderInv
  BY DEF OutboxInit, OrderInv, RowsOK, OrdinalsOK, BatchOK, SendingOK, SentOK, NoIntent,
         NoRow, WasSent, Arrived
<1>2. PublisherInv /\ PublisherInv' /\ OrderInv /\ [OutboxNext]_outboxVars => OrderInv'
  <2> SUFFICES ASSUME PublisherInv, PublisherInv', OrderInv, [OutboxNext]_outboxVars
               PROVE  OrderInv'
    OBVIOUS
  <2>0. sending \in Parts \cup {NoPart} /\ batch \subseteq Parts
    BY DEF PublisherInv, OutboxTypeOK
  <2>1. ASSUME NEW m \in Messages, Record(m) PROVE OrderInv'
    <3>1. /\ Store(PartsOf(m), {}) /\ Turn[m] \notin over
          /\ UNCHANGED <<over, batch, sending, network, relay>>
          /\ ordinals' = [ordinals EXCEPT ![Turn[m]] = @ + Chunks[m]]
      BY <2>1 DEF Record, Recordable
    <3>2. /\ Settled /\ RowsOK'
          /\ \A p \in Parts : intents'[p].state # "none" =>
               \/ intents'[p] = intents[p]
               \/ /\ p \in PartsOf(m)
                  /\ intents'[p].ordinal = ordinals[Turn[m]] + Chunk(p)
      BY <3>1, StoreSettled
    <3>3. SentOK'
      BY <3>1, <3>2, SentKept
    <3>4. BatchOK' /\ SendingOK'
      BY <3>1, <3>2, LoopKept
    <3>5. OrdinalsOK'
      <4> SUFFICES ASSUME NEW p \in Parts, intents'[p].state # "none",
                          TurnOf(p) \notin over
                   PROVE  intents'[p].ordinal < ordinals'[TurnOf(p)]
        BY <3>1 DEF OrdinalsOK
      <4>1. TurnOf(p) \in Turns /\ Chunk(p) \in Nat /\ Chunks[m] \in Nat
            /\ Turn[m] \in Turns /\ ordinals \in [Turns -> Nat]
        BY PartFacts, PublisherAssumption DEF PublisherInv, OutboxTypeOK, Turns
      <4>2. ordinals[TurnOf(p)] \in Nat /\ ordinals'[TurnOf(p)] \in Nat
            /\ ordinals[TurnOf(p)] <= ordinals'[TurnOf(p)]
            /\ ordinals'[Turn[m]] = ordinals[Turn[m]] + Chunks[m]
        BY <3>1, <4>1
      <4>3. CASE intents'[p] = intents[p]
        <5>1. intents[p].ordinal < ordinals[TurnOf(p)] /\ intents[p].ordinal \in Nat
          BY <4>3 DEF OrderInv, OrdinalsOK, PublisherInv, OutboxTypeOK
        <5> QED
          BY <4>2, <4>3, <5>1
      <4>4. CASE p \in PartsOf(m) /\ intents'[p].ordinal = ordinals[Turn[m]] + Chunk(p)
        <5>1. TurnOf(p) = Turn[m] /\ Chunk(p) < Chunks[m]
          BY <4>1, <4>4 DEF PartsOf, TurnOf, Chunk
        <5> QED
          BY <4>1, <4>2, <4>4, <5>1
      <4> QED
        BY <3>2, <4>3, <4>4
    <3> QED
      BY <3>2, <3>3, <3>4, <3>5 DEF OrderInv
  <2>2. ASSUME NEW m \in Messages, CrashInRecord(m) PROVE OrderInv'
    <3>1. PICK n \in 0 .. Chunks[m] - 1, further \in BOOLEAN :
            Store({p \in PartsOf(m) : Chunk(p) < n}, IF further THEN {<<m, n>>} ELSE {})
      BY <2>2 DEF CrashInRecord
    <3>2. PICK whole \in SUBSET PartsOf(m), half \in SUBSET PartsOf(m) :
            Store(whole, half)
      <4>1. <<m, n>> \in PartsOf(m)
        BY DEF PartsOf
      <4> QED
        BY <3>1, <4>1
    <3>3. Die /\ Turn[m] \notin over
      BY <2>2 DEF CrashInRecord, Recordable
    <3>4. Settled /\ RowsOK'
      BY <3>2, <3>3, StoreSettled
    <3>5. SentOK'
      BY <3>3, <3>4, SentKept DEF Die
    <3>6. BatchOK' /\ SendingOK' /\ OrdinalsOK'
      BY <3>3, PartFacts DEF Die, BatchOK, SendingOK, OrdinalsOK
    <3> QED
      BY <3>4, <3>5, <3>6 DEF OrderInv
  <2>3. ASSUME UNCHANGED <<intents, rows, network, relay>>,
               over \subseteq over',
               \A t \in Turns : t \notin over' => ordinals'[t] = ordinals[t]
        PROVE  Settled /\ RowsOK' /\ OrdinalsOK' /\ SentOK'
    <3>1. Settled
      BY <2>3, TablesSettled
    <3>2. SentOK'
      BY <2>3, <3>1, SentKept
    <3>3. RowsOK' /\ OrdinalsOK'
      BY <2>3, PartFacts DEF OrderInv, RowsOK, OrdinalsOK
    <3> QED
      BY <3>1, <3>2, <3>3
  <2>4. ASSUME UNCHANGED <<intents, rows, network, relay, batch, sending>>,
               over \subseteq over',
               \A t \in Turns : t \notin over' => ordinals'[t] = ordinals[t]
        PROVE  OrderInv'
    <3>1. BatchOK' /\ SendingOK'
      BY <2>3, <2>4, LoopKept
    <3> QED
      BY <2>3, <2>4, <3>1 DEF OrderInv
  <2>5. ASSUME NEW t \in Turns, FinishTurn(t) PROVE OrderInv'
    <3>1. \A u \in Turns : u \notin over' => ordinals'[u] = ordinals[u]
      BY <2>5 DEF FinishTurn, PublisherInv, OutboxTypeOK
    <3> QED
      BY <2>4, <2>5, <3>1 DEF FinishTurn, tables, loop
  <2>6. CASE Crash
    <3>1. Settled /\ RowsOK' /\ OrdinalsOK' /\ SentOK'
      <4>1. over' = Turns /\ over \subseteq Turns
        BY <2>6 DEF Crash, Die, PublisherInv, OutboxTypeOK
      <4> QED
        BY <2>3, <2>6, <4>1 DEF Crash, Die, tables
    <3>2. BatchOK' /\ SendingOK'
      BY <2>6 DEF Crash, Die, BatchOK, SendingOK
    <3> QED
      BY <3>1, <3>2 DEF OrderInv
  <2>7. CASE Restart
    BY <2>4, <2>7 DEF Restart, tables
  <2>8. CASE BeginDrain
    <3>1. Settled /\ RowsOK' /\ OrdinalsOK' /\ SentOK'
      BY <2>3, <2>8 DEF BeginDrain, tables
    <3>2. sending' = NoPart
      BY <2>8 DEF BeginDrain, PublisherInv, LoopOK
    <3>3. ASSUME NEW p \in Parts, Clean(p)
          PROVE  p \in Due \/ rows[p].state = "published"
      <4>1. rows[p].state \in {"none", "pending", "failed", "published", "dead_letter"}
            /\ rows[p].waiting \in BOOLEAN
        BY DEF PublisherInv, OutboxTypeOK
      <4>2. rows[p].state # "failed"
        BY <3>3 DEF OrderInv, RowsOK, Clean
      <4>3. ~rows[p].waiting
        BY <4>1, <4>2 DEF OrderInv, RowsOK
      <4> QED
        BY <3>3, <4>1, <4>2, <4>3 DEF Clean, Due
    <3>4. BatchOK'
      BY <2>8, <3>3 DEF BeginDrain, tables, BatchOK, Clean
    <3> QED
      BY <3>1, <3>2, <3>4 DEF OrderInv, SendingOK
  <2>9. CASE EndDrain
    BY <2>4, <2>9 DEF EndDrain, tables
  <2>10. CASE Poll
    BY <2>4, <2>10 DEF Poll, tables
  <2>11. ASSUME NEW q \in Parts, PublishNext(q) PROVE OrderInv'
    <3>1. Settled /\ RowsOK' /\ OrdinalsOK' /\ SentOK'
      BY <2>3, <2>11 DEF PublishNext, tables
    <3>2. /\ sending = NoPart /\ sending' = q /\ batch' = batch \ {q} /\ q \in batch
          /\ UNCHANGED <<intents, rows>>
          /\ \A p \in batch : TurnOf(p) = TurnOf(q) => ~Precedes(p, q)
      BY <2>11 DEF PublishNext, tables
    <3>3. BatchOK'
      BY <2>0, <3>2, NoPartAssumption DEF OrderInv, BatchOK, Ahead, Earlier, Clean
    <3>4. SendingOK'
      <4> SUFFICES ASSUME NEW p \in Parts, Ahead(p, q), Clean(p)
                   PROVE  rows[p].state = "published"
        BY <3>2 DEF SendingOK, Ahead, Earlier, Clean
      <4>1. p \in batch \/ rows[p].state = "published"
        BY <3>2, NoPartAssumption DEF OrderInv, BatchOK
      <4>2. Precedes(p, q) /\ TurnOf(p) = TurnOf(q)
        BY PartFacts DEF Ahead, Earlier, Precedes
      <4> QED
        BY <3>2, <4>1, <4>2
    <3> QED
      BY <3>1, <3>3, <3>4 DEF OrderInv
  <2>12. CASE Send
    <3>1. /\ UNCHANGED <<intents, rows, relay, batch, sending, over, ordinals>>
          /\ sending # NoPart /\ sending \in Parts /\ ~OnRelay(Event(sending))
          /\ network' = network \cup {Event(sending)}
      BY <2>0, <2>12 DEF Send, tables, loop
    <3>2. Settled
      BY <3>1, TablesSettled
    <3>3. BatchOK' /\ SendingOK'
      BY <3>1, <3>2, LoopKept
    <3>4. RowsOK' /\ OrdinalsOK'
      BY <3>1 DEF OrderInv, RowsOK, OrdinalsOK
    <3>5. SentOK'
      <4> SUFFICES ASSUME NEW p \in Parts, NEW q \in Parts,
                          WasSent(q)', Ahead(p, q), Clean(p)
                   PROVE  rows[p].state = "published" /\ ~ArrivedBefore(q, p)
        BY <3>1 DEF SentOK, Ahead, Earlier, Clean, ArrivedBefore
      <4>1. CASE WasSent(q)
        BY <4>1 DEF OrderInv, SentOK
      <4>2. CASE ~WasSent(q)
        <5>1. q = sending
          BY <3>1, <4>2 DEF WasSent, Arrived, Event
        <5>2. ~ArrivedBefore(q, p)
          BY <4>2 DEF WasSent, Arrived, ArrivedBefore
        <5> QED
          BY <3>1, <5>1, <5>2 DEF OrderInv, SendingOK
      <4> QED
        BY <4>1, <4>2
    <3> QED
      BY <3>3, <3>4, <3>5 DEF OrderInv

<2>13. ASSUME sending # NoPart,
                NEW r \in {"published", "failed", "dead_letter"}, NEW n \in Nat,
                NEW b \in BOOLEAN, NEW i,
                rows' = [rows EXCEPT ![sending] = Marked(rows[sending], r, n, b)],
                intents' = [intents EXCEPT ![sending].state = i],
                i # "none",
                r = "failed" => n > 0, b => r = "failed",
                r = "published" => n = rows[sending].attempts /\ batch' = batch,
                r # "published" => batch' = batch \ Blocked(sending),
                r = "failed" \/ r = "dead_letter" \/ r = "published",
                network' \subseteq network, sending' = NoPart,
                UNCHANGED <<over, ordinals, relay>>
         PROVE  OrderInv'
    <3>1. sending \in Parts /\ rows[sending].state \in {"pending", "failed"}
      BY <2>0, <2>13 DEF PublisherInv, LoopOK, Unacknowledged
    <3>2. /\ rows'[sending].state = r /\ rows'[sending].attempts = n
          /\ rows'[sending].waiting = b
      BY <2>13, <3>1 DEF Marked, PublisherInv, OutboxTypeOK
    <3>3. \A p \in Parts \ {sending} : rows'[p] = rows[p]
      BY <2>13 DEF PublisherInv, OutboxTypeOK
    <3>4. /\ \A p \in Parts : intents'[p].ordinal = intents[p].ordinal
          /\ \A p \in Parts \ {sending} : intents'[p] = intents[p]
          /\ intents[sending].state # "none"
      <4>1. intents[sending].state # "none"
        BY <3>1 DEF PublisherInv, IntentsMatchRows, RowState
      <4> QED
        BY <2>13, <3>1, <4>1 DEF PublisherInv, OutboxTypeOK
    <3>5. \A p, q \in Parts : Ahead(p, q)' => Ahead(p, q)
      BY <3>4 DEF Ahead, Earlier
    <3>6. ASSUME NEW p \in Parts, Clean(p)' PROVE Clean(p)
      <4>1. CASE p = sending
        <5>1. r = "published" /\ n = 0
          BY <2>13, <3>2, <3>6, <4>1 DEF Clean
        <5> QED
          BY <2>13, <3>1, <4>1, <5>1 DEF Clean
      <4>2. CASE p # sending
        BY <3>3, <3>6, <4>2 DEF Clean
      <4> QED
        BY <4>1, <4>2
    <3>7. Settled
      BY <3>1, <3>3, <3>5, <3>6 DEF Settled
    <3>8. SentOK'
      BY <2>13, <3>7, SentKept
    <3>9. BatchOK' /\ SendingOK'
      <4>1. batch' \subseteq batch
        BY <2>13
      <4>2. ASSUME NEW p \in Parts, NEW q \in batch', TurnOf(p) = TurnOf(q),
                   p \in batch \/ p = sending, Clean(p)'
            PROVE  p \in batch' \/ rows'[p].state = "published"
        <5>1. CASE r = "published"
          BY <2>13, <3>2, <4>2, <5>1
        <5>2. CASE r # "published"
          <6>1. TurnOf(q) # TurnOf(sending)
            BY <2>13, <5>2 DEF Blocked
          <6> QED
            BY <2>13, <4>2, <5>2, <6>1 DEF Blocked
        <5> QED
          BY <5>1, <5>2
      <4> QED
        BY <2>13, <3>7, <4>1, <4>2, LoopKept
    <3>10. RowsOK'
      <4>1. rows'[sending].waiting => rows'[sending].state = "failed"
        BY <2>13, <3>2
      <4>2. rows'[sending].state = "failed" => rows'[sending].attempts > 0
        BY <2>13, <3>2
      <4> QED
        BY <3>3, <4>1, <4>2 DEF OrderInv, RowsOK
    <3>11. OrdinalsOK'
      BY <2>13, <3>4 DEF OrderInv, OrdinalsOK
    <3> QED
      BY <3>8, <3>9, <3>10, <3>11 DEF OrderInv
  <2>14. CASE PublishAccepted
    <3>1. sending \in Parts /\ rows[sending].attempts \in Nat
      BY <2>0, <2>14 DEF PublishAccepted, PublisherInv, OutboxTypeOK
    <3>2. /\ sending # NoPart /\ sending' = NoPart
          /\ rows' = [rows EXCEPT ![sending] =
               Marked(rows[sending], "published", rows[sending].attempts, FALSE)]
          /\ intents' = [intents EXCEPT ![sending].state = "published"]
          /\ UNCHANGED <<over, ordinals, relay, batch, network>>
      BY <2>14 DEF PublishAccepted
    <3> QED
      BY <2>13, <3>1, <3>2
  <2>15. ASSUME sending # NoPart, Abandon(sending), network' \subseteq network,
                batch' = batch \ Blocked(sending), sending' = NoPart,
                UNCHANGED <<over, ordinals, relay>>
         PROVE  OrderInv'
    <3>1. sending \in Parts /\ rows[sending].attempts \in Nat
      BY <2>0, <2>15 DEF PublisherInv, OutboxTypeOK
    <3>2. /\ rows' = [rows EXCEPT ![sending] =
               Marked(rows[sending], "dead_letter", rows[sending].attempts, FALSE)]
          /\ intents' = [intents EXCEPT ![sending].state = "abandoned"]
      BY <2>15 DEF Abandon
    <3> QED
      BY <2>13, <2>15, <3>1, <3>2
  <2>16. CASE PublishFails
    <3>1. CASE rows[sending].attempts + 1 >= MaxAttempts
      BY <2>15, <2>16, <3>1 DEF PublishFails
    <3>2. CASE ~(rows[sending].attempts + 1 >= MaxAttempts)
      <4>1. /\ sending # NoPart /\ sending \in Parts /\ Postpone(sending)
            /\ sending' = NoPart /\ batch' = batch \ Blocked(sending)
            /\ UNCHANGED <<over, ordinals, relay, network>>
        BY <2>0, <2>16, <3>2 DEF PublishFails
      <4>2. /\ intents[sending].state # "none"
            /\ intents' = [intents EXCEPT ![sending].state = intents[sending].state]
        <5>1. rows[sending].state # "none"
          BY <4>1 DEF PublisherInv, LoopOK, Unacknowledged
        <5>2. intents[sending].state # "none"
          BY <4>1, <5>1 DEF PublisherInv, IntentsMatchRows, RowState
        <5> QED
          BY <4>1, <5>2 DEF Postpone, PublisherInv, OutboxTypeOK
      <4>3. rows[sending].attempts + 1 \in Nat /\ rows[sending].attempts + 1 > 0
        BY <4>1 DEF PublisherInv, OutboxTypeOK
      <4>4. rows' = [rows EXCEPT ![sending] =
               Marked(rows[sending], "failed", rows[sending].attempts + 1, TRUE)]
        BY <4>1 DEF Postpone
      <4> QED
        BY <2>13, <4>1, <4>2, <4>3, <4>4
    <3> QED
      BY <3>1, <3>2
  <2>17. CASE PublishRejected
    BY <2>15, <2>17 DEF PublishRejected
  <2>18. ASSUME NEW p \in Parts, BackoffElapses(p) PROVE OrderInv'
    <3>1. /\ rows[p].waiting
          /\ rows' = [rows EXCEPT ![p].waiting = FALSE]
          /\ UNCHANGED <<intents, ordinals, over, batch, sending, network, relay>>
      BY <2>18 DEF BackoffElapses, loop
    <3>2. ASSUME NEW q \in Parts
          PROVE  /\ rows'[q].state = rows[q].state
                 /\ rows'[q].attempts = rows[q].attempts
                 /\ rows'[q].waiting => rows[q].waiting
      <4>1. CASE q = p
        BY <3>1, <4>1 DEF PublisherInv, OutboxTypeOK
      <4>2. CASE q # p
        BY <3>1, <4>2 DEF PublisherInv, OutboxTypeOK
      <4> QED
        BY <4>1, <4>2
    <3>3. Settled
      BY <3>1, <3>2 DEF Settled, Ahead, Earlier, Clean
    <3>4. SentOK' /\ BatchOK' /\ SendingOK'
      BY <3>1, <3>3, SentKept, LoopKept
    <3>5. RowsOK' /\ OrdinalsOK'
      BY <3>1, <3>2 DEF OrderInv, RowsOK, OrdinalsOK
    <3> QED
      BY <3>4, <3>5 DEF OrderInv
  <2>19. ASSUME NEW v \in network, RelayStores(v) PROVE OrderInv'
    <3>1. /\ UNCHANGED <<intents, rows, ordinals, over, batch, sending>>
          /\ network' \subseteq network
          /\ v \in EventType /\ relay \in Seq(EventType)
      BY <2>19 DEF RelayStores, tables, loop, PublisherInv, OutboxTypeOK
    <3>2. Settled
      BY <3>1, TablesSettled
    <3>3. BatchOK' /\ SendingOK' /\ RowsOK' /\ OrdinalsOK'
      BY <3>1, <3>2, LoopKept DEF OrderInv, RowsOK, OrdinalsOK
    <3>4. SentOK'
      <4>1. CASE OnRelay(v)
        <5>1. relay' = relay
          BY <2>19, <4>1 DEF RelayStores
        <5> QED
          BY <3>1, <3>2, <5>1, SentKept
      <4>2. CASE ~OnRelay(v)
        <5>1. relay' = Append(relay, v)
          BY <2>19, <4>2 DEF RelayStores
        <5>2. /\ Len(relay) \in Nat /\ DOMAIN relay = 1 .. Len(relay)
              /\ DOMAIN relay' = 1 .. Len(relay) + 1
              /\ relay'[Len(relay) + 1] = v
              /\ \A k \in DOMAIN relay : relay'[k] = relay[k]
          BY <3>1, <5>1
        <5> SUFFICES ASSUME NEW p \in Parts, NEW q \in Parts,
                            WasSent(q)', Ahead(p, q), Clean(p)
                     PROVE  rows[p].state = "published" /\ ~ArrivedBefore(q, p)'
          BY <3>1 DEF SentOK, Ahead, Earlier, Clean
        <5>3. WasSent(q)
          <6>1. CASE \E u \in network' : u[1] = q
            BY <3>1, <6>1 DEF WasSent
          <6>2. CASE Arrived(q)'
            <7>1. PICK k \in DOMAIN relay' : relay'[k][1] = q
              BY <6>2 DEF Arrived
            <7>2. CASE k \in DOMAIN relay
              BY <5>2, <7>1, <7>2 DEF WasSent, Arrived
            <7>3. CASE k = Len(relay) + 1
              BY <5>2, <7>1, <7>3 DEF WasSent
            <7> QED
              BY <5>2, <7>2, <7>3
          <6> QED
            BY <6>1, <6>2 DEF WasSent
        <5>4. rows[p].state = "published" /\ ~ArrivedBefore(q, p)
          BY <5>3 DEF OrderInv, SentOK
        <5>5. PICK k \in DOMAIN relay : relay[k][1] = p
          BY <5>4 DEF PublisherInv, DurableFirst, OnRelay, Event
        <5>6. ~ArrivedBefore(q, p)'
          <6> SUFFICES ASSUME NEW i \in DOMAIN relay', relay'[i][1] = q,
                              \A j \in DOMAIN relay' : relay'[j][1] = p => i < j
                       PROVE  FALSE
            BY DEF ArrivedBefore
          <6>1. k \in DOMAIN relay' /\ relay'[k][1] = p
            BY <5>2, <5>5
          <6>2. i \in DOMAIN relay
            BY <5>2, <6>1
          <6>3. relay[i][1] = q /\ \A j \in DOMAIN relay : relay[j][1] = p => i < j
            BY <5>2, <6>2
          <6> QED
            BY <5>4, <6>2, <6>3 DEF ArrivedBefore
        <5> QED
          BY <5>4, <5>6
      <4> QED
        BY <4>1, <4>2
    <3> QED
      BY <3>3, <3>4 DEF OrderInv
  <2>20. CASE UNCHANGED outboxVars
    BY <2>4, <2>20 DEF outboxVars, tables, loop
  <2> QED
    BY <2>1, <2>2, <2>5, <2>6, <2>7, <2>8, <2>9, <2>10, <2>11, <2>12, <2>14, <2>16,
       <2>17, <2>18, <2>19, <2>20 DEF OutboxNext, PublishSettles
<1> QED
  BY <1>1, <1>2, PublisherInvariant, PTL DEF OutboxSpec

\* The relay sees the outputs of a turn in their order, as far as the loop sorts
\* them: a later one is first only if the earlier was refused, given up or never
\* signed.
THEOREM OutputsOrdered == OutboxSpec => []OrderedUnlessFailed
<1>1. PublisherInv /\ OrderInv => OrderedUnlessFailed
  <2> SUFFICES ASSUME PublisherInv, OrderInv, NEW p \in Parts, NEW q \in Parts,
                      Earlier(p, q), Chunk(p) <= Chunk(q), ArrivedBefore(q, p),
                      ~(rows[p].attempts > 0 \/ rows[p].state \in {"none", "dead_letter"})
               PROVE  FALSE
    BY DEF OrderedUnlessFailed
  <2>1. WasSent(q) /\ Ahead(p, q)
    BY DEF ArrivedBefore, WasSent, Arrived, Ahead
  <2>2. rows[p].attempts \in Nat
    BY DEF PublisherInv, OutboxTypeOK
  <2>3. Clean(p)
    BY <2>2 DEF Clean
  <2> QED
    BY <2>1, <2>3 DEF OrderInv, SentOK
<1> QED
  BY <1>1, PublisherInvariant, OrderInvariant, PTL

-----------------------------------------------------------------------------
(* The observer stream: numbers and frames *)

\* Induction over the natural numbers, for a set: below a number left out there would be one
\* left out more than there are.
LEMMA SetInduction ==
  ASSUME NEW S, 0 \in S, \A n \in Nat : n \in S => n + 1 \in S
  PROVE  \A n \in Nat : n \in S
<1> SUFFICES ASSUME NEW n \in Nat, n \notin S PROVE FALSE
  OBVIOUS
<1> DEFINE T == {x \in 1..n : x \notin S}
           below == [x \in T |-> x - 1]
<1>1. IsFiniteSet(T)
  <2>1. IsFiniteSet(1..n) /\ T \in SUBSET (1..n)
    BY FS_Interval
  <2> QED
    BY <2>1, FS_Subset
<1>2. n \in T
  OBVIOUS
<1>3. /\ IsFiniteSet(T \ {n}) /\ Cardinality(T \ {n}) = Cardinality(T) - 1
      /\ Cardinality(T) \in Nat
  BY <1>1, <1>2, FS_RemoveElement, FS_CardinalityType
<1>4. below \in [T -> T \ {n}]
  <2> SUFFICES ASSUME NEW x \in T PROVE x - 1 \in T \ {n}
    OBVIOUS
  <2>1. x - 1 \in Nat /\ x - 1 \notin S
    OBVIOUS
  <2> QED
    BY <2>1
<1>5. PICK x \in T, y \in T : x # y /\ below[x] = below[y]
  <2> HIDE DEF T, below
  <2> QED
    BY <1>1, <1>3, <1>4, FS_PigeonHole
<1> QED
  BY <1>5

FrameKinds == ChunkKinds \cup ToolKinds \cup {"note", "elided", "overflow"}
Statuses == {"none", "executing", "completed", "failed"}
Draft ==
  [session : Sessions, turn : Nat, kind : FrameKinds, msg : Nat, status : Statuses,
   body : Seq(Nat)]

Sorted(d) == \A k, l \in DOMAIN d.body : k < l => d.body[k] <= d.body[l]
Before(d, e) == d.session = e.session => \A x \in Told(d), y \in Told(e) : x <= y

\* The parts of a frame tell together what it tells, in its order.
SplitOf(d, parts) ==
  /\ parts \in Seq(Draft)
  /\ \A p \in DOMAIN parts :
       /\ parts[p].session = d.session /\ parts[p].turn = d.turn
       /\ parts[p].kind # "overflow" /\ parts[p].status \in {d.status, "none"}
       /\ Sorted(parts[p])
  /\ \A p, q \in DOMAIN parts : p < q => Before(parts[p], parts[q])
  /\ \A x : x \in Told(d) <=> \E p \in DOMAIN parts : x \in Told(parts[p])

\* What a quotient of natural numbers leaves over.
LEMMA Division ==
  ASSUME NEW n \in Nat, NEW m \in Nat \ {0}
  PROVE  /\ n \div m \in Nat
         /\ m * (n \div m) <= n
         /\ n < m * (n \div m) + m
BY SMTT(30)

\* A product keeps the order of its factors.
LEMMA Products ==
  ASSUME NEW a \in Nat, NEW b \in Nat, NEW m \in Nat \ {0}
  PROVE  /\ a * m \in Nat /\ a * m = m * a /\ (a + 1) * m = a * m + m
         /\ a <= b => a * m <= b * m
         /\ a * m < b * m => a < b
<1>1. a * m \in Nat /\ a * m = m * a /\ (a + 1) * m = a * m + m
  BY SMTT(30)
<1>2. ASSUME NEW x \in Nat, NEW y \in Nat, x <= y PROVE x * m <= y * m
  <2>1. /\ y - x \in Nat /\ (y - x) * m \in Nat
    BY <1>2
  <2>2. y * m = x * m + (y - x) * m
    BY <1>2, <2>1, SMTT(30)
  <2>3. x * m \in Nat /\ y * m \in Nat
    OBVIOUS
  <2> QED
    BY <2>1, <2>2, <2>3
<1>3. a <= b => a * m <= b * m
  BY <1>2
<1>4. a * m < b * m => a < b
  <2>1. b <= a => b * m <= a * m
    BY <1>2
  <2>2. a * m \in Nat /\ b * m \in Nat
    OBVIOUS
  <2> QED
    BY <2>1, <2>2
<1> QED
  BY <1>1, <1>3, <1>4

-----------------------------------------------------------------------------
(* The observer stream: what its buffer keeps *)

Timers == {"off", "armed", "due"}
Buffer ==
  [pending : Seq(Draft), queue : Seq(Draft), status : [Sessions -> Statuses],
   waiting : BOOLEAN, elapsed : BOOLEAN, count : 0..Rate, timer : Timers,
   dropped : Nat, route : Draft \cup {<<>>}, active : SUBSET Sessions, up : BOOLEAN,
   wire : [Sessions -> Nat], gone : [Sessions -> SUBSET Nat], ended : [Sessions -> Nat],
   regressed : SUBSET Sessions, unreported : Int]

\* d tells of nothing earlier than what its session has sent or has in the queue.
Waits(b, d) ==
  /\ Sorted(d)
  /\ \A x \in Told(d) : b.wire[d.session] <= x
  /\ \A i \in DOMAIN b.queue : Before(b.queue[i], d)

InOrder(b) ==
  /\ \A i \in DOMAIN b.queue :
       /\ Sorted(b.queue[i])
       /\ \A x \in Told(b.queue[i]) : b.wire[b.queue[i].session] <= x
  /\ \A i, j \in DOMAIN b.queue : i < j => Before(b.queue[i], b.queue[j])
  /\ \A j \in DOMAIN b.pending : Waits(b, b.pending[j])
  /\ \A s \in Sessions : b.wire[s] \in b.gone[s] \cup {0}

\* Text waits for more of its message: one chunk of an open turn per session.
PendingOK(b, number, open) ==
  /\ \A j \in DOMAIN b.pending :
       /\ b.pending[j].kind \in ChunkKinds /\ b.pending[j].status = "none"
       /\ b.pending[j].session \in open
       /\ b.pending[j].turn = number[b.pending[j].session]
  /\ \A i, j \in DOMAIN b.pending : b.pending[i].session = b.pending[j].session => i = j

\* A frame that says a tool runs comes before any that says it ended.
StatusFits(b, d) ==
  d.status = "executing" =>
    /\ b.ended[d.session] # d.turn
    /\ \A i \in DOMAIN b.queue :
         Terminal(b.queue[i].status) /\ b.queue[i].session = d.session
           => b.queue[i].turn # d.turn

EndKnown(b, d, number, tracked) ==
  Terminal(d.status) /\ d.session \in tracked /\ d.turn = number[d.session]
    => Terminal(b.status[d.session])

StatusOK(b, number, tracked) ==
  /\ b.regressed = {}
  /\ \A s \in Sessions : b.ended[s] <= number[s]
  /\ \A i \in DOMAIN b.queue :
       /\ b.queue[i].turn <= number[b.queue[i].session]
       /\ EndKnown(b, b.queue[i], number, tracked)
       /\ b.queue[i].status = "executing" => b.ended[b.queue[i].session] # b.queue[i].turn
  /\ \A i, j \in DOMAIN b.queue :
       /\ i < j /\ Terminal(b.queue[i].status) /\ b.queue[j].status = "executing"
       /\ b.queue[i].session = b.queue[j].session
       => b.queue[i].turn # b.queue[j].turn
  /\ \A s \in tracked : b.ended[s] = number[s] => Terminal(b.status[s])

ReportOK(b, number) ==
  /\ \A i \in DOMAIN b.queue :
       b.queue[i].kind = "overflow" => i = 1 /\ DOMAIN b.queue[i].body = {1}
  /\ b.unreported = b.dropped + Reported(b)
  /\ b.dropped > 0 => /\ b.route \in Draft
                      /\ b.route.kind = "overflow" /\ b.route.status = "none"
                      /\ b.route.turn <= number[b.route.session]

Good(b, number, open, tracked) ==
  /\ b \in Buffer
  /\ InOrder(b)
  /\ PendingOK(b, number, open)
  /\ StatusOK(b, number, tracked)
  /\ ReportOK(b, number)

Pumped(b) ==
  /\ b.queue = <<>> => b.dropped = 0
  /\ b.queue # <<>> => b.timer # "off"

Carries(b, s, x) ==
  \/ x \in b.gone[s]
  \/ \E i \in DOMAIN b.queue : x \in ToldOf(s, b.queue[i])
  \/ \E j \in DOMAIN b.pending : x \in ToldOf(s, b.pending[j])

\* d tells only of what comes after old.
Recent(d, old) == \A x \in Told(d) : x > old[d.session]

\* A flush is waited for, if late, or what is queued is recent.
QueueClear(b, old, late) ==
  /\ b.waiting => late
  /\ b.waiting \/ \A i \in DOMAIN b.queue : Recent(b.queue[i], old)
Clear(b, old, late) ==
  QueueClear(b, old, late) /\ \A j \in DOMAIN b.pending : Recent(b.pending[j], old)

\* c stays clear of what came before if b is, and d too.
Clears(b, c) == \A old, late : QueueClear(b, old, late) => QueueClear(c, old, late)
ClearsAlso(b, c, d) ==
  \A old, late : QueueClear(b, old, late) /\ Recent(d, old) => QueueClear(c, old, late)
ClearsWith(b, c, d) ==
  \A old, late : Clear(b, old, late) /\ Recent(d, old) => Clear(c, old, late)
KeepsClear(b, c) == \A old, late : Clear(b, old, late) => Clear(c, old, late)

\* The parts of a body: part p holds the Budget elements that follow the first from[p].
SplitParts(body, parts, from) ==
  /\ parts \in Seq(Seq(Nat))
  /\ \A p \in DOMAIN parts :
       /\ p \in Nat /\ from[p] \in Nat
       /\ \A k \in DOMAIN parts[p] : /\ k \in 1..Budget /\ from[p] + k \in DOMAIN body
                                     /\ parts[p][k] = body[from[p] + k]
  /\ \A p, q \in DOMAIN parts : p < q => from[p] + Budget <= from[q]
  /\ \A m \in DOMAIN body :
       \E p \in DOMAIN parts : \E k \in DOMAIN parts[p] : parts[p][k] = body[m]

\* splitByBytes(): nothing is lost, nothing changes its place.
LEMMA BodySplit ==
  ASSUME NEW body \in Seq(Nat)
  PROVE  \E from : SplitParts(body, SplitByBytes(body), from)
<1> DEFINE n == Len(body)
           parts == SplitByBytes(body)
           count == (n + Budget - 1) \div Budget
<1>0. n \in Nat /\ DOMAIN body = 1..n /\ Budget \in Nat \ {0}
  BY BufferAssumption
<1>1. count \in Nat /\ Budget * count <= n + Budget - 1 /\ n + Budget - 1 < Budget * count + Budget
  <2>1. n + Budget - 1 \in Nat
    BY <1>0
  <2> QED
    BY <1>0, <2>1, Division
<1>2. ASSUME NEW p \in 1..count
      PROVE  LET from == (p - 1) * Budget
                 to == Least(p * Budget, n) IN
             /\ from \in Nat /\ p * Budget = from + Budget
             /\ from < n /\ to \in Nat /\ from < to /\ to <= n /\ to <= from + Budget
  <2>1. p \in Nat /\ p - 1 \in Nat /\ p <= count
    BY <1>1
  <2>2. (p - 1) * Budget \in Nat /\ p * Budget = (p - 1) * Budget + Budget
    BY <1>0, <2>1, Products
  <2>3. p * Budget <= count * Budget /\ count * Budget = Budget * count /\ p * Budget \in Nat
    BY <1>0, <1>1, <2>1, Products
  <2>4. (p - 1) * Budget < n
    BY <1>0, <1>1, <2>2, <2>3
  <2> QED
    BY <1>0, <2>2, <2>3, <2>4 DEF Least
<1>3. parts = [p \in 1..count |-> SubSeq(body, (p - 1) * Budget + 1, Least(p * Budget, n))]
  BY DEF SplitByBytes
<1> HIDE DEF parts, count
<1>4. ASSUME NEW p \in 1..count
      PROVE  /\ parts[p] \in Seq(Nat)
             /\ DOMAIN parts[p] = 1..Len(parts[p])
             /\ Len(parts[p]) = Least(p * Budget, n) - (p - 1) * Budget
             /\ \A k \in DOMAIN parts[p] : parts[p][k] = body[(p - 1) * Budget + k]
  <2> DEFINE from == (p - 1) * Budget
             to == Least(p * Budget, n)
  <2>1. from \in Nat /\ to \in Nat /\ from < to /\ to <= n
    BY <1>2
  <2>2. parts[p] = SubSeq(body, from + 1, to)
    BY <1>3
  <2> HIDE DEF from, to
  <2>3. /\ parts[p] \in Seq(Nat) /\ DOMAIN parts[p] = 1..Len(parts[p])
        /\ Len(parts[p]) = to - from /\ \A k \in 1..(to - from) : parts[p][k] = body[from + k]
    BY <1>0, <2>1, <2>2
  <2> QED
    BY <2>3 DEF from, to
<1>5. parts \in Seq(Seq(Nat)) /\ DOMAIN parts = 1..count
  BY <1>1, <1>3, <1>4
<1>6. ASSUME NEW p \in DOMAIN parts, NEW k \in DOMAIN parts[p]
      PROVE  /\ p \in Nat \ {0} /\ (p - 1) * Budget \in Nat
             /\ k \in 1..Budget /\ (p - 1) * Budget + k \in DOMAIN body
  <2> DEFINE from == (p - 1) * Budget
             to == Least(p * Budget, n)
  <2>1. p \in 1..count
    BY <1>5
  <2>2. from \in Nat /\ to \in Nat /\ to <= n /\ to <= from + Budget
    BY <1>2, <2>1
  <2>3. DOMAIN parts[p] = 1..(to - from)
    BY <1>4, <2>1
  <2> HIDE DEF from, to
  <2>4. k \in 1..Budget /\ from + k \in 1..n
    BY <1>0, <2>2, <2>3
  <2>5. p \in Nat \ {0}
    BY <1>1, <2>1
  <2>6. from + k \in DOMAIN body
    BY <1>0, <2>4
  <2>7. from = (p - 1) * Budget
    BY DEF from
  <2> QED
    BY <2>2, <2>4, <2>5, <2>6, <2>7
<1>7. ASSUME NEW m \in DOMAIN body
      PROVE  \E p \in DOMAIN parts : \E k \in DOMAIN parts[p] : parts[p][k] = body[m]
  <2> DEFINE q == (m - 1) \div Budget
             p == q + 1
             k == m - q * Budget
  <2>1. m \in Nat /\ m - 1 \in Nat /\ m <= n /\ 1 <= m
    BY <1>0
  <2>2. q \in Nat /\ Budget * q <= m - 1 /\ m - 1 < Budget * q + Budget
    BY <1>0, <2>1, Division
  <2> HIDE DEF q
  <2>3. q * Budget \in Nat /\ q * Budget = Budget * q /\ (q + 1) * Budget = q * Budget + Budget
    BY <1>0, <2>2, Products
  <2>4. k \in 1..Budget /\ q * Budget + k = m
    BY <1>0, <2>1, <2>2, <2>3
  <2>5. q < count
    <3>1. q * Budget < count * Budget
      <4>1. count * Budget = Budget * count /\ count * Budget \in Nat
        BY <1>0, <1>1, Products
      <4>2. q * Budget < Budget * count
        <5> DEFINE a == q * Budget
                   c == Budget * count
        <5>1. a \in Nat /\ c \in Nat /\ a <= m - 1 /\ n < c + 1
          BY <1>0, <1>1, <2>2, <2>3, <4>1
        <5> HIDE DEF a, c
        <5>2. a < c
          BY <1>0, <2>1, <5>1
        <5> QED
          BY <5>2 DEF a, c
      <4> QED
        BY <4>1, <4>2
    <3> QED
      BY <1>0, <1>1, <2>2, <3>1, Products
  <2>6. p \in 1..count /\ p - 1 = q
    BY <1>1, <2>2, <2>5
  <2>7. k \in 1..(Least(p * Budget, n) - (p - 1) * Budget)
    <3> DEFINE a == q * Budget
    <3>1. a \in Nat /\ k \in 1..Budget /\ a + k = m /\ m <= n /\ p * Budget = a + Budget
          /\ (p - 1) * Budget = a
      BY <2>1, <2>3, <2>4, <2>6
    <3> HIDE DEF a, k, p
    <3>2. k \in 1..(Least(a + Budget, n) - a)
      BY <1>0, <2>1, <3>1 DEF Least
    <3> QED
      BY <3>1, <3>2
  <2>8. k \in DOMAIN parts[p] /\ parts[p][k] = body[m]
    <3>1. k \in DOMAIN parts[p]
      BY <1>4, <2>6, <2>7
    <3>2. parts[p][k] = body[(p - 1) * Budget + k]
      BY <1>4, <2>6, <3>1
    <3>3. (p - 1) * Budget + k = m
      BY <2>4, <2>6
    <3> HIDE DEF k, p
    <3> QED
      BY <3>1, <3>2, <3>3
  <2> HIDE DEF k, p
  <2> QED
    BY <1>5, <2>6, <2>8
<1>8. \A p \in DOMAIN parts : \A k \in DOMAIN parts[p] :
        parts[p][k] = body[(p - 1) * Budget + k]
  BY <1>4, <1>5
<1>9. ASSUME NEW p \in DOMAIN parts, NEW q \in DOMAIN parts, p < q
      PROVE  (p - 1) * Budget + Budget <= (q - 1) * Budget
  <2>1. p \in Nat \ {0} /\ q \in Nat \ {0} /\ p - 1 \in Nat /\ q - 1 \in Nat /\ p <= q - 1
    BY <1>1, <1>5, <1>9
  <2>2. p - 1 + 1 = p
    BY <2>1
  <2>3. p * Budget = (p - 1) * Budget + Budget
    BY <1>0, <2>1, <2>2, Products
  <2>4. p * Budget <= (q - 1) * Budget
    BY <1>0, <2>1, Products
  <2> QED
    BY <2>3, <2>4
<1> DEFINE from == [p \in DOMAIN parts |-> (p - 1) * Budget]
<1>10. \A p \in DOMAIN parts : from[p] = (p - 1) * Budget
  OBVIOUS
<1> HIDE DEF from
<1>11. SplitParts(body, parts, from)
  <2>1. \A p \in DOMAIN parts :
       /\ p \in Nat /\ from[p] \in Nat
       /\ \A k \in DOMAIN parts[p] : /\ k \in 1..Budget /\ from[p] + k \in DOMAIN body
                                     /\ parts[p][k] = body[from[p] + k]
    <3> TAKE p \in DOMAIN parts
    <3>1. p \in Nat /\ from[p] = (p - 1) * Budget /\ (p - 1) * Budget \in Nat
      BY <1>1, <1>2, <1>5, <1>10
    <3>2. \A k \in DOMAIN parts[p] : /\ k \in 1..Budget /\ (p - 1) * Budget + k \in DOMAIN body
                                     /\ parts[p][k] = body[(p - 1) * Budget + k]
      BY <1>6, <1>8
    <3> QED
      BY <3>1, <3>2
  <2>2. \A p, q \in DOMAIN parts : p < q => from[p] + Budget <= from[q]
    BY <1>9, <1>10
  <2> QED
    BY <1>5, <1>7, <2>1, <2>2 DEF SplitParts
<1> QED
  BY <1>11 DEF parts

\* A frame that is too large goes out in parts that tell together what it told.
LEMMA FrameSplit ==
  ASSUME NEW d \in Draft, Sorted(d), d.kind # "overflow"
  PROVE  SplitOf(d, SplitFramePayload(d))
<1>0. /\ d.body \in Seq(Nat) /\ DOMAIN d.body = 1..Len(d.body) /\ Len(d.body) \in Nat
      /\ d.session \in Sessions /\ d.turn \in Nat /\ d.kind \in FrameKinds /\ d.msg \in Nat
      /\ d.status \in Statuses
      /\ d = [session |-> d.session, turn |-> d.turn, kind |-> d.kind, msg |-> d.msg,
              status |-> d.status, body |-> d.body]
  BY DEF Draft
<1>1. ASSUME NEW e \in Draft, e.session = d.session, e.turn = d.turn, e.kind # "overflow",
             e.status \in {d.status, "none"}, e.body = d.body
      PROVE  SplitOf(d, <<e>>)
  <2>1. Told(e) = Told(d) /\ Sorted(e)
    BY <1>1 DEF Told, Sorted
  <2>2. <<e>> \in Seq(Draft) /\ DOMAIN <<e>> = {1} /\ <<e>>[1] = e
    OBVIOUS
  <2> QED
    BY <1>1, <2>1, <2>2 DEF SplitOf
<1>2. CASE Len(d.body) <= Budget
  BY <1>1, <1>2 DEF SplitFramePayload
<1>3. CASE ~(Len(d.body) <= Budget) /\ d.kind \notin ChunkKinds \cup {"update"}
  <2> DEFINE e == [d EXCEPT !.kind = "elided", !.status = "none"]
  <2>1. e \in Draft /\ e.session = d.session /\ e.turn = d.turn /\ e.kind = "elided"
        /\ e.status = "none" /\ e.body = d.body
    BY DEF Draft, FrameKinds, Statuses
  <2>2. SplitFramePayload(d) = <<e>>
    BY <1>3 DEF SplitFramePayload
  <2> HIDE DEF e
  <2> QED
    BY <1>1, <2>1, <2>2
<1>4. CASE ~(Len(d.body) <= Budget) /\ d.kind \in ChunkKinds \cup {"update"}
  <2> DEFINE bodies == SplitByBytes(d.body)
             parts == [p \in 1..Len(bodies) |-> [d EXCEPT !.body = bodies[p]]]
  <2>1. SplitFramePayload(d) = parts
    BY <1>4 DEF SplitFramePayload
  <2>2. PICK from : SplitParts(d.body, bodies, from)
    BY <1>0, BodySplit
  <2> HIDE DEF bodies
  <2>8. bodies \in Seq(Seq(Nat)) /\ DOMAIN bodies = 1..Len(bodies) /\ Len(bodies) \in Nat
    BY <2>2 DEF SplitParts
  <2>3. \A p \in DOMAIN parts :
          /\ parts[p] \in Draft /\ parts[p].body = bodies[p]
          /\ parts[p].session = d.session /\ parts[p].turn = d.turn
          /\ parts[p].kind = d.kind /\ parts[p].status = d.status
    <3> TAKE p \in DOMAIN parts
    <3>1. bodies[p] \in Seq(Nat) /\ parts[p] = [d EXCEPT !.body = bodies[p]]
      BY <2>8
    <3> HIDE DEF parts
    <3> QED
      BY <3>1 DEF Draft
  <2>4. parts \in Seq(Draft) /\ DOMAIN parts = DOMAIN bodies
    BY <2>8, <2>3
  <2> HIDE DEF parts
  <2>5. ASSUME NEW p \in DOMAIN parts PROVE Sorted(parts[p])
    <3> SUFFICES ASSUME NEW k \in DOMAIN bodies[p], NEW l \in DOMAIN bodies[p], k < l
                 PROVE  bodies[p][k] <= bodies[p][l]
      BY <2>3, <2>5 DEF Sorted
    <3>1. /\ k \in 1..Budget /\ l \in 1..Budget /\ from[p] \in Nat
          /\ from[p] + k \in DOMAIN d.body /\ from[p] + l \in DOMAIN d.body
          /\ bodies[p][k] = d.body[from[p] + k] /\ bodies[p][l] = d.body[from[p] + l]
      BY <2>2, <2>4, <2>5 DEF SplitParts
    <3>2. from[p] + k < from[p] + l
      BY <3>1, BufferAssumption
    <3> QED
      BY <3>1, <3>2 DEF Sorted
  <2>6. ASSUME NEW p \in DOMAIN parts, NEW q \in DOMAIN parts, p < q
        PROVE  Before(parts[p], parts[q])
    <3> SUFFICES ASSUME NEW k \in DOMAIN bodies[p], NEW l \in DOMAIN bodies[q]
                 PROVE  bodies[p][k] <= bodies[q][l]
      BY <2>3, <2>6 DEF Before, Told
    <3>1. /\ k \in 1..Budget /\ l \in 1..Budget /\ from[p] \in Nat /\ from[q] \in Nat
          /\ from[p] + k \in DOMAIN d.body /\ from[q] + l \in DOMAIN d.body
          /\ bodies[p][k] = d.body[from[p] + k] /\ bodies[q][l] = d.body[from[q] + l]
          /\ from[p] + Budget <= from[q]
      BY <2>2, <2>4, <2>6 DEF SplitParts
    <3>2. from[p] + k < from[q] + l
      BY <3>1, BufferAssumption
    <3> QED
      BY <3>1, <3>2 DEF Sorted
  <2>7. ASSUME NEW x PROVE x \in Told(d) <=> \E p \in DOMAIN parts : x \in Told(parts[p])
    <3>1. \A p \in DOMAIN parts : Told(parts[p]) = {bodies[p][k] : k \in DOMAIN bodies[p]}
      BY <2>3 DEF Told
    <3>2. Told(d) = {d.body[m] : m \in DOMAIN d.body}
      BY DEF Told
    <3>3. ASSUME x \in Told(d) PROVE \E p \in DOMAIN parts : x \in Told(parts[p])
      <4>1. PICK m \in DOMAIN d.body : x = d.body[m]
        BY <3>2, <3>3
      <4>2. PICK p \in DOMAIN bodies : \E k \in DOMAIN bodies[p] : bodies[p][k] = x
        BY <2>2, <4>1 DEF SplitParts
      <4> QED
        BY <2>4, <3>1, <4>2
    <3>4. ASSUME NEW p \in DOMAIN parts, x \in Told(parts[p]) PROVE x \in Told(d)
      <4>1. PICK k \in DOMAIN bodies[p] : x = bodies[p][k]
        BY <3>1, <3>4
      <4>2. from[p] + k \in DOMAIN d.body /\ bodies[p][k] = d.body[from[p] + k]
        BY <2>2, <2>4, <4>1 DEF SplitParts
      <4> QED
        BY <3>2, <4>1, <4>2
    <3> QED
      BY <3>3, <3>4
  <2> QED
    BY <2>1, <2>3, <2>4, <2>5, <2>6, <2>7 DEF SplitOf
<1> QED
  BY <1>2, <1>3, <1>4

-----------------------------------------------------------------------------
(* The observer stream: its queue *)

\* What the frames of b are accounted by is what those of c are.
SameFrames(b, c) ==
  /\ c.pending = b.pending /\ c.queue = b.queue /\ c.status = b.status
  /\ c.dropped = b.dropped /\ c.route = b.route /\ c.wire = b.wire /\ c.gone = b.gone
  /\ c.ended = b.ended /\ c.regressed = b.regressed /\ c.unreported = b.unreported

\* d may be the next frame of the queue.
Joins(b, d, number, tracked) ==
  /\ d \in Draft /\ d.kind # "overflow"
  /\ Waits(b, d)
  /\ \A j \in DOMAIN b.pending : b.pending[j].session # d.session
  /\ d.turn <= number[d.session]
  /\ StatusFits(b, d)
  /\ EndKnown(b, d, number, tracked)

\* e may follow d.
Follows(d, e) ==
  /\ Before(d, e)
  /\ Terminal(d.status) /\ e.status = "executing" /\ d.session = e.session => d.turn # e.turn

\* What is proved of a buffer is proved of any other that holds the same frames.
LEMMA FramesSame ==
  ASSUME NEW number, NEW open, NEW tracked, NEW b, NEW c \in Buffer, SameFrames(b, c)
  PROVE  /\ Good(b, number, open, tracked) => Good(c, number, open, tracked)
         /\ \A s, x : Carries(c, s, x) <=> Carries(b, s, x)
         /\ \A d : Joins(b, d, number, tracked) => Joins(c, d, number, tracked)
<1>1. InOrder(b) => InOrder(c)
  BY DEF SameFrames, InOrder, Waits
<1>2. PendingOK(b, number, open) => PendingOK(c, number, open)
  BY DEF SameFrames, PendingOK
<1>3. StatusOK(b, number, tracked) => StatusOK(c, number, tracked)
  BY DEF SameFrames, StatusOK, EndKnown
<1>4. ReportOK(b, number) => ReportOK(c, number)
  BY DEF SameFrames, ReportOK, Reported
<1>5. \A s, x : Carries(c, s, x) <=> Carries(b, s, x)
  BY DEF SameFrames, Carries
<1>6. \A d : Joins(b, d, number, tracked) => Joins(c, d, number, tracked)
  BY DEF SameFrames, Joins, Waits, StatusFits, EndKnown
<1> QED
  BY <1>1, <1>2, <1>3, <1>4, <1>5, <1>6 DEF Good

\* An element appended: where the others are.
LEMMA QueueGrows ==
  ASSUME NEW S, NEW q \in Seq(S), NEW d \in S
  PROVE  /\ Append(q, d) \in Seq(S) /\ DOMAIN Append(q, d) = 1..(Len(q) + 1)
         /\ \A i \in DOMAIN q : i \in DOMAIN Append(q, d) /\ Append(q, d)[i] = q[i]
         /\ \A i \in DOMAIN Append(q, d) :
              i \in DOMAIN q \/ (Append(q, d)[i] = d /\ i = Len(q) + 1)
         /\ Len(q) + 1 \in DOMAIN Append(q, d) /\ Append(q, d)[Len(q) + 1] = d
OBVIOUS

\* accept(): a part joins the queue, or is shed and counted.
LEMMA Accepted ==
  ASSUME NEW number \in [Sessions -> Nat], NEW open, NEW tracked, NEW b, NEW d,
         Good(b, number, open, tracked), Joins(b, d, number, tracked)
  PROVE  /\ Good(Accept(b, d), number, open, tracked)
         /\ Accept(b, d).pending = b.pending /\ Accept(b, d).status = b.status
         /\ \A s \in Sessions : \A x :
              Carries(Accept(b, d), s, x) <=> Carries(b, s, x) \/ x \in ToldOf(s, d)
         /\ \A e : Joins(b, e, number, tracked) /\ Follows(d, e)
                     => Joins(Accept(b, d), e, number, tracked)
         /\ ClearsAlso(b, Accept(b, d), d)
<1> DEFINE c == Accept(b, d)
<1>0. /\ b \in Buffer /\ InOrder(b) /\ PendingOK(b, number, open) /\ StatusOK(b, number, tracked)
      /\ ReportOK(b, number)
      /\ d \in Draft /\ d.kind # "overflow" /\ Waits(b, d) /\ d.turn <= number[d.session]
      /\ StatusFits(b, d) /\ EndKnown(b, d, number, tracked)
      /\ \A j \in DOMAIN b.pending : b.pending[j].session # d.session
  BY DEF Good, Joins
<1>1. /\ d.session \in Sessions /\ d.turn \in Nat /\ Told(d) \subseteq Nat
      /\ b.gone \in [Sessions -> SUBSET Nat] /\ b.dropped \in Nat /\ b.unreported \in Int
      /\ b.queue \in Seq(Draft) /\ DOMAIN b.queue = 1..Len(b.queue) /\ Len(b.queue) \in Nat
  BY <1>0 DEF Draft, Buffer, Told
<1>2. CASE Len(b.queue) >= MaxQueued
  <2> DEFINE route == ObserverFrame(d.session, d.turn, "overflow", 0, "none", <<>>)
             gone == [b.gone EXCEPT ![d.session] = @ \cup Told(d)]
  <2>1. c = [b EXCEPT !.gone[d.session] = @ \cup Told(d), !.dropped = @ + 1,
                      !.unreported = @ + 1, !.route = route]
    BY <1>0, <1>2 DEF Accept, Leaves, Buffer
  <2>2. route \in Draft /\ route.kind = "overflow" /\ route.status = "none"
        /\ route.turn = d.turn /\ route.session = d.session
    BY <1>1 DEF Draft, ObserverFrame, FrameKinds, Statuses
  <2> HIDE DEF route, c
  <2>3. /\ c.pending = b.pending /\ c.queue = b.queue /\ c.status = b.status
        /\ c.wire = b.wire /\ c.ended = b.ended /\ c.regressed = b.regressed
        /\ c.gone = gone /\ c.dropped = b.dropped + 1 /\ c.unreported = b.unreported + 1
        /\ c.route = route /\ c.waiting = b.waiting
    BY <1>0, <2>1 DEF Buffer
  <2>4. c \in Buffer
    <3>1. gone \in [Sessions -> SUBSET Nat]
      BY <1>1
    <3>2. c = [b EXCEPT !.gone = gone, !.dropped = @ + 1, !.unreported = @ + 1, !.route = route]
      BY <1>0, <2>1 DEF Buffer
    <3>3. b.dropped + 1 \in Nat /\ b.unreported + 1 \in Int /\ route \in Draft \cup {<<>>}
      BY <1>1, <2>2
    <3> HIDE DEF gone
    <3> QED
      BY <1>0, <3>1, <3>2, <3>3 DEF Buffer
  <2>5. InOrder(c)
    BY <1>0, <1>1, <2>3 DEF InOrder, Waits
  <2>6. PendingOK(c, number, open)
    BY <1>0, <2>3 DEF PendingOK
  <2>7. StatusOK(c, number, tracked)
    BY <1>0, <2>3 DEF StatusOK, EndKnown
  <2>8. ReportOK(c, number)
    <3>1. Reported(c) = Reported(b)
      BY <2>3 DEF Reported
    <3>2. \A i \in DOMAIN c.queue :
            c.queue[i].kind = "overflow" => i = 1 /\ DOMAIN c.queue[i].body = {1}
      BY <1>0, <2>3 DEF ReportOK
    <3>3. c.unreported = c.dropped + Reported(c)
      <4>1. PICK r : r = Reported(b)
        OBVIOUS
      <4>2. b.unreported = b.dropped + r
        BY <1>0, <4>1 DEF ReportOK
      <4>3. r \in Int
        <5>1. CASE b.queue # <<>> /\ b.queue[1].kind = "overflow"
          <6>1. 1 \in DOMAIN b.queue /\ b.queue[1] \in Draft
            BY <1>1, <5>1
          <6>2. DOMAIN b.queue[1].body = {1} /\ b.queue[1].body \in Seq(Nat)
            BY <1>0, <5>1, <6>1 DEF ReportOK, Draft
          <6>3. b.queue[1].body[1] \in Nat
            BY <6>2
          <6> QED
            BY <4>1, <5>1, <6>3 DEF Reported
        <5>2. CASE ~(b.queue # <<>> /\ b.queue[1].kind = "overflow")
          BY <4>1, <5>2 DEF Reported
        <5> QED
          BY <5>1, <5>2
      <4> QED
        BY <1>1, <2>3, <3>1, <4>1, <4>2, <4>3
    <3> QED
      BY <1>0, <2>2, <2>3, <3>2, <3>3 DEF ReportOK
  <2>9. ASSUME NEW s \in Sessions, NEW x
        PROVE  Carries(c, s, x) <=> Carries(b, s, x) \/ x \in ToldOf(s, d)
    BY <1>1, <2>3 DEF Carries, ToldOf
  <2>10. \A e : Joins(b, e, number, tracked) => Joins(c, e, number, tracked)
    BY <2>3 DEF Joins, Waits, StatusFits, EndKnown
  <2>11. ClearsAlso(b, c, d)
    BY <2>3 DEF ClearsAlso, QueueClear
  <2> QED
    BY <2>3, <2>4, <2>5, <2>6, <2>7, <2>8, <2>9, <2>10, <2>11 DEF c, Good
<1>3. CASE ~(Len(b.queue) >= MaxQueued)
  <2> DEFINE q == Append(b.queue, d)
  <2>1. c = [b EXCEPT !.queue = q]
    BY <1>0, <1>3 DEF Accept
  <2>2. /\ q \in Seq(Draft) /\ DOMAIN q = 1..(Len(b.queue) + 1)
        /\ \A i \in DOMAIN b.queue : i \in DOMAIN q /\ q[i] = b.queue[i]
        /\ \A i \in DOMAIN q : i \in DOMAIN b.queue \/ (q[i] = d /\ i = Len(b.queue) + 1)
        /\ Len(b.queue) + 1 \in DOMAIN q /\ q[Len(b.queue) + 1] = d
    BY <1>0, <1>1, QueueGrows
  <2> HIDE DEF q, c
  <2>3. /\ c.pending = b.pending /\ c.queue = q /\ c.status = b.status
        /\ c.wire = b.wire /\ c.ended = b.ended /\ c.regressed = b.regressed
        /\ c.gone = b.gone /\ c.dropped = b.dropped /\ c.unreported = b.unreported
        /\ c.route = b.route /\ c.waiting = b.waiting
    BY <1>0, <2>1 DEF Buffer
  <2>4. c \in Buffer
    BY <1>0, <2>1, <2>2 DEF Buffer
  <2>5. InOrder(c)
    <3>1. \A i \in DOMAIN c.queue :
            /\ Sorted(c.queue[i])
            /\ \A x \in Told(c.queue[i]) : c.wire[c.queue[i].session] <= x
      BY <1>0, <2>2, <2>3 DEF InOrder, Waits
    <3>2. ASSUME NEW i \in DOMAIN c.queue, NEW j \in DOMAIN c.queue, i < j
          PROVE  Before(c.queue[i], c.queue[j])
      <4>1. i \in DOMAIN b.queue
        BY <1>1, <2>2, <2>3, <3>2
      <4> QED
        BY <1>0, <2>2, <2>3, <3>2, <4>1 DEF InOrder, Waits
    <3>3. ASSUME NEW j \in DOMAIN c.pending PROVE Waits(c, c.pending[j])
      <4>1. Waits(b, b.pending[j]) /\ b.pending[j].session # d.session
        BY <1>0, <2>3 DEF InOrder
      <4>2. Before(d, b.pending[j])
        BY <4>1 DEF Before
      <4> QED
        BY <2>2, <2>3, <4>1, <4>2 DEF Waits
    <3> QED
      BY <1>0, <2>3, <3>1, <3>2, <3>3 DEF InOrder
  <2>6. PendingOK(c, number, open)
    BY <1>0, <2>3 DEF PendingOK
  <2>7. StatusOK(c, number, tracked)
    <3>1. \A i \in DOMAIN c.queue :
       /\ c.queue[i].turn <= number[c.queue[i].session]
       /\ EndKnown(c, c.queue[i], number, tracked)
       /\ c.queue[i].status = "executing" => c.ended[c.queue[i].session] # c.queue[i].turn
      BY <1>0, <2>2, <2>3 DEF StatusOK, EndKnown, StatusFits
    <3>2. ASSUME NEW i \in DOMAIN c.queue, NEW j \in DOMAIN c.queue, i < j,
                 Terminal(c.queue[i].status), c.queue[j].status = "executing",
                 c.queue[i].session = c.queue[j].session
          PROVE  c.queue[i].turn # c.queue[j].turn
      <4>1. i \in DOMAIN b.queue
        BY <1>1, <2>2, <2>3, <3>2
      <4> QED
        BY <1>0, <2>2, <2>3, <3>2, <4>1 DEF StatusOK, StatusFits
    <3> QED
      BY <1>0, <2>3, <3>1, <3>2 DEF StatusOK
  <2>8. ReportOK(c, number)
    <3>1. Reported(c) = Reported(b)
      <4>1. CASE b.queue = <<>>
        <5>1. c.queue[1] = d
          BY <1>1, <2>2, <2>3, <4>1
        <5> QED
          BY <1>0, <4>1, <5>1 DEF Reported
      <4>2. CASE b.queue # <<>>
        <5>1. 1 \in DOMAIN b.queue
          BY <1>1, <4>2
        <5>2. c.queue[1] = b.queue[1] /\ c.queue # <<>>
          BY <2>2, <2>3, <5>1
        <5> QED
          BY <4>2, <5>2 DEF Reported
      <4> QED
        BY <4>1, <4>2
    <3>2. \A i \in DOMAIN c.queue :
            c.queue[i].kind = "overflow" => i = 1 /\ DOMAIN c.queue[i].body = {1}
      BY <1>0, <2>2, <2>3 DEF ReportOK
    <3> QED
      BY <1>0, <2>3, <3>1, <3>2 DEF ReportOK
  <2>9. ASSUME NEW s \in Sessions, NEW x
        PROVE  Carries(c, s, x) <=> Carries(b, s, x) \/ x \in ToldOf(s, d)
    <3>1. (\E i \in DOMAIN c.queue : x \in ToldOf(s, c.queue[i]))
            <=> (\E i \in DOMAIN b.queue : x \in ToldOf(s, b.queue[i])) \/ x \in ToldOf(s, d)
      BY <2>2, <2>3
    <3> QED
      BY <2>3, <3>1 DEF Carries
  <2>10. ASSUME NEW e, Joins(b, e, number, tracked), Follows(d, e)
         PROVE  Joins(c, e, number, tracked)
    <3>1. Waits(c, e)
      BY <2>2, <2>3, <2>10 DEF Joins, Waits, Follows
    <3>2. StatusFits(c, e)
      BY <2>2, <2>3, <2>10 DEF Joins, StatusFits, Follows
    <3> QED
      BY <2>3, <2>10, <3>1, <3>2 DEF Joins, EndKnown
  <2>11. ClearsAlso(b, c, d)
    BY <2>2, <2>3 DEF ClearsAlso, QueueClear
  <2> QED
    BY <2>3, <2>4, <2>5, <2>6, <2>7, <2>8, <2>9, <2>10, <2>11 DEF c, Good
<1> QED
  BY <1>2, <1>3

\* The last event on the wire is one of those told, or the one before.
LEMMA LastTold ==
  ASSUME NEW d \in Draft, Sorted(d), NEW w \in Nat
  PROVE  LET S == Told(d) \cup {w} IN Max(S) \in S /\ \A y \in S : y <= Max(S)
<1> DEFINE S == Told(d) \cup {w}
<1>1. Told(d) \subseteq Nat
  BY DEF Draft, Told
<1>2. \E m \in S : \A y \in S : m >= y
  <2>1. CASE Told(d) = {}
    BY <2>1
  <2>2. CASE Told(d) # {}
    <3> DEFINE last == d.body[Len(d.body)]
    <3>1. /\ d.body \in Seq(Nat) /\ DOMAIN d.body = 1..Len(d.body) /\ d.body # <<>>
          /\ Told(d) = {d.body[i] : i \in DOMAIN d.body}
      BY <2>2 DEF Draft, Told
    <3>2. Len(d.body) \in DOMAIN d.body /\ Len(d.body) \in Nat
      BY <3>1
    <3>3. last \in Told(d) /\ last \in Nat
      BY <3>1, <3>2
    <3>4. \A k \in DOMAIN d.body : d.body[k] <= last
      BY <3>1, <3>2 DEF Sorted
    <3>5. \A y \in Told(d) : y <= last
      BY <3>1, <3>4
    <3> HIDE DEF last
    <3> QED
      BY <1>1, <3>3, <3>5
  <2> QED
    BY <2>1, <2>2
<1> HIDE DEF S
<1>3. Max(S) \in S /\ \A y \in S : Max(S) >= y
  BY <1>2 DEF Max
<1>4. S \subseteq Nat
  BY <1>1 DEF S
<1>5. Max(S) \in S /\ \A y \in S : y <= Max(S)
  BY <1>3, <1>4
<1> QED
  BY <1>5 DEF S

\* The head taken off: where the others are.
LEMMA QueueShifts ==
  ASSUME NEW S, NEW q \in Seq(S), q # <<>>
  PROVE  /\ Tail(q) \in Seq(S) /\ Len(Tail(q)) = Len(q) - 1
         /\ 1 \in DOMAIN q /\ Head(q) = q[1] /\ q[1] \in S
         /\ \A i \in DOMAIN Tail(q) : /\ i + 1 \in DOMAIN q /\ Tail(q)[i] = q[i + 1]
                                      /\ 1 < i + 1 /\ i \in Nat
         /\ \A i \in DOMAIN q : i = 1 \/ (i - 1 \in DOMAIN Tail(q) /\ Tail(q)[i - 1] = q[i])
OBVIOUS

\* What sending the head of the queue leaves alone.
SentFrom(b, c) ==
  /\ c.pending = b.pending /\ c.status = b.status /\ c.dropped = b.dropped
  /\ c.timer = b.timer /\ c.route = b.route
  /\ Clears(b, c)

\* Fields given the values they have.
LEMMA SameFieldsPut ==
  ASSUME NEW f, f = [x \in DOMAIN f |-> f[x]]
  PROVE  f = [f EXCEPT !.wire = f.wire, !.ended = f.ended, !.regressed = f.regressed]
OBVIOUS

\* The head of the queue goes out: in order, and reported if it reports what was shed.
LEMMA HeadSent ==
  ASSUME NEW number \in [Sessions -> Nat], NEW open, NEW tracked \in SUBSET Sessions, NEW b,
         Good(b, number, open, tracked), b.queue # <<>>, b.count < Rate
  PROVE  /\ Good(EmitNext(b), number, open, tracked)
         /\ SentFrom(b, EmitNext(b))
         /\ Len(EmitNext(b).queue) = Len(b.queue) - 1 /\ EmitNext(b).count = b.count + 1
         /\ \A s \in Sessions : \A x : Carries(EmitNext(b), s, x) <=> Carries(b, s, x)
<1> DEFINE c == EmitNext(b)
           d == b.queue[1]
           s == d.session
           q == Tail(b.queue)
           gone == [b.gone EXCEPT ![s] = @ \cup Told(d)]
           owe == IF d.kind = "overflow" THEN b.unreported - d.body[1] ELSE b.unreported
           wire == IF b.up THEN [b.wire EXCEPT ![s] = Max(Told(d) \cup {@})] ELSE b.wire
           last == IF b.up /\ Terminal(d.status) THEN [b.ended EXCEPT ![s] = d.turn] ELSE b.ended
<1>0. /\ b \in Buffer /\ InOrder(b) /\ PendingOK(b, number, open) /\ StatusOK(b, number, tracked)
      /\ ReportOK(b, number)
  BY DEF Good
<1>1. /\ b.queue \in Seq(Draft) /\ Len(b.queue) \in Nat /\ q \in Seq(Draft)
      /\ Len(q) = Len(b.queue) - 1
      /\ 1 \in DOMAIN b.queue /\ Head(b.queue) = d /\ d \in Draft
      /\ \A i \in DOMAIN q : i + 1 \in DOMAIN b.queue /\ q[i] = b.queue[i + 1] /\ 1 < i + 1 /\ i \in Nat
      /\ \A i \in DOMAIN b.queue : i = 1 \/ (i - 1 \in DOMAIN q /\ q[i - 1] = b.queue[i])
  <2>1. b.queue \in Seq(Draft)
    BY <1>0 DEF Buffer
  <2> QED
    BY <2>1, QueueShifts
<1>2. /\ s \in Sessions /\ d.turn \in Nat /\ Told(d) \subseteq Nat /\ Sorted(d)
      /\ b.gone \in [Sessions -> SUBSET Nat] /\ b.wire \in [Sessions -> Nat]
      /\ b.ended \in [Sessions -> Nat] /\ b.dropped \in Nat /\ b.unreported \in Int
      /\ b.count \in Nat /\ b.count + 1 \in 0..Rate /\ b.regressed = {} /\ b.active \in SUBSET Sessions
      /\ b.up \in BOOLEAN
  <2>1. /\ s \in Sessions /\ d.turn \in Nat /\ Told(d) \subseteq Nat
    BY <1>1 DEF Draft, Told
  <2>2. Sorted(d) /\ b.regressed = {}
    BY <1>0, <1>1 DEF InOrder, StatusOK
  <2>3. /\ b.gone \in [Sessions -> SUBSET Nat] /\ b.wire \in [Sessions -> Nat]
        /\ b.ended \in [Sessions -> Nat] /\ b.dropped \in Nat /\ b.unreported \in Int
        /\ b.count \in 0..Rate /\ b.active \in SUBSET Sessions /\ b.up \in BOOLEAN
    BY <1>0 DEF Buffer
  <2>4. b.count \in Nat /\ b.count + 1 \in 0..Rate
    BY <2>3, BufferAssumption
  <2> HIDE DEF d
  <2> QED
    BY <2>1, <2>2, <2>3, <2>4
<1>3. d.status = "executing" => b.ended[s] # d.turn
  BY <1>0, <1>1 DEF StatusOK
<1>4. c = [b EXCEPT !.queue = q, !.count = @ + 1, !.gone = gone, !.active = @ \cup {s},
                    !.unreported = owe, !.wire = wire, !.ended = last]
  <2> DEFINE a == [b EXCEPT !.queue = q, !.count = @ + 1]
             e == [a EXCEPT !.gone = gone]
             f == [e EXCEPT !.active = @ \cup {s},
                     !.unreported = IF d.kind = "overflow" THEN @ - d.body[1] ELSE @]
  <2>1. /\ a.gone = b.gone /\ a.ended = b.ended /\ a.up = b.up /\ a.wire = b.wire
        /\ a.regressed = b.regressed /\ a.active = b.active /\ a.unreported = b.unreported
    BY <1>0 DEF Buffer
  <2>2. Leaves(a, d) = e
    BY <1>0, <2>1 DEF Leaves, Buffer
  <2>3. e.active = b.active /\ e.unreported = b.unreported /\ e.wire = b.wire /\ e.ended = b.ended
        /\ e.regressed = b.regressed
    BY <1>0 DEF Buffer
  <2>4. c = IF b.up
            THEN [f EXCEPT !.wire[s] = Max(Told(d) \cup {@}),
                           !.ended[s] = IF Terminal(d.status) THEN d.turn ELSE @,
                           !.regressed = IF d.status = "executing" /\ b.ended[s] = d.turn
                                         THEN @ \cup {s} ELSE @]
            ELSE f
    <3>1. c = PublishFrame(a, d)
      BY <1>1 DEF EmitNext
    <3> HIDE DEF a, e, c
    <3>2. d.session = s
      OBVIOUS
    <3> QED
      BY <2>1, <2>2, <3>1 DEF PublishFrame
  <2>5. f = [b EXCEPT !.queue = q, !.count = @ + 1, !.gone = gone, !.active = @ \cup {s},
                      !.unreported = owe]
    BY <1>0, <2>1, <2>3 DEF Buffer
  <2>6. /\ f.wire = b.wire /\ f.ended = b.ended /\ f.regressed = b.regressed
        /\ \A w, n, r : [f EXCEPT !.wire = w, !.ended = n, !.regressed = r]
                          = [b EXCEPT !.queue = q, !.count = @ + 1, !.gone = gone,
                                      !.active = @ \cup {s}, !.unreported = owe, !.wire = w,
                                      !.ended = n, !.regressed = r]
    BY <1>0, <2>5 DEF Buffer
  <2> HIDE DEF a, e, f, gone, owe
  <2>7. CASE b.up
    <3>1. ~(d.status = "executing" /\ b.ended[s] = d.turn)
      BY <1>3
    <3>2. wire = [f.wire EXCEPT ![s] = Max(Told(d) \cup {@})]
      BY <2>6, <2>7
    <3>3. last = [f.ended EXCEPT ![s] = IF Terminal(d.status) THEN d.turn ELSE @]
      BY <1>2, <2>6, <2>7
    <3>4. c = [f EXCEPT !.wire = [f.wire EXCEPT ![s] = Max(Told(d) \cup {@})],
                        !.ended = [f.ended EXCEPT ![s] = IF Terminal(d.status) THEN d.turn ELSE @],
                        !.regressed = f.regressed]
      BY <2>4, <2>7, <3>1
    <3> HIDE DEF wire, last
    <3>5. c = [f EXCEPT !.wire = wire, !.ended = last, !.regressed = b.regressed]
      BY <2>6, <3>2, <3>3, <3>4
    <3>6. c = [b EXCEPT !.queue = q, !.count = @ + 1, !.gone = gone, !.active = @ \cup {s},
                        !.unreported = owe, !.wire = wire, !.ended = last,
                        !.regressed = b.regressed]
      BY <2>6, <3>5
    <3> QED
      BY <1>0, <3>6 DEF Buffer
  <2>8. CASE ~ b.up
    <3>1. c = f /\ wire = f.wire /\ last = f.ended
      BY <2>4, <2>6, <2>8
    <3> HIDE DEF wire, last
    <3>2. f = [f EXCEPT !.wire = f.wire, !.ended = f.ended, !.regressed = f.regressed]
      <4>1. f = [x \in DOMAIN f |-> f[x]]
        BY <2>5
      <4> QED
        BY <4>1, SameFieldsPut
    <3>3. c = [f EXCEPT !.wire = wire, !.ended = last, !.regressed = b.regressed]
      BY <2>6, <3>1, <3>2
    <3>4. c = [b EXCEPT !.queue = q, !.count = @ + 1, !.gone = gone, !.active = @ \cup {s},
                        !.unreported = owe, !.wire = wire, !.ended = last,
                        !.regressed = b.regressed]
      BY <2>6, <3>3
    <3> QED
      BY <1>0, <3>4 DEF Buffer
  <2> QED
    BY <1>2, <2>7, <2>8
<1>5. /\ wire \in [Sessions -> Nat] /\ \A k \in Sessions \ {s} : wire[k] = b.wire[k]
      /\ wire[s] \in Told(d) \cup {b.wire[s]}
  <2>1. LET S == Told(d) \cup {b.wire[s]} IN Max(S) \in S
    <3> HIDE DEF d, s
    <3> QED
      BY <1>1, <1>2, LastTold
  <2>2. PICK m : m = Max(Told(d) \cup {b.wire[s]}) /\ m \in Told(d) \cup {b.wire[s]}
    BY <2>1
  <2>3. wire = IF b.up THEN [b.wire EXCEPT ![s] = m] ELSE b.wire
    BY <2>2
  <2> HIDE DEF d, s, wire
  <2>4. m \in Nat
    BY <1>2, <2>2
  <2> QED
    BY <1>2, <2>2, <2>3, <2>4
<1>6. /\ last \in [Sessions -> Nat]
      /\ \A k \in Sessions : last[k] = b.ended[k] \/ (k = s /\ Terminal(d.status) /\ last[k] = d.turn)
  BY <1>2
<1>7. /\ gone \in [Sessions -> SUBSET Nat] /\ gone[s] = b.gone[s] \cup Told(d)
      /\ \A k \in Sessions \ {s} : gone[k] = b.gone[k]
  BY <1>2
<1>8. owe \in Int /\ owe = b.dropped
  <2>1. CASE d.kind = "overflow"
    <3>1. DOMAIN d.body = {1} /\ d.body \in Seq(Nat) /\ Reported(b) = d.body[1]
      BY <1>0, <1>1, <2>1 DEF ReportOK, Reported, Draft
    <3>2. d.body[1] \in Nat
      BY <3>1
    <3>3. b.unreported = b.dropped + d.body[1]
      BY <1>0, <3>1 DEF ReportOK
    <3> QED
      BY <1>2, <2>1, <3>2, <3>3
  <2>2. CASE d.kind # "overflow"
    <3>1. Reported(b) = 0 /\ b.unreported = b.dropped + Reported(b)
      BY <1>0, <2>2 DEF Reported, ReportOK
    <3> QED
      BY <1>2, <2>2, <3>1
  <2> QED
    BY <2>1, <2>2
<1> HIDE DEF q, gone, owe, wire, last, c
<1>9. /\ c.pending = b.pending /\ c.queue = q /\ c.status = b.status
      /\ c.wire = wire /\ c.ended = last /\ c.regressed = b.regressed
      /\ c.gone = gone /\ c.dropped = b.dropped /\ c.unreported = owe
      /\ c.route = b.route /\ c.timer = b.timer /\ c.count = b.count + 1
      /\ c.waiting = b.waiting
  BY <1>0, <1>4 DEF Buffer
<1>10. c \in Buffer
  <2>1. b.active \cup {s} \in SUBSET Sessions
    BY <1>2
  <2> HIDE DEF s
  <2> QED
    BY <1>0, <1>1, <1>2, <1>4, <1>5, <1>6, <1>7, <1>8, <2>1 DEF Buffer
<1>11. InOrder(c)
  <2>1. ASSUME NEW e, Before(d, e), e.session \in Sessions, \A x \in Told(e) : b.wire[e.session] <= x
        PROVE  \A x \in Told(e) : wire[e.session] <= x
    BY <1>5, <2>1 DEF Before
  <2>2. \A i \in DOMAIN c.queue :
          /\ Sorted(c.queue[i])
          /\ \A x \in Told(c.queue[i]) : c.wire[c.queue[i].session] <= x
    <3> TAKE i \in DOMAIN c.queue
    <3>1. c.queue[i] = b.queue[i + 1] /\ i + 1 \in DOMAIN b.queue /\ 1 < i + 1
      BY <1>1, <1>9
    <3>2. Before(d, b.queue[i + 1]) /\ Sorted(b.queue[i + 1])
          /\ \A x \in Told(b.queue[i + 1]) : b.wire[b.queue[i + 1].session] <= x
      BY <1>0, <1>1, <3>1 DEF InOrder
    <3>3. b.queue[i + 1].session \in Sessions
      <4>1. b.queue[i + 1] \in Draft
        BY <1>1, <3>1
      <4> QED
        BY <4>1 DEF Draft
    <3> QED
      BY <1>9, <2>1, <3>1, <3>2, <3>3
  <2>3. ASSUME NEW i \in DOMAIN c.queue, NEW j \in DOMAIN c.queue, i < j
        PROVE  Before(c.queue[i], c.queue[j])
    <3>1. /\ c.queue[i] = b.queue[i + 1] /\ c.queue[j] = b.queue[j + 1] /\ i + 1 < j + 1
          /\ i + 1 \in DOMAIN b.queue /\ j + 1 \in DOMAIN b.queue
      BY <1>1, <1>9, <2>3
    <3> QED
      BY <1>0, <3>1 DEF InOrder
  <2>4. ASSUME NEW j \in DOMAIN c.pending PROVE Waits(c, c.pending[j])
    <3>1. Waits(b, b.pending[j]) /\ b.pending[j].session \in Sessions
      <4>1. b.pending[j] \in Draft
        BY <1>0, <1>9 DEF Buffer
      <4> QED
        BY <1>0, <1>9, <4>1 DEF InOrder, Draft
    <3>2. \A x \in Told(b.pending[j]) : wire[b.pending[j].session] <= x
      BY <1>1, <2>1, <3>1 DEF Waits
    <3>3. \A i \in DOMAIN c.queue : Before(c.queue[i], b.pending[j])
      BY <1>1, <1>9, <3>1 DEF Waits
    <3> QED
      BY <1>9, <3>1, <3>2, <3>3 DEF Waits
  <2>5. \A k \in Sessions : c.wire[k] \in c.gone[k] \cup {0}
    <3> TAKE k \in Sessions
    <3>1. b.wire[k] \in b.gone[k] \cup {0}
      BY <1>0 DEF InOrder
    <3> QED
      BY <1>5, <1>7, <1>9, <3>1
  <2> QED
    BY <2>2, <2>3, <2>4, <2>5 DEF InOrder
<1>12. PendingOK(c, number, open)
  BY <1>0, <1>9 DEF PendingOK
<1>13. StatusOK(c, number, tracked)
  <2>1. \A k \in Sessions : c.ended[k] <= number[k]
    BY <1>0, <1>1, <1>6, <1>9 DEF StatusOK
  <2>2. ASSUME NEW i \in DOMAIN c.queue
        PROVE  /\ c.queue[i].turn <= number[c.queue[i].session]
               /\ EndKnown(c, c.queue[i], number, tracked)
               /\ c.queue[i].status = "executing" => c.ended[c.queue[i].session] # c.queue[i].turn
    <3>1. c.queue[i] = b.queue[i + 1] /\ i + 1 \in DOMAIN b.queue /\ 1 < i + 1
      BY <1>1, <1>9
    <3>2. b.queue[i + 1].session \in Sessions
      <4>1. b.queue[i + 1] \in Draft
        BY <1>1, <3>1
      <4> QED
        BY <4>1 DEF Draft
    <3> DEFINE f == b.queue[i + 1]
    <3>3. f.turn <= number[f.session] /\ EndKnown(b, f, number, tracked)
          /\ (f.status = "executing" => b.ended[f.session] # f.turn)
      BY <1>0, <3>1 DEF StatusOK
    <3>4. Terminal(d.status) /\ f.status = "executing" /\ s = f.session => d.turn # f.turn
      BY <1>0, <1>1, <3>1 DEF StatusOK
    <3>5. f.status = "executing" => last[f.session] # f.turn
      BY <1>6, <3>2, <3>3, <3>4
    <3> QED
      BY <1>9, <3>1, <3>3, <3>5 DEF EndKnown
  <2>3. ASSUME NEW i \in DOMAIN c.queue, NEW j \in DOMAIN c.queue, i < j,
               Terminal(c.queue[i].status), c.queue[j].status = "executing",
               c.queue[i].session = c.queue[j].session
        PROVE  c.queue[i].turn # c.queue[j].turn
    <3>1. /\ c.queue[i] = b.queue[i + 1] /\ c.queue[j] = b.queue[j + 1] /\ i + 1 < j + 1
          /\ i + 1 \in DOMAIN b.queue /\ j + 1 \in DOMAIN b.queue
      BY <1>1, <1>9, <2>3
    <3> QED
      BY <1>0, <2>3, <3>1 DEF StatusOK
  <2>4. \A k \in tracked : c.ended[k] = number[k] => Terminal(c.status[k])
    <3> TAKE k \in tracked
    <3>1. b.ended[k] = number[k] => Terminal(b.status[k])
      BY <1>0 DEF StatusOK
    <3>2. EndKnown(b, d, number, tracked)
      BY <1>0, <1>1 DEF StatusOK
    <3>3. k = s /\ Terminal(d.status) /\ d.turn = number[k] => Terminal(b.status[k])
      BY <3>2 DEF EndKnown
    <3>4. last[k] = b.ended[k] \/ (k = s /\ Terminal(d.status) /\ last[k] = d.turn)
      BY <1>6
    <3> HIDE DEF s, d
    <3> QED
      BY <1>9, <3>1, <3>3, <3>4
  <2> QED
    BY <1>2, <1>9, <2>1, <2>2, <2>3, <2>4 DEF StatusOK
<1>14. ReportOK(c, number)
  <2>1. \A i \in DOMAIN c.queue : c.queue[i].kind # "overflow"
    BY <1>0, <1>1, <1>9 DEF ReportOK
  <2>2. Reported(c) = 0
    <3>1. c.queue # <<>> => 1 \in DOMAIN c.queue
      BY <1>1, <1>9
    <3> QED
      BY <2>1, <3>1 DEF Reported
  <2>3. c.unreported = c.dropped + Reported(c)
    BY <1>2, <1>8, <1>9, <2>2
  <2> QED
    BY <1>0, <1>9, <2>1, <2>3 DEF ReportOK
<1>15. ASSUME NEW k \in Sessions, NEW x PROVE Carries(c, k, x) <=> Carries(b, k, x)
  <2>1. x \in gone[k] <=> x \in b.gone[k] \/ x \in ToldOf(k, d)
    BY <1>7 DEF ToldOf
  <2>2. (\E i \in DOMAIN b.queue : x \in ToldOf(k, b.queue[i]))
          <=> x \in ToldOf(k, d) \/ \E i \in DOMAIN c.queue : x \in ToldOf(k, c.queue[i])
    BY <1>1, <1>9
  <2> QED
    BY <1>9, <2>1, <2>2 DEF Carries
<1>16. Clears(b, c)
  <2>1. \A i \in DOMAIN c.queue : \E j \in DOMAIN b.queue : c.queue[i] = b.queue[j]
    BY <1>1, <1>9
  <2> QED
    BY <1>9, <2>1 DEF Clears, QueueClear
<1>17. /\ Good(c, number, open, tracked)
       /\ \A k \in Sessions : \A x : Carries(c, k, x) <=> Carries(b, k, x)
  BY <1>10, <1>11, <1>12, <1>13, <1>14, <1>15 DEF Good
<1>18. SentFrom(b, c)
  BY <1>9, <1>16 DEF SentFrom
<1> QED
  BY <1>1, <1>9, <1>17, <1>18 DEF c

\* Frames go to the relay one after another.
LEMMA EmitEach ==
  ASSUME NEW b, NEW n \in Nat
  PROVE  \E f : f = [i \in 0..n |-> IF i = 0 THEN b ELSE EmitNext(f[i - 1])]
<1> DEFINE S == {m \in Nat : \E f : f = [i \in 0..m |-> IF i = 0 THEN b ELSE EmitNext(f[i - 1])]}
<1>1. 0 \in S
  <2> DEFINE f == [i \in 0..0 |-> b]
  <2>1. f = [i \in 0..0 |-> IF i = 0 THEN b ELSE EmitNext(f[i - 1])]
    OBVIOUS
  <2> QED
    BY <2>1
<1>2. ASSUME NEW m \in Nat, m \in S PROVE m + 1 \in S
  <2>1. PICK f : f = [i \in 0..m |-> IF i = 0 THEN b ELSE EmitNext(f[i - 1])]
    BY <1>2
  <2> DEFINE g == [i \in 0..(m + 1) |-> IF i <= m THEN f[i] ELSE EmitNext(f[m])]
  <2>2. ASSUME NEW i \in 0..(m + 1) PROVE g[i] = IF i = 0 THEN b ELSE EmitNext(g[i - 1])
    BY <2>1
  <2>3. g = [i \in 0..(m + 1) |-> IF i = 0 THEN b ELSE EmitNext(g[i - 1])]
    BY <2>2
  <2> HIDE DEF g
  <2> QED
    BY <2>3
<1>3. \A m \in Nat : m \in S
  <2> HIDE DEF S
  <2> QED
    BY <1>1, <1>2, SetInduction
<1> QED
  BY <1>3

\* A window lets frames out up to the rate, in their order.
LEMMA Emitted ==
  ASSUME NEW number \in [Sessions -> Nat], NEW open, NEW tracked \in SUBSET Sessions, NEW b,
         Good(b, number, open, tracked)
  PROVE  /\ Good(Emit(b), number, open, tracked)
         /\ SentFrom(b, Emit(b))
         /\ \A s \in Sessions : \A x : Carries(Emit(b), s, x) <=> Carries(b, s, x)
<1> DEFINE n == Least(Len(b.queue), Rate - b.count)
           Steps(f) == f = [i \in 0..n |-> IF i = 0 THEN b ELSE EmitNext(f[i - 1])]
           Kept(c, i) == /\ Good(c, number, open, tracked) /\ SentFrom(b, c)
                         /\ Len(c.queue) = Len(b.queue) - i /\ c.count = b.count + i
                         /\ \A s \in Sessions : \A x : Carries(c, s, x) <=> Carries(b, s, x)
<1>1. /\ b.queue \in Seq(Draft) /\ Len(b.queue) \in Nat /\ b.count \in Nat
      /\ n \in Nat /\ n <= Len(b.queue) /\ n <= Rate - b.count
  <2>1. b.queue \in Seq(Draft) /\ b.count \in 0..Rate
    BY DEF Good, Buffer
  <2> QED
    BY <2>1, BufferAssumption DEF Least
<1> HIDE DEF n
<1>2. PICK f : Steps(f) /\ Emit(b) = f[n]
  <2>1. \E f : Steps(f)
    <3>1. n \in Nat
      BY <1>1
    <3> QED
      BY <3>1, EmitEach
  <2> QED
    BY <2>1 DEF Emit, n
<1> DEFINE S == {i \in Nat : i <= n => Kept(f[i], i)}
<1>3. 0 \in S
  <2>1. f[0] = b
    BY <1>1, <1>2
  <2>2. Kept(b, 0)
    BY <1>1 DEF SentFrom, Clears
  <2> QED
    BY <2>1, <2>2
<1>4. ASSUME NEW i \in Nat, i \in S PROVE i + 1 \in S
  <2> SUFFICES ASSUME i + 1 <= n PROVE Kept(f[i + 1], i + 1)
    OBVIOUS
  <2>1. f[i + 1] = EmitNext(f[i]) /\ i <= n
    BY <1>1, <1>2
  <2>2. PICK c : c = f[i]
    OBVIOUS
  <2>3. Kept(c, i)
    BY <1>4, <2>1, <2>2
  <2>4. c.queue # <<>> /\ c.count < Rate
    <3>1. Len(c.queue) > 0 /\ c.count < Rate
      BY <1>1, <2>3, BufferAssumption
    <3> QED
      BY <3>1
  <2>5. /\ Good(EmitNext(c), number, open, tracked) /\ SentFrom(c, EmitNext(c))
        /\ Len(EmitNext(c).queue) = Len(c.queue) - 1 /\ EmitNext(c).count = c.count + 1
        /\ \A s \in Sessions : \A x : Carries(EmitNext(c), s, x) <=> Carries(c, s, x)
    BY <2>3, <2>4, HeadSent
  <2>6. PICK e : e = EmitNext(c)
    OBVIOUS
  <2>7. Len(e.queue) = Len(b.queue) - (i + 1) /\ e.count = b.count + (i + 1)
    <3>1. Len(c.queue) = Len(b.queue) - i /\ c.count = b.count + i
      BY <2>3
    <3>2. Len(e.queue) = Len(c.queue) - 1 /\ e.count = c.count + 1
      BY <2>5, <2>6
    <3> QED
      BY <1>1, <3>1, <3>2
  <2>8. SentFrom(b, e)
    BY <2>3, <2>5, <2>6 DEF SentFrom, Clears
  <2>9. Kept(e, i + 1)
    BY <2>3, <2>5, <2>6, <2>7, <2>8
  <2> QED
    BY <2>1, <2>2, <2>6, <2>9
<1>5. \A i \in Nat : i \in S
  <2> HIDE DEF S
  <2> QED
    BY <1>3, <1>4, SetInduction
<1>6. Kept(f[n], n)
  BY <1>1, <1>5
<1> QED
  BY <1>2, <1>6

\* The report of what was shed takes over its count.
LEMMA OverflowReported ==
  ASSUME NEW number \in [Sessions -> Nat], NEW open, NEW tracked \in SUBSET Sessions, NEW b,
         Good(b, number, open, tracked), b.queue = <<>>, b.dropped > 0
  PROVE  /\ Good(ReportOverflow(b), number, open, tracked)
         /\ ReportOverflow(b).pending = b.pending /\ ReportOverflow(b).status = b.status
         /\ ReportOverflow(b).dropped = 0 /\ ReportOverflow(b).timer = b.timer
         /\ \A s \in Sessions : \A x : Carries(ReportOverflow(b), s, x) <=> Carries(b, s, x)
         /\ Clears(b, ReportOverflow(b))
<1> DEFINE c == ReportOverflow(b)
           report == [b.route EXCEPT !.body = <<b.dropped>>]
<1>1. /\ b \in Buffer /\ b.dropped \in Nat /\ b.route \in Draft /\ b.unreported = b.dropped
      /\ b.route.kind = "overflow" /\ b.route.status = "none"
      /\ b.route.turn <= number[b.route.session]
  <2>1. b \in Buffer /\ ReportOK(b, number)
    BY DEF Good
  <2>2. b.dropped \in Nat /\ b.unreported \in Int
    BY <2>1 DEF Buffer
  <2>3. Reported(b) = 0
    BY DEF Reported
  <2> QED
    BY <2>1, <2>2, <2>3 DEF ReportOK
<1>2. /\ report \in Draft /\ report.kind = "overflow" /\ report.status = "none"
      /\ report.turn = b.route.turn /\ report.session = b.route.session
      /\ report.body = <<b.dropped>>
  <2>1. <<b.dropped>> \in Seq(Nat)
    BY <1>1
  <2> QED
    BY <1>1, <2>1 DEF Draft
<1>3. c = [b EXCEPT !.dropped = 0, !.route = <<>>, !.queue = <<report>>]
  BY <1>1 DEF ReportOverflow, Buffer
<1> HIDE DEF c, report
<1>4. /\ c.pending = b.pending /\ c.queue = <<report>> /\ c.status = b.status /\ c.wire = b.wire
      /\ c.ended = b.ended /\ c.regressed = b.regressed /\ c.gone = b.gone /\ c.dropped = 0
      /\ c.unreported = b.unreported /\ c.timer = b.timer /\ c.waiting = b.waiting
  BY <1>1, <1>3 DEF Buffer
<1>5. c \in Buffer
  <2>1. <<report>> \in Seq(Draft)
    BY <1>2
  <2> QED
    BY <1>1, <1>3, <2>1 DEF Buffer
<1>6. /\ DOMAIN c.queue = {1} /\ c.queue[1] = report /\ c.queue # <<>> /\ Told(report) = {}
      /\ Sorted(report) /\ DOMAIN report.body = {1} /\ report.body[1] = b.dropped
      /\ ~ Terminal(report.status) /\ report.status # "executing"
  BY <1>1, <1>2, <1>4 DEF Told, Sorted, Terminal
<1>7. InOrder(c)
  <2>1. InOrder(b)
    BY DEF Good
  <2>2. \A e : Before(report, e)
    BY <1>6 DEF Before
  <2>3. \A e : Waits(b, e) => Waits(c, e)
    BY <1>4, <1>6, <2>2 DEF Waits
  <2> QED
    BY <1>4, <1>6, <2>1, <2>2, <2>3 DEF InOrder
<1>8. PendingOK(c, number, open)
  BY <1>4 DEF Good, PendingOK
<1>9. StatusOK(c, number, tracked)
  <2>1. StatusOK(b, number, tracked)
    BY DEF Good
  <2> QED
    BY <1>1, <1>2, <1>4, <1>6, <2>1 DEF StatusOK, EndKnown
<1>10. ReportOK(c, number)
  BY <1>1, <1>2, <1>4, <1>6 DEF ReportOK, Reported
<1>11. \A s \in Sessions : \A x : Carries(c, s, x) <=> Carries(b, s, x)
  BY <1>4, <1>6 DEF Carries, ToldOf
<1>12. Clears(b, c)
  BY <1>4, <1>6 DEF Clears, QueueClear, Recent
<1> QED
  BY <1>4, <1>5, <1>7, <1>8, <1>9, <1>10, <1>11, <1>12 DEF Good, c

\* A pump leaves a queue that is drained, with what it shed reported, or has a timer.
LEMMA PumpDone ==
  ASSUME NEW number \in [Sessions -> Nat], NEW open, NEW tracked \in SUBSET Sessions, NEW b,
         Good(b, number, open, tracked)
  PROVE  /\ Good(Pump(b), number, open, tracked) /\ Pumped(Pump(b))
         /\ Pump(b).pending = b.pending /\ Pump(b).status = b.status
         /\ \A s \in Sessions : \A x : Carries(Pump(b), s, x) <=> Carries(b, s, x)
         /\ Clears(b, Pump(b))
<1> DEFINE Kept(c) == /\ Good(c, number, open, tracked)
                      /\ c.pending = b.pending /\ c.status = b.status
                      /\ \A s \in Sessions : \A x : Carries(c, s, x) <=> Carries(b, s, x)
                      /\ Clears(b, c)
           window == IF b.elapsed THEN [b EXCEPT !.elapsed = FALSE, !.count = 0] ELSE b
           emitted == Emit(window)
           done == IF emitted.queue = <<>> /\ emitted.dropped > 0
                   THEN Emit(ReportOverflow(emitted)) ELSE emitted
<1>1. Kept(window)
  <2>1. b \in Buffer
    BY DEF Good
  <2>2. window \in Buffer /\ SameFrames(b, window) /\ window.waiting = b.waiting
    <3>1. 0 \in 0..Rate
      BY BufferAssumption
    <3> QED
      BY <2>1, <3>1 DEF Buffer, SameFrames
  <2> HIDE DEF window
  <2>3. Clears(b, window)
    BY <2>2 DEF SameFrames, Clears, QueueClear
  <2> QED
    BY <2>2, <2>3, FramesSame DEF SameFrames
<1> HIDE DEF window
<1> DEFINE Goes(a, c) == /\ Good(c, number, open, tracked)
                         /\ c.pending = a.pending /\ c.status = a.status
                         /\ \A s \in Sessions : \A x : Carries(c, s, x) <=> Carries(a, s, x)
                         /\ Clears(a, c)
<1>a. ASSUME NEW a, Kept(a), NEW c, Goes(a, c) PROVE Kept(c)
  <2>1. Clears(b, c)
    BY <1>a DEF Clears
  <2> QED
    BY <1>a, <2>1
<1>b. ASSUME NEW a, Good(a, number, open, tracked)
      PROVE  Goes(a, Emit(a)) /\ Emit(a).dropped = a.dropped
  <2>1. /\ Good(Emit(a), number, open, tracked) /\ SentFrom(a, Emit(a))
        /\ \A s \in Sessions : \A x : Carries(Emit(a), s, x) <=> Carries(a, s, x)
    BY <1>b, Emitted
  <2> QED
    BY <2>1 DEF SentFrom
<1>2. Kept(emitted)
  <2>1. Goes(window, emitted)
    BY <1>1, <1>b
  <2> QED
    BY <1>1, <1>a, <2>1
<1> HIDE DEF emitted
<1>3. Kept(done) /\ (done.queue = <<>> => done.dropped = 0)
  <2>1. CASE emitted.queue = <<>> /\ emitted.dropped > 0
    <3>1. PICK r : r = ReportOverflow(emitted)
      OBVIOUS
    <3>2. Kept(r) /\ r.dropped = 0
      <4>1. Goes(emitted, r) /\ r.dropped = 0
        BY <1>2, <2>1, <3>1, OverflowReported
      <4> QED
        BY <1>2, <1>a, <4>1
    <3>3. Kept(Emit(r)) /\ Emit(r).dropped = 0
      <4>1. Goes(r, Emit(r)) /\ Emit(r).dropped = r.dropped
        BY <3>2, <1>b
      <4> QED
        BY <3>2, <1>a, <4>1
    <3> QED
      BY <2>1, <3>1, <3>3
  <2>2. CASE ~(emitted.queue = <<>> /\ emitted.dropped > 0)
    <3>1. emitted.dropped \in Nat
      BY <1>2 DEF Good, Buffer
    <3> QED
      BY <1>2, <2>2, <3>1
  <2> QED
    BY <2>1, <2>2
<1>4. Pump(b) = IF done.queue # <<>> THEN SchedulePump(done) ELSE [done EXCEPT !.waiting = FALSE]
  BY DEF Pump, window, emitted
<1> HIDE DEF done
<1>5. done \in Buffer
  BY <1>3 DEF Good
<1>6. CASE done.queue # <<>>
  <2>1. PICK c : c = SchedulePump(done)
    OBVIOUS
  <2>2. c \in Buffer /\ SameFrames(done, c) /\ c.timer # "off" /\ c.waiting = done.waiting
    BY <1>5, <2>1 DEF SchedulePump, Buffer, SameFrames, Timers
  <2>a. Clears(b, c)
    BY <1>3, <2>2 DEF SameFrames, Clears, QueueClear
  <2>3. Kept(c) /\ c.queue # <<>>
    BY <1>3, <1>6, <2>2, <2>a, FramesSame DEF SameFrames
  <2>4. Pump(b) = c
    BY <1>4, <1>6, <2>1
  <2> QED
    BY <2>2, <2>3, <2>4 DEF Pumped
<1>7. CASE done.queue = <<>>
  <2>1. PICK c : c = [done EXCEPT !.waiting = FALSE]
    OBVIOUS
  <2>2. c \in Buffer /\ SameFrames(done, c) /\ ~ c.waiting
    BY <1>5, <2>1 DEF Buffer, SameFrames
  <2>a. Clears(b, c)
    BY <1>3, <1>7, <2>2 DEF SameFrames, Clears, QueueClear
  <2>3. Kept(c) /\ c.queue = <<>> /\ c.dropped = 0
    BY <1>3, <1>7, <2>2, <2>a, FramesSame DEF SameFrames
  <2>4. Pump(b) = c
    BY <1>4, <1>7, <2>1
  <2> QED
    BY <2>3, <2>4 DEF Pumped
<1> QED
  BY <1>6, <1>7

-----------------------------------------------------------------------------
(* The observer stream: frames enqueued, text released *)

\* The parts of a frame are accepted one after another.
LEMMA AcceptEach ==
  ASSUME NEW b, NEW q, Len(q) \in Nat
  PROVE  \E f : /\ f = [i \in 0..Len(q) |-> IF i = 0 THEN b ELSE Accept(f[i - 1], q[i])]
                /\ Each(Accept, b, q) = f[Len(q)]
<1> DEFINE S == {m \in Nat :
                   \E f : f = [i \in 0..m |-> IF i = 0 THEN b ELSE Accept(f[i - 1], q[i])]}
<1>1. 0 \in S
  <2> DEFINE f == [i \in 0..0 |-> b]
  <2>1. f = [i \in 0..0 |-> IF i = 0 THEN b ELSE Accept(f[i - 1], q[i])]
    OBVIOUS
  <2> QED
    BY <2>1
<1>2. ASSUME NEW m \in Nat, m \in S PROVE m + 1 \in S
  <2>1. PICK f : f = [i \in 0..m |-> IF i = 0 THEN b ELSE Accept(f[i - 1], q[i])]
    BY <1>2
  <2> DEFINE g == [i \in 0..(m + 1) |-> IF i <= m THEN f[i] ELSE Accept(f[m], q[m + 1])]
  <2>2. ASSUME NEW i \in 0..(m + 1) PROVE g[i] = IF i = 0 THEN b ELSE Accept(g[i - 1], q[i])
    BY <2>1
  <2>3. g = [i \in 0..(m + 1) |-> IF i = 0 THEN b ELSE Accept(g[i - 1], q[i])]
    BY <2>2
  <2> HIDE DEF g
  <2> QED
    BY <2>3
<1>3. \A m \in Nat : m \in S
  <2> HIDE DEF S
  <2> QED
    BY <1>1, <1>2, SetInduction
<1>4. \E f : f = [i \in 0..Len(q) |-> IF i = 0 THEN b ELSE Accept(f[i - 1], q[i])]
  BY <1>3
<1> QED
  BY <1>4 DEF Each

\* c carries what b does and what d tells.
CarriesAlso(b, c, d) ==
  \A s \in Sessions : \A x : Carries(c, s, x) <=> Carries(b, s, x) \/ x \in ToldOf(s, d)

\* A frame enqueued is carried, its parts in their order, sent or waiting.
LEMMA Enqueued ==
  ASSUME NEW number \in [Sessions -> Nat], NEW open, NEW tracked \in SUBSET Sessions, NEW b, NEW d,
         Good(b, number, open, tracked), Joins(b, d, number, tracked)
  PROVE  /\ Good(Enqueue(b, d), number, open, tracked) /\ Pumped(Enqueue(b, d))
         /\ Enqueue(b, d).pending = b.pending /\ Enqueue(b, d).status = b.status
         /\ CarriesAlso(b, Enqueue(b, d), d) /\ ClearsAlso(b, Enqueue(b, d), d)
<1> DEFINE parts == SplitFramePayload(d)
           n == Len(parts)
           Kept(c, i) ==
             /\ Good(c, number, open, tracked)
             /\ c.pending = b.pending /\ c.status = b.status
             /\ \A k \in DOMAIN parts : k > i => Joins(c, parts[k], number, tracked)
             /\ \A s \in Sessions : \A x :
                  Carries(c, s, x)
                    <=> Carries(b, s, x) \/ \E k \in DOMAIN parts : k <= i /\ x \in ToldOf(s, parts[k])
             /\ ClearsAlso(b, c, d)
<1>1. SplitOf(d, parts)
  BY FrameSplit DEF Joins, Waits
<1> HIDE DEF parts
<1>2. parts \in Seq(Draft) /\ n \in Nat /\ DOMAIN parts = 1..n
  BY <1>1 DEF SplitOf
<1>3. PICK f : /\ f = [i \in 0..n |-> IF i = 0 THEN b ELSE Accept(f[i - 1], parts[i])]
               /\ Each(Accept, b, parts) = f[n]
  BY <1>2, AcceptEach
<1>4. \A p, q \in DOMAIN parts : p < q => Follows(parts[p], parts[q])
  <2> TAKE p \in DOMAIN parts, q \in DOMAIN parts
  <2>1. p < q => Before(parts[p], parts[q])
    BY <1>1 DEF SplitOf
  <2>2. parts[p].status \in {d.status, "none"} /\ parts[q].status \in {d.status, "none"}
    BY <1>1 DEF SplitOf
  <2> QED
    BY <2>1, <2>2 DEF Follows, Terminal
<1>5. ASSUME NEW k \in DOMAIN parts PROVE Joins(b, parts[k], number, tracked)
  <2>1. /\ parts[k] \in Draft /\ parts[k].session = d.session /\ parts[k].turn = d.turn
        /\ parts[k].kind # "overflow" /\ parts[k].status \in {d.status, "none"}
        /\ Sorted(parts[k]) /\ Told(parts[k]) \subseteq Told(d)
    BY <1>1, <1>2 DEF SplitOf
  <2>2. Waits(b, parts[k])
    BY <2>1 DEF Joins, Waits, Before
  <2>3. StatusFits(b, parts[k]) /\ EndKnown(b, parts[k], number, tracked)
    BY <2>1 DEF Joins, StatusFits, EndKnown, Terminal
  <2> QED
    BY <2>1, <2>2, <2>3 DEF Joins
<1> DEFINE S == {i \in Nat : i <= n => Kept(f[i], i)}
<1>6. 0 \in S
  <2>1. f[0] = b
    BY <1>2, <1>3
  <2>2. Kept(b, 0)
    BY <1>2, <1>5 DEF ClearsAlso
  <2> QED
    BY <2>1, <2>2
<1>7. ASSUME NEW i \in Nat, i \in S PROVE i + 1 \in S
  <2> SUFFICES ASSUME i + 1 <= n PROVE Kept(f[i + 1], i + 1)
    <3> HIDE DEF Kept
    <3> QED
      OBVIOUS
  <2>1. f[i + 1] = Accept(f[i], parts[i + 1]) /\ i <= n /\ i + 1 \in DOMAIN parts
    BY <1>2, <1>3
  <2>2. PICK c, p : c = f[i] /\ p = parts[i + 1]
    OBVIOUS
  <2>3. Kept(c, i)
    BY <1>7, <2>1, <2>2
  <2>4. Joins(c, p, number, tracked)
    BY <2>1, <2>2, <2>3
  <2>5. PICK e : e = Accept(c, p)
    OBVIOUS
  <2>6. /\ Good(e, number, open, tracked) /\ e.pending = c.pending /\ e.status = c.status
        /\ \A s \in Sessions : \A x : Carries(e, s, x) <=> Carries(c, s, x) \/ x \in ToldOf(s, p)
        /\ \A g : Joins(c, g, number, tracked) /\ Follows(p, g) => Joins(e, g, number, tracked)
        /\ ClearsAlso(c, e, p)
    <3>1. Good(c, number, open, tracked)
      BY <2>3
    <3> HIDE DEF Kept
    <3>2. /\ Good(Accept(c, p), number, open, tracked)
          /\ Accept(c, p).pending = c.pending /\ Accept(c, p).status = c.status
          /\ \A s \in Sessions : \A x :
              Carries(Accept(c, p), s, x) <=> Carries(c, s, x) \/ x \in ToldOf(s, p)
          /\ \A g : Joins(c, g, number, tracked) /\ Follows(p, g)
                     => Joins(Accept(c, p), g, number, tracked)
          /\ ClearsAlso(c, Accept(c, p), p)
      BY <2>4, <3>1, Accepted
    <3> QED
      BY <2>5, <3>2
  <2>7. \A k \in DOMAIN parts : k > i + 1 => Joins(e, parts[k], number, tracked)
    <3> TAKE k \in DOMAIN parts
    <3> HAVE k > i + 1
    <3>1. Joins(c, parts[k], number, tracked)
      BY <1>2, <2>3
    <3>2. Follows(p, parts[k])
      BY <1>2, <1>4, <2>1, <2>2
    <3> QED
      BY <2>6, <3>1, <3>2
  <2>8. \A s \in Sessions : \A x :
          Carries(e, s, x)
            <=> Carries(b, s, x) \/ \E k \in DOMAIN parts : k <= i + 1 /\ x \in ToldOf(s, parts[k])
    <3> TAKE s \in Sessions
    <3> TAKE x
    <3>1. (\E k \in DOMAIN parts : k <= i + 1 /\ x \in ToldOf(s, parts[k]))
            <=> (\E k \in DOMAIN parts : k <= i /\ x \in ToldOf(s, parts[k])) \/ x \in ToldOf(s, p)
      BY <1>2, <2>1, <2>2
    <3>2. Carries(e, s, x) <=> Carries(c, s, x) \/ x \in ToldOf(s, p)
      BY <2>6
    <3>3. Carries(c, s, x)
            <=> Carries(b, s, x) \/ \E k \in DOMAIN parts : k <= i /\ x \in ToldOf(s, parts[k])
      BY <2>3
    <3> QED
      BY <3>1, <3>2, <3>3
  <2>a. ClearsAlso(b, e, d)
    <3>1. \A old : Recent(d, old) => Recent(p, old)
      BY <1>1, <2>1, <2>2 DEF SplitOf, Recent
    <3> QED
      BY <2>3, <2>6, <3>1 DEF ClearsAlso
  <2>9. Kept(e, i + 1)
    BY <2>3, <2>6, <2>7, <2>8, <2>a
  <2> QED
    BY <2>1, <2>2, <2>5, <2>9
<1>8. \A i \in Nat : i \in S
  <2> HIDE DEF S
  <2> QED
    BY <1>6, <1>7, SetInduction
<1>9. Kept(f[n], n)
  BY <1>2, <1>8
<1>10. \A s \in Sessions : \A x :
         x \in ToldOf(s, d) <=> \E k \in DOMAIN parts : k <= n /\ x \in ToldOf(s, parts[k])
  <2> TAKE s \in Sessions
  <2> TAKE x
  <2>1. x \in Told(d) <=> \E k \in DOMAIN parts : x \in Told(parts[k])
    BY <1>1 DEF SplitOf
  <2>2. \A k \in DOMAIN parts : k <= n /\ parts[k].session = d.session
    BY <1>1, <1>2 DEF SplitOf
  <2> QED
    BY <2>1, <2>2 DEF ToldOf
<1>11. PICK g : g = f[n]
  OBVIOUS
<1>12. Enqueue(b, d) = Pump(g)
  BY <1>3, <1>11 DEF Enqueue, parts
<1>13. Good(g, number, open, tracked) /\ g.pending = b.pending /\ g.status = b.status
       /\ CarriesAlso(b, g, d) /\ ClearsAlso(b, g, d)
  BY <1>9, <1>10, <1>11 DEF CarriesAlso
<1>14. /\ Good(Pump(g), number, open, tracked) /\ Pumped(Pump(g))
       /\ Pump(g).pending = g.pending /\ Pump(g).status = g.status
       /\ \A s \in Sessions : \A x : Carries(Pump(g), s, x) <=> Carries(g, s, x)
       /\ Clears(g, Pump(g))
  BY <1>13, PumpDone
<1>15. ClearsAlso(b, Pump(g), d)
  BY <1>13, <1>14 DEF Clears, ClearsAlso
<1> QED
  BY <1>12, <1>13, <1>14, <1>15 DEF CarriesAlso

\* Two sequences joined: where the elements are.
LEMMA Concatenated ==
  ASSUME NEW S, NEW p \in Seq(S), NEW q \in Seq(S)
  PROVE  /\ p \o q \in Seq(S) /\ Len(p \o q) = Len(p) + Len(q)
         /\ \A i \in 1..Len(p \o q) : (p \o q)[i] = IF i <= Len(p) THEN p[i] ELSE q[i - Len(p)]
OBVIOUS

\* An element removed: where the others are.
LEMMA OneRemoved ==
  ASSUME NEW S, NEW q \in Seq(S), NEW i \in DOMAIN q
  PROVE  LET r == RemoveAt(q, i) IN
         /\ r \in Seq(S)
         /\ \A k \in DOMAIN r : \E l \in DOMAIN q : /\ r[k] = q[l] /\ l # i
                                                     /\ l = IF k < i THEN k ELSE k + 1
         /\ \A l \in DOMAIN q : l # i => \E k \in DOMAIN r : r[k] = q[l]
<1> DEFINE low == SubSeq(q, 1, i - 1)
           high == SubSeq(q, i + 1, Len(q))
           r == RemoveAt(q, i)
<1>1. i \in 1..Len(q) /\ Len(q) \in Nat /\ DOMAIN q = 1..Len(q)
  OBVIOUS
<1>2. low \in Seq(S) /\ Len(low) = i - 1 /\ \A k \in 1..(i - 1) : low[k] = q[k]
  BY <1>1
<1>3. high \in Seq(S) /\ Len(high) = Len(q) - i /\ \A k \in 1..(Len(q) - i) : high[k] = q[i + k]
  BY <1>1
<1>4. r = low \o high
  BY DEF RemoveAt
<1> HIDE DEF low, high, r
<1>5. /\ r \in Seq(S) /\ DOMAIN r = 1..(Len(q) - 1)
      /\ \A k \in 1..(Len(q) - 1) : r[k] = IF k < i THEN low[k] ELSE high[k - (i - 1)]
  <2>1. r \in Seq(S) /\ Len(r) = Len(q) - 1 /\ DOMAIN r = 1..Len(r)
    <3>1. low \o high \in Seq(S) /\ Len(low \o high) = Len(low) + Len(high)
      BY <1>2, <1>3, Concatenated
    <3>2. DOMAIN (low \o high) = 1..Len(low \o high)
      BY <3>1
    <3> QED
      BY <1>1, <1>2, <1>3, <1>4, <3>1, <3>2
  <2>2. \A k \in 1..Len(r) : r[k] = IF k <= Len(low) THEN low[k] ELSE high[k - Len(low)]
    BY <1>1, <1>2, <1>3, <1>4
  <2> QED
    BY <1>1, <1>2, <2>1, <2>2
<1>6. \A k \in 1..(Len(q) - 1) : r[k] = IF k < i THEN q[k] ELSE q[k + 1]
  <2> TAKE k \in 1..(Len(q) - 1)
  <2>1. CASE k < i
    BY <1>1, <1>2, <1>5, <2>1
  <2>2. CASE ~(k < i)
    <3>1. k - (i - 1) \in 1..(Len(q) - i) /\ i + (k - (i - 1)) = k + 1
      BY <1>1, <2>2
    <3>2. high[k - (i - 1)] = q[i + (k - (i - 1))]
      BY <1>3, <3>1
    <3> QED
      BY <1>5, <2>2, <3>1, <3>2
  <2> QED
    BY <2>1, <2>2
<1>7. ASSUME NEW k \in DOMAIN r
      PROVE  \E l \in DOMAIN q : r[k] = q[l] /\ l # i /\ l = IF k < i THEN k ELSE k + 1
  <2>1. CASE k < i
    BY <1>1, <1>5, <1>6, <2>1
  <2>2. CASE ~(k < i)
    BY <1>1, <1>5, <1>6, <2>2
  <2> QED
    BY <2>1, <2>2
<1>8. ASSUME NEW l \in DOMAIN q, l # i PROVE \E k \in DOMAIN r : r[k] = q[l]
  <2>1. CASE l < i
    BY <1>1, <1>5, <1>6, <2>1
  <2>2. CASE l > i
    <3>1. l - 1 \in DOMAIN r /\ ~(l - 1 < i) /\ l - 1 + 1 = l
      BY <1>1, <1>5, <2>2
    <3> QED
      BY <1>5, <1>6, <3>1
  <2> QED
    BY <1>1, <1>8, <2>1, <2>2
<1> QED
  BY <1>5, <1>7, <1>8 DEF r

\* c is b with only frames that wait moved on: those of S no longer wait.
Released(b, c, S) ==
  /\ c.status = b.status
  /\ \A e : e \in ToSet(c.pending) <=> e \in ToSet(b.pending) /\ e \notin S
  /\ \A s \in Sessions : \A x : Carries(c, s, x) <=> Carries(b, s, x)
  /\ KeepsClear(b, c)

\* Fit to go on.
Sound(b, number, open, tracked) == Good(b, number, open, tracked) /\ Pumped(b)

\* Text released goes behind what is queued.
LEMMA ChunkReleased ==
  ASSUME NEW number \in [Sessions -> Nat], NEW open, NEW tracked \in SUBSET Sessions, NEW b, NEW d,
         Sound(b, number, open, tracked)
  PROVE  /\ Sound(ReleaseChunk(b, d), number, open, tracked)
         /\ Released(b, ReleaseChunk(b, d), {d})
<1>1. CASE d \notin ToSet(b.pending)
  <2>1. ReleaseChunk(b, d) = b
    BY <1>1 DEF ReleaseChunk
  <2> QED
    BY <1>1, <2>1 DEF Released, KeepsClear
<1>2. CASE d \in ToSet(b.pending)
  <2>0. /\ b \in Buffer /\ InOrder(b) /\ PendingOK(b, number, open) /\ StatusOK(b, number, tracked)
        /\ ReportOK(b, number)
    BY DEF Sound, Good
  <2> DEFINE i == CHOOSE k \in DOMAIN b.pending : b.pending[k] = d
             r == RemoveAt(b.pending, i)
             a == [b EXCEPT !.pending = r]
  <2>1. i \in DOMAIN b.pending /\ b.pending[i] = d
    BY <1>2 DEF ToSet
  <2>2. ReleaseChunk(b, d) = Enqueue(a, d)
    BY <1>2, <2>0 DEF ReleaseChunk
  <2> HIDE DEF i
  <2>3. b.pending \in Seq(Draft) /\ d \in Draft /\ d.session \in Sessions
    <3>1. b.pending \in Seq(Draft)
      BY <2>0 DEF Buffer
    <3>2. d \in Draft
      BY <2>1, <3>1
    <3> QED
      BY <3>1, <3>2 DEF Draft
  <2>4. /\ r \in Seq(Draft)
        /\ \A k \in DOMAIN r : \E l \in DOMAIN b.pending : /\ r[k] = b.pending[l] /\ l # i
                                                     /\ l = IF k < i THEN k ELSE k + 1
        /\ \A l \in DOMAIN b.pending : l # i => \E k \in DOMAIN r : r[k] = b.pending[l]
    <3>1. PICK q : q = b.pending
      OBVIOUS
    <3>2. q \in Seq(Draft) /\ i \in DOMAIN q /\ r = RemoveAt(q, i)
      BY <2>1, <2>3, <3>1
    <3> HIDE DEF r
    <3>3. /\ r \in Seq(Draft)
          /\ \A k \in DOMAIN r : \E l \in DOMAIN q : /\ r[k] = q[l] /\ l # i
                                                   /\ l = IF k < i THEN k ELSE k + 1
          /\ \A l \in DOMAIN q : l # i => \E k \in DOMAIN r : r[k] = q[l]
      BY <3>2, OneRemoved
    <3> QED
      BY <3>1, <3>3
  <2>5. i \in Nat /\ DOMAIN r \subseteq Nat /\ DOMAIN b.pending \subseteq Nat
    BY <2>1, <2>3, <2>4
  <2> HIDE DEF r, a
  <2>6. /\ a.pending = r /\ a.queue = b.queue /\ a.status = b.status
        /\ a.dropped = b.dropped /\ a.route = b.route /\ a.wire = b.wire /\ a.gone = b.gone
        /\ a.ended = b.ended /\ a.regressed = b.regressed /\ a.unreported = b.unreported
        /\ a.waiting = b.waiting
    BY <2>0 DEF a, Buffer
  <2>7. a \in Buffer
    BY <2>0, <2>4 DEF a, Buffer
  <2>8. InOrder(a)
    <3>1. \A k \in DOMAIN a.pending : Waits(a, a.pending[k])
      BY <2>0, <2>4, <2>6 DEF InOrder, Waits
    <3> QED
      BY <2>0, <2>6, <3>1 DEF InOrder
  <2>9. PendingOK(a, number, open)
    <3>1. \A k \in DOMAIN a.pending :
            /\ a.pending[k].kind \in ChunkKinds /\ a.pending[k].status = "none"
            /\ a.pending[k].session \in open
            /\ a.pending[k].turn = number[a.pending[k].session]
      BY <2>0, <2>4, <2>6 DEF PendingOK
    <3>2. ASSUME NEW k \in DOMAIN r, NEW l \in DOMAIN r, r[k].session = r[l].session
          PROVE  k = l
      <4>1. PICK m \in DOMAIN b.pending : r[k] = b.pending[m] /\ m = IF k < i THEN k ELSE k + 1
        BY <2>4
      <4>2. PICK n \in DOMAIN b.pending : r[l] = b.pending[n] /\ n = IF l < i THEN l ELSE l + 1
        BY <2>4
      <4>3. m = n
        BY <2>0, <3>2, <4>1, <4>2 DEF PendingOK
      <4>4. k \in Nat /\ l \in Nat
        BY <2>5
      <4> QED
        BY <2>5, <4>1, <4>2, <4>3, <4>4
    <3> QED
      BY <2>6, <3>1, <3>2 DEF PendingOK
  <2>10. StatusOK(a, number, tracked) /\ ReportOK(a, number)
    <3>1. StatusOK(a, number, tracked)
      BY <2>0, <2>6 DEF StatusOK, EndKnown
    <3>2. ReportOK(a, number)
      BY <2>0, <2>6 DEF ReportOK, Reported
    <3> QED
      BY <3>1, <3>2
  <2>11. Good(a, number, open, tracked)
    BY <2>7, <2>8, <2>9, <2>10 DEF Good
  <2>12. Joins(a, d, number, tracked)
    <3>1. /\ d.kind \in ChunkKinds /\ d.status = "none" /\ d.turn = number[d.session]
          /\ Waits(b, d)
      BY <2>0, <2>1 DEF PendingOK, InOrder
    <3>2. \A k \in DOMAIN a.pending : a.pending[k].session # d.session
      BY <2>0, <2>1, <2>4, <2>6 DEF PendingOK
    <3>3. d.kind # "overflow" /\ d.turn <= number[d.session]
      BY <2>3, <3>1 DEF ChunkKinds
    <3>4. Waits(a, d) /\ StatusFits(a, d) /\ EndKnown(a, d, number, tracked)
      BY <2>6, <3>1 DEF Waits, StatusFits, EndKnown, Terminal
    <3> QED
      BY <2>3, <3>2, <3>3, <3>4 DEF Joins
  <2>13. /\ Good(Enqueue(a, d), number, open, tracked) /\ Pumped(Enqueue(a, d))
         /\ Enqueue(a, d).pending = a.pending /\ Enqueue(a, d).status = a.status
         /\ CarriesAlso(a, Enqueue(a, d), d) /\ ClearsAlso(a, Enqueue(a, d), d)
    BY <2>11, <2>12, Enqueued
  <2>14. CarriesAlso(a, b, d)
    <3>1. \A s \in Sessions : \A x : Carries(b, s, x) <=> Carries(a, s, x) \/ x \in ToldOf(s, d)
      <4> TAKE s \in Sessions
      <4> TAKE x
      <4>1. (\E l \in DOMAIN b.pending : x \in ToldOf(s, b.pending[l]))
              <=> (\E k \in DOMAIN r : x \in ToldOf(s, r[k])) \/ x \in ToldOf(s, d)
        BY <2>1, <2>4
      <4> QED
        BY <2>6, <4>1 DEF Carries
    <3> QED
      BY <3>1 DEF CarriesAlso
  <2>15. \A e : e \in ToSet(r) <=> e \in ToSet(b.pending) /\ e # d
    <3> TAKE e
    <3>1. ASSUME e \in ToSet(r) PROVE e \in ToSet(b.pending) /\ e # d
      <4>1. PICK k \in DOMAIN r : e = r[k]
        BY <3>1 DEF ToSet
      <4>2. PICK l \in DOMAIN b.pending : e = b.pending[l] /\ l # i
        BY <2>4, <4>1
      <4>3. e # d
        BY <2>0, <2>1, <4>2 DEF PendingOK
      <4> QED
        BY <4>2, <4>3 DEF ToSet
    <3>2. ASSUME e \in ToSet(b.pending), e # d PROVE e \in ToSet(r)
      <4>1. PICK l \in DOMAIN b.pending : e = b.pending[l]
        BY <3>2 DEF ToSet
      <4>2. l # i
        BY <2>1, <3>2, <4>1
      <4>3. PICK k \in DOMAIN r : r[k] = b.pending[l]
        BY <2>4, <4>2
      <4> QED
        BY <4>1, <4>3 DEF ToSet
    <3> QED
      BY <3>1, <3>2
  <2>16. PICK c : c = Enqueue(a, d)
    OBVIOUS
  <2>17. Released(b, c, {d})
    <3>1. \A s \in Sessions : \A x : Carries(c, s, x) <=> Carries(b, s, x)
      BY <2>13, <2>14, <2>16 DEF CarriesAlso
    <3>2. KeepsClear(b, c)
      <4> SUFFICES ASSUME NEW old, NEW late, Clear(b, old, late) PROVE Clear(c, old, late)
        BY DEF KeepsClear
      <4>1. QueueClear(a, old, late)
        BY <2>6 DEF Clear, QueueClear
      <4>2. Recent(d, old)
        BY <2>1 DEF Clear
      <4>3. QueueClear(c, old, late)
        BY <2>13, <2>16, <4>1, <4>2 DEF ClearsAlso
      <4>4. \A k \in DOMAIN r : Recent(r[k], old)
        BY <2>4 DEF Clear
      <4> QED
        BY <2>6, <2>13, <2>16, <4>3, <4>4 DEF Clear
    <3> QED
      BY <2>6, <2>13, <2>15, <2>16, <3>1, <3>2 DEF Released
  <2> QED
    BY <2>2, <2>13, <2>16, <2>17 DEF Sound
<1> QED
  BY <1>1, <1>2

\* The text that waits is released one message after another.
LEMMA ReleaseEach ==
  ASSUME NEW b, NEW S, Len(b.pending) \in Nat
  PROVE  \E f : /\ f = [i \in 0..Len(b.pending) |->
                          IF i = 0 THEN b
                          ELSE IF b.pending[i] \in S THEN ReleaseChunk(f[i - 1], b.pending[i])
                          ELSE f[i - 1]]
                /\ ReleaseThose(b, S) = f[Len(b.pending)]
<1> DEFINE q == b.pending
           T == {m \in Nat :
                   \E f : f = [i \in 0..m |->
                                 IF i = 0 THEN b
                                 ELSE IF q[i] \in S THEN ReleaseChunk(f[i - 1], q[i]) ELSE f[i - 1]]}
<1>1. 0 \in T
  <2> DEFINE f == [i \in 0..0 |-> b]
  <2>1. f = [i \in 0..0 |->
               IF i = 0 THEN b
               ELSE IF q[i] \in S THEN ReleaseChunk(f[i - 1], q[i]) ELSE f[i - 1]]
    OBVIOUS
  <2> QED
    BY <2>1
<1>2. ASSUME NEW m \in Nat, m \in T PROVE m + 1 \in T
  <2>1. PICK f : f = [i \in 0..m |->
                        IF i = 0 THEN b
                        ELSE IF q[i] \in S THEN ReleaseChunk(f[i - 1], q[i]) ELSE f[i - 1]]
    BY <1>2
  <2> DEFINE g == [i \in 0..(m + 1) |->
                     IF i <= m THEN f[i]
                     ELSE IF q[m + 1] \in S THEN ReleaseChunk(f[m], q[m + 1]) ELSE f[m]]
  <2>2. ASSUME NEW i \in 0..(m + 1)
        PROVE  g[i] = IF i = 0 THEN b
                      ELSE IF q[i] \in S THEN ReleaseChunk(g[i - 1], q[i]) ELSE g[i - 1]
    <3>1. CASE i <= m
      <4>1. g[i] = f[i] /\ (i # 0 => g[i - 1] = f[i - 1])
        BY <3>1
      <4>2. f[i] = IF i = 0 THEN b
                   ELSE IF q[i] \in S THEN ReleaseChunk(f[i - 1], q[i]) ELSE f[i - 1]
        BY <2>1, <3>1
      <4> HIDE DEF g, q
      <4> QED
        BY <4>1, <4>2
    <3>2. CASE i = m + 1
      <4>1. g[i] = (IF q[i] \in S THEN ReleaseChunk(f[m], q[i]) ELSE f[m])
        BY <3>2
      <4>2. g[i - 1] = f[m] /\ i # 0
        BY <3>2
      <4> HIDE DEF g, q
      <4> QED
        BY <4>1, <4>2
    <3> QED
      BY <3>1, <3>2
  <2>3. g = [i \in 0..(m + 1) |->
               IF i = 0 THEN b
               ELSE IF q[i] \in S THEN ReleaseChunk(g[i - 1], q[i]) ELSE g[i - 1]]
    BY <2>2
  <2> HIDE DEF g
  <2> QED
    BY <2>3
<1>3. \A m \in Nat : m \in T
  <2> HIDE DEF T
  <2> QED
    BY <1>1, <1>2, SetInduction
<1>4. \E f : f = [i \in 0..Len(q) |->
                    IF i = 0 THEN b
                    ELSE IF q[i] \in S THEN ReleaseChunk(f[i - 1], q[i]) ELSE f[i - 1]]
  BY <1>3
<1> QED
  BY <1>4 DEF ReleaseThose, Each

\* What is released no longer waits; nothing else changes.
LEMMA ThoseReleased ==
  ASSUME NEW number \in [Sessions -> Nat], NEW open, NEW tracked \in SUBSET Sessions, NEW b, NEW S,
         Sound(b, number, open, tracked)
  PROVE  /\ Sound(ReleaseThose(b, S), number, open, tracked)
         /\ Released(b, ReleaseThose(b, S), S)
<1> DEFINE q == b.pending
           n == Len(q)
           Gone(i) == {e \in S : \E k \in 1..i : q[k] = e}
           Kept(c, i) == Sound(c, number, open, tracked) /\ Released(b, c, Gone(i))
<1>1. q \in Seq(Draft) /\ n \in Nat /\ DOMAIN q = 1..n
  <2>1. q \in Seq(Draft)
    BY DEF Sound, Good, Buffer
  <2> QED
    BY <2>1
<1>2. PICK f : /\ f = [i \in 0..n |->
                          IF i = 0 THEN b
                          ELSE IF q[i] \in S THEN ReleaseChunk(f[i - 1], q[i]) ELSE f[i - 1]]
               /\ ReleaseThose(b, S) = f[n]
  BY <1>1, ReleaseEach
<1> DEFINE T == {i \in Nat : i <= n => Kept(f[i], i)}
<1>3. 0 \in T
  <2>1. f[0] = b
    BY <1>1, <1>2
  <2>2. Gone(0) = {}
    OBVIOUS
  <2>3. Kept(b, 0)
    BY <2>2 DEF Released, KeepsClear
  <2> QED
    BY <2>1, <2>3
<1>4. ASSUME NEW i \in Nat, i \in T PROVE i + 1 \in T
  <2> SUFFICES ASSUME i + 1 <= n PROVE Kept(f[i + 1], i + 1)
    <3> HIDE DEF Kept
    <3> QED
      OBVIOUS
  <2>1. f[i + 1] = (IF q[i + 1] \in S THEN ReleaseChunk(f[i], q[i + 1]) ELSE f[i]) /\ i <= n
    BY <1>1, <1>2
  <2>2. PICK c, p : c = f[i] /\ p = q[i + 1]
    OBVIOUS
  <2>3. Kept(c, i)
    BY <1>4, <2>1, <2>2
  <2>4. CASE p \in S
    <3>1. PICK e : e = ReleaseChunk(c, p)
      OBVIOUS
    <3>2. Sound(e, number, open, tracked) /\ Released(c, e, {p})
      BY <2>3, <3>1, ChunkReleased
    <3>3. \A g : g \in Gone(i + 1) <=> g \in Gone(i) \/ g = p
      BY <2>2, <2>4
    <3> HIDE DEF Gone
    <3>4. Released(b, e, Gone(i + 1))
      BY <2>3, <3>2, <3>3 DEF Released, KeepsClear
    <3> QED
      BY <2>1, <2>2, <2>4, <3>1, <3>2, <3>4
  <2>5. CASE p \notin S
    <3>1. Gone(i + 1) = Gone(i)
      BY <2>2, <2>5
    <3> QED
      BY <2>1, <2>2, <2>3, <2>5, <3>1
  <2> QED
    BY <2>4, <2>5
<1>5. \A i \in Nat : i \in T
  <2> HIDE DEF T
  <2> QED
    BY <1>3, <1>4, SetInduction
<1>6. Kept(f[n], n)
  <2>1. n \in T
    BY <1>1, <1>5
  <2> HIDE DEF Kept, n
  <2> QED
    BY <1>1, <2>1
<1>7. \A e : e \in ToSet(q) => (e \in Gone(n) <=> e \in S)
  BY <1>1 DEF ToSet
<1> HIDE DEF Gone
<1>8. PICK c : c = f[n]
  OBVIOUS
<1>9. Released(b, c, S)
  BY <1>6, <1>7, <1>8 DEF Released
<1> QED
  BY <1>2, <1>6, <1>8, <1>9

-----------------------------------------------------------------------------
(* The observer stream: frames pushed *)

\* d is about what comes after all that is told already.
Newer(b, d) == \A x : Carries(b, d.session, x) => \A y \in Told(d) : x <= y

\* What the actor hands to the buffer.
Pushable(b, d, number, open, tracked) ==
  /\ d \in Draft /\ Sorted(d) /\ d.turn = number[d.session] /\ Newer(b, d)
  /\ d.kind \in ChunkKinds \cup ToolKinds \cup {"note"}
  /\ d.kind \in ChunkKinds => d.session \in open
  /\ d.kind \in ToolKinds => d.session \in tracked
  /\ d.kind \notin ToolKinds => d.status = "none"

\* What is newer than all that b carries may wait behind it.
LEMMA NewerWaits ==
  ASSUME NEW number, NEW open, NEW tracked, NEW b, NEW d \in Draft,
         Good(b, number, open, tracked), Sorted(d), Newer(b, d)
  PROVE  Waits(b, d)
<1>1. InOrder(b) /\ b \in Buffer /\ d.session \in Sessions /\ Told(d) \subseteq Nat
  BY DEF Good, Draft, Told
<1>2. \A y \in Told(d) : b.wire[d.session] <= y
  <2>1. b.wire[d.session] \in b.gone[d.session] \cup {0}
    BY <1>1 DEF InOrder
  <2>2. \A y \in Told(d) : 0 <= y
    BY <1>1
  <2> QED
    BY <2>1, <2>2 DEF Newer, Carries
<1>3. \A i \in DOMAIN b.queue : Before(b.queue[i], d)
  BY DEF Newer, Carries, ToldOf, Before
<1> QED
  BY <1>2, <1>3 DEF Waits

\* Other text waits in place of what did.
LEMMA PendingReplaced ==
  ASSUME NEW number, NEW open, NEW tracked, NEW b, NEW p \in Seq(Draft),
         Sound(b, number, open, tracked), \A j \in DOMAIN p : Waits(b, p[j]),
         PendingOK([b EXCEPT !.pending = p], number, open)
  PROVE  LET c == [b EXCEPT !.pending = p] IN
         /\ Sound(c, number, open, tracked) /\ c.pending = p
         /\ c.queue = b.queue /\ c.gone = b.gone /\ c.waiting = b.waiting
<1> DEFINE c == [b EXCEPT !.pending = p]
<1>0. /\ b \in Buffer /\ InOrder(b) /\ StatusOK(b, number, tracked) /\ ReportOK(b, number)
      /\ Pumped(b)
  BY DEF Sound, Good
<1>1. /\ c.pending = p /\ c.queue = b.queue /\ c.status = b.status
      /\ c.dropped = b.dropped /\ c.route = b.route /\ c.wire = b.wire /\ c.gone = b.gone
      /\ c.ended = b.ended /\ c.regressed = b.regressed /\ c.unreported = b.unreported
      /\ c.timer = b.timer /\ c.waiting = b.waiting
  BY <1>0 DEF Buffer
<1>2. c \in Buffer
  BY <1>0 DEF Buffer
<1> HIDE DEF c
<1>3. InOrder(c)
  BY <1>0, <1>1 DEF InOrder, Waits
<1>4. StatusOK(c, number, tracked)
  BY <1>0, <1>1 DEF StatusOK, EndKnown
<1>5. ReportOK(c, number) /\ Pumped(c)
  BY <1>0, <1>1 DEF ReportOK, Reported, Pumped
<1> QED
  BY <1>1, <1>2, <1>3, <1>4, <1>5 DEF c, Sound, Good

TellsBoth(g, e, d) == \A x : x \in Told(g) <=> x \in Told(e) \/ x \in Told(d)

\* More of a message: what a frame tells grows at its end.
LEMMA BodyGrows ==
  ASSUME NEW b, NEW e \in Draft, NEW d \in Draft, e.session = d.session, e.kind # "overflow",
         d.kind # "overflow", Waits(b, e), Waits(b, d), Before(e, d),
         NEW g, g = [e EXCEPT !.body = e.body \o d.body]
  PROVE  /\ g \in Draft /\ g.session = e.session /\ g.turn = e.turn /\ g.kind = e.kind
         /\ g.status = e.status /\ g.msg = e.msg
         /\ Waits(b, g) /\ TellsBoth(g, e, d)
<1>1. /\ e.body \in Seq(Nat) /\ d.body \in Seq(Nat)
      /\ Told(e) = {e.body[i] : i \in DOMAIN e.body} /\ Told(d) = {d.body[i] : i \in DOMAIN d.body}
      /\ Sorted(e) /\ Sorted(d)
  BY DEF Draft, Told, Waits
<1>2. PICK p, r, q, m, n : /\ p = e.body /\ r = d.body /\ q = p \o r
                           /\ m = Len(p) /\ n = Len(r)
  OBVIOUS
<1>3. /\ q \in Seq(Nat) /\ Len(q) = m + n
      /\ \A i \in 1..Len(q) : q[i] = IF i <= m THEN p[i] ELSE r[i - m]
  <2>1. p \in Seq(Nat) /\ r \in Seq(Nat) /\ q = p \o r
    BY <1>1, <1>2
  <2>2. /\ p \o r \in Seq(Nat) /\ Len(p \o r) = Len(p) + Len(r)
        /\ \A i \in 1..Len(p \o r) : (p \o r)[i] = IF i <= Len(p) THEN p[i] ELSE r[i - Len(p)]
    BY <2>1, Concatenated
  <2> QED
    BY <1>2, <2>1, <2>2
<1>4. /\ m \in Nat /\ n \in Nat /\ DOMAIN q = 1..(m + n) /\ DOMAIN p = 1..m /\ DOMAIN r = 1..n
  BY <1>1, <1>2, <1>3
<1>5. /\ g \in Draft /\ g.session = e.session /\ g.turn = e.turn /\ g.kind = e.kind
      /\ g.status = e.status /\ g.msg = e.msg /\ g.body = q
  BY <1>2, <1>3 DEF Draft
<1>6. ASSUME NEW i \in DOMAIN q
      PROVE  \/ i \in DOMAIN p /\ q[i] = p[i]
             \/ i - m \in DOMAIN r /\ q[i] = r[i - m] /\ i \notin DOMAIN p
  BY <1>3, <1>4
<1>7. Told(g) = {q[i] : i \in DOMAIN q}
  BY <1>5 DEF Told
<1>8. Told(g) = Told(e) \cup Told(d)
  <2>1. \A i \in DOMAIN q : q[i] \in Told(e) \cup Told(d)
    <3> TAKE i \in DOMAIN q
    <3>1. (\A j \in DOMAIN p : p[j] \in Told(e)) /\ (\A j \in DOMAIN r : r[j] \in Told(d))
      BY <1>1, <1>2
    <3>2. CASE i \in DOMAIN p /\ q[i] = p[i]
      BY <3>1, <3>2
    <3>3. CASE i - m \in DOMAIN r /\ q[i] = r[i - m]
      BY <3>1, <3>3
    <3> QED
      BY <1>6, <3>2, <3>3
  <2>2. \A i \in DOMAIN p : i \in DOMAIN q /\ q[i] = p[i]
    BY <1>3, <1>4
  <2>3. \A i \in DOMAIN r : m + i \in DOMAIN q /\ q[m + i] = r[i]
    <3> TAKE i \in DOMAIN r
    <3>1. m + i \in 1..(m + n) /\ ~(m + i <= m) /\ (m + i) - m = i
      BY <1>4
    <3>2. q[m + i] = r[(m + i) - m]
      BY <1>3, <1>4, <3>1
    <3> QED
      BY <1>4, <3>1, <3>2
  <2>4. \A x \in Told(e) \cup Told(d) : x \in Told(g)
    <3>1. \A x \in Told(e) : x \in Told(g)
      BY <1>1, <1>2, <1>7, <2>2
    <3>2. ASSUME NEW x \in Told(d) PROVE x \in Told(g)
      <4>1. PICK i \in DOMAIN r : x = r[i]
        BY <1>1, <1>2
      <4> QED
        BY <1>7, <2>3, <4>1
    <3> QED
      BY <3>1, <3>2
  <2> QED
    BY <1>7, <2>1, <2>4
<1>9. Sorted(g)
  <2> SUFFICES ASSUME NEW k \in DOMAIN q, NEW l \in DOMAIN q, k < l PROVE q[k] <= q[l]
    BY <1>5 DEF Sorted
  <2>1. CASE l \in DOMAIN p
    <3>1. k \in DOMAIN p
      BY <1>4, <2>1
    <3>2. q[k] = p[k] /\ q[l] = p[l]
      BY <1>6, <2>1, <3>1
    <3> QED
      BY <1>1, <1>2, <2>1, <3>1, <3>2 DEF Sorted
  <2>2. CASE l \notin DOMAIN p /\ k \in DOMAIN p
    <3>1. q[k] = p[k] /\ l - m \in DOMAIN r /\ q[l] = r[l - m]
      BY <1>6, <1>4, <2>2
    <3>2. q[k] \in Told(e) /\ q[l] \in Told(d)
      BY <1>1, <1>2, <2>2, <3>1
    <3> QED
      BY <3>2 DEF Before
  <2>3. CASE l \notin DOMAIN p /\ k \notin DOMAIN p
    <3>1. /\ l - m \in DOMAIN r /\ q[l] = r[l - m]
          /\ k - m \in DOMAIN r /\ q[k] = r[k - m]
      BY <1>6, <2>3
    <3>2. k - m < l - m
      BY <1>4
    <3> QED
      BY <1>1, <1>2, <3>1, <3>2 DEF Sorted
  <2> QED
    BY <2>1, <2>2, <2>3
<1>10. Waits(b, g)
  BY <1>5, <1>8, <1>9 DEF Waits, Before
<1> QED
  BY <1>5, <1>8, <1>10 DEF TellsBoth

\* c is b with d taken in.
Gains(b, c, d) == CarriesAlso(b, c, d) /\ ClearsWith(b, c, d)

\* A delta joins its message, or waits as the first of it.
LEMMA ChunkPushed ==
  ASSUME NEW number \in [Sessions -> Nat], NEW open, NEW tracked \in SUBSET Sessions, NEW b, NEW d,
         Sound(b, number, open, tracked), Pushable(b, d, number, open, tracked),
         d.kind \in ChunkKinds
  PROVE  Sound(PushChunk(b, d), number, open, tracked) /\ Gains(b, PushChunk(b, d), d)
<1> DEFINE S == {e \in ToSet(b.pending) :
                   e.session = d.session /\ e.turn = d.turn /\ ~SameChunk(e, d)}
           r == ReleaseThose(b, S)
           same == {i \in DOMAIN r.pending : SameChunk(r.pending[i], d)}
           s == d.session
           more == [i \in DOMAIN r.pending |->
                      IF i \in same THEN [r.pending[i] EXCEPT !.body = @ \o d.body]
                      ELSE r.pending[i]]
<1>1. Sound(r, number, open, tracked) /\ Released(b, r, S)
  BY ThoseReleased
<1>2. PushChunk(b, d) = IF same # {} THEN [r EXCEPT !.pending = more]
                        ELSE [r EXCEPT !.pending = Append(r.pending, d)]
  BY Zenon DEF PushChunk
<1>3. /\ d \in Draft /\ Sorted(d) /\ d.turn = number[s] /\ Newer(r, d) /\ s \in open
      /\ d.status = "none" /\ s \in Sessions /\ d.kind # "overflow"
  <2>1. Newer(r, d)
    BY <1>1 DEF Pushable, Newer, Released, Draft
  <2> QED
    BY <2>1 DEF Pushable, Draft, ChunkKinds, ToolKinds
<1>4. ASSUME NEW i \in DOMAIN r.pending, r.pending[i].session = s PROVE i \in same
  <2>1. r.pending[i].turn = d.turn
    BY <1>1, <1>3, <1>4 DEF Sound, Good, PendingOK
  <2>2. r.pending[i] \in ToSet(b.pending) /\ r.pending[i] \notin S
    BY <1>1 DEF Released, ToSet
  <2> HIDE DEF r
  <2> QED
    BY <1>4, <2>1, <2>2
<1>5. \A i \in same : i \in DOMAIN r.pending /\ r.pending[i].session = s
  BY DEF SameChunk
<1> HIDE DEF r, same
<1>6. /\ r \in Buffer /\ InOrder(r) /\ PendingOK(r, number, open) /\ Waits(r, d)
      /\ r.pending \in Seq(Draft)
  BY <1>1, <1>3, NewerWaits DEF Sound, Good, Buffer
<1>7. CASE same # {}
  <2>0. DOMAIN more = DOMAIN r.pending
    OBVIOUS
  <2>1. ASSUME NEW i \in DOMAIN r.pending
        PROVE  /\ more[i] \in Draft /\ Waits(r, more[i])
               /\ more[i].session = r.pending[i].session /\ more[i].turn = r.pending[i].turn
               /\ more[i].kind = r.pending[i].kind /\ more[i].status = r.pending[i].status
               /\ \A x : x \in Told(more[i])
                           <=> x \in Told(r.pending[i]) \/ (i \in same /\ x \in Told(d))
    <3>1. r.pending[i] \in Draft /\ Waits(r, r.pending[i]) /\ r.pending[i].kind \in ChunkKinds
      BY <1>6 DEF InOrder, PendingOK
    <3>2. CASE i \in same
      <4>1. r.pending[i].session = s /\ r.pending[i].kind # "overflow"
        BY <1>5, <3>1, <3>2 DEF ChunkKinds
      <4>2. Before(r.pending[i], d)
        BY <1>3, <4>1 DEF Newer, Carries, ToldOf, Before
      <4>3. PICK e : e = r.pending[i]
        OBVIOUS
      <4>4. more[i] = [e EXCEPT !.body = e.body \o d.body]
        BY <3>2, <4>3
      <4> HIDE DEF more
      <4>5. PICK g : g = [e EXCEPT !.body = e.body \o d.body]
        OBVIOUS
      <4>6. e \in Draft /\ e.session = d.session /\ e.kind # "overflow" /\ Waits(r, e)
            /\ Before(e, d)
        BY <3>1, <4>1, <4>2, <4>3
      <4> HIDE DEF S, s
      <4>7. /\ g \in Draft /\ g.session = e.session /\ g.turn = e.turn /\ g.kind = e.kind
            /\ g.status = e.status /\ Waits(r, g)
            /\ TellsBoth(g, e, d)
        <5>1. d \in Draft /\ d.kind # "overflow" /\ Waits(r, d)
          BY <1>3, <1>6
        <5>2. g \in Draft /\ Waits(r, g)
          BY <4>5, <4>6, <5>1, BodyGrows
        <5>3. g.session = e.session /\ g.turn = e.turn /\ g.kind = e.kind /\ g.status = e.status
          BY <4>5, <4>6, <5>1, BodyGrows
        <5>4. TellsBoth(g, e, d)
          BY <4>5, <4>6, <5>1, BodyGrows
        <5> QED
          BY <5>2, <5>3, <5>4
      <4> QED
        BY <3>2, <4>3, <4>4, <4>5, <4>7 DEF TellsBoth
    <3>3. CASE i \notin same
      <4>1. more[i] = r.pending[i]
        BY <3>3
      <4> QED
        BY <3>1, <3>3, <4>1
    <3> QED
      BY <3>2, <3>3
  <2> HIDE DEF more
  <2>2. PICK c : c = [r EXCEPT !.pending = more]
    OBVIOUS
  <2>3. more \in Seq(Draft)
    <3>1. Len(r.pending) \in Nat /\ DOMAIN more = 1..Len(r.pending)
      BY <1>6, <2>0
    <3>2. more = [i \in 1..Len(r.pending) |-> more[i]]
      BY <3>1 DEF more
    <3>3. \A i \in 1..Len(r.pending) : more[i] \in Draft
      BY <2>0, <2>1, <3>1
    <3> QED
      BY <3>1, <3>2, <3>3
  <2>4. c.pending = more
    BY <1>6, <2>2 DEF Buffer
  <2>5. PendingOK(c, number, open)
    BY <1>6, <2>0, <2>1, <2>4 DEF PendingOK
  <2>6. Sound(c, number, open, tracked) /\ c.queue = r.queue /\ c.gone = r.gone
        /\ c.waiting = r.waiting
    BY <1>1, <2>0, <2>1, <2>2, <2>3, <2>5, PendingReplaced
  <2>7. CarriesAlso(b, c, d)
    <3> SUFFICES ASSUME NEW k \in Sessions, NEW x
                 PROVE  Carries(c, k, x) <=> Carries(b, k, x) \/ x \in ToldOf(k, d)
      BY DEF CarriesAlso
    <3>1. Carries(r, k, x) <=> Carries(b, k, x)
      BY <1>1 DEF Released
    <3>2. (\E j \in DOMAIN more : x \in ToldOf(k, more[j]))
            <=> (\E j \in DOMAIN r.pending : x \in ToldOf(k, r.pending[j])) \/ x \in ToldOf(k, d)
      <4>1. \A j \in DOMAIN r.pending :
              x \in ToldOf(k, more[j])
                <=> x \in ToldOf(k, r.pending[j]) \/ (j \in same /\ x \in ToldOf(k, d))
        BY <1>5, <2>1 DEF ToldOf
      <4>2. \E j \in DOMAIN r.pending : j \in same
        BY <1>5, <1>7
      <4> QED
        BY <2>0, <4>1, <4>2
    <3> QED
      BY <2>4, <2>6, <3>1, <3>2 DEF Carries
  <2>8. ClearsWith(b, c, d)
    <3> SUFFICES ASSUME NEW old, NEW late, Clear(b, old, late), Recent(d, old)
                 PROVE  Clear(c, old, late)
      BY DEF ClearsWith
    <3>1. Clear(r, old, late)
      BY <1>1 DEF Released, KeepsClear
    <3>2. ASSUME NEW j \in DOMAIN more PROVE Recent(more[j], old)
      <4>1. Recent(r.pending[j], old) /\ more[j].session = r.pending[j].session
        BY <2>0, <2>1, <3>1 DEF Clear
      <4>2. \A x \in Told(more[j]) :
              x \in Told(r.pending[j]) \/ (r.pending[j].session = s /\ x \in Told(d))
        BY <1>5, <2>0, <2>1
      <4> QED
        BY <4>1, <4>2 DEF Recent
    <3> QED
      BY <2>4, <2>6, <3>1, <3>2 DEF Clear, QueueClear
  <2> QED
    BY <1>2, <1>7, <2>2, <2>6, <2>7, <2>8 DEF Gains
<1>8. CASE same = {}
  <2>1. PICK p : p = Append(r.pending, d)
    OBVIOUS
  <2>2. /\ p \in Seq(Draft) /\ DOMAIN p = 1..(Len(r.pending) + 1)
        /\ \A i \in DOMAIN r.pending : i \in DOMAIN p /\ p[i] = r.pending[i]
        /\ \A i \in DOMAIN p : i \in DOMAIN r.pending \/ (p[i] = d /\ i = Len(r.pending) + 1)
        /\ Len(r.pending) + 1 \in DOMAIN p /\ p[Len(r.pending) + 1] = d
    BY <1>3, <1>6, <2>1, QueueGrows
  <2>3. PICK c : c = [r EXCEPT !.pending = p]
    OBVIOUS
  <2>4. c.pending = p
    BY <1>6, <2>3 DEF Buffer
  <2>5. \A i \in DOMAIN r.pending : r.pending[i].session # s
    BY <1>4, <1>8
  <2>6. PendingOK(c, number, open)
    <3>1. \A j \in DOMAIN p :
            /\ p[j].kind \in ChunkKinds /\ p[j].status = "none"
            /\ p[j].session \in open /\ p[j].turn = number[p[j].session]
      BY <1>3, <1>6, <2>2 DEF PendingOK
    <3>2. \A i, j \in DOMAIN p : p[i].session = p[j].session => i = j
      BY <1>6, <2>2, <2>5 DEF PendingOK
    <3> QED
      BY <2>4, <3>1, <3>2 DEF PendingOK
  <2>7. \A j \in DOMAIN p : Waits(r, p[j])
    BY <1>6, <2>2 DEF InOrder
  <2>8. Sound(c, number, open, tracked) /\ c.queue = r.queue /\ c.gone = r.gone
        /\ c.waiting = r.waiting
    <3>1. p \in Seq(Draft)
      BY <2>2
    <3>2. Sound(r, number, open, tracked)
      BY <1>1
    <3>3. PendingOK([r EXCEPT !.pending = p], number, open)
      BY <2>3, <2>6
    <3>4. LET n == [r EXCEPT !.pending = p] IN
          /\ Sound(n, number, open, tracked) /\ n.pending = p
          /\ n.queue = r.queue /\ n.gone = r.gone /\ n.waiting = r.waiting
      BY <2>7, <3>1, <3>2, <3>3, PendingReplaced
    <3> QED
      BY <2>3, <3>4
  <2>9. CarriesAlso(b, c, d)
    <3> SUFFICES ASSUME NEW k \in Sessions, NEW x
                 PROVE  Carries(c, k, x) <=> Carries(b, k, x) \/ x \in ToldOf(k, d)
      BY DEF CarriesAlso
    <3>1. Carries(r, k, x) <=> Carries(b, k, x)
      BY <1>1 DEF Released
    <3>2. (\E j \in DOMAIN p : x \in ToldOf(k, p[j]))
            <=> (\E j \in DOMAIN r.pending : x \in ToldOf(k, r.pending[j])) \/ x \in ToldOf(k, d)
      BY <2>2
    <3> QED
      BY <2>4, <2>8, <3>1, <3>2 DEF Carries
  <2>10. ClearsWith(b, c, d)
    <3> SUFFICES ASSUME NEW old, NEW late, Clear(b, old, late), Recent(d, old)
                 PROVE  Clear(c, old, late)
      BY DEF ClearsWith
    <3>1. Clear(r, old, late)
      BY <1>1 DEF Released, KeepsClear
    <3>2. \A j \in DOMAIN p : Recent(p[j], old)
      BY <2>2, <3>1 DEF Clear
    <3> QED
      BY <2>4, <2>8, <3>1, <3>2 DEF Clear, QueueClear
  <2> QED
    BY <1>2, <1>8, <2>1, <2>3, <2>8, <2>9, <2>10 DEF Gains
<1> QED
  BY <1>7, <1>8

\* c carries the same events as b, and none that is older.
SameEvents(b, c) == \A s \in Sessions : \A x : Carries(c, s, x) <=> Carries(b, s, x)
CarriesAlike(b, c) == SameEvents(b, c) /\ KeepsClear(b, c)

NoneWaits(b, s) == \A j \in DOMAIN b.pending : b.pending[j].session # s

\* c is b but for the last tool status of s.
StatusOnly(b, c, s, status) ==
  /\ c.pending = b.pending /\ c.status = [b.status EXCEPT ![s] = status]
  /\ c.queue = b.queue /\ c.wire = b.wire /\ c.ended = b.ended
  /\ CarriesAlike(b, c)

\* A session and a turn flushed: of an open turn nothing waits any more.
LEMMA TurnFlushed ==
  ASSUME NEW number \in [Sessions -> Nat], NEW open, NEW tracked \in SUBSET Sessions, NEW b,
         NEW s \in Sessions, NEW m, Sound(b, number, open, tracked),
         NEW c, c = FlushTurn(b, s, m)
  PROVE  /\ Sound(c, number, open, tracked) /\ c.status = b.status
         /\ CarriesAlike(b, c)
         /\ m = number[s] => NoneWaits(c, s)
<1> DEFINE S == {d \in ToSet(b.pending) : d.session = s /\ d.turn = m}
<1>1. c = ReleaseThose(b, S)
  BY DEF FlushTurn
<1>2. Sound(c, number, open, tracked) /\ Released(b, c, S)
  BY <1>1, ThoseReleased
<1>3. ASSUME m = number[s], NEW j \in DOMAIN c.pending PROVE c.pending[j].session # s
  <2>1. c.pending[j] \in ToSet(b.pending) /\ c.pending[j] \notin S
    BY <1>2 DEF Released, ToSet
  <2>2. c.pending[j].turn = number[c.pending[j].session]
    BY <1>2 DEF Sound, Good, PendingOK
  <2> QED
    BY <1>3, <2>1, <2>2
<1> QED
  BY <1>2, <1>3 DEF Released, CarriesAlike, SameEvents, KeepsClear, NoneWaits

\* Only the status of one tool is set.
LEMMA OneStatus ==
  ASSUME NEW b \in Buffer, NEW s, NEW status, NEW c, c = [b EXCEPT !.status[s] = status]
  PROVE  StatusOnly(b, c, s, status)
<1>1. /\ c.pending = b.pending /\ c.queue = b.queue /\ c.status = [b.status EXCEPT ![s] = status]
      /\ c.wire = b.wire /\ c.gone = b.gone /\ c.ended = b.ended /\ c.waiting = b.waiting
  BY DEF Buffer
<1> QED
  <2>1. KeepsClear(b, c)
    BY <1>1 DEF KeepsClear, Clear, QueueClear
  <2> QED
    BY <1>1, <2>1 DEF StatusOnly, CarriesAlike, SameEvents, Carries

\* A status may be set if it is no step back, or its turn is tracked no more.
LEMMA StatusSet ==
  ASSUME NEW number \in [Sessions -> Nat], NEW open, NEW tracked \in SUBSET Sessions, NEW b,
         Sound(b, number, open, tracked), NEW s \in Sessions, NEW status \in Statuses,
         NEW others \in SUBSET tracked,
         s \in others /\ Terminal(b.status[s]) => Terminal(status),
         NEW c, c = [b EXCEPT !.status[s] = status]
  PROVE  Sound(c, number, open, others)
<1>0. /\ b \in Buffer /\ InOrder(b) /\ PendingOK(b, number, open) /\ StatusOK(b, number, tracked)
      /\ ReportOK(b, number) /\ Pumped(b)
  BY DEF Sound, Good
<1>1. /\ c.pending = b.pending /\ c.queue = b.queue /\ c.status = [b.status EXCEPT ![s] = status]
      /\ c.dropped = b.dropped /\ c.route = b.route /\ c.wire = b.wire /\ c.gone = b.gone
      /\ c.ended = b.ended /\ c.regressed = b.regressed /\ c.unreported = b.unreported
      /\ c.timer = b.timer
  BY <1>0 DEF Buffer
<1>2. b.status \in [Sessions -> Statuses]
  BY <1>0 DEF Buffer
<1>3. c \in Buffer
  <2>1. [b.status EXCEPT ![s] = status] \in [Sessions -> Statuses]
    BY <1>2
  <2>2. c = [b EXCEPT !.status = [b.status EXCEPT ![s] = status]]
    BY <1>0 DEF Buffer
  <2> QED
    BY <1>0, <2>1, <2>2 DEF Buffer
<1>4. InOrder(c) /\ PendingOK(c, number, open) /\ ReportOK(c, number) /\ Pumped(c)
  BY <1>0, <1>1 DEF InOrder, Waits, PendingOK, ReportOK, Reported, Pumped
<1>5. \A k \in others : k \in tracked /\ (Terminal(b.status[k]) => Terminal(c.status[k]))
  BY <1>1, <1>2
<1>6. StatusOK(c, number, others)
  <2>1. \A d : EndKnown(b, d, number, tracked) => EndKnown(c, d, number, others)
    BY <1>5 DEF EndKnown
  <2> QED
    BY <1>0, <1>1, <1>5, <2>1 DEF StatusOK
<1> QED
  BY <1>1, <1>3, <1>4, <1>6 DEF Sound, Good

\* push(): a frame goes behind the text of its turn, a tool that ended stays ended.
LEMMA FramePushed ==
  ASSUME NEW number \in [Sessions -> Nat], NEW open, NEW tracked \in SUBSET Sessions, NEW b, NEW d,
         Sound(b, number, open, tracked), Pushable(b, d, number, open, tracked)
  PROVE  Sound(Push(b, d), number, open, tracked) /\ Gains(b, Push(b, d), d)
<1>1. CASE d.kind \in ChunkKinds
  <2>1. Push(b, d) = PushChunk(b, d)
    BY <1>1 DEF Push
  <2> QED
    BY <1>1, <2>1, ChunkPushed
<1>2. CASE d.kind \notin ChunkKinds
  <2> DEFINE s == d.session
  <2>0. /\ d \in Draft /\ s \in Sessions /\ d.turn = number[s] /\ Newer(b, d) /\ Sorted(d)
        /\ d.kind \in ToolKinds \cup {"note"} /\ d.kind # "overflow" /\ d.status \in Statuses
        /\ number[s] \in Nat
    BY <1>2 DEF Pushable, Draft, ToolKinds
  <2>a. PICK f : f = FlushTurn(b, s, d.turn)
    OBVIOUS
  <2>b. PICK g : g = GuardToolStatus(f, d)
    OBVIOUS
  <2>c. PICK status : status = IF d.kind \in ToolKinds THEN g.status ELSE f.status[s]
    OBVIOUS
  <2>d. PICK e : e = [f EXCEPT !.status[s] = status]
    OBVIOUS
  <2>1. /\ Sound(f, number, open, tracked) /\ f.status = b.status
        /\ CarriesAlike(b, f) /\ NoneWaits(f, s)
    <3>1. PICK m : m = d.turn
      OBVIOUS
    <3>2. f = FlushTurn(b, s, m)
      BY <2>a, <3>1
    <3>3. Sound(f, number, open, tracked) /\ f.status = b.status
      BY <2>0, <3>2, TurnFlushed
    <3>4. CarriesAlike(b, f) /\ (m = number[s] => NoneWaits(f, s))
      BY <2>0, <3>2, TurnFlushed
    <3> QED
      BY <2>0, <3>1, <3>3, <3>4
  <2>2. Push(b, d) = Enqueue(e, g)
    <3>1. f \in Buffer
      BY <2>1 DEF Sound, Good
    <3>2. e = [f EXCEPT !.status[d.session] = IF d.kind \in ToolKinds THEN g.status ELSE @]
      BY <2>c, <2>d, <3>1 DEF Buffer
    <3> QED
      BY <1>2, <2>a, <2>b, <3>2 DEF Push
  <2>3. f.status \in [Sessions -> Statuses] /\ StatusOK(f, number, tracked)
    BY <2>1 DEF Sound, Good, Buffer
  <2>4. /\ g \in Draft /\ g.session = s /\ g.turn = d.turn /\ g.kind = d.kind /\ g.body = d.body
        /\ g.status = IF d.kind \in ToolKinds THEN MergeToolStatus(f.status[s], d.status)
                      ELSE d.status
    <3>1. MergeToolStatus(f.status[s], d.status) \in Statuses
      BY <2>0, <2>3 DEF MergeToolStatus
    <3> QED
      BY <2>0, <2>b, <3>1 DEF GuardToolStatus, Draft
  <2>5. status \in Statuses /\ (Terminal(f.status[s]) => Terminal(status))
    BY <2>0, <2>3, <2>4, <2>c DEF MergeToolStatus
  <2>6. Sound(e, number, open, tracked) /\ StatusOnly(f, e, s, status)
    <3>1. tracked \in SUBSET tracked
      OBVIOUS
    <3>2. Sound(e, number, open, tracked)
      BY <2>0, <2>1, <2>5, <2>d, <3>1, StatusSet
    <3>3. StatusOnly(f, e, s, status)
      BY <2>1, <2>d, OneStatus DEF Sound, Good
    <3> QED
      BY <3>2, <3>3
  <2>7. Told(g) = Told(d) /\ Sorted(g)
    BY <2>0, <2>4 DEF Told, Sorted
  <2>8. Newer(e, g)
    BY <2>0, <2>1, <2>4, <2>6, <2>7 DEF Newer, CarriesAlike, SameEvents, KeepsClear, StatusOnly
  <2>9. Waits(e, g)
    BY <2>4, <2>6, <2>7, <2>8, NewerWaits DEF Sound
  <2>10. EndKnown(e, g, number, tracked)
    <3>1. CASE d.kind \in ToolKinds
      BY <2>3, <2>4, <2>6, <2>c, <3>1 DEF EndKnown, StatusOnly
    <3>2. CASE d.kind \notin ToolKinds
      BY <2>4, <3>2 DEF Pushable, EndKnown, Terminal
    <3> QED
      BY <3>1, <3>2
  <2>11. StatusFits(e, g)
    <3> SUFFICES ASSUME g.status = "executing"
                 PROVE  /\ f.ended[s] # number[s]
                        /\ \A i \in DOMAIN f.queue :
                             Terminal(f.queue[i].status) /\ f.queue[i].session = s
                               => f.queue[i].turn # number[s]
      BY <2>0, <2>4, <2>6 DEF StatusFits, StatusOnly
    <3>1. d.kind \in ToolKinds
      BY <2>4 DEF Pushable
    <3>2. s \in tracked /\ ~ Terminal(f.status[s])
      BY <2>4, <3>1 DEF Pushable, MergeToolStatus, Terminal
    <3> QED
      BY <2>3, <3>2 DEF StatusOK, EndKnown
  <2>12. Joins(e, g, number, tracked)
    <3>1. g.turn <= number[g.session] /\ g.kind # "overflow"
      BY <2>0, <2>4
    <3>2. \A j \in DOMAIN e.pending : e.pending[j].session # g.session
      BY <2>1, <2>4, <2>6 DEF NoneWaits, StatusOnly
    <3> QED
      BY <2>4, <2>9, <2>10, <2>11, <3>1, <3>2 DEF Joins
  <2>13. /\ Good(Enqueue(e, g), number, open, tracked) /\ Pumped(Enqueue(e, g))
         /\ Enqueue(e, g).pending = e.pending
         /\ CarriesAlso(e, Enqueue(e, g), g) /\ ClearsAlso(e, Enqueue(e, g), g)
    BY <2>6, <2>12, Enqueued DEF Sound
  <2>14. PICK c : c = Enqueue(e, g)
    OBVIOUS
  <2>15. \A k, x : x \in ToldOf(k, g) <=> x \in ToldOf(k, d)
    BY <2>4, <2>7 DEF ToldOf
  <2>16. CarriesAlso(b, c, d)
    BY <2>1, <2>6, <2>13, <2>14, <2>15 DEF CarriesAlso, CarriesAlike, SameEvents, KeepsClear, StatusOnly
  <2>17. ClearsWith(b, c, d)
    <3> SUFFICES ASSUME NEW old, NEW late, Clear(b, old, late), Recent(d, old)
                 PROVE  Clear(c, old, late)
      BY DEF ClearsWith
    <3>1. Clear(e, old, late)
      BY <2>1, <2>6 DEF CarriesAlike, KeepsClear, StatusOnly
    <3>2. Recent(g, old)
      BY <2>4, <2>7 DEF Recent
    <3> QED
      BY <2>13, <2>14, <3>1, <3>2 DEF Clear, ClearsAlso
  <2> QED
    BY <2>2, <2>13, <2>14, <2>16, <2>17 DEF Sound, Gains
<1> QED
  BY <1>1, <1>2

\* What holds for more open or fewer tracked turns.
LEMMA SoundWeaker ==
  ASSUME NEW number, NEW open, NEW tracked, NEW b, Sound(b, number, open, tracked),
         NEW more, open \subseteq more, NEW fewer \in SUBSET tracked
  PROVE  Sound(b, number, more, fewer)
<1>1. PendingOK(b, number, more)
  BY DEF Sound, Good, PendingOK
<1>2. StatusOK(b, number, fewer)
  BY DEF Sound, Good, StatusOK, EndKnown
<1> QED
  BY <1>1, <1>2 DEF Sound, Good

\* forgetTurn(): the text of a turn goes out, its tools are forgotten.
LEMMA TurnForgotten ==
  ASSUME NEW number \in [Sessions -> Nat], NEW open, NEW tracked \in SUBSET Sessions, NEW b,
         NEW s \in Sessions, NEW m, Sound(b, number, open, tracked)
  PROVE  /\ Sound(ForgetTurn(b, s, m), number, open, tracked \ {s})
         /\ m = number[s] => Sound(ForgetTurn(b, s, m), number, open \ {s}, tracked \ {s})
         /\ CarriesAlike(b, ForgetTurn(b, s, m))
<1>0. PICK f : f = FlushTurn(b, s, m)
  OBVIOUS
<1>1. /\ Sound(f, number, open, tracked) /\ CarriesAlike(b, f)
      /\ m = number[s] => NoneWaits(f, s)
  <2>1. Sound(f, number, open, tracked)
    BY <1>0, TurnFlushed
  <2>2. CarriesAlike(b, f) /\ (m = number[s] => NoneWaits(f, s))
    BY <1>0, TurnFlushed
  <2> QED
    BY <2>1, <2>2
<1>2. PICK c : c = [f EXCEPT !.status[s] = "none"]
  OBVIOUS
<1>3. PICK others : others = tracked \ {s}
  OBVIOUS
<1>4. "none" \in Statuses /\ others \in SUBSET tracked /\ s \notin others
  BY <1>3 DEF Statuses
<1>5. Sound(c, number, open, others)
  BY <1>1, <1>2, <1>4, StatusSet
<1>6. StatusOnly(f, c, s, "none")
  BY <1>1, <1>2, OneStatus DEF Sound, Good
<1>7. ASSUME m = number[s] PROVE Sound(c, number, open \ {s}, others)
  <2>1. PendingOK(c, number, open \ {s})
    BY <1>1, <1>5, <1>6, <1>7 DEF Sound, Good, PendingOK, NoneWaits, StatusOnly
  <2> QED
    BY <1>5, <2>1 DEF Sound, Good
<1>8. c = ForgetTurn(b, s, m)
  BY <1>0, <1>2 DEF ForgetTurn
<1>9. CarriesAlike(b, c)
  BY <1>1, <1>6 DEF CarriesAlike, SameEvents, KeepsClear, StatusOnly
<1> QED
  BY <1>3, <1>5, <1>7, <1>8, <1>9

-----------------------------------------------------------------------------
(* The observer stream: flushing and closing *)

\* A buffer with the same frames is as sound.
LEMMA SoundSame ==
  ASSUME NEW number, NEW open, NEW tracked, NEW b, NEW c \in Buffer, SameFrames(b, c),
         c.waiting = b.waiting, Good(b, number, open, tracked)
  PROVE  /\ Good(c, number, open, tracked)
         /\ CarriesAlike(b, c)
         /\ Pumped(b) /\ (c.timer = "off" => b.timer = "off") => Sound(c, number, open, tracked)
<1>1. Good(c, number, open, tracked)
  BY FramesSame
<1>2. CarriesAlike(b, c)
  <2>1. KeepsClear(b, c)
    BY DEF SameFrames, KeepsClear, Clear, QueueClear
  <2> QED
    BY <2>1, FramesSame DEF CarriesAlike, SameEvents
<1>3. Pumped(b) /\ (c.timer = "off" => b.timer = "off") => Pumped(c)
  BY DEF Pumped, SameFrames
<1> QED
  BY <1>1, <1>2, <1>3 DEF Sound

\* A pump carries on what was there.
LEMMA PumpCarries ==
  ASSUME NEW number \in [Sessions -> Nat], NEW open, NEW tracked \in SUBSET Sessions, NEW b,
         Good(b, number, open, tracked), NEW c, c = Pump(b)
  PROVE  /\ Sound(c, number, open, tracked) /\ c.pending = b.pending
         /\ CarriesAlike(b, c)
<1>1. /\ Good(c, number, open, tracked) /\ Pumped(c)
      /\ c.pending = b.pending /\ Clears(b, c)
  BY PumpDone
<1>2. SameEvents(b, c)
  BY PumpDone DEF SameEvents
<1>3. KeepsClear(b, c)
  BY <1>1 DEF Clears, KeepsClear, Clear
<1> QED
  BY <1>1, <1>2, <1>3 DEF Sound, CarriesAlike

\* A flush leaves nothing waiting for more; it is waited for while the queue holds any.
LEMMA FlushDone ==
  ASSUME NEW number \in [Sessions -> Nat], NEW open, NEW tracked \in SUBSET Sessions, NEW b,
         Sound(b, number, open, tracked)
  PROVE  /\ Sound(Flush(b), number, open, tracked) /\ SameEvents(b, Flush(b))
         /\ \A old : Clear(Flush(b), old, Flush(b).waiting)
<1>1. PICK r, S : S = ToSet(b.pending) /\ r = ReleaseThose(b, S)
  OBVIOUS
<1>2. Sound(r, number, open, tracked) /\ Released(b, r, S)
  BY <1>1, ThoseReleased
<1>3. PICK p : p = Pump(r)
  OBVIOUS
<1>4. Sound(p, number, open, tracked) /\ SameEvents(r, p) /\ p.pending = r.pending
  BY <1>2, <1>3, PumpCarries DEF Sound, CarriesAlike
<1>5. PICK c : c = [p EXCEPT !.waiting = p.queue # <<>>]
  OBVIOUS
<1>6. p \in Buffer
  BY <1>4 DEF Sound, Good
<1>7. /\ c \in Buffer /\ SameFrames(p, c) /\ c.timer = p.timer
      /\ c.waiting <=> p.queue # <<>>
  <2>1. PICK w \in BOOLEAN : w = (p.queue # <<>>)
    OBVIOUS
  <2>2. c = [p EXCEPT !.waiting = w]
    BY <1>5, <2>1
  <2> QED
    BY <1>6, <2>1, <2>2 DEF Buffer, SameFrames
<1>8. Sound(c, number, open, tracked) /\ SameEvents(p, c)
  BY <1>4, <1>7, FramesSame DEF Sound, SameEvents, Pumped, SameFrames
<1>9. \A old : Clear(c, old, c.waiting)
  <2>1. DOMAIN c.pending = {}
    <3>1. c.pending = r.pending
      BY <1>4, <1>7 DEF SameFrames
    <3>2. \A e : e \notin ToSet(r.pending)
      BY <1>1, <1>2 DEF Released
    <3> QED
      BY <3>1, <3>2 DEF ToSet
  <2>2. c.waiting \/ DOMAIN c.queue = {}
    BY <1>7 DEF SameFrames
  <2> QED
    BY <2>1, <2>2 DEF Clear, QueueClear
<1>10. c = Flush(b)
  BY <1>1, <1>3, <1>5 DEF Flush, ReleaseAll
<1>11. SameEvents(b, c)
  BY <1>2, <1>4, <1>8 DEF Released, SameEvents
<1> QED
  BY <1>8, <1>9, <1>10, <1>11

\* What was shed is reported, or about to be.
Drained(b) == b.queue = <<>> => b.dropped = 0

\* stop(): what waits goes out, what is queued stays.
LEMMA BufferStopped ==
  ASSUME NEW number \in [Sessions -> Nat], NEW open, NEW tracked \in SUBSET Sessions, NEW b,
         Sound(b, number, open, tracked)
  PROVE  /\ Good(StopBuffer(b), number, open, tracked) /\ Drained(StopBuffer(b))
         /\ CarriesAlike(b, StopBuffer(b))
<1>1. PICK r : r = ReleaseAll(b)
  OBVIOUS
<1>2. Sound(r, number, open, tracked) /\ CarriesAlike(b, r)
  BY <1>1, ThoseReleased DEF ReleaseAll, Released, CarriesAlike, SameEvents, KeepsClear
<1>3. PICK p : p = Pump(r)
  OBVIOUS
<1>4. Sound(p, number, open, tracked) /\ CarriesAlike(r, p)
  BY <1>2, <1>3, PumpCarries DEF Sound
<1>5. PICK c : c = [p EXCEPT !.timer = "off"]
  OBVIOUS
<1>6. p \in Buffer
  BY <1>4 DEF Sound, Good
<1>7. c \in Buffer /\ SameFrames(p, c) /\ c.waiting = p.waiting
  BY <1>5, <1>6 DEF Buffer, SameFrames, Timers
<1>8. Good(c, number, open, tracked) /\ CarriesAlike(p, c)
  BY <1>4, <1>7, SoundSame DEF Sound
<1>9. Drained(c)
  BY <1>4, <1>7 DEF Drained, Sound, Pumped, SameFrames
<1>10. c = StopBuffer(b)
  BY <1>1, <1>3, <1>5 DEF StopBuffer
<1> QED
  BY <1>2, <1>4, <1>8, <1>9, <1>10 DEF CarriesAlike, SameEvents, KeepsClear

Numbers == [s \in Sessions |-> turn[s].number]
OpenTurns == {s \in Sessions : turn[s].open}

\* close(): the open turns are forgotten one after another.
LEMMA ForgetEach ==
  ASSUME NEW b, IsFiniteSet(OpenTurns)
  PROVE  \E q \in Seq(OpenTurns) : \E f :
           /\ f = [i \in 0..Len(q) |->
                     IF i = 0 THEN b ELSE ForgetTurn(f[i - 1], q[i], turn[q[i]].number)]
           /\ Closed(b) = [StopBuffer(f[Len(q)]) EXCEPT !.active = {}]
<1> DEFINE q == SetToSeq(OpenTurns)
           S == {m \in Nat :
                   \E f : f = [i \in 0..m |->
                     IF i = 0 THEN b ELSE ForgetTurn(f[i - 1], q[i], turn[q[i]].number)]}
<1>1. q \in Seq(OpenTurns)
  BY SetToSeqElements
<1>2. Len(q) \in Nat
  BY <1>1
<1>3. 0 \in S
  <2> DEFINE f == [i \in 0..0 |-> b]
  <2>1. f = [i \in 0..0 |->
               IF i = 0 THEN b ELSE ForgetTurn(f[i - 1], q[i], turn[q[i]].number)]
    OBVIOUS
  <2> QED
    BY <2>1
<1>4. ASSUME NEW m \in Nat, m \in S PROVE m + 1 \in S
  <2>1. PICK f : f = [i \in 0..m |->
                        IF i = 0 THEN b ELSE ForgetTurn(f[i - 1], q[i], turn[q[i]].number)]
    BY <1>4
  <2> HIDE DEF q
  <2> DEFINE g == [i \in 0..(m + 1) |->
                     IF i <= m THEN f[i] ELSE ForgetTurn(f[m], q[m + 1], turn[q[m + 1]].number)]
  <2>2. ASSUME NEW i \in 0..(m + 1)
        PROVE  g[i] = IF i = 0 THEN b ELSE ForgetTurn(g[i - 1], q[i], turn[q[i]].number)
    BY <2>1
  <2>3. g = [i \in 0..(m + 1) |->
               IF i = 0 THEN b ELSE ForgetTurn(g[i - 1], q[i], turn[q[i]].number)]
    BY <2>2
  <2> HIDE DEF g
  <2> QED
    BY <2>3
<1>5. \A m \in Nat : m \in S
  <2> HIDE DEF S
  <2> QED
    BY <1>3, <1>4, SetInduction
<1>6. \E f : f = [i \in 0..Len(q) |->
                    IF i = 0 THEN b ELSE ForgetTurn(f[i - 1], q[i], turn[q[i]].number)]
  BY <1>2, <1>5
<1>7. \E f : /\ f = [i \in 0..Len(q) |->
                       IF i = 0 THEN b ELSE ForgetTurn(f[i - 1], q[i], turn[q[i]].number)]
             /\ Closed(b) = [StopBuffer(f[Len(q)]) EXCEPT !.active = {}]
  BY <1>6 DEF Closed, Each, OpenTurns
<1> QED
  BY <1>1, <1>7

\* A stream that closes loses nothing from its books.
LEMMA StreamCloses ==
  ASSUME NEW number \in [Sessions -> Nat], NEW open, NEW tracked \in SUBSET Sessions, NEW b,
         Sound(b, number, open, tracked), IsFiniteSet(OpenTurns)
  PROVE  /\ Good(Closed(b), number, open, {}) /\ Drained(Closed(b))
         /\ CarriesAlike(b, Closed(b))
<1>0. PICK q \in Seq(OpenTurns) :
        \E f :
          /\ f = [i \in 0..Len(q) |->
                    IF i = 0 THEN b ELSE ForgetTurn(f[i - 1], q[i], turn[q[i]].number)]
          /\ Closed(b) = [StopBuffer(f[Len(q)]) EXCEPT !.active = {}]
  BY ForgetEach
<1>1. PICK f : /\ f = [i \in 0..Len(q) |->
                        IF i = 0 THEN b ELSE ForgetTurn(f[i - 1], q[i], turn[q[i]].number)]
               /\ Closed(b) = [StopBuffer(f[Len(q)]) EXCEPT !.active = {}]
  BY <1>0
<1>2. PICK n \in Nat : n = Len(q) /\ DOMAIN q = 1..n
  OBVIOUS
<1> DEFINE Kept(c) == Sound(c, number, open, {}) /\ CarriesAlike(b, c)
           S == {i \in Nat : i <= n => Kept(f[i])}
<1>3. 0 \in S
  <2>1. f[0] = b
    BY <1>1, <1>2
  <2>2. Sound(b, number, open, {})
    BY SoundWeaker
  <2>3. Kept(b)
    BY <2>2 DEF CarriesAlike, SameEvents, KeepsClear
  <2> QED
    BY <2>1, <2>3
<1>4. ASSUME NEW i \in Nat, i \in S PROVE i + 1 \in S
  <2> SUFFICES ASSUME i + 1 <= n PROVE Kept(f[i + 1])
    <3> HIDE DEF Kept
    <3> QED
      OBVIOUS
  <2>1. PICK c, s, m : c = f[i] /\ s = q[i + 1] /\ m = turn[s].number
    OBVIOUS
  <2>2. f[i + 1] = ForgetTurn(c, s, m) /\ i <= n /\ s \in Sessions
    <3>1. i + 1 \in DOMAIN q
      BY <1>2
    <3>2. s \in Sessions
      BY <2>1, <3>1 DEF OpenTurns
    <3> QED
      BY <1>1, <1>2, <2>1, <3>2
  <2>3. Kept(c)
    BY <1>4, <2>1, <2>2
  <2>4. PICK none \in SUBSET Sessions : none = {}
    OBVIOUS
  <2>5. Sound(c, number, open, none) /\ none \ {s} = {}
    BY <2>3, <2>4
  <2>6. PICK e : e = ForgetTurn(c, s, m)
    OBVIOUS
  <2>7. Sound(e, number, open, none \ {s}) /\ CarriesAlike(c, e)
    BY <2>2, <2>5, <2>6, TurnForgotten
  <2>8. Kept(e)
    BY <2>3, <2>5, <2>7 DEF CarriesAlike, SameEvents, KeepsClear
  <2> QED
    BY <2>2, <2>6, <2>8
<1>5. \A i \in Nat : i \in S
  <2> HIDE DEF S
  <2> QED
    BY <1>3, <1>4, SetInduction
<1>6. Kept(f[n])
  <2>1. n \in S
    BY <1>5
  <2> HIDE DEF Kept
  <2> QED
    BY <2>1
<1>7. PICK c, e : c = f[n] /\ e = StopBuffer(c)
  OBVIOUS
<1>8. PICK none \in SUBSET Sessions : none = {}
  OBVIOUS
<1>9. Good(e, number, open, none) /\ Drained(e) /\ CarriesAlike(c, e)
  <2>1. Sound(c, number, open, none)
    BY <1>6, <1>7, <1>8
  <2> QED
    BY <1>7, <2>1, BufferStopped
<1>10. PICK g : g = [e EXCEPT !.active = {}]
  OBVIOUS
<1>11. g \in Buffer /\ SameFrames(e, g) /\ g.waiting = e.waiting
  <2>1. e \in Buffer
    BY <1>9 DEF Good
  <2> QED
    BY <1>10, <2>1 DEF Buffer, SameFrames
<1>12. Good(g, number, open, none) /\ CarriesAlike(e, g)
  BY <1>9, <1>11, SoundSame
<1>13. Drained(g)
  BY <1>9, <1>11 DEF Drained, SameFrames
<1>14. g = Closed(b)
  BY <1>1, <1>2, <1>7, <1>10
<1>15. CarriesAlike(b, g)
  BY <1>6, <1>7, <1>9, <1>12 DEF CarriesAlike, SameEvents, KeepsClear
<1> QED
  BY <1>8, <1>12, <1>13, <1>14, <1>15

-----------------------------------------------------------------------------
(* The observer stream: its invariant *)

Stages == {"running", "flushing", "closed", "expired"}

\* Sessions whose tools the buffer must still remember: none once it is stopped.
Tracked(open, now) == IF now \in {"running", "flushing"} THEN open ELSE {}

StreamOK(b, number, open, now) ==
  /\ Good(b, number, open, Tracked(open, now))
  /\ now \in {"running", "flushing"} => Pumped(b)
  /\ Drained(b)

\* What has been said is in the process or has left it, and nothing else is.
SaidCarried == \A s \in Sessions : \A x : Carries(buffer, s, x) <=> x \in 1..said[s]

TurnTable == [Sessions -> [number : Nat, open : BOOLEAN]]
Routers == [Sessions -> [messageSeq : Nat, current : Nat]]

\* What a flush owes: nothing older than old is left once it has returned.
Owes(b, now, old) ==
  /\ now = "flushing" => Clear(b, old, TRUE)
  /\ now = "closed" => Clear(b, old, FALSE)

OwedWas(old, now) == old \in [Sessions -> Nat] /\ \A s \in Sessions : old[s] <= now[s]

StreamInv ==
  /\ turn \in TurnTable /\ said \in [Sessions -> Nat] /\ router \in Routers /\ stage \in Stages
  /\ IsFiniteSet(OpenTurns)
  /\ StreamOK(buffer, Numbers, OpenTurns, stage)
  /\ SaidCarried
  /\ OwedWas(owed, said) /\ Owes(buffer, stage, owed)

\* What an action hands over is the buffer, unless the flush it ends closes the stream.
LEMMA BufferTaken ==
  ASSUME NEW number \in [Sessions -> Nat], NEW open \in SUBSET Sessions, NEW b,
         IsFiniteSet(OpenTurns), stage \in Stages,
         Sound(b, number, open, Tracked(open, stage)), Owes(b, stage, owed), Buffered(b)
  PROVE  /\ StreamOK(buffer', number, open, stage') /\ stage' \in Stages
         /\ CarriesAlike(b, buffer') /\ Owes(buffer', stage', owed) /\ owed' = owed
<1>1. PICK tracked \in SUBSET Sessions : tracked = Tracked(open, stage)
  BY DEF Tracked
<1>2. Sound(b, number, open, tracked)
  BY <1>1
<1>3. CASE stage = "flushing" /\ ~b.waiting
  <2>1. buffer' = Closed(b) /\ stage' = "closed"
    BY <1>3 DEF Buffered
  <2>2. PICK c : c = Closed(b)
    OBVIOUS
  <2>3. Good(c, number, open, {}) /\ Drained(c) /\ CarriesAlike(b, c)
    BY <1>2, <2>2, StreamCloses
  <2>4. Tracked(open, stage') = {} /\ stage' \notin {"running", "flushing"}
    BY <2>1 DEF Tracked
  <2>5. StreamOK(c, number, open, stage')
    BY <2>3, <2>4 DEF StreamOK
  <2>6. Owes(c, "closed", owed)
    <3>1. Clear(b, owed, FALSE)
      BY <1>3 DEF Owes, Clear, QueueClear
    <3> QED
      BY <2>3, <3>1 DEF Owes, CarriesAlike, KeepsClear
  <2>7. owed' = owed
    BY DEF Buffered
  <2> QED
    BY <2>1, <2>2, <2>3, <2>5, <2>6, <2>7 DEF Stages
<1>4. CASE ~ (stage = "flushing" /\ ~b.waiting)
  <2>1. buffer' = b /\ stage' = stage /\ owed' = owed
    BY <1>4 DEF Buffered
  <2>2. Good(b, number, open, Tracked(open, stage)) /\ Pumped(b) /\ Drained(b)
    BY <1>1, <1>2 DEF Sound, Pumped, Drained
  <2>3. CarriesAlike(b, b)
    BY DEF CarriesAlike, SameEvents, KeepsClear
  <2>4. StreamOK(b, number, open, stage)
    BY <2>2 DEF StreamOK
  <2> QED
    BY <2>1, <2>3, <2>4
<1> QED
  BY <1>3, <1>4

\* The turns, by number and by who is open.
LEMMA NumbersAre ==
  ASSUME turn \in TurnTable
  PROVE  /\ Numbers \in [Sessions -> Nat] /\ OpenTurns \in SUBSET Sessions
         /\ \A s \in Sessions : Numbers[s] = turn[s].number
BY DEF TurnTable, Numbers, OpenTurns

\* The last step of an action that hands its work to the buffer.
LEMMA StepTaken ==
  ASSUME StreamInv, NEW number, NEW open, NEW b, number = Numbers', open = OpenTurns',
         turn' \in TurnTable, said' \in [Sessions -> Nat], router' \in Routers,
         IsFiniteSet(OpenTurns'), Buffered(b),
         Sound(b, number, open, Tracked(open, stage)), Owes(b, stage, owed), OwedWas(owed, said'),
         \A s \in Sessions : \A x : Carries(b, s, x) <=> x \in 1..said'[s]
  PROVE  StreamInv'
<1>1. number \in [Sessions -> Nat] /\ open \in SUBSET Sessions
  BY DEF TurnTable, Numbers, OpenTurns
<1>2. IsFiniteSet(OpenTurns) /\ stage \in Stages
  BY DEF StreamInv
<1>3. /\ StreamOK(buffer', number, open, stage') /\ stage' \in Stages /\ CarriesAlike(b, buffer')
      /\ Owes(buffer', stage', owed) /\ owed' = owed
  BY <1>1, <1>2, BufferTaken
<1>4. SaidCarried'
  BY <1>3 DEF CarriesAlike, SameEvents, KeepsClear, SaidCarried
<1>5. /\ StreamOK(buffer, Numbers, OpenTurns, stage)'
      /\ Owes(buffer, stage, owed)' /\ OwedWas(owed, said)'
  BY <1>3
<1> QED
  BY <1>3, <1>4, <1>5 DEF StreamInv

\* A step that says nothing new.
LEMMA StepQuiet ==
  ASSUME StreamInv, NEW b, turn' = turn, said' = said, router' \in Routers, Buffered(b),
         Sound(b, Numbers, OpenTurns, Tracked(OpenTurns, stage)), CarriesAlike(buffer, b)
  PROVE  StreamInv'
<1>1. PICK number, open : number = Numbers /\ open = OpenTurns
  OBVIOUS
<1>2. number = Numbers' /\ open = OpenTurns' /\ IsFiniteSet(OpenTurns')
  BY <1>1 DEF StreamInv, Numbers, OpenTurns
<1>3. turn' \in TurnTable /\ said' \in [Sessions -> Nat]
  BY DEF StreamInv
<1>4. Sound(b, number, open, Tracked(open, stage))
  BY <1>1
<1>5. \A s \in Sessions : \A x : Carries(b, s, x) <=> x \in 1..said'[s]
  BY DEF StreamInv, SaidCarried, CarriesAlike, SameEvents, KeepsClear
<1>6. Owes(b, stage, owed) /\ OwedWas(owed, said')
  <2>1. Owes(b, stage, owed)
    BY DEF StreamInv, Owes, CarriesAlike, KeepsClear
  <2>2. OwedWas(owed, said')
    BY DEF StreamInv
  <2> QED
    BY <2>1, <2>2
<1> QED
  BY <1>2, <1>3, <1>4, <1>5, <1>6, StepTaken

\* The frame of an event tells of the next event, whatever its size.
LEMMA EventTold ==
  ASSUME NEW s \in Sessions, said[s] \in Nat, NEW number \in Nat,
         NEW kind \in FrameKinds \ {"overflow"}, NEW msg \in Nat, NEW status \in Statuses,
         NEW n \in Nat \ {0}, NEW d, d = EventFrame(s, number, kind, msg, status, n)
  PROVE  /\ d \in Draft /\ Sorted(d) /\ Told(d) = {said[s] + 1}
         /\ d.session = s /\ d.turn = number /\ d.kind = kind /\ d.status = status
<1>1. PICK body : body = [i \in 1..n |-> said[s] + 1]
  OBVIOUS
<1>2. body \in Seq(Nat) /\ DOMAIN body = 1..n /\ \A i \in 1..n : body[i] = said[s] + 1
  BY <1>1
<1>3. d = [session |-> s, turn |-> number, kind |-> kind, msg |-> msg, status |-> status,
           body |-> body]
  BY <1>1 DEF EventFrame, ObserverFrame
<1>4. /\ d.session = s /\ d.turn = number /\ d.kind = kind /\ d.status = status /\ d.body = body
  BY <1>3
<1>5. d \in Draft
  BY <1>2, <1>3 DEF Draft
<1>6. Sorted(d)
  BY <1>2, <1>4 DEF Sorted
<1>7. Told(d) = {said[s] + 1}
  <2>1. 1 \in 1..n
    OBVIOUS
  <2>2. Told(d) = {body[i] : i \in 1..n}
    BY <1>2, <1>4 DEF Told
  <2> QED
    BY <1>2, <2>1, <2>2
<1> QED
  BY <1>4, <1>5, <1>6, <1>7

\* The next event of a session, pushed.
LEMMA EventPushed ==
  ASSUME StreamInv, NEW number \in [Sessions -> Nat], NEW open \in SUBSET Sessions, NEW b,
         Sound(b, number, open, open), CarriesAlike(buffer, b),
         NEW s \in Sessions, NEW kind \in ChunkKinds \cup ToolKinds \cup {"note"}, NEW msg \in Nat,
         NEW status \in Statuses, NEW n \in Nat \ {0},
         kind # "note" => s \in open, kind \notin ToolKinds => status = "none",
         said' = [said EXCEPT ![s] = @ + 1],
         NEW d, d = EventFrame(s, number[s], kind, msg, status, n)
  PROVE  /\ Sound(Push(b, d), number, open, open)
         /\ \A k \in Sessions : \A x : Carries(Push(b, d), k, x) <=> x \in 1..said'[k]
         /\ Owes(Push(b, d), stage, owed) /\ OwedWas(owed, said')
<1>1. said \in [Sessions -> Nat] /\ SaidCarried
  BY DEF StreamInv
<1>2. said[s] \in Nat /\ number[s] \in Nat /\ kind \in FrameKinds \ {"overflow"}
  BY <1>1 DEF FrameKinds, ChunkKinds, ToolKinds
<1>3. d \in Draft /\ Sorted(d) /\ Told(d) = {said[s] + 1}
  BY <1>2, EventTold
<1>4. d.session = s /\ d.turn = number[s] /\ d.kind = kind /\ d.status = status
  BY <1>2, EventTold
<1>5. \A k \in Sessions : \A x : Carries(b, k, x) <=> x \in 1..said[k]
  BY <1>1 DEF SaidCarried, CarriesAlike, SameEvents, KeepsClear
<1>6. Newer(b, d)
  <2>1. \A x : Carries(b, s, x) => x \in 1..said[s]
    BY <1>5
  <2>2. \A x \in 1..said[s] : x <= said[s] + 1
    BY <1>2
  <2> QED
    BY <1>3, <1>4, <2>1, <2>2 DEF Newer
<1>7. Pushable(b, d, number, open, open)
  BY <1>3, <1>4, <1>6 DEF Pushable, ChunkKinds, ToolKinds
<1>8. PICK c : c = Push(b, d)
  OBVIOUS
<1>9. Sound(c, number, open, open)
  BY <1>7, <1>8, FramePushed
<1>10. CarriesAlso(b, c, d) /\ ClearsWith(b, c, d)
  BY <1>7, <1>8, FramePushed DEF Gains
<1>11. ASSUME NEW k \in Sessions, NEW x PROVE Carries(c, k, x) <=> x \in 1..said'[k]
  <2>1. Carries(c, k, x) <=> x \in 1..said[k] \/ x \in ToldOf(k, d)
    BY <1>5, <1>10 DEF CarriesAlso
  <2>2. CASE k = s
    <3>1. ToldOf(k, d) = {said[s] + 1} /\ said'[k] = said[s] + 1
      BY <1>1, <1>3, <1>4, <2>2 DEF ToldOf
    <3>2. 1..(said[s] + 1) = 1..said[s] \cup {said[s] + 1}
      BY <1>2
    <3> QED
      BY <2>1, <2>2, <3>1, <3>2
  <2>3. CASE k # s
    <3>1. ToldOf(k, d) = {} /\ said'[k] = said[k]
      BY <1>1, <1>4, <2>3 DEF ToldOf
    <3> QED
      BY <2>1, <3>1
  <2> QED
    BY <2>2, <2>3
<1>12. Owes(c, stage, owed)
  <2>1. OwedWas(owed, said) /\ Owes(buffer, stage, owed)
    BY DEF StreamInv
  <2>2. Owes(b, stage, owed)
    BY <2>1 DEF Owes, CarriesAlike, KeepsClear
  <2>3. owed[s] \in Nat /\ owed[s] < said[s] + 1
    BY <1>2, <2>1 DEF OwedWas
  <2>4. Recent(d, owed)
    BY <1>3, <1>4, <2>3 DEF Recent
  <2> QED
    BY <1>10, <2>2, <2>4 DEF Owes, ClearsWith
<1>13. OwedWas(owed, said')
  <2>1. \A k \in Sessions : said[k] \in Nat /\ said'[k] \in {said[k], said[k] + 1}
    BY <1>1
  <2>2. \A k \in Sessions : owed[k] \in Nat /\ owed[k] <= said[k]
    BY DEF StreamInv, OwedWas
  <2>3. \A k \in Sessions : owed[k] <= said'[k]
    BY <2>1, <2>2
  <2> QED
    BY <2>3 DEF StreamInv, OwedWas
<1> QED
  BY <1>8, <1>9, <1>11, <1>12, <1>13

\* What is known of the buffer in every state.
LEMMA BufferNow ==
  ASSUME StreamInv
  PROVE  /\ Numbers \in [Sessions -> Nat] /\ OpenTurns \in SUBSET Sessions
         /\ Tracked(OpenTurns, stage) \in SUBSET Sessions
         /\ turn \in TurnTable /\ said \in [Sessions -> Nat] /\ router \in Routers
         /\ buffer \in Buffer
         /\ Good(buffer, Numbers, OpenTurns, Tracked(OpenTurns, stage))
         /\ Live => /\ Tracked(OpenTurns, stage) = OpenTurns
                    /\ Sound(buffer, Numbers, OpenTurns, OpenTurns) /\ Pumped(buffer)
<1>1. turn \in TurnTable /\ StreamOK(buffer, Numbers, OpenTurns, stage)
  BY DEF StreamInv
<1>2. Good(buffer, Numbers, OpenTurns, Tracked(OpenTurns, stage))
  BY <1>1 DEF StreamOK
<1>3. buffer \in Buffer
  BY <1>2 DEF Good
<1>4. Numbers \in [Sessions -> Nat] /\ OpenTurns \in SUBSET Sessions
  BY <1>1, NumbersAre
<1>5. Live => Tracked(OpenTurns, stage) = OpenTurns /\ Pumped(buffer)
  BY <1>1 DEF Live, Tracked, StreamOK
<1> QED
  BY <1>2, <1>3, <1>4, <1>5 DEF StreamInv, Sound, Tracked

\* A turn that begins is newer than anything the buffer knows.
LEMMA TurnBegun ==
  ASSUME NEW number \in [Sessions -> Nat], NEW open \in SUBSET Sessions, NEW b,
         Sound(b, number, open, open), NEW s \in Sessions, s \notin open,
         NEW next, next = [number EXCEPT ![s] = @ + 1], NEW more, more = open \cup {s}
  PROVE  Sound(b, next, more, more)
<1>1. /\ b \in Buffer /\ InOrder(b) /\ PendingOK(b, number, open) /\ StatusOK(b, number, open)
      /\ ReportOK(b, number) /\ Pumped(b)
  BY DEF Sound, Good
<1>2. /\ \A k \in Sessions : next[k] \in Nat /\ number[k] \in Nat /\ number[k] <= next[k]
      /\ \A k \in open : next[k] = number[k]
      /\ next[s] = number[s] + 1
  OBVIOUS
<1>3. /\ b.queue \in Seq(Draft) /\ b.pending \in Seq(Draft) /\ b.ended \in [Sessions -> Nat]
  BY <1>1 DEF Buffer
<1>4. \A i \in DOMAIN b.queue : b.queue[i].session \in Sessions /\ b.queue[i].turn \in Nat
  <2>1. \A i \in DOMAIN b.queue : b.queue[i] \in Draft
    BY <1>3
  <2> QED
    BY <2>1 DEF Draft
<1>5. PendingOK(b, next, more)
  BY <1>1, <1>2 DEF PendingOK
<1>6. StatusOK(b, next, more)
  <2>1. \A k \in Sessions : b.ended[k] <= next[k] /\ b.ended[k] \in Nat
    BY <1>1, <1>2, <1>3 DEF StatusOK
  <2>2. ASSUME NEW i \in DOMAIN b.queue
        PROVE  /\ b.queue[i].turn <= next[b.queue[i].session]
               /\ EndKnown(b, b.queue[i], next, more)
    <3>1. PICK d : d = b.queue[i]
      OBVIOUS
    <3>2. d.session \in Sessions /\ d.turn \in Nat
      BY <1>4, <3>1
    <3>3. d.turn <= number[d.session] /\ EndKnown(b, d, number, open)
      BY <1>1, <3>1 DEF StatusOK
    <3>4. d.turn <= next[d.session]
      BY <1>2, <3>2, <3>3
    <3>5. d.session = s => d.turn # next[s]
      BY <1>2, <3>2, <3>3
    <3>6. EndKnown(b, d, next, more)
      BY <1>2, <3>3, <3>5 DEF EndKnown
    <3> QED
      BY <3>1, <3>4, <3>6
  <2>3. \A k \in more : b.ended[k] = next[k] => Terminal(b.status[k])
    <3>1. b.ended[s] # next[s]
      BY <1>1, <1>2, <1>3 DEF StatusOK
    <3> QED
      BY <1>1, <1>2, <3>1 DEF StatusOK
  <2> QED
    BY <1>1, <2>1, <2>2, <2>3 DEF StatusOK
<1>7. ReportOK(b, next)
  <2>1. b.dropped > 0 => b.route.turn <= next[b.route.session]
    <3> SUFFICES ASSUME b.dropped > 0 PROVE b.route.turn <= next[b.route.session]
      OBVIOUS
    <3>1. b.route \in Draft /\ b.route.turn <= number[b.route.session]
      BY <1>1 DEF ReportOK
    <3>2. b.route.session \in Sessions /\ b.route.turn \in Nat
      BY <3>1 DEF Draft
    <3> QED
      BY <1>2, <3>1, <3>2
  <2> QED
    BY <1>1, <2>1 DEF ReportOK
<1> QED
  BY <1>1, <1>5, <1>6, <1>7 DEF Sound, Good

\* An event of an open turn.
LEMMA EventTaken ==
  ASSUME StreamInv, Live, NEW s \in Sessions,
         NEW kind \in ChunkKinds \cup ToolKinds \cup {"note"}, NEW msg \in Nat,
         NEW status \in Statuses, NEW n \in Nat \ {0}, kind \notin ToolKinds => status = "none",
         router' \in Routers, Emits(s, kind, msg, status, n)
  PROVE  StreamInv'
<1>1. PICK number, open : number = Numbers /\ open = OpenTurns
  OBVIOUS
<1>2. number \in [Sessions -> Nat] /\ open \in SUBSET Sessions /\ Sound(buffer, number, open, open)
  BY <1>1, BufferNow
<1>3. /\ turn' = turn /\ said' = [said EXCEPT ![s] = @ + 1] /\ turn[s].open
  BY DEF Emits
<1>4. PICK d : d = EventFrame(s, number[s], kind, msg, status, n)
  OBVIOUS
<1>5. number[s] = turn[s].number /\ s \in open
  BY <1>1, <1>3, NumbersAre DEF StreamInv, OpenTurns
<1>6. PICK c : c = Push(buffer, d)
  OBVIOUS
<1>7. Buffered(c)
  BY <1>4, <1>5, <1>6 DEF Emits
<1>8. CarriesAlike(buffer, buffer)
  BY DEF CarriesAlike, SameEvents, KeepsClear
<1>9. /\ Sound(c, number, open, open)
      /\ \A k \in Sessions : \A x : Carries(c, k, x) <=> x \in 1..said'[k]
      /\ Owes(c, stage, owed) /\ OwedWas(owed, said')
  <2>1. PICK b : b = buffer
    OBVIOUS
  <2>2. Sound(b, number, open, open) /\ CarriesAlike(buffer, b) /\ c = Push(b, d)
    BY <1>2, <1>6, <1>8, <2>1
  <2>3. kind # "note" => s \in open
    BY <1>5
  <2>4. Sound(c, number, open, open)
    BY <1>2, <1>3, <1>4, <2>2, <2>3, EventPushed
  <2>5. /\ \A k \in Sessions : \A x : Carries(c, k, x) <=> x \in 1..said'[k]
        /\ Owes(c, stage, owed) /\ OwedWas(owed, said')
    BY <1>2, <1>3, <1>4, <2>2, <2>3, EventPushed
  <2> QED
    BY <2>4, <2>5
<1>10. /\ number = Numbers' /\ open = OpenTurns' /\ IsFiniteSet(OpenTurns')
       /\ turn' \in TurnTable /\ said' \in [Sessions -> Nat]
  BY <1>1, <1>3 DEF StreamInv, Numbers, OpenTurns
<1>11. Sound(c, number, open, Tracked(open, stage))
  BY <1>1, <1>9, BufferNow
<1> QED
  BY <1>7, <1>9, <1>10, <1>11, StepTaken

\* A turn begins.
LEMMA BeginKeeps ==
  ASSUME StreamInv, NEW s \in Sessions, Begin(s)
  PROVE  StreamInv'
<1>1. PICK number, open : number = Numbers /\ open = OpenTurns
  OBVIOUS
<1>2. Live
  BY DEF Begin, Takes
<1>3. number \in [Sessions -> Nat] /\ open \in SUBSET Sessions /\ Sound(buffer, number, open, open)
  BY <1>1, <1>2, BufferNow
<1>4. /\ turn' = [turn EXCEPT ![s] = [number |-> @.number + 1, open |-> TRUE]]
      /\ said' = [said EXCEPT ![s] = @ + 1] /\ router' = router /\ ~ turn[s].open
  BY DEF Begin
<1>5. turn \in TurnTable /\ said \in [Sessions -> Nat] /\ router \in Routers /\ buffer \in Buffer
  BY BufferNow
<1>6. PICK next, more : next = [number EXCEPT ![s] = @ + 1] /\ more = open \cup {s}
  OBVIOUS
<1>7. /\ turn' \in TurnTable /\ said' \in [Sessions -> Nat] /\ router' \in Routers
      /\ next = Numbers' /\ more = OpenTurns' /\ next[s] = turn[s].number + 1
  <2>1. turn' \in TurnTable /\ said' \in [Sessions -> Nat] /\ router' \in Routers
    BY <1>4, <1>5 DEF TurnTable
  <2>2. \A k \in Sessions : next[k] = turn'[k].number /\ (k \in more <=> turn'[k].open)
    <3> TAKE k \in Sessions
    <3>1. CASE k = s
      BY <1>1, <1>4, <1>5, <1>6, <3>1 DEF TurnTable, Numbers, OpenTurns
    <3>2. CASE k # s
      BY <1>1, <1>4, <1>5, <1>6, <3>2 DEF TurnTable, Numbers, OpenTurns
    <3> QED
      BY <3>1, <3>2
  <2>3. next = Numbers'
    <3>1. next = [k \in Sessions |-> next[k]]
      BY <1>3, <1>6
    <3> QED
      BY <2>2, <3>1 DEF Numbers
  <2>4. more = OpenTurns'
    BY <1>3, <1>6, <2>2 DEF OpenTurns
  <2>5. next[s] = turn[s].number + 1
    BY <1>1, <1>3, <1>6, <1>5, NumbersAre
  <2> QED
    BY <2>1, <2>3, <2>4, <2>5
<1>8. IsFiniteSet(OpenTurns')
  <2>1. IsFiniteSet(open)
    BY <1>1 DEF StreamInv
  <2>2. IsFiniteSet(open \cup {s})
    BY <2>1, FS_AddElement
  <2> QED
    BY <1>6, <1>7, <2>2
<1>9. PICK b : b = [buffer EXCEPT !.active = @ \cup {s}]
  OBVIOUS
<1>10. /\ Sound(b, number, open, open) /\ CarriesAlike(buffer, b)
  <2>1. b \in Buffer /\ SameFrames(buffer, b) /\ b.timer = buffer.timer
        /\ b.waiting = buffer.waiting
    BY <1>5, <1>9 DEF Buffer, SameFrames
  <2> QED
    BY <1>3, <2>1, SoundSame DEF Sound
<1>11. s \notin open
  BY <1>1, <1>4 DEF OpenTurns
<1>12. Sound(b, next, more, more)
  BY <1>3, <1>6, <1>10, <1>11, TurnBegun
<1>13. PICK d : d = EventFrame(s, next[s], "note", 0, "none", 1)
  OBVIOUS
<1>14. PICK c : c = Push(b, d)
  OBVIOUS
<1>15. Buffered(c)
  <2>1. d = EventFrame(s, turn[s].number + 1, "note", 0, "none", 1)
    BY <1>7, <1>13
  <2> QED
    BY <1>9, <1>14, <2>1 DEF Begin
<1>16. /\ Sound(c, next, more, more)
       /\ \A k \in Sessions : \A x : Carries(c, k, x) <=> x \in 1..said'[k]
       /\ Owes(c, stage, owed) /\ OwedWas(owed, said')
  <2>1. next \in [Sessions -> Nat] /\ more \in SUBSET Sessions
    BY <1>3, <1>6
  <2>2. /\ "note" \in ChunkKinds \cup ToolKinds \cup {"note"} /\ "none" \in Statuses
        /\ 1 \in Nat \ {0} /\ 0 \in Nat
    BY DEF Statuses
  <2> QED
    BY <1>4, <1>10, <1>12, <1>13, <1>14, <2>1, <2>2, EventPushed
<1>17. Sound(c, next, more, Tracked(more, stage))
  BY <1>2, <1>16 DEF Live, Tracked
<1> QED
  BY <1>7, <1>8, <1>15, <1>16, <1>17, StepTaken

\* settle(): the turn is forgotten, and its last frame goes out.
LEMMA SettleKeeps ==
  ASSUME StreamInv, NEW s \in Sessions, NEW reason, NEW stored \in BOOLEAN,
         Settle(s, reason, stored)
  PROVE  StreamInv'
<1>1. PICK number, open : number = Numbers /\ open = OpenTurns
  OBVIOUS
<1>2. Live
  BY DEF Settle
<1>3. number \in [Sessions -> Nat] /\ open \in SUBSET Sessions /\ Sound(buffer, number, open, open)
  BY <1>1, <1>2, BufferNow
<1>4. /\ turn' = [turn EXCEPT ![s].open = FALSE]
      /\ said' = [said EXCEPT ![s] = @ + 1] /\ router' = router
  BY DEF Settle
<1>5. turn \in TurnTable /\ said \in [Sessions -> Nat] /\ router \in Routers /\ buffer \in Buffer
  BY BufferNow
<1>6. PICK less : less = open \ {s}
  OBVIOUS
<1>7. /\ turn' \in TurnTable /\ said' \in [Sessions -> Nat] /\ router' \in Routers
      /\ number = Numbers' /\ less = OpenTurns' /\ number[s] = turn[s].number
  <2>1. turn' \in TurnTable /\ said' \in [Sessions -> Nat] /\ router' \in Routers
    <3>1. [turn[s] EXCEPT !.open = FALSE] \in [number : Nat, open : BOOLEAN]
      BY <1>5 DEF TurnTable
    <3>2. turn' = [turn EXCEPT ![s] = [turn[s] EXCEPT !.open = FALSE]]
      BY <1>4
    <3>3. turn' \in TurnTable
      BY <1>5, <3>1, <3>2 DEF TurnTable
    <3> QED
      BY <1>4, <1>5, <3>3
  <2>2. \A k \in Sessions : turn'[k].number = turn[k].number /\ (turn'[k].open <=> turn[k].open /\ k # s)
    <3> TAKE k \in Sessions
    <3>1. CASE k = s
      BY <1>4, <1>5, <3>1 DEF TurnTable
    <3>2. CASE k # s
      BY <1>4, <1>5, <3>2 DEF TurnTable
    <3> QED
      BY <3>1, <3>2
  <2>3. number = Numbers'
    BY <1>1, <2>2 DEF Numbers
  <2>4. less = OpenTurns'
    BY <1>1, <1>6, <2>2 DEF OpenTurns
  <2>5. number[s] = turn[s].number
    BY <1>1, <1>5, NumbersAre
  <2> QED
    BY <2>1, <2>3, <2>4, <2>5
<1>8. IsFiniteSet(OpenTurns')
  <2>1. IsFiniteSet(open)
    BY <1>1 DEF StreamInv
  <2>2. IsFiniteSet(open \ {s})
    BY <2>1, FS_RemoveElement
  <2> QED
    BY <1>6, <1>7, <2>2
<1>9. PICK a : a = [buffer EXCEPT !.active = @ \ {s}]
  OBVIOUS
<1>10. /\ Sound(a, number, open, open) /\ CarriesAlike(buffer, a)
  <2>1. a \in Buffer /\ SameFrames(buffer, a) /\ a.timer = buffer.timer
        /\ a.waiting = buffer.waiting
    BY <1>5, <1>9 DEF Buffer, SameFrames
  <2> QED
    BY <1>3, <2>1, SoundSame DEF Sound
<1>11. PICK m, b : m = number[s] /\ b = ForgetTurn(a, s, m)
  OBVIOUS
<1>12. Sound(b, number, less, less) /\ CarriesAlike(buffer, b)
  <2>1. /\ m = number[s] => Sound(ForgetTurn(a, s, m), number, open \ {s}, open \ {s})
        /\ CarriesAlike(a, ForgetTurn(a, s, m))
    BY <1>3, <1>10, TurnForgotten
  <2> QED
    BY <1>6, <1>10, <1>11, <2>1 DEF CarriesAlike, SameEvents, KeepsClear
<1>13. PICK d : d = EventFrame(s, number[s], "note", 0, "none", 1)
  OBVIOUS
<1>14. PICK c : c = Push(b, d)
  OBVIOUS
<1>15. Buffered(c)
  <2>1. /\ d = EventFrame(s, turn[s].number, "note", 0, "none", 1)
        /\ b = ForgetTurn([buffer EXCEPT !.active = @ \ {s}], s, turn[s].number)
    BY <1>7, <1>9, <1>11, <1>13
  <2> QED
    BY <1>14, <2>1 DEF Settle
<1>16. /\ Sound(c, number, less, less)
       /\ \A k \in Sessions : \A x : Carries(c, k, x) <=> x \in 1..said'[k]
       /\ Owes(c, stage, owed) /\ OwedWas(owed, said')
  <2>1. less \in SUBSET Sessions
    BY <1>3, <1>6
  <2>2. /\ "note" \in ChunkKinds \cup ToolKinds \cup {"note"} /\ "none" \in Statuses
        /\ 1 \in Nat \ {0} /\ 0 \in Nat
    BY DEF Statuses
  <2> QED
    BY <1>3, <1>4, <1>12, <1>13, <1>14, <2>1, <2>2, EventPushed
<1>17. Sound(c, number, less, Tracked(less, stage))
  BY <1>2, <1>16 DEF Live, Tracked
<1> QED
  BY <1>7, <1>8, <1>15, <1>16, <1>17, StepTaken

\* A step that leaves every frame where it is.
LEMMA SameFramesQuiet ==
  ASSUME StreamInv, Live, NEW b \in Buffer, SameFrames(buffer, b),
         b.timer = "off" => buffer.timer = "off", b.waiting = buffer.waiting
  PROVE  Sound(b, Numbers, OpenTurns, Tracked(OpenTurns, stage)) /\ CarriesAlike(buffer, b)
<1>1. PICK number, open, tracked :
        /\ number = Numbers /\ open = OpenTurns /\ tracked = Tracked(OpenTurns, stage)
  OBVIOUS
<1>2. Good(buffer, number, open, tracked) /\ Pumped(buffer)
  BY <1>1, BufferNow
<1>3. Sound(b, number, open, tracked) /\ CarriesAlike(buffer, b)
  BY <1>2, SoundSame
<1> QED
  BY <1>1, <1>3

\* A heartbeat tells of no event.
LEMMA HeartbeatKeeps ==
  ASSUME StreamInv, NEW s \in Sessions, Heartbeat(s)
  PROVE  StreamInv'
<1>0. Live /\ turn' = turn /\ said' = said /\ router' = router /\ turn[s].open
  BY DEF Heartbeat, Takes
<1>1. turn \in TurnTable /\ router' \in Routers /\ buffer \in Buffer
  BY <1>0, BufferNow
<1>2. CASE s \in buffer.active
  <2>1. PICK b : b = [buffer EXCEPT !.active = @ \ {s}]
    OBVIOUS
  <2>2. Buffered(b)
    BY <1>2, <2>1 DEF Heartbeat
  <2>3. b \in Buffer /\ SameFrames(buffer, b) /\ b.timer = buffer.timer
      /\ b.waiting = buffer.waiting
    BY <1>1, <2>1 DEF Buffer, SameFrames
  <2>4. Sound(b, Numbers, OpenTurns, Tracked(OpenTurns, stage)) /\ CarriesAlike(buffer, b)
    BY <1>0, <2>3, SameFramesQuiet
  <2> QED
    BY <1>0, <1>1, <2>2, <2>4, StepQuiet
<1>3. CASE s \notin buffer.active
  <2>1. PICK number, open : number = Numbers /\ open = OpenTurns
    OBVIOUS
  <2>2. /\ number \in [Sessions -> Nat] /\ open \in SUBSET Sessions
        /\ Sound(buffer, number, open, open) /\ number[s] = turn[s].number
    BY <1>0, <1>1, <2>1, BufferNow, NumbersAre
  <2>3. PICK d : d = ObserverFrame(s, number[s], "note", 0, "none", <<>>)
    OBVIOUS
  <2>4. d = [session |-> s, turn |-> number[s], kind |-> "note", msg |-> 0, status |-> "none",
             body |-> <<>>]
    BY <2>3 DEF ObserverFrame
  <2>5. d \in Draft /\ Told(d) = {} /\ Sorted(d)
    <3>1. d.body = <<>> /\ d.kind = "note" /\ DOMAIN d.body = {}
      BY <2>4
    <3>2. <<>> \in Seq(Nat) /\ number[s] \in Nat
      BY <2>2
    <3> QED
      BY <2>4, <3>1, <3>2 DEF Draft, FrameKinds, Statuses, Told, Sorted
  <2>6. Pushable(buffer, d, number, open, open)
    BY <2>4, <2>5 DEF Pushable, Newer, ChunkKinds, ToolKinds
  <2>7. PICK b : b = buffer
    OBVIOUS
  <2>8. PICK c : c = Push(b, d)
    OBVIOUS
  <2>9. Sound(b, number, open, open) /\ Pushable(b, d, number, open, open)
    BY <2>2, <2>6, <2>7
  <2>10. Sound(c, number, open, open) /\ CarriesAlso(b, c, d) /\ ClearsWith(b, c, d)
    BY <2>2, <2>8, <2>9, FramePushed DEF Gains
  <2>11. CarriesAlike(buffer, c)
    <3>1. \A k : ToldOf(k, d) = {}
      BY <2>5 DEF ToldOf
    <3>2. \A old : Recent(d, old)
      BY <2>5 DEF Recent
    <3>3. KeepsClear(b, c)
      BY <2>10, <3>2 DEF ClearsWith, KeepsClear
    <3> QED
      BY <2>7, <2>10, <3>1, <3>3 DEF CarriesAlso, CarriesAlike, SameEvents
  <2>12. Sound(c, Numbers, OpenTurns, Tracked(OpenTurns, stage))
    BY <1>0, <2>1, <2>10, BufferNow
  <2>13. Buffered(c)
    BY <1>3, <2>2, <2>3, <2>7, <2>8 DEF Heartbeat
  <2> QED
    BY <1>0, <1>1, <2>11, <2>12, <2>13, StepQuiet
<1> QED
  BY <1>2, <1>3

\* The timer of a message.
LEMMA ChunkTimerKeeps ==
  ASSUME StreamInv, NEW i, ChunkTimer(i)
  PROVE  StreamInv'
<1>0. Live /\ turn' = turn /\ said' = said /\ router' \in Routers
  BY BufferNow DEF ChunkTimer
<1>1. PICK number, open : number = Numbers /\ open = OpenTurns
  OBVIOUS
<1>2. number \in [Sessions -> Nat] /\ open \in SUBSET Sessions
  BY <1>1, BufferNow
<1>3. PICK b, d, c : b = buffer /\ d = buffer.pending[i] /\ c = ReleaseChunk(b, d)
  OBVIOUS
<1>4. Sound(b, number, open, open)
  BY <1>0, <1>1, <1>3, BufferNow
<1>5. Sound(c, number, open, open) /\ Released(b, c, {d})
  BY <1>2, <1>3, <1>4, ChunkReleased
<1>6. CarriesAlike(buffer, c)
  BY <1>3, <1>5 DEF Released, CarriesAlike, SameEvents, KeepsClear
<1>7. Sound(c, Numbers, OpenTurns, Tracked(OpenTurns, stage))
  BY <1>0, <1>1, <1>5, BufferNow
<1>8. Buffered(c)
  BY <1>3 DEF ChunkTimer
<1> QED
  BY <1>0, <1>6, <1>7, <1>8, StepQuiet

\* A second passes.
LEMMA SecondKeeps ==
  ASSUME StreamInv, SecondPasses
  PROVE  StreamInv'
<1>0. Live /\ turn' = turn /\ said' = said /\ router' \in Routers /\ buffer \in Buffer
  BY BufferNow DEF SecondPasses
<1>1. PICK b : b = [buffer EXCEPT !.elapsed = TRUE, !.timer = IF @ = "armed" THEN "due" ELSE @]
  OBVIOUS
<1>2. /\ b \in Buffer /\ SameFrames(buffer, b) /\ b.waiting = buffer.waiting
      /\ b.timer = "off" => buffer.timer = "off"
  <2>1. PICK t : t = IF buffer.timer = "armed" THEN "due" ELSE buffer.timer
    OBVIOUS
  <2>2. t \in Timers /\ (t = "off" => buffer.timer = "off")
    BY <1>0, <2>1 DEF Buffer, Timers
  <2>3. b = [[buffer EXCEPT !.elapsed = TRUE] EXCEPT !.timer = t]
    BY <1>0, <1>1, <2>1 DEF Buffer
  <2> QED
    BY <1>0, <2>2, <2>3 DEF Buffer, SameFrames
<1>3. Sound(b, Numbers, OpenTurns, Tracked(OpenTurns, stage)) /\ CarriesAlike(buffer, b)
  BY <1>0, <1>2, SameFramesQuiet
<1>4. Buffered(b)
  BY <1>1 DEF SecondPasses
<1> QED
  BY <1>0, <1>3, <1>4, StepQuiet

\* The timer of the queue.
LEMMA PumpTimerKeeps ==
  ASSUME StreamInv, PumpTimer
  PROVE  StreamInv'
<1>0. turn' = turn /\ said' = said /\ router' \in Routers /\ buffer \in Buffer
  BY BufferNow DEF PumpTimer
<1>1. PICK number, open, tracked :
        /\ number = Numbers /\ open = OpenTurns /\ tracked = Tracked(OpenTurns, stage)
  OBVIOUS
<1>2. /\ number \in [Sessions -> Nat] /\ open \in SUBSET Sessions /\ tracked \in SUBSET Sessions
      /\ Good(buffer, number, open, tracked)
  BY <1>1, BufferNow
<1>3. PICK b, c : b = [buffer EXCEPT !.timer = "off"] /\ c = Pump(b)
  OBVIOUS
<1>4. b \in Buffer /\ SameFrames(buffer, b) /\ b.waiting = buffer.waiting
  BY <1>0, <1>3 DEF Buffer, SameFrames, Timers
<1>5. Good(b, number, open, tracked) /\ CarriesAlike(buffer, b)
  BY <1>2, <1>4, SoundSame
<1>6. Sound(c, number, open, tracked)
  BY <1>2, <1>3, <1>5, PumpCarries
<1>7. CarriesAlike(b, c)
  BY <1>2, <1>3, <1>5, PumpCarries
<1>8. CarriesAlike(buffer, c)
  BY <1>5, <1>7 DEF CarriesAlike, SameEvents, KeepsClear
<1>9. Sound(c, Numbers, OpenTurns, Tracked(OpenTurns, stage))
  BY <1>1, <1>6 DEF Sound
<1>10. Buffered(c)
  BY <1>3 DEF PumpTimer
<1> QED
  BY <1>0, <1>8, <1>9, <1>10, StepQuiet

\* The relay goes and comes.
LEMMA LinkKeeps ==
  ASSUME StreamInv, LinkLost \/ LinkBack
  PROVE  StreamInv'
<1>0. Live /\ turn' = turn /\ said' = said /\ router' \in Routers /\ buffer \in Buffer
  BY BufferNow DEF LinkLost, LinkBack
<1>1. PICK up \in BOOLEAN : Buffered([buffer EXCEPT !.up = up])
  BY DEF LinkLost, LinkBack
<1>2. PICK b : b = [buffer EXCEPT !.up = up]
  OBVIOUS
<1>3. /\ b \in Buffer /\ SameFrames(buffer, b) /\ b.timer = buffer.timer
      /\ b.waiting = buffer.waiting
  BY <1>0, <1>2 DEF Buffer, SameFrames
<1>4. Sound(b, Numbers, OpenTurns, Tracked(OpenTurns, stage)) /\ CarriesAlike(buffer, b)
  BY <1>0, <1>3, SameFramesQuiet
<1> QED
  BY <1>0, <1>1, <1>2, <1>4, StepQuiet

\* The buffer changes, and nothing is said.
LEMMA StepStops ==
  ASSUME StreamInv, turn' = turn, said' = said, router' = router, stage' \in Stages,
         NEW c, buffer' = c, SameEvents(buffer, c), StreamOK(c, Numbers, OpenTurns, stage'),
         NEW old, owed' = old, OwedWas(old, said), Owes(c, stage', old)
  PROVE  StreamInv'
<1>1. Numbers' = Numbers /\ OpenTurns' = OpenTurns
  BY DEF Numbers, OpenTurns
<1>2. StreamOK(buffer, Numbers, OpenTurns, stage)'
  BY <1>1
<1>3. SaidCarried'
  BY DEF StreamInv, SaidCarried, SameEvents
<1>4. Owes(buffer, stage, owed)' /\ OwedWas(owed, said)'
  OBVIOUS
<1> QED
  BY <1>1, <1>2, <1>3, <1>4 DEF StreamInv

\* stop() and its deadline.
LEMMA StopKeeps ==
  ASSUME StreamInv, Stop \/ FlushDeadline
  PROVE  StreamInv'
<1>0. /\ Live /\ turn' = turn /\ said' = said /\ router' = router
      /\ stage' \in Stages
  BY DEF Stop, FlushDeadline, Live, Stages
<1>1. PICK number, open : number = Numbers /\ open = OpenTurns
  OBVIOUS
<1>2. /\ number \in [Sessions -> Nat] /\ open \in SUBSET Sessions
      /\ Sound(buffer, number, open, open) /\ IsFiniteSet(OpenTurns)
  BY <1>0, <1>1, BufferNow DEF StreamInv
<1>3. ASSUME NEW b, Sound(b, number, open, open), SameEvents(buffer, b),
             buffer' = Closed(b), stage' \in {"closed", "expired"},
             NEW old, owed' = old, OwedWas(old, said),
             stage' = "closed" => Clear(b, old, FALSE)
      PROVE  StreamInv'
  <2>1. PICK c : c = Closed(b)
    OBVIOUS
  <2>2. Good(c, number, open, {}) /\ Drained(c) /\ CarriesAlike(b, c)
    BY <1>2, <1>3, <2>1, StreamCloses
  <2>3. Tracked(open, stage') = {} /\ stage' \notin {"running", "flushing"}
    BY <1>3 DEF Tracked
  <2>4. StreamOK(c, number, open, stage')
    BY <2>2, <2>3 DEF StreamOK
  <2>5. SameEvents(buffer, c) /\ buffer' = c
    BY <1>3, <2>1, <2>2 DEF CarriesAlike, SameEvents
  <2>6. Owes(c, stage', old)
    BY <1>3, <2>2 DEF Owes, CarriesAlike, KeepsClear
  <2> QED
    BY <1>0, <1>1, <1>3, <2>4, <2>5, <2>6, StepStops
<1>4. CASE Stop
  <2>1. PICK a, b : a = buffer /\ b = Flush(a)
    OBVIOUS
  <2>2. Sound(a, number, open, open)
    BY <1>2, <2>1
  <2>3. /\ Sound(b, number, open, open) /\ SameEvents(a, b)
        /\ \A old : Clear(b, old, b.waiting)
    BY <1>2, <2>1, <2>2, FlushDone
  <2>a. owed' = said /\ OwedWas(said, said)
    <3>1. said \in [Sessions -> Nat]
      BY BufferNow
    <3> QED
      BY <1>4, <3>1 DEF Stop, OwedWas
  <2>b. b.waiting \in BOOLEAN
    BY <2>3 DEF Sound, Good, Buffer
  <2>4. CASE b.waiting
    <3>1. buffer' = b /\ stage' = "flushing"
      BY <1>4, <2>1, <2>4 DEF Stop
    <3>2. StreamOK(b, number, open, stage')
      BY <2>3, <3>1 DEF StreamOK, Sound, Tracked, Pumped, Drained
    <3>3. Owes(b, stage', said)
      <4>1. b.waiting = TRUE
        BY <2>4, <2>b
      <4>2. Clear(b, said, TRUE)
        BY <2>3, <4>1
      <4> QED
        BY <3>1, <4>2 DEF Owes
    <3> QED
      BY <1>0, <1>1, <2>1, <2>3, <2>a, <3>1, <3>2, <3>3, StepStops
  <2>5. CASE ~ b.waiting
    <3>1. buffer' = Closed(b) /\ stage' = "closed"
      BY <1>4, <2>1, <2>5 DEF Stop
    <3>2. b.waiting = FALSE
      BY <2>5, <2>b
    <3>3. Clear(b, said, FALSE)
      BY <2>3, <3>2
    <3> QED
      BY <1>3, <2>1, <2>3, <2>a, <3>1, <3>3
  <2> QED
    BY <2>4, <2>5
<1>5. CASE FlushDeadline
  <2>1. PICK b : b = buffer
    OBVIOUS
  <2>2. Sound(b, number, open, open) /\ SameEvents(buffer, b)
    BY <1>2, <2>1 DEF SameEvents
  <2>3. buffer' = Closed(b) /\ stage' = "expired" /\ owed' = owed /\ OwedWas(owed, said)
    BY <1>5, <2>1 DEF FlushDeadline, StreamInv
  <2> QED
    BY <1>3, <2>2, <2>3
<1> QED
  BY <1>4, <1>5

\* The message counters of a session.
LEMMA RoutersMove ==
  ASSUME router \in Routers, NEW s \in Sessions
  PROVE  /\ router[s].messageSeq \in Nat /\ router[s].current \in Nat
         /\ \A r \in [messageSeq : Nat, current : Nat] : [router EXCEPT ![s] = r] \in Routers
         /\ [router EXCEPT ![s].current = 0] \in Routers
<1>1. router[s] \in [messageSeq : Nat, current : Nat]
  BY DEF Routers
<1>2. \A r \in [messageSeq : Nat, current : Nat] : [router EXCEPT ![s] = r] \in Routers
  BY DEF Routers
<1>3. [router[s] EXCEPT !.current = 0] \in [messageSeq : Nat, current : Nat]
  BY <1>1
<1> QED
  BY <1>1, <1>2, <1>3

\* The events of a turn.
LEMMA SessionKeeps ==
  ASSUME StreamInv, NEW s \in Sessions,
         \/ MessageStart(s) \/ MessageEnd(s) \/ ToolUpdate(s)
         \/ \E kind \in ChunkKinds : Delta(s, kind)
         \/ \E usage \in Samples : MessageEndWithUsage(s, usage)
         \/ \E n \in {1, Budget + 1} : ToolStart(s, n)
         \/ \E status \in {"completed", "failed"}, n \in {1, Budget + 1} : ToolEnd(s, status, n)
  PROVE  StreamInv'
<1>0. router \in Routers /\ turn \in TurnTable /\ said \in [Sessions -> Nat]
  BY BufferNow
<1>1. /\ \A n \in {1, Budget + 1} : n \in Nat \ {0}
      /\ {"none", "executing", "completed", "failed"} = Statuses
      /\ 0 \in Nat /\ 1 \in Nat \ {0} /\ ToolKinds = {"tool", "update"}
  BY BufferAssumption DEF Statuses, ToolKinds
<1>2. CASE MessageStart(s) \/ MessageEnd(s)
  <2>1. /\ buffer' = buffer /\ turn' = turn /\ said' = said /\ stage' = stage /\ owed' = owed
    BY <1>2 DEF MessageStart, MessageEnd
  <2>2. router' \in Routers
    <3>1. CASE MessageStart(s)
      <4>1. PICK r : r = [messageSeq |-> router[s].messageSeq + 1,
                          current |-> router[s].messageSeq + 1]
        OBVIOUS
      <4>2. router[s].messageSeq \in Nat
        BY <1>0, RoutersMove
      <4>3. r \in [messageSeq : Nat, current : Nat]
        BY <4>1, <4>2
      <4>4. router' = [router EXCEPT ![s] = r]
        BY <3>1, <4>1 DEF MessageStart
      <4> QED
        BY <1>0, <4>3, <4>4, RoutersMove
    <3>2. CASE MessageEnd(s)
      BY <1>0, <3>2, RoutersMove DEF MessageEnd
    <3> QED
      BY <1>2, <3>1, <3>2
  <2>3. Numbers' = Numbers /\ OpenTurns' = OpenTurns
    BY <2>1 DEF Numbers, OpenTurns
  <2> QED
    BY <2>1, <2>2, <2>3 DEF StreamInv, SaidCarried
<1>3. CASE \E kind \in ChunkKinds : Delta(s, kind)
  <2>1. PICK kind \in ChunkKinds : Delta(s, kind)
    BY <1>3
  <2>2. PICK now : now = IF router[s].current # 0 THEN router[s]
                         ELSE [messageSeq |-> router[s].messageSeq + 1,
                               current |-> router[s].messageSeq + 1]
    OBVIOUS
  <2>3. now \in [messageSeq : Nat, current : Nat]
    BY <1>0, <2>2, RoutersMove DEF Routers
  <2>4. PICK msg : msg = now.current
    OBVIOUS
  <2>5. Live /\ Emits(s, kind, msg, "none", 1) /\ router' = [router EXCEPT ![s] = now]
    BY <2>1, <2>2, <2>4 DEF Delta, Takes
  <2>6. router' \in Routers /\ msg \in Nat /\ kind \in ChunkKinds \cup ToolKinds \cup {"note"}
    BY <1>0, <2>3, <2>4, <2>5, RoutersMove
  <2> QED
    BY <1>1, <2>5, <2>6, EventTaken
<1>4. CASE \E usage \in Samples : MessageEndWithUsage(s, usage)
  <2>1. /\ Live /\ Emits(s, "note", 0, "none", 1) /\ router' = [router EXCEPT ![s].current = 0]
    BY <1>4 DEF MessageEndWithUsage, Takes
  <2>2. router' \in Routers /\ "note" \in ChunkKinds \cup ToolKinds \cup {"note"}
    BY <1>0, <2>1, RoutersMove
  <2> QED
    BY <1>1, <2>1, <2>2, EventTaken
<1>5. CASE \E n \in {1, Budget + 1} : ToolStart(s, n)
  <2>1. PICK n \in {1, Budget + 1} : Live /\ Emits(s, "tool", 0, "executing", n) /\ router' = router
    BY <1>5 DEF ToolStart, Takes
  <2>2. "tool" \in ToolKinds /\ "executing" \in Statuses /\ n \in Nat \ {0} /\ router' \in Routers
    BY <1>0, <1>1, <2>1
  <2> QED
    BY <1>1, <2>1, <2>2, EventTaken
<1>6. CASE ToolUpdate(s)
  <2>1. Live /\ Emits(s, "update", 0, "executing", 1) /\ router' = router
    BY <1>6 DEF ToolUpdate, Takes
  <2>2. "update" \in ToolKinds /\ "executing" \in Statuses /\ router' \in Routers
    BY <1>0, <1>1, <2>1
  <2> QED
    BY <1>1, <2>1, <2>2, EventTaken
<1>7. CASE \E status \in {"completed", "failed"}, n \in {1, Budget + 1} : ToolEnd(s, status, n)
  <2>1. PICK status \in {"completed", "failed"}, n \in {1, Budget + 1} :
          Live /\ Emits(s, "update", 0, status, n) /\ router' = router
    BY <1>7 DEF ToolEnd, Takes
  <2>2. "update" \in ToolKinds /\ status \in Statuses /\ n \in Nat \ {0} /\ router' \in Routers
    BY <1>0, <1>1, <2>1
  <2> QED
    BY <1>1, <2>1, <2>2, EventTaken
<1> QED
  BY <1>2, <1>3, <1>4, <1>5, <1>6, <1>7

\* Every step keeps the invariant of the stream.
LEMMA StreamKeeps ==
  ASSUME StreamInv, [StreamNext]_observerVars
  PROVE  StreamInv'
<1>1. CASE \E s \in Sessions : Begin(s)
  BY <1>1, BeginKeeps
<1>2. CASE \E s \in Sessions : Heartbeat(s)
  BY <1>2, HeartbeatKeeps
<1>3. CASE \E s \in Sessions, reason \in Reasons, stored \in BOOLEAN : Settle(s, reason, stored)
  BY <1>3, SettleKeeps
<1>4. CASE \E s \in Sessions :
             \/ MessageStart(s) \/ MessageEnd(s) \/ ToolUpdate(s)
             \/ \E kind \in ChunkKinds : Delta(s, kind)
             \/ \E usage \in Samples : MessageEndWithUsage(s, usage)
             \/ \E n \in {1, Budget + 1} : ToolStart(s, n)
             \/ \E status \in {"completed", "failed"}, n \in {1, Budget + 1} :
                  ToolEnd(s, status, n)
  BY <1>4, SessionKeeps
<1>5. CASE \E i \in DOMAIN buffer.pending : ChunkTimer(i)
  BY <1>5, ChunkTimerKeeps
<1>6. CASE SecondPasses
  BY <1>6, SecondKeeps
<1>7. CASE PumpTimer
  BY <1>7, PumpTimerKeeps
<1>8. CASE LinkLost \/ LinkBack
  BY <1>8, LinkKeeps
<1>9. CASE Stop \/ FlushDeadline
  BY <1>9, StopKeeps
<1>10. CASE UNCHANGED observerVars
  <2>1. /\ buffer' = buffer /\ turn' = turn /\ said' = said /\ stage' = stage /\ router' = router
        /\ owed' = owed
    BY <1>10 DEF observerVars, streamVars
  <2>2. Numbers' = Numbers /\ OpenTurns' = OpenTurns
    BY <2>1 DEF Numbers, OpenTurns
  <2> QED
    BY <2>1, <2>2 DEF StreamInv, SaidCarried
<1> QED
  BY <1>1, <1>2, <1>3, <1>4, <1>5, <1>6, <1>7, <1>8, <1>9, <1>10 DEF StreamNext

-----------------------------------------------------------------------------
(* Usage *)

Count == Nat \cup {Unknown}
CounterSet == [Counters -> Count]
StopReasons == {"end_turn", "cancelled", "error", "unknown"}
Metric ==
  [turn : Nat, turnSeq : Nat, cumulative : CounterSet, delta : CounterSet, stop : StopReasons]

\* The series of s counts on from the last metric of s, unless the outbox refused one since.
SeriesFollows(s) ==
  metrics[s] # <<>> =>
    LET last == metrics[s][Len(metrics[s])] IN
    /\ last.turnSeq <= series[s].turnSeq
    /\ Covers(series[s].cumulative, last.cumulative)
    /\ last.turnSeq = series[s].turnSeq => last.cumulative = series[s].cumulative

UsageInv ==
  /\ totals \in [Sessions -> CounterSet] /\ observed \in [Sessions -> CounterSet]
  /\ series \in [Sessions -> [turnSeq : Nat, cumulative : CounterSet]]
  /\ metrics \in [Sessions -> Seq(Metric)]
  /\ \A s \in Sessions : SeriesFollows(s)
  /\ MetricsAddUp

\* Counts add up in any order; an unknown one stays unknown.
LEMMA CountsAdd ==
  /\ \A x, y \in CounterSet : AddCounters(x, y) \in CounterSet
  /\ \A x, y, z \in CounterSet :
       AddCounters(AddCounters(x, y), z) = AddCounters(x, AddCounters(y, z))
  /\ Empty \in CounterSet /\ \A x \in CounterSet : AddCounters(x, Empty) = x
  /\ \A x, y \in CounterSet : Covers(AddCounters(x, y), x)
<1> USE UnknownIsNoCount DEF CounterSet, Count, AddCounters, AddCounter
<1>1. \A x, y \in CounterSet : AddCounters(x, y) \in CounterSet
  OBVIOUS
<1>2. ASSUME NEW x \in CounterSet, NEW y \in CounterSet, NEW z \in CounterSet
      PROVE  AddCounters(AddCounters(x, y), z) = AddCounters(x, AddCounters(y, z))
  <2>1. ASSUME NEW c \in Counters
        PROVE  AddCounter(AddCounter(x[c], y[c]), z[c]) = AddCounter(x[c], AddCounter(y[c], z[c]))
    OBVIOUS
  <2> HIDE DEF AddCounter
  <2> QED
    BY <2>1
<1>3. Empty \in CounterSet /\ \A x \in CounterSet : AddCounters(x, Empty) = x
  BY DEF Empty
<1>4. \A x, y \in CounterSet : Covers(AddCounters(x, y), x)
  BY DEF Covers
<1> QED
  BY <1>1, <1>2, <1>3, <1>4

\* A turn's delta is what its metric counts on by.
LEMMA DeltaCounts ==
  ASSUME NEW base \in CounterSet, NEW used \in CounterSet, NEW last \in CounterSet,
         Covers(base, last)
  PROVE  LET next == AddCounters(base, used)
             delta == DeriveTurnDelta(next, base) IN
         /\ delta \in CounterSet
         /\ Covers(next, AddCounters(last, delta))
         /\ last = base => next = AddCounters(last, delta)
<1> DEFINE next == AddCounters(base, used)
<1>1. ~ CountersRegressed(next, base) /\ next \in CounterSet
  BY UnknownIsNoCount DEF CounterSet, Count, AddCounters, AddCounter, CountersRegressed
<1>2. DeriveTurnDelta(next, base) = DiffCounters(next, base)
  BY <1>1 DEF DeriveTurnDelta
<1> QED
  BY <1>1, <1>2, UnknownIsNoCount DEF CounterSet, Count, AddCounters, AddCounter, DiffCounters, Covers

\* A turn settles its usage.
LEMMA UsageSettles ==
  ASSUME UsageInv, NEW s \in Sessions, NEW number \in Nat, NEW reason, NEW stored \in BOOLEAN,
         SettleUsage(s, number, reason, stored)
  PROVE  UsageInv'
<1> DEFINE base == series[s].cumulative
           used == totals[s]
           next == AddCounters(base, used)
           seq == series[s].turnSeq + 1
           metric == [turn |-> number, turnSeq |-> seq, cumulative |-> next,
                      delta |-> DeriveTurnDelta(next, base), stop |-> ToStopReason(reason)]
<1>0. /\ totals \in [Sessions -> CounterSet] /\ observed \in [Sessions -> CounterSet]
      /\ series \in [Sessions -> [turnSeq : Nat, cumulative : CounterSet]]
      /\ metrics \in [Sessions -> Seq(Metric)]
      /\ \A k \in Sessions : SeriesFollows(k)
      /\ MetricsAddUp
      /\ base \in CounterSet /\ used \in CounterSet /\ next \in CounterSet /\ seq \in Nat
  <2>1. /\ totals \in [Sessions -> CounterSet]
        /\ series \in [Sessions -> [turnSeq : Nat, cumulative : CounterSet]]
    BY DEF UsageInv
  <2>2. base \in CounterSet /\ used \in CounterSet /\ seq \in Nat
    BY <2>1
  <2>3. next \in CounterSet
    BY <2>2, CountsAdd
  <2> QED
    BY <2>2, <2>3 DEF UsageInv
<1>1. totals' = [totals EXCEPT ![s] = Empty] /\ observed' = observed
  BY DEF SettleUsage
<1>2. CASE CountersAreEmpty(used)
  <2>1. UNCHANGED usageVars
    BY <1>0, <1>1, <1>2 DEF SettleUsage, CountersAreEmpty, usageVars
  <2> QED
    BY <1>0, <2>1 DEF usageVars, UsageInv, SeriesFollows, MetricsAddUp
<1>3. CASE ~ CountersAreEmpty(used)
  <2>1. /\ series' = [series EXCEPT ![s] = [turnSeq |-> seq, cumulative |-> next]]
        /\ metrics' = IF stored THEN [metrics EXCEPT ![s] = Append(@, metric)] ELSE metrics
    BY <1>3 DEF SettleUsage
  <2>2. metric \in Metric
    <3>1. ToStopReason(reason) \in StopReasons
      BY DEF ToStopReason, StopReasons
    <3>2. Covers(base, base)
      BY <1>0, UnknownIsNoCount DEF Covers, CounterSet, Count
    <3>3. DeriveTurnDelta(next, base) \in CounterSet
      <4> HIDE DEF base, used
      <4> QED
        BY <1>0, <3>2, DeltaCounts
    <3> QED
      BY <1>0, <3>1, <3>3 DEF Metric
  <2>3. /\ totals' \in [Sessions -> CounterSet] /\ observed' \in [Sessions -> CounterSet]
        /\ series' \in [Sessions -> [turnSeq : Nat, cumulative : CounterSet]]
        /\ metrics' \in [Sessions -> Seq(Metric)]
    <3>1. Empty \in CounterSet
      BY CountsAdd
    <3>2. [turnSeq |-> seq, cumulative |-> next] \in [turnSeq : Nat, cumulative : CounterSet]
      BY <1>0
    <3> HIDE DEF metric, seq, next
    <3>3. metrics' \in [Sessions -> Seq(Metric)]
      BY <1>0, <2>1, <2>2
    <3> QED
      BY <1>0, <1>1, <2>1, <3>1, <3>2, <3>3
  <2>4. /\ \A k \in Sessions \ {s} : /\ metrics'[k] = metrics[k] /\ series'[k] = series[k]
                                     /\ totals'[k] = totals[k] /\ observed'[k] = observed[k]
        /\ series'[s].turnSeq = seq /\ series'[s].cumulative = next
        /\ totals'[s] = Empty /\ observed'[s] = observed[s]
        /\ metrics'[s] = IF stored THEN Append(metrics[s], metric) ELSE metrics[s]
    BY <1>0, <1>1, <2>1
  <2> HIDE DEF base, used, next, seq
  <2>5. observed'[s] = AddCounters(series'[s].cumulative, totals'[s])
    BY <1>0, <2>4, CountsAdd DEF MetricsAddUp, next, base, used
  <2>6. \A k \in Sessions \ {s} : SeriesFollows(k)'
    BY <1>0, <2>4 DEF SeriesFollows
  <2>7. SeriesFollows(s)'
    <3>1. CASE stored
      <4>1. metrics'[s] = Append(metrics[s], metric)
        BY <2>4, <3>1
      <4>2. metrics'[s][Len(metrics'[s])] = metric
        BY <1>0, <2>2, <4>1
      <4> QED
        BY <1>0, <2>4, <4>2 DEF SeriesFollows, Covers, CounterSet, Count
    <3>2. CASE ~ stored
      <4>1. Covers(next, base)
        BY <1>0, CountsAdd DEF next
      <4>2. SUFFICES ASSUME metrics[s] # <<>> PROVE SeriesFollows(s)'
        BY <2>4, <3>2 DEF SeriesFollows
      <4> DEFINE last == metrics[s][Len(metrics[s])]
      <4>3. last \in Metric
        BY <1>0, <4>2
      <4>4. last.turnSeq \in Nat /\ last.cumulative \in CounterSet
        BY <4>3 DEF Metric
      <4>5. last.turnSeq < seq /\ Covers(base, last.cumulative)
        BY <1>0, <4>2, <4>4 DEF SeriesFollows, seq, base
      <4>6. Covers(next, last.cumulative)
        BY <1>0, <4>1, <4>4, <4>5, UnknownIsNoCount DEF Covers, CounterSet, Count
      <4> QED
        BY <1>0, <2>4, <3>2, <4>4, <4>5, <4>6 DEF SeriesFollows
    <3> QED
      BY <3>1, <3>2
  <2>8. ASSUME NEW i \in 1 .. (Len(metrics'[s]) - 1)
        PROVE  LET a == metrics'[s][i]
                   b == metrics'[s][i + 1]
                   counted == AddCounters(a.cumulative, b.delta)
               IN /\ a.turnSeq < b.turnSeq
                  /\ Covers(b.cumulative, counted)
                  /\ b.turnSeq = a.turnSeq + 1 => b.cumulative = counted
    <3>1. CASE i \in 1 .. (Len(metrics[s]) - 1)
      <4>1. metrics'[s][i] = metrics[s][i] /\ metrics'[s][i + 1] = metrics[s][i + 1]
        BY <1>0, <2>2, <2>4, <3>1
      <4> QED
        BY <1>0, <3>1, <4>1 DEF MetricsAddUp
    <3>2. CASE i \notin 1 .. (Len(metrics[s]) - 1)
      <4>1. /\ stored /\ i = Len(metrics[s]) /\ metrics[s] # <<>>
            /\ metrics'[s][i] = metrics[s][i] /\ metrics'[s][i + 1] = metric
        BY <1>0, <2>2, <2>4, <3>2
      <4> DEFINE last == metrics[s][i]
      <4>2. last \in Metric
        BY <1>0, <4>1
      <4>3. last.turnSeq \in Nat /\ last.cumulative \in CounterSet
        BY <4>2 DEF Metric
      <4>4. /\ last.turnSeq < seq /\ Covers(base, last.cumulative)
            /\ seq = last.turnSeq + 1 => last.cumulative = base
        BY <1>0, <4>1, <4>3 DEF SeriesFollows, seq, base
      <4>5. /\ Covers(next, AddCounters(last.cumulative, metric.delta))
            /\ last.cumulative = base => next = AddCounters(last.cumulative, metric.delta)
        BY <1>0, <4>3, <4>4, DeltaCounts DEF next
      <4> QED
        BY <4>1, <4>4, <4>5
    <3> QED
      BY <3>1, <3>2
  <2>9. MetricsAddUp'
    <3> SUFFICES ASSUME NEW k \in Sessions \ {s}
                 PROVE  /\ observed'[k] = AddCounters(series'[k].cumulative, totals'[k])
                        /\ \A i \in 1 .. (Len(metrics'[k]) - 1) :
                             LET a == metrics'[k][i]
                                 b == metrics'[k][i + 1]
                                 counted == AddCounters(a.cumulative, b.delta)
                             IN /\ a.turnSeq < b.turnSeq
                                /\ Covers(b.cumulative, counted)
                                /\ b.turnSeq = a.turnSeq + 1 => b.cumulative = counted
      BY <2>5, <2>8 DEF MetricsAddUp
    <3> QED
      BY <1>0, <2>4 DEF MetricsAddUp
  <2> QED
    BY <2>3, <2>6, <2>7, <2>9 DEF UsageInv
<1> QED
  BY <1>2, <1>3

Usage == [input : Count, cached : Count, output : Count, total : Count]

\* A message reports its usage.
LEMMA UsageObserved ==
  ASSUME UsageInv, NEW s \in Sessions, NEW usage \in Usage, Observe(s, usage)
  PROVE  UsageInv'
<1> DEFINE more == NormalisePiUsage(usage)
<1>1. more \in CounterSet
  BY UnknownIsNoCount DEF Usage, NormalisePiUsage, CounterSet, Counters, Count, AddCounter
<1>2. /\ totals' = [totals EXCEPT ![s] = AddCounters(@, more)]
      /\ observed' = [observed EXCEPT ![s] = AddCounters(@, more)]
      /\ UNCHANGED <<series, metrics>>
  BY DEF Observe
<1> HIDE DEF more
<1>3. /\ totals' \in [Sessions -> CounterSet] /\ observed' \in [Sessions -> CounterSet]
  BY <1>1, <1>2, CountsAdd DEF UsageInv
<1>4. \A k \in Sessions : observed'[k] = AddCounters(series'[k].cumulative, totals'[k])
  <2> TAKE k \in Sessions
  <2>1. series[k].cumulative \in CounterSet /\ totals[k] \in CounterSet /\ DOMAIN totals = Sessions
        /\ DOMAIN observed = Sessions
    BY DEF UsageInv
  <2>2. observed[k] = AddCounters(series[k].cumulative, totals[k])
    BY DEF UsageInv, MetricsAddUp
  <2>3. CASE k = s
    <3>1. /\ observed'[k] = AddCounters(observed[k], more)
          /\ totals'[k] = AddCounters(totals[k], more) /\ series'[k] = series[k]
      BY <1>2, <2>1, <2>3
    <3>2. \A x, y, z \in CounterSet :
            AddCounters(AddCounters(x, y), z) = AddCounters(x, AddCounters(y, z))
      BY CountsAdd
    <3>3. AddCounters(AddCounters(series[k].cumulative, totals[k]), more)
            = AddCounters(series[k].cumulative, AddCounters(totals[k], more))
      BY <1>1, <2>1, <3>2
    <3> QED
      BY <2>2, <3>1, <3>3
  <2>4. CASE k # s
    BY <1>2, <2>1, <2>2, <2>4
  <2> QED
    BY <2>3, <2>4
<1>5. MetricsAddUp'
  BY <1>2, <1>4 DEF UsageInv, MetricsAddUp
<1> QED
  BY <1>2, <1>3, <1>5 DEF UsageInv, SeriesFollows

-----------------------------------------------------------------------------
(* The observer stream: its theorems *)

\* The stream begins with nothing said.
LEMMA StreamBegins == StreamInit => StreamInv
<1> SUFFICES ASSUME StreamInit PROVE StreamInv
  OBVIOUS
<1>1. /\ turn = [s \in Sessions |-> [number |-> 0, open |-> FALSE]]
      /\ said = [s \in Sessions |-> 0] /\ stage = "running"
      /\ router = [s \in Sessions |-> [messageSeq |-> 0, current |-> 0]]
  BY DEF StreamInit
<1>2. /\ turn \in TurnTable /\ said \in [Sessions -> Nat] /\ router \in Routers /\ stage \in Stages
  BY <1>1 DEF TurnTable, Routers, Stages
<1>3. OpenTurns = {} /\ IsFiniteSet(OpenTurns) /\ Numbers \in [Sessions -> Nat]
      /\ Tracked(OpenTurns, stage) = {}
  <2>1. OpenTurns = {}
    BY <1>1 DEF OpenTurns
  <2> QED
    BY <1>2, <2>1, FS_EmptySet, NumbersAre DEF Tracked
<1>4. PICK b : b = EmptyBuffer(Sessions)
  OBVIOUS
<1>5. /\ b.pending = <<>> /\ b.queue = <<>> /\ b.status = [s \in Sessions |-> "none"]
      /\ b.waiting = FALSE /\ b.elapsed = TRUE /\ b.count = 0 /\ b.timer = "off"
      /\ b.dropped = 0 /\ b.route = <<>> /\ b.active = {} /\ b.up = TRUE
      /\ b.wire = [s \in Sessions |-> 0] /\ b.gone = [s \in Sessions |-> {}]
      /\ b.ended = [s \in Sessions |-> 0] /\ b.regressed = {} /\ b.unreported = 0
  BY <1>4 DEF EmptyBuffer
<1>6. b \in Buffer
  <2>1. /\ <<>> \in Seq(Draft) /\ [s \in Sessions |-> "none"] \in [Sessions -> Statuses]
        /\ 0 \in 0..Rate /\ "off" \in Timers /\ {} \in SUBSET Sessions
        /\ [s \in Sessions |-> 0] \in [Sessions -> Nat]
        /\ [s \in Sessions |-> {}] \in [Sessions -> SUBSET Nat]
    BY BufferAssumption DEF Statuses, Timers
  <2> QED
    BY <1>4, <2>1 DEF EmptyBuffer, Buffer
<1>7. DOMAIN b.queue = {} /\ DOMAIN b.pending = {}
  BY <1>5
<1>8. PICK number \in [Sessions -> Nat] : number = Numbers
  BY <1>3
<1>9. InOrder(b) /\ PendingOK(b, number, {})
  BY <1>5, <1>7 DEF InOrder, PendingOK
<1>10. StatusOK(b, number, {})
  <2>1. \A s \in Sessions : b.ended[s] <= number[s]
    BY <1>5
  <2> QED
    BY <1>5, <1>7, <2>1 DEF StatusOK
<1>11. ReportOK(b, number) /\ Pumped(b) /\ Drained(b)
  BY <1>5, <1>7 DEF ReportOK, Reported, Pumped, Drained
<1>12. StreamOK(b, Numbers, OpenTurns, stage)
  BY <1>3, <1>6, <1>8, <1>9, <1>10, <1>11 DEF StreamOK, Good
<1>13. \A s \in Sessions : \A x : ~ Carries(b, s, x)
  BY <1>5, <1>7 DEF Carries
<1>14. buffer = b
  BY <1>4 DEF StreamInit
<1>16. OwedWas(owed, said) /\ Owes(buffer, stage, owed)
  BY <1>1 DEF StreamInit, OwedWas, Owes
<1>15. SaidCarried
  <2>1. \A s \in Sessions : 1..said[s] = {}
    BY <1>1
  <2> QED
    BY <1>13, <1>14, <2>1 DEF SaidCarried
<1> QED
  BY <1>2, <1>3, <1>12, <1>14, <1>15, <1>16 DEF StreamInv

\* What is unsent is queued or waits, the queued first.
LEMMA UnsentIs ==
  ASSUME buffer \in Buffer
  PROVE  /\ \A i \in DOMAIN Unsent :
              \/ i \in DOMAIN buffer.queue /\ Unsent[i] = buffer.queue[i]
              \/ /\ i \notin DOMAIN buffer.queue
                 /\ i - Len(buffer.queue) \in DOMAIN buffer.pending
                 /\ Unsent[i] = buffer.pending[i - Len(buffer.queue)]
         /\ \A i \in DOMAIN Unsent, j \in DOMAIN buffer.queue : i < j => i \in DOMAIN buffer.queue
         /\ \A d : d \in ToSet(Unsent) <=> \/ \E i \in DOMAIN buffer.queue : d = buffer.queue[i]
                                           \/ \E j \in DOMAIN buffer.pending : d = buffer.pending[j]
<1>1. PICK q, p, u, m, n : /\ q = buffer.queue /\ p = buffer.pending /\ u = q \o p
                           /\ m = Len(q) /\ n = Len(p)
  OBVIOUS
<1>2. q \in Seq(Draft) /\ p \in Seq(Draft)
  BY <1>1 DEF Buffer
<1>3. /\ u \in Seq(Draft) /\ Len(u) = m + n
      /\ \A i \in 1..Len(u) : u[i] = IF i <= m THEN q[i] ELSE p[i - m]
  <2>1. /\ q \o p \in Seq(Draft) /\ Len(q \o p) = Len(q) + Len(p)
        /\ \A i \in 1..Len(q \o p) : (q \o p)[i] = IF i <= Len(q) THEN q[i] ELSE p[i - Len(q)]
    BY <1>2, Concatenated
  <2> QED
    BY <1>1, <2>1
<1>4. /\ m \in Nat /\ n \in Nat /\ DOMAIN u = 1..(m + n) /\ DOMAIN q = 1..m /\ DOMAIN p = 1..n
  BY <1>1, <1>2, <1>3
<1>5. \A i \in DOMAIN u : \/ i \in DOMAIN q /\ u[i] = q[i]
                          \/ i \notin DOMAIN q /\ i - m \in DOMAIN p /\ u[i] = p[i - m]
  BY <1>3, <1>4
<1>6. \A i \in DOMAIN u, j \in DOMAIN q : i < j => i \in DOMAIN q
  BY <1>4
<1>7. \A i \in DOMAIN q : i \in DOMAIN u /\ u[i] = q[i]
  BY <1>3, <1>4
<1>8. \A j \in DOMAIN p : m + j \in DOMAIN u /\ u[m + j] = p[j]
  <2> TAKE j \in DOMAIN p
  <2>1. m + j \in 1..(m + n) /\ ~(m + j <= m) /\ (m + j) - m = j
    BY <1>4
  <2>2. u[m + j] = p[(m + j) - m]
    BY <1>3, <1>4, <2>1
  <2> QED
    BY <1>4, <2>1, <2>2
<1>9. \A d : d \in ToSet(u) <=> \/ \E i \in DOMAIN q : d = q[i]
                                \/ \E j \in DOMAIN p : d = p[j]
  <2>1. \A d : d \in ToSet(u) <=> \E i \in DOMAIN u : d = u[i]
    BY DEF ToSet
  <2> QED
    BY <1>5, <1>7, <1>8, <2>1
<1>10. Unsent = u
  BY <1>1 DEF Unsent
<1>11. /\ \A i \in DOMAIN Unsent :
            \/ i \in DOMAIN buffer.queue /\ Unsent[i] = buffer.queue[i]
            \/ /\ i \notin DOMAIN buffer.queue
               /\ i - Len(buffer.queue) \in DOMAIN buffer.pending
               /\ Unsent[i] = buffer.pending[i - Len(buffer.queue)]
  BY <1>1, <1>5, <1>10
<1>12. \A i \in DOMAIN Unsent, j \in DOMAIN buffer.queue : i < j => i \in DOMAIN buffer.queue
  BY <1>1, <1>6, <1>10
<1>13. \A d : d \in ToSet(Unsent) <=> \/ \E i \in DOMAIN buffer.queue : d = buffer.queue[i]
                                      \/ \E j \in DOMAIN buffer.pending : d = buffer.pending[j]
  BY <1>1, <1>9, <1>10
<1> QED
  BY <1>11, <1>12, <1>13

\* Order and tool statuses are in the invariant.
LEMMA StreamIsHonest == StreamInv => TranscriptIsHonest
<1> SUFFICES ASSUME StreamInv PROVE TranscriptIsHonest
  OBVIOUS
<1>1. PICK number, open, tracked : Good(buffer, number, open, tracked)
  BY BufferNow
<1>2. buffer \in Buffer /\ InOrder(buffer) /\ PendingOK(buffer, number, open) /\ buffer.regressed = {}
  BY <1>1 DEF Good, StatusOK
<1>3. PICK q, p, m : q = buffer.queue /\ p = buffer.pending /\ m = Len(q)
  OBVIOUS
<1>4. ASSUME NEW s \in Sessions, NEW i \in DOMAIN Unsent, NEW x \in ToldOf(s, Unsent[i])
      PROVE  buffer.wire[s] <= x
  <2>1. Unsent[i].session = s /\ x \in Told(Unsent[i])
    BY <1>4 DEF ToldOf
  <2>2. CASE i \in DOMAIN buffer.queue /\ Unsent[i] = buffer.queue[i]
    BY <1>2, <2>1, <2>2 DEF InOrder
  <2>3. CASE i - Len(buffer.queue) \in DOMAIN buffer.pending
             /\ Unsent[i] = buffer.pending[i - Len(buffer.queue)]
    <3>0. PICK d : d = Unsent[i]
      OBVIOUS
    <3>1. d = Unsent[i] /\ \E j \in DOMAIN buffer.pending : d = buffer.pending[j]
      BY <2>3, <3>0
    <3>2. Waits(buffer, d)
      BY <1>2, <3>1 DEF InOrder
    <3> QED
      BY <2>1, <3>1, <3>2 DEF Waits
  <2> QED
    BY <1>2, <2>2, <2>3, UnsentIs
<1>5. ASSUME NEW s \in Sessions, NEW i \in DOMAIN Unsent, NEW x \in ToldOf(s, Unsent[i]),
             NEW j \in DOMAIN Unsent, NEW y \in ToldOf(s, Unsent[j]), i < j
      PROVE  x <= y
  <2>1. PICK d, e : d = Unsent[i] /\ e = Unsent[j]
    OBVIOUS
  <2>2. d.session = s /\ e.session = s /\ x \in Told(d) /\ y \in Told(e)
    BY <1>5, <2>1 DEF ToldOf
  <2>3. \/ i \in DOMAIN q /\ d = q[i]
        \/ i \notin DOMAIN q /\ i - m \in DOMAIN p /\ d = p[i - m]
    BY <1>2, <1>3, <2>1, UnsentIs
  <2>4. \/ j \in DOMAIN q /\ e = q[j]
        \/ j \notin DOMAIN q /\ j - m \in DOMAIN p /\ e = p[j - m]
    BY <1>2, <1>3, <2>1, UnsentIs
  <2>5. j \in DOMAIN q => i \in DOMAIN q
    BY <1>2, <1>3, <1>5, UnsentIs
  <2>6. CASE j \in DOMAIN q
    <3>1. Before(q[i], q[j])
      BY <1>2, <1>3, <1>5, <2>5, <2>6 DEF InOrder
    <3> QED
      BY <2>2, <2>3, <2>4, <2>5, <2>6, <3>1 DEF Before
  <2>7. CASE j \notin DOMAIN q /\ i \in DOMAIN q
    <3>1. PICK k \in DOMAIN p : e = p[k]
      BY <2>4, <2>7
    <3>2. Waits(buffer, e)
      BY <1>2, <1>3, <3>1 DEF InOrder
    <3>3. Before(d, e)
      BY <1>3, <2>3, <2>7, <3>2 DEF Waits
    <3> QED
      BY <2>2, <3>3 DEF Before
  <2>8. CASE j \notin DOMAIN q /\ i \notin DOMAIN q
    <3>1. /\ i - m \in DOMAIN p /\ d = p[i - m]
          /\ j - m \in DOMAIN p /\ e = p[j - m]
      BY <2>3, <2>4, <2>8
    <3>2. i - m = j - m
      BY <1>2, <1>3, <2>2, <3>1 DEF PendingOK
    <3>3. i \in Nat /\ j \in Nat /\ m \in Nat
      <4>1. q \in Seq(Draft) /\ p \in Seq(Draft)
        BY <1>2, <1>3 DEF Buffer
      <4>2. Unsent \in Seq(Draft)
        BY <1>3, <4>1, Concatenated DEF Unsent
      <4> QED
        BY <1>3, <1>5, <4>1, <4>2
    <3> QED
      BY <1>5, <3>2, <3>3
  <2> QED
    BY <2>6, <2>7, <2>8
<1>6. ASSUME NEW d \in ToSet(Unsent) PROVE Sorted(d)
  <2>1. \/ \E i \in DOMAIN q : d = q[i]
        \/ \E j \in DOMAIN p : d = p[j]
    BY <1>2, <1>3, UnsentIs
  <2> QED
    BY <1>2, <1>3, <2>1 DEF InOrder, Waits
<1>7. \A s \in Sessions : s \notin buffer.regressed
  BY <1>2
<1> QED
  BY <1>4, <1>5, <1>6, <1>7 DEF TranscriptIsHonest, Sorted

\* What was said is in the books.
LEMMA StreamAccounts == StreamInv => FramesAccounted
<1> SUFFICES ASSUME StreamInv PROVE FramesAccounted
  OBVIOUS
<1>1. PICK number, open, tracked : Good(buffer, number, open, tracked)
  BY BufferNow
<1>2. buffer \in Buffer /\ ReportOK(buffer, number)
  BY <1>1 DEF Good
<1>3. /\ \A i \in DOMAIN buffer.queue : buffer.queue[i].kind = "overflow" => i = 1
      /\ buffer.unreported = buffer.dropped + Reported(buffer)
  BY <1>2 DEF ReportOK
<1>4. /\ buffer.queue = <<>> => buffer.dropped = 0
      /\ buffer.queue # <<>> => (buffer.timer # "off" \/ ~Live)
  BY DEF StreamInv, StreamOK, Drained, Pumped, Live
<1>5. ASSUME NEW s \in Sessions
      PROVE  1..said[s] = buffer.gone[s] \cup UNION {ToldOf(s, d) : d \in ToSet(Unsent)}
  <2>1. ASSUME NEW x
        PROVE  x \in UNION {ToldOf(s, d) : d \in ToSet(Unsent)}
                 <=> \/ \E i \in DOMAIN buffer.queue : x \in ToldOf(s, buffer.queue[i])
                     \/ \E j \in DOMAIN buffer.pending : x \in ToldOf(s, buffer.pending[j])
    <3>1. x \in UNION {ToldOf(s, d) : d \in ToSet(Unsent)}
            <=> \E d \in ToSet(Unsent) : x \in ToldOf(s, d)
      OBVIOUS
    <3>2. \A d : d \in ToSet(Unsent) <=> \/ \E i \in DOMAIN buffer.queue : d = buffer.queue[i]
                                         \/ \E j \in DOMAIN buffer.pending : d = buffer.pending[j]
      BY <1>2, UnsentIs
    <3> QED
      BY <3>1, <3>2
  <2>2. \A x : Carries(buffer, s, x) <=> x \in 1..said[s]
    BY DEF StreamInv, SaidCarried
  <2>3. \A x : x \in 1..said[s]
                 <=> x \in buffer.gone[s] \/ x \in UNION {ToldOf(s, d) : d \in ToSet(Unsent)}
    BY <2>1, <2>2 DEF Carries
  <2> QED
    BY <2>3
<1> QED
  BY <1>3, <1>4, <1>5 DEF FramesAccounted

\* A stream closed by its flush owes nothing.
LEMMA StreamDelivers == StreamInv => FlushDelivers
<1> SUFFICES ASSUME StreamInv, stage = "closed", NEW s \in Sessions, NEW d \in ToSet(Unsent),
                    NEW x \in ToldOf(s, d)
             PROVE  x > owed[s]
  BY DEF FlushDelivers
<1>1. buffer \in Buffer /\ Clear(buffer, owed, FALSE)
  BY BufferNow DEF StreamInv, Owes
<1>2. \/ \E i \in DOMAIN buffer.queue : d = buffer.queue[i]
      \/ \E j \in DOMAIN buffer.pending : d = buffer.pending[j]
  BY <1>1, UnsentIs
<1>3. Recent(d, owed)
  BY <1>1, <1>2 DEF Clear, QueueClear
<1> QED
  BY <1>3 DEF ToldOf, Recent

\* Every step keeps the books of the usage.
LEMMA UsageKeeps ==
  ASSUME Samples \subseteq Usage, StreamInv, UsageInv, [StreamNext]_observerVars
  PROVE  UsageInv'
<1>1. CASE \E s \in Sessions, reason \in Reasons, stored \in BOOLEAN : Settle(s, reason, stored)
  <2>1. PICK s \in Sessions, reason \in Reasons, stored \in BOOLEAN :
          SettleUsage(s, turn[s].number, reason, stored)
    BY <1>1 DEF Settle
  <2>2. PICK number \in Nat : number = turn[s].number
    BY BufferNow DEF TurnTable
  <2> QED
    BY <2>1, <2>2, UsageSettles
<1>2. CASE \E s \in Sessions, usage \in Samples : MessageEndWithUsage(s, usage)
  <2>1. PICK s \in Sessions, usage \in Usage : Observe(s, usage)
    BY <1>2 DEF MessageEndWithUsage
  <2> QED
    BY <2>1, UsageObserved
<1>3. CASE UNCHANGED usageVars
  BY <1>3 DEF usageVars, UsageInv, SeriesFollows, MetricsAddUp
<1>4. \/ UNCHANGED usageVars
      \/ \E s \in Sessions, reason \in Reasons, stored \in BOOLEAN : Settle(s, reason, stored)
      \/ \E s \in Sessions, usage \in Samples : MessageEndWithUsage(s, usage)
  BY DEF StreamNext, observerVars, Begin, MessageStart, MessageEnd, ToolUpdate, Heartbeat, Delta,
         ToolStart, ToolEnd, ChunkTimer, SecondPasses, PumpTimer, LinkLost, LinkBack, Stop,
         FlushDeadline
<1> QED
  BY <1>1, <1>2, <1>3, <1>4

\* No usage at first.
LEMMA UsageBegins == StreamInit => UsageInv
<1> SUFFICES ASSUME StreamInit PROVE UsageInv
  OBVIOUS
<1>1. Empty \in CounterSet /\ AddCounters(Empty, Empty) = Empty
  BY CountsAdd
<1>2. /\ totals = [s \in Sessions |-> Empty] /\ observed = totals
      /\ series = [s \in Sessions |-> [turnSeq |-> 0, cumulative |-> Empty]]
      /\ metrics = [s \in Sessions |-> <<>>]
  BY DEF StreamInit, UsageInit
<1>3. /\ totals \in [Sessions -> CounterSet] /\ observed \in [Sessions -> CounterSet]
      /\ series \in [Sessions -> [turnSeq : Nat, cumulative : CounterSet]]
      /\ metrics \in [Sessions -> Seq(Metric)]
  BY <1>1, <1>2
<1>4. \A s \in Sessions : SeriesFollows(s)
  BY <1>2 DEF SeriesFollows
<1>5. MetricsAddUp
  <2>1. \A s \in Sessions : observed[s] = AddCounters(series[s].cumulative, totals[s])
    BY <1>1, <1>2
  <2>2. \A s \in Sessions : 1..(Len(metrics[s]) - 1) = {}
    BY <1>2
  <2> QED
    BY <2>1, <2>2 DEF MetricsAddUp
<1> QED
  BY <1>3, <1>4, <1>5 DEF UsageInv

\* The invariant of the stream holds throughout.
LEMMA StreamStays == StreamSpec => []StreamInv
<1>1. StreamInv /\ [StreamNext]_observerVars => StreamInv'
  BY StreamKeeps
<1> QED
  BY StreamBegins, <1>1, PTL DEF StreamSpec

\* The desktop reads a session as it happened: coalesced, split, paced and shed as its frames
\* may be by telemetry-buffer.ts, no event overtakes an earlier one, and no tool that ended
\* goes back to executing.
THEOREM StreamAlwaysHonest == StreamSpec => []TranscriptIsHonest
BY StreamStays, StreamIsHonest, PTL

\* Nothing said is lost without a trace: every event was sent, was counted as shed or is on its
\* way; what was shed is reported; and a queue always has a timer to drain it
\* (telemetry-buffer.ts, pump and accept).
THEOREM StreamAlwaysAccounts == StreamSpec => []FramesAccounted
BY StreamStays, StreamAccounts, PTL

\* A shutdown that its deadline does not cut short has put everything said before it on its way
\* (observer-publisher.ts, flush; telemetry-buffer.ts, pump).
THEOREM FlushAlwaysDelivers == StreamSpec => []FlushDelivers
BY StreamStays, StreamDelivers, PTL

\* The usage metrics of a session add up to what its messages reported, whatever turns could
\* not be stored: each turn is counted once, on top of the last (usage-metrics.ts).
THEOREM MetricsAlwaysAddUp ==
  ASSUME Samples \subseteq Usage
  PROVE  StreamSpec => []MetricsAddUp
<1>1. StreamInv /\ UsageInv /\ [StreamNext]_observerVars => UsageInv'
  BY UsageKeeps
<1>2. UsageInv => MetricsAddUp
  BY DEF UsageInv
<1> QED
  BY StreamStays, UsageBegins, <1>1, <1>2, PTL DEF StreamSpec
=============================================================================
