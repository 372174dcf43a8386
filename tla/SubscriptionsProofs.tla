------------------------- MODULE SubscriptionsProofs -------------------------
(* What a subscription and a session hear of their channel, for any events,   *)
(* skew and size of the duplicate window, and however often connections,       *)
(* subscriptions and handlers fail.                                             *)
EXTENDS ConversationMemory, FiniteSetTheorems, SequenceTheorems, TLAPS

Frames == [kind : {"EVENT", "EOSE", "CLOSED"}, sub : Subs, event : Events \cup {None}]

\* The queue q has event e at position i.
Brings(q, i, e) == q[i].kind = "EVENT" /\ q[i].event = e

\* What the relay sends is stored, and sent for the subscription it matches.
Genuine(q) ==
  \A i \in DOMAIN q : q[i].kind = "EVENT" =>
    q[i].event \in Events /\ q[i].sub = SubOf[q[i].event] /\ Stored(q[i].event)

\* The relay serves registered subscriptions, on a connection that is up.
WireOK ==
  /\ Genuine(incoming)
  /\ ~up => incoming = <<>> /\ \A s \in Subs : serving[s] = None
  /\ \A s \in Subs \ Registered : serving[s] = None

\* No stamp is in the future, and a request that is served asked for everything
\* an author may still publish.
Due(since) == since <= 0 \/ since + Skew <= clock

TimesOK ==
  /\ \A e \in Events : Stored(e) => stamp[e] <= clock
  /\ \A s \in Subs :
       /\ records[s].lastSeen # None => records[s].lastSeen <= clock
       /\ serving[s] # None => Due(serving[s])

SeenOK == seen.current \cup seen.previous \subseteq Elements(handed)

Unbroken == Registered \ reused

\* What is missing is no older than the floor.
FloorOK ==
  \A s \in Unbroken : \A e \in Missed(s) :
    records[s].lastSeen # None => stamp[e] >= records[s].lastSeen - Skew

\* Before an event that would raise the floor over a missing one comes that one.
Ordered(q, s) ==
  \A e \in Missed(s) : \A i \in DOMAIN q :
    q[i].kind = "EVENT" /\ q[i].sub = s /\ stamp[e] < stamp[q[i].event] - Skew
    => \E j \in 1 .. i - 1 : Brings(q, j, e)

OrderOK == \A s \in Unbroken : Ordered(incoming, s)

\* All that s misses is in the queue.
Coming(q, s) == \A e \in Missed(s) : \E i \in DOMAIN q : Brings(q, i, e)

Ends(q, s) == \E i \in DOMAIN q : q[i].kind = "CLOSED" /\ q[i].sub = s

\* A subscription that is served has all it misses in the queue; one that is not
\* has a request parked, an end to read, or was ended for good.
ServedOK ==
  up => \A s \in Unbroken :
    IF serving[s] # None THEN Coming(incoming, s)
    ELSE parked[s] > 0 \/ s \in ended \/ Ends(incoming, s)

\* The window of seen ids is the end of what was handed over.
WindowOK ==
  LET n == Len(handed)  c == Cardinality(seen.current)  p == Cardinality(seen.previous) IN
  /\ p \in {0, RotateAt} /\ (p = 0 => n = c) /\ c + p <= n
  /\ seen.current = {handed[i] : i \in n - c + 1 .. n}
  /\ seen.previous = {handed[i] : i \in n - c - p + 1 .. n - c}

HandedInv == SeenOK /\ WindowOK /\ SeenWindow

SubsInv ==
  TypeOK /\ HandedInv /\ WireOK /\ TimesOK /\ FloorOK /\ OrderOK /\ ServedOK

\* The types of what the sessions were told, and by which turn.
MemoryTypeOK ==
  /\ root \in [Events -> Events]
  /\ row \in [Events -> {"none", "unjudged", "queued", "rejected", "delivered"}]
  /\ told \in [Keys -> SUBSET Events]
  /\ watermark \in [Keys -> Int \cup {None}]
  /\ turn \in [trigger : Events \cup {None}, stage : {"idle", "starting", "running"},
               spoilt : BOOLEAN]
  /\ turn.stage # "idle" => turn.trigger \in Events

RowsStored == \A e \in Events : row[e] # "none" => Stored(e)

\* A session was told what will not be queued any more, or what it was told before
\* the agent received it, and its watermark is past that.
ToldOK ==
  \A k \in Keys : \A m \in told[k] :
    /\ m \in ahead \/ row[m] \in {"rejected", "delivered"}
    /\ Stored(m) /\ watermark[k] # None /\ stamp[m] <= watermark[k]

\* The trigger that is about to be prompted was told to nobody, unless ahead.
StartingOK ==
  turn.stage = "starting" =>
    /\ row[turn.trigger] = "delivered"
    /\ \A k \in Keys : turn.trigger \in told[k] => turn.trigger \in ahead

MemoryInv ==
  MemoryTypeOK /\ RowsStored /\ ToldOK /\ StartingOK /\ NothingToldTwice

-----------------------------------------------------------------------------
(* What is handed over.                                                      *)

RecordType ==
  [registered : BOOLEAN, lastSeen : Seconds \cup {None}, droppedSince : Seconds \cup {None}]

LEMMA Elements2 ==
  ASSUME NEW h \in Seq(Events), NEW e \in Events
  PROVE  /\ Append(h, e) \in Seq(Events)
         /\ Elements(Append(h, e)) = Elements(h) \cup {e}
<1>1. /\ Append(h, e) \in Seq(Events) /\ Len(Append(h, e)) = Len(h) + 1
      /\ \A i \in 1 .. Len(h) : Append(h, e)[i] = h[i]
      /\ Append(h, e)[Len(h) + 1] = e
  OBVIOUS
<1>2. DOMAIN h = 1 .. Len(h) /\ DOMAIN Append(h, e) = 1 .. Len(h) + 1 /\ Len(h) \in Nat
  BY <1>1
<1> QED
  BY <1>1, <1>2 DEF Elements

\* It was handed over a whole generation ago, if ever.
LEMMA HandedWindow ==
  ASSUME TypeOK, HandedInv, NEW e \in Events, ~Seen(e), handed' = Append(handed, e)
  PROVE  SeenWindow'
<1> DEFINE n == Len(handed)
           c == Cardinality(seen.current)
           p == Cardinality(seen.previous)
<1>1. /\ handed \in Seq(Events) /\ n \in Nat /\ DOMAIN handed = 1 .. n
      /\ RotateAt \in Nat \ {0}
  BY SubscriptionsAssumption DEF TypeOK
<1>2. /\ DOMAIN handed' = 1 .. n + 1
      /\ \A i \in 1 .. n : handed'[i] = handed[i]
      /\ handed'[n + 1] = e
  BY <1>1
<1>3. c \in Nat /\ p \in Nat
  <2>1. IsFiniteSet(seen.current) /\ IsFiniteSet(seen.previous)
    BY SubscriptionsAssumption, FS_Subset DEF TypeOK
  <2> QED
    BY <2>1, FS_CardinalityType
<1>4. /\ p \in {0, RotateAt} /\ (p = 0 => n = c)
      /\ seen.current = {handed[i] : i \in n - c + 1 .. n}
      /\ seen.previous = {handed[i] : i \in n - c - p + 1 .. n - c}
  BY DEF HandedInv, WindowOK
<1>5. \A i \in n - c - p + 1 .. n : handed[i] # e
  <2>1. \A i \in n - c - p + 1 .. n : i \in n - c + 1 .. n \/ i \in n - c - p + 1 .. n - c
    BY <1>1, <1>3
  <2> QED
    BY <1>4, <2>1 DEF Seen
<1> SUFFICES ASSUME NEW i \in 1 .. n + 1, NEW j \in 1 .. n + 1, i < j, handed'[i] = handed'[j]
             PROVE  j - i > RotateAt
  BY <1>2 DEF SeenWindow
<1>6. CASE j = n + 1
  <2>1. i \in 1 .. n /\ handed[i] = e
    BY <1>1, <1>2, <1>6
  <2>2. ~(i >= n - c - p + 1)
    BY <1>1, <1>3, <1>5, <2>1
  <2> QED
    BY <1>1, <1>3, <1>4, <1>6, <2>1, <2>2
<1>7. CASE j # n + 1
  BY <1>1, <1>2, <1>7 DEF HandedInv, SeenWindow
<1> QED
  BY <1>6, <1>7

LEMMA NothingHanded ==
  ASSUME HandedInv, UNCHANGED <<seen, handed>>
  PROVE  HandedInv'
BY DEF HandedInv, SeenOK, WindowOK, SeenWindow, Elements

\* An event that was not seen is handed over, and remembered.
LEMMA HandOver ==
  ASSUME TypeOK, HandedInv, NEW e \in Events, ~Seen(e), Admit(e), handed' = Append(handed, e)
  PROVE  /\ HandedInv'
         /\ seen' \in [current : SUBSET Events, previous : SUBSET Events]
         /\ Cardinality(seen'.current) < RotateAt
         /\ Cardinality(seen'.previous) <= RotateAt
         /\ handed' \in Seq(Events)
         /\ Elements(handed') = Elements(handed) \cup {e}
<1> DEFINE n == Len(handed)
           c == Cardinality(seen.current)
           p == Cardinality(seen.previous)
           now == seen.current \cup {e}
<1>1. /\ handed \in Seq(Events) /\ n \in Nat /\ DOMAIN handed = 1 .. n
      /\ seen \in [current : SUBSET Events, previous : SUBSET Events]
      /\ c < RotateAt /\ p <= RotateAt /\ RotateAt \in Nat \ {0}
  BY SubscriptionsAssumption DEF TypeOK
<1>2. /\ handed' \in Seq(Events) /\ Elements(handed') = Elements(handed) \cup {e}
      /\ Len(handed') = n + 1
      /\ \A i \in 1 .. n : handed'[i] = handed[i]
      /\ handed'[n + 1] = e
  BY <1>1, Elements2
<1>3. /\ c \in Nat /\ p \in Nat /\ Cardinality(now) = c + 1 /\ Cardinality({}) = 0
  <2>1. IsFiniteSet(seen.current) /\ IsFiniteSet(seen.previous)
    BY <1>1, SubscriptionsAssumption, FS_Subset
  <2>2. e \notin seen.current
    BY DEF Seen
  <2> QED
    BY <2>1, <2>2, FS_CardinalityType, FS_AddElement, FS_EmptySet
<1>4. /\ p \in {0, RotateAt} /\ (p = 0 => n = c) /\ c + p <= n
      /\ seen.current = {handed[i] : i \in n - c + 1 .. n}
      /\ seen.previous = {handed[i] : i \in n - c - p + 1 .. n - c}
  BY DEF HandedInv, WindowOK
<1>5. now = {handed'[i] : i \in n - c + 1 .. n + 1}
  <2>1. \A i \in n - c + 1 .. n + 1 : i = n + 1 \/ (i \in n - c + 1 .. n /\ i \in 1 .. n)
    BY <1>1, <1>3, <1>4
  <2>2. \A i \in n - c + 1 .. n : i \in n - c + 1 .. n + 1 /\ i \in 1 .. n
    BY <1>1, <1>3, <1>4
  <2>3. n + 1 \in n - c + 1 .. n + 1
    BY <1>1, <1>3
  <2> QED
    BY <1>2, <1>4, <2>1, <2>2, <2>3
<1>6. seen.previous = {handed'[i] : i \in n - c - p + 1 .. n - c}
  <2>1. \A i \in n - c - p + 1 .. n - c : i \in 1 .. n
    BY <1>1, <1>3, <1>4
  <2> QED
    BY <1>2, <1>4, <2>1
<1>7. CASE c + 1 >= RotateAt
  <2>1. seen' = [current |-> {}, previous |-> now]
    BY <1>3, <1>7 DEF Admit
  <2>2. c + 1 = RotateAt
    BY <1>1, <1>3, <1>7
  <2>3. WindowOK'
    <3>1. {handed'[i] : i \in n + 1 - 0 + 1 .. n + 1} = {}
      BY <1>1
    <3>2. /\ Len(handed') = n + 1
          /\ Cardinality(seen'.current) = 0 /\ Cardinality(seen'.previous) = RotateAt
          /\ seen'.current = {} /\ seen'.previous = {handed'[i] : i \in n - c + 1 .. n + 1}
      BY <1>2, <1>3, <1>5, <2>1, <2>2
    <3>3. /\ (n + 1) - 0 - RotateAt + 1 = n - c + 1 /\ (n + 1) - 0 = n + 1
          /\ 0 + RotateAt <= n + 1 /\ RotateAt # 0
      <4>1. n \in Nat /\ c \in Nat /\ p \in Nat /\ c + p <= n /\ RotateAt = c + 1
        BY <1>1, <1>3, <1>4, <2>2
      <4>2. c <= n
        BY <4>1
      <4> HIDE DEF n, c, p
      <4> QED
        BY <4>1, <4>2
    <3>4. seen'.previous = {handed'[i] : i \in (n + 1) - 0 - RotateAt + 1 .. (n + 1) - 0}
      BY <3>2, <3>3
    <3>5. PICK m, a, b : /\ m = Len(handed') /\ a = Cardinality(seen'.current)
                        /\ b = Cardinality(seen'.previous)
      OBVIOUS
    <3>6. seen'.current = {handed'[i] : i \in m - a + 1 .. m}
      BY <3>1, <3>2, <3>5
    <3>7. seen'.previous = {handed'[i] : i \in m - a - b + 1 .. m - a}
      BY <3>2, <3>4, <3>5
    <3>8. b \in {0, RotateAt} /\ (b = 0 => m = a) /\ a + b <= m
      BY <3>2, <3>3, <3>5
    <3> HIDE DEF n, c
    <3> QED
      BY <3>5, <3>6, <3>7, <3>8 DEF WindowOK
  <2>4. SeenOK'
    BY <1>2, <2>1 DEF HandedInv, SeenOK
  <2> QED
    BY <1>1, <1>2, <1>3, <2>1, <2>2, <2>3, <2>4, HandedWindow DEF HandedInv
<1>8. CASE ~(c + 1 >= RotateAt)
  <2>1. seen' = [seen EXCEPT !.current = now]
    BY <1>3, <1>8 DEF Admit
  <2>2. seen'.current = now /\ seen'.previous = seen.previous
    BY <1>1, <2>1
  <2>3. WindowOK'
    <3>1. /\ Len(handed') = n + 1
          /\ Cardinality(seen'.current) = c + 1 /\ Cardinality(seen'.previous) = p
          /\ seen'.current = {handed'[i] : i \in n - c + 1 .. n + 1}
          /\ seen'.previous = {handed'[i] : i \in n - c - p + 1 .. n - c}
      BY <1>2, <1>3, <1>5, <1>6, <2>2
    <3>2. /\ (n + 1) - (c + 1) + 1 = n - c + 1
          /\ (n + 1) - (c + 1) - p + 1 = n - c - p + 1 /\ (n + 1) - (c + 1) = n - c
      BY <1>1, <1>3
    <3>3. (c + 1) + p <= n + 1 /\ p \in {0, RotateAt} /\ (p = 0 => n + 1 = c + 1)
      <4>1. c + p <= n
        BY <1>4
      <4>2. (c + 1) + p <= n + 1
        BY <1>1, <1>3, <4>1
      <4> QED
        BY <1>4, <4>2
    <3> HIDE DEF n, c, p
    <3> QED
      BY <3>1, <3>2, <3>3 DEF WindowOK
  <2>4. SeenOK'
    BY <1>2, <2>2 DEF HandedInv, SeenOK
  <2> QED
    BY <1>1, <1>2, <1>3, <1>8, <2>1, <2>2, <2>3, <2>4, HandedWindow DEF HandedInv
<1> QED
  BY <1>7, <1>8

-----------------------------------------------------------------------------
(* The queue of frames.                                                      *)

\* The request asks for all that is missing, and for all that may come.
LEMMA FloorBelow ==
  ASSUME SubsInv, NEW s \in Unbroken
  PROVE  Missed(s) \subseteq Matches(s, Since(records[s]))
<1> SUFFICES ASSUME NEW e \in Missed(s) PROVE e \in Matches(s, Since(records[s]))
  OBVIOUS
<1>1. /\ s \in Subs /\ e \in Events /\ SubOf[e] = s /\ Stored(e) /\ stamp[e] >= 0
      /\ stamp[e] \in Int
  BY SubscriptionsAssumption
     DEF SubsInv, TypeOK, Seconds, Unbroken, Registered, Missed, StartupWatermark, Stored
<1>2. records[s].lastSeen # None => stamp[e] >= records[s].lastSeen - Skew
  BY DEF SubsInv, FloorOK
<1>3. records[s] \in RecordType
  BY <1>1 DEF SubsInv, TypeOK, RecordType
<1>4. stamp[e] >= Since(records[s])
  BY <1>1, <1>2, <1>3, SubscriptionsAssumption
     DEF Since, Min2, RecordType, Seconds, StartupWatermark
<1> QED
  BY <1>1, <1>4 DEF Matches

LEMMA SinceType ==
  ASSUME TypeOK, TimesOK, NEW s \in Subs
  PROVE  Since(records[s]) \in Int /\ Due(Since(records[s]))
<1>1. records[s] \in RecordType /\ clock \in Int /\ Skew \in Nat
  BY SubscriptionsAssumption DEF TypeOK, RecordType
<1>2. records[s].lastSeen # None => records[s].lastSeen <= clock
  BY DEF TimesOK
<1> QED
  BY <1>1, <1>2, SubscriptionsAssumption
     DEF Since, Min2, RecordType, Seconds, StartupWatermark, Due

\* The queue with what the relay replays for s since then.
Replayed(new, q, s, since) ==
  /\ new \in Seq(Frames) /\ Len(q) <= Len(new)
  /\ \A i \in 1 .. Len(q) : new[i] = q[i]
  /\ \A i \in Len(q) + 1 .. Len(new) :
       /\ new[i].sub = s /\ new[i].kind # "CLOSED"
       /\ new[i].kind = "EVENT" => new[i].event \in Matches(s, since)
  /\ \A e \in Matches(s, since) : \E i \in Len(q) + 1 .. Len(new) : Brings(new, i, e)
  /\ \A e \in Matches(s, since) : \A i \in Len(q) + 1 .. Len(new) :
       new[i].kind = "EVENT" /\ stamp[e] < stamp[new[i].event]
       => \E j \in Len(q) + 1 .. i - 1 : Brings(new, j, e)

\* A replay leaves out nothing.
LEMMA ReplayComplete ==
  ASSUME NEW E, IsFiniteSet(E), NEW p \in OldestFirst(E)
  PROVE  /\ Cardinality(E) \in Nat /\ p \in [1 .. Cardinality(E) -> E]
         /\ \A e \in E : \E i \in 1 .. Cardinality(E) : p[i] = e
<1>1. Cardinality(E) \in Nat
  BY FS_CardinalityType
<1>2. /\ p \in [1 .. Cardinality(E) -> E]
      /\ \A i, j \in 1 .. Cardinality(E) : i < j => p[i] # p[j]
  BY DEF OldestFirst
<1>3. p \in Injection(1 .. Cardinality(E), E)
  BY <1>1, <1>2 DEF Injection, IsInjective
<1>4. Cardinality(1 .. Cardinality(E)) = Cardinality(E)
  BY <1>1, FS_Interval
<1>5. p \in Surjection(1 .. Cardinality(E), E)
  BY <1>3, <1>4, FS_Injection
<1> QED
  BY <1>1, <1>2, <1>5 DEF Surjection

LEMMA ThreeParts ==
  ASSUME NEW S, NEW q \in Seq(S), NEW f \in Seq(S), NEW e \in S,
         NEW new, new = (q \o f) \o <<e>>
  PROVE  /\ new \in Seq(S) /\ Len(new) = Len(q) + Len(f) + 1
         /\ \A i \in 1 .. Len(q) : new[i] = q[i]
         /\ \A i \in 1 .. Len(f) : new[Len(q) + i] = f[i]
         /\ new[Len(q) + Len(f) + 1] = e
<1>1. PICK c : c = q \o f
  OBVIOUS
<1>2. /\ c \in Seq(S) /\ Len(c) = Len(q) + Len(f) /\ Len(q) \in Nat /\ Len(f) \in Nat
      /\ \A i \in 1 .. Len(q) + Len(f) : c[i] = IF i <= Len(q) THEN q[i] ELSE f[i - Len(q)]
  BY <1>1, ConcatProperties, LenProperties
<1>3. \A i \in 1 .. Len(q) : c[i] = q[i]
  BY <1>2
<1>4. \A i \in 1 .. Len(f) : c[Len(q) + i] = f[i]
  BY <1>2
<1>5. PICK d : d = Append(c, e)
  OBVIOUS
<1>6. c \o <<e>> = d
  BY <1>2, <1>5
<1>7. /\ d \in Seq(S) /\ Len(d) = Len(q) + Len(f) + 1 /\ d[Len(q) + Len(f) + 1] = e
      /\ \A i \in 1 .. Len(q) + Len(f) : d[i] = c[i]
  BY <1>2, <1>5
<1>8. \A i \in 1 .. Len(q) : d[i] = q[i]
  BY <1>2, <1>3, <1>7
<1>9. \A i \in 1 .. Len(f) : d[Len(q) + i] = f[i]
  BY <1>2, <1>4, <1>7
<1>10. new = d
  BY <1>1, <1>6
<1> QED
  BY <1>7, <1>8, <1>9, <1>10

\* The fields of a frame.
LEMMA FrameFields ==
  ASSUME NEW f, NEW kind, NEW s, NEW e, f = Frame(kind, s, e)
  PROVE  f.kind = kind /\ f.sub = s /\ f.event = e
BY DEF Frame

LEMMA RequestReplays ==
  ASSUME TypeOK, NEW s \in Subs, NEW r, NEW q \in Seq(Frames), Request(s, r, q)
  PROVE  Replayed(incoming', q, s, Since(r)) /\ serving' = [serving EXCEPT ![s] = Since(r)]
<1>1. PICK since, E, n, new : /\ since = Since(r) /\ E = Matches(s, since)
                              /\ n = Len(q) /\ new = incoming'
  OBVIOUS
<1>2. PICK p \in OldestFirst(E) :
        new = q \o [i \in DOMAIN p |-> Frame("EVENT", s, p[i])] \o <<Frame("EOSE", s, None)>>
  BY <1>1 DEF Request
<1>3. IsFiniteSet(E) /\ E \subseteq Events /\ \A e \in E : stamp[e] \in Int
  BY <1>1, SubscriptionsAssumption, FS_Subset DEF Matches, Stored, TypeOK, Seconds
<1>4. PICK k \in Nat : k = Cardinality(E)
  BY <1>3, FS_CardinalityType
<1>5. p \in [1 .. k -> E] /\ \A e \in E : \E i \in 1 .. k : p[i] = e
  <2>1. IsFiniteSet(E) /\ p \in OldestFirst(E)
    BY <1>2, <1>3
  <2>2. p \in [1 .. Cardinality(E) -> E] /\ \A e \in E : \E i \in 1 .. Cardinality(E) : p[i] = e
    BY <2>1, ReplayComplete
  <2> QED
    BY <1>4, <2>2
<1>6. \A i, j \in 1 .. k : i < j => stamp[p[i]] <= stamp[p[j]]
  BY <1>2, <1>4 DEF OldestFirst
<1>7. /\ new \in Seq(Frames) /\ Len(new) = n + k + 1 /\ n \in Nat
      /\ \A i \in 1 .. n : new[i] = q[i]
      /\ \A i \in 1 .. k : new[n + i] = Frame("EVENT", s, p[i])
      /\ new[n + k + 1] = Frame("EOSE", s, None)
  <2>1. /\ new \in Seq(Frames) /\ Len(new) = Len(q) + k + 1
        /\ \A i \in 1 .. Len(q) : new[i] = q[i]
        /\ \A i \in 1 .. k : new[Len(q) + i] = Frame("EVENT", s, p[i])
        /\ new[Len(q) + k + 1] = Frame("EOSE", s, None)
    <3>1. PICK f : f = [i \in DOMAIN p |-> Frame("EVENT", s, p[i])]
      OBVIOUS
    <3>2. DOMAIN p = 1 .. k
      BY <1>5
    <3>3. f \in [1 .. k -> Frames] /\ \A i \in 1 .. k : f[i] = Frame("EVENT", s, p[i])
      BY <1>3, <1>5, <3>1, <3>2 DEF Frame, Frames
    <3>4. f \in Seq(Frames) /\ Len(f) = k
      BY <1>4, <3>3
    <3>5. PICK e : e = Frame("EOSE", s, None)
      OBVIOUS
    <3>6. e \in Frames
      BY <3>5 DEF Frame, Frames
    <3>7. new = (q \o f) \o <<e>>
      BY <1>2, <3>1, <3>5
    <3>8. /\ new \in Seq(Frames) /\ Len(new) = Len(q) + Len(f) + 1
          /\ \A i \in 1 .. Len(q) : new[i] = q[i]
          /\ \A i \in 1 .. Len(f) : new[Len(q) + i] = f[i]
          /\ new[Len(q) + Len(f) + 1] = e
      <4>1. PICK F : F = Frames
        OBVIOUS
      <4>2. q \in Seq(F) /\ f \in Seq(F) /\ e \in F
        BY <3>4, <3>6, <4>1
      <4>3. /\ new \in Seq(F) /\ Len(new) = Len(q) + Len(f) + 1
            /\ \A i \in 1 .. Len(q) : new[i] = q[i]
            /\ \A i \in 1 .. Len(f) : new[Len(q) + i] = f[i]
            /\ new[Len(q) + Len(f) + 1] = e
        BY <3>7, <4>2, ThreeParts
      <4> QED
        BY <4>1, <4>3
    <3> QED
      BY <1>4, <3>3, <3>4, <3>5, <3>8
  <2> QED
    BY <1>1, <2>1, LenProperties
<1>8. \A i \in n + 1 .. Len(new) :
         \/ i = n + k + 1 /\ new[i] = Frame("EOSE", s, None)
         \/ i - n \in 1 .. k /\ new[i] = Frame("EVENT", s, p[i - n]) /\ p[i - n] \in E
  <2> SUFFICES ASSUME NEW i \in n + 1 .. Len(new), i # n + k + 1
               PROVE  /\ i - n \in 1 .. k /\ new[i] = Frame("EVENT", s, p[i - n])
                      /\ p[i - n] \in E
    BY <1>7
  <2>1. i - n \in 1 .. k /\ n + (i - n) = i
    BY <1>4, <1>7
  <2>2. new[n + (i - n)] = Frame("EVENT", s, p[i - n])
    BY <1>7, <2>1
  <2> QED
    BY <1>5, <2>1, <2>2
<1>9. \A e \in E : \E i \in n + 1 .. Len(new) : Brings(new, i, e)
  <2> SUFFICES ASSUME NEW e \in E PROVE \E i \in n + 1 .. Len(new) : Brings(new, i, e)
    OBVIOUS
  <2>1. PICK x \in 1 .. k : p[x] = e
    BY <1>5
  <2>2. n + x \in n + 1 .. Len(new) /\ new[n + x] = Frame("EVENT", s, e)
    BY <1>4, <1>7, <2>1
  <2> QED
    BY <2>2 DEF Brings, Frame
<1>10. ASSUME NEW e \in E, NEW i \in n + 1 .. Len(new), new[i].kind = "EVENT",
              stamp[e] < stamp[new[i].event]
       PROVE  \E j \in n + 1 .. i - 1 : Brings(new, j, e)
  <2>1. PICK x \in 1 .. k : p[x] = e
    BY <1>5
  <2>2. PICK y : y = i - n
    OBVIOUS
  <2>3. y \in 1 .. k /\ new[i].event = p[y] /\ p[y] \in E /\ i = n + y
    <3>1. i # n + k + 1
      BY <1>7, <1>10, FrameFields
    <3>2. i - n \in 1 .. k /\ new[i] = Frame("EVENT", s, p[i - n]) /\ p[i - n] \in E
      BY <1>8, <3>1
    <3>3. new[i].event = p[i - n]
      BY <3>2, FrameFields
    <3>4. i = n + y
      BY <1>7, <2>2
    <3> QED
      BY <2>2, <3>2, <3>3, <3>4
  <2>4. stamp[e] \in Int /\ stamp[p[y]] \in Int /\ stamp[e] < stamp[p[y]]
    BY <1>3, <1>10, <2>3
  <2>5. x < y
    BY <1>6, <2>1, <2>3, <2>4
  <2>6. n + x \in n + 1 .. i - 1 /\ new[n + x] = Frame("EVENT", s, e)
    <3>1. n \in Nat /\ x \in Nat /\ y \in Nat /\ 1 <= x
      BY <1>4, <1>7, <2>1, <2>3
    <3>2. n + x \in n + 1 .. i - 1
      BY <2>3, <2>5, <3>1
    <3> QED
      BY <1>7, <2>1, <3>2
  <2> QED
    BY <2>6 DEF Brings, Frame
<1>11. \A i \in n + 1 .. Len(new) :
         /\ new[i].sub = s /\ new[i].kind # "CLOSED"
         /\ new[i].kind = "EVENT" => new[i].event \in E
  <2> SUFFICES ASSUME NEW i \in n + 1 .. Len(new)
               PROVE  /\ new[i].sub = s /\ new[i].kind # "CLOSED"
                      /\ new[i].kind = "EVENT" => new[i].event \in E
    OBVIOUS
  <2>1. CASE new[i] = Frame("EOSE", s, None)
    BY <2>1, FrameFields
  <2>2. CASE new[i] = Frame("EVENT", s, p[i - n]) /\ p[i - n] \in E
    BY <2>2, FrameFields
  <2> QED
    BY <1>8, <2>1, <2>2
<1>12. n <= Len(new)
  BY <1>4, <1>7
<1>13. serving' = [serving EXCEPT ![s] = Since(r)]
  BY DEF Request
<1> QED
  BY <1>1, <1>7, <1>9, <1>10, <1>11, <1>12, <1>13 DEF Replayed

\* A replay takes nothing away, and brings its subscription all it misses.
LEMMA ReplayKeeps ==
  ASSUME TypeOK, NEW s \in Subs, NEW since, NEW q \in Seq(Frames), Genuine(q),
         NEW new, Replayed(new, q, s, since)
  PROVE  /\ new \in Seq(Frames) /\ Genuine(new)
         /\ \A t \in Subs : t # s /\ Ordered(q, t) => Ordered(new, t)
         /\ \A t \in Subs : Coming(q, t) => Coming(new, t)
         /\ \A t \in Subs : Ends(q, t) => Ends(new, t)
         /\ Missed(s) \subseteq Matches(s, since) => Coming(new, s)
         /\ Missed(s) \subseteq Matches(s, since) /\ Ordered(q, s) => Ordered(new, s)
<1>1. /\ new \in Seq(Frames) /\ Len(q) \in Nat /\ Len(new) \in Nat /\ Len(q) <= Len(new)
      /\ DOMAIN q = 1 .. Len(q) /\ DOMAIN new = 1 .. Len(new)
      /\ \A i \in DOMAIN q : i \in DOMAIN new /\ new[i] = q[i]
  BY LenProperties DEF Replayed
<1>2. \A i \in DOMAIN new : i \in DOMAIN q \/ i \in Len(q) + 1 .. Len(new)
  BY <1>1
<1>3. \A i \in Len(q) + 1 .. Len(new) :
        /\ i \in DOMAIN new /\ new[i].sub = s /\ new[i].kind # "CLOSED"
        /\ new[i].kind = "EVENT" => new[i].event \in Matches(s, since)
  BY <1>1 DEF Replayed
<1>4. Genuine(new)
  <2> SUFFICES ASSUME NEW i \in DOMAIN new, new[i].kind = "EVENT"
               PROVE  /\ new[i].event \in Events /\ new[i].sub = SubOf[new[i].event]
                      /\ Stored(new[i].event)
    BY DEF Genuine
  <2>1. CASE i \in DOMAIN q
    BY <1>1, <2>1 DEF Genuine
  <2>2. CASE i \in Len(q) + 1 .. Len(new)
    BY <1>3, <2>2 DEF Matches
  <2> QED
    BY <1>2, <2>1, <2>2
<1>5. ASSUME NEW t \in Subs, t # s, Ordered(q, t) PROVE Ordered(new, t)
  <2> SUFFICES ASSUME NEW e \in Missed(t), NEW i \in DOMAIN new,
                      new[i].kind = "EVENT" /\ new[i].sub = t,
                      stamp[e] < stamp[new[i].event] - Skew
               PROVE  \E j \in 1 .. i - 1 : Brings(new, j, e)
    BY DEF Ordered
  <2>1. i \in DOMAIN q
    BY <1>2, <1>3, <1>5
  <2>2. PICK j \in 1 .. i - 1 : Brings(q, j, e)
    BY <1>1, <1>5, <2>1 DEF Ordered
  <2>3. j \in DOMAIN q
    BY <1>1, <2>1, <2>2
  <2> QED
    BY <1>1, <2>2, <2>3 DEF Brings
<1>6. ASSUME NEW t \in Subs, Coming(q, t) PROVE Coming(new, t)
  BY <1>1, <1>6 DEF Coming, Brings
<1>7. ASSUME NEW t \in Subs, Ends(q, t) PROVE Ends(new, t)
  BY <1>1, <1>7 DEF Ends
<1>8. ASSUME Missed(s) \subseteq Matches(s, since) PROVE Coming(new, s)
  BY <1>3, <1>8 DEF Coming, Replayed
<1>9. ASSUME Missed(s) \subseteq Matches(s, since), Ordered(q, s) PROVE Ordered(new, s)
  <2> SUFFICES ASSUME NEW e \in Missed(s), NEW i \in DOMAIN new,
                      new[i].kind = "EVENT" /\ new[i].sub = s,
                      stamp[e] < stamp[new[i].event] - Skew
               PROVE  \E j \in 1 .. i - 1 : Brings(new, j, e)
    BY DEF Ordered
  <2>1. CASE i \in DOMAIN q
    <3>1. PICK j \in 1 .. i - 1 : Brings(q, j, e)
      BY <1>1, <1>9, <2>1 DEF Ordered
    <3>2. j \in DOMAIN q
      BY <1>1, <2>1, <3>1
    <3> QED
      BY <1>1, <3>1, <3>2 DEF Brings
  <2>2. CASE i \in Len(q) + 1 .. Len(new)
    <3>1. e \in Matches(s, since) /\ new[i].event \in Matches(s, since)
      BY <1>3, <1>9, <2>2
    <3>2. stamp[e] \in Int /\ stamp[new[i].event] \in Int /\ Skew \in Nat
      BY <3>1, SubscriptionsAssumption DEF Matches, Stored, TypeOK, Seconds
    <3>3. stamp[e] < stamp[new[i].event]
      BY <3>2
    <3>4. PICK j \in Len(q) + 1 .. i - 1 : Brings(new, j, e)
      BY <2>2, <3>1, <3>3 DEF Replayed
    <3>5. j \in 1 .. i - 1
      BY <1>1, <3>4
    <3> QED
      BY <3>4, <3>5
  <2> QED
    BY <1>2, <2>1, <2>2
<1> QED
  BY <1>1, <1>4, <1>5, <1>6, <1>7, <1>8, <1>9

\* What is left when the first frame was read, and nothing is missed that it brought.
LEMMA TailKeeps ==
  ASSUME NEW q \in Seq(Frames), q # <<>>, Genuine(q), UNCHANGED stamp, NEW new, new = Tail(q)
  PROVE  /\ new \in Seq(Frames) /\ Genuine(new)
         /\ \A s \in Subs :
              /\ Missed(s)' \subseteq Missed(s)
              /\ \A e \in Missed(s)' : ~Brings(q, 1, e)
              => /\ Ordered(q, s) => Ordered(new, s)'
                 /\ Coming(q, s) => Coming(new, s)'
         /\ \A s \in Subs : Ends(q, s) /\ ~(q[1].kind = "CLOSED" /\ q[1].sub = s) => Ends(new, s)
<1>1. /\ new \in Seq(Frames) /\ Len(q) \in Nat \ {0} /\ Len(new) = Len(q) - 1
      /\ DOMAIN q = 1 .. Len(q) /\ DOMAIN new = 1 .. Len(q) - 1
      /\ \A i \in DOMAIN new : i + 1 \in DOMAIN q /\ new[i] = q[i + 1]
  BY LenProperties, HeadTailProperties, EmptySeq
<1>2. \A i \in DOMAIN q : i = 1 \/ (i - 1 \in DOMAIN new /\ new[i - 1] = q[i])
  <2> SUFFICES ASSUME NEW i \in DOMAIN q, i # 1 PROVE i - 1 \in DOMAIN new /\ new[i - 1] = q[i]
    OBVIOUS
  <2>1. i - 1 \in DOMAIN new /\ (i - 1) + 1 = i
    BY <1>1
  <2> QED
    BY <1>1, <2>1
<1>3. Genuine(new)
  BY <1>1 DEF Genuine
<1>4. ASSUME NEW s \in Subs, Missed(s)' \subseteq Missed(s),
             \A e \in Missed(s)' : ~Brings(q, 1, e)
      PROVE  /\ Ordered(q, s) => Ordered(new, s)'
             /\ Coming(q, s) => Coming(new, s)'
  <2>1. ASSUME Ordered(q, s) PROVE Ordered(new, s)'
    <3> SUFFICES ASSUME NEW e \in Missed(s)', NEW i \in DOMAIN new,
                        new[i].kind = "EVENT" /\ new[i].sub = s,
                        stamp[e] < stamp[new[i].event] - Skew
                 PROVE  \E j \in 1 .. i - 1 : Brings(new, j, e)
      BY DEF Ordered
    <3>1. i + 1 \in DOMAIN q /\ new[i] = q[i + 1]
      BY <1>1
    <3>2. PICK j \in 1 .. (i + 1) - 1 : Brings(q, j, e)
      BY <1>4, <2>1, <3>1 DEF Ordered
    <3>3. j # 1
      BY <1>4, <3>2
    <3>4. j \in DOMAIN q
      BY <1>1, <3>1, <3>2
    <3>5. j - 1 \in DOMAIN new /\ new[j - 1] = q[j]
      BY <1>2, <3>3, <3>4
    <3>6. j - 1 \in 1 .. i - 1
      BY <1>1, <3>2, <3>3
    <3> QED
      BY <3>2, <3>5, <3>6 DEF Brings
  <2>2. ASSUME Coming(q, s) PROVE Coming(new, s)'
    <3> SUFFICES ASSUME NEW e \in Missed(s)' PROVE \E i \in DOMAIN new : Brings(new, i, e)
      BY DEF Coming
    <3>1. PICK i \in DOMAIN q : Brings(q, i, e)
      BY <1>4, <2>2 DEF Coming
    <3>2. i # 1
      BY <1>4, <3>1
    <3> QED
      BY <1>2, <3>1, <3>2 DEF Brings
  <2> QED
    BY <2>1, <2>2
<1>5. ASSUME NEW s \in Subs, Ends(q, s), ~(q[1].kind = "CLOSED" /\ q[1].sub = s)
      PROVE  Ends(new, s)
  <2>1. PICK i \in DOMAIN q : q[i].kind = "CLOSED" /\ q[i].sub = s
    BY <1>5 DEF Ends
  <2> QED
    BY <1>2, <1>5, <2>1 DEF Ends
<1> QED
  BY <1>1, <1>3, <1>4, <1>5

\* A frame is added at the end.
LEMMA AppendKeeps ==
  ASSUME NEW q \in Seq(Frames), NEW f \in Frames, NEW new, new = Append(q, f)
  PROVE  /\ new \in Seq(Frames) /\ DOMAIN new = DOMAIN q \cup {Len(q) + 1}
         /\ \A i \in DOMAIN q : new[i] = q[i] /\ i < Len(q) + 1
         /\ new[Len(q) + 1] = f
         /\ DOMAIN q = 1 .. Len(q) /\ Len(q) \in Nat
<1>1. /\ new \in Seq(Frames) /\ Len(new) = Len(q) + 1 /\ Len(q) \in Nat
      /\ \A i \in 1 .. Len(q) : new[i] = q[i]
      /\ new[Len(q) + 1] = f
  OBVIOUS
<1>2. DOMAIN new = 1 .. Len(q) + 1 /\ DOMAIN q = 1 .. Len(q)
  BY <1>1
<1> QED
  BY <1>1, <1>2

\* What is missed depends on what is stored and what was handed over.
LEMMA SameMissed ==
  ASSUME UNCHANGED <<stamp, handed>>
  PROVE  /\ \A s : Missed(s)' = Missed(s)
         /\ \A q, s : Ordered(q, s)' = Ordered(q, s) /\ Coming(q, s)' = Coming(q, s)
         /\ \A q : Genuine(q)' = Genuine(q)
BY DEF Missed, Ordered, Coming, Genuine, Stored, Elements, StartupWatermark

-----------------------------------------------------------------------------
(* The steps.                                                                *)

\* What the queue q held for t, the next queue holds.
Kept(q, t) ==
  /\ Ordered(q, t) => Ordered(incoming, t)'
  /\ Coming(q, t) => Coming(incoming, t)'
  /\ Ends(q, t) => Ends(incoming, t)'

LEMMA RequestKeeps ==
  ASSUME TypeOK, UNCHANGED <<stamp, handed>>, NEW s \in Subs, NEW r, Since(r) \in Int,
         NEW q \in Seq(Frames), Genuine(q), Request(s, r, q)
  PROVE  /\ serving' \in [Subs -> Int \cup {None}] /\ serving'[s] = Since(r)
         /\ \A t \in Subs \ {s} : serving'[t] = serving[t]
         /\ incoming' \in Seq(Frames) /\ Genuine(incoming)'
         /\ \A t \in Subs \ {s} : Kept(q, t)
         /\ Coming(q, s) => Coming(incoming, s)'
         /\ Missed(s) \subseteq Matches(s, Since(r)) => Kept(q, s) /\ Coming(incoming, s)'
<1>1. PICK since, new : since = Since(r) /\ new = incoming'
  OBVIOUS
<1>2. Replayed(new, q, s, since) /\ serving' = [serving EXCEPT ![s] = since]
  BY <1>1, RequestReplays
<1>3. /\ new \in Seq(Frames) /\ Genuine(new)
      /\ \A t \in Subs : t # s /\ Ordered(q, t) => Ordered(new, t)
      /\ \A t \in Subs : Coming(q, t) => Coming(new, t)
      /\ \A t \in Subs : Ends(q, t) => Ends(new, t)
      /\ Missed(s) \subseteq Matches(s, since) => Coming(new, s)
      /\ Missed(s) \subseteq Matches(s, since) /\ Ordered(q, s) => Ordered(new, s)
  BY <1>2, ReplayKeeps
<1>4. /\ \A t : Missed(t)' = Missed(t)
      /\ Genuine(incoming)' = Genuine(new)
      /\ \A t : Ordered(incoming, t)' = Ordered(new, t)
      /\ \A t : Coming(incoming, t)' = Coming(new, t)
      /\ \A t : Ends(incoming, t)' = Ends(new, t)
  BY <1>1 DEF Missed, Ordered, Coming, Ends, Genuine, Stored, Elements, StartupWatermark
<1>5. serving \in [Subs -> Int \cup {None}]
  BY DEF TypeOK
<1> QED
  BY <1>1, <1>2, <1>3, <1>4, <1>5 DEF Kept

\* A queue of frames that stays as it is, or is emptied.
LEMMA SameQueue ==
  ASSUME UNCHANGED <<stamp, handed, incoming>>
  PROVE  /\ Genuine(incoming)' = Genuine(incoming)
         /\ \A t : Missed(t)' = Missed(t)
         /\ \A t : Ordered(incoming, t)' = Ordered(incoming, t)
         /\ \A t : Coming(incoming, t)' = Coming(incoming, t)
         /\ \A t : Ends(incoming, t)' = Ends(incoming, t)
BY DEF Missed, Ordered, Coming, Ends, Genuine, Stored, Elements, StartupWatermark

\* A request, written at once or parked.
LEMMA SendReqKeeps ==
  ASSUME TypeOK, UNCHANGED <<stamp, handed>>, NEW s \in Subs, NEW r, Since(r) \in Int,
         NEW q \in Seq(Frames), Genuine(q), SendReq(s, r, q)
  PROVE  /\ serving' \in [Subs -> Int \cup {None}] /\ parked' \in [Subs -> Nat]
         /\ \A t \in Subs \ {s} : serving'[t] = serving[t] /\ parked'[t] = parked[t]
         /\ incoming' \in Seq(Frames) /\ Genuine(incoming)'
         /\ \A t \in Subs \ {s} : Kept(q, t)
         /\ Coming(q, s) => Coming(incoming, s)'
         /\ Missed(s) \subseteq Matches(s, Since(r)) => Kept(q, s)
         /\ \/ serving'[s] = serving[s] /\ parked'[s] > 0
            \/ /\ serving'[s] = Since(r)
               /\ Missed(s) \subseteq Matches(s, Since(r)) => Coming(incoming, s)'
<1>1. serving \in [Subs -> Int \cup {None}] /\ parked \in [Subs -> Nat]
  BY DEF TypeOK
<1>2. CASE Request(s, r, q) /\ UNCHANGED parked
  BY <1>1, <1>2, RequestKeeps DEF Kept
<1>3. CASE parked' = [parked EXCEPT ![s] = @ + 1] /\ incoming' = q /\ UNCHANGED serving
  <2>1. parked' \in [Subs -> Nat] /\ parked'[s] > 0
    BY <1>1, <1>3
  <2>2. \A t \in Subs \ {s} : serving'[t] = serving[t] /\ parked'[t] = parked[t]
    BY <1>1, <1>3
  <2>3. Genuine(incoming)' /\ \A t : Kept(q, t)
    BY <1>3 DEF Missed, Ordered, Coming, Ends, Genuine, Stored, Elements,
                StartupWatermark, Kept
  <2> QED
    BY <1>1, <1>3, <2>1, <2>2, <2>3 DEF Kept
<1> QED
  BY <1>2, <1>3 DEF SendReq

LEMMA IncomingType == TypeOK <=> TypeOK /\ incoming \in Seq(Frames)
BY DEF TypeOK, Frames

LEMMA SubsInit ==
  ASSUME Init
  PROVE  SubsInv
<1>1. /\ IsFiniteSet({}) /\ Cardinality({}) = 0
      /\ RotateAt \in Nat \ {0} /\ MaxClock \in Nat /\ MaxTroubles \in Nat
      /\ None \notin Int /\ Skew \in Nat /\ Lag \in Nat
  BY FS_EmptySet, SubscriptionsAssumption
<1>2. TypeOK
  <2>0. clock = 0 /\ troubles = 0
    BY DEF Init
  <2>1. clock \in 0 .. MaxClock /\ troubles \in 0 .. MaxTroubles
    BY <1>1, <2>0
  <2>7. up \in BOOLEAN
    BY DEF Init
  <2>6. /\ stamp \in [Events -> Seconds \cup {None}]
        /\ serving \in [Subs -> Int \cup {None}]
        /\ parked \in [Subs -> Nat] /\ \A s \in Subs : parked[s] = 0
    BY DEF Init
  <2>2. incoming \in Seq(Frames) /\ handed \in Seq(Events)
    BY DEF Init
  <2>3. records \in [Subs -> RecordType]
    BY DEF Init, Unregistered, RecordType
  <2>4. /\ seen \in [current : SUBSET Events, previous : SUBSET Events]
        /\ Cardinality(seen.current) = 0 /\ Cardinality(seen.previous) = 0
    BY <1>1 DEF Init
  <2>5. failed = {} /\ reused = {} /\ ended = {}
    BY DEF Init
  <2> QED
    BY <1>1, <2>1, <2>2, <2>3, <2>4, <2>5, <2>6, <2>7 DEF TypeOK, RecordType, Frames
<1>3. HandedInv
  <2>1. SeenOK /\ SeenWindow
    BY DEF Init, SeenOK, SeenWindow
  <2>2. WindowOK
    <3>1. Len(handed) = 0 /\ seen.current = {} /\ seen.previous = {}
      BY DEF Init
    <3>2. {handed[i] : i \in 0 - 0 + 1 .. 0} = {} /\ {handed[i] : i \in 0 - 0 - 0 + 1 .. 0 - 0} = {}
      OBVIOUS
    <3> QED
      BY <1>1, <3>1, <3>2 DEF WindowOK
  <2> QED
    BY <2>1, <2>2 DEF HandedInv
<1>4. Registered = {}
  BY DEF Init, Registered, Unregistered
<1>5. WireOK /\ FloorOK /\ OrderOK /\ ServedOK
  BY <1>4 DEF Init, WireOK, FloorOK, OrderOK, ServedOK, Unbroken, Genuine
<1>6. TimesOK
  BY <1>1 DEF Init, TimesOK, Stored, Unregistered
<1> QED
  BY <1>2, <1>3, <1>5, <1>6 DEF SubsInv

\* The parts of the state that steps without a publication or a delivery change.
LEMMA TypesKept ==
  ASSUME TypeOK, UNCHANGED <<stamp, seen, handed, failed>>,
         clock' \in 0 .. MaxClock, up' \in BOOLEAN, troubles' \in 0 .. MaxTroubles,
         serving' \in [Subs -> Int \cup {None}], parked' \in [Subs -> Nat],
         incoming' \in Seq(Frames), records' \in [Subs -> RecordType],
         \A s \in Subs : records'[s].registered \/ parked'[s] = 0,
         reused' \subseteq Subs, ended' \subseteq Subs
  PROVE  TypeOK'
<1>1. \A s \in Subs \ Registered' : parked'[s] = 0
  BY DEF Registered
<1>2. failed' \subseteq Elements(handed)'
  BY DEF TypeOK, Elements
<1> QED
  BY <1>1, <1>2 DEF TypeOK, RecordType, Frames

LEMMA SubscribeKeeps ==
  ASSUME SubsInv, NEW s \in Subs, Subscribe(s)
  PROVE  SubsInv'
<1>1. /\ TypeOK /\ HandedInv /\ WireOK /\ TimesOK /\ FloorOK /\ OrderOK /\ ServedOK
      /\ incoming \in Seq(Frames) /\ records \in [Subs -> RecordType]
      /\ serving \in [Subs -> Int \cup {None}] /\ parked \in [Subs -> Nat]
  BY DEF SubsInv, TypeOK, RecordType, Frames
<1>2. /\ UNCHANGED <<clock, stamp, up, seen, handed, failed, troubles, ended>>
      /\ s \notin Registered /\ serving[s] = None /\ Genuine(incoming)
  BY <1>1 DEF Subscribe, relay, WireOK
<1>3. /\ records' \in [Subs -> RecordType] /\ records'[s] = Fresh
      /\ \A t \in Subs \ {s} : records'[t] = records[t]
  BY <1>1 DEF Subscribe, Fresh, RecordType
<1>15. records'[s].lastSeen = None /\ records'[s].registered
  BY <1>3 DEF Fresh
<1>16. \A t \in Subs : records[t].registered \/ parked[t] = 0
  BY <1>1 DEF TypeOK, Registered
<1>17. \A t \in Subs : records'[t].lastSeen # None => records'[t].lastSeen <= clock'
  <2> SUFFICES ASSUME NEW t \in Subs, records'[t].lastSeen # None
               PROVE  records'[t].lastSeen <= clock'
    OBVIOUS
  <2>1. t # s /\ records'[t] = records[t]
    BY <1>3, <1>15
  <2> QED
    BY <1>1, <1>2, <2>1 DEF TimesOK
<1>4. Registered' = Registered \cup {s}
  BY <1>3 DEF Registered, Fresh
<1>5. /\ reused \subseteq reused' /\ reused' \subseteq Subs
      /\ s \notin reused' => \A i \in DOMAIN incoming : incoming[i].sub # s
  BY <1>1 DEF Subscribe, TypeOK
<1>6. Unbroken' \subseteq Unbroken \cup {s}
  BY <1>4, <1>5 DEF Unbroken
<1>7. Since(Fresh) = 0 /\ Since(Fresh) \in Int /\ 0 \in Int
  BY DEF Since, Fresh, StartupWatermark
<1>8. Missed(s) \subseteq Matches(s, Since(Fresh))
  BY <1>7 DEF Missed, Matches, StartupWatermark
<1>9. \A t : Missed(t)' = Missed(t)
  BY <1>2, SameMissed
<1>10. s \in Unbroken' => Ordered(incoming, s)
  BY <1>5 DEF Ordered, Unbroken
<1>11. HandedInv'
  BY <1>1, <1>2, NothingHanded
<1>12. FloorOK'
  <2> SUFFICES ASSUME NEW t \in Unbroken', NEW e \in Missed(t)', records'[t].lastSeen # None
               PROVE  stamp'[e] >= records'[t].lastSeen - Skew
    BY DEF FloorOK
  <2>1. t \in Unbroken /\ t \in Subs /\ t # s /\ records'[t] = records[t] /\ e \in Missed(t)
    BY <1>3, <1>6, <1>9, <1>15 DEF Unbroken, Registered
  <2> QED
    BY <1>1, <1>2, <2>1 DEF FloorOK
<1>13. CASE up
  <2>1. SendReq(s, Fresh, incoming)
    BY <1>13 DEF Subscribe
  <2>2. /\ serving' \in [Subs -> Int \cup {None}] /\ parked' \in [Subs -> Nat]
        /\ \A t \in Subs \ {s} : serving'[t] = serving[t] /\ parked'[t] = parked[t]
        /\ incoming' \in Seq(Frames) /\ Genuine(incoming)'
        /\ \A t \in Subs : Kept(incoming, t)
        /\ \/ serving'[s] = None /\ parked'[s] > 0
           \/ serving'[s] = 0 /\ Coming(incoming, s)'
    BY <1>1, <1>2, <1>7, <1>8, <2>1, SendReqKeeps
  <2>3. TypeOK'
    <3>1. /\ clock' \in 0 .. MaxClock /\ up' \in BOOLEAN /\ troubles' \in 0 .. MaxTroubles
          /\ ended' \subseteq Subs
      BY <1>1, <1>2 DEF TypeOK
    <3>2. \A t \in Subs : records'[t].registered \/ parked'[t] = 0
      BY <1>3, <1>15, <1>16, <2>2
    <3> QED
      BY <1>1, <1>2, <1>3, <1>5, <2>2, <3>1, <3>2, TypesKept
  <2>4. WireOK'
    BY <1>1, <1>2, <1>4, <1>13, <2>2 DEF WireOK
  <2>5. TimesOK'
    <3>2. \A t \in Subs : serving'[t] # None => serving'[t] <= 0 \/ serving'[t] + Skew <= clock'
      BY <1>1, <1>2, <2>2 DEF TimesOK, Due
    <3>3. \A e \in Events : stamp'[e] # None => stamp'[e] <= clock'
      BY <1>1, <1>2 DEF TimesOK, Stored
    <3> QED
      BY <1>17, <3>2, <3>3 DEF TimesOK, Due, Stored
  <2>6. OrderOK'
    <3> SUFFICES ASSUME NEW t \in Unbroken' PROVE Ordered(incoming, t)'
      BY DEF OrderOK
    <3>1. Ordered(incoming, t) /\ t \in Subs
      BY <1>1, <1>6, <1>10 DEF OrderOK, Unbroken, Registered
    <3> QED
      BY <2>2, <3>1 DEF Kept
  <2>7. ServedOK'
    <3> SUFFICES ASSUME NEW t \in Unbroken'
                 PROVE  IF serving'[t] # None THEN Coming(incoming, t)'
                        ELSE parked'[t] > 0 \/ t \in ended' \/ Ends(incoming, t)'
      BY DEF ServedOK
    <3>1. CASE t = s
      BY <1>1, <2>2, <3>1, SubscriptionsAssumption
    <3>2. CASE t # s
      <4>1. t \in Unbroken /\ t \in Subs /\ Kept(incoming, t) /\ serving'[t] = serving[t]
            /\ parked'[t] = parked[t]
        BY <1>6, <2>2, <3>2 DEF Unbroken, Registered
      <4> QED
        BY <1>1, <1>2, <1>13, <4>1 DEF ServedOK, Kept
    <3> QED
      BY <3>1, <3>2
  <2> QED
    BY <1>11, <1>12, <2>3, <2>4, <2>5, <2>6, <2>7 DEF SubsInv
<1>14. CASE ~up
  <2>1. UNCHANGED <<serving, incoming, parked>>
    BY <1>14 DEF Subscribe
  <2>2. TypeOK'
    <3>1. /\ clock' \in 0 .. MaxClock /\ up' \in BOOLEAN /\ troubles' \in 0 .. MaxTroubles
          /\ ended' \subseteq Subs
      BY <1>1, <1>2 DEF TypeOK
    <3>2. \A t \in Subs : records'[t].registered \/ parked'[t] = 0
      BY <1>3, <1>15, <1>16, <2>1
    <3> QED
      BY <1>1, <1>2, <1>3, <1>5, <2>1, <3>1, <3>2, TypesKept
  <2>3. WireOK'
    BY <1>1, <1>2, <1>4, <2>1, SameQueue DEF WireOK
  <2>4. TimesOK'
    BY <1>1, <1>2, <1>17, <2>1 DEF TimesOK, Due, Stored
  <2>5. OrderOK'
    <3> SUFFICES ASSUME NEW t \in Unbroken' PROVE Ordered(incoming, t)'
      BY DEF OrderOK
    <3>1. Ordered(incoming, t)
      BY <1>1, <1>6, <1>10 DEF OrderOK
    <3> QED
      BY <1>2, <2>1, <3>1, SameQueue
  <2>6. ServedOK'
    BY <1>2, <1>14 DEF ServedOK
  <2> QED
    BY <1>11, <1>12, <2>2, <2>3, <2>4, <2>5, <2>6 DEF SubsInv
<1> QED
  BY <1>13, <1>14

LEMMA UnsubscribeKeeps ==
  ASSUME SubsInv, NEW s \in Subs, Unsubscribe(s)
  PROVE  SubsInv'
<1>1. /\ TypeOK /\ HandedInv /\ WireOK /\ TimesOK /\ FloorOK /\ OrderOK /\ ServedOK
      /\ incoming \in Seq(Frames) /\ records \in [Subs -> RecordType]
      /\ serving \in [Subs -> Int \cup {None}] /\ parked \in [Subs -> Nat]
  BY DEF SubsInv, TypeOK, RecordType, Frames
<1>2. /\ UNCHANGED <<clock, stamp, up, incoming, seen, handed, failed, reused>>
      /\ ended' = ended \ {s}
  BY DEF Unsubscribe, relay
<1>3. /\ records' \in [Subs -> RecordType] /\ records'[s] = Unregistered
      /\ \A t \in Subs \ {s} : records'[t] = records[t]
  BY <1>1 DEF Unsubscribe, Unregistered, RecordType
<1>4. Registered' = Registered \ {s} /\ Unbroken' = Unbroken \ {s}
  BY <1>2, <1>3 DEF Registered, Unregistered, Unbroken
<1>5. /\ serving' \in [Subs -> Int \cup {None}] /\ serving'[s] = None
      /\ parked' \in [Subs -> Nat] /\ parked'[s] = 0
      /\ \A t \in Subs \ {s} : serving'[t] = serving[t] /\ parked'[t] = parked[t]
  BY <1>1 DEF Unsubscribe
<1>6. TypeOK'
  <2>1. /\ clock' \in 0 .. MaxClock /\ up' \in BOOLEAN
        /\ ended' \subseteq Subs /\ reused' \subseteq Subs
    BY <1>1, <1>2 DEF TypeOK
  <2>2. troubles' \in 0 .. MaxTroubles
    BY <1>1, SubscriptionsAssumption DEF Unsubscribe, Trouble, TypeOK
  <2>3. \A t \in Subs : records'[t].registered \/ parked'[t] = 0
    BY <1>1, <1>3, <1>5 DEF TypeOK, Registered
  <2> QED
    BY <1>1, <1>2, <1>3, <1>5, <2>1, <2>2, <2>3, TypesKept
<1>7. HandedInv'
  BY <1>1, <1>2, NothingHanded
<1>8. WireOK'
  BY <1>1, <1>2, <1>4, <1>5, SameQueue DEF WireOK
<1>9. TimesOK'
  <2>1. \A t \in Subs : records'[t].lastSeen # None => records'[t].lastSeen <= clock'
    <3> SUFFICES ASSUME NEW t \in Subs, records'[t].lastSeen # None
                 PROVE  records'[t].lastSeen <= clock'
      OBVIOUS
    <3>1. t # s
      BY <1>3 DEF Unregistered
    <3> QED
      BY <1>1, <1>2, <1>3, <3>1 DEF TimesOK
  <2> QED
    BY <1>1, <1>2, <1>5, <2>1 DEF TimesOK, Due, Stored
<1>10. FloorOK' /\ OrderOK'
  BY <1>1, <1>2, <1>3, <1>4, SameQueue DEF FloorOK, OrderOK, Unbroken, Registered
<1>11. ServedOK'
  <2> SUFFICES ASSUME up', NEW t \in Unbroken'
               PROVE  IF serving'[t] # None THEN Coming(incoming, t)'
                      ELSE parked'[t] > 0 \/ t \in ended' \/ Ends(incoming, t)'
    BY DEF ServedOK
  <2>1. t \in Unbroken /\ t \in Subs \ {s}
    BY <1>4 DEF Unbroken, Registered
  <2> QED
    BY <1>1, <1>2, <1>5, <2>1, SameQueue DEF ServedOK
<1> QED
  BY <1>6, <1>7, <1>8, <1>9, <1>10, <1>11 DEF SubsInv

\* What the invariant says, in the forms the steps need.
LEMMA Unfold ==
  ASSUME SubsInv
  PROVE  /\ TypeOK /\ HandedInv /\ WireOK /\ TimesOK /\ FloorOK /\ OrderOK /\ ServedOK
         /\ incoming \in Seq(Frames) /\ records \in [Subs -> RecordType]
         /\ serving \in [Subs -> Int \cup {None}] /\ parked \in [Subs -> Nat]
         /\ \A t \in Subs : records[t].registered \/ parked[t] = 0
         /\ clock \in 0 .. MaxClock /\ up \in BOOLEAN /\ troubles \in 0 .. MaxTroubles
         /\ reused \subseteq Subs /\ ended \subseteq Subs /\ handed \in Seq(Events)
         /\ Unbroken \subseteq Subs /\ Unbroken \subseteq Registered /\ Genuine(incoming)
         /\ \A t \in Unbroken : Ordered(incoming, t)
         /\ up => \A t \in Unbroken :
              IF serving[t] # None THEN Coming(incoming, t)
              ELSE parked[t] > 0 \/ t \in ended \/ Ends(incoming, t)
<1>1. /\ TypeOK /\ HandedInv /\ WireOK /\ TimesOK /\ FloorOK /\ OrderOK /\ ServedOK
  BY DEF SubsInv
<1>2. /\ incoming \in Seq(Frames) /\ records \in [Subs -> RecordType]
      /\ serving \in [Subs -> Int \cup {None}] /\ parked \in [Subs -> Nat]
      /\ clock \in 0 .. MaxClock /\ up \in BOOLEAN /\ troubles \in 0 .. MaxTroubles
      /\ reused \subseteq Subs /\ ended \subseteq Subs /\ handed \in Seq(Events)
  BY <1>1 DEF TypeOK, Frames, RecordType
<1>3. \A t \in Subs : records[t].registered \/ parked[t] = 0
  BY <1>1 DEF TypeOK, Registered
<1>4. Unbroken \subseteq Subs /\ Unbroken \subseteq Registered
  BY DEF Unbroken, Registered
<1> QED
  BY <1>1, <1>2, <1>3, <1>4 DEF WireOK, OrderOK, ServedOK

\* The troubles counted stay within their bound.
LEMMA TroubleType ==
  ASSUME TypeOK, Trouble
  PROVE  troubles' \in 0 .. MaxTroubles
BY SubscriptionsAssumption DEF TypeOK, Trouble

\* Neither the records nor what was handed over changes.
LEMMA FloorKept ==
  ASSUME FloorOK, UNCHANGED <<stamp, records, handed, reused>>
  PROVE  FloorOK'
<1>1. Unbroken' = Unbroken /\ \A t : Missed(t)' = Missed(t)
  BY SameMissed DEF Unbroken, Registered
<1> QED
  BY <1>1 DEF FloorOK

LEMMA ReconnectKeeps ==
  ASSUME SubsInv, Reconnect
  PROVE  SubsInv'
<1>1. /\ UNCHANGED <<clock, stamp, serving, incoming, records, seen, handed, failed, reused,
                     troubles>>
      /\ ~up /\ up' = TRUE /\ ended' = {}
  BY DEF Reconnect, relay
<1>2. /\ parked' \in [Subs -> Nat]
      /\ \A t \in Subs : records[t].registered => parked'[t] > 0
      /\ \A t \in Subs : ~records[t].registered => parked'[t] = parked[t]
  <2>1. parked' = [t \in Subs |-> IF t \in Registered THEN parked[t] + 1 ELSE parked[t]]
    BY DEF Reconnect
  <2> QED
    BY <2>1, Unfold DEF Registered
<1>3. TypeOK'
  <2>1. \A t \in Subs : records'[t].registered \/ parked'[t] = 0
    BY <1>1, <1>2, Unfold
  <2> QED
    BY <1>1, <1>2, <2>1, Unfold, TypesKept
<1>4. HandedInv' /\ FloorOK'
  BY <1>1, Unfold, NothingHanded, FloorKept
<1>5. Registered' = Registered /\ Unbroken' = Unbroken
  BY <1>1 DEF Registered, Unbroken
<1>6. WireOK'
  BY <1>1, <1>5, Unfold, SameQueue DEF WireOK
<1>7. TimesOK'
  BY <1>1, Unfold DEF TimesOK, Due, Stored
<1>8. OrderOK'
  BY <1>1, <1>5, Unfold, SameQueue DEF OrderOK
<1>9. ServedOK'
  <2>1. \A t \in Unbroken' : t \in Subs /\ parked'[t] > 0 /\ serving'[t] = None
    BY <1>1, <1>2, <1>5, Unfold DEF Registered, WireOK
  <2> QED
    BY <2>1 DEF ServedOK
<1> QED
  BY <1>3, <1>4, <1>6, <1>7, <1>8, <1>9 DEF SubsInv

LEMMA ParkedWriteKeeps ==
  ASSUME SubsInv, NEW s \in Subs, ParkedWrite(s)
  PROVE  SubsInv'
<1>1. UNCHANGED <<clock, stamp, up, records, seen, handed, failed, reused, troubles, ended>>
  BY DEF ParkedWrite, relay
<1>2. /\ parked[s] > 0 /\ parked' \in [Subs -> Nat]
      /\ \A t \in Subs \ {s} : parked'[t] = parked[t]
      /\ s \in Registered /\ records[s].registered
  BY Unfold DEF ParkedWrite, Registered
<1>3. Registered' = Registered /\ Unbroken' = Unbroken
  BY <1>1 DEF Registered, Unbroken
<1>4. HandedInv' /\ FloorOK'
  BY <1>1, Unfold, NothingHanded, FloorKept
<1>5. \A t \in Subs : records'[t].registered \/ parked'[t] = 0
  BY <1>1, <1>2, Unfold
<1>6. CASE up
  <2>1. Request(s, records[s], incoming)
    BY <1>6 DEF ParkedWrite
  <2>2. Since(records[s]) \in Int /\ Due(Since(records[s]))
    BY Unfold, SinceType
  <2>3. s \in Unbroken => Missed(s) \subseteq Matches(s, Since(records[s]))
    BY FloorBelow
  <2>4. /\ serving' \in [Subs -> Int \cup {None}] /\ serving'[s] = Since(records[s])
        /\ \A t \in Subs \ {s} : serving'[t] = serving[t]
        /\ incoming' \in Seq(Frames) /\ Genuine(incoming)'
        /\ \A t \in Subs \ {s} : Kept(incoming, t)
        /\ s \in Unbroken => Kept(incoming, s) /\ Coming(incoming, s)'
    BY <1>1, <2>1, <2>2, <2>3, Unfold, RequestKeeps
  <2>5. TypeOK'
    BY <1>1, <1>2, <1>5, <2>4, Unfold, TypesKept
  <2>6. WireOK'
    BY <1>1, <1>2, <1>3, <1>6, <2>4, Unfold DEF WireOK
  <2>7. TimesOK'
    <3>1. \A t \in Subs : serving'[t] # None => Due(serving'[t])
      BY <2>2, <2>4, Unfold DEF TimesOK
    <3> QED
      BY <1>1, <3>1, Unfold DEF TimesOK, Due, Stored
  <2>8. OrderOK'
    <3> SUFFICES ASSUME NEW t \in Unbroken' PROVE Ordered(incoming, t)'
      BY DEF OrderOK
    <3>1. t \in Unbroken /\ t \in Subs /\ Ordered(incoming, t) /\ Kept(incoming, t)
      BY <1>3, <2>4, Unfold
    <3> QED
      BY <3>1 DEF Kept
  <2>9. ServedOK'
    <3> SUFFICES ASSUME NEW t \in Unbroken'
                 PROVE  IF serving'[t] # None THEN Coming(incoming, t)'
                        ELSE parked'[t] > 0 \/ t \in ended' \/ Ends(incoming, t)'
      BY DEF ServedOK
    <3>1. t \in Unbroken /\ t \in Subs
      BY <1>3, Unfold
    <3>2. CASE t = s
      BY <2>2, <2>4, <3>1, <3>2, SubscriptionsAssumption
    <3>3. CASE t # s
      BY <1>1, <1>2, <1>6, <2>4, <3>1, <3>3, Unfold DEF Kept
    <3> QED
      BY <3>2, <3>3
  <2> QED
    BY <1>4, <2>5, <2>6, <2>7, <2>8, <2>9 DEF SubsInv
<1>7. CASE ~up
  <2>1. UNCHANGED <<serving, incoming>>
    BY <1>7 DEF ParkedWrite
  <2>2. TypeOK'
    BY <1>1, <1>2, <1>5, <2>1, Unfold, TypesKept
  <2>3. WireOK'
    BY <1>1, <1>3, <2>1, Unfold, SameQueue DEF WireOK
  <2>4. TimesOK'
    BY <1>1, <2>1, Unfold DEF TimesOK, Due, Stored
  <2>5. OrderOK'
    BY <1>1, <1>3, <2>1, Unfold, SameQueue DEF OrderOK
  <2>6. ServedOK'
    BY <1>1, <1>7 DEF ServedOK
  <2> QED
    BY <1>4, <2>2, <2>3, <2>4, <2>5, <2>6 DEF SubsInv
<1> QED
  BY <1>6, <1>7

LEMMA BreakKeeps ==
  ASSUME SubsInv, Break
  PROVE  SubsInv'
<1>1. /\ UNCHANGED <<clock, stamp, parked, records, seen, handed, failed, reused, ended>>
      /\ up' = FALSE /\ incoming' = <<>> /\ serving' \in [Subs -> Int \cup {None}]
      /\ \A t \in Subs : serving'[t] = None
  BY DEF Break, relay
<1>2. Registered' = Registered /\ Unbroken' = Unbroken
  BY <1>1 DEF Registered, Unbroken
<1>3. troubles' \in 0 .. MaxTroubles /\ incoming' \in Seq(Frames)
  BY <1>1, Unfold, TroubleType DEF Break
<1>4. TypeOK'
  BY <1>1, <1>3, Unfold, TypesKept
<1>5. HandedInv' /\ FloorOK'
  BY <1>1, Unfold, NothingHanded, FloorKept
<1>6. DOMAIN (incoming') = {}
  BY <1>1
<1>7. WireOK' /\ OrderOK' /\ ServedOK'
  BY <1>1, <1>6 DEF WireOK, OrderOK, ServedOK, Genuine, Ordered
<1>8. TimesOK'
  <2>1. \A t \in Subs : records'[t].lastSeen # None => records'[t].lastSeen <= clock'
    BY <1>1, Unfold DEF TimesOK
  <2>2. \A e \in Events : stamp'[e] # None => stamp'[e] <= clock'
    BY <1>1, Unfold DEF TimesOK, Stored
  <2> QED
    BY <1>1, <2>1, <2>2 DEF TimesOK, Stored
<1> QED
  BY <1>4, <1>5, <1>7, <1>8 DEF SubsInv

LEMMA TickKeeps ==
  ASSUME SubsInv, Tick
  PROVE  SubsInv'
<1>1. /\ UNCHANGED <<stamp, up, serving, incoming, parked, records, seen, handed, failed,
                     reused, troubles, ended>>
      /\ clock' = clock + 1 /\ clock < MaxClock
  BY DEF Tick, wire
<1>2. clock \in Int /\ clock' \in 0 .. MaxClock
  BY <1>1, Unfold, SubscriptionsAssumption
<1>3. TypeOK'
  BY <1>1, <1>2, Unfold, TypesKept
<1>4. HandedInv' /\ FloorOK'
  BY <1>1, Unfold, NothingHanded, FloorKept
<1>5. Registered' = Registered /\ Unbroken' = Unbroken
  BY <1>1 DEF Registered, Unbroken
<1>6. WireOK' /\ OrderOK' /\ ServedOK'
  BY <1>1, <1>5, Unfold, SameQueue DEF WireOK, OrderOK, ServedOK
<1>7. TimesOK'
  <2>1. \A t \in Subs : records'[t].lastSeen # None => records'[t].lastSeen <= clock'
    BY <1>1, <1>2, Unfold DEF TimesOK, RecordType, Seconds
  <2>2. \A e \in Events : stamp'[e] # None => stamp'[e] <= clock'
    BY <1>1, <1>2, Unfold DEF TimesOK, Stored, TypeOK, Seconds
  <2>3. \A t \in Subs : serving'[t] # None => serving'[t] <= 0 \/ serving'[t] + Skew <= clock'
    BY <1>1, <1>2, Unfold, SubscriptionsAssumption DEF TimesOK, Due
  <2> QED
    BY <2>1, <2>2, <2>3 DEF TimesOK, Due, Stored
<1> QED
  BY <1>3, <1>4, <1>6, <1>7 DEF SubsInv

\* A frame that gives nothing to a handler is read.
LEMMA ReadKeeps ==
  ASSUME SubsInv, incoming # <<>>, UNCHANGED <<stamp, handed>>, NEW q, q = Tail(incoming),
         Head1.kind = "EVENT" => Head1.sub \notin Registered \/ Seen(Head1.event)
  PROVE  /\ q \in Seq(Frames) /\ Genuine(q) /\ Head1 \in Frames
         /\ \A t \in Unbroken : Ordered(q, t) /\ (Coming(incoming, t) => Coming(q, t))
         /\ \A t \in Subs : Ends(incoming, t) /\ ~(Head1.kind = "CLOSED" /\ Head1.sub = t)
                            => Ends(q, t)
<1>1. Head1 = incoming[1] /\ Head1 \in Frames /\ 1 \in DOMAIN incoming
  <2>1. incoming \in Seq(Frames) /\ Len(incoming) \in Nat \ {0}
    BY Unfold, LenProperties, EmptySeq
  <2>2. DOMAIN incoming = 1 .. Len(incoming) /\ Head1 = incoming[1]
    BY <2>1 DEF Head1
  <2> QED
    BY <2>1, <2>2
<1>2. \A t : Missed(t)' = Missed(t)
  BY SameMissed
<1>3. \A t \in Unbroken : \A e \in Missed(t)' : ~Brings(incoming, 1, e)
  <2> SUFFICES ASSUME NEW t \in Unbroken, NEW e \in Missed(t), Brings(incoming, 1, e)
               PROVE  FALSE
    BY <1>2
  <2>1. Head1.kind = "EVENT" /\ Head1.event = e /\ SubOf[e] = t /\ e \notin Elements(handed)
    BY <1>1 DEF Brings, Missed
  <2>2. Head1.sub = t
    BY <1>1, <2>1, Unfold DEF Genuine
  <2>3. e \in Elements(handed)
    BY <2>1, <2>2, Unfold DEF HandedInv, SeenOK, Seen
  <2> QED
    BY <2>1, <2>3
<1>4. /\ q \in Seq(Frames) /\ Genuine(q)
      /\ \A s \in Subs :
           /\ Missed(s)' \subseteq Missed(s)
           /\ \A e \in Missed(s)' : ~Brings(incoming, 1, e)
           => /\ Ordered(incoming, s) => Ordered(q, s)'
              /\ Coming(incoming, s) => Coming(q, s)'
      /\ \A s \in Subs :
           Ends(incoming, s) /\ ~(incoming[1].kind = "CLOSED" /\ incoming[1].sub = s) => Ends(q, s)
  BY Unfold, TailKeeps
<1>5. \A s : Ordered(q, s)' = Ordered(q, s) /\ Coming(q, s)' = Coming(q, s)
  BY <1>2 DEF Ordered, Coming
<1> QED
  BY <1>1, <1>2, <1>3, <1>4, <1>5, Unfold

LEMMA IgnoreKeeps ==
  ASSUME SubsInv, Ignore
  PROVE  SubsInv'
<1>1. /\ UNCHANGED <<clock, stamp, up, serving, parked, records, seen, handed, failed, reused,
                     troubles, ended>>
      /\ incoming # <<>> /\ Head1.kind = "EVENT" /\ incoming' = Tail(incoming)
      /\ Head1.sub \notin Registered \/ Seen(Head1.event)
  BY DEF Ignore, Reads, relay
<1>2. PICK q : q = incoming'
  OBVIOUS
<1>3. /\ q \in Seq(Frames) /\ Genuine(q)
      /\ \A t \in Unbroken : Ordered(q, t) /\ (Coming(incoming, t) => Coming(q, t))
      /\ \A t \in Subs : Ends(incoming, t) => Ends(q, t)
  BY <1>1, <1>2, ReadKeeps
<1>4. /\ Genuine(incoming)' = Genuine(q)
      /\ \A t : Ordered(incoming, t)' = Ordered(q, t)
      /\ \A t : Coming(incoming, t)' = Coming(q, t)
      /\ \A t : Ends(incoming, t)' = Ends(q, t)
  BY <1>1, <1>2 DEF Missed, Ordered, Coming, Ends, Genuine, Stored, Elements, StartupWatermark
<1>5. Registered' = Registered /\ Unbroken' = Unbroken
  BY <1>1 DEF Registered, Unbroken
<1>6. TypeOK'
  BY <1>1, <1>2, <1>3, Unfold, TypesKept
<1>7. HandedInv' /\ FloorOK'
  BY <1>1, Unfold, NothingHanded, FloorKept
<1>8. WireOK'
  BY <1>1, <1>3, <1>4, <1>5, Unfold DEF WireOK
<1>9. TimesOK'
  BY <1>1, Unfold DEF TimesOK, Due, Stored
<1>10. OrderOK'
  BY <1>3, <1>4, <1>5 DEF OrderOK
<1>11. ServedOK'
  BY <1>1, <1>3, <1>4, <1>5, Unfold DEF ServedOK
<1> QED
  BY <1>6, <1>7, <1>8, <1>9, <1>10, <1>11 DEF SubsInv

LEMMA ReadEoseKeeps ==
  ASSUME SubsInv, ReadEose
  PROVE  SubsInv'
<1>1. /\ UNCHANGED <<clock, stamp, up, serving, parked, seen, handed, failed, reused, troubles,
                     ended>>
      /\ incoming # <<>> /\ Head1.kind = "EOSE" /\ incoming' = Tail(incoming)
      /\ records' = [records EXCEPT ![Head1.sub].droppedSince = None]
  BY DEF ReadEose, Reads, relay
<1>2. PICK q : q = incoming'
  OBVIOUS
<1>3. /\ q \in Seq(Frames) /\ Genuine(q) /\ Head1 \in Frames
      /\ \A t \in Unbroken : Ordered(q, t) /\ (Coming(incoming, t) => Coming(q, t))
      /\ \A t \in Subs : Ends(incoming, t) => Ends(q, t)
  BY <1>1, <1>2, ReadKeeps
<1>4. /\ Genuine(incoming)' = Genuine(q)
      /\ \A t : Missed(t)' = Missed(t)
      /\ \A t : Ordered(incoming, t)' = Ordered(q, t)
      /\ \A t : Coming(incoming, t)' = Coming(q, t)
      /\ \A t : Ends(incoming, t)' = Ends(q, t)
  BY <1>1, <1>2 DEF Missed, Ordered, Coming, Ends, Genuine, Stored, Elements, StartupWatermark
<1>5. /\ records' \in [Subs -> RecordType]
      /\ \A t \in Subs : records'[t].registered = records[t].registered
                         /\ records'[t].lastSeen = records[t].lastSeen
  <2>1. records \in [Subs -> RecordType] /\ Head1.sub \in Subs
    BY <1>3, Unfold DEF Frames
  <2> QED
    BY <1>1, <2>1 DEF RecordType
<1>6. Registered' = Registered /\ Unbroken' = Unbroken
  BY <1>1, <1>5 DEF Registered, Unbroken
<1>7. TypeOK'
  BY <1>1, <1>2, <1>3, <1>5, Unfold, TypesKept
<1>8. HandedInv'
  BY <1>1, Unfold, NothingHanded
<1>9. FloorOK'
  <2> SUFFICES ASSUME NEW t \in Unbroken, NEW e \in Missed(t), records'[t].lastSeen # None
               PROVE  stamp'[e] >= records'[t].lastSeen - Skew
    BY <1>4, <1>6 DEF FloorOK
  <2> QED
    BY <1>1, <1>5, Unfold DEF FloorOK
<1>10. WireOK'
  BY <1>1, <1>3, <1>4, <1>6, Unfold DEF WireOK
<1>11. TimesOK'
  BY <1>1, <1>5, Unfold DEF TimesOK, Due, Stored
<1>12. OrderOK'
  BY <1>3, <1>4, <1>6 DEF OrderOK
<1>13. ServedOK'
  BY <1>1, <1>3, <1>4, <1>6, Unfold DEF ServedOK
<1> QED
  BY <1>7, <1>8, <1>9, <1>10, <1>11, <1>12, <1>13 DEF SubsInv

LEMMA ReadClosedKeeps ==
  ASSUME SubsInv, ReadClosed
  PROVE  SubsInv'
<1>1. /\ UNCHANGED <<clock, stamp, up, records, seen, handed, failed, reused, troubles>>
      /\ incoming # <<>> /\ Head1.kind = "CLOSED"
  BY DEF ReadClosed, Reads, relay
<1>2. PICK q, s : q = Tail(incoming) /\ s = Head1.sub
  OBVIOUS
<1>3. /\ q \in Seq(Frames) /\ Genuine(q) /\ s \in Subs
      /\ \A t \in Unbroken : Ordered(q, t) /\ (Coming(incoming, t) => Coming(q, t))
      /\ \A t \in Subs \ {s} : Ends(incoming, t) => Ends(q, t)
  BY <1>1, <1>2, ReadKeeps DEF Frames
<1>4. Registered' = Registered /\ Unbroken' = Unbroken
  BY <1>1 DEF Registered, Unbroken
<1>5. HandedInv' /\ FloorOK'
  BY <1>1, Unfold, NothingHanded, FloorKept
<1>6. CASE incoming' = q /\ UNCHANGED <<serving, parked>>
           /\ ended \subseteq ended' /\ ended' \subseteq Subs /\ (s \in Registered => s \in ended')
  <2>1. /\ Genuine(incoming)' = Genuine(q)
        /\ \A t : Ordered(incoming, t)' = Ordered(q, t)
        /\ \A t : Coming(incoming, t)' = Coming(q, t)
        /\ \A t : Ends(incoming, t)' = Ends(q, t)
    BY <1>1, <1>6 DEF Missed, Ordered, Coming, Ends, Genuine, Stored, Elements, StartupWatermark
  <2>2. TypeOK'
    BY <1>1, <1>3, <1>6, Unfold, TypesKept
  <2>3. WireOK'
    <3>1. ~up => FALSE
      BY <1>1, Unfold DEF WireOK
    <3> QED
      BY <1>1, <1>3, <1>4, <1>6, <2>1, <3>1, Unfold DEF WireOK
  <2>4. TimesOK'
    BY <1>1, <1>6, Unfold DEF TimesOK, Due, Stored
  <2>5. OrderOK'
    BY <1>3, <1>4, <2>1 DEF OrderOK
  <2>6. ServedOK'
    <3> SUFFICES ASSUME up, NEW t \in Unbroken
                 PROVE  IF serving[t] # None THEN Coming(q, t)
                        ELSE parked[t] > 0 \/ t \in ended' \/ Ends(q, t)
      BY <1>1, <1>4, <1>6, <2>1 DEF ServedOK
    <3>1. t \in Subs /\ t \in Registered
      BY Unfold
    <3> QED
      BY <1>3, <1>6, <3>1, Unfold
  <2> QED
    BY <1>5, <2>2, <2>3, <2>4, <2>5, <2>6 DEF SubsInv
<1>7. CASE s \in Registered /\ SendReq(s, records[s], q) /\ UNCHANGED ended
  <2>1. Since(records[s]) \in Int /\ Due(Since(records[s]))
    BY <1>3, Unfold, SinceType
  <2>2. s \in Unbroken => Missed(s) \subseteq Matches(s, Since(records[s]))
    BY FloorBelow
  <2>3. /\ serving' \in [Subs -> Int \cup {None}] /\ parked' \in [Subs -> Nat]
        /\ \A t \in Subs \ {s} : serving'[t] = serving[t] /\ parked'[t] = parked[t]
        /\ incoming' \in Seq(Frames) /\ Genuine(incoming)'
        /\ \A t \in Subs \ {s} : Kept(q, t)
        /\ Coming(q, s) => Coming(incoming, s)'
        /\ s \in Unbroken => Kept(q, s)
        /\ \/ serving'[s] = serving[s] /\ parked'[s] > 0
           \/ /\ serving'[s] = Since(records[s])
              /\ s \in Unbroken => Coming(incoming, s)'
    <3>1. PICK r : r = records[s]
      OBVIOUS
    <3>2. TypeOK /\ s \in Subs /\ Since(r) \in Int /\ Genuine(q) /\ SendReq(s, r, q)
          /\ UNCHANGED <<stamp, handed>> /\ q \in Seq(Frames)
      BY <1>1, <1>3, <1>7, <2>1, <3>1, Unfold
    <3>3. /\ serving' \in [Subs -> Int \cup {None}] /\ parked' \in [Subs -> Nat]
          /\ \A t \in Subs \ {s} : serving'[t] = serving[t] /\ parked'[t] = parked[t]
          /\ incoming' \in Seq(Frames) /\ Genuine(incoming)'
          /\ \A t \in Subs \ {s} : Kept(q, t)
          /\ Coming(q, s) => Coming(incoming, s)'
          /\ Missed(s) \subseteq Matches(s, Since(r)) => Kept(q, s)
          /\ \/ serving'[s] = serving[s] /\ parked'[s] > 0
             \/ /\ serving'[s] = Since(r)
                /\ Missed(s) \subseteq Matches(s, Since(r)) => Coming(incoming, s)'
      BY <3>2, SendReqKeeps
    <3> QED
      BY <2>2, <3>1, <3>3
  <2>4. TypeOK'
    <3>1. \A t \in Subs : records'[t].registered \/ parked'[t] = 0
      BY <1>1, <1>7, <2>3, Unfold DEF Registered
    <3> QED
      BY <1>1, <1>7, <2>3, <3>1, Unfold, TypesKept
  <2>5. WireOK'
    <3>1. up
      BY <1>1, Unfold DEF WireOK
    <3> QED
      BY <1>1, <1>4, <1>7, <2>3, <3>1, Unfold DEF WireOK
  <2>6. TimesOK'
    <3>1. \A t \in Subs : serving'[t] # None => Due(serving'[t])
      BY <2>1, <2>3, Unfold DEF TimesOK
    <3> QED
      BY <1>1, <3>1, Unfold DEF TimesOK, Due, Stored
  <2>7. OrderOK'
    <3> SUFFICES ASSUME NEW t \in Unbroken PROVE Ordered(incoming, t)'
      BY <1>4 DEF OrderOK
    <3>1. t \in Subs /\ Ordered(q, t) /\ Kept(q, t)
      BY <1>3, <2>3, Unfold
    <3> QED
      BY <3>1 DEF Kept
  <2>8. ServedOK'
    <3> SUFFICES ASSUME up, NEW t \in Unbroken
                 PROVE  IF serving'[t] # None THEN Coming(incoming, t)'
                        ELSE parked'[t] > 0 \/ t \in ended' \/ Ends(incoming, t)'
      BY <1>1, <1>4 DEF ServedOK
    <3>1. t \in Subs /\ Kept(q, t)
      BY <2>3, Unfold
    <3>2. CASE t = s
      BY <1>3, <2>1, <2>3, <3>1, <3>2, Unfold, SubscriptionsAssumption
    <3>3. CASE t # s
      <4>1. /\ serving'[t] = serving[t] /\ parked'[t] = parked[t] /\ ended' = ended
            /\ (Coming(q, t) => Coming(incoming, t)') /\ (Ends(q, t) => Ends(incoming, t)')
        BY <1>7, <2>3, <3>1, <3>3 DEF Kept
      <4>2. (Coming(incoming, t) => Coming(q, t)) /\ (Ends(incoming, t) => Ends(q, t))
        BY <1>3, <3>1, <3>3
      <4>3. IF serving[t] # None THEN Coming(incoming, t)
            ELSE parked[t] > 0 \/ t \in ended \/ Ends(incoming, t)
        BY Unfold
      <4> QED
        BY <4>1, <4>2, <4>3
    <3> QED
      BY <3>2, <3>3
  <2> QED
    BY <1>5, <2>4, <2>5, <2>6, <2>7, <2>8 DEF SubsInv
<1>8. ended \cup {s} \subseteq Subs
  BY <1>3, Unfold
<1> QED
  BY <1>2, <1>6, <1>7, <1>8 DEF ReadClosed

LEMMA RelayClosesKeeps ==
  ASSUME SubsInv, NEW s \in Subs, RelayCloses(s)
  PROVE  SubsInv'
<1>1. /\ UNCHANGED <<clock, stamp, up, parked, records, seen, handed, failed, reused, ended>>
      /\ up /\ incoming' = Append(incoming, Frame("CLOSED", s, None))
      /\ serving' \in [Subs -> Int \cup {None}] /\ serving'[s] = None
      /\ \A t \in Subs \ {s} : serving'[t] = serving[t]
  BY Unfold DEF RelayCloses, relay
<1>2. PICK f, new : f = Frame("CLOSED", s, None) /\ new = incoming'
  OBVIOUS
<1>3. f \in Frames /\ f.kind = "CLOSED" /\ f.sub = s
  BY <1>2 DEF Frame, Frames
<1>4. /\ new \in Seq(Frames) /\ DOMAIN new = DOMAIN incoming \cup {Len(incoming) + 1}
      /\ \A i \in DOMAIN incoming : new[i] = incoming[i] /\ i < Len(incoming) + 1
      /\ new[Len(incoming) + 1] = f
      /\ DOMAIN incoming = 1 .. Len(incoming) /\ Len(incoming) \in Nat
  BY <1>1, <1>2, <1>3, Unfold, AppendKeeps
<1>5. /\ Genuine(incoming)' = Genuine(new)
      /\ \A t : Ordered(incoming, t)' = Ordered(new, t)
      /\ \A t : Coming(incoming, t)' = Coming(new, t)
      /\ \A t : Ends(incoming, t)' = Ends(new, t)
  BY <1>1, <1>2 DEF Missed, Ordered, Coming, Ends, Genuine, Stored, Elements, StartupWatermark
<1>6. Genuine(new) /\ Ends(new, s)
  BY <1>3, <1>4, Unfold DEF Genuine, Ends
<1>7. \A t \in Subs : (Coming(incoming, t) => Coming(new, t)) /\ (Ends(incoming, t) => Ends(new, t))
  BY <1>4 DEF Coming, Ends, Brings
<1>8. \A t \in Unbroken : Ordered(new, t)
  <2> SUFFICES ASSUME NEW t \in Unbroken, NEW e \in Missed(t), NEW i \in DOMAIN new,
                      new[i].kind = "EVENT" /\ new[i].sub = t,
                      stamp[e] < stamp[new[i].event] - Skew
               PROVE  \E j \in 1 .. i - 1 : Brings(new, j, e)
    BY DEF Ordered
  <2>1. i \in DOMAIN incoming /\ new[i] = incoming[i]
    BY <1>3, <1>4
  <2>2. PICK j \in 1 .. i - 1 : Brings(incoming, j, e)
    BY <2>1, Unfold DEF Ordered
  <2>3. j \in DOMAIN incoming
    BY <1>4, <2>1, <2>2
  <2> QED
    BY <1>4, <2>2, <2>3 DEF Brings
<1>9. Registered' = Registered /\ Unbroken' = Unbroken
  BY <1>1 DEF Registered, Unbroken
<1>10. TypeOK'
  <2>1. troubles' \in 0 .. MaxTroubles
    BY Unfold, TroubleType DEF RelayCloses
  <2> QED
    BY <1>1, <1>2, <1>4, <2>1, Unfold, TypesKept
<1>11. HandedInv' /\ FloorOK'
  BY <1>1, Unfold, NothingHanded, FloorKept
<1>12. WireOK'
  BY <1>1, <1>5, <1>6, <1>9, Unfold DEF WireOK
<1>13. TimesOK'
  BY <1>1, Unfold DEF TimesOK, Due, Stored
<1>14. OrderOK'
  BY <1>5, <1>8, <1>9 DEF OrderOK
<1>15. ServedOK'
  <2> SUFFICES ASSUME NEW t \in Unbroken
               PROVE  IF serving'[t] # None THEN Coming(new, t)
                      ELSE parked[t] > 0 \/ t \in ended \/ Ends(new, t)
    BY <1>1, <1>5, <1>9 DEF ServedOK
  <2>1. t \in Subs
    BY Unfold
  <2> QED
    BY <1>1, <1>6, <1>7, <2>1, Unfold
<1> QED
  BY <1>10, <1>11, <1>12, <1>13, <1>14, <1>15 DEF SubsInv

\* An event is handed to a handler, whether it returns or throws: what it raises
\* the floor over has been handed over before it.
LEMMA HandlingKeeps ==
  ASSUME SubsInv, incoming # <<>>, Head1.kind = "EVENT", Head1.sub \in Registered,
         ~Seen(Head1.event), Admit(Head1.event), handed' = Append(handed, Head1.event),
         incoming' = Tail(incoming),
         UNCHANGED <<clock, stamp, up, serving, parked, reused, ended>>,
         records' \in [Subs -> RecordType],
         \A t \in Subs :
           /\ records'[t].registered = records[t].registered
           /\ \/ records'[t].lastSeen = records[t].lastSeen
              \/ t = Head1.sub /\ records'[t].lastSeen = stamp[Head1.event],
         failed' \subseteq failed \cup {Head1.event}, troubles' \in 0 .. MaxTroubles
  PROVE  SubsInv'
<1>1. PICK q, s, e : q = incoming' /\ s = Head1.sub /\ e = Head1.event
  OBVIOUS
<1>2. incoming[1].kind = "EVENT" /\ incoming[1].sub = s /\ incoming[1].event = e
      /\ 1 \in DOMAIN incoming
  <2>1. incoming \in Seq(Frames) /\ Len(incoming) \in Nat \ {0}
    BY Unfold, LenProperties, EmptySeq
  <2>2. DOMAIN incoming = 1 .. Len(incoming) /\ Head1 = incoming[1]
    BY <2>1 DEF Head1
  <2> QED
    BY <1>1, <2>1, <2>2
<1>3. s \in Subs /\ e \in Events /\ SubOf[e] = s /\ Stored(e) /\ stamp[e] \in Int
      /\ stamp[e] <= clock
  <2>1. s \in Subs /\ e \in Events /\ SubOf[e] = s /\ Stored(e)
    BY <1>1, <1>2, Unfold DEF Genuine, Registered
  <2> QED
    BY <2>1, Unfold DEF TypeOK, Seconds, Stored, TimesOK
<1>4. /\ HandedInv'
      /\ seen' \in [current : SUBSET Events, previous : SUBSET Events]
      /\ Cardinality(seen'.current) < RotateAt
      /\ Cardinality(seen'.previous) <= RotateAt
      /\ handed' \in Seq(Events)
      /\ Elements(handed') = Elements(handed) \cup {e}
  BY <1>1, <1>3, Unfold, HandOver
<1>5. \A t : Missed(t)' = Missed(t) \ {e}
  <2>1. Elements(handed)' = Elements(handed) \cup {e}
    BY <1>4 DEF Elements
  <2> QED
    BY <2>1 DEF Missed, Stored, StartupWatermark
<1>6. \A t \in Subs : \A m \in Missed(t)' : ~Brings(incoming, 1, m)
  BY <1>2, <1>5 DEF Brings
<1>7. /\ q \in Seq(Frames) /\ Genuine(q)
      /\ \A t \in Subs :
           /\ Missed(t)' \subseteq Missed(t)
           /\ \A m \in Missed(t)' : ~Brings(incoming, 1, m)
           => /\ Ordered(incoming, t) => Ordered(q, t)'
              /\ Coming(incoming, t) => Coming(q, t)'
      /\ \A t \in Subs :
           Ends(incoming, t) /\ ~(incoming[1].kind = "CLOSED" /\ incoming[1].sub = t) => Ends(q, t)
  BY <1>1, Unfold, TailKeeps
<1>8. \A t \in Subs : /\ Ordered(incoming, t) => Ordered(q, t)'
                      /\ Coming(incoming, t) => Coming(q, t)'
                      /\ Ends(incoming, t) => Ends(q, t)
  BY <1>2, <1>5, <1>6, <1>7
<1>9. /\ Genuine(incoming)' = Genuine(q)
      /\ \A t : Ordered(incoming, t)' = Ordered(q, t)'
      /\ \A t : Coming(incoming, t)' = Coming(q, t)'
      /\ \A t : Ends(incoming, t)' = Ends(q, t)
  BY <1>1 DEF Ordered, Coming, Ends, Genuine, Stored
<1>10. Registered' = Registered /\ Unbroken' = Unbroken
  BY DEF Registered, Unbroken
<1>11. TypeOK'
  <2>1. failed' \subseteq Elements(handed)'
    <3>1. failed \subseteq Elements(handed) /\ Elements(handed)' = Elements(handed')
      BY Unfold DEF TypeOK, Elements
    <3> QED
      BY <1>1, <1>4, <3>1
  <2>2. \A t \in Subs \ Registered' : parked'[t] = 0
    BY <1>10, Unfold DEF Registered
  <2>3. stamp' \in [Events -> Seconds \cup {None}]
    BY Unfold DEF TypeOK
  <2> QED
    BY <1>1, <1>4, <1>7, <2>1, <2>2, <2>3, Unfold DEF TypeOK, RecordType, Frames
<1>12. WireOK'
  BY <1>7, <1>9, <1>10, Unfold DEF WireOK
<1>13. TimesOK'
  <2>1. \A t \in Subs : records'[t].lastSeen # None => records'[t].lastSeen <= clock'
    BY <1>1, <1>3, Unfold DEF TimesOK
  <2>2. \A m \in Events : stamp'[m] # None => stamp'[m] <= clock'
    BY Unfold DEF TimesOK, Stored
  <2>3. \A t \in Subs : serving'[t] # None => Due(serving[t])
    BY Unfold DEF TimesOK
  <2> QED
    BY <2>1, <2>2, <2>3 DEF TimesOK, Due, Stored
<1>14. FloorOK'
  <2> SUFFICES ASSUME NEW t \in Unbroken, NEW m \in Missed(t), m # e,
                      records'[t].lastSeen # None
               PROVE  stamp[m] >= records'[t].lastSeen - Skew
    BY <1>5, <1>10 DEF FloorOK
  <2>1. t \in Subs /\ Ordered(incoming, t)
    BY Unfold
  <2>2. CASE records'[t].lastSeen = records[t].lastSeen
    BY <2>2, Unfold DEF FloorOK
  <2>3. CASE t = s /\ records'[t].lastSeen = stamp[e]
    <3>1. ASSUME stamp[m] < stamp[e] - Skew PROVE FALSE
      <4>1. PICK j \in 1 .. 1 - 1 : Brings(incoming, j, m)
        BY <1>2, <2>1, <2>3, <3>1 DEF Ordered
      <4> QED
        BY <4>1
    <3>2. stamp[m] \in Int /\ Skew \in Int
      BY SubscriptionsAssumption, Unfold DEF Missed, Stored, TypeOK, Seconds
    <3> QED
      BY <1>3, <2>3, <3>1, <3>2
  <2> QED
    BY <1>1, <2>1, <2>2, <2>3
<1>15. OrderOK'
  <2> SUFFICES ASSUME NEW t \in Unbroken PROVE Ordered(incoming, t)'
    BY <1>10 DEF OrderOK
  <2> QED
    BY <1>8, <1>9, Unfold
<1>16. ServedOK'
  <2> SUFFICES ASSUME up, NEW t \in Unbroken
               PROVE  IF serving[t] # None THEN Coming(incoming, t)'
                      ELSE parked[t] > 0 \/ t \in ended \/ Ends(incoming, t)'
    BY <1>10 DEF ServedOK
  <2>1. t \in Subs
    BY Unfold
  <2> QED
    BY <1>8, <1>9, <2>1, Unfold
<1> QED
  BY <1>4, <1>11, <1>12, <1>13, <1>14, <1>15, <1>16 DEF SubsInv

LEMMA DeliverKeeps ==
  ASSUME SubsInv, Deliver \/ DeliverFails
  PROVE  SubsInv'
<1>1. /\ incoming # <<>> /\ Head1.kind = "EVENT" /\ Head1.sub \in Registered
      /\ ~Seen(Head1.event) /\ Admit(Head1.event) /\ handed' = Append(handed, Head1.event)
      /\ incoming' = Tail(incoming)
      /\ UNCHANGED <<clock, stamp, up, serving, parked, reused, ended>>
  BY DEF Deliver, DeliverFails, Reads, relay
<1>2. failed' \subseteq failed \cup {Head1.event}
  BY DEF Deliver, DeliverFails
<1>3. troubles' \in 0 .. MaxTroubles
  BY Unfold, TroubleType DEF Deliver, DeliverFails
<1>4. PICK s, at : s = Head1.sub /\ at = stamp[Head1.event]
  OBVIOUS
<1>5. s \in Subs /\ at \in Seconds \cup {None}
  <2>1. incoming \in Seq(Frames) /\ Len(incoming) \in Nat \ {0}
    BY <1>1, Unfold, LenProperties, EmptySeq
  <2>2. 1 \in DOMAIN incoming /\ Head1 = incoming[1]
    BY <2>1 DEF Head1
  <2>3. Head1.event \in Events
    BY <1>1, <2>2, Unfold DEF Genuine
  <2> QED
    BY <1>1, <1>4, <2>3, Unfold DEF Registered, TypeOK
<1>6. PICK r : r = NoteDelivered(records[s], at)
  OBVIOUS
<1>7. /\ r \in RecordType /\ r.registered = records[s].registered
      /\ r.lastSeen \in {records[s].lastSeen, at}
  BY <1>5, <1>6, Unfold DEF NoteDelivered, RecordType
<1>8. PICK f : f = NoteDropped(r, at)
  OBVIOUS
<1>9. f \in RecordType /\ f.registered = r.registered /\ f.lastSeen = r.lastSeen
  BY <1>5, <1>7, <1>8 DEF NoteDropped, RecordType
<1>10. PICK new : new \in {r, f} /\ records' = [records EXCEPT ![s] = new]
  BY <1>4, <1>6, <1>8 DEF Deliver, DeliverFails
<1>11. /\ records' \in [Subs -> RecordType]
       /\ \A t \in Subs :
            /\ records'[t].registered = records[t].registered
            /\ \/ records'[t].lastSeen = records[t].lastSeen
               \/ t = s /\ records'[t].lastSeen = at
  <2>1. new \in RecordType /\ new.registered = records[s].registered
        /\ new.lastSeen \in {records[s].lastSeen, at}
    BY <1>7, <1>9, <1>10
  <2> QED
    BY <1>5, <1>10, <2>1, Unfold
<1> QED
  BY <1>1, <1>2, <1>3, <1>4, <1>11, HandlingKeeps

\* Whatever an author publishes, with a clock no further behind than the skew, the
\* relay sends to who is served, and no floor is above it.
LEMMA PublishKeeps ==
  ASSUME SubsInv, NEW e \in Events, NEW at \in clock - Lag .. clock, Publish(e, at)
  PROVE  SubsInv'
<1> DEFINE s == SubOf[e]
<1>1. /\ UNCHANGED <<clock, up, serving, parked, records, seen, handed, failed, reused,
                     troubles, ended>>
      /\ ~Stored(e) /\ stamp' = [stamp EXCEPT ![e] = at] /\ s \in Subs
  BY SubscriptionsAssumption DEF Publish
<1>2. /\ clock \in Int /\ at \in Int /\ Skew \in Int /\ Lag \in Int /\ Lag <= Skew
      /\ at <= clock /\ at >= clock - Lag /\ at >= clock - Skew /\ None \notin Int
      /\ at \in Seconds
  BY Unfold, SubscriptionsAssumption DEF Seconds
<1>3. /\ stamp' \in [Events -> Seconds \cup {None}] /\ stamp'[e] = at
      /\ \A m \in Events \ {e} : stamp'[m] = stamp[m]
  BY <1>1, <1>2, Unfold DEF TypeOK
<1>4. /\ \A m \in Events : Stored(m)' => stamp'[m] \in Int /\ stamp'[m] <= clock
      /\ Stored(e)' /\ \A m \in Events : Stored(m) => Stored(m)' /\ m # e
  BY <1>1, <1>2, <1>3, Unfold DEF Stored, TypeOK, Seconds, TimesOK
<1>5. \A t \in Subs : \A m \in Missed(t)' :
        \/ m \in Missed(t) /\ m # e /\ stamp'[m] = stamp[m]
        \/ m = e /\ t = s /\ at >= 0
  BY <1>1, <1>3, <1>4 DEF Missed, Stored, Elements, StartupWatermark
<1>6. PICK f, old, new : f = Frame("EVENT", s, e) /\ old = incoming /\ new = incoming'
  OBVIOUS
<1>7. f \in Frames /\ f.kind = "EVENT" /\ f.sub = s /\ f.event = e
  BY <1>1, <1>6 DEF Frame, Frames
<1>8. /\ old \in Seq(Frames) /\ Genuine(old) /\ DOMAIN old = 1 .. Len(old) /\ Len(old) \in Nat
      /\ \A t \in Unbroken : Ordered(old, t)
  BY <1>6, Unfold, LenProperties
<1>9. \/ new = old /\ (up => ~(serving[s] # None /\ serving[s] <= at))
      \/ up /\ serving[s] # None /\ new = Append(old, f)
  BY <1>1, <1>6 DEF Publish
<1>10. /\ new \in Seq(Frames)
       /\ \A i \in DOMAIN old : i \in DOMAIN new /\ new[i] = old[i]
       /\ \A i \in DOMAIN new : i \in DOMAIN old \/ (i = Len(old) + 1 /\ new[i] = f /\ up
                                                    /\ serving[s] # None)
  BY <1>7, <1>8, <1>9, AppendKeeps
<1>11. /\ Registered' = Registered /\ Unbroken' = Unbroken
       /\ Unbroken \subseteq Subs
  BY <1>1, Unfold DEF Registered, Unbroken
<1>12. /\ Genuine(incoming)' = Genuine(new)'
       /\ \A t : Ordered(incoming, t)' = Ordered(new, t)'
       /\ \A t : Coming(incoming, t)' = Coming(new, t)'
       /\ \A t : Ends(incoming, t)' = Ends(new, t)
  BY <1>6 DEF Ordered, Coming, Ends, Genuine
<1>13. Genuine(new)'
  <2> SUFFICES ASSUME NEW i \in DOMAIN new, new[i].kind = "EVENT"
               PROVE  new[i].event \in Events /\ new[i].sub = SubOf[new[i].event]
                      /\ Stored(new[i].event)'
    BY DEF Genuine
  <2>1. CASE i \in DOMAIN old
    BY <1>4, <1>8, <1>10, <2>1 DEF Genuine
  <2>2. CASE new[i] = f
    BY <1>4, <1>7, <2>2
  <2> QED
    BY <1>10, <2>1, <2>2
<1>14. TypeOK'
  <2>1. incoming' \in Seq(Frames) /\ failed' \subseteq Elements(handed)'
    BY <1>1, <1>6, <1>10, Unfold DEF TypeOK, Elements
  <2>2. \A t \in Subs \ Registered' : parked'[t] = 0
    BY <1>1, <1>11, Unfold DEF Registered
  <2> QED
    BY <1>1, <1>3, <2>1, <2>2, Unfold DEF TypeOK, Frames
<1>15. HandedInv'
  BY <1>1, Unfold, NothingHanded
<1>16. WireOK'
  <2>1. ~up => incoming' = <<>>
    BY <1>6, <1>9, Unfold DEF WireOK
  <2> QED
    BY <1>1, <1>11, <1>12, <1>13, <2>1, Unfold DEF WireOK
<1>17. TimesOK'
  <2>1. \A t \in Subs : serving'[t] # None => Due(serving[t])
    BY <1>1, Unfold DEF TimesOK
  <2>2. \A t \in Subs : records'[t].lastSeen # None => records'[t].lastSeen <= clock'
    BY <1>1, Unfold DEF TimesOK
  <2> QED
    BY <1>1, <1>4, <2>1, <2>2 DEF TimesOK, Due
<1>18. FloorOK'
  <2> SUFFICES ASSUME NEW t \in Unbroken, NEW m \in Missed(t)', records[t].lastSeen # None
               PROVE  stamp'[m] >= records[t].lastSeen - Skew
    BY <1>1, <1>11 DEF FloorOK
  <2>1. t \in Subs /\ records[t].lastSeen \in Int /\ records[t].lastSeen <= clock
    BY <1>11, Unfold DEF RecordType, Seconds, TimesOK
  <2>2. CASE m \in Missed(t) /\ stamp'[m] = stamp[m]
    BY <2>2, Unfold DEF FloorOK
  <2>3. CASE m = e
    BY <1>2, <1>3, <2>1, <2>3
  <2> QED
    BY <1>5, <2>1, <2>2, <2>3
<1>19. OrderOK'
  <2> SUFFICES ASSUME NEW t \in Unbroken, NEW m \in Missed(t)', NEW i \in DOMAIN new,
                      new[i].kind = "EVENT" /\ new[i].sub = t,
                      stamp'[m] < stamp'[new[i].event] - Skew
               PROVE  \E j \in 1 .. i - 1 : Brings(new, j, m)
    BY <1>11, <1>12 DEF OrderOK, Ordered
  <2>1. t \in Subs
    BY <1>11
  <2>2. new[i].event \in Events /\ Stored(new[i].event)'
    BY <1>13 DEF Genuine
  <2>3. m # e
    BY <1>2, <1>3, <1>4, <2>2
  <2>4. m \in Missed(t) /\ stamp'[m] = stamp[m]
    BY <1>5, <2>1, <2>3
  <2>5. CASE i \in DOMAIN old
    <3>1. new[i] = old[i] /\ old[i].event # e /\ stamp'[old[i].event] = stamp[old[i].event]
      BY <1>1, <1>3, <1>8, <1>10, <2>2, <2>5 DEF Genuine
    <3>2. PICK j \in 1 .. i - 1 : Brings(old, j, m)
      BY <1>8, <2>4, <2>5, <3>1 DEF Ordered
    <3>3. j \in DOMAIN old
      BY <1>8, <2>5, <3>2
    <3> QED
      BY <1>10, <3>2, <3>3 DEF Brings
  <2>6. CASE i = Len(old) + 1 /\ new[i] = f /\ up /\ serving[s] # None
    <3>1. t = s
      BY <1>7, <2>6
    <3>2. Coming(old, t)
      BY <1>6, <2>6, <3>1, Unfold
    <3>3. PICK j \in DOMAIN old : Brings(old, j, m)
      BY <2>4, <3>2 DEF Coming
    <3>4. j \in 1 .. i - 1
      BY <1>8, <2>6, <3>3
    <3> QED
      BY <1>10, <3>3, <3>4 DEF Brings
  <2> QED
    BY <1>10, <2>5, <2>6
<1>20. ServedOK'
  <2> SUFFICES ASSUME up, NEW t \in Unbroken
               PROVE  IF serving[t] # None THEN Coming(new, t)'
                      ELSE parked[t] > 0 \/ t \in ended \/ Ends(new, t)
    BY <1>1, <1>11, <1>12 DEF ServedOK
  <2>1. t \in Subs /\ (Ends(old, t) => Ends(new, t))
    BY <1>10, <1>11 DEF Ends
  <2>2. CASE serving[t] # None
    <3> SUFFICES ASSUME NEW m \in Missed(t)' PROVE \E i \in DOMAIN new : Brings(new, i, m)
      BY <2>2 DEF Coming
    <3>1. Coming(old, t)
      BY <1>6, <2>2, Unfold
    <3>2. CASE m \in Missed(t)
      <4>1. PICK i \in DOMAIN old : Brings(old, i, m)
        BY <3>1, <3>2 DEF Coming
      <4> QED
        BY <1>10, <4>1 DEF Brings
    <3>3. CASE m = e /\ t = s /\ at >= 0
      <4>1. serving[s] \in Int /\ Due(serving[s])
        BY <1>1, <2>2, <3>3, Unfold DEF TimesOK
      <4>2. serving[s] <= at
        BY <1>2, <3>3, <4>1 DEF Due
      <4>3. new = Append(old, f)
        BY <1>9, <2>2, <3>3, <4>2
      <4>4. new[Len(old) + 1] = f /\ Len(old) + 1 \in DOMAIN new
        BY <1>7, <1>8, <4>3, AppendKeeps
      <4> QED
        BY <1>7, <3>3, <4>4 DEF Brings
    <3> QED
      BY <1>5, <2>1, <3>2, <3>3
  <2>3. CASE serving[t] = None
    BY <1>6, <2>1, <2>3, Unfold
  <2> QED
    BY <2>2, <2>3
<1> QED
  BY <1>14, <1>15, <1>16, <1>17, <1>18, <1>19, <1>20 DEF SubsInv

LEMMA SubsNext ==
  ASSUME SubsInv, [Next]_vars
  PROVE  SubsInv'
<1>1. ASSUME NEW s \in Subs, Subscribe(s) \/ Unsubscribe(s) \/ ParkedWrite(s) \/ RelayCloses(s)
      PROVE  SubsInv'
  BY <1>1, SubscribeKeeps, UnsubscribeKeeps, ParkedWriteKeeps, RelayClosesKeeps
<1>2. CASE Reconnect \/ Break \/ Ignore \/ ReadEose \/ ReadClosed \/ Tick
  BY <1>2, ReconnectKeeps, BreakKeeps, IgnoreKeeps, ReadEoseKeeps, ReadClosedKeeps, TickKeeps
<1>3. CASE Deliver \/ DeliverFails
  BY <1>3, DeliverKeeps
<1>4. ASSUME NEW e \in Events, NEW at \in clock - Lag .. clock, Publish(e, at) PROVE SubsInv'
  BY <1>4, PublishKeeps
<1>5. CASE UNCHANGED vars
  <2>1. UNCHANGED <<clock, stamp, up, serving, incoming, parked, records, seen, handed, failed,
                    reused, ended, troubles>>
    BY <1>5 DEF vars, relay, wire
  <2>2. Registered' = Registered /\ Unbroken' = Unbroken
    BY <2>1 DEF Registered, Unbroken
  <2>3. TypeOK' /\ HandedInv' /\ FloorOK'
    BY <2>1, Unfold, TypesKept, NothingHanded, FloorKept
  <2>4. WireOK' /\ OrderOK' /\ ServedOK'
    BY <2>1, <2>2, Unfold, SameQueue DEF WireOK, OrderOK, ServedOK
  <2>5. TimesOK'
    BY <2>1, Unfold DEF TimesOK, Due, Stored
  <2> QED
    BY <2>3, <2>4, <2>5 DEF SubsInv
<1> QED
  BY <1>1, <1>2, <1>3, <1>4, <1>5 DEF Next, Elsewhere

\* The inductive invariant of the subscriptions.
THEOREM SubscriptionsInvariant == Spec => []SubsInv
BY SubsInit, SubsNext, PTL DEF Spec

\* The types; the memory of seen ids keeps to its two generations (SeenEventIds).
THEOREM SubscriptionTypes == Spec => []TypeOK
<1>1. SubsInv => TypeOK
  BY DEF SubsInv
<1> QED
  BY <1>1, SubscriptionsInvariant, PTL

LEMMA ServedMeansNothingMissing ==
  ASSUME SubsInv
  PROVE  NothingMissing
<1> SUFFICES ASSUME up, incoming = <<>>, NEW s \in Registered \ reused, parked[s] = 0,
                    s \in ended => serving[s] # None
             PROVE  Missed(s) = {}
  BY DEF NothingMissing
<1>1. s \in Unbroken /\ parked[s] = 0 /\ DOMAIN incoming = {}
  BY DEF Unbroken
<1>2. ~Ends(incoming, s)
  BY <1>1 DEF Ends
<1>3. serving[s] # None /\ Coming(incoming, s)
  BY <1>1, <1>2, Unfold
<1> QED
  BY <1>1, <1>3 DEF Coming

\* However often connections, subscriptions and handlers fail: once a connection has
\* nothing unread and no request parked, every stored event of a subscription was
\* handed over (the floors of src/nostr/subscriptions.ts).
THEOREM NothingIsMissing == Spec => []NothingMissing
BY SubscriptionsInvariant, ServedMeansNothingMissing, PTL

\* Wherever the connection breaks, the next REQ asks for all that was not delivered.
THEOREM FloorsCoverMissing == Spec => []FloorCoversMissing
<1>1. ASSUME SubsInv PROVE FloorCoversMissing
  BY <1>1, FloorBelow DEF FloorCoversMissing, Unbroken, Matches
<1> QED
  BY <1>1, SubscriptionsInvariant, PTL

\* An event is handed over again only after a whole generation of others.
THEOREM RepetitionsAreApart == Spec => []SeenWindow
<1>1. SubsInv => SeenWindow
  BY DEF SubsInv, HandedInv
<1> QED
  BY <1>1, SubscriptionsInvariant, PTL

-----------------------------------------------------------------------------
(* What the sessions are told.                                               *)

LEMMA MemoryStepRefines ==
  ASSUME MemoryNext
  PROVE  [Next]_vars
<1>1. ASSUME NEW e \in Events, Judged(e) \/ StartTurn(e) \/ Steer(e) PROVE UNCHANGED vars
  BY <1>1 DEF Judged, StartTurn, Steer
<1>2. CASE Prompt \/ Settle \/ ConfigPush \/ Rotate
  BY <1>2 DEF Prompt, Settle, ConfigPush, Rotate
<1> QED
  BY <1>1, <1>2 DEF MemoryNext, Actor, Next

\* Messages become turns without disturbing the subscriptions: every step of the
\* conversations is a step of module Subscriptions, or none of its variables.
THEOREM MemoryImplementsSubscriptions == MemorySpec => Spec
<1>1. ASSUME [MemoryNext]_<<vars, memoryVars>> PROVE [Next]_vars
  BY <1>1, MemoryStepRefines
<1> QED
  BY <1>1, PTL DEF MemorySpec, Spec

LEMMA MemoryInitOK ==
  ASSUME MemoryInit
  PROVE  MemoryInv
<1>1. MemoryTypeOK
  BY DEF MemoryInit, MemoryTypeOK, Keys, NoTurn
<1>2. RowsStored /\ ToldOK /\ StartingOK /\ NothingToldTwice
  BY DEF MemoryInit, RowsStored, ToldOK, StartingOK, NothingToldTwice, NoTurn
<1> QED
  BY <1>1, <1>2 DEF MemoryInv

LEMMA KeyType ==
  ASSUME MemoryTypeOK, NEW e \in Events
  PROVE  Key(e) \in Keys
BY DEF MemoryTypeOK, Key, Keys

\* What the relay stored stays, with its time.
LEMMA StoredStays ==
  ASSUME SubsInv, [Next]_vars
  PROVE  \A e \in Events : Stored(e) => Stored(e)' /\ stamp'[e] = stamp[e]
<1>1. CASE UNCHANGED stamp
  BY <1>1 DEF Stored
<1>2. ASSUME NEW e \in Events, NEW at, Publish(e, at)
      PROVE  \A m \in Events : Stored(m) => Stored(m)' /\ stamp'[m] = stamp[m]
  <2>1. stamp \in [Events -> Seconds \cup {None}]
    BY DEF SubsInv, TypeOK
  <2> QED
    BY <1>2, <2>1 DEF Publish, Stored
<1>3. ASSUME [Next]_vars, ~ \E e \in Events, at \in clock - Lag .. clock : Publish(e, at)
      PROVE  UNCHANGED stamp
  BY <1>3 DEF Next, Elsewhere, Subscribe, Unsubscribe, ParkedWrite, RelayCloses, Reconnect,
              Break, Ignore, Deliver, DeliverFails, ReadEose, ReadClosed, Reads, Tick, vars, relay
<1> QED
  BY <1>1, <1>2, <1>3

\* The channel is heard of, or time passes: the sessions are told nothing.
LEMMA ElsewhereKeepsMemory ==
  ASSUME SubsInv, MemoryInv, [Next]_vars,
         UNCHANGED <<root, told, watermark, turn, ahead, again>>,
         UNCHANGED row \/ (incoming # <<>> /\ Head1.kind = "EVENT" /\ Inserted)
  PROVE  MemoryInv'
<1>1. \A e \in Events : Stored(e) => Stored(e)' /\ stamp'[e] = stamp[e]
  BY StoredStays
<1>2. row \in [Events -> {"none", "unjudged", "queued", "rejected", "delivered"}]
  BY DEF MemoryInv, MemoryTypeOK
<1>3. /\ row' \in [Events -> {"none", "unjudged", "queued", "rejected", "delivered"}]
      /\ \A e \in Events : row'[e] = row[e] \/ (row[e] = "none" /\ row'[e] = "unjudged" /\ Stored(e))
  <2>1. CASE UNCHANGED row
    BY <1>2, <2>1
  <2>2. CASE incoming # <<>> /\ Head1.kind = "EVENT" /\ Inserted
    <3>1. incoming \in Seq(Frames) /\ Len(incoming) \in Nat \ {0}
      BY <2>2, Unfold, LenProperties, EmptySeq
    <3>2. 1 \in DOMAIN incoming /\ Head1 = incoming[1]
      BY <3>1 DEF Head1
    <3>3. Head1.event \in Events /\ Stored(Head1.event)
      BY <2>2, <3>2, Unfold DEF Genuine
    <3> QED
      BY <1>2, <2>2, <3>3 DEF Inserted
  <2> QED
    BY <2>1, <2>2
<1>4. MemoryTypeOK'
  BY <1>3 DEF MemoryInv, MemoryTypeOK
<1>5. RowsStored'
  BY <1>1, <1>3 DEF MemoryInv, RowsStored
<1>6. ToldOK'
  <2> SUFFICES ASSUME NEW k \in Keys, NEW m \in told[k]
               PROVE  /\ m \in ahead \/ row'[m] \in {"rejected", "delivered"}
                      /\ Stored(m)' /\ watermark[k] # None /\ stamp'[m] <= watermark[k]
    BY DEF ToldOK
  <2>1. m \in Events
    BY DEF MemoryInv, MemoryTypeOK
  <2> QED
    BY <1>1, <1>3, <2>1 DEF MemoryInv, ToldOK
<1>7. StartingOK'
  <2>1. turn.stage = "starting" => turn.trigger \in Events
    BY DEF MemoryInv, MemoryTypeOK
  <2> QED
    BY <1>3, <2>1 DEF MemoryInv, StartingOK
<1>8. NothingToldTwice'
  BY DEF MemoryInv, NothingToldTwice
<1> QED
  BY <1>4, <1>5, <1>6, <1>7, <1>8 DEF MemoryInv

\* What is told is stored; the watermark of its session is then past it.
LEMMA WatermarkPasses ==
  ASSUME SubsInv, MemoryInv, NEW k \in Keys, NEW E \in SUBSET Events, E # {},
         \A e \in E : Stored(e), NoteWatermark(k, E)
  PROVE  /\ watermark' \in [Keys -> Int \cup {None}]
         /\ \A j \in Keys \ {k} : watermark'[j] = watermark[j]
         /\ watermark'[k] # None /\ watermark'[k] \in Int
         /\ watermark[k] # None => watermark[k] \in Int /\ watermark[k] <= watermark'[k]
         /\ \A e \in E : stamp[e] \in Int /\ stamp[e] <= watermark'[k]
<1>1. \A e \in E : stamp[e] \in Int
  BY Unfold DEF TypeOK, Stored, Seconds
<1>2. watermark \in [Keys -> Int \cup {None}] /\ None \notin Int
  BY SubscriptionsAssumption DEF MemoryInv, MemoryTypeOK
<1>3. PICK at \in {stamp[e] : e \in E} \cup ({watermark[k]} \ {None}) :
        /\ \A e \in E : stamp[e] <= at
        /\ watermark[k] # None => watermark[k] <= at
        /\ watermark' = [watermark EXCEPT ![k] = at]
  BY DEF NoteWatermark
<1>4. at \in Int
  BY <1>1, <1>2, <1>3
<1> QED
  BY <1>1, <1>2, <1>3, <1>4

\* A session is told a few more messages, which will not be queued any more.
LEMMA TellingKeeps ==
  ASSUME SubsInv, MemoryInv, NEW k \in Keys, NEW E \in SUBSET Events, E # {},
         UNCHANGED <<stamp, root>>, ahead \subseteq ahead',
         \A e \in E : Stored(e) /\ (e \in ahead' \/ row'[e] \in {"rejected", "delivered"}),
         \A e \in told[k] \cap E : e \in ahead',
         row' \in [Events -> {"none", "unjudged", "queued", "rejected", "delivered"}],
         \A e \in Events : row'[e] = row[e] \/ (row[e] # "none" /\ row'[e] = "delivered"),
         Tells(k, E), NoteWatermark(k, E),
         turn' \in [trigger : Events \cup {None}, stage : {"running"}, spoilt : BOOLEAN],
         turn'.trigger \in Events
  PROVE  MemoryInv'
<1>1. /\ watermark' \in [Keys -> Int \cup {None}]
      /\ \A j \in Keys \ {k} : watermark'[j] = watermark[j]
      /\ watermark'[k] # None /\ watermark'[k] \in Int
      /\ watermark[k] # None => watermark[k] \in Int /\ watermark[k] <= watermark'[k]
      /\ \A e \in E : stamp[e] \in Int /\ stamp[e] <= watermark'[k]
  BY WatermarkPasses
<1>2. told \in [Keys -> SUBSET Events]
  BY DEF MemoryInv, MemoryTypeOK
<1>3. /\ told' \in [Keys -> SUBSET Events] /\ told'[k] = told[k] \cup E
      /\ \A j \in Keys \ {k} : told'[j] = told[j]
  BY <1>2 DEF Tells
<1>4. MemoryTypeOK'
  BY <1>1, <1>3 DEF MemoryInv, MemoryTypeOK
<1>5. RowsStored'
  BY DEF MemoryInv, RowsStored, Stored
<1>6. ToldOK'
  <2> SUFFICES ASSUME NEW j \in Keys, NEW m \in told'[j]
               PROVE  /\ m \in ahead' \/ row'[m] \in {"rejected", "delivered"}
                      /\ Stored(m) /\ watermark'[j] # None /\ stamp[m] <= watermark'[j]
    BY DEF ToldOK, Stored
  <2>1. CASE m \in told[j]
    <3>1. /\ m \in ahead \/ row[m] \in {"rejected", "delivered"}
          /\ Stored(m) /\ watermark[j] # None /\ stamp[m] <= watermark[j] /\ m \in Events
      BY <1>2, <2>1 DEF MemoryInv, ToldOK
    <3>2. m \in ahead' \/ row'[m] \in {"rejected", "delivered"}
      BY <3>1
    <3>3. stamp[m] \in Int
      BY <3>1, Unfold DEF TypeOK, Stored, Seconds
    <3> QED
      BY <1>1, <3>1, <3>2, <3>3
  <2>2. CASE j = k /\ m \in E
    BY <1>1, <2>2
  <2> QED
    BY <1>3, <2>1, <2>2
<1>7. StartingOK'
  BY DEF StartingOK
<1>8. NothingToldTwice'
  BY DEF MemoryInv, NothingToldTwice, Tells
<1> QED
  BY <1>4, <1>5, <1>6, <1>7, <1>8 DEF MemoryInv

LEMMA PromptKeeps ==
  ASSUME SubsInv, MemoryInv, Prompt
  PROVE  MemoryInv'
<1>1. PICK e, k : e = turn.trigger /\ k = Key(e)
  OBVIOUS
<1>2. PICK window, heard :
        /\ window \in {{}} \cup Windows(e) /\ heard \subseteq window
        /\ Seeds(e) => heard = window
        /\ turn' = [turn EXCEPT !.stage = "running",
                                 !.spoilt = window \notin Windows(e) \/ heard # window]
        /\ Tells(k, heard \cup {e})
        /\ NoteWatermark(k, heard \cup {e})
        /\ ahead' = ahead \cup {m \in heard : row[m] = "none"}
  BY <1>1 DEF Prompt
<1>3. /\ UNCHANGED <<stamp, root, row>> /\ turn.stage = "starting"
      /\ turn \in [trigger : Events \cup {None}, stage : {"idle", "starting", "running"},
                   spoilt : BOOLEAN]
      /\ e \in Events
      /\ row \in [Events -> {"none", "unjudged", "queued", "rejected", "delivered"}]
  BY <1>1 DEF Prompt, vars, relay, fixed, MemoryInv, MemoryTypeOK
<1>4. k \in Keys
  BY <1>1, <1>3, KeyType DEF MemoryInv
<1>5. row[e] = "delivered" /\ (e \in told[k] => e \in ahead) /\ Stored(e)
  BY <1>1, <1>3, <1>4 DEF MemoryInv, StartingOK, RowsStored
<1>6. heard \subseteq Relevant(e)
  BY <1>2 DEF Windows
<1>7. \A m \in heard :
        /\ m \in Events /\ Stored(m) /\ row[m] \notin {"unjudged", "queued"}
        /\ told[k] = {} \/ (row[m] # "delivered"
                            /\ (watermark[k] = None \/ stamp[m] > watermark[k]))
  BY <1>1, <1>6 DEF Relevant, Seeds
<1>8. heard \cap told[k] = {}
  <2> SUFFICES ASSUME NEW m \in heard, m \in told[k] PROVE FALSE
    OBVIOUS
  <2>1. stamp[m] \in Int /\ watermark[k] # None /\ stamp[m] <= watermark[k]
        /\ watermark[k] \in Int
    <3>1. watermark[k] # None /\ stamp[m] <= watermark[k]
      BY <1>4 DEF MemoryInv, ToldOK
    <3>2. stamp[m] \in Int
      BY <1>7, Unfold DEF TypeOK, Stored, Seconds
    <3>3. watermark[k] \in Int
      BY <1>4, <3>1 DEF MemoryInv, MemoryTypeOK
    <3> QED
      BY <3>1, <3>2, <3>3
  <2> QED
    BY <1>7, <2>1
<1>9. \A m \in heard \cup {e} :
        /\ m \in Events /\ Stored(m)
        /\ m \in ahead' \/ row[m] \in {"rejected", "delivered"}
        /\ m \in told[k] => m \in ahead'
  BY <1>2, <1>3, <1>5, <1>7, <1>8
<1>10. turn' \in [trigger : Events \cup {None}, stage : {"running"}, spoilt : BOOLEAN]
       /\ turn'.trigger \in Events
  <2>1. PICK b \in BOOLEAN : b = (window \notin Windows(e) \/ heard # window)
    OBVIOUS
  <2>2. turn' = [turn EXCEPT !.stage = "running", !.spoilt = b]
    BY <1>2, <2>1
  <2> QED
    BY <1>1, <1>3, <2>2
<1>11. PICK E : E = heard \cup {e}
  OBVIOUS
<1>12. /\ E \in SUBSET Events /\ E # {} /\ Tells(k, E) /\ NoteWatermark(k, E)
       /\ \A m \in E : Stored(m) /\ (m \in ahead' \/ row'[m] \in {"rejected", "delivered"})
       /\ \A m \in told[k] \cap E : m \in ahead'
       /\ ahead \subseteq ahead'
  BY <1>2, <1>3, <1>9, <1>11
<1> QED
  BY <1>3, <1>4, <1>10, <1>12, TellingKeeps

LEMMA SteerKeeps ==
  ASSUME SubsInv, MemoryInv, NEW e \in Events, Steer(e)
  PROVE  MemoryInv'
<1>1. /\ UNCHANGED <<stamp, root, turn, ahead>> /\ turn.stage = "running" /\ row[e] = "queued"
      /\ row' = [row EXCEPT ![e] = "delivered"]
  BY DEF Steer, vars, relay, fixed
<1>2. /\ turn \in [trigger : Events \cup {None}, stage : {"idle", "starting", "running"},
                   spoilt : BOOLEAN]
      /\ turn.trigger \in Events
      /\ row \in [Events -> {"none", "unjudged", "queued", "rejected", "delivered"}]
  BY <1>1 DEF MemoryInv, MemoryTypeOK
<1>3. PICK k, E : k = Key(turn.trigger) /\ E = {e}
  OBVIOUS
<1>4. k \in Keys /\ E \in SUBSET Events /\ E # {} /\ Tells(k, E) /\ NoteWatermark(k, E)
  BY <1>2, <1>3, KeyType DEF MemoryInv, Steer
<1>5. Stored(e) /\ (e \in told[k] => e \in ahead)
  BY <1>1, <1>4 DEF MemoryInv, RowsStored, ToldOK
<1>6. /\ row' \in [Events -> {"none", "unjudged", "queued", "rejected", "delivered"}]
      /\ row'[e] = "delivered"
      /\ \A m \in Events : row'[m] = row[m] \/ (row[m] # "none" /\ row'[m] = "delivered")
  BY <1>1, <1>2
<1>7. turn' \in [trigger : Events \cup {None}, stage : {"running"}, spoilt : BOOLEAN]
      /\ turn'.trigger \in Events
  BY <1>1, <1>2
<1>8. \A m \in E : Stored(m) /\ (m \in ahead' \/ row'[m] \in {"rejected", "delivered"})
  BY <1>3, <1>5, <1>6
<1>9. \A m \in told[k] \cap E : m \in ahead'
  BY <1>1, <1>3, <1>5
<1>10. ahead \subseteq ahead'
  BY <1>1
<1> QED
  BY <1>1, <1>4, <1>6, <1>7, <1>8, <1>9, <1>10, TellingKeeps

\* The other steps tell a session nothing; some make it forget.
LEMMA QuietActorKeeps ==
  ASSUME SubsInv, MemoryInv,
         \/ \E e \in Events : Judged(e) \/ StartTurn(e)
         \/ Settle \/ ConfigPush \/ Rotate
  PROVE  MemoryInv'
<1>1. /\ UNCHANGED <<stamp, root, ahead, again>>
  BY DEF Judged, StartTurn, Settle, ConfigPush, Rotate, vars, relay, fixed
<1>2. /\ row \in [Events -> {"none", "unjudged", "queued", "rejected", "delivered"}]
      /\ turn \in [trigger : Events \cup {None}, stage : {"idle", "starting", "running"},
                   spoilt : BOOLEAN]
      /\ turn.stage # "idle" => turn.trigger \in Events
      /\ told \in [Keys -> SUBSET Events] /\ watermark \in [Keys -> Int \cup {None}]
  BY DEF MemoryInv, MemoryTypeOK
<1>3. NothingToldTwice'
  BY <1>1 DEF MemoryInv, NothingToldTwice
<1>4. ASSUME NEW e \in Events, Judged(e) PROVE MemoryInv'
  <2>1. /\ UNCHANGED <<told, watermark, turn>> /\ row[e] = "unjudged"
        /\ row' \in [Events -> {"none", "unjudged", "queued", "rejected", "delivered"}]
        /\ \A m \in Events \ {e} : row'[m] = row[m]
    BY <1>2, <1>4 DEF Judged
  <2>2. MemoryTypeOK' /\ RowsStored'
    BY <1>1, <2>1 DEF MemoryInv, MemoryTypeOK, RowsStored, Stored
  <2>3. ToldOK'
    BY <1>1, <1>2, <2>1 DEF MemoryInv, ToldOK, Stored
  <2>4. StartingOK'
    BY <1>1, <1>2, <2>1 DEF MemoryInv, StartingOK
  <2> QED
    BY <1>3, <2>2, <2>3, <2>4 DEF MemoryInv
<1>5. ASSUME NEW e \in Events, StartTurn(e) PROVE MemoryInv'
  <2>1. /\ UNCHANGED <<told, watermark>> /\ row[e] = "queued"
        /\ row' = [row EXCEPT ![e] = "delivered"]
        /\ turn' = [trigger |-> e, stage |-> "starting", spoilt |-> FALSE]
    BY <1>5 DEF StartTurn, NoTurn
  <2>2. MemoryTypeOK' /\ RowsStored'
    BY <1>1, <1>2, <2>1 DEF MemoryInv, MemoryTypeOK, RowsStored, Stored
  <2>3. ToldOK'
    BY <1>1, <1>2, <2>1 DEF MemoryInv, ToldOK, Stored
  <2>4. StartingOK'
    BY <1>1, <1>2, <2>1 DEF MemoryInv, StartingOK, ToldOK
  <2> QED
    BY <1>3, <2>2, <2>3, <2>4 DEF MemoryInv
<1>6. CASE Settle \/ ConfigPush \/ Rotate
  <2>1. /\ UNCHANGED row /\ turn' \in {turn, NoTurn}
        /\ told' \in [Keys -> SUBSET Events] /\ watermark' \in [Keys -> Int \cup {None}]
        /\ \A k \in Keys : told'[k] \subseteq told[k]
        /\ \A k \in Keys : told'[k] = {} \/ watermark'[k] = watermark[k]
    BY <1>2, <1>6 DEF Settle, ConfigPush, Rotate
  <2>5. /\ turn' \in [trigger : Events \cup {None}, stage : {"idle", "starting", "running"},
                      spoilt : BOOLEAN]
        /\ turn'.stage # "idle" => turn'.trigger \in Events
    <3>1. NoTurn \in [trigger : Events \cup {None}, stage : {"idle", "starting", "running"},
                      spoilt : BOOLEAN] /\ NoTurn.stage = "idle"
      BY DEF NoTurn
    <3>2. CASE turn' = turn
      BY <1>2, <3>2
    <3>3. CASE turn' = NoTurn
      BY <3>1, <3>3
    <3> QED
      BY <2>1, <3>2, <3>3
  <2>2. MemoryTypeOK' /\ RowsStored'
    BY <1>1, <2>1, <2>5 DEF MemoryInv, MemoryTypeOK, RowsStored, Stored
  <2>3. ToldOK'
    BY <1>1, <2>1 DEF MemoryInv, ToldOK, Stored
  <2>4. StartingOK'
    BY <1>1, <2>1 DEF MemoryInv, StartingOK, NoTurn
  <2> QED
    BY <1>3, <2>2, <2>3, <2>4 DEF MemoryInv
<1> QED
  BY <1>4, <1>5, <1>6

LEMMA MemoryStep ==
  ASSUME SubsInv, MemoryInv, [MemoryNext]_<<vars, memoryVars>>
  PROVE  MemoryInv'
<1>1. CASE Prompt
  BY <1>1, PromptKeeps
<1>2. ASSUME NEW e \in Events, Steer(e) PROVE MemoryInv'
  BY <1>2, SteerKeeps
<1>3. CASE (\E e \in Events : Judged(e) \/ StartTurn(e)) \/ Settle \/ ConfigPush \/ Rotate
  BY <1>3, QuietActorKeeps
<1>4. CASE Deliver /\ Inserted /\ UNCHANGED <<fixed, told, watermark, turn, ahead, again, pushed>>
  <2>1. [Next]_vars /\ incoming # <<>> /\ Head1.kind = "EVENT"
    BY <1>4 DEF Next, Deliver, Reads
  <2>2. UNCHANGED <<root, told, watermark, turn, ahead, again>>
    BY <1>4 DEF fixed
  <2> QED
    BY <1>4, <2>1, <2>2, ElsewhereKeepsMemory
<1>5. CASE (Elsewhere \/ UNCHANGED vars) /\ UNCHANGED memoryVars
  <2>1. [Next]_vars
    BY <1>5 DEF Next
  <2>2. UNCHANGED <<root, told, watermark, turn, ahead, again, row>>
    BY <1>5 DEF memoryVars
  <2> QED
    BY <2>1, <2>2, ElsewhereKeepsMemory
<1> QED
  BY <1>1, <1>2, <1>3, <1>4, <1>5 DEF MemoryNext, Actor

\* Nothing enters a session twice: not as history after a prompt or a steer, nor as a
\* prompt after history, but for what the relay shows before the subscription delivers
\* it (the watermarks of src/runtime/channel-actor.ts).
THEOREM SessionsHearOnce == MemorySpec => []NothingToldTwice
<1>1. Init /\ MemoryInit => SubsInv /\ MemoryInv
  BY SubsInit, MemoryInitOK
<1>2. SubsInv /\ MemoryInv /\ [MemoryNext]_<<vars, memoryVars>> => (SubsInv /\ MemoryInv)'
  <2> SUFFICES ASSUME SubsInv, MemoryInv, [MemoryNext]_<<vars, memoryVars>>
               PROVE  (SubsInv /\ MemoryInv)'
    OBVIOUS
  <2>1. [Next]_vars
    BY MemoryStepRefines
  <2> QED
    BY <2>1, SubsNext, MemoryStep
<1>3. MemoryInv => NothingToldTwice
  BY DEF MemoryInv
<1> QED
  BY <1>1, <1>2, <1>3, PTL DEF MemorySpec
=============================================================================
