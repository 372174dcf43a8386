-------------------------- MODULE RemoteConfigProofs --------------------------
(* What RemoteConfig guarantees for any documents, credentials and keys, any   *)
(* records the relay begins with, and any number of pushes, refreshes and      *)
(* faults.                                                                     *)
EXTENDS RemoteConfig, TLAPS

AnyContent == Contents["config"] \cup Contents["auth"] \cup Contents["langfuse"]
Entries == [slug : Slugs, at : Nat \ {0}, value : AnyContent]

StoreOK ==
  DOMAIN stored = Slugs /\ \A s \in Slugs : stored[s] \in HeadsOf(s) \cup {None}

\* What was sent is no newer than what is stored, and is it if it is as new,
\* unless two write-backs of the credentials crossed.
EntryOK(e) ==
  LET head == stored[e.slug] IN
    /\ e.value \in Contents[e.slug]
    /\ head # None /\ e.at <= head.at
    /\ (e.slug # "auth" \/ ~disturbed) /\ e.at = head.at => e.value = head.value

Waiting == {inbox[i] : i \in 1 .. Len(inbox)}

InboxOK ==
  /\ inbox \in Seq(Entries)
  /\ ~Subscribed => inbox = <<>>
  /\ \A e \in Waiting : EntryOK(e)

\* Nothing newer than the relay's record was handled, or was acknowledged.
MarkOK == mark \in [Slugs -> Nat] /\ \A s \in Slugs : mark[s] <= At(stored[s])
AckOK == \A t \in tasks :
           /\ t.stage = "ok" => t.at <= At(stored["auth"])
           /\ t.stage = "publish" => t.at # 0

Kinds == {"apply", "back"}
Stages == {"read", "echo", "file", "meta", "look", "publish", "ok", "sync"}
Tasks == [kind : Kinds, stage : Stages, content : Creds, at : Nat]
Phases == {"down", "auth", "langfuse", "starting", "recovering", "running",
           "draining", "stopped"}

ProcessOK ==
  /\ now \in Nat \ {0}
  /\ phase \in Phases
  /\ tasks \subseteq Tasks
  /\ file \in [content : Creds, mtime : Nat] \cup {None}
  /\ meta \in [digest : Creds, at : Nat] \cup {None}
  /\ dirty \in BOOLEAN /\ disturbed \in BOOLEAN
  /\ dirty => file # None
  /\ phase \in {"down", "auth", "langfuse", "starting"} => ~dirty
  /\ phase \in {"down", "auth", "starting"} => tasks = {}
  /\ phase \in {"down", "auth"} => mark["auth"] = 0

\* The types and what the process has in hand.
BaseInv == StoreOK /\ InboxOK /\ MarkOK /\ AckOK /\ ProcessOK

Sent(s) == Pushed(s, stored[s]) \in Waiting

\* The newest document was handled, or is on its way.
ConfigInv ==
  LET head == stored["config"] IN
    head # None =>
      /\ mark["config"] = head.at =>
           config = ApplyCoreConfig(head.value) /\ "config" \notin missing
      /\ Subscribed /\ Usable(head.value) /\ mark["config"] # head.at => Sent("config")

\* The credentials.  Until handlers overlap or writers cross there is one at
\* most, and where it stands tells what is on the disk and on the relay.
Alive == phase \in {"langfuse", "starting", "recovering", "running"}

FileHas(c) == file # None /\ (file.content = c \/ dirty)

Matches(t) ==
  /\ stored["auth"] # None /\ t.at <= stored["auth"].at
  /\ t.at = stored["auth"].at => t.content = stored["auth"].value

TaskOK(t) ==
  /\ t.stage \in {"read", "echo", "file", "meta", "sync"} =>
       t.at = mark["auth"] /\ t.at # 0 /\ Matches(t)
  /\ t.stage \notin {"read", "file"} /\ Alive => FileHas(t.content)
  /\ t.stage = "look" /\ Alive => mark["auth"] # 0
  /\ t.stage \in {"publish", "ok"} => mark["auth"] < t.at
  /\ t.stage = "ok" => Matches(t)

Known == stored["auth"] # None /\ mark["auth"] = stored["auth"].at
InSync(head) == meta = [digest |-> head.value, at |-> head.at]

\* The sync mark is not newer than the record, and is its own if as new.
MetaOK ==
  meta # None => /\ stored["auth"] # None /\ meta.at <= stored["auth"].at
                 /\ meta.at = stored["auth"].at => meta.digest = stored["auth"].value

\* What holds of a record that was handled: a tombstone is missed, and other
\* credentials are in the file once no handler is left.
HandledOK ==
  Alive /\ Known =>
    LET head == stored["auth"] IN
      /\ head.value = Tombstone => "auth" \in missing
      /\ head.value # Tombstone =>
           /\ \A t \in tasks : t.stage = "look" => InSync(head)
           /\ tasks = {} => InSync(head) /\ FileHas(head.value)

Alone == \A t, u \in tasks : t = u
AwaitOK == Subscribed /\ stored["auth"] # None /\ ~Known => Sent("auth")
EmptyOK == Alive /\ tasks = {} /\ mark["auth"] = 0 => file = None /\ "auth" \in missing

AuthInv ==
  ~disturbed =>
    Alone /\ (\A t \in tasks : TaskOK(t)) /\ MetaOK /\ AwaitOK /\ EmptyOK /\ HandledOK

-----------------------------------------------------------------------------
LEMMA ContentFacts ==
  /\ Contents["auth"] = Creds \cup {Tombstone}
  /\ \A s \in Slugs : Values[s] \subseteq Contents[s] /\ Contents[s] \subseteq AnyContent
BY DEF Contents, Values, Slugs, AnyContent

LEMMA HeadFacts ==
  ASSUME StoreOK
  PROVE  /\ \A s \in Slugs : At(stored[s]) \in Nat
         /\ \A s \in Slugs : stored[s] # None =>
              /\ At(stored[s]) = stored[s].at /\ stored[s].at \in Nat \ {0}
              /\ stored[s].value \in Contents[s]
              /\ stored[s] = [at |-> stored[s].at, value |-> stored[s].value]
         /\ \A s \in Slugs : stored[s] = None => At(stored[s]) = 0
BY DEF StoreOK, HeadsOf, At

LEMMA Stamps ==
  ASSUME ProcessOK, NEW n \in Nat
  PROVE  NextStamp(n) \in Nat \ {0} /\ NextStamp(n) > n
BY DEF ProcessOK, NextStamp, Larger

LEMMA InboxFacts ==
  ASSUME InboxOK, inbox # <<>>
  PROVE  /\ Head(inbox) \in Entries /\ EntryOK(Head(inbox)) /\ Head(inbox) \in Waiting
         /\ Tail(inbox) \in Seq(Entries)
         /\ \A rest : rest = Tail(inbox) =>
              LET left == {rest[i] : i \in 1 .. Len(rest)} IN
                left \subseteq Waiting /\ Waiting = left \cup {Head(inbox)}
<1>1. inbox \in Seq(Entries) /\ Len(inbox) \in Nat \ {0}
  BY DEF InboxOK
<1>2. /\ Head(inbox) \in Entries /\ Head(inbox) = inbox[1]
      /\ Tail(inbox) \in Seq(Entries) /\ Len(Tail(inbox)) = Len(inbox) - 1
      /\ \A i \in 1 .. Len(Tail(inbox)) : Tail(inbox)[i] = inbox[i + 1]
  BY <1>1
<1>3. Head(inbox) \in Waiting
  BY <1>1, <1>2 DEF Waiting
<1>4. ASSUME NEW rest, rest = Tail(inbox)
      PROVE  LET left == {rest[i] : i \in 1 .. Len(rest)} IN
               left \subseteq Waiting /\ Waiting = left \cup {Head(inbox)}
  <2> DEFINE left == {rest[i] : i \in 1 .. Len(rest)}
  <2>1. left \subseteq Waiting
    <3>1. \A i \in 1 .. Len(rest) : i + 1 \in 1 .. Len(inbox) /\ rest[i] = inbox[i + 1]
      BY <1>1, <1>2, <1>4
    <3> QED
      BY <3>1 DEF Waiting
  <2>2. \A i \in 1 .. Len(inbox) : inbox[i] \in left \cup {Head(inbox)}
    <3> SUFFICES ASSUME NEW i \in 1 .. Len(inbox), i # 1
                 PROVE  inbox[i] \in left
      BY <1>2
    <3>1. i - 1 \in 1 .. Len(rest) /\ rest[i - 1] = inbox[i]
      BY <1>1, <1>2, <1>4
    <3> QED
      BY <3>1
  <2> QED
    BY <1>3, <2>1, <2>2 DEF Waiting
<1>5. EntryOK(Head(inbox))
  BY <1>3 DEF InboxOK
<1> QED
  BY <1>2, <1>3, <1>4, <1>5

\* The head of the inbox is handled: what was sent otherwise is still there.
LEMMA Handled ==
  ASSUME InboxOK, inbox # <<>>, inbox' = Tail(inbox), UNCHANGED <<stored, phase>>,
         disturbed => disturbed'
  PROVE  /\ InboxOK'
         /\ \A s \in Slugs : Sent(s) => Sent(s)' \/ Head(inbox) = Pushed(s, stored[s])
<1>1. Waiting' \subseteq Waiting /\ Waiting = Waiting' \cup {Head(inbox)}
  <2>1. PICK rest : rest = Tail(inbox)
    OBVIOUS
  <2>2. Waiting' = {rest[i] : i \in 1 .. Len(rest)}
    BY <2>1 DEF Waiting
  <2>3. LET left == {rest[i] : i \in 1 .. Len(rest)} IN
          left \subseteq Waiting /\ Waiting = left \cup {Head(inbox)}
    BY <2>1, InboxFacts
  <2> QED
    BY <2>2, <2>3
<1>2. \A e \in Waiting : EntryOK(e)'
  BY DEF InboxOK, EntryOK
<1>3. InboxOK'
  BY <1>1, <1>2, InboxFacts DEF InboxOK, Subscribed
<1>4. \A s \in Slugs : Sent(s) => Sent(s)' \/ Head(inbox) = Pushed(s, stored[s])
  BY <1>1 DEF Sent
<1> QED
  BY <1>3, <1>4

\* A newer record takes the place of the stored one and is sent.
LEMMA Published ==
  ASSUME BaseInv, NEW slug \in Slugs, NEW h \in HeadsOf(slug), Stores(slug, h, TRUE),
         UNCHANGED <<mark, phase>>, disturbed => disturbed', disturbed' \in BOOLEAN,
         h.at >= At(stored[slug]),
         h.at > At(stored[slug]) \/ (slug = "auth" /\ disturbed')
  PROVE  /\ StoreOK' /\ InboxOK' /\ MarkOK'
         /\ stored'[slug] = h /\ h # None /\ At(stored[slug])' = h.at
         /\ \A s \in Slugs \ {slug} : stored'[s] = stored[s]
         /\ Subscribed => Sent(slug)'
         /\ \A s \in Slugs \ {slug} : Sent(s) => Sent(s)'
<1>0. /\ stored' = [stored EXCEPT ![slug] = h] /\ StoreOK /\ InboxOK /\ MarkOK
      /\ h # None /\ h.at \in Nat \ {0} /\ h.value \in Contents[slug]
      /\ h = [at |-> h.at, value |-> h.value]
      /\ inbox' = IF Subscribed THEN Append(inbox, Pushed(slug, h)) ELSE inbox
  BY NothingThere DEF BaseInv, Stores, HeadsOf
<1>1. /\ stored'[slug] = h /\ DOMAIN stored' = Slugs /\ At(stored[slug])' = h.at
      /\ \A s \in Slugs \ {slug} : stored'[s] = stored[s]
  BY <1>0 DEF StoreOK, At
<1>2. StoreOK'
  BY <1>0, <1>1 DEF StoreOK
<1>3. \A s \in Slugs : At(stored'[s]) >= At(stored[s]) /\ At(stored[s]) \in Nat
  BY <1>0, <1>1, HeadFacts DEF At
<1>4. MarkOK'
  <2>1. \A s \in Slugs : mark[s] \in Nat /\ mark[s] <= At(stored[s])
    BY <1>0 DEF MarkOK
  <2>2. \A s \in Slugs : At(stored'[s]) \in Nat
    BY <1>0, <1>1, HeadFacts DEF At
  <2>3. \A s \in Slugs : mark[s] <= At(stored'[s])
    BY <1>3, <2>1, <2>2
  <2> QED
    BY <1>0, <2>3 DEF MarkOK, At
<1>5. \A e \in Entries : EntryOK(e) => EntryOK(e)'
  <2> SUFFICES ASSUME NEW e \in Entries, EntryOK(e)
               PROVE  EntryOK(e)'
    OBVIOUS
  <2>1. e.slug \in Slugs /\ e.at \in Nat
    BY DEF Entries
  <2>2. CASE e.slug # slug
    BY <1>1, <2>1, <2>2 DEF EntryOK
  <2>3. CASE e.slug = slug
    <3>1. /\ stored[slug] # None /\ e.at <= stored[slug].at
          /\ stored[slug].at = At(stored[slug]) /\ stored[slug].at \in Nat
      BY <1>0, <2>3, HeadFacts DEF EntryOK
    <3>2. e.at <= h.at
      BY <1>0, <2>1, <3>1
    <3>3. e.at = h.at => slug = "auth" /\ disturbed'
      BY <1>0, <2>1, <3>1
    <3> QED
      BY <1>0, <1>1, <2>3, <3>2, <3>3 DEF EntryOK
  <2> QED
    BY <2>2, <2>3
<1>6. CASE ~Subscribed
  <2>1. inbox' = <<>> /\ inbox = <<>> /\ Waiting' = {} /\ Waiting = {}
    BY <1>0, <1>6 DEF InboxOK, Waiting
  <2>2. InboxOK'
    BY <2>1 DEF InboxOK
  <2>3. \A s \in Slugs : ~Sent(s)
    BY <2>1 DEF Sent
  <2> QED
    BY <1>0, <1>1, <1>2, <1>4, <1>6, <2>2, <2>3
<1>7. CASE Subscribed
  <2> DEFINE d == Pushed(slug, h)
  <2>1. d \in Entries /\ EntryOK(d)'
    <3>1. d \in Entries
      BY <1>0, ContentFacts DEF Entries, Pushed
    <3>2. d.slug = slug /\ d.at = h.at /\ d.value = h.value
      BY DEF Pushed
    <3>3. EntryOK(d)'
      BY <1>0, <1>1, <3>2 DEF EntryOK
    <3> QED
      BY <3>1, <3>3
  <2> HIDE DEF d
  <2>2. inbox' = Append(inbox, d) /\ inbox \in Seq(Entries) /\ inbox' \in Seq(Entries)
    BY <1>0, <1>7, <2>1 DEF InboxOK, d
  <2>3. Waiting' = Waiting \cup {d}
    <3>1. /\ Len(inbox) \in Nat /\ Len(inbox') = Len(inbox) + 1
          /\ inbox'[Len(inbox) + 1] = d
          /\ \A i \in 1 .. Len(inbox) : inbox'[i] = inbox[i]
      BY <2>1, <2>2
    <3>2. \A i \in 1 .. Len(inbox') : i \in 1 .. Len(inbox) \/ i = Len(inbox) + 1
      BY <3>1
    <3>3. \A i \in 1 .. Len(inbox) : i \in 1 .. Len(inbox')
      BY <3>1
    <3>4. Len(inbox) + 1 \in 1 .. Len(inbox')
      BY <3>1
    <3>5. Waiting' \subseteq Waiting \cup {d}
      BY <3>1, <3>2 DEF Waiting
    <3>6. Waiting \subseteq Waiting' /\ d \in Waiting'
      BY <3>1, <3>3, <3>4 DEF Waiting
    <3> QED
      BY <3>5, <3>6
  <2>4. InboxOK'
    <3>1. \A e \in Waiting : e \in Entries
      BY <2>2 DEF Waiting
    <3>2. \A e \in Waiting' : EntryOK(e)'
      BY <1>0, <1>5, <2>1, <2>3, <3>1 DEF InboxOK
    <3> QED
      BY <1>7, <2>2, <3>2 DEF InboxOK, Subscribed
  <2>5. Sent(slug)'
    BY <1>1, <2>3 DEF Sent, d
  <2>6. \A s \in Slugs \ {slug} : Sent(s) => Sent(s)'
    BY <1>1, <2>3 DEF Sent
  <2> QED
    BY <1>0, <1>1, <1>2, <1>4, <2>4, <2>5, <2>6
<1> QED
  BY <1>6, <1>7

-----------------------------------------------------------------------------
\* What a handler in hand becomes.
LEMMA WorkFacts ==
  \A kind, stage, content, at :
    LET w == Work(kind, stage, content, at) IN
      /\ w.kind = kind /\ w.stage = stage /\ w.content = content /\ w.at = at
      /\ kind \in Kinds /\ stage \in Stages /\ content \in Creds /\ at \in Nat =>
           w \in Tasks
BY DEF Work, Tasks

LEMMA MoveFacts ==
  ASSUME tasks \subseteq Tasks, NEW t \in tasks, NEW s \in Stages, Moves(t, s)
  PROVE  \E m \in Tasks :
           /\ m.kind = t.kind /\ m.stage = s /\ m.content = t.content /\ m.at = t.at
           /\ tasks' = (tasks \ {t}) \cup {m}
<1> DEFINE m == [t EXCEPT !.stage = s]
<1>1. m \in Tasks /\ m.kind = t.kind /\ m.stage = s /\ m.content = t.content /\ m.at = t.at
  BY DEF Tasks
<1>2. tasks' = (tasks \ {t}) \cup {m}
  BY DEF Moves
<1> HIDE DEF m
<1> QED
  BY <1>1, <1>2

\* The relay's record and what it sent stay as they are.
LEMMA RelayFrame ==
  ASSUME BaseInv, UNCHANGED <<relay, mark>>, Subscribed' = Subscribed,
         disturbed => disturbed'
  PROVE  /\ StoreOK' /\ InboxOK' /\ MarkOK'
         /\ \A s \in Slugs : Sent(s)' = Sent(s) /\ At(stored[s])' = At(stored[s])
<1>1. Waiting' = Waiting /\ \A e : EntryOK(e) => EntryOK(e)'
  BY DEF relay, Waiting, EntryOK
<1>2. InboxOK'
  BY <1>1 DEF BaseInv, InboxOK, relay
<1>3. StoreOK' /\ MarkOK'
  BY DEF BaseInv, StoreOK, MarkOK, relay, At
<1> QED
  BY <1>1, <1>2, <1>3 DEF Sent, relay, At

\* So do the handlers in hand.
LEMMA TasksKept ==
  ASSUME BaseInv, UNCHANGED <<stored, tasks>>
  PROVE  AckOK' /\ tasks' \subseteq Tasks
BY DEF BaseInv, AckOK, ProcessOK, At

\* A record that is handled is in the inbox, and not newer than the relay's.
LEMMA HandlesFacts ==
  ASSUME BaseInv, Subscribed, inbox # <<>>, inbox' = Tail(inbox),
         UNCHANGED <<stored, phase>>, disturbed => disturbed',
         mark' = mark \/ Marks(Head(inbox))
  PROVE  /\ StoreOK' /\ InboxOK' /\ MarkOK' /\ UNCHANGED Subscribed
         /\ Head(inbox) \in Entries /\ EntryOK(Head(inbox))
         /\ \A s \in Slugs : Sent(s) => Sent(s)' \/ Head(inbox) = Pushed(s, stored[s])
         /\ Marks(Head(inbox)) =>
              /\ mark'[Head(inbox).slug] = Head(inbox).at
              /\ \A s \in Slugs : s # Head(inbox).slug => mark'[s] = mark[s]
<1>1. /\ InboxOK' /\ Head(inbox) \in Entries /\ EntryOK(Head(inbox))
      /\ \A s \in Slugs : Sent(s) => Sent(s)' \/ Head(inbox) = Pushed(s, stored[s])
  BY Handled, InboxFacts DEF BaseInv
<1>2. StoreOK' /\ UNCHANGED Subscribed
  BY DEF BaseInv, StoreOK, Subscribed
<1>3. PICK e \in Entries : e = Head(inbox)
  BY <1>1
<1>4. e.slug \in Slugs /\ e.at \in Nat /\ e.at <= At(stored[e.slug])
  BY <1>1, <1>3 DEF Entries, EntryOK, At
<1>5. MarkOK'
  <2>1. CASE mark' = mark
    BY <2>1 DEF BaseInv, MarkOK, At
  <2>2. CASE Marks(Head(inbox))
    BY <1>3, <1>4, <2>2 DEF BaseInv, MarkOK, Marks, At
  <2> QED
    BY <2>1, <2>2
<1>6. Marks(e) => /\ mark'[e.slug] = e.at
                  /\ \A s \in Slugs : s # e.slug => mark'[s] = mark[s]
  BY <1>4 DEF BaseInv, MarkOK, Marks
<1> QED
  BY <1>1, <1>2, <1>3, <1>5, <1>6

\* What the relay sends first is what it holds.
LEMMA BacklogFacts ==
  ASSUME BaseInv
  PROVE  /\ Backlog \in Seq(Entries)
         /\ {Backlog[i] : i \in 1 .. Len(Backlog)} =
              {Pushed(s, stored[s]) : s \in {u \in Slugs : stored[u] # None}}
         /\ \A s \in Slugs : stored[s] # None => EntryOK(Pushed(s, stored[s]))
<1>1. ASSUME NEW s \in Slugs, stored[s] # None
      PROVE  Pushed(s, stored[s]) \in Entries /\ EntryOK(Pushed(s, stored[s]))
  <2>1. stored[s].at \in Nat \ {0} /\ stored[s].value \in Contents[s]
    BY <1>1, HeadFacts DEF BaseInv
  <2>2. Pushed(s, stored[s]) \in Entries
    BY <2>1, ContentFacts DEF Pushed, Entries
  <2> QED
    BY <1>1, <2>1, <2>2 DEF Pushed, EntryOK
<1>2. \A s \in Slugs :
        /\ FromStore(s) \in Seq(Entries)
        /\ {FromStore(s)[i] : i \in 1 .. Len(FromStore(s))} =
             IF stored[s] = None THEN {} ELSE {Pushed(s, stored[s])}
  BY <1>1 DEF FromStore
<1> DEFINE Of(p) == {p[i] : i \in 1 .. Len(p)}
<1>3. ASSUME NEW p \in Seq(Entries), NEW q \in Seq(Entries)
      PROVE  p \o q \in Seq(Entries) /\ Of(p \o q) = Of(p) \cup Of(q)
  <2>1. /\ p \o q \in Seq(Entries) /\ Len(p) \in Nat /\ Len(q) \in Nat /\ Len(p \o q) = Len(p) + Len(q)
        /\ \A i \in 1 .. Len(p) : (p \o q)[i] = p[i]
        /\ \A i \in Len(p) + 1 .. Len(p) + Len(q) : (p \o q)[i] = q[i - Len(p)]
    OBVIOUS
  <2> DEFINE r == p \o q
  <2>2. \A i \in 1 .. Len(p) : i \in 1 .. Len(r) /\ r[i] = p[i]
    BY <2>1
  <2>3. \A i \in 1 .. Len(q) : Len(p) + i \in 1 .. Len(r) /\ r[Len(p) + i] = q[i]
    <3>1. \A i \in 1 .. Len(q) : Len(p) + i \in Len(p) + 1 .. Len(p) + Len(q) /\ Len(p) + i - Len(p) = i
      BY <2>1
    <3> QED
      BY <2>1, <3>1
  <2>4. \A i \in 1 .. Len(r) : i \in 1 .. Len(p) \/ (i - Len(p) \in 1 .. Len(q) /\ r[i] = q[i - Len(p)])
    BY <2>1
  <2> HIDE DEF r
  <2>5. {p[i] : i \in 1 .. Len(p)} \subseteq {r[i] : i \in 1 .. Len(r)}
    BY <2>2
  <2>6. {q[i] : i \in 1 .. Len(q)} \subseteq {r[i] : i \in 1 .. Len(r)}
    BY <2>3
  <2>7. {r[i] : i \in 1 .. Len(r)} \subseteq {p[i] : i \in 1 .. Len(p)} \cup {q[i] : i \in 1 .. Len(q)}
    BY <2>2, <2>4
  <2> QED
    BY <2>1, <2>5, <2>6, <2>7 DEF r
<1>4. /\ Backlog \in Seq(Entries)
      /\ Of(Backlog) = Of(FromStore("config")) \cup Of(FromStore("auth")) \cup Of(FromStore("langfuse"))
  <2> DEFINE c == FromStore("config")
             a == FromStore("auth")
             l == FromStore("langfuse")
  <2>1. c \in Seq(Entries) /\ a \in Seq(Entries) /\ l \in Seq(Entries)
    BY <1>2 DEF Slugs
  <2> HIDE DEF c, a, l, Of
  <2>2. c \o a \in Seq(Entries) /\ Of(c \o a) = Of(c) \cup Of(a)
    BY <1>3, <2>1
  <2> DEFINE ca == c \o a
  <2> HIDE DEF ca
  <2>3. ca \o l \in Seq(Entries) /\ Of(ca \o l) = Of(ca) \cup Of(l)
    BY <1>3, <2>1, <2>2 DEF ca
  <2> QED
    BY <2>2, <2>3 DEF ca, c, a, l, Backlog
<1>5. Of(Backlog) = {Pushed(s, stored[s]) : s \in {u \in Slugs : stored[u] # None}}
  <2> HIDE DEF Of
  <2>1. \A s \in Slugs :
          Of(FromStore(s)) = IF stored[s] = None THEN {} ELSE {Pushed(s, stored[s])}
    BY <1>2 DEF Of
  <2> QED
    BY <1>4, <2>1 DEF Slugs
<1> QED
  BY <1>1, <1>4, <1>5

\* What is kept of a write-back is newer than what was stored, or writers crossed.
LEMMA KeptAbove ==
  ASSUME BaseInv, AuthInv, NEW t \in tasks, t.stage = "publish",
         ~(t.at < At(stored["auth"])), disturbed' = (disturbed \/ Crossed(t)),
         NEW h, h = [at |-> t.at, value |-> t.content]
  PROVE  /\ h \in HeadsOf("auth") /\ h.at = t.at
         /\ h.at >= At(stored["auth"])
         /\ h.at > At(stored["auth"]) \/ disturbed'
<1>1. /\ t \in Tasks /\ t.at \in Nat /\ At(stored["auth"]) \in Nat
      /\ mark["auth"] \in Nat /\ mark["auth"] <= At(stored["auth"])
  BY HeadFacts DEF BaseInv, ProcessOK, Tasks, MarkOK, Slugs
<1>2. t.at # 0 /\ (~disturbed => mark["auth"] < t.at)
  BY DEF BaseInv, AckOK, AuthInv, TaskOK
<1>3. h \in HeadsOf("auth")
  BY <1>1, <1>2, ContentFacts DEF HeadsOf, Tasks
<1>4. ~disturbed' => ~disturbed /\ At(stored["auth"]) = mark["auth"]
  BY DEF Crossed
<1>5. ~disturbed' => t.at > At(stored["auth"])
  BY <1>1, <1>2, <1>4
<1> QED
  BY <1>1, <1>3, <1>5

-----------------------------------------------------------------------------
\* What reconciliation finds to do.
LEMMA Reconciled ==
  ASSUME BaseInv
  PROVE  Reconciliation(stored["auth"]) \subseteq
           {w \in Tasks : w.stage = "file" \/ (w.stage = "publish" /\ w.at # 0)}
<1> DEFINE head == stored["auth"]
<1>0. /\ file # None => file.content \in Creds /\ file.mtime \in Nat
      /\ head # None => head.at \in Nat /\ head.value \in Creds \cup {Tombstone}
  BY HeadFacts, ContentFacts DEF BaseInv, ProcessOK, Slugs
<1>1. CASE head # None /\ head.value = Tombstone
  BY <1>1 DEF Reconciliation
<1>2. CASE head = None /\ file = None
  BY <1>2 DEF Reconciliation
<1>3. CASE head = None /\ file # None
  BY <1>0, <1>3, WorkFacts, Stamps DEF Reconciliation, BaseInv, Kinds, Stages
<1>4. CASE head # None /\ head.value # Tombstone /\ file = None
  BY <1>0, <1>4, WorkFacts DEF Reconciliation, Kinds, Stages
<1>5. CASE head # None /\ head.value # Tombstone /\ file # None
  BY <1>0, <1>5, WorkFacts, Stamps DEF Reconciliation, BaseInv, Kinds, Stages
<1> QED
  BY <1>1, <1>2, <1>3, <1>4, <1>5

LEMMA Initially == Init => BaseInv
<1> SUFFICES ASSUME Init PROVE BaseInv
  OBVIOUS
<1>1. StoreOK
  BY RemoteAssumption DEF Init, StoreOK
<1>2. InboxOK
  BY DEF Init, InboxOK, Subscribed, Waiting
<1>3. MarkOK /\ AckOK
  BY <1>1, HeadFacts DEF Init, MarkOK, AckOK
<1>4. ProcessOK
  <2>1. \A s \in Slugs : mark[s] = 0
    BY DEF Init
  <2>2. now \in Nat \ {0} /\ phase \in Phases /\ tasks \subseteq Tasks
    BY DEF Init, Phases
  <2> QED
    BY <2>1, <2>2 DEF Init, ProcessOK, Slugs
<1> QED
  BY <1>1, <1>2, <1>3, <1>4 DEF BaseInv

LEMMA BaseStep == BaseInv /\ AuthInv /\ [Next]_vars => BaseInv'
<1> SUFFICES ASSUME BaseInv, AuthInv, [Next]_vars
             PROVE  BaseInv'
  OBVIOUS
<1> USE DEF Phases
<1>1. CASE Tick
  <2>1. UNCHANGED <<relay, disk, phase, mark, tasks, dirty, disturbed>> /\ now' = now + 1
    BY <1>1 DEF Tick
  <2>2. StoreOK' /\ InboxOK' /\ MarkOK' /\ AckOK'
    BY <2>1, RelayFrame, TasksKept DEF relay, Subscribed
  <2>3. ProcessOK'
    BY <2>1 DEF BaseInv, ProcessOK, disk
  <2> QED
    BY <2>2, <2>3 DEF BaseInv
<1>2. CASE OwnerPublishes
  <2>1. PICK slug \in Slugs : \E value \in Values[slug] :
          Stores(slug, [at |-> NextStamp(At(stored[slug])), value |-> value], TRUE)
    BY <1>2 DEF OwnerPublishes
  <2> PICK value \in Values[slug] :
        Stores(slug, [at |-> NextStamp(At(stored[slug])), value |-> value], TRUE)
    BY <2>1
  <2> DEFINE h == [at |-> NextStamp(At(stored[slug])), value |-> value]
  <2>2. /\ h \in HeadsOf(slug) /\ h.at > At(stored[slug])
        /\ h.at >= At(stored[slug]) /\ At(stored[slug]) \in Nat
    BY HeadFacts, Stamps, ContentFacts DEF BaseInv, HeadsOf
  <2> HIDE DEF h
  <2>3. /\ UNCHANGED <<mark, phase, tasks, disturbed>>
        /\ UNCHANGED <<now, disk, dirty>>
    BY <1>2 DEF OwnerPublishes
  <2>4. /\ StoreOK' /\ InboxOK' /\ MarkOK' /\ At(stored[slug])' = h.at
        /\ \A s \in Slugs \ {slug} : stored'[s] = stored[s]
    BY <2>1, <2>2, <2>3, Published DEF h, BaseInv, ProcessOK
  <2>5. ASSUME NEW t \in tasks, t.stage = "ok" PROVE t.at <= At(stored'["auth"])
    <3>1. t.at \in Nat /\ t.at <= At(stored["auth"])
      BY <2>5 DEF BaseInv, AckOK, ProcessOK, Tasks
    <3>2. CASE slug = "auth"
      BY <2>2, <2>4, <3>1, <3>2, HeadFacts DEF At, HeadsOf
    <3>3. CASE slug # "auth"
      BY <2>4, <3>1, <3>3 DEF Slugs
    <3> QED
      BY <3>2, <3>3
  <2>6. AckOK' /\ ProcessOK'
    BY <2>3, <2>5 DEF BaseInv, AckOK, ProcessOK, disk, At
  <2> QED
    BY <2>4, <2>6 DEF BaseInv
<1>3. CASE Refresh
  <2>1. PICK c \in Creds : file # None /\ file' = [content |-> c, mtime |-> now]
    BY <1>3 DEF Refresh
  <2>2. /\ UNCHANGED <<now, relay, meta, phase, mark, tasks, disturbed>>
        /\ dirty' = (dirty \/ phase \in {"recovering", "running"})
    BY <1>3 DEF Refresh
  <2>3. StoreOK' /\ InboxOK' /\ MarkOK' /\ AckOK'
    BY <2>2, RelayFrame, TasksKept DEF relay, Subscribed
  <2>4. file' \in [content : Creds, mtime : Nat] /\ file' # None
    BY <2>1, NothingThere DEF BaseInv, ProcessOK
  <2>5. ProcessOK'
    BY <2>2, <2>4 DEF BaseInv, ProcessOK
  <2> QED
    BY <2>3, <2>5 DEF BaseInv
<1>4. CASE BootConfig
  <2>1. /\ UNCHANGED <<stored, inbox, tasks, dirty, disturbed, now, disk>>
        /\ phase = "down" /\ phase' = "auth" /\ inbox = <<>>
    BY <1>4 DEF BootConfig, relay, BaseInv, InboxOK, Subscribed
  <2>2. StoreOK' /\ InboxOK' /\ AckOK'
    BY <2>1, TasksKept DEF BaseInv, StoreOK, InboxOK, Waiting, Subscribed
  <2>3. PICK usable \in BOOLEAN :
          /\ usable => stored["config"] # None
          /\ mark' = [s \in Slugs |-> IF s = "config" /\ usable THEN stored["config"].at ELSE 0]
    BY <1>4 DEF BootConfig
  <2>4. MarkOK'
    BY <2>1, <2>3, HeadFacts DEF BaseInv, MarkOK, Slugs, At
  <2>5. ProcessOK'
    BY <2>1, <2>3 DEF BaseInv, ProcessOK, disk, Slugs
  <2> QED
    BY <2>2, <2>4, <2>5 DEF BaseInv
<1>5. CASE BootAuth
  <2>1. /\ UNCHANGED <<stored, inbox, dirty, disturbed, now, disk>>
        /\ phase = "auth" /\ phase' = "langfuse" /\ inbox = <<>>
        /\ tasks' = Reconciliation(stored["auth"])
        /\ mark' = [mark EXCEPT !["auth"] = At(stored["auth"])]
    BY <1>5 DEF BootAuth, relay, BaseInv, InboxOK, Subscribed
  <2>2. StoreOK' /\ InboxOK'
    BY <2>1 DEF BaseInv, StoreOK, InboxOK, Waiting, Subscribed
  <2>3. tasks' \subseteq Tasks /\ AckOK'
    BY <2>1, Reconciled DEF AckOK
  <2>4. MarkOK'
    BY <2>1, HeadFacts DEF BaseInv, MarkOK, Slugs, At
  <2>5. ProcessOK'
    BY <2>1, <2>3 DEF BaseInv, ProcessOK, disk
  <2> QED
    BY <2>2, <2>3, <2>4, <2>5 DEF BaseInv
<1>6. CASE BootLangfuse
  <2>1. /\ UNCHANGED <<stored, inbox, tasks, dirty, disturbed, now, disk>>
        /\ phase = "langfuse" /\ phase' = "starting" /\ inbox = <<>> /\ tasks = {}
        /\ mark' = [mark EXCEPT !["langfuse"] = At(stored["langfuse"])]
    BY <1>6 DEF BootLangfuse, relay, BaseInv, InboxOK, Subscribed
  <2>2. StoreOK' /\ InboxOK' /\ AckOK'
    BY <2>1, TasksKept DEF BaseInv, StoreOK, InboxOK, Waiting, Subscribed
  <2>3. MarkOK'
    BY <2>1, HeadFacts DEF BaseInv, MarkOK, Slugs, At
  <2>4. ProcessOK'
    BY <2>1 DEF BaseInv, ProcessOK, disk
  <2> QED
    BY <2>2, <2>3, <2>4 DEF BaseInv
<1>7. CASE StartRemote
  <2>1. /\ UNCHANGED <<stored, mark, tasks, dirty, disturbed, now, disk>>
        /\ phase = "starting" /\ phase' = "recovering" /\ inbox' = Backlog
    BY <1>7 DEF StartRemote
  <2>2. StoreOK' /\ MarkOK' /\ AckOK' /\ ProcessOK'
    BY <2>1, TasksKept DEF BaseInv, StoreOK, MarkOK, ProcessOK, disk, At
  <2>3. InboxOK'
    <3>1. PICK b : b = Backlog
      OBVIOUS
    <3>2. /\ b \in Seq(Entries) /\ inbox' = b
          /\ {b[i] : i \in 1 .. Len(b)} =
               {Pushed(s, stored[s]) : s \in {u \in Slugs : stored[u] # None}}
      BY <2>1, <3>1, BacklogFacts
    <3>3. Waiting' = {Pushed(s, stored[s]) : s \in {u \in Slugs : stored[u] # None}}
      BY <3>2 DEF Waiting
    <3>4. \A e : EntryOK(e) => EntryOK(e)'
      BY <2>1 DEF EntryOK
    <3>5. \A e \in Waiting' : EntryOK(e)'
      BY <3>3, <3>4, BacklogFacts
    <3> QED
      BY <2>1, <3>2, <3>5 DEF InboxOK, Subscribed
  <2> QED
    BY <2>2, <2>3 DEF BaseInv
<1>8. CASE Started
  BY <1>8, RelayFrame, TasksKept DEF Started, BaseInv, ProcessOK, relay, disk, bounds,
     Subscribed, bounds
<1>9. CASE IgnoreRecord
  <2>1. /\ Subscribed /\ inbox # <<>> /\ inbox' = Tail(inbox)
        /\ UNCHANGED <<stored, phase, dirty, now, disk>> /\ (mark' = mark \/ Marks(Head(inbox)))
        /\ UNCHANGED <<tasks, disturbed>>
    BY <1>9 DEF IgnoreRecord, Handles
  <2>2. StoreOK' /\ InboxOK' /\ MarkOK' /\ AckOK'
    BY <2>1, HandlesFacts, TasksKept DEF BaseInv
  <2>3. ProcessOK'
    BY <2>1 DEF BaseInv, ProcessOK, Subscribed, disk
  <2> QED
    BY <2>2, <2>3 DEF BaseInv
<1>10. CASE OnCoreRecord
  <2>1. /\ Subscribed /\ inbox # <<>> /\ inbox' = Tail(inbox)
        /\ UNCHANGED <<stored, phase, dirty, now, disk>> /\ (mark' = mark \/ Marks(Head(inbox)))
        /\ UNCHANGED <<tasks, disturbed>>
    BY <1>10 DEF OnCoreRecord, Handles
  <2>2. StoreOK' /\ InboxOK' /\ MarkOK' /\ AckOK'
    BY <2>1, HandlesFacts, TasksKept DEF BaseInv
  <2>3. ProcessOK'
    BY <2>1 DEF BaseInv, ProcessOK, Subscribed, disk
  <2> QED
    BY <2>2, <2>3 DEF BaseInv
<1>11. CASE OnLangfuseRecord
  <2>1. /\ Subscribed /\ inbox # <<>> /\ inbox' = Tail(inbox)
        /\ UNCHANGED <<stored, phase, dirty, now, disk>> /\ (mark' = mark \/ Marks(Head(inbox)))
        /\ UNCHANGED <<tasks, disturbed>>
    BY <1>11 DEF OnLangfuseRecord, Handles
  <2>2. StoreOK' /\ InboxOK' /\ MarkOK' /\ AckOK'
    BY <2>1, HandlesFacts, TasksKept DEF BaseInv
  <2>3. ProcessOK'
    BY <2>1 DEF BaseInv, ProcessOK, Subscribed, disk
  <2> QED
    BY <2>2, <2>3 DEF BaseInv
<1>12. CASE OnAuthRecord
  <2>1. /\ Subscribed /\ inbox # <<>> /\ inbox' = Tail(inbox)
        /\ UNCHANGED <<stored, phase, dirty, now, disk>> /\ Marks(Head(inbox))
        /\ disturbed' = (disturbed \/ tasks # {})
        /\ Head(inbox).slug = "auth" /\ Head(inbox).value # Tombstone
        /\ tasks' = tasks \cup {Work("apply", "read", Head(inbox).value, Head(inbox).at)}
    BY <1>12 DEF OnAuthRecord, Handles, Begins
  <2>2. StoreOK' /\ InboxOK' /\ MarkOK' /\ Head(inbox) \in Entries /\ EntryOK(Head(inbox))
    BY <2>1, HandlesFacts
  <2>3. /\ Work("apply", "read", Head(inbox).value, Head(inbox).at) \in Tasks
        /\ Work("apply", "read", Head(inbox).value, Head(inbox).at).stage = "read"
    BY <2>1, <2>2, WorkFacts, ContentFacts DEF EntryOK, Entries, Kinds, Stages
  <2>4. ProcessOK'
    BY <2>1, <2>3 DEF BaseInv, ProcessOK, Subscribed, disk
  <2>5. AckOK'
    BY <2>1, <2>3 DEF BaseInv, AckOK, At
  <2> QED
    BY <2>2, <2>4, <2>5 DEF BaseInv
<1>13. CASE OnRevocation
  <2>1. /\ Subscribed /\ inbox # <<>> /\ inbox' = Tail(inbox)
        /\ UNCHANGED <<stored, phase, dirty, now, disk, tasks>> /\ Marks(Head(inbox))
        /\ disturbed' = (disturbed \/ tasks # {})
    BY <1>13 DEF OnRevocation, Handles
  <2>2. StoreOK' /\ InboxOK' /\ MarkOK' /\ AckOK'
    BY <2>1, HandlesFacts, TasksKept
  <2>3. ProcessOK'
    BY <2>1 DEF BaseInv, ProcessOK, Subscribed, disk
  <2> QED
    BY <2>2, <2>3 DEF BaseInv
<1>14. CASE ReadLocal
  <2>1. PICK t \in tasks : Moves(t, "echo") \/ Moves(t, "file")
    BY <1>14 DEF ReadLocal
  <2>2. UNCHANGED <<stored, inbox, mark, phase, disturbed, now>>
    BY <1>14 DEF ReadLocal, relay
  <2>3. PICK m \in Tasks : m.stage \notin {"ok", "publish"} /\ tasks' = (tasks \ {t}) \cup {m}
    BY <2>1, MoveFacts DEF BaseInv, ProcessOK, Stages
  <2>4. StoreOK' /\ InboxOK' /\ MarkOK'
    BY <2>2, RelayFrame DEF relay, Subscribed
  <2>5. AckOK'
    BY <2>2, <2>3 DEF BaseInv, AckOK, At
  <2>6. ProcessOK'
    <3>1. /\ file' \in [content : Creds, mtime : Nat] \cup {None}
          /\ meta' \in [digest : Creds, at : Nat] \cup {None}
          /\ dirty' \in BOOLEAN /\ (dirty' => file' # None)
          /\ (dirty' => dirty \/ phase \in {"recovering", "running"})
      BY <1>14, NothingThere DEF ReadLocal, BaseInv, ProcessOK, disk, Tasks
    <3>2. tasks' \subseteq Tasks /\ (phase' \in {"down", "auth", "starting"} => tasks' = {})
      BY <2>2, <2>3 DEF BaseInv, ProcessOK
    <3> QED
      BY <2>2, <3>1, <3>2 DEF BaseInv, ProcessOK
  <2> QED
    BY <2>4, <2>5, <2>6 DEF BaseInv
<1>15. CASE MaterializeFile
  <2>1. PICK t \in tasks : Moves(t, "meta")
    BY <1>15 DEF MaterializeFile
  <2>2. UNCHANGED <<stored, inbox, mark, phase, disturbed, now>>
    BY <1>15 DEF MaterializeFile, relay
  <2>3. PICK m \in Tasks : m.stage \notin {"ok", "publish"} /\ tasks' = (tasks \ {t}) \cup {m}
    BY <2>1, MoveFacts DEF BaseInv, ProcessOK, Stages
  <2>4. StoreOK' /\ InboxOK' /\ MarkOK'
    BY <2>2, RelayFrame DEF relay, Subscribed
  <2>5. AckOK'
    BY <2>2, <2>3 DEF BaseInv, AckOK, At
  <2>6. ProcessOK'
    <3>1. /\ file' \in [content : Creds, mtime : Nat] \cup {None}
          /\ meta' \in [digest : Creds, at : Nat] \cup {None}
          /\ dirty' \in BOOLEAN /\ (dirty' => file' # None)
          /\ (dirty' => dirty \/ phase \in {"recovering", "running"})
      BY <1>15, NothingThere DEF MaterializeFile, BaseInv, ProcessOK, disk, Tasks
    <3>2. tasks' \subseteq Tasks /\ (phase' \in {"down", "auth", "starting"} => tasks' = {})
      BY <2>2, <2>3 DEF BaseInv, ProcessOK
    <3> QED
      BY <2>2, <3>1, <3>2 DEF BaseInv, ProcessOK
  <2> QED
    BY <2>4, <2>5, <2>6 DEF BaseInv
<1>16. CASE MaterializeMeta
  <2>1. PICK t \in tasks : Ends(t) /\ Synced(t)
    BY <1>16 DEF MaterializeMeta
  <2>2. UNCHANGED <<stored, inbox, mark, phase, disturbed, now, file, dirty>>
    BY <1>16 DEF MaterializeMeta, relay
  <2>3. StoreOK' /\ InboxOK' /\ MarkOK'
    BY <2>2, RelayFrame DEF relay, Subscribed
  <2>4. AckOK' /\ ProcessOK'
    BY <2>1, <2>2 DEF BaseInv, AckOK, ProcessOK, At, Ends, Synced, Tasks
  <2> QED
    BY <2>3, <2>4 DEF BaseInv
<1>17. CASE RecordSynced
  <2>1. PICK t \in tasks : Ends(t) /\ Synced(t)
    BY <1>17 DEF RecordSynced
  <2>2. UNCHANGED <<stored, inbox, mark, phase, disturbed, now, file, dirty>>
    BY <1>17 DEF RecordSynced, relay
  <2>3. StoreOK' /\ InboxOK' /\ MarkOK'
    BY <2>2, RelayFrame DEF relay, Subscribed
  <2>4. AckOK' /\ ProcessOK'
    BY <2>1, <2>2 DEF BaseInv, AckOK, ProcessOK, At, Ends, Synced, Tasks
  <2> QED
    BY <2>3, <2>4 DEF BaseInv
<1>18. CASE WatcherFires
  <2>1. /\ UNCHANGED <<stored, inbox, mark, phase, now, disk>> /\ dirty /\ dirty' = FALSE
        /\ phase \in {"recovering", "running"} /\ disturbed' = (disturbed \/ tasks # {})
        /\ tasks' = tasks \cup {Work("back", "look", file.content, 0)}
    BY <1>18 DEF WatcherFires, relay, Begins
  <2>2. /\ Work("back", "look", file.content, 0) \in Tasks
        /\ Work("back", "look", file.content, 0).stage = "look"
    BY <2>1, WorkFacts DEF BaseInv, ProcessOK, Kinds, Stages
  <2>3. StoreOK' /\ InboxOK' /\ MarkOK'
    BY <2>1, RelayFrame DEF relay, Subscribed
  <2>4. AckOK' /\ ProcessOK'
    BY <2>1, <2>2 DEF BaseInv, AckOK, ProcessOK, At, disk
  <2> QED
    BY <2>3, <2>4 DEF BaseInv
<1>19. CASE WatcherLooks
  <2>1. PICK t \in tasks :
          \/ Ends(t)
          \/ tasks' = (tasks \ {t}) \cup
               {Work("back", "publish", t.content, NextStamp(mark["auth"]))}
    BY <1>19 DEF WatcherLooks
  <2>2. UNCHANGED <<stored, inbox, mark, phase, disturbed, now, disk, dirty>>
    BY <1>19 DEF WatcherLooks, relay
  <2> DEFINE w == Work("back", "publish", t.content, NextStamp(mark["auth"]))
  <2>3. w \in Tasks /\ w.stage = "publish" /\ w.at # 0
    BY WorkFacts, Stamps DEF BaseInv, ProcessOK, MarkOK, Slugs, Tasks, Kinds, Stages
  <2> HIDE DEF w
  <2>4. StoreOK' /\ InboxOK' /\ MarkOK'
    BY <2>2, RelayFrame DEF relay, Subscribed
  <2>5. tasks' \subseteq tasks \cup {w} /\ (tasks = {} => tasks' = {})
    BY <2>1 DEF w, Ends
  <2>6. AckOK' /\ ProcessOK'
    BY <2>2, <2>3, <2>5 DEF BaseInv, AckOK, ProcessOK, At, disk
  <2> QED
    BY <2>4, <2>6 DEF BaseInv
<1>20. CASE PublishAccepted
  <2>1. PICK t \in tasks, keep \in BOOLEAN :
          /\ t.stage = "publish" /\ Moves(t, "ok")
          /\ t.at > At(stored["auth"]) => keep
          /\ t.at < At(stored["auth"]) => ~keep
          /\ Stores("auth", [at |-> t.at, value |-> t.content], keep)
          /\ disturbed' = (disturbed \/ Crossed(t))
    BY <1>20 DEF PublishAccepted
  <2>2. UNCHANGED <<mark, phase, now, disk, dirty>>
    BY <1>20 DEF PublishAccepted
  <2>3. PICK m \in Tasks : m.at = t.at /\ m.stage = "ok" /\ tasks' = (tasks \ {t}) \cup {m}
    BY <2>1, MoveFacts DEF BaseInv, ProcessOK, Stages
  <2>4. /\ t \in Tasks /\ t.at \in Nat /\ At(stored["auth"]) \in Nat
        /\ mark["auth"] \in Nat /\ mark["auth"] <= At(stored["auth"])
    BY HeadFacts DEF BaseInv, ProcessOK, Tasks, MarkOK, Slugs
  <2>5. ProcessOK'
    BY <2>1, <2>2, <2>3 DEF BaseInv, ProcessOK, disk
  <2>6. CASE ~keep
    <3>1. UNCHANGED relay /\ t.at <= At(stored["auth"])
      BY <2>1, <2>4, <2>6 DEF Stores
    <3>2. StoreOK' /\ InboxOK' /\ MarkOK'
      BY <2>1, <2>2, <3>1, RelayFrame DEF Subscribed
    <3>3. AckOK'
      BY <2>3, <3>1 DEF BaseInv, AckOK, relay, At
    <3> QED
      BY <2>5, <3>2, <3>3 DEF BaseInv
  <2>7. CASE keep
    <3>1. PICK h : h = [at |-> t.at, value |-> t.content]
      OBVIOUS
    <3>2. /\ h \in HeadsOf("auth") /\ h.at = t.at /\ h.at >= At(stored["auth"])
          /\ h.at > At(stored["auth"]) \/ disturbed'
      BY <2>1, <2>7, <3>1, KeptAbove
    <3>3. StoreOK' /\ InboxOK' /\ MarkOK' /\ At(stored["auth"])' = h.at
      <4>1. Stores("auth", h, TRUE) /\ "auth" \in Slugs /\ disturbed' \in BOOLEAN
        BY <2>1, <2>5, <2>7, <3>1 DEF ProcessOK, Slugs
      <4>2. /\ h.at >= At(stored["auth"])
            /\ h.at > At(stored["auth"]) \/ disturbed'
            /\ disturbed => disturbed'
        BY <2>1, <3>2
      <4> QED
        BY <2>2, <3>2, <4>1, <4>2, Published
    <3>4. AckOK'
      <4>1. \A u \in tasks : u.stage = "ok" => u.at \in Nat /\ u.at <= t.at
        BY <2>4, <3>2 DEF BaseInv, AckOK, ProcessOK, Tasks
      <4> QED
        BY <2>3, <2>4, <3>2, <3>3, <4>1 DEF BaseInv, AckOK, At
    <3> QED
      BY <2>5, <3>3, <3>4 DEF BaseInv
  <2> QED
    BY <2>6, <2>7
<1>21. CASE PublishRefused
  <2>1. /\ UNCHANGED <<stored, inbox, mark, phase, now, disk, dirty>> /\ tasks' \subseteq tasks
        /\ disturbed' = TRUE
    BY <1>21 DEF PublishRefused, relay, Ends
  <2>2. StoreOK' /\ InboxOK' /\ MarkOK'
    BY <2>1, RelayFrame DEF relay, Subscribed
  <2>3. AckOK' /\ ProcessOK'
    BY <2>1 DEF BaseInv, AckOK, ProcessOK, At, disk
  <2> QED
    BY <2>2, <2>3 DEF BaseInv
<1>22. CASE WriteBackAcked
  <2>1. PICK t \in tasks : t.stage = "ok" /\ Moves(t, "sync")
                           /\ mark' = [mark EXCEPT !["auth"] = t.at]
    BY <1>22 DEF WriteBackAcked
  <2>2. UNCHANGED <<stored, inbox, phase, disturbed, now, disk, dirty>>
    BY <1>22 DEF WriteBackAcked, relay
  <2>3. PICK m \in Tasks : m.stage = "sync" /\ tasks' = (tasks \ {t}) \cup {m}
    BY <2>1, MoveFacts DEF BaseInv, ProcessOK, Stages
  <2>4. t.at \in Nat /\ t.at <= At(stored["auth"])
    BY <2>1 DEF BaseInv, AckOK, ProcessOK, Tasks
  <2>5. MarkOK' /\ AckOK'
    BY <2>1, <2>2, <2>3, <2>4 DEF BaseInv, MarkOK, AckOK, At
  <2>6. StoreOK' /\ InboxOK'
    BY <2>2 DEF BaseInv, StoreOK, InboxOK, Waiting, EntryOK, Subscribed
  <2>7. ProcessOK'
    BY <2>2, <2>3 DEF BaseInv, ProcessOK, disk
  <2> QED
    BY <2>5, <2>6, <2>7 DEF BaseInv
<1>23. CASE WriteBackSynced
  <2>1. PICK t \in tasks : Ends(t) /\ Synced(t)
    BY <1>23 DEF WriteBackSynced
  <2>2. UNCHANGED <<stored, inbox, mark, phase, disturbed, now, file, dirty>>
    BY <1>23 DEF WriteBackSynced, relay
  <2>3. StoreOK' /\ InboxOK' /\ MarkOK'
    BY <2>2, RelayFrame DEF relay, Subscribed
  <2>4. AckOK' /\ ProcessOK'
    BY <2>1, <2>2 DEF BaseInv, AckOK, ProcessOK, At, Ends, Synced, Tasks
  <2> QED
    BY <2>3, <2>4 DEF BaseInv
<1>24. ASSUME NEW k \in Keys, TurnStarts(k) \/ TurnStep(k) PROVE BaseInv'
  <2>1. UNCHANGED <<now, relay, disk, phase, mark, tasks, dirty, disturbed>>
    BY <1>24 DEF TurnStarts, TurnStep, Outside
  <2>2. StoreOK' /\ InboxOK' /\ MarkOK' /\ AckOK'
    BY <2>1, RelayFrame, TasksKept DEF relay, Subscribed
  <2>3. ProcessOK'
    BY <2>1 DEF BaseInv, ProcessOK, disk
  <2> QED
    BY <2>2, <2>3 DEF BaseInv
<1>25. CASE Stop
  <2>1. /\ UNCHANGED <<now, relay, disk, mark, tasks, disturbed>> /\ dirty' = FALSE
        /\ phase \in {"recovering", "running"} /\ phase' = "draining"
    BY <1>25 DEF Stop
  <2>2. StoreOK' /\ InboxOK' /\ MarkOK' /\ AckOK'
    BY <2>1, RelayFrame, TasksKept DEF relay, Subscribed
  <2>3. ProcessOK'
    BY <2>1 DEF BaseInv, ProcessOK, disk
  <2> QED
    BY <2>2, <2>3 DEF BaseInv
<1>26. CASE Farewell
  <2>1. /\ UNCHANGED <<stored, now, disk, disturbed>> /\ inbox' = <<>> /\ tasks' = {}
        /\ mark' = [s \in Slugs |-> 0] /\ dirty' = FALSE /\ phase' \in {"stopped", "down"}
    BY <1>26 DEF Farewell, Forgets
  <2>2. StoreOK' /\ InboxOK'
    BY <2>1 DEF BaseInv, StoreOK, InboxOK, Waiting, Subscribed
  <2>3. MarkOK' /\ AckOK'
    BY <2>1, HeadFacts DEF BaseInv, MarkOK, AckOK, At
  <2>4. ProcessOK'
    BY <2>1 DEF BaseInv, ProcessOK, disk, Slugs
  <2> QED
    BY <2>2, <2>3, <2>4 DEF BaseInv
<1>27. CASE Restart
  <2>1. /\ UNCHANGED <<stored, now, disk, disturbed>> /\ inbox' = <<>> /\ tasks' = {}
        /\ mark' = [s \in Slugs |-> 0] /\ dirty' = FALSE /\ phase' \in {"stopped", "down"}
    BY <1>27 DEF Restart, Forgets
  <2>2. StoreOK' /\ InboxOK'
    BY <2>1 DEF BaseInv, StoreOK, InboxOK, Waiting, Subscribed
  <2>3. MarkOK' /\ AckOK'
    BY <2>1, HeadFacts DEF BaseInv, MarkOK, AckOK, At
  <2>4. ProcessOK'
    BY <2>1 DEF BaseInv, ProcessOK, disk, Slugs
  <2> QED
    BY <2>2, <2>3, <2>4 DEF BaseInv
<1>28. CASE UNCHANGED vars
  <2>1. UNCHANGED <<now, relay, disk, phase, mark, tasks, dirty, disturbed>>
    BY <1>28 DEF vars
  <2>2. StoreOK' /\ InboxOK' /\ MarkOK' /\ AckOK'
    BY <2>1, RelayFrame, TasksKept DEF relay, Subscribed
  <2>3. ProcessOK'
    BY <2>1 DEF BaseInv, ProcessOK, disk
  <2> QED
    BY <2>2, <2>3 DEF BaseInv
<1> QED
  BY <1>1, <1>2, <1>3, <1>4, <1>5, <1>6, <1>7, <1>8, <1>9, <1>10, <1>11,
     <1>12, <1>13, <1>14, <1>15, <1>16, <1>17, <1>18, <1>19, <1>20, <1>21,
     <1>22, <1>23, <1>24, <1>25, <1>26, <1>27, <1>28 DEF Next

-----------------------------------------------------------------------------
\* The configuration, the keys and the sessions
\*
\* Nothing about the configuration changes.
LEMMA ConfigFrame ==
  ASSUME BaseInv, ConfigInv, UNCHANGED <<relay, config>>,
         mark'["config"] = mark["config"], Subscribed' => Subscribed,
         "config" \in missing' => "config" \in missing
  PROVE  ConfigInv'
<1>1. Waiting' = Waiting
  BY DEF Waiting, relay
<1>2. Sent("config")' = Sent("config")
  BY <1>1 DEF Sent, relay
<1> QED
  BY <1>2 DEF ConfigInv, relay

\* A record is stored whose slug is another's, or that is the newest document.
LEMMA ConfigPublished ==
  ASSUME BaseInv, ConfigInv, NEW slug \in Slugs, NEW h \in HeadsOf(slug),
         Stores(slug, h, TRUE), UNCHANGED <<mark, phase, config, missing>>,
         disturbed => disturbed', disturbed' \in BOOLEAN,
         h.at >= At(stored[slug]),
         h.at > At(stored[slug]) \/ (slug = "auth" /\ disturbed')
  PROVE  ConfigInv'
<1>1. /\ stored'[slug] = h /\ Subscribed' = Subscribed
      /\ \A s \in Slugs \ {slug} : stored'[s] = stored[s]
      /\ Subscribed => Sent(slug)'
      /\ \A s \in Slugs \ {slug} : Sent(s) => Sent(s)'
  BY Published DEF Subscribed
<1>2. CASE slug # "config"
  <2>1. stored'["config"] = stored["config"] /\ (Sent("config") => Sent("config")')
    BY <1>1, <1>2 DEF Slugs
  <2> QED
    BY <1>1, <2>1 DEF ConfigInv
<1>3. CASE slug = "config"
  <2>1. mark["config"] # h.at
    <3>1. /\ mark["config"] \in Nat /\ mark["config"] <= At(stored["config"])
          /\ At(stored["config"]) \in Nat /\ h.at \in Nat
      BY HeadFacts DEF BaseInv, MarkOK, Slugs, HeadsOf
    <3>2. h.at > At(stored["config"])
      BY <1>3
    <3> QED
      BY <3>1, <3>2
  <2> QED
    BY <1>1, <1>3, <2>1 DEF ConfigInv
<1> QED
  BY <1>2, <1>3

\* Another slug's record is handled, or the document's changes nothing.
LEMMA ConfigHandled ==
  ASSUME BaseInv, ConfigInv, Subscribed, inbox # <<>>, inbox' = Tail(inbox),
         UNCHANGED <<stored, phase, config>>, disturbed => disturbed',
         mark' = mark \/ Marks(Head(inbox)),
         "config" \in missing' => "config" \in missing,
         mark'["config"] = mark["config"],
         Head(inbox).slug = "config" =>
           ~Newer(Head(inbox)) \/ ~Parses(Head(inbox).value)
  PROVE  ConfigInv'
<1>1. /\ UNCHANGED Subscribed /\ Head(inbox) \in Entries /\ EntryOK(Head(inbox))
      /\ Sent("config") => Sent("config")' \/ Head(inbox) = Pushed("config", stored["config"])
  BY HandlesFacts DEF Slugs
<1>2. ASSUME stored["config"] # None, Usable(stored["config"].value),
             mark["config"] # stored["config"].at
      PROVE  Head(inbox) # Pushed("config", stored["config"])
  <2> SUFFICES ASSUME Head(inbox) = Pushed("config", stored["config"])
               PROVE  FALSE
    OBVIOUS
  <2>1. /\ Head(inbox).slug = "config" /\ Head(inbox).at = stored["config"].at
        /\ Head(inbox).value = stored["config"].value
    BY DEF Pushed
  <2>2. Parses(Head(inbox).value)
    BY <1>2, <2>1 DEF Usable
  <2>3. /\ mark["config"] \in Nat /\ mark["config"] <= stored["config"].at
        /\ stored["config"].at \in Nat
    BY <1>2, HeadFacts DEF BaseInv, MarkOK, Slugs
  <2>4. Newer(Head(inbox))
    BY <1>2, <2>1, <2>3 DEF Newer
  <2> QED
    BY <2>1, <2>2, <2>4
<1> QED
  BY <1>1, <1>2 DEF ConfigInv

LEMMA ConfigStep == BaseInv /\ AuthInv /\ ConfigInv /\ [Next]_vars => ConfigInv'
<1> SUFFICES ASSUME BaseInv, AuthInv, ConfigInv, [Next]_vars
             PROVE  ConfigInv'
  OBVIOUS
<1>0. mark \in [Slugs -> Nat]
  BY DEF BaseInv, MarkOK
<1>1. CASE OwnerPublishes
  <2>1. PICK slug \in Slugs : \E value \in Values[slug] :
          Stores(slug, [at |-> NextStamp(At(stored[slug])), value |-> value], TRUE)
    BY <1>1 DEF OwnerPublishes
  <2> PICK value \in Values[slug] :
        Stores(slug, [at |-> NextStamp(At(stored[slug])), value |-> value], TRUE)
    BY <2>1
  <2> DEFINE h == [at |-> NextStamp(At(stored[slug])), value |-> value]
  <2>2. /\ h \in HeadsOf(slug) /\ h.at > At(stored[slug])
        /\ h.at >= At(stored[slug])
    BY HeadFacts, Stamps, ContentFacts DEF BaseInv, HeadsOf
  <2>3. Stores(slug, h, TRUE)
    OBVIOUS
  <2> HIDE DEF h
  <2>4. UNCHANGED <<mark, phase, config, missing, disturbed>> /\ disturbed \in BOOLEAN
    BY <1>1 DEF OwnerPublishes, applied, BaseInv, ProcessOK
  <2> QED
    BY <2>2, <2>3, <2>4, ConfigPublished
<1>2. CASE BootConfig
  <2>1. /\ stored' = stored /\ ~Subscribed'
        /\ LET head == stored["config"]
               usable == head # None /\ Usable(head.value)
           IN  /\ config' = IF usable THEN ApplyCoreConfig(head.value) ELSE Base
               /\ mark'["config"] = IF usable THEN head.at ELSE 0
               /\ missing' = IF usable THEN {} ELSE {"config"}
    BY <1>2 DEF BootConfig, relay, Subscribed, Slugs
  <2>2. stored["config"] # None => stored["config"].at # 0
    BY HeadFacts DEF BaseInv, Slugs
  <2> QED
    BY <2>1, <2>2 DEF ConfigInv
<1>3. CASE BootAuth
  <2>1. /\ UNCHANGED <<relay, config>> /\ mark'["config"] = mark["config"]
        /\ (Subscribed' => Subscribed) /\ ("config" \in missing' => "config" \in missing)
    BY <1>0, <1>3 DEF BootAuth, applied, Subscribed, Slugs
  <2> QED
    BY <2>1, ConfigFrame
<1>4. CASE BootLangfuse
  <2>1. /\ UNCHANGED <<relay, config, missing>> /\ mark'["config"] = mark["config"]
        /\ (Subscribed' => Subscribed)
    BY <1>0, <1>4 DEF BootLangfuse, Subscribed, Slugs
  <2> QED
    BY <2>1, ConfigFrame
<1>5. CASE StartRemote
  <2>1. UNCHANGED <<stored, mark, config, missing>> /\ inbox' = Backlog
    BY <1>5 DEF StartRemote, applied
  <2>2. ASSUME stored["config"] # None PROVE Sent("config")'
    <3>1. PICK b : b = Backlog
      OBVIOUS
    <3>2. {b[i] : i \in 1 .. Len(b)} =
            {Pushed(s, stored[s]) : s \in {u \in Slugs : stored[u] # None}}
      BY <3>1, BacklogFacts
    <3>3. Pushed("config", stored["config"]) \in Waiting'
      BY <2>1, <2>2, <3>1, <3>2 DEF Waiting, Slugs
    <3> QED
      BY <2>1, <3>3 DEF Sent
  <2> QED
    BY <2>1, <2>2 DEF ConfigInv
<1>6. CASE IgnoreRecord
  <2>1. /\ Subscribed /\ inbox # <<>> /\ inbox' = Tail(inbox)
        /\ UNCHANGED <<stored, phase, config, disturbed, missing, mark>>
        /\ Head(inbox).slug = "config" =>
             ~Newer(Head(inbox)) \/ ~Parses(Head(inbox).value)
    BY <1>6 DEF IgnoreRecord, applied
  <2> QED
    BY <2>1, ConfigHandled
<1>7. CASE OnCoreRecord
  <2>1. /\ Subscribed /\ inbox # <<>> /\ inbox' = Tail(inbox)
        /\ UNCHANGED <<stored, phase, disturbed>>
        /\ Head(inbox).slug = "config" /\ Newer(Head(inbox)) /\ Marks(Head(inbox))
        /\ config' = ApplyCoreConfig(Head(inbox).value) /\ missing' = missing \ {"config"}
    BY <1>7 DEF OnCoreRecord, Handles, Found
  <2>2. /\ UNCHANGED Subscribed /\ Head(inbox) \in Entries /\ EntryOK(Head(inbox))
        /\ Sent("config") => Sent("config")' \/ Head(inbox) = Pushed("config", stored["config"])
        /\ mark'["config"] = Head(inbox).at
    BY <2>1, HandlesFacts DEF Slugs
  <2> DEFINE head == Head(inbox)
  <2>3. /\ head.at <= stored["config"].at
        /\ head.at = stored["config"].at => head.value = stored["config"].value
        /\ mark["config"] < head.at /\ mark["config"] \in Nat /\ head.at \in Nat
        /\ stored["config"] # None
    BY <1>0, <2>1, <2>2 DEF EntryOK, Newer, Slugs, Entries
  <2>4. CASE head.at = stored["config"].at
    BY <2>1, <2>2, <2>3, <2>4 DEF ConfigInv
  <2>5. CASE head.at # stored["config"].at
    <3>1. stored["config"].at \in Nat
      BY <2>3, HeadFacts DEF BaseInv, Slugs
    <3>2. mark["config"] # stored["config"].at
      BY <2>3, <3>1
    <3>3. head # Pushed("config", stored["config"])
      BY <2>5 DEF Pushed
    <3> QED
      BY <2>1, <2>2, <2>5, <3>2, <3>3 DEF ConfigInv
  <2> QED
    BY <2>4, <2>5
<1>8. CASE OnLangfuseRecord \/ OnAuthRecord \/ OnRevocation
  <2>1. /\ Subscribed /\ inbox # <<>> /\ inbox' = Tail(inbox)
        /\ UNCHANGED <<stored, phase, config>>
        /\ disturbed => disturbed'
        /\ Marks(Head(inbox)) /\ Head(inbox).slug # "config"
        /\ "config" \in missing' => "config" \in missing
    <3>1. CASE OnLangfuseRecord
      BY <3>1 DEF OnLangfuseRecord, Handles
    <3>2. CASE OnAuthRecord
      BY <3>2 DEF OnAuthRecord, Handles, Begins, applied
    <3>3. CASE OnRevocation
      BY <3>3 DEF OnRevocation, Handles, applied
    <3> QED
      BY <1>8, <3>1, <3>2, <3>3
  <2>2. mark'["config"] = mark["config"]
    BY <2>1, HandlesFacts DEF Slugs
  <2> QED
    BY <2>1, <2>2, ConfigHandled
<1>9. CASE PublishAccepted
  <2>1. PICK t \in tasks, keep \in BOOLEAN :
          /\ t.stage = "publish"
          /\ t.at > At(stored["auth"]) => keep
          /\ t.at < At(stored["auth"]) => ~keep
          /\ Stores("auth", [at |-> t.at, value |-> t.content], keep)
          /\ disturbed' = (disturbed \/ Crossed(t))
    BY <1>9 DEF PublishAccepted
  <2>2. UNCHANGED <<mark, phase, config, missing>>
    BY <1>9 DEF PublishAccepted, applied
  <2>3. CASE ~keep
    BY <2>1, <2>2, <2>3, ConfigFrame DEF Stores, Subscribed
  <2>4. CASE keep
    <3>1. PICK h : h = [at |-> t.at, value |-> t.content]
      OBVIOUS
    <3>2. /\ h \in HeadsOf("auth") /\ h.at >= At(stored["auth"])
          /\ h.at > At(stored["auth"]) \/ disturbed'
      BY <2>1, <2>4, <3>1, KeptAbove
    <3>3. disturbed' \in BOOLEAN /\ (disturbed => disturbed')
      BY <2>1 DEF BaseInv, ProcessOK
    <3>4. Stores("auth", h, TRUE) /\ "auth" \in Slugs
      BY <2>1, <2>4, <3>1 DEF Slugs
    <3> QED
      BY <2>2, <3>2, <3>3, <3>4, ConfigPublished
  <2> QED
    BY <2>3, <2>4
<1>10. CASE WriteBackAcked
  <2>1. /\ UNCHANGED <<relay, config, missing, phase>> /\ mark'["config"] = mark["config"]
    BY <1>0, <1>10 DEF WriteBackAcked, applied, Slugs
  <2> QED
    BY <2>1, ConfigFrame DEF Subscribed
<1>11. CASE \/ Tick \/ Refresh \/ Started \/ ReadLocal \/ MaterializeFile
            \/ RecordSynced \/ WatcherFires \/ WatcherLooks \/ PublishRefused
            \/ WriteBackSynced \/ Stop
            \/ (\E k \in Keys : TurnStarts(k) \/ TurnStep(k)) \/ UNCHANGED vars
  <2>1. UNCHANGED <<relay, config, mark, missing>> /\ (Subscribed' => Subscribed)
    BY <1>11 DEF Tick, Refresh, Started, ReadLocal, MaterializeFile,
       RecordSynced, WatcherFires, WatcherLooks, PublishRefused, WriteBackSynced, Stop,
       TurnStarts, TurnStep, Outside, vars, applied, Subscribed
  <2> QED
    BY <2>1, ConfigFrame
<1>12. CASE MaterializeMeta
  <2>1. UNCHANGED <<relay, config, mark, phase>> /\ missing' \subseteq missing
    BY <1>12 DEF MaterializeMeta, Found, applied
  <2> QED
    BY <2>1, ConfigFrame DEF Subscribed
<1>13. CASE Farewell \/ Restart
  <2>1. stored' = stored /\ mark'["config"] = 0 /\ ~Subscribed'
    BY <1>13 DEF Farewell, Restart, Forgets, Subscribed, Slugs
  <2>2. stored["config"] # None => stored["config"].at # 0
    BY HeadFacts DEF BaseInv, Slugs
  <2> QED
    BY <2>1, <2>2 DEF ConfigInv
<1> QED
  BY <1>1, <1>2, <1>3, <1>4, <1>5, <1>6, <1>7, <1>8, <1>9, <1>10, <1>11, <1>12, <1>13
     DEF Next

\* The sessions: one that is kept was opened under the settings of now, or was
\* busy when they were pushed; there is none before the agent runs.
SessionInv ==
  /\ session = [k \in Keys |-> session[k]] /\ turn = [k \in Keys |-> turn[k]]
  /\ \A k \in Keys :
       /\ turn[k] = [stage |-> turn[k].stage, settings |-> turn[k].settings]
       /\ turn[k].stage = "opening" => turn[k].settings = Settings \/ k \in busyAtPush
       /\ session[k] \notin {NoSession, Settings} => k \in busyAtPush
       /\ phase \notin {"running", "draining"} =>
            session[k] = NoSession /\ turn[k].stage = "none"

LEMMA SessionStep == SessionInv /\ [Next]_vars => SessionInv'
<1> SUFFICES ASSUME SessionInv, [Next]_vars
             PROVE  SessionInv'
  OBVIOUS
<1>1. ASSUME UNCHANGED sessionVars, UNCHANGED applied,
             phase' \notin {"running", "draining"} =>
               \A k \in Keys : session[k] = NoSession /\ turn[k].stage = "none"
      PROVE  SessionInv'
  <2>1. Settings' = Settings
    BY <1>1 DEF Settings, applied
  <2> QED
    BY <1>1, <2>1 DEF SessionInv, sessionVars
<1>2. CASE \/ Tick \/ OwnerPublishes \/ Refresh \/ IgnoreRecord \/ OnAuthRecord
           \/ OnRevocation \/ ReadLocal \/ MaterializeFile \/ MaterializeMeta
           \/ RecordSynced \/ WatcherFires \/ WatcherLooks \/ PublishAccepted
           \/ PublishRefused \/ WriteBackAcked \/ WriteBackSynced
           \/ UNCHANGED vars
  <2>1. UNCHANGED <<sessionVars, applied, phase>>
    BY <1>2 DEF Tick, OwnerPublishes, Refresh, IgnoreRecord, OnAuthRecord, OnRevocation,
       ReadLocal, MaterializeFile, MaterializeMeta, RecordSynced, WatcherFires,
       WatcherLooks, PublishAccepted, PublishRefused, WriteBackAcked, WriteBackSynced, vars
  <2> QED
    BY <1>1, <2>1 DEF SessionInv
<1>3. CASE BootAuth \/ StartRemote \/ Started \/ Stop
  <2>1. /\ UNCHANGED <<sessionVars, applied>>
        /\ phase' \notin {"running", "draining"} => phase \notin {"running", "draining"}
    BY <1>3 DEF BootAuth, StartRemote, Started, Stop
  <2> QED
    BY <1>1, <2>1 DEF SessionInv
<1>4. CASE BootConfig \/ BootLangfuse
  <2>1. UNCHANGED sessionVars /\ phase \notin {"running", "draining"}
    BY <1>4 DEF BootConfig, BootLangfuse
  <2> QED
    BY <2>1 DEF SessionInv, sessionVars
<1>5. CASE OnCoreRecord \/ OnLangfuseRecord
  <2>1. ApplyConfig /\ phase' = phase
    BY <1>5 DEF OnCoreRecord, OnLangfuseRecord
  <2>2. turn' = turn /\ session' = [k \in Keys |-> session'[k]]
    BY <2>1 DEF ApplyConfig
  <2>3. ASSUME NEW k \in Keys
        PROVE  /\ turn[k].stage = "opening" => k \in busyAtPush'
               /\ session'[k] # NoSession => k \in busyAtPush' /\ session'[k] = session[k]
    BY <2>1 DEF ApplyConfig
  <2> QED
    BY <2>1, <2>2, <2>3 DEF SessionInv
<1>6. ASSUME NEW k \in Keys, TurnStarts(k)
      PROVE  SessionInv'
  <2>1. /\ phase = "running" /\ phase' = phase /\ Settings' = Settings
        /\ Acquire(k) \/ Open(k, Settings)
    BY <1>6 DEF TurnStarts, Outside, Settings, applied
  <2>2. CASE Acquire(k)
    BY <2>1, <2>2 DEF SessionInv, Acquire, Starts
  <2>3. CASE Open(k, Settings)
    <3>1. /\ turn' = [turn EXCEPT ![k] = [stage |-> "opening", settings |-> Settings]]
          /\ session' = session /\ session[k] = NoSession /\ busyAtPush' = busyAtPush \ {k}
      BY <2>3 DEF Open, Starts
    <3>2. /\ turn'[k] = [stage |-> "opening", settings |-> Settings]
          /\ \A j \in Keys \ {k} : turn'[j] = turn[j]
          /\ turn' = [j \in Keys |-> turn'[j]]
      BY <3>1 DEF SessionInv
    <3>3. ASSUME NEW j \in Keys \ {k}
          PROVE  /\ turn'[j] = [stage |-> turn'[j].stage, settings |-> turn'[j].settings]
                 /\ turn'[j].stage = "opening" =>
                      turn'[j].settings = Settings \/ j \in busyAtPush'
                 /\ session'[j] \notin {NoSession, Settings} => j \in busyAtPush'
      BY <3>1, <3>2 DEF SessionInv
    <3> QED
      BY <2>1, <3>1, <3>2, <3>3 DEF SessionInv
  <2> QED
    BY <2>1, <2>2, <2>3
<1>7. ASSUME NEW k \in Keys, TurnStep(k)
      PROVE  SessionInv'
  <2>1. /\ phase' = phase /\ Settings' = Settings
        /\ Opened(k) \/ OpenFails(k) \/ Prompt(k) \/ Settle(k) \/ Release(k)
    BY <1>7 DEF TurnStep, Outside, Settings, applied
  <2>2. CASE Opened(k)
    BY <2>1, <2>2 DEF SessionInv, Opened
  <2>3. CASE OpenFails(k) \/ Settle(k)
    BY <2>1, <2>3 DEF SessionInv, OpenFails, Settle, NoTurn
  <2>4. CASE Prompt(k)
    BY <2>1, <2>4 DEF SessionInv, Prompt
  <2>5. CASE Release(k)
    BY <2>1, <2>5 DEF SessionInv, Release
  <2> QED
    BY <2>1, <2>2, <2>3, <2>4, <2>5
<1>8. CASE Farewell \/ Restart
  <2>1. DisposeAll
    BY <1>8 DEF Farewell, Restart, Forgets
  <2> QED
    BY <2>1 DEF SessionInv, DisposeAll, NoTurn
<1> QED
  BY <1>2, <1>3, <1>4, <1>5, <1>6, <1>7, <1>8 DEF Next

\* Finding a record, or missing one, is told with it.
LEMMA PresenceStep == PresenceHonest /\ [Next]_vars => PresenceHonest'
<1> SUFFICES ASSUME PresenceHonest, [Next]_vars
             PROVE  PresenceHonest'
  OBVIOUS
<1>1. CASE \/ Tick \/ OwnerPublishes \/ Refresh \/ IgnoreRecord \/ OnLangfuseRecord
           \/ OnAuthRecord \/ ReadLocal \/ MaterializeFile
           \/ RecordSynced \/ WatcherFires \/ WatcherLooks \/ PublishAccepted
           \/ PublishRefused \/ WriteBackAcked \/ WriteBackSynced
           \/ (\E k \in Keys : TurnStarts(k) \/ TurnStep(k)) \/ UNCHANGED vars
  BY <1>1 DEF Tick, OwnerPublishes, Refresh, IgnoreRecord, OnLangfuseRecord, OnAuthRecord,
     ReadLocal, MaterializeFile, RecordSynced, WatcherFires,
     WatcherLooks, PublishAccepted, PublishRefused, WriteBackAcked, WriteBackSynced, vars,
     TurnStarts, TurnStep, Outside, PresenceHonest, Announced
<1>2. ASSUME NEW s, Found(s), phase' = phase
      PROVE  PresenceHonest'
  BY <1>2 DEF Found, PresenceHonest, Announced
<1>3. CASE OnCoreRecord
  BY <1>2, <1>3 DEF OnCoreRecord
<1>4. CASE MaterializeMeta
  BY <1>2, <1>4 DEF MaterializeMeta, PresenceHonest, Announced
<1>5. CASE OnRevocation
  BY <1>5 DEF OnRevocation, PresenceHonest, Announced
<1>6. CASE Started
  BY <1>6 DEF Started, PresenceHonest, Announced
<1>7. CASE BootConfig \/ BootAuth \/ BootLangfuse \/ StartRemote \/ Stop \/ Farewell \/ Restart
  BY <1>7 DEF BootConfig, BootAuth, BootLangfuse, StartRemote, Stop, Farewell, Restart,
     PresenceHonest
<1> QED
  BY <1>1, <1>3, <1>4, <1>5, <1>6, <1>7 DEF Next

-----------------------------------------------------------------------------
\* The credentials
LEMMA AuthTypes ==
  ASSUME BaseInv
  PROVE  /\ mark["auth"] \in Nat /\ At(stored["auth"]) \in Nat
         /\ stored["auth"] = None => mark["auth"] = 0 /\ At(stored["auth"]) = 0
         /\ stored["auth"] # None =>
              /\ stored["auth"].at \in Nat \ {0} /\ mark["auth"] <= stored["auth"].at
              /\ At(stored["auth"]) = stored["auth"].at
              /\ stored["auth"].value \in Creds \cup {Tombstone}
         /\ meta # None => /\ meta.at \in Nat /\ meta.digest \in Creds
                           /\ meta = [digest |-> meta.digest, at |-> meta.at]
         /\ file # None => file.content \in Creds /\ file.mtime \in Nat
         /\ \A t \in tasks :
              t \in Tasks /\ t.content \in Creds /\ t.at \in Nat /\ t.stage \in Stages
<1>1. "auth" \in Slugs
  BY DEF Slugs
<1>2. /\ At(stored["auth"]) \in Nat
      /\ stored["auth"] # None => /\ At(stored["auth"]) = stored["auth"].at
                                  /\ stored["auth"].at \in Nat \ {0}
                                  /\ stored["auth"].value \in Contents["auth"]
      /\ stored["auth"] = None => At(stored["auth"]) = 0
  BY <1>1, HeadFacts DEF BaseInv
<1>3. mark["auth"] \in Nat /\ mark["auth"] <= At(stored["auth"])
  BY <1>1 DEF BaseInv, MarkOK
<1>4. /\ meta # None => /\ meta.at \in Nat /\ meta.digest \in Creds
                        /\ meta = [digest |-> meta.digest, at |-> meta.at]
      /\ file # None => file.content \in Creds /\ file.mtime \in Nat
  BY DEF BaseInv, ProcessOK
<1>5. \A t \in tasks :
        t \in Tasks /\ t.content \in Creds /\ t.at \in Nat /\ t.stage \in Stages
  BY DEF BaseInv, ProcessOK, Tasks
<1> QED
  BY <1>2, <1>3, <1>4, <1>5, ContentFacts

LEMMA OneTask ==
  ASSUME Alone, NEW t \in tasks
  PROVE  /\ tasks = {t} /\ (Ends(t) => tasks' = {})
         /\ \A m : tasks' = (tasks \ {t}) \cup {m} => tasks' = {m}
BY DEF Alone, Ends

\* Nothing changes that concerns the credentials.
LEMMA AuthFrame ==
  ASSUME BaseInv, AuthInv, UNCHANGED <<relay, disk, tasks>>, disturbed => disturbed',
         mark'["auth"] = mark["auth"], Alive' => Alive, Subscribed' => Subscribed,
         Alive' /\ dirty => dirty', "auth" \in missing => "auth" \in missing'
  PROVE  AuthInv'
<1> SUFFICES ASSUME ~disturbed'
             PROVE  (Alone /\ (\A t \in tasks : TaskOK(t)) /\ MetaOK /\ AwaitOK
                       /\ EmptyOK /\ HandledOK)'
  BY DEF AuthInv
<1>1. Alone /\ (\A t \in tasks : TaskOK(t)) /\ MetaOK /\ AwaitOK /\ EmptyOK /\ HandledOK
  BY DEF AuthInv
<1>2. /\ Alone' /\ MetaOK' /\ EmptyOK' /\ (Known' <=> Known)
      /\ \A c : Alive' /\ FileHas(c) => FileHas(c)'
      /\ \A t : Matches(t) => Matches(t)'
  BY <1>1 DEF Alone, MetaOK, EmptyOK, Known, FileHas, Matches, relay, disk
<1>3. \A t : TaskOK(t) => TaskOK(t)'
  BY <1>2 DEF TaskOK
<1>4. \A t \in tasks' : TaskOK(t)'
  BY <1>1, <1>3
<1>5. AwaitOK'
  BY <1>1, <1>2 DEF AwaitOK, Sent, Waiting, relay
<1>6. HandledOK'
  BY <1>1, <1>2 DEF HandledOK, InSync, relay, disk
<1> QED
  BY <1>2, <1>4, <1>5, <1>6

\* Another slug's record is handled, or an older one of the credentials.
LEMMA AuthSkipped ==
  ASSUME BaseInv, AuthInv, Subscribed, inbox # <<>>, inbox' = Tail(inbox),
         UNCHANGED <<stored, phase, disk, tasks, dirty, disturbed>>,
         mark' = mark \/ Marks(Head(inbox)), mark'["auth"] = mark["auth"],
         "auth" \in missing => "auth" \in missing',
         Head(inbox).slug = "auth" => ~Newer(Head(inbox))
  PROVE  AuthInv'
<1> SUFFICES ASSUME ~disturbed'
             PROVE  (Alone /\ (\A t \in tasks : TaskOK(t)) /\ MetaOK /\ AwaitOK
                       /\ EmptyOK /\ HandledOK)'
  BY DEF AuthInv
<1>1. Alone /\ (\A t \in tasks : TaskOK(t)) /\ MetaOK /\ AwaitOK /\ EmptyOK /\ HandledOK
  BY DEF AuthInv
<1>2. /\ Alone' /\ MetaOK' /\ EmptyOK' /\ (Known' <=> Known) /\ (Alive' <=> Alive)
      /\ \A c : FileHas(c) => FileHas(c)'
      /\ \A t : Matches(t) => Matches(t)'
  BY <1>1 DEF Alone, MetaOK, EmptyOK, Known, FileHas, Matches, disk, Alive
<1>3. \A t : TaskOK(t) => TaskOK(t)'
  BY <1>2 DEF TaskOK
<1>4. \A t \in tasks' : TaskOK(t)'
  BY <1>1, <1>3
<1>5. HandledOK'
  BY <1>1, <1>2 DEF HandledOK, InSync, disk
<1>6. /\ Head(inbox) \in Entries
      /\ Sent("auth") => Sent("auth")' \/ Head(inbox) = Pushed("auth", stored["auth"])
  BY HandlesFacts DEF Slugs
<1>7. ASSUME stored["auth"] # None, ~Known
      PROVE  Head(inbox) # Pushed("auth", stored["auth"])
  <2> SUFFICES ASSUME Head(inbox) = Pushed("auth", stored["auth"])
               PROVE  FALSE
    OBVIOUS
  <2>1. Head(inbox).slug = "auth" /\ Head(inbox).at = stored["auth"].at
    BY DEF Pushed
  <2>2. Newer(Head(inbox))
    BY <1>7, <2>1, AuthTypes DEF Newer, Known
  <2> QED
    BY <2>1, <2>2
<1>8. AwaitOK'
  BY <1>1, <1>2, <1>6, <1>7 DEF AwaitOK, Subscribed
<1> QED
  BY <1>2, <1>4, <1>5, <1>8

\* A newer record of the credentials is handled.
LEMMA AuthTaken ==
  ASSUME BaseInv, AuthInv, ~disturbed, Subscribed, inbox # <<>>, inbox' = Tail(inbox),
         UNCHANGED <<stored, phase>>, disturbed => disturbed',
         Head(inbox).slug = "auth", Newer(Head(inbox)), Marks(Head(inbox))
  PROVE  /\ mark'["auth"] = Head(inbox).at /\ Head(inbox).at \in Nat \ {0}
         /\ Head(inbox).value \in Creds \cup {Tombstone}
         /\ stored["auth"] # None /\ Head(inbox).at <= stored["auth"].at
         /\ Head(inbox).at = stored["auth"].at => Head(inbox).value = stored["auth"].value
         /\ AwaitOK'
<1>1. /\ Head(inbox) \in Entries /\ EntryOK(Head(inbox)) /\ mark'["auth"] = Head(inbox).at
      /\ Sent("auth") => Sent("auth")' \/ Head(inbox) = Pushed("auth", stored["auth"])
      /\ Subscribed' = Subscribed
  BY HandlesFacts DEF Slugs
<1>2. /\ Head(inbox).at \in Nat \ {0} /\ Head(inbox).value \in Creds \cup {Tombstone}
      /\ stored["auth"] # None /\ Head(inbox).at <= stored["auth"].at
      /\ Head(inbox).at = stored["auth"].at => Head(inbox).value = stored["auth"].value
  BY <1>1, ContentFacts DEF EntryOK, Entries
<1>3. ASSUME Head(inbox).at # stored["auth"].at
      PROVE  Sent("auth")'
  <2>1. ~Known
    <3>1. mark["auth"] < Head(inbox).at
      BY DEF Newer
    <3> QED
      BY <1>2, <3>1, AuthTypes DEF Known
  <2>2. Sent("auth")
    BY <1>2, <2>1 DEF AuthInv, AwaitOK
  <2>3. Head(inbox) # Pushed("auth", stored["auth"])
    BY <1>3 DEF Pushed
  <2> QED
    BY <1>1, <2>2, <2>3
<1>4. AwaitOK'
  BY <1>1, <1>3 DEF AwaitOK, Known
<1> QED
  BY <1>1, <1>2, <1>4

\* A handler ends by writing the sync mark.
LEMMA AuthSynced ==
  ASSUME BaseInv, AuthInv, NEW t \in tasks, t.stage \in {"meta", "echo", "sync"},
         Ends(t), Synced(t), UNCHANGED <<relay, file, phase, mark, dirty, disturbed>>,
         ~disturbed
  PROVE  AuthInv'
<1>1. /\ tasks = {t} /\ tasks' = {} /\ TaskOK(t) /\ AwaitOK
  BY OneTask DEF AuthInv
<1>2. /\ t.at = mark["auth"] /\ t.at # 0 /\ Matches(t)
      /\ Alive => FileHas(t.content)
  BY <1>1 DEF TaskOK
<1>3. meta' = [digest |-> t.content, at |-> t.at]
  BY DEF Synced
<1>4. MetaOK'
  BY <1>2, <1>3 DEF MetaOK, Matches, relay
<1>5. Alone' /\ EmptyOK' /\ (\A u \in tasks' : TaskOK(u)')
  BY <1>1, <1>2 DEF Alone, EmptyOK
<1>6. AwaitOK'
  BY <1>1 DEF AwaitOK, Sent, Waiting, relay, Subscribed, Known
<1>7. ASSUME Alive', Known'
      PROVE  /\ stored'["auth"].value = t.content /\ t.content # Tombstone
             /\ InSync(stored["auth"])' /\ FileHas(t.content)'
  <2>1. t.at = stored["auth"].at /\ t.content = stored["auth"].value
    BY <1>2, <1>7 DEF Known, Matches, relay
  <2>2. t.content # Tombstone
    BY AuthTypes, RemoteAssumption
  <2>3. FileHas(t.content)'
    BY <1>2, <1>7 DEF FileHas, Alive
  <2> QED
    BY <1>3, <2>1, <2>2, <2>3 DEF InSync, relay
<1>8. HandledOK'
  BY <1>1, <1>7 DEF HandledOK
<1> QED
  BY <1>4, <1>5, <1>6, <1>8 DEF AuthInv

\* A handler takes its next step, the relay and the sync mark as they are.
LEMMA AuthMoves ==
  ASSUME BaseInv, AuthInv, ~disturbed, ~disturbed', NEW t \in tasks, NEW m,
         tasks' = (tasks \ {t}) \cup {m}, UNCHANGED <<relay, mark, phase, meta, missing>>,
         TaskOK(m)', m.stage # "look"
  PROVE  AuthInv'
<1>1. tasks' = {m} /\ MetaOK /\ AwaitOK /\ HandledOK
  BY OneTask DEF AuthInv
<1>2. MetaOK' /\ AwaitOK'
  BY <1>1 DEF MetaOK, AwaitOK, Known, Sent, Waiting, Subscribed, relay
<1>3. Alone' /\ EmptyOK'
  BY <1>1 DEF Alone, EmptyOK
<1>4. HandledOK'
  <2>1. tasks' # {} /\ \A u \in tasks' : u.stage # "look"
    BY <1>1
  <2> QED
    BY <1>1, <2>1 DEF HandledOK, InSync, Alive, Known, relay
<1>5. \A u \in tasks' : TaskOK(u)'
  <2>1. \A u \in tasks' : u = m
    BY <1>1
  <2> QED
    BY <2>1
<1> QED
  BY <1>2, <1>3, <1>4, <1>5 DEF AuthInv

\* Reconciling an agent that starts: what is left to do, or that nothing is.
LEMMA AuthReconciled ==
  ASSUME BaseInv, AuthInv, BootAuth, ~disturbed
  PROVE  AuthInv'
<1> DEFINE head == stored["auth"]
<1>1. /\ UNCHANGED <<relay, disk, dirty, disturbed>> /\ phase' = "langfuse" /\ ~Subscribed'
      /\ tasks' = Reconciliation(head) /\ mark'["auth"] = At(head) /\ MetaOK
      /\ (head = None /\ file = None) \/ (head # None /\ head.value = Tombstone) =>
           "auth" \in missing'
  <2>1. mark' = [mark EXCEPT !["auth"] = At(head)] /\ mark \in [Slugs -> Nat]
    BY DEF BootAuth, BaseInv, MarkOK
  <2>2. mark'["auth"] = At(head)
    BY <2>1 DEF Slugs
  <2> QED
    BY <2>2 DEF BootAuth, AuthInv, Subscribed
<1>2. MetaOK' /\ AwaitOK'
  BY <1>1 DEF MetaOK, AwaitOK, relay, disk
<1>3. ASSUME NEW w, tasks' = {w}, TaskOK(w)', w.stage # "look",
             head = None \/ head.value # Tombstone
      PROVE  AuthInv'
  <2>1. Alone' /\ EmptyOK'
    BY <1>3 DEF Alone, EmptyOK
  <2>2. HandledOK'
    <3>1. tasks' # {} /\ \A u \in tasks' : u.stage # "look"
      BY <1>3
    <3> QED
      BY <1>1, <1>3, <3>1 DEF HandledOK, InSync, Known, relay
  <2>3. \A u \in tasks' : TaskOK(u)'
    <3>1. \A u \in tasks' : u = w
      BY <1>3
    <3> QED
      BY <1>3, <3>1
  <2> QED
    BY <1>2, <2>1, <2>2, <2>3 DEF AuthInv
<1>4. ASSUME file # None, head = None \/ head.value # Tombstone, NEW n \in Nat, n = At(head),
             tasks' = {Work("back", "publish", file.content, NextStamp(n))}
      PROVE  AuthInv'
  <2>1. PICK w : w = Work("back", "publish", file.content, NextStamp(n))
    OBVIOUS
  <2>2. w.stage = "publish" /\ w.content = file.content /\ w.at = NextStamp(n)
    BY <2>1, WorkFacts
  <2>3. w.at > n /\ w.at \in Nat
    BY <2>2, Stamps DEF BaseInv
  <2>4. TaskOK(w)'
    BY <1>1, <1>4, <2>2, <2>3 DEF TaskOK, FileHas, disk
  <2> QED
    BY <1>3, <1>4, <2>1, <2>2, <2>4
<1>5. ASSUME head # None, head.value # Tombstone, tasks' = {Work("apply", "file", head.value, head.at)}
      PROVE  AuthInv'
  <2>1. PICK w : w = Work("apply", "file", head.value, head.at)
    OBVIOUS
  <2>2. w.stage = "file" /\ w.content = head.value /\ w.at = head.at
    BY <2>1, WorkFacts
  <2>3. TaskOK(w)'
    BY <1>1, <1>5, <2>2, AuthTypes DEF TaskOK, Matches, relay
  <2> QED
    BY <1>3, <1>5, <2>1, <2>2, <2>3
<1>6. ASSUME tasks' = {}, EmptyOK', HandledOK'
      PROVE  AuthInv'
  BY <1>2, <1>6 DEF AuthInv, Alone
<1>7. CASE head # None /\ head.value = Tombstone
  <2>1. tasks' = {} /\ mark'["auth"] # 0 /\ "auth" \in missing' /\ stored'["auth"] = head
    BY <1>1, <1>7, AuthTypes DEF Reconciliation, relay
  <2> QED
    BY <1>6, <1>7, <2>1 DEF EmptyOK, HandledOK
<1>8. CASE head = None /\ file = None
  <2>1. tasks' = {} /\ file' = None /\ "auth" \in missing' /\ stored'["auth"] = None
    BY <1>1, <1>8 DEF Reconciliation, relay, disk
  <2> QED
    BY <1>6, <2>1 DEF EmptyOK, HandledOK, Known
<1>9. CASE head = None /\ file # None
  <2>1. tasks' = {Work("back", "publish", file.content, NextStamp(0))}
    BY <1>1, <1>9 DEF Reconciliation
  <2> QED
    BY <1>4, <1>9, <2>1, AuthTypes
<1>10. CASE head # None /\ head.value # Tombstone /\ file = None
  <2>1. tasks' = {Work("apply", "file", head.value, head.at)}
    BY <1>1, <1>10 DEF Reconciliation
  <2> QED
    BY <1>5, <1>10, <2>1
<1>11. CASE head # None /\ head.value # Tombstone /\ file # None
  <2>1. tasks' = IF Diverged /\ file.mtime > head.at
           THEN {Work("back", "publish", file.content, NextStamp(head.at))}
           ELSE IF Diverged \/ head.at > meta.at
             THEN {Work("apply", "file", head.value, head.at)}
             ELSE {}
    BY <1>1, <1>11 DEF Reconciliation
  <2>2. CASE Diverged /\ file.mtime > head.at
    <3>1. tasks' = {Work("back", "publish", file.content, NextStamp(head.at))}
      BY <2>1, <2>2
    <3>2. head.at \in Nat /\ head.at = At(head)
      BY <1>11, AuthTypes
    <3> QED
      BY <1>4, <1>11, <3>1, <3>2
  <2>3. CASE ~(Diverged /\ file.mtime > head.at) /\ (Diverged \/ head.at > meta.at)
    <3>1. tasks' = {Work("apply", "file", head.value, head.at)}
      BY <2>1, <2>3
    <3> QED
      BY <1>5, <1>11, <3>1
  <2>4. CASE ~Diverged /\ ~(head.at > meta.at)
    <3>1. tasks' = {}
      BY <2>1, <2>4
    <3>2. meta # None /\ meta.digest = file.content
      BY <2>4 DEF Diverged
    <3>3. meta.at = head.at
      BY <1>1, <1>11, <2>4, <3>2, AuthTypes DEF MetaOK
    <3>4. InSync(head) /\ FileHas(head.value)
      BY <1>1, <1>11, <3>2, <3>3, AuthTypes DEF MetaOK, InSync, FileHas
    <3>5. stored'["auth"] = head /\ InSync(head)' /\ FileHas(head.value)'
      BY <1>1, <3>4 DEF InSync, FileHas, relay, disk
    <3>6. mark'["auth"] # 0
      BY <1>1, <1>11, AuthTypes
    <3> QED
      BY <1>6, <1>11, <3>1, <3>5, <3>6 DEF EmptyOK, HandledOK
  <2> QED
    BY <2>2, <2>3, <2>4
<1> QED
  BY <1>7, <1>8, <1>9, <1>10, <1>11

\* The owner publishes: no handler has come upon the record yet.
LEMMA AuthPublished ==
  ASSUME BaseInv, AuthInv, OwnerPublishes, ~disturbed
  PROVE  AuthInv'
<1>1. PICK slug \in Slugs : \E value \in Values[slug] :
        Stores(slug, [at |-> NextStamp(At(stored[slug])), value |-> value], TRUE)
  BY DEF OwnerPublishes
<1> PICK value \in Values[slug] :
      Stores(slug, [at |-> NextStamp(At(stored[slug])), value |-> value], TRUE)
  BY <1>1
<1>2. PICK h : h = [at |-> NextStamp(At(stored[slug])), value |-> value]
  OBVIOUS
<1>3. /\ h \in HeadsOf(slug) /\ h.at > At(stored[slug]) /\ h.at \in Nat
      /\ h.at >= At(stored[slug]) /\ Stores(slug, h, TRUE)
  <2>1. At(stored[slug]) \in Nat
    BY HeadFacts DEF BaseInv
  <2>2. /\ NextStamp(At(stored[slug])) \in Nat \ {0}
        /\ NextStamp(At(stored[slug])) > At(stored[slug])
    BY <2>1, Stamps DEF BaseInv
  <2>3. h \in HeadsOf(slug)
    BY <1>2, <2>2, ContentFacts DEF HeadsOf
  <2>4. h.at = NextStamp(At(stored[slug]))
    BY <1>2
  <2>5. h.at > At(stored[slug]) /\ h.at \in Nat /\ h.at >= At(stored[slug])
    BY <2>1, <2>2, <2>4
  <2> QED
    BY <1>2, <2>3, <2>5
<1>4. /\ UNCHANGED <<mark, phase, missing, disturbed, tasks, disk, dirty>>
      /\ disturbed \in BOOLEAN
  BY DEF OwnerPublishes, BaseInv, ProcessOK
<1>5. /\ stored'[slug] = h /\ h # None
      /\ \A s \in Slugs \ {slug} : stored'[s] = stored[s]
      /\ Subscribed => Sent(slug)'
      /\ \A s \in Slugs \ {slug} : Sent(s) => Sent(s)'
  BY <1>3, <1>4, Published
<1>6. /\ Alone /\ (\A t \in tasks : TaskOK(t)) /\ MetaOK /\ AwaitOK /\ EmptyOK /\ HandledOK
      /\ (Subscribed' <=> Subscribed) /\ (Alive' <=> Alive)
  BY <1>4 DEF AuthInv, Subscribed, Alive
<1>7. Alone' /\ EmptyOK' /\ (\A c : FileHas(c) => FileHas(c)')
  BY <1>4, <1>6 DEF Alone, EmptyOK, FileHas, disk
<1>8. CASE slug # "auth"
  <2>1. stored'["auth"] = stored["auth"] /\ (Sent("auth") => Sent("auth")')
    BY <1>5, <1>8 DEF Slugs
  <2>2. MetaOK' /\ AwaitOK' /\ HandledOK'
    BY <1>4, <1>6, <1>7, <2>1 DEF MetaOK, AwaitOK, HandledOK, Known, InSync, disk
  <2>3. \A t : Matches(t) => Matches(t)'
    BY <2>1 DEF Matches
  <2>4. \A t : TaskOK(t) => TaskOK(t)'
    BY <1>4, <1>6, <1>7, <2>3 DEF TaskOK
  <2> QED
    BY <1>4, <1>6, <1>7, <2>2, <2>4 DEF AuthInv
<1>9. CASE slug = "auth"
  <2>1. stored["auth"] # None => h.at > stored["auth"].at /\ stored["auth"].at \in Nat
    BY <1>3, <1>9, AuthTypes
  <2>2. ~Known'
    BY <1>3, <1>4, <1>5, <1>9, AuthTypes DEF Known
  <2>3. MetaOK'
    BY <1>3, <1>4, <1>5, <1>6, <1>9, <2>1, AuthTypes DEF MetaOK, disk
  <2>4. AwaitOK' /\ HandledOK'
    BY <1>5, <1>6, <1>9, <2>2 DEF AwaitOK, HandledOK
  <2>5. \A t \in tasks : Matches(t) => Matches(t)'
    <3> SUFFICES ASSUME NEW t \in tasks, Matches(t)
                 PROVE  Matches(t)'
      OBVIOUS
    <3>1. t.at \in Nat /\ t.at <= stored["auth"].at /\ stored["auth"] # None
      BY AuthTypes DEF Matches
    <3>2. t.at < h.at
      BY <1>3, <2>1, <3>1
    <3> QED
      BY <1>3, <1>5, <1>9, <3>1, <3>2 DEF Matches
  <2>6. \A t \in tasks : TaskOK(t) => TaskOK(t)'
    BY <1>4, <1>6, <1>7, <2>5 DEF TaskOK
  <2> QED
    BY <1>4, <1>6, <1>7, <2>3, <2>4, <2>6 DEF AuthInv
<1> QED
  BY <1>8, <1>9

\* A write-back is accepted: unless writers crossed it is the record now.
LEMMA AuthAccepted ==
  ASSUME BaseInv, AuthInv, PublishAccepted, ~disturbed'
  PROVE  AuthInv'
<1>1. PICK t \in tasks, keep \in BOOLEAN :
        /\ t.stage = "publish" /\ Moves(t, "ok")
        /\ t.at > At(stored["auth"]) => keep
        /\ t.at < At(stored["auth"]) => ~keep
        /\ Stores("auth", [at |-> t.at, value |-> t.content], keep)
        /\ disturbed' = (disturbed \/ Crossed(t))
  BY DEF PublishAccepted
<1>2. UNCHANGED <<mark, phase, missing, disk, dirty>>
  BY DEF PublishAccepted
<1>3. /\ ~disturbed /\ tasks = {t} /\ TaskOK(t) /\ MetaOK
      /\ At(stored["auth"]) = mark["auth"]
  BY <1>1, OneTask DEF AuthInv, Crossed
<1>4. mark["auth"] < t.at /\ t.at \in Nat /\ (Alive => FileHas(t.content))
  BY <1>1, <1>3, AuthTypes DEF TaskOK
<1>5. keep /\ t.at > At(stored["auth"])
  BY <1>1, <1>3, <1>4
<1>6. PICK h : h = [at |-> t.at, value |-> t.content]
  OBVIOUS
<1>7. h \in HeadsOf("auth") /\ h.at = t.at /\ h.value = t.content /\ h.at >= At(stored["auth"])
  BY <1>1, <1>5, <1>6, KeptAbove
<1>8. stored'["auth"] = h /\ h # None /\ (Subscribed => Sent("auth")')
  <2>1. Stores("auth", h, TRUE) /\ "auth" \in Slugs /\ disturbed' \in BOOLEAN
    BY <1>1, <1>5, <1>6 DEF Slugs, BaseInv, ProcessOK
  <2> QED
    BY <1>2, <1>3, <1>5, <1>7, <2>1, Published
<1>9. PICK m \in Tasks :
        /\ m.stage = "ok" /\ m.content = t.content /\ m.at = t.at
        /\ tasks' = (tasks \ {t}) \cup {m}
  BY <1>1, MoveFacts DEF BaseInv, ProcessOK, Stages
<1>10. tasks' = {m}
  BY <1>3, <1>9, OneTask
<1>11. ~Known'
  BY <1>2, <1>4, <1>7, <1>8, AuthTypes DEF Known
<1>12. TaskOK(m)'
  <2>1. Matches(m)'
    BY <1>4, <1>7, <1>8, <1>9 DEF Matches
  <2>2. Alive' => FileHas(m.content)'
    BY <1>2, <1>4, <1>9 DEF Alive, FileHas, disk
  <2> QED
    BY <1>2, <1>4, <1>9, <2>1, <2>2 DEF TaskOK
<1>13. MetaOK'
  BY <1>2, <1>3, <1>4, <1>5, <1>7, <1>8, AuthTypes DEF MetaOK, disk
<1>14. AwaitOK'
  BY <1>2, <1>8 DEF AwaitOK, Subscribed
<1> QED
  BY <1>10, <1>11, <1>12, <1>13, <1>14 DEF AuthInv, Alone, EmptyOK, HandledOK

LEMMA AuthStep == BaseInv /\ AuthInv /\ SessionInv /\ [Next]_vars => AuthInv'
<1> SUFFICES ASSUME BaseInv, AuthInv, SessionInv, [Next]_vars, ~disturbed'
             PROVE  AuthInv'
  BY DEF AuthInv
<1>0. mark \in [Slugs -> Nat]
  BY DEF BaseInv, MarkOK
<1>1. CASE \/ Tick \/ Started \/ Stop \/ (\E k \in Keys : TurnStarts(k) \/ TurnStep(k))
           \/ UNCHANGED vars
  <2>1. /\ UNCHANGED <<relay, disk, tasks, disturbed, mark, missing>>
        /\ (Alive' => Alive) /\ (Subscribed' => Subscribed) /\ (Alive' /\ dirty => dirty')
    BY <1>1 DEF Tick, Started, Stop, TurnStarts, TurnStep, Outside, vars, Alive, Subscribed
  <2> QED
    BY <2>1, AuthFrame
<1>2. CASE BootLangfuse
  <2>1. /\ UNCHANGED <<relay, disk, tasks, disturbed, missing, dirty>>
        /\ (Alive' => Alive) /\ (Subscribed' => Subscribed) /\ mark'["auth"] = mark["auth"]
    BY <1>0, <1>2 DEF BootLangfuse, Alive, Subscribed, Slugs
  <2> QED
    BY <2>1, AuthFrame
<1>3. CASE OwnerPublishes
  BY <1>3, AuthPublished DEF OwnerPublishes
<1>4. CASE Refresh
  <2>1. /\ UNCHANGED <<relay, meta, phase, mark, missing, tasks, disturbed>>
        /\ file # None /\ dirty' = (dirty \/ phase \in {"recovering", "running"})
    BY <1>4 DEF Refresh
  <2>2. PICK c \in Creds : file' = [content |-> c, mtime |-> now]
    BY <1>4 DEF Refresh
  <2>3. file' # None
    <3>1. file' \in [content : Creds, mtime : Nat]
      BY <2>2 DEF BaseInv, ProcessOK
    <3> QED
      BY <3>1, NothingThere
  <2>4. PICK k \in Keys : turn[k].stage = "streaming"
    BY <1>4 DEF Refresh, Streaming
  <2>5. phase \in {"running", "draining"}
    BY <2>4 DEF SessionInv
  <2>6. \A d : Alive' => FileHas(d)'
    BY <2>1, <2>3, <2>5 DEF Alive, FileHas
  <2>7. /\ Alone /\ (\A t \in tasks : TaskOK(t)) /\ MetaOK /\ AwaitOK /\ EmptyOK /\ HandledOK
        /\ (Alive' <=> Alive) /\ (Known' <=> Known)
    BY <2>1 DEF AuthInv, Alive, Known, relay
  <2>8. Alone' /\ MetaOK' /\ EmptyOK' /\ AwaitOK'
    BY <2>1, <2>7 DEF Alone, MetaOK, EmptyOK, AwaitOK, Sent, Waiting, Subscribed, relay
  <2>9. HandledOK'
    BY <2>1, <2>6, <2>7 DEF HandledOK, InSync, relay
  <2>10. \A t : TaskOK(t) => TaskOK(t)'
    BY <2>1, <2>6, <2>7 DEF TaskOK, Matches, relay
  <2> QED
    BY <2>1, <2>7, <2>8, <2>9, <2>10 DEF AuthInv
<1>5. CASE BootConfig
  <2>1. UNCHANGED <<relay, disk, tasks, disturbed>> /\ ~Alive' /\ ~Subscribed' /\ tasks = {}
    BY <1>5 DEF BootConfig, BaseInv, ProcessOK, Alive, Subscribed
  <2> QED
    BY <2>1 DEF AuthInv, Alone, MetaOK, AwaitOK, EmptyOK, HandledOK, relay, disk
<1>6. CASE BootAuth
  BY <1>6, AuthReconciled DEF BootAuth
<1>7. CASE StartRemote
  <2>1. /\ UNCHANGED <<stored, disk, tasks, disturbed, mark, missing, dirty>>
        /\ inbox' = Backlog /\ Alive /\ tasks = {}
    BY <1>7 DEF StartRemote, Alive, BaseInv, ProcessOK
  <2>2. Alone' /\ MetaOK' /\ EmptyOK' /\ HandledOK' /\ tasks' = {}
    BY <2>1 DEF AuthInv, Alone, MetaOK, EmptyOK, HandledOK, InSync, FileHas, Known, disk
  <2>3. ASSUME stored["auth"] # None PROVE Sent("auth")'
    <3>1. PICK b : b = Backlog
      OBVIOUS
    <3>2. {b[i] : i \in 1 .. Len(b)} =
            {Pushed(s, stored[s]) : s \in {u \in Slugs : stored[u] # None}}
      BY <3>1, BacklogFacts
    <3>3. Pushed("auth", stored["auth"]) \in Waiting'
      BY <2>1, <2>3, <3>1, <3>2 DEF Waiting, Slugs
    <3> QED
      BY <2>1, <3>3 DEF Sent
  <2>4. AwaitOK'
    BY <2>1, <2>3 DEF AwaitOK
  <2> QED
    BY <2>2, <2>4 DEF AuthInv
<1>8. CASE IgnoreRecord \/ OnCoreRecord \/ OnLangfuseRecord
  <2>1. /\ Subscribed /\ inbox # <<>> /\ inbox' = Tail(inbox)
        /\ UNCHANGED <<stored, phase, disk, tasks, dirty, disturbed>>
        /\ mark' = mark \/ (Marks(Head(inbox)) /\ Head(inbox).slug # "auth")
        /\ Head(inbox).slug = "auth" => ~Newer(Head(inbox))
    BY <1>8 DEF IgnoreRecord, OnCoreRecord, OnLangfuseRecord, Handles
  <2>2. "auth" \in missing => "auth" \in missing'
    BY <1>8 DEF IgnoreRecord, OnCoreRecord, OnLangfuseRecord, Found
  <2>3. mark'["auth"] = mark["auth"]
    BY <2>1, HandlesFacts DEF Slugs
  <2> QED
    BY <2>1, <2>2, <2>3, AuthSkipped
<1>9. CASE OnAuthRecord
  <2> DEFINE head == Head(inbox)
  <2>1. /\ Subscribed /\ inbox # <<>> /\ inbox' = Tail(inbox)
        /\ UNCHANGED <<stored, phase, disk, missing, dirty>>
        /\ disturbed' = (disturbed \/ tasks # {})
        /\ head.slug = "auth" /\ Newer(head) /\ Marks(head) /\ head.value # Tombstone
        /\ tasks' = tasks \cup {Work("apply", "read", head.value, head.at)}
    BY <1>9 DEF OnAuthRecord, Handles, Begins
  <2>2. /\ mark'["auth"] = head.at /\ head.at \in Nat \ {0}
        /\ stored["auth"] # None /\ head.at <= stored["auth"].at
        /\ head.at = stored["auth"].at => head.value = stored["auth"].value
        /\ AwaitOK' /\ ~disturbed /\ tasks = {}
    BY <2>1, AuthTaken
  <2>3. PICK w : w = Work("apply", "read", head.value, head.at)
    OBVIOUS
  <2>4. w.stage = "read" /\ w.content = head.value /\ w.at = head.at /\ tasks' = {w}
    BY <2>1, <2>2, <2>3, WorkFacts
  <2>5. TaskOK(w)'
    BY <2>1, <2>2, <2>4 DEF TaskOK, Matches
  <2>6. Alone' /\ EmptyOK' /\ \A u \in tasks' : TaskOK(u)'
    BY <2>4, <2>5 DEF Alone, EmptyOK
  <2>7. MetaOK'
    BY <2>1, <2>2 DEF AuthInv, MetaOK, disk
  <2>8. HandledOK'
    <3>1. tasks' # {} /\ \A u \in tasks' : u.stage # "look"
      BY <2>4
    <3>2. Known' => stored'["auth"].value # Tombstone
      BY <2>1, <2>2 DEF Known
    <3> QED
      BY <3>1, <3>2 DEF HandledOK, InSync
  <2> QED
    BY <2>2, <2>6, <2>7, <2>8 DEF AuthInv
<1>10. CASE OnRevocation
  <2> DEFINE head == Head(inbox)
  <2>1. /\ Subscribed /\ inbox # <<>> /\ inbox' = Tail(inbox)
        /\ UNCHANGED <<stored, phase, disk, tasks, dirty>>
        /\ disturbed' = (disturbed \/ tasks # {}) /\ missing' = missing \cup {"auth"}
        /\ head.slug = "auth" /\ Newer(head) /\ Marks(head) /\ head.value = Tombstone
    BY <1>10 DEF OnRevocation, Handles
  <2>2. /\ mark'["auth"] = head.at /\ head.at \in Nat \ {0}
        /\ stored["auth"] # None /\ head.at <= stored["auth"].at
        /\ head.at = stored["auth"].at => head.value = stored["auth"].value
        /\ AwaitOK' /\ ~disturbed /\ tasks = {}
    BY <2>1, AuthTaken
  <2>3. Alone' /\ EmptyOK' /\ (\A u \in tasks' : TaskOK(u)')
    BY <2>1, <2>2 DEF Alone, EmptyOK
  <2>4. MetaOK'
    BY <2>1, <2>2 DEF AuthInv, MetaOK, disk
  <2>5. HandledOK'
    <3>1. Known' => stored'["auth"].value = Tombstone /\ "auth" \in missing'
      BY <2>1, <2>2 DEF Known
    <3> QED
      BY <3>1 DEF HandledOK
  <2> QED
    BY <2>2, <2>3, <2>4, <2>5 DEF AuthInv
<1>11. CASE ReadLocal
  <2>1. PICK t \in tasks :
          /\ t.stage = "read"
          /\ Moves(t, IF file # None /\ file.content = t.content THEN "echo" ELSE "file")
    BY <1>11 DEF ReadLocal
  <2>2. UNCHANGED <<relay, mark, phase, disk, dirty, disturbed, missing>> /\ ~disturbed
    BY <1>11 DEF ReadLocal
  <2>3. TaskOK(t)
    BY <2>2 DEF AuthInv
  <2>4. PICK m \in Tasks :
          /\ m.stage = IF file # None /\ file.content = t.content THEN "echo" ELSE "file"
          /\ m.content = t.content /\ m.at = t.at
          /\ tasks' = (tasks \ {t}) \cup {m}
    BY <2>1, MoveFacts DEF BaseInv, ProcessOK, Stages
  <2>5. TaskOK(m)'
    BY <2>1, <2>2, <2>3, <2>4 DEF TaskOK, Matches, FileHas, disk, relay
  <2> QED
    BY <2>2, <2>4, <2>5, AuthMoves DEF disk
<1>12. CASE MaterializeFile
  <2>1. PICK t \in tasks :
          /\ t.stage = "file" /\ Moves(t, "meta")
          /\ file' = [content |-> t.content, mtime |-> now]
    BY <1>12 DEF MaterializeFile
  <2>2. UNCHANGED <<relay, mark, phase, meta, disturbed, missing>> /\ ~disturbed
    BY <1>12 DEF MaterializeFile
  <2>3. TaskOK(t)
    BY <2>2 DEF AuthInv
  <2>4. PICK m \in Tasks :
          /\ m.stage = "meta" /\ m.content = t.content /\ m.at = t.at
          /\ tasks' = (tasks \ {t}) \cup {m}
    BY <2>1, MoveFacts DEF BaseInv, ProcessOK, Stages
  <2>5. file' # None
    <3>1. file' \in [content : Creds, mtime : Nat]
      BY <2>1, AuthTypes DEF BaseInv, ProcessOK
    <3> QED
      BY <3>1, NothingThere
  <2>6. FileHas(t.content)'
    BY <2>1, <2>5 DEF FileHas
  <2>7. TaskOK(m)'
    BY <2>1, <2>2, <2>3, <2>4, <2>6 DEF TaskOK, Matches, relay
  <2> QED
    BY <2>2, <2>4, <2>7, AuthMoves
<1>13. CASE MaterializeMeta \/ RecordSynced \/ WriteBackSynced
  <2>1. UNCHANGED <<relay, file, phase, mark, dirty, disturbed>> /\ ~disturbed
    BY <1>13 DEF MaterializeMeta, RecordSynced, WriteBackSynced
  <2>2. PICK t \in tasks : t.stage \in {"meta", "echo", "sync"} /\ Ends(t) /\ Synced(t)
    BY <1>13 DEF MaterializeMeta, RecordSynced, WriteBackSynced
  <2> QED
    BY <2>1, <2>2, AuthSynced
<1>14. CASE WatcherFires
  <2>1. /\ UNCHANGED <<relay, mark, phase, disk, missing>> /\ dirty
        /\ phase \in {"recovering", "running"} /\ disturbed' = (disturbed \/ tasks # {})
        /\ tasks' = tasks \cup {Work("back", "look", file.content, 0)}
    BY <1>14 DEF WatcherFires, Begins
  <2>2. /\ ~disturbed /\ tasks = {} /\ file # None /\ Alive
        /\ MetaOK /\ AwaitOK /\ EmptyOK /\ HandledOK
    BY <2>1 DEF AuthInv, BaseInv, ProcessOK, Alive
  <2>3. PICK w : w = Work("back", "look", file.content, 0)
    OBVIOUS
  <2>4. w.stage = "look" /\ w.content = file.content /\ tasks' = {w}
    BY <2>1, <2>2, <2>3, WorkFacts
  <2>5. mark["auth"] # 0
    BY <2>2 DEF EmptyOK
  <2>6. TaskOK(w)'
    BY <2>1, <2>2, <2>4, <2>5 DEF TaskOK, FileHas, disk
  <2>7. Alone' /\ EmptyOK' /\ \A u \in tasks' : TaskOK(u)'
    BY <2>4, <2>6 DEF Alone, EmptyOK
  <2>8. MetaOK' /\ AwaitOK'
    BY <2>1, <2>2 DEF MetaOK, AwaitOK, Known, Sent, Waiting, Subscribed, relay, disk
  <2>9. HandledOK'
    <3>1. tasks' # {}
      BY <2>4
    <3> QED
      BY <2>1, <2>2, <3>1 DEF HandledOK, InSync, Known, relay, disk
  <2> QED
    BY <2>7, <2>8, <2>9 DEF AuthInv
<1>15. CASE WatcherLooks
  <2>1. PICK t \in tasks :
          /\ t.stage = "look"
          /\ IF OwnWriting(t) THEN Ends(t)
             ELSE tasks' = (tasks \ {t}) \cup
                    {Work("back", "publish", t.content, NextStamp(mark["auth"]))}
    BY <1>15 DEF WatcherLooks
  <2>2. /\ UNCHANGED <<relay, mark, phase, disk, dirty, disturbed, missing>>
        /\ ~disturbed
    BY <1>15 DEF WatcherLooks
  <2>3. /\ tasks = {t} /\ TaskOK(t) /\ MetaOK /\ AwaitOK /\ HandledOK
        /\ (Alive' <=> Alive) /\ (Known' <=> Known)
    BY <2>2, OneTask DEF AuthInv, Alive, Known, relay
  <2>4. CASE ~OwnWriting(t)
    <3>1. PICK w : w = Work("back", "publish", t.content, NextStamp(mark["auth"]))
      OBVIOUS
    <3>2. w.stage = "publish" /\ w.content = t.content /\ w.at = NextStamp(mark["auth"])
      BY <3>1, WorkFacts
    <3>3. mark["auth"] < w.at
      BY <3>2, AuthTypes, Stamps DEF BaseInv
    <3>4. TaskOK(w)'
      BY <2>1, <2>2, <2>3, <3>2, <3>3 DEF TaskOK, FileHas, disk
    <3>5. tasks' = (tasks \ {t}) \cup {w}
      BY <2>1, <2>4, <3>1
    <3> QED
      BY <2>2, <3>2, <3>4, <3>5, AuthMoves DEF disk
  <2>5. CASE OwnWriting(t)
    <3>1. tasks' = {} /\ meta # None /\ meta.digest = t.content
      BY <2>1, <2>3, <2>5, OneTask DEF OwnWriting, AuthInv, Ends
    <3>2. Alive => mark["auth"] # 0 /\ FileHas(t.content)
      BY <2>1, <2>3 DEF TaskOK
    <3>3. Alone' /\ EmptyOK' /\ (\A u \in tasks' : TaskOK(u)')
      BY <2>2, <2>3, <3>1, <3>2 DEF Alone, EmptyOK
    <3>4. MetaOK' /\ AwaitOK'
      BY <2>2, <2>3 DEF MetaOK, AwaitOK, Sent, Waiting, Subscribed, relay, disk
    <3>5. ASSUME Alive, Known, stored["auth"].value # Tombstone
          PROVE  InSync(stored["auth"])' /\ FileHas(stored["auth"].value)'
      <4>1. InSync(stored["auth"])
        BY <2>1, <2>3, <3>5 DEF HandledOK
      <4>2. meta.digest = stored["auth"].value
        BY <4>1 DEF InSync
      <4>3. FileHas(stored["auth"].value)
        BY <3>1, <3>2, <3>5, <4>2
      <4> QED
        BY <2>2, <4>1, <4>3 DEF InSync, FileHas, relay, disk
    <3>6. HandledOK'
      BY <2>2, <2>3, <3>1, <3>5 DEF HandledOK, relay
    <3> QED
      BY <3>3, <3>4, <3>6 DEF AuthInv
  <2> QED
    BY <2>4, <2>5
<1>16. CASE PublishAccepted
  BY <1>16, AuthAccepted
<1>17. CASE PublishRefused
  BY <1>17 DEF PublishRefused
<1>18. CASE WriteBackAcked
  <2>1. PICK t \in tasks : t.stage = "ok" /\ Moves(t, "sync")
                           /\ mark' = [mark EXCEPT !["auth"] = t.at]
    BY <1>18 DEF WriteBackAcked
  <2>2. /\ UNCHANGED <<relay, phase, disk, dirty, disturbed, missing>> /\ ~disturbed
        /\ mark'["auth"] = t.at
    BY <1>0, <1>18, <2>1 DEF WriteBackAcked, Slugs
  <2>3. tasks = {t} /\ TaskOK(t) /\ MetaOK /\ AwaitOK
    BY <2>2, OneTask DEF AuthInv
  <2>4. PICK m \in Tasks :
          /\ m.stage = "sync" /\ m.content = t.content /\ m.at = t.at
          /\ tasks' = (tasks \ {t}) \cup {m}
    BY <2>1, MoveFacts DEF BaseInv, ProcessOK, Stages
  <2>5. tasks' = {m}
    BY <2>3, <2>4
  <2>6. /\ mark["auth"] < t.at /\ Matches(t) /\ t.at \in Nat /\ mark["auth"] \in Nat
        /\ (Alive => FileHas(t.content))
    BY <2>1, <2>3, AuthTypes DEF TaskOK
  <2>7. TaskOK(m)'
    <3>1. t.at # 0
      BY <2>6
    <3> QED
      BY <2>2, <2>4, <2>6, <3>1 DEF TaskOK, Matches, FileHas, Alive, relay, disk
  <2>8. ~Known
    BY <2>6, AuthTypes DEF Known, Matches
  <2>9. MetaOK' /\ AwaitOK'
    BY <2>2, <2>3, <2>8 DEF MetaOK, AwaitOK, Sent, Waiting, Subscribed, relay, disk
  <2>10. Alone' /\ EmptyOK' /\ \A u \in tasks' : TaskOK(u)'
    BY <2>5, <2>7 DEF Alone, EmptyOK
  <2>11. HandledOK'
    <3>1. tasks' # {} /\ \A u \in tasks' : u.stage # "look"
      BY <2>4, <2>5
    <3>2. Known' => stored'["auth"].value = t.content /\ t.content # Tombstone
      BY <2>2, <2>6, AuthTypes, RemoteAssumption DEF Known, Matches, relay
    <3> QED
      BY <3>1, <3>2 DEF HandledOK, InSync
  <2> QED
    BY <2>9, <2>10, <2>11 DEF AuthInv
<1>19. CASE Farewell \/ Restart
  <2>1. UNCHANGED <<stored, disk, disturbed>> /\ ~Alive' /\ ~Subscribed' /\ tasks' = {}
    BY <1>19 DEF Farewell, Restart, Forgets, Alive, Subscribed
  <2> QED
    BY <2>1 DEF AuthInv, Alone, MetaOK, AwaitOK, EmptyOK, HandledOK, disk
<1> QED
  BY <1>1, <1>2, <1>3, <1>4, <1>5, <1>6, <1>7, <1>8, <1>9, <1>10, <1>11, <1>12, <1>13,
     <1>14, <1>15, <1>16, <1>17, <1>18, <1>19 DEF Next

-----------------------------------------------------------------------------
\* Theorems
RemoteInv == BaseInv /\ ConfigInv /\ AuthInv /\ SessionInv

\* What is in the inbox is of the relay, and the handlers and sessions of the
\* process are where the records they stand for put them.
LEMMA RemoteInvariant == Spec => []RemoteInv
<1>1. Init => RemoteInv
  <2> SUFFICES ASSUME Init PROVE RemoteInv
    OBVIOUS
  <2>1. BaseInv
    BY Initially
  <2>2. ConfigInv
    <3>1. mark["config"] = 0 /\ ~Subscribed
      BY DEF Init, Subscribed, Slugs
    <3>2. stored["config"] # None => stored["config"].at # 0
      BY <2>1, HeadFacts DEF BaseInv, Slugs
    <3> QED
      BY <3>1, <3>2 DEF ConfigInv
  <2>3. AuthInv
    <3>1. tasks = {} /\ meta = None /\ ~Subscribed /\ ~Alive
      BY DEF Init, Subscribed, Alive
    <3> QED
      BY <3>1 DEF AuthInv, Alone, MetaOK, AwaitOK, EmptyOK, HandledOK
  <2>4. SessionInv
    BY DEF Init, SInit, SessionInv, NoTurn
  <2> QED
    BY <2>1, <2>2, <2>3, <2>4 DEF RemoteInv
<1>2. RemoteInv /\ [Next]_vars => RemoteInv'
  BY BaseStep, ConfigStep, AuthStep, SessionStep DEF RemoteInv
<1> QED
  BY <1>1, <1>2, PTL DEF Spec

\* session-registry.ts, applyConfig(): a session that is kept runs under the
\* configuration and the keys of now, unless it was opening or streaming when
\* they were pushed.
THEOREM SessionsFollow == Spec => []SessionsFollowConfig
<1>1. RemoteInv => SessionsFollowConfig
  BY DEF RemoteInv, SessionInv, SessionsFollowConfig
<1> QED
  BY <1>1, RemoteInvariant, PTL

\* record-client.ts, subscribe() and app-runtime.ts, #onCoreRecord(): a quiet
\* agent runs the newest usable document, whenever it was published.
THEOREM ConfigFollows == Spec => []ConfigFollowsRecord
<1>1. RemoteInv => ConfigFollowsRecord
  <2> SUFFICES ASSUME RemoteInv, Quiet, stored["config"] # None,
                      Usable(stored["config"].value)
               PROVE  config = ApplyCoreConfig(stored["config"].value)
                      /\ "config" \notin missing
    BY DEF ConfigFollowsRecord
  <2>1. Subscribed /\ ~Sent("config")
    BY DEF Quiet, Subscribed, Sent, Waiting
  <2> QED
    BY <2>1 DEF RemoteInv, ConfigInv
<1> QED
  BY <1>1, RemoteInvariant, PTL

\* provider-auth.ts, materializeAuth() and reconcileProviderAuth(): the file, the
\* sync mark and the record agree once the agent is quiet, wherever an earlier
\* process ended, and a tombstone keeps it degraded; overlapping handlers,
\* crossing writers and refused publications excepted.
THEOREM CredentialsAgree == Spec => []CredentialsConverge
<1>1. RemoteInv => CredentialsConverge
  <2> SUFFICES ASSUME RemoteInv, Quiet, ~disturbed
               PROVE  LET head == stored["auth"] IN
                        IF head = None THEN file = None /\ "auth" \in missing
                        ELSE IF head.value = Tombstone THEN "auth" \in missing
                        ELSE /\ file # None /\ file.content = head.value
                             /\ meta = [digest |-> head.value, at |-> head.at]
    BY DEF CredentialsConverge
  <2>1. Subscribed /\ Alive /\ tasks = {} /\ ~dirty /\ ~Sent("auth")
    BY DEF Quiet, Subscribed, Alive, Sent, Waiting
  <2>2. EmptyOK /\ HandledOK /\ (stored["auth"] # None => Known)
    BY <2>1 DEF RemoteInv, AuthInv, AwaitOK
  <2>3. stored["auth"] = None => mark["auth"] = 0
    BY AuthTypes DEF RemoteInv
  <2> QED
    BY <2>1, <2>2, <2>3 DEF EmptyOK, HandledOK, InSync, FileHas
<1> QED
  BY <1>1, RemoteInvariant, PTL

\* presence.ts: while the agent runs, its status is degraded exactly if a record
\* is missing.
THEOREM PresenceTrue == Spec => []PresenceHonest
<1>1. Init => PresenceHonest
  BY DEF Init, PresenceHonest
<1> QED
  BY <1>1, PresenceStep, PTL DEF Spec
=============================================================================
