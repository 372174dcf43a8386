--------------------------- MODULE AppRuntimeProofs ---------------------------
(* What the runtime guarantees for any channels, messages and policies, however *)
(* grants, revocations, stops and publications are ordered.                    *)
EXTENDS AppRuntime, TLAPS

Rosters == [status : {"online", "offline"}, channels : SUBSET Channels]

Reconciles == [by : {"start", "drain"}, stage : {"asked", "publishing", "over", "failed"},
               snapshot : Rosters]

\* A notice is on its way.
Pending(kind, c) == \E i \in DOMAIN notices : notices[i] = [kind |-> kind, channel |-> c]

\* The last notice about a channel tells what the relay grants.
NoticesTell ==
  \A i \in DOMAIN notices :
    LET c == notices[i].channel
        later(kind) == \E j \in DOMAIN notices :
                         j > i /\ notices[j] = [kind |-> kind, channel |-> c]
    IN /\ notices[i].kind = "removed" /\ c \in granted => later("added")
       /\ notices[i].kind = "added" /\ c \notin granted => later("removed")

\* The discovery has the channel and waits for its metadata.
Discovering(c) == discovery = "metadata" /\ c \in found

\* A granted channel is known, or something that makes it known is under way.
GrantsComing ==
  ~stopped =>
    \A c \in granted \cap Allowed :
      \/ discovery \in {"no", "ids"} \/ Discovering(c)
      \/ c \in known \/ lookups[c] > 0 \/ Pending("added", c)

\* A channel that was revoked, and is known or about to be, is about to be left,
\* unless a lookup was overtaken.
RevocationsComing ==
  ~stopped =>
    \A c \in Channels \ (granted \cup overtaken) :
      c \in known \/ lookups[c] > 0 \/ Discovering(c) => Pending("removed", c)

MemberInv == MTypeOK /\ NoticesTell /\ GrantsComing /\ RevocationsComing

\* The other variables.
RunTypeOK ==
  /\ phase \in PreLive \cup {"recovering", "running", "draining", "stopped"}
  /\ starting \in {"called", "profile", "memberships", "sync", "done", "failed"}
  /\ stopping \in {"no", "drain", "abort", "farewell", "done"} /\ closing \subseteq Channels
  /\ msg \in [Msgs -> {"unseen", "gate", "rejected", "submitted", "settled"}]
  /\ policy \in Policies
  /\ degraded \in BOOLEAN /\ armed \in BOOLEAN /\ dirty \in BOOLEAN /\ refused \in BOOLEAN
  /\ busyAtStop \in BOOLEAN
  /\ queued \in Nat /\ farewell \in {None, "landed", "failed"}
  /\ sync \in {None} \cup Reconciles
  /\ roster \in {None} \cup Rosters

\* Until stop() is called the phase is the one start() has come to, and a reconcile
\* of start() is under way exactly while start() awaits it.
PhaseOK ==
  /\ stopping = "no" =>
       /\ starting = "called" => phase = "boot"
       /\ starting \in {"profile", "failed"} => phase = "reconciling"
       /\ starting = "memberships" => phase = "subscribing"
       /\ starting = "sync" => phase = "recovering"
       /\ starting = "done" => phase = "running"
  /\ starting = "profile" => sync # None /\ sync.by = "start"
  /\ sync # None /\ sync.by = "start" => starting = "profile"

\* Once the agent is live the roster entry follows the rows: it does, a reconcile
\* that will make it so is under way, or the profile is dirty; and a dirty profile
\* waits for a drain, or for the next change after a failed one.
RosterComing ==
  stopping = "no" /\ phase \in {"recovering", "running"} =>
    /\ \/ dirty
       \/ sync = None /\ roster = Snapshot("online")
       \/ sync # None /\ sync.stage = "over" /\ roster = Snapshot("online")
       \/ sync # None /\ sync.stage \in {"asked", "publishing"}
          /\ sync.snapshot = Snapshot("online")
       \/ sync # None /\ sync.stage = "failed"
    /\ dirty => queued > 0 \/ (refused /\ sync = None)

\* A stop that found nothing under way keeps it so, and the farewell is the last
\* thing written.
StopOK ==
  /\ stopping # "no" /\ ~busyAtStop =>
       starting \in {"done", "failed"} /\ sync = None /\ phase \in {"draining", "stopped"}
  /\ farewell # None => stopping \in {"farewell", "done"}
  /\ farewell = "landed" /\ ~busyAtStop => roster \in Rosters
                                       /\ roster.status = "offline"

RestInv == RunTypeOK /\ PhaseOK /\ RosterComing /\ StopOK

RuntimeInv == MemberInv /\ RestInv

-----------------------------------------------------------------------------
(* The memberships.                                                          *)

Notice == [kind : {"added", "removed"}, channel : Channels]

\* The rows and the actors do not matter to what the memberships come to.
LEMMA RegistryKeeps ==
  ASSUME MemberInv, UNCHANGED <<relayState, asking, manager, overtaken>>,
         live' \subseteq Channels, draining' \in [Channels -> Nat],
         row' \in [Channels -> {"none", "active", "removed"}]
  PROVE  MemberInv'
<1>1. UNCHANGED <<granted, changes, stream, notices, discovery, found, lookups, known, subscribed,
                  stopped, overtaken>>
  BY DEF relayState, asking, manager
<1>2. MTypeOK'
  BY <1>1 DEF MemberInv, MTypeOK
<1>3. NoticesTell' /\ GrantsComing' /\ RevocationsComing'
  BY <1>1 DEF MemberInv, NoticesTell, GrantsComing, RevocationsComing, Pending, Discovering
<1> QED
  BY <1>2, <1>3 DEF MemberInv

\* Handling a notice: the others move up, and what it says is overruled by a later
\* one unless the relay still means it.
LEMMA NoticeHandled ==
  ASSUME MTypeOK, NoticesTell, notices # <<>>, notices' = Tail(notices), granted' = granted,
         NEW h, h = Head(notices)
  PROVE  /\ notices' \in Seq(Notice) /\ NoticesTell'
         /\ h \in Notice
         /\ \A kind, c : Pending(kind, c) =>
              Pending(kind, c)' \/ h = [kind |-> kind, channel |-> c]
         /\ h.kind = "removed" /\ h.channel \in granted =>
              Pending("added", h.channel)'
         /\ h.kind = "added" /\ h.channel \notin granted =>
              Pending("removed", h.channel)'
<1>1. notices \in Seq(Notice)
  BY DEF MTypeOK, Notice
<1>2. /\ notices' \in Seq(Notice) /\ h = notices[1] /\ 1 \in DOMAIN notices
      /\ h \in Notice
  BY <1>1
<1>3. \A i \in DOMAIN notices : i # 1 => i - 1 \in DOMAIN notices' /\ notices'[i - 1] = notices[i]
  BY <1>1
<1>4. \A i \in DOMAIN notices' : /\ i + 1 \in DOMAIN notices /\ notices'[i] = notices[i + 1]
                                 /\ i \in Nat
  BY <1>1
<1>5. DOMAIN notices \subseteq Nat
  BY <1>1
<1>6. ASSUME NEW i \in DOMAIN notices, NEW j \in DOMAIN notices, j > i
      PROVE  /\ j - 1 \in DOMAIN notices' /\ notices'[j - 1] = notices[j]
             /\ i # 1 => i - 1 \in DOMAIN notices' /\ j - 1 > i - 1
  BY <1>1, <1>3, <1>6
<1>7. NoticesTell'
  <2>1. ASSUME NEW i \in DOMAIN notices', NEW c, c = notices'[i].channel,
               NEW kind, NEW j \in DOMAIN notices, j > i + 1,
               notices[j] = [kind |-> kind, channel |-> c]
        PROVE  \E k \in DOMAIN notices' :
                 k > i /\ notices'[k] = [kind |-> kind, channel |-> c]
    <3>1. i + 1 \in DOMAIN notices /\ i \in Nat /\ j \in Nat
      BY <1>4, <1>5
    <3>2. j - 1 \in DOMAIN notices' /\ notices'[j - 1] = notices[j] /\ j - 1 > i
      BY <1>6, <2>1, <3>1
    <3> QED
      BY <2>1, <3>2
  <2>2. ASSUME NEW i \in DOMAIN notices', notices'[i].kind = "removed",
               notices'[i].channel \in granted
        PROVE  \E k \in DOMAIN notices' :
                 k > i /\ notices'[k] = [kind |-> "added", channel |-> notices'[i].channel]
    BY <1>4, <2>1, <2>2 DEF NoticesTell
  <2>3. ASSUME NEW i \in DOMAIN notices', notices'[i].kind = "added",
               notices'[i].channel \notin granted
        PROVE  \E k \in DOMAIN notices' :
                 k > i /\ notices'[k] = [kind |-> "removed", channel |-> notices'[i].channel]
    BY <1>4, <2>1, <2>3 DEF NoticesTell
  <2> QED
    BY <2>2, <2>3 DEF NoticesTell
<1>8. ASSUME NEW kind, NEW c, Pending(kind, c)
      PROVE  Pending(kind, c)' \/ h = [kind |-> kind, channel |-> c]
  BY <1>2, <1>3, <1>8 DEF Pending
<1>9. ASSUME h.kind = "removed", h.channel \in granted
      PROVE  Pending("added", h.channel)'
  <2> DEFINE c == h.channel
  <2>1. PICK j \in DOMAIN notices : j > 1 /\ notices[j] = [kind |-> "added", channel |-> c]
    BY <1>2, <1>9 DEF NoticesTell
  <2>2. j - 1 \in DOMAIN notices' /\ notices'[j - 1] = [kind |-> "added", channel |-> c]
    BY <1>2, <1>6, <2>1
  <2> QED
    BY <2>2, <1>2 DEF Pending
<1>10. ASSUME h.kind = "added", h.channel \notin granted
       PROVE  Pending("removed", h.channel)'
  <2> DEFINE c == h.channel
  <2>1. PICK j \in DOMAIN notices : j > 1 /\ notices[j] = [kind |-> "removed", channel |-> c]
    BY <1>2, <1>10 DEF NoticesTell
  <2>2. j - 1 \in DOMAIN notices' /\ notices'[j - 1] = [kind |-> "removed", channel |-> c]
    BY <1>2, <1>6, <2>1
  <2> QED
    BY <2>2, <1>2 DEF Pending
<1> QED
  BY <1>2, <1>7, <1>8, <1>9, <1>10

\* Joining channels types as it should.
LEMMA JoinType ==
  ASSUME MTypeOK, NEW cs \in SUBSET Channels, Join(cs)
  PROVE  /\ known' \subseteq Allowed /\ subscribed' \subseteq known' \ Archived
         /\ live' \subseteq Channels /\ draining' \in [Channels -> Nat]
         /\ row' \in [Channels -> {"none", "active", "removed"}]
         /\ stopped' = stopped
         /\ known' = known \cup (IF stopped THEN {} ELSE cs \cap Allowed)
<1>1. Allowed \subseteq Channels
  BY MembershipsAssumption DEF Allowed
<1>2. /\ known' = known \cup (IF stopped THEN {} ELSE cs \cap Allowed)
      /\ subscribed' = subscribed \cup Joined(cs) /\ stopped' = stopped
      /\ Joined(cs) \subseteq known' \ Archived /\ Joined(cs) \subseteq Channels
  BY <1>1 DEF Join, Joined, Joinable
<1>3. /\ live' \subseteq Channels /\ draining' \in [Channels -> Nat]
      /\ row' \in [Channels -> {"none", "active", "removed"}]
  BY <1>1, <1>2 DEF Join, Add, registry, MTypeOK
<1> QED
  BY <1>2, <1>3 DEF MTypeOK

\* start() opens the stream and asks for its channels.
LEMMA OpenStreamKeeps ==
  ASSUME MemberInv, OpenStream \/ IdsAnswered
  PROVE  MemberInv'
<1>1. UNCHANGED <<granted, changes, notices, lookups, known, subscribed, stopped, live, draining,
                  row, overtaken>>
  BY DEF OpenStream, IdsAnswered, relayState, manager, registry
<1>2. MTypeOK' /\ NoticesTell'
  BY <1>1 DEF MemberInv, MTypeOK, NoticesTell, OpenStream, IdsAnswered
<1>3. CASE OpenStream
  BY <1>1, <1>2, <1>3
     DEF OpenStream, MemberInv, GrantsComing, RevocationsComing, Pending, Discovering
<1>4. CASE IdsAnswered
  <2>1. discovery' = "metadata" /\ found' = granted \cap Allowed
    BY <1>4 DEF IdsAnswered
  <2> QED
    BY <1>1, <1>2, <2>1 DEF MemberInv, GrantsComing, RevocationsComing, Pending, Discovering
<1> QED
  BY <1>3, <1>4

\* The answers of a discovery and of a lookup.
LEMMA JoinKeeps ==
  ASSUME MemberInv, MetadataAnswered \/ \E c \in Channels : LookupAnswered(c)
  PROVE  MemberInv'
<1>0. MTypeOK /\ Allowed \subseteq Channels
  BY MembershipsAssumption DEF MemberInv, Allowed
<1>1. CASE MetadataAnswered
  <2>1. /\ UNCHANGED <<granted, changes, stream, notices, found, lookups, overtaken>>
        /\ discovery = "metadata" /\ discovery' = "done" /\ Join(found)
    BY <1>1 DEF MetadataAnswered, relayState
  <2>2. found \in SUBSET Channels
    BY <1>0 DEF MTypeOK
  <2>3. /\ known' \subseteq Allowed /\ subscribed' \subseteq known' \ Archived
        /\ live' \subseteq Channels /\ draining' \in [Channels -> Nat]
        /\ row' \in [Channels -> {"none", "active", "removed"}]
        /\ stopped' = stopped
        /\ known' = known \cup (IF stopped THEN {} ELSE found \cap Allowed)
    BY <1>0, <2>1, <2>2, JoinType
  <2>4. MTypeOK' /\ NoticesTell'
    BY <1>0, <2>1, <2>3 DEF MTypeOK, MemberInv, NoticesTell
  <2>5. GrantsComing' /\ RevocationsComing'
    BY <2>1, <2>3 DEF MemberInv, GrantsComing, RevocationsComing, Pending, Discovering
  <2> QED
    BY <2>4, <2>5 DEF MemberInv
<1>2. ASSUME NEW c \in Channels, LookupAnswered(c) PROVE MemberInv'
  <2>1. /\ UNCHANGED <<granted, changes, stream, notices, discovery, found, overtaken>>
        /\ lookups[c] > 0 /\ lookups' = [lookups EXCEPT ![c] = @ - 1] /\ Join({c})
    BY <1>2 DEF LookupAnswered, relayState
  <2>2. /\ known' \subseteq Allowed /\ subscribed' \subseteq known' \ Archived
        /\ live' \subseteq Channels /\ draining' \in [Channels -> Nat]
        /\ row' \in [Channels -> {"none", "active", "removed"}]
        /\ stopped' = stopped
        /\ known' = known \cup (IF stopped THEN {} ELSE {c} \cap Allowed)
    BY <1>0, <2>1, JoinType
  <2>3. /\ lookups' \in [Channels -> Nat]
        /\ \A d \in Channels : d # c => lookups'[d] = lookups[d]
    BY <1>0, <2>1 DEF MTypeOK
  <2>4. MTypeOK' /\ NoticesTell'
    BY <1>0, <2>1, <2>2, <2>3 DEF MTypeOK, MemberInv, NoticesTell
  <2>5. GrantsComing'
    <3>1. ASSUME ~stopped, NEW d \in granted \cap Allowed
          PROVE  \/ discovery \in {"no", "ids"} \/ Discovering(d)
                 \/ d \in known' \/ lookups'[d] > 0 \/ Pending("added", d)
      <4>1. CASE d = c
        BY <2>2, <3>1, <4>1
      <4>2. CASE d # c
        BY <1>0, <2>2, <2>3, <3>1, <4>2 DEF MemberInv, GrantsComing
      <4> QED
        BY <4>1, <4>2
    <3> QED
      BY <2>1, <2>2, <3>1 DEF GrantsComing, Pending, Discovering
  <2>6. RevocationsComing'
    <3>1. ASSUME ~stopped, NEW d \in Channels \ (granted \cup overtaken),
                 d \in known' \/ lookups'[d] > 0 \/ Discovering(d)
          PROVE  Pending("removed", d)
      <4>1. CASE d = c
        BY <2>1, <3>1, <4>1 DEF MemberInv, RevocationsComing
      <4>2. CASE d # c
        BY <2>2, <2>3, <3>1, <4>2 DEF MemberInv, RevocationsComing
      <4> QED
        BY <4>1, <4>2
    <3> QED
      BY <2>1, <2>2, <3>1 DEF RevocationsComing, Pending, Discovering
  <2> QED
    BY <2>4, <2>5, <2>6 DEF MemberInv
<1> QED
  BY <1>1, <1>2

\* A notice that the agent was added: its lookup, or the subscription it has, keeps
\* the promise the notice was.
LEMMA AddedKeeps ==
  ASSUME MemberInv, AddedNotice
  PROVE  MemberInv'
<1>0. /\ MTypeOK /\ NoticesTell
      /\ notices # <<>> /\ notices' = Tail(notices)
      /\ UNCHANGED <<granted, changes, stream, discovery, found, known, subscribed, stopped, live,
                     draining, row, overtaken>>
  BY DEF MemberInv, AddedNotice, Noticed, relayState, manager, registry
<1>1. PICK h : h = Head(notices)
  OBVIOUS
<1>2. /\ notices' \in Seq(Notice) /\ NoticesTell' /\ h \in Notice
      /\ \A kind, c : Pending(kind, c) =>
           Pending(kind, c)' \/ h = [kind |-> kind, channel |-> c]
      /\ h.kind = "added" /\ h.channel \notin granted => Pending("removed", h.channel)'
  BY <1>0, <1>1, NoticeHandled
<1>3. /\ h.kind = "added" /\ h.channel \in Channels
      /\ lookups' = IF h.channel \in subscribed THEN lookups
                    ELSE [lookups EXCEPT ![h.channel] = @ + 1]
  BY <1>1, <1>2 DEF AddedNotice, Noticed, Noted, Notice
<1>4. /\ lookups' \in [Channels -> Nat]
      /\ \A c \in Channels : /\ lookups'[c] >= lookups[c]
                             /\ lookups'[c] > lookups[c] => c = h.channel
      /\ h.channel \in known \/ lookups'[h.channel] > 0
  <2>1. lookups \in [Channels -> Nat] /\ subscribed \subseteq known
    BY <1>0 DEF MTypeOK
  <2>2. CASE h.channel \in subscribed
    BY <1>3, <2>1, <2>2
  <2>3. CASE h.channel \notin subscribed
    <3>1. \A c \in Channels :
            lookups'[c] = IF c = h.channel THEN lookups[c] + 1 ELSE lookups[c]
      BY <1>3, <2>1, <2>3
    <3>2. lookups' \in [Channels -> Nat]
      BY <1>3, <2>1, <2>3
    <3> QED
      BY <1>3, <2>1, <3>1, <3>2
  <2> QED
    BY <2>2, <2>3
<1>5. MTypeOK'
  BY <1>0, <1>2, <1>4 DEF MTypeOK, Notice
<1>6. GrantsComing'
  <2>1. ASSUME ~stopped, NEW c \in granted \cap Allowed
        PROVE  \/ discovery \in {"no", "ids"} \/ Discovering(c)
               \/ c \in known \/ lookups'[c] > 0 \/ Pending("added", c)'
    <3>1. \/ discovery \in {"no", "ids"} \/ Discovering(c)
          \/ c \in known \/ lookups[c] > 0 \/ Pending("added", c)
      BY <2>1 DEF MemberInv, GrantsComing
    <3>2. c \in Channels
      BY <2>1, <1>0 DEF MTypeOK
    <3>3. CASE Pending("added", c)
      BY <1>2, <1>4, <3>3
    <3>4. CASE lookups[c] > 0
      BY <1>0, <1>4, <3>2, <3>4 DEF MTypeOK
    <3> QED
      BY <3>1, <3>3, <3>4
  <2> QED
    BY <1>0, <2>1 DEF GrantsComing, Discovering
<1>7. RevocationsComing'
  <2>1. ASSUME ~stopped, NEW c \in Channels \ (granted \cup overtaken),
               c \in known \/ lookups'[c] > 0 \/ Discovering(c)
        PROVE  Pending("removed", c)'
    <3>1. CASE c = h.channel
      BY <1>2, <1>3, <2>1, <3>1
    <3>2. CASE c # h.channel
      <4>1. c \in known \/ lookups[c] > 0 \/ Discovering(c)
        BY <1>0, <1>4, <2>1, <3>2 DEF MTypeOK
      <4>2. Pending("removed", c)
        BY <2>1, <4>1 DEF MemberInv, RevocationsComing
      <4> QED
        BY <1>2, <3>2, <4>2
    <3> QED
      BY <3>1, <3>2
  <2> QED
    BY <1>0, <2>1 DEF RevocationsComing, Discovering
<1> QED
  BY <1>2, <1>5, <1>6, <1>7 DEF MemberInv

\* A notice that the agent was removed: the channel is left, and whoever asked about
\* it before is overtaken.
LEMMA RemovedKeeps ==
  ASSUME MemberInv, RemovedNotice
  PROVE  MemberInv'
<1>0. /\ MTypeOK /\ NoticesTell
      /\ notices # <<>> /\ notices' = Tail(notices)
      /\ UNCHANGED <<granted, changes, stream, discovery, found, lookups, stopped>>
  BY DEF MemberInv, RemovedNotice, Noticed, Leave, relayState
<1>1. PICK h : h = Head(notices)
  OBVIOUS
<1>2. /\ notices' \in Seq(Notice) /\ NoticesTell' /\ h \in Notice
      /\ \A kind, c : Pending(kind, c) =>
           Pending(kind, c)' \/ h = [kind |-> kind, channel |-> c]
      /\ h.kind = "removed" /\ h.channel \in granted => Pending("added", h.channel)'
  BY <1>0, <1>1, NoticeHandled
<1>3. /\ h.kind = "removed" /\ h.channel \in Channels
      /\ known' = known \ {h.channel} /\ subscribed' = subscribed \ {h.channel}
      /\ overtaken' = IF Overtakes(h.channel) THEN overtaken \cup {h.channel} ELSE overtaken
  BY <1>1, <1>2 DEF RemovedNotice, Noticed, Noted, Notice, Leave
<1>4. /\ live' \subseteq Channels /\ draining' \in [Channels -> Nat] /\ row' = row
  BY <1>0 DEF RemovedNotice, Leave, Remove, registry, MTypeOK
<1>5. MTypeOK'
  BY <1>0, <1>2, <1>3, <1>4 DEF MTypeOK, Notice
<1>6. GrantsComing'
  <2>1. ASSUME ~stopped, NEW c \in granted \cap Allowed
        PROVE  \/ discovery \in {"no", "ids"} \/ Discovering(c)
               \/ c \in known' \/ lookups[c] > 0 \/ Pending("added", c)'
    <3>1. \/ discovery \in {"no", "ids"} \/ Discovering(c)
          \/ c \in known \/ lookups[c] > 0 \/ Pending("added", c)
      BY <2>1 DEF MemberInv, GrantsComing
    <3>2. CASE c = h.channel
      BY <1>2, <1>3, <2>1, <3>2
    <3>3. CASE c # h.channel
      BY <1>2, <1>3, <3>1, <3>3
    <3> QED
      BY <3>2, <3>3
  <2> QED
    BY <1>0, <2>1 DEF GrantsComing, Discovering
<1>7. RevocationsComing'
  <2>1. ASSUME ~stopped, NEW c \in Channels \ (granted \cup overtaken'),
               c \in known' \/ lookups[c] > 0 \/ Discovering(c)
        PROVE  Pending("removed", c)'
    <3>1. c # h.channel
      BY <1>3, <2>1 DEF Overtakes, Discovering
    <3>2. Pending("removed", c)
      BY <1>3, <2>1 DEF MemberInv, RevocationsComing
    <3> QED
      BY <1>2, <3>1, <3>2
  <2> QED
    BY <1>0, <2>1 DEF RevocationsComing, Discovering
<1> QED
  BY <1>2, <1>5, <1>6, <1>7 DEF MemberInv

\* The relay changes a membership: the notice it sends is the last one.
LEMMA ChangeKeeps ==
  ASSUME MemberInv, NEW c \in Channels, Change(c)
  PROVE  MemberInv'
<1>0. /\ MTypeOK /\ NoticesTell /\ notices \in Seq(Notice)
      /\ changes' = changes + 1 /\ changes < MaxChanges
      /\ UNCHANGED <<stream, discovery, found, lookups, known, subscribed, stopped, live, draining,
                     row, overtaken>>
  BY DEF MemberInv, Change, manager, registry, MTypeOK, Notice
<1>1. PICK kind \in {"added", "removed"} :
        /\ c \in granted => kind = "removed" /\ granted' = granted \ {c}
        /\ c \notin granted => kind = "added" /\ granted' = granted \cup {c}
        /\ notices' = Append(notices, [kind |-> kind, channel |-> c])
  <2>1. CASE c \in granted
    BY <2>1 DEF Change
  <2>2. CASE c \notin granted
    BY <2>2 DEF Change
  <2> QED
    BY <2>1, <2>2
<1>2. PICK n \in Notice : n = [kind |-> kind, channel |-> c] /\ n.channel = c /\ n.kind = kind
  <2>1. [kind |-> kind, channel |-> c] \in Notice
    BY DEF Notice
  <2> QED
    BY <2>1
<1>3. /\ notices' \in Seq(Notice)
      /\ DOMAIN notices \subseteq DOMAIN notices' /\ DOMAIN notices' \subseteq Nat
      /\ \A i \in DOMAIN notices : notices'[i] = notices[i] /\ Len(notices) + 1 > i
      /\ \A i \in DOMAIN notices' : i \in DOMAIN notices \/ i = Len(notices) + 1
      /\ Len(notices) + 1 \in DOMAIN notices' /\ notices'[Len(notices) + 1] = n
  BY <1>0, <1>1, <1>2
<1>4. \A k, d : Pending(k, d) => Pending(k, d)'
  BY <1>3 DEF Pending
<1>5. Pending(kind, c)'
  BY <1>2, <1>3 DEF Pending
<1>6. /\ granted' \subseteq Channels
      /\ \A d \in Channels : d # c => (d \in granted <=> d \in granted')
      /\ c \in granted' <=> kind = "added"
  BY <1>0, <1>1 DEF MTypeOK
<1>7. MTypeOK'
  <2>1. changes' \in 0 .. MaxChanges
    BY <1>0, MembershipsAssumption DEF MTypeOK
  <2> QED
    BY <1>0, <1>3, <1>6, <2>1 DEF MTypeOK, Notice
<1>8. NoticesTell'
  <2>1. ASSUME NEW i \in DOMAIN notices', NEW k \in {"added", "removed"},
               notices'[i].kind # k,
               k = "added" <=> notices'[i].channel \in granted'
        PROVE  \E j \in DOMAIN notices' :
                 j > i /\ notices'[j] = [kind |-> k, channel |-> notices'[i].channel]
    <3>1. CASE i \in DOMAIN notices /\ notices'[i].channel = c
      <4>1. k = kind
        BY <1>6, <2>1, <3>1
      <4> QED
        BY <1>2, <1>3, <3>1, <4>1
    <3>2. CASE i \in DOMAIN notices /\ notices'[i].channel # c
      <4>1. notices[i] \in Notice /\ notices'[i] = notices[i]
        BY <1>0, <1>3, <3>2
      <4>2. /\ notices[i].kind # k /\ notices[i].kind \in {"added", "removed"}
            /\ k = "added" <=> notices[i].channel \in granted
        BY <1>6, <2>1, <3>2, <4>1 DEF Notice
      <4>3. \E j \in DOMAIN notices :
              j > i /\ notices[j] = [kind |-> k, channel |-> notices[i].channel]
        <5>1. CASE k = "added"
          BY <1>0, <3>2, <4>2, <5>1 DEF NoticesTell
        <5>2. CASE k = "removed"
          BY <1>0, <3>2, <4>2, <5>2 DEF NoticesTell
        <5> QED
          BY <5>1, <5>2
      <4> QED
        BY <1>3, <4>1, <4>3
    <3>3. CASE i \notin DOMAIN notices
      <4>1. notices'[i] = n
        BY <1>3, <3>3
      <4> QED
        BY <1>2, <1>6, <2>1, <4>1
    <3> QED
      BY <3>1, <3>2, <3>3
  <2>2. ASSUME NEW i \in DOMAIN notices', notices'[i].kind = "removed",
               notices'[i].channel \in granted'
        PROVE  \E j \in DOMAIN notices' :
                 j > i /\ notices'[j] = [kind |-> "added", channel |-> notices'[i].channel]
    BY <2>1, <2>2
  <2>3. ASSUME NEW i \in DOMAIN notices', notices'[i].kind = "added",
               notices'[i].channel \notin granted'
        PROVE  \E j \in DOMAIN notices' :
                 j > i /\ notices'[j] = [kind |-> "removed", channel |-> notices'[i].channel]
    BY <2>1, <2>3
  <2> QED
    BY <2>2, <2>3 DEF NoticesTell
<1>9. GrantsComing'
  <2>1. ASSUME ~stopped, NEW d \in granted' \cap Allowed
        PROVE  \/ discovery \in {"no", "ids"} \/ Discovering(d)
               \/ d \in known \/ lookups[d] > 0 \/ Pending("added", d)'
    <3>1. CASE d = c
      BY <1>5, <1>6, <2>1, <3>1
    <3>2. CASE d # c
      <4>1. d \in granted \cap Allowed
        BY <1>6, <2>1, <3>2
      <4>2. \/ discovery \in {"no", "ids"} \/ Discovering(d)
            \/ d \in known \/ lookups[d] > 0 \/ Pending("added", d)
        BY <2>1, <4>1 DEF MemberInv, GrantsComing
      <4> QED
        BY <1>4, <4>2
    <3> QED
      BY <3>1, <3>2
  <2> QED
    BY <1>0, <2>1 DEF GrantsComing, Discovering
<1>10. RevocationsComing'
  <2>1. ASSUME ~stopped, NEW d \in Channels \ (granted' \cup overtaken),
               d \in known \/ lookups[d] > 0 \/ Discovering(d)
        PROVE  Pending("removed", d)'
    <3>1. CASE d = c
      BY <1>1, <1>5, <1>6, <2>1, <3>1
    <3>2. CASE d # c
      <4>1. d \in Channels \ (granted \cup overtaken)
        BY <1>6, <2>1, <3>2
      <4>2. Pending("removed", d)
        BY <2>1, <4>1 DEF MemberInv, RevocationsComing
      <4> QED
        BY <1>4, <4>2
    <3> QED
      BY <3>1, <3>2
  <2> QED
    BY <1>0, <2>1 DEF RevocationsComing, Discovering
<1> QED
  BY <1>7, <1>8, <1>9, <1>10 DEF MemberInv

\* Once stopped nothing is promised.
LEMMA StopKeeps ==
  ASSUME MemberInv, StopMemberships, UNCHANGED registry
  PROVE  MemberInv'
<1>1. /\ UNCHANGED <<granted, changes, known, discovery, found, lookups, overtaken, live, draining,
                     row>>
      /\ stopped' = TRUE /\ subscribed' = {} /\ stream' = FALSE /\ notices' = <<>>
  BY DEF StopMemberships, relayState, registry
<1>2. MTypeOK'
  <2>1. notices' \in Seq([kind : {"added", "removed"}, channel : Channels])
    BY <1>1
  <2> QED
    BY <1>1, <2>1 DEF MemberInv, MTypeOK
<1>3. NoticesTell' /\ GrantsComing' /\ RevocationsComing'
  BY <1>1 DEF NoticesTell, GrantsComing, RevocationsComing
<1> QED
  BY <1>2, <1>3 DEF MemberInv

-----------------------------------------------------------------------------
(* The phases, the roster entry and the stop.                                *)

\* A reconcile under way, and what becomes of it.
LEMMA SyncFields ==
  ASSUME RunTypeOK, sync # None
  PROVE  /\ sync \in Reconciles /\ sync.by \in {"start", "drain"}
         /\ sync.stage \in {"asked", "publishing", "over", "failed"}
         /\ sync.snapshot \in Rosters
         /\ \A x \in {"asked", "publishing", "over", "failed"} :
              LET r == [sync EXCEPT !.stage = x] IN
              /\ r \in Reconciles /\ r # None
              /\ r.by = sync.by /\ r.stage = x /\ r.snapshot = sync.snapshot
<1>1. sync \in Reconciles
  BY DEF RunTypeOK
<1>2. \A r \in Reconciles : r # None
  BY AppRuntimeAssumption DEF Reconciles, Rosters
<1>3. \A x \in {"asked", "publishing", "over", "failed"} :
        LET r == [sync EXCEPT !.stage = x] IN
        r \in Reconciles /\ r.by = sync.by /\ r.stage = x /\ r.snapshot = sync.snapshot
  BY <1>1 DEF Reconciles
<1> QED
  BY <1>1, <1>2, <1>3 DEF Reconciles

\* A snapshot of the rows.
LEMMA SnapshotType ==
  \A status \in {"online", "offline"} :
    /\ Snapshot(status) \in Rosters /\ Snapshot(status) # None
    /\ Snapshot(status).status = status
BY AppRuntimeAssumption DEF Snapshot, Rosters, ActiveRows

\* A reconcile that begins.
LEMMA ReconcileBegins ==
  ASSUME NEW by \in {"start", "drain"}, Reconcile(by)
  PROVE  /\ sync' \in Reconciles /\ sync' # None
         /\ sync'.by = by /\ sync'.stage = "asked" /\ sync'.snapshot = Snapshot("online")
<1>1. sync' \in Reconciles
  BY SnapshotType DEF Reconcile, Reconciles
<1>2. \A r \in Reconciles : r # None
  BY AppRuntimeAssumption DEF Reconciles, Rosters
<1> QED
  BY <1>1, <1>2 DEF Reconcile

\* Equal rows make equal snapshots.
LEMMA SameSnapshot ==
  ASSUME row' = row PROVE Snapshot("online")' = Snapshot("online")
BY DEF Snapshot, ActiveRows

\* Steps outside start(), stop() and the reconcile: either the rows stay, or the
\* profile is marked dirty and a drain is queued.
LEMMA SyncKeeps ==
  ASSUME RestInv, UNCHANGED <<phase, starting, stopping, sync, roster, refused, history>>,
         \/ row' = row /\ UNCHANGED <<dirty, queued>>
         \/ Sync,
         closing' \subseteq Channels, policy' \in Policies, degraded' \in BOOLEAN,
         armed' \in BOOLEAN,
         msg' \in [Msgs -> {"unseen", "gate", "rejected", "submitted", "settled"}]
  PROVE  RestInv'
<1>1. UNCHANGED <<busyAtStop, farewell>>
  BY DEF history
<1>2. dirty' \in BOOLEAN /\ queued' \in Nat
  <2>1. dirty \in BOOLEAN /\ queued \in Nat
    BY DEF RestInv, RunTypeOK
  <2>2. CASE UNCHANGED <<dirty, queued>>
    BY <2>1, <2>2
  <2>3. CASE Sync
    BY <2>1, <2>3 DEF Sync
  <2> QED
    BY <2>2, <2>3
<1>3. RunTypeOK'
  BY <1>1, <1>2 DEF RestInv, RunTypeOK
<1>4. PhaseOK' /\ StopOK'
  BY <1>1 DEF RestInv, PhaseOK, StopOK
<1>5. RosterComing'
  <2>1. CASE row' = row /\ UNCHANGED <<dirty, queued>>
    BY <2>1, SameSnapshot DEF RestInv, RosterComing
  <2>2. CASE Sync
    BY <2>2 DEF Sync, RestInv, RunTypeOK, RosterComing
  <2> QED
    BY <2>1, <2>2
<1> QED
  BY <1>3, <1>4, <1>5 DEF RestInv

\* Adding actors changes a row only where one was not yet there.
LEMMA AddRows ==
  ASSUME MTypeOK, NEW cs \in SUBSET Channels, Add(cs)
  PROVE  /\ live' \subseteq Channels /\ draining' = draining
         /\ row' \in [Channels -> {"none", "active", "removed"}]
         /\ cs \ live = {} => row' = row
BY DEF Add, MTypeOK

\* start() discovers its channels, and memberships come and go.
LEMMA MembershipKeeps ==
  ASSUME RuntimeInv, Discover \/ Membership
  PROVE  RuntimeInv'
<1>0. /\ MemberInv /\ MTypeOK /\ RestInv /\ RunTypeOK /\ Allowed \subseteq Channels
      /\ UNCHANGED <<phases, inbound, armed, sync, roster, refused, history>>
  BY MembershipsAssumption DEF RuntimeInv, MemberInv, RestInv, Discover, Membership, Allowed
<1>1. ASSUME \/ row' = row /\ UNCHANGED <<dirty, queued>>
             \/ Sync
      PROVE  RestInv'
  BY <1>0, <1>1, SyncKeeps DEF phases, inbound, RunTypeOK
<1>2. ASSUME NEW cs \in SUBSET Channels, Join(cs), SyncIf(Joined(cs) \ live # {})
      PROVE  RestInv'
  <2>1. CASE Joined(cs) = {}
    BY <1>1, <1>2, <2>1 DEF Join, registry, SyncIf
  <2>2. CASE Joined(cs) # {}
    <3>1. Joined(cs) \in SUBSET Channels /\ Add(Joined(cs))
      BY <1>0, <1>2, <2>2 DEF Join, Joined, Joinable
    <3> QED
      BY <1>0, <1>1, <1>2, <3>1, AddRows DEF SyncIf
  <2> QED
    BY <2>1, <2>2
<1>3. CASE Discover
  <2>1. CASE IdsAnswered /\ SyncIf(FALSE)
    BY <1>0, <1>1, <2>1, OpenStreamKeeps DEF IdsAnswered, registry, SyncIf, RuntimeInv
  <2>2. CASE MetadataAnswered /\ SyncIf(Joined(found) \ live # {})
    <3>1. found \in SUBSET Channels
      BY <1>0 DEF MTypeOK
    <3> QED
      BY <1>0, <1>2, <2>2, <3>1, JoinKeeps DEF MetadataAnswered, RuntimeInv
  <2> QED
    BY <1>3, <2>1, <2>2 DEF Discover
<1>4. CASE Membership
  <2>1. CASE AddedNotice /\ SyncIf(FALSE)
    BY <1>0, <1>1, <2>1, AddedKeeps DEF AddedNotice, registry, SyncIf, RuntimeInv
  <2>2. ASSUME NEW c \in Channels, LookupAnswered(c), SyncIf(Joined({c}) \ live # {})
        PROVE  RuntimeInv'
    <3>1. {c} \in SUBSET Channels /\ Join({c})
      BY <2>2 DEF LookupAnswered
    <3> QED
      BY <1>0, <1>2, <2>2, <3>1, JoinKeeps DEF RuntimeInv
  <2>3. CASE RemovedNotice /\ SyncIf(Leaves(Noted) /\ Noted \notin live)
    <3>1. row' = row
      BY <2>3 DEF RemovedNotice, Leave, Remove, registry
    <3>2. RestInv'
      <4>1. CASE Leaves(Noted) /\ Noted \notin live
        BY <1>1, <2>3, <4>1 DEF SyncIf
      <4>2. CASE ~(Leaves(Noted) /\ Noted \notin live)
        BY <1>1, <2>3, <3>1, <4>2 DEF SyncIf
      <4> QED
        BY <4>1, <4>2
    <3> QED
      BY <1>0, <2>3, <3>2, RemovedKeeps DEF RuntimeInv
  <2>4. ASSUME NEW c \in Channels, Drained(c), Sync,
               UNCHANGED <<relayState, asking, manager, overtaken>>
        PROVE  RuntimeInv'
    <3>1. /\ live' \subseteq Channels /\ draining' \in [Channels -> Nat]
          /\ row' \in [Channels -> {"none", "active", "removed"}]
      BY <1>0, <2>4 DEF Drained, MTypeOK
    <3> QED
      BY <1>0, <1>1, <2>4, <3>1, RegistryKeeps DEF RuntimeInv
  <2>5. ASSUME NEW c \in Channels, Change(c), SyncIf(FALSE)
        PROVE  RuntimeInv'
    BY <1>0, <1>1, <2>5, ChangeKeeps DEF Change, registry, SyncIf, RuntimeInv
  <2> QED
    BY <1>4, <2>1, <2>2, <2>3, <2>4, <2>5 DEF Membership
<1> QED
  BY <1>3, <1>4

\* Steps that leave the memberships alone.
LEMMA MembersSame ==
  ASSUME MemberInv, UNCHANGED membershipVars
  PROVE  MemberInv'
BY RegistryKeeps DEF membershipVars, registry, MemberInv, MTypeOK

-----------------------------------------------------------------------------
(* Messages, policies and closing actors.                                    *)

\* Steps that move one message or the policy, or close an actor.
LEMMA InboundKeeps ==
  ASSUME RuntimeInv,
         \/ \E c \in Channels : ActorCloses(c)
         \/ \E m \in Msgs : InboundWaits(m) \/ Settles(m)
         \/ \E p \in Pushes : PolicyPushed(p)
         \/ Degrades
  PROVE  RuntimeInv'
<1>1. /\ UNCHANGED membershipVars
      /\ UNCHANGED <<phase, starting, stopping, sync, roster, refused, history, armed>>
      /\ UNCHANGED <<dirty, queued>>
  BY DEF ActorCloses, InboundWaits, Settles, PolicyPushed, Degrades, phases, inbound, profile
<1>2. row' = row
  BY <1>1 DEF membershipVars, registry
<1>3. RunTypeOK /\ RestInv /\ MemberInv
  BY DEF RuntimeInv, RestInv
<1>4. closing' \subseteq Channels
  BY <1>3 DEF ActorCloses, InboundWaits, Settles, PolicyPushed, Degrades, phases, RunTypeOK
<1>5. policy' \in Policies
  <2>1. Pushes \subseteq Policies
    BY AppRuntimeAssumption
  <2> QED
    BY <1>3, <2>1 DEF ActorCloses, InboundWaits, Settles, PolicyPushed, Degrades, inbound, RunTypeOK
<1>6. degraded' \in BOOLEAN /\ armed' \in BOOLEAN
  BY <1>1, <1>3 DEF ActorCloses, InboundWaits, Settles, PolicyPushed, Degrades, inbound, RunTypeOK
<1>7. msg' \in [Msgs -> {"unseen", "gate", "rejected", "submitted", "settled"}]
  BY <1>3 DEF ActorCloses, InboundWaits, Settles, PolicyPushed, Degrades, inbound, RunTypeOK
<1>8. RestInv'
  BY <1>1, <1>2, <1>3, <1>4, <1>5, <1>6, <1>7, SyncKeeps
<1> QED
  BY <1>1, <1>3, <1>8, MembersSame DEF RuntimeInv

\* Messages that are decided.
LEMMA DecisionKeeps ==
  ASSUME RuntimeInv, NEW m \in Msgs,
         InboundDecided(m) \/ \E sibling \in BOOLEAN : GateAnswers(m, sibling)
  PROVE  RuntimeInv'
<1>1. /\ UNCHANGED <<relayState, asking, manager, overtaken, phases, policy, degraded, armed, sync,
                     roster, refused, history>>
      /\ Accept(m) \/ Rejected(m)
  BY DEF InboundDecided, GateAnswers
<1>2. RunTypeOK /\ RestInv /\ MemberInv /\ MTypeOK
  BY DEF RuntimeInv, RestInv, MemberInv
<1>3. {ChannelOf[m]} \in SUBSET Channels
  BY AppRuntimeAssumption
<1>4. msg' \in [Msgs -> {"unseen", "gate", "rejected", "submitted", "settled"}]
  BY <1>1, <1>2 DEF Accept, Rejected, RunTypeOK
<1>5. /\ closing' \subseteq Channels /\ policy' \in Policies /\ degraded' \in BOOLEAN
      /\ armed' \in BOOLEAN /\ UNCHANGED <<phase, starting, stopping>>
  BY <1>1, <1>2 DEF phases, RunTypeOK
<1>6. CASE UNCHANGED <<registry, dirty, queued>>
  <2>1. row' = row /\ UNCHANGED membershipVars
    BY <1>1, <1>6 DEF registry, membershipVars
  <2> QED
    BY <1>1, <1>2, <1>4, <1>5, <1>6, <2>1, SyncKeeps, MembersSame DEF RuntimeInv
<1>7. CASE Add({ChannelOf[m]}) /\ SyncIf(ChannelOf[m] \notin live)
  <2>1. /\ live' \subseteq Channels /\ draining' = draining
        /\ row' \in [Channels -> {"none", "active", "removed"}]
        /\ ChannelOf[m] \in live => row' = row
    BY <1>2, <1>3, <1>7, AddRows
  <2>2. \/ row' = row /\ UNCHANGED <<dirty, queued>>
        \/ Sync
    BY <1>7, <2>1 DEF SyncIf
  <2>3. RestInv'
    BY <1>1, <1>2, <1>4, <1>5, <2>2, SyncKeeps
  <2>4. MemberInv'
    BY <1>1, <1>2, <2>1, RegistryKeeps DEF MTypeOK
  <2> QED
    BY <2>3, <2>4 DEF RuntimeInv
<1> QED
  BY <1>1, <1>6, <1>7 DEF Accept, Rejected

-----------------------------------------------------------------------------
(* start(), with the reconcile it awaits.                                     *)

\* start() up to its subscriptions: the agent is not live yet, so the roster entry
\* owes nothing.
LEMMA StartKeeps ==
  ASSUME RuntimeInv, Connected \/ StartFails \/ Reconciled
  PROVE  RuntimeInv'
<1>1. /\ UNCHANGED <<stopping, closing, msg, policy, degraded, armed, dirty, queued, roster, refused,
                     busyAtStop, farewell>>
      /\ starting \in {"called", "profile"}
  BY DEF Connected, StartFails, Reconciled, At, phases, inbound, history
<1>2. RunTypeOK /\ PhaseOK /\ StopOK /\ MemberInv
  BY DEF RuntimeInv, RestInv
<1>3. MemberInv'
  <2>1. CASE UNCHANGED membershipVars
    BY <1>2, <2>1, MembersSame
  <2>2. CASE OpenStream
    BY <1>2, <2>2, OpenStreamKeeps
  <2> QED
    BY <2>1, <2>2 DEF Connected, StartFails, Reconciled
<1>4. RunTypeOK' /\ PhaseOK'
  <2>1. CASE Connected
    <3>1. /\ phase' = "reconciling" /\ starting' = "profile"
          /\ sync' \in Reconciles /\ sync' # None /\ sync'.by = "start"
      BY <2>1, ReconcileBegins DEF Connected
    <3> QED
      BY <1>1, <1>2, <3>1 DEF RunTypeOK, PhaseOK, PreLive
  <2>2. CASE StartFails
    BY <1>1, <1>2, <2>2 DEF StartFails, At, RunTypeOK, PhaseOK
  <2>3. CASE Reconciled
    BY <1>1, <1>2, <2>3 DEF Reconciled, At, RunTypeOK, PhaseOK, PreLive
  <2> QED
    BY <2>1, <2>2, <2>3
<1>5. RosterComing'
  <2>1. stopping = "no" => phase' \in {"reconciling", "subscribing"}
    BY <1>2 DEF Connected, StartFails, Reconciled, At, PhaseOK
  <2> QED
    BY <1>1, <2>1 DEF RosterComing
<1>6. StopOK'
  BY <1>1, <1>2 DEF StopOK
<1> QED
  BY <1>3, <1>4, <1>5, <1>6 DEF RuntimeInv, RestInv

\* start() goes live: it marks the profile dirty, and waits for the drain.
LEMMA LiveKeeps ==
  ASSUME RuntimeInv, Discovered \/ Started
  PROVE  RuntimeInv'
<1>1. /\ UNCHANGED membershipVars
      /\ UNCHANGED <<stopping, closing, msg, policy, degraded, sync, roster, refused, busyAtStop,
                     farewell>>
  BY DEF Discovered, Started, At, inbound, profile, history
<1>2. RunTypeOK /\ PhaseOK /\ StopOK /\ RosterComing /\ MemberInv
  BY DEF RuntimeInv, RestInv
<1>3. row' = row
  BY <1>1 DEF membershipVars, registry
<1>4. CASE Discovered
  <2>1. /\ starting = "memberships" /\ phase' = "recovering" /\ starting' = "sync"
        /\ dirty' = TRUE /\ queued' = queued + 1 /\ armed' = armed
    BY <1>4 DEF Discovered, At, Sync
  <2>2. RunTypeOK' /\ PhaseOK' /\ StopOK'
    BY <1>1, <1>2, <2>1 DEF RunTypeOK, PhaseOK, StopOK
  <2>3. RosterComing'
    BY <1>1, <1>2, <2>1 DEF RosterComing, RunTypeOK
  <2> QED
    BY <1>1, <1>2, <2>2, <2>3, MembersSame DEF RuntimeInv, RestInv
<1>5. CASE Started
  <2>1. /\ starting = "sync" /\ phase' = "running" /\ starting' = "done"
        /\ armed' \in BOOLEAN /\ UNCHANGED <<dirty, queued>>
    BY <1>5 DEF Started, At, profile
  <2>2. RunTypeOK' /\ PhaseOK' /\ StopOK'
    BY <1>1, <1>2, <2>1 DEF RunTypeOK, PhaseOK, StopOK
  <2>3. RosterComing'
    BY <1>1, <1>2, <1>3, <2>1, SameSnapshot DEF RosterComing, PhaseOK
  <2> QED
    BY <1>1, <1>2, <2>2, <2>3, MembersSame DEF RuntimeInv, RestInv
<1> QED
  BY <1>4, <1>5

-----------------------------------------------------------------------------
(* The reconcile.                                                            *)

\* A drain: a dirty profile of a live agent is snapshot.
LEMMA DrainKeeps ==
  ASSUME RuntimeInv, DrainProfileSync
  PROVE  RuntimeInv'
<1>1. /\ UNCHANGED membershipVars
      /\ UNCHANGED <<phase, starting, stopping, closing, msg, policy, degraded, armed, roster,
                     refused, busyAtStop, farewell>>
      /\ queued > 0 /\ sync = None /\ queued' = queued - 1
  BY DEF DrainProfileSync, phases, inbound, history
<1>2. RunTypeOK /\ PhaseOK /\ StopOK /\ RosterComing /\ MemberInv
  BY DEF RuntimeInv, RestInv
<1>3. row' = row /\ MemberInv'
  BY <1>1, <1>2, MembersSame DEF membershipVars, registry
<1>4. queued' \in Nat
  BY <1>1, <1>2 DEF RunTypeOK
<1>5. CASE dirty /\ phase \notin PreLive /\ ~Stopping
  <2>1. /\ dirty' = FALSE /\ sync' \in Reconciles /\ sync' # None
        /\ sync'.by = "drain" /\ sync'.stage = "asked" /\ sync'.snapshot = Snapshot("online")
    BY <1>5, ReconcileBegins DEF DrainProfileSync
  <2>5. RunTypeOK'
    <3>1. dirty' \in BOOLEAN /\ sync' \in {None} \cup Reconciles
      BY <2>1
    <3>2. UNCHANGED <<phase, starting, stopping, closing, msg, policy, degraded, armed, roster,
                      refused, busyAtStop, farewell>>
      BY <1>1
    <3> QED
      BY <1>2, <1>4, <3>1, <3>2 DEF RunTypeOK
  <2>6. PhaseOK'
    BY <1>1, <1>2, <2>1 DEF PhaseOK
  <2>3. StopOK'
    BY <1>1, <1>2, <1>5 DEF StopOK, Stopping
  <2>4. RosterComing'
    BY <1>1, <1>3, <2>1, SameSnapshot DEF RosterComing
  <2> QED
    BY <1>3, <2>3, <2>4, <2>5, <2>6 DEF RuntimeInv, RestInv
<1>6. CASE ~(dirty /\ phase \notin PreLive /\ ~Stopping)
  <2>1. UNCHANGED <<dirty, sync>>
    BY <1>6 DEF DrainProfileSync
  <2>2. RunTypeOK' /\ PhaseOK' /\ StopOK'
    BY <1>1, <1>2, <1>4, <2>1 DEF RunTypeOK, PhaseOK, StopOK
  <2>3. phase \in {"recovering", "running"} => dirty = FALSE
    BY <1>2, <1>6 DEF PreLive, Stopping, RunTypeOK
  <2>4. RosterComing'
    BY <1>1, <1>2, <1>3, <2>1, <2>3, SameSnapshot DEF RosterComing
  <2> QED
    BY <1>3, <2>2, <2>4 DEF RuntimeInv, RestInv
<1> QED
  BY <1>5, <1>6

\* What the relay answers a reconcile.
LEMMA ReconcileKeeps ==
  ASSUME RuntimeInv, ReconcileCompares \/ ReconcilePublishes \/ ReconcileFails
  PROVE  RuntimeInv'
<1>1. /\ UNCHANGED membershipVars
      /\ UNCHANGED <<phase, starting, stopping, closing, msg, policy, degraded, armed, dirty, queued,
                     refused, busyAtStop, farewell>>
      /\ sync # None
  BY DEF ReconcileCompares, ReconcilePublishes, ReconcileFails, phases, inbound, history
<1>2. RunTypeOK /\ PhaseOK /\ StopOK /\ RosterComing /\ MemberInv
  BY DEF RuntimeInv, RestInv
<1>3. row' = row /\ MemberInv'
  BY <1>1, <1>2, MembersSame DEF membershipVars, registry
<1>4. /\ sync.snapshot \in Rosters
      /\ \E x \in {"asked", "publishing", "over", "failed"} : sync' = [sync EXCEPT !.stage = x]
  BY <1>1, <1>2, SyncFields DEF ReconcileCompares, ReconcilePublishes, ReconcileFails
<1>5. /\ sync' \in Reconciles /\ sync' # None
      /\ sync'.by = sync.by /\ sync'.snapshot = sync.snapshot
  BY <1>1, <1>2, <1>4, SyncFields
<1>6. /\ ReconcileCompares => /\ sync.stage = "asked" /\ roster' = roster
                              /\ roster = sync.snapshot => sync'.stage = "over"
                              /\ roster # sync.snapshot => sync'.stage = "publishing"
      /\ ReconcilePublishes => /\ sync.stage = "publishing" /\ roster' = sync.snapshot
                               /\ sync'.stage = "over"
      /\ ReconcileFails => roster' = roster /\ sync'.stage = "failed"
  BY <1>1, <1>2, SyncFields DEF ReconcileCompares, ReconcilePublishes, ReconcileFails
<1>7. RunTypeOK'
  <2>1. roster' \in {None} \cup Rosters
    BY <1>2, <1>4, <1>6 DEF RunTypeOK
  <2> QED
    BY <1>1, <1>2, <1>5, <2>1 DEF RunTypeOK
<1>8. PhaseOK'
  BY <1>1, <1>2, <1>5 DEF PhaseOK
<1>9. StopOK'
  <2>1. stopping # "no" => busyAtStop
    BY <1>1, <1>2 DEF StopOK, RunTypeOK
  <2>2. farewell # None => busyAtStop
    BY <1>2, <2>1 DEF StopOK
  <2> QED
    BY <1>1, <1>2, <2>1, <2>2, AppRuntimeAssumption DEF StopOK
<1>10. RosterComing'
  BY <1>1, <1>2, <1>3, <1>5, <1>6, SameSnapshot DEF RosterComing
<1> QED
  BY <1>3, <1>7, <1>8, <1>9, <1>10 DEF RuntimeInv, RestInv

\* A drain that is over.
LEMMA DrainEndsKeeps ==
  ASSUME RuntimeInv, DrainEnds
  PROVE  RuntimeInv'
<1>1. /\ UNCHANGED membershipVars
      /\ UNCHANGED <<phase, starting, stopping, closing, msg, policy, degraded, armed, queued,
                     roster, busyAtStop, farewell>>
      /\ sync # None /\ sync.by = "drain" /\ sync.stage \in {"over", "failed"} /\ sync' = None
  BY DEF DrainEnds, phases, inbound, history
<1>2. RunTypeOK /\ PhaseOK /\ StopOK /\ RosterComing /\ MemberInv
  BY DEF RuntimeInv, RestInv
<1>3. row' = row /\ MemberInv'
  BY <1>1, <1>2, MembersSame DEF membershipVars, registry
<1>4. /\ dirty' \in BOOLEAN /\ refused' \in BOOLEAN
      /\ dirty' <=> dirty \/ sync.stage = "failed"
      /\ refused' <=> sync.stage = "failed"
  BY <1>2 DEF DrainEnds, RunTypeOK
<1>5. RunTypeOK' /\ PhaseOK' /\ StopOK'
  BY <1>1, <1>2, <1>4 DEF RunTypeOK, PhaseOK, StopOK
<1>6. RosterComing'
  BY <1>1, <1>2, <1>3, <1>4, SameSnapshot DEF RosterComing
<1> QED
  BY <1>3, <1>5, <1>6 DEF RuntimeInv, RestInv

-----------------------------------------------------------------------------
(* stop().                                                                   *)

\* A stop that begins notes whether it found something under way.
LEMMA StopBegins ==
  ASSUME RuntimeInv, StopMemberships, Stop, UNCHANGED <<registry, inbound, profile, farewell>>
  PROVE  RuntimeInv'
<1>1. /\ UNCHANGED <<starting, msg, policy, degraded, dirty, queued, sync, roster, refused, farewell>>
      /\ stopping = "no" /\ phase' = "draining" /\ stopping' = "drain" /\ armed' = FALSE
      /\ closing' = live
      /\ busyAtStop' = (starting \notin {"done", "failed"} \/ sync # None)
  BY DEF Stop, inbound, profile
<1>2. RunTypeOK /\ PhaseOK /\ StopOK /\ MemberInv /\ MTypeOK
  BY DEF RuntimeInv, RestInv, MemberInv
<1>3. MemberInv'
  BY <1>2, StopKeeps
<1>4. busyAtStop' \in BOOLEAN /\ armed' \in BOOLEAN /\ closing' \subseteq Channels
  BY <1>1, <1>2 DEF MTypeOK
<1>5. RunTypeOK'
  BY <1>1, <1>2, <1>4 DEF RunTypeOK
<1>6. PhaseOK' /\ RosterComing'
  BY <1>1, <1>2 DEF PhaseOK, RosterComing
<1>7. StopOK'
  <2>1. farewell = None
    BY <1>1, <1>2 DEF StopOK
  <2>2. ~busyAtStop' => starting \in {"done", "failed"} /\ sync = None
    BY <1>1
  <2> QED
    BY <1>1, <2>1, <2>2, AppRuntimeAssumption DEF StopOK
<1> QED
  BY <1>3, <1>5, <1>6, <1>7 DEF RuntimeInv, RestInv

\* Closing, the deadline, the farewell and the end.
LEMMA StoppingKeeps ==
  ASSUME RuntimeInv,
         ClosedAll \/ DrainDeadline \/ Finish \/ \E ok \in BOOLEAN : Farewell(ok)
  PROVE  RuntimeInv'
<1>1. /\ UNCHANGED <<relayState, asking, manager, draining, row, overtaken>>
      /\ UNCHANGED <<starting, closing, msg, policy, degraded, armed, dirty, queued, sync, refused,
                     busyAtStop>>
      /\ live' \in {live, {}}
      /\ stopping \in {"drain", "abort", "farewell"}
  BY DEF ClosedAll, DrainDeadline, Finish, Farewell, membershipVars, registry, phases, inbound,
         profile, history
<1>2. RunTypeOK /\ PhaseOK /\ StopOK /\ MemberInv /\ MTypeOK
  BY DEF RuntimeInv, RestInv, MemberInv
<1>3. MemberInv'
  BY <1>1, <1>2, RegistryKeeps DEF MTypeOK
<1>4. stopping' \in {"abort", "farewell", "done"} /\ phase' \in {phase, "stopped"}
  BY <1>1 DEF ClosedAll, DrainDeadline, Finish, Farewell, membershipVars, phases
<1>5. /\ farewell' \in {None, "landed", "failed"}
      /\ farewell' # farewell => stopping = "farewell" /\ stopping' = "farewell"
      /\ farewell # None => stopping' \in {"farewell", "done"}
  BY <1>1, <1>2 DEF ClosedAll, DrainDeadline, Finish, Farewell, history, phases, RunTypeOK, StopOK
<1>6. \/ roster' = roster /\ (farewell' = farewell \/ farewell' = "failed")
      \/ roster' \in Rosters /\ roster'.status = "offline"
  BY SnapshotType DEF ClosedAll, DrainDeadline, Finish, Farewell, history, profile
<1>7. RunTypeOK'
  BY <1>1, <1>2, <1>4, <1>5, <1>6 DEF RunTypeOK
<1>8. PhaseOK' /\ RosterComing'
  BY <1>1, <1>2, <1>4 DEF PhaseOK, RosterComing
<1>9. StopOK'
  <2>1. stopping' # "no" /\ ~busyAtStop' =>
          starting' \in {"done", "failed"} /\ sync' = None /\ phase' \in {"draining", "stopped"}
    BY <1>1, <1>2, <1>4 DEF StopOK
  <2>2. farewell' # None => stopping' \in {"farewell", "done"}
    BY <1>5
  <2>3. farewell' = "landed" /\ ~busyAtStop' => roster' \in Rosters /\ roster'.status = "offline"
    BY <1>1, <1>2, <1>6 DEF StopOK
  <2> QED
    BY <2>1, <2>2, <2>3 DEF StopOK
<1> QED
  BY <1>3, <1>7, <1>8, <1>9 DEF RuntimeInv, RestInv

-----------------------------------------------------------------------------
(* The specification.                                                        *)

\* The invariant holds at first, whatever an earlier run left on the relay.
LEMMA RuntimeInit == Init => RuntimeInv
<1> SUFFICES ASSUME Init PROVE RuntimeInv
  OBVIOUS
<1>1. MTypeOK
  <2>1. /\ 0 \in 0 .. MaxChanges
        /\ <<>> \in Seq([kind : {"added", "removed"}, channel : Channels])
        /\ [c \in Channels |-> 0] \in [Channels -> Nat]
    BY MembershipsAssumption
  <2> QED
    BY <2>1 DEF Init, MInit, MTypeOK
<1>2. DOMAIN notices = {}
  BY DEF Init, MInit
<1>3. NoticesTell /\ GrantsComing
  BY <1>2 DEF Init, MInit, NoticesTell, GrantsComing
<1>4. RevocationsComing
  <2>1. \A c \in Channels : c \notin known /\ lookups[c] = 0 /\ ~Discovering(c)
    BY DEF Init, MInit, Discovering
  <2> QED
    BY <2>1 DEF RevocationsComing
<1>5. RunTypeOK
  <2>1. roster \in {None} \cup Rosters
    BY SnapshotType DEF Init
  <2>2. [m \in Msgs |-> "unseen"] \in
          [Msgs -> {"unseen", "gate", "rejected", "submitted", "settled"}]
    OBVIOUS
  <2>3. msg \in [Msgs -> {"unseen", "gate", "rejected", "submitted", "settled"}]
    BY <2>2 DEF Init
  <2> QED
    BY <2>1, <2>3 DEF Init, RunTypeOK, Policies, PreLive
<1>6. PhaseOK /\ RosterComing /\ StopOK
  BY AppRuntimeAssumption DEF Init, PhaseOK, RosterComing, StopOK
<1> QED
  BY <1>1, <1>3, <1>4, <1>5, <1>6 DEF RuntimeInv, MemberInv, RestInv

\* Every step keeps it.
LEMMA RuntimeNext == RuntimeInv /\ [Next]_vars => RuntimeInv'
<1> SUFFICES ASSUME RuntimeInv, [Next]_vars PROVE RuntimeInv'
  OBVIOUS
<1>1. CASE Connected \/ StartFails \/ Reconciled
  BY <1>1, StartKeeps
<1>2. CASE Discover \/ Membership
  BY <1>2, MembershipKeeps
<1>3. CASE Discovered \/ Started
  BY <1>3, LiveKeeps
<1>4. CASE DrainProfileSync
  BY <1>4, DrainKeeps
<1>5. CASE ReconcileCompares \/ ReconcilePublishes \/ ReconcileFails
  BY <1>5, ReconcileKeeps
<1>6. CASE DrainEnds
  BY <1>6, DrainEndsKeeps
<1>7. CASE \/ StopCalled \/ Expire
           \/ \E c \in Channels, a \in Authors, mentions \in BOOLEAN, w \in Words :
                ControlArrives(c, a, mentions, w)
  BY <1>7, StopBegins DEF StopCalled, Expire, ControlArrives
<1>8. CASE ClosedAll \/ DrainDeadline \/ Finish \/ \E ok \in BOOLEAN : Farewell(ok)
  BY <1>8, StoppingKeeps
<1>9. CASE \/ \E c \in Channels : ActorCloses(c)
           \/ \E m \in Msgs : InboundWaits(m) \/ Settles(m)
           \/ \E p \in Pushes : PolicyPushed(p)
           \/ Degrades
  BY <1>9, InboundKeeps
<1>10. CASE \E m \in Msgs : \/ InboundDecided(m)
                            \/ \E sibling \in BOOLEAN : GateAnswers(m, sibling)
  BY <1>10, DecisionKeeps
<1>11. CASE UNCHANGED vars
  <2>1. /\ UNCHANGED membershipVars
        /\ UNCHANGED <<phase, starting, stopping, closing, msg, policy, degraded, armed, dirty,
                       queued, sync, roster, refused, history>>
    BY <1>11 DEF vars, phases, inbound, profile
  <2>2. row' = row
    BY <2>1 DEF membershipVars, registry
  <2>3. RunTypeOK /\ RestInv /\ MemberInv
    BY DEF RuntimeInv, RestInv
  <2>4. RestInv'
    BY <2>1, <2>2, <2>3, SyncKeeps DEF RunTypeOK
  <2> QED
    BY <2>1, <2>3, <2>4, MembersSame DEF RuntimeInv
<1> QED
  BY <1>1, <1>2, <1>3, <1>4, <1>5, <1>6, <1>7, <1>8, <1>9, <1>10, <1>11 DEF Next, Step

\* It holds throughout.
LEMMA RuntimeInvariant == Spec => []RuntimeInv
BY RuntimeInit, RuntimeNext, PTL DEF Spec

\* The runtime's variables keep their types.
THEOREM RuntimeTypes == Spec => []TypeOK
<1>1. RuntimeInv => TypeOK
  <2> SUFFICES ASSUME RuntimeInv PROVE TypeOK
    OBVIOUS
  <2>1. MTypeOK /\ RunTypeOK
    BY DEF RuntimeInv, MemberInv, RestInv
  <2>2. sync # None => sync \in Reconciles
    BY <2>1 DEF RunTypeOK
  <2>3. roster # None => roster \in Rosters
    BY <2>1 DEF RunTypeOK
  <2>4. sync # None => /\ sync.by \in {"start", "drain"}
                       /\ sync.stage \in {"asked", "publishing", "over", "failed"}
    BY <2>2 DEF Reconciles
  <2>5. roster # None => roster.status \in {"online", "offline"} /\ roster.channels \subseteq Channels
    BY <2>3 DEF Rosters
  <2> QED
    BY <2>1, <2>4, <2>5 DEF RunTypeOK, TypeOK
<1> QED
  BY <1>1, RuntimeInvariant, PTL

\* Once everything asked is answered the agent knows exactly the channels it was
\* granted, save those whose removal a lookup did not learn of
\* (MembershipManager.#join, #leave and #handleNotification).
THEOREM MembershipsSettled == Spec => []MembershipsSettle
<1>1. RuntimeInv => MembershipsSettle
  <2> SUFFICES ASSUME RuntimeInv, discovery = "done", ~stopped, notices = <<>>,
                      \A c \in Channels : lookups[c] = 0
               PROVE  /\ granted \cap Allowed \subseteq known
                      /\ known \subseteq granted \cup overtaken
    BY DEF MembershipsSettle
  <2>1. GrantsComing /\ RevocationsComing /\ MTypeOK
    BY DEF RuntimeInv, MemberInv
  <2>2. \A kind, c : ~Pending(kind, c)
    BY DEF Pending
  <2>3. granted \cap Allowed \subseteq known
    BY <2>1, <2>2 DEF GrantsComing, Discovering, MTypeOK
  <2>4. known \subseteq Channels
    BY <2>1, MembershipsAssumption DEF MTypeOK, Allowed
  <2>5. known \subseteq granted \cup overtaken
    BY <2>1, <2>2, <2>4 DEF RevocationsComing
  <2> QED
    BY <2>3, <2>5
<1> QED
  BY <1>1, RuntimeInvariant, PTL

\* While the agent runs and nothing is being published the roster entry names the
\* channels of the active rows, unless the last publication failed: no change that
\* comes in while a reconcile is under way is lost (#requestProfileSync and
\* #drainProfileSync).
THEOREM RosterFollows == Spec => []RosterFollowsRows
<1>1. RuntimeInv => RosterFollowsRows
  <2> SUFFICES ASSUME RuntimeInv, phase = "running", stopping = "no", queued = 0, sync = None,
                      ~refused
               PROVE  roster = Snapshot("online")
    BY DEF RosterFollowsRows
  <2>1. RosterComing
    BY DEF RuntimeInv, RestInv
  <2> QED
    BY <2>1 DEF RosterComing
<1> QED
  BY <1>1, RuntimeInvariant, PTL

\* A stop that found the agent started and no reconcile under way leaves the relay
\* with "offline" as the last word, once the farewell landed (stop()).
THEOREM OfflineIsLastWord == Spec => []LastWordIsOffline
<1>1. RuntimeInv => LastWordIsOffline
  BY DEF RuntimeInv, RestInv, StopOK, LastWordIsOffline
<1> QED
  BY <1>1, RuntimeInvariant, PTL
=============================================================================
