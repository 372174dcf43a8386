----------------------------- MODULE RemoteConfig -----------------------------
(***************************************************************************)
(* The records an agent is configured by: its configuration, the provider      *)
(* credentials and the tracing keys, each the newest event of its slug on the   *)
(* relay.                                                                       *)
(*                                                                           *)
(*   src/main.ts, bootstrapRemote()      the records are fetched at boot        *)
(*   src/nostr/record-client.ts          publishing, subscribing                *)
(*   src/runtime/provider-auth.ts        auth.json, its sync mark, the watcher  *)
(*   src/runtime/app-runtime.ts          the handlers of pushed records         *)
(*   src/nostr/presence.ts               what the owner is shown                *)
(*                                                                           *)
(* Credentials live in a file that pi refreshes and that is written in two      *)
(* steps, the file and then the mark that says which record it came from; the   *)
(* process may end in between.  Handlers of the credentials await the disk and  *)
(* the relay and so overlap; those of the other records do not.                 *)
(***************************************************************************)
EXTENDS AgentConfig, SessionRegistry, Sequences

CONSTANTS
  Creds,      \* contents of auth.json
  Tombstone,  \* the value null
  Documents,  \* configuration documents the owner publishes
  TracingKeys,
  Provisioned, \* what the relay may hold of each slug when the agent first starts
  MaxTime,    \* a bound on the clock, in seconds
  MaxPushes,  \* records the owner publishes: a bound
  MaxRefreshes, \* refreshes of the credentials by pi: a bound
  MaxStamp,   \* created_at of the last write-back: a bound, since two contents
              \* that cross can write each other back for ever
  MaxFaults   \* restarts and refused publications: a bound

Slugs == {"config", "auth", "langfuse"}

Values == [config |-> Documents, auth |-> Creds \cup {Tombstone},
           langfuse |-> TracingKeys \cup {Tombstone}]

(* What a record may hold: a document from before the agent first starts may    *)
(* be any.                                                                     *)
Earlier == {p["config"].value : p \in {q \in Provisioned : q["config"] # None}}
Contents == [Values EXCEPT !["config"] = @ \cup Earlier]
HeadsOf(slug) == [at : Nat \ {0}, value : Contents[slug]]

ASSUME RemoteAssumption ==
  /\ MaxTime \in Nat \ {0}
  /\ Tombstone \notin Creds \cup TracingKeys
  /\ \A p \in Provisioned :
       DOMAIN p = Slugs /\ \A s \in Slugs : p[s] \in HeadsOf(s) \cup {None}

ASSUME NothingThere ==
  /\ \A s \in Slugs : None \notin HeadsOf(s)
  /\ None \notin [content : Creds, mtime : Nat]
  /\ None \notin [digest : Creds, at : Nat]

VARIABLES
  now,
  stored,     \* the relay's newest record of each slug
  inbox,      \* records sent on the subscription and not handled yet
  file,       \* auth.json: content and modification time
  meta,       \* its sync mark: the content's digest and the record's created_at
  phase,
  mark,       \* created_at of the newest record handled, per slug
  missing,    \* required records that are missing
  config, keys,
  presence,
  tasks,      \* handlers of the credentials under way
  dirty,      \* the watcher saw the file change
  disturbed,  \* history: such handlers have overlapped, writers crossed or a
              \* publication was refused
  pushes, refreshes, faults

relay   == <<stored, inbox>>
disk    == <<file, meta>>
applied == <<config, keys>>
bounds  == <<pushes, refreshes, faults>>
vars == <<now, relay, disk, phase, mark, missing, applied, presence, tasks,
          dirty, disturbed, bounds, sessionVars>>

Larger(a, b) == IF a >= b THEN a ELSE b
At(head) == IF head = None THEN 0 ELSE head.at

(* createdAt of a record published over the head of which its author knows.    *)
NextStamp(known) == Larger(now, known + 1)

Settings == [config |-> config, keys |-> IF config["tracing"] THEN keys ELSE None]

Subscribed == phase \in {"recovering", "running", "draining"}

Init ==
  /\ now = 1
  /\ stored \in Provisioned /\ inbox = <<>>
  /\ file = None /\ meta = None
  /\ phase = "down"
  /\ mark = [s \in Slugs |-> 0] /\ missing = {}
  /\ config = Base /\ keys = None
  /\ presence = None
  /\ tasks = {} /\ dirty = FALSE
  /\ disturbed = FALSE
  /\ pushes = 0 /\ refreshes = 0 /\ faults = 0
  /\ SInit

-------------------------------------------------------------------------------
(* The world: the clock, the owner and pi *)

Tick ==
  /\ now < MaxTime /\ now' = now + 1
  /\ UNCHANGED <<relay, disk, phase, mark, missing, applied, presence, tasks,
                 dirty, disturbed, bounds, sessionVars>>

Pushed(slug, head) == [slug |-> slug, at |-> head.at, value |-> head.value]

(* The relay keeps the newest record of a slug and sends it to its             *)
(* subscribers; of two with the same stamp the lower id stays.                 *)
Stores(slug, head, keep) ==
  LET newest == [stored EXCEPT ![slug] = head] IN
    IF keep THEN /\ stored' = newest
                 /\ inbox' = IF Subscribed
                               THEN Append(inbox, Pushed(slug, head)) ELSE inbox
            ELSE UNCHANGED relay

OwnerPublishes ==
  /\ pushes < MaxPushes
  /\ \E slug \in Slugs : \E value \in Values[slug] :
       Stores(slug, [at |-> NextStamp(At(stored[slug])), value |-> value], TRUE)
  /\ pushes' = pushes + 1
  /\ UNCHANGED <<now, disk, phase, mark, missing, applied, presence, tasks, dirty,
                 disturbed, refreshes, faults, sessionVars>>

(* pi renews its token during a turn. *)
Refresh ==
  /\ refreshes < MaxRefreshes /\ \E k \in Keys : Streaming(k)
  /\ \E c \in Creds :
       /\ file # None /\ file.content # c
       /\ file' = [content |-> c, mtime |-> now]
  /\ dirty' = (dirty \/ phase \in {"recovering", "running"})
  /\ refreshes' = refreshes + 1
  /\ UNCHANGED <<now, relay, meta, phase, mark, missing, applied, presence, tasks,
                 disturbed, pushes, faults, sessionVars>>

-------------------------------------------------------------------------------
(* Boot: bootstrapRemote(), then start() *)

BootConfig ==
  /\ phase = "down" /\ phase' = "auth"
  /\ LET head == stored["config"]
         usable == head # None /\ Usable(head.value)
     IN  /\ config' = IF usable THEN ApplyCoreConfig(head.value) ELSE Base
         /\ mark' = [s \in Slugs |-> IF s = "config" /\ usable THEN head.at ELSE 0]
         /\ missing' = IF usable THEN {} ELSE {"config"}
  /\ UNCHANGED <<now, relay, disk, keys, presence, tasks, dirty, disturbed, bounds,
                 sessionVars>>

Work(kind, stage, content, at) ==
  [kind |-> kind, stage |-> stage, content |-> content, at |-> at]

Diverged == meta = None \/ meta.digest # file.content
(* Mutant: only the stamps are compared. *)
ReconcileByStamp(head) ==
  CASE head # None /\ head.value = Tombstone -> {}
    [] head = None /\ file = None -> {}
    [] head = None /\ file # None ->
         {Work("back", "publish", file.content, NextStamp(0))}
    [] OTHER ->
         IF file = None \/ meta = None \/ head.at > meta.at
           THEN {Work("apply", "file", head.value, head.at)} ELSE {}

(* reconcileProviderAuth(): the work there is to do, if any. *)
Reconciliation(head) ==
  CASE head # None /\ head.value = Tombstone -> {}
    [] head = None /\ file = None -> {}
    [] head = None /\ file # None ->
         {Work("back", "publish", file.content, NextStamp(0))}
    [] head # None /\ head.value # Tombstone /\ file = None ->
         {Work("apply", "file", head.value, head.at)}
    [] OTHER ->
         IF Diverged /\ file.mtime > head.at
           THEN {Work("back", "publish", file.content, NextStamp(head.at))}
           ELSE IF Diverged \/ head.at > meta.at
             THEN {Work("apply", "file", head.value, head.at)}
             ELSE {}

BootAuth ==
  /\ phase = "auth" /\ phase' = "langfuse"
  /\ LET head == stored["auth"] IN
       /\ tasks' = Reconciliation(head)
       /\ mark' = [mark EXCEPT !["auth"] = At(head)]
       /\ missing' = missing \cup
            (IF (head = None /\ file = None) \/ (head # None /\ head.value = Tombstone)
               THEN {"auth"} ELSE {})
  /\ UNCHANGED <<now, relay, disk, applied, presence, dirty, disturbed, bounds,
                 sessionVars>>

KeysOf(head) == IF head = None \/ head.value = Tombstone THEN None ELSE head.value

BootLangfuse ==
  /\ phase = "langfuse" /\ tasks = {} /\ phase' = "starting"
  /\ keys' = KeysOf(stored["langfuse"])
  /\ mark' = [mark EXCEPT !["langfuse"] = At(stored["langfuse"])]
  /\ UNCHANGED <<now, relay, disk, missing, config, presence, tasks, dirty,
                 disturbed, bounds, sessionVars>>

(* The records the relay has, which it sends first. *)
FromStore(slug) ==
  IF stored[slug] = None THEN <<>> ELSE <<Pushed(slug, stored[slug])>>
Backlog == FromStore("config") \o FromStore("auth") \o FromStore("langfuse")

(* Mutant: only what is published from now on is sent. *)
StartRemoteLive ==
  /\ phase = "starting" /\ phase' = "recovering"
  /\ inbox' = <<>>
  /\ UNCHANGED <<now, stored, disk, mark, missing, applied, presence, tasks, dirty,
                 disturbed, bounds, sessionVars>>

(* #startRemote() *)
StartRemote ==
  /\ phase = "starting" /\ phase' = "recovering"
  /\ inbox' = Backlog
  /\ UNCHANGED <<now, stored, disk, mark, missing, applied, presence, tasks, dirty,
                 disturbed, bounds, sessionVars>>

Announced(lacking) == IF lacking = {} THEN "online" ELSE "degraded"

Started ==
  /\ phase = "recovering" /\ phase' = "running"
  /\ presence' = Announced(missing)
  /\ UNCHANGED <<now, relay, disk, mark, missing, applied, tasks, dirty, disturbed,
                 bounds, sessionVars>>

(* #maybeLeaveDegraded() *)
Found(slug) ==
  /\ missing' = missing \ {slug}
  /\ presence' = IF slug \in missing /\ missing' = {} /\ phase = "running"
                   THEN "online" ELSE presence

-------------------------------------------------------------------------------
(* Pushed records *)

Handles(slug) ==
  /\ Subscribed /\ inbox # <<>> /\ Head(inbox).slug = slug
  /\ inbox' = Tail(inbox)

Newer(head) == head.at > mark[head.slug]

Marks(head) == mark' = [mark EXCEPT ![head.slug] = head.at]

IgnoreRecord ==
  /\ Subscribed /\ inbox # <<>>
  /\ LET head == Head(inbox) IN
       ~Newer(head) \/ (head.slug = "config" /\ ~Parses(head.value))
  /\ inbox' = Tail(inbox)
  /\ UNCHANGED <<now, stored, disk, phase, mark, missing, applied, presence, tasks,
                 dirty, disturbed, bounds, sessionVars>>

(* #onCoreRecord(): policy, permits and history limit bind now, the rest with  *)
(* the sessions opened from here on.                                           *)
OnCoreRecord ==
  /\ Handles("config")
  /\ LET head == Head(inbox) IN
       /\ Newer(head) /\ Parses(head.value) /\ Marks(head)
       /\ config' = ApplyCoreConfig(head.value)
  /\ Found("config")
  /\ ApplyConfig
  /\ UNCHANGED <<now, stored, disk, phase, keys, tasks, dirty, disturbed, bounds>>

(* Mutant: sessions stay as they are. *)
KeysOnly ==
  /\ Handles("langfuse")
  /\ LET head == Head(inbox) IN
       /\ Newer(head) /\ Marks(head)
       /\ keys' = KeysOf(head)
  /\ UNCHANGED <<now, stored, disk, phase, missing, config, presence, tasks, dirty,
                 disturbed, bounds, sessionVars>>

(* #onLangfuseRecord(): idle sessions are rotated, since the keys bind when one *)
(* is opened.                                                                  *)
OnLangfuseRecord ==
  /\ Handles("langfuse")
  /\ LET head == Head(inbox) IN
       /\ Newer(head) /\ Marks(head)
       /\ keys' = KeysOf(head)
  /\ ApplyConfig
  /\ UNCHANGED <<now, stored, disk, phase, missing, config, presence, tasks, dirty,
                 disturbed, bounds>>

Begins(task) ==
  /\ tasks' = tasks \cup {task}
  /\ disturbed' = (disturbed \/ tasks # {})

OnAuthRecord ==
  /\ Handles("auth")
  /\ LET head == Head(inbox) IN
       /\ Newer(head) /\ head.value # Tombstone /\ Marks(head)
       /\ Begins(Work("apply", "read", head.value, head.at))
  /\ UNCHANGED <<now, stored, disk, phase, missing, applied, presence, dirty,
                 bounds, sessionVars>>

(* A tombstone closes the agent at once; the file stays. *)
OnRevocation ==
  /\ Handles("auth")
  /\ LET head == Head(inbox) IN
       /\ Newer(head) /\ head.value = Tombstone /\ Marks(head)
  /\ missing' = missing \cup {"auth"}
  /\ presence' = "degraded"
  /\ disturbed' = (disturbed \/ tasks # {})
  /\ UNCHANGED <<now, stored, disk, phase, applied, tasks, dirty, bounds,
                 sessionVars>>

-------------------------------------------------------------------------------
(* Handlers of the credentials, continued *)

Moves(task, stage) == tasks' = (tasks \ {task}) \cup {[task EXCEPT !.stage = stage]}
Ends(task) == tasks' = tasks \ {task}

Synced(task) == meta' = [digest |-> task.content, at |-> task.at]

(* The local file decides: the echo of a write-back only moves the mark.       *)
ReadLocal ==
  \E task \in tasks :
    /\ task.stage = "read"
    /\ Moves(task, IF file # None /\ file.content = task.content
                     THEN "echo" ELSE "file")
    /\ UNCHANGED <<now, relay, disk, phase, mark, missing, applied, presence, dirty,
                   disturbed, bounds, sessionVars>>

MaterializeFile ==
  \E task \in tasks :
    /\ task.stage = "file" /\ Moves(task, "meta")
    /\ file' = [content |-> task.content, mtime |-> now]
    /\ dirty' = (dirty \/ phase \in {"recovering", "running"})
    /\ UNCHANGED <<now, relay, meta, phase, mark, missing, applied, presence,
                   disturbed, bounds, sessionVars>>

MaterializeMeta ==
  \E task \in tasks :
    /\ task.stage = "meta" /\ Ends(task) /\ Synced(task)
    /\ IF phase = "langfuse" THEN UNCHANGED <<missing, presence>> ELSE Found("auth")
    /\ UNCHANGED <<now, relay, file, phase, mark, applied, dirty, disturbed, bounds,
                   sessionVars>>

(* The echo leaves missing as it is. *)
RecordSynced ==
  \E task \in tasks :
    /\ task.stage = "echo" /\ Ends(task) /\ Synced(task)
    /\ UNCHANGED <<now, relay, file, phase, mark, missing, applied, presence, dirty,
                   disturbed, bounds, sessionVars>>

(* The watcher fires once the file has been quiet for its debounce, which       *)
(* outlasts the writing of the sync mark after it; content that matches the    *)
(* mark is the agent's own writing.                                            *)
WatcherFires ==
  /\ \A task \in tasks : task.stage # "meta"
  /\ dirty /\ dirty' = FALSE /\ phase \in {"recovering", "running"}
  /\ Begins(Work("back", "look", file.content, 0))
  /\ UNCHANGED <<now, relay, disk, phase, mark, missing, applied, presence,
                 bounds, sessionVars>>

OwnWriting(task) == meta # None /\ meta.digest = task.content

WatcherLooks ==
  \E task \in tasks :
    /\ task.stage = "look"
    /\ IF OwnWriting(task) THEN Ends(task)
       ELSE tasks' = (tasks \ {task}) \cup
              {Work("back", "publish", task.content, NextStamp(mark["auth"]))}
    /\ UNCHANGED <<now, relay, disk, phase, mark, missing, applied, presence, dirty,
                   disturbed, bounds, sessionVars>>

(* A write-back reaches the relay: its stamp is over the head the agent knows, *)
(* which need not be the relay's.                                              *)
Crossed(task) == At(stored["auth"]) # mark["auth"] /\ task.stage = "publish"

PublishAccepted ==
  \E task \in tasks :
    /\ task.stage = "publish" /\ task.at <= MaxStamp /\ Moves(task, "ok")
    /\ \E keep \in BOOLEAN :
         /\ task.at > At(stored["auth"]) => keep
         /\ task.at < At(stored["auth"]) => ~keep
         /\ Stores("auth", [at |-> task.at, value |-> task.content], keep)
    /\ disturbed' = (disturbed \/ Crossed(task))
    /\ UNCHANGED <<now, disk, phase, mark, missing, applied, presence, dirty,
                   bounds, sessionVars>>

PublishRefused ==
  /\ faults < MaxFaults /\ faults' = faults + 1
  /\ \E task \in tasks : task.stage = "publish" /\ Ends(task)
  /\ disturbed' = TRUE
  /\ UNCHANGED <<now, relay, disk, phase, mark, missing, applied, presence, dirty,
                 pushes, refreshes, sessionVars>>

(* #writeBackAuth() moves the watermark to the head it published. *)
WriteBackAcked ==
  \E task \in tasks :
    /\ task.stage = "ok" /\ Moves(task, "sync")
    /\ mark' = [mark EXCEPT !["auth"] = task.at]
    /\ UNCHANGED <<now, relay, disk, phase, missing, applied, presence, dirty, disturbed,
                   bounds, sessionVars>>

WriteBackSynced ==
  \E task \in tasks :
    /\ task.stage = "sync" /\ Ends(task) /\ Synced(task)
    /\ UNCHANGED <<now, relay, file, phase, mark, missing, applied, presence, dirty,
                   disturbed, bounds, sessionVars>>

-------------------------------------------------------------------------------
(* Sessions and turns; a degraded agent takes no prompts *)

Outside == <<now, relay, disk, phase, mark, missing, applied, presence, tasks, dirty,
             disturbed, bounds>>

TurnStarts(k) ==
  /\ phase = "running" /\ missing = {}
  /\ Acquire(k) \/ Open(k, Settings)
  /\ UNCHANGED Outside

TurnStep(k) ==
  /\ Opened(k) \/ OpenFails(k) \/ Prompt(k) \/ Settle(k) \/ Release(k)
  /\ UNCHANGED Outside

-------------------------------------------------------------------------------
(* The end of the process *)

(* What is in memory is gone. *)
Forgets ==
  /\ mark' = [s \in Slugs |-> 0] /\ missing' = {}
  /\ config' = Base /\ keys' = None
  /\ inbox' = <<>> /\ tasks' = {} /\ dirty' = FALSE
  /\ DisposeAll

Stop ==
  /\ phase \in {"recovering", "running"} /\ phase' = "draining"
  /\ dirty' = FALSE
  /\ UNCHANGED <<now, relay, disk, mark, missing, applied, presence, tasks, disturbed,
                 bounds, sessionVars>>

Farewell ==
  /\ phase = "draining" /\ phase' = "stopped"
  /\ presence' = "offline"
  /\ Forgets
  /\ UNCHANGED <<now, stored, disk, disturbed, bounds>>

(* A crash, or a new process after a stop: only the disk and the relay remain. *)
Restart ==
  /\ phase # "down" /\ faults < MaxFaults /\ faults' = faults + 1
  /\ phase' = "down"
  /\ presence' = None
  /\ Forgets
  /\ UNCHANGED <<now, stored, disk, disturbed, pushes, refreshes>>

Next ==
  \/ Tick \/ OwnerPublishes \/ Refresh
  \/ BootConfig \/ BootAuth \/ BootLangfuse \/ StartRemote \/ Started
  \/ IgnoreRecord \/ OnCoreRecord \/ OnLangfuseRecord \/ OnAuthRecord \/ OnRevocation
  \/ ReadLocal \/ MaterializeFile \/ MaterializeMeta \/ RecordSynced
  \/ WatcherFires \/ WatcherLooks
  \/ PublishAccepted \/ PublishRefused \/ WriteBackAcked \/ WriteBackSynced
  \/ \E k \in Keys : TurnStarts(k) \/ TurnStep(k)
  \/ Stop \/ Farewell \/ Restart

Spec == Init /\ [][Next]_vars

-------------------------------------------------------------------------------
(* Properties *)

TypeOK ==
  /\ now \in 1..MaxTime
  /\ phase \in {"down", "auth", "langfuse", "starting", "recovering", "running",
                "draining", "stopped"}
  /\ mark \in [Slugs -> Nat] /\ missing \subseteq {"config", "auth"}
  /\ keys \in TracingKeys \cup {None}
  /\ presence \in {None, "online", "degraded", "offline"}
  /\ \A task \in tasks : task.content \in Creds /\ task.at \in Nat
  /\ disturbed \in BOOLEAN /\ dirty \in BOOLEAN
  /\ \A k \in Keys : turn[k].stage \in {"none", "opening", "held", "streaming"}

(* Nothing is under way and nothing more will happen by itself.                *)
Quiet == phase = "running" /\ inbox = <<>> /\ tasks = {} /\ ~dirty

(* provider-auth.ts, materializeAuth() and reconcileProviderAuth(): whatever    *)
(* step a process ended between, once a later one is quiet its credentials      *)
(* file, the sync mark and the relay's record agree, and revoked credentials    *)
(* keep the agent degraded; handlers that overlapped, writers that crossed and  *)
(* refused publications excepted.                                               *)
CredentialsConverge ==
  Quiet /\ ~disturbed =>
    LET head == stored["auth"] IN
      IF head = None THEN file = None /\ "auth" \in missing
      ELSE IF head.value = Tombstone THEN "auth" \in missing
      ELSE /\ file # None /\ file.content = head.value
           /\ meta = [digest |-> head.value, at |-> head.at]

(* record-client.ts, subscribe() and app-runtime.ts, #onCoreRecord(): a quiet    *)
(* agent runs the newest document if it is usable, pushed at any moment of the  *)
(* boot or later, and no longer misses it.                                      *)
ConfigFollowsRecord ==
  (Quiet /\ stored["config"] # None /\ Usable(stored["config"].value)) =>
     config = ApplyCoreConfig(stored["config"].value) /\ "config" \notin missing

(* presence.ts, "presence-is-status is the only management channel": while the   *)
(* agent runs, the status it repeats is degraded exactly if a record is missing. *)
PresenceHonest == phase = "running" => presence = Announced(missing)

(* session-registry.ts, applyConfig(): a session kept for the next turns runs    *)
(* under the current configuration and keys, unless it was opening or streaming  *)
(* when they were pushed.                                                       *)
SessionsFollowConfig ==
  \A k \in Keys : session[k] \notin {NoSession, Settings} => k \in busyAtPush
===============================================================================
