------------------------------ MODULE AppRuntime -----------------------------
(***************************************************************************)
(* AutogentRuntime (src/runtime/app-runtime.ts): the phases of start() and     *)
(* stop(), the pipeline an inbound message goes through, and the roster entry   *)
(* the agent keeps on the relay (src/nostr/profile.ts), over Memberships.      *)
(*                                                                         *)
(* start() and stop() are two asynchronous functions that may both be under    *)
(* way; each of their awaits is a place between two actions here.  A turn is   *)
(* from submit to settle: module ChannelActor.  Whether a required record is   *)
(* missing changes under the runtime: module RemoteConfig.                     *)
(***************************************************************************)
EXTENDS Memberships, AuthorGate

CONSTANTS
  Msgs,        \* inbound messages that are no commands
  ChannelOf,   \* their channels
  AuthorOf,    \* their authors, of the kinds of AuthorGate
  TypeOf,      \* the type of each channel
  Pushes,      \* the policies records push
  None,
  MaxTroubles  \* publications refused and policies pushed: a bound

ASSUME AppRuntimeAssumption ==
  /\ ChannelOf \in [Msgs -> Channels] /\ TypeOf \in [Channels -> ChannelTypes]
  /\ AuthorOf \in [Msgs -> Authors]
  /\ Pushes \subseteq Policies /\ MaxTroubles \in Nat
  /\ None \notin {"landed", "failed"}
  /\ None \notin [by : {"start", "drain"}, stage : {"asked", "publishing", "over", "failed"},
                  snapshot : [status : {"online", "offline"}, channels : SUBSET Channels]]
  /\ None \notin [status : {"online", "offline"}, channels : SUBSET Channels]

VARIABLES
  phase,      \* #phase
  starting,   \* the await start() is at
  stopping,   \* the await stop() is at
  closing,    \* the actors closeAll waits for
  msg,        \* how far each message is
  policy,     \* respondTo
  degraded,   \* a required record is missing
  armed,      \* the inactivity monitor runs
  dirty,      \* #profileDirty
  queued,     \* drains of #profileSync that have not begun
  sync,       \* the reconcile under way: its snapshot and how far it is
  roster,     \* the newest roster entry the relay holds
  refused,    \* history: the last reconcile failed
  busyAtStop, \* history: stop() was called during start() or a reconcile
  farewell,   \* history: what became of the farewell
  troubles

phases  == <<phase, starting, stopping, closing>>
inbound == <<msg, policy, degraded>>
profile == <<dirty, queued, sync, roster, refused>>
history == <<busyAtStop, farewell>>
vars    == <<membershipVars, phases, inbound, armed, profile, history, troubles>>

PreLive == {"boot", "connecting", "reconciling", "subscribing"}

Stopping == phase \in {"draining", "stopped"}

Snapshot(status) == [status |-> status, channels |-> ActiveRows]

Trouble == troubles < MaxTroubles /\ troubles' = troubles + 1

Init ==
  /\ MInit
  /\ phase = "boot" /\ starting = "called" /\ stopping = "no" /\ closing = {}
  /\ msg = [m \in Msgs |-> "unseen"]
  /\ policy = "owner-only" /\ degraded = FALSE
  /\ armed = FALSE
  /\ dirty = FALSE /\ queued = 0 /\ sync = None /\ refused = FALSE
  /\ roster \in {None, Snapshot("online")}  \* a first run, or one after a crash
  /\ busyAtStop = FALSE /\ farewell = None
  /\ troubles = 0

-----------------------------------------------------------------------------
(* The roster entry.  A sync marks the profile dirty and queues a drain.      *)

Sync == dirty' = TRUE /\ queued' = queued + 1

SyncIf(b) == IF b THEN Sync ELSE UNCHANGED <<dirty, queued>>

Reconcile(by) == sync' = [by |-> by, stage |-> "asked", snapshot |-> Snapshot("online")]

(* Mutant: a drain runs whatever the phase.                                   *)
DrainAnyPhase ==
  /\ queued > 0 /\ sync = None
  /\ queued' = queued - 1
  /\ IF dirty THEN dirty' = FALSE /\ Reconcile("drain") ELSE UNCHANGED <<dirty, sync>>
  /\ UNCHANGED <<membershipVars, phases, inbound, armed, roster, refused, history, troubles>>

DrainProfileSync ==
  /\ queued > 0 /\ sync = None
  /\ queued' = queued - 1
  /\ IF dirty /\ phase \notin PreLive /\ ~Stopping
     THEN dirty' = FALSE /\ Reconcile("drain")
     ELSE UNCHANGED <<dirty, sync>>
  /\ UNCHANGED <<membershipVars, phases, inbound, armed, roster, refused, history, troubles>>

(* The relay tells what it holds: an equal entry is left alone.               *)
ReconcileCompares ==
  /\ sync # None /\ sync.stage = "asked"
  /\ IF roster = sync.snapshot
     THEN sync' = [sync EXCEPT !.stage = "over"]
     ELSE sync' = [sync EXCEPT !.stage = "publishing"]
  /\ UNCHANGED <<membershipVars, phases, inbound, armed, dirty, queued, roster, refused, history,
                 troubles>>

(* The publish lands, and is acknowledged or not.                             *)
ReconcilePublishes ==
  /\ sync # None /\ sync.stage = "publishing"
  /\ roster' = sync.snapshot
  /\ sync' = [sync EXCEPT !.stage = "over"]
  /\ UNCHANGED <<membershipVars, phases, inbound, armed, dirty, queued, refused, history, troubles>>

ReconcileFails ==
  /\ sync # None /\ sync.stage # "over"
  /\ Trouble
  /\ sync' = [sync EXCEPT !.stage = "failed"]
  /\ UNCHANGED <<membershipVars, phases, inbound, armed, dirty, queued, roster, refused, history>>

(* Mutant: the flag is cleared when the reconcile is over.                    *)
DrainEndsClean ==
  /\ sync # None /\ sync.by = "drain" /\ sync.stage \in {"over", "failed"}
  /\ dirty' = (sync.stage = "failed") /\ refused' = (sync.stage = "failed")
  /\ sync' = None
  /\ UNCHANGED <<membershipVars, phases, inbound, armed, queued, roster, history, troubles>>

(* A failed drain leaves the profile dirty for the next one.                  *)
DrainEnds ==
  /\ sync # None /\ sync.by = "drain" /\ sync.stage \in {"over", "failed"}
  /\ dirty' = (dirty \/ sync.stage = "failed")
  /\ refused' = (sync.stage = "failed")
  /\ sync' = None
  /\ UNCHANGED <<membershipVars, phases, inbound, armed, queued, roster, history, troubles>>

-----------------------------------------------------------------------------
(* start().  It does not look whether stop() was called meanwhile.             *)

At(place) == starting = place

Connected ==
  /\ At("called")
  /\ phase' = "reconciling" /\ starting' = "profile"
  /\ Reconcile("start")
  /\ UNCHANGED <<membershipVars, stopping, closing, inbound, armed, dirty, queued, roster, refused,
                 history, troubles>>

StartFails ==
  /\ At("profile") /\ sync.stage = "failed"
  /\ starting' = "failed" /\ sync' = None
  /\ UNCHANGED <<membershipVars, phase, stopping, closing, inbound, armed, dirty, queued, roster,
                 refused, history, troubles>>

Reconciled ==
  /\ At("profile") /\ sync.stage = "over"
  /\ phase' = "subscribing" /\ starting' = "memberships"
  /\ sync' = None
  /\ OpenStream
  /\ UNCHANGED <<stopping, closing, inbound, armed, dirty, queued, roster, refused, history, troubles>>

Discover ==
  /\ At("memberships")
  /\ \/ IdsAnswered /\ SyncIf(FALSE)
     \/ MetadataAnswered /\ SyncIf(Joined(found) \ live # {})
  /\ UNCHANGED <<phases, inbound, armed, sync, roster, refused, history, troubles>>

Discovered ==
  /\ At("memberships") /\ discovery = "done"
  /\ phase' = "recovering" /\ starting' = "sync"
  /\ Sync
  /\ UNCHANGED <<membershipVars, stopping, closing, inbound, armed, sync, roster, refused, history,
                 troubles>>

Started ==
  /\ At("sync") /\ queued = 0 /\ sync = None
  /\ phase' = "running" /\ starting' = "done"
  /\ armed' = (stopping = "no")
  /\ UNCHANGED <<membershipVars, stopping, closing, inbound, profile, history, troubles>>

-----------------------------------------------------------------------------
(* Memberships come and go.                                                  *)

Membership ==
  /\ \/ AddedNotice /\ SyncIf(FALSE)
     \/ \E c \in Channels : LookupAnswered(c) /\ SyncIf(Joined({c}) \ live # {})
     \/ RemovedNotice /\ SyncIf(Leaves(Noted) /\ Noted \notin live)
     \/ \E c \in Channels : /\ Drained(c) /\ Sync
                            /\ UNCHANGED <<relayState, asking, manager, overtaken>>
     \/ \E c \in Channels : ~stopped /\ Change(c) /\ SyncIf(FALSE)
 
  /\ UNCHANGED <<phases, inbound, armed, sync, roster, refused, history, troubles>>

-----------------------------------------------------------------------------
(* stop(), from whatever asks for it.  `stopping = "no"` is a bound: a second   *)
(* stop is not followed when start() has taken the phase back meanwhile.        *)

Stop ==
  /\ ~Stopping /\ stopping = "no"
  /\ phase' = "draining" /\ stopping' = "drain"
  /\ armed' = FALSE
  /\ closing' = live
  /\ busyAtStop' = (starting \notin {"done", "failed"} \/ sync # None)
  /\ UNCHANGED starting

(* SIGTERM, or the relay failing for good.                                   *)
StopCalled == /\ StopMemberships /\ Stop
              /\ UNCHANGED <<registry, inbound, profile, farewell, troubles>>

(* A turn of an actor that was removed counts as nobody's.                    *)
TurnsInFlight == {m \in Msgs : msg[m] = "submitted"}

BusyTurns == {m \in TurnsInFlight : ChannelOf[m] \in live}

Expire == /\ armed /\ BusyTurns = {}
          /\ StopMemberships /\ Stop
          /\ UNCHANGED <<registry, inbound, profile, farewell, troubles>>

ActorCloses(c) ==
  /\ c \in closing
  /\ closing' = closing \ {c}
  /\ UNCHANGED <<membershipVars, phase, starting, stopping, inbound, armed, profile, history, troubles>>

(* closeAll resolves, and forgets every actor there is by then.               *)
ClosedAll ==
  /\ stopping \in {"drain", "abort"} /\ closing = {}
  /\ stopping' = "farewell" /\ live' = {}
  /\ UNCHANGED <<relayState, asking, manager, draining, row, overtaken, phase, starting, closing,
                 inbound, armed, profile, history, troubles>>

(* Mutant: cancelled turns are waited for without a deadline.                 *)
AbortWithoutDeadline ==
  /\ stopping = "drain" /\ stopping' = "abort"
  /\ UNCHANGED <<membershipVars, phase, starting, closing, inbound, armed, profile, history, troubles>>

(* The drain deadline: what runs is cancelled and given two more seconds.      *)
DrainDeadline ==
  /\ stopping \in {"drain", "abort"}
  /\ stopping' = IF stopping = "drain" THEN "abort" ELSE "farewell"
  /\ UNCHANGED <<membershipVars, phase, starting, closing, inbound, armed, profile, history, troubles>>

(* The farewell is published without asking; then everything is closed.        *)
Farewell(ok) ==
  /\ stopping = "farewell" /\ farewell = None
  /\ ~ok => troubles < MaxTroubles
  /\ troubles' = troubles + (IF ok THEN 0 ELSE 1)
  /\ roster' = IF ok THEN Snapshot("offline") ELSE roster
  /\ farewell' = IF ok THEN "landed" ELSE "failed"
  /\ UNCHANGED <<membershipVars, phases, inbound, armed, dirty, queued, sync, refused, busyAtStop>>

Finish ==
  /\ stopping = "farewell" /\ farewell # None
  /\ phase' = "stopped" /\ stopping' = "done"
  /\ UNCHANGED <<membershipVars, starting, closing, inbound, armed, profile, history, troubles>>

-----------------------------------------------------------------------------
(* #onInboundMessage.                                                        *)

TypeSeen(m) == TypeOf[ChannelOf[m]]

(* What is left once the gate has allowed the author.                         *)
Accept(m) ==
  LET c == ChannelOf[m] IN
  IF degraded
  THEN msg' = [msg EXCEPT ![m] = "rejected"] /\ UNCHANGED <<registry, dirty, queued>>
  ELSE /\ msg' = [msg EXCEPT ![m] = "submitted"]
       /\ Add({c})
       /\ SyncIf(c \notin live)

Rejected(m) == msg' = [msg EXCEPT ![m] = "rejected"] /\ UNCHANGED <<registry, dirty, queued>>

Arrives(m) == msg[m] = "unseen" /\ ChannelOf[m] \in subscribed

Unsure(m) == NeedsLookup(AuthorOf[m], TypeSeen(m), policy)

(* An author who has to be looked up may be in the sibling cache already, as      *)
(* one or as none.                                                           *)
AllowedNow(m) == AllowedOutright(AuthorOf[m], TypeSeen(m), policy) \/ Unsure(m)

DeniedNow(m) == Denied(AuthorOf[m], policy) \/ Unsure(m)

InboundDecided(m) ==
  /\ Arrives(m)
  /\ \/ /\ AllowedOutright(AuthorOf[m], TypeSeen(m), policy)
        /\ Accept(m)
     \/ /\ Denied(AuthorOf[m], policy)
        /\ Rejected(m)
  /\ UNCHANGED <<relayState, asking, manager, overtaken, phases, policy, degraded, armed,
                 sync, roster, refused, history, troubles>>

InboundWaits(m) ==
  /\ Arrives(m) /\ Unsure(m)
  /\ msg' = [msg EXCEPT ![m] = "gate"]
  /\ UNCHANGED <<membershipVars, phases, policy, degraded, armed, profile, history, troubles>>

(* The author's profile proves a sibling, or does not, or cannot be had; the      *)
(* policy is not looked at again.                                            *)
GateAnswers(m, sibling) ==
  /\ msg[m] = "gate"
  /\ IF sibling THEN Accept(m) ELSE Rejected(m)
  /\ UNCHANGED <<relayState, asking, manager, overtaken, phases, policy, degraded, armed, sync,
                 roster, refused, history, troubles>>

(* The owner's commands pass the gate by.  cancel and rotate are the actor's:     *)
(* module ChannelActor.                                                      *)
ControlArrives(c, author, mentions, word) ==
  /\ c \in subscribed /\ ControlCommand(author, mentions, word) = "shutdown"
  /\ StopMemberships /\ Stop
  /\ UNCHANGED <<registry, inbound, profile, farewell, troubles>>

Settles(m) ==
  /\ msg[m] = "submitted"
  /\ msg' = [msg EXCEPT ![m] = "settled"]
  /\ UNCHANGED <<membershipVars, phases, policy, degraded, armed, profile, history, troubles>>

(* What the records push: module RemoteConfig.                                *)
PolicyPushed(p) ==
  /\ p # policy /\ Trouble
  /\ policy' = p
  /\ UNCHANGED <<membershipVars, phases, msg, degraded, armed, profile, history>>

Degrades ==
  /\ Trouble
  /\ degraded' = ~degraded
  /\ UNCHANGED <<membershipVars, phases, msg, policy, armed, profile, history>>

-----------------------------------------------------------------------------
(* The process exits once stop() is over.                                     *)
Step ==
  \/ Connected \/ StartFails \/ Reconciled \/ Discover \/ Discovered \/ Started
  \/ DrainProfileSync \/ ReconcileCompares \/ ReconcilePublishes \/ ReconcileFails \/ DrainEnds
  \/ Membership
  \/ StopCalled \/ Expire \/ ClosedAll \/ DrainDeadline \/ Finish
  \/ \E ok \in BOOLEAN : Farewell(ok)
  \/ \E c \in Channels :
       \/ ActorCloses(c)
       \/ \E a \in Authors, mentions \in BOOLEAN, w \in Words : ControlArrives(c, a, mentions, w)
  \/ \E m \in Msgs :
       \/ InboundDecided(m) \/ InboundWaits(m) \/ Settles(m)
       \/ \E sibling \in BOOLEAN : GateAnswers(m, sibling)
  \/ \E p \in Pushes : PolicyPushed(p)
  \/ Degrades

Next == stopping # "done" /\ Step

(* Deadlines pass, queries and publishes of the relay port answer.            *)
Fairness ==
  /\ WF_vars(DrainProfileSync) /\ WF_vars(ReconcileCompares \/ ReconcilePublishes)
  /\ WF_vars(DrainEnds)
  /\ WF_vars(DrainDeadline) /\ WF_vars(\E ok \in BOOLEAN : Farewell(ok)) /\ WF_vars(Finish)

Spec == Init /\ [][Next]_vars /\ Fairness

-----------------------------------------------------------------------------
TypeOK ==
  /\ MTypeOK
  /\ phase \in PreLive \cup {"recovering", "running", "draining", "stopped"}
  /\ starting \in {"called", "profile", "memberships", "sync", "done", "failed"}
  /\ stopping \in {"no", "drain", "abort", "farewell", "done"} /\ closing \subseteq Channels
  /\ msg \in [Msgs -> {"unseen", "gate", "rejected", "submitted", "settled"}]
  /\ policy \in Policies
  /\ {degraded, armed, dirty, refused, busyAtStop} \subseteq BOOLEAN
  /\ queued \in Nat /\ farewell \in {None, "landed", "failed"}
  /\ sync # None => /\ sync.by \in {"start", "drain"}
                    /\ sync.stage \in {"asked", "publishing", "over", "failed"}
  /\ roster # None => roster.status \in {"online", "offline"} /\ roster.channels \subseteq Channels

(* While the agent runs and nothing is being published, the roster entry names  *)
(* the channels of the active rows, unless the last publication failed: a burst  *)
(* of changes is coalesced and none is lost.                                  *)
RosterFollowsRows ==
  phase = "running" /\ stopping = "no" /\ queued = 0 /\ sync = None /\ ~refused
    => roster = Snapshot("online")

(* The last word of the roster entry is not "online", when stop() found the      *)
(* agent started and no reconcile under way.                                  *)
LastWordIsOffline ==
  stopping = "done" /\ farewell = "landed" /\ ~busyAtStop => roster.status = "offline"

(* A stop that began is over some time, whatever the turns do.                *)
StopFinishes == stopping # "no" ~> stopping = "done"
=============================================================================
