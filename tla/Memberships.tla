----------------------------- MODULE Memberships -----------------------------
(***************************************************************************)
(* Which channels the agent is in, three times over: what the relay grants,   *)
(* what MembershipManager has subscribed to (src/nostr/memberships.ts), and   *)
(* what ChannelRegistry runs an actor for and keeps a row of                  *)
(* (src/runtime/channel-registry.ts, src/state/channel-repository.ts).        *)
(*                                                                         *)
(* Grants and revocations reach the agent as notices, in order; metadata and  *)
(* discovery are queries whose answers come later.  Module AppRuntime adds     *)
(* what the runtime does when a channel comes or goes.                        *)
(***************************************************************************)
EXTENDS Integers, Sequences, FiniteSets

CONSTANTS
  Channels,   \* channel ids
  Archived,   \* those whose metadata says archived
  Allowlist,  \* channelAllowlist; empty allows every channel
  MaxChanges  \* grants and revocations while the process runs: a bound

ASSUME MembershipsAssumption ==
  /\ Archived \subseteq Channels /\ Allowlist \subseteq Channels
  /\ MaxChanges \in Nat

VARIABLES
  granted,    \* the relay's membership lists
  changes,    \* how often they changed
  stream,     \* whether the membership subscription is open
  notices,    \* notices sent on it and not handled yet
  discovery,  \* start(): "no", "ids" and "metadata" asked, "done"
  found,      \* the channel ids discovered
  lookups,    \* metadata lookups under way for an added notice, per channel
  known,      \* #channels
  subscribed, \* #subscriptions
  stopped,    \* #stopped
  live,       \* the actors of the registry
  draining,   \* actors removed from it that still drain, per channel
  row,        \* status of each channel's row
  overtaken   \* history: channels revoked while a lookup of them was under way

relayState == <<granted, changes>>
asking     == <<stream, notices, discovery, found, lookups>>
manager    == <<known, subscribed, stopped>>
registry   == <<live, draining, row>>
membershipVars == <<relayState, asking, manager, registry, overtaken>>

(* The rows and the memberships an earlier run of the process left behind.    *)
MInit ==
  /\ granted \in SUBSET Channels /\ changes = 0
  /\ stream = FALSE /\ notices = <<>>
  /\ discovery = "no" /\ found = {}
  /\ lookups = [c \in Channels |-> 0]
  /\ known = {} /\ subscribed = {} /\ stopped = FALSE
  /\ live = {} /\ draining = [c \in Channels |-> 0]
  /\ row \in [Channels -> {"none", "active", "removed"}]
  /\ overtaken = {}

ActiveRows == {c \in Channels : row[c] = "active"}

Allowed == IF Allowlist = {} THEN Channels ELSE Allowlist

-----------------------------------------------------------------------------
(* ChannelRegistry.  add keeps an existing actor, and writes the row only     *)
(* when it makes a new one.                                                  *)

Add(cs) == /\ live' = live \cup cs
           /\ row' = [c \in Channels |-> IF c \in cs \ live THEN "active" ELSE row[c]]
           /\ UNCHANGED draining

Remove(c) == /\ live' = live \ {c}
             /\ draining' = IF c \in live THEN [draining EXCEPT ![c] = @ + 1] ELSE draining
             /\ UNCHANGED row

(* The removed actor has closed and its sessions are released.                *)
Drained(c) == /\ draining[c] > 0
              /\ draining' = [draining EXCEPT ![c] = @ - 1]
              /\ row' = [row EXCEPT ![c] = "removed"]
              /\ UNCHANGED live

-----------------------------------------------------------------------------
(* MembershipManager.                                                        *)

(* What #join makes of a set of channels, and the ones it subscribes to.      *)
Joinable(cs) == IF stopped THEN {} ELSE cs \cap Allowed

Joined(cs) == Joinable(cs) \ (Archived \cup subscribed)

Join(cs) == /\ known' = known \cup Joinable(cs)
            /\ subscribed' = subscribed \cup Joined(cs)
            /\ IF Joined(cs) = {} THEN UNCHANGED registry ELSE Add(Joined(cs))
            /\ UNCHANGED stopped

(* Whether #leave goes on to onChannelRemoved.                                *)
Leaves(c) == c \in known \cup subscribed

(* Mutant: the metadata of a channel that was left is kept.                   *)
LeaveKeepsMetadata(c) == /\ subscribed' = subscribed \ {c}
                         /\ IF Leaves(c) THEN Remove(c) ELSE UNCHANGED registry
                         /\ UNCHANGED <<known, stopped>>

Leave(c) == /\ known' = known \ {c} /\ subscribed' = subscribed \ {c}
            /\ IF Leaves(c) THEN Remove(c) ELSE UNCHANGED registry
            /\ UNCHANGED stopped

(* start(): the notification stream first, then discovery.                    *)
OpenStream ==
  /\ discovery = "no"
  /\ stream' = TRUE /\ discovery' = "ids"
  /\ UNCHANGED <<relayState, notices, found, lookups, manager, registry, overtaken>>

IdsAnswered ==
  /\ discovery = "ids"
  /\ found' = granted \cap Allowed /\ discovery' = "metadata"
  /\ UNCHANGED <<relayState, stream, notices, lookups, manager, registry, overtaken>>

MetadataAnswered ==
  /\ discovery = "metadata"
  /\ discovery' = "done"
  /\ Join(found)
  /\ UNCHANGED <<relayState, stream, notices, found, lookups, overtaken>>

(* A notice that the agent was added, or removed.                             *)
Noticed(kind) == /\ notices # <<>> /\ Head(notices).kind = kind
                 /\ notices' = Tail(notices)

Noted == Head(notices).channel

AddedNotice ==
  /\ Noticed("added")
  /\ lookups' = IF Noted \in subscribed THEN lookups ELSE [lookups EXCEPT ![Noted] = @ + 1]
  /\ UNCHANGED <<relayState, stream, discovery, found, manager, registry, overtaken>>

LookupAnswered(c) ==
  /\ lookups[c] > 0
  /\ lookups' = [lookups EXCEPT ![c] = @ - 1]
  /\ Join({c})
  /\ UNCHANGED <<relayState, stream, notices, discovery, found, overtaken>>

(* A discovery or a lookup under way does not learn of a removal.             *)
Overtakes(c) == lookups[c] > 0 \/ (discovery = "metadata" /\ c \in found)

RemovedNotice ==
  /\ Noticed("removed")
  /\ Leave(Noted)
  /\ overtaken' = IF Overtakes(Noted) THEN overtaken \cup {Noted} ELSE overtaken
  /\ UNCHANGED <<relayState, stream, discovery, found, lookups>>

StopMemberships == /\ stopped' = TRUE
                   /\ subscribed' = {} /\ stream' = FALSE /\ notices' = <<>>
                   /\ UNCHANGED <<known, discovery, found, lookups, relayState, overtaken>>

-----------------------------------------------------------------------------
(* The relay changes a membership and tells the listening agent.  (Before the  *)
(* agent listens, a change is another initial state.)                         *)
Change(c) ==
  /\ stream /\ changes < MaxChanges /\ changes' = changes + 1
  /\ granted' = IF c \in granted THEN granted \ {c} ELSE granted \cup {c}
  /\ LET kind == IF c \in granted THEN "removed" ELSE "added" IN
       notices' = Append(notices, [kind |-> kind, channel |-> c])
  /\ UNCHANGED <<stream, discovery, found, lookups, manager, registry, overtaken>>

MTypeOK ==
  /\ granted \subseteq Channels /\ changes \in 0 .. MaxChanges
  /\ notices \in Seq([kind : {"added", "removed"}, channel : Channels])
  /\ discovery \in {"no", "ids", "metadata", "done"} /\ found \subseteq Allowed
  /\ lookups \in [Channels -> Nat] /\ draining \in [Channels -> Nat]
  /\ known \subseteq Allowed /\ subscribed \subseteq known \ Archived
  /\ live \subseteq Channels /\ overtaken \subseteq Channels
  /\ row \in [Channels -> {"none", "active", "removed"}]
  /\ stream \in BOOLEAN /\ stopped \in BOOLEAN

(* Once everything asked is answered, the agent is known to be in every        *)
(* channel it was granted, also during its own discovery, and in no other,      *)
(* save those whose removal a lookup under way did not learn of.               *)
MembershipsSettle ==
  discovery = "done" /\ ~stopped /\ notices = <<>> /\ (\A c \in Channels : lookups[c] = 0)
    => /\ granted \cap Allowed \subseteq known
       /\ known \subseteq granted \cup overtaken
=============================================================================
