-------------------------- MODULE KubernetesBackend --------------------------
(***************************************************************************)
(* The provider that runs an agent as a pod (src/backend-k8s/deploy.ts,           *)
(* redeploy.ts, push-auth.ts, records.ts, manifests.ts), with the owner's stores      *)
(* it reads and writes: the profiles (src/registry/profiles.ts) and the accounts         *)
(* bound to agents (src/owner-auth/store.ts).  A deploy of the desktop, a redeploy          *)
(* and a credential push of the CLI are processes, jobs here; each await of one is a          *)
(* step, and none of them locks the cluster or the files.                                      *)
(*                                                                                                 *)
(* The cluster and the relay are external: an object is there once applied, a deletion           *)
(* waits until the object is gone, and a record published replaces the head.                      *)
(***************************************************************************)
EXTENDS DeployRequest

CONSTANTS
  Jobs,
  First,       \* the generation of a deploy that has succeeded before
  Profiles,
  MaxErrors    \* bound: jobs that fail or die at an await

VARIABLES
  order,       \* what each job was asked
  job,         \* per job: its step and what it carries between awaits
  profiles,    \* registry.json
  profileAuth, \* per profile: the accounts of its login
  bindings,    \* bindings.json: pairs of an agent and an account
  agentAuth,   \* per agent: the accounts of its credential file
  head,        \* per agent: the core record and the accounts on the relay
  secrets,     \* per agent: generations of its Secrets
  pod,         \* per agent: generation and phase, or None
  crossed,     \* history: a sweep met another deploy's pod, or an unfinished one
  torn,        \* history: bindings read in the middle of a rebind, or a replaced file bound
  lost,        \* history: the registry was written from a copy older than another write
  errors

kubeVars == <<order, job, profiles, profileAuth, bindings, agentAuth, head, secrets,
              pod, crossed, torn, lost, errors>>
stores == <<profiles, profileAuth, bindings, agentAuth>>
cluster == <<secrets, pod>>

NoHead == [core |-> None, auth |-> {}]
Fresh == [pc |-> "new", agent |-> None, profile |-> None, payload |-> None, auth |-> {},
          seen |-> None]
Over == {"done", "local", "unmarked", "failed"}

(* Jobs that only renew the credential, and how far the record of each kind takes it. *)
Renewals == {"push", "login"}

Step(j, from, to) == job[j].pc = from /\ job' = [job EXCEPT ![j].pc = to]

Profile(j) == profiles[order[j].profile]

-----------------------------------------------------------------------------
(* The start of each job *)

(* The agent's own credential wins; the profile's login is adopted by the first    *)
(* deploy.  Without either nothing is touched.                                       *)
WithCredential(w, login) ==
  LET own == agentAuth[w.agent] IN
  [w EXCEPT !.auth = IF own # {} THEN own ELSE login,
            !.pc = IF own # {} THEN "publish" ELSE IF login # {} THEN "bind" ELSE "failed"]

StartDeploy(j) ==
  /\ order[j].kind = "deploy" /\ job[j].pc = "new"
  /\ job' = IF ~ Deployable(order[j].agent) \/ Profile(j) = None
            THEN [job EXCEPT ![j].pc = "failed"]
            ELSE [job EXCEPT ![j] =
                    WithCredential([@ EXCEPT !.agent = order[j].agent.nsec,
                                             !.profile = Profile(j),
                                             !.payload = Payload(order[j].agent)],
                                   profileAuth[order[j].profile])]
  /\ UNCHANGED <<order, stores, head, cluster, crossed, torn, lost, errors>>

(* The menu of the interactive CLI reads a profile and waits for the owner: whatever  *)
(* is chosen works with the profile as it was read.  Without an agent there is nothing   *)
(* to redeploy.                                                                           *)
StartRedeploy(j) ==
  /\ order[j].kind = "redeploy" /\ job[j].pc = "menu"
  /\ job' = [job EXCEPT ![j].pc = IF job[j].profile.agent = None THEN "failed" ELSE "readPod",
                        ![j].agent = job[j].profile.agent]
  /\ UNCHANGED <<order, stores, head, cluster, crossed, torn, lost, errors>>

(* A login stores new accounts with the profile; those of a deployed one are pushed. *)
StartPush(j) ==
  /\ order[j].kind = "push" /\ job[j].pc = "menu"
  /\ profileAuth' = [profileAuth EXCEPT ![order[j].profile] = order[j].login]
  /\ job' = [job EXCEPT ![j].pc = IF job[j].profile.agent = None THEN "done" ELSE "bind",
                        ![j].agent = job[j].profile.agent, ![j].auth = order[j].login]
  /\ UNCHANGED <<order, profiles, bindings, agentAuth, head, cluster, crossed, torn, lost, errors>>

-----------------------------------------------------------------------------
(* The owner's accounts: one account drives one agent *)

Conflicts(agent, accounts, file) ==
  {b \in file : b.account \in accounts /\ b.agent # agent}

(* A job that is about to write the file it has read, or the account released by it. *)
Rebinding(j) == job[j].pc \in {"rebind", "store", "unbound"}

(* recordBinding reads the file before it writes it. *)
Bind(j) ==
  /\ job[j].pc = "bind"
  /\ torn' = (torn \/ \E k \in Jobs \ {j} : Rebinding(k))
  /\ job' = IF Conflicts(job[j].agent, job[j].auth, bindings) # {}
            THEN [job EXCEPT ![j].pc = "failed"]
            ELSE [job EXCEPT ![j].pc = "rebind", ![j].seen = bindings]
  /\ UNCHANGED <<order, stores, head, cluster, crossed, lost, errors>>

Bound(agent, accounts, file) ==
  {b \in file : b.agent # agent} \cup {[agent |-> agent, account |-> x] : x \in accounts}

(* A login of the owner's command has stored the credential already. *)
AfterRebind(j) == IF order[j].kind = "login" THEN "connect" ELSE "store"

(* A login binds the file as it read it, which another job may have replaced. *)
Overtaken(j) == order[j].kind = "login" /\ agentAuth[job[j].agent] # job[j].auth

(* Mutant: the new set is written without the bindings of other agents. *)
RebindAlone(j) ==
  /\ Step(j, "rebind", AfterRebind(j))
  /\ bindings' = Bound(job[j].agent, job[j].auth, {})
  /\ torn' = (torn \/ Overtaken(j))
  /\ UNCHANGED <<order, profiles, profileAuth, agentAuth, head, cluster, crossed, lost, errors>>

Rebind(j) ==
  /\ Step(j, "rebind", AfterRebind(j))
  /\ bindings' = Bound(job[j].agent, job[j].auth, job[j].seen)
  /\ torn' = (torn \/ Overtaken(j))
  /\ UNCHANGED <<order, profiles, profileAuth, agentAuth, head, cluster, crossed, lost, errors>>

(* writeAgentAuth, after the binding: a deploy goes on, a push reads the cluster. *)
Store(j) ==
  /\ Step(j, "store", IF order[j].kind = "push" THEN "readPod" ELSE "publish")
  /\ agentAuth' = [agentAuth EXCEPT ![job[j].agent] = job[j].auth]
  /\ UNCHANGED <<order, profiles, profileAuth, bindings, head, cluster, crossed, torn, lost, errors>>

-----------------------------------------------------------------------------
(* The identity is read back from the cluster *)

ReadPod(j) ==
  /\ job[j].pc = "readPod"
  /\ job' = [job EXCEPT ![j].pc = "readSecret", ![j].seen = pod[job[j].agent]]
  /\ UNCHANGED <<order, stores, head, cluster, crossed, torn, lost, errors>>

(* The Secret the pod refers to, else the newest; without one there is nothing to  *)
(* redeploy from.  Every Secret of an agent holds the same key.                      *)
BootstrapFound(agent) == secrets[agent] # {}

(* The payload of a redeploy is rebuilt from the Secret and the pod's own variables:  *)
(* what the desktop's record had beyond them is gone.                                   *)
Reconstructed(agent, profile, seen) ==
  LET env == IF seen = None THEN <<>> ELSE seen.env IN
  [name |-> FirstSet(<<Get(env, "AUTOGENT_PROFILE_NAME"), profile>>), relayUrl |-> None,
   agent |-> agent, owner |-> None, respondTo |-> "owner-only", allowlist |-> {},
   prompt |-> None, model |-> None, envVars |-> env, launch |-> None]

(* A push signs with the key it found; a redeploy goes through the whole deploy. *)
ReadSecret(j) ==
  LET agent == job[j].agent
      payload == Reconstructed(agent, order[j].profile, job[j].seen) IN
  /\ job[j].pc = "readSecret"
  /\ job' = IF order[j].kind = "push"
            THEN [job EXCEPT ![j].pc = IF BootstrapFound(agent) THEN "publishAuth" ELSE "local"]
            ELSE IF ~ BootstrapFound(agent) THEN [job EXCEPT ![j].pc = "failed"]
            ELSE [job EXCEPT ![j] = WithCredential([@ EXCEPT !.payload = payload],
                                                   profileAuth[order[j].profile])]
  /\ UNCHANGED <<order, stores, head, cluster, crossed, torn, lost, errors>>

-----------------------------------------------------------------------------
(* The records come before the cluster *)

Publish(j) ==
  /\ Step(j, "publish", "publishAuth")
  /\ head' = [head EXCEPT ![job[j].agent].core =
                BuildCoreConfig(job[j].profile.settings, job[j].payload.prompt)]
  /\ UNCHANGED <<order, stores, cluster, crossed, torn, lost, errors>>

PublishAuth(j) ==
  /\ Step(j, "publishAuth", IF order[j].kind \in Renewals THEN "done" ELSE "image")
  /\ head' = [head EXCEPT ![job[j].agent].auth = job[j].auth]
  /\ UNCHANGED <<order, stores, cluster, crossed, torn, lost, errors>>

(* A tag becomes a digest before any object exists, or the deploy is refused. *)
ResolveImage(j) ==
  /\ Step(j, "image", "secret")
  /\ UNCHANGED <<order, stores, head, cluster, crossed, torn, lost, errors>>

-----------------------------------------------------------------------------
(* The objects *)

(* Secret, then volume; the generation is the job's. *)
ApplySecret(j) ==
  /\ Step(j, "secret", "look")
  /\ secrets' = [secrets EXCEPT ![job[j].agent] = @ \cup {j}]
  /\ UNCHANGED <<order, stores, head, pod, crossed, torn, lost, errors>>

Look(j) ==
  /\ Step(j, "look", IF pod[job[j].agent] # None THEN "replace" ELSE "pod")
  /\ UNCHANGED <<order, stores, head, cluster, crossed, torn, lost, errors>>

(* Gone already is fine. *)
Replace(j) ==
  /\ Step(j, "replace", "pod")
  /\ pod' = [pod EXCEPT ![job[j].agent] = None]
  /\ UNCHANGED <<order, stores, head, secrets, crossed, torn, lost, errors>>

PodObject(j) ==
  [gen |-> j, phase |-> "pending", env |-> BuildPodEnv(job[j].payload),
   bounded |-> job[j].profile.settings.inactivity > 0]

(* A pod's template cannot be changed: the apply over another one is refused. *)
ApplyPod(j) ==
  LET agent == job[j].agent IN
  /\ Step(j, "pod", IF pod[agent] = None THEN "poll" ELSE "failed")
  /\ pod' = IF pod[agent] = None THEN [pod EXCEPT ![agent] = PodObject(j)] ELSE pod
  /\ UNCHANGED <<order, stores, head, secrets, crossed, torn, lost, errors>>

(* An agent that has ended well is not running yet, as far as the deploy can tell. *)
PodVerdict(p) ==
  IF p = None THEN "pending"
  ELSE IF p.phase = "running" THEN "running"
  ELSE IF p.phase \in {"failed", "crashed"} THEN "failed"
  ELSE "pending"

(* Whatever pod bears the name is taken for the own; a pending one fails the deploy *)
(* at the deadline.                                                                   *)
Poll(j) ==
  LET verdict == PodVerdict(pod[job[j].agent]) IN
  /\ Step(j, "poll", IF verdict = "running" THEN "list" ELSE "failed")
  /\ UNCHANGED <<order, stores, head, cluster, crossed, torn, lost, errors>>

(* Steps of a deploy whose own Secret is applied and whose own list is not made. *)
Unlisted == {"look", "replace", "pod", "poll", "list"}

OwnPod(j) == pod[job[j].agent] # None /\ pod[job[j].agent].gen = j

(* Mutant: the own generation is swept with the others. *)
ListSecretsAll(j) ==
  /\ job[j].pc = "list"
  /\ job' = [job EXCEPT ![j].pc = "sweep", ![j].seen = secrets[job[j].agent]]
  /\ UNCHANGED <<order, stores, head, cluster, crossed, torn, lost, errors>>

(* gcSecrets lists once, keeps its own generation and deletes the rest one by one,   *)
(* in the order of the cluster's answer.                                               *)
ListSecrets(j) ==
  LET doomed == secrets[job[j].agent] \ {j} IN
  /\ job[j].pc = "list"
  /\ job' = [job EXCEPT ![j].pc = "sweep", ![j].seen = doomed]
  /\ crossed' = (crossed \/ ~ OwnPod(j) \/ \E k \in Jobs \cap doomed : job[k].pc \in Unlisted)
  /\ UNCHANGED <<order, stores, head, cluster, torn, lost, errors>>

Sweep(j) ==
  LET doomed == job[j].seen IN
  /\ job[j].pc = "sweep"
  /\ \/ /\ doomed = {}
        /\ job' = [job EXCEPT ![j].pc = "mark"]
        /\ UNCHANGED secrets
     \/ \E g \in doomed :
          /\ secrets' = [secrets EXCEPT ![job[j].agent] = @ \ {g}]
          /\ job' = [job EXCEPT ![j].seen = doomed \ {g}]
  /\ UNCHANGED <<order, stores, head, pod, crossed, torn, lost, errors>>

(* markProfileDeployed: bookkeeping on a copy of the whole registry. *)
Mark(j) ==
  /\ job[j].pc = "mark"
  /\ job' = [job EXCEPT ![j].pc = "marked", ![j].seen = profiles]
  /\ UNCHANGED <<order, stores, head, cluster, crossed, torn, lost, errors>>

WriteMark(j) ==
  LET name == order[j].profile IN
  /\ Step(j, "marked", "done")
  /\ IF job[j].seen[name] = None THEN UNCHANGED <<profiles, lost>>
     ELSE /\ profiles' = [job[j].seen EXCEPT ![name].agent = job[j].agent]
          /\ lost' = (lost \/ job[j].seen # profiles)
  /\ UNCHANGED <<order, profileAuth, bindings, agentAuth, head, cluster, crossed, torn, errors>>

(* Steps of a renewal whose file and binding are written: a failure leaves it local. *)
AfterStored == {"readPod", "readSecret", "connect", "publishAuth"}

(* The bookkeeping of a deploy is best effort. *)
Marking == {"mark", "marked"}

(* An await that fails, a deadline or the end of the process: nothing is undone.   *)
(* A push that fails after its file is written reports that it was local only.        *)
JobFails(j) ==
  /\ job[j].pc \notin Over \cup {"new"}
  /\ errors > 0
  /\ errors' = errors - 1
  /\ job' = [job EXCEPT ![j].pc = IF order[j].kind \in Renewals /\ @ \in AfterStored
                                 THEN "local"
                                 ELSE IF @ \in Marking THEN "unmarked" ELSE "failed"]
  /\ torn' = (torn \/ Rebinding(j))
  /\ UNCHANGED <<order, stores, head, cluster, crossed, lost>>

-----------------------------------------------------------------------------
(* The pod's life *)

SetPhase(a, from, to) ==
  /\ pod[a] # None
  /\ pod[a].phase = from
  /\ pod' = [pod EXCEPT ![a].phase = to]
  /\ UNCHANGED <<order, job, stores, head, secrets, crossed, torn, lost, errors>>

SecretThere(a) == pod[a].gen \in secrets[a]

(* A container starts with its Secret's variables, or not at all. *)
PodStarts(a) ==
  \E from \in {"pending", "crashed"} :
    SetPhase(a, from, IF SecretThere(a) THEN "running" ELSE "failed")

ImageRefused(a) == SetPhase(a, "pending", "failed")

(* An agent with a bounded life ends well; one without ends by crashing. *)
PodEnds(a) ==
  SetPhase(a, "running",
           IF pod[a] # None /\ pod[a].bounded THEN "succeeded" ELSE "crashed")

-----------------------------------------------------------------------------
KubeInit(Orders, Worlds) ==
  /\ order \in Orders
  /\ job = [j \in Jobs |-> Fresh]
  /\ \E world \in Worlds :
       /\ profiles = world.profiles
       /\ profileAuth = world.profileAuth
       /\ bindings = world.bindings
       /\ agentAuth = world.agentAuth
       /\ head = world.head
       /\ secrets = world.secrets
       /\ pod = world.pod
  /\ crossed = FALSE
  /\ torn = FALSE
  /\ lost = FALSE
  /\ errors = MaxErrors

JobStep(j) ==
  \/ StartDeploy(j) \/ StartRedeploy(j) \/ StartPush(j)
  \/ Bind(j) \/ Rebind(j) \/ Store(j) \/ ReadPod(j) \/ ReadSecret(j)
  \/ Publish(j) \/ PublishAuth(j) \/ ResolveImage(j)
  \/ ApplySecret(j) \/ Look(j) \/ Replace(j) \/ ApplyPod(j) \/ Poll(j)
  \/ ListSecrets(j) \/ Sweep(j) \/ Mark(j) \/ WriteMark(j) \/ JobFails(j)

KubeNext ==
  \/ \E j \in Jobs : JobStep(j)
  \/ \E a \in Names : PodStarts(a) \/ ImageRefused(a) \/ PodEnds(a)

=============================================================================
