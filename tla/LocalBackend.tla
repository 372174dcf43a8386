----------------------------- MODULE LocalBackend -----------------------------
(***************************************************************************)
(* The provider that runs an agent as a process of this machine                 *)
(* (src/backend/reconcile.ts, registry.ts, provision.ts, spawn.ts and up.ts).      *)
(* Every Start is a process of its own, a run here, and runs of one agent key       *)
(* share the registry entry, the log and the sealed identity on disk; their steps    *)
(* interleave with each other and with the agent's own life.  A run may die at any     *)
(* step: the desktop kills a provider that takes too long.                              *)
(***************************************************************************)
EXTENDS DeployRequest

CONSTANTS
  Runs,        \* Starts: deploys of the desktop and `up` commands
  Old,         \* the attempt an earlier Start left behind
  Agent,       \* the agent's pubkey, the name of its instance directory
  Neighbours,  \* other instance directories under the same root
  Installed,   \* agent commands found on this machine
  Ambient,     \* the environment the provider was started in
  MaxFaults    \* bound: failures of provisioning or of a spawn, lost keys

ASSUME OldIsNoRun == Old \notin Runs

VARIABLES
  request,     \* what each run was asked
  run,         \* per run: its step, the record it saw, attempted, deadline passed
  registry,    \* instance.json: whose mark it bears, attempt, intent, pid recorded
  log,         \* agent.log: who writes to it and the evidence in it
  process,     \* per attempt: none, booting, online, failing, dead
  environment, \* per attempt: the environment its process was given
  identity,    \* identity.json and the sealed key
  lostSight,   \* history: the registry may have lost sight of a process
  faults

localVars ==
  <<request, run, registry, log, process, environment, identity, lostSight, faults>>

Attempts == Runs \cup {Old}
NoLog == [writers |-> {}, online |-> FALSE, fatal |-> FALSE]
Idle == [pc |-> "new", seen |-> None, attempted |-> FALSE, late |-> FALSE, sealed |-> None]

(* Steps between the claim of the name and the record of the pid. *)
Creating == {"provision", "spawn", "record"}
Ended == {"done", "failed", "killed"}

ProcessAlive(p) == process[p] \in {"booting", "online", "failing"}

(* A record without a pid is a record of no living process. *)
InstanceAlive(record) == record.pid /\ ProcessAlive(record.gen)

-----------------------------------------------------------------------------
(* What a run asks for *)

Place(config, generation) ==
  [stateDir |-> Agent, workspace |-> FirstSet(<<config.workspace, Agent>>),
   generation |-> generation]

Config(r) == ProviderConfig(request[r].config)

(* `up` takes its payload from the record it found sealed, deploy from the desktop. *)
PayloadOf(r) ==
  IF request[r].up THEN UpPayload(request[r].options, Ambient, run[r].sealed)
  ELSE Payload(request[r].agent)

EnvOf(r, generation) ==
  BuildAgentEnv(PayloadOf(r), Place(Config(r), generation), Config(r).logLevel, Ambient)

(* The plan is computed when it is first needed, and may be refused then. *)
Plannable(r) ==
  /\ Config(r).command \in Installed
  /\ PresenceKept(UserTier(PayloadOf(r)))

IntentOf(r) == Fingerprint(Config(r).command, Place(Config(r), None), EnvOf(r, None))

(* `up` starts only what is sealed, attested and in its own directory. *)
Provisioned ==
  /\ identity # None
  /\ identity.owner # None
  /\ identity.key

(* What is asked is checked before anything is touched. *)
Acceptable(r) ==
  /\ ConfigAccepted(request[r].config)
  /\ IF request[r].up
     THEN /\ Selected({Agent} \cup Neighbours, request[r].options.prefix) = {Agent}
          /\ Provisioned
          /\ FirstSet(<<request[r].options.respondTo,
                        Get(Ambient, "AUTOGENT_RESPOND_TO"), "owner-only">>) \in RespondTo
     ELSE Deployable(request[r].agent)

Goto(r, pc) == run' = [run EXCEPT ![r].pc = pc]

(* A dry run of `up` reports its plan and changes nothing. *)
Begin(r) ==
  /\ run[r].pc = "new"
  /\ run' = [run EXCEPT ![r].pc = IF ~ Acceptable(r) THEN "failed"
                                  ELSE IF request[r].dry THEN "done" ELSE "classify",
                        ![r].sealed = identity]
  /\ UNCHANGED <<request, registry, log, process, environment, identity, lostSight, faults>>

-----------------------------------------------------------------------------
(* The classification: one turn of startInstance's loop *)

(* A record without the provider's mark, or of another key, is refused, never      *)
(* repaired.                                                                        *)
Foreign(r) ==
  /\ registry # None
  /\ ~ registry.ours
  /\ Goto(r, "failed")

Ours == registry # None /\ registry.ours

(* No record: the one attempt of this run, or the attempt is gone again. *)
NothingThere(r) ==
  /\ registry = None
  /\ run' = IF run[r].attempted \/ ~ Plannable(r)
            THEN [run EXCEPT ![r].pc = "failed"]
            ELSE [run EXCEPT ![r].pc = "claim", ![r].attempted = TRUE]

(* Live and started: a strict no-op. *)
AlreadyServing(r) ==
  /\ Ours
  /\ InstanceAlive(registry)
  /\ log.online
  /\ Goto(r, "done")

(* Dead: residue of an earlier life, or the failure of this run's attempt. *)
Residue(r) ==
  /\ Ours
  /\ ~ InstanceAlive(registry)
  /\ run' = [run EXCEPT ![r].pc = IF run[r].attempted THEN "failed" ELSE "remove",
                        ![r].seen = registry]

(* Alive, not started: a fatal line, or an intent the user has changed since,    *)
(* replaces it unless it is this run's own attempt.                                *)
NeverStarted(r) ==
  LET intentHolds == Plannable(r) /\ registry.intent = IntentOf(r) IN
  /\ Ours
  /\ InstanceAlive(registry)
  /\ ~ log.online
  /\ \/ /\ log.fatal
        /\ run' = [run EXCEPT ![r].pc = IF run[r].attempted THEN "failed" ELSE "terminate",
                              ![r].seen = registry]
     \/ /\ ~ log.fatal /\ ~ Plannable(r)
        /\ Goto(r, "failed")
     \/ /\ ~ log.fatal /\ Plannable(r) /\ ~ intentHolds /\ ~ run[r].attempted
        /\ run' = [run EXCEPT ![r].pc = "terminate", ![r].seen = registry]
     \/ /\ ~ log.fatal /\ (intentHolds \/ (Plannable(r) /\ run[r].attempted))
        /\ run[r].late
        /\ Goto(r, "failed")

Classify(r) ==
  /\ run[r].pc = "classify"
  /\ Foreign(r) \/ NothingThere(r) \/ AlreadyServing(r) \/ Residue(r) \/ NeverStarted(r)
  /\ UNCHANGED <<request, registry, log, process, environment, identity, lostSight, faults>>

-----------------------------------------------------------------------------
(* The create *)

OwnClaim(r) == [ours |-> TRUE, gen |-> r, pid |-> FALSE, intent |-> IntentOf(r)]

(* `wx`: of two claims of a free name one wins; the loser classifies again. *)
(* Mutant: the claim overwrites what is there. *)
ClaimOver(r) ==
  /\ run[r].pc = "claim"
  /\ registry' = OwnClaim(r)
  /\ Goto(r, "provision")
  /\ UNCHANGED <<request, log, process, environment, identity, lostSight, faults>>

Claim(r) ==
  /\ run[r].pc = "claim"
  /\ \/ /\ registry = None
        /\ registry' = OwnClaim(r)
        /\ Goto(r, "provision")
     \/ /\ registry # None
        /\ Goto(r, "classify")
        /\ UNCHANGED registry
  /\ UNCHANGED <<request, log, process, environment, identity, lostSight, faults>>

(* What a removal takes away may be another record than the run has seen, or the    *)
(* claim of a run that is still creating.                                              *)
TakesAnothers(r, seen) ==
  /\ registry # None
  /\ \/ registry # seen
     \/ ~ registry.pid /\ registry.gen \in Runs \ {r} /\ run[registry.gen].pc \in Creating

(* removeInstance: the log is rotated away, the record goes, whoever wrote it. *)
RemoveInstance(r, seen) ==
  /\ lostSight' = (lostSight \/ TakesAnothers(r, seen))
  /\ registry' = None
  /\ log' = NoLog

(* Deploy seals key and record; `up` only looks that the key is still there.    *)
(* A failure clears the run's own claim.                                           *)
Provision(r) ==
  /\ run[r].pc = "provision"
  /\ \/ /\ ~ request[r].up
        /\ LET payload == PayloadOf(r) IN
           identity' = [agent |-> payload.agent, owner |-> payload.owner,
                        name |-> payload.name, relayUrl |-> payload.relayUrl, key |-> TRUE]
        /\ Goto(r, "spawn")
        /\ UNCHANGED <<registry, log, lostSight, faults>>
     \/ /\ request[r].up /\ identity.key
        /\ Goto(r, "spawn")
        /\ UNCHANGED <<registry, log, identity, lostSight, faults>>
     \/ /\ \/ request[r].up /\ ~ identity.key /\ UNCHANGED faults
           \/ faults > 0 /\ faults' = faults - 1
        /\ RemoveInstance(r, OwnClaim(r))
        /\ Goto(r, "failed")
        /\ UNCHANGED identity
  /\ UNCHANGED <<request, process, environment>>

(* The log of the attempt is a fresh file; the child keeps its descriptor.  A    *)
(* spawn may fail after the rotation.                                               *)
Spawn(r) ==
  /\ run[r].pc = "spawn"
  /\ \/ /\ log' = [NoLog EXCEPT !.writers = {r}]
        /\ process' = [process EXCEPT ![r] = "booting"]
        /\ environment' = [environment EXCEPT ![r] = EnvOf(r, r)]
        /\ Goto(r, "record")
        /\ UNCHANGED <<registry, lostSight, faults>>
     \/ /\ faults > 0
        /\ faults' = faults - 1
        /\ RemoveInstance(r, OwnClaim(r))
        /\ Goto(r, "failed")
        /\ UNCHANGED <<process, environment>>
  /\ UNCHANGED <<request, identity>>

(* writeInstance renames over whatever is there. *)
Record(r) ==
  /\ run[r].pc = "record"
  /\ registry' = [OwnClaim(r) EXCEPT !.pid = TRUE]
  /\ Goto(r, "classify")
  /\ UNCHANGED <<request, log, process, environment, identity, lostSight, faults>>

ClearResidue(r) ==
  /\ run[r].pc = "remove"
  /\ RemoveInstance(r, run[r].seen)
  /\ Goto(r, "classify")
  /\ UNCHANGED <<request, process, environment, identity, faults>>

-----------------------------------------------------------------------------
(* The replacement of an instance that never started *)

(* The fence and the signal are three consecutive calls of one process and are     *)
(* one step here: an agent that comes online between them is signalled anyway.       *)
Terminate(r) ==
  /\ run[r].pc = "terminate"
  /\ Goto(r, IF log.online \/ registry = None THEN "classify"
             ELSE IF registry.gen # run[r].seen.gen THEN "classify" ELSE "grace")
  /\ UNCHANGED <<request, registry, log, process, environment, identity, lostSight, faults>>

(* Polls until the process is gone, kills it when the grace is over, and gives     *)
(* up at the deadline rather than start a second copy.                               *)
AwaitExit(r) ==
  /\ run[r].pc \in {"grace", "kill"}
  /\ \/ /\ ~ InstanceAlive(run[r].seen)
        /\ Goto(r, "remove")
     \/ /\ run[r].pc = "grace"
        /\ Goto(r, "kill")
     \/ /\ run[r].pc = "kill" /\ run[r].late
        /\ Goto(r, "failed")
  /\ UNCHANGED <<request, registry, log, process, environment, identity, lostSight, faults>>

DeadlinePasses(r) ==
  /\ run[r].pc \notin Ended /\ ~ run[r].late
  /\ run' = [run EXCEPT ![r].late = TRUE]
  /\ UNCHANGED <<request, registry, log, process, environment, identity, lostSight, faults>>

(* A run that dies after the spawn leaves a process no record tells of. *)
RunDies(r) ==
  /\ run[r].pc \notin Ended
  /\ faults > 0
  /\ faults' = faults - 1
  /\ Goto(r, "killed")
  /\ lostSight' = (lostSight \/ run[r].pc = "record")
  /\ UNCHANGED <<request, registry, log, process, environment, identity>>

-----------------------------------------------------------------------------
(* The agent's process, and what it writes to the file it has open *)

ComesOnline(p) ==
  /\ process[p] = "booting"
  /\ process' = [process EXCEPT ![p] = "online"]
  /\ log' = IF p \in log.writers THEN [log EXCEPT !.online = TRUE, !.fatal = FALSE] ELSE log
  /\ UNCHANGED <<request, run, registry, environment, identity, lostSight, faults>>

LogsFatal(p) ==
  /\ process[p] \in {"booting", "online"}
  /\ process' = [process EXCEPT ![p] = "failing"]
  /\ log' = IF p \in log.writers THEN [log EXCEPT !.fatal = TRUE] ELSE log
  /\ UNCHANGED <<request, run, registry, environment, identity, lostSight, faults>>

Exits(p) ==
  /\ ProcessAlive(p)
  /\ process' = [process EXCEPT ![p] = "dead"]
  /\ UNCHANGED <<request, run, registry, log, environment, identity, lostSight, faults>>

(* The operator removes the state directory's key. *)
KeyLost ==
  /\ identity # None /\ identity.key
  /\ faults > 0
  /\ faults' = faults - 1
  /\ identity' = [identity EXCEPT !.key = FALSE]
  /\ UNCHANGED <<request, run, registry, log, process, environment, lostSight>>

-----------------------------------------------------------------------------
(* A residue is what an earlier Start and its agent left on this machine. *)
LocalInit(Requests, Residues) ==
  /\ request \in Requests
  /\ run = [r \in Runs |-> Idle]
  /\ \E left \in Residues :
       /\ registry = left.registry
       /\ log = left.log
       /\ process = [p \in Attempts |-> IF p = Old THEN left.process ELSE "none"]
       /\ identity = left.identity
  /\ environment = [p \in Attempts |-> <<>>]
  /\ lostSight = FALSE
  /\ faults = MaxFaults

RunStep(r) ==
  \/ Begin(r) \/ Classify(r) \/ Claim(r) \/ Provision(r) \/ Spawn(r) \/ Record(r)
  \/ ClearResidue(r) \/ Terminate(r) \/ AwaitExit(r) \/ DeadlinePasses(r) \/ RunDies(r)

LocalNext ==
  \/ \E r \in Runs : RunStep(r)
  \/ \E p \in Attempts : ComesOnline(p) \/ LogsFatal(p) \/ Exits(p)
  \/ KeyLost

LocalSpec(Requests, Residues) == LocalInit(Requests, Residues) /\ [][LocalNext]_localVars

(* What an earlier Start can have left: a record of its attempt, of another key or   *)
(* without the mark as well, and its process, which the record tells of.                *)
Leavable(left) ==
  /\ left.registry # None =>
       /\ left.registry.gen = Old
       /\ left.registry.pid => left.process # "none"
  /\ left.process \in {"booting", "online", "failing"} =>
       left.registry # None /\ left.registry.pid

-----------------------------------------------------------------------------
(* Concurrent Starts, changed configurations, wedged startups and dying runs        *)
(* never leave two living processes of one agent key, unless the registry lost       *)
(* sight of one: a claim without a pid counts as dead, and a removal is not fenced.    *)
OneProcess ==
  lostSight \/ Cardinality({p \in Attempts : ProcessAlive(p)}) <= 1

(* Whatever the shell, the launch block and the user's variables say, a process     *)
(* gets the relay, the gate and the attempt of the run that started it, no key of      *)
(* any identity, and of every variable of this program what it would get in a shell        *)
(* that has set none.                                                                       *)
LaunchIsAuthoritative ==
  \A r \in Runs : process[r] # "none" =>
    LET env == environment[r] IN
    /\ DOMAIN env \cap IdentityKeys = {}
    /\ env["AUTOGENT_PRESENCE"] = "true"
    /\ env["BUZZ_MANAGED_AGENT_START_NONCE"] = r
    /\ ~ request[r].up =>
         LET asked == Payload(request[r].agent)
             unset == BuildAgentEnv(asked, Place(Config(r), r), Config(r).logLevel, <<>>) IN
         /\ env["AUTOGENT_RELAY_URL"] = request[r].agent.relayUrl
         /\ env["AUTOGENT_RESPOND_TO"] = asked.respondTo
         /\ Get(env, "AUTOGENT_RESPOND_TO_ALLOWLIST") \in {None, request[r].agent.allowlist}
         /\ \A k \in OwnNames : Get(env, k) = Get(unset, k)
=============================================================================
