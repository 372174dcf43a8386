---------------------------- MODULE DeployRequest ----------------------------
(***************************************************************************)
(* What a backend reads from a deploy request before it touches anything, and  *)
(* what it builds from it: the payload and its refusals                          *)
(* (src/backend/payload.ts), the layered environment of the agent process         *)
(* (env.ts), the fingerprint of a create (intent.ts), the provider's own           *)
(* settings (config.ts), the choices of `up` (up.ts), and for Kubernetes the core   *)
(* config record and the pod's environment (backend-k8s/records.ts).                *)
(*                                                                                  *)
(* A value is a model value or a string; None is null, absent and "".  Environment   *)
(* variables are functions from their names.                                          *)
(***************************************************************************)
EXTENDS FiniteSets, Integers, SequencesExt

CONSTANTS
  None,
  Names        \* pubkeys of agents; anything else in a payload is malformed

ASSUME NoneIsNobody == None \notin Names

(* The first value that is set: the chains of ?? in the code. *)
FirstSet(values) ==
  LET set == SelectSeq(values, LAMBDA v : v # None)
  IN IF set = <<>> THEN None ELSE Head(set)

Without(f, names) == [k \in DOMAIN f \ names |-> f[k]]

(* The spread of one object over another: the upper one wins. *)
upper ++ lower ==
  [k \in DOMAIN upper \cup DOMAIN lower |-> IF k \in DOMAIN upper THEN upper[k] ELSE lower[k]]

Only(key, value) == [k \in {key} |-> value]

-----------------------------------------------------------------------------
(* The request *)

RespondTo == {"owner-only", "allowlist", "anyone", "nobody"}

(* A launch block names an owner or leaves it to the attestation. *)
LaunchAgrees(launch, auth) ==
  \/ launch = None
  \/ launch.owner \in {None, auth.owner}

(* An attestation counts when it is for the key of the payload, by someone      *)
(* else, and covers every kind the agent publishes.                               *)
Attested(auth, agent, launch) ==
  /\ auth # None
  /\ auth.owner # agent
  /\ auth.signedFor = agent
  /\ LaunchAgrees(launch, auth)
  /\ auth.covers

(* What parseDeployPayload lets through; every refusal comes before any change. *)
Deployable(raw) ==
  /\ raw.provider # "relay-mesh"
  /\ raw.relayUrl # None
  /\ raw.nsec \in Names
  /\ Attested(raw.auth, raw.nsec, raw.launch)
  /\ FirstSet(<<raw.respondTo, "owner-only">>) \in RespondTo
  /\ raw.allowlist \subseteq Names

Payload(raw) ==
  [name |-> FirstSet(<<raw.name, "Pi Agent">>), relayUrl |-> raw.relayUrl,
   agent |-> raw.nsec, owner |-> raw.auth.owner,
   respondTo |-> FirstSet(<<raw.respondTo, "owner-only">>), allowlist |-> raw.allowlist,
   prompt |-> raw.prompt, model |-> raw.model, envVars |-> raw.envVars,
   launch |-> raw.launch]

LogLevels == {"error", "warn", "info", "debug"}

ConfigAccepted(raw) ==
  /\ raw.logLevel \in LogLevels \cup {None}
  /\ FirstSet(<<raw.timeout, 120>>) \in 5..600

ProviderConfig(raw) ==
  [command |-> FirstSet(<<raw.command, "autogent-nostr">>), workspace |-> raw.workspace,
   timeout |-> FirstSet(<<raw.timeout, 120>>), logLevel |-> raw.logLevel]

-----------------------------------------------------------------------------
(* The environment of the agent *)

AuthoritativeKeys ==
  {"AUTOGENT_STATE_DIR", "AUTOGENT_RELAY_URL", "AUTOGENT_CWD", "AUTOGENT_RESPOND_TO",
   "AUTOGENT_RESPOND_TO_ALLOWLIST", "AUTOGENT_PROFILE_NAME", "AUTOGENT_PRESENCE",
   "BUZZ_MANAGED_AGENT_START_NONCE"}

IdentityKeys ==
  {"BUZZ_PRIVATE_KEY", "NOSTR_PRIVATE_KEY", "NOSTR_SECRET_KEY", "BUZZ_AUTH_TAG",
   "AUTOGENT_AGENT_SECRET", "AUTOGENT_OWNER_SECRET", "AUTOGENT_SECRET_KEY"}

PolicyTranslation ==
  [BUZZ_ACP_MODEL |-> "AUTOGENT_MODEL", BUZZ_ACP_IDLE_TIMEOUT |-> "AUTOGENT_IDLE_TIMEOUT",
   BUZZ_ACP_MAX_TURN_DURATION |-> "AUTOGENT_MAX_TURN_DURATION",
   BUZZ_ACP_AGENTS |-> "AUTOGENT_MAX_CONCURRENT_TURNS"]

(* Every name of this program and of the desktop: what the child may not        *)
(* inherit from the shell the provider was started in.                           *)
OwnNames ==
  AuthoritativeKeys \cup (IdentityKeys \ {"NOSTR_PRIVATE_KEY", "NOSTR_SECRET_KEY"})
    \cup DOMAIN PolicyTranslation
    \cup {PolicyTranslation[k] : k \in DOMAIN PolicyTranslation}
    \cup {"AUTOGENT_SYSTEM_PROMPT", "AUTOGENT_LOG_LEVEL"}

AmbientBase(ambient) == Without(ambient, OwnNames)

(* The prompt is the desktop's, or the record's, with the team's instructions. *)
ComposeSystemPrompt(prompt, team) ==
  LET parts == SelectSeq(<<prompt, team>>, LAMBDA p : p # None)
  IN IF parts = <<>> THEN None ELSE parts

Get(f, key) == IF key \in DOMAIN f THEN f[key] ELSE None

(* A setting that is absent adds no variable. *)
Setting(key, value) == IF value = None THEN <<>> ELSE Only(key, value)

(* Tier 1: behaviour a user may override. *)
PolicyTier(payload, logLevel) ==
  LET policy == IF payload.launch = None THEN <<>> ELSE payload.launch.policy
      known == DOMAIN policy \cap DOMAIN PolicyTranslation
      translated == [t \in {PolicyTranslation[k] : k \in known} |->
                       policy[CHOOSE k \in known : PolicyTranslation[k] = t]]
      prompt == ComposeSystemPrompt(
                  FirstSet(<<Get(policy, "BUZZ_ACP_SYSTEM_PROMPT"), payload.prompt>>),
                  Get(policy, "BUZZ_ACP_TEAM_INSTRUCTIONS"))
  IN Setting("AUTOGENT_LOG_LEVEL", logLevel)
       ++ Setting("AUTOGENT_SYSTEM_PROMPT", prompt)
       ++ translated ++ policy
       ++ Setting("AUTOGENT_MODEL", payload.model)

(* Tier 2: what the user set, from the launch block or from the legacy field. *)
UserTier(payload) ==
  IF payload.launch = None THEN payload.envVars ELSE payload.launch.env

(* Presence is the one sign the desktop has of a deployed agent. *)
PresenceKept(env) ==
  /\ "BUZZ_ACP_NO_PRESENCE" \notin DOMAIN env
  /\ Get(env, "AUTOGENT_PRESENCE") # "off"

(* Tier 3: which agent this is, where it talks and whom it answers. *)
AuthoritativeTier(payload, place) ==
  [AUTOGENT_STATE_DIR |-> place.stateDir, AUTOGENT_RELAY_URL |-> payload.relayUrl,
   AUTOGENT_CWD |-> place.workspace, AUTOGENT_RESPOND_TO |-> payload.respondTo,
   AUTOGENT_PROFILE_NAME |-> payload.name, AUTOGENT_PRESENCE |-> "true",
   BUZZ_MANAGED_AGENT_START_NONCE |-> place.generation]
    ++ (IF payload.allowlist = {} THEN <<>>
        ELSE Only("AUTOGENT_RESPOND_TO_ALLOWLIST", payload.allowlist))

(* Mutant: the lower tiers are layered after the authoritative one. *)
BuildAgentEnvUserLast(payload, place, logLevel, ambient) ==
  UserTier(payload) ++ AuthoritativeTier(payload, place)
    ++ Without(PolicyTier(payload, logLevel) ++ AmbientBase(ambient),
               AuthoritativeKeys \cup IdentityKeys)

BuildAgentEnv(payload, place, logLevel, ambient) ==
  AuthoritativeTier(payload, place)
    ++ Without(UserTier(payload) ++ PolicyTier(payload, logLevel) ++ AmbientBase(ambient),
               AuthoritativeKeys \cup IdentityKeys)

SecretNames == {"ANTHROPIC_API_KEY"}

(* The digest of a create: no value of a secret, no name of an attempt. *)
Fingerprint(command, place, env) ==
  [command |-> command, cwd |-> place.workspace, stateDir |-> place.stateDir,
   env |-> [k \in DOMAIN env \ {"BUZZ_MANAGED_AGENT_START_NONCE"} |->
              IF k \in SecretNames THEN None ELSE env[k]]]

-----------------------------------------------------------------------------
(* `up`: the same start without a payload *)

(* A prefix stands for the directories it matches; none given is allowed when    *)
(* there is one instance only.                                                    *)
Selected(dirs, prefix) == IF prefix = None THEN dirs ELSE dirs \cap prefix

(* Flag, then this command's environment, then the sealed record, then the        *)
(* default.  Model, prompt and user variables of the last deploy are not kept.     *)
UpPayload(options, ambient, identity) ==
  [name |-> FirstSet(<<options.name, Get(ambient, "AUTOGENT_PROFILE_NAME"), identity.name>>),
   relayUrl |-> FirstSet(<<options.relayUrl, Get(ambient, "AUTOGENT_RELAY_URL"),
                           identity.relayUrl>>),
   agent |-> identity.agent, owner |-> identity.owner,
   respondTo |-> FirstSet(<<options.respondTo, Get(ambient, "AUTOGENT_RESPOND_TO"),
                            "owner-only">>),
   allowlist |-> FirstSet(<<options.allowlist,
                            Get(ambient, "AUTOGENT_RESPOND_TO_ALLOWLIST"), {}>>),
   prompt |-> FirstSet(<<options.prompt, Get(ambient, "AUTOGENT_SYSTEM_PROMPT")>>),
   model |-> FirstSet(<<options.model, Get(ambient, "AUTOGENT_MODEL")>>),
   envVars |-> options.envVars, launch |-> None]

-----------------------------------------------------------------------------
(* Kubernetes: the core record and the pod's environment *)

(* The profile is the only source, save for a prompt it leaves open. *)
BuildCoreConfig(settings, fallbackPrompt) ==
  [model |-> settings.model, prompt |-> FirstSet(<<settings.prompt, fallbackPrompt>>),
   respondTo |-> settings.respondTo, inactivity |-> settings.inactivity,
   langfuse |-> settings.langfuse]

PodPassthrough ==
  {"AUTOGENT_RELAY_ID", "AUTOGENT_TELEMETRY", "AUTOGENT_METRICS", "AUTOGENT_LOG_LEVEL",
   "AUTOGENT_PROFILE_NAME", "AUTOGENT_PROFILE_ABOUT", "AUTOGENT_SUBSCRIBE"}

BuildPodEnv(payload) ==
  LET env == IF payload.launch = None THEN payload.envVars
             ELSE payload.launch.env ++ payload.launch.policy
  IN [k \in DOMAIN env \cap PodPassthrough |-> env[k]]
       ++ Setting("AUTOGENT_PROFILE_NAME", payload.name)
=============================================================================
