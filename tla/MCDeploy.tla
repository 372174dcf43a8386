------------------------------- MODULE MCDeploy -------------------------------
(* One of three per behaviour: two Starts of one agent key over what an earlier one   *)
(* left on the machine, two jobs of the owner on one cluster, or three commands of a     *)
(* hand-made pairing on one state directory.                                              *)
EXTENDS LocalBackend, Cluster, Provisioning

CONSTANTS r1, r2, j1, j2, p1, p2, a1, a2, owner, relay, shellModel, ownModel,
          x, y, other, c1, c2, c3, c4, c5

VARIABLE backend

vars == <<localVars, kubeVars, provisioningVars, backend>>

-----------------------------------------------------------------------------
(* Requests *)

Tag(agent) == [owner |-> owner, signedFor |-> agent, covers |-> TRUE]
Plain(agent) ==
  [provider |-> None, relayUrl |-> relay, nsec |-> agent, auth |-> Tag(agent),
   respondTo |-> None, allowlist |-> {}, name |-> None, prompt |-> None, model |-> None,
   envVars |-> <<>>, launch |-> None]
Launched(agent) ==
  [Plain(agent) EXCEPT
     !.respondTo = "allowlist", !.allowlist = {a2},
     !.launch = [owner |-> owner, policy |-> [BUZZ_ACP_MODEL |-> ownModel],
                 env |-> [AUTOGENT_RELAY_URL |-> other, AUTOGENT_RESPOND_TO |-> "anyone",
                          BUZZ_AUTH_TAG |-> other, ANTHROPIC_API_KEY |-> x]]]

Shell == [AUTOGENT_MODEL |-> shellModel, NOSTR_SECRET_KEY |-> other, HOME |-> x]

Defaults == [command |-> None, workspace |-> None, timeout |-> None, logLevel |-> None]
Deploy(raw) == [up |-> FALSE, dry |-> FALSE, config |-> Defaults, agent |-> raw]
Up(dry, prefix) ==
  [up |-> TRUE, dry |-> dry, config |-> Defaults,
   options |-> [name |-> None, relayUrl |-> None, respondTo |-> None, allowlist |-> None,
                prompt |-> None, model |-> None, envVars |-> <<>>, prefix |-> prefix]]
Silenced(raw) == [raw EXCEPT !.envVars = [BUZZ_ACP_NO_PRESENCE |-> x]]

Starts ==
  {[r1 |-> Deploy(Plain(a1)), r2 |-> Deploy(Launched(a1))],
   [r1 |-> Deploy(Launched(a1)), r2 |-> Up(FALSE, {a1})],
   [r1 |-> Deploy(Silenced(Plain(a1))), r2 |-> Up(TRUE, {a1})],
   [r1 |-> Up(FALSE, None), r2 |-> Up(FALSE, {a1})]}
AllStarts == {[r \in Runs |-> IF r = r1 THEN s.r1 ELSE s.r2] : s \in Starts}

-----------------------------------------------------------------------------
(* What an earlier Start left *)

Sealed == [agent |-> a1, owner |-> owner, name |-> "Pi Agent", relayUrl |-> relay, key |-> TRUE]
OldRecord ==
  [ours |-> TRUE, gen |-> Old, pid |-> TRUE,
   intent |-> Fingerprint("autogent-nostr",
                [stateDir |-> a1, workspace |-> a1, generation |-> None],
                BuildAgentEnv(Payload(Plain(a1)),
                  [stateDir |-> a1, workspace |-> a1, generation |-> None], None, Shell))]
Left(record, state, online) ==
  [registry |-> record, process |-> state, identity |-> Sealed,
   log |-> [writers |-> {Old}, online |-> online, fatal |-> FALSE]]
Residues ==
  {[registry |-> None, process |-> "none", identity |-> None, log |-> NoLog],
   Left(OldRecord, "booting", FALSE), Left(OldRecord, "online", TRUE),
   Left(OldRecord, "dead", TRUE), Left([OldRecord EXCEPT !.ours = FALSE], "dead", FALSE),
   Left(None, "dead", TRUE)}

-----------------------------------------------------------------------------
(* Jobs on a cluster *)

Settings == [model |-> ownModel, prompt |-> None, respondTo |-> "owner-only",
             inactivity |-> 0, langfuse |-> FALSE]
KubeDeploy(agent, p) == [kind |-> "deploy", agent |-> agent, profile |-> p]
Redeploy == [kind |-> "redeploy", profile |-> p1]
Push(login) == [kind |-> "push", profile |-> p1, login |-> login]
LoginOf(agent, accounts, replaces) ==
  [kind |-> "login", of |-> agent, login |-> accounts, replaces |-> replaces]
Revoke(agent) == [kind |-> "revoke", of |-> agent]
Configure(agent) ==
  [kind |-> "config", of |-> agent,
   document |-> BuildCoreConfig([Settings EXCEPT !.model = shellModel], None)]
EditOf(p, behaviour) ==
  [kind |-> "edit", profile |-> p, behaviour |-> behaviour, settings |-> [Settings EXCEPT !.model = shellModel]]
DeleteProfile(p) == [kind |-> "delete", profile |-> p]
Create(p) == [kind |-> "create", profile |-> p, settings |-> Settings, login |-> {y}]
KillPod(p) == [kind |-> "kill", profile |-> p]
Orders ==
  {[j1 |-> KubeDeploy(Plain(a1), p1), j2 |-> KubeDeploy(Launched(a1), p1)],
   [j1 |-> KubeDeploy(Plain(a1), p1), j2 |-> Redeploy],
   [j1 |-> KubeDeploy(Plain(a1), p1), j2 |-> KubeDeploy(Plain(a2), p2)],
   [j1 |-> Push({y}), j2 |-> KubeDeploy(Plain(a2), p2)],
   [j1 |-> Push({y}), j2 |-> Push({other})],
   [j1 |-> Push({y}), j2 |-> Redeploy],
   [j1 |-> LoginOf(a1, {y}, {x}), j2 |-> KubeDeploy(Plain(a2), p2)],
   [j1 |-> LoginOf(a1, {other}, {}), j2 |-> Push({y})],
   [j1 |-> Revoke(a1), j2 |-> KubeDeploy(Plain(a1), p1)],
   [j1 |-> Revoke(a1), j2 |-> LoginOf(a2, {x}, {y})],
   [j1 |-> EditOf(p1, TRUE), j2 |-> KubeDeploy(Plain(a1), p1)],
   [j1 |-> EditOf(p1, FALSE), j2 |-> DeleteProfile(p1)],
   [j1 |-> DeleteProfile(p1), j2 |-> KubeDeploy(Plain(a1), p1)],
   [j1 |-> DeleteProfile(p1), j2 |-> Create(p1)],
   [j1 |-> KillPod(p1), j2 |-> Redeploy],
   [j1 |-> Configure(a1), j2 |-> KubeDeploy(Plain(a1), p1)]}
AllOrders == {[j \in Jobs |-> IF j = j1 THEN o.j1 ELSE o.j2] : o \in Orders}

(* What is there: the accounts of each deployed agent, and its pod with its life. *)
World(accounts, inactivity) ==
  LET deployed == {a \in Names : accounts[a] # {}}
      settings == [Settings EXCEPT !.inactivity = inactivity]
      owns == [p \in Profiles |-> IF p = p1 THEN a1 ELSE a2] IN
  [profiles |-> [p \in Profiles |->
                   [agent |-> IF owns[p] \in deployed THEN owns[p] ELSE None,
                    settings |-> settings]],
   profileAuth |-> [p \in Profiles |-> {x}],
   bindings |-> {[agent |-> b[1], account |-> b[2]] :
                   b \in {c \in Names \X {x, y} : c[2] \in accounts[c[1]]}},
   agentAuth |-> accounts,
   head |-> [a \in Names |-> IF a \in deployed
                             THEN [core |-> BuildCoreConfig(settings, None), auth |-> accounts[a]]
                             ELSE NoHead],
   secrets |-> [a \in Names |-> IF a \in deployed THEN {First} ELSE {}],
   pod |-> [a \in Names |-> IF a \in deployed
                            THEN [gen |-> First, phase |-> "running", env |-> <<>>,
                                  bounded |-> inactivity > 0]
                            ELSE None]]
Owns(a, b) == [n \in Names |-> IF n = a1 THEN a ELSE b]
Undeployed == World(Owns({}, {}), 0)
Worlds ==
  {Undeployed, World(Owns({x}, {}), 0), World(Owns({x}, {}), 60), World(Owns({x}, {y}), 0)}

(* The instances meet what the theorems ask of them. *)
ASSUME OrdersAreAskable == \A o \in AllOrders : \A j \in Jobs : Askable(o[j])
ASSUME WorldsAreStored ==
  \A w \in Worlds : RegistryStored(w) /\ BindingsStored(w) /\ ClusterStored(w)
ASSUME ResiduesAreLeavable == \A left \in Residues : Leavable(left)

-----------------------------------------------------------------------------
(* Commands on one state directory *)

InitCommand(force) == [kind |-> "init", force |-> force, relay |-> relay]
Attest(by, covers) == [kind |-> "attest", owner |-> by, covers |-> covers]
Import == [kind |-> "import"]
Boot(env) == [kind |-> "boot", env |-> env]
DeploySecret == [nsec |-> a1, relay |-> relay, auth |-> Tag(a1)]

CommandList == <<c1, c2, c3, c4, c5>>
Sessions ==
  {<<InitCommand(FALSE), Attest(owner, TRUE), Import, Boot(None)>>,
   <<InitCommand(FALSE), Attest(owner, FALSE), Import, Boot(None)>>,
   <<InitCommand(FALSE), Attest(owner, TRUE), Import, InitCommand(TRUE), Boot(None)>>,
   <<InitCommand(FALSE), InitCommand(FALSE), Attest(owner, TRUE), Import, Boot(None)>>,
   <<Boot(DeploySecret), Boot(DeploySecret), InitCommand(TRUE)>>,
   <<Boot(DeploySecret), Attest(owner, TRUE), Import, InitCommand(FALSE)>>}
AllAsked ==
  {[c \in Commands |-> LET n == CHOOSE i \in 1..5 : c = CommandList[i]
                       IN IF n \in DOMAIN s THEN s[n] ELSE [kind |-> "none"]] : s \in Sessions}

(* An artifact for another agent that echoes this pairing, and one edited on its way. *)
Strays ==
  LET of(agent, signedFor) ==
        [agent |-> agent, nonce |-> c1, relay |-> relay, owner |-> owner,
         auth |-> [owner |-> owner, signedFor |-> signedFor, covers |-> TRUE]]
  IN {of(a2, a2), of(c1, a2)}

-----------------------------------------------------------------------------
Init ==
  \/ /\ backend = "local"
     /\ LocalInit(AllStarts, Residues)
     /\ KubeInit({CHOOSE o \in AllOrders : TRUE}, {Undeployed})
     /\ ProvisioningInit({CHOOSE s \in AllAsked : TRUE}, {})
  \/ /\ backend = "kubernetes"
     /\ LocalInit({CHOOSE s \in AllStarts : TRUE}, {CHOOSE left \in Residues : TRUE})
     /\ KubeInit(AllOrders, Worlds)
     /\ ProvisioningInit({CHOOSE s \in AllAsked : TRUE}, {})
  \/ /\ backend = "none"
     /\ LocalInit({CHOOSE s \in AllStarts : TRUE}, {CHOOSE left \in Residues : TRUE})
     /\ KubeInit({CHOOSE o \in AllOrders : TRUE}, {Undeployed})
     /\ ProvisioningInit(AllAsked, Strays)

Next ==
  \/ backend = "local" /\ LocalNext /\ UNCHANGED <<kubeVars, provisioningVars, backend>>
  \/ backend = "kubernetes" /\ ClusterNext /\ UNCHANGED <<localVars, provisioningVars, backend>>
  \/ backend = "none" /\ ProvisioningNext /\ UNCHANGED <<localVars, kubeVars, backend>>

Spec == Init /\ [][Next]_vars
===============================================================================
