------------------------------- MODULE Cluster -------------------------------
(***************************************************************************)
(* One owner's cluster: the backend's jobs (KubernetesBackend), the commands on    *)
(* an agent (OwnerCommands) and the menu of the interactive CLI (ProfileMenu), as      *)
(* many processes as the owner starts, on the same files, records and objects.           *)
(***************************************************************************)
EXTENDS OwnerCommands, ProfileMenu

ClusterNext == KubeNext \/ OwnerNext \/ MenuNext

ClusterSpec(Orders, Worlds) == KubeInit(Orders, Worlds) /\ [][ClusterNext]_kubeVars

(* What a job can be asked: a login stores an account, a document is one, a job of *)
(* a profile names it.                                                               *)
Askable(o) ==
  /\ o.kind \in Renewals => o.login # {}
  /\ o.kind = "config" => o.document # None
  /\ o.kind \in {"deploy", "create"} \cup MenuKinds => o.profile \in Profiles

-----------------------------------------------------------------------------
(* What earlier commands left, when all of them came to their end *)

ProfileFields == {"agent", "settings"}

RegistryStored(world) ==
  /\ DOMAIN world.profiles = Profiles
  /\ \A p \in Profiles :
       world.profiles[p] # None => DOMAIN world.profiles[p] = ProfileFields

(* The bindings speak for every credential file. *)
BindingsStored(world) ==
  /\ DOMAIN world.agentAuth = Names
  /\ \A b, c \in world.bindings : b.account = c.account => b.agent = c.agent
  /\ \A a \in Names : \A x \in world.agentAuth[a] :
       \E b \in world.bindings : b.agent = a /\ b.account = x

HeadFields == {"core", "auth"}
PodFields == {"gen", "phase", "env", "bounded"}

(* Every pod has its records and its Secret; no Secret is of a job yet to start. *)
ClusterStored(world) ==
  /\ DOMAIN world.head = Names /\ DOMAIN world.pod = Names /\ DOMAIN world.secrets = Names
  /\ \A a \in Names :
       /\ DOMAIN world.head[a] = HeadFields
       /\ world.secrets[a] \cap Jobs = {}
       /\ world.pod[a] # None =>
            /\ DOMAIN world.pod[a] = PodFields
            /\ world.head[a].core # None /\ world.head[a].auth # {}
            /\ world.pod[a].gen \in world.secrets[a]
=============================================================================
