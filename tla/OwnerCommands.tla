---------------------------- MODULE OwnerCommands ----------------------------
(***************************************************************************)
(* The owner's commands on an agent named by its key (src/owner-auth/cli.ts,         *)
(* config-cli.ts, agent-relay.ts, oauth.ts): a login, a revocation and a new            *)
(* configuration.  They use the files and the relay records the backend's jobs use,        *)
(* and are jobs beside them: the same bindings, credential files and heads, in               *)
(* another order, with nothing of the cluster.                                                *)
(*                                                                                               *)
(* A login stores the credential first, the provider's own flow writes the file, and            *)
(* looks at the bindings afterwards; a revocation takes the record and the binding away          *)
(* and keeps the file.                                                                             *)
(***************************************************************************)
EXTENDS KubernetesBackend

Commanded(j, kind, from, to) ==
  /\ order[j].kind = kind
  /\ job[j].pc = from
  /\ job' = [job EXCEPT ![j].pc = to]

-----------------------------------------------------------------------------
(* The signing key comes from the keyring or a file, and is the agent's or refused: *)
(* a command that is not refused knows its agent.                                       *)

FirstStep == [login |-> "login", revoke |-> "connect", config |-> "connect"]

StartCommand(j) ==
  /\ order[j].kind \in DOMAIN FirstStep /\ job[j].pc = "new"
  /\ job' = [job EXCEPT ![j].pc = FirstStep[order[j].kind], ![j].agent = order[j].of]
  /\ UNCHANGED <<order, stores, head, cluster, crossed, torn, lost, errors>>

(* The provider's flow replaces its own entry of the file and keeps the others; the   *)
(* whole file is bound next.                                                            *)
Login(j) ==
  LET agent == order[j].of
      file == (agentAuth[agent] \ order[j].replaces) \cup order[j].login IN
  /\ order[j].kind = "login" /\ job[j].pc = "login"
  /\ agentAuth' = [agentAuth EXCEPT ![agent] = file]
  /\ job' = [job EXCEPT ![j].pc = "bind", ![j].auth = file]
  /\ UNCHANGED <<order, profiles, profileAuth, bindings, head, cluster, crossed, torn, lost, errors>>

(* The command answers the relay's challenge with the attestation of the agent's own  *)
(* profile event, which the agent has published if it has ever run.                      *)
ConnectAsAgent(j) ==
  LET after == [login |-> "publishAuth", revoke |-> "tombstone", config |-> "publishCore"]
      refused == IF order[j].kind = "login" THEN "local" ELSE "failed" IN
  /\ job[j].pc = "connect"
  /\ job' = [job EXCEPT ![j].pc = IF head[order[j].of].core = None THEN refused
                                  ELSE after[order[j].kind]]
  /\ UNCHANGED <<order, stores, head, cluster, crossed, torn, lost, errors>>

-----------------------------------------------------------------------------
(* A revocation *)

Tombstone(j) ==
  /\ Commanded(j, "revoke", "tombstone", "unbind")
  /\ head' = [head EXCEPT ![order[j].of].auth = {}]
  /\ UNCHANGED <<order, stores, cluster, crossed, torn, lost, errors>>

(* removeBinding reads the file; without a binding it writes nothing. *)
ReadBindings(j) ==
  /\ order[j].kind = "revoke" /\ job[j].pc = "unbind"
  /\ torn' = (torn \/ \E k \in Jobs \ {j} : Rebinding(k))
  /\ job' = [job EXCEPT
               ![j].pc = IF \E b \in bindings : b.agent = order[j].of THEN "unbound" ELSE "done",
               ![j].seen = bindings]
  /\ UNCHANGED <<order, stores, head, cluster, crossed, lost, errors>>

RemoveBinding(j) ==
  /\ Commanded(j, "revoke", "unbound", "done")
  /\ bindings' = Bound(order[j].of, {}, job[j].seen)
  /\ UNCHANGED <<order, profiles, profileAuth, agentAuth, head, cluster, crossed, torn, lost, errors>>

-----------------------------------------------------------------------------
(* A configuration *)

(* The document is validated before the relay is touched. *)
PublishCore(j) ==
  /\ Commanded(j, "config", "publishCore", "verify")
  /\ head' = [head EXCEPT ![order[j].of].core = order[j].document]
  /\ UNCHANGED <<order, stores, cluster, crossed, torn, lost, errors>>

(* The head read back must be the own record; another writer's is a conflict. *)
VerifyCore(j) ==
  /\ Commanded(j, "config", "verify",
               IF head[order[j].of].core = order[j].document THEN "done" ELSE "failed")
  /\ UNCHANGED <<order, stores, head, cluster, crossed, torn, lost, errors>>

-----------------------------------------------------------------------------
OwnerStep(j) ==
  \/ StartCommand(j) \/ Login(j) \/ ConnectAsAgent(j)
  \/ Tombstone(j) \/ ReadBindings(j) \/ RemoveBinding(j)
  \/ PublishCore(j) \/ VerifyCore(j)

OwnerNext == \E j \in Jobs : OwnerStep(j)

-----------------------------------------------------------------------------
JobsOf(kind, agent) == {j \in Jobs : order[j].kind = kind /\ job[j].agent = agent}

Revoked(agent) ==
  \E j \in JobsOf("revoke", agent) : job[j].pc \notin {"new", "connect", "tombstone"}

(* The credential file holds what the bindings may not: a login has stored it and is *)
(* not bound, or was refused; a revocation has unbound it.                               *)
Unbound(agent) ==
  \/ \E j \in JobsOf("login", agent) : job[j].pc \notin AfterStored \cup {"done", "local"}
  \/ Revoked(agent)

(* A pod is only ever made for an agent whose records are on the relay, and it and   *)
(* every deploy still at work find the Secret they were made with: the identity lives   *)
(* nowhere else.  Excepted is the credential of an agent whose owner has revoked it, and   *)
(* a sweep that met a deploy at work, which the code does not prevent: two overlapping       *)
(* deploys can delete each other's Secret.                                                     *)
AgentsCanBoot ==
  \A a \in Names :
    /\ pod[a] # None => /\ head[a].core # None
                        /\ head[a].auth # {} \/ Revoked(a)
                        /\ crossed \/ SecretThere(a)
    /\ \A j \in Jobs : job[j].agent = a /\ job[j].pc \in Unlisted =>
         crossed \/ j \in secrets[a]

(* No account drives two agents: neither through the profile's login nor through a    *)
(* push after a new login, nor through an account another agent has given up.  Excepted    *)
(* are the files the bindings do not speak for, of a refused login and of a revocation,      *)
(* jobs that read the bindings while another was rewriting them, and a login whose file       *)
(* another job has replaced before it is bound.                                                 *)
OneAccountOneAgent ==
  torn \/ \A a, b \in Names :
            a # b /\ ~ Unbound(a) /\ ~ Unbound(b) => agentAuth[a] \cap agentAuth[b] = {}
=============================================================================
