----------------------------- MODULE ProfileMenu -----------------------------
(***************************************************************************)
(* The interactive CLI on the registry of profiles (src/interactive/cli.ts,        *)
(* src/registry/profiles.ts): the wizard that creates a profile and the menu that      *)
(* edits, deletes, redeploys, kills and logs in one.                                     *)
(*                                                                                          *)
(* The menu reads a profile, waits for the owner, and writes back what it read with           *)
(* the answers put in; each write of the registry reads and rewrites the whole file.            *)
(* A deploy that ends while the owner is typing marks the profile in between.                     *)
(***************************************************************************)
EXTENDS KubernetesBackend

MenuKinds == {"redeploy", "push", "edit", "delete", "kill"}

Chosen(j, kind, from, to) ==
  /\ order[j].kind = kind
  /\ job[j].pc = from
  /\ job' = [job EXCEPT ![j].pc = to]

(* Of a profile without an agent only the login, the edits and the deletion are      *)
(* offered; the agent's settings can be edited once there is a login.                    *)
OpenMenu(j) ==
  LET offered == /\ Profile(j) # None
                 /\ order[j].kind \in {"redeploy", "kill"} => Profile(j).agent # None
                 /\ order[j].kind = "edit" /\ order[j].behaviour =>
                      profileAuth[order[j].profile] # {} IN
  /\ order[j].kind \in MenuKinds /\ job[j].pc = "new"
  /\ job' = [job EXCEPT ![j].pc = IF offered THEN "menu" ELSE "failed", ![j].profile = Profile(j)]
  /\ UNCHANGED <<order, stores, head, cluster, crossed, torn, lost, errors>>

-----------------------------------------------------------------------------
(* The wizard *)

(* A name that is taken is refused; the login is mandatory and comes first. *)
StartCreate(j) ==
  /\ order[j].kind = "create" /\ job[j].pc = "new"
  /\ IF Profile(j) # None
     THEN /\ job' = [job EXCEPT ![j].pc = "failed"]
          /\ UNCHANGED profileAuth
     ELSE /\ profileAuth' = [profileAuth EXCEPT ![order[j].profile] = order[j].login]
          /\ job' = [job EXCEPT ![j].pc = "settings"]
  /\ UNCHANGED <<order, profiles, bindings, agentAuth, head, cluster, crossed, torn, lost, errors>>

NewProfile(settings) == [agent |-> None, settings |-> settings]

Answered(j) ==
  /\ Chosen(j, "create", "settings", "save")
  /\ UNCHANGED <<order, stores, head, cluster, crossed, torn, lost, errors>>

(* The settings are not completed: the credential of the unsaved profile goes. *)
Cancelled(j) ==
  /\ Chosen(j, "create", "settings", "failed")
  /\ profileAuth' = [profileAuth EXCEPT ![order[j].profile] = {}]
  /\ UNCHANGED <<order, profiles, bindings, agentAuth, head, cluster, crossed, torn, lost, errors>>

-----------------------------------------------------------------------------
(* The edits *)

Edit(j) ==
  /\ Chosen(j, "edit", "menu", "save")
  /\ UNCHANGED <<order, stores, head, cluster, crossed, torn, lost, errors>>

(* saveProfile reads the registry and puts the profile in, known or not. *)
ReadRegistry(j) ==
  /\ job[j].pc = "save"
  /\ job' = [job EXCEPT ![j].pc = "saving", ![j].seen = profiles]
  /\ UNCHANGED <<order, stores, head, cluster, crossed, torn, lost, errors>>

(* Mutant: the saved profile is the wizard's, with the answers put in. *)
SavedAnew(j) == NewProfile(order[j].settings)

(* What the menu read, with the answers put in. *)
Saved(j) ==
  IF job[j].profile = None THEN NewProfile(order[j].settings)
  ELSE [job[j].profile EXCEPT !.settings = order[j].settings]

SaveProfile(j) ==
  LET name == order[j].profile IN
  /\ Step(j, "saving", "done")
  /\ profiles' = [job[j].seen EXCEPT ![name] = Saved(j)]
  /\ lost' = (lost \/ job[j].seen # profiles \/ job[j].seen[name] # job[j].profile)
  /\ UNCHANGED <<order, profileAuth, bindings, agentAuth, head, cluster, crossed, torn, errors>>

-----------------------------------------------------------------------------
(* The deletion: the registry, then the directory with the login.  The bindings, the *)
(* agent's credential and its pod stay.                                                 *)

Delete(j) ==
  /\ order[j].kind = "delete" /\ job[j].pc = "menu"
  /\ job' = [job EXCEPT ![j].pc = IF Profile(j) = None THEN "done" ELSE "drop",
                        ![j].seen = profiles]
  /\ UNCHANGED <<order, stores, head, cluster, crossed, torn, lost, errors>>

DropProfile(j) ==
  /\ Chosen(j, "delete", "drop", "dropped")
  /\ profiles' = [job[j].seen EXCEPT ![order[j].profile] = None]
  /\ lost' = (lost \/ job[j].seen # profiles)
  /\ UNCHANGED <<order, profileAuth, bindings, agentAuth, head, cluster, crossed, torn, errors>>

DropLogin(j) ==
  /\ Chosen(j, "delete", "dropped", "done")
  /\ profileAuth' = [profileAuth EXCEPT ![order[j].profile] = {}]
  /\ UNCHANGED <<order, profiles, bindings, agentAuth, head, cluster, crossed, torn, lost, errors>>

(* The pod is stopped; its records, Secret and volume are kept for a redeploy. *)
Kill(j) ==
  /\ Chosen(j, "kill", "menu", "done")
  /\ pod' = [pod EXCEPT ![job[j].profile.agent] = None]
  /\ UNCHANGED <<order, stores, head, secrets, crossed, torn, lost, errors>>

-----------------------------------------------------------------------------
MenuStep(j) ==
  \/ OpenMenu(j) \/ StartCreate(j) \/ Answered(j) \/ Cancelled(j)
  \/ Edit(j) \/ ReadRegistry(j) \/ SaveProfile(j)
  \/ Delete(j) \/ DropProfile(j) \/ DropLogin(j) \/ Kill(j)

MenuNext == \E j \in Jobs : MenuStep(j)

-----------------------------------------------------------------------------
DoneJobs(kind, p) ==
  {j \in Jobs : order[j].kind = kind /\ order[j].profile = p /\ job[j].pc = "done"}

(* A deletion may have failed to remove the login after the registry. *)
Deletions(p) ==
  {j \in Jobs : order[j].kind = "delete" /\ order[j].profile = p
                  /\ job[j].pc \notin {"new", "menu", "drop"}}

(* What a job of the owner has written into the registry stays there until another     *)
(* job of the owner takes it back: a deployed profile names its agent, so that the menu   *)
(* offers to redeploy, kill and push, a saved one has saved settings and a deleted one      *)
(* is gone; unless the registry was written from a copy that another job had overtaken,       *)
(* a menu's or the file's own.                                                                  *)
RegistryKeepsWork ==
  lost \/ \A p \in Profiles :
    LET deploys == DoneJobs("deploy", p) \cup DoneJobs("redeploy", p)
        edits == DoneJobs("edit", p)
        created == {j \in Jobs : order[j].kind = "create" /\ order[j].profile = p} IN
    /\ profiles[p] # None /\ created = {} =>
         /\ deploys # {} => profiles[p].agent # None
         /\ edits # {} => profiles[p].settings \in {order[j].settings : j \in edits}
    /\ profiles[p] = None => deploys \cup edits = {} \/ Deletions(p) # {}
    /\ DoneJobs("delete", p) # {} /\ created = {} => profiles[p] = None
=============================================================================
