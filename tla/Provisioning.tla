----------------------------- MODULE Provisioning -----------------------------
(***************************************************************************)
(* How an agent gets its identity (src/provisioning): init seals a fresh key and    *)
(* issues a pairing request, the owner attests it, import records the attestation,   *)
(* and a container's first boot does both from the deploy Secret; then the agent       *)
(* boots on what is sealed (src/main.ts).  Every command is a process of its own, no     *)
(* lock is held on the directory, and a command may die at any await.                     *)
(*                                                                                          *)
(* A command's fresh key and fresh nonce are named by the command.  Every file is           *)
(* written to the same temporary name and renamed.                                           *)
(***************************************************************************)
EXTENDS DeployRequest

CONSTANTS
  Commands,
  MaxDeaths    \* bound: commands that die

VARIABLES
  asked,       \* per command: its kind and arguments
  command,     \* per command: its step and what it holds in memory
  key,         \* agent.key
  keyTmp,      \* agent.key.tmp
  idRecord,    \* identity.json
  recordTmp,   \* identity.json.tmp
  pairingFile, \* pairing-request.json
  artifacts,   \* attestations that travelled back, and edited or foreign ones
  raced,       \* history: a key was sealed while another command relied on one
  deaths

files == <<key, keyTmp, idRecord, recordTmp>>
provisioningVars ==
  <<asked, command, files, pairingFile, artifacts, raced, deaths>>

Held(c) == command[c]
Kind(c) == asked[c].kind
Move(c, pc) == command' = [command EXCEPT ![c].pc = pc]

-----------------------------------------------------------------------------
(* init *)

Unprovisioned(c) ==
  [agent |-> c, nonce |-> c, relay |-> asked[c].relay, owner |-> None, auth |-> None]

(* Without force an existing key or record is left alone. *)
InitIdentity(c) ==
  /\ Kind(c) = "init" /\ Held(c).pc = "new"
  /\ command' = [command EXCEPT
       ![c].pc = IF asked[c].force \/ (key = None /\ idRecord = None) THEN "seal" ELSE "failed",
       ![c].agent = c, ![c].record = Unprovisioned(c)]
  /\ UNCHANGED <<asked, files, pairingFile, artifacts, raced, deaths>>

WritePairingRequest(c) ==
  /\ Held(c).pc = "pairing"
  /\ pairingFile' = [agent |-> Held(c).record.agent, nonce |-> Held(c).record.nonce,
                     relay |-> Held(c).record.relay]
  /\ Move(c, "done")
  /\ UNCHANGED <<asked, files, artifacts, raced, deaths>>

-----------------------------------------------------------------------------
(* The store: the key, then the record *)

(* A seal that may not replace looks first. *)
Seal(c) ==
  /\ Held(c).pc = "seal"
  /\ Move(c, IF key = None \/ (Kind(c) = "init" /\ asked[c].force) THEN "writeKey" ELSE "failed")
  /\ UNCHANGED <<asked, files, pairingFile, artifacts, raced, deaths>>

WriteKey(c) ==
  /\ Held(c).pc = "writeKey"
  /\ keyTmp' = Held(c).agent
  /\ Move(c, "renameKey")
  /\ UNCHANGED <<asked, key, idRecord, recordTmp, pairingFile, artifacts, raced, deaths>>

(* Steps at which a command relies on the key it has checked or read. *)
Relying ==
  {"seal", "writeKey", "renameKey", "provision", "writeRecord", "renameRecord", "secret"}

(* The rename takes what is in the temporary file; it fails when another's rename   *)
(* has taken it.                                                                     *)
RenameKey(c) ==
  /\ Held(c).pc = "renameKey"
  /\ IF keyTmp = None
     THEN Move(c, "failed") /\ UNCHANGED <<key, keyTmp, raced>>
     ELSE /\ key' = keyTmp /\ keyTmp' = None
          /\ Move(c, "writeRecord")
          /\ raced' = (raced \/ keyTmp # Held(c).agent
                            \/ \E k \in Commands \ {c} : Held(k).pc \in Relying)
  /\ UNCHANGED <<asked, idRecord, recordTmp, pairingFile, artifacts, deaths>>

WriteRecord(c) ==
  /\ Held(c).pc = "writeRecord"
  /\ recordTmp' = Held(c).record
  /\ Move(c, "renameRecord")
  /\ UNCHANGED <<asked, key, keyTmp, idRecord, pairingFile, artifacts, raced, deaths>>

AfterRecord == [init |-> "pairing", boot |-> "load", import |-> "done"]

RenameRecord(c) ==
  /\ Held(c).pc = "renameRecord"
  /\ IF recordTmp = None
     THEN Move(c, "failed") /\ UNCHANGED <<idRecord, recordTmp>>
     ELSE /\ idRecord' = recordTmp /\ recordTmp' = None
          /\ Move(c, AfterRecord[Kind(c)])
  /\ UNCHANGED <<asked, key, keyTmp, pairingFile, artifacts, raced, deaths>>

-----------------------------------------------------------------------------
(* attest, on the owner's machine *)

ReadPairing(c) ==
  /\ Kind(c) = "attest" /\ Held(c).pc = "new"
  /\ pairingFile # None
  /\ command' = [command EXCEPT ![c].pc = "sign", ![c].record = pairingFile]
  /\ UNCHANGED <<asked, files, pairingFile, artifacts, raced, deaths>>

(* The owner's key signs for the agent of the request, never for itself. *)
Sign(c) ==
  LET pairing == Held(c).record IN
  /\ Held(c).pc = "sign"
  /\ IF asked[c].owner = pairing.agent
     THEN Move(c, "failed") /\ UNCHANGED artifacts
     ELSE /\ artifacts' = artifacts \cup
               {[agent |-> pairing.agent, nonce |-> pairing.nonce, relay |-> pairing.relay,
                 owner |-> asked[c].owner,
                 auth |-> [owner |-> asked[c].owner, signedFor |-> pairing.agent,
                           covers |-> asked[c].covers]]}
          /\ Move(c, "done")
  /\ UNCHANGED <<asked, files, pairingFile, raced, deaths>>

-----------------------------------------------------------------------------
(* import *)

ReadArtifact(c) ==
  /\ Kind(c) = "import" /\ Held(c).pc = "new"
  /\ \E a \in artifacts :
       command' = [command EXCEPT
         ![c].pc = IF idRecord = None \/ a.auth.owner # a.owner THEN "failed" ELSE "check",
         ![c].record = idRecord, ![c].artifact = a]
  /\ UNCHANGED <<asked, files, pairingFile, artifacts, raced, deaths>>

(* The attestation is for the sealed key and the recorded one, by somebody else,    *)
(* and answers this very pairing request.                                             *)
Answers(a, record, sealed) ==
  /\ a.agent = sealed
  /\ a.agent = record.agent
  /\ a.nonce = record.nonce
  /\ a.relay = record.relay
  /\ Attested(a.auth, sealed, None)

CheckArtifact(c) ==
  /\ Held(c).pc = "check"
  /\ Move(c, IF key # None /\ Answers(Held(c).artifact, Held(c).record, key)
             THEN "provision" ELSE "failed")
  /\ UNCHANGED <<asked, files, pairingFile, artifacts, raced, deaths>>

(* recordProvisioning reads the record again and adds owner and tag to it. *)
RecordProvisioning(c) ==
  /\ Held(c).pc = "provision"
  /\ command' = IF idRecord = None THEN [command EXCEPT ![c].pc = "failed"]
                ELSE [command EXCEPT
                        ![c].pc = "writeRecord",
                        ![c].record = [idRecord EXCEPT !.owner = Held(c).artifact.owner,
                                                       !.auth = Held(c).artifact.auth]]
  /\ UNCHANGED <<asked, files, pairingFile, artifacts, raced, deaths>>

-----------------------------------------------------------------------------
(* The agent's boot *)

FromEnv(env) ==
  [agent |-> env.nsec, nonce |-> env.nsec, relay |-> env.relay,
   owner |-> env.auth.owner, auth |-> env.auth]

(* What is sealed wins over the environment; without a record the environment must  *)
(* carry a key and an attestation that verifies for it.                               *)
Bootstrap(c) ==
  LET env == asked[c].env IN
  /\ Kind(c) = "boot" /\ Held(c).pc = "new"
  /\ command' =
       IF idRecord # None THEN [command EXCEPT ![c].pc = "load"]
       ELSE IF env = None THEN [command EXCEPT ![c].pc = "failed"]
       ELSE IF ~ Attested(env.auth, env.nsec, None) THEN [command EXCEPT ![c].pc = "failed"]
       ELSE [command EXCEPT ![c].pc = "seal", ![c].agent = env.nsec, ![c].record = FromEnv(env)]
  /\ UNCHANGED <<asked, files, pairingFile, artifacts, raced, deaths>>

LoadRecord(c) ==
  /\ Held(c).pc = "load"
  /\ command' = [command EXCEPT
       ![c].pc = IF idRecord = None THEN "failed"
                 ELSE IF idRecord.owner = None THEN "failed" ELSE "signer",
       ![c].record = idRecord]
  /\ UNCHANGED <<asked, files, pairingFile, artifacts, raced, deaths>>

LoadSigner(c) ==
  /\ Held(c).pc = "signer"
  /\ command' = [command EXCEPT ![c].pc = IF key = None THEN "failed" ELSE "secret",
                                ![c].agent = key]
  /\ UNCHANGED <<asked, files, pairingFile, artifacts, raced, deaths>>

(* The broker of the command line tool gets the key in a read of its own. *)
LoadSecret(c) ==
  /\ Held(c).pc = "secret"
  /\ command' = [command EXCEPT ![c].pc = "build", ![c].broker = key]
  /\ UNCHANGED <<asked, files, pairingFile, artifacts, raced, deaths>>

(* Mutant: the event builder takes key and tag as they come. *)
BuildUnchecked(c) ==
  /\ Held(c).pc = "build"
  /\ Move(c, "running")
  /\ UNCHANGED <<asked, files, pairingFile, artifacts, raced, deaths>>

(* The event builder refuses a tag that does not cover its key. *)
BuildEvents(c) ==
  /\ Held(c).pc = "build"
  /\ Move(c, IF Attested(Held(c).record.auth, Held(c).agent, None) THEN "running" ELSE "failed")
  /\ UNCHANGED <<asked, files, pairingFile, artifacts, raced, deaths>>

Finished == {"new", "done", "failed", "dead"}

CommandDies(c) ==
  /\ Held(c).pc \notin Finished
  /\ deaths > 0
  /\ deaths' = deaths - 1
  /\ Move(c, "dead")
  /\ UNCHANGED <<asked, files, pairingFile, artifacts, raced>>

-----------------------------------------------------------------------------
ProvisioningInit(Asked, Artifacts) ==
  /\ asked \in Asked
  /\ command = [c \in Commands |-> [pc |-> "new", agent |-> None, record |-> None,
                                    artifact |-> None, broker |-> None]]
  /\ key = None /\ keyTmp = None
  /\ idRecord = None /\ recordTmp = None
  /\ pairingFile = None
  /\ artifacts = Artifacts
  /\ raced = FALSE
  /\ deaths = MaxDeaths

CommandStep(c) ==
  \/ InitIdentity(c) \/ Seal(c) \/ WriteKey(c) \/ RenameKey(c) \/ WriteRecord(c) \/ RenameRecord(c)
  \/ WritePairingRequest(c) \/ ReadPairing(c) \/ Sign(c)
  \/ ReadArtifact(c) \/ CheckArtifact(c) \/ RecordProvisioning(c)
  \/ Bootstrap(c) \/ LoadRecord(c) \/ LoadSigner(c) \/ LoadSecret(c) \/ BuildEvents(c)
  \/ CommandDies(c)

ProvisioningNext == \E c \in Commands : CommandStep(c)

ProvisioningSpec(Asked, Artifacts) ==
  ProvisioningInit(Asked, Artifacts) /\ [][ProvisioningNext]_provisioningVars

-----------------------------------------------------------------------------
(* However commands interleave and die, an agent that runs signs with a key somebody  *)
(* else attested for every kind it publishes; and its broker has the same key, unless    *)
(* a key was sealed while another command was at work.                                     *)
ActsAttested ==
  \A c \in Commands : Held(c).pc = "running" =>
    LET auth == Held(c).record.auth IN
    /\ auth.signedFor = Held(c).agent
    /\ auth.owner # Held(c).agent
    /\ auth.covers
    /\ raced \/ Held(c).broker = Held(c).agent
=============================================================================
