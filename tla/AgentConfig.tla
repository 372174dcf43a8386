----------------------------- MODULE AgentConfig -----------------------------
(***************************************************************************)
(* The configuration document an owner publishes for the agent                *)
(* (src/runtime/remote-config.ts) and the configuration it yields              *)
(* (src/config.ts).  A document has a version and fields, None where it is     *)
(* silent; four fields stand for all: one with an enumeration, one it depends  *)
(* on, one with a lower bound and one switch.                                  *)
(***************************************************************************)
EXTENDS Integers

CONSTANTS
  Base,   \* the configuration the environment gives
  None    \* a field the document does not have

Fields == {"respondTo", "allowlist", "permits", "tracing"}

RespondToModes == {"owner-only", "allowlist", "anyone", "nobody"}

(* A document is accepted or rejected as a whole, so that a bad field never    *)
(* leaves half of it applied.                                                  *)
Parses(doc) ==
  /\ doc.v = 1
  /\ doc.respondTo # None => doc.respondTo \in RespondToModes
  /\ doc.permits # None => doc.permits >= 1
  /\ doc.tracing # None => doc.tracing \in BOOLEAN

(* The document wins where it says something, over the environment and not     *)
(* over an earlier document.                                                   *)
ApplyCoreConfig(doc) ==
  [f \in Fields |-> IF doc[f] = None THEN Base[f] ELSE doc[f]]

(* validateConfig, of what a document can change.                              *)
Valid(config) ==
  /\ config["permits"] >= 1
  /\ config["respondTo"] = "allowlist" => config["allowlist"] # {}

(* At boot an unusable document counts as none; a pushed one is not validated. *)
Usable(doc) == Parses(doc) /\ Valid(ApplyCoreConfig(doc))
==============================================================================
