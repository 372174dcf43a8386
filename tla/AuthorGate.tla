----------------------------- MODULE AuthorGate ------------------------------
(***************************************************************************)
(* Who may prompt the agent (src/security/author-gate.ts), and which messages  *)
(* are commands of the owner (src/security/control-commands.ts).              *)
(***************************************************************************)
EXTENDS FiniteSets

Policies     == {"nobody", "owner-only", "allowlist", "anyone"}
ChannelTypes == {"stream", "private", "dm", "unknown"}
Authors      == {"self", "owner", "configured", "listed", "other"}

(* What evaluate decides without asking anybody, or that it has to look the    *)
(* author's profile up: an unknown type is a DM, and in a DM neither "anyone"    *)
(* nor the allowlist counts.                                                  *)
Trusted(author) == author \in {"owner", "configured"}

Direct(type) == type \in {"dm", "unknown"}

Denied(author, policy) == author = "self" \/ policy = "nobody"

AllowedOutright(author, type, policy) ==
  /\ ~Denied(author, policy)
  /\ \/ Trusted(author)
     \/ ~Direct(type) /\ policy = "anyone"
     \/ ~Direct(type) /\ policy = "allowlist" /\ author = "listed"

NeedsLookup(author, type, policy) ==
  ~Denied(author, policy) /\ ~AllowedOutright(author, type, policy)

(* A command is one of the owner's chat messages, mentions the agent, and is    *)
(* nothing but the command once the mentions at its edges are gone.             *)
Words == {"cancel", "rotate", "shutdown", "prose"}

ControlCommand(author, mentions, word) ==
  IF word # "prose" /\ author = "owner" /\ mentions THEN word ELSE "none"
=============================================================================
