--------------------------- MODULE SessionRegistry ---------------------------
(***************************************************************************)
(* The agent sessions kept in memory, one per conversation                    *)
(* (src/runtime/session-registry.ts), and the turns that use them.  A session  *)
(* is identified by the settings it was opened under.  Opening takes time:     *)
(* settings are read when it begins.                                           *)
(***************************************************************************)
CONSTANTS
  Keys,      \* conversations
  NoSession

VARIABLES
  session,   \* #sessions: the settings of the session of each key
  turn,      \* the turn of each conversation; while it opens a session, its settings
  busyAtPush \* history: keys whose session was busy when settings were pushed

sessionVars == <<session, turn, busyAtPush>>

NoTurn == [stage |-> "none", settings |-> NoSession]

SInit ==
  /\ session = [k \in Keys |-> NoSession]
  /\ turn = [k \in Keys |-> NoTurn]
  /\ busyAtPush = {}

Starts(k, stage, settings) ==
  /\ turn[k].stage = "none"
  /\ turn' = [turn EXCEPT ![k] = [stage |-> stage, settings |-> settings]]

(* acquire(): the session of the conversation, or a new one. *)
Acquire(k) ==
  /\ session[k] # NoSession /\ Starts(k, "held", NoSession)
  /\ UNCHANGED <<session, busyAtPush>>

Open(k, settings) ==
  /\ session[k] = NoSession /\ Starts(k, "opening", settings)
  /\ busyAtPush' = busyAtPush \ {k}
  /\ UNCHANGED session

Opened(k) ==
  /\ turn[k].stage = "opening"
  /\ session' = [session EXCEPT ![k] = turn[k].settings]
  /\ turn' = [turn EXCEPT ![k] = [stage |-> "held", settings |-> NoSession]]
  /\ UNCHANGED busyAtPush

OpenFails(k) ==
  /\ turn[k].stage = "opening"
  /\ turn' = [turn EXCEPT ![k] = NoTurn]
  /\ UNCHANGED <<session, busyAtPush>>

(* The turn fetches the history it missed before it prompts: until then its    *)
(* session is not streaming.                                                   *)
Prompt(k) ==
  /\ turn[k].stage = "held"
  /\ turn' = [turn EXCEPT ![k].stage = "streaming"]
  /\ UNCHANGED <<session, busyAtPush>>

Settle(k) ==
  /\ turn[k].stage = "streaming"
  /\ turn' = [turn EXCEPT ![k] = NoTurn]
  /\ UNCHANGED <<session, busyAtPush>>

(* release(), for a rotation between two turns. *)
Release(k) ==
  /\ turn[k].stage = "none" /\ session[k] # NoSession
  /\ session' = [session EXCEPT ![k] = NoSession]
  /\ UNCHANGED <<turn, busyAtPush>>

Streaming(k) == turn[k].stage = "streaming"

(* applyConfig(): every session that does not stream is disposed of, one that  *)
(* a turn already holds included: the turn then prompts a disposed session.    *)
ApplyConfig ==
  LET kept == {k \in Keys : Streaming(k) /\ session[k] # NoSession} IN
    /\ session' = [k \in Keys |-> IF k \in kept THEN session[k] ELSE NoSession]
    /\ busyAtPush' = kept \cup {k \in Keys : turn[k].stage = "opening"}
    /\ UNCHANGED turn

DisposeAll ==
  /\ session' = [k \in Keys |-> NoSession]
  /\ turn' = [k \in Keys |-> NoTurn]
  /\ busyAtPush' = {}
==============================================================================
