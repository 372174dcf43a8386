----------------------------- MODULE BuzzBroker -----------------------------
(***************************************************************************)
(* The broker that runs the model's buzz commands                           *)
(* (src/tools/buzz-broker.ts, src/tools/git-tools.ts).  The model's shell   *)
(* only has a shim; the shim sends one line over a unix socket, the broker  *)
(* checks it against the live configuration, runs the real program under a  *)
(* ceiling of its own (a Semaphore that is never resized), and answers.     *)
(*                                                                         *)
(* A connection hands its line over twice: when the line is complete and    *)
(* when the shim closes its side.  A reading of the line is what acquires   *)
(* a permit; it is identified by its command and the event it began with.   *)
(*                                                                         *)
(* A server, a child process and a socket are modelled by their states;     *)
(* output is not, except that it may name a clone address, which has to be  *)
(* rewritten to the local git proxy.                                        *)
(***************************************************************************)
EXTENDS Semaphore

CONSTANTS
  Commands,   \* the shims the model's shell starts
  Workloads,  \* functions from Commands to [kind, parts]
  MaxPushes,  \* bounds configuration pushes
  None

Readings == Commands \X {"data", "end"}

\* What the model may send: an ordinary command, one that prints a clone
\* address, one with a flag that is the broker's to set, one the owner may
\* deny, one that does not parse and one that is too large.
Kinds == {"plain", "clone", "forbidden", "deniable", "malformed", "huge"}
Policies == {"open", "deny", "off"}

\* What the broker or, without one, the shim itself may answer.
Refusals == {"malformed", "disabled", "forbidden", "denied"}
Answers == Refusals \cup {"too_large", "unreachable", "result", "failed"}

ASSUME BrokerAssumption ==
  /\ Readings \subseteq Holders
  /\ Workloads \subseteq [Commands -> [kind : Kinds, parts : Nat \ {0}]]
  /\ MaxPushes \in Nat
  /\ None \notin Answers

VARIABLES
  command,    \* what each shim sends, and in how many parts
  shim,       \* "unborn", "asking", "told" or "gone"
  received,   \* the parts of the request kept so far
  answer,     \* what the broker answered (None: not handled yet)
  ended,      \* the broker saw the shim close its side
  reading,    \* "none", "waiting", "running", "binding" or "over"
  runs,       \* how often the real program was started for the command
  policy,     \* buzz_cli.enabled and buzz_cli.deny_commands
  pushes,     \* how often the owner changed it
  listening,  \* "idle", "yes", "failed" or "closed"
  port,       \* the git proxy has a port
  servers     \* git proxies that listen

brokerVars == <<command, shim, received, answer, ended, reading, runs, policy,
                pushes, listening, port, servers>>

BrokerInit ==
  /\ command \in Workloads
  /\ shim = [c \in Commands |-> "unborn"]
  /\ received = [c \in Commands |-> 0]
  /\ answer = [c \in Commands |-> None]
  /\ ended = [c \in Commands |-> FALSE]
  /\ reading = [r \in Readings |-> "none"]
  /\ runs = [c \in Commands |-> 0]
  /\ policy \in Policies
  /\ pushes = 0
  /\ listening = "idle"
  /\ port = FALSE
  /\ servers = 0

\* The runtime starts without a broker when the bind fails.
Start ==
  /\ listening = "idle"
  /\ listening' \in {"yes", "failed"}
  /\ UNCHANGED <<vars, command, shim, received, answer, ended, reading, runs,
                 policy, pushes, port, servers>>

\* The shim connects and writes its line, or tells the model there is no buzz.
Connect(c) ==
  /\ shim[c] = "unborn" /\ listening # "idle"
  /\ IF listening = "yes"
     THEN shim' = [shim EXCEPT ![c] = "asking"] /\ UNCHANGED answer
     ELSE /\ shim' = [shim EXCEPT ![c] = "told"]
          /\ answer' = [answer EXCEPT ![c] = "unreachable"]
  /\ UNCHANGED <<vars, command, received, ended, reading, runs, policy, pushes,
                 listening, port, servers>>

\* Only the first answer of a connection is sent.
Finished(c, a) == IF answer[c] = None THEN [answer EXCEPT ![c] = a] ELSE answer

LineComplete(c) ==
  command[c].kind # "huge" /\ received'[c] = command[c].parts

\* Why a request is refused before it waits for a permit.
Refusal(c) ==
  CASE command[c].kind = "malformed" -> "malformed"
    [] policy = "off" -> "disabled"
    [] command[c].kind = "forbidden" -> "forbidden"
    [] policy = "deny" /\ command[c].kind = "deniable" -> "denied"
    [] OTHER -> None

HandleRequest(r) ==
  IF Refusal(r[1]) # None
  THEN /\ answer' = Finished(r[1], Refusal(r[1]))
       /\ reading' = [reading EXCEPT ![r] = "over"]
       /\ UNCHANGED vars
  ELSE /\ reading' = [reading EXCEPT ![r] = "waiting"]
       /\ Acquire(r)
       /\ UNCHANGED answer

\* Mutant: what has arrived is taken for the line.
ConsumeAnything(r) ==
  IF LineComplete(r[1])
  THEN HandleRequest(r)
  ELSE /\ answer' = Finished(r[1], "malformed")
       /\ UNCHANGED <<vars, reading>>

Consume(r) ==
  IF LineComplete(r[1])
  THEN HandleRequest(r)
  ELSE UNCHANGED <<vars, answer, reading>>

\* A part of the request arrives.  The part that makes it too large is not
\* kept; nothing is once the connection was answered.
Chunk(c) ==
  /\ shim[c] = "asking" /\ answer[c] = None
  /\ received[c] < command[c].parts
  /\ received' = [received EXCEPT ![c] = @ + 1]
  /\ IF command[c].kind = "huge" /\ received'[c] = command[c].parts
     THEN /\ answer' = Finished(c, "too_large")
          /\ UNCHANGED <<vars, reading>>
     ELSE Consume(<<c, "data">>)
  /\ UNCHANGED <<command, shim, ended, runs, policy, pushes, listening, port, servers>>

\* The shim closed its side: after it read the answer, or because the shell
\* was stopped.  What was received is consumed once more.
EndSeen(c) ==
  /\ shim[c] \in {"told", "gone"} /\ ~ended[c] /\ answer[c] # "unreachable"
  /\ ended' = [ended EXCEPT ![c] = TRUE]
  /\ received' = received
  /\ Consume(<<c, "end">>)
  /\ UNCHANGED <<command, shim, runs, policy, pushes, listening, port, servers>>

\* The permit was granted, at once or by a release.
Execute(r) ==
  /\ reading[r] = "waiting" /\ r \in held
  /\ reading' = [reading EXCEPT ![r] = "running"]
  /\ runs' = [runs EXCEPT ![r[1]] = @ + 1]
  /\ UNCHANGED <<vars, command, shim, received, answer, ended, policy, pushes,
                 listening, port, servers>>

\* Mutant: the permit is only given back when there is a result to return.
RespondKeepsPermit(r, a) ==
  /\ answer' = Finished(r[1], a)
  /\ reading' = [reading EXCEPT ![r] = "over"]
  /\ IF a = "failed" THEN UNCHANGED vars ELSE Release(r)

\* The permit goes back whatever came of the command.
Respond(r, a) ==
  /\ answer' = Finished(r[1], a)
  /\ reading' = [reading EXCEPT ![r] = "over"]
  /\ Release(r)

\* The program ends, cannot be started, or is killed at its timeout.
ChildEnds(r) ==
  /\ reading[r] = "running"
  /\ \/ command[r[1]].kind # "clone" /\ Respond(r, "result")
     \/ command[r[1]].kind = "clone" /\ port /\ Respond(r, "result")
     \/ Respond(r, "failed")
  /\ UNCHANGED <<command, shim, received, ended, runs, policy, pushes, listening,
                 port, servers>>

\* The output names a clone address and the proxy has no port yet.
NeedsProxy(r) ==
  /\ reading[r] = "running" /\ command[r[1]].kind = "clone" /\ ~port
  /\ reading' = [reading EXCEPT ![r] = "binding"]
  /\ UNCHANGED <<vars, command, shim, received, answer, ended, runs, policy,
                 pushes, listening, port, servers>>

\* The proxy listens, or its bind fails after the command was run.
ProxyBound(r) ==
  /\ reading[r] = "binding"
  /\ \/ /\ servers' = servers + 1 /\ port' = TRUE
        /\ Respond(r, "result")
     \/ /\ UNCHANGED <<servers, port>>
        /\ Respond(r, "failed")
  /\ UNCHANGED <<command, shim, received, ended, runs, policy, pushes, listening>>

\* The shim prints the answer, closes its side and exits.
Told(c) ==
  /\ shim[c] = "asking" /\ answer[c] # None
  /\ shim' = [shim EXCEPT ![c] = "told"]
  /\ UNCHANGED <<vars, command, received, answer, ended, reading, runs, policy,
                 pushes, listening, port, servers>>

\* The turn is aborted or the shell's timeout strikes.
ShimKilled(c) ==
  /\ shim[c] = "asking"
  /\ shim' = [shim EXCEPT ![c] = "gone"]
  /\ UNCHANGED <<vars, command, received, answer, ended, reading, runs, policy,
                 pushes, listening, port, servers>>

\* A configuration record binds without a restart.
PolicyPushed ==
  /\ pushes < MaxPushes
  /\ pushes' = pushes + 1
  /\ policy' \in Policies \ {policy}
  /\ UNCHANGED <<vars, command, shim, received, answer, ended, reading, runs,
                 listening, port, servers>>

\* The runtime stops: no new connections; those that are open stay.
Close ==
  /\ listening \in {"yes", "failed"}
  /\ listening' = "closed"
  /\ port' = FALSE
  /\ servers' = IF port THEN servers - 1 ELSE servers
  /\ UNCHANGED <<vars, command, shim, received, answer, ended, reading, runs,
                 policy, pushes>>

BrokerNext ==
  \/ Start \/ PolicyPushed \/ Close
  \/ \E c \in Commands :
       Connect(c) \/ Chunk(c) \/ EndSeen(c) \/ Told(c) \/ ShimKilled(c)
  \/ \E r \in Readings :
       Execute(r) \/ ChildEnds(r) \/ NeedsProxy(r) \/ ProxyBound(r)

\* The semaphore of the broker has no other client.
BrokerSpec == Init /\ BrokerInit /\ [][BrokerNext]_<<vars, brokerVars>>

\* Sockets deliver, and a program that does not end is killed.
BrokerFairness ==
  /\ \A c \in Commands : WF_<<vars, brokerVars>>(Chunk(c) \/ Told(c))
  /\ \A r \in Readings : WF_<<vars, brokerVars>>(
       Execute(r) \/ ChildEnds(r) \/ NeedsProxy(r) \/ ProxyBound(r))

-----------------------------------------------------------------------------
\* What the model reads is what happened: a result means the program ran, a
\* refused command never runs unless the owner changes the policy later, no
\* proper command is called malformed, and while the shim waits the program
\* was started once at most (consume, #handleRequest).
AnswersMatchRuns ==
  \A c \in Commands :
     /\ shim[c] = "asking" => runs[c] <= 1
     /\ answer[c] = "result" => runs[c] >= 1
     /\ answer[c] \in {"malformed", "forbidden", "too_large", "unreachable"}
           => runs[c] = 0
     /\ answer[c] = "malformed" => command[c].kind = "malformed"
     /\ answer[c] \in {"disabled", "denied"} /\ pushes = 0 => runs[c] = 0

\* No command of the model's shell hangs: whatever the other commands do and
\* however they fail, a shim that asks is answered or killed.
ShimsReturn == \A c \in Commands : shim[c] = "asking" ~> shim[c] # "asking"

\* One request, one response, one connection per command
\* (scripts/buzz-shim.cjs): a command whose shim read the answer was run once.
RunsOnce == \A c \in Commands : shim[c] = "told" => runs[c] <= 1
=============================================================================
