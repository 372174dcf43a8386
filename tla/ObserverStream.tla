---------------------------- MODULE ObserverStream ----------------------------
(***************************************************************************)
(* What the owner's desktop is told of the turns: pi's events are normalised   *)
(* (src/runtime/pi-event-router.ts), mapped to frames by the channel actor and  *)
(* handed to the telemetry buffer all sessions share; usage samples go to the   *)
(* usage series.  One action per event of the SDK, timer of the buffer and       *)
(* step of a turn's life.                                                         *)
(***************************************************************************)
EXTENDS TelemetryBuffer, UsageAccounting

CONSTANTS
  Samples,     \* usage an assistant message may carry
  Reasons,     \* reasons a turn settles with
  Workloads    \* bounds: how many inputs of each kind a behaviour has

VARIABLES
  buffer,
  router,      \* per session: the message counter and the current message id
  turn,        \* per session: the number of its turns and whether one is open
  said,        \* per session: events accepted as frames so far
  stage,       \* of the shutdown: running, flushing, closed, expired
  owed,        \* history: what had been said when the flush began
  left         \* inputs the workload still has

streamVars == <<buffer, router, turn, said, stage, owed, left>>
observerVars == <<streamVars, usageVars>>

StreamInit ==
  /\ buffer = EmptyBuffer(Sessions)
  /\ router = [s \in Sessions |-> [messageSeq |-> 0, current |-> 0]]
  /\ turn = [s \in Sessions |-> [number |-> 0, open |-> FALSE]]
  /\ said = [s \in Sessions |-> 0]
  /\ stage = "running"
  /\ owed = said
  /\ left \in Workloads
  /\ UsageInit

Live == stage \in {"running", "flushing"}

Takes(input, s) ==
  /\ Live /\ left[input][s] > 0
  /\ left' = [left EXCEPT ![input][s] = @ - 1]

Suffers ==
  /\ left.faults > 0
  /\ left' = [left EXCEPT !.faults = @ - 1]

(* A frame of size n about the next event of session s. *)
EventFrame(s, number, kind, msg, status, n) ==
  ObserverFrame(s, number, kind, msg, status, [i \in 1..n |-> said[s] + 1])

(* close(): the turns still tracked are forgotten, the buffer stopped. *)
Closed(b) ==
  LET open == {s \in Sessions : turn[s].open}
      Forget(c, s) == ForgetTurn(c, s, turn[s].number)
  IN [StopBuffer(Each(Forget, b, SetToSeq(open))) EXCEPT !.active = {}]

(* The stream closes as soon as the flush returns. *)
Buffered(b) ==
  /\ IF stage = "flushing" /\ ~b.waiting
     THEN buffer' = Closed(b) /\ stage' = "closed"
     ELSE buffer' = b /\ UNCHANGED stage
  /\ UNCHANGED owed

Emits(s, kind, msg, status, n) ==
  /\ turn[s].open
  /\ said' = [said EXCEPT ![s] = @ + 1]
  /\ Buffered(Push(buffer, EventFrame(s, turn[s].number, kind, msg, status, n)))
  /\ UNCHANGED turn

(* A turn begins: turn_started, the first frame the heartbeat counts. *)
Begin(s) ==
  /\ ~turn[s].open /\ Takes("turns", s)
  /\ turn' = [turn EXCEPT ![s] = [number |-> @.number + 1, open |-> TRUE]]
  /\ said' = [said EXCEPT ![s] = @ + 1]
  /\ Buffered(Push([buffer EXCEPT !.active = @ \cup {s}],
                   EventFrame(s, turn[s].number + 1, "note", 0, "none", 1)))
  /\ UNCHANGED <<router, usageVars>>

MessageStart(s) ==
  /\ turn[s].open /\ router[s].current = 0 /\ Takes("messages", s)
  /\ router' = [router EXCEPT ![s] = [messageSeq |-> @.messageSeq + 1,
                                      current |-> @.messageSeq + 1]]
  /\ UNCHANGED <<buffer, turn, said, stage, owed, usageVars>>

(* A delta belongs to the current message, or begins one. *)
Delta(s, kind) ==
  LET r == router[s]
      next == [messageSeq |-> r.messageSeq + 1, current |-> r.messageSeq + 1]
      now == IF r.current # 0 THEN r ELSE next
  IN /\ Takes("deltas", s)
     /\ Emits(s, kind, now.current, "none", 1)
     /\ router' = [router EXCEPT ![s] = now]
     /\ UNCHANGED usageVars

(* The end of a message has no frame of its own; the usage it carries has. *)
MessageEnd(s) ==
  /\ Live /\ turn[s].open /\ router[s].current # 0
  /\ router' = [router EXCEPT ![s].current = 0]
  /\ UNCHANGED <<buffer, turn, said, stage, owed, left, usageVars>>

MessageEndWithUsage(s, usage) ==
  /\ Takes("usages", s)
  /\ router' = [router EXCEPT ![s].current = 0]
  /\ Emits(s, "note", 0, "none", 1)
  /\ Observe(s, usage)

ToolStart(s, n) ==
  /\ Takes("tools", s) /\ Emits(s, "tool", 0, "executing", n)
  /\ UNCHANGED <<router, usageVars>>
ToolUpdate(s) ==
  /\ Takes("tools", s) /\ Emits(s, "update", 0, "executing", 1)
  /\ UNCHANGED <<router, usageVars>>
ToolEnd(s, status, n) ==
  /\ Takes("tools", s) /\ Emits(s, "update", 0, status, n)
  /\ UNCHANGED <<router, usageVars>>

(* settle(): the heartbeat stops and the turn is forgotten, its usage is        *)
(* published, and the terminal frame goes out.                                   *)
Settle(s, reason, stored) ==
  /\ turn[s].open /\ Live
  /\ IF stored THEN UNCHANGED left ELSE Suffers
  /\ turn' = [turn EXCEPT ![s].open = FALSE]
  /\ said' = [said EXCEPT ![s] = @ + 1]
  /\ Buffered(Push(ForgetTurn([buffer EXCEPT !.active = @ \ {s}], s, turn[s].number),
                   EventFrame(s, turn[s].number, "note", 0, "none", 1)))
  /\ SettleUsage(s, turn[s].number, reason, stored)
  /\ UNCHANGED router

(* The heartbeat of an open turn: silent when the turn published since the last *)
(* tick.                                                                         *)
Heartbeat(s) ==
  /\ turn[s].open /\ Takes("beats", s)
  /\ Buffered(IF s \in buffer.active THEN [buffer EXCEPT !.active = @ \ {s}]
              ELSE Push(buffer, ObserverFrame(s, turn[s].number, "note", 0, "none", <<>>)))
  /\ UNCHANGED <<router, turn, said, usageVars>>

ChunkTimer(i) ==
  /\ Live
  /\ Buffered(ReleaseChunk(buffer, buffer.pending[i]))
  /\ UNCHANGED <<router, turn, said, left, usageVars>>

SecondPasses ==
  /\ Live /\ ~buffer.elapsed
  /\ Buffered([buffer EXCEPT !.elapsed = TRUE,
                             !.timer = IF @ = "armed" THEN "due" ELSE @])
  /\ UNCHANGED <<router, turn, said, left, usageVars>>

PumpTimer ==
  /\ buffer.timer = "due"
  /\ Buffered(Pump([buffer EXCEPT !.timer = "off"]))
  /\ UNCHANGED <<router, turn, said, left, usageVars>>

(* The relay connection is lost or gated, and comes back. *)
LinkLost ==
  /\ Live /\ buffer.up /\ Suffers
  /\ Buffered([buffer EXCEPT !.up = FALSE])
  /\ UNCHANGED <<router, turn, said, usageVars>>

LinkBack ==
  /\ Live /\ ~buffer.up
  /\ Buffered([buffer EXCEPT !.up = TRUE])
  /\ UNCHANGED <<router, turn, said, left, usageVars>>

(* stop(): what the actors said is flushed, up to a deadline, and the stream    *)
(* closed.                                                                       *)
Stop ==
  /\ stage = "running"
  /\ LET b == Flush(buffer) IN
       IF b.waiting THEN buffer' = b /\ stage' = "flushing"
       ELSE buffer' = Closed(b) /\ stage' = "closed"
  /\ owed' = said
  /\ UNCHANGED <<router, turn, said, left, usageVars>>

FlushDeadline ==
  /\ stage = "flushing"
  /\ buffer' = Closed(buffer) /\ stage' = "expired"
  /\ UNCHANGED <<router, turn, said, owed, left, usageVars>>

StreamNext ==
  \/ \E s \in Sessions :
       \/ Begin(s) \/ MessageStart(s) \/ MessageEnd(s) \/ ToolUpdate(s) \/ Heartbeat(s)
       \/ \E kind \in ChunkKinds : Delta(s, kind)
       \/ \E usage \in Samples : MessageEndWithUsage(s, usage)
       \/ \E n \in {1, Budget + 1} : ToolStart(s, n)
       \/ \E status \in {"completed", "failed"}, n \in {1, Budget + 1} :
            ToolEnd(s, status, n)
       \/ \E reason \in Reasons, stored \in BOOLEAN : Settle(s, reason, stored)
  \/ \E i \in DOMAIN buffer.pending : ChunkTimer(i)
  \/ SecondPasses \/ PumpTimer \/ LinkLost \/ LinkBack
  \/ Stop \/ FlushDeadline

StreamSpec == StreamInit /\ [][StreamNext]_observerVars

-----------------------------------------------------------------------------
(* The frames still in the process, in the order they will leave, and of which *)
(* events of a session they tell.                                                 *)
Unsent == buffer.queue \o buffer.pending
ToldOf(s, d) == IF d.session = s THEN Told(d) ELSE {}

(* The desktop reads a session as it happened, coalesced, split, paced and      *)
(* shed as it may be: no event overtakes an earlier one (a tool the prose before *)
(* it, the end of a turn its last words), and no tool that ended in a turn goes  *)
(* back to executing in it (telemetry-buffer.ts:105, :175).                      *)
TranscriptIsHonest ==
  \A s \in Sessions :
    /\ s \notin buffer.regressed
    /\ \A i \in DOMAIN Unsent : \A x \in ToldOf(s, Unsent[i]) :
         /\ buffer.wire[s] <= x
         /\ \A j \in DOMAIN Unsent : \A y \in ToldOf(s, Unsent[j]) : i < j => x <= y
    /\ \A d \in ToSet(Unsent) : \A k, l \in DOMAIN d.body : k < l => d.body[k] <= d.body[l]

(* The shed frames that the report on its way to the wire tells of. *)
Reported(b) ==
  IF b.queue # <<>> /\ b.queue[1].kind = "overflow" THEN b.queue[1].body[1] ELSE 0

(* Nothing is lost without a trace: every event has left the process or is on *)
(* its way; the frames shed are those about to be reported; and a queue is   *)
(* never left without a timer to drain it, except by the end                     *)
(* (telemetry-buffer.ts:8, :193-263).                                            *)
FramesAccounted ==
  /\ \A s \in Sessions :
       1..said[s] = buffer.gone[s] \cup UNION {ToldOf(s, d) : d \in ToSet(Unsent)}
  /\ \A i \in DOMAIN buffer.queue : buffer.queue[i].kind = "overflow" => i = 1
  /\ buffer.unreported = buffer.dropped + Reported(buffer)
  /\ buffer.queue = <<>> => buffer.dropped = 0
  /\ buffer.queue # <<>> => (buffer.timer # "off" \/ ~Live)

(* A flush that its deadline does not cut short leaves nothing behind that was   *)
(* said before it: it was sent, or shed and counted                              *)
(* (observer-publisher.ts:108-110, telemetry-buffer.ts:115-122).                 *)
FlushDelivers ==
  stage = "closed" =>
    \A s \in Sessions, d \in ToSet(Unsent) : \A x \in ToldOf(s, d) : x > owed[s]
===============================================================================
