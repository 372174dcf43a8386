--------------------------- MODULE TelemetryBuffer ---------------------------
(***************************************************************************)
(* The frames on their way to the owner's desktop: their sizes                *)
(* (src/telemetry/buzz-desktop-compat.ts), the buffer that coalesces, splits,  *)
(* paces and sheds them (src/telemetry/telemetry-buffer.ts) and their           *)
(* publication (src/telemetry/observer-publisher.ts), as operators on one        *)
(* record.  The body of a frame is the events of its session it tells of, one     *)
(* per unit of size.                                                               *)
(***************************************************************************)
EXTENDS Integers, SequencesExt

CONSTANTS
  Budget,      \* the size of the largest frame
  MaxQueued,   \* frames the queue holds
  Rate         \* frames the relay takes in a second

ASSUME BufferAssumption ==
  Budget \in Nat \ {0} /\ MaxQueued \in Nat \ {0} /\ Rate \in Nat \ {0}

ChunkKinds == {"text", "thought"}
ToolKinds == {"tool", "update"}

Least(a, b) == IF a <= b THEN a ELSE b

(* Op applied to each element of q in turn, from b. *)
Each(Op(_, _), b, q) ==
  LET after[i \in 0..Len(q)] == IF i = 0 THEN b ELSE Op(after[i - 1], q[i]) IN
    after[Len(q)]

ObserverFrame(s, turn, kind, msg, status, body) ==
  [session |-> s, turn |-> turn, kind |-> kind, msg |-> msg, status |-> status,
   body |-> body]

Terminal(status) == status \in {"completed", "failed"}

(* Terminal wins over anything transient. *)
MergeToolStatus(old, new) == IF Terminal(old) /\ ~Terminal(new) THEN old ELSE new

SplitByBytes(body) ==
  [i \in 1..((Len(body) + Budget - 1) \div Budget) |->
     SubSeq(body, (i - 1) * Budget + 1, Least(i * Budget, Len(body)))]

(* Text and results split into ordered parts; anything else that is too large   *)
(* becomes a visible marker.                                                     *)
SplitFramePayload(d) ==
  IF Len(d.body) <= Budget THEN <<d>>
  ELSE IF d.kind \in ChunkKinds \cup {"update"}
       THEN LET parts == SplitByBytes(d.body) IN
              [i \in 1..Len(parts) |-> [d EXCEPT !.body = parts[i]]]
       ELSE <<[d EXCEPT !.kind = "elided", !.status = "none"]>>

(* elapsed: a second has passed since the rate window began; active: turns that *)
(* published since their last heartbeat tick; up: the relay takes frames.  The  *)
(* last five fields are histories: the last event on the wire, the events that    *)
(* went to it, were dropped or shed, the turn a tool was last seen to end in,      *)
(* sessions where one then ran again, and frames shed and not yet reported.         *)
EmptyBuffer(Sessions) ==
  [pending |-> <<>>, queue |-> <<>>, status |-> [s \in Sessions |-> "none"],
   waiting |-> FALSE, elapsed |-> TRUE, count |-> 0, timer |-> "off",
   dropped |-> 0, route |-> <<>>, active |-> {}, up |-> TRUE,
   wire |-> [s \in Sessions |-> 0], gone |-> [s \in Sessions |-> {}],
   ended |-> [s \in Sessions |-> 0], regressed |-> {}, unreported |-> 0]

Told(d) == IF d.kind = "overflow" THEN {} ELSE {d.body[i] : i \in DOMAIN d.body}

Leaves(b, d) == [b EXCEPT !.gone[d.session] = @ \cup Told(d)]

(* Without a ready relay the frame is dropped. *)
PublishFrame(b, d) ==
  LET s == d.session
      sent == [Leaves(b, d) EXCEPT !.active = @ \cup {s},
                 !.unreported = IF d.kind = "overflow" THEN @ - d.body[1] ELSE @]
  IN IF b.up
     THEN [sent EXCEPT !.wire[s] = Max(Told(d) \cup {@}),
                       !.ended[s] = IF Terminal(d.status) THEN d.turn ELSE @,
                       !.regressed = IF d.status = "executing" /\ b.ended[s] = d.turn
                                     THEN @ \cup {s} ELSE @]
     ELSE sent

EmitNext(b) ==
  PublishFrame([b EXCEPT !.queue = Tail(@), !.count = @ + 1], Head(b.queue))

Emit(b) ==
  LET n == Least(Len(b.queue), Rate - b.count)
      after[i \in 0..n] == IF i = 0 THEN b ELSE EmitNext(after[i - 1])
  IN after[n]

(* Shed frames are reported once the queue is empty. *)
ReportOverflow(b) ==
  [b EXCEPT !.dropped = 0, !.route = <<>>,
            !.queue = Append(@, [b.route EXCEPT !.body = <<b.dropped>>])]

SchedulePump(b) == [b EXCEPT !.timer = IF @ = "off" THEN "armed" ELSE @]

Pump(b) ==
  LET window == IF b.elapsed THEN [b EXCEPT !.elapsed = FALSE, !.count = 0] ELSE b
      emitted == Emit(window)
      done == IF emitted.queue = <<>> /\ emitted.dropped > 0
              THEN Emit(ReportOverflow(emitted)) ELSE emitted
  IN IF done.queue # <<>> THEN SchedulePump(done) ELSE [done EXCEPT !.waiting = FALSE]

(* Mutant: a part that finds the queue full is forgotten. *)
AcceptOrForget(b, d) ==
  IF Len(b.queue) >= MaxQueued THEN [Leaves(b, d) EXCEPT !.unreported = @ + 1]
  ELSE [b EXCEPT !.queue = Append(@, d)]

(* A part that finds the queue full is shed. *)
Accept(b, d) ==
  IF Len(b.queue) >= MaxQueued
  THEN [Leaves(b, d) EXCEPT !.dropped = @ + 1, !.unreported = @ + 1,
          !.route = ObserverFrame(d.session, d.turn, "overflow", 0, "none", <<>>)]
  ELSE [b EXCEPT !.queue = Append(@, d)]

Enqueue(b, d) == Pump(Each(Accept, b, SplitFramePayload(d)))

ReleaseChunk(b, d) ==
  IF d \in ToSet(b.pending)
  THEN LET i == CHOOSE k \in DOMAIN b.pending : b.pending[k] = d IN
         Enqueue([b EXCEPT !.pending = RemoveAt(@, i)], d)
  ELSE b

ReleaseThose(b, S) ==
  Each(LAMBDA c, d : IF d \in S THEN ReleaseChunk(c, d) ELSE c, b, b.pending)

ReleaseAll(b) == ReleaseThose(b, ToSet(b.pending))

FlushTurn(b, s, turn) ==
  ReleaseThose(b, {d \in ToSet(b.pending) : d.session = s /\ d.turn = turn})

SameChunk(d, e) ==
  <<d.session, d.turn, d.kind, d.msg>> = <<e.session, e.turn, e.kind, e.msg>>

(* Another message of the turn ends the one before it. *)
PushChunk(b, d) ==
  LET released == ReleaseThose(b, {e \in ToSet(b.pending) :
                                     e.session = d.session /\ e.turn = d.turn
                                       /\ ~SameChunk(e, d)})
      chunks == released.pending
      open == {i \in DOMAIN chunks : SameChunk(chunks[i], d)}
  IN IF open # {}
     THEN [released EXCEPT !.pending =
             [i \in DOMAIN chunks |-> IF i \in open
                                      THEN [chunks[i] EXCEPT !.body = @ \o d.body]
                                      ELSE chunks[i]]]
     ELSE [released EXCEPT !.pending = Append(chunks, d)]

(* A terminal tool status stays terminal: a late update is rewritten. *)
GuardToolStatus(b, d) ==
  IF d.kind \in ToolKinds
  THEN [d EXCEPT !.status = MergeToolStatus(b.status[d.session], @)] ELSE d

(* Mutant: a frame does not wait for the text before it. *)
PushAhead(b, d) ==
  IF d.kind \in ChunkKinds THEN PushChunk(b, d)
  ELSE Enqueue(b, GuardToolStatus(b, d))

Push(b, d) ==
  IF d.kind \in ChunkKinds THEN PushChunk(b, d)
  ELSE LET flushed == FlushTurn(b, d.session, d.turn)
           guarded == GuardToolStatus(flushed, d)
       IN Enqueue([flushed EXCEPT !.status[d.session] =
                     IF d.kind \in ToolKinds THEN guarded.status ELSE @], guarded)

ForgetTurn(b, s, turn) == [FlushTurn(b, s, turn) EXCEPT !.status[s] = "none"]

(* flush() resolves when the queue is empty, at once or from a later pump. *)
Flush(b) ==
  LET pumped == Pump(ReleaseAll(b)) IN [pumped EXCEPT !.waiting = pumped.queue # <<>>]

StopBuffer(b) == [Pump(ReleaseAll(b)) EXCEPT !.timer = "off"]
===============================================================================
