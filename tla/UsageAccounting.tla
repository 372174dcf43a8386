--------------------------- MODULE UsageAccounting ---------------------------
(***************************************************************************)
(* Token usage: the samples of a turn are summed (src/telemetry/               *)
(* usage-tracker.ts), added to the series of the session when the turn settles, *)
(* and published as a metric (usage-publisher.ts) through the durable outbox.    *)
(* The six counters stand as three: input, output and total.                      *)
(***************************************************************************)
EXTENDS Naturals, Sequences

CONSTANTS Sessions, Unknown

ASSUME UnknownIsNoCount == Unknown \notin Nat

VARIABLES
  totals,    \* #turnTotals of the open turn of each session
  series,    \* #sessionState, with the durable baseline it was read from
  metrics,   \* the metrics of each session in the outbox
  observed   \* history: all the usage of each session

usageVars == <<totals, series, metrics, observed>>

Counters == {"input", "output", "total"}
Empty == [c \in Counters |-> Unknown]

AddCounter(a, b) ==
  IF a = Unknown THEN b ELSE IF b = Unknown THEN a ELSE a + b
AddCounters(x, y) == [c \in Counters |-> AddCounter(x[c], y[c])]

(* Pi counts cached input apart; a metric's input includes it. *)
NormalisePiUsage(u) ==
  [input |-> AddCounter(u.input, u.cached), output |-> u.output, total |-> u.total]

CountersAreEmpty(x) == x = Empty

CountersRegressed(x, base) ==
  \E c \in Counters : x[c] # Unknown /\ base[c] # Unknown /\ x[c] < base[c]

DiffCounters(x, base) ==
  [c \in Counters |-> IF x[c] = Unknown \/ base[c] = Unknown THEN x[c]
                      ELSE IF x[c] >= base[c] THEN x[c] - base[c] ELSE Unknown]

(* A series that moves backwards leaves the turn unknown. *)
DeriveTurnDelta(x, base) ==
  IF CountersRegressed(x, base) THEN Empty ELSE DiffCounters(x, base)

ToStopReason(reason) ==
  CASE reason = "end_turn" -> "end_turn"
    [] reason \in {"owner_cancel", "control_cancel", "shutdown", "rotated",
                   "idle_timeout", "max_duration"} -> "cancelled"
    [] reason = "error" -> "error"
    [] OTHER -> "unknown"

UsageInit ==
  /\ totals = [s \in Sessions |-> Empty]
  /\ series = [s \in Sessions |-> [turnSeq |-> 0, cumulative |-> Empty]]
  /\ metrics = [s \in Sessions |-> <<>>]
  /\ observed = totals

Observe(s, usage) ==
  /\ totals' = [totals EXCEPT ![s] = AddCounters(@, NormalisePiUsage(usage))]
  /\ observed' = [observed EXCEPT ![s] = AddCounters(@, NormalisePiUsage(usage))]
  /\ UNCHANGED <<series, metrics>>

(* Mutant: the series advances with its published metrics only. *)
SettleOnceStored(s, turn, reason, stored) ==
  /\ totals' = [totals EXCEPT ![s] = Empty]
  /\ IF CountersAreEmpty(totals[s]) THEN UNCHANGED <<series, metrics>>
     ELSE LET base == series[s].cumulative
              cumulative == AddCounters(base, totals[s])
              seq == series[s].turnSeq + 1
              metric == [turn |-> turn, turnSeq |-> seq, cumulative |-> cumulative,
                         delta |-> DeriveTurnDelta(cumulative, base),
                         stop |-> ToStopReason(reason)]
          IN /\ series' = IF stored
                         THEN [series EXCEPT ![s] = [turnSeq |-> seq,
                                                     cumulative |-> cumulative]]
                         ELSE series
             /\ metrics' = IF stored THEN [metrics EXCEPT ![s] = Append(@, metric)]
                           ELSE metrics
  /\ UNCHANGED observed

(* The baseline is durable before the metric is: a metric the outbox refuses    *)
(* leaves a gap in the series, never a repeated step.                            *)
SettleUsage(s, turn, reason, stored) ==
  /\ totals' = [totals EXCEPT ![s] = Empty]
  /\ IF CountersAreEmpty(totals[s]) THEN UNCHANGED <<series, metrics>>
     ELSE LET base == series[s].cumulative
              cumulative == AddCounters(base, totals[s])
              seq == series[s].turnSeq + 1
              metric == [turn |-> turn, turnSeq |-> seq, cumulative |-> cumulative,
                         delta |-> DeriveTurnDelta(cumulative, base),
                         stop |-> ToStopReason(reason)]
          IN /\ series' = [series EXCEPT ![s] = [turnSeq |-> seq,
                                                 cumulative |-> cumulative]]
             /\ metrics' = IF stored THEN [metrics EXCEPT ![s] = Append(@, metric)]
                           ELSE metrics
  /\ UNCHANGED observed

-----------------------------------------------------------------------------
Covers(x, y) == \A c \in Counters : y[c] = Unknown \/ (x[c] # Unknown /\ x[c] >= y[c])

(* The owner can add a session's metrics up: each is ordered after the one      *)
(* before it and counts on from it, even when one between was lost, and usage is *)
(* never counted twice nor forgotten, whatever turn it came in                   *)
(* (usage-tracker.ts:157-187).                                                   *)
MetricsAddUp ==
  \A s \in Sessions :
    /\ observed[s] = AddCounters(series[s].cumulative, totals[s])
    /\ \A i \in 1..(Len(metrics[s]) - 1) :
         LET a == metrics[s][i]
             b == metrics[s][i + 1]
             counted == AddCounters(a.cumulative, b.delta)
         IN /\ a.turnSeq < b.turnSeq
            /\ Covers(b.cumulative, counted)
            /\ b.turnSeq = a.turnSeq + 1 => b.cumulative = counted
===============================================================================
