---------------------------- MODULE RecoveryProofs ----------------------------
(* What the database promises a restarted process, for any events, turns and   *)
(* crashes: nothing unanswered is forgotten, nothing is delivered twice, and    *)
(* the replay keeps the order of the turns.                                   *)
EXTENDS Recovery, TLAPS

RootIds == (UNION {Roots[e] : e \in Events}) \cup {None}

Dispositions == {"none", "queued", "prompted", "steer_pending", "steer_delivered",
                 "completed", "rejected"}

TurnType == [state : LiveStates \cup {"none", "interrupted", "completed"}, startedAt : Time]

InputType == [ordinal : Nat \cup {None}, delivered : Time \cup {None}]

ActorType == [state : {"idle", "starting", "running", "settling"},
              turn : TurnIds \cup {None}, primary : Events \cup {None},
              count : Nat, steering : Events \cup {None}]

\* The row of an event names the turn it was delivered in, and has its ordinal.
RowsOK ==
  \A e \in Events :
    /\ inbox[e].turn # None => /\ inbox[e].ordinal \in Nat
                               /\ inputs[inbox[e].turn][e].ordinal = inbox[e].ordinal
    /\ \A t \in TurnIds : inputs[t][e].delivered # None => inbox[e].turn = t

\* What the actor works on.
ActorOK ==
  /\ actor.state = "idle" <=> actor.turn = None
  /\ actor.turn # None => actor.primary \in Events
  /\ actor.state = "starting" => inbox[actor.primary].turn = actor.turn
  /\ actor.steering # None => /\ actor.state \in {"running", "settling"}
                              /\ inbox[actor.steering].turn = actor.turn

In(e, s) == \E i \in DOMAIN s : s[i] = e

NoRepeats(s) == \A i, j \in DOMAIN s : s[i] = s[j] => i = j

\* The events the actor is about to hand to Pi.
AtHand == (IF actor.state = "starting" THEN {actor.primary} ELSE {})
            \cup (IF actor.steering # None THEN {actor.steering} ELSE {})

\* An accepted event that was not delivered is in one place at most.
PlacesOK ==
  /\ NoRepeats(mailbox) /\ NoRepeats(waiting)
  /\ \A e \in Events :
       /\ e \in judging => ~In(e, mailbox) /\ ~In(e, waiting) /\ e \notin AtHand
       /\ In(e, mailbox) => ~In(e, waiting) /\ e \notin AtHand
       /\ In(e, waiting) => e \notin AtHand
       /\ e \in judging \/ In(e, mailbox) \/ In(e, waiting) \/ e \in AtHand =>
            /\ inbox[e].disposition # "none"
            /\ \A t \in TurnIds : inputs[t][e].delivered = None

\* An event was answered after it was delivered exactly when an output of its turn
\* is younger than the delivery.
AnswersOK ==
  /\ \A t \in TurnIds : intents[t] # None => intents[t] <= clock
  /\ \A t \in TurnIds, e \in Events :
       inputs[t][e].delivered # None =>
         /\ inputs[t][e].delivered <= clock
         /\ answer[e] = "later" <=> intents[t] # None /\ intents[t] > inputs[t][e].delivered
  /\ \A e \in Events : answer[e] # "none" => \E t \in TurnIds : inputs[t][e].delivered # None

RecoveryInv == TypeOK /\ RowsOK /\ ActorOK /\ PlacesOK /\ AnswersOK /\ DeadTurnsClosed

-----------------------------------------------------------------------------
(* Rows, inputs and sequences.                                               *)

\* Rows that are written.
LEMMA RowMade ==
  ASSUME NEW d \in Dispositions, NEW t \in TurnIds \cup {None}, NEW n \in Nat \cup {None},
         NEW at \in Time, NEW r \in RootIds
  PROVE  /\ Row(d, t, n, at, r) \in RowType
         /\ Row(d, t, n, at, r).disposition = d /\ Row(d, t, n, at, r).turn = t
         /\ Row(d, t, n, at, r).ordinal = n
BY DEF Row, RowType, Dispositions, RootIds

\* Rows that are assigned to a turn, or taken from it.
LEMMA RowAssigned ==
  ASSUME NEW row \in RowType, NEW d \in Dispositions, NEW t \in TurnIds \cup {None},
         NEW n \in Nat \cup {None}
  PROVE  /\ Assigned(row, d, t, n) \in RowType
         /\ Assigned(row, d, t, n).disposition = d /\ Assigned(row, d, t, n).turn = t
         /\ Assigned(row, d, t, n).ordinal = n
<1>1. row.receivedAt \in Time /\ row.root \in RootIds
  BY DEF RowType, RootIds
<1> QED
  BY <1>1, RowMade DEF Assigned

\* Rows whose disposition changes.
LEMMA RowDisposed ==
  ASSUME NEW row \in RowType, NEW d \in Dispositions
  PROVE  \A new : new = [row EXCEPT !.disposition = d] =>
           /\ new \in RowType /\ new.disposition = d /\ new.turn = row.turn
           /\ new.ordinal = row.ordinal /\ new.receivedAt = row.receivedAt
BY DEF RowType, Dispositions

\* Inputs that are written, and delivered.
LEMMA InputMade ==
  /\ \A n \in Nat : LET input == [ordinal |-> n, delivered |-> None] IN
       input \in InputType /\ input.ordinal = n /\ input.delivered = None
  /\ \A input \in InputType, at \in Time : LET new == [input EXCEPT !.delivered = at] IN
       new \in InputType /\ new.ordinal = input.ordinal /\ new.delivered = at
<1>1. ASSUME NEW input \in InputType, NEW at \in Time
      PROVE  LET new == [input EXCEPT !.delivered = at] IN
             new \in InputType /\ new.ordinal = input.ordinal /\ new.delivered = at
  BY DEF InputType
<1> QED
  BY <1>1 DEF InputType

\* The fields of the actor.
LEMMA ActorFields ==
  ASSUME NEW a \in ActorType
  PROVE  /\ a.state \in {"idle", "starting", "running", "settling"}
         /\ a.turn \in TurnIds \cup {None} /\ a.primary \in Events \cup {None}
         /\ a.count \in Nat /\ a.steering \in Events \cup {None}
BY DEF ActorType

\* The actor goes on with its turn.
LEMMA ActorGoesOn ==
  ASSUME NEW a \in ActorType, NEW s \in {"running", "settling"}
  PROVE  LET b == [a EXCEPT !.state = s] IN
         /\ b \in ActorType /\ b.state = s /\ b.turn = a.turn /\ b.primary = a.primary
         /\ b.steering = a.steering
BY DEF ActorType

\* The actor begins a steer.
LEMMA ActorSteers ==
  ASSUME NEW a \in ActorType, NEW e \in Events
  PROVE  LET b == [a EXCEPT !.steering = e] IN
         /\ b \in ActorType /\ b.state = a.state /\ b.turn = a.turn /\ b.primary = a.primary
         /\ b.steering = e
BY DEF ActorType

\* A steer is over.
LEMMA ActorSteered ==
  ASSUME NEW a \in ActorType, NEW n \in Nat
  PROVE  \A b : b = [a EXCEPT !.steering = None] \/ b = [a EXCEPT !.steering = None, !.count = n] =>
           /\ b \in ActorType /\ b.state = a.state /\ b.turn = a.turn /\ b.primary = a.primary
           /\ b.steering = None
<1>1. \A b : b = [a EXCEPT !.steering = None] =>
               /\ b \in ActorType /\ b.state = a.state /\ b.turn = a.turn /\ b.primary = a.primary
               /\ b.steering = None
  BY DEF ActorType
<1>2. \A b : b = [a EXCEPT !.steering = None, !.count = n] =>
               /\ b \in ActorType /\ b.state = a.state /\ b.turn = a.turn /\ b.primary = a.primary
               /\ b.steering = None
  BY DEF ActorType
<1> QED
  BY <1>1, <1>2

\* The actor of a turn that opens, and an idle one.
LEMMA ActorMade ==
  /\ \A t \in TurnIds, e \in Events :
       LET a == [state |-> "starting", turn |-> t, primary |-> e, count |-> 1, steering |-> None] IN
       /\ a \in ActorType /\ a.state = "starting" /\ a.turn = t /\ a.primary = e
       /\ a.steering = None
  /\ Idle \in ActorType /\ Idle.state = "idle" /\ Idle.turn = None /\ Idle.steering = None
BY DEF ActorType, Idle

\* An event behind a sequence that did not have it.
LEMMA AppendPlaces ==
  ASSUME NEW s \in Seq(Events), NEW e \in Events, NoRepeats(s), ~In(e, s)
  PROVE  /\ Append(s, e) \in Seq(Events) /\ NoRepeats(Append(s, e))
         /\ \A f : In(f, Append(s, e)) <=> In(f, s) \/ f = e
<1> DEFINE r == Append(s, e)
<1>1. /\ r \in Seq(Events) /\ Len(r) = Len(s) + 1 /\ r[Len(s) + 1] = e
      /\ \A i \in 1 .. Len(s) : r[i] = s[i]
      /\ DOMAIN r = 1 .. Len(s) + 1 /\ DOMAIN s = 1 .. Len(s) /\ Len(s) \in Nat
  OBVIOUS
<1>2. NoRepeats(r)
  BY <1>1 DEF NoRepeats, In
<1>3. ASSUME NEW f PROVE In(f, r) <=> In(f, s) \/ f = e
  BY <1>1 DEF In
<1> QED
  BY <1>1, <1>2, <1>3

\* The head taken from a sequence.
LEMMA TailPlaces ==
  ASSUME NEW s \in Seq(Events), s # <<>>, NoRepeats(s)
  PROVE  /\ Tail(s) \in Seq(Events) /\ NoRepeats(Tail(s))
         /\ Head(s) \in Events /\ In(Head(s), s) /\ ~In(Head(s), Tail(s))
         /\ \A f : In(f, Tail(s)) => In(f, s)
<1>1. /\ Len(s) \in Nat \ {0} /\ DOMAIN s = 1 .. Len(s) /\ Tail(s) \in Seq(Events)
      /\ DOMAIN Tail(s) = 1 .. Len(s) - 1
      /\ \A i \in 1 .. Len(s) - 1 : Tail(s)[i] = s[i + 1]
      /\ Head(s) = s[1] /\ Head(s) \in Events
  OBVIOUS
<1>2. NoRepeats(Tail(s))
  BY <1>1 DEF NoRepeats
<1>3. In(Head(s), s) /\ ~In(Head(s), Tail(s))
  BY <1>1 DEF NoRepeats, In
<1>4. \A f : In(f, Tail(s)) => In(f, s)
  BY <1>1 DEF In
<1> QED
  BY <1>1, <1>2, <1>3, <1>4

\* The types, with the types of the records by their names.
LEMMA Types ==
  TypeOK <=>
    /\ inbox \in [Events -> RowType] /\ turns \in [TurnIds -> TurnType]
    /\ inputs \in [TurnIds -> [Events -> InputType]]
    /\ intents \in [TurnIds -> Time \cup {None}]
    /\ judging \subseteq Events /\ mailbox \in Seq(Events) /\ waiting \in Seq(Events)
    /\ actor \in ActorType
    /\ phase \in {"down", "early", "live"} /\ clock \in Time
    /\ answer \in [Events -> {"none", "at_once", "later"}]
    /\ crashes \in 0 .. MaxCrashes
    /\ \A e \in Events : inbox[e].turn # None =>
         inputs[inbox[e].turn][e].ordinal = inbox[e].ordinal
BY DEF TypeOK, TurnType, InputType, ActorType

\* No event, turn or time is None.
LEMMA NoneIsNothing ==
  /\ None \notin Events /\ None \notin TurnIds /\ None \notin Time
  /\ Events \subseteq Nat /\ TurnIds \subseteq Nat /\ Events \cap TurnIds = {}
  /\ Time \subseteq Nat
<1>1. Time \subseteq Nat
  BY RecoveryAssumption DEF Time
<1> QED
  BY <1>1, RecoveryAssumption

\* The types in the next state.
LEMMA TypesNext ==
  ASSUME inbox' \in [Events -> RowType], turns' \in [TurnIds -> TurnType],
         inputs' \in [TurnIds -> [Events -> InputType]],
         intents' \in [TurnIds -> Time \cup {None}],
         judging' \subseteq Events, mailbox' \in Seq(Events), waiting' \in Seq(Events),
         actor' \in ActorType,
         phase' \in {"down", "early", "live"}, clock' \in Time,
         answer' \in [Events -> {"none", "at_once", "later"}],
         crashes' \in 0 .. MaxCrashes, RowsOK'
  PROVE  TypeOK'
<1>1. \A e \in Events : inbox'[e].turn # None =>
        inputs'[inbox'[e].turn][e].ordinal = inbox'[e].ordinal
  BY DEF RowsOK
<1> QED
  BY <1>1 DEF TypeOK, TurnType, InputType, ActorType

\* Where an invariant does not see a step.
LEMMA RowsSame ==
  ASSUME RowsOK, inputs' = inputs,
         \A e \in Events : inbox'[e].turn = inbox[e].turn /\ inbox'[e].ordinal = inbox[e].ordinal
  PROVE  RowsOK'
BY DEF RowsOK

\* The actor and the turns of its events stay.
LEMMA ActorSame ==
  ASSUME TypeOK, ActorOK, actor' = actor, \A e \in Events : inbox'[e].turn = inbox[e].turn
  PROVE  ActorOK'
<1>1. actor.steering \in Events \cup {None} /\ actor.turn \in TurnIds \cup {None}
  BY Types, ActorFields
<1>2. actor.state = "starting" => actor.primary \in Events
  BY DEF ActorOK
<1> QED
  BY <1>1, <1>2 DEF ActorOK

\* The deliveries and the outputs stay.
LEMMA AnswersSame ==
  ASSUME AnswersOK, UNCHANGED <<inputs, intents, clock, answer>>
  PROVE  AnswersOK'
BY DEF AnswersOK

\* The turns stay.
LEMMA DeadSame ==
  ASSUME DeadTurnsClosed, UNCHANGED <<turns, phase>>, actor'.turn = actor.turn
  PROVE  DeadTurnsClosed'
BY DEF DeadTurnsClosed

-----------------------------------------------------------------------------
(* The inbound pipeline.                                                     *)

\* An event is accepted, admitted or dismissed.
LEMMA IntakeKeeps ==
  ASSUME RecoveryInv, NEW e \in Events,
         (\E r \in Roots[e] : Receive(e, r)) \/ Admit(e) \/ Dismiss(e)
  PROVE  RecoveryInv'
<1>1. /\ UNCHANGED <<turns, inputs, intents, waiting, actor, phase, clock, answer, crashes>>
      /\ TypeOK /\ RowsOK /\ ActorOK /\ PlacesOK /\ AnswersOK /\ DeadTurnsClosed
      /\ inbox \in [Events -> RowType] /\ judging \subseteq Events /\ mailbox \in Seq(Events)
      /\ waiting \in Seq(Events) /\ AtHand' = AtHand
  BY Types DEF RecoveryInv, Receive, Admit, Dismiss, tables, AtHand
<1>2. /\ inbox' \in [Events -> RowType]
      /\ \A f \in Events : inbox'[f].turn = inbox[f].turn /\ inbox'[f].ordinal = inbox[f].ordinal
      /\ \A f \in Events : f # e => inbox'[f] = inbox[f]
      /\ inbox[e].disposition # "none" => inbox'[e].disposition # "none"
      /\ (\E r \in Roots[e] : Receive(e, r)) => /\ inbox[e].disposition = "none"
                                               /\ inbox[e].turn = None
                                               /\ inbox'[e].disposition # "none"
  <2>1. CASE \E r \in Roots[e] : Receive(e, r)
    <3>1. PICK r \in Roots[e] : Receive(e, r)
      BY <2>1
    <3>2. /\ r \in RootIds /\ clock \in Time
          /\ "queued" \in Dispositions /\ None \in TurnIds \cup {None} /\ None \in Nat \cup {None}
      BY <1>1, Types DEF RootIds, Dispositions
    <3>3. /\ Row("queued", None, None, clock, r) \in RowType
          /\ Row("queued", None, None, clock, r).disposition = "queued"
          /\ Row("queued", None, None, clock, r).turn = None
          /\ Row("queued", None, None, clock, r).ordinal = None
      BY <3>2 DEF Row, RowType, RootIds
    <3>4. NoRow.disposition = "none" /\ NoRow.turn = None /\ NoRow.ordinal = None
      BY DEF NoRow, Row
    <3> QED
      BY <1>1, <3>1, <3>3, <3>4 DEF Receive
  <2>2. CASE Admit(e) /\ ~\E r \in Roots[e] : Receive(e, r)
    BY <1>1, <2>2 DEF Admit, tables
  <2>3. CASE Dismiss(e) /\ ~\E r \in Roots[e] : Receive(e, r)
    <3>1. inbox' = [inbox EXCEPT ![e] = [@ EXCEPT !.disposition = "rejected"]]
      BY <2>3 DEF Dismiss
    <3>2. \A new : new = [inbox[e] EXCEPT !.disposition = "rejected"] =>
            /\ new \in RowType /\ new.disposition = "rejected" /\ new.turn = inbox[e].turn
            /\ new.ordinal = inbox[e].ordinal
      BY <1>1, RowDisposed DEF Dispositions
    <3> QED
      BY <1>1, <2>3, <3>1, <3>2
  <2> QED
    BY <2>1, <2>2, <2>3
<1>3. RowsOK' /\ ActorOK' /\ AnswersOK' /\ DeadTurnsClosed'
  BY <1>1, <1>2, RowsSame, ActorSame, AnswersSame, DeadSame
<1>4. judging' \subseteq Events /\ mailbox' \in Seq(Events) /\ PlacesOK'
  <2>1. CASE \E r \in Roots[e] : Receive(e, r)
    <3>1. mailbox' = mailbox /\ judging' = judging \cup {e}
      BY <2>1 DEF Receive
    <3>2. /\ e \notin judging /\ ~In(e, mailbox) /\ ~In(e, waiting) /\ e \notin AtHand
          /\ \A t \in TurnIds : inputs[t][e].delivered = None
      BY <1>1, <1>2, <2>1, NoneIsNothing DEF PlacesOK, RowsOK
    <3>3. PlacesOK'
      BY <1>1, <1>2, <2>1, <3>1, <3>2 DEF PlacesOK
    <3> QED
      BY <1>1, <3>1, <3>3
  <2>2. CASE Admit(e)
    <3>1. e \in judging /\ judging' = judging \ {e} /\ mailbox' = Append(mailbox, e)
      BY <2>2 DEF Admit
    <3>2. ~In(e, mailbox) /\ ~In(e, waiting) /\ e \notin AtHand /\ NoRepeats(mailbox)
      BY <1>1, <3>1 DEF PlacesOK
    <3>3. /\ mailbox' \in Seq(Events) /\ NoRepeats(mailbox')
          /\ \A f : In(f, mailbox') <=> In(f, mailbox) \/ f = e
      BY <1>1, <3>1, <3>2, AppendPlaces
    <3>4. inbox' = inbox
      BY <2>2 DEF Admit, tables
    <3>5. PlacesOK'
      BY <1>1, <3>1, <3>2, <3>3, <3>4 DEF PlacesOK
    <3> QED
      BY <1>1, <3>1, <3>3, <3>5
  <2>3. CASE Dismiss(e)
    <3>1. e \in judging /\ judging' = judging \ {e} /\ mailbox' = mailbox
      BY <2>3 DEF Dismiss
    <3>2. PlacesOK'
      BY <1>1, <1>2, <3>1 DEF PlacesOK
    <3> QED
      BY <1>1, <3>1, <3>2
  <2> QED
    BY <2>1, <2>2, <2>3
<1>5. TypeOK'
  <2>1. /\ turns' \in [TurnIds -> TurnType] /\ inputs' \in [TurnIds -> [Events -> InputType]]
        /\ intents' \in [TurnIds -> Time \cup {None}] /\ actor' \in ActorType
        /\ phase' \in {"down", "early", "live"} /\ clock' \in Time
        /\ answer' \in [Events -> {"none", "at_once", "later"}] /\ crashes' \in 0 .. MaxCrashes
    BY <1>1, Types
  <2> QED
    BY <1>1, <1>2, <1>3, <1>4, <2>1, TypesNext
<1> QED
  BY <1>3, <1>4, <1>5 DEF RecoveryInv

-----------------------------------------------------------------------------
(* What the actor writes.                                                    *)

\* The deliveries stay.
LEMMA AnswersKept ==
  ASSUME AnswersOK, UNCHANGED <<intents, clock, answer>>,
         \A t \in TurnIds, e \in Events : inputs'[t][e].delivered = inputs[t][e].delivered
  PROVE  AnswersOK'
BY DEF AnswersOK

\* An undelivered event is assigned to a turn.
LEMMA AssignKeeps ==
  ASSUME TypeOK, RowsOK, NEW e \in Events, NEW t \in TurnIds, NEW n \in Nat,
         NEW d \in {"prompted", "steer_pending"}, NEW ib \in [Events -> RowType],
         \A f \in Events : ib[f].turn = inbox[f].turn /\ ib[f].ordinal = inbox[f].ordinal,
         \A u \in TurnIds : inputs[u][e].delivered = None,
         inputs' = [inputs EXCEPT ![t][e] = [ordinal |-> n, delivered |-> None]],
         inbox' = [ib EXCEPT ![e] = Assigned(@, d, t, n)]
  PROVE  /\ inbox' \in [Events -> RowType] /\ inputs' \in [TurnIds -> [Events -> InputType]]
         /\ RowsOK'
         /\ \A f \in Events : f # e => inbox'[f] = ib[f]
         /\ inbox'[e].disposition = d /\ inbox'[e].turn = t
         /\ \A u \in TurnIds, f \in Events : inputs'[u][f].delivered = inputs[u][f].delivered
<1> DEFINE input == [ordinal |-> n, delivered |-> None]
<1>1. input \in InputType /\ input.ordinal = n /\ input.delivered = None
  BY InputMade
<1>2. inputs \in [TurnIds -> [Events -> InputType]]
  BY Types
<1>3. /\ inputs' \in [TurnIds -> [Events -> InputType]] /\ inputs'[t][e] = input
      /\ \A u \in TurnIds, f \in Events : u # t \/ f # e => inputs'[u][f] = inputs[u][f]
  <2> HIDE DEF input
  <2> QED
    BY <1>1, <1>2 DEF input
<1>4. /\ Assigned(ib[e], d, t, n) \in RowType /\ Assigned(ib[e], d, t, n).disposition = d
      /\ Assigned(ib[e], d, t, n).turn = t /\ Assigned(ib[e], d, t, n).ordinal = n
  <2>1. ib[e] \in RowType /\ d \in Dispositions /\ t \in TurnIds \cup {None} /\ n \in Nat \cup {None}
    BY DEF Dispositions
  <2> QED
    BY <2>1, RowAssigned
<1>5. /\ inbox' \in [Events -> RowType] /\ inbox'[e] = Assigned(ib[e], d, t, n)
      /\ \A f \in Events : f # e => inbox'[f] = ib[f]
  BY <1>4
<1>6. \A u \in TurnIds, f \in Events : inputs'[u][f].delivered = inputs[u][f].delivered
  BY <1>1, <1>3
<1>7. RowsOK'
  <2>1. ASSUME NEW f \in Events
        PROVE  /\ inbox'[f].turn # None => /\ inbox'[f].ordinal \in Nat
                                           /\ inputs'[inbox'[f].turn][f].ordinal = inbox'[f].ordinal
               /\ \A u \in TurnIds : inputs'[u][f].delivered # None => inbox'[f].turn = u
    <3>1. CASE f = e
      BY <1>1, <1>3, <1>4, <1>5, <1>6, <3>1
    <3>2. CASE f # e
      <4>1. inbox'[f].turn = inbox[f].turn /\ inbox'[f].ordinal = inbox[f].ordinal
        BY <1>5, <3>2
      <4>2. inbox[f].turn \in TurnIds \cup {None}
        BY Types DEF RowType
      <4>3. \A u \in TurnIds : inputs'[u][f] = inputs[u][f]
        BY <1>3, <3>2
      <4> QED
        BY <4>1, <4>2, <4>3 DEF RowsOK
    <3> QED
      BY <3>1, <3>2
  <2> QED
    BY <2>1 DEF RowsOK
<1> QED
  BY <1>3, <1>4, <1>5, <1>6, <1>7

\* What is there once turn t is opened with e, on the turns ts and the rows ib.
Opened(e, t, ts, ib) ==
  /\ inbox' \in [Events -> RowType] /\ inputs' \in [TurnIds -> [Events -> InputType]]
  /\ turns' \in [TurnIds -> TurnType] /\ actor' \in ActorType
  /\ RowsOK' /\ ActorOK'
  /\ \A f \in Events : f # e => inbox'[f] = ib[f]
  /\ inbox'[e].disposition = "prompted"
  /\ \A u \in TurnIds, f \in Events : inputs'[u][f].delivered = inputs[u][f].delivered
  /\ AtHand' = {e} /\ actor'.turn = t
  /\ \A u \in TurnIds : u # t => turns'[u] = ts[u]

\* A turn opens with an undelivered event.
LEMMA OpenKeeps ==
  ASSUME TypeOK, RowsOK, NEW e \in Events, NEW t \in TurnIds,
         NEW ts \in [TurnIds -> TurnType], NEW ib \in [Events -> RowType],
         \A f \in Events : ib[f].turn = inbox[f].turn /\ ib[f].ordinal = inbox[f].ordinal,
         \A u \in TurnIds : inputs[u][e].delivered = None,
         OpenTurn(e, t, ts, ib)
  PROVE  Opened(e, t, ts, ib)
<1>1. /\ inbox' \in [Events -> RowType] /\ inputs' \in [TurnIds -> [Events -> InputType]]
      /\ RowsOK'
      /\ \A f \in Events : f # e => inbox'[f] = ib[f]
      /\ inbox'[e].disposition = "prompted" /\ inbox'[e].turn = t
      /\ \A u \in TurnIds, f \in Events : inputs'[u][f].delivered = inputs[u][f].delivered
  <2>1. /\ 0 \in Nat
        /\ inputs' = [inputs EXCEPT ![t][e] = [ordinal |-> 0, delivered |-> None]]
        /\ inbox' = [ib EXCEPT ![e] = Assigned(@, "prompted", t, 0)]
    BY DEF OpenTurn
  <2> QED
    BY <2>1, AssignKeeps
<1>2. /\ actor' \in ActorType /\ actor'.state = "starting" /\ actor'.turn = t /\ actor'.primary = e
      /\ actor'.steering = None
  BY ActorMade DEF OpenTurn
<1>3. turns' \in [TurnIds -> TurnType] /\ \A u \in TurnIds : u # t => turns'[u] = ts[u]
  <2>1. [state |-> "created", startedAt |-> clock] \in TurnType
    BY Types DEF TurnType, LiveStates
  <2> QED
    BY <2>1 DEF OpenTurn
<1>4. ActorOK'
  BY <1>1, <1>2, NoneIsNothing DEF ActorOK
<1>5. AtHand' = {e}
  BY <1>2 DEF AtHand
<1> QED
  BY <1>1, <1>2, <1>3, <1>4, <1>5 DEF Opened

\* An event is delivered in the turn it was assigned to.
LEMMA DeliverKeeps ==
  ASSUME TypeOK, RowsOK, AnswersOK, NEW e \in Events, NEW t \in TurnIds,
         inputs' = [inputs EXCEPT ![t][e].delivered = clock],
         inbox[e].turn = t, \A u \in TurnIds : inputs[u][e].delivered = None,
         \A f \in Events : inbox'[f].turn = inbox[f].turn /\ inbox'[f].ordinal = inbox[f].ordinal,
         UNCHANGED <<intents, clock, answer>>
  PROVE  /\ inputs' \in [TurnIds -> [Events -> InputType]] /\ RowsOK' /\ AnswersOK'
         /\ \A u \in TurnIds, f \in Events : f # e =>
              inputs'[u][f].delivered = inputs[u][f].delivered
<1>1. inputs \in [TurnIds -> [Events -> InputType]] /\ clock \in Time
  BY Types
<1>2. PICK new : new = [inputs[t][e] EXCEPT !.delivered = clock]
  OBVIOUS
<1>3. new \in InputType /\ new.ordinal = inputs[t][e].ordinal /\ new.delivered = clock
  <2>1. inputs[t][e] \in InputType
    BY <1>1
  <2> QED
    BY <1>1, <1>2, <2>1, InputMade
<1>4. inputs' = [inputs EXCEPT ![t] = [@ EXCEPT ![e] = new]]
  BY <1>2
<1>5. /\ inputs' \in [TurnIds -> [Events -> InputType]] /\ inputs'[t][e] = new
      /\ \A u \in TurnIds, f \in Events : u # t \/ f # e => inputs'[u][f] = inputs[u][f]
  BY <1>1, <1>3, <1>4
<1>6. \A u \in TurnIds, f \in Events : inputs'[u][f].ordinal = inputs[u][f].ordinal
  BY <1>3, <1>5
<1>7. RowsOK'
  <2>1. ASSUME NEW f \in Events
        PROVE  /\ inbox'[f].turn # None => /\ inbox'[f].ordinal \in Nat
                                           /\ inputs'[inbox'[f].turn][f].ordinal = inbox'[f].ordinal
               /\ \A u \in TurnIds : inputs'[u][f].delivered # None => inbox'[f].turn = u
    <3>1. inbox[f].turn \in TurnIds \cup {None}
      BY Types DEF RowType
    <3>2. \A u \in TurnIds : inputs'[u][f].delivered # None => inbox[f].turn = u
      BY <1>3, <1>5 DEF RowsOK
    <3> QED
      BY <1>6, <3>1, <3>2 DEF RowsOK
  <2> QED
    BY <2>1 DEF RowsOK
<1>8. AnswersOK'
  <2>1. answer[e] = "none"
    BY DEF AnswersOK
  <2>2. clock # None /\ clock \in Nat /\ intents[t] \in Time \cup {None} /\ Time \subseteq Nat
    BY <1>1, Types, NoneIsNothing
  <2>3. intents[t] # None => intents[t] <= clock /\ ~(intents[t] > clock)
    BY <2>2 DEF AnswersOK
  <2>4. ASSUME NEW u \in TurnIds, NEW f \in Events, inputs'[u][f].delivered # None
        PROVE  /\ inputs'[u][f].delivered <= clock
               /\ answer[f] = "later" <=> intents[u] # None /\ intents[u] > inputs'[u][f].delivered
    <3>1. CASE u = t /\ f = e
      BY <1>3, <1>5, <2>1, <2>2, <2>3, <3>1
    <3>2. CASE u # t \/ f # e
      BY <1>5, <2>4, <3>2 DEF AnswersOK
    <3> QED
      BY <3>1, <3>2
  <2>5. \A f \in Events : answer[f] # "none" => \E u \in TurnIds : inputs'[u][f].delivered # None
    BY <1>3, <1>5, <2>1, <2>2 DEF AnswersOK
  <2> QED
    BY <2>4, <2>5 DEF AnswersOK
<1> QED
  BY <1>5, <1>7, <1>8

-----------------------------------------------------------------------------
(* The channel actor.                                                        *)

\* What a free actor has at hand: nothing.
LEMMA FreeHands ==
  ASSUME Free
  PROVE  AtHand = {} /\ actor.state # "starting" /\ actor.steering = None
BY DEF Free, AtHand

\* The parts of the invariant that the proofs below start from.
LEMMA Parts ==
  ASSUME RecoveryInv
  PROVE  /\ TypeOK /\ RowsOK /\ ActorOK /\ PlacesOK /\ AnswersOK /\ DeadTurnsClosed
         /\ inbox \in [Events -> RowType] /\ turns \in [TurnIds -> TurnType]
         /\ inputs \in [TurnIds -> [Events -> InputType]]
         /\ intents \in [TurnIds -> Time \cup {None}]
         /\ judging \subseteq Events /\ mailbox \in Seq(Events) /\ waiting \in Seq(Events)
         /\ actor \in ActorType
         /\ phase \in {"down", "early", "live"} /\ clock \in Time
         /\ answer \in [Events -> {"none", "at_once", "later"}]
         /\ crashes \in 0 .. MaxCrashes
BY Types DEF RecoveryInv

\* The head of the mailbox starts a turn.
LEMMA TakeStartKeeps ==
  ASSUME RecoveryInv, TakeStart
  PROVE  RecoveryInv'
<1>1. /\ UNCHANGED <<intents, judging, waiting, phase, clock, answer, crashes>>
      /\ mailbox # <<>> /\ mailbox' = Tail(mailbox) /\ AtHand = {} /\ actor.state = "idle"
  BY FreeHands DEF TakeStart
<1>2. PICK e : e = Head(mailbox)
  OBVIOUS
<1>3. PICK t \in TurnIds : OpenTurn(e, t, turns, inbox)
  BY <1>2 DEF TakeStart
<1>4. /\ mailbox' \in Seq(Events) /\ NoRepeats(mailbox')
      /\ e \in Events /\ In(e, mailbox) /\ ~In(e, mailbox')
      /\ \A f : In(f, mailbox') => In(f, mailbox)
  BY <1>1, <1>2, Parts, TailPlaces DEF PlacesOK
<1>5. e \notin judging /\ ~In(e, waiting) /\ \A u \in TurnIds : inputs[u][e].delivered = None
  BY <1>4, Parts DEF PlacesOK
<1>6. /\ inbox' \in [Events -> RowType] /\ inputs' \in [TurnIds -> [Events -> InputType]]
      /\ turns' \in [TurnIds -> TurnType] /\ actor' \in ActorType
      /\ RowsOK' /\ ActorOK'
      /\ \A f \in Events : f # e => inbox'[f] = inbox[f]
      /\ inbox'[e].disposition = "prompted"
      /\ \A u \in TurnIds, f \in Events : inputs'[u][f].delivered = inputs[u][f].delivered
      /\ AtHand' = {e} /\ actor'.turn = t
      /\ \A u \in TurnIds : u # t => turns'[u] = turns[u]
  <2>1. TypeOK /\ RowsOK /\ turns \in [TurnIds -> TurnType] /\ inbox \in [Events -> RowType]
    BY Parts
  <2>2. Opened(e, t, turns, inbox)
    BY <1>3, <1>4, <1>5, <2>1, OpenKeeps
  <2> QED
    BY <2>2 DEF Opened
<1>7. PlacesOK'
  <2>1. NoRepeats(waiting)
    BY Parts DEF PlacesOK
  <2>2. ASSUME NEW f \in Events
        PROVE  /\ f \in judging' => ~In(f, mailbox') /\ ~In(f, waiting') /\ f \notin AtHand'
               /\ In(f, mailbox') => ~In(f, waiting') /\ f \notin AtHand'
               /\ In(f, waiting') => f \notin AtHand'
               /\ f \in judging' \/ In(f, mailbox') \/ In(f, waiting') \/ f \in AtHand' =>
                    /\ inbox'[f].disposition # "none"
                    /\ \A u \in TurnIds : inputs'[u][f].delivered = None
    <3>1. CASE f = e
      BY <1>1, <1>4, <1>5, <1>6, <3>1
    <3>2. CASE f # e
      BY <1>1, <1>4, <1>6, <3>2, Parts DEF PlacesOK
    <3> QED
      BY <3>1, <3>2
  <2> QED
    BY <1>1, <1>4, <2>1, <2>2 DEF PlacesOK
<1>8. AnswersOK'
  BY <1>1, <1>6, Parts, AnswersKept
<1>9. DeadTurnsClosed'
  <2>1. actor.turn = None
    BY <1>1, Parts DEF ActorOK
  <2> QED
    BY <1>1, <1>6, <2>1, Parts, NoneIsNothing DEF DeadTurnsClosed
<1>10. TypeOK'
  BY <1>1, <1>4, <1>6, Parts, TypesNext
<1> QED
  BY <1>6, <1>7, <1>8, <1>9, <1>10 DEF RecoveryInv

\* The head of the mailbox waits for the turn under way, or is lost to the actor.
LEMMA TakeAwayKeeps ==
  ASSUME RecoveryInv, TakeQueue \/ TakeSteerCollides
  PROVE  RecoveryInv'
<1>1. /\ UNCHANGED <<turns, inputs, intents, judging, actor, phase, clock, answer, crashes>>
      /\ mailbox # <<>> /\ mailbox' = Tail(mailbox) /\ AtHand = {} /\ AtHand' = AtHand
  BY FreeHands DEF TakeQueue, TakeSteerCollides, tables, AtHand
<1>2. PICK e : e = Head(mailbox)
  OBVIOUS
<1>3. /\ mailbox' \in Seq(Events) /\ NoRepeats(mailbox')
      /\ e \in Events /\ In(e, mailbox) /\ ~In(e, mailbox')
      /\ \A f : In(f, mailbox') => In(f, mailbox)
  BY <1>1, <1>2, Parts, TailPlaces DEF PlacesOK
<1>4. /\ e \notin judging /\ ~In(e, waiting) /\ NoRepeats(waiting)
      /\ inbox[e].disposition # "none" /\ \A u \in TurnIds : inputs[u][e].delivered = None
  BY <1>3, Parts DEF PlacesOK
<1>5. /\ inbox' \in [Events -> RowType]
      /\ \A f \in Events : inbox'[f].turn = inbox[f].turn /\ inbox'[f].ordinal = inbox[f].ordinal
      /\ \A f \in Events : f # e => inbox'[f] = inbox[f]
      /\ inbox'[e].disposition # "none"
  <2>1. CASE inbox' = inbox
    BY <1>4, <2>1, Parts
  <2>2. CASE TakeQueue
    <3>1. PICK new : new = [inbox[e] EXCEPT !.disposition = "queued"]
      OBVIOUS
    <3>2. inbox' = [inbox EXCEPT ![e] = new]
      BY <1>2, <2>2, <3>1 DEF TakeQueue
    <3>3. /\ new \in RowType /\ new.disposition = "queued" /\ new.turn = inbox[e].turn
          /\ new.ordinal = inbox[e].ordinal
      <4>1. inbox[e] \in RowType /\ "queued" \in Dispositions
        BY <1>3, Parts DEF Dispositions
      <4> QED
        BY <3>1, <4>1, RowDisposed
    <3> QED
      BY <1>3, <3>2, <3>3, Parts
  <2> QED
    BY <2>1, <2>2 DEF TakeSteerCollides, tables
<1>6. /\ waiting' \in Seq(Events) /\ NoRepeats(waiting')
      /\ \A f : In(f, waiting') => In(f, waiting) \/ f = e
  <2>1. CASE waiting' = waiting
    BY <1>4, <2>1, Parts
  <2>2. CASE waiting' = Append(waiting, e)
    BY <1>3, <1>4, <2>2, Parts, AppendPlaces
  <2> QED
    BY <1>2, <2>1, <2>2 DEF TakeQueue, TakeSteerCollides
<1>7. RowsOK' /\ ActorOK' /\ AnswersOK' /\ DeadTurnsClosed'
  BY <1>1, <1>5, Parts, RowsSame, ActorSame, AnswersSame, DeadSame
<1>8. PlacesOK'
  <2>1. ASSUME NEW f \in Events
        PROVE  /\ f \in judging' => ~In(f, mailbox') /\ ~In(f, waiting') /\ f \notin AtHand'
               /\ In(f, mailbox') => ~In(f, waiting') /\ f \notin AtHand'
               /\ In(f, waiting') => f \notin AtHand'
               /\ f \in judging' \/ In(f, mailbox') \/ In(f, waiting') \/ f \in AtHand' =>
                    /\ inbox'[f].disposition # "none"
                    /\ \A u \in TurnIds : inputs'[u][f].delivered = None
    <3>1. CASE f = e
      BY <1>1, <1>3, <1>4, <1>5, <3>1
    <3>2. CASE f # e
      BY <1>1, <1>3, <1>5, <1>6, <3>2, Parts DEF PlacesOK
    <3> QED
      BY <3>1, <3>2
  <2> QED
    BY <1>3, <1>6, <2>1 DEF PlacesOK
<1>9. TypeOK'
  BY <1>1, <1>3, <1>5, <1>6, <1>7, Parts, TypesNext
<1> QED
  BY <1>7, <1>8, <1>9 DEF RecoveryInv

\* The head of the mailbox is steered into the turn under way.
LEMMA TakeSteerKeeps ==
  ASSUME RecoveryInv, TakeSteer
  PROVE  RecoveryInv'
<1>1. /\ UNCHANGED <<turns, intents, judging, waiting, phase, clock, answer, crashes>>
      /\ mailbox # <<>> /\ mailbox' = Tail(mailbox) /\ AtHand = {}
      /\ actor.state \in {"running", "settling"} /\ actor.turn \in TurnIds /\ actor.count \in Nat
  <2>1. actor.state \in {"running", "settling"}
    BY DEF TakeSteer, Joinable
  <2>2. actor.turn \in TurnIds /\ actor.count \in Nat
    BY <2>1, Parts, ActorFields DEF ActorOK
  <2> QED
    BY <2>1, <2>2, FreeHands DEF TakeSteer
<1>2. PICK e : e = Head(mailbox)
  OBVIOUS
<1>3. PICK t : t = actor.turn
  OBVIOUS
<1>4. PICK n : n = actor.count
  OBVIOUS
<1>5. /\ mailbox' \in Seq(Events) /\ NoRepeats(mailbox')
      /\ e \in Events /\ In(e, mailbox) /\ ~In(e, mailbox')
      /\ \A f : In(f, mailbox') => In(f, mailbox)
  BY <1>1, <1>2, Parts, TailPlaces DEF PlacesOK
<1>6. /\ e \notin judging /\ ~In(e, waiting) /\ NoRepeats(waiting)
      /\ \A u \in TurnIds : inputs[u][e].delivered = None
  BY <1>5, Parts DEF PlacesOK
<1>7. /\ inputs' = [inputs EXCEPT ![t][e] = [ordinal |-> n, delivered |-> None]]
      /\ inbox' = [inbox EXCEPT ![e] = Assigned(@, "steer_pending", t, n)]
      /\ actor' = [actor EXCEPT !.steering = e]
  BY <1>2, <1>3, <1>4 DEF TakeSteer
<1>8. /\ inbox' \in [Events -> RowType] /\ inputs' \in [TurnIds -> [Events -> InputType]]
      /\ RowsOK'
      /\ \A f \in Events : f # e => inbox'[f] = inbox[f]
      /\ inbox'[e].disposition = "steer_pending" /\ inbox'[e].turn = t
      /\ \A u \in TurnIds, f \in Events : inputs'[u][f].delivered = inputs[u][f].delivered
  <2>1. t \in TurnIds /\ n \in Nat
    BY <1>1, <1>3, <1>4
  <2> QED
    BY <1>5, <1>6, <1>7, <2>1, Parts, AssignKeeps
<1>9. /\ actor' \in ActorType /\ actor'.state = actor.state /\ actor'.turn = actor.turn
      /\ actor'.primary = actor.primary /\ actor'.steering = e
  BY <1>5, <1>7, Parts, ActorSteers
<1>10. AtHand' = {e}
  BY <1>1, <1>5, <1>9, NoneIsNothing DEF AtHand
<1>11. ActorOK'
  BY <1>1, <1>3, <1>8, <1>9, Parts DEF ActorOK
<1>12. PlacesOK'
  <2>1. ASSUME NEW f \in Events
        PROVE  /\ f \in judging' => ~In(f, mailbox') /\ ~In(f, waiting') /\ f \notin AtHand'
               /\ In(f, mailbox') => ~In(f, waiting') /\ f \notin AtHand'
               /\ In(f, waiting') => f \notin AtHand'
               /\ f \in judging' \/ In(f, mailbox') \/ In(f, waiting') \/ f \in AtHand' =>
                    /\ inbox'[f].disposition # "none"
                    /\ \A u \in TurnIds : inputs'[u][f].delivered = None
    <3>1. CASE f = e
      BY <1>1, <1>5, <1>6, <1>8, <1>10, <3>1
    <3>2. CASE f # e
      BY <1>1, <1>5, <1>8, <1>10, <3>2, Parts DEF PlacesOK
    <3> QED
      BY <3>1, <3>2
  <2> QED
    BY <1>1, <1>5, <1>6, <2>1 DEF PlacesOK
<1>13. AnswersOK' /\ DeadTurnsClosed'
  BY <1>1, <1>8, <1>9, Parts, AnswersKept, DeadSame
<1>14. TypeOK'
  BY <1>1, <1>5, <1>8, <1>9, Parts, TypesNext
<1> QED
  BY <1>8, <1>11, <1>12, <1>13, <1>14 DEF RecoveryInv

\* A turn that comes to another state.
LEMMA TurnStated ==
  ASSUME NEW turn \in TurnType,
         NEW st \in LiveStates \cup {"interrupted", "completed"}
  PROVE  \A new : new = [turn EXCEPT !.state = st] =>
           new \in TurnType /\ new.state = st /\ new.startedAt = turn.startedAt
BY DEF TurnType

\* One turn of all that comes to another state.
LEMMA TurnMoves ==
  ASSUME TypeOK, NEW t \in TurnIds, NEW st \in LiveStates \cup {"interrupted", "completed"},
         NEW ts, ts = [turns EXCEPT ![t].state = st]
  PROVE  /\ ts \in [TurnIds -> TurnType] /\ ts[t].state = st
         /\ \A u \in TurnIds : u # t => ts[u] = turns[u]
<1>1. turns \in [TurnIds -> TurnType] /\ turns[t] \in TurnType
  BY Types
<1>2. PICK new : new = [turns[t] EXCEPT !.state = st]
  OBVIOUS
<1>3. new \in TurnType /\ new.state = st
  BY <1>1, <1>2, TurnStated
<1>4. ts = [turns EXCEPT ![t] = new]
  BY <1>2
<1> QED
  BY <1>1, <1>3, <1>4

\* The session of a new turn is open and gets its prompt.
LEMMA PromptKeeps ==
  ASSUME RecoveryInv, Prompt
  PROVE  RecoveryInv'
<1>1. /\ UNCHANGED <<inbox, intents, judging, mailbox, waiting, phase, clock, answer, crashes>>
      /\ actor.state = "starting"
  BY DEF Prompt
<1>2. actor.turn \in TurnIds /\ actor.primary \in Events /\ inbox[actor.primary].turn = actor.turn
  BY <1>1, Parts, ActorFields DEF ActorOK
<1>3. PICK t \in TurnIds : t = actor.turn
  BY <1>2
<1>4. PICK e \in Events : e = actor.primary
  BY <1>2
<1>5. /\ inputs' = [inputs EXCEPT ![t][e].delivered = clock]
      /\ turns' = [turns EXCEPT ![t].state = "running"]
      /\ actor' = [actor EXCEPT !.state = "running"]
  BY <1>3, <1>4 DEF Prompt
<1>6. actor.steering = None /\ AtHand = {e}
  BY <1>1, <1>4, Parts DEF ActorOK, AtHand
<1>7. /\ e \notin judging /\ ~In(e, mailbox) /\ ~In(e, waiting)
      /\ \A u \in TurnIds : inputs[u][e].delivered = None
  BY <1>6, Parts DEF PlacesOK
<1>8. /\ inputs' \in [TurnIds -> [Events -> InputType]] /\ RowsOK' /\ AnswersOK'
      /\ \A u \in TurnIds, f \in Events : f # e =>
           inputs'[u][f].delivered = inputs[u][f].delivered
  BY <1>1, <1>2, <1>3, <1>4, <1>5, <1>7, Parts, DeliverKeeps
<1>9. /\ turns' \in [TurnIds -> TurnType]
      /\ \A u \in TurnIds : u # t => turns'[u] = turns[u]
  BY <1>5, Parts, TurnMoves DEF LiveStates
<1>10. /\ actor' \in ActorType /\ actor'.state = "running" /\ actor'.turn = actor.turn
       /\ actor'.primary = actor.primary /\ actor'.steering = None
  BY <1>5, <1>6, Parts, ActorGoesOn
<1>11. ActorOK' /\ AtHand' = {}
  BY <1>2, <1>10, NoneIsNothing DEF ActorOK, AtHand
<1>12. PlacesOK'
  BY <1>1, <1>7, <1>8, <1>11, Parts DEF PlacesOK
<1>13. DeadTurnsClosed'
  BY <1>1, <1>3, <1>9, <1>10, Parts DEF DeadTurnsClosed
<1>14. TypeOK'
  BY <1>1, <1>8, <1>9, <1>10, Parts, TypesNext
<1> QED
  BY <1>8, <1>11, <1>12, <1>13, <1>14 DEF RecoveryInv

\* Pi takes a steer, or has settled and refuses it.
LEMMA SteerKeeps ==
  ASSUME RecoveryInv, SteerAccepted \/ SteerRejected
  PROVE  RecoveryInv'
<1>1. /\ UNCHANGED <<turns, intents, judging, mailbox, phase, clock, answer, crashes>>
      /\ actor.steering # None
  BY DEF SteerAccepted, SteerRejected
<1>2. /\ actor.steering \in Events /\ inbox[actor.steering].turn = actor.turn
      /\ actor.state \in {"running", "settling"} /\ actor.turn \in TurnIds /\ actor.count \in Nat
  BY <1>1, Parts, ActorFields DEF ActorOK
<1>3. PICK t \in TurnIds : t = actor.turn
  BY <1>2
<1>4. PICK e \in Events : e = actor.steering
  BY <1>2
<1>5. AtHand = {e}
  BY <1>1, <1>2, <1>4 DEF AtHand
<1>6. /\ e \notin judging /\ ~In(e, mailbox) /\ ~In(e, waiting) /\ inbox[e].disposition # "none"
      /\ \A u \in TurnIds : inputs[u][e].delivered = None
      /\ NoRepeats(waiting) /\ NoRepeats(mailbox) /\ inbox[e] \in RowType
  BY <1>5, Parts DEF PlacesOK
<1>7. /\ actor' \in ActorType /\ actor'.state = actor.state /\ actor'.turn = actor.turn
      /\ actor'.primary = actor.primary /\ actor'.steering = None
  <2>1. PICK n : n = actor.count + 1
    OBVIOUS
  <2>2. n \in Nat /\ actor \in ActorType
    BY <1>2, <2>1, Parts
  <2>3. actor' = [actor EXCEPT !.steering = None] \/ actor' = [actor EXCEPT !.steering = None, !.count = n]
    BY <2>1 DEF SteerAccepted, SteerRejected
  <2> QED
    BY <2>2, <2>3, ActorSteered
<1>8. AtHand' = {}
  BY <1>2, <1>7 DEF AtHand
<1>9. CASE SteerAccepted
  <2>1. /\ inputs' = [inputs EXCEPT ![t][e].delivered = clock] /\ waiting' = waiting
        /\ inbox' = [inbox EXCEPT ![e].disposition = "steer_delivered"]
    BY <1>3, <1>4, <1>9 DEF SteerAccepted
  <2>2. PICK new : new = [inbox[e] EXCEPT !.disposition = "steer_delivered"]
    OBVIOUS
  <2>3. /\ new \in RowType /\ new.disposition = "steer_delivered" /\ new.turn = inbox[e].turn
        /\ new.ordinal = inbox[e].ordinal
    <3>1. "steer_delivered" \in Dispositions
      BY DEF Dispositions
    <3> QED
      BY <1>6, <2>2, <3>1, RowDisposed
  <2>4. inbox' = [inbox EXCEPT ![e] = new]
    BY <2>1, <2>2
  <2>5. /\ inbox' \in [Events -> RowType]
        /\ \A f \in Events : inbox'[f].turn = inbox[f].turn /\ inbox'[f].ordinal = inbox[f].ordinal
        /\ \A f \in Events : f # e => inbox'[f] = inbox[f]
    BY <2>3, <2>4, Parts
  <2>6. /\ inputs' \in [TurnIds -> [Events -> InputType]] /\ RowsOK' /\ AnswersOK'
        /\ \A u \in TurnIds, f \in Events : f # e =>
             inputs'[u][f].delivered = inputs[u][f].delivered
    BY <1>1, <1>2, <1>3, <1>4, <1>6, <2>1, <2>5, Parts, DeliverKeeps
  <2>7. PlacesOK'
    BY <1>1, <1>6, <1>8, <2>1, <2>5, <2>6, Parts DEF PlacesOK
  <2>8. ActorOK'
    BY <1>2, <1>7, Parts DEF ActorOK
  <2>9. DeadTurnsClosed'
    BY <1>1, <1>7, Parts, DeadSame
  <2>10. TypeOK'
    BY <1>1, <1>7, <2>1, <2>5, <2>6, Parts, TypesNext
  <2> QED
    BY <2>6, <2>7, <2>8, <2>9, <2>10 DEF RecoveryInv
<1>10. CASE SteerRejected
  <2>1. /\ inputs' = inputs /\ waiting' = Append(waiting, e)
        /\ inbox' = [inbox EXCEPT ![e] = Assigned(@, "queued", None, None)]
    BY <1>4, <1>10 DEF SteerRejected
  <2>2. PICK new : new = Assigned(inbox[e], "queued", None, None)
    OBVIOUS
  <2>3. new \in RowType /\ new.disposition = "queued" /\ new.turn = None /\ new.ordinal = None
    <3>1. inbox[e].receivedAt \in Time /\ inbox[e].root \in RootIds
      BY <1>6 DEF RowType, RootIds
    <3> QED
      BY <2>2, <3>1 DEF Assigned, Row, RowType, RootIds
  <2>4. inbox' = [inbox EXCEPT ![e] = new]
    BY <2>1, <2>2
  <2>5. /\ inbox' \in [Events -> RowType] /\ inbox'[e] = new
        /\ \A f \in Events : f # e => inbox'[f] = inbox[f]
    BY <2>3, <2>4, Parts
  <2>6. /\ waiting' \in Seq(Events) /\ NoRepeats(waiting')
        /\ \A f : In(f, waiting') <=> In(f, waiting) \/ f = e
    BY <1>6, <2>1, Parts, AppendPlaces
  <2>7. RowsOK'
    BY <1>6, <2>1, <2>3, <2>5, Parts DEF RowsOK
  <2>8. AnswersOK' /\ DeadTurnsClosed'
    BY <1>1, <1>7, <2>1, Parts, AnswersSame, DeadSame
  <2>9. ActorOK'
    BY <1>2, <1>7, Parts DEF ActorOK
  <2>10. PlacesOK'
    BY <1>1, <1>6, <1>8, <2>1, <2>3, <2>5, <2>6, Parts DEF PlacesOK
  <2>11. TypeOK'
    BY <1>1, <1>7, <2>1, <2>5, <2>6, <2>7, Parts, TypesNext
  <2> QED
    BY <2>7, <2>8, <2>9, <2>10, <2>11 DEF RecoveryInv
<1> QED
  BY <1>9, <1>10

\* The model says something.
LEMMA OutputKeeps ==
  ASSUME RecoveryInv, Output
  PROVE  RecoveryInv'
<1>1. /\ UNCHANGED <<inbox, turns, inputs, judging, mailbox, waiting, actor, phase, clock, crashes>>
      /\ actor.turn \in TurnIds /\ AtHand' = AtHand
  BY Parts, ActorFields DEF Output, memory, AtHand
<1>2. PICK t \in TurnIds : t = actor.turn
  BY <1>1
<1>3. /\ intents' = [intents EXCEPT ![t] = clock] /\ answer' = Answers(t)
      /\ intents' \in [TurnIds -> Time \cup {None}]
  BY <1>2, Parts DEF Output
<1>4. answer' \in [Events -> {"none", "at_once", "later"}]
  BY <1>3, Parts DEF Answers
<1>5. clock \in Nat /\ clock # None /\ Time \subseteq Nat
  BY Parts, NoneIsNothing
<1>6. AnswersOK'
  <2>1. \A u \in TurnIds : intents'[u] # None => intents'[u] <= clock
    BY <1>3, <1>5, Parts DEF AnswersOK
  <2>2. ASSUME NEW u \in TurnIds, NEW e \in Events, inputs[u][e].delivered # None
        PROVE  /\ inputs[u][e].delivered <= clock
               /\ answer'[e] = "later" <=> intents'[u] # None /\ intents'[u] > inputs[u][e].delivered
    <3>1. inputs[u][e] \in InputType
      BY Parts
    <3>2. inputs[u][e].delivered \in Nat /\ inputs[u][e].delivered <= clock
      BY <1>5, <2>2, <3>1, Parts DEF AnswersOK, InputType
    <3>3. answer[e] = "later" <=> intents[u] # None /\ intents[u] > inputs[u][e].delivered
      BY <2>2, Parts DEF AnswersOK
    <3>4. intents[u] # None => intents[u] \in Nat /\ intents[u] <= clock
      BY <1>5, Parts DEF AnswersOK
    <3>5. CASE u = t
      <4>1. intents'[u] = clock /\ e \in Given(t)
        BY <1>3, <2>2, <3>5, Parts DEF Given
      <4>2. answer'[e] = IF inputs[t][e].delivered < clock THEN "later"
                         ELSE IF answer[e] = "none" THEN "at_once" ELSE answer[e]
        BY <1>3, <4>1 DEF Answers
      <4> QED
        BY <1>5, <3>2, <3>3, <3>4, <3>5, <4>1, <4>2
    <3>6. CASE u # t
      <4>1. inbox[e].turn = u /\ inputs[t][e].delivered = None
        BY <2>2, <3>6, Parts DEF RowsOK
      <4>2. answer'[e] = answer[e] /\ intents'[u] = intents[u]
        BY <1>3, <3>6, <4>1, Parts DEF Answers, Given
      <4> QED
        BY <3>2, <3>3, <4>2
    <3> QED
      BY <3>5, <3>6
  <2>3. \A e \in Events : answer'[e] # "none" => \E u \in TurnIds : inputs[u][e].delivered # None
    BY <1>3, Parts DEF AnswersOK, Answers, Given
  <2> QED
    BY <1>1, <2>1, <2>2, <2>3 DEF AnswersOK
<1>7. RowsOK' /\ ActorOK' /\ DeadTurnsClosed'
  BY <1>1, Parts, RowsSame, ActorSame, DeadSame
<1>8. PlacesOK'
  BY <1>1, Parts DEF PlacesOK
<1>9. TypeOK'
  BY <1>1, <1>3, <1>4, <1>7, Parts, TypesNext
<1> QED
  BY <1>6, <1>7, <1>8, <1>9 DEF RecoveryInv

\* Pi ends its run.
LEMMA AgentEndKeeps ==
  ASSUME RecoveryInv, AgentEnd
  PROVE  RecoveryInv'
<1>1. /\ UNCHANGED <<inbox, inputs, intents, judging, mailbox, waiting, phase, clock, answer, crashes>>
      /\ actor.state = "running" /\ AtHand = {} /\ actor.steering = None
  BY FreeHands DEF AgentEnd
<1>2. actor.turn \in TurnIds
  BY <1>1, Parts, ActorFields DEF ActorOK
<1>3. PICK t \in TurnIds : t = actor.turn
  BY <1>2
<1>4. /\ turns' \in [TurnIds -> TurnType]
      /\ \A u \in TurnIds : u # t => turns'[u] = turns[u]
  <2>1. turns' = [turns EXCEPT ![t].state = "settling"]
    BY <1>3 DEF AgentEnd
  <2> QED
    BY <2>1, Parts, TurnMoves DEF LiveStates
<1>5. /\ actor' \in ActorType /\ actor'.state = "settling" /\ actor'.turn = actor.turn
      /\ actor'.primary = actor.primary /\ actor'.steering = None
  BY <1>1, Parts, ActorGoesOn DEF AgentEnd
<1>6. AtHand' = {} /\ ActorOK'
  BY <1>1, <1>2, <1>5, Parts DEF AtHand, ActorOK
<1>7. RowsOK' /\ AnswersOK'
  BY <1>1, Parts, RowsSame, AnswersSame
<1>8. PlacesOK'
  BY <1>1, <1>6, Parts DEF PlacesOK
<1>9. DeadTurnsClosed'
  BY <1>1, <1>3, <1>4, <1>5, Parts DEF DeadTurnsClosed
<1>10. TypeOK'
  BY <1>1, <1>4, <1>5, <1>7, Parts, TypesNext
<1> QED
  BY <1>6, <1>7, <1>8, <1>9, <1>10 DEF RecoveryInv

\* The rows of the events of a turn that is over.
LEMMA CompletedRows ==
  ASSUME TypeOK, NEW t \in TurnIds
  PROVE  /\ Completed(t) \in [Events -> RowType]
         /\ \A e \in Events : /\ Completed(t)[e].turn = inbox[e].turn
                              /\ Completed(t)[e].ordinal = inbox[e].ordinal
                              /\ inbox[e].disposition # "none" => Completed(t)[e].disposition # "none"
<1>1. ASSUME NEW e \in Events
      PROVE  /\ Completed(t)[e] \in RowType
             /\ Completed(t)[e].turn = inbox[e].turn
             /\ Completed(t)[e].ordinal = inbox[e].ordinal
             /\ inbox[e].disposition # "none" => Completed(t)[e].disposition # "none"
  <2>1. PICK new : new = [inbox[e] EXCEPT !.disposition = "completed"]
    OBVIOUS
  <2>2. inbox[e] \in RowType /\ "completed" \in Dispositions
    BY Types DEF Dispositions
  <2>3. /\ new \in RowType /\ new.disposition = "completed" /\ new.turn = inbox[e].turn
        /\ new.ordinal = inbox[e].ordinal
    BY <2>1, <2>2, RowDisposed
  <2>4. Completed(t)[e] \in {inbox[e], new}
    BY <2>1 DEF Completed
  <2> QED
    BY <2>2, <2>3, <2>4
<1>2. Completed(t) \in [Events -> RowType]
  BY <1>1 DEF Completed
<1> QED
  BY <1>1, <1>2

\* A turn settles; the oldest waiting event opens the next.
LEMMA SettleKeeps ==
  ASSUME RecoveryInv, Settle
  PROVE  RecoveryInv'
<1>1. /\ UNCHANGED <<intents, judging, mailbox, phase, clock, answer, crashes>>
      /\ AtHand = {} /\ actor.turn # None
  BY FreeHands DEF Settle
<1>2. PICK t \in TurnIds : t = actor.turn
  BY <1>1, Parts, ActorFields
<1>3. PICK ib : ib = Completed(t)
  OBVIOUS
<1>4. PICK ts : ts = [turns EXCEPT ![t].state = "completed"]
  OBVIOUS
<1>5. /\ ib \in [Events -> RowType]
      /\ \A e \in Events : /\ ib[e].turn = inbox[e].turn /\ ib[e].ordinal = inbox[e].ordinal
                           /\ inbox[e].disposition # "none" => ib[e].disposition # "none"
  BY <1>3, Parts, CompletedRows
<1>6. /\ ts \in [TurnIds -> TurnType] /\ ts[t].state = "completed"
      /\ \A u \in TurnIds : u # t => ts[u] = turns[u]
  <2>1. PICK new : new = [turns[t] EXCEPT !.state = "completed"]
    OBVIOUS
  <2>2. turns \in [TurnIds -> TurnType] /\ turns[t] \in TurnType
    BY <1>2, Parts
  <2>3. new \in TurnType /\ new.state = "completed"
    BY <2>1, <2>2, TurnStated
  <2>4. ts = [turns EXCEPT ![t] = new]
    BY <1>4, <2>1
  <2> QED
    BY <2>2, <2>3, <2>4
<1>7. CASE waiting = <<>>
  <2>1. turns' = ts /\ inbox' = ib /\ actor' = Idle /\ UNCHANGED <<inputs, waiting>>
    BY <1>2, <1>3, <1>4, <1>7 DEF Settle
  <2>2. /\ actor' \in ActorType /\ actor'.state = "idle" /\ actor'.turn = None
        /\ actor'.steering = None
    BY <2>1, ActorMade
  <2>3. ActorOK' /\ AtHand' = {}
    BY <2>2 DEF ActorOK, AtHand
  <2>4. RowsOK' /\ AnswersOK'
    BY <1>1, <1>5, <2>1, Parts, RowsSame, AnswersSame
  <2>5. PlacesOK'
    BY <1>1, <1>5, <2>1, <2>3, Parts DEF PlacesOK
  <2>6. DeadTurnsClosed'
    BY <1>1, <1>2, <1>6, <2>1, Parts DEF DeadTurnsClosed
  <2>7. TypeOK'
    BY <1>1, <1>5, <1>6, <2>1, <2>2, <2>4, Parts, TypesNext
  <2> QED
    BY <2>3, <2>4, <2>5, <2>6, <2>7 DEF RecoveryInv
<1>8. CASE waiting # <<>>
  <2>1. PICK e : e = Head(waiting)
    OBVIOUS
  <2>2. waiting' = Tail(waiting) /\ \E u \in TurnIds : OpenTurn(e, u, ts, ib)
    BY <1>2, <1>3, <1>4, <1>8, <2>1 DEF Settle
  <2>3. PICK u \in TurnIds : OpenTurn(e, u, ts, ib)
    BY <2>2
  <2>4. /\ waiting' \in Seq(Events) /\ NoRepeats(waiting')
        /\ e \in Events /\ In(e, waiting) /\ ~In(e, waiting')
        /\ \A f : In(f, waiting') => In(f, waiting)
    BY <1>8, <2>1, <2>2, Parts, TailPlaces DEF PlacesOK
  <2>5. /\ e \notin judging /\ ~In(e, mailbox) /\ NoRepeats(mailbox)
        /\ \A v \in TurnIds : inputs[v][e].delivered = None
    BY <2>4, Parts DEF PlacesOK
  <2>6. /\ inbox' \in [Events -> RowType] /\ inputs' \in [TurnIds -> [Events -> InputType]]
        /\ turns' \in [TurnIds -> TurnType] /\ actor' \in ActorType
        /\ RowsOK' /\ ActorOK'
        /\ \A f \in Events : f # e => inbox'[f] = ib[f]
        /\ inbox'[e].disposition = "prompted"
        /\ \A v \in TurnIds, f \in Events : inputs'[v][f].delivered = inputs[v][f].delivered
        /\ AtHand' = {e} /\ actor'.turn = u
        /\ \A v \in TurnIds : v # u => turns'[v] = ts[v]
    <3>1. \A f \in Events : ib[f].turn = inbox[f].turn /\ ib[f].ordinal = inbox[f].ordinal
      BY <1>5
    <3>2. TypeOK /\ RowsOK
      BY Parts
    <3>3. Opened(e, u, ts, ib)
      BY <1>5, <1>6, <2>3, <2>4, <2>5, <3>1, <3>2, OpenKeeps
    <3> QED
      BY <3>3 DEF Opened
  <2>7. PlacesOK'
    <3>1. ASSUME NEW f \in Events
          PROVE  /\ f \in judging' => ~In(f, mailbox') /\ ~In(f, waiting') /\ f \notin AtHand'
                 /\ In(f, mailbox') => ~In(f, waiting') /\ f \notin AtHand'
                 /\ In(f, waiting') => f \notin AtHand'
                 /\ f \in judging' \/ In(f, mailbox') \/ In(f, waiting') \/ f \in AtHand' =>
                      /\ inbox'[f].disposition # "none"
                      /\ \A v \in TurnIds : inputs'[v][f].delivered = None
      <4>1. CASE f = e
        BY <1>1, <2>4, <2>5, <2>6, <4>1
      <4>2. CASE f # e
        <5>1. /\ f \in judging => ~In(f, mailbox) /\ ~In(f, waiting)
              /\ In(f, mailbox) => ~In(f, waiting)
              /\ f \in judging \/ In(f, mailbox) \/ In(f, waiting) =>
                   /\ inbox[f].disposition # "none"
                   /\ \A v \in TurnIds : inputs[v][f].delivered = None
          BY Parts DEF PlacesOK
        <5>2. f \notin AtHand' /\ judging' = judging /\ mailbox' = mailbox
          BY <1>1, <2>6, <4>2
        <5>3. inbox[f].disposition # "none" => inbox'[f].disposition # "none"
          BY <1>5, <2>6, <4>2
        <5>4. \A v \in TurnIds : inputs'[v][f].delivered = inputs[v][f].delivered
          BY <2>6
        <5>5. In(f, waiting') => In(f, waiting)
          BY <2>4
        <5> QED
          BY <5>1, <5>2, <5>3, <5>4, <5>5
      <4> QED
        BY <4>1, <4>2
    <3> QED
      BY <1>1, <2>4, <2>5, <3>1 DEF PlacesOK
  <2>8. AnswersOK'
    BY <1>1, <2>6, Parts, AnswersKept
  <2>9. DeadTurnsClosed'
    BY <1>1, <1>2, <1>6, <2>6, Parts DEF DeadTurnsClosed
  <2>10. TypeOK'
    BY <1>1, <2>4, <2>6, Parts, TypesNext
  <2> QED
    BY <2>6, <2>7, <2>8, <2>9, <2>10 DEF RecoveryInv
<1> QED
  BY <1>7, <1>8

-----------------------------------------------------------------------------
(* Crash and start-up.                                                       *)

\* The process dies: its memory is gone, and the tables stay, but for what settle
\* had written of a turn.
LEMMA CrashKeeps ==
  ASSUME RecoveryInv, Crash \/ CrashInSettle
  PROVE  RecoveryInv'
<1>1. /\ UNCHANGED <<inputs, intents, clock, answer>>
      /\ judging' = {} /\ mailbox' = <<>> /\ waiting' = <<>> /\ actor' = Idle /\ phase' = "down"
      /\ crashes < MaxCrashes /\ crashes' = crashes + 1
  BY DEF Crash, CrashInSettle, GoDown, tables
<1>2. /\ inbox' \in [Events -> RowType] /\ turns' \in [TurnIds -> TurnType]
      /\ \A e \in Events : inbox'[e].turn = inbox[e].turn /\ inbox'[e].ordinal = inbox[e].ordinal
  <2>1. CASE Crash
    BY <2>1, Parts DEF Crash, tables
  <2>2. CASE CrashInSettle
    <3>1. PICK t \in TurnIds : t = actor.turn
      BY <2>2, Parts, ActorFields DEF CrashInSettle
    <3>2. turns' = [turns EXCEPT ![t].state = "completed"] /\ inbox' = Completed(t)
      BY <2>2, <3>1 DEF CrashInSettle
    <3>3. TypeOK /\ "completed" \in LiveStates \cup {"interrupted", "completed"}
      BY Parts
    <3>4. turns' \in [TurnIds -> TurnType]
      BY <3>2, <3>3, TurnMoves
    <3> QED
      BY <3>2, <3>3, <3>4, CompletedRows
  <2> QED
    BY <2>1, <2>2
<1>3. /\ actor' \in ActorType /\ actor'.state = "idle" /\ actor'.turn = None
      /\ actor'.steering = None
  BY <1>1, ActorMade
<1>4. ActorOK' /\ AtHand' = {}
  BY <1>3 DEF ActorOK, AtHand
<1>5. RowsOK' /\ AnswersOK'
  BY <1>1, <1>2, Parts, RowsSame, AnswersSame
<1>6. PlacesOK'
  <2>1. NoRepeats(<<>>) /\ \A f : ~In(f, <<>>)
    BY DEF NoRepeats, In
  <2> QED
    BY <1>1, <1>4, <2>1 DEF PlacesOK
<1>7. DeadTurnsClosed'
  BY <1>1 DEF DeadTurnsClosed
<1>8. TypeOK'
  <2>1. judging' \subseteq Events /\ mailbox' \in Seq(Events) /\ waiting' \in Seq(Events)
    BY <1>1
  <2>2. crashes' \in 0 .. MaxCrashes
    BY <1>1, Parts, RecoveryAssumption
  <2> QED
    BY <1>1, <1>2, <1>3, <1>5, <2>1, <2>2, Parts, TypesNext
<1> QED
  BY <1>4, <1>5, <1>6, <1>7, <1>8 DEF RecoveryInv

\* The process comes up, or time passes.
LEMMA TimeKeeps ==
  ASSUME RecoveryInv, Restart \/ Tick
  PROVE  RecoveryInv'
<1>1. /\ UNCHANGED <<inbox, turns, inputs, intents, judging, mailbox, waiting, actor, answer, crashes>>
      /\ phase' = "live" => phase = "live"
      /\ phase' \in {"down", "early", "live"} /\ AtHand' = AtHand
      /\ clock' \in Time /\ clock' >= clock
  <2>1. /\ UNCHANGED <<inbox, turns, inputs, intents, judging, mailbox, waiting, actor, answer, crashes>>
        /\ phase' = "live" => phase = "live"
        /\ phase' \in {"down", "early", "live"} /\ AtHand' = AtHand
    BY Parts DEF Restart, Tick, tables, memory, AtHand
  <2>2. clock \in Time /\ MaxClock \in Nat
    BY Parts, RecoveryAssumption
  <2>3. clock' \in Time /\ clock' >= clock
    BY <2>2 DEF Restart, Tick, Time
  <2> QED
    BY <2>1, <2>3
<1>2. RowsOK' /\ ActorOK'
  BY <1>1, Parts, RowsSame, ActorSame
<1>3. AnswersOK'
  <2>1. /\ \A t \in TurnIds : intents[t] # None => intents[t] \in Nat
        /\ clock \in Nat /\ clock' \in Nat
    BY <1>1, Parts, NoneIsNothing
  <2>2. \A t \in TurnIds, e \in Events : inputs[t][e].delivered # None => inputs[t][e].delivered \in Nat
    <3>1. \A input \in InputType : input.delivered \in Time \cup {None}
      BY DEF InputType
    <3>2. \A t \in TurnIds, e \in Events : inputs[t][e] \in InputType
      BY Parts
    <3> QED
      BY <3>1, <3>2, NoneIsNothing
  <2>3. \A t \in TurnIds : intents[t] # None => intents[t] <= clock'
    BY <1>1, <2>1, Parts DEF AnswersOK
  <2>4. \A t \in TurnIds, e \in Events : inputs[t][e].delivered # None => inputs[t][e].delivered <= clock'
    BY <1>1, <2>1, <2>2, Parts DEF AnswersOK
  <2> QED
    BY <1>1, <2>3, <2>4, Parts DEF AnswersOK
<1>4. PlacesOK'
  BY <1>1, Parts DEF PlacesOK
<1>5. DeadTurnsClosed'
  BY <1>1, Parts DEF DeadTurnsClosed
<1>6. TypeOK'
  BY <1>1, <1>2, Parts, TypesNext
<1> QED
  BY <1>2, <1>3, <1>4, <1>5, <1>6 DEF RecoveryInv

\* Recovery interrupts the turns that were left open, and marks what it replays.
LEMMA RecoverFields ==
  ASSUME TypeOK, Recover
  PROVE  /\ inbox' \in [Events -> RowType] /\ turns' \in [TurnIds -> TurnType]
         /\ UNCHANGED <<inputs, intents, judging, mailbox, waiting, actor, clock, answer, crashes>>
         /\ phase' = "live"
         /\ \A e \in Events :
              /\ inbox'[e].turn = inbox[e].turn /\ inbox'[e].ordinal = inbox[e].ordinal
              /\ inbox'[e].receivedAt = inbox[e].receivedAt
              /\ inbox[e].disposition # "none" => inbox'[e].disposition # "none"
              /\ Unsettled(e)' <=> Unsettled(e)
         /\ \A t \in TurnIds : /\ turns'[t].state \notin LiveStates
                               /\ turns'[t].startedAt = turns[t].startedAt
<1>1. ASSUME NEW e \in Events
      PROVE  /\ inbox'[e] \in RowType
             /\ inbox'[e].turn = inbox[e].turn /\ inbox'[e].ordinal = inbox[e].ordinal
             /\ inbox'[e].receivedAt = inbox[e].receivedAt
             /\ inbox[e].disposition # "none" => inbox'[e].disposition # "none"
             /\ Unsettled(e)' <=> Unsettled(e)
  <2>1. PICK new : new = Requeued(inbox[e])
    OBVIOUS
  <2>2. inbox[e] \in RowType /\ "queued" \in Dispositions
    BY Types DEF Dispositions
  <2>3. /\ new \in RowType /\ new.disposition = "queued" /\ new.turn = inbox[e].turn
        /\ new.ordinal = inbox[e].ordinal /\ new.receivedAt = inbox[e].receivedAt
    BY <2>1, <2>2, RowDisposed DEF Requeued
  <2>4. inbox'[e] = IF e \in Requeue THEN new ELSE inbox[e]
    BY <2>1 DEF Recover
  <2>5. e \in Requeue => Unsettled(e)
    BY DEF Requeue, Replayed
  <2> QED
    BY <2>2, <2>3, <2>4, <2>5 DEF Unsettled
<1>2. ASSUME NEW t \in TurnIds
      PROVE  /\ turns'[t] \in TurnType /\ turns'[t].state \notin LiveStates
             /\ turns'[t].startedAt = turns[t].startedAt
  <2>1. PICK new : new = [turns[t] EXCEPT !.state = "interrupted"]
    OBVIOUS
  <2>2. turns[t] \in TurnType
    BY Types
  <2>3. new \in TurnType /\ new.state = "interrupted" /\ new.startedAt = turns[t].startedAt
    BY <2>1, <2>2, TurnStated
  <2>4. turns'[t] = IF t \in Unfinished THEN new ELSE turns[t]
    BY <2>1 DEF Recover
  <2> QED
    BY <2>2, <2>3, <2>4 DEF Unfinished, LiveStates
<1>3. inbox' \in [Events -> RowType] /\ turns' \in [TurnIds -> TurnType]
  BY <1>1, <1>2 DEF Recover
<1>4. /\ UNCHANGED <<inputs, intents, judging, mailbox, waiting, actor, clock, answer, crashes>>
      /\ phase' = "live"
  BY DEF Recover, memory
<1> QED
  BY <1>1, <1>2, <1>3, <1>4

\* Recovery.
LEMMA RecoverKeeps ==
  ASSUME RecoveryInv, Recover
  PROVE  RecoveryInv'
<1>1. RowsOK' /\ ActorOK' /\ AnswersOK'
  BY Parts, RecoverFields, RowsSame, ActorSame, AnswersSame
<1>2. AtHand' = AtHand
  BY Parts, RecoverFields DEF AtHand
<1>3. PlacesOK'
  BY <1>2, Parts, RecoverFields DEF PlacesOK
<1>4. DeadTurnsClosed'
  <2>1. \A t \in TurnIds : turns'[t].state \in {"none", "interrupted", "completed"}
    BY Parts, RecoverFields DEF TurnType
  <2> QED
    BY <2>1 DEF DeadTurnsClosed
<1>5. TypeOK'
  BY <1>1, Parts, RecoverFields, TypesNext
<1> QED
  BY <1>1, <1>3, <1>4, <1>5 DEF RecoveryInv

-----------------------------------------------------------------------------
(* The specification.                                                        *)

\* At first there is nothing.
LEMMA RecoveryInit == Init => RecoveryInv
<1> SUFFICES ASSUME Init PROVE RecoveryInv
  OBVIOUS
<1>1. NoRow \in RowType /\ NoRow.turn = None /\ NoRow.disposition = "none"
  <2>1. 0 \in Time
    BY RecoveryAssumption DEF Time
  <2>2. NoRow = [disposition |-> "none", turn |-> None, ordinal |-> None, receivedAt |-> 0,
                 root |-> None]
    BY DEF NoRow, Row
  <2>3. NoRow.turn = None /\ NoRow.disposition = "none"
    BY <2>2
  <2>4. NoRow \in RowType
    <3>1. "none" \in Dispositions /\ None \in TurnIds \cup {None} /\ None \in Nat \cup {None}
      BY DEF Dispositions
    <3>3. None \in RootIds
      BY DEF RootIds
    <3>2. RowType = [disposition : Dispositions, turn : TurnIds \cup {None},
                     ordinal : Nat \cup {None}, receivedAt : Time, root : RootIds]
      BY DEF RowType, Dispositions, RootIds
    <3> QED
      BY <2>1, <2>2, <3>1, <3>2, <3>3
  <2> QED
    BY <2>3, <2>4
<1>2. NoInput \in InputType /\ NoInput.delivered = None
  BY DEF NoInput, InputType
<1>3. NoTurn \in TurnType /\ NoTurn.state = "none"
  <2>1. 0 \in Time
    BY RecoveryAssumption DEF Time
  <2> QED
    BY <2>1 DEF NoTurn, TurnType
<1>4. \A e \in Events : inbox[e] = NoRow /\ answer[e] = "none"
  BY DEF Init
<1>5. \A t \in TurnIds, e \in Events : inputs[t][e] = NoInput
  BY DEF Init
<1>6. \A t \in TurnIds : turns[t] = NoTurn /\ intents[t] = None
  BY DEF Init
<1>7. RowsOK /\ ActorOK
  BY <1>1, <1>2, <1>4, <1>5, ActorMade DEF RowsOK, ActorOK, Init
<1>8. PlacesOK
  <2>1. AtHand = {}
    BY ActorMade DEF AtHand, Init
  <2>2. NoRepeats(<<>>) /\ \A f : ~In(f, <<>>)
    BY DEF NoRepeats, In
  <2> QED
    BY <2>1, <2>2 DEF PlacesOK, Init
<1>9. AnswersOK
  BY <1>2, <1>4, <1>5, <1>6 DEF AnswersOK
<1>10. DeadTurnsClosed
  BY <1>3, <1>6 DEF DeadTurnsClosed
<1>11. TypeOK
  <2>1. inbox \in [Events -> RowType] /\ turns \in [TurnIds -> TurnType]
    BY <1>1, <1>3 DEF Init
  <2>2. inputs \in [TurnIds -> [Events -> InputType]]
    BY <1>2 DEF Init
  <2>3. /\ intents \in [TurnIds -> Time \cup {None}]
        /\ answer \in [Events -> {"none", "at_once", "later"}]
    BY DEF Init
  <2>4. /\ judging \subseteq Events /\ mailbox \in Seq(Events) /\ waiting \in Seq(Events)
        /\ actor \in ActorType /\ phase \in {"down", "early", "live"}
    BY ActorMade DEF Init
  <2>5. clock \in Time /\ crashes \in 0 .. MaxCrashes
    BY RecoveryAssumption DEF Init, Time
  <2>6. \A e \in Events : inbox[e].turn # None =>
          inputs[inbox[e].turn][e].ordinal = inbox[e].ordinal
    BY <1>1, <1>4
  <2> QED
    BY <2>1, <2>2, <2>3, <2>4, <2>5, <2>6, Types
<1> QED
  BY <1>7, <1>8, <1>9, <1>10, <1>11 DEF RecoveryInv

\* Every step keeps the invariant.
LEMMA RecoveryNext == RecoveryInv /\ [Next]_vars => RecoveryInv'
<1> SUFFICES ASSUME RecoveryInv, [Next]_vars PROVE RecoveryInv'
  OBVIOUS
<1>1. CASE \E e \in Events : (\E r \in Roots[e] : Receive(e, r)) \/ Admit(e) \/ Dismiss(e)
  BY <1>1, IntakeKeeps
<1>2. CASE Take
  BY <1>2, TakeStartKeeps, TakeAwayKeeps, TakeSteerKeeps DEF Take
<1>3. CASE Prompt \/ SteerAccepted \/ SteerRejected
  BY <1>3, PromptKeeps, SteerKeeps
<1>4. CASE Output \/ AgentEnd \/ Settle
  BY <1>4, OutputKeeps, AgentEndKeeps, SettleKeeps
<1>5. CASE Crash \/ CrashInSettle
  BY <1>5, CrashKeeps
<1>6. CASE Restart \/ Tick
  BY <1>6, TimeKeeps
<1>7. CASE Recover
  BY <1>7, RecoverKeeps
<1>8. CASE UNCHANGED vars
  <2>1. /\ UNCHANGED <<inbox, turns, inputs, intents, judging, mailbox, waiting, actor, phase, clock,
                       answer, crashes>>
        /\ AtHand' = AtHand
    BY <1>8 DEF vars, tables, memory, AtHand
  <2>2. RowsOK' /\ ActorOK' /\ AnswersOK' /\ DeadTurnsClosed'
    BY <2>1, Parts, RowsSame, ActorSame, AnswersSame, DeadSame
  <2>3. PlacesOK'
    BY <2>1, Parts DEF PlacesOK
  <2>4. TypeOK'
    BY <2>1, <2>2, Parts, TypesNext
  <2> QED
    BY <2>2, <2>3, <2>4 DEF RecoveryInv
<1> QED
  BY <1>1, <1>2, <1>3, <1>4, <1>5, <1>6, <1>7, <1>8 DEF Next

\* It holds throughout.
LEMMA RecoveryInvariant == Spec => []RecoveryInv
BY RecoveryInit, RecoveryNext, PTL DEF Spec

\* The tables keep their types, and a row agrees with the input of the turn it names.
THEOREM TablesTyped == Spec => []TypeOK
<1>1. RecoveryInv => TypeOK
  BY DEF RecoveryInv
<1> QED
  BY <1>1, RecoveryInvariant, PTL

\* An accepted event that is neither settled nor answered is replayed, whatever a
\* crash cut short (planRecovery).
THEOREM NothingUnansweredIsDropped == Spec => []UnansweredIsReplayed
<1>1. RecoveryInv => UnansweredIsReplayed
  <2> SUFFICES ASSUME RecoveryInv, NEW e \in Events, Unsettled(e), answer[e] = "none"
               PROVE  e \in Requeue
    BY DEF UnansweredIsReplayed
  <2>1. CASE DeliveredAt(e) = None
    BY <2>1 DEF Requeue, Replayed
  <2>2. CASE DeliveredAt(e) # None
    <3>1. PICK t \in TurnIds : t = inbox[e].turn
      BY <2>2, Parts DEF DeliveredAt, RowType
    <3>2. DeliveredAt(e) = inputs[t][e].delivered
      BY <3>1, NoneIsNothing DEF DeliveredAt
    <3>3. ~(intents[t] # None /\ intents[t] > inputs[t][e].delivered)
      BY <2>2, <3>2, Parts DEF AnswersOK
    <3> QED
      BY <3>1, <3>2, <3>3 DEF Requeue, Replayed, AnsweredAfter
  <2> QED
    BY <2>1, <2>2
<1> QED
  BY <1>1, RecoveryInvariant, PTL

\* An event that was answered later than it was delivered is replayed by no recovery
\* (planRecovery and answeredSinceDelivery).
THEOREM NothingAnsweredTwice == Spec => []AnsweredStaysAnswered
<1>1. RecoveryInv => AnsweredStaysAnswered
  <2> SUFFICES ASSUME RecoveryInv, NEW e \in Events, answer[e] = "later" PROVE e \notin Requeue
    BY DEF AnsweredStaysAnswered
  <2>1. PICK t \in TurnIds : inputs[t][e].delivered # None
    BY Parts DEF AnswersOK
  <2>2. inbox[e].turn = t /\ t # None
    BY <2>1, Parts, NoneIsNothing DEF RowsOK
  <2>3. DeliveredAt(e) = inputs[t][e].delivered
    BY <2>2 DEF DeliveredAt
  <2>4. intents[t] # None /\ intents[t] > inputs[t][e].delivered
    BY <2>1, Parts DEF AnswersOK
  <2> QED
    BY <2>1, <2>2, <2>3, <2>4 DEF Requeue, Replayed, AnsweredAfter
<1> QED
  BY <1>1, RecoveryInvariant, PTL

\* An event reaches Pi in one turn at most, however often the relay sends it, whatever
\* Pi refuses and wherever the process dies (onInboundMessage, startTurn, steer).
THEOREM OneDelivery == Spec => []DeliveredOnce
<1>1. RecoveryInv => DeliveredOnce
  BY Parts DEF RowsOK, DeliveredOnce, Given
<1> QED
  BY <1>1, RecoveryInvariant, PTL

\* Once recovery has run, no turn of an earlier process is left open (applyRecovery).
THEOREM NoTurnLeftOpen == Spec => []DeadTurnsClosed
<1>1. RecoveryInv => DeadTurnsClosed
  BY DEF RecoveryInv
<1> QED
  BY <1>1, RecoveryInvariant, PTL

\* The inputs of a turn replay together, in the order the turn accepted them
\* (compareReplay).
THEOREM TurnsReplayInOrder == Spec => []ReplayKeepsTurns
<1>1. RecoveryInv => ReplayKeepsTurns
  <2> SUFFICES ASSUME RecoveryInv, NEW e \in Requeue, NEW f \in Requeue, NEW t,
                      t = inbox[e].turn, t # None, inbox[f].turn = t,
                      inputs[t][e].ordinal < inputs[t][f].ordinal
               PROVE  /\ ReplayBefore(e, f)
                      /\ \A g \in Requeue :
                           ReplayBefore(e, g) /\ ReplayBefore(g, f) => inbox[g].turn = t
    BY DEF ReplayKeepsTurns
  <2>1. /\ Requeue \subseteq Events
        /\ \A g \in Events : inbox[g].turn \in TurnIds \cup {None}
    BY Parts DEF Requeue, RowType
  <2>2. \A g \in Events :
          /\ DOMAIN Key(g) = 1 .. 5
          /\ Key(g)[1] = GroupAt(g) /\ Key(g)[2] = GroupId(g) /\ Key(g)[3] = Ordinal(g)
    BY DEF Key
  <2>3. \A g \in Events : /\ GroupAt(g) \in Nat /\ GroupId(g) \in Nat
                          /\ inbox[g].turn = t => GroupAt(g) = turns[t].startedAt /\ GroupId(g) = t
                          /\ GroupId(g) = t => inbox[g].turn = t
    <3>1. ASSUME NEW g \in Events PROVE GroupAt(g) \in Nat
      <4>1. inbox[g] \in RowType
        BY Parts
      <4>2. inbox[g].receivedAt \in Nat
        BY <4>1, NoneIsNothing DEF RowType
      <4>3. \A u \in TurnIds : turns[u] \in TurnType
        BY Parts
      <4>4. \A u \in TurnIds : turns[u].startedAt \in Nat
        BY <4>3, NoneIsNothing DEF TurnType
      <4> QED
        BY <2>1, <4>2, <4>4 DEF GroupAt
    <3>2. ASSUME NEW g \in Events
          PROVE  /\ GroupId(g) \in Nat
                 /\ inbox[g].turn = t => GroupAt(g) = turns[t].startedAt /\ GroupId(g) = t
                 /\ GroupId(g) = t => inbox[g].turn = t
      BY <2>1, NoneIsNothing DEF GroupId, GroupAt
    <3> QED
      BY <3>1, <3>2
  <2>4. /\ e \in Events /\ f \in Events
        /\ GroupAt(e) = GroupAt(f) /\ GroupId(e) = t /\ GroupId(f) = t
        /\ Ordinal(e) < Ordinal(f)
    BY <2>1, <2>3 DEF Ordinal
  <2>5. ReplayBefore(e, f)
    <3>1. 3 \in DOMAIN Key(e) /\ \A j \in 1 .. 3 - 1 : j = 1 \/ j = 2
      BY <2>2, <2>4
    <3> QED
      BY <2>2, <2>4, <3>1 DEF ReplayBefore
  <2>6. ASSUME NEW g \in Events, NEW h \in Events, ReplayBefore(g, h)
        PROVE  \/ GroupAt(g) < GroupAt(h)
               \/ GroupAt(g) = GroupAt(h) /\ GroupId(g) <= GroupId(h)
    <3>1. PICK i \in 1 .. 5 : /\ Key(g)[i] < Key(h)[i]
                              /\ \A j \in 1 .. i - 1 : Key(g)[j] = Key(h)[j]
      BY <2>2, <2>6 DEF ReplayBefore
    <3>2. CASE i = 1
      BY <2>2, <3>1, <3>2
    <3>3. CASE i = 2
      BY <2>2, <2>3, <3>1, <3>3
    <3>4. CASE i > 2
      <4>1. 1 \in 1 .. i - 1 /\ 2 \in 1 .. i - 1
        BY <3>4
      <4> QED
        BY <2>2, <2>3, <3>1, <4>1
    <3> QED
      BY <3>2, <3>3, <3>4
  <2>7. ASSUME NEW g \in Requeue, ReplayBefore(e, g), ReplayBefore(g, f)
        PROVE  inbox[g].turn = t
    <3>1. g \in Events
      BY <2>1
    <3>2. /\ GroupAt(e) < GroupAt(g) \/ (GroupAt(e) = GroupAt(g) /\ GroupId(e) <= GroupId(g))
          /\ GroupAt(g) < GroupAt(f) \/ (GroupAt(g) = GroupAt(f) /\ GroupId(g) <= GroupId(f))
      BY <2>4, <2>6, <2>7, <3>1
    <3>3. GroupAt(g) \in Nat /\ GroupId(g) \in Nat /\ GroupAt(e) \in Nat /\ GroupId(e) \in Nat
      BY <2>3, <2>4, <3>1
    <3>4. GroupId(g) = t
      BY <2>4, <3>2, <3>3
    <3> QED
      BY <2>3, <3>1, <3>4
  <2> QED
    BY <2>5, <2>7
<1> QED
  BY <1>1, RecoveryInvariant, PTL

\* A second recovery would replay the same events in the same order: applying the plan
\* changes nothing the plan is made from (planRecovery, applyRecovery).
THEOREM RecoveringTwiceIsOnce == Spec => RecoveryIdempotent
<1>1. RecoveryInv /\ [Next]_vars => [Recover => Plan' = Plan]_vars
  <2> SUFFICES ASSUME RecoveryInv, Recover PROVE Plan' = Plan
    OBVIOUS
  <2>1. /\ UNCHANGED <<inputs, intents>>
        /\ \A e \in Events : /\ inbox'[e].turn = inbox[e].turn
                             /\ inbox'[e].receivedAt = inbox[e].receivedAt
                             /\ Unsettled(e)' <=> Unsettled(e)
        /\ \A t \in TurnIds : turns'[t].startedAt = turns[t].startedAt
    BY Parts, RecoverFields
  <2>2. \A e \in Events : inbox[e].turn \in TurnIds \cup {None}
    BY Parts DEF RowType
  <2>3. \A e \in Events : Replayed(e)' <=> Replayed(e)
    BY <2>1, <2>2 DEF Replayed, DeliveredAt, AnsweredAfter
  <2>4. Requeue' = Requeue /\ Requeue \subseteq Events
    BY <2>3 DEF Requeue
  <2>5. \A e \in Events : /\ GroupAt(e)' = GroupAt(e) /\ GroupId(e)' = GroupId(e)
                          /\ Ordinal(e)' = Ordinal(e)
    BY <2>1, <2>2 DEF GroupAt, GroupId, Ordinal
  <2>6. \A e \in Events : Key(e)' = Key(e)
    BY <2>1, <2>5 DEF Key
  <2>7. \A e, f \in Events : ReplayBefore(e, f)' <=> ReplayBefore(e, f)
    BY <2>6 DEF ReplayBefore
  <2> QED
    BY <2>4, <2>7 DEF Plan
<1> QED
  BY <1>1, RecoveryInvariant, PTL DEF Spec, RecoveryIdempotent
=============================================================================
