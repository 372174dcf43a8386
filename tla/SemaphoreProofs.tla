--------------------------- MODULE SemaphoreProofs ---------------------------
(* What Semaphore guarantees for every set of holders and every ceiling, and *)
(* BuzzBroker, its client, for any commands.                                 *)
EXTENDS BuzzBroker, FiniteSetTheorems, TLAPS

\* A sequence lives wherever all its elements do.
LEMMA SeqOfElements ==
  ASSUME NEW S, NEW T, NEW s \in Seq(S), \A i \in DOMAIN s : s[i] \in T
  PROVE  s \in Seq(T)
<1>1. Len(s) \in Nat /\ s \in [1 .. Len(s) -> T]
  OBVIOUS
<1> QED
  BY <1>1

\* The numbers the loop of setPermits can end with.
LEMMA WokenBounds ==
  ASSUME TypeOK, NEW a \in Int
  PROVE  /\ Woken(a) \in 0 .. Len(waiters)
         /\ a - Woken(a) > 0 => Woken(a) = Len(waiters)
         /\ Woken(a) > 0 => a - Woken(a) >= 0
BY DEF TypeOK, Woken

\* What setPermits does: some waiters at the head of the line are woken, all of
\* them if permits are left over, and none while there is a deficit.
LEMMA SetPermitsStep ==
  ASSUME TypeOK, NEW n \in Sizes, SetPermits(n)
  PROVE  \E k \in 0 .. Len(waiters) :
           /\ permits' = n
           /\ available' = available + n - permits - k
           /\ available' > 0 => k = Len(waiters)
           /\ k > 0 => available' >= 0
           /\ waiters' = SubSeq(waiters, k + 1, Len(waiters))
           /\ held' = held \cup {waiters[i] : i \in 1 .. k}
<1>0. available \in Int /\ permits \in Int /\ n \in Int
  BY SemaphoreAssumption DEF TypeOK
<1>1. PICK a \in Int : a = available + n - permits
  BY <1>0
<1>2. PICK k \in 0 .. Len(waiters) : k = Woken(a)
  BY WokenBounds
<1>3. /\ a - k > 0 => k = Len(waiters)
      /\ k > 0 => a - k >= 0
  BY <1>2, WokenBounds
<1>4. /\ permits' = n
      /\ available' = a - k
      /\ waiters' = SubSeq(waiters, k + 1, Len(waiters))
      /\ held' = held \cup {waiters[i] : i \in 1 .. k}
  BY <1>1, <1>2 DEF SetPermits
<1>5. available' = available + n - permits - k
  BY <1>0, <1>1, <1>4
<1>6. /\ available' > 0 => k = Len(waiters)
      /\ k > 0 => available' >= 0
  BY <1>3, <1>4
<1> QED
  BY <1>4, <1>5, <1>6, Zenon

\* Waking the first k waiters adds exactly k holders: they are different from
\* each other and from everybody who holds already.
LEMMA WakingAddsHolders ==
  ASSUME TypeOK, NEW k \in 0 .. Len(waiters)
  PROVE  LET woken == {waiters[i] : i \in 1 .. k}
         IN  /\ woken \subseteq Holders \ held
             /\ IsFiniteSet(held \cup woken)
             /\ Cardinality(held \cup woken) = Cardinality(held) + k
<1> DEFINE woken == {waiters[i] : i \in 1 .. k}
           f == [i \in 1 .. k |-> waiters[i]]
<1>1. woken \subseteq Holders \ held
  BY DEF TypeOK
<1>2. IsFiniteSet(held)
  BY FS_Subset, SemaphoreAssumption DEF TypeOK
<1>3. IsFiniteSet(1 .. k) /\ Cardinality(1 .. k) = k
  BY FS_Interval
<1>4. f \in Bijection(1 .. k, woken)
  <2>1. f \in [1 .. k -> woken]
    OBVIOUS
  <2>2. \A i, j \in 1 .. k : f[i] = f[j] => i = j
    BY DEF TypeOK
  <2>3. \A w \in woken : \E i \in 1 .. k : f[i] = w
    OBVIOUS
  <2> QED
    BY <2>1, <2>2, <2>3 DEF Bijection, Injection, Surjection, IsInjective
<1>5. IsFiniteSet(woken) /\ Cardinality(woken) = k
  BY <1>3, <1>4, FS_Bijection DEF ExistsBijection
<1>6. held \cap woken = {}
  BY <1>1
<1> HIDE DEF woken, f
<1>7. /\ IsFiniteSet(held \cup woken)
      /\ Cardinality(held \cup woken) = Cardinality(held) + k
  <2>1. /\ IsFiniteSet(held \cup woken)
        /\ Cardinality(held \cup woken) =
             Cardinality(held) + Cardinality(woken) - Cardinality(held \cap woken)
    BY <1>2, <1>5, FS_Union
  <2>2. Cardinality(held \cap woken) = 0
    BY <1>6, FS_EmptySet
  <2>3. Cardinality(held) \in Nat
    BY <1>2, FS_CardinalityType
  <2> QED
    BY <1>5, <2>1, <2>2, <2>3
<1> QED
  BY <1>1, <1>7 DEF woken

-----------------------------------------------------------------------------
\* The types, and that nobody waits twice or waits while holding, whatever the
\* order of acquire, release and setPermits.
THEOREM TypeCorrect == Spec => []TypeOK
<1>1. Init => TypeOK
  BY SemaphoreAssumption DEF Init, TypeOK
<1>2. TypeOK /\ [Next]_vars => TypeOK'
  <2> SUFFICES ASSUME TypeOK, [Next]_vars PROVE TypeOK'
    OBVIOUS
  <2>1. ASSUME NEW h \in Holders, Acquire(h) PROVE TypeOK'
    <3>1. CASE available > 0
      BY <2>1, <3>1 DEF Acquire, TypeOK, Waiting
    <3>2. CASE ~(available > 0)
      BY <2>1, <3>2 DEF Acquire, TypeOK, Waiting
    <3> QED
      BY <3>1, <3>2
  <2>2. ASSUME NEW h \in Holders, Release(h) PROVE TypeOK'
    <3>1. CASE available >= 0 /\ waiters # <<>>
      <4>1. /\ held' = (held \ {h}) \cup {Head(waiters)}
            /\ waiters' = Tail(waiters)
            /\ available' = available /\ permits' = permits
        BY <2>2, <3>1 DEF Release
      <4>2. /\ waiters \in Seq(Holders \ held)
            /\ Len(waiters) \in Nat \ {0}
            /\ DOMAIN waiters = 1 .. Len(waiters)
            /\ Head(waiters) = waiters[1]
            /\ Head(waiters) \in Holders \ held
        BY <3>1 DEF TypeOK
      <4>3. /\ Tail(waiters) \in Seq(Holders \ held)
            /\ Len(Tail(waiters)) = Len(waiters) - 1
            /\ DOMAIN Tail(waiters) = 1 .. (Len(waiters) - 1)
            /\ \A i \in 1 .. (Len(waiters) - 1) : Tail(waiters)[i] = waiters[i + 1]
        BY <3>1, <4>2
      <4>4. \A i \in DOMAIN waiters' : waiters'[i] \in Holders \ held'
        BY <4>1, <4>2, <4>3 DEF TypeOK
      <4>5. waiters' \in Seq(Holders \ held')
        BY <4>1, <4>3, <4>4, SeqOfElements
      <4>6. \A i, j \in DOMAIN waiters' : i # j => waiters'[i] # waiters'[j]
        BY <4>1, <4>2, <4>3 DEF TypeOK
      <4> QED
        BY <4>1, <4>2, <4>5, <4>6 DEF TypeOK
    <3>2. CASE ~(available >= 0 /\ waiters # <<>>)
      BY <2>2, <3>2 DEF Release, TypeOK
    <3> QED
      BY <3>1, <3>2
  <2>3. ASSUME NEW n \in Sizes, SetPermits(n) PROVE TypeOK'
    <3>1. PICK k \in 0 .. Len(waiters) :
            /\ permits' = n
            /\ available' = available + n - permits - k
            /\ waiters' = SubSeq(waiters, k + 1, Len(waiters))
            /\ held' = held \cup {waiters[i] : i \in 1 .. k}
      BY <2>3, SetPermitsStep
    <3>2. available' \in Int
      BY <3>1, SemaphoreAssumption DEF TypeOK
    <3>3. held' \subseteq Holders
      BY <3>1, WakingAddsHolders DEF TypeOK
    <3>4. /\ waiters' \in Seq(Holders \ held)
          /\ Len(waiters') = Len(waiters) - k
          /\ DOMAIN waiters' = 1 .. (Len(waiters) - k)
          /\ \A i \in DOMAIN waiters' : waiters'[i] = waiters[i + k]
      BY <3>1 DEF TypeOK
    <3>5. \A i \in DOMAIN waiters' : waiters'[i] \in Holders \ held'
      BY <3>1, <3>4 DEF TypeOK
    <3>6. waiters' \in Seq(Holders \ held')
      BY <3>4, <3>5, SeqOfElements
    <3>7. \A i, j \in DOMAIN waiters' : i # j => waiters'[i] # waiters'[j]
      BY <3>4 DEF TypeOK
    <3> QED
      BY <3>1, <3>2, <3>3, <3>6, <3>7 DEF TypeOK
  <2>4. CASE UNCHANGED vars
    BY <2>4 DEF vars, TypeOK
  <2> QED
    BY <2>1, <2>2, <2>3, <2>4 DEF Next
<1> QED
  BY <1>1, <1>2, PTL DEF Spec
-----------------------------------------------------------------------------
\* Free permits and held permits add up to the ceiling: nothing that acquire,
\* release, a handover, a shrink or growth does loses a permit or makes one up.
THEOREM PermitsConserved == Spec => []Conservation
<1>1. Init => Conservation
  BY FS_EmptySet, SemaphoreAssumption DEF Init, Conservation
<1>2. TypeOK /\ TypeOK' /\ Conservation /\ [Next]_vars => Conservation'
  <2> SUFFICES ASSUME TypeOK, TypeOK', Conservation, [Next]_vars PROVE Conservation'
    OBVIOUS
  <2>a. available \in Int /\ permits \in Nat
    BY SemaphoreAssumption DEF TypeOK
  <2>0. IsFiniteSet(held) /\ Cardinality(held) \in Nat
    BY FS_Subset, FS_CardinalityType, SemaphoreAssumption DEF TypeOK
  <2>1. ASSUME NEW h \in Holders, Acquire(h) PROVE Conservation'
    <3>1. Cardinality(held \cup {h}) = Cardinality(held) + 1
      BY <2>0, <2>1, FS_AddElement DEF Acquire
    <3>2. CASE available > 0
      <4>1. /\ held' = held \cup {h}
            /\ available' = available - 1 /\ permits' = permits
        BY <2>1, <3>2 DEF Acquire
      <4> QED
        BY <2>a, <2>0, <3>1, <4>1 DEF Conservation
    <3>3. CASE ~(available > 0)
      BY <2>1, <3>3 DEF Acquire, Conservation
    <3> QED
      BY <3>2, <3>3
  <2>2. ASSUME NEW h \in Holders, Release(h) PROVE Conservation'
    <3>1. /\ IsFiniteSet(held \ {h})
          /\ Cardinality(held \ {h}) = Cardinality(held) - 1
      BY <2>0, <2>2, FS_RemoveElement DEF Release
    <3>2. CASE available >= 0 /\ waiters # <<>>
      <4>1. /\ held' = (held \ {h}) \cup {Head(waiters)}
            /\ available' = available /\ permits' = permits
        BY <2>2, <3>2 DEF Release
      <4>2. Head(waiters) \notin held
        BY <3>2 DEF TypeOK
      <4>3. Cardinality(held') = Cardinality(held \ {h}) + 1
        BY <3>1, <4>1, <4>2, FS_AddElement
      <4> QED
        BY <2>0, <3>1, <4>1, <4>3 DEF Conservation, TypeOK
    <3>3. CASE ~(available >= 0 /\ waiters # <<>>)
      <4>1. /\ held' = held \ {h}
            /\ available' = available + 1 /\ permits' = permits
        BY <2>2, <3>3 DEF Release
      <4> QED
        BY <2>a, <2>0, <3>1, <4>1 DEF Conservation
    <3> QED
      BY <3>2, <3>3
  <2>3. ASSUME NEW n \in Sizes, SetPermits(n) PROVE Conservation'
    <3>1. PICK k \in 0 .. Len(waiters) :
            /\ permits' = n
            /\ available' = available + n - permits - k
            /\ held' = held \cup {waiters[i] : i \in 1 .. k}
      BY <2>3, SetPermitsStep
    <3>2. Cardinality(held') = Cardinality(held) + k
      BY <3>1, WakingAddsHolders
    <3>3. k \in Nat /\ n \in Nat
      BY SemaphoreAssumption DEF TypeOK
    <3> QED
      BY <2>a, <2>0, <3>1, <3>2, <3>3 DEF Conservation
  <2>4. CASE UNCHANGED vars
    BY <2>4 DEF vars, Conservation
  <2> QED
    BY <2>1, <2>2, <2>3, <2>4 DEF Next
<1> QED
  BY <1>1, <1>2, TypeCorrect, PTL DEF Spec

\* A free permit and a waiter never exist together.
THEOREM PermitsUsed == Spec => []NoIdlePermit
<1>1. Init => NoIdlePermit
  BY DEF Init, NoIdlePermit
<1>2. TypeOK /\ NoIdlePermit /\ [Next]_vars => NoIdlePermit'
  <2> SUFFICES ASSUME TypeOK, NoIdlePermit, [Next]_vars PROVE NoIdlePermit'
    OBVIOUS
  <2>1. ASSUME NEW h \in Holders, Acquire(h) PROVE NoIdlePermit'
    BY <2>1 DEF Acquire, NoIdlePermit, TypeOK
  <2>2. ASSUME NEW h \in Holders, Release(h) PROVE NoIdlePermit'
    <3>1. CASE available >= 0 /\ waiters # <<>>
      BY <2>2, <3>1 DEF Release, NoIdlePermit, TypeOK
    <3>2. CASE ~(available >= 0 /\ waiters # <<>>)
      BY <2>2, <3>2 DEF Release, NoIdlePermit, TypeOK
    <3> QED
      BY <3>1, <3>2
  <2>3. ASSUME NEW n \in Sizes, SetPermits(n) PROVE NoIdlePermit'
    <3>1. PICK k \in 0 .. Len(waiters) :
            /\ available' > 0 => k = Len(waiters)
            /\ waiters' = SubSeq(waiters, k + 1, Len(waiters))
      BY <2>3, SetPermitsStep
    <3>2. k = Len(waiters) => waiters' = <<>>
      BY <3>1 DEF TypeOK
    <3> QED
      BY <3>1, <3>2 DEF NoIdlePermit
  <2>4. CASE UNCHANGED vars
    BY <2>4 DEF vars, NoIdlePermit
  <2> QED
    BY <2>1, <2>2, <2>3, <2>4 DEF Next
<1> QED
  BY <1>1, <1>2, TypeCorrect, PTL DEF Spec

\* Permits are given out within the ceiling only: after a shrink the running
\* turns go on, and nobody is served until the deficit is paid back.
THEOREM GrantsWithinCeiling == Spec => GrantsFit
<1> DEFINE Fits == ~(held' \subseteq held) => Cardinality(held') <= permits'
<1>1. TypeOK /\ TypeOK' /\ Conservation' /\ [Next]_vars => [Fits]_vars
  <2> SUFFICES ASSUME TypeOK, TypeOK', Conservation', [Next]_vars,
                      ~(held' \subseteq held)
               PROVE  Cardinality(held') <= permits'
    OBVIOUS
  <2>1. available' >= 0
    <3>1. ASSUME NEW h \in Holders, Acquire(h) PROVE available' >= 0
      BY <3>1 DEF Acquire, TypeOK
    <3>2. ASSUME NEW h \in Holders, Release(h) PROVE available' >= 0
      BY <3>2 DEF Release, TypeOK
    <3>3. ASSUME NEW n \in Sizes, SetPermits(n) PROVE available' >= 0
      <4>1. PICK k \in 0 .. Len(waiters) :
              /\ k > 0 => available' >= 0
              /\ held' = held \cup {waiters[i] : i \in 1 .. k}
        BY <3>3, SetPermitsStep
      <4>2. k # 0
        BY <4>1
      <4> QED
        BY <4>1, <4>2
    <3>4. CASE UNCHANGED vars
      BY <3>4 DEF vars
    <3> QED
      BY <3>1, <3>2, <3>3, <3>4 DEF Next
  <2>2. IsFiniteSet(held')
    BY FS_Subset, SemaphoreAssumption DEF TypeOK
  <2>3. Cardinality(held') \in Nat
    BY <2>2, FS_CardinalityType
  <2>4. permits' \in Nat /\ available' \in Int
    BY SemaphoreAssumption DEF TypeOK
  <2> QED
    BY <2>1, <2>3, <2>4 DEF Conservation
<1> QED
  BY <1>1, TypeCorrect, PermitsConserved, PTL DEF Spec, GrantsFit

\* First come, first served: a holder gets its permit, and takes its place in
\* the line, ahead of nobody who was waiting before it.
THEOREM FirstComeFirstServed == Spec => NoOvertaking
<1>1. TypeOK /\ NoIdlePermit /\ [Next]_vars => [ServedInOrder]_vars
  <2> SUFFICES ASSUME TypeOK, NoIdlePermit, [Next]_vars, NEW g \in held' \ held
               PROVE  /\ g \notin Waiting => waiters = <<>>
                      /\ \A i, j \in DOMAIN waiters :
                           i < j /\ waiters[j] = g => waiters[i] \in held'
    BY DEF ServedInOrder
  <2>1. ASSUME NEW h \in Holders, Acquire(h) PROVE waiters = <<>>
    BY <2>1 DEF Acquire, NoIdlePermit
  <2>2. ASSUME NEW h \in Holders, Release(h)
        PROVE  waiters # <<>> /\ g = waiters[1]
    BY <2>2 DEF Release, TypeOK
  <2>3. ASSUME NEW n \in Sizes, SetPermits(n)
        PROVE  \E k \in 0 .. Len(waiters) :
                 /\ held' = held \cup {waiters[i] : i \in 1 .. k}
                 /\ g \in {waiters[i] : i \in 1 .. k}
    <3>1. PICK k \in 0 .. Len(waiters) :
            held' = held \cup {waiters[i] : i \in 1 .. k}
      BY <2>3, SetPermitsStep
    <3> QED
      BY <3>1
  <2>4. CASE waiters = <<>>
    BY <2>4
  <2>5. CASE waiters # <<>> /\ g = waiters[1]
    BY <2>5 DEF TypeOK, Waiting
  <2>6. ASSUME NEW k \in 0 .. Len(waiters),
               held' = held \cup {waiters[i] : i \in 1 .. k},
               g \in {waiters[i] : i \in 1 .. k}
        PROVE  /\ g \in Waiting
               /\ \A i, j \in DOMAIN waiters :
                    i < j /\ waiters[j] = g => waiters[i] \in held'
    BY <2>6 DEF TypeOK, Waiting
  <2> QED
    BY <2>1, <2>2, <2>3, <2>4, <2>5, <2>6 DEF Next, vars
<1>2. TypeOK /\ [Next]_vars => [JoinsBehind]_vars
  <2> SUFFICES ASSUME TypeOK, [Next]_vars,
                      NEW i \in DOMAIN waiters', NEW j \in DOMAIN waiters',
                      i < j, waiters'[j] \in Waiting
               PROVE  waiters'[i] \in Waiting
    BY DEF JoinsBehind
  <2>1. ASSUME NEW h \in Holders, Acquire(h) PROVE waiters'[i] \in Waiting
    <3>1. CASE waiters' = waiters
      BY <3>1 DEF Waiting
    <3>2. CASE waiters' = Append(waiters, h)
      <4>1. h \notin Waiting
        BY <2>1 DEF Acquire
      <4>2. waiters \in Seq(Holders)
        BY SeqOfElements DEF TypeOK
      <4>3. /\ Len(waiters') = Len(waiters) + 1
            /\ waiters'[Len(waiters) + 1] = h
            /\ \A k \in 1 .. Len(waiters) : waiters'[k] = waiters[k]
        BY <3>2, <4>2
      <4>4. i \in 1 .. Len(waiters)
        BY <4>1, <4>2, <4>3
      <4> QED
        BY <4>2, <4>3, <4>4 DEF Waiting
    <3> QED
      BY <2>1, <3>1, <3>2 DEF Acquire
  <2>2. ASSUME NEW h \in Holders, Release(h) PROVE waiters'[i] \in Waiting
    BY <2>2 DEF Release, TypeOK, Waiting
  <2>3. ASSUME NEW n \in Sizes, SetPermits(n) PROVE waiters'[i] \in Waiting
    <3>1. PICK k \in 0 .. Len(waiters) :
            waiters' = SubSeq(waiters, k + 1, Len(waiters))
      BY <2>3, SetPermitsStep
    <3> QED
      BY <3>1 DEF TypeOK, Waiting
  <2>4. CASE UNCHANGED vars
    BY <2>4 DEF vars, Waiting
  <2> QED
    BY <2>1, <2>2, <2>3, <2>4 DEF Next
<1> QED
  BY <1>1, <1>2, TypeCorrect, PermitsUsed, PTL DEF Spec, NoOvertaking

-----------------------------------------------------------------------------
(* The buzz broker.                                                          *)

\* Every step of the broker acquires or releases one permit or leaves the
\* semaphore alone, so all that is proved above holds of the broker's commands.
THEOREM BrokerKeepsTheLimit == BrokerSpec => Spec
<1>1. [BrokerNext]_<<vars, brokerVars>> => [Next]_vars
  <2> SUFFICES ASSUME BrokerNext PROVE [Next]_vars
    BY DEF vars
  <2>1. \A r \in Readings : r \in Holders
    BY BrokerAssumption
  <2>2. \A c \in Commands : <<c, "data">> \in Readings /\ <<c, "end">> \in Readings
    BY DEF Readings
  <2>3. ASSUME NEW r \in Readings, Consume(r) PROVE [Next]_vars
    BY <2>1, <2>3 DEF Consume, HandleRequest, Next
  <2>4. ASSUME NEW r \in Readings, NEW a, Respond(r, a) PROVE [Next]_vars
    BY <2>1, <2>4 DEF Respond, Next
  <2>5. ASSUME NEW c \in Commands, Chunk(c) PROVE [Next]_vars
    BY <2>2, <2>3, <2>5 DEF Chunk
  <2>6. ASSUME NEW c \in Commands, EndSeen(c) PROVE [Next]_vars
    BY <2>2, <2>3, <2>6 DEF EndSeen
  <2>7. ASSUME NEW r \in Readings, ChildEnds(r) \/ ProxyBound(r) PROVE [Next]_vars
    BY <2>4, <2>7 DEF ChildEnds, ProxyBound
  <2> QED
    BY <2>5, <2>6, <2>7
       DEF BrokerNext, Start, PolicyPushed, Close, Connect, Told, ShimKilled, Execute,
           NeedsProxy
<1> QED
  BY <1>1, PTL DEF BrokerSpec, Spec

ReadingStates == {"none", "waiting", "running", "binding", "over"}
Idle(r) == reading[r] \in {"none", "waiting"}
Busy(r) == reading[r] \in {"running", "binding"}
Active(r) == reading[r] \in {"waiting", "running", "binding"}

BrokerTypeOK ==
  /\ command \in Workloads
  /\ shim \in [Commands -> {"unborn", "asking", "told", "gone"}]
  /\ received \in [Commands -> Nat]
  /\ answer \in [Commands -> Answers \cup {None}]
  /\ ended \in [Commands -> BOOLEAN]
  /\ reading \in [Readings -> ReadingStates]
  /\ runs \in [Commands -> Nat]
  /\ policy \in Policies
  /\ pushes \in Nat

\* A line is read when it is complete, and again when the shim has closed.
RequestsOK ==
  \A c \in Commands :
    /\ reading[<<c, "data">>] # "none" => received[c] = command[c].parts
    /\ reading[<<c, "end">>] # "none" => ended[c]
    /\ ended[c] => shim[c] \in {"told", "gone"}
    /\ shim[c] = "unborn" => received[c] = 0 /\ answer[c] = None
    /\ answer[c] = "unreachable" => received[c] = 0 /\ ~ended[c] /\ shim[c] = "told"

\* A reading runs the program once at most.
RunsOK ==
  \A c \in Commands :
    /\ Idle(<<c, "data">>) /\ Idle(<<c, "end">>) => runs[c] = 0
    /\ Idle(<<c, "data">>) \/ Idle(<<c, "end">>) => runs[c] <= 1
    /\ Busy(<<c, "data">>) \/ Busy(<<c, "end">>) => runs[c] >= 1

\* Why a command was never run: what it is, or the only policy there ever was.
Barred(c) ==
  \/ command[c].kind \in {"malformed", "forbidden", "huge"}
  \/ pushes = 0 /\ policy = "off"
  \/ pushes = 0 /\ policy = "deny" /\ command[c].kind = "deniable"

BarredOK ==
  \A c \in Commands : Barred(c) =>
    runs[c] = 0 /\ ~Active(<<c, "data">>) /\ ~Active(<<c, "end">>)

AnswersOK ==
  \A c \in Commands :
    /\ answer[c] = "malformed" => command[c].kind = "malformed"
    /\ answer[c] = "forbidden" => command[c].kind = "forbidden"
    /\ answer[c] = "too_large" => command[c].kind = "huge"
    /\ answer[c] \in {"disabled", "denied"} /\ pushes = 0 => Barred(c)
    /\ answer[c] = "result" => runs[c] >= 1

\* Permits and places in the line belong to readings that are in progress, and
\* every reading in progress has one.
PermitsInUse ==
  /\ held \cup Waiting = {r \in Readings : Active(r)}
  /\ \A r \in Readings : Busy(r) => r \in held

BrokerInv ==
  /\ BrokerTypeOK /\ RequestsOK /\ RunsOK /\ BarredOK /\ AnswersOK /\ PermitsInUse

LEMMA ReadingFacts ==
  /\ \A c \in Commands : <<c, "data">> \in Readings /\ <<c, "end">> \in Readings
  /\ \A r \in Readings :
       /\ r[1] \in Commands
       /\ r = <<r[1], "data">> \/ r = <<r[1], "end">>
BY DEF Readings

LEMMA CommandFacts ==
  ASSUME BrokerTypeOK
  PROVE  \A c \in Commands : command[c].kind \in Kinds /\ command[c].parts \in Nat \ {0}
BY BrokerAssumption DEF BrokerTypeOK

\* Acquire and release move one holder in or out.
LEMMA AcquireMoves ==
  ASSUME TypeOK, NEW h \in Holders, Acquire(h)
  PROVE  held' \cup Waiting' = held \cup Waiting \cup {h} /\ held \subseteq held'
<1>1. CASE available > 0
  BY <1>1 DEF Acquire, Waiting
<1>2. CASE ~(available > 0)
  <2>1. waiters' = Append(waiters, h) /\ held' = held
    BY <1>2 DEF Acquire
  <2>2. waiters \in Seq(Holders)
    BY SeqOfElements DEF TypeOK
  <2>3. /\ DOMAIN waiters = 1 .. Len(waiters) /\ Len(waiters) \in Nat
        /\ DOMAIN waiters' = 1 .. Len(waiters) + 1
        /\ waiters'[Len(waiters) + 1] = h
        /\ \A k \in 1 .. Len(waiters) : waiters'[k] = waiters[k]
    BY <2>1, <2>2
  <2>4. Waiting' = Waiting \cup {h}
    BY <2>3 DEF Waiting
  <2> QED
    BY <2>1, <2>4
<1> QED
  BY <1>1, <1>2

LEMMA ReleaseMoves ==
  ASSUME TypeOK, NEW h \in Holders, Release(h)
  PROVE  held' \cup Waiting' = (held \cup Waiting) \ {h} /\ held \ {h} \subseteq held'
<1>0. h \notin Waiting /\ h \in held
  BY DEF TypeOK, Waiting, Release
<1>1. CASE available >= 0 /\ waiters # <<>>
  <2>1. held' = (held \ {h}) \cup {Head(waiters)} /\ waiters' = Tail(waiters)
    BY <1>1 DEF Release
  <2>2. waiters \in Seq(Holders)
    BY SeqOfElements DEF TypeOK
  <2>3. /\ Len(waiters) \in Nat \ {0} /\ DOMAIN waiters = 1 .. Len(waiters)
        /\ Head(waiters) = waiters[1]
        /\ DOMAIN waiters' = 1 .. (Len(waiters) - 1)
        /\ \A k \in 1 .. (Len(waiters) - 1) : waiters'[k] = waiters[k + 1]
    BY <1>1, <2>1, <2>2
  <2>4. \A k \in 1 .. Len(waiters) : k = 1 \/ (k - 1) \in 1 .. (Len(waiters) - 1)
    BY <2>3
  <2>5. Waiting = Waiting' \cup {Head(waiters)}
    <3>1. Waiting' \subseteq Waiting
      BY <2>3 DEF Waiting
    <3>2. Head(waiters) \in Waiting
      BY <2>3 DEF Waiting
    <3>3. ASSUME NEW k \in 1 .. Len(waiters), k # 1
          PROVE  waiters[k] \in Waiting'
      <4>1. PICK j \in 1 .. (Len(waiters) - 1) : j + 1 = k
        BY <2>3, <2>4, <3>3
      <4>2. waiters'[j] = waiters[k]
        BY <2>3, <4>1
      <4> QED
        BY <2>3, <4>2 DEF Waiting
    <3> QED
      BY <2>3, <3>1, <3>2, <3>3 DEF Waiting
  <2> QED
    BY <1>0, <2>1, <2>5
<1>2. CASE ~(available >= 0 /\ waiters # <<>>)
  BY <1>0, <1>2 DEF Release, Waiting
<1> QED
  BY <1>1, <1>2

\* Why a request is refused, and what is known of one that is not.
LEMMA RefusalFacts ==
  ASSUME NEW c \in Commands
  PROVE  /\ Refusal(c) \in Refusals \cup {None}
         /\ Refusal(c) = "malformed" => command[c].kind = "malformed"
         /\ Refusal(c) = "forbidden" => command[c].kind = "forbidden"
         /\ Refusal(c) = "disabled" => policy = "off"
         /\ Refusal(c) = "denied" => policy = "deny" /\ command[c].kind = "deniable"
         /\ Refusal(c) = None =>
              /\ command[c].kind \notin {"malformed", "forbidden"}
              /\ policy # "off"
              /\ ~(policy = "deny" /\ command[c].kind = "deniable")
<1>0. None \notin {"malformed", "disabled", "forbidden", "denied"}
  BY BrokerAssumption DEF Answers, Refusals
<1>1. CASE command[c].kind = "malformed"
  BY <1>0, <1>1 DEF Refusal, Refusals
<1>2. CASE command[c].kind # "malformed" /\ policy = "off"
  BY <1>0, <1>2 DEF Refusal, Refusals
<1>3. CASE policy # "off" /\ command[c].kind = "forbidden"
  BY <1>0, <1>3 DEF Refusal, Refusals
<1>4. CASE policy = "deny" /\ command[c].kind = "deniable"
  BY <1>0, <1>4 DEF Refusal, Refusals
<1>5. CASE /\ command[c].kind # "malformed" /\ policy # "off"
           /\ command[c].kind # "forbidden"
           /\ ~(policy = "deny" /\ command[c].kind = "deniable")
  BY <1>0, <1>5 DEF Refusal, Refusals
<1> QED
  BY <1>1, <1>2, <1>3, <1>4, <1>5

\* One reading takes one step: it is refused or gets in line, it starts the
\* program, or the program gets further.
LEMMA RunsKept ==
  ASSUME BrokerTypeOK, RunsOK, NEW r \in Readings, NEW v, NEW n,
         reading' = [reading EXCEPT ![r] = v],
         runs' = [runs EXCEPT ![r[1]] = n],
         \/ reading[r] = "none" /\ v \in {"waiting", "over"} /\ n = runs[r[1]]
         \/ reading[r] = "waiting" /\ v = "running" /\ n = runs[r[1]] + 1
         \/ reading[r] \in {"running", "binding"} /\ v \in {"binding", "over"}
              /\ n = runs[r[1]]
  PROVE  RunsOK'
<1>0. /\ reading \in [Readings -> ReadingStates] /\ runs \in [Commands -> Nat]
      /\ reading'[r] = v /\ r[1] \in Commands
      /\ r = <<r[1], "data">> \/ r = <<r[1], "end">>
      /\ \A q \in Readings \ {r} : reading'[q] = reading[q]
  BY ReadingFacts DEF BrokerTypeOK
<1> SUFFICES ASSUME NEW c \in Commands
             PROVE  /\ Idle(<<c, "data">>)' /\ Idle(<<c, "end">>)' => runs'[c] = 0
                    /\ Idle(<<c, "data">>)' \/ Idle(<<c, "end">>)' => runs'[c] <= 1
                    /\ Busy(<<c, "data">>)' \/ Busy(<<c, "end">>)' => runs'[c] >= 1
  BY DEF RunsOK
<1>1. /\ <<c, "data">> \in Readings /\ <<c, "end">> \in Readings
      /\ runs[c] \in Nat
  BY <1>0, ReadingFacts
<1>2. /\ Idle(<<c, "data">>) /\ Idle(<<c, "end">>) => runs[c] = 0
      /\ Idle(<<c, "data">>) \/ Idle(<<c, "end">>) => runs[c] <= 1
      /\ Busy(<<c, "data">>) \/ Busy(<<c, "end">>) => runs[c] >= 1
  BY DEF RunsOK
<1>3. CASE c # r[1]
  BY <1>0, <1>1, <1>2, <1>3 DEF Idle, Busy
<1>4. CASE r = <<c, "data">>
  <2>1. runs'[c] = n /\ reading'[<<c, "end">>] = reading[<<c, "end">>]
    BY <1>0, <1>1, <1>4
  <2> QED
    BY <1>0, <1>1, <1>2, <1>4, <2>1 DEF Idle, Busy
<1>5. CASE r = <<c, "end">>
  <2>1. runs'[c] = n /\ reading'[<<c, "data">>] = reading[<<c, "data">>]
    BY <1>0, <1>1, <1>5
  <2> QED
    BY <1>0, <1>1, <1>2, <1>5, <2>1 DEF Idle, Busy
<1> QED
  BY <1>0, <1>3, <1>4, <1>5

\* The policy and what a command is decide alone who may never run.
LEMMA BarredKept ==
  ASSUME BrokerTypeOK, BarredOK, NEW r \in Readings, NEW v, NEW n,
         reading' = [reading EXCEPT ![r] = v],
         runs' = [runs EXCEPT ![r[1]] = n],
         UNCHANGED <<command, policy, pushes>>,
         \/ v = "over" /\ n = runs[r[1]]
         \/ ~Barred(r[1])
  PROVE  BarredOK'
<1>0. /\ reading \in [Readings -> ReadingStates] /\ runs \in [Commands -> Nat]
      /\ reading'[r] = v /\ r[1] \in Commands
      /\ \A q \in Readings \ {r} : reading'[q] = reading[q]
  BY ReadingFacts DEF BrokerTypeOK
<1> SUFFICES ASSUME NEW c \in Commands, Barred(c)
             PROVE  runs'[c] = 0 /\ ~Active(<<c, "data">>)' /\ ~Active(<<c, "end">>)'
  BY DEF BarredOK, Barred
<1>1. /\ <<c, "data">> \in Readings /\ <<c, "end">> \in Readings
      /\ runs[c] = 0 /\ ~Active(<<c, "data">>) /\ ~Active(<<c, "end">>)
  BY ReadingFacts DEF BarredOK
<1>2. \A q \in Readings : ~Active(q) /\ (q = r => v = "over") => ~Active(q)'
  BY <1>0 DEF Active
<1>3. c = r[1] => v = "over" /\ n = runs[r[1]]
  OBVIOUS
<1>4. runs'[c] = 0
  BY <1>0, <1>1, <1>3
<1> QED
  BY <1>1, <1>2, <1>3, <1>4

\* A complete line is refused or waits for a permit; otherwise nothing happens.
LEMMA ConsumeStep ==
  ASSUME TypeOK, BrokerInv, NEW r \in Readings, reading[r] = "none",
         answer[r[1]] # "unreachable",
         Consume(r), UNCHANGED <<command, runs, policy, pushes>>
  PROVE  /\ reading' \in [Readings -> ReadingStates]
         /\ answer' \in [Commands -> Answers \cup {None}]
         /\ RunsOK' /\ BarredOK' /\ AnswersOK' /\ PermitsInUse'
         /\ \A q \in Readings \ {r} : reading'[q] = reading[q]
         /\ reading'[r] = "none" \/ received'[r[1]] = command[r[1]].parts
         /\ \A c \in Commands : answer'[c] # answer[c] =>
              c = r[1] /\ answer[c] = None /\ answer'[c] \in Refusals
<1>0. /\ r[1] \in Commands /\ r \in Holders
      /\ reading \in [Readings -> ReadingStates] /\ runs \in [Commands -> Nat]
      /\ answer \in [Commands -> Answers \cup {None}]
      /\ BrokerTypeOK /\ RequestsOK /\ RunsOK /\ BarredOK /\ AnswersOK /\ PermitsInUse
      /\ runs' = [runs EXCEPT ![r[1]] = runs[r[1]]]
  BY ReadingFacts, BrokerAssumption DEF BrokerInv, BrokerTypeOK
<1>1. CASE UNCHANGED <<vars, answer, reading>>
  <2>1. RunsOK' /\ BarredOK' /\ AnswersOK'
    BY <1>0, <1>1
       DEF RunsOK, BarredOK, AnswersOK, Idle, Busy, Active, Barred
  <2>2. PermitsInUse'
    BY <1>0, <1>1 DEF PermitsInUse, Active, Busy, Waiting, vars
  <2> QED
    BY <1>0, <1>1, <2>1, <2>2
<1>2. CASE LineComplete(r[1]) /\ Refusal(r[1]) # None /\ HandleRequest(r)
  <2>1. PICK a \in Refusals : a = Refusal(r[1])
    BY <1>0, <1>2, RefusalFacts
  <2>2. /\ answer' = Finished(r[1], a)
        /\ reading' = [reading EXCEPT ![r] = "over"]
        /\ UNCHANGED vars
    BY <1>2, <2>1 DEF HandleRequest
  <2>3. received'[r[1]] = command[r[1]].parts
    BY <1>2 DEF LineComplete
  <2>4. a \in Answers
    BY DEF Answers
  <2>5. /\ answer' \in [Commands -> Answers \cup {None}]
        /\ \A c \in Commands : answer'[c] = answer[c] \/
             (c = r[1] /\ answer[c] = None /\ answer'[c] = a)
    BY <1>0, <2>2, <2>4 DEF Finished
  <2>6. /\ reading' \in [Readings -> ReadingStates] /\ reading'[r] = "over"
        /\ \A q \in Readings \ {r} : reading'[q] = reading[q]
    BY <1>0, <2>2 DEF ReadingStates
  <2>7. RunsOK'
    BY <1>0, <2>2, RunsKept
  <2>8. BarredOK'
    BY <1>0, <2>2, BarredKept
  <2>9. /\ a = "malformed" => command[r[1]].kind = "malformed"
        /\ a = "forbidden" => command[r[1]].kind = "forbidden"
        /\ a \in {"disabled", "denied"} /\ pushes = 0 => Barred(r[1])
    BY <1>0, <2>1, RefusalFacts DEF Barred
  <2>10. AnswersOK'
    <3>1. a \notin {"too_large", "result"}
      BY DEF Refusals
    <3> SUFFICES ASSUME NEW c \in Commands
                 PROVE  /\ answer'[c] = "malformed" => command[c].kind = "malformed"
                        /\ answer'[c] = "forbidden" => command[c].kind = "forbidden"
                        /\ answer'[c] = "too_large" => command[c].kind = "huge"
                        /\ answer'[c] \in {"disabled", "denied"} /\ pushes = 0 => Barred(c)
                        /\ answer'[c] = "result" => runs[c] >= 1
      BY DEF AnswersOK, Barred
    <3>2. CASE answer'[c] = answer[c]
      BY <1>0, <3>2 DEF AnswersOK
    <3>3. CASE c = r[1] /\ answer'[c] = a
      BY <2>9, <3>1, <3>3
    <3> QED
      BY <2>5, <3>2, <3>3
  <2>11. PermitsInUse'
    <3>1. \A q \in Readings : /\ Active(q)' <=> Active(q)
                              /\ Busy(q)' => Busy(q)
      BY <1>0, <2>2, <2>6 DEF Active, Busy
    <3> QED
      BY <1>0, <2>2, <3>1 DEF PermitsInUse, vars, Waiting
  <2> QED
    BY <2>3, <2>5, <2>6, <2>7, <2>8, <2>10, <2>11
<1>3. CASE LineComplete(r[1]) /\ Refusal(r[1]) = None /\ HandleRequest(r)
  <2>1. /\ reading' = [reading EXCEPT ![r] = "waiting"]
        /\ Acquire(r) /\ answer' = answer
    BY <1>3 DEF HandleRequest
  <2>2. received'[r[1]] = command[r[1]].parts /\ command[r[1]].kind # "huge"
    BY <1>3 DEF LineComplete
  <2>3. /\ reading' \in [Readings -> ReadingStates] /\ reading'[r] = "waiting"
        /\ \A q \in Readings \ {r} : reading'[q] = reading[q]
    BY <1>0, <2>1 DEF ReadingStates
  <2>4. ~Barred(r[1])
    BY <1>0, <1>3, <2>2, RefusalFacts DEF Barred
  <2>5. RunsOK'
    BY <1>0, <2>1, RunsKept
  <2>6. BarredOK'
    BY <1>0, <2>1, <2>4, BarredKept
  <2>7. AnswersOK'
    BY <1>0, <2>1 DEF AnswersOK, Barred
  <2>8. PermitsInUse'
    <3>1. held' \cup Waiting' = held \cup Waiting \cup {r} /\ held \subseteq held'
      BY <1>0, <2>1, AcquireMoves
    <3>2. \A q \in Readings : /\ Active(q)' <=> (Active(q) \/ q = r)
                              /\ Busy(q)' => Busy(q)
      BY <1>0, <2>1, <2>3 DEF Active, Busy
    <3> QED
      BY <1>0, <3>1, <3>2 DEF PermitsInUse
  <2> QED
    BY <1>0, <2>1, <2>2, <2>3, <2>5, <2>6, <2>7, <2>8
<1> QED
  BY <1>1, <1>2, <1>3 DEF Consume

\* The program is over: its reading answers and gives its permit back.
LEMMA RespondStep ==
  ASSUME TypeOK, BrokerInv, NEW r \in Readings, Busy(r),
         NEW a \in {"result", "failed"}, Respond(r, a),
         UNCHANGED <<command, shim, received, ended, runs, policy, pushes>>
  PROVE  BrokerInv'
<1>0. /\ r[1] \in Commands /\ r \in Holders
      /\ reading \in [Readings -> ReadingStates] /\ runs \in [Commands -> Nat]
      /\ answer \in [Commands -> Answers \cup {None}] /\ a \in Answers
      /\ BrokerTypeOK /\ RequestsOK /\ RunsOK /\ BarredOK /\ AnswersOK /\ PermitsInUse
      /\ runs' = [runs EXCEPT ![r[1]] = runs[r[1]]]
  BY ReadingFacts, BrokerAssumption DEF BrokerInv, BrokerTypeOK, Answers
<1>1. /\ answer' = Finished(r[1], a)
      /\ reading' = [reading EXCEPT ![r] = "over"]
      /\ Release(r)
  BY DEF Respond
<1>2. /\ answer' \in [Commands -> Answers \cup {None}]
      /\ \A c \in Commands : answer'[c] = answer[c] \/ (c = r[1] /\ answer'[c] = a)
      /\ \A c \in Commands : answer'[c] # answer[c] => answer[c] = None
  BY <1>0, <1>1 DEF Finished
<1>3. /\ reading' \in [Readings -> ReadingStates] /\ reading'[r] = "over"
      /\ \A q \in Readings \ {r} : reading'[q] = reading[q]
  BY <1>0, <1>1 DEF ReadingStates
<1>4. RunsOK'
  BY <1>0, <1>1, RunsKept DEF Busy
<1>5. BarredOK'
  BY <1>0, <1>1, BarredKept
<1>6. AnswersOK'
  <2>1. runs[r[1]] >= 1
    BY <1>0, ReadingFacts DEF RunsOK
  <2> QED
    BY <1>0, <1>2, <2>1 DEF AnswersOK, Barred
<1>7. PermitsInUse'
  <2>1. held' \cup Waiting' = (held \cup Waiting) \ {r} /\ held \ {r} \subseteq held'
    BY <1>0, <1>1, ReleaseMoves
  <2>2. \A q \in Readings : /\ Active(q)' <=> (Active(q) /\ q # r)
                            /\ Busy(q)' => (Busy(q) /\ q # r)
    BY <1>0, <1>1, <1>3 DEF Active, Busy
  <2> QED
    BY <1>0, <2>1, <2>2 DEF PermitsInUse
<1>8. RequestsOK'
  <2> SUFFICES ASSUME NEW c \in Commands
               PROVE  /\ reading'[<<c, "data">>] # "none" => received[c] = command[c].parts
                      /\ reading'[<<c, "end">>] # "none" => ended[c]
                      /\ ended[c] => shim[c] \in {"told", "gone"}
                      /\ shim[c] = "unborn" => received[c] = 0 /\ answer'[c] = None
                      /\ answer'[c] = "unreachable" =>
                           received[c] = 0 /\ ~ended[c] /\ shim[c] = "told"
    BY DEF RequestsOK
  <2>1. /\ <<c, "data">> \in Readings /\ <<c, "end">> \in Readings
        /\ reading[<<c, "data">>] # "none" => received[c] = command[c].parts
        /\ reading[<<c, "end">>] # "none" => ended[c]
        /\ ended[c] => shim[c] \in {"told", "gone"}
        /\ shim[c] = "unborn" => received[c] = 0 /\ answer[c] = None
        /\ answer[c] = "unreachable" => received[c] = 0 /\ ~ended[c] /\ shim[c] = "told"
    BY <1>0, ReadingFacts DEF RequestsOK
  <2>2. \A q \in Readings : reading'[q] # "none" => reading[q] # "none"
    BY <1>3 DEF Busy
  <2>3. shim[c] = "unborn" => c # r[1]
    <3>1. shim[c] = "unborn" => received[c] # command[c].parts /\ ~ended[c]
      BY <1>0, <2>1, CommandFacts
    <3> QED
      BY <2>1, <3>1, ReadingFacts DEF Busy
  <2> QED
    BY <1>2, <2>1, <2>2, <2>3
<1>9. BrokerTypeOK'
  BY <1>0, <1>2, <1>3 DEF BrokerTypeOK
<1> QED
  BY <1>4, <1>5, <1>6, <1>7, <1>8, <1>9 DEF BrokerInv

\* Steps that leave readings, runs, permits and the policy alone.
LEMMA QuietStep ==
  ASSUME BrokerInv,
         UNCHANGED <<vars, command, reading, runs, policy, pushes>>
  PROVE  /\ RunsOK' /\ BarredOK' /\ PermitsInUse'
         /\ answer' = answer => AnswersOK'
<1>1. RunsOK' /\ BarredOK'
  BY DEF BrokerInv, RunsOK, BarredOK, Idle, Busy, Active, Barred
<1>2. PermitsInUse'
  BY DEF BrokerInv, PermitsInUse, Active, Busy, Waiting, vars
<1>3. answer' = answer => AnswersOK'
  BY DEF BrokerInv, AnswersOK, Barred
<1> QED
  BY <1>1, <1>2, <1>3

LEMMA BrokerStart == Init /\ BrokerInit => BrokerInv
<1> SUFFICES ASSUME Init, BrokerInit PROVE BrokerInv
  OBVIOUS
<1>1. BrokerTypeOK
  BY DEF BrokerInit, BrokerTypeOK, ReadingStates
<1>2. \A c \in Commands :
        /\ reading[<<c, "data">>] = "none" /\ reading[<<c, "end">>] = "none"
        /\ runs[c] = 0 /\ answer[c] = None /\ received[c] = 0 /\ ~ended[c]
        /\ shim[c] = "unborn"
  BY ReadingFacts DEF BrokerInit
<1>3. None \notin {"malformed", "forbidden", "too_large", "disabled", "denied",
                   "result", "unreachable"}
  BY BrokerAssumption DEF Answers, Refusals
<1>4. RequestsOK /\ RunsOK /\ BarredOK /\ AnswersOK
  <2>1. RequestsOK
    BY <1>2, <1>3 DEF RequestsOK
  <2>2. RunsOK
    <3>1. \A c \in Commands :
            /\ ~Busy(<<c, "data">>) /\ ~Busy(<<c, "end">>)
            /\ runs[c] = 0
      BY <1>2 DEF Busy
    <3>2. \A n : n = 0 => n <= 1
      OBVIOUS
    <3> QED
      BY <3>1, <3>2 DEF RunsOK
  <2>3. BarredOK
    BY <1>2 DEF BarredOK, Active
  <2>4. AnswersOK
    BY <1>2, <1>3 DEF AnswersOK
  <2> QED
    BY <2>1, <2>2, <2>3, <2>4
<1>5. PermitsInUse
  BY DEF Init, BrokerInit, PermitsInUse, Active, Busy, Waiting
<1> QED
  BY <1>1, <1>4, <1>5 DEF BrokerInv

LEMMA BrokerInvariant == BrokerSpec => []BrokerInv
<1>1. TypeOK /\ BrokerInv /\ [BrokerNext]_<<vars, brokerVars>> => BrokerInv'
  <2> SUFFICES ASSUME TypeOK, BrokerInv, [BrokerNext]_<<vars, brokerVars>>
               PROVE  BrokerInv'
    OBVIOUS
  <2>0. /\ BrokerTypeOK /\ RequestsOK /\ RunsOK /\ BarredOK /\ AnswersOK /\ PermitsInUse
        /\ shim \in [Commands -> {"unborn", "asking", "told", "gone"}]
        /\ received \in [Commands -> Nat] /\ ended \in [Commands -> BOOLEAN]
        /\ answer \in [Commands -> Answers \cup {None}]
    BY DEF BrokerInv, BrokerTypeOK
  <2>1. ASSUME UNCHANGED <<vars, command, shim, received, answer, ended, reading, runs,
                           policy, pushes>>
        PROVE  BrokerInv'
    BY <2>0, <2>1, QuietStep DEF BrokerInv, BrokerTypeOK, RequestsOK
  <2>2. CASE PolicyPushed
    <3>1. /\ UNCHANGED <<vars, command, shim, received, answer, ended, reading, runs>>
          /\ pushes' = pushes + 1 /\ policy' \in Policies /\ pushes \in Nat
      BY <2>0, <2>2 DEF PolicyPushed, BrokerTypeOK
    <3>2. pushes' # 0 /\ pushes' \in Nat
      BY <3>1
    <3>3. RunsOK' /\ PermitsInUse'
      BY <2>0, <3>1 DEF RunsOK, PermitsInUse, Idle, Busy, Active, Waiting, vars
    <3>4. BarredOK' /\ AnswersOK'
      BY <2>0, <3>1, <3>2 DEF BarredOK, AnswersOK, Active, Barred
    <3>5. BrokerTypeOK' /\ RequestsOK'
      BY <2>0, <3>1, <3>2 DEF BrokerTypeOK, RequestsOK
    <3> QED
      BY <3>3, <3>4, <3>5 DEF BrokerInv
  <2>3. ASSUME NEW c \in Commands, Connect(c) PROVE BrokerInv'
    <3>1. /\ shim[c] = "unborn" /\ received[c] = 0 /\ answer[c] = None /\ ~ended[c]
          /\ UNCHANGED <<vars, command, received, ended, reading, runs, policy, pushes>>
          /\ runs[c] = 0
      <4>1. shim[c] = "unborn" /\ received[c] = 0 /\ answer[c] = None /\ ~ended[c]
        BY <2>0, <2>3 DEF Connect, RequestsOK
      <4>2. reading[<<c, "data">>] = "none" /\ reading[<<c, "end">>] = "none"
        BY <2>0, <4>1, CommandFacts DEF RequestsOK
      <4>3. runs[c] = 0
        BY <2>0, <4>2 DEF RunsOK, Idle
      <4> QED
        BY <2>3, <4>1, <4>3 DEF Connect
    <3>2. None \notin {"malformed", "forbidden", "too_large", "disabled", "denied",
                       "result", "unreachable"}
      BY BrokerAssumption DEF Answers, Refusals
    <3>3. PICK s \in {"asking", "told"}, a \in {None, "unreachable"} :
            /\ shim' = [shim EXCEPT ![c] = s]
            /\ answer' = [answer EXCEPT ![c] = a]
            /\ a = "unreachable" => s = "told"
      <4>1. CASE listening = "yes"
        <5>1. answer' = [answer EXCEPT ![c] = None]
          BY <2>0, <2>3, <3>1, <4>1 DEF Connect
        <5> QED
          BY <2>3, <3>2, <4>1, <5>1 DEF Connect
      <4>2. CASE listening # "yes"
        BY <2>3, <4>2 DEF Connect
      <4> QED
        BY <4>1, <4>2
    <3>4. /\ shim'[c] = s /\ answer'[c] = a
          /\ \A d \in Commands \ {c} : shim'[d] = shim[d] /\ answer'[d] = answer[d]
      BY <2>0, <3>3
    <3>5. AnswersOK'
      BY <2>0, <3>1, <3>2, <3>4 DEF AnswersOK, Barred
    <3>6. RequestsOK'
      BY <2>0, <3>1, <3>2, <3>3, <3>4 DEF RequestsOK
    <3>7. BrokerTypeOK'
      BY <2>0, <3>1, <3>3 DEF BrokerTypeOK, Answers
    <3> QED
      BY <3>1, <3>5, <3>6, <3>7, QuietStep DEF BrokerInv
  <2>4. ASSUME NEW c \in Commands, Chunk(c) PROVE BrokerInv'
    <3>1. /\ shim[c] = "asking" /\ answer[c] = None
          /\ received' = [received EXCEPT ![c] = @ + 1]
          /\ received[c] < command[c].parts
          /\ UNCHANGED <<command, shim, ended, runs, policy, pushes>>
      BY <2>4 DEF Chunk
    <3>2. received[c] \in Nat /\ received' \in [Commands -> Nat]
          /\ received'[c] = received[c] + 1
          /\ \A d \in Commands \ {c} : received'[d] = received[d]
      BY <2>0, <3>1
    <3>3. /\ command[c].parts \in Nat /\ command[c].kind \in Kinds
          /\ <<c, "data">> \in Readings /\ <<c, "end">> \in Readings
      BY <2>0, CommandFacts, ReadingFacts
    <3>4. /\ reading[<<c, "data">>] = "none"
          /\ None \notin {"unreachable", "malformed"}
      BY <2>0, <3>1, <3>2, <3>3, BrokerAssumption DEF RequestsOK, Answers, Refusals
    <3>5. ASSUME /\ reading' \in [Readings -> ReadingStates]
                 /\ answer' \in [Commands -> Answers \cup {None}]
                 /\ \A q \in Readings \ {<<c, "data">>} : reading'[q] = reading[q]
                 /\ reading'[<<c, "data">>] = "none" \/ received'[c] = command[c].parts
                 /\ \A d \in Commands : answer'[d] # answer[d] =>
                      d = c /\ answer[d] = None /\ answer'[d] # "unreachable"
          PROVE  BrokerTypeOK' /\ RequestsOK'
      <4>1. BrokerTypeOK'
        BY <2>0, <3>1, <3>2, <3>5 DEF BrokerTypeOK
      <4>2. RequestsOK'
        <5> SUFFICES ASSUME NEW d \in Commands
              PROVE  /\ reading'[<<d, "data">>] # "none" =>
                          received'[d] = command[d].parts
                     /\ reading'[<<d, "end">>] # "none" => ended[d]
                     /\ ended[d] => shim[d] \in {"told", "gone"}
                     /\ shim[d] = "unborn" => received'[d] = 0 /\ answer'[d] = None
                     /\ answer'[d] = "unreachable" =>
                          received'[d] = 0 /\ ~ended[d] /\ shim[d] = "told"
          BY <3>1 DEF RequestsOK
        <5>1. /\ reading[<<d, "data">>] # "none" => received[d] = command[d].parts
              /\ reading[<<d, "end">>] # "none" => ended[d]
              /\ ended[d] => shim[d] \in {"told", "gone"}
              /\ shim[d] = "unborn" => received[d] = 0 /\ answer[d] = None
              /\ answer[d] = "unreachable" =>
                   received[d] = 0 /\ ~ended[d] /\ shim[d] = "told"
          BY <2>0 DEF RequestsOK
        <5>2. /\ <<d, "data">> \in Readings /\ <<d, "end">> \in Readings
              /\ <<d, "end">> # <<c, "data">>
              /\ d # c => <<d, "data">> # <<c, "data">>
          BY ReadingFacts
        <5>3. CASE d = c
          BY <3>1, <3>2, <3>4, <3>5, <5>1, <5>2, <5>3
        <5>4. CASE d # c
          BY <3>2, <3>5, <5>1, <5>2, <5>4
        <5> QED
          BY <5>3, <5>4
      <4> QED
        BY <4>1, <4>2
    <3>6. CASE command[c].kind = "huge" /\ received'[c] = command[c].parts
      <4>1. answer' = Finished(c, "too_large") /\ UNCHANGED <<vars, reading>>
        BY <2>4, <3>6 DEF Chunk
      <4>2. /\ answer'[c] = "too_large"
            /\ \A d \in Commands \ {c} : answer'[d] = answer[d]
            /\ answer' \in [Commands -> Answers \cup {None}]
        BY <2>0, <3>1, <4>1 DEF Finished, Answers
      <4>3. AnswersOK'
        BY <2>0, <3>1, <3>6, <4>2 DEF AnswersOK, Barred
      <4>4. RunsOK' /\ BarredOK' /\ PermitsInUse'
        BY <3>1, <4>1, QuietStep
      <4>5. BrokerTypeOK' /\ RequestsOK'
        BY <2>0, <3>1, <3>4, <3>5, <3>6, <4>1, <4>2 DEF BrokerTypeOK
      <4> QED
        BY <4>3, <4>4, <4>5 DEF BrokerInv
    <3>7. CASE Consume(<<c, "data">>)
      <4>1. PICK r \in Readings : r = <<c, "data">>
        BY <3>3
      <4>2. r[1] = c /\ reading[r] = "none" /\ answer[r[1]] # "unreachable" /\ Consume(r)
        BY <3>1, <3>4, <3>7, <4>1
      <4>3. /\ reading' \in [Readings -> ReadingStates]
            /\ answer' \in [Commands -> Answers \cup {None}]
            /\ RunsOK' /\ BarredOK' /\ AnswersOK' /\ PermitsInUse'
            /\ \A q \in Readings \ {r} : reading'[q] = reading[q]
            /\ reading'[r] = "none" \/ received'[r[1]] = command[r[1]].parts
            /\ \A d \in Commands : answer'[d] # answer[d] =>
                 d = r[1] /\ answer[d] = None /\ answer'[d] \in Refusals
        BY <3>1, <4>2, ConsumeStep
      <4>4. BrokerTypeOK' /\ RequestsOK'
        BY <3>5, <4>1, <4>2, <4>3 DEF Refusals
      <4> QED
        BY <4>3, <4>4 DEF BrokerInv
    <3> QED
      BY <2>4, <3>6, <3>7 DEF Chunk
  <2>5. ASSUME NEW c \in Commands, EndSeen(c) PROVE BrokerInv'
    <3>1. /\ shim[c] \in {"told", "gone"} /\ ~ended[c] /\ answer[c] # "unreachable"
          /\ ended' = [ended EXCEPT ![c] = TRUE]
          /\ Consume(<<c, "end">>)
          /\ UNCHANGED <<command, shim, received, runs, policy, pushes>>
      BY <2>5 DEF EndSeen
    <3>2. /\ <<c, "end">> \in Readings /\ reading[<<c, "end">>] = "none"
          /\ ended'[c] = TRUE /\ ended' \in [Commands -> BOOLEAN]
          /\ \A d \in Commands \ {c} : ended'[d] = ended[d]
      BY <2>0, <3>1, ReadingFacts DEF RequestsOK
    <3>3. PICK r \in Readings : r = <<c, "end">>
      BY <3>2
    <3>4. /\ reading' \in [Readings -> ReadingStates]
          /\ answer' \in [Commands -> Answers \cup {None}]
          /\ RunsOK' /\ BarredOK' /\ AnswersOK' /\ PermitsInUse'
          /\ \A q \in Readings \ {r} : reading'[q] = reading[q]
          /\ \A d \in Commands : answer'[d] # answer[d] =>
               d = r[1] /\ answer[d] = None /\ answer'[d] \in Refusals
      <4>1. r[1] = c /\ reading[r] = "none" /\ answer[r[1]] # "unreachable" /\ Consume(r)
        BY <3>1, <3>2, <3>3
      <4> QED
        BY <3>1, <4>1, ConsumeStep
    <3>5. BrokerTypeOK'
      BY <2>0, <3>1, <3>2, <3>4 DEF BrokerTypeOK
    <3>6. RequestsOK'
      <4> SUFFICES ASSUME NEW d \in Commands
            PROVE  /\ reading'[<<d, "data">>] # "none" => received[d] = command[d].parts
                   /\ reading'[<<d, "end">>] # "none" => ended'[d]
                   /\ ended'[d] => shim[d] \in {"told", "gone"}
                   /\ shim[d] = "unborn" => received[d] = 0 /\ answer'[d] = None
                   /\ answer'[d] = "unreachable" =>
                        received[d] = 0 /\ ~ended'[d] /\ shim[d] = "told"
        BY <3>1 DEF RequestsOK
      <4>1. /\ reading[<<d, "data">>] # "none" => received[d] = command[d].parts
            /\ reading[<<d, "end">>] # "none" => ended[d]
            /\ ended[d] => shim[d] \in {"told", "gone"}
            /\ shim[d] = "unborn" => received[d] = 0 /\ answer[d] = None
            /\ answer[d] = "unreachable" =>
                 received[d] = 0 /\ ~ended[d] /\ shim[d] = "told"
        BY <2>0 DEF RequestsOK
      <4>2. /\ <<d, "data">> \in Readings \ {r} /\ <<d, "end">> \in Readings
            /\ d # c => <<d, "end">> # r
        BY <3>3, ReadingFacts
      <4>3. "unreachable" \notin Refusals /\ r[1] = c
        BY <3>3 DEF Refusals
      <4>4. CASE d = c
        BY <3>1, <3>2, <3>4, <4>1, <4>2, <4>3, <4>4
      <4>5. CASE d # c
        BY <3>2, <3>4, <4>1, <4>2, <4>3, <4>5
      <4> QED
        BY <4>4, <4>5
    <3> QED
      BY <3>4, <3>5, <3>6 DEF BrokerInv
  <2>6. ASSUME NEW c \in Commands, NEW s \in {"told", "gone"},
               shim[c] = "asking", shim' = [shim EXCEPT ![c] = s],
               UNCHANGED <<vars, command, received, answer, ended, reading, runs,
                           policy, pushes>>
        PROVE  BrokerInv'
    <3>1. shim'[c] = s /\ \A d \in Commands \ {c} : shim'[d] = shim[d]
      BY <2>0, <2>6
    <3>2. BrokerTypeOK'
      BY <2>0, <2>6 DEF BrokerTypeOK
    <3>3. RequestsOK'
      BY <2>0, <2>6, <3>1 DEF RequestsOK
    <3> QED
      BY <2>6, <3>2, <3>3, QuietStep DEF BrokerInv
  <2>7. ASSUME NEW r \in Readings, Execute(r) PROVE BrokerInv'
    <3>1. /\ reading[r] = "waiting" /\ r \in held
          /\ reading' = [reading EXCEPT ![r] = "running"]
          /\ runs' = [runs EXCEPT ![r[1]] = @ + 1]
          /\ UNCHANGED <<vars, command, shim, received, answer, ended, policy, pushes>>
          /\ r[1] \in Commands
      BY <2>7, ReadingFacts DEF Execute
    <3>2. /\ reading' \in [Readings -> ReadingStates] /\ reading'[r] = "running"
          /\ \A q \in Readings \ {r} : reading'[q] = reading[q]
          /\ runs \in [Commands -> Nat] /\ runs' \in [Commands -> Nat]
          /\ \A c \in Commands : runs'[c] >= runs[c]
      BY <2>0, <3>1 DEF BrokerTypeOK, ReadingStates
    <3>3. runs' = [runs EXCEPT ![r[1]] = runs[r[1]] + 1]
      BY <3>1
    <3>4. RunsOK'
      BY <2>0, <3>1, <3>3, RunsKept
    <3>5. BarredOK'
      <4>1. ~Barred(r[1])
        BY <2>0, <3>1, ReadingFacts DEF BarredOK, Active
      <4> QED
        BY <2>0, <3>1, <3>3, <4>1, BarredKept
    <3>6. AnswersOK'
      BY <2>0, <3>1, <3>2 DEF AnswersOK, Barred
    <3>7. PermitsInUse'
      <4>1. \A q \in Readings : /\ Active(q)' <=> Active(q)
                                /\ Busy(q)' => Busy(q) \/ q = r
        BY <2>0, <3>1, <3>2 DEF Active, Busy
      <4> QED
        BY <2>0, <3>1, <4>1 DEF PermitsInUse, vars, Waiting
    <3>8. RequestsOK'
      BY <2>0, <3>1, <3>2, ReadingFacts DEF RequestsOK
    <3>9. BrokerTypeOK'
      BY <2>0, <3>1, <3>2 DEF BrokerTypeOK
    <3> QED
      BY <3>4, <3>5, <3>6, <3>7, <3>8, <3>9 DEF BrokerInv
  <2>8. ASSUME NEW r \in Readings, NeedsProxy(r) PROVE BrokerInv'
    <3>1. /\ reading[r] = "running"
          /\ reading' = [reading EXCEPT ![r] = "binding"]
          /\ UNCHANGED <<vars, command, shim, received, answer, ended, runs, policy, pushes>>
          /\ r[1] \in Commands
      BY <2>8, ReadingFacts DEF NeedsProxy
    <3>2. /\ reading' \in [Readings -> ReadingStates] /\ reading'[r] = "binding"
          /\ \A q \in Readings \ {r} : reading'[q] = reading[q]
          /\ runs' = [runs EXCEPT ![r[1]] = runs[r[1]]]
      BY <2>0, <3>1 DEF BrokerTypeOK, ReadingStates
    <3>3. RunsOK'
      BY <2>0, <3>1, <3>2, RunsKept
    <3>4. BarredOK'
      <4>1. ~Barred(r[1])
        BY <2>0, <3>1, ReadingFacts DEF BarredOK, Active
      <4> QED
        BY <2>0, <3>1, <3>2, <4>1, BarredKept
    <3>5. AnswersOK'
      BY <2>0, <3>1 DEF AnswersOK, Barred
    <3>6. PermitsInUse'
      <4>1. \A q \in Readings : /\ Active(q)' <=> Active(q)
                                /\ Busy(q)' => Busy(q)
        BY <2>0, <3>1, <3>2 DEF Active, Busy
      <4> QED
        BY <2>0, <3>1, <4>1 DEF PermitsInUse, vars, Waiting
    <3>7. RequestsOK'
      BY <2>0, <3>1, <3>2, ReadingFacts DEF RequestsOK
    <3>8. BrokerTypeOK'
      BY <2>0, <3>1, <3>2 DEF BrokerTypeOK
    <3> QED
      BY <3>3, <3>4, <3>5, <3>6, <3>7, <3>8 DEF BrokerInv
  <2>9. ASSUME NEW r \in Readings, ChildEnds(r) \/ ProxyBound(r) PROVE BrokerInv'
    <3>1. /\ Busy(r)
          /\ UNCHANGED <<command, shim, received, ended, runs, policy, pushes>>
          /\ Respond(r, "result") \/ Respond(r, "failed")
      BY <2>9 DEF ChildEnds, ProxyBound, Busy
    <3> QED
      BY <3>1, RespondStep
  <2>10. CASE UNCHANGED <<vars, brokerVars>>
    BY <2>1, <2>10 DEF brokerVars
  <2>11. CASE Start \/ Close
    BY <2>1, <2>11 DEF Start, Close
  <2>12. ASSUME NEW c \in Commands, Told(c) \/ ShimKilled(c) PROVE BrokerInv'
    BY <2>6, <2>12 DEF Told, ShimKilled
  <2> QED
    BY <2>2, <2>3, <2>4, <2>5, <2>7, <2>8, <2>9, <2>10, <2>11, <2>12 DEF BrokerNext
<1> QED
  BY <1>1, BrokerStart, BrokerKeepsTheLimit, TypeCorrect, PTL DEF BrokerSpec

\* What the model reads is what happened, and nothing the shim still waits for
\* was started twice.
THEOREM AnswersTrue == BrokerSpec => []AnswersMatchRuns
<1>1. BrokerInv => AnswersMatchRuns
  <2> SUFFICES ASSUME BrokerInv, NEW c \in Commands
               PROVE  /\ shim[c] = "asking" => runs[c] <= 1
                      /\ answer[c] = "result" => runs[c] >= 1
                      /\ answer[c] \in {"malformed", "forbidden", "too_large", "unreachable"}
                           => runs[c] = 0
                      /\ answer[c] = "malformed" => command[c].kind = "malformed"
                      /\ answer[c] \in {"disabled", "denied"} /\ pushes = 0 => runs[c] = 0
    BY DEF AnswersMatchRuns
  <2>1. shim[c] = "asking" => runs[c] <= 1
    BY DEF BrokerInv, RequestsOK, RunsOK, Idle
  <2>2. answer[c] \in {"malformed", "forbidden", "too_large"} => Barred(c)
    BY DEF BrokerInv, AnswersOK, Barred
  <2>3. answer[c] = "unreachable" => runs[c] = 0
    <3> SUFFICES ASSUME answer[c] = "unreachable" PROVE runs[c] = 0
      OBVIOUS
    <3>1. received[c] = 0 /\ ~ended[c] /\ command[c].parts # 0
      BY CommandFacts DEF BrokerInv, RequestsOK
    <3>2. reading[<<c, "data">>] = "none" /\ reading[<<c, "end">>] = "none"
      BY <3>1 DEF BrokerInv, RequestsOK
    <3> QED
      BY <3>2 DEF BrokerInv, RunsOK, Idle
  <2>4. Barred(c) => runs[c] = 0
    BY DEF BrokerInv, BarredOK
  <2> QED
    BY <2>1, <2>2, <2>3, <2>4 DEF BrokerInv, AnswersOK
<1> QED
  BY <1>1, BrokerInvariant, PTL

\* No command of a shell leaks a permit or a place in the line: they belong to
\* readings in progress, whatever became of their shims and programs.
THEOREM PermitsFollowCommands == BrokerSpec => []PermitsInUse
BY BrokerInvariant, PTL DEF BrokerInv
=============================================================================
