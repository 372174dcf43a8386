---------------------------- MODULE DeployProofs ----------------------------
(* What the backends guarantee for any number of Starts, jobs and commands: one      *)
(* process of an agent and its environment on a machine (LocalBackend), the registry,   *)
(* the accounts, the records and the Secrets of a cluster (Cluster), and the identity    *)
(* an agent acts with (Provisioning).                                                      *)
EXTENDS LocalBackend, Cluster, Provisioning, FiniteSetTheorems, TLAPS

\* None is no record: it has none of the fields of a claim, a profile, a core or a pod.
NoneHasNoField == \A field \in {"ours", "agent", "model", "gen"} : field \notin DOMAIN None

\* Whatever has one of these fields is there.
LEMMA NoFieldOfNone ==
  ASSUME NoneHasNoField, NEW v,
         \E field \in {"ours", "agent", "model", "gen"} : field \in DOMAIN v
  PROVE  v # None
BY DEF NoneHasNoField

-----------------------------------------------------------------------------
(* One process of an agent on a machine *)

\* The variables keep their shape.
RunFields == {"pc", "seen", "attempted", "late", "sealed"}

LocalShape ==
  /\ DOMAIN run = Runs /\ \A r \in Runs : DOMAIN run[r] = RunFields
  /\ DOMAIN process = Attempts /\ DOMAIN environment = Attempts
  /\ lostSight \in BOOLEAN

\* A record with a pid is of a process that was started.
Witnessed(record) ==
  record # None =>
    /\ record.gen \in Attempts
    /\ record.pid => process[record.gen] # "none"

\* A run starts one process at most, and only after it has claimed the name.
OneAttempt ==
  \A r \in Runs :
    /\ run[r].attempted \in BOOLEAN
    /\ ~ run[r].attempted => run[r].pc \notin {"claim", "provision", "spawn", "record"}
    /\ ~ run[r].attempted \/ run[r].pc \in {"claim", "provision", "spawn"} =>
         process[r] = "none"
    /\ run[r].pc = "record" => process[r] # "none"

\* What a run is about to remove is dead.
SeenOK ==
  \A r \in Runs :
    /\ Witnessed(run[r].seen)
    /\ run[r].pc \in {"terminate", "grace", "kill", "remove"} => run[r].seen # None
    /\ run[r].pc = "remove" => ~ InstanceAlive(run[r].seen)

\* The registry is of the run that is creating, and of the process that lives.
RegistryTells ==
  /\ \A r \in Runs :
       run[r].pc \in Creating =>
         registry # None /\ registry.gen = r /\ ~ registry.pid
  /\ \A p \in Attempts :
       ProcessAlive(p) =>
         /\ registry # None /\ registry.gen = p
         /\ registry.pid \/ (p \in Runs /\ run[p].pc = "record")

LocalInv ==
  /\ LocalShape /\ Witnessed(registry) /\ OneAttempt /\ SeenOK
  /\ lostSight \/ RegistryTells

\* The new state of run r, in a step of it that leaves the machine alone.
RunOK(r) ==
  /\ run'[r].attempted \in BOOLEAN
  /\ ~ run'[r].attempted => run'[r].pc \notin {"claim", "provision", "spawn", "record"}
  /\ ~ run'[r].attempted \/ run'[r].pc = "claim" => process[r] = "none"
  /\ Witnessed(run'[r].seen)
  /\ run'[r].pc \in {"terminate", "grace", "kill", "remove"} => run'[r].seen # None
  /\ run'[r].pc = "remove" => ~ InstanceAlive(run'[r].seen)
  /\ run'[r].pc \notin Creating

\* Only run r takes a step.
OnlyRun(r) ==
  /\ DOMAIN run' = Runs /\ DOMAIN run'[r] = RunFields
  /\ \A k \in Runs \ {r} : run'[k] = run[k]

\* A run that leaves the machine alone: its own facts are all there is to show.
LEMMA RunStepKept ==
  ASSUME LocalInv, NEW r \in Runs, OnlyRun(r), RunOK(r), run[r].pc # "record" \/ lostSight',
         UNCHANGED <<registry, process, environment>>,
         lostSight' \in BOOLEAN, lostSight => lostSight'
  PROVE  LocalInv'
<1>1. LocalShape' /\ Witnessed(registry)'
  BY DEF LocalInv, LocalShape, OnlyRun, Witnessed
<1>2. OneAttempt'
  <2> SUFFICES ASSUME NEW k \in Runs
               PROVE  /\ run'[k].attempted \in BOOLEAN
                      /\ ~ run'[k].attempted =>
                           run'[k].pc \notin {"claim", "provision", "spawn", "record"}
                      /\ ~ run'[k].attempted \/ run'[k].pc \in {"claim", "provision", "spawn"} =>
                           process'[k] = "none"
                      /\ run'[k].pc = "record" => process'[k] # "none"
    BY DEF OneAttempt
  <2>1. CASE k = r
    BY <2>1 DEF RunOK, Creating
  <2>2. CASE k # r
    BY <2>2 DEF OnlyRun, LocalInv, OneAttempt
  <2> QED
    BY <2>1, <2>2
<1>3. SeenOK'
  <2> SUFFICES ASSUME NEW k \in Runs
               PROVE  /\ Witnessed(run[k].seen)'
                      /\ run'[k].pc \in {"terminate", "grace", "kill", "remove"} =>
                           run'[k].seen # None
                      /\ run'[k].pc = "remove" => ~ InstanceAlive(run[k].seen)'
    BY DEF SeenOK
  <2>1. CASE k = r
    BY <2>1 DEF RunOK, Witnessed, InstanceAlive, ProcessAlive
  <2>2. CASE k # r
    BY <2>2 DEF OnlyRun, LocalInv, SeenOK, Witnessed, InstanceAlive, ProcessAlive
  <2> QED
    BY <2>1, <2>2
<1>4. lostSight' \/ RegistryTells'
  <2> SUFFICES ASSUME ~ lostSight' PROVE RegistryTells'
    OBVIOUS
  <2>1. RegistryTells /\ run[r].pc # "record"
    BY DEF LocalInv
  <2>2. \A k \in Runs : run'[k].pc \in Creating => run[k].pc \in Creating
    BY DEF OnlyRun, RunOK
  <2>3. \A k \in Runs : run[k].pc = "record" => run'[k].pc = "record"
    BY <2>1 DEF OnlyRun
  <2> QED
    BY <2>1, <2>2, <2>3 DEF RegistryTells, ProcessAlive
<1> QED
  BY <1>1, <1>2, <1>3, <1>4 DEF LocalInv

\* What a crash or a reboot has left on the machine is a state of the invariant.
LEMMA LocalStarts ==
  ASSUME NEW Requests, NEW Residues, \A left \in Residues : Leavable(left),
         LocalInit(Requests, Residues)
  PROVE  LocalInv
<1> PICK left \in Residues : /\ registry = left.registry
                             /\ process = [p \in Attempts |->
                                             IF p = Old THEN left.process ELSE "none"]
  BY DEF LocalInit
<1>1. LocalShape
  BY DEF LocalInit, LocalShape, Idle, RunFields
<1>2. /\ \A r \in Runs : process[r] = "none"
      /\ process[Old] = left.process
  BY OldIsNoRun DEF Attempts
<1>3. Witnessed(registry)
  BY <1>2 DEF Witnessed, Leavable, Attempts
<1>4. OneAttempt /\ SeenOK
  BY <1>2 DEF LocalInit, OneAttempt, SeenOK, Witnessed, Idle
<1>5. RegistryTells
  BY <1>2 DEF LocalInit, RegistryTells, Leavable, ProcessAlive, Creating, Idle, Attempts
<1> QED
  BY <1>1, <1>3, <1>4, <1>5 DEF LocalInv

\* A run that reads the registry, signals or waits, or dies.
LEMMA RefusedOrSeen ==
  ASSUME LocalInv, NEW r \in Runs, Begin(r) \/ Classify(r) \/ Terminate(r) \/ AwaitExit(r)
                                     \/ DeadlinePasses(r) \/ RunDies(r)
  PROVE  LocalInv'
<1> USE DEF LocalInv
<1>0. /\ LocalShape /\ Witnessed(registry)
      /\ run[r].attempted \in BOOLEAN
      /\ ~ run[r].attempted => run[r].pc \notin {"claim", "provision", "spawn", "record"}
      /\ ~ run[r].attempted \/ run[r].pc \in {"claim", "provision", "spawn"} =>
           process[r] = "none"
      /\ Witnessed(run[r].seen)
      /\ run[r].pc \in {"terminate", "grace", "kill", "remove"} => run[r].seen # None
      /\ run[r].pc = "remove" => ~ InstanceAlive(run[r].seen)
  BY DEF OneAttempt, SeenOK
<1>1. CASE Begin(r)
  <2>1. /\ OnlyRun(r)
        /\ run'[r].pc \in {"failed", "done", "classify"}
        /\ run'[r].attempted = run[r].attempted /\ run'[r].seen = run[r].seen
    BY <1>0, <1>1 DEF Begin, LocalShape, OnlyRun, RunFields
  <2>2. RunOK(r) /\ run[r].pc # "record"
    BY <1>0, <1>1, <2>1 DEF RunOK, Begin, Creating
  <2> QED
    BY <1>0, <1>1, <2>1, <2>2, RunStepKept DEF Begin, LocalShape
<1>2. CASE Classify(r)
  <2>1. OnlyRun(r)
    BY <1>0, <1>2 DEF Classify, Foreign, NothingThere, AlreadyServing, Residue, NeverStarted,
                      Goto, LocalShape, OnlyRun, RunFields
  <2>2. /\ run[r].pc = "classify"
        /\ \/ /\ run'[r].pc \in {"failed", "done"}
              /\ run'[r].attempted = run[r].attempted
              /\ run'[r].seen \in {run[r].seen, registry}
           \/ /\ run'[r].pc = "claim" /\ run'[r].seen = run[r].seen
              /\ ~ run[r].attempted /\ run'[r].attempted
           \/ /\ run'[r].pc \in {"remove", "terminate"} /\ run'[r].attempted = run[r].attempted
              /\ run'[r].seen = registry /\ registry # None
              /\ run'[r].pc = "remove" => ~ InstanceAlive(registry)
    <3>1. CASE Foreign(r)
      BY <1>0, <1>2, <3>1 DEF Classify, Foreign, Goto, LocalShape, RunFields
    <3>2. CASE NothingThere(r)
      BY <1>0, <1>2, <3>2 DEF Classify, NothingThere, LocalShape, RunFields
    <3>3. CASE AlreadyServing(r)
      BY <1>0, <1>2, <3>3 DEF Classify, AlreadyServing, Goto, LocalShape, RunFields
    <3>4. CASE Residue(r)
      BY <1>0, <1>2, <3>4 DEF Classify, Residue, Ours, LocalShape, RunFields
    <3>5. CASE NeverStarted(r)
      BY <1>0, <1>2, <3>5 DEF Classify, NeverStarted, Ours, Goto, LocalShape, RunFields
    <3> QED
      BY <1>2, <3>1, <3>2, <3>3, <3>4, <3>5 DEF Classify
  <2>3. RunOK(r)
    BY <1>0, <2>2 DEF RunOK, Creating
  <2> QED
    BY <1>0, <1>2, <2>1, <2>2, <2>3, RunStepKept DEF Classify, LocalShape
<1>3. CASE Terminate(r)
  <2>1. /\ OnlyRun(r)
        /\ run[r].pc = "terminate" /\ run'[r].pc \in {"classify", "grace"}
        /\ run'[r].attempted = run[r].attempted /\ run'[r].seen = run[r].seen
    BY <1>0, <1>3 DEF Terminate, Goto, LocalShape, OnlyRun, RunFields
  <2>2. RunOK(r)
    BY <1>0, <2>1 DEF RunOK, Creating
  <2> QED
    BY <1>0, <1>3, <2>1, <2>2, RunStepKept DEF Terminate, LocalShape
<1>4. CASE AwaitExit(r)
  <2>1. /\ OnlyRun(r)
        /\ run[r].pc \in {"grace", "kill"} /\ run'[r].pc \in {"remove", "kill", "failed"}
        /\ run'[r].attempted = run[r].attempted /\ run'[r].seen = run[r].seen
        /\ run'[r].pc = "remove" => ~ InstanceAlive(run[r].seen)
    BY <1>0, <1>4 DEF AwaitExit, Goto, LocalShape, OnlyRun, RunFields
  <2>2. RunOK(r)
    BY <1>0, <2>1 DEF RunOK, Creating
  <2> QED
    BY <1>0, <1>4, <2>1, <2>2, RunStepKept DEF AwaitExit, LocalShape
<1>5. CASE RunDies(r)
  <2>1. /\ OnlyRun(r)
        /\ run'[r].pc = "killed"
        /\ run'[r].attempted = run[r].attempted /\ run'[r].seen = run[r].seen
    BY <1>0, <1>5 DEF RunDies, Goto, LocalShape, OnlyRun, RunFields
  <2>2. RunOK(r)
    BY <1>0, <2>1 DEF RunOK, Creating
  <2> QED
    BY <1>0, <1>5, <2>1, <2>2, RunStepKept DEF RunDies, LocalShape
<1>6. CASE DeadlinePasses(r)
  <2>1. /\ OnlyRun(r)
        /\ run'[r].pc = run[r].pc /\ \A k \in Runs : run'[k].pc = run[k].pc
        /\ \A k \in Runs : run'[k].attempted = run[k].attempted /\ run'[k].seen = run[k].seen
        /\ UNCHANGED <<registry, process, environment, lostSight>>
    BY <1>0, <1>6 DEF DeadlinePasses, LocalShape, OnlyRun, RunFields
  <2>2. LocalShape' /\ Witnessed(registry)' /\ OneAttempt'
    BY <1>0, <2>1 DEF LocalShape, OnlyRun, Witnessed, OneAttempt
  <2>3. SeenOK'
    BY <2>1 DEF SeenOK, Witnessed, InstanceAlive, ProcessAlive
  <2>4. RegistryTells => RegistryTells'
    BY <2>1 DEF RegistryTells, ProcessAlive
  <2> QED
    BY <2>1, <2>2, <2>3, <2>4
<1> QED
  BY <1>1, <1>2, <1>3, <1>4, <1>5, <1>6

\* A run that leaves the machine's other runs alone, their facts being kept.
LEMMA OthersKept ==
  ASSUME LocalInv, NEW r \in Runs, OnlyRun(r),
         \A p \in Attempts \ {r} : process'[p] = process[p],
         process[r] = "none" \/ process'[r] = process[r],
         process'[r] # "none" \/ process'[r] = process[r],
         NEW k \in Runs \ {r}
  PROVE  /\ run'[k].attempted \in BOOLEAN
         /\ ~ run'[k].attempted => run'[k].pc \notin {"claim", "provision", "spawn", "record"}
         /\ ~ run'[k].attempted \/ run'[k].pc \in {"claim", "provision", "spawn"} =>
              process'[k] = "none"
         /\ run'[k].pc = "record" => process'[k] # "none"
         /\ Witnessed(run[k].seen)'
         /\ run'[k].pc \in {"terminate", "grace", "kill", "remove"} => run'[k].seen # None
         /\ run'[k].pc = "remove" => ~ InstanceAlive(run[k].seen)'
<1>1. run'[k] = run[k] /\ process'[k] = process[k]
  BY DEF OnlyRun, Attempts
<1>2. /\ Witnessed(run[k].seen)
      /\ run[k].pc \in {"terminate", "grace", "kill", "remove"} => run[k].seen # None
      /\ run[k].pc = "remove" => ~ InstanceAlive(run[k].seen)
  BY DEF LocalInv, SeenOK
<1>3. Witnessed(run[k].seen)'
  BY <1>1, <1>2 DEF Witnessed
<1>4. run'[k].pc = "remove" => ~ InstanceAlive(run[k].seen)'
  BY <1>1, <1>2 DEF Witnessed, InstanceAlive, ProcessAlive
<1> QED
  BY <1>1, <1>2, <1>3, <1>4 DEF LocalInv, OneAttempt

\* A removal that takes nobody's record away leaves nothing alive.
LEMMA RemovalIsSafe ==
  ASSUME LocalInv, NEW r \in Runs, NEW seen, RemoveInstance(r, seen), ~ lostSight',
         run[r].pc \notin {"record"},
         \/ run[r].pc = "remove" /\ seen = run[r].seen
         \/ run[r].pc \in Creating /\ seen = OwnClaim(r)
  PROVE  /\ RegistryTells /\ registry' = None
         /\ \A p \in Attempts : ~ ProcessAlive(p)
         /\ \A k \in Runs \ {r} : run[k].pc \notin Creating
<1>1. RegistryTells /\ ~ TakesAnothers(r, seen) /\ registry' = None
  BY DEF LocalInv, RemoveInstance
<1>2. CASE registry = None
  BY <1>1, <1>2 DEF RegistryTells
<1>3. CASE registry # None
  <2>1. /\ registry = seen
        /\ registry.pid \/ registry.gen \notin Runs \ {r} \/ run[registry.gen].pc \notin Creating
    BY <1>1, <1>3 DEF TakesAnothers
  <2>2. CASE run[r].pc \in Creating
    <3>1. registry.gen = r /\ ~ registry.pid
      BY <1>1, <2>2 DEF RegistryTells
    <3> QED
      BY <1>1, <3>1 DEF RegistryTells
  <2>3. CASE run[r].pc = "remove" /\ seen = run[r].seen
    <3>1. ~ InstanceAlive(registry) /\ run[r].pc \notin Creating
      BY <2>1, <2>3 DEF LocalInv, SeenOK, Creating
    <3>2. \A p \in Attempts : ~ ProcessAlive(p)
      <4> SUFFICES ASSUME NEW p \in Attempts, ProcessAlive(p) PROVE FALSE
        OBVIOUS
      <4>1. /\ registry.gen = p
            /\ registry.pid \/ (p \in Runs /\ run[p].pc = "record")
        BY <1>1 DEF RegistryTells
      <4>2. ~ registry.pid
        BY <3>1, <4>1 DEF InstanceAlive
      <4> QED
        BY <2>1, <3>1, <4>1, <4>2 DEF Creating
    <3>3. \A k \in Runs \ {r} : run[k].pc \notin Creating
      BY <1>1, <2>1 DEF RegistryTells
    <3> QED
      BY <1>1, <3>2, <3>3
  <2> QED
    BY <2>2, <2>3
<1> QED
  BY <1>2, <1>3

\* A run that goes on, and keeps what it has seen.
LEMMA RunMoves ==
  ASSUME LocalShape, NEW r \in Runs, NEW pc, Goto(r, pc)
  PROVE  /\ OnlyRun(r) /\ run'[r].pc = pc
         /\ run'[r].attempted = run[r].attempted /\ run'[r].seen = run[r].seen
<1>1. DOMAIN run = Runs /\ DOMAIN run[r] = RunFields
  BY DEF LocalShape
<1>2. /\ DOMAIN run' = Runs /\ run'[r] = [run[r] EXCEPT !.pc = pc]
      /\ \A k \in Runs \ {r} : run'[k] = run[k]
  BY <1>1 DEF Goto
<1> QED
  BY <1>1, <1>2 DEF OnlyRun, RunFields

\* A run that claims the registry's place exclusively, or meets a claim that is there.
LEMMA ClaimKept ==
  ASSUME LocalInv, NoneHasNoField, NEW r \in Runs, Claim(r)
  PROVE  LocalInv'
<1>0. /\ LocalShape /\ run[r].pc = "claim" /\ run[r].attempted /\ process[r] = "none"
      /\ Witnessed(run[r].seen)
  BY DEF Claim, LocalInv, OneAttempt, SeenOK
<1>1. CASE registry # None
  <2>1. /\ OnlyRun(r) /\ run'[r].pc = "classify"
        /\ run'[r].attempted = run[r].attempted /\ run'[r].seen = run[r].seen
        /\ UNCHANGED <<registry, process, environment, lostSight>>
    <3>1. Goto(r, "classify") /\ UNCHANGED <<registry, process, environment, lostSight>>
      BY <1>1 DEF Claim
    <3> QED
      BY <1>0, <3>1, RunMoves
  <2>2. RunOK(r)
    BY <1>0, <2>1 DEF RunOK, Creating, LocalInv, OneAttempt
  <2> QED
    BY <1>0, <2>1, <2>2, RunStepKept DEF LocalShape
<1>2. CASE registry = None
  <2>1. /\ OnlyRun(r) /\ run'[r].pc = "provision"
        /\ run'[r].attempted = run[r].attempted /\ run'[r].seen = run[r].seen
        /\ registry' = OwnClaim(r)
        /\ UNCHANGED <<process, environment, lostSight>>
    <3>1. /\ Goto(r, "provision") /\ registry' = OwnClaim(r)
          /\ UNCHANGED <<process, environment, lostSight>>
      BY <1>2 DEF Claim
    <3> QED
      BY <1>0, <3>1, RunMoves
  <2>2. registry' # None /\ registry'.gen = r /\ ~ registry'.pid
    <3>1. "ours" \in DOMAIN registry' /\ registry'.gen = r /\ ~ registry'.pid
      BY <2>1 DEF OwnClaim
    <3> QED
      BY <3>1 DEF NoneHasNoField
  <2>3. LocalShape' /\ Witnessed(registry)'
    BY <1>0, <2>1, <2>2 DEF LocalShape, OnlyRun, Witnessed, Attempts
  <2>4. ASSUME NEW k \in Runs
        PROVE  /\ run'[k].attempted \in BOOLEAN
               /\ ~ run'[k].attempted => run'[k].pc \notin {"claim", "provision", "spawn", "record"}
               /\ ~ run'[k].attempted \/ run'[k].pc \in {"claim", "provision", "spawn"} =>
                    process'[k] = "none"
               /\ run'[k].pc = "record" => process'[k] # "none"
               /\ Witnessed(run[k].seen)'
               /\ run'[k].pc \in {"terminate", "grace", "kill", "remove"} => run'[k].seen # None
               /\ run'[k].pc = "remove" => ~ InstanceAlive(run[k].seen)'
    <3>1. CASE k = r
      <4>1. run'[r].attempted /\ run'[r].pc = "provision" /\ process'[r] = "none"
        BY <1>0, <2>1
      <4>2. Witnessed(run[r].seen)'
        BY <1>0, <2>1 DEF Witnessed
      <4> QED
        BY <3>1, <4>1, <4>2
    <3>2. CASE k # r
      <4>1. process' = process
        BY <2>1
      <4> QED
        BY <2>1, <3>2, <4>1, OthersKept
    <3> QED
      BY <3>1, <3>2
  <2>5. OneAttempt'
    BY <2>4 DEF OneAttempt
  <2>6. SeenOK'
    BY <2>4 DEF SeenOK
  <2>7. RegistryTells => RegistryTells'
    BY <1>0, <1>2, <2>1, <2>2 DEF RegistryTells, OnlyRun, ProcessAlive, Creating
  <2> QED
    BY <2>1, <2>3, <2>5, <2>6, <2>7 DEF LocalInv
<1> QED
  BY <1>1, <1>2

\* A run that goes on with its create.
LEMMA CreateKept ==
  ASSUME LocalInv, NEW r \in Runs, OnlyRun(r), run[r].pc \in {"provision", "spawn"},
         run'[r].attempted = run[r].attempted, run'[r].seen = run[r].seen,
         UNCHANGED <<registry, lostSight>>,
         DOMAIN process' = Attempts, DOMAIN environment' = Attempts,
         \A p \in Attempts \ {r} : process'[p] = process[p],
         \/ run'[r].pc = "spawn" /\ process'[r] = process[r]
         \/ run'[r].pc = "record" /\ process'[r] = "booting"
  PROVE  LocalInv'
<1>0. /\ LocalShape /\ run[r].attempted /\ process[r] = "none" /\ r \in Attempts
      /\ Witnessed(run[r].seen)
  BY DEF LocalInv, OneAttempt, SeenOK, Attempts
<1>1. LocalShape'
  BY <1>0 DEF LocalShape, OnlyRun
<1>2. Witnessed(registry)'
  BY <1>0 DEF LocalInv, Witnessed
<1>3. Witnessed(run[r].seen)'
  BY <1>0 DEF Witnessed
<1>4. OneAttempt' /\ SeenOK'
  BY <1>0, <1>3, OthersKept DEF OneAttempt, SeenOK
<1>5. RegistryTells => RegistryTells'
  BY <1>0 DEF RegistryTells, OnlyRun, ProcessAlive, Creating
<1> QED
  BY <1>1, <1>2, <1>4, <1>5 DEF LocalInv

\* A removal, by a run that gives up its create or clears a residue.
LEMMA RemovalKept ==
  ASSUME LocalInv, NEW r \in Runs, NEW seen, RemoveInstance(r, seen), OnlyRun(r),
         run'[r].attempted = run[r].attempted, run'[r].seen = run[r].seen,
         \/ run[r].pc = "remove" /\ seen = run[r].seen
         \/ run[r].pc \in {"provision", "spawn"} /\ seen = OwnClaim(r),
         run'[r].pc \in {"failed", "classify"},
         UNCHANGED <<process, environment>>
  PROVE  LocalInv'
<1>0. LocalShape /\ Witnessed(run[r].seen)
  BY DEF LocalInv, SeenOK
<1>1. LocalShape' /\ Witnessed(registry)' /\ (lostSight => lostSight')
  BY <1>0 DEF LocalShape, OnlyRun, Witnessed, RemoveInstance, TakesAnothers
<1>2. OneAttempt' /\ SeenOK'
  BY <1>0, OthersKept DEF OneAttempt, SeenOK, LocalInv, Witnessed
<1>3. ASSUME ~ lostSight' PROVE RegistryTells'
  <2>1. /\ RegistryTells /\ registry' = None
        /\ \A p \in Attempts : ~ ProcessAlive(p)
        /\ \A k \in Runs \ {r} : run[k].pc \notin Creating
    BY <1>3, RemovalIsSafe DEF Creating
  <2> QED
    BY <2>1 DEF RegistryTells, OnlyRun, ProcessAlive, Creating
<1> QED
  BY <1>1, <1>2, <1>3 DEF LocalInv

\* A run that provisions, spawns and records its process, or clears a residue.
LEMMA CreatingKept ==
  ASSUME LocalInv, NoneHasNoField, NEW r \in Runs,
         Provision(r) \/ Spawn(r) \/ Record(r) \/ ClearResidue(r)
  PROVE  LocalInv'
<1>0. LocalShape /\ r \in Attempts
  BY DEF LocalInv, Attempts
<1>1. CASE Provision(r)
  <2>1. /\ OnlyRun(r) /\ run[r].pc = "provision"
        /\ run'[r].attempted = run[r].attempted /\ run'[r].seen = run[r].seen
        /\ UNCHANGED <<process, environment>>
    BY <1>0, <1>1 DEF Provision, Goto, LocalShape, OnlyRun, RunFields
  <2>2. \/ run'[r].pc = "spawn" /\ UNCHANGED <<registry, lostSight>>
        \/ run'[r].pc = "failed" /\ RemoveInstance(r, OwnClaim(r))
    BY <1>0, <1>1 DEF Provision, Goto, LocalShape, RunFields
  <2> QED
    BY <1>0, <2>1, <2>2, CreateKept, RemovalKept DEF LocalShape
<1>2. CASE Spawn(r)
  <2>1. /\ OnlyRun(r) /\ run[r].pc = "spawn"
        /\ run'[r].attempted = run[r].attempted /\ run'[r].seen = run[r].seen
    BY <1>0, <1>2 DEF Spawn, Goto, LocalShape, OnlyRun, RunFields
  <2>2. \/ /\ run'[r].pc = "record" /\ UNCHANGED <<registry, lostSight>>
           /\ process' = [process EXCEPT ![r] = "booting"]
           /\ DOMAIN environment' = Attempts
        \/ /\ run'[r].pc = "failed" /\ RemoveInstance(r, OwnClaim(r))
           /\ UNCHANGED <<process, environment>>
    BY <1>0, <1>2 DEF Spawn, Goto, LocalShape, RunFields
  <2>3. CASE run'[r].pc = "record"
    <3>1. /\ DOMAIN process' = Attempts /\ process'[r] = "booting"
          /\ \A p \in Attempts \ {r} : process'[p] = process[p]
      BY <1>0, <2>2, <2>3 DEF LocalShape
    <3> QED
      BY <2>1, <2>2, <2>3, <3>1, CreateKept
  <2>4. CASE run'[r].pc = "failed"
    BY <2>1, <2>2, <2>4, RemovalKept
  <2> QED
    BY <2>2, <2>3, <2>4
<1>3. CASE Record(r)
  <2>1. /\ OnlyRun(r) /\ run[r].pc = "record" /\ run'[r].pc = "classify"
        /\ run'[r].attempted = run[r].attempted /\ run'[r].seen = run[r].seen
        /\ registry' = [OwnClaim(r) EXCEPT !.pid = TRUE]
        /\ UNCHANGED <<process, environment, lostSight>>
    BY <1>0, <1>3 DEF Record, Goto, LocalShape, OnlyRun, RunFields
  <2>2. registry'.gen = r /\ registry'.pid
    BY <2>1 DEF OwnClaim
  <2>3. registry' # None
    BY <2>1 DEF NoneHasNoField, OwnClaim
  <2>4. LocalShape' /\ Witnessed(registry)'
    BY <1>0, <2>1, <2>2 DEF LocalShape, OnlyRun, Witnessed, LocalInv, OneAttempt
  <2>5. OneAttempt' /\ SeenOK'
    BY <1>0, <2>1, OthersKept DEF OneAttempt, SeenOK, LocalInv, Witnessed
  <2>6. RegistryTells => RegistryTells'
    BY <1>0, <2>1, <2>2, <2>3 DEF RegistryTells, OnlyRun, ProcessAlive, Creating
  <2> QED
    BY <2>1, <2>4, <2>5, <2>6 DEF LocalInv
<1>4. CASE ClearResidue(r)
  <2>1. /\ OnlyRun(r) /\ run[r].pc = "remove" /\ run'[r].pc = "classify"
        /\ run'[r].attempted = run[r].attempted /\ run'[r].seen = run[r].seen
        /\ RemoveInstance(r, run[r].seen)
        /\ UNCHANGED <<process, environment>>
    BY <1>0, <1>4 DEF ClearResidue, Goto, LocalShape, OnlyRun, RunFields
  <2> QED
    BY <2>1, RemovalKept
<1> QED
  BY <1>1, <1>2, <1>3, <1>4

\* A process that comes online, fails or exits, of its own accord.
LEMMA ProcessKept ==
  ASSUME LocalInv, NEW p \in Attempts, ComesOnline(p) \/ LogsFatal(p) \/ Exits(p)
  PROVE  LocalInv'
<1>0. LocalShape
  BY DEF LocalInv
<1>1. /\ UNCHANGED <<run, registry, environment, lostSight>>
      /\ process[p] \in {"booting", "online", "failing"}
      /\ process'[p] \in {"online", "failing", "dead"}
      /\ DOMAIN process' = Attempts
      /\ \A q \in Attempts \ {p} : process'[q] = process[q]
  BY <1>0 DEF ComesOnline, LogsFatal, Exits, ProcessAlive, LocalShape
<1>2. /\ \A q \in Attempts : process'[q] = "none" <=> process[q] = "none"
      /\ \A q \in Attempts : ProcessAlive(q)' => ProcessAlive(q)
  BY <1>1 DEF ProcessAlive
<1>3. LocalShape' /\ Witnessed(registry)'
  BY <1>0, <1>1, <1>2 DEF LocalInv, LocalShape, Witnessed
<1>4. OneAttempt'
  BY <1>1, <1>2 DEF LocalInv, OneAttempt, Attempts
<1>5. SeenOK'
  <2> SUFFICES ASSUME NEW r \in Runs
               PROVE  /\ Witnessed(run[r].seen)'
                      /\ run[r].pc \in {"terminate", "grace", "kill", "remove"} =>
                           run[r].seen # None
                      /\ run[r].pc = "remove" => ~ InstanceAlive(run[r].seen)'
    BY <1>1 DEF SeenOK
  <2>1. /\ Witnessed(run[r].seen)
        /\ run[r].pc \in {"terminate", "grace", "kill", "remove"} => run[r].seen # None
        /\ run[r].pc = "remove" => ~ InstanceAlive(run[r].seen)
    BY DEF LocalInv, SeenOK
  <2>2. run[r].seen # None => run[r].seen.gen \in Attempts
    BY <2>1 DEF Witnessed
  <2> QED
    BY <1>1, <1>2, <2>1, <2>2 DEF Witnessed, InstanceAlive
<1>6. RegistryTells => RegistryTells'
  BY <1>1, <1>2 DEF RegistryTells
<1> QED
  BY <1>1, <1>3, <1>4, <1>5, <1>6 DEF LocalInv

\* Every step of every run and process keeps the invariant.
LEMMA LocalStepKept ==
  ASSUME LocalInv, NoneHasNoField, [LocalNext]_localVars
  PROVE  LocalInv'
<1>1. ASSUME NEW r \in Runs, RunStep(r) PROVE LocalInv'
  BY <1>1, RefusedOrSeen, ClaimKept, CreatingKept DEF RunStep
<1>2. ASSUME NEW p \in Attempts, ComesOnline(p) \/ LogsFatal(p) \/ Exits(p) PROVE LocalInv'
  BY <1>2, ProcessKept
<1>3. CASE KeyLost \/ UNCHANGED localVars
  <2>1. UNCHANGED <<run, registry, process, environment, lostSight>>
    BY <1>3 DEF KeyLost, localVars
  <2> QED
    BY <2>1 DEF LocalInv, LocalShape, Witnessed, OneAttempt, SeenOK, RegistryTells,
                InstanceAlive, ProcessAlive
<1> QED
  BY <1>1, <1>2, <1>3 DEF LocalNext

(* However many Starts run at once, die or are repeated, on a machine a crash has left in *)
(* any state, no two processes of one agent key are alive, unless the registry has lost *)
(* sight of one: the claim is exclusive, and a record is removed once its process is dead. *)
(* The invariant adds what ties a claim, a record and what a run has read to the process *)
(* each stands for.                                                                     *)
THEOREM OneProcessLives ==
  ASSUME NoneHasNoField, NEW Requests, NEW Residues, \A left \in Residues : Leavable(left)
  PROVE  LocalSpec(Requests, Residues) => []OneProcess
<1>1. LocalInit(Requests, Residues) => LocalInv
  BY LocalStarts
<1>2. LocalInv /\ [LocalNext]_localVars => LocalInv'
  BY LocalStepKept
<1>3. LocalInv => OneProcess
  <2> SUFFICES ASSUME LocalInv, ~ lostSight
               PROVE  Cardinality({p \in Attempts : ProcessAlive(p)}) <= 1
    BY DEF OneProcess
  <2>1. RegistryTells
    BY DEF LocalInv
  <2>2. {p \in Attempts : ProcessAlive(p)} \subseteq {registry.gen}
    BY <2>1 DEF RegistryTells
  <2>3. Cardinality({}) = 0 /\ Cardinality({registry.gen}) = 1
    BY FS_EmptySet, FS_Singleton
  <2>4. CASE {p \in Attempts : ProcessAlive(p)} = {}
    BY <2>3, <2>4
  <2>5. CASE {p \in Attempts : ProcessAlive(p)} = {registry.gen}
    BY <2>3, <2>5
  <2> QED
    BY <2>2, <2>4, <2>5
<1> QED
  BY <1>1, <1>2, <1>3, PTL DEF LocalSpec

-----------------------------------------------------------------------------
(* The environment of the agent *)

\* The variables of the authoritative tier.
LEMMA AuthoritativeNames ==
  ASSUME NEW payload, NEW place
  PROVE  LET A == AuthoritativeTier(payload, place) IN
         /\ DOMAIN A \subseteq AuthoritativeKeys
         /\ AuthoritativeKeys \ DOMAIN A \subseteq {"AUTOGENT_RESPOND_TO_ALLOWLIST"}
         /\ A["AUTOGENT_RELAY_URL"] = payload.relayUrl
         /\ A["AUTOGENT_RESPOND_TO"] = payload.respondTo
         /\ A["AUTOGENT_PRESENCE"] = "true"
         /\ A["BUZZ_MANAGED_AGENT_START_NONCE"] = place.generation
         /\ "AUTOGENT_RESPOND_TO_ALLOWLIST" \in DOMAIN A =>
              A["AUTOGENT_RESPOND_TO_ALLOWLIST"] = payload.allowlist
<1> DEFINE fixed == [AUTOGENT_STATE_DIR |-> place.stateDir, AUTOGENT_RELAY_URL |-> payload.relayUrl,
                     AUTOGENT_CWD |-> place.workspace, AUTOGENT_RESPOND_TO |-> payload.respondTo,
                     AUTOGENT_PROFILE_NAME |-> payload.name, AUTOGENT_PRESENCE |-> "true",
                     BUZZ_MANAGED_AGENT_START_NONCE |-> place.generation]
           gate == IF payload.allowlist = {} THEN <<>>
                   ELSE Only("AUTOGENT_RESPOND_TO_ALLOWLIST", payload.allowlist)
<1>1. AuthoritativeTier(payload, place) = fixed ++ gate
  BY DEF AuthoritativeTier
<1>2. DOMAIN fixed = AuthoritativeKeys \ {"AUTOGENT_RESPOND_TO_ALLOWLIST"}
  BY DEF AuthoritativeKeys
<1>3. \/ DOMAIN gate = {}
      \/ /\ DOMAIN gate = {"AUTOGENT_RESPOND_TO_ALLOWLIST"}
         /\ gate["AUTOGENT_RESPOND_TO_ALLOWLIST"] = payload.allowlist
  BY DEF Only
<1> DEFINE A == fixed ++ gate
<1>4. /\ DOMAIN A = DOMAIN fixed \cup DOMAIN gate
      /\ \A k \in DOMAIN fixed : A[k] = fixed[k]
      /\ \A k \in DOMAIN gate \ DOMAIN fixed : A[k] = gate[k]
  BY DEF ++
<1> HIDE DEF gate
<1>5. /\ fixed["AUTOGENT_RELAY_URL"] = payload.relayUrl
      /\ fixed["AUTOGENT_RESPOND_TO"] = payload.respondTo
      /\ fixed["AUTOGENT_PRESENCE"] = "true"
      /\ fixed["BUZZ_MANAGED_AGENT_START_NONCE"] = place.generation
      /\ {"AUTOGENT_RELAY_URL", "AUTOGENT_RESPOND_TO", "AUTOGENT_PRESENCE",
          "BUZZ_MANAGED_AGENT_START_NONCE"} \subseteq DOMAIN fixed
  OBVIOUS
<1> HIDE DEF fixed, A
<1> SUFFICES /\ DOMAIN A \subseteq AuthoritativeKeys
             /\ AuthoritativeKeys \ DOMAIN A \subseteq {"AUTOGENT_RESPOND_TO_ALLOWLIST"}
             /\ A["AUTOGENT_RELAY_URL"] = payload.relayUrl
             /\ A["AUTOGENT_RESPOND_TO"] = payload.respondTo
             /\ A["AUTOGENT_PRESENCE"] = "true"
             /\ A["BUZZ_MANAGED_AGENT_START_NONCE"] = place.generation
             /\ "AUTOGENT_RESPOND_TO_ALLOWLIST" \in DOMAIN A =>
                  A["AUTOGENT_RESPOND_TO_ALLOWLIST"] = payload.allowlist
  BY <1>1 DEF A
<1>6. "AUTOGENT_RESPOND_TO_ALLOWLIST" \in AuthoritativeKeys
  BY DEF AuthoritativeKeys
<1> QED
  BY <1>2, <1>3, <1>4, <1>5, <1>6

\* The authoritative tier wins over the other three, and no identity key gets through.
LEMMA EnvironmentIsAuthoritative ==
  ASSUME NEW payload, NEW place, NEW level, NEW ambient
  PROVE  LET env == BuildAgentEnv(payload, place, level, ambient) IN
         /\ DOMAIN env \cap IdentityKeys = {}
         /\ env["AUTOGENT_RELAY_URL"] = payload.relayUrl
         /\ env["AUTOGENT_RESPOND_TO"] = payload.respondTo
         /\ env["AUTOGENT_PRESENCE"] = "true"
         /\ env["BUZZ_MANAGED_AGENT_START_NONCE"] = place.generation
         /\ Get(env, "AUTOGENT_RESPOND_TO_ALLOWLIST") \in {None, payload.allowlist}
<1> DEFINE A == AuthoritativeTier(payload, place)
           G == UserTier(payload) ++ PolicyTier(payload, level) ++ AmbientBase(ambient)
           names == AuthoritativeKeys \cup IdentityKeys
           env == A ++ Without(G, names)
<1>1. BuildAgentEnv(payload, place, level, ambient) = env
  BY DEF BuildAgentEnv
<1> HIDE DEF G, A, names
<1>2. /\ DOMAIN env = DOMAIN A \cup (DOMAIN G \ names)
      /\ \A k \in DOMAIN A : env[k] = A[k]
  BY DEF env, ++, Without
<1>3. /\ DOMAIN A \subseteq AuthoritativeKeys
      /\ AuthoritativeKeys \ DOMAIN A \subseteq {"AUTOGENT_RESPOND_TO_ALLOWLIST"}
      /\ A["AUTOGENT_RELAY_URL"] = payload.relayUrl
      /\ A["AUTOGENT_RESPOND_TO"] = payload.respondTo
      /\ A["AUTOGENT_PRESENCE"] = "true"
      /\ A["BUZZ_MANAGED_AGENT_START_NONCE"] = place.generation
      /\ "AUTOGENT_RESPOND_TO_ALLOWLIST" \in DOMAIN A =>
           A["AUTOGENT_RESPOND_TO_ALLOWLIST"] = payload.allowlist
  BY AuthoritativeNames DEF A
<1> HIDE DEF env
<1>4. /\ AuthoritativeKeys \cap IdentityKeys = {}
      /\ AuthoritativeKeys \cup IdentityKeys = names
  BY DEF AuthoritativeKeys, IdentityKeys, names
<1>5. DOMAIN env \cap IdentityKeys = {}
  BY <1>2, <1>3, <1>4
<1>6. {"AUTOGENT_RELAY_URL", "AUTOGENT_RESPOND_TO", "AUTOGENT_PRESENCE",
       "BUZZ_MANAGED_AGENT_START_NONCE"} \subseteq DOMAIN A
  BY <1>3 DEF AuthoritativeKeys
<1>7. Get(env, "AUTOGENT_RESPOND_TO_ALLOWLIST") \in {None, payload.allowlist}
  <2>1. "AUTOGENT_RESPOND_TO_ALLOWLIST" \in names
    BY DEF AuthoritativeKeys, names
  <2> QED
    BY <1>2, <1>3, <2>1 DEF Get
<1> QED
  BY <1>1, <1>2, <1>3, <1>5, <1>6, <1>7

\* What the shell has set for this program is not seen by the agent.
LEMMA ShellNeverLeaks ==
  ASSUME NEW payload, NEW place, NEW level, NEW one, NEW other, NEW k \in OwnNames
  PROVE  Get(BuildAgentEnv(payload, place, level, one), k)
           = Get(BuildAgentEnv(payload, place, level, other), k)
<1> DEFINE A == AuthoritativeTier(payload, place)
           U == UserTier(payload) ++ PolicyTier(payload, level)
           names == AuthoritativeKeys \cup IdentityKeys
           env(shell) == A ++ Without(U ++ AmbientBase(shell), names)
<1> HIDE DEF U, A
<1>1. ASSUME NEW shell
      PROVE  /\ k \in DOMAIN env(shell) <=> k \in DOMAIN A \/ (k \in DOMAIN U /\ k \notin names)
             /\ k \in DOMAIN A => env(shell)[k] = A[k]
             /\ k \notin DOMAIN A /\ k \in DOMAIN U /\ k \notin names => env(shell)[k] = U[k]
  <2> DEFINE G == U ++ AmbientBase(shell)
  <2>1. k \notin DOMAIN AmbientBase(shell)
    BY DEF AmbientBase, Without
  <2>2. /\ DOMAIN G = DOMAIN U \cup DOMAIN AmbientBase(shell)
        /\ k \in DOMAIN U => G[k] = U[k]
    BY DEF ++
  <2> HIDE DEF G, names
  <2>3. /\ DOMAIN (A ++ Without(G, names)) = DOMAIN A \cup (DOMAIN G \ names)
        /\ \A x \in DOMAIN A : (A ++ Without(G, names))[x] = A[x]
        /\ \A x \in (DOMAIN G \ names) \ DOMAIN A : (A ++ Without(G, names))[x] = G[x]
    BY DEF ++, Without
  <2> QED
    BY <2>1, <2>2, <2>3 DEF G
<1>2. \A shell : BuildAgentEnv(payload, place, level, shell) = env(shell)
  BY DEF BuildAgentEnv, A, U
<1> HIDE DEF env, names
<1>3. Get(env(one), k) = Get(env(other), k)
  BY <1>1 DEF Get
<1> QED
  BY <1>2, <1>3

\* The environment of a process is the one its run has built.
EnvironmentBuilt ==
  /\ DOMAIN process = Attempts /\ DOMAIN environment = Attempts
  /\ \A r \in Runs : process[r] # "none" =>
       \E payload :
         /\ environment[r] =
              BuildAgentEnv(payload, Place(Config(r), r), Config(r).logLevel, Ambient)
         /\ ~ request[r].up => payload = Payload(request[r].agent)

\* Only Spawn gives a process an environment, and it is the one it builds there.
LEMMA EnvironmentKept ==
  ASSUME EnvironmentBuilt, [LocalNext]_localVars
  PROVE  EnvironmentBuilt'
<1>1. ASSUME NEW r \in Runs, UNCHANGED request,
             process' = [process EXCEPT ![r] = "booting"],
             environment' = [environment EXCEPT ![r] = EnvOf(r, r)]
      PROVE  EnvironmentBuilt'
  <2>1. /\ environment' = [environment EXCEPT ![r] = EnvOf(r, r)]
        /\ UNCHANGED request /\ r \in Attempts
    BY <1>1 DEF Attempts
  <2>2. DOMAIN process' = Attempts /\ DOMAIN environment' = Attempts
    BY <1>1, <2>1 DEF EnvironmentBuilt
  <2>3. ASSUME NEW k \in Runs, process'[k] # "none"
        PROVE  \E payload :
                 /\ environment'[k] =
                      BuildAgentEnv(payload, Place(Config(k), k), Config(k).logLevel, Ambient)
                 /\ ~ request[k].up => payload = Payload(request[k].agent)
    <3>1. CASE k = r
      <4>1. environment'[r] = EnvOf(r, r)
        BY <2>1 DEF EnvironmentBuilt
      <4> QED
        BY <3>1, <4>1 DEF EnvOf, PayloadOf
    <3>2. CASE k # r
      <4>1. process'[k] = process[k] /\ environment'[k] = environment[k]
        BY <1>1, <2>1, <3>2 DEF EnvironmentBuilt, Attempts
      <4> QED
        BY <2>3, <4>1 DEF EnvironmentBuilt
    <3> QED
      BY <3>1, <3>2
  <2> QED
    BY <2>1, <2>2, <2>3 DEF EnvironmentBuilt, Config
<1>2. ASSUME UNCHANGED <<request, environment>>,
             DOMAIN process' = Attempts,
             \A r \in Runs : process'[r] # "none" => process[r] # "none"
      PROVE  EnvironmentBuilt'
  BY <1>2 DEF EnvironmentBuilt, Config
<1>3. CASE UNCHANGED <<request, environment, process>>
  BY <1>2, <1>3 DEF EnvironmentBuilt
<1>4. ASSUME NEW r \in Runs, RunStep(r) PROVE EnvironmentBuilt'
  <2>1. \/ UNCHANGED <<request, environment, process>>
        \/ /\ UNCHANGED request
           /\ process' = [process EXCEPT ![r] = "booting"]
           /\ environment' = [environment EXCEPT ![r] = EnvOf(r, r)]
    BY <1>4 DEF RunStep, Begin, Classify, Claim, Provision, Spawn, Record, ClearResidue,
                Terminate, AwaitExit, DeadlinePasses, RunDies
  <2> QED
    BY <1>1, <1>3, <2>1
<1>5. ASSUME NEW p \in Attempts, ComesOnline(p) \/ LogsFatal(p) \/ Exits(p)
      PROVE  EnvironmentBuilt'
  <2>1. /\ UNCHANGED <<request, environment>> /\ DOMAIN process' = Attempts
        /\ process[p] # "none" /\ \A q \in Attempts \ {p} : process'[q] = process[q]
    BY <1>5 DEF ComesOnline, LogsFatal, Exits, ProcessAlive, EnvironmentBuilt
  <2> QED
    BY <1>2, <2>1 DEF Attempts
<1>6. CASE KeyLost \/ UNCHANGED localVars
  BY <1>3, <1>6 DEF KeyLost, localVars
<1> QED
  BY <1>4, <1>5, <1>6 DEF LocalNext

(* Whatever the request, the residue on the machine, the launch block and the shell, a  *)
(* process gets the relay, the gate and the attempt of the run that started it, no key of *)
(* any identity, and of this program's variables what it would get in a shell that has set *)
(* none: by what buildAgentEnv returns, each process having the environment its run built. *)
THEOREM LaunchAuthoritative ==
  ASSUME NEW Requests, NEW Residues
  PROVE  LocalSpec(Requests, Residues) => []LaunchIsAuthoritative
<1>1. LocalInit(Requests, Residues) => EnvironmentBuilt
  <2> SUFFICES ASSUME LocalInit(Requests, Residues) PROVE EnvironmentBuilt
    OBVIOUS
  <2>1. PICK left \in Residues : process = [p \in Attempts |->
                                              IF p = Old THEN left.process ELSE "none"]
    BY DEF LocalInit
  <2>2. DOMAIN environment = Attempts
    BY DEF LocalInit
  <2> QED
    BY <2>1, <2>2, OldIsNoRun DEF EnvironmentBuilt, Attempts
<1>2. EnvironmentBuilt /\ [LocalNext]_localVars => EnvironmentBuilt'
  BY EnvironmentKept
<1>3. EnvironmentBuilt => LaunchIsAuthoritative
  <2> SUFFICES ASSUME EnvironmentBuilt, NEW r \in Runs, process[r] # "none"
               PROVE  LET env == environment[r] IN
                      /\ DOMAIN env \cap IdentityKeys = {}
                      /\ env["AUTOGENT_PRESENCE"] = "true"
                      /\ env["BUZZ_MANAGED_AGENT_START_NONCE"] = r
                      /\ ~ request[r].up =>
                           LET wanted == Payload(request[r].agent)
                               unset == BuildAgentEnv(wanted, Place(Config(r), r),
                                                      Config(r).logLevel, <<>>) IN
                           /\ env["AUTOGENT_RELAY_URL"] = request[r].agent.relayUrl
                           /\ env["AUTOGENT_RESPOND_TO"] = wanted.respondTo
                           /\ Get(env, "AUTOGENT_RESPOND_TO_ALLOWLIST")
                                \in {None, request[r].agent.allowlist}
                           /\ \A k \in OwnNames : Get(env, k) = Get(unset, k)
    BY DEF LaunchIsAuthoritative
  <2> DEFINE place == Place(Config(r), r)
             level == Config(r).logLevel
  <2>1. PICK payload : /\ environment[r] = BuildAgentEnv(payload, place, level, Ambient)
                       /\ ~ request[r].up => payload = Payload(request[r].agent)
    BY DEF EnvironmentBuilt
  <2>2. place.generation = r
    BY DEF Place
  <2> HIDE DEF place, level
  <2>3. LET env == environment[r] IN
        /\ DOMAIN env \cap IdentityKeys = {}
        /\ env["AUTOGENT_RELAY_URL"] = payload.relayUrl
        /\ env["AUTOGENT_RESPOND_TO"] = payload.respondTo
        /\ env["AUTOGENT_PRESENCE"] = "true"
        /\ env["BUZZ_MANAGED_AGENT_START_NONCE"] = r
        /\ Get(env, "AUTOGENT_RESPOND_TO_ALLOWLIST") \in {None, payload.allowlist}
    BY <2>1, <2>2, EnvironmentIsAuthoritative
  <2>4. ASSUME NEW k \in OwnNames
        PROVE  Get(environment[r], k) = Get(BuildAgentEnv(payload, place, level, <<>>), k)
    BY <2>1, ShellNeverLeaks
  <2>5. LET wanted == Payload(request[r].agent) IN
        wanted.relayUrl = request[r].agent.relayUrl /\ wanted.allowlist = request[r].agent.allowlist
    BY DEF Payload
  <2> QED
    BY <2>1, <2>3, <2>4, <2>5 DEF place, level
<1> QED
  BY <1>1, <1>2, <1>3, PTL DEF LocalSpec

-----------------------------------------------------------------------------
(* The commands on one state directory *)

HeldFields == {"pc", "agent", "record", "artifact", "broker"}

\* Steps before the record is sealed, of the commands that seal one.
Sealing == {"seal", "writeKey", "renameKey", "writeRecord", "renameRecord"}

\* What command c holds fits the step it is at.
HeldOK(c) ==
  /\ DOMAIN command[c] = HeldFields
  /\ Held(c).pc \in Sealing => Kind(c) \in DOMAIN AfterRecord
  /\ Held(c).pc \in {"check", "provision"} => Kind(c) = "import"
  /\ Held(c).pc = "secret" => raced \/ Held(c).agent = key
  /\ Held(c).pc \in {"build", "running"} => raced \/ Held(c).broker = Held(c).agent
  /\ Held(c).pc = "running" => Attested(Held(c).record.auth, Held(c).agent, None)

HoldingInv == DOMAIN command = Commands /\ \A c \in Commands : HeldOK(c)

\* A step of c keeps what the others hold.
LEMMA HoldingKept ==
  ASSUME HoldingInv, NEW c \in Commands, UNCHANGED asked,
         DOMAIN command' = Commands, \A k \in Commands \ {c} : command'[k] = command[k],
         \/ UNCHANGED <<key, raced>>
         \/ (raced => raced') /\ (raced' \/ \A k \in Commands \ {c} : Held(k).pc # "secret"),
         HeldOK(c)'
  PROVE  HoldingInv'
<1> SUFFICES ASSUME NEW k \in Commands \ {c} PROVE HeldOK(k)'
  BY DEF HoldingInv
<1>1. HeldOK(k) /\ command'[k] = command[k]
  BY DEF HoldingInv
<1> QED
  BY <1>1 DEF HeldOK, Held, Kind

\* Each step of a provisioning command keeps what it holds fit for the next one.
LEMMA CommandKept ==
  ASSUME HoldingInv, NEW c \in Commands, CommandStep(c)
  PROVE  HoldingInv'
<1>0. DOMAIN command = Commands /\ HeldOK(c)
  BY DEF HoldingInv
<1> USE DEF Held, Kind, Move, files
<1>1. CASE InitIdentity(c)
  <2>1. HeldOK(c)'
    BY <1>0, <1>1 DEF InitIdentity, HeldOK, HeldFields, Sealing, AfterRecord
  <2>4. /\ UNCHANGED <<asked, key, raced>> /\ DOMAIN command' = Commands
        /\ \A k \in Commands \ {c} : command'[k] = command[k]
    BY <1>0, <1>1 DEF InitIdentity
  <2> QED
    BY <2>1, <2>4, HoldingKept
<1>2. CASE Seal(c) \/ WriteKey(c) \/ WriteRecord(c)
  <2>1. HeldOK(c)'
    BY <1>0, <1>2 DEF Seal, WriteKey, WriteRecord, HeldOK, HeldFields, Sealing
  <2>4. /\ UNCHANGED <<asked, key, raced>> /\ DOMAIN command' = Commands
        /\ \A k \in Commands \ {c} : command'[k] = command[k]
    BY <1>0, <1>2 DEF Seal, WriteKey, WriteRecord
  <2> QED
    BY <2>1, <2>4, HoldingKept
<1>3. CASE RenameKey(c)
  <2>1. /\ DOMAIN command' = Commands /\ \A k \in Commands \ {c} : command'[k] = command[k]
        /\ DOMAIN command'[c] = HeldFields
        /\ command'[c].pc \in {"failed", "writeRecord"} /\ command[c].pc = "renameKey"
        /\ UNCHANGED asked
    BY <1>0, <1>3 DEF RenameKey, HeldOK, HeldFields
  <2>2. HeldOK(c)'
    BY <1>0, <2>1 DEF HeldOK, Sealing
  <2>3. \/ UNCHANGED <<key, raced>>
        \/ (raced => raced') /\ (raced' \/ \A k \in Commands \ {c} : command[k].pc # "secret")
    BY <1>3 DEF RenameKey, Relying
  <2> QED
    BY <1>0, <2>1, <2>2, <2>3, HoldingKept
<1>4. CASE RenameRecord(c)
  <2>1. command'[c].pc \in {"failed", "pairing", "load", "done"}
    BY <1>0, <1>4 DEF RenameRecord, HeldOK, HeldFields, Sealing, AfterRecord
  <2>2. DOMAIN command'[c] = HeldFields
    BY <1>0, <1>4 DEF RenameRecord, HeldOK, HeldFields
  <2>3. HeldOK(c)'
    BY <2>1, <2>2 DEF HeldOK, Sealing
  <2>4. /\ UNCHANGED <<asked, key, raced>> /\ DOMAIN command' = Commands
        /\ \A k \in Commands \ {c} : command'[k] = command[k]
    BY <1>0, <1>4 DEF RenameRecord
  <2> QED
    BY <2>3, <2>4, HoldingKept
<1>5. CASE WritePairingRequest(c) \/ ReadPairing(c) \/ Sign(c)
  <2>1. HeldOK(c)'
    BY <1>0, <1>5 DEF WritePairingRequest, ReadPairing, Sign, HeldOK, HeldFields, Sealing
  <2>4. /\ UNCHANGED <<asked, key, raced>> /\ DOMAIN command' = Commands
        /\ \A k \in Commands \ {c} : command'[k] = command[k]
    BY <1>0, <1>5 DEF WritePairingRequest, ReadPairing, Sign
  <2> QED
    BY <2>1, <2>4, HoldingKept
<1>6. CASE ReadArtifact(c) \/ CheckArtifact(c)
  <2>1. /\ DOMAIN command'[c] = HeldFields
        /\ command'[c].pc \in {"failed", "check", "provision"} /\ Kind(c) = "import"
    <3>1. CASE ReadArtifact(c)
      BY <1>0, <3>1 DEF ReadArtifact, HeldOK, HeldFields
    <3>2. CASE CheckArtifact(c)
      BY <1>0, <3>2 DEF CheckArtifact, HeldOK, HeldFields
    <3> QED
      BY <1>6, <3>1, <3>2
  <2>2. UNCHANGED asked
    BY <1>6 DEF ReadArtifact, CheckArtifact
  <2>3. HeldOK(c)'
    BY <2>1, <2>2 DEF HeldOK, Sealing, AfterRecord
  <2>4. /\ UNCHANGED <<asked, key, raced>> /\ DOMAIN command' = Commands
        /\ \A k \in Commands \ {c} : command'[k] = command[k]
    BY <1>0, <1>6 DEF ReadArtifact, CheckArtifact
  <2> QED
    BY <2>3, <2>4, HoldingKept
<1>7. CASE RecordProvisioning(c)
  <2>1. HeldOK(c)'
    BY <1>0, <1>7 DEF RecordProvisioning, HeldOK, HeldFields, Sealing, AfterRecord
  <2>4. /\ UNCHANGED <<asked, key, raced>> /\ DOMAIN command' = Commands
        /\ \A k \in Commands \ {c} : command'[k] = command[k]
    BY <1>0, <1>7 DEF RecordProvisioning
  <2> QED
    BY <2>1, <2>4, HoldingKept
<1>8. CASE Bootstrap(c) \/ LoadRecord(c)
  <2>1. HeldOK(c)'
    BY <1>0, <1>8 DEF Bootstrap, LoadRecord, HeldOK, HeldFields, Sealing, AfterRecord
  <2>4. /\ UNCHANGED <<asked, key, raced>> /\ DOMAIN command' = Commands
        /\ \A k \in Commands \ {c} : command'[k] = command[k]
    BY <1>0, <1>8 DEF Bootstrap, LoadRecord
  <2> QED
    BY <2>1, <2>4, HoldingKept
<1>9. CASE LoadSigner(c) \/ LoadSecret(c)
  <2>1. HeldOK(c)'
    BY <1>0, <1>9 DEF LoadSigner, LoadSecret, HeldOK, HeldFields, Sealing
  <2>4. /\ UNCHANGED <<asked, key, raced>> /\ DOMAIN command' = Commands
        /\ \A k \in Commands \ {c} : command'[k] = command[k]
    BY <1>0, <1>9 DEF LoadSigner, LoadSecret
  <2> QED
    BY <2>1, <2>4, HoldingKept
<1>10. CASE BuildEvents(c)
  <2>1. HeldOK(c)'
    BY <1>0, <1>10 DEF BuildEvents, HeldOK, HeldFields, Sealing
  <2>4. /\ UNCHANGED <<asked, key, raced>> /\ DOMAIN command' = Commands
        /\ \A k \in Commands \ {c} : command'[k] = command[k]
    BY <1>0, <1>10 DEF BuildEvents
  <2> QED
    BY <2>1, <2>4, HoldingKept
<1>11. CASE CommandDies(c)
  <2>1. HeldOK(c)'
    BY <1>0, <1>11 DEF CommandDies, HeldOK, HeldFields, Sealing
  <2>4. /\ UNCHANGED <<asked, key, raced>> /\ DOMAIN command' = Commands
        /\ \A k \in Commands \ {c} : command'[k] = command[k]
    BY <1>0, <1>11 DEF CommandDies
  <2> QED
    BY <2>1, <2>4, HoldingKept
<1> QED
  BY <1>1, <1>2, <1>3, <1>4, <1>5, <1>6, <1>7, <1>8, <1>9, <1>10, <1>11 DEF CommandStep

(* However provisioning commands interleave, fail and die, an agent that runs signs with *)
(* a key that another has attested for every kind it publishes, and its broker has the same *)
(* key, outside the window of two commands sealing at once. The invariant says the same of *)
(* the key, the record and the broker a command holds at each of its steps.             *)
THEOREM AgentActsAttested ==
  ASSUME NEW Asked, NEW Artifacts
  PROVE  ProvisioningSpec(Asked, Artifacts) => []ActsAttested
<1>1. ProvisioningInit(Asked, Artifacts) => HoldingInv
  BY DEF ProvisioningInit, HoldingInv, HeldOK, HeldFields, Held, Sealing
<1>2. HoldingInv /\ [ProvisioningNext]_provisioningVars => HoldingInv'
  <2>1. CASE UNCHANGED provisioningVars
    BY <2>1 DEF provisioningVars, files, HoldingInv, HeldOK, Held, Kind
  <2> QED
    BY <2>1, CommandKept DEF ProvisioningNext
<1>3. HoldingInv => ActsAttested
  BY DEF HoldingInv, HeldOK, ActsAttested, Attested
<1> QED
  BY <1>1, <1>2, <1>3, PTL DEF ProvisioningSpec

-----------------------------------------------------------------------------
(* The jobs on one cluster: what each carries fits its step *)

JobFields == {"pc", "agent", "profile", "payload", "auth", "seen"}
DeployKinds == {"deploy", "redeploy"}

\* Which jobs come to which step.
StepFits(kind, pc) ==
  /\ pc \in {"publish", "image", "secret", "sweep", "unmarked"} \cup Unlisted \cup Marking =>
       kind \in DeployKinds
  /\ pc \in {"bind", "rebind", "publishAuth"} => kind \in DeployKinds \cup Renewals
  /\ pc = "store" => kind \in DeployKinds \cup {"push"}
  /\ pc \in {"readPod", "readSecret"} => kind \in {"redeploy", "push"}
  /\ pc = "connect" => kind \in {"login", "revoke", "config"}
  /\ pc = "menu" => kind \in MenuKinds
  /\ pc \in {"save", "saving"} => kind \in {"create", "edit"}

\* Steps of a job that has accounts to store, to bind or to publish.
HasAccounts(kind, pc) ==
  \/ pc \in {"bind", "rebind", "store", "publish", "publishAuth"}
  \/ kind = "push" /\ pc \in {"readPod", "readSecret"}
  \/ kind = "login" /\ pc = "connect"

\* What job j carries fits the step it is at.
JobOK(j) ==
  LET kind == order[j].kind
      pc == job[j].pc IN
  /\ DOMAIN job[j] = JobFields
  /\ Askable(order[j])
  /\ StepFits(kind, pc)
  /\ HasAccounts(kind, pc) => job[j].auth # {}
  /\ kind \in DeployKinds /\ pc \notin {"new", "menu", "failed"} => job[j].agent # None
  /\ kind \in {"login", "revoke"} /\ pc # "new" => job[j].agent = order[j].of
  /\ pc = "new" => job[j].agent = None
  /\ kind \in {"deploy", "create"} => pc # "menu"
  /\ kind = "create" => job[j].profile = None

JobsOK == DOMAIN job = Jobs /\ \A j \in Jobs : JobOK(j)

\* Only job j takes a step.
OnlyJob(j) ==
  /\ UNCHANGED order
  /\ DOMAIN job' = Jobs
  /\ \A k \in Jobs \ {j} : job'[k] = job[k]

\* Choosing a login refuses the job, or gives it accounts and a next step.
LEMMA WithCredentialFields ==
  ASSUME NEW w, DOMAIN w = JobFields, NEW login
  PROVE  LET v == WithCredential(w, login) IN
         /\ DOMAIN v = JobFields
         /\ v.agent = w.agent /\ v.profile = w.profile /\ v.payload = w.payload
         /\ v.seen = w.seen
         /\ v.pc \in {"publish", "bind", "failed"}
         /\ v.pc # "failed" => v.auth # {}
BY DEF WithCredential, JobFields

\* A job that starts is refused, or carries what its first step needs.
LEMMA StartsFit ==
  ASSUME JobsOK, NEW j \in Jobs,
         StartDeploy(j) \/ StartRedeploy(j) \/ StartPush(j) \/ StartCommand(j) \/ OpenMenu(j)
           \/ StartCreate(j)
  PROVE  OnlyJob(j) /\ JobOK(j)'
<1>0. DOMAIN job = Jobs /\ JobOK(j)
  BY DEF JobsOK
<1>1. OnlyJob(j)
  BY <1>0 DEF OnlyJob, StartDeploy, StartRedeploy, StartPush, StartCommand, OpenMenu, StartCreate
<1>2. CASE StartDeploy(j)
  <2>1. CASE ~ Deployable(order[j].agent) \/ Profile(j) = None
    BY <1>0, <1>1, <1>2, <2>1 DEF StartDeploy, OnlyJob, JobOK, StepFits, HasAccounts, JobFields,
       DeployKinds, Unlisted, Marking
  <2>2. CASE ~ (~ Deployable(order[j].agent) \/ Profile(j) = None)
    <3> DEFINE w == [job[j] EXCEPT !.agent = order[j].agent.nsec, !.profile = Profile(j),
                                   !.payload = Payload(order[j].agent)]
    <3>1. /\ DOMAIN w = JobFields /\ w.agent = order[j].agent.nsec
      BY <1>0 DEF JobOK, JobFields
    <3>2. job'[j] = WithCredential(w, profileAuth[order[j].profile])
      BY <1>0, <1>2, <2>2 DEF StartDeploy
    <3>3. order[j].agent.nsec # None
      BY <2>2, NoneIsNobody DEF Deployable
    <3> HIDE DEF w
    <3>4. /\ DOMAIN job'[j] = JobFields /\ job'[j].agent = w.agent
          /\ job'[j].pc \in {"publish", "bind", "failed"}
          /\ job'[j].pc # "failed" => job'[j].auth # {}
      BY <3>1, <3>2, WithCredentialFields
    <3> QED
      BY <1>0, <1>1, <1>2, <3>1, <3>3, <3>4 DEF StartDeploy, OnlyJob, JobOK, StepFits,
         HasAccounts, DeployKinds, Unlisted, Marking
  <2> QED
    BY <2>1, <2>2
<1>3. CASE StartRedeploy(j)
  BY <1>0, <1>1, <1>3 DEF StartRedeploy, OnlyJob, JobOK, StepFits, HasAccounts, JobFields,
     DeployKinds, Unlisted, Marking
<1>4. CASE StartPush(j)
  BY <1>0, <1>1, <1>4 DEF StartPush, OnlyJob, JobOK, StepFits, HasAccounts, JobFields,
     DeployKinds, Unlisted, Marking, Askable, Renewals
<1>5. CASE StartCommand(j)
  <2>1. /\ order[j].kind \in {"login", "revoke", "config"}
        /\ job'[j].pc = IF order[j].kind = "login" THEN "login" ELSE "connect"
        /\ job'[j].agent = order[j].of /\ DOMAIN job'[j] = JobFields
    BY <1>0, <1>5 DEF StartCommand, FirstStep, JobOK, JobFields
  <2> QED
    BY <1>0, <1>1, <2>1 DEF OnlyJob, JobOK, StepFits, HasAccounts, JobFields,
       DeployKinds, Unlisted, Marking, Renewals
<1>6. CASE OpenMenu(j)
  <2>1. /\ order[j].kind \in MenuKinds /\ job[j].pc = "new"
        /\ job'[j].pc \in {"menu", "failed"} /\ DOMAIN job'[j] = JobFields
        /\ job'[j].agent = job[j].agent /\ job'[j].auth = job[j].auth
    BY <1>0, <1>6 DEF OpenMenu, JobOK, JobFields
  <2>2. Askable(order[j]) /\ order' = order
    BY <1>0, <1>1 DEF JobOK, OnlyJob
  <2>3. StepFits(order[j].kind, job'[j].pc) /\ ~ HasAccounts(order[j].kind, job'[j].pc)
    BY <2>1 DEF StepFits, HasAccounts, Unlisted, Marking
  <2> QED
    BY <1>1, <2>1, <2>2, <2>3 DEF JobOK, MenuKinds, DeployKinds
<1>7. CASE StartCreate(j)
  BY <1>0, <1>1, <1>7 DEF StartCreate, OnlyJob, JobOK, StepFits, HasAccounts, JobFields,
     DeployKinds, Unlisted, Marking
<1> QED
  BY <1>1, <1>2, <1>3, <1>4, <1>5, <1>6, <1>7

\* The steps of a login, a deploy and a push around the bindings.
LEMMA BindingsFit ==
  ASSUME JobsOK, NEW j \in Jobs,
         Bind(j) \/ Rebind(j) \/ Store(j) \/ ReadPod(j) \/ Login(j) \/ ConnectAsAgent(j)
  PROVE  OnlyJob(j) /\ JobOK(j)'
<1>0. DOMAIN job = Jobs /\ JobOK(j)
  BY DEF JobsOK
<1>1. OnlyJob(j)
  BY <1>0 DEF OnlyJob, Bind, Rebind, Store, ReadPod, Login, ConnectAsAgent, Step
<1>2. CASE Bind(j) \/ Rebind(j)
  BY <1>0, <1>1, <1>2 DEF Bind, Rebind, Step, AfterRebind, OnlyJob, JobOK, StepFits, HasAccounts, JobFields,
     DeployKinds, Unlisted, Marking, Renewals
<1>3. CASE Store(j) \/ ReadPod(j)
  BY <1>0, <1>1, <1>3 DEF Store, ReadPod, Step, OnlyJob, JobOK, StepFits, HasAccounts, JobFields,
     DeployKinds, Unlisted, Marking, Renewals
<1>4. CASE Login(j)
  BY <1>0, <1>1, <1>4 DEF Login, OnlyJob, JobOK, StepFits, HasAccounts, JobFields,
     DeployKinds, Unlisted, Marking, Renewals, Askable
<1>5. CASE ConnectAsAgent(j)
  <2>1. /\ job[j].pc = "connect" /\ DOMAIN job'[j] = JobFields
        /\ job'[j].agent = job[j].agent /\ job'[j].auth = job[j].auth
        /\ job'[j].profile = job[j].profile
        /\ \/ job'[j].pc \in {"local", "failed"}
           \/ order[j].kind = "login" /\ job'[j].pc = "publishAuth"
           \/ order[j].kind = "revoke" /\ job'[j].pc = "tombstone"
           \/ order[j].kind = "config" /\ job'[j].pc = "publishCore"
    BY <1>0, <1>5 DEF ConnectAsAgent, JobOK, StepFits, JobFields
  <2> QED
    BY <1>0, <1>1, <2>1 DEF OnlyJob, JobOK, StepFits, HasAccounts, JobFields,
       DeployKinds, Unlisted, Marking, Renewals
<1> QED
  BY <1>1, <1>2, <1>3, <1>4, <1>5

\* A redeploy and a push recover from the running agent's Secret what they go on with.
LEMMA ReadSecretFits ==
  ASSUME JobsOK, NEW j \in Jobs, ReadSecret(j)
  PROVE  OnlyJob(j) /\ JobOK(j)'
<1>0. DOMAIN job = Jobs /\ JobOK(j)
  BY DEF JobsOK
<1>1. OnlyJob(j)
  BY <1>0 DEF OnlyJob, ReadSecret
<1>2. CASE order[j].kind = "push" \/ ~ BootstrapFound(job[j].agent)
  BY <1>0, <1>1, <1>2 DEF ReadSecret, OnlyJob, JobOK, StepFits, HasAccounts, JobFields,
     DeployKinds, Unlisted, Marking, Renewals
<1>3. CASE ~ (order[j].kind = "push" \/ ~ BootstrapFound(job[j].agent))
  <2> DEFINE w == [job[j] EXCEPT !.payload =
                     Reconstructed(job[j].agent, order[j].profile, job[j].seen)]
  <2>1. DOMAIN w = JobFields /\ w.agent = job[j].agent /\ w.profile = job[j].profile
    BY <1>0 DEF JobOK, JobFields
  <2>2. job'[j] = WithCredential(w, profileAuth[order[j].profile])
    BY <1>0, <1>3 DEF ReadSecret
  <2> HIDE DEF w
  <2>3. /\ DOMAIN job'[j] = JobFields /\ job'[j].agent = w.agent
        /\ job'[j].pc \in {"publish", "bind", "failed"}
        /\ job'[j].pc # "failed" => job'[j].auth # {}
    BY <2>1, <2>2, WithCredentialFields
  <2> QED
    BY <1>0, <1>1, <1>3, <2>1, <2>3 DEF ReadSecret, OnlyJob, JobOK, StepFits,
       HasAccounts, DeployKinds, Unlisted, Marking, Renewals
<1> QED
  BY <1>1, <1>2, <1>3

\* A deploy that is not refused has read its profile, and binds or publishes.
LEMMA DeployStarts ==
  ASSUME JobsOK, NEW j \in Jobs, StartDeploy(j)
  PROVE  /\ order[j].kind = "deploy" /\ job[j].pc = "new"
         /\ job'[j].pc \in {"publish", "bind", "failed"}
         /\ job'[j].pc # "failed" => profiles[order[j].profile] # None
<1>0. DOMAIN job = Jobs /\ DOMAIN job[j] = JobFields
  BY DEF JobsOK, JobOK
<1>1. CASE ~ Deployable(order[j].agent) \/ Profile(j) = None
  BY <1>0, <1>1 DEF StartDeploy, JobFields
<1>2. CASE ~ (~ Deployable(order[j].agent) \/ Profile(j) = None)
  <2> DEFINE w == [job[j] EXCEPT !.agent = order[j].agent.nsec, !.profile = Profile(j),
                                 !.payload = Payload(order[j].agent)]
  <2>1. DOMAIN w = JobFields
    BY <1>0 DEF JobFields
  <2>2. job'[j] = WithCredential(w, profileAuth[order[j].profile])
    BY <1>0, <1>2 DEF StartDeploy
  <2> HIDE DEF w
  <2>3. job'[j].pc \in {"publish", "bind", "failed"}
    BY <2>1, <2>2, WithCredentialFields
  <2> QED
    BY <1>2, <2>3 DEF StartDeploy, Profile
<1> QED
  BY <1>1, <1>2

\* A redeploy that has found its identity goes through the whole deploy.
LEMMA SecretRead ==
  ASSUME JobsOK, NEW j \in Jobs, ReadSecret(j)
  PROVE  /\ order[j].kind \in {"redeploy", "push"} /\ job[j].pc = "readSecret"
         /\ order[j].kind = "push" => job'[j].pc \in {"publishAuth", "local"}
         /\ order[j].kind = "redeploy" => job'[j].pc \in {"publish", "bind", "failed"}
         /\ job'[j].agent = job[j].agent
         /\ UNCHANGED <<profiles, lost, bindings, agentAuth, torn, head, secrets, pod, crossed>>
<1>0. DOMAIN job = Jobs /\ DOMAIN job[j] = JobFields /\ StepFits(order[j].kind, job[j].pc)
  BY DEF JobsOK, JobOK
<1>1. order[j].kind \in {"redeploy", "push"} /\ job[j].pc = "readSecret"
  BY <1>0 DEF ReadSecret, StepFits
<1>2. UNCHANGED <<profiles, lost, bindings, agentAuth, torn, head, secrets, pod, crossed>>
  BY DEF ReadSecret, stores, cluster
<1>3. CASE order[j].kind = "push" \/ ~ BootstrapFound(job[j].agent)
  BY <1>0, <1>1, <1>3, <1>2 DEF ReadSecret, JobFields
<1>4. CASE ~ (order[j].kind = "push" \/ ~ BootstrapFound(job[j].agent))
  <2> DEFINE w == [job[j] EXCEPT !.payload =
                     Reconstructed(job[j].agent, order[j].profile, job[j].seen)]
  <2>1. DOMAIN w = JobFields /\ w.agent = job[j].agent
    BY <1>0 DEF JobFields
  <2>2. job'[j] = WithCredential(w, profileAuth[order[j].profile])
    BY <1>0, <1>4 DEF ReadSecret
  <2> HIDE DEF w
  <2>3. job'[j].pc \in {"publish", "bind", "failed"} /\ job'[j].agent = w.agent
    BY <2>1, <2>2, WithCredentialFields
  <2> QED
    BY <1>1, <1>4, <1>2, <2>1, <2>3
<1> QED
  BY <1>3, <1>4

\* The steps of a deploy and a push on the relay, the cluster and the registry.
LEMMA ObjectsFit ==
  ASSUME JobsOK, NEW j \in Jobs,
         \/ Publish(j) \/ PublishAuth(j) \/ ResolveImage(j) \/ ApplySecret(j) \/ Look(j)
         \/ Replace(j) \/ ApplyPod(j) \/ Poll(j) \/ ListSecrets(j) \/ Sweep(j) \/ Mark(j)
         \/ WriteMark(j) \/ JobFails(j)
  PROVE  OnlyJob(j) /\ JobOK(j)'
<1>0. DOMAIN job = Jobs /\ JobOK(j)
  BY DEF JobsOK
<1>1. OnlyJob(j)
  BY <1>0 DEF OnlyJob, Publish, PublishAuth, ResolveImage, ApplySecret, Look, Replace, ApplyPod,
     Poll, ListSecrets, Sweep, Mark, WriteMark, JobFails, Step
<1> USE DEF Step, OnlyJob, JobOK, StepFits, HasAccounts, JobFields,
            DeployKinds, Unlisted, Marking, Renewals
<1>2. CASE Publish(j) \/ PublishAuth(j) \/ ResolveImage(j)
  BY <1>0, <1>1, <1>2 DEF Publish, PublishAuth, ResolveImage
<1>3. CASE ApplySecret(j) \/ Look(j) \/ Replace(j)
  BY <1>0, <1>1, <1>3 DEF ApplySecret, Look, Replace
<1>4. CASE ApplyPod(j) \/ Poll(j) \/ ListSecrets(j)
  BY <1>0, <1>1, <1>4 DEF ApplyPod, Poll, ListSecrets
<1>5. CASE Sweep(j) \/ Mark(j) \/ WriteMark(j)
  BY <1>0, <1>1, <1>5 DEF Sweep, Mark, WriteMark
<1>6. CASE JobFails(j)
  BY <1>0, <1>1, <1>6 DEF JobFails, Over, AfterStored
<1> QED
  BY <1>1, <1>2, <1>3, <1>4, <1>5, <1>6

\* The steps of the owner's commands and of the profile menu.
LEMMA OwnersFit ==
  ASSUME JobsOK, NEW j \in Jobs,
         \/ Tombstone(j) \/ ReadBindings(j) \/ RemoveBinding(j) \/ PublishCore(j) \/ VerifyCore(j)
         \/ Answered(j) \/ Cancelled(j) \/ Edit(j) \/ ReadRegistry(j) \/ SaveProfile(j)
         \/ Delete(j) \/ DropProfile(j) \/ DropLogin(j) \/ Kill(j)
  PROVE  OnlyJob(j) /\ JobOK(j)'
<1>0. DOMAIN job = Jobs /\ JobOK(j)
  BY DEF JobsOK
<1>1. OnlyJob(j)
  BY <1>0 DEF OnlyJob, Tombstone, ReadBindings, RemoveBinding, PublishCore, VerifyCore, Answered,
     Cancelled, Edit, ReadRegistry, SaveProfile, Delete, DropProfile, DropLogin, Kill, Step,
     Commanded, Chosen
<1> USE DEF Step, Commanded, Chosen, OnlyJob, JobOK, StepFits, HasAccounts, JobFields,
            DeployKinds, Unlisted, Marking, Renewals
<1>2. CASE Tombstone(j) \/ ReadBindings(j) \/ RemoveBinding(j)
  BY <1>0, <1>1, <1>2 DEF Tombstone, ReadBindings, RemoveBinding
<1>3. CASE PublishCore(j) \/ VerifyCore(j)
  BY <1>0, <1>1, <1>3 DEF PublishCore, VerifyCore
<1>4. CASE Answered(j) \/ Cancelled(j) \/ Edit(j)
  BY <1>0, <1>1, <1>4 DEF Answered, Cancelled, Edit
<1>5. CASE ReadRegistry(j) \/ SaveProfile(j)
  BY <1>0, <1>1, <1>5 DEF ReadRegistry, SaveProfile
<1>6. CASE Delete(j) \/ DropProfile(j)
  BY <1>0, <1>1, <1>6 DEF Delete, DropProfile
<1>7. CASE DropLogin(j) \/ Kill(j)
  BY <1>0, <1>1, <1>7 DEF DropLogin, Kill
<1> QED
  BY <1>1, <1>2, <1>3, <1>4, <1>5, <1>6, <1>7

\* Every job always carries what its step needs.
LEMMA JobsKept ==
  ASSUME JobsOK, [ClusterNext]_kubeVars
  PROVE  JobsOK'
<1>1. ASSUME NEW j \in Jobs, OnlyJob(j), JobOK(j)' PROVE JobsOK'
  BY <1>1 DEF JobsOK, OnlyJob, JobOK
<1>2. ASSUME NEW j \in Jobs, JobStep(j) \/ OwnerStep(j) \/ MenuStep(j) PROVE JobsOK'
  BY <1>1, <1>2, StartsFit, BindingsFit, ReadSecretFits, ObjectsFit, OwnersFit
     DEF JobStep, OwnerStep, MenuStep
<1>3. ASSUME UNCHANGED <<order, job>> PROVE JobsOK'
  BY <1>3 DEF JobsOK, JobOK
<1>4. ASSUME NEW a \in Names, PodStarts(a) \/ ImageRefused(a) \/ PodEnds(a) PROVE JobsOK'
  BY <1>3, <1>4 DEF PodStarts, ImageRefused, PodEnds, SetPhase
<1> QED
  BY <1>2, <1>3, <1>4 DEF ClusterNext, KubeNext, OwnerNext, MenuNext, kubeVars

\* A job that has not started carries nothing.
LEMMA JobsStart ==
  ASSUME NEW Orders, NEW Worlds, \A o \in Orders : \A j \in Jobs : Askable(o[j]),
         KubeInit(Orders, Worlds)
  PROVE  JobsOK
BY DEF KubeInit, JobsOK, JobOK, Fresh, JobFields, StepFits, HasAccounts, Unlisted, Marking

-----------------------------------------------------------------------------
(* The registry of profiles *)

Creates(p) == {j \in Jobs : order[j].kind = "create" /\ order[j].profile = p}

EditHolds(j) ==
  order[j].kind = "edit" /\ job[j].pc \in {"menu", "save", "saving"} => job[j].profile # None

AtWork(j) ==
  order[j].kind \in {"deploy", "redeploy", "edit"} /\ job[j].pc \notin {"new", "failed"} =>
    profiles[order[j].profile] # None \/ Deletions(order[j].profile) # {}

GoneFor(j) ==
  LET name == order[j].profile IN
  Creates(name) = {} =>
    /\ order[j].kind \in DeployKinds /\ job[j].pc = "marked" /\ job[j].seen[name] = None
         => profiles[name] = None
    /\ order[j].kind = "delete" /\ job[j].pc = "dropped" => profiles[name] = None

RegistryShape ==
  /\ DOMAIN profiles = Profiles
  /\ \A p \in Profiles : profiles[p] # None => DOMAIN profiles[p] = ProfileFields

RegistryInv ==
  /\ lost \in BOOLEAN
  /\ \A j \in Jobs : EditHolds(j)
  /\ lost \/ /\ RegistryShape
             /\ \A j \in Jobs : AtWork(j) /\ GoneFor(j)
             /\ RegistryKeepsWork

\* A step of job j that leaves the registry alone.
Quiet(j) ==
  LET kind == order[j].kind
      name == order[j].profile
      was == job[j].pc
      is == job'[j].pc IN
  /\ j \in Jobs /\ OnlyJob(j) /\ UNCHANGED <<profiles, lost>>
  /\ kind \in {"deploy", "redeploy", "edit"} /\ is \notin {"new", "failed"} =>
       was \notin {"new", "failed"} \/ profiles[name] # None
  /\ kind = "edit" /\ is \in {"menu", "save", "saving"} =>
       job'[j].profile # None
  /\ kind \in DeployKinds /\ is = "marked" =>
       job'[j].seen = profiles \/ (was = "marked" /\ job'[j].seen = job[j].seen)
  /\ kind \in DeployKinds /\ is = "done" =>
       was = "done" \/ (was = "marked" /\ job[j].seen[name] = None)
  /\ kind = "edit" => (is = "done" <=> was = "done")
  /\ kind = "delete" =>
       /\ is = "dropped" => was = "dropped"
       /\ is = "done" => was \in {"done", "dropped"} \/ profiles[name] = None
       /\ was \notin {"new", "menu", "drop"} => is \notin {"new", "menu", "drop"}

\* Of the backend, WriteMark alone writes the registry.
LEMMA BackendIsQuiet ==
  ASSUME JobsOK, RegistryInv, NEW j \in Jobs,
         \/ StartDeploy(j) \/ StartRedeploy(j) \/ StartPush(j)
         \/ Bind(j) \/ Rebind(j) \/ Store(j) \/ ReadPod(j) \/ ReadSecret(j)
         \/ Publish(j) \/ PublishAuth(j) \/ ResolveImage(j)
         \/ ApplySecret(j) \/ Look(j) \/ Replace(j) \/ ApplyPod(j) \/ Poll(j)
         \/ ListSecrets(j) \/ Sweep(j) \/ Mark(j) \/ JobFails(j)
  PROVE  Quiet(j)
<1>0. DOMAIN job = Jobs /\ JobOK(j) /\ EditHolds(j)
  BY DEF JobsOK, RegistryInv
<1>f. OnlyJob(j)
  BY StartsFit, BindingsFit, ReadSecretFits, ObjectsFit
<1>1. CASE StartDeploy(j)
  BY <1>f, <1>1, DeployStarts DEF StartDeploy, Quiet, stores, DeployKinds
<1>2. CASE ReadSecret(j)
  BY <1>f, <1>2, SecretRead DEF Quiet, stores, DeployKinds
<1> USE DEF Quiet, stores, cluster, DeployKinds, JobOK, JobFields, StepFits, Step, Unlisted, Marking,
            Renewals, EditHolds
<1>3. CASE StartRedeploy(j) \/ StartPush(j)
  BY <1>0, <1>f, <1>3 DEF StartRedeploy, StartPush
<1>4. CASE Bind(j) \/ Rebind(j) \/ Store(j) \/ ReadPod(j)
  BY <1>0, <1>f, <1>4 DEF Bind, Rebind, Store, ReadPod, AfterRebind
<1>5. CASE Publish(j) \/ PublishAuth(j) \/ ResolveImage(j)
  BY <1>0, <1>f, <1>5 DEF Publish, PublishAuth, ResolveImage
<1>6. CASE ApplySecret(j) \/ Look(j) \/ Replace(j) \/ ApplyPod(j) \/ Poll(j)
  BY <1>0, <1>f, <1>6 DEF ApplySecret, Look, Replace, ApplyPod, Poll
<1>7. CASE ListSecrets(j) \/ Sweep(j) \/ Mark(j)
  BY <1>0, <1>f, <1>7 DEF ListSecrets, Sweep, Mark
<1>8. CASE JobFails(j)
  BY <1>0, <1>f, <1>8 DEF JobFails, Over
<1> QED
  BY <1>1, <1>2, <1>3, <1>4, <1>5, <1>6, <1>7, <1>8

\* Of the owner's commands and the menu, SaveProfile and DropProfile alone write it.
LEMMA OwnerIsQuiet ==
  ASSUME JobsOK, RegistryInv, NEW j \in Jobs,
         \/ StartCommand(j) \/ Login(j) \/ ConnectAsAgent(j)
         \/ Tombstone(j) \/ ReadBindings(j) \/ RemoveBinding(j)
         \/ PublishCore(j) \/ VerifyCore(j)
         \/ OpenMenu(j) \/ StartCreate(j) \/ Answered(j) \/ Cancelled(j)
         \/ Edit(j) \/ ReadRegistry(j) \/ Delete(j) \/ DropLogin(j) \/ Kill(j)
  PROVE  Quiet(j)
<1>0. DOMAIN job = Jobs /\ JobOK(j) /\ EditHolds(j)
  BY DEF JobsOK, RegistryInv
<1>f. OnlyJob(j)
  BY StartsFit, BindingsFit, OwnersFit
<1> USE DEF Quiet, stores, cluster, DeployKinds, JobOK, JobFields, StepFits, Commanded, Chosen,
            EditHolds
<1>1. CASE StartCommand(j) \/ Login(j)
  <2>1. order[j].kind \in {"login", "revoke", "config"}
    BY <1>1 DEF StartCommand, Login, FirstStep
  <2> QED
    BY <1>0, <1>f, <1>1, <2>1 DEF StartCommand, Login
<1>2. CASE ConnectAsAgent(j)
  <2>1. order[j].kind \in {"login", "revoke", "config"}
    BY <1>0, <1>2 DEF ConnectAsAgent
  <2> QED
    BY <1>0, <1>f, <1>2, <2>1 DEF ConnectAsAgent
<1>3. CASE Tombstone(j) \/ ReadBindings(j) \/ RemoveBinding(j)
  BY <1>0, <1>f, <1>3 DEF Tombstone, ReadBindings, RemoveBinding
<1>4. CASE PublishCore(j) \/ VerifyCore(j)
  BY <1>0, <1>f, <1>4 DEF PublishCore, VerifyCore
<1>5. CASE OpenMenu(j)
  BY <1>0, <1>f, <1>5 DEF OpenMenu, Profile, MenuKinds
<1>6. CASE StartCreate(j) \/ Answered(j) \/ Cancelled(j)
  BY <1>0, <1>f, <1>6 DEF StartCreate, Answered, Cancelled
<1>7. CASE Edit(j) \/ ReadRegistry(j)
  BY <1>0, <1>f, <1>7 DEF Edit, ReadRegistry
<1>8. CASE Delete(j) \/ DropLogin(j) \/ Kill(j)
  BY <1>0, <1>f, <1>8 DEF Delete, DropLogin, Kill, Profile
<1> QED
  BY <1>1, <1>2, <1>3, <1>4, <1>5, <1>6, <1>7, <1>8

\* A deletion that has passed its write stays one.
LEMMA DeletionsGrow ==
  ASSUME JobsOK, NEW j \in Jobs, OnlyJob(j), NEW p,
         order[j].kind = "delete" /\ job[j].pc \notin {"new", "menu", "drop"} =>
           job'[j].pc \notin {"new", "menu", "drop"}
  PROVE  Deletions(p) \subseteq Deletions(p)'
BY DEF Deletions, OnlyJob

\* A step that leaves the registry alone takes its job only as far as the entry lets it.
LEMMA QuietKeeps ==
  ASSUME JobsOK, RegistryInv, NEW j \in Jobs, Quiet(j)
  PROVE  RegistryInv'
<1> USE DEF Quiet
<1>1. /\ order' = order /\ profiles' = profiles /\ lost' = lost
      /\ \A k \in Jobs \ {j} : job'[k] = job[k]
  BY DEF OnlyJob
<1>2. \A p : Creates(p)' = Creates(p) /\ Deletions(p) \subseteq Deletions(p)'
  BY <1>1, DeletionsGrow DEF Creates
<1>3. \A k \in Jobs : EditHolds(k)'
  BY <1>1 DEF RegistryInv, EditHolds
<1>4. CASE lost
  BY <1>1, <1>3, <1>4 DEF RegistryInv
<1>5. CASE ~ lost
  <2>0. /\ RegistryShape /\ RegistryKeepsWork
        /\ \A k \in Jobs : AtWork(k) /\ GoneFor(k)
        /\ \A k \in Jobs : JobOK(k)
    BY <1>5 DEF RegistryInv, JobsOK
  <2>1. RegistryShape'
    BY <1>1, <2>0 DEF RegistryShape
  <2>2. \A k \in Jobs : AtWork(k)'
    BY <1>1, <1>2, <2>0 DEF AtWork
  <2>3. \A k \in Jobs : GoneFor(k)'
    BY <1>1, <1>2, <2>0 DEF GoneFor, DeployKinds
  <2>4. RegistryKeepsWork'
    <3> SUFFICES ASSUME NEW p \in Profiles
                 PROVE  LET deploys == DoneJobs("deploy", p) \cup DoneJobs("redeploy", p)
                            edits == DoneJobs("edit", p)
                            created == {k \in Jobs : order[k].kind = "create" /\ order[k].profile = p} IN
                        (/\ profiles[p] # None /\ created = {} =>
                              /\ deploys # {} => profiles[p].agent # None
                              /\ edits # {} => profiles[p].settings \in {order[k].settings : k \in edits}
                         /\ profiles[p] = None => deploys \cup edits = {} \/ Deletions(p) # {}
                         /\ DoneJobs("delete", p) # {} /\ created = {} => profiles[p] = None)'
      BY DEF RegistryKeepsWork
    <3> DEFINE deploys == DoneJobs("deploy", p) \cup DoneJobs("redeploy", p)
               edits == DoneJobs("edit", p)
               created == {k \in Jobs : order[k].kind = "create" /\ order[k].profile = p}
    <3>0. /\ profiles[p] # None /\ created = {} =>
               /\ deploys # {} => profiles[p].agent # None
               /\ edits # {} => profiles[p].settings \in {order[k].settings : k \in edits}
          /\ DoneJobs("delete", p) # {} /\ created = {} => profiles[p] = None
      BY <1>5, <2>0 DEF RegistryKeepsWork
    <3>1. created' = created /\ created = Creates(p)
      BY <1>1 DEF Creates
    <3>2. edits' \subseteq edits /\ edits \subseteq edits'
      <4>1. ASSUME NEW k \in Jobs PROVE k \in edits' <=> k \in edits
        <5>1. CASE k = j
          BY <1>1, <5>1, <2>0 DEF DoneJobs, AtWork
        <5>2. CASE k # j
          BY <1>1, <5>2 DEF DoneJobs
        <5> QED
          BY <5>1, <5>2
      <4> QED
        BY <4>1 DEF DoneJobs
    <3>3. profiles[p] # None /\ created = {} => deploys' \subseteq deploys
      <4> SUFFICES ASSUME profiles[p] # None, created = {}, NEW k \in Jobs, k \in deploys'
                   PROVE  k \in deploys
        BY DEF DoneJobs
      <4>1. CASE k = j
        BY <1>1, <3>1, <4>1, <2>0 DEF DoneJobs, GoneFor, DeployKinds
      <4>2. CASE k # j
        BY <1>1, <4>2 DEF DoneJobs
      <4> QED
        BY <4>1, <4>2
    <3>4. profiles[p] = None => deploys' \cup edits' = {} \/ Deletions(p)' # {}
      <4> SUFFICES ASSUME profiles[p] = None, NEW k \in Jobs, k \in deploys' \cup edits'
                   PROVE  Deletions(p)' # {}
        BY DEF DoneJobs
      <4>1. AtWork(k)' /\ order'[k].profile = p /\ job'[k].pc = "done"
            /\ order'[k].kind \in {"deploy", "redeploy", "edit"}
        BY <2>2 DEF DoneJobs
      <4> QED
        BY <1>1, <4>1 DEF AtWork
    <3>5. DoneJobs("delete", p)' # {} /\ created = {} => profiles[p] = None
      <4> SUFFICES ASSUME NEW k \in Jobs, k \in DoneJobs("delete", p)', created = {}
                   PROVE  profiles[p] = None
        BY DEF DoneJobs
      <4>1. CASE k = j
        BY <1>1, <3>0, <3>1, <4>1, <2>0 DEF DoneJobs, GoneFor
      <4>2. CASE k # j
        BY <1>1, <3>0, <4>2 DEF DoneJobs
      <4> QED
        BY <4>1, <4>2
    <3>6. profiles'[p] # None /\ created' = {} => (deploys' # {} => profiles'[p].agent # None)
      BY <1>1, <3>0, <3>1, <3>3
    <3>7. edits # {} /\ profiles[p].settings \in {order[k].settings : k \in edits}
            => profiles'[p].settings \in {order'[k].settings : k \in edits'}
      BY <1>1, <3>2
    <3>8. profiles'[p] # None /\ created' = {} =>
            (edits' # {} => profiles'[p].settings \in {order'[k].settings : k \in edits'})
      BY <1>1, <3>0, <3>1, <3>2, <3>7
    <3> HIDE DEF edits, created, deploys
    <3>9. profiles'[p] = None => deploys' \cup edits' = {} \/ Deletions(p)' # {}
      BY <1>1, <3>4
    <3>10. DoneJobs("delete", p)' # {} /\ created' = {} => profiles'[p] = None
      BY <1>1, <3>1, <3>5
    <3> QED
      BY <3>6, <3>8, <3>9, <3>10 DEF edits, created, deploys
  <2> QED
    BY <1>1, <1>3, <2>1, <2>2, <2>3, <2>4 DEF RegistryInv
<1> QED
  BY <1>4, <1>5
\* What RegistryKeepsWork says of one profile.
WorkKept(p) ==
  LET deploys == DoneJobs("deploy", p) \cup DoneJobs("redeploy", p)
      edits == DoneJobs("edit", p) IN
  /\ profiles[p] # None /\ Creates(p) = {} =>
       /\ deploys # {} => profiles[p].agent # None
       /\ edits # {} => profiles[p].settings \in {order[j].settings : j \in edits}
  /\ profiles[p] = None => deploys \cup edits = {} \/ Deletions(p) # {}
  /\ DoneJobs("delete", p) # {} /\ Creates(p) = {} => profiles[p] = None

\* RegistryKeepsWork is a statement about each profile by itself.
LEMMA KeptByProfile == RegistryKeepsWork <=> lost \/ \A p \in Profiles : WorkKept(p)
BY DEF RegistryKeepsWork, WorkKept, Creates

\* A job that writes the entry of its profile leaves what is said of the others.
LEMMA ElsewhereKept ==
  ASSUME JobsOK, NEW j \in Jobs, OnlyJob(j), NEW p, order[j].profile # p,
         profiles'[p] = profiles[p], WorkKept(p)
  PROVE  WorkKept(p)'
<1>1. /\ order' = order /\ \A k \in Jobs \ {j} : job'[k] = job[k]
  BY DEF OnlyJob
<1>2. /\ DoneJobs("deploy", p)' = DoneJobs("deploy", p)
      /\ DoneJobs("redeploy", p)' = DoneJobs("redeploy", p)
      /\ DoneJobs("edit", p)' = DoneJobs("edit", p)
      /\ DoneJobs("delete", p)' = DoneJobs("delete", p)
      /\ Deletions(p)' = Deletions(p) /\ Creates(p)' = Creates(p)
  BY <1>1 DEF DoneJobs, Deletions, Creates
<1> QED
  BY <1>1, <1>2 DEF WorkKept

\* A job that writes the registry need only be looked at in the entry of its profile,
\* unless its write takes back another's.
LEMMA WriteKeeps ==
  ASSUME JobsOK, RegistryInv, NEW j \in Jobs, JobOK(j), OnlyJob(j), lost' \in BOOLEAN,
         EditHolds(j)', ~ lost' => ~ lost, NEW name, order[j].profile = name,
         ~ lost' =>
           /\ name \in Profiles
           /\ DOMAIN profiles' = Profiles
           /\ \A p \in Profiles \ {name} : profiles'[p] = profiles[p]
           /\ profiles'[name] # None => DOMAIN profiles'[name] = ProfileFields
           /\ \A k \in Jobs : order[k].profile = name => AtWork(k)' /\ GoneFor(k)'
           /\ WorkKept(name)'
  PROVE  RegistryInv'
<1>1. /\ order' = order /\ \A k \in Jobs \ {j} : job'[k] = job[k]
  BY DEF OnlyJob
<1>2. \A k \in Jobs : EditHolds(k)'
  BY <1>1 DEF RegistryInv, EditHolds
<1>3. CASE lost'
  BY <1>2, <1>3 DEF RegistryInv
<1>4. CASE ~ lost'
  <2>0. /\ name \in Profiles /\ DOMAIN profiles' = Profiles
        /\ \A p \in Profiles \ {name} : profiles'[p] = profiles[p]
        /\ profiles'[name] # None => DOMAIN profiles'[name] = ProfileFields
        /\ \A k \in Jobs : order[k].profile = name => AtWork(k)' /\ GoneFor(k)'
        /\ WorkKept(name)'
    BY <1>4
  <2>1. /\ RegistryShape /\ RegistryKeepsWork /\ ~ lost
        /\ \A k \in Jobs : AtWork(k) /\ GoneFor(k) /\ JobOK(k)
    BY <1>4 DEF RegistryInv, JobsOK
  <2>2. RegistryShape'
    BY <2>0, <2>1 DEF RegistryShape
  <2>3. ASSUME NEW k \in Jobs PROVE AtWork(k)' /\ GoneFor(k)'
    <3>1. CASE order[k].profile = name
      BY <2>0, <3>1
    <3>2. CASE order[k].profile # name
      <4>1. /\ job'[k] = job[k] /\ Creates(order[k].profile)' = Creates(order[k].profile)
            /\ Deletions(order[k].profile)' = Deletions(order[k].profile)
        BY <1>1, <3>2 DEF Creates, Deletions
      <4>2. order[k].kind \in {"deploy", "redeploy", "edit", "delete"} => order[k].profile \in Profiles
        BY <2>1 DEF JobOK, Askable, MenuKinds
      <4>3. order[k].kind \in {"deploy", "redeploy", "edit", "delete"} =>
              profiles'[order[k].profile] = profiles[order[k].profile]
        BY <2>0, <3>2, <4>2
      <4> QED
        BY <1>1, <2>1, <4>1, <4>3 DEF AtWork, GoneFor, DeployKinds
    <3> QED
      BY <3>1, <3>2
  <2>4. ASSUME NEW p \in Profiles PROVE WorkKept(p)'
    <3>1. CASE p = name
      BY <2>0, <3>1
    <3>2. CASE p # name
      <4>1. WorkKept(p) /\ profiles'[p] = profiles[p]
        BY <2>0, <2>1, <3>2, KeptByProfile
      <4> QED
        BY <3>2, <4>1, ElsewhereKept
    <3> QED
      BY <3>1, <3>2
  <2>5. RegistryKeepsWork'
    BY <1>1, <2>4 DEF RegistryKeepsWork, WorkKept, Creates
  <2> QED
    BY <1>2, <1>4, <2>2, <2>3, <2>5 DEF RegistryInv
<1> QED
  BY <1>3, <1>4

\* A deploy writes its mark, or finds its profile deleted and goes without.
LEMMA MarkKeeps ==
  ASSUME NoneHasNoField, JobsOK, RegistryInv, NEW j \in Jobs, WriteMark(j)
  PROVE  RegistryInv'
<1> SUFFICES ASSUME NEW name, order[j].profile = name
             PROVE  RegistryInv'
  OBVIOUS
<1>0. /\ DOMAIN job = Jobs /\ JobOK(j) /\ OnlyJob(j) /\ EditHolds(j)
      /\ order[j].kind \in DeployKinds /\ job[j].pc = "marked" /\ job'[j].pc = "done"
      /\ order' = order /\ \A k \in Jobs \ {j} : job'[k] = job[k]
      /\ name \in Profiles /\ job[j].agent # None
  BY ObjectsFit DEF JobsOK, RegistryInv, WriteMark, Step, JobOK, StepFits, JobFields, DeployKinds,
     Marking, Askable, MenuKinds, OnlyJob
<1>1. CASE job[j].seen[name] = None
  <2>1. UNCHANGED <<profiles, lost>>
    BY <1>1 DEF WriteMark
  <2>2. Quiet(j)
    BY <1>0, <1>1, <2>1 DEF Quiet, DeployKinds
  <2> QED
    BY <2>2, QuietKeeps
<1>2. CASE job[j].seen[name] # None
  <2>1. /\ profiles' = [job[j].seen EXCEPT ![name].agent = job[j].agent]
        /\ lost' = (lost \/ job[j].seen # profiles)
    BY <1>2 DEF WriteMark
  <2>2. EditHolds(j)'
    BY <1>0 DEF EditHolds
  <2>3. ASSUME ~ lost'
        PROVE  /\ DOMAIN profiles' = Profiles /\ ~ lost
               /\ \A p \in Profiles \ {name} : profiles'[p] = profiles[p]
               /\ profiles'[name] # None /\ DOMAIN profiles'[name] = ProfileFields
               /\ profiles'[name].agent # None /\ profiles'[name].settings = profiles[name].settings
               /\ profiles[name] # None
    <3>1. /\ job[j].seen = profiles /\ ~ lost /\ RegistryShape
      BY <2>1, <2>3 DEF RegistryInv
    <3>2. /\ DOMAIN profiles = Profiles /\ DOMAIN profiles[name] = ProfileFields
      BY <1>0, <1>2, <3>1 DEF RegistryShape
    <3>3. /\ DOMAIN profiles' = Profiles
          /\ \A p \in Profiles \ {name} : profiles'[p] = profiles[p]
          /\ profiles'[name] = [profiles[name] EXCEPT !.agent = job[j].agent]
      BY <1>0, <2>1, <3>1, <3>2
    <3>4. /\ DOMAIN profiles'[name] = ProfileFields /\ profiles'[name].agent = job[j].agent
          /\ profiles'[name].settings = profiles[name].settings
      BY <3>2, <3>3 DEF ProfileFields
    <3>5. profiles'[name] # None
      BY <3>4, NoFieldOfNone DEF ProfileFields
    <3> QED
      BY <1>0, <1>2, <3>1, <3>3, <3>4, <3>5
  <2>4. ASSUME ~ lost', NEW k \in Jobs, order[k].profile = name PROVE AtWork(k)' /\ GoneFor(k)'
    <3>1. GoneFor(k)
      BY <2>1, <2>4 DEF RegistryInv
    <3>2. Creates(name)' = Creates(name)
      BY <1>0 DEF Creates
    <3>3. k = j => job'[k].pc = "done" /\ order[k].kind # "delete"
      BY <1>0 DEF DeployKinds
    <3> QED
      BY <1>0, <2>3, <2>4, <3>1, <3>2, <3>3 DEF AtWork, GoneFor
  <2>5. ASSUME ~ lost' PROVE WorkKept(name)'
    <3>1. WorkKept(name)
      BY <1>0, <2>3, <2>5, KeptByProfile DEF RegistryInv
    <3>2. /\ DoneJobs("edit", name)' = DoneJobs("edit", name)
          /\ DoneJobs("delete", name)' = DoneJobs("delete", name)
          /\ Creates(name)' = Creates(name)
      BY <1>0 DEF DoneJobs, Creates, DeployKinds
    <3> QED
      BY <1>0, <2>3, <2>5, <3>1, <3>2 DEF WorkKept
  <2>6. lost' \in BOOLEAN
    BY <2>1
  <2>7. ~ lost' => ~ lost /\ name \in Profiles
    BY <1>0, <2>3
  <2> QED
    BY <1>0, <2>2, <2>3, <2>4, <2>5, <2>6, <2>7, WriteKeeps
<1> QED
  BY <1>1, <1>2

\* A profile created or edited is saved.
LEMMA SaveKeeps ==
  ASSUME NoneHasNoField, JobsOK, RegistryInv, NEW j \in Jobs, SaveProfile(j)
  PROVE  RegistryInv'
<1> SUFFICES ASSUME NEW name, order[j].profile = name
             PROVE  RegistryInv'
  OBVIOUS
<1>0. /\ DOMAIN job = Jobs /\ JobOK(j) /\ OnlyJob(j) /\ EditHolds(j)
      /\ order[j].kind \in {"create", "edit"} /\ job[j].pc = "saving" /\ job'[j].pc = "done"
      /\ order' = order /\ \A k \in Jobs \ {j} : job'[k] = job[k]
      /\ name \in Profiles
      /\ profiles' = [job[j].seen EXCEPT ![name] = Saved(j)]
      /\ lost' = (lost \/ job[j].seen # profiles \/ job[j].seen[name] # job[j].profile)
  <2>1. DOMAIN job = Jobs /\ JobOK(j) /\ OnlyJob(j) /\ EditHolds(j)
    BY OwnersFit DEF JobsOK, RegistryInv
  <2>2. order' = order /\ \A k \in Jobs \ {j} : job'[k] = job[k]
    BY <2>1 DEF OnlyJob
  <2>3. job[j].pc = "saving" /\ order[j].kind \in {"create", "edit"}
    BY <2>1 DEF SaveProfile, Step, JobOK, StepFits
  <2>4. order[j].profile \in Profiles
    BY <2>1, <2>3 DEF JobOK, Askable, MenuKinds
  <2>5. job'[j].pc = "done"
    BY <2>1 DEF SaveProfile, Step, JobOK, JobFields
  <2> QED
    BY <2>1, <2>2, <2>3, <2>4, <2>5 DEF SaveProfile
<1>1. EditHolds(j)' /\ lost' \in BOOLEAN
  BY <1>0 DEF EditHolds
<1>2. ASSUME ~ lost'
      PROVE  /\ DOMAIN profiles' = Profiles /\ ~ lost
             /\ \A p \in Profiles \ {name} : profiles'[p] = profiles[p]
             /\ profiles'[name] # None /\ DOMAIN profiles'[name] = ProfileFields
             /\ profiles'[name].settings = order[j].settings
             /\ order[j].kind = "edit" =>
                  profiles[name] # None /\ profiles'[name].agent = profiles[name].agent
             /\ order[j].kind = "create" => j \in Creates(name)
  <2>1. /\ job[j].seen = profiles /\ job[j].seen[name] = job[j].profile /\ ~ lost /\ RegistryShape
    BY <1>0, <1>2 DEF RegistryInv
  <2>2. /\ DOMAIN profiles' = Profiles
        /\ \A p \in Profiles \ {name} : profiles'[p] = profiles[p]
        /\ profiles'[name] = Saved(j)
    BY <1>0, <2>1 DEF RegistryShape
  <2>3. CASE job[j].profile = None
    <3>1. order[j].kind = "create"
      BY <1>0, <2>3 DEF EditHolds
    <3>2. profiles'[name] = NewProfile(order[j].settings)
      BY <2>2, <2>3 DEF Saved
    <3>3. DOMAIN profiles'[name] = ProfileFields /\ profiles'[name].settings = order[j].settings
      BY <3>2 DEF NewProfile, ProfileFields
    <3>4. profiles'[name] # None
      BY <3>3, NoFieldOfNone DEF ProfileFields
    <3> QED
      BY <2>1, <2>2, <3>1, <3>3, <3>4 DEF Creates
  <2>4. CASE job[j].profile # None
    <3>1. profiles'[name] = [profiles[name] EXCEPT !.settings = order[j].settings]
      BY <2>1, <2>2, <2>4 DEF Saved
    <3>2. DOMAIN profiles[name] = ProfileFields /\ profiles[name] # None
      BY <1>0, <2>1, <2>4 DEF RegistryShape
    <3>3. /\ DOMAIN profiles'[name] = ProfileFields /\ profiles'[name].settings = order[j].settings
          /\ profiles'[name].agent = profiles[name].agent
      BY <3>1, <3>2 DEF ProfileFields
    <3>4. profiles'[name] # None
      BY <3>3, NoFieldOfNone DEF ProfileFields
    <3>5. order[j].kind = "create" => FALSE
      BY <1>0, <2>4 DEF JobOK
    <3> QED
      BY <2>1, <2>2, <3>2, <3>3, <3>4, <3>5
  <2> QED
    BY <2>3, <2>4
<1>3. /\ Creates(name)' = Creates(name)
      /\ DoneJobs("deploy", name)' = DoneJobs("deploy", name)
      /\ DoneJobs("redeploy", name)' = DoneJobs("redeploy", name)
      /\ DoneJobs("delete", name)' = DoneJobs("delete", name)
      /\ order[j].kind = "edit" => j \in DoneJobs("edit", name)'
  BY <1>0 DEF DoneJobs, Creates
<1>4. ASSUME ~ lost', NEW k \in Jobs, order[k].profile = name PROVE AtWork(k)' /\ GoneFor(k)'
  <2>1. GoneFor(k)
    BY <1>2, <1>4 DEF RegistryInv
  <2>2. k = j => job'[k].pc = "done" /\ order[k].kind # "delete"
    BY <1>0
  <2> QED
    BY <1>0, <1>2, <1>3, <1>4, <2>1, <2>2 DEF AtWork, GoneFor
<1>5. ASSUME ~ lost' PROVE WorkKept(name)'
  <2>1. WorkKept(name)
    BY <1>0, <1>2, <1>5, KeptByProfile DEF RegistryInv
  <2> QED
    BY <1>0, <1>2, <1>3, <1>5, <2>1 DEF WorkKept
<1>6. ~ lost' => ~ lost /\ name \in Profiles
  BY <1>0, <1>2
<1> QED
  BY <1>0, <1>1, <1>2, <1>4, <1>5, <1>6, WriteKeeps

\* A profile deleted is dropped from the registry.
LEMMA DropKeeps ==
  ASSUME JobsOK, RegistryInv, NEW j \in Jobs, DropProfile(j)
  PROVE  RegistryInv'
<1> SUFFICES ASSUME NEW name, order[j].profile = name
             PROVE  RegistryInv'
  OBVIOUS
<1>0. /\ DOMAIN job = Jobs /\ JobOK(j) /\ OnlyJob(j)
      /\ order[j].kind = "delete" /\ job[j].pc = "drop" /\ job'[j].pc = "dropped"
      /\ order' = order /\ \A k \in Jobs \ {j} : job'[k] = job[k]
      /\ name \in Profiles
      /\ profiles' = [job[j].seen EXCEPT ![name] = None]
      /\ lost' = (lost \/ job[j].seen # profiles)
  BY OwnersFit DEF JobsOK, DropProfile, Chosen, JobOK, JobFields, Askable, MenuKinds, OnlyJob
<1>1. EditHolds(j)' /\ lost' \in BOOLEAN
  BY <1>0 DEF EditHolds
<1>2. ASSUME ~ lost'
      PROVE  /\ DOMAIN profiles' = Profiles /\ ~ lost
             /\ \A p \in Profiles \ {name} : profiles'[p] = profiles[p]
             /\ profiles'[name] = None
  BY <1>0, <1>2 DEF RegistryInv, RegistryShape
<1>3. j \in Deletions(name)'
  BY <1>0 DEF Deletions
<1>4. ASSUME ~ lost', NEW k \in Jobs, order[k].profile = name PROVE AtWork(k)' /\ GoneFor(k)'
  BY <1>0, <1>2, <1>3, <1>4 DEF AtWork, GoneFor
<1>5. ASSUME ~ lost' PROVE WorkKept(name)'
  BY <1>0, <1>2, <1>3, <1>5 DEF WorkKept
<1>6. ~ lost' => ~ lost /\ name \in Profiles
  BY <1>0, <1>2
<1> QED
  BY <1>0, <1>1, <1>2, <1>4, <1>5, <1>6, WriteKeeps

\* Every step of every job keeps the registry's invariant.
LEMMA RegistryStep ==
  ASSUME NoneHasNoField, JobsOK, RegistryInv, [ClusterNext]_kubeVars
  PROVE  RegistryInv'
<1>1. ASSUME NEW j \in Jobs, JobStep(j) PROVE RegistryInv'
  BY <1>1, BackendIsQuiet, QuietKeeps, MarkKeeps DEF JobStep
<1>2. ASSUME NEW j \in Jobs, OwnerStep(j) PROVE RegistryInv'
  BY <1>2, OwnerIsQuiet, QuietKeeps DEF OwnerStep
<1>3. ASSUME NEW j \in Jobs, MenuStep(j) PROVE RegistryInv'
  <2>1. CASE SaveProfile(j)
    BY <2>1, SaveKeeps
  <2>2. CASE DropProfile(j)
    BY <2>2, DropKeeps
  <2>3. CASE ~ SaveProfile(j) /\ ~ DropProfile(j)
    <3>1. Quiet(j)
      BY <1>3, <2>3, OwnerIsQuiet DEF MenuStep
    <3> QED
      BY <3>1, QuietKeeps
  <2> QED
    BY <2>1, <2>2, <2>3
<1>4. ASSUME UNCHANGED <<order, job, profiles, lost>> PROVE RegistryInv'
  <2>1. \A p : Deletions(p)' = Deletions(p) /\ Creates(p)' = Creates(p)
    BY <1>4 DEF Deletions, Creates
  <2>2. RegistryShape => RegistryShape'
    BY <1>4 DEF RegistryShape
  <2>3. \A j \in Jobs : /\ EditHolds(j) => EditHolds(j)'
                        /\ AtWork(j) => AtWork(j)'
                        /\ GoneFor(j) => GoneFor(j)'
    BY <1>4, <2>1 DEF EditHolds, AtWork, GoneFor
  <2>4. RegistryKeepsWork' = RegistryKeepsWork
    BY <1>4 DEF RegistryKeepsWork, DoneJobs, Deletions
  <2> QED
    BY <1>4, <2>2, <2>3, <2>4 DEF RegistryInv
<1>5. ASSUME NEW a \in Names, PodStarts(a) \/ ImageRefused(a) \/ PodEnds(a) PROVE RegistryInv'
  BY <1>4, <1>5 DEF PodStarts, ImageRefused, PodEnds, SetPhase, stores
<1> QED
  BY <1>1, <1>2, <1>3, <1>4, <1>5 DEF ClusterNext, KubeNext, OwnerNext, MenuNext, kubeVars, stores

(* However many deploys, edits and deletions overlap, what each of them has finished is in *)
(* the registry until another takes it back, outside the windows that the property names. *)
(* The invariant adds what a job that has read the registry may still rely on.          *)
THEOREM RegistryKeepsEveryJob ==
  ASSUME NoneHasNoField, NEW Orders, NEW Worlds,
         \A o \in Orders : \A j \in Jobs : Askable(o[j]),
         \A world \in Worlds : RegistryStored(world)
  PROVE  ClusterSpec(Orders, Worlds) => []RegistryKeepsWork
<1>1. KubeInit(Orders, Worlds) => JobsOK /\ RegistryInv
  <2> SUFFICES ASSUME KubeInit(Orders, Worlds) PROVE RegistryInv
    BY JobsStart
  <2>1. RegistryShape /\ lost = FALSE /\ \A j \in Jobs : job[j].pc = "new"
    BY DEF KubeInit, RegistryStored, RegistryShape, Fresh
  <2> QED
    BY <2>1 DEF RegistryInv, EditHolds, AtWork, GoneFor, RegistryKeepsWork, DoneJobs
<1>2. JobsOK /\ RegistryInv /\ [ClusterNext]_kubeVars => (JobsOK /\ RegistryInv)'
  BY JobsKept, RegistryStep
<1>3. JobsOK /\ RegistryInv => RegistryKeepsWork
  BY DEF RegistryInv, RegistryKeepsWork
<1> QED
  BY <1>1, <1>2, <1>3, PTL DEF ClusterSpec

-----------------------------------------------------------------------------
(* The records, the Secrets and the pods *)

Swept == {"sweep"} \cup Marking \cup Over
HasCore == {"publishAuth", "image", "secret", "look", "replace", "pod"}
HasAuth == HasCore \ {"publishAuth"}

ClusterShape ==
  /\ DOMAIN head = Names /\ DOMAIN pod = Names /\ DOMAIN secrets = Names
  /\ \A a \in Names : /\ DOMAIN head[a] = HeadFields
                      /\ pod[a] # None => DOMAIN pod[a] = PodFields
  /\ crossed \in BOOLEAN
RecordsThere(j) ==
  order[j].kind \in DeployKinds /\ job[j].agent \in Names =>
    /\ job[j].pc \in HasCore => head[job[j].agent].core # None
    /\ job[j].pc \in HasAuth => head[job[j].agent].auth # {} \/ Revoked(job[j].agent)
SecretsThere(j) ==
  /\ \A a \in Names : j \in secrets[a] => job[j].pc \in Unlisted \cup Swept
  /\ job[j].pc \in Unlisted /\ job[j].agent \in Names => crossed \/ j \in secrets[job[j].agent]
  /\ job[j].pc = "sweep" /\ job[j].agent \in Names =>
       crossed \/ \A g \in Jobs : g \in job[j].seen => job[g].pc \in Swept
PodThere(a) ==
  pod[a] # None =>
    /\ head[a].core # None
    /\ head[a].auth # {} \/ Revoked(a)
    /\ crossed \/ /\ SecretThere(a)
                  /\ \A j \in Jobs : job[j].pc = "sweep" /\ job[j].agent = a =>
                                       pod[a].gen \notin job[j].seen
BootInv ==
  /\ ClusterShape
  /\ \A j \in Jobs : RecordsThere(j) /\ SecretsThere(j)
  /\ \A a \in Names : PodThere(a)

\* A step of job j that leaves the records, the Secrets, the pods and the history alone.
Apart(j) ==
  LET kind == order[j].kind
      was == job[j].pc
      is == job'[j].pc IN
  /\ OnlyJob(j) /\ UNCHANGED <<head, secrets, pod, crossed>>
  /\ kind = "revoke" /\ was \notin {"new", "connect", "tombstone"} =>
       is \notin {"new", "connect", "tombstone"}
  /\ is \in HasCore \cup Unlisted \cup {"sweep"} => job'[j].agent = job[j].agent
  /\ kind \in DeployKinds /\ is \in HasCore => was \in HasCore
  /\ kind \in DeployKinds /\ is \in HasAuth => was \in HasAuth
  /\ is \in Unlisted => was \in Unlisted
  /\ is = "sweep" => was = "sweep" /\ job'[j].seen = job[j].seen
  /\ was \in Unlisted => is \in Unlisted \cup Swept
  /\ was \in Swept => is \in Swept

\* The backend's steps that touch no record, Secret or pod.
LEMMA BackendStaysApart ==
  ASSUME JobsOK, NEW j \in Jobs,
         \/ StartDeploy(j) \/ StartRedeploy(j) \/ StartPush(j)
         \/ Bind(j) \/ Rebind(j) \/ Store(j) \/ ReadPod(j) \/ ReadSecret(j)
         \/ ResolveImage(j) \/ Look(j) \/ Poll(j) \/ Mark(j) \/ WriteMark(j) \/ JobFails(j)
  PROVE  Apart(j)
<1>0. DOMAIN job = Jobs /\ JobOK(j)
  BY DEF JobsOK
<1>f. OnlyJob(j)
  BY StartsFit, BindingsFit, ReadSecretFits, ObjectsFit
<1>1. CASE StartDeploy(j)
  BY <1>f, <1>1, DeployStarts DEF StartDeploy, Apart, cluster, DeployKinds, HasCore, HasAuth, Unlisted, Swept,
     Marking, Over
<1>2. CASE ReadSecret(j)
  BY <1>f, <1>2, SecretRead DEF Apart, cluster, DeployKinds, HasCore, HasAuth, Unlisted, Swept,
     Marking, Over
<1> USE DEF Apart, cluster, stores, DeployKinds, JobOK, JobFields, StepFits, Step, Unlisted, Marking,
            Renewals, HasCore, HasAuth, Swept, Over
<1>3. CASE StartRedeploy(j) \/ StartPush(j)
  BY <1>0, <1>f, <1>3 DEF StartRedeploy, StartPush
<1>4. CASE Bind(j) \/ Rebind(j) \/ Store(j) \/ ReadPod(j)
  BY <1>0, <1>f, <1>4 DEF Bind, Rebind, Store, ReadPod, AfterRebind
<1>5. CASE ResolveImage(j) \/ Look(j) \/ Poll(j)
  BY <1>0, <1>f, <1>5 DEF ResolveImage, Look, Poll
<1>7. CASE Mark(j) \/ WriteMark(j)
  BY <1>0, <1>f, <1>7 DEF Mark, WriteMark
<1>8. CASE JobFails(j)
  BY <1>0, <1>f, <1>8 DEF JobFails
<1> QED
  BY <1>1, <1>2, <1>3, <1>4, <1>5, <1>7, <1>8

\* The owner's and the menu's steps that touch none.
LEMMA OwnerStaysApart ==
  ASSUME JobsOK, NEW j \in Jobs,
         \/ StartCommand(j) \/ Login(j) \/ ConnectAsAgent(j)
         \/ ReadBindings(j) \/ RemoveBinding(j) \/ VerifyCore(j)
         \/ OpenMenu(j) \/ StartCreate(j) \/ Answered(j) \/ Cancelled(j)
         \/ Edit(j) \/ ReadRegistry(j) \/ SaveProfile(j) \/ Delete(j) \/ DropProfile(j)
         \/ DropLogin(j)
  PROVE  Apart(j)
<1>0. DOMAIN job = Jobs /\ JobOK(j)
  BY DEF JobsOK
<1>f. OnlyJob(j)
  BY StartsFit, BindingsFit, OwnersFit
<1> USE DEF Apart, stores, cluster, DeployKinds, JobOK, JobFields, StepFits, Commanded, Chosen, Step,
            HasCore, HasAuth, Unlisted, Swept, Marking, Over
<1>1. CASE StartCommand(j) \/ Login(j)
  <2>1. /\ order[j].kind \in {"login", "revoke", "config"}
        /\ job'[j].pc \in {"login", "connect", "bind"}
        /\ job[j].pc \in {"new", "login"} /\ (job[j].pc = "login" => order[j].kind = "login")
    BY <1>0, <1>1 DEF StartCommand, Login, FirstStep
  <2> QED
    BY <1>0, <1>f, <1>1, <2>1 DEF StartCommand, Login
<1>2. CASE ConnectAsAgent(j)
  <2>1. /\ order[j].kind \in {"login", "revoke", "config"} /\ job[j].pc = "connect"
        /\ job'[j].pc \in {"local", "failed", "publishAuth", "tombstone", "publishCore"}
        /\ job'[j].agent = job[j].agent
    BY <1>0, <1>2 DEF ConnectAsAgent
  <2> QED
    BY <1>0, <1>f, <1>2, <2>1 DEF ConnectAsAgent
<1>3. CASE ReadBindings(j) \/ RemoveBinding(j) \/ VerifyCore(j)
  BY <1>0, <1>f, <1>3 DEF ReadBindings, RemoveBinding, VerifyCore
<1>5. CASE OpenMenu(j)
  BY <1>0, <1>f, <1>5 DEF OpenMenu, MenuKinds
<1>6. CASE StartCreate(j) \/ Answered(j) \/ Cancelled(j)
  BY <1>0, <1>f, <1>6 DEF StartCreate, Answered, Cancelled
<1>7. CASE Edit(j) \/ ReadRegistry(j) \/ SaveProfile(j)
  BY <1>0, <1>f, <1>7 DEF Edit, ReadRegistry, SaveProfile
<1>8. CASE Delete(j) \/ DropLogin(j) \/ DropProfile(j)
  BY <1>0, <1>f, <1>8 DEF Delete, DropLogin, DropProfile
<1> QED
  BY <1>1, <1>2, <1>3, <1>5, <1>6, <1>7, <1>8

\* A revocation is not taken back.
LEMMA RevocationStays ==
  ASSUME JobsOK, JobsOK', NEW j \in Jobs, OnlyJob(j), NEW a, Revoked(a),
         order[j].kind = "revoke" /\ job[j].pc \notin {"new", "connect", "tombstone"} =>
           job'[j].pc \notin {"new", "connect", "tombstone"}
  PROVE  Revoked(a)'
<1>1. PICK k \in Jobs : /\ order[k].kind = "revoke" /\ job[k].agent = a
                        /\ job[k].pc \notin {"new", "connect", "tombstone"}
  BY DEF Revoked, JobsOf
<1>2. job'[k].pc \notin {"new", "connect", "tombstone"} /\ order'[k] = order[k]
  BY <1>1 DEF OnlyJob
<1>3. job'[k].agent = order'[k].of /\ job[k].agent = order[k].of
  BY <1>1, <1>2 DEF JobsOK, JobOK
<1> QED
  BY <1>1, <1>2, <1>3 DEF Revoked, JobsOf

\* Such a step keeps the invariant: it goes on with what the job already had.
LEMMA ApartKeeps ==
  ASSUME JobsOK, JobsOK', BootInv, NEW j \in Jobs, Apart(j)
  PROVE  BootInv'
<1>1. /\ order' = order /\ head' = head /\ secrets' = secrets /\ pod' = pod /\ crossed' = crossed
      /\ \A k \in Jobs \ {j} : job'[k] = job[k]
  BY DEF Apart, OnlyJob
<1>2. \A a : Revoked(a) => Revoked(a)'
  BY RevocationStays DEF Apart
<1>3. ClusterShape'
  BY <1>1 DEF BootInv, ClusterShape
<1>4. \A k \in Jobs : RecordsThere(k)'
  <2> TAKE k \in Jobs
  <2>1. RecordsThere(k)
    BY DEF BootInv
  <2>2. CASE k = j
    BY <1>1, <1>2, <2>1, <2>2 DEF RecordsThere, Apart, HasAuth
  <2>3. CASE k # j
    BY <1>1, <1>2, <2>1, <2>3 DEF RecordsThere
  <2> QED
    BY <2>2, <2>3
<1>5. \A k \in Jobs : job[k].pc \in Swept => job'[k].pc \in Swept
  BY <1>1 DEF Apart
<1>6. \A k \in Jobs : SecretsThere(k)'
  <2> TAKE k \in Jobs
  <2>1. SecretsThere(k)
    BY DEF BootInv
  <2>2. CASE k = j
    BY <1>1, <1>5, <2>1, <2>2 DEF SecretsThere, Apart
  <2>3. CASE k # j
    BY <1>1, <1>5, <2>1, <2>3 DEF SecretsThere
  <2> QED
    BY <2>2, <2>3
<1>7. \A a \in Names : PodThere(a)'
  <2> TAKE a \in Names
  <2>1. PodThere(a)
    BY DEF BootInv
  <2>2. \A k \in Jobs : job'[k].pc = "sweep" => /\ job[k].pc = "sweep" /\ job'[k].seen = job[k].seen
                                                /\ job'[k].agent = job[k].agent
    BY <1>1 DEF Apart
  <2> QED
    BY <1>1, <1>2, <2>1, <2>2 DEF PodThere, SecretThere
<1> QED
  BY <1>3, <1>4, <1>6, <1>7 DEF BootInv

(* A job that writes one agent's records: the core is never taken away, the accounts *)
(* only by a revocation.                                                                *)
LEMMA RecordsKept ==
  ASSUME NoneHasNoField, JobsOK, JobsOK', BootInv, NEW j \in Jobs,
         Publish(j) \/ PublishAuth(j) \/ Tombstone(j) \/ PublishCore(j)
  PROVE  BootInv'
<1>0. /\ DOMAIN job = Jobs /\ JobOK(j) /\ OnlyJob(j) /\ ClusterShape
      /\ UNCHANGED <<secrets, pod, crossed>>
  BY ObjectsFit, OwnersFit DEF JobsOK, BootInv, Publish, PublishAuth, Tombstone, PublishCore, cluster
<1>1. order' = order /\ \A k \in Jobs \ {j} : job'[k] = job[k]
  BY <1>0 DEF OnlyJob
<1> DEFINE agent == job[j].agent
<1>2. /\ DOMAIN head' = Names
      /\ \A a \in Names :
           /\ DOMAIN head'[a] = HeadFields
           /\ head'[a].core = head[a].core \/ head'[a].core # None
           /\ \/ head'[a].auth = head[a].auth \/ head'[a].auth # {}
              \/ a = agent /\ order[j].kind = "revoke" /\ job'[j].pc = "unbind"
      /\ \/ /\ job[j].pc = "publish" /\ job'[j].pc = "publishAuth"
            /\ agent \in Names => head'[agent].core # None
         \/ /\ job[j].pc = "publishAuth" /\ job'[j].pc \in {"done", "image"}
            /\ agent \in Names => head'[agent].auth # {}
         \/ job[j].pc = "tombstone" /\ job'[j].pc = "unbind"
         \/ job[j].pc = "publishCore" /\ job'[j].pc = "verify"
  <2>1. CASE Publish(j)
    <3>1. "model" \in DOMAIN BuildCoreConfig(job[j].profile.settings, job[j].payload.prompt)
      BY DEF BuildCoreConfig
    <3>2. BuildCoreConfig(job[j].profile.settings, job[j].payload.prompt) # None
      BY <3>1, NoFieldOfNone
    <3>3. head' = [head EXCEPT ![agent].core =
                     BuildCoreConfig(job[j].profile.settings, job[j].payload.prompt)]
      BY <2>1 DEF Publish
    <3> QED
      BY <1>0, <2>1, <3>2, <3>3 DEF Publish, Step, ClusterShape, HeadFields, PodFields, JobOK,
         JobFields, StepFits
  <2>2. CASE PublishAuth(j)
    BY <1>0, <2>2 DEF PublishAuth, Step, ClusterShape, HeadFields, PodFields, JobOK, JobFields, HasAccounts
  <2>3. CASE Tombstone(j)
    BY <1>0, <2>3 DEF Tombstone, Commanded, ClusterShape, HeadFields, PodFields, JobOK, JobFields
  <2>4. CASE PublishCore(j)
    BY <1>0, <2>4 DEF PublishCore, Commanded, ClusterShape, HeadFields, PodFields, JobOK, JobFields, Askable
  <2> QED
    BY <2>1, <2>2, <2>3, <2>4
<1>3. job'[j].agent = agent /\ job'[j].seen = job[j].seen
  BY <1>0 DEF Publish, PublishAuth, Tombstone, PublishCore, Step, Commanded, JobOK, JobFields
<1>4. \A a \in Names : /\ head[a].core # None => head'[a].core # None
                       /\ head[a].auth # {} => head'[a].auth # {} \/ Revoked(a)'
  <2>1. ASSUME NEW a, a = agent, job'[j].pc = "unbind", order[j].kind = "revoke"
        PROVE  Revoked(a)'
    BY <1>1, <1>3, <2>1 DEF Revoked, JobsOf
  <2> QED
    BY <1>2, <2>1
<1>5. \A a : Revoked(a) => Revoked(a)'
  BY <1>0, <1>2, RevocationStays
<1>6. ClusterShape'
  BY <1>0, <1>2 DEF ClusterShape, HeadFields, PodFields
<1>7. \A k \in Jobs : RecordsThere(k)'
  <2> TAKE k \in Jobs
  <2>1. RecordsThere(k)
    BY DEF BootInv
  <2>2. CASE k = j
    BY <1>1, <1>2, <1>3, <1>4, <1>5, <2>1, <2>2 DEF RecordsThere, HasCore, HasAuth
  <2>3. CASE k # j
    BY <1>1, <1>4, <1>5, <2>1, <2>3 DEF RecordsThere
  <2> QED
    BY <2>2, <2>3
<1>8. \A k \in Jobs : SecretsThere(k)'
  <2> TAKE k \in Jobs
  <2>1. SecretsThere(k)
    BY DEF BootInv
  <2>2. \A g \in Jobs : job[g].pc \in Swept => job'[g].pc \in Swept
    BY <1>1, <1>2 DEF Swept, Marking, Over
  <2>3. CASE k = j
    BY <1>0, <1>1, <1>2, <1>3, <2>1, <2>2, <2>3 DEF SecretsThere, Unlisted, Swept, Marking, Over
  <2>4. CASE k # j
    BY <1>0, <1>1, <2>1, <2>2, <2>4 DEF SecretsThere
  <2> QED
    BY <2>3, <2>4
<1>9. \A a \in Names : PodThere(a)'
  <2> TAKE a \in Names
  <2>1. PodThere(a)
    BY DEF BootInv
  <2>2. \A k \in Jobs : job'[k].pc = "sweep" => job'[k] = job[k]
    BY <1>1, <1>2
  <2> QED
    BY <1>0, <1>4, <1>5, <2>1, <2>2 DEF PodThere, SecretThere
<1> QED
  BY <1>6, <1>7, <1>8, <1>9 DEF BootInv

\* A job that applies its Secret, or looks over the others once.
LEMMA SecretsKept ==
  ASSUME JobsOK, JobsOK', BootInv, NEW j \in Jobs, ApplySecret(j) \/ ListSecrets(j) \/ Sweep(j)
  PROVE  BootInv'
<1>0. /\ DOMAIN job = Jobs /\ JobOK(j) /\ OnlyJob(j) /\ ClusterShape
      /\ head' = head /\ pod' = pod
      /\ order' = order /\ \A k \in Jobs \ {j} : job'[k] = job[k]
      /\ order[j].kind \in DeployKinds /\ job'[j].agent = job[j].agent
      /\ \A k \in Jobs : RecordsThere(k) /\ SecretsThere(k)
      /\ \A b \in Names : PodThere(b)
  <2>1. /\ DOMAIN job = Jobs /\ JobOK(j) /\ OnlyJob(j) /\ ClusterShape
        /\ \A k \in Jobs : RecordsThere(k) /\ SecretsThere(k)
        /\ \A b \in Names : PodThere(b)
    BY ObjectsFit DEF JobsOK, BootInv
  <2>2. order' = order /\ \A k \in Jobs \ {j} : job'[k] = job[k]
    BY <2>1 DEF OnlyJob
  <2>3. head' = head /\ pod' = pod
    BY DEF ApplySecret, ListSecrets, Sweep, Step, cluster
  <2>4. job[j].pc \in {"secret", "list", "sweep"}
    BY DEF ApplySecret, ListSecrets, Sweep, Step
  <2>5. order[j].kind \in DeployKinds
    BY <2>1, <2>4 DEF JobOK, StepFits, Unlisted
  <2>6. job'[j].agent = job[j].agent
    BY <2>1 DEF ApplySecret, ListSecrets, Sweep, Step, JobOK, JobFields
  <2> QED
    BY <2>1, <2>2, <2>3, <2>5, <2>6
<1>1. \A a : Revoked(a) => Revoked(a)'
  BY <1>0, RevocationStays DEF DeployKinds
<1>2. CASE ApplySecret(j)
  <2>1. /\ job[j].pc = "secret" /\ job'[j].pc = "look" /\ crossed' = crossed
        /\ DOMAIN secrets' = Names
        /\ \A a \in Names : secrets'[a] = IF a = job[j].agent THEN secrets[a] \cup {j} ELSE secrets[a]
    BY <1>0, <1>2 DEF ApplySecret, Step, ClusterShape, HeadFields, PodFields, JobOK, JobFields
  <2>2. \A g \in Jobs : job[g].pc \in Swept => job'[g].pc \in Swept
    BY <1>0, <2>1 DEF Swept, Marking, Over
  <2>3. ClusterShape'
    BY <1>0, <2>1 DEF ClusterShape, HeadFields, PodFields
  <2>4. \A k \in Jobs : RecordsThere(k)'
    <3> TAKE k \in Jobs
    <3> QED
      BY <1>0, <1>1, <2>1 DEF RecordsThere, HasCore, HasAuth
  <2>5. \A k \in Jobs : SecretsThere(k)'
    <3> TAKE k \in Jobs
    <3>1. CASE k = j
      BY <1>0, <2>1, <3>1 DEF SecretsThere, Unlisted
    <3>2. CASE k # j
      BY <1>0, <2>1, <2>2, <3>2 DEF SecretsThere
    <3> QED
      BY <3>1, <3>2
  <2>6. \A a \in Names : PodThere(a)'
    <3> TAKE a \in Names
    <3>1. \A k \in Jobs : job'[k].pc = "sweep" => job'[k] = job[k]
      BY <1>0, <2>1
    <3> QED
      BY <1>0, <1>1, <2>1, <3>1 DEF PodThere, SecretThere
  <2> QED
    BY <2>3, <2>4, <2>5, <2>6 DEF BootInv
<1>3. CASE ListSecrets(j)
  <2> DEFINE doomed == secrets[job[j].agent] \ {j}
  <2>1. /\ job[j].pc = "list" /\ job'[j].pc = "sweep" /\ job'[j].seen = doomed
        /\ crossed' = (crossed \/ ~ OwnPod(j) \/ \E k \in Jobs \cap doomed : job[k].pc \in Unlisted)
        /\ secrets' = secrets
    BY <1>0, <1>3 DEF ListSecrets, cluster, JobOK, JobFields
  <2>2. \A g \in Jobs : job[g].pc \in Swept => job'[g].pc \in Swept
    BY <1>0, <2>1 DEF Swept, Marking, Over
  <2>3. ClusterShape'
    BY <1>0, <2>1 DEF ClusterShape, HeadFields, PodFields
  <2>4. \A k \in Jobs : RecordsThere(k)'
    <3> TAKE k \in Jobs
    <3> QED
      BY <1>0, <1>1, <2>1 DEF RecordsThere, HasCore, HasAuth
  <2>5. \A k \in Jobs : SecretsThere(k)'
    <3> TAKE k \in Jobs
    <3>1. CASE k = j
      <4>1. ASSUME job[j].agent \in Names, ~ crossed', NEW g \in Jobs, g \in doomed
            PROVE  job'[g].pc \in Swept
        <5>1. job[g].pc \in Unlisted \cup Swept /\ job[g].pc \notin Unlisted
          BY <1>0, <2>1, <4>1 DEF SecretsThere
        <5> QED
          BY <2>2, <5>1
      <4>2. job'[j].pc \notin Unlisted /\ job'[j].pc \in Swept
        BY <2>1 DEF Unlisted, Swept
      <4> QED
        BY <1>0, <2>1, <3>1, <4>1, <4>2 DEF SecretsThere
    <3>2. CASE k # j
      BY <1>0, <2>1, <2>2, <3>2 DEF SecretsThere
    <3> QED
      BY <3>1, <3>2
  <2>6. \A a \in Names : PodThere(a)'
    <3> TAKE a \in Names
    <3>1. ASSUME ~ crossed', pod[a] # None, job[j].agent = a PROVE pod[a].gen \notin doomed
      BY <2>1, <3>1 DEF OwnPod
    <3>2. ASSUME pod[a] # None PROVE head[a].core # None /\ (head[a].auth # {} \/ Revoked(a)')
      BY <1>0, <1>1, <3>2 DEF PodThere
    <3>3. ASSUME pod[a] # None, ~ crossed' PROVE SecretThere(a)'
      BY <1>0, <2>1, <3>3 DEF PodThere, SecretThere
    <3>4. ASSUME pod[a] # None, ~ crossed', NEW k \in Jobs, job'[k].pc = "sweep", job'[k].agent = a
          PROVE  pod[a].gen \notin job'[k].seen
      <4>1. CASE k = j
        BY <1>0, <2>1, <3>1, <3>4, <4>1
      <4>2. CASE k # j
        BY <1>0, <2>1, <3>4, <4>2 DEF PodThere
      <4> QED
        BY <4>1, <4>2
    <3> HIDE DEF doomed
    <3> QED
      BY <1>0, <3>2, <3>3, <3>4 DEF PodThere
  <2> QED
    BY <2>3, <2>4, <2>5, <2>6 DEF BootInv
<1>4. CASE Sweep(j)
  <2>1. /\ job[j].pc = "sweep" /\ crossed' = crossed /\ DOMAIN secrets' = Names
        /\ \/ job'[j].pc = "mark" /\ secrets' = secrets
           \/ \E g \in job[j].seen :
                /\ job'[j].pc = "sweep" /\ job'[j].seen \subseteq job[j].seen
                /\ \A a \in Names :
                     secrets'[a] = IF a = job[j].agent THEN secrets[a] \ {g} ELSE secrets[a]
    <3>1. job[j].pc = "sweep" /\ crossed' = crossed /\ DOMAIN job[j] = JobFields
      BY <1>0, <1>4 DEF Sweep, JobOK
    <3>2. CASE job' = [job EXCEPT ![j].pc = "mark"] /\ UNCHANGED secrets
      BY <1>0, <3>1, <3>2 DEF ClusterShape, HeadFields, PodFields, JobFields
    <3>3. ASSUME NEW g \in job[j].seen,
                 secrets' = [secrets EXCEPT ![job[j].agent] = @ \ {g}],
                 job' = [job EXCEPT ![j].seen = job[j].seen \ {g}]
          PROVE  /\ job'[j].pc = "sweep" /\ job'[j].seen \subseteq job[j].seen
                 /\ DOMAIN secrets' = Names
                 /\ \A a \in Names :
                      secrets'[a] = IF a = job[j].agent THEN secrets[a] \ {g} ELSE secrets[a]
      <4>1. job'[j].pc = "sweep" /\ job'[j].seen = job[j].seen \ {g}
        BY <1>0, <3>1, <3>3 DEF JobFields
      <4> QED
        BY <1>0, <3>3, <4>1 DEF ClusterShape, HeadFields, PodFields
    <3> QED
      BY <1>4, <3>1, <3>2, <3>3 DEF Sweep
  <2>2. \A g \in Jobs : job[g].pc \in Swept => job'[g].pc \in Swept
    BY <1>0, <2>1 DEF Swept, Marking, Over
  <2>3. ClusterShape'
    BY <1>0, <2>1 DEF ClusterShape, HeadFields, PodFields
  <2>4. \A k \in Jobs : RecordsThere(k)'
    <3> TAKE k \in Jobs
    <3> QED
      BY <1>0, <1>1, <2>1 DEF RecordsThere, HasCore, HasAuth
  <2>5. \A k \in Jobs : SecretsThere(k)'
    <3> TAKE k \in Jobs
    <3>1. CASE k = j
      BY <1>0, <2>1, <2>2, <3>1 DEF SecretsThere, Unlisted, Swept, Marking
    <3>2. CASE k # j
      <4>1. \A a \in Names : secrets'[a] \subseteq secrets[a]
        BY <2>1
      <4>2. ASSUME job[k].pc \in Unlisted, job[k].agent \in Names, ~ crossed
            PROVE  k \in secrets'[job[k].agent]
        <5>1. k \in secrets[job[k].agent] /\ job[k].pc \notin Swept
          BY <1>0, <4>2 DEF SecretsThere, Unlisted, Swept, Marking, Over
        <5>2. job[j].agent = job[k].agent => k \notin job[j].seen
          BY <1>0, <2>1, <4>2, <5>1 DEF SecretsThere
        <5> QED
          BY <2>1, <4>2, <5>1, <5>2
      <4> QED
        BY <1>0, <2>1, <2>2, <3>2, <4>1, <4>2 DEF SecretsThere
    <3> QED
      BY <3>1, <3>2
  <2>6. \A a \in Names : PodThere(a)'
    <3> TAKE a \in Names
    <3>1. \A k \in Jobs : job'[k].pc = "sweep" =>
            /\ job[k].pc = "sweep" /\ job'[k].agent = job[k].agent /\ job'[k].seen \subseteq job[k].seen
      BY <1>0, <2>1
    <3>2. ASSUME ~ crossed, pod[a] # None PROVE pod[a].gen \in secrets'[a]
      BY <1>0, <2>1, <3>2 DEF PodThere, SecretThere
    <3> QED
      BY <1>0, <1>1, <2>1, <3>1, <3>2 DEF PodThere, SecretThere
  <2> QED
    BY <2>3, <2>4, <2>5, <2>6 DEF BootInv
<1> QED
  BY <1>2, <1>3, <1>4

\* A job that deletes or creates a pod, and the pod's own life.
LEMMA PodsKept ==
  ASSUME NoneHasNoField, JobsOK, JobsOK', BootInv, NEW j \in Jobs, Replace(j) \/ ApplyPod(j) \/ Kill(j)
  PROVE  BootInv'
<1>0. /\ DOMAIN job = Jobs /\ JobOK(j) /\ OnlyJob(j) /\ ClusterShape
      /\ UNCHANGED <<head, secrets, crossed>>
      /\ order' = order /\ \A k \in Jobs \ {j} : job'[k] = job[k]
      /\ order[j].kind # "revoke" /\ job'[j].agent = job[j].agent
      /\ \A k \in Jobs : RecordsThere(k) /\ SecretsThere(k)
      /\ \A b \in Names : PodThere(b)
  <2>1. /\ DOMAIN job = Jobs /\ JobOK(j) /\ OnlyJob(j) /\ ClusterShape
        /\ \A k \in Jobs : RecordsThere(k) /\ SecretsThere(k)
        /\ \A b \in Names : PodThere(b)
    BY ObjectsFit, OwnersFit DEF JobsOK, BootInv
  <2>2. order' = order /\ \A k \in Jobs \ {j} : job'[k] = job[k]
    BY <2>1 DEF OnlyJob
  <2>3. UNCHANGED <<head, secrets, crossed>>
    BY DEF Replace, ApplyPod, Kill
  <2>4. job[j].pc \in {"replace", "pod"} \/ order[j].kind = "kill"
    BY DEF Replace, ApplyPod, Kill, Step, Chosen
  <2>5. order[j].kind # "revoke"
    BY <2>1, <2>4 DEF JobOK, StepFits, DeployKinds, Unlisted
  <2>6. job'[j].agent = job[j].agent
    BY <2>1 DEF Replace, ApplyPod, Kill, Step, Chosen, JobOK, JobFields
  <2> QED
    BY <2>1, <2>2, <2>3, <2>5, <2>6
<1> DEFINE created(a) == /\ job[j].pc = "pod" /\ job[j].agent = a /\ order[j].kind \in DeployKinds
                         /\ pod'[a].gen = j /\ DOMAIN pod'[a] = PodFields
<1>1. \A a : Revoked(a) => Revoked(a)'
  BY <1>0, RevocationStays
<1>2. /\ DOMAIN pod' = Names
      /\ \A a \in Names : pod'[a] = None \/ pod'[a] = pod[a] \/ created(a)
      /\ \/ job[j].pc = "replace" /\ job'[j].pc = "pod"
         \/ job[j].pc = "pod" /\ job'[j].pc \in {"poll", "failed"}
         \/ job[j].pc = "menu" /\ job'[j].pc = "done"
  <2>1. CASE Replace(j)
    BY <1>0, <2>1 DEF Replace, Step, ClusterShape, HeadFields, PodFields, JobOK, JobFields
  <2>2. CASE ApplyPod(j)
    <3>1. /\ job[j].pc = "pod" /\ job'[j].pc \in {"poll", "failed"} /\ order[j].kind \in DeployKinds
          /\ \/ pod' = pod
             \/ pod' = [pod EXCEPT ![job[j].agent] = PodObject(j)]
      BY <1>0, <2>2 DEF ApplyPod, Step, JobOK, JobFields, StepFits, Unlisted
    <3>2. PodObject(j).gen = j /\ DOMAIN PodObject(j) = PodFields
      BY DEF PodObject, PodFields
    <3> QED
      BY <1>0, <3>1, <3>2 DEF ClusterShape, HeadFields, PodFields
  <2>3. CASE Kill(j)
    BY <1>0, <2>3 DEF Kill, Chosen, ClusterShape, HeadFields, PodFields, JobOK, JobFields
  <2> QED
    BY <2>1, <2>2, <2>3
<1>3. ClusterShape'
  BY <1>0, <1>2 DEF ClusterShape, HeadFields, PodFields
<1>4. \A k \in Jobs : RecordsThere(k)'
  <2> TAKE k \in Jobs
  <2> QED
    BY <1>0, <1>1, <1>2 DEF RecordsThere, HasCore, HasAuth
<1>5. \A k \in Jobs : SecretsThere(k)'
  <2> TAKE k \in Jobs
  <2>1. \A g \in Jobs : job[g].pc \in Swept => job'[g].pc \in Swept
    BY <1>0, <1>2 DEF Swept, Marking, Over
  <2>2. /\ job'[j].pc \in Unlisted => job[j].pc \in Unlisted
        /\ job[j].pc \in Unlisted => job'[j].pc \in Unlisted \cup Swept
        /\ job'[j].pc # "sweep"
    BY <1>2 DEF Unlisted, Swept, Over
  <2> QED
    BY <1>0, <2>1, <2>2 DEF SecretsThere
<1>6. \A a \in Names : PodThere(a)'
  <2> SUFFICES ASSUME NEW a \in Names, pod'[a] # None PROVE PodThere(a)'
    BY DEF PodThere
  <2>1. \A k \in Jobs : job'[k].pc = "sweep" => job'[k] = job[k]
    BY <1>0, <1>2
  <2>2. CASE pod'[a] = pod[a]
    BY <1>0, <1>1, <2>1, <2>2 DEF PodThere, SecretThere
  <2>3. CASE created(a)
    <3>1. /\ head[a].core # None
          /\ head[a].auth # {} \/ Revoked(a)
          /\ crossed \/ j \in secrets[a]
      BY <1>0, <2>3 DEF RecordsThere, SecretsThere, HasCore, HasAuth, Unlisted
    <3>2. ASSUME ~ crossed, NEW k \in Jobs, job[k].pc = "sweep", job[k].agent = a
          PROVE  j \notin job[k].seen
      BY <1>0, <2>3, <3>2 DEF SecretsThere, Swept, Marking, Over
    <3>3. head'[a] = head[a] /\ secrets'[a] = secrets[a] /\ crossed' = crossed /\ pod'[a].gen = j
      BY <1>0, <2>3
    <3>4. ~ crossed => \A k \in Jobs : job'[k].pc = "sweep" /\ job'[k].agent = a => j \notin job'[k].seen
      BY <2>1, <3>2
    <3>5. head'[a].auth # {} \/ Revoked(a)'
      BY <1>1, <3>1, <3>3
    <3> HIDE DEF created
    <3>6. crossed' \/ j \in secrets'[a]
      BY <3>1, <3>3
    <3>7. head'[a].core # None
      BY <3>1, <3>3
    <3> QED
      BY <3>3, <3>4, <3>5, <3>6, <3>7 DEF PodThere, SecretThere
  <2> QED
    BY <1>2, <2>2, <2>3
<1> QED
  BY <1>3, <1>4, <1>5, <1>6 DEF BootInv

\* A pod starts, is refused its image or ends: the same pod, with the same Secret.
LEMMA PhasesKept ==
  ASSUME NoneHasNoField, BootInv, NEW a \in Names, NEW from, NEW to, SetPhase(a, from, to)
  PROVE  BootInv'
<1>1. UNCHANGED <<order, job, head, secrets, crossed>> /\ ClusterShape /\ pod[a] # None
  BY DEF SetPhase, BootInv
<1>2. /\ DOMAIN pod' = Names /\ \A b \in Names \ {a} : pod'[b] = pod[b]
      /\ pod'[a].gen = pod[a].gen /\ DOMAIN pod'[a] = PodFields
  BY <1>1 DEF SetPhase, ClusterShape
<1>3. ClusterShape'
  BY <1>1, <1>2 DEF ClusterShape, HeadFields, PodFields
<1>4. \A k \in Jobs : RecordsThere(k)' /\ SecretsThere(k)'
  BY <1>1 DEF BootInv, RecordsThere, SecretsThere, Revoked, JobsOf
<1>5. ASSUME NEW b \in Names PROVE PodThere(b)'
  BY <1>1, <1>2 DEF BootInv, PodThere, SecretThere, Revoked, JobsOf
<1> QED
  BY <1>3, <1>4, <1>5 DEF BootInv

\* Every step of every job and pod keeps the invariant.
LEMMA BootStep ==
  ASSUME NoneHasNoField, JobsOK, BootInv, [ClusterNext]_kubeVars
  PROVE  BootInv'
<1>0. JobsOK'
  BY JobsKept
<1>1. ASSUME NEW j \in Jobs, JobStep(j) PROVE BootInv'
  BY <1>0, <1>1, BackendStaysApart, ApartKeeps, RecordsKept, SecretsKept, PodsKept DEF JobStep
<1>2. ASSUME NEW j \in Jobs, OwnerStep(j) PROVE BootInv'
  BY <1>0, <1>2, OwnerStaysApart, ApartKeeps, RecordsKept DEF OwnerStep
<1>3. ASSUME NEW j \in Jobs, MenuStep(j) PROVE BootInv'
  BY <1>0, <1>3, OwnerStaysApart, ApartKeeps, PodsKept DEF MenuStep
<1>4. ASSUME NEW a \in Names, PodStarts(a) \/ ImageRefused(a) \/ PodEnds(a) PROVE BootInv'
  BY <1>4, PhasesKept DEF PodStarts, ImageRefused, PodEnds
<1>5. CASE UNCHANGED kubeVars
  BY <1>5 DEF kubeVars, cluster, BootInv, ClusterShape, HeadFields, PodFields, RecordsThere, SecretsThere, PodThere,
     SecretThere, Revoked, JobsOf
<1> QED
  BY <1>1, <1>2, <1>3, <1>4, <1>5 DEF ClusterNext, KubeNext, OwnerNext, MenuNext

(* However many deploys, pushes and commands overlap, a pod and a deploy at work have the *)
(* core, the accounts and the Secret they were made with, outside the windows that the  *)
(* property names. The invariant says it of a job at each step, of the sweep's list and of *)
(* every pod, waiting or running.                                                       *)
THEOREM AgentsAlwaysBoot ==
  ASSUME NoneHasNoField, NEW Orders, NEW Worlds,
         \A o \in Orders : \A j \in Jobs : Askable(o[j]),
         \A world \in Worlds : ClusterStored(world)
  PROVE  ClusterSpec(Orders, Worlds) => []AgentsCanBoot
<1>1. KubeInit(Orders, Worlds) => JobsOK /\ BootInv
  <2> SUFFICES ASSUME KubeInit(Orders, Worlds) PROVE BootInv
    BY JobsStart
  <2>1. crossed = FALSE /\ \A j \in Jobs : job[j].pc = "new"
    BY DEF KubeInit, Fresh
  <2>2. PICK world \in Worlds : head = world.head /\ secrets = world.secrets /\ pod = world.pod
    BY DEF KubeInit
  <2>3. ClusterStored(world)
    OBVIOUS
  <2>4. ClusterShape
    BY <2>1, <2>2, <2>3 DEF ClusterStored, ClusterShape
  <2>5. \A j \in Jobs : RecordsThere(j) /\ SecretsThere(j)
    BY <2>1, <2>2, <2>3 DEF ClusterStored, RecordsThere, SecretsThere, HasCore, HasAuth, Unlisted
  <2>6. \A a \in Names : PodThere(a)
    BY <2>1, <2>2, <2>3 DEF ClusterStored, PodThere, SecretThere
  <2> QED
    BY <2>4, <2>5, <2>6 DEF BootInv
<1>2. JobsOK /\ BootInv /\ [ClusterNext]_kubeVars => (JobsOK /\ BootInv)'
  BY JobsKept, BootStep
<1>3. JobsOK /\ BootInv => AgentsCanBoot
  BY DEF BootInv, PodThere, SecretsThere, AgentsCanBoot
<1> QED
  BY <1>1, <1>2, <1>3, PTL DEF ClusterSpec

-----------------------------------------------------------------------------
(* The accounts *)

\* The job's rebinding: at most one at a time, and nobody else writes the file meanwhile.
RebindingOK(j) ==
  /\ job[j].pc = "rebind" =>
       /\ job[j].seen = bindings
       /\ \A b \in bindings : b.account \in job[j].auth => b.agent = job[j].agent
  /\ job[j].pc = "unbound" => job[j].seen = bindings
  /\ job[j].pc = "store" =>
       \A x \in job[j].auth : \E b \in bindings : b.agent = job[j].agent /\ b.account = x

Storing(a) == \E j \in Jobs : job[j].pc = "store" /\ job[j].agent = a

\* What the bindings say of the file of one agent.
FileBound(a) ==
  ~ Unbound(a) =>
    /\ \A b \in bindings : b.account \in agentAuth[a] => b.agent = a
    /\ \/ Storing(a)
       \/ \A x \in agentAuth[a] : \E b \in bindings : b.agent = a /\ b.account = x

BindingsHold ==
  /\ \A j, k \in Jobs : Rebinding(j) /\ Rebinding(k) => j = k
  /\ \A b, c \in bindings : b.account = c.account => b.agent = c.agent
  /\ \A j \in Jobs : RebindingOK(j)
  /\ \A a \in Names : FileBound(a)

BindingsInv ==
  /\ DOMAIN agentAuth = Names
  /\ torn \in BOOLEAN
  /\ torn \/ BindingsHold

\* A step of job j that leaves the bindings and the credential files alone.
Aside(j) ==
  LET kind == order[j].kind
      was == job[j].pc
      is == job'[j].pc IN
  /\ OnlyJob(j) /\ UNCHANGED <<bindings, agentAuth, torn>>
  /\ is \notin {"rebind", "store", "unbound"} /\ was \notin {"rebind", "store", "unbound"}
  /\ kind = "revoke" /\ was \notin {"new", "connect", "tombstone"} =>
       is \notin {"new", "connect", "tombstone"}
  /\ kind = "login" =>
       /\ was \in AfterStored \cup {"done", "local"} <=> is \in AfterStored \cup {"done", "local"}
       /\ was # "new" => is # "new"

\* The backend's steps that touch neither the bindings nor a credential file.
LEMMA BackendStaysAside ==
  ASSUME JobsOK, BindingsInv, NEW j \in Jobs,
         \/ StartDeploy(j) \/ StartRedeploy(j) \/ StartPush(j) \/ ReadPod(j) \/ ReadSecret(j)
         \/ Publish(j) \/ PublishAuth(j) \/ ResolveImage(j)
         \/ ApplySecret(j) \/ Look(j) \/ Replace(j) \/ ApplyPod(j) \/ Poll(j)
         \/ ListSecrets(j) \/ Sweep(j) \/ Mark(j) \/ WriteMark(j)
         \/ (JobFails(j) /\ ~ Rebinding(j))
  PROVE  Aside(j)
<1>0. DOMAIN job = Jobs /\ JobOK(j)
  BY DEF JobsOK
<1>f. OnlyJob(j)
  BY StartsFit, BindingsFit, ReadSecretFits, ObjectsFit
<1>1. CASE StartDeploy(j)
  BY <1>f, <1>1, DeployStarts DEF StartDeploy, Aside, stores
<1>2. CASE ReadSecret(j)
  BY <1>f, <1>2, SecretRead DEF Aside, stores
<1> USE DEF Aside, stores, cluster, JobOK, JobFields, StepFits, Step, Unlisted, Marking, DeployKinds,
            Renewals, AfterStored
<1>3. CASE StartRedeploy(j) \/ StartPush(j) \/ ReadPod(j)
  BY <1>0, <1>f, <1>3 DEF StartRedeploy, StartPush, ReadPod
<1>4. CASE Publish(j) \/ PublishAuth(j) \/ ResolveImage(j)
  BY <1>0, <1>f, <1>4 DEF Publish, PublishAuth, ResolveImage
<1>5. CASE ApplySecret(j) \/ Look(j) \/ Replace(j) \/ ApplyPod(j) \/ Poll(j)
  BY <1>0, <1>f, <1>5 DEF ApplySecret, Look, Replace, ApplyPod, Poll
<1>6. CASE ListSecrets(j) \/ Sweep(j) \/ Mark(j) \/ WriteMark(j)
  <2>1. CASE ListSecrets(j)
    BY <1>0, <1>f, <2>1 DEF ListSecrets
  <2>2. CASE Sweep(j)
    BY <1>0, <1>f, <2>2 DEF Sweep
  <2>3. CASE Mark(j)
    BY <1>0, <1>f, <2>3 DEF Mark
  <2>4. CASE WriteMark(j)
    BY <1>0, <1>f, <2>4 DEF WriteMark
  <2> QED
    BY <1>6, <2>1, <2>2, <2>3, <2>4
<1>7. CASE JobFails(j) /\ ~ Rebinding(j)
  BY <1>0, <1>f, <1>7 DEF JobFails, Rebinding, Over, BindingsInv
<1> QED
  BY <1>1, <1>2, <1>3, <1>4, <1>5, <1>6, <1>7

\* The owner's and the menu's steps that touch neither.
LEMMA OwnerStaysAside ==
  ASSUME JobsOK, BindingsInv, NEW j \in Jobs,
         \/ StartCommand(j) \/ ConnectAsAgent(j) \/ Tombstone(j) \/ PublishCore(j) \/ VerifyCore(j)
         \/ OpenMenu(j) \/ StartCreate(j) \/ Answered(j) \/ Cancelled(j)
         \/ Edit(j) \/ ReadRegistry(j) \/ SaveProfile(j) \/ Delete(j) \/ DropProfile(j)
         \/ DropLogin(j) \/ Kill(j)
  PROVE  Aside(j)
<1>0. DOMAIN job = Jobs /\ JobOK(j)
  BY DEF JobsOK
<1>f. OnlyJob(j)
  BY StartsFit, BindingsFit, OwnersFit
<1> USE DEF Aside, stores, cluster, JobOK, JobFields, StepFits, Commanded, Chosen, Step, AfterStored
<1>1. CASE StartCommand(j)
  <2>1. order[j].kind \in {"login", "revoke", "config"} /\ job'[j].pc \in {"login", "connect"}
        /\ (order[j].kind = "login" => job'[j].pc = "login") /\ job[j].pc = "new"
    BY <1>0, <1>1 DEF StartCommand, FirstStep
  <2> QED
    BY <1>0, <1>f, <1>1, <2>1 DEF StartCommand
<1>2. CASE ConnectAsAgent(j)
  <2>1. /\ order[j].kind \in {"login", "revoke", "config"} /\ job[j].pc = "connect"
        /\ job'[j].pc \in {"local", "failed", "publishAuth", "tombstone", "publishCore"}
        /\ order[j].kind = "login" => job'[j].pc \in {"local", "publishAuth"}
    BY <1>0, <1>2 DEF ConnectAsAgent
  <2> QED
    BY <1>0, <1>f, <1>2, <2>1 DEF ConnectAsAgent
<1>3. CASE Tombstone(j) \/ PublishCore(j) \/ VerifyCore(j)
  BY <1>0, <1>f, <1>3 DEF Tombstone, PublishCore, VerifyCore
<1>5. CASE OpenMenu(j)
  BY <1>0, <1>f, <1>5 DEF OpenMenu, MenuKinds
<1>6. CASE StartCreate(j) \/ Answered(j) \/ Cancelled(j)
  BY <1>0, <1>f, <1>6 DEF StartCreate, Answered, Cancelled
<1>7. CASE Edit(j) \/ ReadRegistry(j) \/ SaveProfile(j)
  BY <1>0, <1>f, <1>7 DEF Edit, ReadRegistry, SaveProfile
<1>8. CASE Delete(j) \/ DropLogin(j) \/ DropProfile(j) \/ Kill(j)
  BY <1>0, <1>f, <1>8 DEF Delete, DropLogin, DropProfile, Kill
<1> QED
  BY <1>1, <1>2, <1>3, <1>5, <1>6, <1>7, <1>8

\* Only the binding of its file ends the exception of a login.
LEMMA ExceptionStays ==
  ASSUME JobsOK, JobsOK', NEW j \in Jobs, OnlyJob(j), NEW a \in Names, Unbound(a),
         order[j].kind = "revoke" /\ job[j].pc \notin {"new", "connect", "tombstone"} =>
           job'[j].pc \notin {"new", "connect", "tombstone"},
         order[j].kind = "login" /\ job[j].agent = a /\ job[j].pc # "new"
             /\ job[j].pc \notin AfterStored \cup {"done", "local"} =>
           job'[j].pc \notin AfterStored \cup {"done", "local", "new"}
  PROVE  Unbound(a)'
<1>1. order' = order /\ \A k \in Jobs \ {j} : job'[k] = job[k]
  BY DEF OnlyJob
<1>2. \A k \in Jobs : job[k].agent = a => job[k].pc # "new"
  BY NoneIsNobody DEF JobsOK, JobOK
<1>3. CASE Revoked(a)
  <2>1. PICK k \in Jobs : /\ order[k].kind = "revoke" /\ job[k].agent = a
                          /\ job[k].pc \notin {"new", "connect", "tombstone"}
    BY <1>3 DEF Revoked, JobsOf
  <2>2. job'[k].pc \notin {"new", "connect", "tombstone"}
    BY <1>1, <2>1
  <2>3. job'[k].agent = order'[k].of /\ job[k].agent = order[k].of
    BY <1>1, <2>1, <2>2 DEF JobsOK, JobOK
  <2> QED
    BY <1>1, <2>1, <2>2, <2>3 DEF Unbound, Revoked, JobsOf
<1>4. CASE ~ Revoked(a)
  <2>1. PICK k \in Jobs : /\ order[k].kind = "login" /\ job[k].agent = a
                          /\ job[k].pc \notin AfterStored \cup {"done", "local"}
    BY <1>4 DEF Unbound, JobsOf
  <2>2. job'[k].pc \notin AfterStored \cup {"done", "local"} /\ job'[k].pc # "new"
    BY <1>1, <1>2, <2>1
  <2>3. job'[k].agent = order'[k].of /\ job[k].agent = order[k].of
    BY <1>1, <1>2, <2>1, <2>2 DEF JobsOK, JobOK
  <2> QED
    BY <1>1, <2>1, <2>2, <2>3 DEF Unbound, JobsOf
<1> QED
  BY <1>3, <1>4

\* Such a step keeps the invariant.
LEMMA AsideKeeps ==
  ASSUME JobsOK, JobsOK', BindingsInv, NEW j \in Jobs, Aside(j)
  PROVE  BindingsInv'
<1>1. /\ order' = order /\ bindings' = bindings /\ agentAuth' = agentAuth /\ torn' = torn
      /\ \A k \in Jobs \ {j} : job'[k] = job[k]
      /\ ~ Rebinding(j) /\ ~ Rebinding(j)'
      /\ job[j].pc # "store" /\ job'[j].pc # "store"
  BY DEF Aside, OnlyJob, Rebinding
<1>2. \A a \in Names : Unbound(a) => Unbound(a)'
  BY ExceptionStays DEF Aside
<1>3. \A k \in Jobs \ {j} : Rebinding(k)' <=> Rebinding(k)
  BY <1>1 DEF Rebinding
<1>4. \A a : Storing(a)' <=> Storing(a)
  BY <1>1 DEF Storing
<1>5. ASSUME BindingsHold, ~ torn PROVE BindingsHold'
  <2>1. \A k \in Jobs : RebindingOK(k)'
    <3> TAKE k \in Jobs
    <3> QED
      BY <1>1, <1>5 DEF BindingsHold, RebindingOK, Rebinding
  <2>2. \A a \in Names : FileBound(a)'
    BY <1>1, <1>2, <1>4, <1>5 DEF BindingsHold, FileBound
  <2> QED
    BY <1>1, <1>3, <1>5, <2>1, <2>2 DEF BindingsHold
<1> QED
  BY <1>1, <1>5 DEF BindingsInv

\* The bindings an agent's accounts replace are that agent's, and no other's.
LEMMA BoundMembers ==
  ASSUME NEW agent, NEW accounts, NEW file, NEW b
  PROVE  b \in Bound(agent, accounts, file) <=>
           \/ b \in file /\ b.agent # agent
           \/ \E x \in accounts : b = [agent |-> agent, account |-> x]
BY DEF Bound

\* A job that has read the bindings is alone with them, or the window is marked.
LEMMA ReadersKeep ==
  ASSUME JobsOK, JobsOK', BindingsInv, NEW j \in Jobs, Bind(j) \/ ReadBindings(j)
  PROVE  BindingsInv'
<1>0. /\ DOMAIN job = Jobs /\ JobOK(j) /\ OnlyJob(j)
      /\ order' = order /\ \A k \in Jobs \ {j} : job'[k] = job[k]
      /\ bindings' = bindings /\ agentAuth' = agentAuth
      /\ torn' = (torn \/ \E k \in Jobs \ {j} : Rebinding(k))
  BY BindingsFit, OwnersFit DEF JobsOK, Bind, ReadBindings, OnlyJob, stores
<1>1. /\ job[j].pc \in {"bind", "unbind"}
      /\ job[j].pc = "unbind" <=> order[j].kind = "revoke"
      /\ job'[j].agent = job[j].agent /\ job'[j].auth = job[j].auth
      /\ job'[j].pc \in {"rebind", "unbound"} => job'[j].seen = bindings
      /\ job'[j].pc = "rebind" => /\ order[j].kind # "revoke"
                                  /\ Conflicts(job[j].agent, job[j].auth, bindings) = {}
      /\ \/ order[j].kind # "revoke" /\ job'[j].pc \in {"rebind", "failed"}
         \/ order[j].kind = "revoke" /\ job'[j].pc \in {"unbound", "done"}
  BY <1>0 DEF Bind, ReadBindings, JobOK, JobFields, StepFits, DeployKinds, Renewals
<1>2. \A a \in Names : Unbound(a) => Unbound(a)'
  BY <1>0, <1>1, ExceptionStays DEF AfterStored
<1>3. ASSUME ~ torn' PROVE BindingsHold'
  <2>1. BindingsHold /\ ~ torn /\ \A k \in Jobs \ {j} : ~ Rebinding(k)
    BY <1>0, <1>3 DEF BindingsInv
  <2>2. \A k \in Jobs \ {j} : ~ Rebinding(k)'
    BY <1>0, <2>1 DEF Rebinding
  <2>3. \A k \in Jobs : RebindingOK(k)'
    <3>1. RebindingOK(j)'
      BY <1>0, <1>1 DEF RebindingOK, Conflicts
    <3>2. ASSUME NEW k \in Jobs \ {j} PROVE RebindingOK(k)'
      BY <2>2, <3>2 DEF RebindingOK, Rebinding
    <3> QED
      BY <3>1, <3>2
  <2>4. \A a \in Names : FileBound(a)'
    <3> TAKE a \in Names
    <3>1. ~ Storing(a)
      BY <1>1, <2>1 DEF Storing, Rebinding
    <3> QED
      BY <1>0, <1>2, <2>1, <3>1 DEF BindingsHold, FileBound
  <2> QED
    BY <1>0, <2>1, <2>2, <2>3, <2>4 DEF BindingsHold
<1> QED
  BY <1>0, <1>3 DEF BindingsInv

\* The set is written as it was read: the accounts of the job, and of nobody else, are its agent's.
LEMMA RebindKeeps ==
  ASSUME JobsOK, JobsOK', BindingsInv, NEW j \in Jobs, Rebind(j)
  PROVE  BindingsInv'
<1> SUFFICES ASSUME NEW agent, agent = job[j].agent, NEW accounts, accounts = job[j].auth
             PROVE  BindingsInv'
  OBVIOUS
<1>0. /\ DOMAIN job = Jobs /\ JobOK(j) /\ OnlyJob(j)
      /\ order' = order /\ \A k \in Jobs \ {j} : job'[k] = job[k]
      /\ agentAuth' = agentAuth /\ torn' = (torn \/ Overtaken(j))
      /\ bindings' = Bound(agent, accounts, job[j].seen)
      /\ job'[j].agent = agent /\ job'[j].auth = accounts
      /\ job[j].pc = "rebind" /\ order[j].kind # "revoke"
      /\ job'[j].pc = IF order[j].kind = "login" THEN "connect" ELSE "store"
  <2>1. DOMAIN job = Jobs /\ JobOK(j) /\ OnlyJob(j)
    BY BindingsFit DEF JobsOK
  <2>2. order' = order /\ \A k \in Jobs \ {j} : job'[k] = job[k]
    BY <2>1 DEF OnlyJob
  <2>3. /\ agentAuth' = agentAuth /\ torn' = (torn \/ Overtaken(j))
        /\ bindings' = Bound(agent, accounts, job[j].seen)
    BY DEF Rebind
  <2>4. /\ job[j].pc = "rebind" /\ job'[j].agent = agent /\ job'[j].auth = accounts
        /\ job'[j].pc = IF order[j].kind = "login" THEN "connect" ELSE "store"
    BY <2>1 DEF Rebind, Step, AfterRebind, JobOK, JobFields
  <2>5. order[j].kind # "revoke"
    BY <2>1, <2>4 DEF JobOK, StepFits, DeployKinds, Renewals
  <2> QED
    BY <2>1, <2>2, <2>3, <2>4, <2>5
<1>1. ASSUME ~ torn' PROVE BindingsHold'
  <2>1. /\ BindingsHold /\ ~ torn /\ ~ Overtaken(j) /\ Rebinding(j) /\ RebindingOK(j)
        /\ \A k \in Jobs \ {j} : ~ Rebinding(k)
    BY <1>0, <1>1 DEF BindingsInv, BindingsHold, Rebinding
  <2>2. \A b \in bindings : b.account \in accounts => b.agent = agent
    BY <1>0, <2>1 DEF RebindingOK
  <2>3. \A b : b \in bindings' <=> \/ b \in bindings /\ b.agent # agent
                                   \/ \E x \in accounts : b = [agent |-> agent, account |-> x]
    BY <1>0, <2>1, BoundMembers DEF RebindingOK
  <2>4. \A b \in bindings' : \/ b \in bindings /\ b.agent # agent
                             \/ b.agent = agent /\ b.account \in accounts
    BY <2>3
  <2>5. \A x \in accounts : \E b \in bindings' : b.agent = agent /\ b.account = x
    <3> TAKE x \in accounts
    <3>1. [agent |-> agent, account |-> x] \in bindings'
      BY <2>3
    <3> QED
      BY <3>1
  <2>6. \A b, c \in bindings' : b.account = c.account => b.agent = c.agent
    BY <2>1, <2>2, <2>4 DEF BindingsHold
  <2>7. \A k \in Jobs \ {j} : ~ Rebinding(k)'
    BY <1>0, <2>1 DEF Rebinding
  <2>8. \A k \in Jobs : RebindingOK(k)'
    <3>1. RebindingOK(j)'
      BY <1>0, <2>5 DEF RebindingOK
    <3>2. ASSUME NEW k \in Jobs \ {j} PROVE RebindingOK(k)'
      BY <2>7, <3>2 DEF RebindingOK, Rebinding
    <3> QED
      BY <3>1, <3>2
  <2>9. \A a \in Names : ~ Storing(a)
    BY <1>0, <2>1 DEF Storing, Rebinding
  <2>10. ASSUME NEW a \in Names, ~ Unbound(a)' PROVE FileBound(a)'
    <3>1. CASE a = agent /\ order[j].kind = "login"
      <4>1. agentAuth[a] = accounts
        BY <2>1, <3>1 DEF Overtaken
      <4> QED
        BY <1>0, <2>2, <2>4, <2>5, <3>1, <4>1 DEF FileBound
    <3>2. CASE ~ (a = agent /\ order[j].kind = "login")
      <4>1. ~ Unbound(a)
        BY <1>0, <2>10, <3>2, ExceptionStays
      <4>2. /\ \A b \in bindings : b.account \in agentAuth[a] => b.agent = a
            /\ \A x \in agentAuth[a] : \E b \in bindings : b.agent = a /\ b.account = x
        BY <2>1, <2>9, <4>1 DEF BindingsHold, FileBound
      <4>3. a = agent => Storing(a)'
        BY <1>0, <3>2 DEF Storing
      <4>4. \A b \in bindings' : b.account \in agentAuth[a] => b.agent = a
        <5> SUFFICES ASSUME NEW b \in bindings', b.account \in agentAuth[a], b.agent # a
                     PROVE  FALSE
          OBVIOUS
        <5>1. b.agent = agent /\ b.account \in accounts /\ agent # a
          BY <2>4, <4>2
        <5>2. PICK c \in bindings : c.agent = a /\ c.account = b.account
          BY <4>2
        <5> QED
          BY <2>2, <5>1, <5>2
      <4>5. a # agent =>
              \A x \in agentAuth[a] : \E b \in bindings' : b.agent = a /\ b.account = x
        BY <2>3, <4>2
      <4> QED
        BY <1>0, <4>3, <4>4, <4>5 DEF FileBound
    <3> QED
      BY <3>1, <3>2
  <2>11. \A a \in Names : FileBound(a)'
    BY <2>10 DEF FileBound
  <2> QED
    BY <2>6, <2>7, <2>8, <2>11 DEF BindingsHold
<1> QED
  BY <1>0, <1>1 DEF BindingsInv

\* The file is written while the accounts are the agent's.
LEMMA StoreKeeps ==
  ASSUME JobsOK, JobsOK', BindingsInv, NEW j \in Jobs, Store(j)
  PROVE  BindingsInv'
<1> SUFFICES ASSUME NEW agent, agent = job[j].agent, NEW accounts, accounts = job[j].auth
             PROVE  BindingsInv'
  OBVIOUS
<1>0. /\ DOMAIN job = Jobs /\ JobOK(j) /\ OnlyJob(j)
      /\ order' = order /\ \A k \in Jobs \ {j} : job'[k] = job[k]
      /\ torn' = torn /\ bindings' = bindings
      /\ agentAuth' = [agentAuth EXCEPT ![agent] = accounts]
      /\ job'[j].agent = agent
      /\ job[j].pc = "store" /\ order[j].kind \notin {"revoke", "login"}
      /\ job'[j].pc \in {"readPod", "publish"}
  BY BindingsFit DEF JobsOK, Store, Step, OnlyJob, JobOK, JobFields, StepFits, DeployKinds, Renewals
<1>1. /\ DOMAIN agentAuth' = Names
      /\ \A a \in Names : agentAuth'[a] = IF a = agent THEN accounts ELSE agentAuth[a]
  BY <1>0 DEF BindingsInv
<1>2. \A a \in Names : Unbound(a) => Unbound(a)'
  BY <1>0, ExceptionStays
<1>3. ASSUME ~ torn' PROVE BindingsHold'
  <2>1. /\ BindingsHold /\ Rebinding(j) /\ RebindingOK(j)
        /\ \A k \in Jobs \ {j} : ~ Rebinding(k)
    BY <1>0, <1>3 DEF BindingsInv, BindingsHold, Rebinding
  <2>2. \A k \in Jobs : ~ Rebinding(k)'
    BY <1>0, <2>1 DEF Rebinding
  <2>3. \A k \in Jobs : RebindingOK(k)'
    BY <2>2 DEF RebindingOK, Rebinding
  <2>4. \A x \in accounts : \E b \in bindings : b.agent = agent /\ b.account = x
    BY <1>0, <2>1 DEF RebindingOK
  <2>5. \A b \in bindings : b.account \in accounts => b.agent = agent
    BY <2>1, <2>4 DEF BindingsHold
  <2>6. ASSUME NEW a \in Names PROVE FileBound(a)'
    <3>1. CASE a = agent
      BY <1>0, <1>1, <2>4, <2>5, <3>1 DEF FileBound
    <3>2. CASE a # agent
      <4>1. ~ Storing(a)
        BY <1>0, <2>1, <3>2 DEF Storing, Rebinding
      <4> QED
        BY <1>0, <1>1, <1>2, <2>1, <3>2, <4>1 DEF BindingsHold, FileBound
    <3> QED
      BY <3>1, <3>2
  <2> QED
    BY <1>0, <2>1, <2>2, <2>3, <2>6 DEF BindingsHold
<1> QED
  BY <1>0, <1>1, <1>3 DEF BindingsInv

\* A login writes the file before it looks at the bindings.
LEMMA LoginKeeps ==
  ASSUME JobsOK, JobsOK', BindingsInv, NEW j \in Jobs, Login(j)
  PROVE  BindingsInv'
<1> SUFFICES ASSUME NEW agent, agent = job[j].agent PROVE BindingsInv'
  OBVIOUS
<1>0. /\ DOMAIN job = Jobs /\ JobOK(j) /\ OnlyJob(j)
      /\ order' = order /\ \A k \in Jobs \ {j} : job'[k] = job[k]
      /\ torn' = torn /\ bindings' = bindings
      /\ order[j].of = agent /\ job'[j].agent = agent
      /\ job[j].pc = "login" /\ order[j].kind = "login" /\ job'[j].pc = "bind"
      /\ DOMAIN agentAuth' = Names
      /\ \A a \in Names \ {agent} : agentAuth'[a] = agentAuth[a]
  <2>1. DOMAIN job = Jobs /\ JobOK(j) /\ OnlyJob(j) /\ DOMAIN agentAuth = Names
    BY BindingsFit DEF JobsOK, BindingsInv
  <2>2. order' = order /\ (\A k \in Jobs \ {j} : job'[k] = job[k])
    BY <2>1 DEF OnlyJob
  <2>3. /\ DOMAIN agentAuth' = Names
        /\ \A a \in Names \ {order[j].of} : agentAuth'[a] = agentAuth[a]
    BY <2>1 DEF Login
  <2>4. order[j].of = agent /\ job'[j].agent = agent /\ job'[j].pc = "bind"
    BY <2>1 DEF Login, JobOK, JobFields
  <2> QED
    BY <2>1, <2>2, <2>3, <2>4 DEF Login
<1>1. Unbound(agent)'
  BY <1>0 DEF Unbound, JobsOf, AfterStored
<1>2. \A a \in Names : Unbound(a) => Unbound(a)'
  BY <1>0, ExceptionStays DEF AfterStored
<1>3. ASSUME BindingsHold, ~ torn PROVE BindingsHold'
  <2>1. /\ ~ Rebinding(j) /\ ~ Rebinding(j)'
        /\ \A k \in Jobs \ {j} : Rebinding(k)' <=> Rebinding(k)
    BY <1>0 DEF Rebinding
  <2>2. \A k \in Jobs : RebindingOK(k)'
    <3> TAKE k \in Jobs
    <3> QED
      BY <1>0, <1>3 DEF BindingsHold, RebindingOK
  <2>3. \A a : Storing(a)' <=> Storing(a)
    BY <1>0 DEF Storing
  <2>4. ASSUME NEW a \in Names PROVE FileBound(a)'
    <3>1. CASE a = agent
      BY <1>1, <3>1 DEF FileBound
    <3>2. CASE a # agent
      BY <1>0, <1>2, <1>3, <2>3, <3>2 DEF BindingsHold, FileBound
    <3> QED
      BY <3>1, <3>2
  <2> QED
    BY <1>0, <1>3, <2>1, <2>2, <2>4 DEF BindingsHold
<1> QED
  BY <1>0, <1>3 DEF BindingsInv

\* A revocation gives the accounts up and keeps the file, which is excepted.
LEMMA RemoveKeeps ==
  ASSUME JobsOK, JobsOK', BindingsInv, NEW j \in Jobs, RemoveBinding(j)
  PROVE  BindingsInv'
<1> SUFFICES ASSUME NEW agent, agent = job[j].agent PROVE BindingsInv'
  OBVIOUS
<1>0. /\ DOMAIN job = Jobs /\ JobOK(j) /\ OnlyJob(j)
      /\ order' = order /\ \A k \in Jobs \ {j} : job'[k] = job[k]
      /\ torn' = torn /\ agentAuth' = agentAuth
      /\ bindings' = Bound(agent, {}, job[j].seen)
      /\ job'[j].agent = agent
      /\ job[j].pc = "unbound" /\ order[j].kind = "revoke" /\ job'[j].pc = "done"
  BY OwnersFit DEF JobsOK, RemoveBinding, Commanded, OnlyJob, JobOK, JobFields
<1>1. Unbound(agent)'
  BY <1>0 DEF Unbound, Revoked, JobsOf
<1>2. \A a \in Names : Unbound(a) => Unbound(a)'
  BY <1>0, ExceptionStays
<1>3. ASSUME BindingsHold, ~ torn PROVE BindingsHold'
  <2>1. /\ Rebinding(j) /\ RebindingOK(j) /\ \A k \in Jobs \ {j} : ~ Rebinding(k)
    BY <1>0, <1>3 DEF BindingsHold, Rebinding
  <2>2. \A k \in Jobs : ~ Rebinding(k)'
    BY <1>0, <2>1 DEF Rebinding
  <2>3. \A b : b \in bindings' <=> b \in bindings /\ b.agent # agent
    BY <1>0, <2>1, BoundMembers DEF RebindingOK
  <2>4. \A a \in Names : ~ Storing(a)
    BY <1>0, <2>1 DEF Storing, Rebinding
  <2>5. ASSUME NEW a \in Names PROVE FileBound(a)'
    <3>1. CASE a = agent
      BY <1>1, <3>1 DEF FileBound
    <3>2. CASE a # agent
      BY <1>0, <1>2, <1>3, <2>3, <2>4, <3>2 DEF BindingsHold, FileBound
    <3> QED
      BY <3>1, <3>2
  <2>6. \A k \in Jobs : RebindingOK(k)'
    BY <2>2 DEF RebindingOK, Rebinding
  <2> QED
    BY <1>3, <2>2, <2>3, <2>5, <2>6 DEF BindingsHold
<1> QED
  BY <1>0, <1>3 DEF BindingsInv

\* Every step of every job keeps the invariant of the bindings.
LEMMA BindingsStep ==
  ASSUME JobsOK, BindingsInv, [ClusterNext]_kubeVars
  PROVE  BindingsInv'
<1>0. JobsOK'
  BY JobsKept
<1>1. ASSUME NEW j \in Jobs, JobFails(j), Rebinding(j) PROVE BindingsInv'
  BY <1>1 DEF JobFails, stores, BindingsInv
<1>2. ASSUME NEW j \in Jobs, JobStep(j) PROVE BindingsInv'
  BY <1>0, <1>1, <1>2, BackendStaysAside, AsideKeeps, ReadersKeep, RebindKeeps, StoreKeeps
     DEF JobStep
<1>3. ASSUME NEW j \in Jobs, OwnerStep(j) PROVE BindingsInv'
  BY <1>0, <1>3, OwnerStaysAside, AsideKeeps, ReadersKeep, LoginKeeps, RemoveKeeps DEF OwnerStep
<1>4. ASSUME NEW j \in Jobs, MenuStep(j) PROVE BindingsInv'
  BY <1>0, <1>4, OwnerStaysAside, AsideKeeps DEF MenuStep
<1>5. ASSUME UNCHANGED <<order, job, bindings, agentAuth, torn>> PROVE BindingsInv'
  BY <1>5 DEF BindingsInv, BindingsHold, RebindingOK, Rebinding, FileBound, Storing, Unbound,
     Revoked, JobsOf
<1>6. ASSUME NEW a \in Names, PodStarts(a) \/ ImageRefused(a) \/ PodEnds(a) PROVE BindingsInv'
  BY <1>5, <1>6 DEF PodStarts, ImageRefused, PodEnds, SetPhase, stores
<1> QED
  BY <1>2, <1>3, <1>4, <1>5, <1>6 DEF ClusterNext, KubeNext, OwnerNext, MenuNext, kubeVars, stores

(* However many logins, pushes, deploys and revocations overlap, no account drives two  *)
(* agents, outside the windows that the property names. The invariant relates each file to *)
(* the bindings, and the bindings a job has read to those that are there.               *)
THEOREM AccountsStayApart ==
  ASSUME NEW Orders, NEW Worlds,
         \A o \in Orders : \A j \in Jobs : Askable(o[j]),
         \A world \in Worlds : BindingsStored(world)
  PROVE  ClusterSpec(Orders, Worlds) => []OneAccountOneAgent
<1>1. KubeInit(Orders, Worlds) => JobsOK /\ BindingsInv
  <2> SUFFICES ASSUME KubeInit(Orders, Worlds) PROVE BindingsInv
    BY JobsStart
  <2>1. torn = FALSE /\ \A j \in Jobs : job[j].pc = "new"
    BY DEF KubeInit, Fresh
  <2>2. PICK world \in Worlds : bindings = world.bindings /\ agentAuth = world.agentAuth
    BY DEF KubeInit
  <2>3. BindingsStored(world)
    OBVIOUS
  <2>4. \A a \in Names : FileBound(a)
    BY <2>2, <2>3 DEF BindingsStored, FileBound
  <2>5. BindingsHold
    BY <2>1, <2>2, <2>3, <2>4 DEF BindingsStored, BindingsHold, Rebinding, RebindingOK
  <2> QED
    BY <2>1, <2>2, <2>3, <2>5 DEF BindingsInv, BindingsStored
<1>2. JobsOK /\ BindingsInv /\ [ClusterNext]_kubeVars => (JobsOK /\ BindingsInv)'
  BY JobsKept, BindingsStep
<1>3. BindingsInv => OneAccountOneAgent
  <2> SUFFICES ASSUME BindingsHold, NEW a \in Names, NEW b \in Names, a # b, ~ Unbound(a),
                      ~ Unbound(b), NEW x \in agentAuth[a], x \in agentAuth[b]
               PROVE  FALSE
    BY DEF BindingsInv, OneAccountOneAgent
  <2>1. FileBound(a) /\ FileBound(b)
    BY DEF BindingsHold
  <2>2. ~ Storing(a) \/ ~ Storing(b)
    BY DEF BindingsHold, Storing, Rebinding
  <2>3. CASE ~ Storing(a)
    BY <2>1, <2>3 DEF FileBound
  <2>4. CASE ~ Storing(b)
    BY <2>1, <2>4 DEF FileBound
  <2> QED
    BY <2>2, <2>3, <2>4
<1> QED
  BY <1>1, <1>2, <1>3, PTL DEF ClusterSpec
=============================================================================
