--------------------------- MODULE ClusterProofs ---------------------------
(* Theorems about Cluster, for every value of its constants. *)
EXTENDS Cluster, FiniteSetTheorems, SequenceTheorems, TLAPS

-----------------------------------------------------------------------------
(* Lemmas about the operators of the model. *)

\* A non-empty set of naturals has a least element.
LEMMA LeastNatural ==
  ASSUME NEW T, T \subseteq Nat, T # {}
  PROVE  \E m \in T : \A y \in T : m <= y
<1> DEFINE Less == {p \in Nat \X Nat : p[1] < p[2]}
<1>1. IsWellFoundedOn(Less, Nat)
  BY NatLessThanWellFounded DEF OpToRel
<1>2. PICK m \in T : \A y \in T : ~ (<<y, m>> \in Less)
  BY <1>1, WFMin
<1>3. \A y \in T : ~ (y < m)
  BY <1>2
<1>4. QED
  BY <1>3

\* Pruning after a push: the new time stamp is inside the window, so a first
\* recent one exists and what remains is a sequence of ages.
LEMMA PruneAppendType ==
  ASSUME NEW s \in Seq(0 .. CatastrophicWindow + 1), CatastrophicWindow \in Nat
  PROVE  Prune(Append(s, 0)) \in Seq(0 .. CatastrophicWindow + 1)
<1> DEFINE Ages == 0 .. CatastrophicWindow + 1
           t == Append(s, 0)
           First(i) == t[i] <= CatastrophicWindow /\ \A j \in 1 .. i - 1 : t[j] > CatastrophicWindow
<1>1. t \in Seq(Ages) /\ Len(t) = Len(s) + 1 /\ t[Len(t)] = 0
  OBVIOUS
<1>2. \A i \in 1 .. Len(t) : t[i] \in Ages
  BY <1>1
<1>3. PICK m \in 1 .. Len(t) : First(m)
  <2> DEFINE Recent == {i \in 1 .. Len(t) : t[i] <= CatastrophicWindow}
  <2>1. Recent \subseteq Nat /\ Len(t) \in Recent
    BY <1>1
  <2>2. PICK m \in Recent : \A i \in Recent : m <= i
    BY <2>1, LeastNatural
  <2>3. \A j \in 1 .. m - 1 : j \notin Recent /\ j \in 1 .. Len(t)
    BY <2>1, <2>2
  <2>4. First(m)
    BY <2>2, <2>3, <1>2
  <2>5. QED
    BY <2>2, <2>4
<1>4. FirstRecent(t) \in 1 .. Len(t)
  BY <1>3 DEF FirstRecent
<1>5. \A i \in FirstRecent(t) .. Len(t) : t[i] \in Ages
  BY <1>2, <1>4
<1>6. SubSeq(t, FirstRecent(t), Len(t)) \in Seq(Ages)
  BY <1>1, <1>4, <1>5, SubSeqProperties
<1>7. QED
  BY <1>6 DEF Prune

-----------------------------------------------------------------------------
(* Type correctness. *)

\* A step whose only effect on the workers is a signal keeps the types.
LEMMA SignalsType ==
  ASSUME TypeOK, NEW S \in SUBSET WorkerId, Die(S) \/ Terminate(S),
         primary' \in {"up", "stopping", "exit0", "exit1"},
         UNCHANGED <<stopTimer, restarts, silence, inFlight, steady>>
  PROVE  TypeOK'
<1> USE ConstantsAssumption
<1>1. /\ phase' \in [WorkerId -> Phase]
      /\ timer' \in [WorkerId -> 0 .. LongestTimer]
      /\ blocked' \subseteq Faulty
      /\ termPending' \subseteq Workers({"running", "draining"})'
  <2> USE DEF TypeOK, Workers, Phase, Alive, LongestTimer
  <2>1. CASE Die(S)
    BY <2>1 DEF Die
  <2>2. CASE Terminate(S)
    BY <2>2 DEF Terminate
  <2>3. QED
    BY <2>1, <2>2
<1>2. QED
  BY <1>1 DEF TypeOK

\* A tick, and a jump of the clock, keep the ages and the timers within their limits.
LEMMA TickType ==
  ASSUME TypeOK, Tick \/ ClockJumps
  PROVE  TypeOK'
<1> USE ConstantsAssumption DEF TypeOK
<1>0. /\ ClockAdvances
      /\ UNCHANGED <<primary, phase, blocked, termPending, inFlight>>
      /\ steady' \in BOOLEAN
  BY DEF Tick, ClockJumps, PrimaryIsOnTime
<1>1. silence' \in [WorkerId -> 0 .. Never]
  BY <1>0 DEF ClockAdvances, Older, Never
<1>2. timer' \in [WorkerId -> 0 .. LongestTimer]
  <2>1. CASE Tick
    BY <2>1 DEF Tick, Sooner, LongestTimer
  <2>2. CASE ClockJumps
    BY <2>2 DEF ClockJumps
  <2>3. QED
    BY <2>1, <2>2
<1>3. stopTimer' \in 0 .. Drain
  BY DEF Tick, ClockJumps, Sooner
<1>4. restarts' \in Seq(0 .. CatastrophicWindow + 1)
  <2>1. \A i \in 1 .. Len(restarts) :
          Older(restarts[i], CatastrophicWindow + 1) \in 0 .. CatastrophicWindow + 1
    BY DEF Older
  <2>2. Len(restarts) \in Nat
    OBVIOUS
  <2>3. QED
    BY <1>0, <2>1, <2>2 DEF ClockAdvances
<1>5. QED
  BY <1>0, <1>1, <1>2, <1>3, <1>4 DEF Workers

\* Every variable keeps its type, whatever the constants are.
THEOREM TypeCorrect == Spec => []TypeOK
<1> USE ConstantsAssumption
<1>1. Init => TypeOK
  BY DEF Init, ClusterInit, TypeOK, Phase, Alive, Never, LongestTimer
<1>2. TypeOK /\ [Next]_vars => TypeOK'
  <2> SUFFICES ASSUME TypeOK, [Next]_vars
               PROVE  TypeOK'
    OBVIOUS
  <2>0. primary \in {"up", "stopping", "exit0", "exit1"}
    BY DEF TypeOK
  <2>1. ASSUME NEW w \in WorkerId, WorkerStep(w)
        PROVE  TypeOK'
    <3>1. CASE Started(w)
      BY <3>1 DEF Started, TypeOK, Workers, Phase, Alive, Never, LongestTimer
    <3>2. CASE Beat(w)
      BY <3>2 DEF Beat, TypeOK, Workers, Phase, Alive, Never, LongestTimer
    <3>3. CASE ShutdownWorker(w)
      BY <3>3 DEF ShutdownWorker, TypeOK, Workers, Phase, Alive, Never, LongestTimer
    <3>4. CASE DrainExpired(w)
      BY <2>0, <3>4, SignalsType, {w} \in SUBSET WorkerId DEF DrainExpired
    <3>5. CASE Orphaned(w)
      BY <2>0, <3>5, SignalsType, {w} \in SUBSET WorkerId DEF Orphaned
    <3>6. QED
      BY <2>1, <3>1, <3>2, <3>3, <3>4, <3>5 DEF WorkerStep
  <2>2. ASSUME NEW w \in WorkerId, Environment(w)
        PROVE  TypeOK'
    <3>1. CASE Crash(w)
      BY <2>0, <3>1, SignalsType, {w} \in SUBSET WorkerId DEF Crash
    <3>2. CASE SignalWorker(w)
      BY <2>0, <3>2, SignalsType, {w} \in SUBSET WorkerId DEF SignalWorker
    <3>3. CASE Block(w)
      BY <3>3 DEF Block, TypeOK, Workers, Phase, Alive, Never, LongestTimer
    <3>4. CASE Unblock(w)
      BY <3>4 DEF Unblock, TypeOK, Workers, Phase, Alive, Never, LongestTimer
    <3>5. QED
      BY <2>2, <3>1, <3>2, <3>3, <3>4 DEF Environment
  <2>3. ASSUME NEW w \in WorkerId, PrimaryStep(w)
        PROVE  TypeOK'
    <3>1. CASE ReceiveHeartbeat(w)
      BY <3>1 DEF ReceiveHeartbeat, TypeOK, Workers, Phase, Alive, Never, LongestTimer
    <3>2. CASE ExitWhileStopping(w)
      BY <3>2 DEF ExitWhileStopping, AfterExit, TypeOK, Workers, Phase, Alive, Never, LongestTimer
    <3>3. ASSUME NEW f \in WorkerId, ExitAndFork(w, f)
          PROVE  TypeOK'
      <4>1. restarts' \in Seq(0 .. CatastrophicWindow + 1)
        BY <3>3, PruneAppendType DEF ExitAndFork, TypeOK
      <4>2. phase' \in [WorkerId -> Phase]
        BY <3>3 DEF ExitAndFork, AfterExit, TypeOK, Phase, Alive
      <4>3. silence' \in [WorkerId -> 0 .. Never]
        <5>1. Never \in 0 .. Never /\ 0 \in 0 .. Never
          BY DEF Never
        <5>2. silence \in [WorkerId -> 0 .. Never]
          BY DEF TypeOK
        <5>3. silence' = [silence EXCEPT ![w] = Never, ![f] = 0]
          BY <3>3 DEF ExitAndFork
        <5>4. QED
          BY <5>1, <5>2, <5>3
      <4>4. termPending' \subseteq Workers({"running", "draining"})'
        <5>1. \A t \in termPending : t \in WorkerId /\ t # w /\ t # f
          BY <3>3 DEF ExitAndFork, TypeOK, Workers
        <5>2. \A t \in termPending : phase'[t] = phase[t]
          BY <3>3, <5>1 DEF ExitAndFork, TypeOK
        <5>3. QED
          BY <3>3, <5>1, <5>2 DEF ExitAndFork, TypeOK, Workers
      <4>5. QED
        BY <3>3, <4>1, <4>2, <4>3, <4>4 DEF ExitAndFork, TypeOK
    <3>4. CASE ExitAndGiveUp(w)
      BY <3>4, PruneAppendType DEF ExitAndGiveUp, AfterExit, TypeOK, Workers, Phase, Alive, Never, LongestTimer
    <3>5. CASE Disconnect(w)
      BY <3>5 DEF Disconnect, TypeOK, Workers, Phase, Alive, Never, LongestTimer
    <3>6. QED
      BY <2>3, <3>1, <3>2, <3>3, <3>4, <3>5 DEF PrimaryStep
  <2>4. CASE Watchdog
    BY <2>0, <2>4, SignalsType, {w \in WorkerId : Overdue(w)} \in SUBSET WorkerId DEF Watchdog
  <2>5. CASE ShutdownPrimary
    BY <2>0, <2>5, SignalsType, WorkerId \in SUBSET WorkerId DEF ShutdownPrimary
  <2>6. CASE ShutdownTimeout
    BY <2>0, <2>6, SignalsType, WorkerId \in SUBSET WorkerId DEF ShutdownTimeout
  <2>7. CASE NothingLeft
    BY <2>7 DEF NothingLeft, TypeOK, Workers, Phase, Alive, Never, LongestTimer
  <2>8. CASE Tick \/ ClockJumps
    BY <2>8, TickType
  <2>9. CASE UNCHANGED vars
    BY <2>9 DEF vars, TypeOK, Workers, Phase, Alive, Never, LongestTimer
  <2>10. QED
    BY <2>1, <2>2, <2>3, <2>4, <2>5, <2>6, <2>7, <2>8, <2>9 DEF Next
<1>3. QED
  BY <1>1, <1>2, PTL DEF Spec

-----------------------------------------------------------------------------
(* The pool keeps its strength. *)

\* A signal turns processes into dead ones; it does not change who is a member.
LEMMA SignalsKeepMembers ==
  ASSUME NEW S, TypeOK, Die(S) \/ Terminate(S)
  PROVE  Members' = Members
<1>1. CASE Die(S)
  BY <1>1 DEF Die, Members, Workers, Alive, TypeOK
<1>2. CASE Terminate(S)
  BY <1>2 DEF Terminate, Members, Workers, Alive, TypeOK
<1>3. QED
  BY <1>1, <1>2

\* A replacement takes one worker out of the pool and puts another one in.
LEMMA ReplacementKeepsStrength ==
  ASSUME TypeOK, NEW w \in WorkerId, NEW f \in WorkerId, ExitAndFork(w, f)
  PROVE  Cardinality(Members') = Cardinality(Members)
<1>1. phase[w] = "dead" /\ phase[f] = "free" /\ w # f
  BY DEF ExitAndFork
<1>2. PICK p \in {"reaped", "free"} : phase' = [phase EXCEPT ![w] = p, ![f] = "starting"]
  BY DEF ExitAndFork, AfterExit
<1>3. Members' = (Members \ {w}) \cup {f}
  BY <1>1, <1>2 DEF Members, Workers, Alive, TypeOK
<1>4. w \in Members /\ f \notin Members
  BY <1>1 DEF Members, Workers, Alive
<1>5. IsFiniteSet(Members)
  BY ConstantsAssumption, FS_Subset DEF Members, Workers
<1>6. /\ IsFiniteSet(Members \ {w})
      /\ Cardinality(Members \ {w}) = Cardinality(Members) - 1
  BY <1>4, <1>5, FS_RemoveElement
<1>7. Cardinality((Members \ {w}) \cup {f}) = Cardinality(Members \ {w}) + 1
  BY <1>4, <1>6, FS_AddElement
<1>8. Cardinality(Members) \in Nat
  BY <1>5, FS_CardinalityType
<1>9. QED
  BY <1>3, <1>6, <1>7, <1>8

\* In every reachable state with the primary up, exactly WorkerCount workers are
\* alive or waiting to be replaced: no exit is missed and none is counted twice.
THEOREM PoolStrength == Spec => []PoolAtStrength
<1>1. Init => PoolAtStrength
  <2> SUFFICES ASSUME Init
               PROVE  Cardinality(Members) = WorkerCount
    BY DEF PoolAtStrength
  <2>1. PICK S \in SUBSET WorkerId :
          /\ Cardinality(S) = WorkerCount
          /\ phase = [w \in WorkerId |-> IF w \in S THEN "starting" ELSE "free"]
    BY DEF Init, ClusterInit
  <2>2. Members = S
    BY <2>1 DEF Members, Workers, Alive
  <2>3. QED
    BY <2>1, <2>2
<1>2. TypeOK /\ PoolAtStrength /\ [Next]_vars => PoolAtStrength'
  <2> SUFFICES ASSUME TypeOK, PoolAtStrength, [Next]_vars, primary' = "up"
               PROVE  Cardinality(Members') = WorkerCount
    BY DEF PoolAtStrength
  <2>1. primary = "up" => Cardinality(Members) = WorkerCount
    BY DEF PoolAtStrength
  <2>2. ASSUME NEW w \in WorkerId, WorkerStep(w)
        PROVE  primary = "up" /\ Members' = Members
    <3>1. primary = "up"
      BY <2>2 DEF WorkerStep, Started, Beat, ShutdownWorker, DrainExpired, Orphaned
    <3>2. CASE Started(w) \/ Beat(w) \/ ShutdownWorker(w)
      BY <3>2 DEF Started, Beat, ShutdownWorker, Members, Workers, Alive, TypeOK
    <3>3. CASE DrainExpired(w) \/ Orphaned(w)
      BY <3>3, SignalsKeepMembers DEF DrainExpired, Orphaned
    <3>4. QED
      BY <2>2, <3>1, <3>2, <3>3 DEF WorkerStep
  <2>3. ASSUME NEW w \in WorkerId, Environment(w)
        PROVE  primary = "up" /\ Members' = Members
    <3>1. CASE Crash(w) \/ SignalWorker(w)
      BY <3>1, SignalsKeepMembers DEF Crash, SignalWorker
    <3>2. CASE Block(w) \/ Unblock(w)
      BY <3>2 DEF Block, Unblock, Members, Workers
    <3>3. QED
      BY <2>3, <3>1, <3>2 DEF Environment
  <2>4. ASSUME NEW w \in WorkerId, PrimaryStep(w)
        PROVE  primary = "up" /\ Cardinality(Members') = Cardinality(Members)
    <3>1. CASE ReceiveHeartbeat(w)
      BY <3>1 DEF ReceiveHeartbeat, Members, Workers
    <3>2. CASE ExitWhileStopping(w)
      BY <3>2 DEF ExitWhileStopping
    <3>3. ASSUME NEW f \in WorkerId, ExitAndFork(w, f)
          PROVE  primary = "up" /\ Cardinality(Members') = Cardinality(Members)
      BY <3>3, ReplacementKeepsStrength DEF ExitAndFork
    <3>4. CASE ExitAndGiveUp(w)
      BY <3>4 DEF ExitAndGiveUp
    <3>5. CASE Disconnect(w)
      BY <3>5 DEF Disconnect, Members, Workers, Alive, TypeOK
    <3>6. QED
      BY <2>4, <3>1, <3>2, <3>3, <3>4, <3>5 DEF PrimaryStep
  <2>5. CASE Watchdog
    BY <2>1, <2>5, SignalsKeepMembers DEF Watchdog
  <2>6. CASE ShutdownPrimary \/ ShutdownTimeout \/ NothingLeft
    BY <2>6 DEF ShutdownPrimary, ShutdownTimeout, NothingLeft
  <2>7. CASE Tick \/ ClockJumps
    BY <2>1, <2>7 DEF Tick, ClockJumps, Members, Workers
  <2>8. CASE UNCHANGED vars
    BY <2>1, <2>8 DEF vars, Members, Workers
  <2>9. QED
    BY <2>1, <2>2, <2>3, <2>4, <2>5, <2>6, <2>7, <2>8 DEF Next
<1>3. QED
  BY <1>1, <1>2, TypeCorrect, PTL DEF Spec

-----------------------------------------------------------------------------
(* A clean exit. *)

\* A primary that exits with code 0 leaves no process behind, in every reachable
\* state and not only when it exits: nothing forks afterwards.
THEOREM CleanExit == Spec => []CleanExitLeavesNoWorker
<1> USE DEF CleanExitLeavesNoWorker, Workers, Alive
<1>1. Init => CleanExitLeavesNoWorker
  BY DEF Init, ClusterInit
<1>2. TypeOK /\ CleanExitLeavesNoWorker /\ [Next]_vars => CleanExitLeavesNoWorker'
  <2> SUFFICES ASSUME TypeOK, CleanExitLeavesNoWorker, [Next]_vars, primary' = "exit0",
                      NEW v \in WorkerId
               PROVE  phase'[v] \notin Alive
    OBVIOUS
  <2>1. primary = "exit0" => \A u \in WorkerId : phase[u] \notin Alive
    OBVIOUS
  <2>2. ASSUME NEW w \in WorkerId, WorkerStep(w)
        PROVE  FALSE
    BY <2>1, <2>2 DEF WorkerStep, Started, Beat, ShutdownWorker, DrainExpired, Orphaned,
                      PrimaryAlive, Responsive, TypeOK
  <2>3. ASSUME NEW w \in WorkerId, Environment(w)
        PROVE  phase'[v] \notin Alive
    BY <2>1, <2>3 DEF Environment, Crash, SignalWorker, Block, Unblock, Responsive
  <2>4. ASSUME NEW w \in WorkerId, PrimaryStep(w)
        PROVE  FALSE
    BY <2>4 DEF PrimaryStep, ReceiveHeartbeat, ExitWhileStopping, ExitAndFork, ExitAndGiveUp,
                Disconnect, PrimaryAlive
  <2>5. CASE Watchdog \/ ShutdownPrimary \/ Tick \/ ClockJumps
    BY <2>5 DEF Watchdog, ShutdownPrimary, Tick, ClockJumps, PrimaryAlive
  <2>6. CASE ShutdownTimeout
    BY <2>6 DEF ShutdownTimeout, Die
  <2>7. CASE NothingLeft
    BY <2>7 DEF NothingLeft, Phase
  <2>8. CASE UNCHANGED vars
    BY <2>1, <2>8 DEF vars
  <2>9. QED
    BY <2>2, <2>3, <2>4, <2>5, <2>6, <2>7, <2>8 DEF Next
<1>3. QED
  BY <1>1, <1>2, TypeCorrect, PTL DEF Spec

-----------------------------------------------------------------------------
(* No fork while stopping. *)

\* No step of a primary that is stopping or gone starts a worker.
THEOREM NoForkStopping == Spec => NoForkWhileStopping
<1>1. TypeOK /\ [Next]_vars
        => (primary # "up" => Workers({"starting"})' \subseteq Workers({"starting"}))
  <2> SUFFICES ASSUME TypeOK, [Next]_vars, primary # "up", NEW v \in WorkerId,
                      phase'[v] = "starting"
               PROVE  phase[v] = "starting"
    BY DEF Workers
  <2> USE DEF TypeOK
  <2>1. ASSUME NEW w \in WorkerId, WorkerStep(w)
        PROVE  phase[v] = "starting"
    BY <2>1 DEF WorkerStep, Started, Beat, ShutdownWorker, DrainExpired, Orphaned, Die
  <2>2. ASSUME NEW w \in WorkerId, Environment(w)
        PROVE  phase[v] = "starting"
    BY <2>2 DEF Environment, Crash, SignalWorker, Block, Unblock, Die, Terminate
  <2>3. ASSUME NEW w \in WorkerId, PrimaryStep(w)
        PROVE  phase[v] = "starting"
    BY <2>3 DEF PrimaryStep, ReceiveHeartbeat, ExitWhileStopping, ExitAndFork, ExitAndGiveUp,
                Disconnect, AfterExit
  <2>4. CASE Watchdog \/ ShutdownPrimary \/ ShutdownTimeout
    BY <2>4 DEF Watchdog, ShutdownPrimary, ShutdownTimeout, Die, Terminate
  <2>5. CASE NothingLeft \/ Tick \/ ClockJumps \/ UNCHANGED vars
    BY <2>5 DEF NothingLeft, Tick, ClockJumps, vars
  <2>6. QED
    BY <2>1, <2>2, <2>3, <2>4, <2>5 DEF Next
<1>2. QED
  BY <1>1, TypeCorrect, PTL DEF Spec, NoForkWhileStopping

-----------------------------------------------------------------------------
(* The watchdog and healthy workers. *)

\* What keeps a worker that is not faulty out of the watchdog's sight: while no
\* heartbeat of it is under way, its silence and the time its timer still has to
\* run add up to a constant; while one is, time stands still for a prompt primary.
OnTime(w) ==
  /\ phase[w] = "starting" =>
       silence[w] <= StartLimit
  /\ phase[w] = "running" =>
       IF w \in inFlight THEN timer[w] = Heartbeat /\ silence[w] <= StartLimit + Heartbeat
                         ELSE silence[w] + timer[w] <= StartLimit + Heartbeat
  /\ phase[w] = "draining" =>
       silence[w] + timer[w] <= StartLimit + Heartbeat + Drain
  /\ phase[w] \in {"starting", "free"} => w \notin inFlight

HealthyOnTime == steady => \A w \in WorkerId \ Faulty : OnTime(w)

\* A step that leaves w and its silence alone, or only ends its process.
LEMMA OnTimeKept ==
  ASSUME TypeOK, NEW w \in WorkerId, OnTime(w),
         phase'[w] = phase[w] \/ phase'[w] \in {"dead", "reaped"},
         phase'[w] = phase[w] /\ phase[w] \in Alive
           => timer'[w] = timer[w] /\ silence'[w] = silence[w],
         w \in inFlight' <=> w \in inFlight
  PROVE  OnTime(w)'
BY DEF OnTime, Alive

LEMMA SignalsKeepOnTime ==
  ASSUME TypeOK, NEW w \in WorkerId, OnTime(w), NEW S, Die(S) \/ Terminate(S),
         UNCHANGED <<silence, inFlight>>
  PROVE  OnTime(w)'
<1>1. CASE Die(S)
  <2>1. /\ phase'[w] = IF w \in S /\ phase[w] \in Alive THEN "dead" ELSE phase[w]
        /\ timer'[w] = IF w \in S THEN 0 ELSE timer[w]
    BY <1>1 DEF Die
  <2>2. QED
    BY <2>1, OnTimeKept DEF Alive
<1>2. CASE Terminate(S)
  <2>1. /\ phase'[w] = IF w \in S /\ phase[w] = "starting" THEN "dead" ELSE phase[w]
        /\ timer'[w] = timer[w]
    BY <1>2 DEF Terminate
  <2>2. QED
    BY <2>1, OnTimeKept
<1>3. QED
  BY <1>1, <1>2

LEMMA TickKeepsOnTime ==
  ASSUME TypeOK, NEW w \in WorkerId \ Faulty, OnTime(w), Tick, steady'
  PROVE  OnTime(w)'
<1> USE ConstantsAssumption
<1>1. w \notin inFlight /\ w \notin inFlight'
  BY DEF Tick, PrimaryIsOnTime, TypeOK
<1>2. phase'[w] = phase[w]
  BY DEF Tick
<1>3. /\ silence[w] \in Nat /\ timer[w] \in Nat
      /\ silence'[w] \in Nat /\ silence'[w] <= silence[w] + 1
      /\ timer[w] > 0 => timer'[w] = timer[w] - 1
  BY DEF Tick, ClockAdvances, TypeOK, Older, Sooner, Never, LongestTimer
<1>4. w \notin blocked
  BY DEF TypeOK
<1>5. CASE phase[w] = "starting"
  <2>1. silence[w] < StartLimit
    BY <1>5 DEF Tick, WorkersAreOnTime
  <2>2. QED
    BY <1>1, <1>2, <1>3, <1>5, <2>1 DEF OnTime
<1>6. CASE phase[w] \in {"running", "draining"}
  <2>1. timer[w] > 0
    BY <1>4, <1>6 DEF Tick, WorkersAreOnTime, Responsive, Alive
  <2>2. QED
    BY <1>1, <1>2, <1>3, <1>6, <2>1 DEF OnTime
<1>7. CASE phase[w] \notin {"starting", "running", "draining"}
  BY <1>1, <1>2, <1>7 DEF OnTime
<1>8. QED
  BY <1>5, <1>6, <1>7

\* Once lost, steadiness is not found again.
LEMMA SteadyBefore ==
  ASSUME [Next]_vars, steady'
  PROVE  steady
<1>1. ASSUME NEW w \in WorkerId, WorkerStep(w) \/ Environment(w)
      PROVE  steady
  BY <1>1 DEF WorkerStep, Started, Beat, ShutdownWorker, DrainExpired, Orphaned,
              Environment, Crash, SignalWorker, Block, Unblock
<1>2. ASSUME NEW w \in WorkerId, PrimaryStep(w)
      PROVE  steady
  BY <1>2 DEF PrimaryStep, ReceiveHeartbeat, ExitWhileStopping, ExitAndFork, ExitAndGiveUp,
              Disconnect
<1>3. CASE Watchdog \/ ShutdownPrimary \/ ShutdownTimeout \/ NothingLeft
  BY <1>3 DEF Watchdog, ShutdownPrimary, ShutdownTimeout, NothingLeft
<1>4. CASE Tick \/ ClockJumps \/ UNCHANGED vars
  BY <1>4 DEF Tick, ClockJumps, vars
<1>5. QED
  BY <1>1, <1>2, <1>3, <1>4 DEF Next

LEMMA OnTimeInvariant ==
  Spec => []HealthyOnTime
<1> USE ConstantsAssumption
<1>1. Init => HealthyOnTime
  BY DEF Init, ClusterInit, HealthyOnTime, OnTime
<1>2. TypeOK /\ HealthyOnTime /\ [Next]_vars => HealthyOnTime'
  <2> SUFFICES ASSUME TypeOK, HealthyOnTime, [Next]_vars, steady', NEW v \in WorkerId \ Faulty
               PROVE  OnTime(v)'
    BY DEF HealthyOnTime
  <2>0. OnTime(v) /\ silence[v] \in Nat /\ timer[v] \in Nat
    BY SteadyBefore DEF HealthyOnTime, TypeOK, Never, LongestTimer
  <2>1. ASSUME NEW w \in WorkerId, WorkerStep(w)
        PROVE  OnTime(v)'
    <3>1. CASE Started(w)
      BY <2>0, <3>1 DEF Started, OnTime, TypeOK
    <3>2. CASE Beat(w)
      BY <2>0, <3>2 DEF Beat, OnTime, TypeOK
    <3>3. CASE ShutdownWorker(w)
      BY <2>0, <3>3 DEF ShutdownWorker, OnTime, TypeOK, Workers
    <3>4. CASE DrainExpired(w) \/ Orphaned(w)
      BY <2>0, <3>4, SignalsKeepOnTime DEF DrainExpired, Orphaned
    <3>5. QED
      BY <2>1, <3>1, <3>2, <3>3, <3>4 DEF WorkerStep
  <2>2. ASSUME NEW w \in WorkerId, Environment(w)
        PROVE  OnTime(v)'
    <3>1. CASE Crash(w) \/ SignalWorker(w)
      BY <2>0, <3>1, SignalsKeepOnTime DEF Crash, SignalWorker
    <3>2. CASE Block(w) \/ Unblock(w)
      BY <2>0, <3>2, OnTimeKept DEF Block, Unblock
    <3>3. QED
      BY <2>2, <3>1, <3>2 DEF Environment
  <2>3. ASSUME NEW w \in WorkerId, PrimaryStep(w)
        PROVE  OnTime(v)'
    <3>1. CASE ReceiveHeartbeat(w)
      BY <2>0, <3>1 DEF ReceiveHeartbeat, OnTime, TypeOK
    <3>2. CASE ExitWhileStopping(w)
      BY <2>0, <3>2 DEF ExitWhileStopping, AfterExit, OnTime, TypeOK
    <3>3. ASSUME NEW f \in WorkerId, ExitAndFork(w, f)
          PROVE  OnTime(v)'
      BY <2>0, <3>3 DEF ExitAndFork, AfterExit, OnTime, TypeOK
    <3>4. CASE ExitAndGiveUp(w)
      BY <2>0, <3>4 DEF ExitAndGiveUp, AfterExit, OnTime, TypeOK
    <3>5. CASE Disconnect(w)
      BY <2>0, <3>5 DEF Disconnect, OnTime, TypeOK
    <3>6. QED
      BY <2>3, <3>1, <3>2, <3>3, <3>4, <3>5 DEF PrimaryStep
  <2>4. CASE Watchdog \/ ShutdownTimeout
    BY <2>0, <2>4, SignalsKeepOnTime DEF Watchdog, ShutdownTimeout
  <2>5. CASE ShutdownPrimary
    BY <2>0, <2>5, SignalsKeepOnTime DEF ShutdownPrimary
  <2>6. CASE NothingLeft \/ UNCHANGED vars
    BY <2>0, <2>6, OnTimeKept DEF NothingLeft, vars, TypeOK
  <2>7. CASE Tick
    BY <2>0, <2>7, TickKeepsOnTime
  <2>8. CASE ClockJumps
    BY <2>8 DEF ClockJumps
  <2>9. QED
    BY <2>1, <2>2, <2>3, <2>4, <2>5, <2>6, <2>7, <2>8 DEF Next
<1>3. QED
  BY <1>1, <1>2, TypeCorrect, PTL DEF Spec

\* While the primary serves its loop in time and its clock is steady, the watchdog never sees a worker
\* that starts within StartLimit and whose loop turns as overdue, whatever the
\* other workers do, as long as noHeartbeatMs leaves room for start-up and a beat.
THEOREM HealthyNotOverdue ==
  ASSUME StartLimit + Heartbeat <= NoHeartbeat
  PROVE  Spec => []HealthyNeverOverdue
<1>1. TypeOK /\ HealthyOnTime => HealthyNeverOverdue
  <2> SUFFICES ASSUME TypeOK, HealthyOnTime, steady, NEW w \in WorkerId \ Faulty
               PROVE  phase[w] \in {"starting", "running"} => ~Overdue(w)
    BY DEF HealthyNeverOverdue
  <2>1. silence[w] \in Nat /\ timer[w] \in Nat /\ OnTime(w)
    BY ConstantsAssumption DEF TypeOK, HealthyOnTime, Never, LongestTimer
  <2>2. QED
    BY <2>1, ConstantsAssumption DEF OnTime, Overdue
<1>2. QED
  BY <1>1, TypeCorrect, OnTimeInvariant, PTL

\* The watchdog kills a worker that drains only after more than NoHeartbeat -
\* StartLimit - Heartbeat ticks of its drain, whatever the settings: the drain and the
\* silence before it add up, and a second signal does not begin the drain anew.
THEOREM DrainShareKept == Spec => []DrainGetsItsShare
<1>1. TypeOK /\ HealthyOnTime => DrainGetsItsShare
  <2> SUFFICES ASSUME TypeOK, HealthyOnTime, steady, NEW w \in WorkerId \ Faulty,
                      phase[w] = "draining", Overdue(w)
               PROVE  Drain - timer[w] > NoHeartbeat - StartLimit - Heartbeat
    BY DEF DrainGetsItsShare
  <2>1. silence[w] \in Nat /\ timer[w] \in Nat
    BY ConstantsAssumption DEF TypeOK, Never, LongestTimer
  <2>2. silence[w] + timer[w] <= StartLimit + Heartbeat + Drain
    BY DEF HealthyOnTime, OnTime
  <2>3. silence[w] > NoHeartbeat
    BY DEF Overdue
  <2>4. QED
    BY <2>1, <2>2, <2>3, ConstantsAssumption
<1>2. QED
  BY <1>1, TypeCorrect, OnTimeInvariant, PTL

-----------------------------------------------------------------------------
(* The refinement of Supervision. *)

Ages == 0 .. CatastrophicWindow + 1

\* The part of the assumption that the arithmetic below needs.
LEMMA WindowIsNatural == CatastrophicWindow \in Nat
  BY ConstantsAssumption

OldestFirst(s) == \A i, j \in 1 .. Len(s) : i <= j => s[j] <= s[i]

\* Ages in order split into those outside the window and those inside, in one way.
LEMMA SplitExists ==
  ASSUME NEW s \in Seq(Ages), OldestFirst(s)
  PROVE  \E k \in 0 .. Len(s) : Splits(s, k)
<1> USE WindowIsNatural DEF Splits, Ages
<1> DEFINE Recent == {i \in 1 .. Len(s) : s[i] <= CatastrophicWindow}
<1>0. Len(s) \in Nat /\ \A i \in 1 .. Len(s) : s[i] \in Ages
  OBVIOUS
<1>1. CASE Recent = {}
  <2>1. Splits(s, Len(s))
    BY <1>0, <1>1
  <2>2. QED
    BY <1>0, <2>1
<1>2. CASE Recent # {}
  <2>1. PICK m \in Recent : \A i \in Recent : m <= i
    BY <1>0, <1>2, LeastNatural, Recent \subseteq Nat
  <2>2. Splits(s, m - 1)
    <3>1. \A i \in 1 .. m - 1 : i \in 1 .. Len(s) /\ i \notin Recent
      BY <1>0, <2>1
    <3>2. \A i \in m .. Len(s) : s[i] <= s[m]
      BY <1>0, <2>1 DEF OldestFirst
    <3>3. \A i \in m .. Len(s) : s[i] <= CatastrophicWindow
      BY <1>0, <2>1, <3>2
    <3>4. QED
      BY <1>0, <2>1, <3>1, <3>3
  <2>3. m - 1 \in 0 .. Len(s)
    BY <1>0, <2>1
  <2>4. QED
    BY <2>2, <2>3 DEF Splits
<1>3. QED
  BY <1>1, <1>2

\* There is one such split, and RecentOf is what comes after it.
LEMMA RecentOfSplit ==
  ASSUME NEW s \in Seq(Ages), NEW k \in 0 .. Len(s), Splits(s, k)
  PROVE  /\ RecentOf(s) = SubSeq(s, k + 1, Len(s))
         /\ RecentOf(s) \in Seq(Ages)
         /\ Len(RecentOf(s)) = Len(s) - k
         /\ \A i \in 1 .. Len(s) - k : RecentOf(s)[i] = s[k + i]
<1> USE WindowIsNatural
<1>0. Len(s) \in Nat /\ \A i \in 1 .. Len(s) : s[i] \in Ages
  OBVIOUS
<1>1. ASSUME NEW l \in 0 .. Len(s), Splits(s, l)
      PROVE  l = k
  <2>1. CASE k < l
    <3>1. l \in k + 1 .. Len(s) /\ l \in 1 .. l
      BY <1>0, <2>1
    <3>2. s[l] \in Nat
      BY <1>0, <3>1 DEF Ages
    <3>3. s[l] > CatastrophicWindow /\ s[l] <= CatastrophicWindow
      BY <1>1, <3>1 DEF Splits
    <3>4. QED
      BY <3>2, <3>3
  <2>2. CASE l < k
    <3>1. k \in l + 1 .. Len(s) /\ k \in 1 .. k
      BY <1>0, <2>2
    <3>2. s[k] \in Nat
      BY <1>0, <3>1 DEF Ages
    <3>3. s[k] > CatastrophicWindow /\ s[k] <= CatastrophicWindow
      BY <1>1, <3>1 DEF Splits
    <3>4. QED
      BY <3>2, <3>3
  <2>3. QED
    BY <1>0, <2>1, <2>2
<1>2. (CHOOSE l \in 0 .. Len(s) : Splits(s, l)) = k
  BY <1>1
<1>3. RecentOf(s) = SubSeq(s, k + 1, Len(s))
  BY <1>2 DEF RecentOf
<1>4. \A i \in k + 1 .. Len(s) : s[i] \in Ages
  BY <1>0
<1>5. /\ SubSeq(s, k + 1, Len(s)) \in Seq(Ages)
      /\ Len(SubSeq(s, k + 1, Len(s))) = IF k + 1 <= Len(s) THEN Len(s) - (k + 1) + 1 ELSE 0
      /\ \A i \in 1 .. Len(s) - (k + 1) + 1 : SubSeq(s, k + 1, Len(s))[i] = s[(k + 1) + i - 1]
  BY <1>0, <1>4, SubSeqProperties, k + 1 \in Int, Len(s) \in Int
<1>6. QED
  BY <1>0, <1>3, <1>5

\* An exit is appended to those inside the window, and the others are dropped.
LEMMA PruneAppend ==
  ASSUME NEW s \in Seq(Ages), OldestFirst(s)
  PROVE  /\ Prune(Append(s, 0)) = Append(RecentOf(s), 0)
         /\ RecentOf(Prune(Append(s, 0))) = Prune(Append(s, 0))
         /\ OldestFirst(Prune(Append(s, 0)))
<1> USE WindowIsNatural
<1> DEFINE t == Append(s, 0)
           r == RecentOf(s)
<1>1. PICK k \in 0 .. Len(s) : Splits(s, k)
  BY SplitExists
<1>2. /\ r \in Seq(Ages)
      /\ Len(r) = Len(s) - k
      /\ \A i \in 1 .. Len(s) - k : r[i] = s[k + i]
  BY <1>1, RecentOfSplit
<1>3. /\ Len(s) \in Nat
      /\ t \in Seq(Ages) /\ Len(t) = Len(s) + 1 /\ t[Len(t)] = 0
      /\ \A i \in 1 .. Len(s) : t[i] = s[i] /\ s[i] \in Ages
  BY DEF Ages
<1>4. FirstRecent(t) = k + 1
  <2> DEFINE First(i) == t[i] <= CatastrophicWindow /\ \A j \in 1 .. i - 1 : t[j] > CatastrophicWindow
  <2>1. \A i \in 1 .. k : t[i] > CatastrophicWindow
    BY <1>1, <1>3 DEF Splits
  <2>2. \A i \in k + 1 .. Len(t) : t[i] <= CatastrophicWindow /\ t[i] \in Nat
    <3>1. \A i \in k + 1 .. Len(s) : t[i] <= CatastrophicWindow /\ t[i] \in Nat
      BY <1>1, <1>3 DEF Splits, Ages
    <3>2. QED
      BY <1>3, <3>1
  <2>3. k + 1 \in 1 .. Len(t) /\ First(k + 1)
    BY <1>1, <1>3, <2>1, <2>2
  <2>4. ASSUME NEW i \in 1 .. Len(t), First(i)
        PROVE  i = k + 1
    <3>1. CASE i <= k
      <4>1. i \in 1 .. k /\ t[i] \in Nat
        BY <1>3, <3>1 DEF Ages
      <4>2. QED
        BY <2>1, <2>4, <4>1
    <3>2. CASE i > k + 1
      <4>1. k + 1 \in 1 .. i - 1
        BY <1>3, <3>2
      <4>2. t[k + 1] \in Nat /\ t[k + 1] <= CatastrophicWindow
        BY <2>2, <2>3
      <4>3. QED
        BY <2>4, <4>1, <4>2
    <3>3. QED
      BY <1>3, <3>1, <3>2
  <2>5. QED
    BY <2>3, <2>4 DEF FirstRecent
<1>5. /\ Prune(t) \in Seq(Ages)
      /\ Len(Prune(t)) = Len(r) + 1
      /\ \A i \in 1 .. Len(r) + 1 : Prune(t)[i] = t[k + i]
  <2>1. \A i \in k + 1 .. Len(t) : t[i] \in Ages
    BY <1>3
  <2>2. /\ SubSeq(t, k + 1, Len(t)) \in Seq(Ages)
        /\ Len(SubSeq(t, k + 1, Len(t))) = IF k + 1 <= Len(t) THEN Len(t) - (k + 1) + 1 ELSE 0
        /\ \A i \in 1 .. Len(t) - (k + 1) + 1 : SubSeq(t, k + 1, Len(t))[i] = t[(k + 1) + i - 1]
    BY <1>3, <2>1, SubSeqProperties, k + 1 \in Int, Len(t) \in Int
  <2>3. Prune(t) = SubSeq(t, k + 1, Len(t))
    BY <1>4 DEF Prune
  <2>4. Len(t) = Len(r) + k + 1 /\ Len(r) \in Nat
    BY <1>2, <1>3
  <2>5. ASSUME NEW i \in 1 .. Len(r) + 1
        PROVE  Prune(t)[i] = t[k + i]
    <3>1. i \in 1 .. Len(t) - (k + 1) + 1 /\ (k + 1) + i - 1 = k + i
      BY <2>4
    <3>2. SubSeq(t, k + 1, Len(t))[i] = t[(k + 1) + i - 1]
      BY <2>2, <3>1
    <3>3. QED
      BY <2>3, <3>1, <3>2
  <2>6. Len(Prune(t)) = Len(r) + 1
    <3>1. k + 1 <= Len(t) /\ Len(t) - (k + 1) + 1 = Len(r) + 1
      BY <2>4
    <3>2. QED
      BY <2>2, <2>3, <3>1
  <2>7. QED
    BY <2>2, <2>3, <2>5, <2>6
<1>6. Prune(t) = Append(r, 0)
  <2>1. Append(r, 0) \in Seq(Ages) /\ Len(Append(r, 0)) = Len(r) + 1
    <3>1. 0 \in Ages
      BY DEF Ages
    <3>2. QED
      BY <1>2, <3>1, AppendProperties
  <2>2. \A i \in 1 .. Len(r) + 1 : Prune(t)[i] = Append(r, 0)[i]
    BY <1>2, <1>3, <1>5
  <2>3. QED
    BY <1>5, <2>1, <2>2, SeqEqual
<1>7. Splits(Prune(t), 0)
  <2>1. \A i \in 1 .. Len(r) + 1 : t[k + i] <= CatastrophicWindow
    <3>1. ASSUME NEW i \in 1 .. Len(r) + 1, i # Len(r) + 1
          PROVE  t[k + i] <= CatastrophicWindow
      <4>1. k + i \in k + 1 .. Len(s) /\ k + i \in 1 .. Len(s)
        BY <1>2, <1>3, <3>1
      <4>2. QED
        BY <1>1, <1>3, <4>1 DEF Splits
    <3>2. k + (Len(r) + 1) = Len(t) /\ t[Len(t)] <= CatastrophicWindow
      BY <1>2, <1>3
    <3>3. QED
      BY <3>1, <3>2
  <2>2. QED
    BY <1>2, <1>3, <1>5, <2>1 DEF Splits
<1>8. RecentOf(Prune(t)) = Prune(t)
  <2>1. Len(Prune(t)) \in Nat /\ 0 \in 0 .. Len(Prune(t))
    BY <1>5
  <2>2. RecentOf(Prune(t)) = SubSeq(Prune(t), 0 + 1, Len(Prune(t)))
    BY <1>5, <1>7, <2>1, RecentOfSplit
  <2>3. QED
    BY <1>5, <2>2, SubSeqFull
<1>9. OldestFirst(Prune(t))
  <2>1. \A i, j \in 1 .. Len(t) : i <= j => t[j] <= t[i]
    BY <1>3 DEF OldestFirst, Ages
  <2>2. \A i \in 1 .. Len(r) + 1 : k + i \in 1 .. Len(t)
    BY <1>2, <1>3
  <2>3. QED
    BY <1>2, <1>3, <1>5, <2>1, <2>2 DEF OldestFirst
<1>10. QED
  BY <1>6, <1>8, <1>9

\* As ages grow, some get outside the window; the others are a tick older.
LEMMA RecentOfOlder ==
  ASSUME NEW s \in Seq(Ages), OldestFirst(s), NEW t,
         t = [i \in 1 .. Len(s) |-> Older(s[i], CatastrophicWindow + 1)]
  PROVE  /\ OldestFirst(t)
         /\ \E old \in 0 .. Len(RecentOf(s)) :
              /\ \A i \in 1 .. old : RecentOf(s)[i] >= CatastrophicWindow
              /\ \A i \in old + 1 .. Len(RecentOf(s)) : RecentOf(s)[i] < CatastrophicWindow
              /\ RecentOf(t) = [i \in 1 .. Len(RecentOf(s)) - old |-> RecentOf(s)[old + i] + 1]
<1> USE WindowIsNatural
<1> DEFINE r == RecentOf(s)
<1>1. Len(s) \in Nat /\ \A i \in 1 .. Len(s) : s[i] \in Ages
  OBVIOUS
<1>2. /\ t \in Seq(Ages) /\ Len(t) = Len(s)
      /\ \A i \in 1 .. Len(s) : t[i] = Older(s[i], CatastrophicWindow + 1)
  <2>1. \A i \in 1 .. Len(s) : Older(s[i], CatastrophicWindow + 1) \in Ages
    BY <1>1 DEF Ages, Older
  <2>2. QED
    BY <1>1, <2>1
<1>3. OldestFirst(t)
  BY <1>1, <1>2 DEF OldestFirst, Older, Ages
<1>4. PICK k \in 0 .. Len(s) : Splits(s, k)
  BY SplitExists
<1>5. PICK l \in 0 .. Len(s) : Splits(t, l)
  BY <1>2, <1>3, SplitExists
<1>6. Len(r) = Len(s) - k /\ \A i \in 1 .. Len(s) - k : r[i] = s[k + i]
  BY <1>4, RecentOfSplit
<1>7. /\ RecentOf(t) \in Seq(Ages)
      /\ Len(RecentOf(t)) = Len(s) - l
      /\ \A i \in 1 .. Len(s) - l : RecentOf(t)[i] = t[l + i]
  <2>1. t \in Seq(Ages) /\ l \in 0 .. Len(t) /\ Splits(t, l)
    BY <1>2, <1>5
  <2>2. /\ RecentOf(t) \in Seq(Ages)
        /\ Len(RecentOf(t)) = Len(t) - l
        /\ \A i \in 1 .. Len(t) - l : RecentOf(t)[i] = t[l + i]
    BY <2>1, RecentOfSplit
  <2>3. QED
    BY <1>2, <2>2
<1>8. k <= l
  <2> SUFFICES ASSUME l < k
               PROVE  FALSE
    BY <1>1
  <2>1. k \in 1 .. k /\ k \in l + 1 .. Len(t) /\ k \in 1 .. Len(s)
    BY <1>1, <1>2
  <2>2. s[k] > CatastrophicWindow /\ t[k] <= CatastrophicWindow
    BY <1>4, <1>5, <2>1 DEF Splits
  <2>3. QED
    BY <1>1, <1>2, <2>1, <2>2 DEF Older, Ages
<1>9. \A i \in 1 .. l - k : r[i] >= CatastrophicWindow
  <2> SUFFICES ASSUME NEW i \in 1 .. l - k
               PROVE  r[i] >= CatastrophicWindow
    OBVIOUS
  <2>1. k + i \in 1 .. l /\ k + i \in 1 .. Len(s) /\ i \in 1 .. Len(s) - k
    BY <1>1, <1>8
  <2>2. t[k + i] > CatastrophicWindow /\ r[i] = s[k + i]
    BY <1>5, <1>6, <2>1 DEF Splits
  <2>3. QED
    BY <1>1, <1>2, <2>1, <2>2 DEF Older, Ages
<1>10. \A i \in l - k + 1 .. Len(r) : r[i] < CatastrophicWindow
  <2> SUFFICES ASSUME NEW i \in l - k + 1 .. Len(r)
               PROVE  r[i] < CatastrophicWindow
    OBVIOUS
  <2>1. k + i \in l + 1 .. Len(t) /\ k + i \in 1 .. Len(s) /\ i \in 1 .. Len(s) - k
    BY <1>1, <1>2, <1>6, <1>8
  <2>2. t[k + i] <= CatastrophicWindow /\ r[i] = s[k + i]
    BY <1>5, <1>6, <2>1 DEF Splits
  <2>3. QED
    BY <1>1, <1>2, <2>1, <2>2 DEF Older, Ages
<1>11. RecentOf(t) = [i \in 1 .. Len(r) - (l - k) |-> r[(l - k) + i] + 1]
  <2>1. Len(r) - (l - k) = Len(s) - l /\ Len(s) - l \in Nat
    BY <1>1, <1>6, <1>8
  <2>2. ASSUME NEW i \in 1 .. Len(s) - l
        PROVE  RecentOf(t)[i] = r[(l - k) + i] + 1
    <3>1. l + i \in 1 .. Len(s) /\ (l - k) + i \in 1 .. Len(s) - k /\ k + ((l - k) + i) = l + i
      BY <1>1, <1>8
    <3>2. RecentOf(t)[i] = t[l + i] /\ r[(l - k) + i] = s[l + i]
      BY <1>6, <1>7, <3>1
    <3>3. (l - k) + i \in l - k + 1 .. Len(r)
      BY <1>1, <1>6, <1>8
    <3>4. r[(l - k) + i] < CatastrophicWindow
      BY <1>10, <3>3
    <3>5. s[l + i] < CatastrophicWindow
      BY <3>2, <3>4
    <3>6. QED
      BY <1>1, <1>2, <3>1, <3>2, <3>5 DEF Older, Ages
  <2>3. RecentOf(t) = [i \in 1 .. Len(s) - l |-> RecentOf(t)[i]]
    BY <1>7
  <2>4. QED
    BY <2>1, <2>2, <2>3
<1>12. l - k \in 0 .. Len(r)
  BY <1>1, <1>6, <1>8
<1>13. QED
  BY <1>3, <1>9, <1>10, <1>11, <1>12

\* The stamps are in order, and while the primary is up fewer than would end it.
RestartsKept ==
  /\ OldestFirst(restarts)
  /\ primary = "up" => Len(restarts) < CatastrophicRestarts

\* onClusterExit and the clock keep it so.
LEMMA RestartsInvariant == Spec => []RestartsKept
<1> USE WindowIsNatural
<1>1. Init => RestartsKept
  BY ConstantsAssumption DEF Init, ClusterInit, RestartsKept, OldestFirst
<1>2. TypeOK /\ RestartsKept /\ [Next]_vars => RestartsKept'
  <2> SUFFICES ASSUME TypeOK, RestartsKept, [Next]_vars
               PROVE  RestartsKept'
    OBVIOUS
  <2>0. restarts \in Seq(Ages)
    BY DEF TypeOK, Ages
  <2>1. CASE restarts' = restarts /\ (primary' = "up" => primary = "up")
    BY <2>1 DEF RestartsKept, OldestFirst
  <2>2. ASSUME NEW w \in WorkerId, PrimaryStep(w)
        PROVE  RestartsKept'
    <3>1. CASE restarts' = restarts /\ primary' = primary
      BY <2>1, <3>1
    <3>2. CASE restarts' = Prune(Append(restarts, 0)) /\ (primary' = "up" => Len(restarts') < CatastrophicRestarts)
      BY <2>0, <3>2, PruneAppend DEF RestartsKept
    <3>3. QED
      BY <2>2, <3>1, <3>2 DEF PrimaryStep, ReceiveHeartbeat, ExitWhileStopping, ExitAndFork,
                              ExitAndGiveUp, Disconnect
  <2>3. CASE Tick \/ ClockJumps
    <3>1. ClockAdvances /\ primary' = primary
      BY <2>3 DEF Tick, ClockJumps
    <3>2. restarts' = [i \in 1 .. Len(restarts) |-> Older(restarts[i], CatastrophicWindow + 1)]
      BY <3>1 DEF ClockAdvances
    <3>3. OldestFirst(restarts')
      BY <2>0, <3>2, RecentOfOlder DEF RestartsKept
    <3>4. Len(restarts) \in Nat /\ Len(restarts') = Len(restarts)
      BY <2>0, <3>2
    <3>5. QED
      BY <3>1, <3>3, <3>4 DEF RestartsKept
  <2>4. ASSUME NEW w \in WorkerId, WorkerStep(w) \/ Environment(w)
        PROVE  restarts' = restarts /\ primary' = primary
    BY <2>4 DEF WorkerStep, Started, Beat, ShutdownWorker, DrainExpired, Orphaned,
                Environment, Crash, SignalWorker, Block, Unblock
  <2>5. CASE Watchdog \/ ShutdownPrimary \/ ShutdownTimeout \/ NothingLeft
    BY <2>1, <2>5 DEF Watchdog, ShutdownPrimary, ShutdownTimeout, NothingLeft
  <2>6. CASE UNCHANGED vars
    BY <2>1, <2>6 DEF vars
  <2>7. QED
    BY <2>1, <2>2, <2>3, <2>4, <2>5, <2>6 DEF Next
<1>3. QED
  BY <1>1, <1>2, TypeCorrect, PTL DEF Spec

\* The handled exit of a worker takes one member out of the pool.
LEMMA ExitTakesOne ==
  ASSUME TypeOK, NEW w \in WorkerId, phase[w] = "dead",
         NEW p \in {"reaped", "free"}, phase' = [phase EXCEPT ![w] = p]
  PROVE  Cardinality(Members') = Cardinality(Members) - 1 /\ Cardinality(Members) > 0
<1>1. Members' = Members \ {w}
  BY DEF Members, Workers, Alive, TypeOK
<1>2. w \in Members
  BY DEF Members, Workers
<1>3. IsFiniteSet(Members)
  BY ConstantsAssumption, FS_Subset DEF Members, Workers
<1>4. Cardinality(Members \ {w}) = Cardinality(Members) - 1 /\ IsFiniteSet(Members \ {w})
  BY <1>2, <1>3, FS_RemoveElement
<1>5. Cardinality(Members) \in Nat /\ Cardinality(Members \ {w}) \in Nat
  BY <1>3, <1>4, FS_CardinalityType
<1>6. QED
  BY <1>1, <1>4, <1>5

\* The exit that is handled, in numbers of the promise.
LEMMA ExitIsCounted ==
  ASSUME TypeOK, RestartsKept, restarts' = Prune(Append(restarts, 0))
  PROVE  /\ RecentOf(restarts)' = Append(RecentOf(restarts), 0)
         /\ Len(restarts') = Len(RecentOf(restarts)) + 1
         /\ Len(RecentOf(restarts)) \in Nat
         /\ Len(RecentOf(restarts)) <= Len(restarts)
<1> USE WindowIsNatural
<1>1. restarts \in Seq(Ages)
  BY DEF TypeOK, Ages
<1>2. OldestFirst(restarts)
  BY DEF RestartsKept
<1>3. PICK k \in 0 .. Len(restarts) : Splits(restarts, k)
  BY <1>1, <1>2, SplitExists
<1>4. RecentOf(restarts) \in Seq(Ages) /\ Len(RecentOf(restarts)) = Len(restarts) - k
  BY <1>1, <1>3, RecentOfSplit
<1>5. restarts' = Append(RecentOf(restarts), 0) /\ RecentOf(restarts') = restarts'
  BY <1>1, <1>2, PruneAppend
<1>6. Len(restarts') = Len(RecentOf(restarts)) + 1
  BY <1>4, <1>5
<1>7. RecentOf(restarts)' = RecentOf(restarts')
  BY DEF RecentOf, Splits
<1>8. QED
  BY <1>1, <1>4, <1>5, <1>6, <1>7

\* The supervisor implements its promise: every exit is answered by one new worker
\* until the budget is spent, for any number of workers, any budget and any window.
THEOREM BudgetIsKept == Spec => RestartBudget
<1> USE WindowIsNatural
<1>1. Init => Promise!SInit
  <2> SUFFICES ASSUME Init
               PROVE  Promise!SInit
    OBVIOUS
  <2>1. Cardinality(Members) = WorkerCount
    <3>1. PICK S \in SUBSET WorkerId :
            /\ Cardinality(S) = WorkerCount
            /\ phase = [w \in WorkerId |-> IF w \in S THEN "starting" ELSE "free"]
      BY DEF Init, ClusterInit
    <3>2. Members = S
      BY <3>1 DEF Members, Workers, Alive
    <3>3. QED
      BY <3>1, <3>2
  <2>2. RecentOf(<< >>) = << >>
    <3>1. << >> \in Seq(Ages) /\ Len(<< >>) = 0
      OBVIOUS
    <3>2. Splits(<< >>, 0) /\ 0 \in 0 .. Len(<< >>)
      BY <3>1 DEF Splits
    <3>3. RecentOf(<< >>) \in Seq(Ages) /\ Len(RecentOf(<< >>)) = Len(<< >>) - 0
      BY <3>1, <3>2, RecentOfSplit
    <3>4. QED
      BY <3>1, <3>3
  <2>3. QED
    BY <2>1, <2>2 DEF Init, ClusterInit, Promise!SInit
<1>2. TypeOK /\ RestartsKept /\ [Next]_vars => [Promise!SNext]_Promise!supervisionVars
  <2> SUFFICES ASSUME TypeOK, RestartsKept, [Next]_vars
               PROVE  Promise!SNext \/ UNCHANGED Promise!supervisionVars
    OBVIOUS
  <2>0. UNCHANGED restarts => UNCHANGED RecentOf(restarts)
    BY DEF RecentOf, Splits
  <2>1. CASE UNCHANGED <<primary, restarts>> /\ Members' = Members
    BY <2>0, <2>1 DEF Promise!supervisionVars
  <2>2. ASSUME NEW w \in WorkerId, WorkerStep(w)
        PROVE  UNCHANGED <<primary, restarts>> /\ Members' = Members
    <3>1. CASE Started(w) \/ Beat(w) \/ ShutdownWorker(w)
      BY <3>1 DEF Started, Beat, ShutdownWorker, Members, Workers, Alive, TypeOK
    <3>2. CASE DrainExpired(w) \/ Orphaned(w)
      BY <3>2, SignalsKeepMembers DEF DrainExpired, Orphaned
    <3>3. QED
      BY <2>2, <3>1, <3>2 DEF WorkerStep
  <2>3. ASSUME NEW w \in WorkerId, Environment(w)
        PROVE  UNCHANGED <<primary, restarts>> /\ Members' = Members
    <3>1. CASE Crash(w) \/ SignalWorker(w)
      BY <3>1, SignalsKeepMembers DEF Crash, SignalWorker
    <3>2. CASE Block(w) \/ Unblock(w)
      BY <3>2 DEF Block, Unblock, Members, Workers
    <3>3. QED
      BY <2>3, <3>1, <3>2 DEF Environment
  <2>4. ASSUME NEW w \in WorkerId, PrimaryStep(w)
        PROVE  Promise!SNext \/ UNCHANGED Promise!supervisionVars
    <3>1. CASE ReceiveHeartbeat(w)
      BY <2>1, <3>1 DEF ReceiveHeartbeat, Members, Workers
    <3>2. CASE ExitWhileStopping(w)
      <4>1. PICK p \in {"reaped", "free"} : phase' = [phase EXCEPT ![w] = p]
        BY <3>2 DEF ExitWhileStopping, AfterExit
      <4>2. Cardinality(Members') = Cardinality(Members) - 1 /\ Cardinality(Members) > 0
        BY <3>2, <4>1, ExitTakesOne DEF ExitWhileStopping
      <4>3. Promise!Lose
        BY <2>0, <3>2, <4>2 DEF ExitWhileStopping, Promise!Lose
      <4>4. QED
        BY <4>3 DEF Promise!SNext
    <3>3. ASSUME NEW f \in WorkerId, ExitAndFork(w, f)
          PROVE  Promise!Replace
      <4>1. Cardinality(Members') = Cardinality(Members)
        BY <3>3, ReplacementKeepsStrength
      <4>2. Len(restarts') < CatastrophicRestarts /\ primary = "up" /\ primary' = "up"
        BY <3>3 DEF ExitAndFork
      <4>3. /\ RecentOf(restarts)' = Append(RecentOf(restarts), 0)
            /\ Len(restarts') = Len(RecentOf(restarts)) + 1
        BY <3>3, ExitIsCounted DEF ExitAndFork
      <4>4. QED
        BY <4>1, <4>2, <4>3 DEF Promise!Replace
    <3>4. CASE ExitAndGiveUp(w)
      <4>1. PICK p \in {"reaped", "free"} : phase' = [phase EXCEPT ![w] = p]
        BY <3>4 DEF ExitAndGiveUp, AfterExit
      <4>2. Cardinality(Members') = Cardinality(Members) - 1
        BY <3>4, <4>1, ExitTakesOne DEF ExitAndGiveUp
      <4>3. Len(restarts') >= CatastrophicRestarts /\ primary = "up" /\ primary' = "exit1"
        BY <3>4 DEF ExitAndGiveUp
      <4>4. /\ RecentOf(restarts)' = Append(RecentOf(restarts), 0)
            /\ Len(restarts') = Len(RecentOf(restarts)) + 1
            /\ Len(RecentOf(restarts)) \in Nat
            /\ Len(RecentOf(restarts)) <= Len(restarts)
        BY <3>4, ExitIsCounted DEF ExitAndGiveUp
      <4>5. Len(restarts) < CatastrophicRestarts /\ Len(restarts) \in Nat
        BY <4>3 DEF RestartsKept, TypeOK
      <4>6. Len(RecentOf(restarts)) + 1 = CatastrophicRestarts
        BY <4>3, <4>4, <4>5, ConstantsAssumption
      <4>7. Promise!GiveUp
        BY <4>2, <4>3, <4>4, <4>6 DEF Promise!GiveUp
      <4>8. QED
        BY <4>7 DEF Promise!SNext
    <3>5. CASE Disconnect(w)
      BY <2>1, <3>5 DEF Disconnect, Members, Workers, Alive, TypeOK
    <3>6. QED
      BY <2>4, <3>1, <3>2, <3>3, <3>4, <3>5 DEF PrimaryStep, Promise!SNext
  <2>5. CASE Watchdog
    BY <2>1, <2>5, SignalsKeepMembers DEF Watchdog
  <2>6. CASE ShutdownPrimary
    <3>1. Members' = Members /\ primary' = "stopping" /\ primary \in {"up", "stopping"} /\ UNCHANGED restarts
      BY <2>6, SignalsKeepMembers DEF ShutdownPrimary, PrimaryAlive
    <3>2. CASE primary = "up"
      BY <2>0, <3>1, <3>2 DEF Promise!Stop, Promise!SNext
    <3>3. CASE primary = "stopping"
      BY <2>1, <3>1, <3>3
    <3>4. QED
      BY <3>1, <3>2, <3>3
  <2>7. CASE ShutdownTimeout \/ NothingLeft
    <3>1. Members' = Members
      BY <2>7, SignalsKeepMembers DEF ShutdownTimeout, NothingLeft, Members, Workers
    <3>2. Promise!Leave
      BY <2>0, <2>7, <3>1 DEF ShutdownTimeout, NothingLeft, Promise!Leave
    <3>3. QED
      BY <3>2 DEF Promise!SNext
  <2>8. CASE Tick \/ ClockJumps
    <3>1. /\ primary \in {"up", "stopping"} /\ UNCHANGED <<primary, phase>>
          /\ restarts' = [i \in 1 .. Len(restarts) |-> Older(restarts[i], CatastrophicWindow + 1)]
      BY <2>8 DEF Tick, ClockJumps, PrimaryAlive, ClockAdvances
    <3>2. restarts \in Seq(Ages) /\ OldestFirst(restarts)
      BY DEF TypeOK, Ages, RestartsKept
    <3>3. \E old \in 0 .. Len(RecentOf(restarts)) :
            /\ \A i \in 1 .. old : RecentOf(restarts)[i] >= CatastrophicWindow
            /\ \A i \in old + 1 .. Len(RecentOf(restarts)) : RecentOf(restarts)[i] < CatastrophicWindow
            /\ RecentOf(restarts') =
                 [i \in 1 .. Len(RecentOf(restarts)) - old |-> RecentOf(restarts)[old + i] + 1]
      BY <3>1, <3>2, RecentOfOlder
    <3>4. RecentOf(restarts)' = RecentOf(restarts')
      BY DEF RecentOf, Splits
    <3>5. Members' = Members
      BY <3>1 DEF Members, Workers
    <3>6. Promise!Age
      BY <3>1, <3>3, <3>4, <3>5 DEF Promise!Age
    <3>7. QED
      BY <3>6 DEF Promise!SNext
  <2>9. CASE UNCHANGED vars
    BY <2>1, <2>9 DEF vars, Members, Workers
  <2>10. QED
    BY <2>1, <2>2, <2>3, <2>4, <2>5, <2>6, <2>7, <2>8, <2>9 DEF Next
<1>3. QED
  BY <1>1, <1>2, TypeCorrect, RestartsInvariant, PTL DEF Spec, RestartBudget, Promise!SSpec
-----------------------------------------------------------------------------
(* Liveness, as far as the provers reach. *)

\* Only the loop of a living process can be blocked.
BlockedLive == blocked \subseteq Workers(Alive)

LEMMA BlockedInvariant == Spec => []BlockedLive
<1>1. Init => BlockedLive
  BY DEF Init, ClusterInit, BlockedLive
<1>2. ASSUME TypeOK, BlockedLive, [Next]_vars
      PROVE  BlockedLive'
  <2>0. phase \in [WorkerId -> Phase] /\ blocked \subseteq WorkerId
    BY <1>2, ConstantsAssumption DEF TypeOK
  <2>1. ASSUME NEW S \in SUBSET WorkerId, Die(S) \/ Terminate(S)
        PROVE  BlockedLive'
    BY <1>2, <2>0, <2>1 DEF Die, Terminate, BlockedLive, Workers, Alive
  <2>2. ASSUME NEW w \in WorkerId, WorkerStep(w)
        PROVE  BlockedLive'
    <3>1. CASE Started(w) \/ Beat(w)
      BY <1>2, <2>0, <3>1 DEF Started, Beat, BlockedLive, Workers, Alive
    <3>2. CASE ShutdownWorker(w)
      BY <1>2, <2>0, <3>2 DEF ShutdownWorker, BlockedLive, Workers, Alive
    <3>3. CASE DrainExpired(w) \/ Orphaned(w)
      BY <2>1, <3>3 DEF DrainExpired, Orphaned
    <3>4. QED
      BY <2>2, <3>1, <3>2, <3>3 DEF WorkerStep
  <2>3. ASSUME NEW w \in WorkerId, Environment(w)
        PROVE  BlockedLive'
    <3>1. CASE Crash(w) \/ SignalWorker(w)
      BY <2>1, <3>1 DEF Crash, SignalWorker
    <3>2. CASE Block(w) \/ Unblock(w)
      BY <1>2, <2>0, <3>2 DEF Block, Unblock, BlockedLive, Workers, Responsive
    <3>3. QED
      BY <2>3, <3>1, <3>2 DEF Environment
  <2>4. ASSUME NEW w \in WorkerId, PrimaryStep(w)
        PROVE  BlockedLive'
    <3>1. CASE ReceiveHeartbeat(w)
      BY <1>2, <3>1 DEF ReceiveHeartbeat, BlockedLive, Workers
    <3>2. CASE ExitWhileStopping(w) \/ ExitAndGiveUp(w)
      BY <1>2, <2>0, <3>2 DEF ExitWhileStopping, ExitAndGiveUp, BlockedLive, Workers, Alive
    <3>3. ASSUME NEW f \in WorkerId, ExitAndFork(w, f)
          PROVE  BlockedLive'
      BY <1>2, <2>0, <3>3 DEF ExitAndFork, BlockedLive, Workers, Alive
    <3>4. CASE Disconnect(w)
      BY <1>2, <2>0, <3>4 DEF Disconnect, BlockedLive, Workers, Alive
    <3>5. QED
      BY <2>4, <3>1, <3>2, <3>3, <3>4 DEF PrimaryStep
  <2>5. CASE Watchdog \/ ShutdownPrimary \/ ShutdownTimeout
    BY <2>1, <2>5 DEF Watchdog, ShutdownPrimary, ShutdownTimeout
  <2>6. CASE NothingLeft \/ Tick \/ ClockJumps \/ UNCHANGED vars
    BY <1>2, <2>6 DEF NothingLeft, Tick, ClockJumps, vars, BlockedLive, Workers
  <2>7. QED
    BY <1>2, <2>2, <2>3, <2>4, <2>5, <2>6 DEF Next
<1>3. QED
  BY <1>1, <1>2, TypeCorrect, PTL DEF Spec

\* A stuck worker sends nothing, so what separates it from the watchdog only
\* grows less: no step of anybody but the primary's clock and its reading of the
\* channel touches it, while the worker stays stuck.
LEMMA StuckKeepsDistance ==
  ASSUME TypeOK, BlockedLive, [Next]_vars, NEW w \in WorkerId, Stuck(w)
  PROVE  ~Stuck(w)' \/ Unnoticed(w)' = Unnoticed(w) \/ Unnoticed(w)' < Unnoticed(w)
<1> USE DEF Stuck
<1>0. /\ silence \in [WorkerId -> 0 .. Never] /\ inFlight \subseteq WorkerId
      /\ Never \in Nat /\ phase[w] \in Alive
  BY ConstantsAssumption DEF TypeOK, BlockedLive, Workers, Never
<1>1. ASSUME UNCHANGED <<silence, inFlight>>
      PROVE  Unnoticed(w)' = Unnoticed(w)
  BY <1>1 DEF Unnoticed, Never
<1>2. ASSUME NEW x \in WorkerId, WorkerStep(x) \/ Environment(x)
      PROVE  Unnoticed(w)' = Unnoticed(w)
  <2>1. CASE Beat(x)
    <3>1. x # w /\ silence' = silence /\ inFlight' = inFlight \cup {x}
      BY <2>1 DEF Beat, Responsive
    <3>2. QED
      BY <3>1 DEF Unnoticed, Never
  <2>2. CASE ~Beat(x)
    BY <1>1, <1>2, <2>2 DEF WorkerStep, Environment, Started, ShutdownWorker, DrainExpired, Orphaned,
       Crash, SignalWorker, Block, Unblock
  <2>3. QED
    BY <2>1, <2>2
<1>3. ASSUME NEW x \in WorkerId, PrimaryStep(x)
      PROVE  ~Stuck(w)' \/ Unnoticed(w)' = Unnoticed(w) \/ Unnoticed(w)' < Unnoticed(w)
  <2>1. CASE ReceiveHeartbeat(x)
    <3>1. CASE x = w
      <4>1. w \in inFlight /\ w \notin inFlight' /\ silence'[w] = 0
        BY <1>0, <2>1, <3>1 DEF ReceiveHeartbeat
      <4>2. Unnoticed(w) = Never + 1 /\ Unnoticed(w)' = Never
        BY <1>0, <4>1 DEF Unnoticed, Never
      <4>3. QED
        BY <1>0, <4>2
    <3>2. CASE x # w
      <4>1. (w \in inFlight' <=> w \in inFlight) /\ silence'[w] = silence[w]
        BY <1>0, <2>1, <3>2 DEF ReceiveHeartbeat
      <4>2. QED
        BY <4>1 DEF Unnoticed, Never
    <3>3. QED
      BY <3>1, <3>2
  <2>2. CASE ExitWhileStopping(x) \/ ExitAndGiveUp(x)
    BY <2>2 DEF ExitWhileStopping, ExitAndGiveUp
  <2>3. ASSUME NEW f \in WorkerId, ExitAndFork(x, f)
        PROVE  Unnoticed(w)' = Unnoticed(w)
    <3>1. x # w /\ f # w
      BY <1>0, <2>3 DEF ExitAndFork, Alive
    <3>2. silence'[w] = silence[w] /\ inFlight' = inFlight
      BY <1>0, <2>3, <3>1 DEF ExitAndFork
    <3>3. QED
      BY <3>2 DEF Unnoticed, Never
  <2>4. CASE Disconnect(x)
    <3>1. x # w
      BY <1>0, <2>4 DEF Disconnect, Alive
    <3>2. silence'[w] = silence[w] /\ inFlight' = inFlight
      BY <1>0, <2>4, <3>1 DEF Disconnect
    <3>3. QED
      BY <3>2 DEF Unnoticed, Never
  <2>5. QED
    BY <1>3, <2>1, <2>2, <2>3, <2>4 DEF PrimaryStep
<1>4. CASE Tick \/ ClockJumps
  <2>1. silence'[w] = Older(silence[w], Never) /\ inFlight' = inFlight
    BY <1>0, <1>4 DEF Tick, ClockJumps, ClockAdvances
  <2>2. silence[w] \in 0 .. Never /\ (silence'[w] = silence[w] \/ silence'[w] = silence[w] + 1)
    BY <1>0, <2>1 DEF Older
  <2>3. CASE w \in inFlight
    BY <2>1, <2>3 DEF Unnoticed, Never
  <2>4. CASE w \notin inFlight
    <3>1. Unnoticed(w) = Never - silence[w] /\ Unnoticed(w)' = Never - silence'[w]
      BY <2>1, <2>4 DEF Unnoticed, Never
    <3>2. QED
      BY <1>0, <2>2, <3>1
  <2>5. QED
    BY <2>3, <2>4
<1>5. CASE Watchdog \/ ShutdownPrimary \/ ShutdownTimeout \/ NothingLeft \/ UNCHANGED vars
  BY <1>1, <1>5 DEF Watchdog, ShutdownPrimary, ShutdownTimeout, NothingLeft, vars
<1>6. QED
  BY <1>2, <1>3, <1>4, <1>5 DEF Next

\* What brings the watchdog nearer: the primary reads the channel, then its clock
\* goes on, and at last the watchdog runs.
LEMMA StuckIsNearer ==
  ASSUME TypeOK, BlockedLive, NEW w \in WorkerId, Stuck(w)
  PROVE  /\ Unnoticed(w) = Never + 1 /\ PrimaryStep(w) => ~Stuck(w)' \/ Unnoticed(w)' < Unnoticed(w)
         /\ Unnoticed(w) \in 1 .. Never /\ ClockAdvances /\ [Next]_vars =>
              ~Stuck(w)' \/ Unnoticed(w)' < Unnoticed(w)
         /\ Unnoticed(w) = 0 /\ Watchdog => ~Stuck(w)'
<1>0. /\ silence \in [WorkerId -> 0 .. Never] /\ inFlight \subseteq WorkerId
      /\ Never \in Nat /\ phase[w] \in Alive /\ NoHeartbeat \in Nat /\ Never = NoHeartbeat + 1
  BY ConstantsAssumption DEF TypeOK, BlockedLive, Workers, Never, Stuck
<1>1. ASSUME Unnoticed(w) = Never + 1, PrimaryStep(w)
      PROVE  ~Stuck(w)' \/ Unnoticed(w)' < Unnoticed(w)
  <2>1. ReceiveHeartbeat(w)
    BY <1>0, <1>1 DEF PrimaryStep, ExitWhileStopping, ExitAndFork, ExitAndGiveUp, Disconnect, Alive
  <2>2. w \notin inFlight' /\ silence'[w] = 0
    BY <1>0, <2>1 DEF ReceiveHeartbeat
  <2>3. Unnoticed(w)' = Never
    BY <1>0, <2>2 DEF Unnoticed, Never
  <2>4. QED
    BY <1>0, <1>1, <2>3
<1>2. ASSUME Unnoticed(w) \in 1 .. Never, ClockAdvances, [Next]_vars
      PROVE  ~Stuck(w)' \/ Unnoticed(w)' < Unnoticed(w)
  <2>1. w \notin inFlight /\ silence[w] \in 0 .. Never /\ Unnoticed(w) = Never - silence[w]
    BY <1>0, <1>2 DEF Unnoticed
  <2>2. silence'[w] = silence[w] + 1
    BY <1>0, <1>2, <2>1 DEF ClockAdvances, Older
  <2>3. w \notin inFlight' => Unnoticed(w)' = Never - silence'[w]
    BY DEF Unnoticed, Never
  <2>4. w \in inFlight' => Unnoticed(w)' = Never + 1
    BY DEF Unnoticed, Never
  <2>5. ~Stuck(w)' \/ Unnoticed(w)' = Unnoticed(w) \/ Unnoticed(w)' < Unnoticed(w)
    BY <1>2, StuckKeepsDistance
  <2>6. QED
    BY <1>0, <2>1, <2>2, <2>3, <2>4, <2>5
<1>3. ASSUME Unnoticed(w) = 0, Watchdog
      PROVE  ~Stuck(w)'
  <2>1. silence[w] = Never
    BY <1>0, <1>3 DEF Unnoticed
  <2>2. Overdue(w)
    BY <1>0, <2>1 DEF Overdue
  <2>3. blocked' = blocked \ {x \in WorkerId : Overdue(x)}
    BY <1>3 DEF Watchdog, Die
  <2>4. QED
    BY <2>2, <2>3 DEF Stuck
<1>4. QED
  BY <1>1, <1>2, <1>3

\* A primary that has stopped supervising does not start again.
LEMMA NeverUpAgain ==
  ASSUME [Next]_vars, primary # "up"
  PROVE  primary' # "up"
<1>1. ASSUME NEW x \in WorkerId, WorkerStep(x) \/ Environment(x)
      PROVE  primary' # "up"
  BY <1>1 DEF WorkerStep, Environment, Started, Beat, ShutdownWorker, DrainExpired, Orphaned,
     Crash, SignalWorker, Block, Unblock
<1>2. ASSUME NEW x \in WorkerId, PrimaryStep(x)
      PROVE  primary' # "up"
  BY <1>2 DEF PrimaryStep, ReceiveHeartbeat, ExitWhileStopping, ExitAndFork, ExitAndGiveUp, Disconnect
<1>3. CASE \/ Watchdog \/ ShutdownPrimary \/ ShutdownTimeout \/ NothingLeft \/ Tick \/ ClockJumps
           \/ UNCHANGED vars
  BY <1>3 DEF Watchdog, ShutdownPrimary, ShutdownTimeout, NothingLeft, Tick, ClockJumps, vars
<1>4. QED
  BY <1>1, <1>2, <1>3 DEF Next

\* A stuck worker does not stay: from wherever its silence stands, it is dealt with
\* (it turns again, or is killed, or the primary stops supervising) or the watchdog
\* comes nearer, in a distance that cannot shrink for ever. Nothing the other
\* workers do, and no crash or fork, sets it back.
THEOREM StuckComesNearer ==
  FairSpec /\ []WaitsCanEnd /\ ClockGoesOn => StuckIsNoticed
<1>1. ASSUME NEW w \in WorkerId, NEW n \in Nat
      PROVE  FairSpec /\ []WaitsCanEnd /\ ClockGoesOn =>
               (Stuck(w) /\ Unnoticed(w) = n ~> ~Stuck(w) \/ Unnoticed(w) < n)
  <2>1. TypeOK /\ BlockedLive /\ [Next]_vars /\ (Stuck(w) /\ Unnoticed(w) = n) =>
          (Stuck(w) /\ Unnoticed(w) = n)' \/ (~Stuck(w) \/ Unnoticed(w) < n)'
    BY StuckKeepsDistance
  <2>2. FairWorkers => FairFor(w)
    BY DEF FairWorkers
  <2>3. /\ primary # "up" => ~Stuck(w)
        /\ [Next]_vars /\ primary # "up" => (primary # "up")'
    BY NeverUpAgain DEF Stuck
  <2>4. CASE n = Never + 1
    <3>1. TypeOK /\ BlockedLive /\ <<PrimaryStep(w)>>_vars /\ (Stuck(w) /\ Unnoticed(w) = n) =>
            (~Stuck(w) \/ Unnoticed(w) < n)'
      BY <2>4, StuckIsNearer
    <3>2. TypeOK /\ WaitsCanEnd /\ (Stuck(w) /\ Unnoticed(w) = n) => ENABLED <<PrimaryStep(w)>>_vars
      <4>1. ASSUME TypeOK, Unnoticed(w) = n
            PROVE  w \in inFlight
        <5>1. silence[w] \in 0 .. Never /\ Never \in Nat
          BY <4>1, ConstantsAssumption DEF TypeOK, Never
        <5>2. QED
          BY <2>4, <4>1, <5>1 DEF Unnoticed
      <4>2. QED
        BY <4>1 DEF WaitsCanEnd, Stuck
    <3>3. QED
      BY <2>1, <2>2, <3>1, <3>2, TypeCorrect, BlockedInvariant, PTL DEF FairSpec, Fairness, FairFor, Spec
  <2>5. CASE n \in 1 .. Never
    <3>1. TypeOK /\ BlockedLive /\ [Next]_vars /\ <<ClockAdvances>>_vars /\ (Stuck(w) /\ Unnoticed(w) = n) =>
            (~Stuck(w) \/ Unnoticed(w) < n)'
      BY <2>5, StuckIsNearer
    <3>2. QED
      BY <2>1, <2>3, <3>1, TypeCorrect, BlockedInvariant, PTL DEF FairSpec, ClockGoesOn, Spec
  <2>6. CASE n = 0
    <3>1. TypeOK /\ BlockedLive /\ <<Watchdog>>_vars /\ (Stuck(w) /\ Unnoticed(w) = n) =>
            (~Stuck(w) \/ Unnoticed(w) < n)'
      BY <2>6, StuckIsNearer
    <3>2. TypeOK /\ WaitsCanEnd /\ (Stuck(w) /\ Unnoticed(w) = n) => ENABLED <<Watchdog>>_vars
      <4>1. ASSUME TypeOK, Unnoticed(w) = n
            PROVE  Overdue(w)
        <5>1. silence[w] \in 0 .. Never /\ NoHeartbeat \in Nat /\ Never = NoHeartbeat + 1
          BY <4>1, ConstantsAssumption DEF TypeOK, Never
        <5>2. QED
          BY <2>6, <4>1, <5>1 DEF Unnoticed, Overdue
      <4>2. QED
        BY <4>1 DEF WaitsCanEnd, Stuck
    <3>3. QED
      BY <2>1, <3>1, <3>2, TypeCorrect, BlockedInvariant, PTL DEF FairSpec, Fairness, Spec
  <2>7. CASE n > Never + 1
    <3>1. TypeOK => ~(Stuck(w) /\ Unnoticed(w) = n)
      <4>1. ASSUME TypeOK
            PROVE  Unnoticed(w) <= Never + 1
        <5>1. silence[w] \in 0 .. Never /\ Never \in Nat
          BY <4>1, ConstantsAssumption DEF TypeOK, Never
        <5>2. QED
          BY <5>1 DEF Unnoticed
      <4>2. QED
        BY <2>7, <4>1, ConstantsAssumption DEF Never
    <3>2. QED
      BY <3>1, TypeCorrect, PTL DEF FairSpec
  <2>8. QED
    BY <2>4, <2>5, <2>6, <2>7, ConstantsAssumption DEF Never
<1>2. QED
  BY <1>1 DEF StuckIsNoticed

\* A primary that shuts down leaves with code 0 or still counts down; no second
\* signal, exit or heartbeat sets its timer back.
LEMMA StoppingCountsDown ==
  ASSUME TypeOK, [Next]_vars, primary = "stopping"
  PROVE  /\ primary' = "exit0" \/ (primary' = "stopping" /\ stopTimer' \in 0 .. stopTimer)
         /\ Tick => primary' = "stopping" /\ stopTimer' = Sooner(stopTimer)
         /\ ShutdownTimeout => primary' = "exit0"
<1>0. stopTimer \in Nat
  BY ConstantsAssumption DEF TypeOK
<1>1. ASSUME NEW x \in WorkerId, WorkerStep(x) \/ Environment(x)
      PROVE  primary' = primary /\ stopTimer' = stopTimer
  BY <1>1 DEF WorkerStep, Environment, Started, Beat, ShutdownWorker, DrainExpired, Orphaned,
     Crash, SignalWorker, Block, Unblock
<1>2. ASSUME NEW x \in WorkerId, PrimaryStep(x)
      PROVE  primary' = primary /\ stopTimer' = stopTimer
  BY <1>2 DEF PrimaryStep, ReceiveHeartbeat, ExitWhileStopping, ExitAndFork, ExitAndGiveUp, Disconnect
<1>3. ASSUME Tick
      PROVE  primary' = "stopping" /\ stopTimer' = Sooner(stopTimer) /\ stopTimer' \in 0 .. stopTimer
  BY <1>0, <1>3 DEF Tick, Sooner
<1>4. ASSUME Watchdog \/ ShutdownPrimary \/ ShutdownTimeout \/ NothingLeft \/ ClockJumps \/ UNCHANGED vars
      PROVE  primary' = "exit0" \/ (primary' = "stopping" /\ stopTimer' \in 0 .. stopTimer)
  <2>1. (primary' = primary /\ stopTimer' = stopTimer) \/ primary' = "exit0"
    BY <1>4 DEF Watchdog, ShutdownPrimary, ShutdownTimeout, NothingLeft, ClockJumps, vars
  <2>2. stopTimer \in 0 .. stopTimer
    BY <1>0
  <2>3. QED
    BY <2>1, <2>2
<1>5. primary' = "exit0" \/ (primary' = "stopping" /\ stopTimer' \in 0 .. stopTimer)
  BY <1>0, <1>1, <1>2, <1>3, <1>4 DEF Next
<1>6. ShutdownTimeout => primary' = "exit0"
  BY DEF ShutdownTimeout
<1>7. QED
  BY <1>3, <1>5, <1>6

\* Shutdown ends: with blocked workers, workers that ignore their signal, crashes
\* and further signals, every tick brings a stopping primary nearer to its exit
\* with code 0, and at 0 it leaves.
THEOREM ShutdownComesNearer ==
  FairSpec /\ []WaitsCanEnd /\ TimersGoOn => ShutdownAdvances
<1>1. ASSUME NEW n \in Nat
      PROVE  FairSpec /\ []WaitsCanEnd /\ TimersGoOn =>
               (primary = "stopping" /\ stopTimer = n
                  ~> primary = "exit0" \/ (primary = "stopping" /\ stopTimer < n))
  <2>1. TypeOK /\ [Next]_vars /\ (primary = "stopping" /\ stopTimer = n) =>
          (primary = "stopping" /\ stopTimer = n)' \/ (primary = "exit0" \/ (primary = "stopping" /\ stopTimer < n))'
    <3>1. TypeOK => stopTimer \in Nat
      BY ConstantsAssumption DEF TypeOK
    <3>2. QED
      BY <3>1, StoppingCountsDown
  <2>2. CASE n = 0
    <3>1. TypeOK /\ [Next]_vars /\ <<ShutdownTimeout>>_vars /\ (primary = "stopping" /\ stopTimer = n) =>
            (primary = "exit0" \/ (primary = "stopping" /\ stopTimer < n))'
      BY StoppingCountsDown
    <3>2. WaitsCanEnd /\ (primary = "stopping" /\ stopTimer = n) => ENABLED <<ShutdownTimeout>>_vars
      BY <2>2 DEF WaitsCanEnd
    <3>3. QED
      BY <2>1, <3>1, <3>2, TypeCorrect, PTL DEF FairSpec, Fairness, Spec
  <2>3. CASE n > 0
    <3>1. TypeOK /\ [Next]_vars /\ <<Tick>>_vars /\ (primary = "stopping" /\ stopTimer = n) =>
            (primary = "exit0" \/ (primary = "stopping" /\ stopTimer < n))'
      BY <2>3, StoppingCountsDown DEF Sooner
    <3>2. (primary = "stopping" /\ stopTimer = n) => primary = "stopping"
      OBVIOUS
    <3>3. QED
      BY <2>1, <3>1, <3>2, TypeCorrect, PTL DEF FairSpec, TimersGoOn, Spec
  <2>4. QED
    BY <2>2, <2>3
<1>2. QED
  BY <1>1 DEF ShutdownAdvances
=============================================================================
