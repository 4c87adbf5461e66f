------------------------------ MODULE Cluster ------------------------------
(***************************************************************************)
(* The process supervisor of the dweb API server: runClustered and         *)
(* runWorker of dweb-api-server/src/server/cluster.ts, with the parts of   *)
(* node:cluster they rely on (the worker list, the IPC channels, signals). *)
(*                                                                         *)
(* The primary forks WorkerCount workers, replaces each one that exits,    *)
(* SIGKILLs the ones it has not heard from for too long, gives up when too *)
(* many exit in a short time, and on SIGTERM/SIGINT passes the signal on   *)
(* and leaves. A worker starts its servers, then sends heartbeats, and on  *)
(* SIGTERM/SIGINT stops beating, closes its servers and leaves later.      *)
(*                                                                         *)
(* Time is counted in ticks. The code compares ages (Date.now() minus a    *)
(* stored time stamp) with limits, so the model keeps the ages, saturated  *)
(* one above the limit they are compared with, and timers that count down. *)
(***************************************************************************)
EXTENDS Integers, Sequences, FiniteSets

CONSTANTS
  WorkerId,             \* ids of cluster.fork(); an id is used again once the primary forgot it
  WorkerCount,          \* o.workers, rounded down
  Heartbeat,            \* o.heartbeatMs: period of a worker's beat timer
  NoHeartbeat,          \* o.noHeartbeatMs: silence the watchdog tolerates
  Drain,                \* 5000 ms, the exit timers of shutdownPrimary and shutdownWorker
  CatastrophicRestarts, \* o.catastrophicRestarts
  CatastrophicWindow,   \* o.catastrophicWindowMs
  StartLimit,           \* ticks within which a worker that is not Faulty has run start()
  Faulty                \* ids of workers whose event loop may block and whose start() may take for ever

ASSUME ConstantsAssumption ==
  /\ IsFiniteSet(WorkerId)
  /\ Faulty \subseteq WorkerId
  /\ WorkerCount \in 2 .. Cardinality(WorkerId)
  /\ {Heartbeat, NoHeartbeat, CatastrophicRestarts, CatastrophicWindow} \subseteq Nat \ {0}
  /\ {Drain, StartLimit} \subseteq Nat

VARIABLES
  primary,     \* "up", "stopping" (shuttingDown), "exit0", "exit1"
  stopTimer,   \* ticks until the timer of shutdownPrimary fires
  restarts,    \* restartTimestamps, as ages, the oldest first
  silence,     \* age of the lastHeartbeat entry of a worker; Never when it has none
  phase,       \* where the process of a worker is in its life
  timer,       \* ticks until the worker's timer fires: beat when running, exit when draining
  blocked,     \* workers whose event loop does not turn
  termPending, \* workers with a SIGTERM/SIGINT their loop has not handled yet
  inFlight,    \* workers with heartbeats in their channel the primary has not read
  steady       \* history: the primary has served its loop within every tick, and its
               \* clock has not jumped

vars == <<primary, stopTimer, restarts, silence, phase, timer, blocked, termPending, inFlight, steady>>

-----------------------------------------------------------------------------
(* State formulae. *)

\* lastHeartbeat.get(id) ?? 0 for an id without an entry: older than any limit.
Never == NoHeartbeat + 1

\* The life of a worker: forked and before `await start` is over, beating, after
\* its SIGTERM, process gone, 'exit' emitted while the channel is still open.
\* Only a "free" id is missing from cluster.workers.
Alive == {"starting", "running", "draining"}
Phase == Alive \cup {"dead", "reaped", "free"}

Workers(S) == {w \in WorkerId : phase[w] \in S}

\* Workers whose 'exit' the primary has not handled.
Members == Workers(Alive \cup {"dead"})

PrimaryAlive == primary \in {"up", "stopping"}

Overdue(w) == silence[w] > NoHeartbeat

\* The event loop of w turns.
Responsive(w) == phase[w] \in Alive /\ w \notin blocked

LongestTimer == IF Heartbeat > Drain THEN Heartbeat ELSE Drain

TypeOK ==
  /\ primary \in {"up", "stopping", "exit0", "exit1"}
  /\ stopTimer \in 0 .. Drain
  /\ restarts \in Seq(0 .. CatastrophicWindow + 1)
  /\ silence \in [WorkerId -> 0 .. Never]
  /\ phase \in [WorkerId -> Phase]
  /\ timer \in [WorkerId -> 0 .. LongestTimer]
  /\ blocked \subseteq Faulty
  /\ termPending \subseteq Workers({"running", "draining"})
  /\ inFlight \subseteq WorkerId
  /\ steady \in BOOLEAN

-----------------------------------------------------------------------------
(* The initial state: every fork of the start-up loop is done. *)

ClusterInit ==
  /\ primary = "up"
  /\ stopTimer = Drain
  /\ restarts = <<>>
  /\ \E S \in SUBSET WorkerId :
        /\ Cardinality(S) = WorkerCount
        /\ phase = [w \in WorkerId |-> IF w \in S THEN "starting" ELSE "free"]
        /\ silence = [w \in WorkerId |-> IF w \in S THEN 0 ELSE Never]
  /\ timer = [w \in WorkerId |-> 0]
  /\ blocked = {}
  /\ termPending = {}
  /\ inFlight = {}

Init == ClusterInit /\ steady = TRUE

-----------------------------------------------------------------------------
(* What a signal does to the processes it reaches. *)

\* The processes of S end, whatever they were doing; what they sent stays in
\* their channels.
Die(S) ==
  /\ phase' = [w \in WorkerId |-> IF w \in S /\ phase[w] \in Alive THEN "dead" ELSE phase[w]]
  /\ timer' = [w \in WorkerId |-> IF w \in S THEN 0 ELSE timer[w]]
  /\ blocked' = blocked \ S
  /\ termPending' = termPending \ S

\* Variant: the handlers are installed before `await start`.
TerminateEarlyHandler(S) ==
  /\ UNCHANGED <<phase, timer, blocked, steady>>
  /\ termPending' = termPending \cup (S \cap Workers(Alive))

\* SIGTERM or SIGINT to the processes of S. A worker installs its handler after
\* `await start`: before that the signal ends the process.
Terminate(S) ==
  /\ phase' = [w \in WorkerId |-> IF w \in S /\ phase[w] = "starting" THEN "dead" ELSE phase[w]]
  /\ timer' = timer
  /\ blocked' = blocked \ (S \cap Workers({"starting"}))
  /\ termPending' = termPending \cup (S \cap Workers({"running", "draining"}))

-----------------------------------------------------------------------------
(* The worker. *)

\* `await start(registerServer)` is over: the beat interval and the signal
\* handlers are installed.
Started(w) ==
  /\ phase[w] = "starting" /\ Responsive(w)
  /\ phase' = [phase EXCEPT ![w] = "running"]
  /\ timer' = [timer EXCEPT ![w] = Heartbeat]
  /\ UNCHANGED <<primary, stopTimer, restarts, silence, blocked, termPending, inFlight, steady>>

\* The beat interval fires. Its exit(1) on overload is a Crash.
Beat(w) ==
  /\ PrimaryAlive
  /\ phase[w] = "running" /\ Responsive(w)
  /\ timer[w] = 0
  /\ timer' = [timer EXCEPT ![w] = Heartbeat]
  /\ inFlight' = inFlight \cup {w}
  /\ UNCHANGED <<primary, stopTimer, restarts, silence, phase, blocked, termPending, steady>>

\* Variant: a second signal restarts the exit timer.
ShutdownWorkerRearmed(w) ==
  /\ w \in termPending /\ Responsive(w)
  /\ termPending' = termPending \ {w}
  /\ phase' = [phase EXCEPT ![w] = "draining"]
  /\ timer' = [timer EXCEPT ![w] = Drain]
  /\ UNCHANGED <<primary, stopTimer, restarts, silence, blocked, inFlight, steady>>

\* shutdownWorker. A second signal sets a second exit timer, which the first
\* one's exit makes moot.
ShutdownWorker(w) ==
  /\ w \in termPending /\ Responsive(w)
  /\ termPending' = termPending \ {w}
  /\ phase' = [phase EXCEPT ![w] = "draining"]
  /\ timer' = IF phase[w] = "running" THEN [timer EXCEPT ![w] = Drain] ELSE timer
  /\ UNCHANGED <<primary, stopTimer, restarts, silence, blocked, inFlight, steady>>

\* The exit timer of shutdownWorker fires.
DrainExpired(w) ==
  /\ phase[w] = "draining" /\ Responsive(w)
  /\ timer[w] = 0
  /\ Die({w})
  /\ UNCHANGED <<primary, stopTimer, restarts, silence, inFlight, steady>>

\* The primary is gone: node:cluster ends a worker whose channel closes.
Orphaned(w) ==
  /\ ~PrimaryAlive
  /\ Responsive(w)
  /\ Die({w})
  /\ UNCHANGED <<primary, stopTimer, restarts, silence, inFlight, steady>>

\* The process ends for any other reason: a server error or the overload exit
\* (both process.exit(1)), an uncaught error, memory, a SIGKILL from outside.
Crash(w) ==
  /\ phase[w] \in Alive
  /\ Die({w})
  /\ UNCHANGED <<primary, stopTimer, restarts, silence, inFlight, steady>>

\* Somebody other than the primary sends w a SIGTERM or SIGINT.
SignalWorker(w) ==
  /\ phase[w] \in Alive
  /\ Terminate({w})
  /\ UNCHANGED <<primary, stopTimer, restarts, silence, inFlight, steady>>

\* The event loop of a faulty worker stops turning, or turns again.
Block(w) ==
  /\ w \in Faulty /\ Responsive(w)
  /\ blocked' = blocked \cup {w}
  /\ UNCHANGED <<primary, stopTimer, restarts, silence, phase, timer, termPending, inFlight, steady>>

Unblock(w) ==
  /\ w \in blocked
  /\ blocked' = blocked \ {w}
  /\ UNCHANGED <<primary, stopTimer, restarts, silence, phase, timer, termPending, inFlight, steady>>

-----------------------------------------------------------------------------
(* The primary. *)

\* The "message" handler of forkWorker. One read of the channel hands over every
\* heartbeat in it, and each does the same; the channel outlives the process.
ReceiveHeartbeat(w) ==
  /\ PrimaryAlive
  /\ w \in inFlight
  /\ inFlight' = inFlight \ {w}
  /\ silence' = [silence EXCEPT ![w] = 0]
  /\ UNCHANGED <<primary, stopTimer, restarts, phase, timer, blocked, termPending, steady>>

\* Variant: the watchdog asks with SIGTERM.
WatchdogAsks ==
  /\ primary = "up"
  /\ \E w \in Workers(Alive) : Overdue(w)
  /\ Terminate({w \in WorkerId : Overdue(w)})
  /\ UNCHANGED <<primary, stopTimer, restarts, silence, inFlight, steady>>

\* The watchdog interval; a run that kills nobody changes nothing.
Watchdog ==
  /\ primary = "up"
  /\ \E w \in Workers(Alive) : Overdue(w)
  /\ Die({w \in WorkerId : Overdue(w)})
  /\ UNCHANGED <<primary, stopTimer, restarts, silence, inFlight, steady>>

\* Variant: >= in the comparison with the window.
FirstRecentOffByOne(s) ==
  CHOOSE i \in 1 .. Len(s) : s[i] < CatastrophicWindow
                             /\ \A j \in 1 .. i - 1 : s[j] >= CatastrophicWindow

\* The while loop of onClusterExit: drop time stamps from the front as long as
\* the first is outside the window.
FirstRecent(s) ==
  CHOOSE i \in 1 .. Len(s) : s[i] <= CatastrophicWindow
                             /\ \A j \in 1 .. i - 1 : s[j] > CatastrophicWindow
Prune(s) == SubSeq(s, FirstRecent(s), Len(s))

\* What becomes of the id of w when its 'exit' is emitted: forgotten when the
\* channel has closed before, still in cluster.workers when it has not.
AfterExit(w) == {"reaped"} \cup (IF w \in inFlight THEN {} ELSE {"free"})

\* onClusterExit while the primary shuts down.
ExitWhileStopping(w) ==
  /\ primary = "stopping"
  /\ phase[w] = "dead"
  /\ \E p \in AfterExit(w) : phase' = [phase EXCEPT ![w] = p]
  /\ silence' = [silence EXCEPT ![w] = Never]
  /\ UNCHANGED <<primary, stopTimer, restarts, timer, blocked, termPending, inFlight, steady>>

\* Variant: forkWorker does not stamp lastHeartbeat.
ExitAndForkUnstamped(w, f) ==
  /\ primary = "up"
  /\ phase[w] = "dead" /\ phase[f] = "free"
  /\ restarts' = Prune(Append(restarts, 0))
  /\ Len(restarts') < CatastrophicRestarts
  /\ \E p \in AfterExit(w) : phase' = [phase EXCEPT ![w] = p, ![f] = "starting"]
  /\ silence' = [silence EXCEPT ![w] = Never]
  /\ UNCHANGED <<primary, stopTimer, timer, blocked, termPending, inFlight, steady>>

\* onClusterExit that replaces w by a new worker f. The bound |WorkerId| delays
\* it until an id is free; in the code an id is always new.
ExitAndFork(w, f) ==
  /\ primary = "up"
  /\ phase[w] = "dead" /\ phase[f] = "free"
  /\ restarts' = Prune(Append(restarts, 0))
  /\ Len(restarts') < CatastrophicRestarts
  /\ \E p \in AfterExit(w) : phase' = [phase EXCEPT ![w] = p, ![f] = "starting"]
  /\ silence' = [silence EXCEPT ![w] = Never, ![f] = 0]
  /\ UNCHANGED <<primary, stopTimer, timer, blocked, termPending, inFlight, steady>>

\* onClusterExit that gives up: process.exit(1).
ExitAndGiveUp(w) ==
  /\ primary = "up"
  /\ phase[w] = "dead"
  /\ restarts' = Prune(Append(restarts, 0))
  /\ Len(restarts') >= CatastrophicRestarts
  /\ primary' = "exit1"
  /\ \E p \in AfterExit(w) : phase' = [phase EXCEPT ![w] = p]
  /\ silence' = [silence EXCEPT ![w] = Never]
  /\ UNCHANGED <<stopTimer, timer, blocked, termPending, inFlight, steady>>

\* node:cluster forgets a worker whose process has exited once its channel has
\* been read to the end and closes. A late heartbeat has left an entry in
\* lastHeartbeat under an id that is never used again; the model drops it.
Disconnect(w) ==
  /\ PrimaryAlive
  /\ phase[w] = "reaped"
  /\ w \notin inFlight
  /\ phase' = [phase EXCEPT ![w] = "free"]
  /\ silence' = [silence EXCEPT ![w] = Never]
  /\ UNCHANGED <<primary, stopTimer, restarts, timer, blocked, termPending, inFlight, steady>>

\* shutdownPrimary on SIGTERM or SIGINT. A second signal signals the workers
\* again and sets a second timer, which the first one's exit makes moot.
ShutdownPrimary ==
  /\ PrimaryAlive
  /\ primary' = "stopping"
  /\ Terminate(WorkerId)
  /\ UNCHANGED <<stopTimer, restarts, silence, inFlight, steady>>

\* Variant: exit(0) without the SIGKILLs.
ShutdownTimeoutSparing ==
  /\ primary = "stopping"
  /\ stopTimer = 0
  /\ primary' = "exit0"
  /\ UNCHANGED <<stopTimer, restarts, silence, phase, timer, blocked, termPending, inFlight, steady>>

\* Variant: the primary waits for its workers, however long they take.
ShutdownTimeoutWaiting ==
  /\ primary = "stopping"
  /\ stopTimer = 0
  /\ Workers(Alive) = {}
  /\ primary' = "exit0"
  /\ UNCHANGED <<stopTimer, restarts, silence, phase, timer, blocked, termPending, inFlight, steady>>

\* The timer of shutdownPrimary: SIGKILL and exit(0).
ShutdownTimeout ==
  /\ primary = "stopping"
  /\ stopTimer = 0
  /\ primary' = "exit0"
  /\ Die(WorkerId)
  /\ UNCHANGED <<stopTimer, restarts, silence, inFlight, steady>>

\* The timer is unref'd: with no worker left nothing keeps the primary's loop
\* running, and the process ends by itself.
NothingLeft ==
  /\ primary = "stopping"
  /\ Workers(Phase \ {"free"}) = {}
  /\ primary' = "exit0"
  /\ UNCHANGED <<stopTimer, restarts, silence, phase, timer, blocked, termPending, inFlight, steady>>

-----------------------------------------------------------------------------
(* Time. *)

\* A responsive worker serves a timer in the tick it is due, and one that is not
\* faulty has started within StartLimit.
WorkersAreOnTime ==
  \A w \in WorkerId :
    /\ Responsive(w) /\ phase[w] # "starting" => timer[w] > 0
    /\ w \notin Faulty /\ phase[w] = "starting" => silence[w] < StartLimit

PrimaryIsOnTime == inFlight = {} /\ (primary = "stopping" => stopTimer > 0)

Older(age, limit) == IF age < limit THEN age + 1 ELSE age
Sooner(t) == IF t > 0 THEN t - 1 ELSE 0

\* What Date.now() is compared with gets a tick older.
ClockAdvances ==
  /\ silence' = [w \in WorkerId |-> Older(silence[w], Never)]
  /\ restarts' = [i \in 1 .. Len(restarts) |-> Older(restarts[i], CatastrophicWindow + 1)]

Tick ==
  /\ PrimaryAlive
  /\ WorkersAreOnTime
  /\ ClockAdvances
  /\ timer' = [w \in WorkerId |-> Sooner(timer[w])]
  /\ stopTimer' = IF primary = "stopping" THEN Sooner(stopTimer) ELSE stopTimer
  /\ steady' = (steady /\ PrimaryIsOnTime)
  /\ UNCHANGED <<primary, phase, blocked, termPending, inFlight>>

\* The wall clock jumps ahead. Timers, which run on the monotonic clock, do not.
ClockJumps ==
  /\ PrimaryAlive
  /\ ClockAdvances
  /\ steady' = FALSE
  /\ UNCHANGED <<primary, stopTimer, phase, timer, blocked, termPending, inFlight>>

-----------------------------------------------------------------------------
(* The specification. *)

WorkerStep(w) == Started(w) \/ Beat(w) \/ ShutdownWorker(w) \/ DrainExpired(w) \/ Orphaned(w)

Environment(w) == Crash(w) \/ SignalWorker(w) \/ Block(w) \/ Unblock(w)

PrimaryStep(w) ==
  \/ ReceiveHeartbeat(w)
  \/ ExitWhileStopping(w)
  \/ \E f \in WorkerId : ExitAndFork(w, f)
  \/ ExitAndGiveUp(w)
  \/ Disconnect(w)

Next ==
  \/ \E w \in WorkerId : WorkerStep(w) \/ Environment(w) \/ PrimaryStep(w)
  \/ Watchdog
  \/ ShutdownPrimary
  \/ ShutdownTimeout
  \/ NothingLeft
  \/ Tick
  \/ ClockJumps

Spec == Init /\ [][Next]_vars

\* A responsive event loop serves what is ready: weak fairness of each handler.
FairFor(w) ==
  /\ WF_vars(Beat(w))
  /\ WF_vars(ShutdownWorker(w))
  /\ WF_vars(DrainExpired(w))
  /\ WF_vars(PrimaryStep(w))

FairWorkers == \A w \in WorkerId : FairFor(w)

\* A faulty worker need not finish start(). Time passes whenever nothing that is
\* due holds it up, however often a faulty worker stalls in between.
Fairness ==
  /\ FairWorkers
  /\ \A w \in WorkerId \ Faulty : WF_vars(Started(w))
  /\ WF_vars(Watchdog)
  /\ WF_vars(ShutdownTimeout)
  /\ WF_vars(NothingLeft)
  /\ SF_vars(Tick)

FairSpec == Spec /\ Fairness

-----------------------------------------------------------------------------
(* Safety. *)

\* While the primary is up the pool is at strength: the workers whose exit it
\* has not handled are exactly WorkerCount, through any number of crashes, kills
\* and restarts (forkWorker is called once for each 'exit', onClusterExit).
PoolAtStrength ==
  primary = "up" => Cardinality(Members) = WorkerCount

\* A primary that exits with code 0 leaves no worker process behind, blocked or
\* not: every process still alive is in cluster.workers when the timer of
\* shutdownPrimary sends SIGKILL, and the loop runs dry only when none is.
CleanExitLeavesNoWorker ==
  primary = "exit0" => Workers(Alive) = {}

\* The watchdog never has a healthy worker in its sights: as long as the primary
\* is prompt and its clock steady, and with StartLimit + Heartbeat <= NoHeartbeat,
\* a worker that starts in time and whose loop turns is never silent for longer
\* than noHeartbeatMs, from its fork (whose time stamp stands in for the first
\* heartbeat) to its SIGTERM.
HealthyNeverOverdue ==
  steady => \A w \in WorkerId \ Faulty : phase[w] \in {"starting", "running"} => ~Overdue(w)

\* A worker told to stop no longer beats, while the watchdog, which still runs when
\* only the worker was signalled, goes on counting: it can cut shutdownWorker's drain
\* short, and with the default settings does so. But however many signals the worker
\* gets and however its last beats arrive, a prompt primary with a steady clock leaves
\* it more of the drain than NoHeartbeat - StartLimit - Heartbeat ticks; all of it
\* when that is Drain or more.
DrainGetsItsShare ==
  steady => \A w \in WorkerId \ Faulty :
    phase[w] = "draining" /\ Overdue(w) => Drain - timer[w] > NoHeartbeat - StartLimit - Heartbeat

\* Once shuttingDown is set no worker is forked, whatever exits later and in
\* whatever order signals, exits and heartbeats arrive.
NoForkWhileStopping ==
  [][primary # "up" => Workers({"starting"})' \subseteq Workers({"starting"})]_vars

\* restartTimestamps grow older together, so those outside the window are its
\* first ones, pruned or not.
Splits(s, k) ==
  /\ \A i \in 1 .. k : s[i] > CatastrophicWindow
  /\ \A i \in k + 1 .. Len(s) : s[i] <= CatastrophicWindow

RecentOf(s) == SubSeq(s, (CHOOSE k \in 0 .. Len(s) : Splits(s, k)) + 1, Len(s))

\* The supervisor keeps the promise of Supervision: one replacement for each
\* exit, and it gives up exactly when CatastrophicRestarts workers have exited
\* within CatastrophicWindow, although restartTimestamps is pruned only when the
\* next worker exits.
Promise == INSTANCE Supervision WITH
  Strength <- WorkerCount, Budget <- CatastrophicRestarts, Window <- CatastrophicWindow,
  mode <- primary, members <- Cardinality(Members),
  recent <- RecentOf(restarts)

RestartBudget == Promise!SSpec

-----------------------------------------------------------------------------
(* Liveness. *)

\* A worker whose loop has stopped turning does not stay: it turns again, or the
\* watchdog replaces it, or the primary stops supervising.
StuckWorkerIsReplaced ==
  \A w \in WorkerId : w \in blocked ~> (w \notin blocked \/ primary # "up")

\* Shutdown ends: a primary that got SIGTERM or SIGINT exits, with code 0, even
\* when workers are blocked or ignore their signal.
ShutdownEnds == primary = "stopping" ~> primary = "exit0"

\* What the theorems on liveness assume of ENABLED: the step that ends a wait can
\* be taken as long as the wait lasts.
WaitsCanEnd ==
  /\ \A w \in WorkerId : primary = "up" /\ w \in inFlight => ENABLED <<PrimaryStep(w)>>_vars
  /\ \A w \in blocked : primary = "up" /\ Overdue(w) => ENABLED <<Watchdog>>_vars
  /\ primary = "stopping" /\ stopTimer = 0 => ENABLED <<ShutdownTimeout>>_vars

\* And of time: as long as the primary supervises, its clock goes on.
ClockGoesOn == <>(primary # "up") \/ []<><<ClockAdvances>>_vars

\* As long as it shuts down, its timers do: they need ticks, not the wall clock.
TimersGoOn == <>[](primary = "stopping") => []<><<Tick>>_vars

\* How far the watchdog is from killing a stuck worker: a heartbeat sent before
\* it got stuck may still be unread, then its silence has to grow.
Stuck(w) == primary = "up" /\ w \in blocked
Unnoticed(w) == IF w \in inFlight THEN Never + 1 ELSE Never - silence[w]

\* StuckWorkerIsReplaced, one step of the way at a time.
StuckIsNoticed ==
  \A w \in WorkerId : \A n \in Nat :
    Stuck(w) /\ Unnoticed(w) = n ~> ~Stuck(w) \/ Unnoticed(w) < n

\* ShutdownEnds, one tick of the timer of shutdownPrimary at a time.
ShutdownAdvances ==
  \A n \in Nat :
    primary = "stopping" /\ stopTimer = n ~> primary = "exit0" \/ (primary = "stopping" /\ stopTimer < n)
=============================================================================
