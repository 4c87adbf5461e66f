----------------------------- MODULE WorkerLoad -----------------------------
(***************************************************************************)
(* How a worker measures its load and leaves when it is overloaded:        *)
(* registerServer and the beat interval of runWorker in                    *)
(* dweb-api-server/src/server/cluster.ts. For the primary the exit is a    *)
(* Crash of Cluster, and so is a start that fails.                         *)
(***************************************************************************)
EXTENDS Integers, FiniteSets

CONSTANTS
  Request,      \* requests; each can be used again
  MaxInflight,  \* maxInflight
  Grace,        \* overloadGraceMs, in ticks
  Heartbeat,    \* heartbeatMs, in ticks
  MaxDelay      \* how late a loaded event loop can be with the beat

ASSUME LoadAssumption ==
  /\ IsFiniteSet(Request)
  /\ MaxInflight \in Nat
  /\ Grace \in Nat
  /\ Heartbeat \in Nat \ {0}
  /\ MaxDelay \in Nat

VARIABLES
  res,       \* the response of a request: not there, open, finished, closed
  done,      \* `done` of the "request" handler
  inflight,
  overloadedSince,  \* ticks since it was set; NotOverloaded when it is 0
  sinceBeat, \* ticks since the last beat
  mode,      \* the worker starts, is up, drains after SIGTERM, has exited
  sinceCalm  \* history: ticks since the last beat that found no overload

requestVars == <<res, done, inflight>>
beatVars == <<overloadedSince, sinceBeat, sinceCalm>>
vars == <<requestVars, beatVars, mode>>

-----------------------------------------------------------------------------
(* State formulae. *)

NotOverloaded == -1

LongestBeat == Heartbeat + MaxDelay

\* The longest a worker goes on under overload: until the next beat notices it,
\* for the grace time, and until the next beat after that.
LongestOverload == Grace + 2 * LongestBeat

Open == {r \in Request : res[r] = "open"}

TypeOK ==
  /\ res \in [Request -> {"none", "open", "finished", "closed"}]
  /\ done \in [Request -> BOOLEAN]
  /\ inflight \in 0 .. Cardinality(Request)
  /\ overloadedSince \in NotOverloaded .. LongestOverload
  /\ sinceBeat \in 0 .. LongestBeat
  /\ mode \in {"starting", "up", "draining", "exited"}
  /\ sinceCalm \in Nat

Init ==
  /\ res = [r \in Request |-> "none"]
  /\ done = [r \in Request |-> TRUE]
  /\ inflight = 0
  /\ overloadedSince = NotOverloaded
  /\ sinceBeat = 0
  /\ mode = "starting"
  /\ sinceCalm = 0

-----------------------------------------------------------------------------
(* The start. *)

\* `start` has the servers listen and registers them; the beat interval and the
\* signal handlers are installed.
Start ==
  /\ mode = "starting"
  /\ mode' = "up"
  /\ UNCHANGED <<requestVars, beatVars>>

\* The process ends before: of a rejection nobody handles, or a signal.
StartEnds ==
  /\ mode = "starting"
  /\ mode' = "exited"
  /\ UNCHANGED <<requestVars, beatVars>>

-----------------------------------------------------------------------------
(* Requests. *)

\* The "request" event.
RequestEvent(r) ==
  /\ mode \in {"up", "draining"}
  /\ res[r] \in {"none", "closed"}
  /\ res' = [res EXCEPT ![r] = "open"]
  /\ done' = [done EXCEPT ![r] = FALSE]
  /\ inflight' = inflight + 1
  /\ UNCHANGED <<beatVars, mode>>

\* Variant: without `done`.
FinishTwice(r) ==
  /\ done' = [done EXCEPT ![r] = TRUE]
  /\ inflight' = inflight - 1

\* `finish`, the handler of both "finish" and "close".
Finish(r) ==
  /\ done' = [done EXCEPT ![r] = TRUE]
  /\ inflight' = IF done[r] THEN inflight ELSE inflight - 1

\* The response has been sent.
FinishEvent(r) ==
  /\ mode # "exited"
  /\ res[r] = "open"
  /\ res' = [res EXCEPT ![r] = "finished"]
  /\ Finish(r)
  /\ UNCHANGED <<beatVars, mode>>

\* The connection of the response is closed, after it was sent or before.
CloseEvent(r) ==
  /\ mode # "exited"
  /\ res[r] \in {"open", "finished"}
  /\ res' = [res EXCEPT ![r] = "closed"]
  /\ Finish(r)
  /\ UNCHANGED <<beatVars, mode>>

-----------------------------------------------------------------------------
(* The beat. *)

\* inflight > o.maxInflight && lagP99Ms > o.maxLagMs: whatever the lag was.
Overloaded(lagging) == inflight > MaxInflight /\ lagging

\* overloadedSince after a beat that finds an overload.
Noticed == IF overloadedSince = NotOverloaded THEN 0 ELSE overloadedSince

BeatDue == mode = "up" /\ sinceBeat >= Heartbeat

\* Variant: the start of the overload is overwritten at every beat.
BeatOverloadedRestamps ==
  /\ BeatDue
  /\ Overloaded(TRUE)
  /\ overloadedSince' = 0
  /\ mode' = IF Grace = 0 THEN "exited" ELSE mode
  /\ sinceBeat' = 0
  /\ UNCHANGED <<requestVars, sinceCalm>>

BeatOverloaded ==
  /\ BeatDue
  /\ Overloaded(TRUE)
  /\ overloadedSince' = Noticed
  /\ mode' = IF Noticed >= Grace THEN "exited" ELSE mode
  /\ sinceBeat' = 0
  /\ UNCHANGED <<requestVars, sinceCalm>>

\* Variant: overloadedSince is not reset.
BeatCalmKeepsSince ==
  /\ BeatDue
  /\ \E lagging \in BOOLEAN : ~Overloaded(lagging)
  /\ sinceBeat' = 0
  /\ sinceCalm' = 0
  /\ UNCHANGED <<requestVars, overloadedSince, mode>>

BeatCalm ==
  /\ BeatDue
  /\ \E lagging \in BOOLEAN : ~Overloaded(lagging)
  /\ overloadedSince' = NotOverloaded
  /\ sinceBeat' = 0
  /\ sinceCalm' = 0
  /\ UNCHANGED <<requestVars, mode>>

\* clearInterval(beat) of shutdownWorker.
ShutdownWorker ==
  /\ mode = "up"
  /\ mode' = "draining"
  /\ overloadedSince' = NotOverloaded
  /\ sinceBeat' = 0
  /\ sinceCalm' = 0
  /\ UNCHANGED requestVars

Tick ==
  /\ mode = "up" /\ sinceBeat < LongestBeat
  /\ sinceBeat' = sinceBeat + 1
  /\ overloadedSince' = IF overloadedSince = NotOverloaded THEN NotOverloaded ELSE overloadedSince + 1
  /\ sinceCalm' = sinceCalm + 1
  /\ UNCHANGED <<requestVars, mode>>

-----------------------------------------------------------------------------
(* The specification. *)

Next ==
  \/ Start \/ StartEnds
  \/ \E r \in Request : RequestEvent(r) \/ FinishEvent(r) \/ CloseEvent(r)
  \/ BeatOverloaded \/ BeatCalm
  \/ ShutdownWorker
  \/ Tick

Spec == Init /\ [][Next]_vars

-----------------------------------------------------------------------------
(* Properties. *)

\* "finish" and "close" come in either order, one of them or both: inflight is
\* the number of open responses all the same, and never drifts.
InflightExact == inflight = Cardinality(Open)

\* A worker does not leave over a peak: every beat of the grace time has found it
\* overloaded.
GraceKept == [][mode = "up" /\ mode' = "exited" => sinceCalm >= Grace]_vars

\* An overload that lasts makes it leave, at most two beats after the grace time.
OverloadEnds == mode = "up" => sinceCalm <= LongestOverload
=============================================================================
