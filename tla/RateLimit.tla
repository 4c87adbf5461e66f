----------------------------- MODULE RateLimit -----------------------------
(***************************************************************************)
(* The rate limiter of the ask endpoint: incrementRateLimit of             *)
(* dweb-api-server/src/services/DomainRateLimit/index.ts, called by caddy  *)
(* of server/index.ts, over the Redis client of dweb-api-cache, which      *)
(* gives up on a command after a second while the command may still reach  *)
(* Redis.                                                                  *)
(*                                                                         *)
(* One domain, that is one counter in Redis, shared by the requests of all *)
(* server processes. A tick is a fraction of a second, as Redis rounds TTL *)
(* replies to whole seconds.                                               *)
(***************************************************************************)
EXTENDS Integers, FiniteSets

CONSTANTS
  Request,     \* concurrent calls; each can be used again
  Limit,       \* getRateLimit()
  Period,      \* getRatePeriod(), in seconds
  Second,      \* ticks in a second
  Timeout,     \* bound: ticks from one command's effect on Redis to the next one's, a
               \* reply and a way there, so at most twice _timeout
  MaxLate,     \* bound: ticks after its timeout within which a command may still reach Redis
  MaxFailures  \* bound: commands that fail

ASSUME RateAssumption ==
  /\ IsFiniteSet(Request)
  /\ Limit \in Nat \ {0}
  /\ Period \in Nat \ {0}
  /\ Second \in Nat \ {0}
  /\ Timeout \in Nat
  /\ MaxLate \in Nat
  /\ MaxFailures \in Nat

VARIABLES
  count,     \* the counter, up to Limit + 1; 0 when there is none
  pttl,      \* ticks until Redis drops it; 0 when it has no TTL
  pc,        \* what a request waits for, or its outcome
  mine,      \* the reply to its INCR
  wait,      \* ticks its Redis command has been under way
  late,      \* the command given up on that may still be executed
  lateLeft,  \* ticks during which it may; 0 when there is none
  failures,  \* commands that have failed
  current,   \* requests counted by the present counter, not by one that is gone
  admitted   \* requests the present counter has let through

redisVars == <<count, pttl>>
requestVars == <<pc, mine, wait>>
lateVars == <<late, lateLeft, failures>>
historyVars == <<current, admitted>>
vars == <<redisVars, requestVars, lateVars, historyVars>>

-----------------------------------------------------------------------------
(* State formulae. *)

Lower(a, b) == IF a < b THEN a ELSE b

Window == Period * Second

Waiting == {"incr", "ttl", "expire"}
Ended == {"idle", "passed", "limited", "failed"}

\* The counter is there but Redis would keep it for ever.
Untimed == count > 0 /\ pttl = 0

\* The reply of TTL: seconds, rounded to the nearest, -1 without a TTL, -2
\* without a counter.
TtlReply ==
  IF count = 0 THEN -2
  ELSE IF pttl = 0 THEN -1
  ELSE (pttl + Second \div 2) \div Second

\* Variant: off by one.
ReachesMax(n) == n > Limit + 1

CountOverMax(n) == n > Limit

TypeOK ==
  /\ count \in 0 .. Limit + 1
  /\ pttl \in 0 .. Window
  /\ count = 0 => pttl = 0
  /\ pc \in [Request -> Waiting \cup Ended]
  /\ mine \in [Request -> 0 .. Limit + 1]
  /\ \A r \in Request : pc[r] \in {"ttl", "expire"} => mine[r] >= 1
  /\ wait \in [Request -> 0 .. Timeout]
  /\ late \in [Request -> {"incr", "expire"}]
  /\ lateLeft \in [Request -> 0 .. MaxLate]
  /\ failures \in 0 .. MaxFailures
  /\ current \in SUBSET Request
  /\ admitted \in Nat

Init ==
  /\ count = 0 /\ pttl = 0
  /\ pc = [r \in Request |-> "idle"]
  /\ mine = [r \in Request |-> 0]
  /\ wait = [r \in Request |-> 0]
  /\ late = [r \in Request |-> "incr"]
  /\ lateLeft = [r \in Request |-> 0]
  /\ failures = 0
  /\ current = {}
  /\ admitted = 0

-----------------------------------------------------------------------------
(* Control. *)

\* r sends its next command, or has its outcome.
Goto(r, place) ==
  /\ pc' = [pc EXCEPT ![r] = place]
  /\ wait' = [wait EXCEPT ![r] = 0]

\* INCR makes the counter, without a TTL, when there is none.
Incr == count' = Lower(count + 1, Limit + 1) /\ UNCHANGED pttl

\* EXPIRE does nothing without a counter.
Expire == pttl' = (IF count > 0 THEN Window ELSE 0) /\ UNCHANGED count

\* The counter is gone, and with it what it has counted.
Drop == count' = 0 /\ pttl' = 0 /\ current' = {} /\ admitted' = 0

\* caddy goes on, or answers 429.
Decide(r) ==
  /\ Goto(r, IF CountOverMax(mine[r]) THEN "limited" ELSE "passed")
  /\ mine' = [mine EXCEPT ![r] = 0]
  /\ current' = current \ {r}
  /\ admitted' = IF r \in current /\ ~CountOverMax(mine[r]) THEN admitted + 1 ELSE admitted

-----------------------------------------------------------------------------
(* A call of incrementRateLimit. *)

Call(r) ==
  /\ pc[r] \in Ended /\ lateLeft[r] = 0
  /\ Goto(r, "incr")
  /\ UNCHANGED <<redisVars, mine, lateVars, historyVars>>

\* Variant: the counter is read before it is incremented.
IncrReplyBefore(r) ==
  /\ pc[r] = "incr"
  /\ Incr
  /\ mine' = [mine EXCEPT ![r] = count]
  /\ current' = current \cup {r}
  /\ Goto(r, "ttl")
  /\ UNCHANGED <<lateVars, admitted>>

IncrReply(r) ==
  /\ pc[r] = "incr"
  /\ Incr
  /\ mine' = [mine EXCEPT ![r] = count']
  /\ current' = current \cup {r}
  /\ Goto(r, "ttl")
  /\ UNCHANGED <<lateVars, admitted>>

\* The counter has a TTL of at least a second.
TtlReplyTimed(r) ==
  /\ pc[r] = "ttl"
  /\ TtlReply >= 1
  /\ Decide(r)
  /\ UNCHANGED <<redisVars, lateVars>>

\* Variant: only the request that made the counter gives it a TTL.
TtlReplyFirst(r) ==
  /\ pc[r] = "ttl"
  /\ TtlReply < 1
  /\ IF mine[r] = 1
       THEN Goto(r, "expire") /\ UNCHANGED <<mine, historyVars>>
       ELSE Decide(r)
  /\ UNCHANGED <<redisVars, lateVars>>

\* Variant: a TTL of -1 is not falsy.
TtlReplyFalsy(r) ==
  /\ pc[r] = "ttl"
  /\ TtlReply < 1
  /\ IF TtlReply = 0
       THEN Goto(r, "expire") /\ UNCHANGED <<mine, historyVars>>
       ELSE Decide(r)
  /\ UNCHANGED <<redisVars, lateVars>>

\* Variant: a TTL of a second counts as run out.
TtlReplyOneSecond(r) ==
  /\ pc[r] = "ttl"
  /\ TtlReply < 2
  /\ Goto(r, "expire")
  /\ UNCHANGED <<redisVars, mine, lateVars, historyVars>>

\* It has none, or less than half a second left, or is gone.
TtlReplyUntimed(r) ==
  /\ pc[r] = "ttl"
  /\ TtlReply < 1
  /\ Goto(r, "expire")
  /\ UNCHANGED <<redisVars, mine, lateVars, historyVars>>

ExpireReply(r) ==
  /\ pc[r] = "expire"
  /\ Expire
  /\ Decide(r)
  /\ UNCHANGED lateVars

\* The command is rejected or given up, and caddy with it: a 500. It may have
\* been sent.
Fails(r) ==
  /\ pc[r] \in Waiting
  /\ failures < MaxFailures
  /\ failures' = failures + 1
  /\ Goto(r, "failed")
  /\ mine' = [mine EXCEPT ![r] = 0]
  /\ current' = current \ {r}
  /\ \/ /\ pc[r] \in {"incr", "expire"}
        /\ late' = [late EXCEPT ![r] = pc[r]]
        /\ lateLeft' = [lateLeft EXCEPT ![r] = MaxLate]
     \/ UNCHANGED <<late, lateLeft>>
  /\ UNCHANGED <<redisVars, admitted>>

-----------------------------------------------------------------------------
(* Redis and time. *)

LateIncr(r) ==
  /\ lateLeft[r] > 0 /\ late[r] = "incr"
  /\ Incr
  /\ lateLeft' = [lateLeft EXCEPT ![r] = 0]
  /\ UNCHANGED <<requestVars, late, failures, historyVars>>

LateExpire(r) ==
  /\ lateLeft[r] > 0 /\ late[r] = "expire"
  /\ Expire
  /\ lateLeft' = [lateLeft EXCEPT ![r] = 0]
  /\ UNCHANGED <<requestVars, late, failures, historyVars>>

\* Redis loses the counter: eviction, a restart.
Evict ==
  /\ count > 0
  /\ Drop
  /\ UNCHANGED <<requestVars, lateVars>>

\* Every command is answered or given up within the timeout. The counter is
\* dropped when its TTL has run out.
Tick ==
  /\ \A r \in Request : pc[r] \in Waiting => wait[r] < Timeout
  /\ IF pttl = 1 THEN Drop
     ELSE /\ pttl' = IF pttl > 0 THEN pttl - 1 ELSE 0
          /\ UNCHANGED <<count, historyVars>>
  /\ wait' = [r \in Request |-> IF pc[r] \in Waiting THEN wait[r] + 1 ELSE wait[r]]
  /\ lateLeft' = [r \in Request |-> IF lateLeft[r] > 0 THEN lateLeft[r] - 1 ELSE 0]
  /\ UNCHANGED <<pc, mine, late, failures>>

-----------------------------------------------------------------------------
(* The specification. *)

Answered(r) ==
  IncrReply(r) \/ TtlReplyTimed(r) \/ TtlReplyUntimed(r) \/ ExpireReply(r)

Next ==
  \/ \E r \in Request :
       Call(r) \/ Answered(r) \/ Fails(r) \/ LateIncr(r) \/ LateExpire(r)
  \/ Evict
  \/ Tick

Spec == Init /\ [][Next]_vars

\* The domain is asked for again, and but for MaxFailures commands Redis answers.
FairFor(r) == WF_vars(Call(r)) /\ WF_vars(Answered(r))

FairRequests == \A r \in Request : FairFor(r)

\* Time passes.
Fairness == FairRequests /\ WF_vars(Tick)

FairSpec == Spec /\ Fairness

-----------------------------------------------------------------------------
(* Properties. *)

\* However the commands of concurrent requests interleave, are lost or arrive
\* late, a counter lets through at most getRateLimit() of the requests it counts.
AdmittedWithinLimit == admitted <= Limit

\* A counter without a TTL would limit its domain for ever once it is over the
\* limit. Until a command fails, a request that is about to give it one is under way.
UntimedCounterIsServed ==
  Untimed => failures > 0 \/ \E r \in Request : pc[r] \in {"ttl", "expire"}

\* A request can be slow between TTL and EXPIRE. Even so the TTL of a counter is
\* only renewed within its last half second, or within the delay of an EXPIRE
\* from when it was set: a window in full swing is not extended.
WindowNotExtended ==
  [][pttl' > pttl /\ pttl > 0 =>
       \/ 2 * pttl < Second
       \/ pttl + Timeout + MaxLate >= Window]_vars

\* A counter left without a TTL by a failed EXPIRE or a late INCR gets one.
CounterGetsTtl == Untimed ~> ~Untimed

\* No request is let through or turned away by a counter that would stay for ever:
\* whatever has happened to the counter since its INCR.
DecidedIsTimed ==
  [][\A r \in Request :
       pc[r] \in Waiting /\ pc'[r] \in {"passed", "limited"} => ~Untimed']_vars

\* The domain can be asked for again, and Redis can answer.
WaitsCanEnd ==
  \A r \in Request :
    /\ pc[r] \in Ended /\ lateLeft[r] = 0 => ENABLED <<Call(r)>>_vars
    /\ pc[r] \in Waiting => ENABLED <<Answered(r)>>_vars

\* Any request is enough to give a counter that has none a TTL, once no command of
\* its own is still late, if no more commands fail: nothing the others do can keep
\* it from that.
AnyRequestTimes ==
  \A r \in Request, n \in Nat :
    Untimed /\ failures = n /\ lateLeft[r] = 0 ~> ~Untimed \/ failures > n
=============================================================================
