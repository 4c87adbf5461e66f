---------------------------- MODULE TieredCache ----------------------------
(***************************************************************************)
(* The two-tier cache of dweb-api-cache/src/index.ts: memoize of           *)
(* LocallyCachedRedisCacheService over RedisCacheService, with the memory  *)
(* cache of each server process (NamedMemoryCache) and the Redis client    *)
(* that gives up on every command after a second (AbstractRedisClient).    *)
(*                                                                         *)
(* One key: memoize treats keys independently. A value is known by its     *)
(* age, the ticks since the thunk that computed it returned. A tick is a   *)
(* fraction of a second, as Redis rounds TTL replies to whole seconds.     *)
(***************************************************************************)
EXTENDS Integers

CONSTANTS
  Request,    \* concurrent calls of memoize; each can be used again
  Process,    \* server processes, each with its own memory cache
  Home,       \* the process a request runs in
  Second,     \* ticks in a second
  DefaultTtl, \* getCacheConfig().getTtl(), in seconds
  Timeout,    \* bound: ticks from one command's effect on Redis to the next one's, a
              \* reply and a way there, so at most twice _timeout
  MaxLate     \* bound: ticks after its timeout within which a SET may still reach Redis

ASSUME CacheAssumption ==
  /\ Home \in [Request -> Process]
  /\ Second \in Nat \ {0}
  /\ DefaultTtl \in Nat \ {0}
  /\ Timeout \in Nat
  /\ MaxLate \in Nat

VARIABLES
  redisAge,  \* age of the value under the key in Redis
  redisTtl,  \* ticks until Redis drops it; 0 when there is none
  memAge,    \* the same for the memory cache of each process
  memTtl,
  pc,        \* what a request waits for
  held,      \* age of the value a request holds
  ttl,       \* `ttl` of RedisCacheService.memoize, in seconds
  wait,      \* ticks its Redis command has been under way
  calls,     \* how often it has called its thunk
  rejected,  \* whether one of these calls was rejected
  lateAge,   \* the value of a SET given up on that may still be executed
  lateLeft   \* ticks during which it may; 0 when there is none

requestVars == <<pc, held, ttl, wait, calls, rejected>>
redisVars == <<redisAge, redisTtl>>
memVars == <<memAge, memTtl>>
lateVars == <<lateAge, lateLeft>>
vars == <<redisVars, memVars, requestVars, lateVars>>

-----------------------------------------------------------------------------
(* State formulae. *)

Lower(a, b) == IF a < b THEN a ELSE b
Higher(a, b) == IF a > b THEN a ELSE b

Lifetime == DefaultTtl * Second

\* The oldest a value can get in Redis, in the hands of a request, in memory.
RedisBound == Timeout + MaxLate + Lifetime
HeldBound == RedisBound + 2 * Timeout
AgeBound == HeldBound + Lifetime

\* Waiting for Redis: the GET, the TTL after a hit or a miss, the SET, and the
\* TTL of LocallyCachedRedisCacheService.
AtRedis == {"get", "ttlHit", "ttlMiss", "set", "getTtl"}

\* Waiting for fThunk(): in the try block of RedisCacheService.memoize, in its
\* catch block, in the catch block of LocallyCachedRedisCacheService.memoize.
AtThunk == {"thunk", "innerCatch", "outerCatch"}

Ended == {"idle", "served", "failed"}

\* The reply of TTL: seconds, rounded to the nearest, -2 without a value.
TtlReply == IF redisTtl = 0 THEN -2 ELSE (redisTtl + Second \div 2) \div Second

\* Variant: without the check of what Redis reported.
SetTtlUnchecked(reply) == Lower(reply, DefaultTtl)

\* defaultTtl unless Redis reported at least a second.
SetTtl(reply) == IF reply >= 1 THEN Lower(reply, DefaultTtl) ELSE DefaultTtl

\* The ttl handed to the memory cache, where 0 is falsy, and what put makes of it.
MemoryTtl(reply) ==
  LET asked == IF reply = 0 THEN DefaultTtl ELSE Lower(reply, DefaultTtl)
  IN  Lower(Higher(asked, 1), DefaultTtl)

TypeOK ==
  /\ redisAge \in 0 .. AgeBound + 1
  /\ redisTtl \in 0 .. Lifetime
  /\ memAge \in [Process -> 0 .. AgeBound + 1]
  /\ memTtl \in [Process -> 0 .. Lifetime]
  /\ pc \in [Request -> AtRedis \cup AtThunk \cup Ended]
  /\ held \in [Request -> 0 .. AgeBound + 1]
  /\ ttl \in [Request -> 1 .. DefaultTtl]
  /\ wait \in [Request -> 0 .. Timeout]
  /\ calls \in [Request -> 0 .. 3]
  /\ rejected \in [Request -> BOOLEAN]
  /\ lateAge \in [Request -> 0 .. AgeBound + 1]
  /\ lateLeft \in [Request -> 0 .. MaxLate]

Init ==
  /\ redisAge = 0 /\ redisTtl = 0
  /\ memAge = [p \in Process |-> 0]
  /\ memTtl = [p \in Process |-> 0]
  /\ pc = [r \in Request |-> "idle"]
  /\ held = [r \in Request |-> 0]
  /\ ttl = [r \in Request |-> DefaultTtl]
  /\ wait = [r \in Request |-> 0]
  /\ calls = [r \in Request |-> 0]
  /\ rejected = [r \in Request |-> FALSE]
  /\ lateAge = [r \in Request |-> 0]
  /\ lateLeft = [r \in Request |-> 0]

-----------------------------------------------------------------------------
(* Control. *)

\* r waits for the next thing; a command sent to Redis is new.
Goto(r, place) ==
  /\ pc' = [pc EXCEPT ![r] = place]
  /\ wait' = [wait EXCEPT ![r] = 0]

\* r calls its thunk (once more).
CallThunk(r, place) ==
  /\ Goto(r, place)
  /\ calls' = [calls EXCEPT ![r] = @ + 1]

-----------------------------------------------------------------------------
(* A call of memoize. *)

\* Variant: a hit renews the entry.
MemoryHitRenews(r) ==
  /\ pc[r] \in Ended /\ lateLeft[r] = 0
  /\ memTtl[Home[r]] > 0
  /\ Goto(r, "served")
  /\ memTtl' = [memTtl EXCEPT ![Home[r]] = Lifetime]
  /\ held' = [held EXCEPT ![r] = memAge[Home[r]]]
  /\ calls' = [calls EXCEPT ![r] = 0]
  /\ rejected' = [rejected EXCEPT ![r] = FALSE]
  /\ UNCHANGED <<redisVars, memAge, lateVars, ttl>>

\* The memory cache has the value, and memoize returns it.
MemoryHit(r) ==
  /\ pc[r] \in Ended /\ lateLeft[r] = 0
  /\ memTtl[Home[r]] > 0
  /\ Goto(r, "served")
  /\ held' = [held EXCEPT ![r] = memAge[Home[r]]]
  /\ calls' = [calls EXCEPT ![r] = 0]
  /\ rejected' = [rejected EXCEPT ![r] = FALSE]
  /\ UNCHANGED <<redisVars, memVars, lateVars, ttl>>

\* It has not: RedisCacheService.memoize sends GET.
MemoryMiss(r) ==
  /\ pc[r] \in Ended /\ lateLeft[r] = 0
  /\ memTtl[Home[r]] = 0
  /\ Goto(r, "get")
  /\ held' = [held EXCEPT ![r] = 0]
  /\ calls' = [calls EXCEPT ![r] = 0]
  /\ rejected' = [rejected EXCEPT ![r] = FALSE]
  /\ UNCHANGED <<redisVars, memVars, lateVars, ttl>>

GetReply(r) ==
  /\ pc[r] = "get"
  /\ IF redisTtl > 0
       THEN Goto(r, "ttlHit") /\ held' = [held EXCEPT ![r] = redisAge]
       ELSE Goto(r, "ttlMiss") /\ UNCHANGED held
  /\ UNCHANGED <<redisVars, memVars, lateVars, ttl, calls, rejected>>

\* TTL after a hit: the value passes its schema and is the result, or it is falsy
\* and counts as a miss, or parsing throws.
TtlReplyAfterHit(r) ==
  /\ pc[r] = "ttlHit"
  /\ ttl' = [ttl EXCEPT ![r] = SetTtl(TtlReply)]
  /\ \/ Goto(r, "getTtl") /\ UNCHANGED calls
     \/ CallThunk(r, "thunk")
     \/ CallThunk(r, "innerCatch")
  /\ UNCHANGED <<redisVars, memVars, lateVars, held, rejected>>

TtlReplyAfterMiss(r) ==
  /\ pc[r] = "ttlMiss"
  /\ ttl' = [ttl EXCEPT ![r] = SetTtl(TtlReply)]
  /\ CallThunk(r, "thunk")
  /\ UNCHANGED <<redisVars, memVars, lateVars, held, rejected>>

\* fThunk() of the try block returns, and its result is sent to Redis; or it is
\* rejected, and the catch block calls it again.
ThunkReturns(r) ==
  /\ pc[r] = "thunk"
  /\ Goto(r, "set")
  /\ held' = [held EXCEPT ![r] = 0]
  /\ UNCHANGED <<redisVars, memVars, lateVars, ttl, calls, rejected>>

ThunkRejected(r) ==
  /\ pc[r] = "thunk"
  /\ CallThunk(r, "innerCatch")
  /\ rejected' = [rejected EXCEPT ![r] = TRUE]
  /\ UNCHANGED <<redisVars, memVars, lateVars, held, ttl>>

SetReply(r) ==
  /\ pc[r] = "set"
  /\ redisAge' = held[r]
  /\ redisTtl' = ttl[r] * Second
  /\ Goto(r, "getTtl")
  /\ UNCHANGED <<memVars, lateVars, held, ttl, calls, rejected>>

\* The SET is given up and only logged, but may have been sent.
SetFails(r) ==
  /\ pc[r] = "set"
  /\ lateAge' = [lateAge EXCEPT ![r] = held[r]]
  /\ lateLeft' = [lateLeft EXCEPT ![r] = MaxLate]
  /\ Goto(r, "getTtl")
  /\ UNCHANGED <<redisVars, memVars, held, ttl, calls, rejected>>

\* GET or TTL of RedisCacheService.memoize fails: its catch block calls the thunk,
\* also when GET has returned a value.
ReadFails(r) ==
  /\ pc[r] \in {"get", "ttlHit", "ttlMiss"}
  /\ CallThunk(r, "innerCatch")
  /\ UNCHANGED <<redisVars, memVars, lateVars, held, ttl, rejected>>

\* The call of the catch block returns, past SET; its rejection leaves
\* RedisCacheService.memoize.
InnerCatchReturns(r) ==
  /\ pc[r] = "innerCatch"
  /\ Goto(r, "getTtl")
  /\ held' = [held EXCEPT ![r] = 0]
  /\ UNCHANGED <<redisVars, memVars, lateVars, ttl, calls, rejected>>

InnerCatchRejected(r) ==
  /\ pc[r] = "innerCatch"
  /\ CallThunk(r, "outerCatch")
  /\ rejected' = [rejected EXCEPT ![r] = TRUE]
  /\ UNCHANGED <<redisVars, memVars, lateVars, held, ttl>>

\* The value goes to the memory cache with the TTL Redis reports now, whoever
\* set the key since.
GetTtlReply(r) ==
  /\ pc[r] = "getTtl"
  /\ memAge' = [memAge EXCEPT ![Home[r]] = held[r]]
  /\ memTtl' = [memTtl EXCEPT ![Home[r]] = MemoryTtl(TtlReply) * Second]
  /\ Goto(r, "served")
  /\ UNCHANGED <<redisVars, lateVars, held, ttl, calls, rejected>>

\* Variant: getTtl outside the try block.
GetTtlFailsUncaught(r) ==
  /\ pc[r] = "getTtl"
  /\ Goto(r, "failed")
  /\ UNCHANGED <<redisVars, memVars, lateVars, held, ttl, calls, rejected>>

\* getTtl fails: the result is dropped and the outer catch block calls the thunk.
GetTtlFails(r) ==
  /\ pc[r] = "getTtl"
  /\ CallThunk(r, "outerCatch")
  /\ UNCHANGED <<redisVars, memVars, lateVars, held, ttl, rejected>>

OuterCatchReturns(r) ==
  /\ pc[r] = "outerCatch"
  /\ Goto(r, "served")
  /\ held' = [held EXCEPT ![r] = 0]
  /\ UNCHANGED <<redisVars, memVars, lateVars, ttl, calls, rejected>>

OuterCatchRejected(r) ==
  /\ pc[r] = "outerCatch"
  /\ Goto(r, "failed")
  /\ rejected' = [rejected EXCEPT ![r] = TRUE]
  /\ UNCHANGED <<redisVars, memVars, lateVars, held, ttl, calls>>

-----------------------------------------------------------------------------
(* Redis and time. *)

\* A SET its request has given up on reaches Redis after all.
LateSet(r) ==
  /\ lateLeft[r] > 0
  /\ redisAge' = lateAge[r]
  /\ redisTtl' = ttl[r] * Second
  /\ lateLeft' = [lateLeft EXCEPT ![r] = 0]
  /\ lateAge' = [lateAge EXCEPT ![r] = 0]
  /\ UNCHANGED <<memVars, requestVars>>

\* Redis loses the key: eviction, a restart, the purge script.
Evict ==
  /\ redisTtl > 0
  /\ redisTtl' = 0
  /\ redisAge' = 0
  /\ UNCHANGED <<memVars, requestVars, lateVars>>

Sooner(t) == IF t > 0 THEN t - 1 ELSE 0
Older(age) == Lower(age + 1, AgeBound + 1)

\* Every command is answered or given up within the timeout. A value nobody has
\* any more does not age.
Tick ==
  /\ \A r \in Request : pc[r] \in AtRedis => wait[r] < Timeout
  /\ redisAge' = IF redisTtl > 1 THEN Older(redisAge) ELSE 0
  /\ redisTtl' = Sooner(redisTtl)
  /\ memAge' = [p \in Process |-> IF memTtl[p] > 1 THEN Older(memAge[p]) ELSE 0]
  /\ memTtl' = [p \in Process |-> Sooner(memTtl[p])]
  /\ held' = [r \in Request |-> IF pc[r] \in AtRedis THEN Older(held[r]) ELSE held[r]]
  /\ wait' = [r \in Request |-> IF pc[r] \in AtRedis THEN wait[r] + 1 ELSE wait[r]]
  /\ lateAge' = [r \in Request |-> IF lateLeft[r] > 1 THEN Older(lateAge[r]) ELSE 0]
  /\ lateLeft' = [r \in Request |-> Sooner(lateLeft[r])]
  /\ UNCHANGED <<pc, ttl, calls, rejected>>

-----------------------------------------------------------------------------
(* The specification. *)

RedisAnswers(r) ==
  GetReply(r) \/ TtlReplyAfterHit(r) \/ TtlReplyAfterMiss(r) \/ SetReply(r) \/ GetTtlReply(r)

\* Variant: no timer for the TTL of getTtl.
RedisGivenUpExceptGetTtl(r) == ReadFails(r) \/ SetFails(r)

RedisGivenUp(r) == ReadFails(r) \/ SetFails(r) \/ GetTtlFails(r)

ThunkEnds(r) ==
  \/ ThunkReturns(r) \/ ThunkRejected(r)
  \/ InnerCatchReturns(r) \/ InnerCatchRejected(r)
  \/ OuterCatchReturns(r) \/ OuterCatchRejected(r)

Next ==
  \/ \E r \in Request :
       \/ MemoryHit(r) \/ MemoryMiss(r)
       \/ RedisAnswers(r) \/ RedisGivenUp(r)
       \/ ThunkEnds(r)
       \/ LateSet(r)
  \/ Evict
  \/ Tick

Spec == Init /\ [][Next]_vars

\* Redis need not answer, but the timer of _wait fires; a thunk settles.
FairFor(r) == WF_vars(RedisGivenUp(r)) /\ WF_vars(ThunkEnds(r))

Fairness == \A r \in Request : FairFor(r)

FairSpec == Spec /\ Fairness

-----------------------------------------------------------------------------
(* Properties. *)

\* However requests, evictions, time-outs and late SETs of several processes
\* interleave, no request is served a record older than two cache lifetimes plus
\* the delays of the Redis commands on the way. One lifetime is not enough: the
\* memory cache takes its TTL from whatever is under the key afterwards.
ServedAgeBounded == \A r \in Request : pc[r] = "served" => held[r] <= AgeBound

\* CACHE_TTL is the time for which a resolved record is persisted: apart from the
\* delays of the commands, a request is not served a record older than that.
PersistedForCacheTtl == \A r \in Request : pc[r] = "served" => held[r] <= HeldBound

\* Trouble with Redis costs a request at most one more call of the resolver: only
\* one that was itself rejected makes it three (the nested catch blocks).
OutageCostsOneMoreCall ==
  \A r \in Request : calls[r] <= IF rejected[r] THEN 3 ELSE 2

\* A request fails only because its resolver did, never because of Redis.
OutageFailsNoRequest == \A r \in Request : pc[r] = "failed" => rejected[r]

\* What the caller sees of a request.
CallState(r) == IF pc[r] \in Ended THEN pc[r] ELSE "busy"

Promise == INSTANCE Memoize WITH
  MaxAge <- AgeBound,
  state <- [r \in Request |-> CallState(r)],
  age <- [r \in Request |-> IF pc[r] = "served" THEN held[r] ELSE 0],
  tries <- calls,
  refused <- rejected

\* Whatever happens to Redis and to other calls, a call keeps the promise of
\* Memoize: how often it may ask its resolver, what it may fail for, how old a
\* value it may be served, and that it is served once.
MemoizeKept == Promise!MSpec

\* Every call of memoize comes back, even when Redis never answers.
RequestsEnd == \A r \in Request : pc[r] \notin Ended ~> pc[r] \in Ended

\* What a call of memoize waits for can end by itself: the timer of its Redis
\* command can fire, its thunk can settle, whatever Redis and other calls do.
WaitsCanEnd ==
  \A r \in Request :
    /\ pc[r] \in AtRedis => ENABLED <<RedisGivenUp(r)>>_vars
    /\ pc[r] \in AtThunk => ENABLED <<ThunkEnds(r)>>_vars
=============================================================================
