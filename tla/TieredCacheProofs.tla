------------------------- MODULE TieredCacheProofs -------------------------
(* Theorems about TieredCache, for every value of its constants. *)
EXTENDS TieredCache, TLAPS

-----------------------------------------------------------------------------
(* Lemmas about the operators of the model. *)

\* A number of seconds up to DefaultTtl is a number of ticks up to Lifetime.
LEMMA SecondsToTicks ==
  ASSUME NEW s \in Nat, s <= DefaultTtl
  PROVE  s * Second \in 0 .. Lifetime
<1> USE CacheAssumption
<1>1. DefaultTtl * Second = s * Second + (DefaultTtl - s) * Second
  OBVIOUS
<1>2. (DefaultTtl - s) * Second \in Nat /\ s * Second \in Nat
  OBVIOUS
<1>3. DefaultTtl * Second \in Nat
  OBVIOUS
<1>4. QED
  BY <1>1, <1>2, <1>3 DEF Lifetime

LEMMA BoundsAreNaturals ==
  Lifetime \in Nat /\ RedisBound \in Nat /\ HeldBound \in Nat /\ AgeBound \in Nat
<1>1. Lifetime \in Nat
  BY CacheAssumption DEF Lifetime
<1>2. QED
  BY <1>1, CacheAssumption DEF RedisBound, HeldBound, AgeBound

\* Whatever Redis replies, both tiers are handed a TTL within the configured one.
LEMMA TtlsWithinDefault ==
  ASSUME redisTtl \in Nat
  PROVE  /\ SetTtl(TtlReply) \in 1 .. DefaultTtl
         /\ MemoryTtl(TtlReply) \in 1 .. DefaultTtl
<1> USE CacheAssumption
<1>1. TtlReply \in Int
  <2>1. redisTtl + Second \div 2 \in Int
    OBVIOUS
  <2>2. (redisTtl + Second \div 2) \div Second \in Int
    BY <2>1
  <2>3. QED
    BY <2>2 DEF TtlReply
<1>2. QED
  BY <1>1 DEF SetTtl, MemoryTtl, Lower, Higher

-----------------------------------------------------------------------------
(* The inductive invariant: the type, the calls and the ages. *)

\* How often the thunk has been called, by where the request is.
CallsCounted ==
  \A r \in Request :
    /\ pc[r] \in {"get", "ttlHit", "ttlMiss"} => calls[r] = 0
    /\ pc[r] \in {"thunk", "set"} => calls[r] = 1
    /\ pc[r] \in {"innerCatch", "getTtl"} => calls[r] <= 1 \/ (calls[r] = 2 /\ rejected[r])
    /\ pc[r] = "outerCatch" => calls[r] > 0
    /\ pc[r] = "failed" => rejected[r]
    /\ calls[r] <= IF rejected[r] THEN 3 ELSE 2

\* How old the value in Redis, the ones in memory and those of late SETs get
\* before they are dropped.
StoredAges ==
  /\ redisTtl > 0 => redisAge + redisTtl <= RedisBound
  /\ \A p \in Process : memTtl[p] > 0 => memAge[p] + memTtl[p] <= AgeBound
  /\ \A r \in Request : lateLeft[r] > 0 => lateAge[r] + lateLeft[r] <= Timeout + MaxLate

\* How old the value in the hands of a request is, by where the request is.
HeldAges ==
  \A r \in Request :
    /\ pc[r] = "ttlHit" => held[r] <= RedisBound + wait[r]
    /\ pc[r] = "set" => held[r] <= wait[r]
    /\ pc[r] = "getTtl" => held[r] <= RedisBound + Timeout + wait[r]
    /\ pc[r] = "served" => held[r] <= AgeBound

IInv == TypeOK /\ CallsCounted /\ StoredAges /\ HeldAges

-----------------------------------------------------------------------------

\* One step of a request other than a late SET keeps the type and the count.
LEMMA RequestKeepsTypeAndCalls ==
  ASSUME TypeOK, CallsCounted, NEW r \in Request,
         \/ MemoryHit(r) \/ MemoryMiss(r)
         \/ RedisAnswers(r) \/ RedisGivenUp(r) \/ ThunkEnds(r)
  PROVE  TypeOK' /\ CallsCounted'
<1> USE CacheAssumption, BoundsAreNaturals
    DEF TypeOK, CallsCounted, Goto, CallThunk, AtRedis, AtThunk, Ended, memVars, redisVars, lateVars
<1>1. CASE MemoryHit(r)
  BY <1>1 DEF MemoryHit
<1>2. CASE MemoryMiss(r)
  BY <1>2 DEF MemoryMiss
<1>3. CASE GetReply(r)
  BY <1>3 DEF GetReply
<1>4. CASE TtlReplyAfterHit(r)
  <2>1. SetTtl(TtlReply) \in 1 .. DefaultTtl
    BY TtlsWithinDefault
  <2>2. QED
    BY <1>4, <2>1 DEF TtlReplyAfterHit
<1>5. CASE TtlReplyAfterMiss(r)
  <2>1. SetTtl(TtlReply) \in 1 .. DefaultTtl
    BY TtlsWithinDefault
  <2>2. QED
    BY <1>5, <2>1 DEF TtlReplyAfterMiss
<1>6. CASE SetReply(r)
  <2>1. ttl[r] * Second \in 0 .. Lifetime
    BY SecondsToTicks
  <2>2. QED
    BY <1>6, <2>1 DEF SetReply
<1>7. CASE GetTtlReply(r)
  <2>1. MemoryTtl(TtlReply) * Second \in 0 .. Lifetime
    BY TtlsWithinDefault, SecondsToTicks
  <2>2. QED
    BY <1>7, <2>1 DEF GetTtlReply
<1>8. CASE ReadFails(r)
  BY <1>8 DEF ReadFails
<1>9. CASE SetFails(r)
  BY <1>9 DEF SetFails
<1>10. CASE GetTtlFails(r)
  BY <1>10 DEF GetTtlFails
<1>11. CASE ThunkReturns(r)
  BY <1>11 DEF ThunkReturns
<1>12. CASE ThunkRejected(r)
  BY <1>12 DEF ThunkRejected
<1>13. CASE InnerCatchReturns(r)
  BY <1>13 DEF InnerCatchReturns
<1>14. CASE InnerCatchRejected(r)
  BY <1>14 DEF InnerCatchRejected
<1>15. CASE OuterCatchReturns(r)
  BY <1>15 DEF OuterCatchReturns
<1>16. CASE OuterCatchRejected(r)
  BY <1>16 DEF OuterCatchRejected
<1>17. QED
  BY <1>1, <1>2, <1>3, <1>4, <1>5, <1>6, <1>7, <1>8, <1>9, <1>10, <1>11, <1>12,
     <1>13, <1>14, <1>15, <1>16 DEF RedisAnswers, RedisGivenUp, ThunkEnds

\* The same step keeps the ages: a value gets at most the wait of each command
\* older on its way, and a tier drops it within a lifetime.
LEMMA RequestKeepsAges ==
  ASSUME IInv, NEW r \in Request,
         \/ MemoryHit(r) \/ MemoryMiss(r)
         \/ RedisAnswers(r) \/ RedisGivenUp(r) \/ ThunkEnds(r)
  PROVE  StoredAges' /\ HeldAges'
<1> USE CacheAssumption, BoundsAreNaturals
    DEF IInv, TypeOK, StoredAges, HeldAges, Goto, CallThunk, AtRedis, AtThunk, Ended,
        memVars, redisVars, lateVars
<1>0. /\ RedisBound = Timeout + MaxLate + Lifetime
      /\ AgeBound = RedisBound + 2 * Timeout + Lifetime
  BY DEF RedisBound, HeldBound, AgeBound
<1>1. CASE MemoryHit(r)
  BY <1>1 DEF MemoryHit
<1>2. CASE MemoryMiss(r)
  BY <1>2 DEF MemoryMiss
<1>3. CASE GetReply(r)
  BY <1>3 DEF GetReply
<1>4. CASE TtlReplyAfterHit(r)
  BY <1>4 DEF TtlReplyAfterHit
<1>5. CASE TtlReplyAfterMiss(r)
  BY <1>5 DEF TtlReplyAfterMiss
<1>6. CASE SetReply(r)
  <2>1. ttl[r] \in Nat /\ ttl[r] <= DefaultTtl
    OBVIOUS
  <2>2. ttl[r] * Second \in 0 .. Lifetime
    BY ONLY <2>1, SecondsToTicks
  <2>3. QED
    BY <1>0, <1>6, <2>2 DEF SetReply
<1>7. CASE GetTtlReply(r)
  <2>1. MemoryTtl(TtlReply) * Second \in 0 .. Lifetime
    BY TtlsWithinDefault, SecondsToTicks
  <2>2. QED
    BY <1>0, <1>7, <2>1 DEF GetTtlReply
<1>8. CASE ReadFails(r)
  BY <1>8 DEF ReadFails
<1>9. CASE SetFails(r)
  BY <1>0, <1>9 DEF SetFails
<1>10. CASE GetTtlFails(r)
  BY <1>10 DEF GetTtlFails
<1>11. CASE ThunkReturns(r)
  BY <1>11 DEF ThunkReturns
<1>12. CASE ThunkRejected(r)
  BY <1>12 DEF ThunkRejected
<1>13. CASE InnerCatchReturns(r)
  BY <1>0, <1>13 DEF InnerCatchReturns
<1>14. CASE InnerCatchRejected(r)
  BY <1>14 DEF InnerCatchRejected
<1>15. CASE OuterCatchReturns(r)
  BY <1>15 DEF OuterCatchReturns
<1>16. CASE OuterCatchRejected(r)
  BY <1>16 DEF OuterCatchRejected
<1>17. QED
  BY <1>1, <1>2, <1>3, <1>4, <1>5, <1>6, <1>7, <1>8, <1>9, <1>10, <1>11, <1>12,
     <1>13, <1>14, <1>15, <1>16 DEF RedisAnswers, RedisGivenUp, ThunkEnds

\* A late SET stores a value no older than its delay.
LEMMA LateSetKeeps ==
  ASSUME IInv, NEW r \in Request, LateSet(r)
  PROVE  IInv'
<1> USE CacheAssumption, BoundsAreNaturals DEF IInv, TypeOK, LateSet, requestVars, memVars
<1>1. ttl[r] * Second \in 0 .. Lifetime
  <2>1. ttl[r] \in Nat /\ ttl[r] <= DefaultTtl
    OBVIOUS
  <2>2. QED
    BY <2>1, SecondsToTicks
<1>2. TypeOK'
  BY <1>1
<1>3. StoredAges'
  <2>1. lateAge[r] <= Timeout + MaxLate
    BY DEF StoredAges
  <2>2. QED
    BY <1>1, <2>1 DEF StoredAges, RedisBound
<1>4. CallsCounted' /\ HeldAges'
  BY DEF CallsCounted, HeldAges
<1>5. QED
  BY <1>2, <1>3, <1>4

\* A tick makes every value a tick older and its time to live a tick shorter.
LEMMA TickKeeps ==
  ASSUME IInv, Tick
  PROVE  IInv'
<1> USE CacheAssumption, BoundsAreNaturals DEF IInv, TypeOK, Tick, Older, Sooner, Lower
<1>1. TypeOK'
  BY DEF AtRedis
<1>2. StoredAges'
  BY DEF StoredAges
<1>3. CallsCounted'
  BY DEF CallsCounted
<1>4. HeldAges'
  BY DEF HeldAges, AtRedis
<1>5. QED
  BY <1>1, <1>2, <1>3, <1>4

LEMMA Inductive ==
  /\ Init => IInv
  /\ IInv /\ [Next]_vars => IInv'
<1> USE CacheAssumption, BoundsAreNaturals
<1>1. Init => IInv
  BY DEF Init, IInv, TypeOK, CallsCounted, StoredAges, HeldAges, AtRedis, AtThunk, Ended
<1>2. IInv /\ [Next]_vars => IInv'
  <2> SUFFICES ASSUME IInv, [Next]_vars
               PROVE  IInv'
    OBVIOUS
  <2>1. ASSUME NEW r \in Request,
               \/ MemoryHit(r) \/ MemoryMiss(r)
               \/ RedisAnswers(r) \/ RedisGivenUp(r) \/ ThunkEnds(r)
        PROVE  IInv'
    BY <2>1, RequestKeepsTypeAndCalls, RequestKeepsAges DEF IInv
  <2>2. ASSUME NEW r \in Request, LateSet(r)
        PROVE  IInv'
    BY <2>2, LateSetKeeps
  <2>3. CASE Evict
    BY <2>3 DEF Evict, IInv, TypeOK, CallsCounted, StoredAges, HeldAges,
                requestVars, memVars, lateVars
  <2>4. CASE Tick
    BY <2>4, TickKeeps
  <2>5. CASE UNCHANGED vars
    BY <2>5 DEF IInv, TypeOK, CallsCounted, StoredAges, HeldAges,
                vars, redisVars, requestVars, memVars, lateVars
  <2>6. QED
    BY <2>1, <2>2, <2>3, <2>4, <2>5 DEF Next
<1>3. QED
  BY <1>1, <1>2

-----------------------------------------------------------------------------
(* The theorems. *)

LEMMA Invariant == Spec => []IInv
  BY Inductive, PTL DEF Spec

\* Every variable keeps its type: the TTLs of both tiers stay within the
\* configured one, and no request calls its thunk more than three times.
THEOREM TypeCorrect == Spec => []TypeOK
<1>1. IInv => TypeOK
  BY DEF IInv
<1>2. QED
  BY <1>1, Invariant, PTL

\* No request of any process is served a record older than two lifetimes plus
\* the delays of the commands it came through, for every TTL, timeout and delay.
THEOREM ServedAge == Spec => []ServedAgeBounded
<1>1. IInv => ServedAgeBounded
  BY DEF IInv, HeldAges, ServedAgeBounded
<1>2. QED
  BY <1>1, Invariant, PTL

\* The nested catch blocks call the thunk once more for trouble with Redis, and
\* a third time only after a rejection.
THEOREM OneMoreCall == Spec => []OutageCostsOneMoreCall
<1>1. IInv => OutageCostsOneMoreCall
  BY DEF IInv, CallsCounted, OutageCostsOneMoreCall
<1>2. QED
  BY <1>1, Invariant, PTL

\* memoize rejects only when the thunk did.
THEOREM FailsOnlyWithThunk == Spec => []OutageFailsNoRequest
<1>1. IInv => OutageFailsNoRequest
  BY DEF IInv, CallsCounted, OutageFailsNoRequest
<1>2. QED
  BY <1>1, Invariant, PTL
-----------------------------------------------------------------------------
(* The refinement. *)

\* A request that stays with Redis or its thunk is busy before and after.
Waits(r, place) ==
  /\ pc[r] \in AtRedis \cup AtThunk
  /\ place \in AtRedis \cup AtThunk
  /\ pc' = [pc EXCEPT ![r] = place]
  /\ \A q \in Request : q # r => held'[q] = held[q]

\* What another command of a request that is still busy changes is invisible.
LEMMA WaitingIsInvisible ==
  ASSUME TypeOK, NEW r \in Request, NEW place, Waits(r, place), UNCHANGED <<calls, rejected>>
  PROVE  UNCHANGED Promise!memoizeVars
<1> USE DEF TypeOK, Waits, AtRedis, AtThunk, Ended
<1>1. \A q \in Request : CallState(q)' = CallState(q)
  BY DEF CallState
<1>2. \A q \in Request : (IF pc[q] = "served" THEN held[q] ELSE 0)' = (IF pc[q] = "served" THEN held[q] ELSE 0)
  OBVIOUS
<1>3. QED
  BY <1>1, <1>2 DEF Promise!memoizeVars

\* Another call of the thunk is an attempt of the promise, if it is still due one.
LEMMA CallIsAttempt ==
  ASSUME TypeOK, NEW r \in Request, NEW place, Waits(r, place),
         calls' = [calls EXCEPT ![r] = @ + 1],
         NEW now \in {rejected[r], TRUE},
         rejected' = [rejected EXCEPT ![r] = now],
         calls[r] < IF now THEN 3 ELSE 2
  PROVE  Promise!Resolve(r)
<1> USE DEF TypeOK, Waits, AtRedis, AtThunk, Ended
<1>1. \A q \in Request : CallState(q)' = CallState(q)
  BY DEF CallState
<1>2. \A q \in Request : (IF pc[q] = "served" THEN held[q] ELSE 0)' = (IF pc[q] = "served" THEN held[q] ELSE 0)
  OBVIOUS
<1>3. CallState(r) = "busy"
  BY DEF CallState
<1>4. calls[r] < Promise!MaxTries(now)
  BY DEF Promise!MaxTries
<1>5. QED
  BY <1>1, <1>2, <1>3, <1>4 DEF Promise!Resolve

\* A request that gets its value is served by the promise.
LEMMA ServedIsServe ==
  ASSUME TypeOK, IInv', NEW r \in Request,
         pc[r] \in AtRedis \cup AtThunk,
         pc' = [pc EXCEPT ![r] = "served"],
         \A q \in Request : q # r => held'[q] = held[q],
         UNCHANGED <<calls, rejected>>
  PROVE  Promise!Serve(r)
<1> USE DEF TypeOK, AtRedis, AtThunk, Ended
<1>1. [q \in Request |-> CallState(q)]' = [[q \in Request |-> CallState(q)] EXCEPT ![r] = "served"]
  BY DEF CallState
<1>2. held'[r] \in 0 .. AgeBound
  BY BoundsAreNaturals DEF IInv, HeldAges
<1>3. [q \in Request |-> IF pc[q] = "served" THEN held[q] ELSE 0]'
        = [[q \in Request |-> IF pc[q] = "served" THEN held[q] ELSE 0] EXCEPT ![r] = held'[r]]
  OBVIOUS
<1>4. CallState(r) = "busy"
  BY DEF CallState
<1>5. QED
  BY <1>1, <1>2, <1>3, <1>4 DEF Promise!Serve

\* Every step of memoize is one of the promise, or invisible to the caller.
LEMMA RequestKeepsPromise ==
  ASSUME IInv, IInv', NEW r \in Request,
         MemoryHit(r) \/ MemoryMiss(r) \/ RedisAnswers(r) \/ RedisGivenUp(r) \/ ThunkEnds(r)
  PROVE  Promise!MNext \/ UNCHANGED Promise!memoizeVars
<1> USE DEF IInv, AtRedis, AtThunk, Goto, CallThunk, Waits
<1>0. TypeOK
  OBVIOUS
<1>1. CASE MemoryHit(r)
  <2>1. held'[r] \in 0 .. AgeBound
    BY <1>1, BoundsAreNaturals DEF TypeOK, HeldAges, MemoryHit
  <2>2. [q \in Request |-> CallState(q)]' = [[q \in Request |-> CallState(q)] EXCEPT ![r] = "served"]
    BY <1>1 DEF TypeOK, MemoryHit, CallState, Ended
  <2>3. [q \in Request |-> IF pc[q] = "served" THEN held[q] ELSE 0]'
          = [[q \in Request |-> IF pc[q] = "served" THEN held[q] ELSE 0] EXCEPT ![r] = held'[r]]
    BY <1>1 DEF TypeOK, MemoryHit
  <2>4. CallState(r) # "busy"
    BY <1>1 DEF MemoryHit, CallState, Ended
  <2>5. Promise!Call(r)
    BY <1>1, <2>1, <2>2, <2>3, <2>4 DEF TypeOK, MemoryHit, Promise!Call
  <2>6. QED
    BY <2>5 DEF Promise!MNext
<1>2. CASE MemoryMiss(r)
  <2>1. [q \in Request |-> CallState(q)]' = [[q \in Request |-> CallState(q)] EXCEPT ![r] = "busy"]
    BY <1>2 DEF TypeOK, MemoryMiss, CallState, Ended
  <2>2. [q \in Request |-> IF pc[q] = "served" THEN held[q] ELSE 0]'
          = [[q \in Request |-> IF pc[q] = "served" THEN held[q] ELSE 0] EXCEPT ![r] = 0]
    BY <1>2 DEF TypeOK, MemoryMiss
  <2>3. CallState(r) # "busy"
    BY <1>2 DEF MemoryMiss, CallState, Ended
  <2>4. Promise!Call(r)
    BY <1>2, <2>1, <2>2, <2>3 DEF TypeOK, MemoryMiss, Promise!Call
  <2>5. QED
    BY <2>4 DEF Promise!MNext
<1>3. CASE GetReply(r)
  BY <1>0, <1>3, WaitingIsInvisible DEF TypeOK, GetReply
<1>4. CASE TtlReplyAfterHit(r)
  <2>1. CASE pc' = [pc EXCEPT ![r] = "getTtl"] /\ UNCHANGED calls
    BY <1>0, <1>4, <2>1, WaitingIsInvisible DEF TypeOK, TtlReplyAfterHit
  <2>2. ASSUME NEW place \in {"thunk", "innerCatch"}, CallThunk(r, place)
        PROVE  Promise!MNext
    <3>1. calls[r] = 0
      BY <1>4 DEF CallsCounted, TtlReplyAfterHit
    <3>2. rejected' = [rejected EXCEPT ![r] = rejected[r]]
      BY <1>4 DEF TypeOK, TtlReplyAfterHit
    <3>3. calls[r] < IF rejected[r] THEN 3 ELSE 2
      BY <3>1
    <3>4. CallThunk(r, place) /\ pc[r] \in AtRedis /\ UNCHANGED held
      BY <1>4, <2>2 DEF TtlReplyAfterHit
    <3>5. Waits(r, place)
      BY <2>2, <3>4
    <3>6. Promise!Resolve(r)
      BY <1>0, <3>2, <3>3, <3>4, <3>5, CallIsAttempt
    <3>7. QED
      BY <3>6 DEF Promise!MNext
  <2>3. QED
    BY <1>4, <2>1, <2>2 DEF TtlReplyAfterHit
<1>5. CASE TtlReplyAfterMiss(r) \/ ReadFails(r) \/ GetTtlFails(r)
  <2>1. PICK place \in {"thunk", "innerCatch", "outerCatch"} : CallThunk(r, place) /\ pc[r] \in AtRedis
    BY <1>5 DEF TtlReplyAfterMiss, ReadFails, GetTtlFails
  <2>2. calls[r] < IF rejected[r] THEN 3 ELSE 2
    BY <1>5 DEF TypeOK, CallsCounted, TtlReplyAfterMiss, ReadFails, GetTtlFails
  <2>3. rejected' = [rejected EXCEPT ![r] = rejected[r]] /\ UNCHANGED held
    BY <1>5 DEF TypeOK, TtlReplyAfterMiss, ReadFails, GetTtlFails
  <2>4. Promise!Resolve(r)
    BY <1>0, <2>1, <2>2, <2>3, CallIsAttempt
  <2>5. QED
    BY <2>4 DEF Promise!MNext
<1>6. CASE SetReply(r) \/ SetFails(r) \/ ThunkReturns(r) \/ InnerCatchReturns(r)
  BY <1>0, <1>6, WaitingIsInvisible
     DEF TypeOK, SetReply, SetFails, ThunkReturns, InnerCatchReturns
<1>7. CASE ThunkRejected(r) \/ InnerCatchRejected(r)
  <2>1. PICK place \in {"innerCatch", "outerCatch"} : CallThunk(r, place) /\ pc[r] \in AtThunk
    BY <1>7 DEF ThunkRejected, InnerCatchRejected
  <2>2. calls[r] < 3
    BY <1>7 DEF TypeOK, CallsCounted, ThunkRejected, InnerCatchRejected
  <2>3. rejected' = [rejected EXCEPT ![r] = TRUE] /\ UNCHANGED held
    BY <1>7 DEF ThunkRejected, InnerCatchRejected
  <2>4. Promise!Resolve(r)
    BY <1>0, <2>1, <2>2, <2>3, CallIsAttempt
  <2>5. QED
    BY <2>4 DEF Promise!MNext
<1>8. CASE GetTtlReply(r) \/ OuterCatchReturns(r)
  <2>1. Promise!Serve(r)
    BY <1>0, <1>8, ServedIsServe DEF TypeOK, GetTtlReply, OuterCatchReturns
  <2>2. QED
    BY <2>1 DEF Promise!MNext
<1>9. CASE OuterCatchRejected(r)
  <2>1. [q \in Request |-> CallState(q)]' = [[q \in Request |-> CallState(q)] EXCEPT ![r] = "failed"]
    BY <1>9 DEF TypeOK, OuterCatchRejected, CallState, Ended
  <2>2. UNCHANGED [q \in Request |-> IF pc[q] = "served" THEN held[q] ELSE 0]
    BY <1>9 DEF TypeOK, OuterCatchRejected
  <2>3. CallState(r) = "busy" /\ calls[r] > 0
    BY <1>9 DEF CallsCounted, OuterCatchRejected, CallState, Ended
  <2>4. Promise!Fail(r)
    BY <1>9, <2>1, <2>2, <2>3 DEF OuterCatchRejected, Promise!Fail
  <2>5. QED
    BY <2>4 DEF Promise!MNext
<1>10. QED
  BY <1>1, <1>2, <1>3, <1>4, <1>5, <1>6, <1>7, <1>8, <1>9 DEF RedisAnswers, RedisGivenUp, ThunkEnds

\* What happens elsewhere is invisible: late SETs, evictions and ticks do not touch
\* a request that has ended.
LEMMA RestIsInvisible ==
  ASSUME IInv, (\E r \in Request : LateSet(r)) \/ Evict \/ Tick \/ UNCHANGED vars
  PROVE  UNCHANGED Promise!memoizeVars
<1>1. UNCHANGED <<pc, calls, rejected>>
  BY DEF LateSet, Evict, Tick, vars, requestVars
<1>2. \A r \in Request : pc[r] = "served" => held'[r] = held[r]
  BY DEF LateSet, Evict, Tick, vars, requestVars, AtRedis
<1>3. \A r \in Request : CallState(r)' = CallState(r)
  BY <1>1 DEF CallState
<1>4. QED
  BY <1>1, <1>2, <1>3 DEF Promise!memoizeVars

\* memoize implements its promise, for every TTL, timeout and delay, with any
\* number of requests and processes.
THEOREM KeepsPromise == Spec => MemoizeKept
<1>1. Init => Promise!MInit
  BY DEF Init, Promise!MInit, CallState, Ended
<1>2. IInv /\ IInv' /\ [Next]_vars => [Promise!MNext]_Promise!memoizeVars
  BY RequestKeepsPromise, RestIsInvisible DEF Next
<1>3. QED
  BY <1>1, <1>2, Invariant, PTL DEF Spec, MemoizeKept, Promise!MSpec

-----------------------------------------------------------------------------
(* Every call comes back. The provers know nothing of ENABLED: that what a   *)
(* call waits for can end is a hypothesis, which TLC checks.                 *)

At(r, place) == pc[r] = place

\* What other requests, Redis and the clock do leaves a call where it is.
LEMMA OthersStay ==
  ASSUME TypeOK, [Next]_vars, NEW r \in Request,
         ~(MemoryHit(r) \/ MemoryMiss(r) \/ RedisAnswers(r) \/ RedisGivenUp(r) \/ ThunkEnds(r))
  PROVE  pc'[r] = pc[r]
<1>1. ASSUME NEW q \in Request \ {r},
             MemoryHit(q) \/ MemoryMiss(q) \/ RedisAnswers(q) \/ RedisGivenUp(q) \/ ThunkEnds(q)
      PROVE  pc'[r] = pc[r]
  BY <1>1 DEF TypeOK, MemoryHit, MemoryMiss, RedisAnswers, RedisGivenUp, ThunkEnds, GetReply,
     TtlReplyAfterHit, TtlReplyAfterMiss, SetReply, GetTtlReply, ReadFails, SetFails, GetTtlFails,
     ThunkReturns, ThunkRejected, InnerCatchReturns, InnerCatchRejected, OuterCatchReturns,
     OuterCatchRejected, Goto, CallThunk
<1>2. CASE (\E q \in Request : LateSet(q)) \/ Evict \/ Tick \/ UNCHANGED vars
  BY <1>2 DEF LateSet, Evict, Tick, vars, requestVars
<1>3. QED
  BY <1>1, <1>2 DEF Next

\* Where a call goes from where it waits.
LEMMA WhereNext ==
  ASSUME TypeOK, [Next]_vars, NEW r \in Request
  PROVE  /\ At(r, "get") => pc'[r] \in {"get", "ttlHit", "ttlMiss", "innerCatch"}
         /\ At(r, "ttlHit") => pc'[r] \in {"ttlHit", "getTtl", "thunk", "innerCatch"}
         /\ At(r, "ttlMiss") => pc'[r] \in {"ttlMiss", "thunk", "innerCatch"}
         /\ At(r, "thunk") => pc'[r] \in {"thunk", "set", "innerCatch"}
         /\ At(r, "set") => pc'[r] \in {"set", "getTtl"}
         /\ At(r, "innerCatch") => pc'[r] \in {"innerCatch", "getTtl", "outerCatch"}
         /\ At(r, "getTtl") => pc'[r] \in {"getTtl", "outerCatch", "served"}
         /\ At(r, "outerCatch") => pc'[r] \in {"outerCatch", "served", "failed"}
<1>1. CASE RedisAnswers(r)
  BY <1>1 DEF At, TypeOK, RedisAnswers, GetReply, TtlReplyAfterHit, TtlReplyAfterMiss, SetReply,
     GetTtlReply, Goto, CallThunk
<1>2. CASE RedisGivenUp(r)
  BY <1>2 DEF At, TypeOK, RedisGivenUp, ReadFails, SetFails, GetTtlFails, Goto, CallThunk
<1>3. CASE ThunkEnds(r)
  BY <1>3 DEF At, TypeOK, ThunkEnds, ThunkReturns, ThunkRejected, InnerCatchReturns,
     InnerCatchRejected, OuterCatchReturns, OuterCatchRejected, Goto, CallThunk
<1>4. CASE MemoryHit(r) \/ MemoryMiss(r)
  BY <1>4 DEF At, MemoryHit, MemoryMiss, Ended
<1>5. CASE pc'[r] = pc[r]
  BY <1>5 DEF At
<1>6. QED
  BY <1>1, <1>2, <1>3, <1>4, <1>5, OthersStay

\* A timer, or a thunk, ends the wait it is there for.
LEMMA WaitEnds ==
  ASSUME TypeOK, NEW r \in Request
  PROVE  /\ <<RedisGivenUp(r)>>_vars =>
              \A place \in AtRedis : At(r, place) => pc'[r] # place
         /\ <<ThunkEnds(r)>>_vars =>
              \A place \in AtThunk : At(r, place) => pc'[r] # place
<1>1. ASSUME RedisGivenUp(r), NEW place \in AtRedis, At(r, place)
      PROVE  pc'[r] # place
  BY <1>1 DEF At, TypeOK, AtRedis, RedisGivenUp, ReadFails, SetFails, GetTtlFails, Goto, CallThunk
<1>2. ASSUME ThunkEnds(r), NEW place \in AtThunk, At(r, place)
      PROVE  pc'[r] # place
  BY <1>2 DEF At, TypeOK, AtThunk, ThunkEnds, ThunkReturns, ThunkRejected, InnerCatchReturns,
     InnerCatchRejected, OuterCatchReturns, OuterCatchRejected, Goto, CallThunk
<1>3. QED
  BY <1>1, <1>2

\* No place of a call is passed twice.
LEMMA CallEnds ==
  ASSUME NEW r \in Request
  PROVE  /\ Spec /\ WF_vars(RedisGivenUp(r)) /\ WF_vars(ThunkEnds(r))
         /\ [](pc[r] \in AtRedis => ENABLED <<RedisGivenUp(r)>>_vars)
         /\ [](pc[r] \in AtThunk => ENABLED <<ThunkEnds(r)>>_vars)
         => (pc[r] \notin Ended ~> pc[r] \in Ended)
<1>1. TypeOK =>
        /\ pc[r] \in AtRedis <=> \/ At(r, "get") \/ At(r, "ttlHit") \/ At(r, "ttlMiss")
                                 \/ At(r, "set") \/ At(r, "getTtl")
        /\ pc[r] \in AtThunk <=> At(r, "thunk") \/ At(r, "innerCatch") \/ At(r, "outerCatch")
        /\ pc[r] \notin Ended <=> pc[r] \in AtRedis \/ pc[r] \in AtThunk
        /\ pc[r] \notin Ended <=> ~(pc[r] \in Ended)
  BY DEF TypeOK, At, AtRedis, AtThunk, Ended
<1>2. TypeOK /\ [Next]_vars =>
        /\ At(r, "get") => At(r, "get")' \/ At(r, "ttlHit")' \/ At(r, "ttlMiss")' \/ At(r, "innerCatch")'
        /\ At(r, "ttlHit") => At(r, "ttlHit")' \/ At(r, "getTtl")' \/ At(r, "thunk")' \/ At(r, "innerCatch")'
        /\ At(r, "ttlMiss") => At(r, "ttlMiss")' \/ At(r, "thunk")' \/ At(r, "innerCatch")'
        /\ At(r, "thunk") => At(r, "thunk")' \/ At(r, "set")' \/ At(r, "innerCatch")'
        /\ At(r, "set") => At(r, "set")' \/ At(r, "getTtl")'
        /\ At(r, "innerCatch") => At(r, "innerCatch")' \/ At(r, "getTtl")' \/ At(r, "outerCatch")'
        /\ At(r, "getTtl") => At(r, "getTtl")' \/ At(r, "outerCatch")' \/ (pc[r] \in Ended)'
        /\ At(r, "outerCatch") => At(r, "outerCatch")' \/ (pc[r] \in Ended)'
  BY WhereNext DEF At, Ended
<1>3. TypeOK /\ <<RedisGivenUp(r)>>_vars =>
        /\ At(r, "get") => ~At(r, "get")'
        /\ At(r, "ttlHit") => ~At(r, "ttlHit")'
        /\ At(r, "ttlMiss") => ~At(r, "ttlMiss")'
        /\ At(r, "set") => ~At(r, "set")'
        /\ At(r, "getTtl") => ~At(r, "getTtl")'
  BY WaitEnds DEF At, AtRedis
<1>4. TypeOK /\ <<ThunkEnds(r)>>_vars =>
        /\ At(r, "thunk") => ~At(r, "thunk")'
        /\ At(r, "innerCatch") => ~At(r, "innerCatch")'
        /\ At(r, "outerCatch") => ~At(r, "outerCatch")'
  BY WaitEnds DEF At, AtThunk
<1>5. QED
  BY <1>1, <1>2, <1>3, <1>4, TypeCorrect, PTL DEF Spec

\* Every call of memoize comes back, however many there are and whatever Redis
\* does: the timers of its commands and the ends of its thunks see to that, when
\* they can come while it waits for them.
THEOREM CallsComeBack == FairSpec /\ []WaitsCanEnd => RequestsEnd
<1>1. ASSUME NEW r \in Request
      PROVE  FairSpec /\ []WaitsCanEnd => (pc[r] \notin Ended ~> pc[r] \in Ended)
  <2>1. WaitsCanEnd => /\ pc[r] \in AtRedis => ENABLED <<RedisGivenUp(r)>>_vars
                       /\ pc[r] \in AtThunk => ENABLED <<ThunkEnds(r)>>_vars
    BY DEF WaitsCanEnd
  <2>2. Fairness => FairFor(r)
    BY DEF Fairness
  <2>3. QED
    BY <2>1, <2>2, CallEnds, PTL DEF FairSpec, FairFor
<1>2. QED
  BY <1>1 DEF RequestsEnd
=============================================================================
