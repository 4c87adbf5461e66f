-------------------------- MODULE RateLimitProofs --------------------------
(* Theorems about RateLimit, for every value of its constants. *)
EXTENDS RateLimit, FiniteSetTheorems, TLAPS

-----------------------------------------------------------------------------
(* Lemmas about the operators of the model. *)

LEMMA WindowPositive == Window \in Nat /\ Window > 0
<1> USE RateAssumption
<1>1. Period * Second \in Nat
  OBVIOUS
<1>2. Period * Second > 0
  <2>1. Period * Second = (Period - 1) * Second + Second
    OBVIOUS
  <2>2. (Period - 1) * Second \in Nat
    OBVIOUS
  <2>3. QED
    BY <2>1, <2>2
<1>3. QED
  BY <1>1, <1>2 DEF Window

\* A reply of TTL below a second means that the counter is gone, has no TTL, or
\* has less than half a second left.
LEMMA TtlReplyBelowOne ==
  ASSUME count \in Nat, pttl \in Nat, count = 0 => pttl = 0, TtlReply < 1
  PROVE  pttl > 0 => 2 * pttl < Second
<1> USE RateAssumption
<1>1. SUFFICES ASSUME pttl > 0
               PROVE  2 * pttl < Second
  OBVIOUS
<1> DEFINE half == Second \div 2
           q == (pttl + half) \div Second
<1>2. half \in Nat /\ 2 * half >= Second - 1
  OBVIOUS
<1>3. q < 1
  BY <1>1 DEF TtlReply
<1>4. pttl + half < Second
  <2>1. SUFFICES ASSUME pttl + half >= Second
                 PROVE  q >= 1
    BY <1>2, <1>3
  <2> DEFINE a == pttl + half
  <2>2. a \in Nat /\ a >= Second
    BY <1>2, <2>1
  <2> HIDE DEF a
  <2>3. a \div Second >= 1
    BY <2>2
  <2>4. QED
    BY <2>3 DEF a
<1>5. QED
  BY <1>2, <1>4

-----------------------------------------------------------------------------
(* Type correctness. *)

LEMMA TypeInductive ==
  /\ Init => TypeOK
  /\ TypeOK /\ [Next]_vars => TypeOK'
<1> USE RateAssumption, WindowPositive DEF TypeOK, Waiting, Ended
<1>1. Init => TypeOK
  BY DEF Init
<1>2. ASSUME TypeOK, [Next]_vars
      PROVE  TypeOK'
  <2> USE <1>2 DEF redisVars, requestVars, lateVars, historyVars, Goto, Decide, Incr, Expire, Drop, Lower
  <2>1. ASSUME NEW r \in Request, Call(r)
        PROVE  TypeOK'
    BY <2>1 DEF Call
  <2>2. ASSUME NEW r \in Request, Answered(r)
        PROVE  TypeOK'
    <3>1. CASE IncrReply(r)
      BY <3>1 DEF IncrReply
    <3>2. CASE TtlReplyTimed(r)
      BY <3>2 DEF TtlReplyTimed
    <3>3. CASE TtlReplyUntimed(r)
      BY <3>3 DEF TtlReplyUntimed
    <3>4. CASE ExpireReply(r)
      BY <3>4 DEF ExpireReply
    <3>5. QED
      BY <2>2, <3>1, <3>2, <3>3, <3>4 DEF Answered
  <2>3. ASSUME NEW r \in Request, Fails(r)
        PROVE  TypeOK'
    BY <2>3 DEF Fails
  <2>4. ASSUME NEW r \in Request, LateIncr(r) \/ LateExpire(r)
        PROVE  TypeOK'
    BY <2>4 DEF LateIncr, LateExpire
  <2>5. CASE Evict
    BY <2>5 DEF Evict
  <2>6. CASE Tick
    BY <2>6 DEF Tick
  <2>7. CASE UNCHANGED vars
    BY <2>7 DEF vars
  <2>8. QED
    BY <2>1, <2>2, <2>3, <2>4, <2>5, <2>6, <2>7 DEF Next
<1>3. QED
  BY <1>1, <1>2

\* Every variable keeps its type, and a counter that is gone has no TTL.
THEOREM TypeCorrect == Spec => []TypeOK
  BY TypeInductive, PTL DEF Spec

-----------------------------------------------------------------------------
(* The limit. *)

\* Requests counted by the present counter that it is going to let through.
Admissible == {r \in current : ~CountOverMax(mine[r])}

\* Those let through and those to be let through have all been counted.
GrantsCounted ==
  /\ \A r \in current : pc[r] \in {"ttl", "expire"}
  /\ admitted + Cardinality(Admissible) <= Lower(count, Limit)

LEMMA AdmissibleFinite ==
  ASSUME TypeOK
  PROVE  /\ IsFiniteSet(Admissible)
         /\ Cardinality(Admissible) \in Nat
<1>1. Admissible \subseteq Request
  BY DEF TypeOK, Admissible
<1>2. QED
  BY <1>1, RateAssumption, FS_Subset, FS_CardinalityType

\* Taking a request off the counter, let through or not.
LEMMA DecideKeepsGrants ==
  ASSUME TypeOK, GrantsCounted, NEW r \in Request, Decide(r), UNCHANGED count
  PROVE  GrantsCounted'
<1> USE RateAssumption DEF TypeOK, Waiting, Ended
<1>1. \A q \in current' : pc'[q] \in {"ttl", "expire"}
  BY DEF GrantsCounted, Decide, Goto
<1>2. Admissible' = Admissible \ {r}
  BY DEF Admissible, Decide, CountOverMax
<1>3. admitted' + Cardinality(Admissible') = admitted + Cardinality(Admissible)
  <2>1. CASE r \in Admissible
    <3>1. Cardinality(Admissible \ {r}) = Cardinality(Admissible) - 1
      BY <2>1, AdmissibleFinite, FS_RemoveElement
    <3>2. admitted' = admitted + 1
      BY <2>1 DEF Admissible, Decide
    <3>3. QED
      BY <1>2, <3>1, <3>2, AdmissibleFinite
  <2>2. CASE r \notin Admissible
    <3>1. admitted' = admitted
      BY <2>2 DEF Admissible, Decide
    <3>2. Admissible' = Admissible
      BY <1>2, <2>2
    <3>3. QED
      BY <3>1, <3>2
  <2>3. QED
    BY <2>1, <2>2
<1>4. QED
  BY <1>1, <1>3 DEF GrantsCounted

\* INCR counts a request; it is let through only below the limit.
LEMMA IncrKeepsGrants ==
  ASSUME TypeOK, GrantsCounted, NEW r \in Request, IncrReply(r)
  PROVE  GrantsCounted'
<1> USE RateAssumption DEF TypeOK, Waiting, Ended, IncrReply, Goto, Incr
<1>1. r \notin current
  BY DEF GrantsCounted
<1>2. \A q \in current' : pc'[q] \in {"ttl", "expire"}
  BY DEF GrantsCounted
<1>3. CASE count < Limit
  <2>1. count' = count + 1 /\ Lower(count', Limit) = Lower(count, Limit) + 1
    BY <1>3 DEF Lower
  <2>2. Admissible' = Admissible \cup {r}
    BY <1>1, <1>3, <2>1 DEF Admissible, CountOverMax
  <2>3. Cardinality(Admissible') = Cardinality(Admissible) + 1
    <3>1. r \notin Admissible
      BY <1>1 DEF Admissible
    <3>2. QED
      BY <2>2, <3>1, AdmissibleFinite, FS_AddElement
  <2>4. QED
    BY <1>2, <2>1, <2>3, AdmissibleFinite DEF GrantsCounted, Lower
<1>4. CASE count >= Limit
  <2>1. count' = Limit + 1 /\ Lower(count', Limit) = Lower(count, Limit)
    BY <1>4 DEF Lower
  <2>2. Admissible' = Admissible
    BY <1>1, <2>1 DEF Admissible, CountOverMax
  <2>3. QED
    BY <1>2, <2>1, <2>2 DEF GrantsCounted
<1>5. QED
  BY <1>3, <1>4

\* A request that fails was to be let through or not, and is not.
LEMMA FailsKeepsGrants ==
  ASSUME TypeOK, GrantsCounted, NEW r \in Request, Fails(r)
  PROVE  GrantsCounted'
<1> USE RateAssumption DEF TypeOK, Waiting, Ended, Fails, Goto, redisVars
<1>1. \A q \in current' : pc'[q] \in {"ttl", "expire"}
  BY DEF GrantsCounted
<1>2. Admissible' \subseteq Admissible
  BY DEF Admissible, CountOverMax
<1>3. Cardinality(Admissible') <= Cardinality(Admissible) /\ Cardinality(Admissible') \in Nat
  BY <1>2, AdmissibleFinite, FS_Subset, FS_CardinalityType
<1>4. QED
  BY <1>1, <1>3, AdmissibleFinite DEF GrantsCounted, Lower

\* A new counter has let nothing through.
LEMMA DropKeepsGrants ==
  ASSUME Drop
  PROVE  GrantsCounted'
<1>1. Admissible' = {}
  BY DEF Drop, Admissible
<1>2. Cardinality(Admissible') = 0
  BY <1>1, FS_EmptySet
<1>3. QED
  BY <1>2, RateAssumption DEF Drop, GrantsCounted, Lower

LEMMA GrantsInductive ==
  /\ Init => GrantsCounted
  /\ TypeOK /\ GrantsCounted /\ [Next]_vars => GrantsCounted'
<1> USE RateAssumption
<1>1. Init => GrantsCounted
  <2> SUFFICES ASSUME Init
               PROVE  GrantsCounted
    OBVIOUS
  <2>1. Admissible = {}
    BY DEF Init, Admissible
  <2>2. QED
    BY <2>1, FS_EmptySet DEF Init, GrantsCounted, Lower
<1>2. ASSUME TypeOK, GrantsCounted, [Next]_vars
      PROVE  GrantsCounted'
  <2> USE <1>2
  <2>1. ASSUME NEW r \in Request, Answered(r)
        PROVE  GrantsCounted'
    <3>1. CASE TtlReplyTimed(r) \/ ExpireReply(r)
      BY <3>1, DecideKeepsGrants DEF TtlReplyTimed, ExpireReply, Expire, redisVars
    <3>2. CASE TtlReplyUntimed(r)
      BY <3>2 DEF TtlReplyUntimed, Goto, GrantsCounted, Admissible, TypeOK, redisVars, historyVars
    <3>3. QED
      BY <2>1, <3>1, <3>2, IncrKeepsGrants DEF Answered
  <2>2. ASSUME NEW r \in Request, Call(r)
        PROVE  GrantsCounted'
    BY <2>2 DEF Call, Goto, GrantsCounted, Admissible, TypeOK, Ended, redisVars, historyVars
  <2>3. ASSUME NEW r \in Request, LateIncr(r) \/ LateExpire(r)
        PROVE  GrantsCounted'
    <3>1. pc' = pc /\ UNCHANGED historyVars /\ Admissible' = Admissible
      BY <2>3 DEF LateIncr, LateExpire, requestVars, historyVars, Admissible
    <3>2. Lower(count, Limit) <= Lower(count', Limit)
      BY <2>3 DEF LateIncr, LateExpire, Incr, Expire, Lower, TypeOK
    <3>3. Lower(count, Limit) \in Int /\ Lower(count', Limit) \in Int
      BY <2>3 DEF LateIncr, LateExpire, Incr, Expire, Lower, TypeOK
    <3>4. admitted \in Nat
      BY DEF TypeOK
    <3>5. QED
      BY <3>1, <3>2, <3>3, <3>4, AdmissibleFinite DEF GrantsCounted, historyVars
  <2>4. CASE Tick
    <3>1. CASE pttl = 1
      BY <2>4, <3>1, DropKeepsGrants DEF Tick
    <3>2. CASE pttl # 1
      BY <2>4, <3>2 DEF Tick, GrantsCounted, Admissible, historyVars
    <3>3. QED
      BY <3>1, <3>2
  <2>5. CASE UNCHANGED vars
    BY <2>5 DEF vars, GrantsCounted, Admissible, redisVars, requestVars, historyVars
  <2>6. QED
    BY <2>1, <2>2, <2>3, <2>4, <2>5, FailsKeepsGrants, DropKeepsGrants DEF Next, Evict
<1>3. QED
  BY <1>1, <1>2

\* For any number of requests, any limit and any delays, a counter lets through
\* at most getRateLimit() of the requests it counts.
THEOREM LimitHolds == Spec => []AdmittedWithinLimit
<1>1. TypeOK /\ GrantsCounted => AdmittedWithinLimit
  BY AdmissibleFinite, RateAssumption DEF TypeOK, GrantsCounted, AdmittedWithinLimit, Lower
<1>2. QED
  BY <1>1, TypeInductive, GrantsInductive, PTL DEF Spec

-----------------------------------------------------------------------------
(* Counters without a TTL. *)

\* Commands arrive late only after one has failed.
NothingLate == failures = 0 => \A r \in Request : lateLeft[r] = 0

LEMMA UntimedInductive ==
  /\ Init => NothingLate /\ UntimedCounterIsServed
  /\ TypeOK /\ NothingLate /\ UntimedCounterIsServed /\ [Next]_vars
       => (NothingLate /\ UntimedCounterIsServed)'
<1> USE RateAssumption
<1>1. Init => NothingLate /\ UntimedCounterIsServed
  BY DEF Init, NothingLate, UntimedCounterIsServed, Untimed
<1>2. ASSUME TypeOK, NothingLate, UntimedCounterIsServed, [Next]_vars
      PROVE  (NothingLate /\ UntimedCounterIsServed)'
  <2> USE <1>2 DEF TypeOK, NothingLate, UntimedCounterIsServed, Untimed, Goto
  <2>1. ASSUME NEW r \in Request, Answered(r)
        PROVE  (NothingLate /\ UntimedCounterIsServed)'
    <3>1. CASE IncrReply(r)
      BY <3>1 DEF IncrReply, lateVars
    <3>2. CASE TtlReplyTimed(r)
      <4>1. ~ Untimed
        BY <3>2 DEF TtlReplyTimed, TtlReply
      <4>2. QED
        BY <3>2, <4>1 DEF TtlReplyTimed, redisVars, lateVars
    <3>3. CASE TtlReplyUntimed(r)
      BY <3>3 DEF TtlReplyUntimed, redisVars, lateVars
    <3>4. CASE ExpireReply(r)
      BY <3>4, WindowPositive DEF ExpireReply, Expire, lateVars
    <3>5. QED
      BY <2>1, <3>1, <3>2, <3>3, <3>4 DEF Answered
  <2>2. ASSUME NEW r \in Request, Call(r)
        PROVE  (NothingLate /\ UntimedCounterIsServed)'
    BY <2>2 DEF Call, Ended, redisVars, lateVars
  <2>3. ASSUME NEW r \in Request, Fails(r)
        PROVE  (NothingLate /\ UntimedCounterIsServed)'
    BY <2>3 DEF Fails
  <2>4. ASSUME NEW r \in Request, LateIncr(r) \/ LateExpire(r)
        PROVE  (NothingLate /\ UntimedCounterIsServed)'
    BY <2>4 DEF LateIncr, LateExpire
  <2>5. CASE Evict
    BY <2>5 DEF Evict, Drop, lateVars
  <2>6. CASE Tick
    BY <2>6 DEF Tick, Drop
  <2>7. CASE UNCHANGED vars
    BY <2>7 DEF vars, redisVars, requestVars, lateVars
  <2>8. QED
    BY <2>1, <2>2, <2>3, <2>4, <2>5, <2>6, <2>7 DEF Next
<1>3. QED
  BY <1>1, <1>2

\* Without failures a counter without a TTL is about to get one.
THEOREM UntimedServed == Spec => []UntimedCounterIsServed
  BY TypeInductive, UntimedInductive, PTL DEF Spec

-----------------------------------------------------------------------------
(* The window. *)

\* An EXPIRE that finds a TTL finds one that was in its last half second when the
\* request read it, or was set since: `delay` ticks ago at most.
OnTheEdge(delay) == pttl > 0 => 2 * pttl < Second \/ pttl + delay >= Window

ExpiresOnTheEdge ==
  \A r \in Request :
    /\ pc[r] = "expire" => OnTheEdge(wait[r])
    /\ lateLeft[r] > 0 /\ late[r] = "expire" => OnTheEdge(Timeout + MaxLate - lateLeft[r])

LEMMA WindowInductive ==
  /\ Init => ExpiresOnTheEdge
  /\ TypeOK /\ ExpiresOnTheEdge /\ [Next]_vars => ExpiresOnTheEdge'
<1> USE RateAssumption, WindowPositive
<1>1. Init => ExpiresOnTheEdge
  BY DEF Init, ExpiresOnTheEdge
<1>2. ASSUME TypeOK, ExpiresOnTheEdge, [Next]_vars
      PROVE  ExpiresOnTheEdge'
  <2> USE <1>2 DEF TypeOK, ExpiresOnTheEdge, OnTheEdge, Goto
  <2>1. ASSUME NEW r \in Request, Answered(r)
        PROVE  ExpiresOnTheEdge'
    <3>1. CASE IncrReply(r)
      BY <3>1 DEF IncrReply, Incr, lateVars
    <3>2. CASE TtlReplyTimed(r)
      BY <3>2 DEF TtlReplyTimed, Decide, redisVars, lateVars
    <3>3. CASE TtlReplyUntimed(r)
      <4>1. pttl > 0 => 2 * pttl < Second
        BY <3>3, TtlReplyBelowOne DEF TtlReplyUntimed
      <4>2. QED
        BY <3>3, <4>1 DEF TtlReplyUntimed, redisVars, lateVars
    <3>4. CASE ExpireReply(r)
      BY <3>4 DEF ExpireReply, Expire, Decide, lateVars
    <3>5. QED
      BY <2>1, <3>1, <3>2, <3>3, <3>4 DEF Answered
  <2>2. ASSUME NEW r \in Request, Call(r)
        PROVE  ExpiresOnTheEdge'
    BY <2>2 DEF Call, redisVars, lateVars
  <2>3. ASSUME NEW r \in Request, Fails(r)
        PROVE  ExpiresOnTheEdge'
    BY <2>3 DEF Fails, redisVars
  <2>4. ASSUME NEW r \in Request, LateIncr(r) \/ LateExpire(r)
        PROVE  ExpiresOnTheEdge'
    BY <2>4 DEF LateIncr, LateExpire, Incr, Expire, requestVars
  <2>5. CASE Evict
    BY <2>5 DEF Evict, Drop, requestVars, lateVars
  <2>6. CASE Tick
    BY <2>6 DEF Tick, Drop, Waiting
  <2>7. CASE UNCHANGED vars
    BY <2>7 DEF vars, redisVars, requestVars, lateVars
  <2>8. QED
    BY <2>1, <2>2, <2>3, <2>4, <2>5, <2>6, <2>7 DEF Next
<1>3. QED
  BY <1>1, <1>2

LEMMA RenewalOnTheEdge ==
  TypeOK /\ ExpiresOnTheEdge /\ [Next]_vars =>
    (pttl' > pttl /\ pttl > 0 =>
       \/ 2 * pttl < Second
       \/ pttl + Timeout + MaxLate >= Window)
<1> USE RateAssumption, WindowPositive
<1> SUFFICES ASSUME TypeOK, ExpiresOnTheEdge, [Next]_vars, pttl' > pttl, pttl > 0
             PROVE  2 * pttl < Second \/ pttl + Timeout + MaxLate >= Window
  OBVIOUS
<1> USE DEF TypeOK
<1>1. \E r \in Request : ExpireReply(r) \/ LateExpire(r)
  BY DEF Next, Answered, Call, IncrReply, TtlReplyTimed, TtlReplyUntimed, Fails, LateIncr, Evict,
         Tick, Incr, Drop, vars, redisVars
<1>2. ASSUME NEW r \in Request, ExpireReply(r)
      PROVE  2 * pttl < Second \/ pttl + Timeout + MaxLate >= Window
  BY <1>2 DEF ExpireReply, ExpiresOnTheEdge, OnTheEdge
<1>3. ASSUME NEW r \in Request, LateExpire(r)
      PROVE  2 * pttl < Second \/ pttl + Timeout + MaxLate >= Window
  BY <1>3 DEF LateExpire, ExpiresOnTheEdge, OnTheEdge
<1>4. QED
  BY <1>1, <1>2, <1>3

\* For every period, resolution and delay, the TTL of a counter is only renewed
\* at the edges of its window.
THEOREM WindowKept == Spec => WindowNotExtended
  BY TypeInductive, WindowInductive, RenewalOnTheEdge, PTL DEF Spec, WindowNotExtended

-----------------------------------------------------------------------------
(* Decisions, and counters that are left without a TTL.                      *)

LEMMA DecisionTimed ==
  TypeOK /\ [Next]_vars =>
    \A r \in Request :
      pc[r] \in Waiting /\ pc'[r] \in {"passed", "limited"} => ~Untimed'
<1> SUFFICES ASSUME TypeOK, [Next]_vars, NEW r \in Request,
                    pc[r] \in Waiting, pc'[r] \in {"passed", "limited"}
             PROVE  ~Untimed'
  OBVIOUS
<1> USE DEF TypeOK, Waiting, Goto
<1>1. TtlReplyTimed(r) \/ ExpireReply(r)
  <2>1. ASSUME NEW q \in Request, Call(q) \/ IncrReply(q) \/ TtlReplyUntimed(q) \/ Fails(q)
        PROVE  FALSE
    BY <2>1 DEF Call, IncrReply, TtlReplyUntimed, Fails
  <2>2. ASSUME NEW q \in Request, TtlReplyTimed(q) \/ ExpireReply(q)
        PROVE  q = r
    BY <2>2 DEF TtlReplyTimed, ExpireReply, Decide
  <2>3. QED
    BY <2>1, <2>2 DEF Next, Answered, LateIncr, LateExpire, Evict, Tick, requestVars, vars
<1>2. CASE TtlReplyTimed(r)
  BY <1>2 DEF TtlReplyTimed, TtlReply, Untimed, redisVars
<1>3. CASE ExpireReply(r)
  BY <1>3, WindowPositive DEF ExpireReply, Expire, Untimed
<1>4. QED
  BY <1>1, <1>2, <1>3

\* No request is let through or turned away by a counter without a TTL, for any
\* evictions, delays and failures between its commands.
THEOREM DecisionsTimed == Spec => DecidedIsTimed
  BY TypeInductive, DecisionTimed, PTL DEF Spec, DecidedIsTimed

\* The counter has no TTL, n commands have failed, none of r is late, and r is at
\* one of some places.
Stands(r, n, places) == Untimed /\ failures = n /\ lateLeft[r] = 0 /\ pc[r] \in places

Settled(n) == ~Untimed \/ failures > n

\* r goes through its commands, unless the counter gets a TTL or is lost before.
LEMMA WhereNext ==
  ASSUME TypeOK, [Next]_vars, NEW r \in Request, NEW n \in Nat
  PROVE  /\ Stands(r, n, Ended) =>
              Stands(r, n, Ended)' \/ Stands(r, n, {"incr"})' \/ Settled(n)'
         /\ Stands(r, n, {"incr"}) =>
              Stands(r, n, {"incr"})' \/ Stands(r, n, {"ttl"})' \/ Settled(n)'
         /\ Stands(r, n, {"ttl"}) =>
              Stands(r, n, {"ttl"})' \/ Stands(r, n, {"expire"})' \/ Settled(n)'
         /\ Stands(r, n, {"expire"}) => Stands(r, n, {"expire"})' \/ Settled(n)'
<1> USE DEF Stands, Settled
<1>1. /\ pc \in [Request -> Waiting \cup Ended] /\ lateLeft \in [Request -> 0 .. MaxLate]
      /\ failures \in Nat
  BY RateAssumption DEF TypeOK
<1>2. ASSUME NEW q \in Request, Fails(q)
      PROVE  failures' = failures + 1
  BY <1>2 DEF Fails
<1>3. CASE \E q \in Request : Fails(q)
  BY <1>1, <1>2, <1>3
<1>4. ASSUME NEW q \in Request \ {r}, Call(q) \/ Answered(q)
      PROVE  pc'[r] = pc[r] /\ UNCHANGED <<lateLeft, failures>>
  BY <1>1, <1>4 DEF Call, Answered, IncrReply, TtlReplyTimed, TtlReplyUntimed, ExpireReply, Decide,
     Goto, lateVars
<1>5. CASE Call(r)
  BY <1>1, <1>5 DEF Call, Goto, lateVars, Ended
<1>6. CASE Answered(r)
  <2>1. CASE IncrReply(r)
    BY <1>1, <2>1 DEF IncrReply, Goto, lateVars, Ended
  <2>2. CASE TtlReplyTimed(r)
    BY <2>2, DecisionTimed DEF TtlReplyTimed, TtlReply, Untimed, Ended
  <2>3. CASE TtlReplyUntimed(r)
    BY <1>1, <2>3 DEF TtlReplyUntimed, Goto, lateVars, Ended
  <2>4. CASE ExpireReply(r)
    BY <2>4, WindowPositive DEF ExpireReply, Expire, Untimed
  <2>5. QED
    BY <1>6, <2>1, <2>2, <2>3, <2>4 DEF Answered
<1>7. CASE \E q \in Request : LateIncr(q) \/ LateExpire(q)
  BY <1>1, <1>7 DEF LateIncr, LateExpire, requestVars
<1>8. CASE Evict
  BY <1>1, <1>8 DEF Evict, requestVars, lateVars
<1>9. CASE Tick
  BY <1>1, <1>9 DEF Tick
<1>10. CASE UNCHANGED vars
  BY <1>1, <1>10 DEF vars, requestVars, lateVars, redisVars, Untimed
<1>11. QED
  BY <1>1, <1>3, <1>4, <1>5, <1>6, <1>7, <1>8, <1>9, <1>10 DEF Next

LEMMA WaitEnds ==
  ASSUME TypeOK, NEW r \in Request, NEW n \in Nat
  PROVE  /\ Call(r) => ~Stands(r, n, Ended)'
         /\ Answered(r) /\ Stands(r, n, {"incr"}) => ~Stands(r, n, {"incr"})'
         /\ Answered(r) /\ Stands(r, n, {"ttl"}) => ~Stands(r, n, {"ttl"})'
         /\ Answered(r) /\ Stands(r, n, {"expire"}) => ~Stands(r, n, {"expire"})'
<1>1. pc \in [Request -> Waiting \cup Ended]
  BY DEF TypeOK
<1>2. Call(r) => pc'[r] \notin Ended
  BY <1>1 DEF Call, Goto, Ended
<1>3. Answered(r) => pc'[r] # pc[r]
  BY <1>1 DEF Answered, IncrReply, TtlReplyTimed, TtlReplyUntimed, ExpireReply, Decide, Goto
<1>4. QED
  BY <1>2, <1>3 DEF Stands

\* Any request is enough to give a counter its TTL if no more commands fail, for
\* any number of others and any evictions and delays: when what it waits for can end.
THEOREM AnyRequestIsEnough == FairSpec /\ []WaitsCanEnd => AnyRequestTimes
<1>1. ASSUME NEW r \in Request, NEW n \in Nat
      PROVE  FairSpec /\ []WaitsCanEnd =>
               (Untimed /\ failures = n /\ lateLeft[r] = 0 ~> ~Untimed \/ failures > n)
  <2>1. TypeOK /\ Untimed /\ failures = n /\ lateLeft[r] = 0 =>
          \/ Stands(r, n, Ended) \/ Stands(r, n, {"incr"})
          \/ Stands(r, n, {"ttl"}) \/ Stands(r, n, {"expire"})
    BY DEF TypeOK, Stands, Waiting
  <2>2. TypeOK /\ [Next]_vars =>
          /\ Stands(r, n, Ended) =>
               Stands(r, n, Ended)' \/ Stands(r, n, {"incr"})' \/ Settled(n)'
          /\ Stands(r, n, {"incr"}) =>
               Stands(r, n, {"incr"})' \/ Stands(r, n, {"ttl"})' \/ Settled(n)'
          /\ Stands(r, n, {"ttl"}) =>
               Stands(r, n, {"ttl"})' \/ Stands(r, n, {"expire"})' \/ Settled(n)'
          /\ Stands(r, n, {"expire"}) => Stands(r, n, {"expire"})' \/ Settled(n)'
    BY WhereNext
  <2>3. TypeOK =>
          /\ <<Call(r)>>_vars => (Stands(r, n, Ended) => ~Stands(r, n, Ended)')
          /\ <<Answered(r)>>_vars =>
               /\ Stands(r, n, {"incr"}) => ~Stands(r, n, {"incr"})'
               /\ Stands(r, n, {"ttl"}) => ~Stands(r, n, {"ttl"})'
               /\ Stands(r, n, {"expire"}) => ~Stands(r, n, {"expire"})'
    BY WaitEnds
  <2>4. WaitsCanEnd =>
          /\ Stands(r, n, Ended) => ENABLED <<Call(r)>>_vars
          /\ Stands(r, n, {"incr"}) \/ Stands(r, n, {"ttl"}) \/ Stands(r, n, {"expire"})
               => ENABLED <<Answered(r)>>_vars
    BY DEF WaitsCanEnd, Stands, Waiting
  <2>5. FairRequests => FairFor(r)
    BY DEF FairRequests
  <2>6. Settled(n) => ~Untimed \/ failures > n
    BY DEF Settled
  <2>7. QED
    BY <2>1, <2>2, <2>3, <2>4, <2>5, <2>6, TypeCorrect, PTL DEF FairSpec, Fairness, FairFor, Spec
<1>2. QED
  BY <1>1 DEF AnyRequestTimes
=============================================================================
