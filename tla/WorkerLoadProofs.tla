-------------------------- MODULE WorkerLoadProofs --------------------------
(* Theorems about WorkerLoad, for every value of its constants, and that the *)
(* life of a Worker is one of them.                                          *)
EXTENDS Worker, FiniteSetTheorems, SequenceTheorems, TLAPS

-----------------------------------------------------------------------------
(* The inductive invariant. *)

\* What the variables are, but for the bounds that depend on the rest.
Types ==
  /\ res \in [Request -> {"none", "open", "finished", "closed"}]
  /\ done \in [Request -> BOOLEAN]
  /\ inflight \in Int
  /\ overloadedSince \in Int
  /\ sinceBeat \in 0 .. LongestBeat
  /\ mode \in {"starting", "up", "draining", "exited"}
  /\ sinceCalm \in Nat

\* A response is open until its first event, and counted until then.
Counted ==
  /\ \A r \in Request : done[r] <=> res[r] # "open"
  /\ InflightExact

\* Between beats: the last one was calm, or the overload was noticed within a
\* beat of the last calm one and the last beat found it within the grace time.
Watched ==
  /\ overloadedSince \in NotOverloaded .. Grace + LongestBeat
  /\ mode = "starting" => overloadedSince = NotOverloaded
  /\ mode \in {"starting", "up"} =>
       IF overloadedSince = NotOverloaded
         THEN sinceCalm = sinceBeat
         ELSE /\ overloadedSince < Grace + sinceBeat
              /\ overloadedSince <= sinceCalm
              /\ sinceCalm <= overloadedSince + LongestBeat

IInv == Types /\ Counted /\ Watched

-----------------------------------------------------------------------------

LEMMA OpenFinite ==
  ASSUME Types
  PROVE  /\ IsFiniteSet(Open)
         /\ Cardinality(Open) \in 0 .. Cardinality(Request)
<1>1. Open \subseteq Request
  BY DEF Open
<1>2. Cardinality(Open) \in Nat /\ Cardinality(Request) \in Nat /\ IsFiniteSet(Open)
  BY <1>1, LoadAssumption, FS_Subset, FS_CardinalityType
<1>3. Cardinality(Open) <= Cardinality(Request)
  BY <1>1, LoadAssumption, FS_Subset
<1>4. QED
  BY <1>2, <1>3

\* A response is counted when it opens.
LEMMA RequestKeepsCount ==
  ASSUME Types, Counted, NEW r \in Request, RequestEvent(r)
  PROVE  Types' /\ Counted'
<1> USE DEF Types, Counted, RequestEvent, beatVars
<1>0. Types'
  OBVIOUS
<1>1. Types' /\ \A q \in Request : done'[q] <=> res'[q] # "open"
  <2>1. \A q \in Request : q # r => done'[q] = done[q] /\ res'[q] = res[q]
    OBVIOUS
  <2>2. done'[r] = FALSE /\ res'[r] = "open"
    OBVIOUS
  <2>3. QED
    BY <1>0, <2>1, <2>2
<1>2. Open' = Open \cup {r} /\ r \notin Open
  BY DEF Open
<1>3. Cardinality(Open') = Cardinality(Open) + 1
  BY <1>2, OpenFinite, FS_AddElement
<1>4. QED
  BY <1>1, <1>3 DEF InflightExact

\* It is no longer counted after its first event, and the second changes nothing.
LEMMA ResponseKeepsCount ==
  ASSUME Types, Counted, NEW r \in Request, FinishEvent(r) \/ CloseEvent(r)
  PROVE  Types' /\ Counted'
<1> USE DEF Types, Counted, FinishEvent, CloseEvent, Finish, beatVars
<1>0. Types'
  <2>1. res' \in [Request -> {"none", "open", "finished", "closed"}]
    OBVIOUS
  <2>2. done' \in [Request -> BOOLEAN]
    OBVIOUS
  <2>3. inflight' \in Int
    OBVIOUS
  <2>4. QED
    BY <2>1, <2>2, <2>3
<1>1. Types' /\ \A q \in Request : done'[q] <=> res'[q] # "open"
  <2>1. \A q \in Request : q # r => done'[q] = done[q] /\ res'[q] = res[q]
    OBVIOUS
  <2>2. done'[r] = TRUE /\ res'[r] # "open"
    OBVIOUS
  <2>3. QED
    BY <1>0, <2>1, <2>2
<1>2. CASE res[r] = "open"
  <2>1. Open' = Open \ {r} /\ r \in Open
    BY <1>2 DEF Open
  <2>2. Cardinality(Open') = Cardinality(Open) - 1
    BY <2>1, OpenFinite, FS_RemoveElement
  <2>3. inflight' = inflight - 1
    BY <1>2
  <2>4. QED
    BY <1>1, <2>2, <2>3 DEF InflightExact
<1>3. CASE res[r] # "open"
  <2>1. Open' = Open
    BY <1>3 DEF Open
  <2>2. inflight' = inflight
    BY <1>3
  <2>3. QED
    BY <1>1, <2>1, <2>2 DEF InflightExact
<1>4. QED
  BY <1>2, <1>3

LEMMA Inductive ==
  /\ Init => IInv
  /\ IInv /\ [Next]_vars => IInv'
<1> USE LoadAssumption DEF NotOverloaded, LongestBeat
<1>1. Init => IInv
  <2> SUFFICES ASSUME Init
               PROVE  IInv
    OBVIOUS
  <2>1. Open = {}
    BY DEF Init, Open
  <2>2. InflightExact
    BY <2>1, FS_EmptySet DEF Init, InflightExact
  <2>3. QED
    BY <2>2 DEF Init, IInv, Types, Counted, Watched
<1>2. ASSUME IInv, [Next]_vars
      PROVE  IInv'
  <2> USE <1>2 DEF IInv
  <2>1. ASSUME NEW r \in Request, RequestEvent(r) \/ FinishEvent(r) \/ CloseEvent(r)
        PROVE  IInv'
    <3>1. Types' /\ Counted'
      BY <2>1, RequestKeepsCount, ResponseKeepsCount
    <3>2. UNCHANGED <<overloadedSince, sinceBeat, sinceCalm, mode>>
      BY <2>1 DEF RequestEvent, FinishEvent, CloseEvent, beatVars
    <3>3. QED
      BY <3>1, <3>2 DEF Watched
  <2>2. CASE Start \/ StartEnds \/ BeatOverloaded \/ BeatCalm \/ ShutdownWorker \/ Tick
    <3>1. UNCHANGED requestVars
      BY <2>2 DEF Start, StartEnds, BeatOverloaded, BeatCalm, ShutdownWorker, Tick
    <3>2. Counted'
      BY <3>1 DEF requestVars, Counted, InflightExact, Open
    <3>3. Types' /\ Watched'
      <4> USE <3>1 DEF requestVars, Types, Watched
      <4>1. CASE BeatOverloaded
        BY <4>1 DEF BeatOverloaded, BeatDue, Noticed
      <4>2. CASE BeatCalm
        BY <4>2 DEF BeatCalm, BeatDue
      <4>3. CASE ShutdownWorker
        BY <4>3 DEF ShutdownWorker
      <4>4. CASE Tick
        BY <4>4 DEF Tick
      <4>5. CASE Start \/ StartEnds
        BY <4>5 DEF Start, StartEnds, beatVars
      <4>6. QED
        BY <2>2, <4>1, <4>2, <4>3, <4>4, <4>5
    <3>4. QED
      BY <3>2, <3>3
  <2>3. CASE UNCHANGED vars
    BY <2>3 DEF vars, requestVars, beatVars, Types, Counted, Watched, InflightExact, Open
  <2>4. QED
    BY <2>1, <2>2, <2>3 DEF Next
<1>3. QED
  BY <1>1, <1>2

-----------------------------------------------------------------------------
(* The theorems. *)

LEMMA Invariant == Spec => []IInv
  BY Inductive, PTL DEF Spec

\* Every variable keeps its type: inflight is never negative nor above the
\* number of requests, and an overload never lasts unnoticed.
THEOREM TypeCorrect == Spec => []TypeOK
<1>1. IInv => TypeOK
  BY LoadAssumption, OpenFinite
     DEF IInv, Types, Counted, Watched, InflightExact, TypeOK, LongestOverload, LongestBeat, NotOverloaded
<1>2. QED
  BY <1>1, Invariant, PTL

\* inflight is the number of open responses, for any number of requests and any
\* order of their events.
THEOREM InflightCounts == Spec => []InflightExact
<1>1. IInv => InflightExact
  BY DEF IInv, Counted
<1>2. QED
  BY <1>1, Invariant, PTL

\* A worker that leaves was overloaded at every beat of the grace time.
THEOREM GraceIsKept == Spec => GraceKept
<1>1. IInv /\ [Next]_vars => (mode = "up" /\ mode' = "exited" => sinceCalm >= Grace)
  <2> SUFFICES ASSUME IInv, [Next]_vars, mode = "up", mode' = "exited"
               PROVE  sinceCalm >= Grace
    OBVIOUS
  <2>1. BeatOverloaded
    BY DEF Next, Start, StartEnds, RequestEvent, FinishEvent, CloseEvent, BeatCalm, ShutdownWorker,
           Tick, vars
  <2>2. QED
    BY <2>1, LoadAssumption DEF BeatOverloaded, Noticed, IInv, Types, Watched, NotOverloaded
<1>2. QED
  BY <1>1, Invariant, PTL DEF Spec, GraceKept

\* Whatever the grace time and the lag, a worker does not stay overloaded longer
\* than the grace time and two beats.
THEOREM OverloadIsBounded == Spec => []OverloadEnds
<1>1. IInv => OverloadEnds
  BY LoadAssumption DEF IInv, Types, Watched, OverloadEnds, LongestOverload, LongestBeat, NotOverloaded
<1>2. QED
  BY <1>1, Invariant, PTL

-----------------------------------------------------------------------------
(* The process as a whole. *)

\* What is proved of WorkerLoad holds of a worker that first constructs its services.
THEOREM WorkerIsLoad == WorkerSpec => Spec
<1>1. WorkerInit => Init
  BY DEF WorkerInit
<1>2. [WorkerNext]_workerVars => [Next]_vars
  BY DEF WorkerNext, StartsServers, EndsEarly, Serves, Next, workerVars
<1>3. QED
  BY <1>1, <1>2, PTL DEF WorkerSpec, Spec

-----------------------------------------------------------------------------
(* The services are ready. *)

\* A call of getBinding.
CallRecord ==
  [of : Service, by : Nat, got : Seq(Nat), stage : {"arguments", "constructing", "returned"}]

Distinct(q) == \A i, j \in 1 .. Len(q) : q[i] = q[j] => i = j
In(q, c) == \E i \in 1 .. Len(q) : q[i] = c

StartTypes ==
  /\ calls \in Seq(CallRecord)
  /\ running \in 0 .. Len(calls)
  /\ ready \in Seq(Nat)
  /\ bound \in [Service -> Nat]
  /\ boot \in {"running", "done", "failed"}

\* A call is in one place: running, in the queue, waiting for its RPC, or for a
\* call it has made.
OnePlace ==
  /\ Distinct(ready)
  /\ \A c : In(ready, c) => c \in 1 .. Len(calls) /\ c # running
  /\ \A c \in rpc : /\ c \in 1 .. Len(calls) /\ c # running /\ ~In(ready, c)
                    /\ calls[c].stage = "constructing"
  /\ running # Nobody => calls[running].stage = "arguments"

Unreturned(c) == calls[c].stage # "returned"

\* Who has made a call that has not returned waits for that one only.
Awaited ==
  /\ \A c \in 1 .. Len(calls) : calls[c].by < c
  /\ \A c \in 1 .. Len(calls) : Unreturned(c) /\ calls[c].by # Nobody =>
       /\ calls[calls[c].by].stage = "arguments"
       /\ calls[c].by # running
       /\ ~In(ready, calls[c].by)
  /\ \A c, d \in 1 .. Len(calls) :
       Unreturned(c) /\ Unreturned(d) /\ calls[c].by = calls[d].by /\ calls[c].by # Nobody => c = d

\* The start is over for good, and everything has returned.
Over ==
  /\ rooted \in Nat
  /\ boot # "running" => running = Nobody /\ rooted = Len(Roots)
  /\ boot = "done" => rpc = {} /\ \A c \in 1 .. Len(calls) : ~Unreturned(c)

\* The factory has made one cache, for everybody.
OneMemory ==
  \/ memory = << >> /\ uses = << >>
  \/ /\ Len(memory) = 1 /\ memory \in Seq([factory : {Nobody}, cache : Nat])
     /\ uses \in Seq(Nat)
     /\ \A i \in 1 .. Len(uses) : uses[i] = memory[1].cache

StartInv == StartTypes /\ OnePlace /\ Awaited /\ Over /\ OneMemory

\* Nothing is served before.
Unserved == boot # "done" => mode \in {"starting", "exited"} /\ Open = {}

\* A non-empty set of naturals has a least element.
LEMMA LeastNatural ==
  ASSUME NEW T, T \subseteq Nat, T # {}
  PROVE  \E m \in T : \A y \in T : m <= y
<1> DEFINE Less == {p \in Nat \X Nat : p[1] < p[2]}
<1>1. IsWellFoundedOn(Less, Nat)
  BY NatLessThanWellFounded DEF OpToRel
<1>2. PICK m \in T : \A y \in T : ~ (<<y, m>> \in Less)
  BY <1>1, WFMin
<1>3. \A y \in T : ~ (y < m)
  BY <1>2
<1>4. QED
  BY <1>3

\* Every argument is a service.
LEMMA NeedsAreServices == \A s \in Service : Needs[s] \in Seq(Service)
<1>1. Service =
        {"configuration", "logger", "namedMemoryCacheFactory", "redisClient", "cacheService",
         "hostnameSubstitution", "domainQuerySuperagent", "domainQuery", "kuboApi", "web3NameSdk",
         "ensService", "basenamesService", "domainRateLimit", "arweaveResolver",
         "nameServiceFactory", "ensResolver", "dnsQuery", "dataUrlResolverService"}
  BY DEF Service, Needs
<1>2. /\ Needs["configuration"] \in Seq(Service)
      /\ Needs["logger"] \in Seq(Service)
      /\ Needs["namedMemoryCacheFactory"] \in Seq(Service)
      /\ Needs["redisClient"] \in Seq(Service)
      /\ Needs["cacheService"] \in Seq(Service)
      /\ Needs["hostnameSubstitution"] \in Seq(Service)
      /\ Needs["domainQuerySuperagent"] \in Seq(Service)
      /\ Needs["domainQuery"] \in Seq(Service)
      /\ Needs["kuboApi"] \in Seq(Service)
  BY <1>1 DEF Needs
<1>3. /\ Needs["web3NameSdk"] \in Seq(Service)
      /\ Needs["ensService"] \in Seq(Service)
      /\ Needs["basenamesService"] \in Seq(Service)
      /\ Needs["domainRateLimit"] \in Seq(Service)
      /\ Needs["arweaveResolver"] \in Seq(Service)
      /\ Needs["nameServiceFactory"] \in Seq(Service)
      /\ Needs["ensResolver"] \in Seq(Service)
      /\ Needs["dnsQuery"] \in Seq(Service)
      /\ Needs["dataUrlResolverService"] \in Seq(Service)
  BY <1>1 DEF Needs
<1>4. QED
  BY <1>1, <1>2, <1>3

LEMMA NeedIsService ==
  ASSUME StartTypes, running # Nobody, Missing(running)
  PROVE  Wanted(running) \in Service
<1>1. calls[running] \in CallRecord
  BY DEF StartTypes, Nobody
<1>2. /\ Needs[calls[running].of] \in Seq(Service)
      /\ Len(calls[running].got) + 1 \in 1 .. Len(Needs[calls[running].of])
  BY <1>1, NeedsAreServices DEF CallRecord, Missing
<1>3. QED
  BY <1>2, ElementOfSeq DEF Wanted

\* The queue after a call was put into it.
LEMMA Queued ==
  ASSUME NEW q \in Seq(Nat), NEW c \in Nat, Distinct(q), ~In(q, c)
  PROVE  /\ Append(q, c) \in Seq(Nat) /\ Distinct(Append(q, c))
         /\ \A d : In(Append(q, c), d) <=> In(q, d) \/ d = c
<1>1. /\ Append(q, c) \in Seq(Nat) /\ Len(Append(q, c)) = Len(q) + 1 /\ Len(q) \in Nat
      /\ \A i \in 1 .. Len(q) : Append(q, c)[i] = q[i]
      /\ Append(q, c)[Len(q) + 1] = c
  BY AppendProperties
<1>2. \A i \in 1 .. Len(q) + 1 : i \in 1 .. Len(q) \/ i = Len(q) + 1
  BY <1>1
<1>3. Distinct(Append(q, c))
  BY <1>1, <1>2 DEF Distinct, In
<1>4. ASSUME NEW d
      PROVE  In(Append(q, c), d) <=> In(q, d) \/ d = c
  BY <1>1, <1>2 DEF In
<1>5. QED
  BY <1>1, <1>3, <1>4

\* The queue after its first call was taken out of it.
LEMMA Dequeued ==
  ASSUME NEW q \in Seq(Nat), q # << >>, Distinct(q)
  PROVE  /\ Head(q) \in Nat /\ In(q, Head(q))
         /\ Tail(q) \in Seq(Nat) /\ Distinct(Tail(q))
         /\ \A d : In(Tail(q), d) => In(q, d) /\ d # Head(q)
<1>1. /\ Tail(q) \in Seq(Nat) /\ Len(Tail(q)) = Len(q) - 1 /\ Len(q) \in Nat \ {0}
      /\ \A i \in 1 .. Len(Tail(q)) : Tail(q)[i] = q[i + 1]
  BY HeadTailProperties, EmptySeq
<1>2. Head(q) = q[1] /\ 1 \in 1 .. Len(q) /\ q[1] \in Nat
  BY <1>1
<1>3. \A i \in 1 .. Len(Tail(q)) : i + 1 \in 1 .. Len(q)
  BY <1>1
<1>4. Distinct(Tail(q))
  BY <1>1, <1>3 DEF Distinct
<1>5. ASSUME NEW d, In(Tail(q), d)
      PROVE  In(q, d) /\ d # Head(q)
  BY <1>1, <1>2, <1>3, <1>5 DEF Distinct, In
<1>6. QED
  BY <1>1, <1>2, <1>4, <1>5 DEF In

\* Begin adds a call; the others keep.
LEMMA Begun ==
  ASSUME StartTypes, NEW s \in Service, NEW caller \in Nat, Begin(s, caller)
  PROVE  /\ calls' \in Seq(CallRecord) /\ Len(calls') = Len(calls) + 1 /\ Len(calls) \in Nat
         /\ running' = Len(calls) + 1
         /\ \A c \in 1 .. Len(calls) : calls'[c] = calls[c]
         /\ calls'[Len(calls) + 1].by = caller
         /\ calls'[Len(calls) + 1].stage = "arguments"
<1> DEFINE new == [of |-> s, by |-> caller, got |-> << >>, stage |-> "arguments"]
<1>1. new \in CallRecord /\ new.by = caller /\ new.stage = "arguments"
  BY DEF CallRecord
<1>2. calls' = Append(calls, new) /\ calls \in Seq(CallRecord) /\ running' = Len(calls) + 1
  BY DEF Begin, StartTypes
<1> HIDE DEF new
<1>3. QED
  BY <1>1, <1>2, AppendProperties, LenProperties

\* Handing a service to a call changes neither its stage nor its caller.
LEMMA Handed ==
  ASSUME NEW table \in Seq(CallRecord), NEW c \in 1 .. Len(table), NEW instance \in Nat
  PROVE  /\ Hand(table, c, instance) \in Seq(CallRecord)
         /\ Len(Hand(table, c, instance)) = Len(table)
         /\ \A d \in 1 .. Len(table) : /\ Hand(table, c, instance)[d].by = table[d].by
                                       /\ Hand(table, c, instance)[d].stage = table[d].stage
<1> DEFINE record == [table[c] EXCEPT !.got = Append(@, instance)]
           handed == Hand(table, c, instance)
<1>1. table[c] \in CallRecord /\ table \in [1 .. Len(table) -> CallRecord] /\ Len(table) \in Nat
  BY LenProperties
<1>2. record \in CallRecord /\ record.by = table[c].by /\ record.stage = table[c].stage
  <2>1. Append(table[c].got, instance) \in Seq(Nat)
    BY <1>1, AppendProperties DEF CallRecord
  <2>2. QED
    BY <1>1, <2>1 DEF CallRecord
<1>3. handed = [table EXCEPT ![c] = record]
  BY DEF Hand
<1> HIDE DEF record
<1>4. handed \in Seq(CallRecord) /\ Len(handed) = Len(table)
  BY <1>2, <1>3, ExceptSeq
<1>5. ASSUME NEW d \in 1 .. Len(table)
      PROVE  handed[d].by = table[d].by /\ handed[d].stage = table[d].stage
  BY <1>1, <1>2, <1>3
<1>6. QED
  BY <1>4, <1>5

\* A call gets to its next stage.
Move(table, c, stage) == [table EXCEPT ![c].stage = stage]

LEMMA Staged ==
  ASSUME NEW table \in Seq(CallRecord), NEW c \in 1 .. Len(table),
         NEW stage \in {"constructing", "returned"}
  PROVE  /\ Move(table, c, stage) \in Seq(CallRecord)
         /\ Len(Move(table, c, stage)) = Len(table)
         /\ \A d \in 1 .. Len(table) :
              /\ Move(table, c, stage)[d].by = table[d].by
              /\ Move(table, c, stage)[d].stage = IF d = c THEN stage ELSE table[d].stage
<1> DEFINE record == [table[c] EXCEPT !.stage = stage]
           next == Move(table, c, stage)
<1>1. table[c] \in CallRecord /\ table \in [1 .. Len(table) -> CallRecord] /\ Len(table) \in Nat
  BY LenProperties
<1>2. record \in CallRecord /\ record.by = table[c].by /\ record.stage = stage
  BY <1>1 DEF CallRecord
<1>3. next = [table EXCEPT ![c] = record]
  BY DEF Move
<1> HIDE DEF record
<1>4. next \in Seq(CallRecord) /\ Len(next) = Len(table)
  BY <1>2, <1>3, ExceptSeq
<1>5. ASSUME NEW d \in 1 .. Len(table)
      PROVE  next[d].by = table[d].by /\ next[d].stage = IF d = c THEN stage ELSE table[d].stage
  BY <1>1, <1>2, <1>3
<1>6. QED
  BY <1>4, <1>5

-----------------------------------------------------------------------------
(* The start-up keeps it so. *)

LEMMA StartBegins ==
  StartupInit => StartInv
<1> SUFFICES ASSUME StartupInit
             PROVE  StartInv
  OBVIOUS
<1>1. Len(calls) = 0 /\ Len(ready) = 0 /\ calls \in Seq(CallRecord) /\ ready \in Seq(Nat)
  BY EmptySeq DEF StartupInit
<1>2. QED
  BY <1>1 DEF StartupInit, StartInv, StartTypes, OnePlace, Awaited, Over, OneMemory, Distinct, In, Nobody

\* Whoever waits for a call has made it before.
LEMMA CallersKeep ==
  ASSUME StartInv, NEW c \in 1 .. Len(calls), calls[c].by # Nobody
  PROVE  calls[c].by \in 1 .. Len(calls)
<1>1. Len(calls) \in Nat /\ calls[c] \in CallRecord
  BY ElementOfSeq, LenProperties DEF StartInv, StartTypes
<1>2. calls[c].by \in Nat
  BY <1>1 DEF CallRecord
<1>3. QED
  BY <1>1, <1>2 DEF StartInv, Awaited, Nobody

\* Callers stay, and whom a call is waited for by is left alone.
LEMMA AwaitedKeeps ==
  ASSUME StartInv, Len(calls') = Len(calls),
         \A c \in 1 .. Len(calls) :
           calls'[c].by = calls[c].by /\ (Unreturned(c)' => Unreturned(c)),
         \A c, p \in 1 .. Len(calls) : Unreturned(c)' /\ calls[c].by = p =>
           calls'[p].stage = "arguments" /\ p # running' /\ ~In(ready', p)
  PROVE  Awaited'
<1>1. \A c \in 1 .. Len(calls) : calls[c].by # Nobody => calls[c].by \in 1 .. Len(calls)
  BY CallersKeep
<1>2. QED
  BY <1>1 DEF StartInv, Awaited

\* A new call runs; who made it waits, and is nowhere else.
LEMMA BeginKeeps ==
  ASSUME StartInv, boot = "running", NEW s \in Service, Begin(s, running), rooted' \in Nat,
         UNCHANGED <<ready, bound, rpc, memory, uses, boot>>
  PROVE  StartInv'
<1> DEFINE n == Len(calls) + 1
<1> USE DEF StartInv, Nobody
<1>1. /\ calls' \in Seq(CallRecord) /\ Len(calls') = n /\ Len(calls) \in Nat
      /\ running' = n
      /\ \A c \in 1 .. Len(calls) : calls'[c] = calls[c]
      /\ calls'[n].by = running /\ calls'[n].stage = "arguments"
  BY Begun DEF StartTypes
<1>2. /\ running \in 0 .. Len(calls)
      /\ \A c \in 1 .. n : c \in 1 .. Len(calls) \/ c = n
      /\ \A c \in 1 .. Len(calls) : calls[c].by # Nobody => calls[c].by \in 1 .. Len(calls)
  BY <1>1, CallersKeep DEF StartTypes
<1>3. StartTypes'
  BY <1>1 DEF StartTypes
<1>4. OnePlace'
  BY <1>1, <1>2 DEF OnePlace
<1>5. Awaited'
  <2>1. \A c \in 1 .. n : calls'[c].by < c
    BY <1>1, <1>2 DEF Awaited
  <2>2. ASSUME NEW c \in 1 .. n, Unreturned(c)', calls'[c].by # Nobody
        PROVE  /\ calls'[calls'[c].by].stage = "arguments"
               /\ calls'[c].by # n
               /\ ~In(ready, calls'[c].by)
    <3>1. CASE c = n
      BY <1>1, <1>2, <2>2, <3>1 DEF OnePlace
    <3>2. CASE c \in 1 .. Len(calls)
      <4>1. calls[c].by \in 1 .. Len(calls) /\ Unreturned(c) /\ calls'[c].by = calls[c].by
        BY <1>1, <1>2, <2>2, <3>2 DEF Awaited, Unreturned
      <4>2. QED
        BY <1>1, <3>2, <4>1 DEF Awaited
    <3>3. QED
      BY <1>2, <3>1, <3>2
  <2>3. \A c \in 1 .. Len(calls) : Unreturned(c)' => Unreturned(c) /\ calls'[c].by = calls[c].by
    BY <1>1 DEF Unreturned
  <2>4. \A c \in 1 .. Len(calls) : Unreturned(c) /\ calls[c].by # Nobody => calls[c].by # running
    BY DEF Awaited
  <2>5. QED
    BY <1>1, <1>2, <2>1, <2>2, <2>3, <2>4 DEF Awaited
<1>6. QED
  BY <1>3, <1>4, <1>5 DEF Over, OneMemory

\* The running call is handed a service the cache has, and gets in line.
LEMMA CachedKeeps ==
  ASSUME StartInv, ArgumentCached
  PROVE  StartInv'
<1> USE DEF StartInv, Nobody
<1>1. running \in 1 .. Len(calls) /\ Len(calls) \in Nat /\ calls[running].stage = "arguments"
  BY LenProperties DEF ArgumentCached, StartTypes, OnePlace
<1>2. bound[Wanted(running)] \in Nat
  BY NeedIsService DEF ArgumentCached, StartTypes
<1>3. /\ calls' \in Seq(CallRecord) /\ Len(calls') = Len(calls)
      /\ \A d \in 1 .. Len(calls) : calls'[d].by = calls[d].by /\ calls'[d].stage = calls[d].stage
  BY <1>1, <1>2, Handed DEF ArgumentCached, StartTypes
<1>4. /\ ready' \in Seq(Nat) /\ Distinct(ready')
      /\ \A d : In(ready', d) <=> In(ready, d) \/ d = running
  BY <1>1, Queued DEF ArgumentCached, StartTypes, OnePlace
<1>5. StartTypes'
  BY <1>1, <1>3, <1>4 DEF ArgumentCached, StartTypes
<1>6. OnePlace'
  BY <1>1, <1>3, <1>4 DEF ArgumentCached, OnePlace
<1>7. Awaited'
  <2>1. ASSUME NEW c \in 1 .. Len(calls), NEW p \in 1 .. Len(calls), Unreturned(c)', calls[c].by = p
        PROVE  calls'[p].stage = "arguments" /\ p # running' /\ ~In(ready', p)
    <3>1. Unreturned(c) /\ p # Nobody /\ running' = Nobody
      BY <1>1, <1>3, <2>1 DEF ArgumentCached, Unreturned
    <3>2. calls[p].stage = "arguments" /\ p # running /\ ~In(ready, p)
      BY <2>1, <3>1 DEF Awaited
    <3>3. QED
      BY <1>3, <1>4, <3>1, <3>2
  <2>2. QED
    BY <1>3, <2>1, AwaitedKeeps DEF Unreturned
<1>8. Over' /\ OneMemory'
  BY <1>1, <1>3 DEF ArgumentCached, Over, OneMemory, Unreturned
<1>9. QED
  BY <1>5, <1>6, <1>7, <1>8

\* However often the cache service is constructed, its cache is made once.
LEMMA MemoryKeeps ==
  ASSUME OneMemory, running \in Nat, NamedCache(running)
  PROVE  OneMemory'
<1> USE DEF Nobody
<1>1. CASE UNCHANGED <<memory, uses>>
  BY <1>1 DEF OneMemory
<1>2. CASE /\ memory = << >> /\ uses = << >>
           /\ memory' = Append(memory, [factory |-> Nobody, cache |-> running])
           /\ uses' = Append(uses, running)
  BY <1>2 DEF OneMemory
<1>3. CASE /\ Len(memory) = 1 /\ memory \in Seq([factory : {Nobody}, cache : Nat])
           /\ uses \in Seq(Nat) /\ \A i \in 1 .. Len(uses) : uses[i] = memory[1].cache
           /\ uses' = Append(uses, memory[1].cache)
           /\ UNCHANGED memory
  <2>1. memory[1] \in [factory : {Nobody}, cache : Nat]
    BY <1>3, ElementOfSeq, 1 \in 1 .. Len(memory)
  <2>2. QED
    BY <1>3, <2>1, AppendProperties, LenProperties DEF OneMemory
<1>4. QED
  <2> DEFINE known == {i \in DOMAIN memory : memory[i].factory = Nobody}
  <2>1. CASE memory = << >> /\ uses = << >>
    <3>1. known = {}
      BY <2>1
    <3>2. QED
      BY <1>1, <1>2, <2>1, <3>1 DEF NamedCache, FactoryOf
  <2>2. CASE /\ Len(memory) = 1 /\ memory \in Seq([factory : {Nobody}, cache : Nat])
             /\ uses \in Seq(Nat) /\ \A i \in 1 .. Len(uses) : uses[i] = memory[1].cache
    <3>1. DOMAIN memory = {1}
      BY <2>2, LenProperties
    <3>2. memory[1] \in [factory : {Nobody}, cache : Nat]
      BY <2>2, ElementOfSeq, 1 \in 1 .. Len(memory)
    <3>3. known = {1}
      BY <3>1, <3>2
    <3>4. QED
      BY <1>1, <1>3, <2>2, <3>3 DEF NamedCache, FactoryOf
  <2>3. QED
    BY <2>1, <2>2 DEF OneMemory

\* The running call calls its constructor, and waits in line or for the RPC.
LEMMA ConstructKeeps ==
  ASSUME StartInv, Construct
  PROVE  StartInv'
<1> USE DEF StartInv, Nobody
<1>1. running \in 1 .. Len(calls) /\ Len(calls) \in Nat /\ calls[running].stage = "arguments"
  BY LenProperties DEF Construct, StartTypes, OnePlace
<1>2. /\ calls' \in Seq(CallRecord) /\ Len(calls') = Len(calls)
      /\ \A d \in 1 .. Len(calls) :
           /\ calls'[d].by = calls[d].by
           /\ calls'[d].stage = IF d = running THEN "constructing" ELSE calls[d].stage
  <2>1. calls' = Move(calls, running, "constructing") /\ calls \in Seq(CallRecord)
    BY DEF Construct, Move, StartTypes
  <2>2. QED
    BY <1>1, <2>1, Staged
<1>3. \/ UNCHANGED ready /\ rpc' = rpc \cup {running}
      \/ /\ UNCHANGED rpc /\ ready' \in Seq(Nat) /\ Distinct(ready')
         /\ \A d : In(ready', d) <=> In(ready, d) \/ d = running
  <2>1. ready \in Seq(Nat) /\ running \in Nat /\ Distinct(ready) /\ ~In(ready, running)
    BY <1>1 DEF StartTypes, OnePlace
  <2>2. \/ UNCHANGED ready /\ rpc' = rpc \cup {running}
        \/ UNCHANGED rpc /\ ready' = Append(ready, running)
    BY DEF Construct
  <2>3. /\ Append(ready, running) \in Seq(Nat) /\ Distinct(Append(ready, running))
        /\ \A d : In(Append(ready, running), d) <=> In(ready, d) \/ d = running
    BY <2>1, Queued
  <2>4. CASE UNCHANGED rpc /\ ready' = Append(ready, running)
    <3>1. /\ ready' \in Seq(Nat) /\ Distinct(ready')
          /\ \A d : In(ready', d) <=> In(ready, d) \/ d = running
      BY <2>3, <2>4, Zenon
    <3>2. QED
      BY <2>4, <3>1
  <2>5. QED
    BY <2>2, <2>4
<1>4. StartTypes'
  BY <1>1, <1>2, <1>3 DEF Construct, StartTypes
<1>5. OnePlace'
  BY <1>1, <1>2, <1>3 DEF Construct, OnePlace
<1>6. Awaited'
  <2>1. \A c, p \in 1 .. Len(calls) : Unreturned(c)' /\ calls[c].by = p =>
          calls'[p].stage = "arguments" /\ p # running' /\ ~In(ready', p)
    BY <1>1, <1>2, <1>3 DEF Construct, Awaited, Unreturned
  <2>2. QED
    BY <1>1, <1>2, <2>1, AwaitedKeeps DEF Unreturned
<1>7. Over'
  BY <1>1 DEF Construct, Over
<1>8. OneMemory'
  BY <1>1, MemoryKeeps DEF Construct
<1>9. QED
  BY <1>4, <1>5, <1>6, <1>7, <1>8

\* The first call in line goes on.
LEMMA ResumeKeeps ==
  ASSUME StartInv, Resume
  PROVE  StartInv'
<1> USE DEF StartInv, Nobody, Turning
<1> DEFINE c == Head(ready)
<1>1. /\ c \in Nat /\ In(ready, c) /\ ready' \in Seq(Nat) /\ Distinct(ready')
      /\ \A d : In(ready', d) => In(ready, d) /\ d # c
  BY Dequeued DEF Resume, StartTypes, OnePlace
<1> HIDE DEF c
<1>2. c \in 1 .. Len(calls) /\ Len(calls) \in Nat
  BY <1>1, LenProperties DEF OnePlace, StartTypes
<1>3. running' = c /\ calls[c].stage = "arguments" /\ UNCHANGED <<calls, rooted, bound, rpc, memory, uses, boot>>
  BY DEF Resume, c
<1>4. StartTypes' /\ OnePlace'
  BY <1>1, <1>2, <1>3 DEF StartTypes, OnePlace
<1>5. Awaited'
  BY <1>1, <1>2, <1>3 DEF Awaited, Unreturned
<1>6. QED
  BY <1>3, <1>4, <1>5 DEF Resume, Over, OneMemory

\* The first call in line returns, and its caller gets in line.
LEMMA ReturnKeeps ==
  ASSUME StartInv, Return
  PROVE  StartInv'
<1> USE DEF StartInv, Nobody, Turning
<1> DEFINE c == Head(ready)
           p == calls[c].by
           returned == Move(calls, c, "returned")
<1>1. /\ c \in Nat /\ In(ready, c) /\ Tail(ready) \in Seq(Nat) /\ Distinct(Tail(ready))
      /\ \A d : In(Tail(ready), d) => In(ready, d) /\ d # c
  BY Dequeued DEF Return, StartTypes, OnePlace
<1>2. c \in 1 .. Len(calls) /\ Len(calls) \in Nat
  BY <1>1, LenProperties DEF OnePlace, StartTypes
<1>3. /\ running = Nobody /\ calls[c].stage = "constructing" /\ boot = "running"
      /\ bound' = [bound EXCEPT ![calls[c].of] = c]
      /\ \/ p = Nobody /\ calls' = returned /\ ready' = Tail(ready)
         \/ p # Nobody /\ calls' = Hand(returned, p, c) /\ ready' = Append(Tail(ready), p)
      /\ UNCHANGED <<running, rooted, rpc, memory, uses, boot>>
  BY DEF Return, Move
<1>4. /\ returned \in Seq(CallRecord) /\ Len(returned) = Len(calls)
      /\ \A d \in 1 .. Len(calls) :
           /\ returned[d].by = calls[d].by
           /\ returned[d].stage = IF d = c THEN "returned" ELSE calls[d].stage
  BY <1>2, Staged DEF StartTypes
<1> HIDE DEF c, returned
<1>5. p # Nobody => /\ p \in 1 .. Len(calls) /\ calls[p].stage = "arguments"
                    /\ ~In(ready, p) /\ ~In(Tail(ready), p)
  <2>1. p # Nobody => p \in 1 .. Len(calls)
    BY <1>2, CallersKeep
  <2>2. QED
    BY <1>1, <1>2, <1>3, <2>1 DEF Awaited, Unreturned
<1>6. /\ calls' \in Seq(CallRecord) /\ Len(calls') = Len(calls)
      /\ \A d \in 1 .. Len(calls) :
           /\ calls'[d].by = calls[d].by
           /\ calls'[d].stage = IF d = c THEN "returned" ELSE calls[d].stage
  <2>1. CASE p = Nobody
    BY <1>3, <1>4, <2>1
  <2>2. CASE p # Nobody
    <3>1. p \in 1 .. Len(returned) /\ calls' = Hand(returned, p, c)
      BY <1>3, <1>4, <1>5, <2>2
    <3>2. QED
      BY <1>1, <1>4, <3>1, Handed
  <2>3. QED
    BY <2>1, <2>2
<1>7. /\ ready' \in Seq(Nat) /\ Distinct(ready')
      /\ \A d : In(ready', d) <=> In(Tail(ready), d) \/ (p # Nobody /\ d = p)
  <2>1. CASE p = Nobody
    BY <1>1, <1>3, <2>1
  <2>2. CASE p # Nobody
    <3>1. p \in Nat /\ ready' = Append(Tail(ready), p) /\ ~In(Tail(ready), p)
      BY <1>2, <1>3, <1>5, <2>2
    <3>2. QED
      BY <1>1, <2>2, <3>1, Queued
  <2>3. QED
    BY <2>1, <2>2
<1> HIDE DEF p
<1>8. StartTypes'
  BY <1>1, <1>3, <1>6, <1>7 DEF StartTypes
<1>9. OnePlace'
  <2>1. \A d : In(ready', d) => d \in 1 .. Len(calls) /\ d # running
    BY <1>1, <1>2, <1>3, <1>5, <1>7 DEF OnePlace
  <2>2. \A d \in rpc : /\ d \in 1 .. Len(calls) /\ d # c /\ calls[d].stage = "constructing"
                       /\ ~In(ready, d)
    BY <1>1 DEF OnePlace
  <2>3. \A d \in rpc : ~In(ready', d) /\ calls'[d].stage = "constructing" /\ d # running
    BY <1>1, <1>5, <1>6, <1>7, <2>2 DEF OnePlace
  <2>4. QED
    BY <1>3, <1>6, <1>7, <2>1, <2>2, <2>3 DEF OnePlace
<1>10. Awaited'
  <2>1. ASSUME NEW d \in 1 .. Len(calls), NEW q \in 1 .. Len(calls), Unreturned(d)', calls[d].by = q
        PROVE  calls'[q].stage = "arguments" /\ q # running' /\ ~In(ready', q)
    <3>1. d # c /\ Unreturned(d) /\ q # Nobody
      BY <1>2, <1>6, <2>1 DEF Unreturned
    <3>2. calls[q].stage = "arguments" /\ q # running /\ ~In(ready, q)
      BY <2>1, <3>1 DEF Awaited
    <3>3. q # p
      BY <1>2, <1>3, <2>1, <3>1 DEF Awaited, Unreturned, p
    <3>4. QED
      BY <1>1, <1>3, <1>6, <1>7, <3>2, <3>3
  <2>2. \A d \in 1 .. Len(calls) : Unreturned(d)' => Unreturned(d)
    BY <1>6 DEF Unreturned
  <2>3. QED
    BY <1>6, <2>1, <2>2, AwaitedKeeps
<1>11. QED
  BY <1>3, <1>8, <1>9, <1>10 DEF Over, OneMemory

\* The RPC of a call answers; it is the only one in line.
LEMMA InitialisedKeeps ==
  ASSUME StartInv, NEW c \in rpc, Initialised(c)
  PROVE  StartInv'
<1> USE DEF StartInv, Nobody, Turning, Initialised
<1>1. c \in 1 .. Len(calls) /\ calls[c].stage = "constructing" /\ Len(calls) \in Nat
  BY LenProperties DEF OnePlace, StartTypes
<1>2. ready' \in Seq(Nat) /\ Distinct(ready') /\ \A d : In(ready', d) <=> d = c
  BY <1>1 DEF Distinct, In
<1>3. StartTypes' /\ OnePlace'
  BY <1>1, <1>2 DEF StartTypes, OnePlace
<1>4. Awaited'
  BY <1>1, <1>2 DEF Awaited, Unreturned
<1>5. QED
  BY <1>3, <1>4 DEF Over, OneMemory

\* Promise.all resolves when what index.ts asked for is there. Nothing else is
\* waited for then: who made the earliest call still out would be out, too.
LEMMA AllReturned ==
  ASSUME StartInv, AllBound
  PROVE  rpc = {} /\ \A c \in 1 .. Len(calls) : ~Unreturned(c)
<1> USE DEF StartInv, Nobody
<1> DEFINE out == {c \in 1 .. Len(calls) : Unreturned(c)}
<1>1. Len(calls) \in Nat /\ Call = 1 .. Len(calls)
  BY LenProperties DEF StartTypes, Call
<1>2. ASSUME out # {}
      PROVE  FALSE
  <2>1. out \subseteq Nat
    BY <1>1
  <2>2. PICK m \in out : \A c \in out : m <= c
    BY <1>2, <2>1, LeastNatural
  <2>3. m \in 1 .. Len(calls) /\ Unreturned(m) /\ calls[m].by # Nobody
    BY <1>1, <2>2 DEF AllBound, Unreturned
  <2>4. calls[m].by \in 1 .. Len(calls) /\ calls[m].by < m
    BY <2>3, CallersKeep DEF Awaited
  <2>5. calls[m].by \in out
    BY <2>3, <2>4 DEF Awaited, Unreturned
  <2>6. QED
    BY <1>1, <2>2, <2>3, <2>4, <2>5
<1>3. \A c \in 1 .. Len(calls) : ~Unreturned(c)
  BY <1>2
<1>4. QED
  BY <1>3 DEF OnePlace, Unreturned

LEMMA StartInductive ==
  StartInv /\ [StartupNext]_startupVars => StartInv'
<1> SUFFICES ASSUME StartInv, [StartupNext]_startupVars
             PROVE  StartInv'
  OBVIOUS
<1>1. CASE CallRoot \/ ArgumentCalled
  <2>1. PICK s \in Service : Begin(s, running)
    <3>1. Roots \in Seq(Service)
      BY DEF Roots, Service, Needs
    <3>2. CASE CallRoot
      <4>1. Roots[rooted + 1] \in Service
        <5>1. rooted + 1 \in 1 .. Len(Roots)
          BY <3>1, <3>2, LenProperties DEF CallRoot, StartInv, Over
        <5>2. QED
          BY <3>1, <5>1, ElementOfSeq
      <4>2. QED
        BY <3>2, <4>1 DEF CallRoot
    <3>3. CASE ArgumentCalled
      BY <3>3, NeedIsService DEF ArgumentCalled, StartInv
    <3>4. QED
      BY <1>1, <3>2, <3>3
  <2>2. boot = "running" /\ rooted' \in Nat /\ UNCHANGED <<ready, bound, rpc, memory, uses, boot>>
    BY <1>1 DEF CallRoot, ArgumentCalled, StartInv, Over
  <2>3. QED
    BY <2>1, <2>2, BeginKeeps
<1>2. CASE AllBound \/ \E c \in rpc : InitFails(c)
  <2>1. /\ UNCHANGED <<calls, running, ready, rooted, bound, rpc, memory, uses>>
        /\ running = Nobody /\ rooted = Len(Roots)
        /\ boot' \in {"done", "failed"} /\ (boot' = "done" => AllBound)
    BY <1>2 DEF AllBound, InitFails, Turning
  <2>2. Over'
    BY <2>1, AllReturned DEF Over, Unreturned
  <2>3. QED
    BY <2>1, <2>2 DEF StartInv, StartTypes, OnePlace, Awaited, OneMemory, Unreturned
<1>3. CASE UNCHANGED startupVars
  BY <1>3 DEF startupVars, StartInv, StartTypes, OnePlace, Awaited, Over, OneMemory, Unreturned
<1>4. QED
  BY <1>1, <1>2, <1>3, CachedKeeps, ConstructKeeps, ResumeKeeps, ReturnKeeps, InitialisedKeeps
     DEF StartupNext

\* Nothing is served before every service is ready, however the calls of
\* getBinding and the answers of the RPCs interleave.
THEOREM ServedReady == WorkerSpec => []ServedByReadyServices
<1>1. WorkerInit => StartInv /\ Unserved
  BY StartBegins DEF WorkerInit, Init, StartupInit, Unserved, Open
<1>2. StartInv /\ Unserved /\ [WorkerNext]_workerVars => (StartInv /\ Unserved)'
  <2> SUFFICES ASSUME StartInv, Unserved, [WorkerNext]_workerVars
               PROVE  StartInv' /\ Unserved'
    OBVIOUS
  <2>1. [StartupNext]_startupVars
    BY DEF WorkerNext, StartsServers, EndsEarly, Serves, workerVars
  <2>2. boot = "done" => boot' = "done"
    BY <2>1 DEF StartInv, Over, StartupNext, startupVars, CallRoot, ArgumentCached, ArgumentCalled,
       Construct, Resume, Return, Initialised, InitFails, AllBound, Turning
  <2>3. Unserved'
    <3>1. CASE boot = "done"
      BY <2>2, <3>1 DEF Unserved
    <3>2. CASE boot # "done" /\ UNCHANGED vars
      BY <3>2 DEF Unserved, Open, vars, requestVars
    <3>3. CASE boot # "done" /\ StartEnds
      BY <3>3 DEF Unserved, Open, StartEnds, requestVars
    <3>4. CASE boot # "done" /\ Serves
      <4>1. mode \in {"starting", "exited"} /\ \A r \in Request : res[r] # "open"
        BY <3>4 DEF Unserved, Open
      <4>2. ~BeatOverloaded /\ ~BeatCalm /\ ~ShutdownWorker /\ ~Tick
        BY <4>1 DEF BeatOverloaded, BeatCalm, BeatDue, ShutdownWorker, Tick
      <4>3. PICK r \in Request : RequestEvent(r) \/ FinishEvent(r) \/ CloseEvent(r)
        BY <3>4, <4>2 DEF Serves
      <4>4. CloseEvent(r)
        BY <4>1, <4>3 DEF RequestEvent, FinishEvent
      <4>5. QED
        BY <3>4, <4>1, <4>4 DEF Unserved, Open, CloseEvent
    <3>5. QED
      BY <3>1, <3>2, <3>3, <3>4 DEF WorkerNext, StartsServers, EndsEarly, workerVars
  <2>4. QED
    BY <2>1, <2>3, StartInductive
<1>3. StartInv /\ Unserved => ServedByReadyServices
  <2> SUFFICES ASSUME StartInv, Unserved, Open # {}
               PROVE  /\ boot = "done" /\ rpc = {}
                      /\ \A c \in Call : calls[c].stage = "returned"
                      /\ \A i, j \in DOMAIN uses : uses[i] = uses[j]
    BY DEF ServedByReadyServices
  <2>1. boot = "done" /\ rpc = {} /\ \A c \in 1 .. Len(calls) : ~Unreturned(c)
    BY DEF Unserved, StartInv, Over
  <2>2. Call = 1 .. Len(calls)
    BY LenProperties DEF StartInv, StartTypes, Call
  <2>3. \A i, j \in DOMAIN uses : uses[i] = uses[j]
    <3>1. CASE uses = << >>
      BY <3>1
    <3>2. CASE uses \in Seq(Nat) /\ \A i \in 1 .. Len(uses) : uses[i] = memory[1].cache
      BY <3>2, LenProperties
    <3>3. QED
      BY <3>1, <3>2 DEF StartInv, OneMemory
  <2>4. QED
    BY <2>1, <2>2, <2>3 DEF Unreturned
<1>4. QED
  BY <1>1, <1>2, <1>3, PTL DEF WorkerSpec

-----------------------------------------------------------------------------
(* The start-up is never stuck. *)

\* A call that has not returned is somewhere: running, in the queue, waiting for
\* its RPC, or for a call it has made and that has not returned either.
Placed ==
  /\ rooted <= Len(Roots)
  /\ \A c : In(ready, c) => Unreturned(c)
  /\ \A c \in 1 .. Len(calls) : Unreturned(c) =>
       \/ c = running \/ In(ready, c) \/ c \in rpc
       \/ \E d \in 1 .. Len(calls) : calls[d].by = c /\ Unreturned(d)

\* Taking the first call out of the queue loses none of the others.
LEMMA DequeuedRest ==
  ASSUME NEW q \in Seq(Nat), q # << >>, NEW d, In(q, d), d # Head(q)
  PROVE  In(Tail(q), d)
<1>1. /\ Len(Tail(q)) = Len(q) - 1 /\ Len(q) \in Nat \ {0}
      /\ \A i \in 1 .. Len(Tail(q)) : Tail(q)[i] = q[i + 1]
  BY HeadTailProperties, EmptySeq
<1>2. PICK i \in 1 .. Len(q) : q[i] = d
  BY DEF In
<1>3. i # 1
  BY <1>2
<1>4. i - 1 \in 1 .. Len(Tail(q)) /\ (i - 1) + 1 = i
  BY <1>1, <1>2, <1>3
<1>5. QED
  BY <1>1, <1>2, <1>4 DEF In

\* Who has run and is somewhere else now, and the others stay where they are.
LEMMA PlacedStays ==
  ASSUME StartInv, Placed, Len(calls') = Len(calls), rooted' = rooted,
         \A c \in 1 .. Len(calls) : calls'[c].by = calls[c].by,
         \A c : In(ready', c) => Unreturned(c)',
         \A c \in 1 .. Len(calls) : Unreturned(c)' =>
           /\ Unreturned(c)
           /\ c = running \/ In(ready, c) \/ c \in rpc =>
                c = running' \/ In(ready', c) \/ c \in rpc'
           /\ \A d \in 1 .. Len(calls) : calls[d].by = c /\ Unreturned(d) /\ ~Unreturned(d)' =>
                c = running' \/ In(ready', c) \/ c \in rpc'
  PROVE  Placed'
<1>1. ASSUME NEW c \in 1 .. Len(calls), Unreturned(c)'
      PROVE  \/ c = running' \/ In(ready', c) \/ c \in rpc'
             \/ \E d \in 1 .. Len(calls) : calls'[d].by = c /\ Unreturned(d)'
  <2>1. CASE c = running \/ In(ready, c) \/ c \in rpc
    BY <1>1, <2>1
  <2>2. CASE \E d \in 1 .. Len(calls) : calls[d].by = c /\ Unreturned(d)
    BY <1>1, <2>2
  <2>3. QED
    BY <1>1, <2>1, <2>2 DEF Placed
<1>2. QED
  BY <1>1 DEF Placed

\* A call that begins runs, and its caller waits for it.
LEMMA BeginPlaced ==
  ASSUME StartInv, Placed, NEW s \in Service, Begin(s, running), rooted' <= Len(Roots),
         UNCHANGED <<ready, rpc>>
  PROVE  Placed'
<1> DEFINE n == Len(calls) + 1
<1> USE DEF StartInv, Nobody
<1>1. /\ calls' \in Seq(CallRecord) /\ Len(calls') = n /\ Len(calls) \in Nat
      /\ running' = n
      /\ \A c \in 1 .. Len(calls) : calls'[c] = calls[c]
      /\ calls'[n].by = running /\ calls'[n].stage = "arguments"
  BY Begun DEF StartTypes
<1>2. \A c \in 1 .. n : c \in 1 .. Len(calls) \/ c = n
  BY <1>1
<1>3. \A c : In(ready, c) => c \in 1 .. Len(calls) /\ Unreturned(c)
  BY DEF OnePlace, Placed
<1>4. ASSUME NEW c \in 1 .. Len(calls), Unreturned(c)
      PROVE  \/ In(ready, c) \/ c \in rpc
             \/ \E d \in 1 .. n : calls'[d].by = c /\ Unreturned(d)'
  <2>1. CASE c = running
    BY <1>1, <2>1 DEF Unreturned
  <2>2. CASE \E d \in 1 .. Len(calls) : calls[d].by = c /\ Unreturned(d)
    BY <1>1, <2>2 DEF Unreturned
  <2>3. QED
    BY <1>4, <2>1, <2>2 DEF Placed
<1>5. QED
  BY <1>1, <1>2, <1>3, <1>4 DEF Placed, Unreturned

\* The running call gets in line, or waits for its RPC.
LEMMA RunningPlaced ==
  ASSUME StartInv, Placed, ArgumentCached \/ Construct
  PROVE  Placed'
<1> USE DEF StartInv, Nobody
<1>1. running \in 1 .. Len(calls) /\ Len(calls) \in Nat /\ calls[running].stage = "arguments"
  BY LenProperties DEF ArgumentCached, Construct, StartTypes, OnePlace
<1>2. /\ Len(calls') = Len(calls) /\ rooted' = rooted
      /\ \A d \in 1 .. Len(calls) : /\ calls'[d].by = calls[d].by
                                    /\ Unreturned(d)' <=> Unreturned(d)
  <2>1. CASE ArgumentCached
    <3>1. bound[Wanted(running)] \in Nat
      BY <2>1, NeedIsService DEF ArgumentCached, StartTypes
    <3>2. QED
      BY <1>1, <2>1, <3>1, Handed DEF ArgumentCached, StartTypes, Unreturned
  <2>2. CASE Construct
    <3>1. calls' = Move(calls, running, "constructing") /\ calls \in Seq(CallRecord) /\ rooted' = rooted
      BY <2>2 DEF Construct, Move, StartTypes
    <3>2. \A d \in 1 .. Len(calls) :
            /\ calls'[d].by = calls[d].by
            /\ calls'[d].stage = IF d = running THEN "constructing" ELSE calls[d].stage
      BY <1>1, <3>1, Staged
    <3>3. Len(calls') = Len(calls)
      BY <1>1, <3>1, Staged
    <3>4. QED
      BY <1>1, <3>1, <3>2, <3>3 DEF Unreturned
  <2>3. QED
    BY <2>1, <2>2
<1>3. /\ \A d : In(ready', d) => In(ready, d) \/ d = running
      /\ \A d : In(ready, d) => In(ready', d)
      /\ rpc \subseteq rpc'
      /\ In(ready', running) \/ running \in rpc'
  <2>1. ready \in Seq(Nat) /\ running \in Nat /\ Distinct(ready) /\ ~In(ready, running)
    BY <1>1 DEF StartTypes, OnePlace
  <2>2. \A d : In(Append(ready, running), d) <=> In(ready, d) \/ d = running
    BY <2>1, Queued
  <2>3. \/ UNCHANGED ready /\ rpc' = rpc \cup {running}
        \/ UNCHANGED rpc /\ ready' = Append(ready, running)
    BY DEF ArgumentCached, Construct
  <2>4. QED
    BY <2>2, <2>3
<1>4. \A d : In(ready', d) => Unreturned(d)'
  BY <1>1, <1>2, <1>3 DEF Placed, OnePlace, Unreturned
<1>5. QED
  BY <1>2, <1>3, <1>4, PlacedStays

\* The first in line runs.
LEMMA ResumePlaced ==
  ASSUME StartInv, Placed, Resume
  PROVE  Placed'
<1> USE DEF StartInv, Nobody, Turning
<1>1. /\ ready \in Seq(Nat) /\ ready # << >> /\ ready' = Tail(ready) /\ running' = Head(ready)
      /\ running = Nobody /\ UNCHANGED <<calls, rooted, rpc>> /\ Len(calls) \in Nat
  BY LenProperties DEF Resume, StartTypes
<1>2. \A d : In(Tail(ready), d) => In(ready, d)
  BY <1>1, Dequeued DEF OnePlace
<1>3. \A d : In(ready, d) => In(Tail(ready), d) \/ d = Head(ready)
  BY <1>1, DequeuedRest
<1>4. \A d : In(ready', d) => Unreturned(d)'
  BY <1>1, <1>2 DEF Placed, Unreturned
<1>5. QED
  BY <1>1, <1>3, <1>4, PlacedStays DEF Unreturned

\* The first in line has returned; its caller is in line instead.
LEMMA ReturnPlaced ==
  ASSUME StartInv, Placed, Return
  PROVE  Placed'
<1> USE DEF StartInv, Nobody, Turning
<1> DEFINE c == Head(ready)
           p == calls[c].by
           returned == Move(calls, c, "returned")
<1>1. /\ c \in Nat /\ In(ready, c) /\ Tail(ready) \in Seq(Nat) /\ Distinct(Tail(ready))
      /\ \A d : In(Tail(ready), d) => In(ready, d) /\ d # c
      /\ \A d : In(ready, d) => In(Tail(ready), d) \/ d = c
  BY Dequeued, DequeuedRest DEF Return, StartTypes, OnePlace
<1>2. c \in 1 .. Len(calls) /\ Len(calls) \in Nat
  BY <1>1, LenProperties DEF OnePlace, StartTypes
<1>3. /\ running = Nobody /\ calls[c].stage = "constructing"
      /\ \/ p = Nobody /\ calls' = returned /\ ready' = Tail(ready)
         \/ p # Nobody /\ calls' = Hand(returned, p, c) /\ ready' = Append(Tail(ready), p)
      /\ UNCHANGED <<running, rooted, rpc>>
  BY DEF Return, Move
<1>4. /\ returned \in Seq(CallRecord) /\ Len(returned) = Len(calls)
      /\ \A d \in 1 .. Len(calls) :
           /\ returned[d].by = calls[d].by
           /\ returned[d].stage = IF d = c THEN "returned" ELSE calls[d].stage
  BY <1>2, Staged DEF StartTypes
<1> HIDE DEF c, returned
<1>5. p # Nobody => /\ p \in 1 .. Len(calls) /\ calls[p].stage = "arguments"
                    /\ ~In(Tail(ready), p)
  <2>1. p # Nobody => p \in 1 .. Len(calls)
    BY <1>2, CallersKeep
  <2>2. QED
    BY <1>1, <1>2, <1>3, <2>1 DEF Awaited, Unreturned
<1>6. /\ Len(calls') = Len(calls)
      /\ \A d \in 1 .. Len(calls) :
           /\ calls'[d].by = calls[d].by
           /\ calls'[d].stage = IF d = c THEN "returned" ELSE calls[d].stage
  <2>1. CASE p = Nobody
    BY <1>3, <1>4, <2>1
  <2>2. CASE p # Nobody
    <3>1. p \in 1 .. Len(returned) /\ calls' = Hand(returned, p, c)
      BY <1>3, <1>4, <1>5, <2>2
    <3>2. QED
      BY <1>1, <1>4, <3>1, Handed
  <2>3. QED
    BY <2>1, <2>2
<1>7. \A d : In(ready', d) <=> In(Tail(ready), d) \/ (p # Nobody /\ d = p)
  <2>1. CASE p = Nobody
    BY <1>1, <1>3, <2>1
  <2>2. CASE p # Nobody
    <3>1. p \in Nat /\ ready' = Append(Tail(ready), p) /\ ~In(Tail(ready), p)
      BY <1>2, <1>3, <1>5, <2>2
    <3>2. QED
      BY <1>1, <2>2, <3>1, Queued
  <2>3. QED
    BY <2>1, <2>2
<1>8. ASSUME NEW d, In(ready', d)
      PROVE  Unreturned(d)'
  <2>1. CASE In(Tail(ready), d)
    <3>1. d \in 1 .. Len(calls) /\ d # c /\ Unreturned(d)
      BY <1>1, <2>1 DEF Placed, OnePlace
    <3>2. QED
      BY <1>6, <3>1 DEF Unreturned
  <2>2. CASE p # Nobody /\ d = p
    <3>1. p # c
      BY <1>3, <1>5, <2>2
    <3>2. QED
      BY <1>5, <1>6, <2>2, <3>1 DEF Unreturned
  <2>3. QED
    BY <1>7, <1>8, <2>1, <2>2
<1>9. ASSUME NEW e \in 1 .. Len(calls), Unreturned(e)'
      PROVE  /\ Unreturned(e)
             /\ e = running \/ In(ready, e) \/ e \in rpc => e = running' \/ In(ready', e) \/ e \in rpc'
             /\ \A d \in 1 .. Len(calls) : calls[d].by = e /\ Unreturned(d) /\ ~Unreturned(d)' =>
                  e = running' \/ In(ready', e) \/ e \in rpc'
  <2>1. e # c /\ Unreturned(e)
    BY <1>6, <1>9 DEF Unreturned
  <2>2. ASSUME NEW d \in 1 .. Len(calls), calls[d].by = e, Unreturned(d), ~Unreturned(d)'
        PROVE  In(ready', e)
    <3>1. d = c
      BY <1>6, <2>2 DEF Unreturned
    <3>2. p = e /\ p # Nobody
      BY <1>9, <2>2, <3>1 DEF p
    <3>3. QED
      BY <1>7, <3>2
  <2>3. QED
    BY <1>1, <1>3, <1>7, <2>1, <2>2
<1>10. QED
  BY <1>3, <1>6, <1>8, <1>9, PlacedStays

LEMMA PlacedInductive ==
  StartInv /\ Placed /\ [StartupNext]_startupVars => Placed'
<1> SUFFICES ASSUME StartInv, Placed, [StartupNext]_startupVars
             PROVE  Placed'
  OBVIOUS
<1>1. CASE CallRoot
  <2>1. Roots \in Seq(Service)
    BY DEF Roots, Service, Needs
  <2>2. rooted + 1 \in 1 .. Len(Roots) /\ Len(Roots) \in Nat
    BY <1>1, <2>1, LenProperties DEF CallRoot, StartInv, Over
  <2>3. Roots[rooted + 1] \in Service
    BY <2>1, <2>2, ElementOfSeq
  <2>4. Begin(Roots[rooted + 1], running) /\ rooted' <= Len(Roots) /\ UNCHANGED <<ready, rpc>>
    BY <1>1, <2>2 DEF CallRoot
  <2>5. QED
    BY <2>3, <2>4, BeginPlaced
<1>2. CASE ArgumentCalled
  <2>1. Wanted(running) \in Service
    BY <1>2, NeedIsService DEF ArgumentCalled, StartInv
  <2>2. Begin(Wanted(running), running) /\ rooted' <= Len(Roots) /\ UNCHANGED <<ready, rpc>>
    BY <1>2 DEF ArgumentCalled, Placed
  <2>3. QED
    BY <2>1, <2>2, BeginPlaced
<1>3. ASSUME NEW c \in rpc, Initialised(c)
      PROVE  Placed'
  <2>1. /\ c \in 1 .. Len(calls) /\ calls[c].stage = "constructing" /\ Len(calls) \in Nat
        /\ running = Nobody /\ ready = << >>
        /\ rpc' = rpc \ {c} /\ UNCHANGED <<calls, running, rooted>>
    BY <1>3, LenProperties DEF Initialised, Turning, StartInv, StartTypes, OnePlace
  <2>2. \A d : In(ready', d) <=> d = c
    BY <1>3 DEF Initialised, In
  <2>3. \A d : ~In(ready, d)
    BY <2>1 DEF In
  <2>4. QED
    BY <2>1, <2>2, <2>3, PlacedStays DEF Unreturned
<1>4. CASE AllBound \/ (\E c \in rpc : InitFails(c)) \/ UNCHANGED startupVars
  BY <1>4 DEF AllBound, InitFails, startupVars, Placed, Unreturned
<1>5. QED
  BY <1>1, <1>2, <1>3, <1>4, RunningPlaced, ResumePlaced, ReturnPlaced DEF StartupNext

\* A non-empty finite range of calls has a last one.
LEMMA LastCall ==
  ASSUME NEW n \in Nat, NEW T, T \subseteq 1 .. n, T # {}
  PROVE  \E m \in T : \A y \in T : y <= m
<1> DEFINE mirrored == {n - y : y \in T}
<1>1. mirrored \subseteq Nat /\ mirrored # {}
  <2>1. PICK y \in T : TRUE
    OBVIOUS
  <2>2. n - y \in mirrored
    BY <2>1
  <2>3. \A z \in T : z \in Int /\ n - z \in Nat
    OBVIOUS
  <2>4. QED
    BY <2>2, <2>3
<1>2. PICK k \in mirrored : \A y \in mirrored : k <= y
  BY <1>1, LeastNatural
<1>3. PICK m \in T : k = n - m
  BY <1>2
<1>4. ASSUME NEW y \in T
      PROVE  y <= m
  <2>1. n - y \in mirrored
    BY <1>4
  <2>2. n - m <= n - y
    BY <1>2, <1>3, <2>1
  <2>3. QED
    BY <1>4, <2>2
<1>5. QED
  BY <1>4

\* A call waits for a later one only, so the last call that has not returned
\* waits for none: it can go on, or its RPC is under way.
LEMMA SomethingToDo ==
  ASSUME StartInv, Placed
  PROVE  StartNeverStalls
<1> DEFINE out == {c \in 1 .. Len(calls) : Unreturned(c)}
<1>1. /\ Len(calls) \in Nat /\ Call = 1 .. Len(calls) /\ running \in Nat /\ ready \in Seq(Nat)
      /\ \A c \in 1 .. Len(calls) : calls[c].by \in Nat /\ calls[c].by < c
  <2>1. \A c \in 1 .. Len(calls) : calls[c] \in CallRecord
    BY ElementOfSeq DEF StartInv, StartTypes
  <2>2. Len(calls) \in Nat /\ Call = 1 .. Len(calls) /\ running \in Nat
    BY LenProperties DEF StartInv, StartTypes, Call
  <2>3. QED
    BY <2>1, <2>2 DEF CallRecord, StartInv, StartTypes, Awaited
<1>2. CASE out = {}
  <2>1. rooted \in Nat /\ Len(Roots) \in Nat
    BY DEF StartInv, Over, Roots
  <2>2. QED
    BY <1>1, <1>2, <2>1 DEF StartNeverStalls, Unreturned, Placed
<1>3. CASE out # {}
  <2>1. PICK c \in out : \A d \in out : d <= c
    BY <1>1, <1>3, LastCall
  <2>2. ~ \E d \in 1 .. Len(calls) : calls[d].by = c /\ Unreturned(d)
    BY <1>1, <2>1
  <2>3. c = running \/ In(ready, c) \/ c \in rpc
    BY <2>1, <2>2 DEF Placed
  <2>4. CASE In(ready, c)
    <3>1. ready # << >>
      BY <2>4 DEF In
    <3>2. In(ready, Head(ready))
      BY <1>1, <3>1, Dequeued DEF StartInv, OnePlace
    <3>3. QED
      BY <3>1, <3>2 DEF StartNeverStalls, Placed, Unreturned
  <2>5. CASE c = running \/ c \in rpc
    BY <1>1, <2>1, <2>5 DEF StartNeverStalls, Nobody
  <2>6. QED
    BY <2>3, <2>4, <2>5
<1>4. QED
  BY <1>2, <1>3

\* The start-up always has something it can do next, whatever the order in which
\* the calls of getBinding and the RPCs end: no two calls wait for each other.
THEOREM StartGoesOn == WorkerSpec => []StartNeverStalls
<1>1. WorkerInit => StartInv /\ Placed
  <2>1. StartupInit => Placed
    <3>1. StartupInit => /\ rooted = 0 /\ Len(ready) = 0 /\ Len(calls) = 0
      BY EmptySeq DEF StartupInit
    <3>2. Len(Roots) \in Nat
      BY DEF Roots
    <3>3. QED
      BY <3>1, <3>2 DEF Placed, In
  <2>2. QED
    BY <2>1, StartBegins DEF WorkerInit
<1>2. StartInv /\ Placed /\ [WorkerNext]_workerVars => (StartInv /\ Placed)'
  <2>1. [WorkerNext]_workerVars => [StartupNext]_startupVars
    BY DEF WorkerNext, StartsServers, EndsEarly, Serves, workerVars
  <2>2. QED
    BY <2>1, StartInductive, PlacedInductive
<1>3. QED
  BY <1>1, <1>2, SomethingToDo, PTL DEF WorkerSpec
=============================================================================
