------------------------------ MODULE Startup ------------------------------
(***************************************************************************)
(* How a server process constructs its services: the bindings of           *)
(* dweb-api-server/src/dependencies, and index.ts up to runClustered.      *)
(*                                                                         *)
(* getBinding caches a service only once it has been constructed, so that  *)
(* concurrent calls construct it several times. The calls run in the       *)
(* order of the microtask queue, and the RPC of EnsService.init answers    *)
(* between two runs of that queue.                                         *)
(***************************************************************************)
EXTENDS Integers, Sequences

VARIABLES
  calls,    \* the calls of getBinding that did not find their service in its cache
  running,  \* the call whose code runs; Nobody when the microtask queue is next
  ready,    \* the microtask queue: calls whose await is over, the next one first
  rooted,   \* how many of its calls index.ts has made
  bound,    \* the cache of each EnvironmentBinding: the call that constructed the service
  rpc,      \* calls that wait for EnsService.init()
  memory,   \* memoryCaches of each MemoryCacheFactory: the call that made its cache
  uses,     \* the memory cache of each LocallyCachedRedisCacheService
  boot      \* "running", "done": runClustered is called, "failed": a rejection nobody handles

startupVars == <<calls, running, ready, rooted, bound, rpc, memory, uses, boot>>

-----------------------------------------------------------------------------
(* The services. *)

\* The arguments each constructor awaits, in their order.
Needs == [
  configuration |-> << >>,
  logger |-> <<"configuration">>,
  namedMemoryCacheFactory |-> <<"logger", "configuration">>,
  redisClient |-> <<"configuration">>,
  cacheService |-> <<"logger", "redisClient", "namedMemoryCacheFactory", "configuration">>,
  hostnameSubstitution |-> <<"configuration", "logger">>,
  domainQuerySuperagent |-> <<"configuration">>,
  domainQuery |-> <<"logger", "domainQuerySuperagent", "cacheService", "configuration">>,
  kuboApi |-> <<"logger", "configuration">>,
  web3NameSdk |-> <<"configuration", "logger">>,
  ensService |-> <<"configuration", "cacheService", "logger">>,
  basenamesService |-> <<"configuration", "logger">>,
  domainRateLimit |-> <<"redisClient", "logger">>,
  arweaveResolver |-> <<"logger">>,
  nameServiceFactory |->
    <<"logger", "ensService", "web3NameSdk", "basenamesService", "configuration">>,
  ensResolver |-> <<"logger", "cacheService", "arweaveResolver", "kuboApi", "nameServiceFactory">>,
  dnsQuery |-> <<"logger", "configuration", "domainQuery", "ensResolver">>,
  dataUrlResolverService |-> <<"configuration", "cacheService", "logger">>
]

Service == DOMAIN Needs

\* What index.ts asks for.
Roots == <<"configuration", "logger", "domainQuery", "ensResolver", "arweaveResolver",
           "dnsQuery", "domainRateLimit", "hostnameSubstitution", "dataUrlResolverService">>

\* Constructed by createNameService, which awaits init().
NameServices == {"ensService", "dataUrlResolverService"}

Nobody == 0

Call == DOMAIN calls

StartupInit ==
  /\ calls = << >>
  /\ running = Nobody
  /\ ready = << >>
  /\ rooted = 0
  /\ bound = [s \in Service |-> Nobody]
  /\ rpc = {}
  /\ memory = << >>
  /\ uses = << >>
  /\ boot = "running"

-----------------------------------------------------------------------------
(* getBinding. *)

\* getBinding without a cached service: the arguments of its constructor are next.
Begin(s, caller) ==
  /\ calls' = Append(calls, [of |-> s, by |-> caller, got |-> << >>, stage |-> "arguments"])
  /\ running' = Len(calls) + 1

\* index.ts makes all its calls before it awaits any.
CallRoot ==
  /\ boot = "running" /\ running = Nobody
  /\ rooted < Len(Roots)
  /\ Begin(Roots[rooted + 1], Nobody)
  /\ rooted' = rooted + 1
  /\ UNCHANGED <<ready, bound, rpc, memory, uses, boot>>

\* The next argument of a call.
Missing(c) == calls[c].stage = "arguments" /\ Len(calls[c].got) < Len(Needs[calls[c].of])
Wanted(c) == Needs[calls[c].of][Len(calls[c].got) + 1]

\* c is handed a service.
Hand(table, c, instance) == [table EXCEPT ![c].got = Append(@, instance)]

ArgumentCached ==
  /\ running # Nobody /\ Missing(running)
  /\ bound[Wanted(running)] # Nobody
  /\ calls' = Hand(calls, running, bound[Wanted(running)])
  /\ ready' = Append(ready, running)
  /\ running' = Nobody
  /\ UNCHANGED <<rooted, bound, rpc, memory, uses, boot>>

ArgumentCalled ==
  /\ running # Nobody /\ Missing(running)
  /\ bound[Wanted(running)] = Nobody
  /\ Begin(Wanted(running), running)
  /\ UNCHANGED <<ready, rooted, bound, rpc, memory, uses, boot>>

\* The MemoryCacheFactory a cacheService is given: there is one, outside the bindings.
FactoryOf(c) == Nobody

\* createNamedMemoryCacheFactory: the cache of that name, or a new one. Every
\* LocallyCachedRedisCacheService asks for the same name.
NamedCache(c) ==
  LET factory == FactoryOf(c)
      known == {i \in DOMAIN memory : memory[i].factory = factory}
  IN  IF calls[c].of # "cacheService" THEN UNCHANGED <<memory, uses>>
      ELSE IF known = {}
        THEN /\ memory' = Append(memory, [factory |-> factory, cache |-> c])
             /\ uses' = Append(uses, c)
        ELSE /\ uses' = Append(uses, memory[CHOOSE i \in known : TRUE].cache)
             /\ UNCHANGED memory

\* Variant: createNameService does not await init().
ConstructUnawaited ==
  /\ running # Nobody /\ ~Missing(running)
  /\ calls' = [calls EXCEPT ![running].stage = "constructing"]
  /\ NamedCache(running)
  /\ rpc' = IF calls[running].of \in NameServices THEN rpc \cup {running} ELSE rpc
  /\ ready' = Append(ready, running)
  /\ running' = Nobody
  /\ UNCHANGED <<rooted, bound, boot>>

\* The constructor is called; a name service then waits for its RPC.
Construct ==
  /\ running # Nobody /\ ~Missing(running)
  /\ calls' = [calls EXCEPT ![running].stage = "constructing"]
  /\ NamedCache(running)
  /\ IF calls[running].of \in NameServices
       THEN rpc' = rpc \cup {running} /\ UNCHANGED ready
       ELSE ready' = Append(ready, running) /\ UNCHANGED rpc
  /\ running' = Nobody
  /\ UNCHANGED <<rooted, bound, boot>>

-----------------------------------------------------------------------------
(* The event loop. *)

\* The code of index.ts, and of the last microtask, has run to its next await.
Turning == boot = "running" /\ running = Nobody /\ rooted = Len(Roots)

\* A call goes on with the argument it awaited.
Resume ==
  /\ Turning /\ ready # << >>
  /\ calls[Head(ready)].stage = "arguments"
  /\ running' = Head(ready)
  /\ ready' = Tail(ready)
  /\ UNCHANGED <<calls, rooted, bound, rpc, memory, uses, boot>>

\* The service is constructed: getBinding caches it, whatever is in the cache by
\* now, and returns it to its caller.
Return ==
  /\ Turning /\ ready # << >>
  /\ LET c == Head(ready)
         caller == calls[c].by
         returned == [calls EXCEPT ![c].stage = "returned"]
     IN  /\ calls[c].stage = "constructing"
         /\ bound' = [bound EXCEPT ![calls[c].of] = c]
         /\ IF caller = Nobody
              THEN calls' = returned /\ ready' = Tail(ready)
              ELSE calls' = Hand(returned, caller, c) /\ ready' = Append(Tail(ready), caller)
  /\ UNCHANGED <<running, rooted, rpc, memory, uses, boot>>

\* The RPC of init() answers, or fails. A rejection reaches the Promise.all of
\* index.ts and nobody handles it, which ends the process.
Initialised(c) ==
  /\ Turning /\ ready = << >>
  /\ c \in rpc
  /\ rpc' = rpc \ {c}
  /\ ready' = <<c>>
  /\ UNCHANGED <<calls, running, rooted, bound, memory, uses, boot>>

InitFails(c) ==
  /\ Turning /\ ready = << >>
  /\ c \in rpc
  /\ boot' = "failed"
  /\ UNCHANGED <<calls, running, ready, rooted, bound, rpc, memory, uses>>

\* Promise.all is resolved.
AllBound ==
  /\ Turning
  /\ \A c \in Call : calls[c].by = Nobody => calls[c].stage = "returned"
  /\ boot' = "done"
  /\ UNCHANGED <<calls, running, ready, rooted, bound, rpc, memory, uses>>

StartupNext ==
  \/ CallRoot
  \/ ArgumentCached \/ ArgumentCalled \/ Construct
  \/ Resume \/ Return
  \/ \E c \in rpc : Initialised(c) \/ InitFails(c)
  \/ AllBound

StartupSpec == StartupInit /\ [][StartupNext]_startupVars

-----------------------------------------------------------------------------
(* Properties. *)

\* While the start-up runs there is something it can do next: code of index.ts
\* or of a call to run, a call in line that has not returned, an RPC under way, or
\* nothing is left to wait for. Each call awaits its arguments one by one, and
\* none of these waits is for a call that was forgotten or that waits for it.
StartNeverStalls ==
  boot = "running" =>
    \/ rooted < Len(Roots) \/ running # Nobody
    \/ ready # << >> /\ calls[Head(ready)].stage # "returned"
    \/ rpc # {}
    \/ rooted = Len(Roots) /\ \A c \in Call : calls[c].stage = "returned"
=============================================================================
