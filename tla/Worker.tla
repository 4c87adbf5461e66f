------------------------------- MODULE Worker -------------------------------
(***************************************************************************)
(* The life of a worker process: index.ts constructs the services          *)
(* (Startup), and runWorker starts the servers and watches their load      *)
(* (WorkerLoad). The same code runs in the primary, which forks its        *)
(* workers where a worker starts its servers.                              *)
(***************************************************************************)
EXTENDS WorkerLoad, Startup

workerVars == <<vars, startupVars>>

WorkerInit == Init /\ StartupInit

\* runClustered is called when every service is constructed.
StartsServers == boot = "done" /\ Start /\ UNCHANGED startupVars

\* A failed start ends the process; a signal can at any time, for there is no
\* handler yet.
EndsEarly == StartEnds /\ UNCHANGED startupVars

Serves ==
  /\ \/ \E r \in Request : RequestEvent(r) \/ FinishEvent(r) \/ CloseEvent(r)
     \/ BeatOverloaded \/ BeatCalm
     \/ ShutdownWorker
     \/ Tick
  /\ UNCHANGED startupVars

WorkerNext ==
  \/ mode = "starting" /\ StartupNext /\ UNCHANGED vars
  \/ StartsServers
  \/ EndsEarly
  \/ Serves

WorkerSpec == WorkerInit /\ [][WorkerNext]_workerVars

-----------------------------------------------------------------------------
(* Properties. *)

\* No request is taken before every service it can reach is constructed and
\* initialised - getChainId never throws "Please call init() first" - nor by a
\* process whose start has failed; and however many cache services the
\* concurrent calls of getBinding have made, they share one memory cache.
ServedByReadyServices ==
  Open # {} => /\ boot = "done"
               /\ rpc = {}
               /\ \A c \in Call : calls[c].stage = "returned"
               /\ \A i, j \in DOMAIN uses : uses[i] = uses[j]
=============================================================================
