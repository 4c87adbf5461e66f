------------------------------ MODULE Failover ------------------------------
(***************************************************************************)
(* One RPC request of EnsService over its Ethereum endpoints: the main one *)
(* and the failovers, in the order in which the constructor of EnsService  *)
(* hands them to the FallbackProvider of ethers (external), with the       *)
(* timeouts it reads from the configuration.                               *)
(***************************************************************************)
EXTENDS Naturals, FiniteSets

CONSTANTS
  Backends,                   \* how many endpoints are configured, 1 to 3
  Quorum,                     \* ETH_PROVIDER_QUORUM, in 1 .. Backends
  provider_stall_timeout_ms,  \* ETH_PROVIDER_STALL_TIMEOUT_MS, in units of time
  provider_timeout_ms,        \* ETH_PROVIDER_TIMEOUT_MS, in units of time
  MaxTime                     \* bound of the clock

VARIABLES
  now,
  applied,  \* whether a timeout set on _getConnection() reaches the provider
  status,   \* per endpoint
  since,    \* per endpoint: when it was asked
  bumped,   \* endpoints whose stall timer has fired
  dropped,  \* endpoints given up by the timeout of their connection
  request   \* "pending", "answered", "failed"

failoverVars == <<now, applied, status, since, bumped, dropped, request>>

Endpoint == 1..Backends

-----------------------------------------------------------------------------
(* The configuration. *)

getStallTimeout == provider_stall_timeout_ms
getProviderStallTimeout == provider_timeout_ms

\* What the constructor makes of it.
connectionTimeout == getStallTimeout
stallTimeout == getProviderStallTimeout

-----------------------------------------------------------------------------
(* The request. *)

\* As many endpoints as the quorum needs are asked at once.
FailoverInit ==
  /\ now = 0
  /\ applied \in BOOLEAN
  /\ status = [b \in Endpoint |-> IF b <= Quorum THEN "asked" ELSE "unasked"]
  /\ since = [b \in Endpoint |-> 0]
  /\ bumped = {}
  /\ dropped = {}
  /\ request = "pending"

In(s) == {b \in Endpoint : status[b] = s}

Silent(b, timeout) == status[b] = "asked" /\ now - since[b] >= timeout

\* The next endpoint by priority is asked, when there is one; st is what the
\* statuses have become before.
AskNext(st) ==
  LET rest == {b \in Endpoint : st[b] = "unasked"}
      next == CHOOSE b \in rest : \A c \in rest : b <= c
  IN  IF rest = {}
        THEN status' = st /\ UNCHANGED since
        ELSE /\ status' = [st EXCEPT ![next] = "asked"]
             /\ since' = [since EXCEPT ![next] = now]

Answers(b) ==
  /\ request = "pending" /\ status[b] = "asked"
  /\ status' = [status EXCEPT ![b] = "answered"]
  /\ request' = IF Cardinality(In("answered")) + 1 >= Quorum THEN "answered" ELSE request
  /\ UNCHANGED <<now, applied, since, bumped, dropped>>

Fails(b) ==
  /\ request = "pending" /\ status[b] = "asked"
  /\ AskNext([status EXCEPT ![b] = "failed"])
  /\ request' = IF Backends - Cardinality(In("failed")) - 1 < Quorum THEN "failed" ELSE request
  /\ UNCHANGED <<now, applied, bumped>>

EndpointFails(b) == Fails(b) /\ UNCHANGED dropped

ConnectionTimesOut(b) ==
  /\ applied /\ Silent(b, connectionTimeout)
  /\ Fails(b)
  /\ dropped' = dropped \cup {b}

Stalls(b) ==
  /\ request = "pending" /\ b \notin bumped /\ Silent(b, stallTimeout)
  /\ bumped' = bumped \cup {b}
  /\ AskNext(status)
  /\ UNCHANGED <<now, applied, dropped, request>>

\* No time passes while a timer is due.
Tick ==
  /\ request = "pending" /\ now < MaxTime
  /\ \A b \in Endpoint : /\ ~(applied /\ Silent(b, connectionTimeout))
                         /\ b \notin bumped => ~Silent(b, stallTimeout)
  /\ now' = now + 1
  /\ UNCHANGED <<applied, status, since, bumped, dropped, request>>

FailoverNext ==
  \/ \E b \in Endpoint : Answers(b) \/ EndpointFails(b) \/ ConnectionTimesOut(b) \/ Stalls(b)
  \/ Tick

FailoverSpec == FailoverInit /\ [][FailoverNext]_failoverVars

-----------------------------------------------------------------------------
(* Properties. *)

\* The comments of configuration/index.ts at the two timeouts: the first is the
\* time after which a silent endpoint is joined by the next (stallTimeout of the
\* FallbackProvider), the second the time an endpoint is given for its answer
\* (timeout of its connection).
TimeoutsAsDocumented ==
  /\ request = "pending" /\ In("unasked") # {} =>
       \E b \in In("asked") : now - since[b] <= provider_stall_timeout_ms
  /\ \A b \in dropped : now - since[b] >= provider_timeout_ms

\* The same of the code as it is: the two timeouts have changed places.
TimeoutsAsBuilt ==
  /\ request = "pending" /\ In("unasked") # {} =>
       \E b \in In("asked") : now - since[b] <= provider_timeout_ms
  /\ \A b \in dropped : now - since[b] >= provider_stall_timeout_ms
=============================================================================
