------------------------------ MODULE Gateway ------------------------------
(***************************************************************************)
(* The requests of one server process: proxyServer, caddy and the          *)
(* proxyServerLogic they share in dweb-api-server/src/server/index.ts,     *)
(* with checkLinkedDomains and checkBlacklist of                           *)
(* services/DomainsQueryService/index.ts.                                  *)
(* resolveEns is any kind of record, or an error (module Resolver).        *)
(***************************************************************************)
EXTENDS DomainsApi

CONSTANTS
  Request,     \* concurrent requests; each can be used again
  MaxHops,     \* getMaxHops()
  Socials,     \* whether getEnsSocialsEndpoint is set
  DataUrl      \* whether getConfigDataUrlEndpoint() is set

ASSUME GatewayAssumption ==
  /\ MaxHops \in Nat \ {0}
  /\ Socials \in BOOLEAN
  /\ DataUrl \in BOOLEAN

VARIABLES
  pc,         \* what a request is at, or how it was answered
  listener,   \* the listener it came to
  search,     \* `search` of checkLinkedDomains, later the hostname it returned
  tries,      \* hops left
  next,       \* the index in checkBlacklist of the suffix to check next
  record,     \* the kind of record resolveEns returned
  banned      \* history: the domains settled on the blacklist ever since it began

requestVars == <<pc, listener, search, tries, next, record, banned>>
vars == <<apiVars, requestVars>>

-----------------------------------------------------------------------------
(* State formulae. *)

Active == {"limiter", "link", "check", "resolve", "handler"}

\* 200, 308, 451, 429, 404, the two error pages, 500, and the connection lost
\* with the process.
Answer ==
  {"ok", "redirect", "legal", "limited", "notFound", "unsupported", "noContent", "error", "lost"}

Ended == {"idle"} \cup Answer

\* No content hash, a content hash that is not supported, one to proxy, one that
\* fits no DNS label, one whose backend is switched off, and the two data records.
Kind == {"none", "null", "proxied", "unencodable", "disabled", "dataUri", "dataUrl"}

TypeOK ==
  /\ ApiTypeOK
  /\ pc \in [Request -> Active \cup Ended]
  /\ listener \in [Request -> {"proxy", "ask"}]
  /\ search \in [Request -> Domain]
  /\ tries \in [Request -> 0 .. MaxHops]
  /\ next \in [Request -> Nat \ {0}]
  /\ \A r \in Request : pc[r] = "check" => next[r] <= Len(Suffixes[search[r]])
  /\ record \in [Request -> Kind]
  /\ banned \in [Request -> SUBSET Domain]

Init ==
  /\ ApiInit
  /\ pc = [r \in Request |-> "idle"]
  /\ listener = [r \in Request |-> "proxy"]
  /\ search \in [Request -> Domain]
  /\ tries = [r \in Request |-> 0]
  /\ next = [r \in Request |-> 1]
  /\ record = [r \in Request |-> "null"]
  /\ banned = [r \in Request |-> {}]

\* r goes on elsewhere, with what it knows.
Goto(r, place) ==
  /\ pc' = [pc EXCEPT ![r] = place]
  /\ UNCHANGED <<tries, next, record>>

\* r is answered; the locals of the functions it was in are gone.
Return(r, answer) ==
  /\ pc' = [pc EXCEPT ![r] = answer]
  /\ tries' = [tries EXCEPT ![r] = 0]
  /\ next' = [next EXCEPT ![r] = 1]
  /\ record' = [record EXCEPT ![r] = "null"]

-----------------------------------------------------------------------------
(* A request comes in. *)

\* A request for d to a listener, with the domains settled on the blacklist.
Begin(r, d, at) ==
  /\ listener' = [listener EXCEPT ![r] = at]
  /\ search' = [search EXCEPT ![r] = d]
  /\ banned' = [banned EXCEPT ![r] = Settled]

\* On to proxyServerLogic.
Enter(r) ==
  /\ pc' = [pc EXCEPT ![r] = "link"]
  /\ tries' = [tries EXCEPT ![r] = MaxHops]
  /\ UNCHANGED <<next, record>>

\* proxyServer: any hostname, after substitution. Without a host header
\* parseHostnameFromRequest throws.
Proxy(r, d) ==
  /\ pc[r] \in Ended
  /\ Enter(r) \/ Return(r, "error")
  /\ Begin(r, d, "proxy")
  /\ UNCHANGED apiVars

\* caddy: only names under an ENS TLD with few labels; the limiter may be off.
Ask(r, d) ==
  /\ pc[r] \in Ended
  /\ \/ Return(r, "unsupported")
     \/ d \in EnsName /\ (Goto(r, "limiter") \/ Enter(r))
  /\ Begin(r, d, "ask")
  /\ UNCHANGED apiVars

\* incrementRateLimit: under the limit, over it, or rejected.
RateLimited(r) ==
  /\ pc[r] = "limiter"
  /\ Enter(r) \/ Return(r, "limited") \/ Return(r, "error")
  /\ UNCHANGED <<apiVars, listener, search, banned>>

-----------------------------------------------------------------------------
(* checkLinkedDomains. *)

\* Variant: the loop of checkBlacklist begins with the domain above.
LinkEndsAbove(r) ==
  /\ pc[r] = "link"
  /\ search[r] \in EnsName \/ tries[r] = 0
  /\ pc' = [pc EXCEPT ![r] = "check"]
  /\ tries' = [tries EXCEPT ![r] = 0]
  /\ next' = [next EXCEPT ![r] = 2]
  /\ UNCHANGED <<apiVars, listener, search, record, banned>>

\* hostnameIsENSTLD(search), or the hops are used up: search is returned, and
\* checkBlacklist begins with the whole hostname.
LinkEnds(r) ==
  /\ pc[r] = "link"
  /\ search[r] \in EnsName \/ tries[r] = 0
  /\ pc' = [pc EXCEPT ![r] = "check"]
  /\ tries' = [tries EXCEPT ![r] = 0]
  /\ next' = [next EXCEPT ![r] = 1]
  /\ UNCHANGED <<apiVars, listener, search, record, banned>>

\* search is to be looked up.
Linking(r) == pc[r] = "link" /\ search[r] \notin EnsName /\ tries[r] > 0

\* Variant: hops are not counted.
LinkQueryForEver(r) ==
  /\ Linking(r)
  /\ \E answer \in Answers(search[r]) :
       IF answer.canonical = NoDomain
         THEN Return(r, "unsupported") /\ UNCHANGED search
         ELSE search' = [search EXCEPT ![r] = answer.canonical] /\ Goto(r, "link")
  /\ UNCHANGED <<apiVars, listener, banned>>

\* A hop. Without a canonical name search becomes null, and so does the result.
LinkQuery(r) ==
  /\ Linking(r)
  /\ \E answer \in Answers(search[r]) :
       IF answer.canonical = NoDomain
         THEN Return(r, "unsupported") /\ UNCHANGED search
         ELSE /\ search' = [search EXCEPT ![r] = answer.canonical]
              /\ tries' = [tries EXCEPT ![r] = @ - 1]
              /\ UNCHANGED <<pc, next, record>>
  /\ UNCHANGED <<apiVars, listener, banned>>

-----------------------------------------------------------------------------
(* checkBlacklist. *)

\* An answer for the suffix to check next.
Answered(r, blacklisted) ==
  /\ pc[r] = "check"
  /\ \E answer \in Answers(Suffixes[search[r]][next[r]]) : answer.blacklisted = blacklisted

Blocked(r) ==
  /\ Answered(r, TRUE)
  /\ Return(r, "legal")
  /\ UNCHANGED <<apiVars, listener, search, banned>>

CheckNext(r) ==
  /\ next' = [next EXCEPT ![r] = @ + 1]
  /\ UNCHANGED <<pc, tries, record>>

\* Variant: the loop goes on after the last suffix.
PassesTooFar(r) ==
  /\ Answered(r, FALSE)
  /\ IF next[r] <= Len(Suffixes[search[r]]) THEN CheckNext(r) ELSE Goto(r, "resolve")
  /\ UNCHANGED <<apiVars, listener, search, banned>>

\* A suffix that is not blacklisted, and the last one: on to resolveEns.
Passes(r) ==
  /\ Answered(r, FALSE)
  /\ IF next[r] < Len(Suffixes[search[r]]) THEN CheckNext(r) ELSE Goto(r, "resolve")
  /\ UNCHANGED <<apiVars, listener, search, banned>>

\* The API answers with a 5xx status or not at all: memoize rejects.
QueryFails(r) ==
  /\ pc[r] = "check" \/ Linking(r)
  /\ Return(r, "error")
  /\ UNCHANGED <<apiVars, listener, search, banned>>

-----------------------------------------------------------------------------
(* The answer. *)

\* resolveEns returns a record. proxyServer calls requestHandler without awaiting it.
ResolvedForProxy(r, kind) ==
  /\ pc[r] = "resolve" /\ listener[r] = "proxy"
  /\ pc' = [pc EXCEPT ![r] = "handler"]
  /\ record' = [record EXCEPT ![r] = kind]
  /\ UNCHANGED <<apiVars, listener, search, tries, next, banned>>

\* caddy answers at once.
ResolvedForAsk(r, kind) ==
  /\ pc[r] = "resolve" /\ listener[r] = "ask"
  /\ Return(r, IF kind = "none" /\ ~Socials THEN "notFound" ELSE "ok")
  /\ UNCHANGED <<apiVars, listener, search, banned>>

\* resolveEns rejects.
ResolveFails(r) ==
  /\ pc[r] = "resolve"
  /\ Return(r, "error")
  /\ UNCHANGED <<apiVars, listener, search, banned>>

\* requestHandler, for every record it can answer.
HandlerAnswer(kind) ==
  CASE kind = "null" -> "unsupported"
    [] kind = "none" -> IF Socials THEN "ok" ELSE "noContent"
    [] kind = "proxied" -> "ok"
    [] kind = "disabled" -> "noContent"
    [] kind = "dataUri" -> IF DataUrl THEN "redirect" ELSE "unsupported"
    [] kind = "dataUrl" -> IF DataUrl THEN "ok" ELSE "unsupported"

RequestHandler(r) ==
  /\ pc[r] = "handler"
  /\ record[r] # "unencodable"
  /\ Return(r, HandlerAnswer(record[r]))
  /\ UNCHANGED <<apiVars, listener, search, banned>>

\* recordToProxyRecord throws. Nobody handles the rejection, which ends the
\* process and with it every request in it.
RequestHandlerThrows(r) ==
  /\ pc[r] = "handler"
  /\ record[r] = "unencodable"
  /\ LET lost == {q \in Request : pc[q] \in Active}
     IN  /\ pc' = [q \in Request |-> IF q \in lost THEN "lost" ELSE pc[q]]
         /\ tries' = [q \in Request |-> IF q \in lost THEN 0 ELSE tries[q]]
         /\ next' = [q \in Request |-> IF q \in lost THEN 1 ELSE next[q]]
         /\ record' = [q \in Request |-> IF q \in lost THEN "null" ELSE record[q]]
  /\ UNCHANGED <<apiVars, listener, search, banned>>

-----------------------------------------------------------------------------
(* The domains API. *)

ListingChanges(d) ==
  /\ ApiListingChanges(d)
  /\ banned' = [r \in Request |-> banned[r] \ {d}]
  /\ UNCHANGED <<pc, listener, search, tries, next, record>>

Trouble(d) ==
  /\ ApiTrouble(d)
  /\ banned' = [r \in Request |-> banned[r] \ {d}]
  /\ UNCHANGED <<pc, listener, search, tries, next, record>>

Tick == ApiTick /\ UNCHANGED requestVars

-----------------------------------------------------------------------------
(* The specification. *)

Progress(r) ==
  \/ RateLimited(r)
  \/ LinkEnds(r) \/ LinkQuery(r)
  \/ Blocked(r) \/ Passes(r) \/ QueryFails(r)
  \/ \E kind \in Kind : ResolvedForProxy(r, kind) \/ ResolvedForAsk(r, kind)
  \/ ResolveFails(r)
  \/ RequestHandler(r) \/ RequestHandlerThrows(r)

Next ==
  \/ \E r \in Request :
       \/ \E d \in Domain : Proxy(r, d) \/ Ask(r, d)
       \/ Progress(r)
  \/ \E d \in Contested : ListingChanges(d) \/ Trouble(d)
  \/ Tick

Spec == Init /\ [][Next]_vars

\* What a request awaits settles.
FairFor(r) == WF_vars(Progress(r))

Fairness == \A r \in Request : FairFor(r)

FairSpec == Spec /\ Fairness

-----------------------------------------------------------------------------
(* Properties. *)

Served == {"ok", "redirect"}

\* Nothing is served of a domain, nor a certificate allowed for a hostname that
\* links to it, when it or a domain above it has been settled on the blacklist since
\* before the request: whatever links led to it and whatever changes while it is being
\* resolved. The code checks the domain at which the links end, not a hostname that
\* links elsewhere, and a domain that has been in Trouble is not settled.
BlacklistEnforced ==
  \A r \in Request : pc[r] \in Served => SuffixesOf(search[r]) \cap banned[r] = {}

\* A chain of links that does not end in an ENS name, such as a cycle, is
\* detected, and nothing is resolved for it.
CycleDetected == \A r \in Request : pc[r] = "resolve" => search[r] \in EnsName

\* Every request is answered, or lost with its process, however the links run.
RequestsAnswered == \A r \in Request : pc[r] \in Active ~> pc[r] \in Ended

\* What an active request awaits is not out of the question.
WaitsCanEnd == \A r \in Request : pc[r] \in Active => ENABLED <<Progress(r)>>_vars

\* How far a request is from its answer: the stage it is at, each hop being one,
\* and the suffixes that checkBlacklist has left.
Stage(r) ==
  CASE pc[r] = "limiter" -> MaxHops + 4
    [] pc[r] = "link" -> tries[r] + 3
    [] pc[r] = "check" -> 2
    [] pc[r] = "resolve" -> 1
    [] OTHER -> 0

SuffixesLeft(r) == IF pc[r] = "check" THEN Len(Suffixes[search[r]]) - next[r] ELSE 0

Standing(r, i, j) == pc[r] \in Active /\ Stage(r) = i /\ SuffixesLeft(r) = j

Nearer(r, i, j) == Stage(r) < i \/ (Stage(r) = i /\ SuffixesLeft(r) < j)

\* Wherever a request stands, it is answered or comes nearer to its answer, whatever
\* links and listings do meanwhile: it never starts over.
AnswersComeNearer ==
  \A r \in Request, i, j \in Nat : Standing(r, i, j) ~> pc[r] \in Ended \/ Nearer(r, i, j)
=============================================================================
