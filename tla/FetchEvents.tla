---------------------------- MODULE FetchEvents ----------------------------
(***************************************************************************)
(* The fetch events of the service worker (dweb-api-serviceworker,         *)
(* service-worker.ts and resolveUrl of lib.ts): every request of a page    *)
(* that a worker controls becomes an event, which the worker answers by    *)
(* resolving the name itself. The events of a worker interleave at their   *)
(* awaits and share one global, verifiedFetch. External: the browser, the  *)
(* RPC endpoints, the gateways and the library @helia/verified-fetch.      *)
(***************************************************************************)
EXTENDS Naturals

CONSTANTS
  Tabs,     \* browser tabs; each has at most one fetch event in flight
  Workers,  \* instances of the service worker
  NoWorker, \* not an instance
  MaxHops   \* where the count of an event's redirects stops: so many or more

ASSUME NoWorkerIsNone == NoWorker \notin Workers
ASSUME MaxHopsIsNatural == MaxHops \in Nat

VARIABLES
  trustless,      \* config.verifiedFetch, fixed when the bundle is built
  ensHost,        \* whether the visited host is an ENS name after substitution
  verifiedFetch,  \* per worker: the global is set
  navigates,      \* the event is the navigation of its tab, not a request of the page
  step,           \* what an event waits for
  at,             \* the worker that handles the event, while it does
  ipfs,           \* the name of the event has an IPFS or IPNS record
  hops,           \* redirects a verified fetch has followed, up to MaxHops
  reply           \* how the event was answered

fetchVars == <<trustless, ensHost, verifiedFetch, navigates, step, at, ipfs, hops, reply>>

Events == Tabs

-----------------------------------------------------------------------------
(* Records, and what recordToProxyRecord and resolveProxyRecordToURL make  *)
(* of them under the configuration of lib.ts.                              *)

Ipfs == {"ipfs-ns", "ipns-ns"}

NoRecord == "none"

Kinds == Ipfs \cup {"arweave-ns", "swarm", "adnl", "ens-socials-redirect",
                    "DataUriRecord", "DataUrlRecord", NoRecord}

\* resolveUrl yields a URL.
Fetchable == Ipfs \cup {"arweave-ns", "swarm", "adnl", "DataUriRecord"}

\* It throws: an IPFS identifier or an ADNL address fits no DNS label, a
\* DataUrlRecord only has a relative URL, the resolver rejects.
Throwing == Ipfs \cup {"adnl", "DataUrlRecord", NoRecord}

\* It yields null: the bundle has no endpoint for ens-socials-redirect.
Unfetchable == {"ens-socials-redirect", NoRecord}

\* What one call of verifiedFetch answers: redirected says that the library
\* followed a redirect itself, moved that the status is 301, 302, 303, 307 or 308.
Response == [redirected : BOOLEAN, moved : BOOLEAN]

-----------------------------------------------------------------------------
Calls == {"first", "url", "location"}
Pending == {"init", "creating", "resolving", "plain", "gateway"} \cup Calls
Over == {"idle", "answered", "rejected"}

FetchInit ==
  /\ trustless \in BOOLEAN
  /\ ensHost \in BOOLEAN
  /\ verifiedFetch = [w \in Workers |-> FALSE]
  /\ navigates = [e \in Events |-> TRUE]
  /\ step = [e \in Events |-> "idle"]
  /\ at = [e \in Events |-> NoWorker]
  /\ ipfs = [e \in Events |-> FALSE]
  /\ hops = [e \in Events |-> 0]
  /\ reply = [e \in Events |-> "none"]

\* A fetch event reaches worker w, where createServiceWorker awaits the RPC.
Dispatch(e, w, isNavigation) ==
  /\ navigates' = [navigates EXCEPT ![e] = isNavigation]
  /\ step' = [step EXCEPT ![e] = "init"]
  /\ at' = [at EXCEPT ![e] = w]
  /\ ipfs' = [ipfs EXCEPT ![e] = FALSE]
  /\ reply' = [reply EXCEPT ![e] = "none"]
  /\ UNCHANGED <<trustless, ensHost, verifiedFetch, hops>>

Goto(e, s) ==
  /\ step' = [step EXCEPT ![e] = s]
  /\ UNCHANGED <<at, hops, reply>>

Ends(e, s, r) ==
  /\ step' = [step EXCEPT ![e] = s]
  /\ reply' = [reply EXCEPT ![e] = r]
  /\ at' = [at EXCEPT ![e] = NoWorker]
  /\ hops' = [hops EXCEPT ![e] = 0]

\* respondWith is given the answer r.
Answer(e, r) == Ends(e, "answered", r)

\* respondWith is given a rejection: the page sees a network error.
Reject(e) == Ends(e, "rejected", "none")

\* After the verified fetch is there: the two bundles of the loader are
\* fetched as they are, every other URL is resolved.
Route(e) == Goto(e, "resolving") \/ (~navigates[e] /\ Goto(e, "plain"))

\* Variant: an event leaves the creation to another that is at it.
InitEndsOnce(e) ==
  /\ step[e] = "init"
  /\ \/ IF trustless /\ ~verifiedFetch[at[e]] /\ "creating" \notin {step[d] : d \in Events}
          THEN Goto(e, "creating") ELSE Route(e)
     \/ Reject(e)
  /\ UNCHANGED <<trustless, ensHost, navigates, verifiedFetch, ipfs>>

InitEnds(e) ==
  /\ step[e] = "init"
  /\ \/ IF trustless /\ ~verifiedFetch[at[e]] THEN Goto(e, "creating") ELSE Route(e)
     \/ Reject(e)
  /\ UNCHANGED <<trustless, ensHost, navigates, verifiedFetch, ipfs>>

\* createHeliaHTTP and createVerifiedFetch: an event that comes second
\* overwrites the instance of the first.
Created(e) ==
  /\ step[e] = "creating"
  /\ verifiedFetch' = [verifiedFetch EXCEPT ![at[e]] = TRUE]
  /\ Route(e)
  /\ UNCHANGED <<trustless, ensHost, navigates, ipfs>>

\* Variant: a creation that fails is tried again without end.
CreatesAgain(e) ==
  /\ step[e] = "creating"
  /\ Goto(e, "init") \/ Reject(e)
  /\ UNCHANGED <<trustless, ensHost, navigates, verifiedFetch, ipfs>>

NotCreated(e) ==
  /\ step[e] = "creating"
  /\ Reject(e)
  /\ UNCHANGED <<trustless, ensHost, navigates, verifiedFetch, ipfs>>

\* A page sends requests to any host; a navigation is to the visited one.
NotEnsName(e) ==
  /\ step[e] = "resolving" /\ (~navigates[e] \/ ~ensHost)
  /\ Goto(e, "plain")
  /\ UNCHANGED <<trustless, ensHost, navigates, verifiedFetch, ipfs>>

\* Without the global the handler throws
\* "verifiedFetch is not set".
VerifiedStep(e) == IF verifiedFetch[at[e]] THEN Goto(e, "first") ELSE Reject(e)

\* Variant: only an IPFS record.
ByVerifiedFetchIpfs(k) == trustless /\ k = "ipfs-ns"

\* resolveUrl yields FetchableByVerifiedFetch for a record of kind k.
ByVerifiedFetch(k) == trustless /\ k \in Ipfs

\* Variant: the handler returns nothing.
NotFoundUndefined(e) == Answer(e, "undefined")

NotFound(e) == Answer(e, "notFound")

\* The name has no record, or one of kind k. The resolver may reject, and the
\* record may be of a kind that yields an error or nothing to fetch.
Resolves(e) ==
  /\ step[e] = "resolving" /\ (~navigates[e] \/ ensHost)
  /\ \E k \in Kinds :
       /\ ipfs' = [ipfs EXCEPT ![e] = k \in Ipfs]
       /\ \/ k \in Fetchable /\ IF ByVerifiedFetch(k) THEN VerifiedStep(e) ELSE Goto(e, "gateway")
          \/ k \in Throwing /\ Reject(e)
          \/ k \in Unfetchable /\ NotFound(e)
  /\ UNCHANGED <<trustless, ensHost, navigates, verifiedFetch>>

FetchEnds(e) ==
  /\ step[e] \in {"plain", "gateway"}
  /\ Answer(e, step[e]) \/ Reject(e)
  /\ UNCHANGED <<trustless, ensHost, navigates, verifiedFetch, ipfs>>

\* The do loop compares the response with the one at its start: it ends when
\* it made no call. The test of the status comes after the call for ret.url
\* within one round, and the next round tests redirected again.
NextCall(e, r) ==
  IF step[e] = "url" /\ r.moved THEN "location"
  ELSE IF r.redirected THEN "url"
  ELSE IF r.moved THEN "location"
  ELSE "none"

\* What response r is for the page.
ReplyOf(r) == IF r.redirected \/ r.moved THEN "redirect" ELSE "verified"

\* Nothing limits the redirects that are followed.
VerifiedAnswers(e) ==
  /\ step[e] \in Calls
  /\ \E r \in Response :
       IF NextCall(e, r) = "none"
         THEN Answer(e, ReplyOf(r))
         ELSE /\ step' = [step EXCEPT ![e] = NextCall(e, r)]
              /\ hops' = [hops EXCEPT ![e] = IF @ < MaxHops THEN @ + 1 ELSE @]
              /\ UNCHANGED <<at, reply>>
  /\ UNCHANGED <<trustless, ensHost, navigates, verifiedFetch, ipfs>>

VerifiedFails(e) ==
  /\ step[e] \in Calls
  /\ Reject(e)
  /\ UNCHANGED <<trustless, ensHost, navigates, verifiedFetch, ipfs>>

\* The events worker w handles.
EventsOf(w) == {e \in Events : at[e] = w}

\* The browser stops a worker at any time: its global is lost, and its events
\* fail. The next event starts it again.
Terminate(w) ==
  /\ verifiedFetch[w] \/ EventsOf(w) # {}
  /\ verifiedFetch' = [verifiedFetch EXCEPT ![w] = FALSE]
  /\ step' = [e \in Events |-> IF e \in EventsOf(w) THEN "rejected" ELSE step[e]]
  /\ at' = [e \in Events |-> IF e \in EventsOf(w) THEN NoWorker ELSE at[e]]
  /\ hops' = [e \in Events |-> IF e \in EventsOf(w) THEN 0 ELSE hops[e]]
  /\ UNCHANGED <<trustless, ensHost, navigates, ipfs, reply>>

\* What follows when the RPC of EnsService.init has answered or failed.
Proceeds(e) ==
  \/ Created(e) \/ NotCreated(e)
  \/ NotEnsName(e) \/ Resolves(e)
  \/ FetchEnds(e)
  \/ VerifiedAnswers(e) \/ VerifiedFails(e)

Handle(e) == InitEnds(e) \/ Proceeds(e)

-----------------------------------------------------------------------------
(* Properties. *)

FetchTypeOK ==
  /\ trustless \in BOOLEAN
  /\ ensHost \in BOOLEAN
  /\ verifiedFetch \in [Workers -> BOOLEAN]
  /\ navigates \in [Events -> BOOLEAN]
  /\ step \in [Events -> Pending \cup Over]
  /\ at \in [Events -> Workers \cup {NoWorker}]
  /\ ipfs \in [Events -> BOOLEAN]
  /\ hops \in [Events -> 0..MaxHops]
  /\ reply \in [Events -> {"none", "plain", "gateway", "notFound", "redirect", "verified"}]

\* The guard of service-worker.ts:84 never throws: an event that reaches the
\* resolution of its name in the trustless mode finds verifiedFetch set, though
\* other events create it at the same time and the browser stops the worker.
VerifiedFetchIsSet ==
  \A e \in Events : trustless /\ step[e] \in {"resolving"} \cup Calls => verifiedFetch[at[e]]

\* In the trustless mode no answer for an IPFS or IPNS record comes from a
\* gateway that is taken at its word: whatever fails, the event is rejected
\* or answered by the verified fetch.
TrustlessIsVerified ==
  \A e \in Events :
    trustless /\ ipfs[e] =>
      /\ step[e] # "gateway"
      /\ step[e] = "answered" => reply[e] = "verified"

\* What the page gets of a verified fetch is the end of the chain of
\* redirects, however its responses mix redirects that the library followed
\* with redirects it handed on: never a redirect itself.
RedirectsFollowed ==
  \A e \in Events : step[e] = "answered" => reply[e] # "redirect"
=============================================================================
