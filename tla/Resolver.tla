------------------------------ MODULE Resolver ------------------------------
(***************************************************************************)
(* resolveEns of dweb-api-resolver/src/resolver/index.ts for one name, with *)
(* the name services (nameservice), the Arweave resolver (arweave.ts) and  *)
(* the Kubo client (services/KuboApiService of the server) it asks, while  *)
(* the owner of the name edits it.                                         *)
(*                                                                         *)
(* memoize is replaced by what TieredCache shows of it: a hit returns what *)
(* a call of the thunk has returned, a miss calls the thunk, and a call    *)
(* may be repeated before its outcome is kept. A content hash is a model   *)
(* value with a format; what a record says of it is left out.              *)
(***************************************************************************)
EXTENDS Integers

CONSTANTS
  Request,      \* concurrent requests; each can be used again
  Contract,     \* resolver contracts the name can be set to
  Content,      \* content hashes
  Format,       \* the format of each
  Nothing,      \* no contract, and no content hash
  BaseEnabled,  \* whether Basenames are configured and switched on
  KuboUrl,      \* whether the Kubo API is configured
  MaxCalls,     \* calls of the thunk by one memoize: 3 (TieredCache)
  MaxEdits      \* edits of the owner

\* A valid CID, a key for IPNS, an Arweave id, other schemes with a record, schemes
\* and CIDs without one, what the content hash library does not decode, and the
\* two kinds of data records.
Formats == {"ipfs", "ipns", "arweave", "plain", "unusable", "foreign", "dataUri", "dataUrl"}

ASSUME ResolverAssumption ==
  /\ Nothing \notin Contract
  /\ Nothing \notin Content
  /\ Format \in [Content -> Formats]
  /\ BaseEnabled \in BOOLEAN
  /\ KuboUrl \in BOOLEAN
  /\ MaxCalls \in Nat \ {0}
  /\ MaxEdits \in Nat

VARIABLES
  service,   \* the name service of the name
  resolver,  \* the contract the name is set to
  content,   \* the content hash in each contract
  edits,     \* edits made
  cached,    \* the results in the cache
  pc,        \* what a request is at, or how it ended
  calls,     \* calls of _resolveEns
  found,     \* the address of the contract that was read
  held,      \* the content hash that was read
  result,    \* the result in hand
  failed,    \* history: whether the name service failed in this call
  hadResolver,  \* history: the contracts the name was set to since the call began
  hadContent    \* history: the content hashes of each contract since the call began

chainVars == <<service, resolver, content, edits>>
callVars == <<pc, calls, found, held, result, failed>>
historyVars == <<hadResolver, hadContent>>
vars == <<chainVars, cached, callVars, historyVars>>

-----------------------------------------------------------------------------
(* State formulae. *)

\* getNameServiceForDomain: by the suffix of the name and the configuration.
Services == {"ens", "gnosis"} \cup (IF BaseEnabled THEN {"basenames"} ELSE {})

Active == {"resolver", "content", "arweave", "kubo", "resolved", "rejected"}

Ended == {"idle", "ok", "error"}

\* A redirect to the profile, a null record, a record and the data records; and the
\* content hash it was made of.
Result ==
  [tag : {"none", "null", "record", "dataUri", "dataUrl"}, from : Content \cup {Nothing}]

NoResult == [tag |-> "none", from |-> Nothing]

TypeOK ==
  /\ service \in Services
  /\ resolver \in Contract \cup {Nothing}
  /\ content \in [Contract -> Content \cup {Nothing}]
  /\ edits \in 0 .. MaxEdits
  /\ cached \subseteq Result
  /\ pc \in [Request -> Active \cup Ended]
  /\ calls \in [Request -> 0 .. MaxCalls]
  /\ found \in [Request -> Contract \cup {Nothing}]
  /\ \A r \in Request : pc[r] = "content" => found[r] # Nothing
  /\ held \in [Request -> Content \cup {Nothing}]
  /\ \A r \in Request : pc[r] \in {"arweave", "kubo"} => held[r] # Nothing
  /\ result \in [Request -> Result]
  /\ failed \in [Request -> BOOLEAN]
  /\ hadResolver \in [Request -> SUBSET (Contract \cup {Nothing})]
  /\ hadContent \in [Request -> [Contract -> SUBSET (Content \cup {Nothing})]]

Init ==
  /\ service \in Services
  /\ resolver \in Contract \cup {Nothing}
  /\ content \in [Contract -> Content \cup {Nothing}]
  /\ edits = 0
  /\ cached = {}
  /\ pc = [r \in Request |-> "idle"]
  /\ calls = [r \in Request |-> 0]
  /\ found = [r \in Request |-> Nothing]
  /\ held = [r \in Request |-> Nothing]
  /\ result = [r \in Request |-> NoResult]
  /\ failed = [r \in Request |-> FALSE]
  /\ hadResolver = [r \in Request |-> {}]
  /\ hadContent = [r \in Request |-> [k \in Contract |-> {}]]

-----------------------------------------------------------------------------
(* memoize. *)

\* A call of _resolveEns begins.
Begin(r) ==
  /\ pc' = [pc EXCEPT ![r] = "resolver"]
  /\ calls' = [calls EXCEPT ![r] = @ + 1]
  /\ found' = [found EXCEPT ![r] = Nothing]
  /\ held' = [held EXCEPT ![r] = Nothing]
  /\ failed' = [failed EXCEPT ![r] = FALSE]
  /\ hadResolver' = [hadResolver EXCEPT ![r] = {resolver}]
  /\ hadContent' = [hadContent EXCEPT ![r] = [k \in Contract |-> {content[k]}]]
  /\ UNCHANGED result

\* The request has its answer.
End(r, answer, x) ==
  /\ pc' = [pc EXCEPT ![r] = answer]
  /\ calls' = [calls EXCEPT ![r] = 0]
  /\ found' = [found EXCEPT ![r] = Nothing]
  /\ held' = [held EXCEPT ![r] = Nothing]
  /\ result' = [result EXCEPT ![r] = x]
  /\ failed' = [failed EXCEPT ![r] = FALSE]
  /\ hadResolver' = [hadResolver EXCEPT ![r] = {}]
  /\ hadContent' = [hadContent EXCEPT ![r] = [k \in Contract |-> {}]]

Hit(r) ==
  /\ pc[r] \in Ended
  /\ \E x \in cached : End(r, "ok", x)
  /\ UNCHANGED <<chainVars, cached>>

Miss(r) ==
  /\ pc[r] \in Ended
  /\ Begin(r)
  /\ UNCHANGED <<chainVars, cached>>

\* A result is put into the cache, or its SET fails.
Kept(r) == cached' \in {cached, cached \cup {result[r]}}

\* A Redis command fails after the call, perhaps only the TTL after the SET, or the
\* call was rejected: memoize calls the thunk again.
Again(r) ==
  /\ calls[r] < MaxCalls
  /\ \/ pc[r] = "resolved" /\ Kept(r)
     \/ pc[r] = "rejected" /\ UNCHANGED cached
  /\ Begin(r)
  /\ UNCHANGED chainVars

\* The result is returned.
Return(r) ==
  /\ pc[r] = "resolved"
  /\ Kept(r)
  /\ End(r, "ok", result[r])
  /\ UNCHANGED chainVars

\* Variant: after a rejection the last answer is kept for longer.
RejectStale(r) ==
  /\ pc[r] = "rejected"
  /\ cached' = cached \cup {result[r]}
  /\ End(r, "ok", result[r])
  /\ UNCHANGED chainVars

\* A rejection is passed on, and nothing is put into the cache.
Reject(r) ==
  /\ pc[r] = "rejected"
  /\ End(r, "error", NoResult)
  /\ UNCHANGED <<chainVars, cached>>

Expire(x) ==
  /\ x \in cached
  /\ cached' = cached \ {x}
  /\ UNCHANGED <<chainVars, callVars, historyVars>>

-----------------------------------------------------------------------------
(* _resolveEns, from a content hash to a result. *)

\* r goes on elsewhere.
Goto(r, place) ==
  /\ pc' = [pc EXCEPT ![r] = place]
  /\ UNCHANGED <<calls, result, failed>>

Resolved(r, tag, c) ==
  /\ pc' = [pc EXCEPT ![r] = "resolved"]
  /\ result' = [result EXCEPT ![r] = [tag |-> tag, from |-> c]]
  /\ UNCHANGED <<calls, failed>>

\* parseRecord, with getPeerId and formatCid.
ParseRecord(r, c) == Resolved(r, IF Format[c] = "unusable" THEN "null" ELSE "record", c)

\* getContentHashFallback, for what only the name services of this program decode.
Fallback(r, c) ==
  \/ Format[c] = "dataUri" /\ Resolved(r, "dataUri", c)
  \/ Format[c] = "dataUrl" /\ Resolved(r, "dataUrl", c)
  \/ Format[c] = "foreign" /\ (Resolved(r, "none", c) \/ Goto(r, "rejected"))

\* What becomes of the content hash, if there is one.
ContentHash(r, c) ==
  /\ held' = [held EXCEPT ![r] = c]
  /\ \/ c = Nothing /\ Resolved(r, "none", Nothing)
     \/ c # Nothing /\ Fallback(r, c)
     \/ c # Nothing /\ Format[c] = "arweave" /\ Goto(r, "arweave")
     \/ c # Nothing /\ Format[c] = "ipns" /\ KuboUrl /\ Goto(r, "kubo")
     \/ c # Nothing /\ Format[c] = "ipns" /\ ~KuboUrl /\ ParseRecord(r, c)
     \/ c # Nothing /\ Format[c] \in {"ipfs", "plain", "unusable"} /\ ParseRecord(r, c)

-----------------------------------------------------------------------------
(* The name services. *)

\* Variant: the zero address is taken for a contract.
BasenamesResolverUnchecked(r) ==
  /\ service = "basenames" /\ pc[r] = "resolver"
  /\ found' = [found EXCEPT ![r] = resolver]
  /\ Goto(r, "content")
  /\ UNCHANGED <<chainVars, cached, held, historyVars>>

\* BasenamesService reads the contract of the name from the registry.
BasenamesResolver(r) ==
  /\ service = "basenames" /\ pc[r] = "resolver"
  /\ found' = [found EXCEPT ![r] = resolver]
  /\ IF resolver = Nothing THEN Resolved(r, "none", Nothing) ELSE Goto(r, "content")
  /\ UNCHANGED <<chainVars, cached, held, historyVars>>

\* It reads the content hash from that contract, by then perhaps not the name's.
BasenamesContent(r) ==
  /\ service = "basenames" /\ pc[r] = "content"
  /\ ContentHash(r, content[found[r]])
  /\ UNCHANGED <<chainVars, cached, found, historyVars>>

\* getEnsContentHash does so in the same order.
EnsResolver(r) ==
  /\ service = "ens" /\ pc[r] = "resolver"
  /\ found' = [found EXCEPT ![r] = resolver]
  /\ IF resolver = Nothing THEN Resolved(r, "none", Nothing) ELSE Goto(r, "content")
  /\ UNCHANGED <<chainVars, cached, held, historyVars>>

EnsContent(r) ==
  /\ service = "ens" /\ pc[r] = "content"
  /\ ContentHash(r, content[found[r]])
  /\ UNCHANGED <<chainVars, cached, found, historyVars>>

\* Web3NameSdkService leaves it to a library.
Web3NameContent(r) ==
  /\ service = "gnosis" /\ pc[r] = "resolver"
  /\ ContentHash(r, IF resolver = Nothing THEN Nothing ELSE content[resolver])
  /\ UNCHANGED <<chainVars, cached, found, historyVars>>

\* Variant: a failure counts as no content hash.
RpcFailsQuietly(r) ==
  /\ pc[r] \in {"resolver", "content"}
  /\ failed' = [failed EXCEPT ![r] = TRUE]
  /\ pc' = [pc EXCEPT ![r] = "resolved"]
  /\ result' = [result EXCEPT ![r] = NoResult]
  /\ UNCHANGED <<chainVars, cached, calls, found, held, historyVars>>

\* A name service fails, or its call times out: _resolveEns throws.
RpcFails(r) ==
  /\ pc[r] \in {"resolver", "content"}
  /\ failed' = [failed EXCEPT ![r] = TRUE]
  /\ pc' = [pc EXCEPT ![r] = "rejected"]
  /\ UNCHANGED <<chainVars, cached, calls, found, held, result, historyVars>>

-----------------------------------------------------------------------------
(* Arweave and Kubo. *)

\* resolveArweave: a record of the contract that the id is of, or the id itself
\* when there is no such record or its state cannot be read. Either is a record. A
\* state of another shape, without a value or with an empty record, is a TypeError
\* that nobody catches.
ResolveArweave(r) ==
  /\ pc[r] = "arweave"
  /\ ParseRecord(r, held[r]) \/ Goto(r, "rejected")
  /\ UNCHANGED <<chainVars, cached, found, held, historyVars>>

\* Kubo answers: with a path that has a record, or with one that has none, such as
\* a path below a CID.
KuboAnswers(r) ==
  /\ pc[r] = "kubo"
  /\ \E tag \in {"record", "null"} : Resolved(r, tag, held[r])
  /\ UNCHANGED <<chainVars, cached, found, held, historyVars>>

\* Variant: the failure is passed on.
KuboFailsLoudly(r) ==
  /\ pc[r] = "kubo"
  /\ Goto(r, "rejected")
  /\ UNCHANGED <<chainVars, cached, found, held, historyVars>>

\* Variant: the request is sent without a timeout.
KuboNeverTimesOut(r) == pc[r] = "kubo" /\ UNCHANGED vars

\* Kubo fails, has no path, or does not answer in time: the IPNS record stands.
KuboFails(r) ==
  /\ pc[r] = "kubo"
  /\ ParseRecord(r, held[r])
  /\ UNCHANGED <<chainVars, cached, found, held, historyVars>>

-----------------------------------------------------------------------------
(* The owner of the name. *)

\* The name is set to another contract, or to none.
SetResolver(k) ==
  /\ edits < MaxEdits /\ k # resolver
  /\ edits' = edits + 1
  /\ resolver' = k
  /\ hadResolver' = [r \in Request |-> IF pc[r] \in Active THEN hadResolver[r] \cup {k} ELSE {}]
  /\ UNCHANGED <<service, content, cached, callVars, hadContent>>

\* A contract gets another content hash, or none.
SetContent(k, c) ==
  /\ edits < MaxEdits /\ c # content[k]
  /\ edits' = edits + 1
  /\ content' = [content EXCEPT ![k] = c]
  /\ hadContent' = [r \in Request |->
       IF pc[r] \in Active THEN [hadContent[r] EXCEPT ![k] = @ \cup {c}] ELSE hadContent[r]]
  /\ UNCHANGED <<service, resolver, cached, callVars, hadResolver>>

-----------------------------------------------------------------------------
(* The specification. *)

\* A call of a name service ends, and the Arweave library's.
NameServiceEnds(r) ==
  \/ BasenamesResolver(r) \/ BasenamesContent(r) \/ EnsResolver(r) \/ EnsContent(r)
  \/ Web3NameContent(r) \/ RpcFails(r)

MemoizeEnds(r) == Again(r) \/ Return(r) \/ Reject(r)

Next ==
  \/ \E r \in Request :
       \/ Hit(r) \/ Miss(r) \/ MemoizeEnds(r)
       \/ NameServiceEnds(r)
       \/ ResolveArweave(r) \/ KuboAnswers(r) \/ KuboFails(r)
  \/ \E x \in cached : Expire(x)
  \/ \E k \in Contract \cup {Nothing} : SetResolver(k)
  \/ \E k \in Contract, c \in Content \cup {Nothing} : SetContent(k, c)

Spec == Init /\ [][Next]_vars

\* The name services and the Arweave library end their calls; of Kubo only the
\* timer of the request is needed.
FairFor(r) ==
  /\ WF_vars(NameServiceEnds(r)) /\ WF_vars(MemoizeEnds(r))
  /\ WF_vars(ResolveArweave(r)) /\ WF_vars(KuboFails(r))

FairRequests == \A r \in Request : FairFor(r)

\* Cached results run out.
Fairness == FairRequests /\ \A x \in Result : WF_vars(Expire(x))

FairSpec == Spec /\ Fairness

-----------------------------------------------------------------------------
(* Properties. *)

\* c was to be read under the name since the call of r began: the name was set to
\* a contract and, perhaps at another time, that contract had c.
WasThere(r, c) ==
  \/ c = Nothing /\ Nothing \in hadResolver[r]
  \/ \E k \in hadResolver[r] \ {Nothing} : c \in hadContent[r][k]

\* What is about to be cached was there to be read while it was resolved. A name
\* with a content hash is not taken for one without because a call has failed
\* ("deliberately not caught", BasenamesService.ts:51), whatever the owner edits
\* between the two reads.
ResolvedWasThere == \A r \in Request : pc[r] = "resolved" => WasThere(r, result[r].from)

\* Kubo fails no resolution: only the name service can, a content hash that its
\* library does not decode, or the state of an Arweave contract.
KuboFailsNothing ==
  \A r \in Request : pc[r] = "rejected" =>
    failed[r] \/ (held[r] # Nothing /\ Format[held[r]] \in {"foreign", "arweave"})

\* What the name resolves to.
Current == IF resolver = Nothing THEN Nothing ELSE content[resolver]

\* Once the owner is done, the cache comes to hold nothing but results of what the
\* name is set to now, although calls that began before are still to end.
CacheCatchesUp == <>[](\A x \in cached : x.from = Current)

\* Every request ends, whether Kubo answers or not.
RequestsEnd == \A r \in Request : pc[r] \in Active ~> pc[r] \in Ended

\* A call during which the owner edits nothing results in what the name is set to
\* when it ends: a result that is out of date when it is cached was overtaken.
Undisturbed(r) ==
  hadResolver[r] = {resolver} /\ \A k \in Contract : hadContent[r][k] = {content[k]}

UndisturbedIsCurrent ==
  \A r \in Request : pc[r] = "resolved" /\ Undisturbed(r) => result[r].from = Current

\* Nothing that a request waits for is out of the question while it waits: the name
\* service can answer or fail, memoize can go on, the Arweave library can answer,
\* and the timer of the request to Kubo can fire.
WaitsCanEnd ==
  \A r \in Request :
    /\ pc[r] \in {"resolver", "content"} => ENABLED <<NameServiceEnds(r)>>_vars
    /\ pc[r] \in {"resolved", "rejected"} => ENABLED <<MemoizeEnds(r)>>_vars
    /\ pc[r] = "arweave" => ENABLED <<ResolveArweave(r)>>_vars
    /\ pc[r] = "kubo" => ENABLED <<KuboFails(r)>>_vars
=============================================================================
