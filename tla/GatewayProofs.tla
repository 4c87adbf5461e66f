--------------------------- MODULE GatewayProofs ---------------------------
(* Theorems about Gateway, for every value of its constants. *)
EXTENDS Gateway, TLAPS

-----------------------------------------------------------------------------
(* Type correctness. *)

\* What the variables of the requests are.
RequestTypes ==
  /\ pc \in [Request -> Active \cup Ended]
  /\ listener \in [Request -> {"proxy", "ask"}]
  /\ search \in [Request -> Domain]
  /\ tries \in [Request -> 0 .. MaxHops]
  /\ next \in [Request -> Nat \ {0}]
  /\ record \in [Request -> Kind]
  /\ banned \in [Request -> SUBSET Domain]

\* checkBlacklist does not run past the last suffix.
Indexed == \A r \in Request : pc[r] = "check" => next[r] <= Len(Suffixes[search[r]])

LEMMA TypeParts == TypeOK <=> RequestTypes /\ ApiTypeOK /\ Indexed
  BY DEF TypeOK, RequestTypes, Indexed

\* A domain has at least one suffix, itself.
LEMMA SuffixesNotEmpty ==
  ASSUME NEW d \in Domain
  PROVE  Len(Suffixes[d]) \in Nat /\ Len(Suffixes[d]) >= 1
<1>1. Suffixes[d] \in Seq(Domain) /\ Suffixes[d] # << >>
  BY DomainsApiAssumption
<1>2. QED
  BY <1>1

\* The bounds, without the rest of the assumption.
LEMMA Bounds == MaxHops \in Nat \ {0} /\ MaxAge \in Nat /\ Contested \subseteq Domain
  BY GatewayAssumption, DomainsApiAssumption

\* A request that comes in.
LEMMA BeginKeepsTypes ==
  ASSUME RequestTypes, ApiTypeOK, Indexed, NEW r \in Request, NEW d \in Domain, Proxy(r, d) \/ Ask(r, d)
  PROVE  RequestTypes' /\ ApiTypeOK' /\ Indexed'
<1> USE DEF Proxy, Ask, Begin, Goto, Return, Enter, RequestTypes
<1>1. Settled \subseteq Domain /\ MaxHops \in Nat
  BY Bounds DEF Settled, ApiTypeOK
<1>2. pc' \in [Request -> Active \cup Ended] /\ \A q \in Request : pc'[q] = pc[q] \/ pc'[q] # "check"
  BY DEF Active, Ended, Answer
<1>3. listener' \in [Request -> {"proxy", "ask"}]
  OBVIOUS
<1>4. search' \in [Request -> Domain]
  OBVIOUS
<1>5. tries' \in [Request -> 0 .. MaxHops] /\ next' \in [Request -> Nat \ {0}]
  BY <1>1
<1>6. record' \in [Request -> Kind]
  BY DEF Kind
<1>7. banned' \in [Request -> SUBSET Domain]
  BY <1>1
<1>8. Indexed'
  BY DEF Indexed, Ended, Answer
<1>9. ApiTypeOK'
  BY DEF ApiTypeOK, apiVars
<1>10. QED
  BY <1>2, <1>3, <1>4, <1>5, <1>6, <1>7, <1>8, <1>9

\* A request that is answered.
LEMMA ReturnKeepsTypes ==
  ASSUME RequestTypes, Indexed, NEW r \in Request, NEW answer \in Answer, Return(r, answer),
         UNCHANGED <<listener, search, banned>>
  PROVE  RequestTypes' /\ Indexed'
<1> USE DEF Return, RequestTypes
<1>1. pc' \in [Request -> Active \cup Ended] /\ pc'[r] # "check"
  BY DEF Ended, Answer
<1>2. tries' \in [Request -> 0 .. MaxHops] /\ next' \in [Request -> Nat \ {0}]
  BY Bounds
<1>3. record' \in [Request -> Kind]
  BY DEF Kind
<1>4. Indexed'
  BY <1>1 DEF Indexed
<1>5. QED
  BY <1>1, <1>2, <1>3, <1>4

\* A request that goes on elsewhere than to checkBlacklist.
LEMMA GotoKeepsTypes ==
  ASSUME RequestTypes, Indexed, NEW r \in Request, NEW place \in Active, place # "check",
         Goto(r, place), UNCHANGED <<listener, search, banned>>
  PROVE  RequestTypes' /\ Indexed'
  BY DEF Goto, RequestTypes, Indexed

\* A hop on a link.
LEMMA HopKeepsTypes ==
  ASSUME RequestTypes, Indexed, NEW r \in Request, NEW d \in Domain, Linking(r),
         search' = [search EXCEPT ![r] = d],
         tries' = [tries EXCEPT ![r] = @ - 1],
         UNCHANGED <<pc, listener, next, record, banned>>
  PROVE  RequestTypes' /\ Indexed'
<1>1. tries[r] \in 0 .. MaxHops /\ tries[r] > 0 /\ pc[r] = "link"
  BY DEF RequestTypes, Linking
<1>2. tries[r] - 1 \in 0 .. MaxHops
  BY <1>1, Bounds
<1>3. tries' \in [Request -> 0 .. MaxHops]
  BY <1>2 DEF RequestTypes
<1>4. search' \in [Request -> Domain] /\ \A q \in Request : q # r => search'[q] = search[q]
  BY DEF RequestTypes
<1>5. QED
  BY <1>1, <1>3, <1>4 DEF RequestTypes, Indexed

\* A step of a request.
LEMMA ProgressKeepsTypes ==
  ASSUME RequestTypes, ApiTypeOK, Indexed, NEW r \in Request, Progress(r)
  PROVE  RequestTypes' /\ ApiTypeOK' /\ Indexed'
<1>0. \A q \in Request : Len(Suffixes[search[q]]) \in Nat /\ Len(Suffixes[search[q]]) >= 1
  BY SuffixesNotEmpty DEF RequestTypes
<1>1. UNCHANGED <<apiVars, listener, banned>>
  BY DEF Progress, RateLimited, LinkEnds, LinkQuery, Blocked, Passes, QueryFails, ResolvedForProxy,
         ResolvedForAsk, ResolveFails, RequestHandler, RequestHandlerThrows
<1>2. ApiTypeOK'
  BY <1>1 DEF apiVars, ApiTypeOK
<1>3. RequestTypes' /\ Indexed'
  <2> DEFINE Kept == RequestTypes' /\ Indexed'
  <2>1. \A answer \in Answer : Return(r, answer) /\ UNCHANGED search => Kept
    BY <1>1, ReturnKeepsTypes
  <2>2. CASE RateLimited(r)
    <3>1. CASE Enter(r)
      <4>1. tries' \in [Request -> 0 .. MaxHops]
        BY <3>1, Bounds DEF Enter, RequestTypes
      <4>2. QED
        BY <2>2, <3>1, <4>1 DEF RateLimited, Enter, RequestTypes, Indexed, Active
    <3>2. QED
      BY <2>1, <2>2, <3>1 DEF RateLimited, Answer
  <2>3. CASE LinkEnds(r)
    <3>1. tries' \in [Request -> 0 .. MaxHops] /\ next' \in [Request -> Nat \ {0}] /\ next'[r] = 1
      BY <2>3, Bounds DEF LinkEnds, RequestTypes
    <3>2. pc' \in [Request -> Active \cup Ended]
      BY <2>3 DEF LinkEnds, RequestTypes, Active
    <3>3. Indexed'
      BY <1>0, <2>3, <3>1 DEF LinkEnds, RequestTypes, Indexed
    <3>4. QED
      BY <2>3, <3>1, <3>2, <3>3 DEF LinkEnds, RequestTypes
  <2>4. CASE LinkQuery(r)
    <3>1. PICK answer \in Answers(search[r]) :
            IF answer.canonical = NoDomain
              THEN Return(r, "unsupported") /\ UNCHANGED search
              ELSE /\ search' = [search EXCEPT ![r] = answer.canonical]
                   /\ tries' = [tries EXCEPT ![r] = @ - 1]
                   /\ UNCHANGED <<pc, next, record>>
      BY <2>4 DEF LinkQuery
    <3>2. answer.canonical \in Domain \cup {NoDomain}
      BY DomainsApiAssumption DEF Answers, RequestTypes
    <3>3. CASE answer.canonical = NoDomain
      BY <2>1, <3>1, <3>3 DEF Answer
    <3>4. CASE answer.canonical # NoDomain
      BY <1>1, <2>4, <3>1, <3>2, <3>4, HopKeepsTypes DEF LinkQuery
    <3>5. QED
      BY <3>3, <3>4
  <2>5. CASE Passes(r)
    <3>1. CASE CheckNext(r) /\ next[r] < Len(Suffixes[search[r]])
      <4>1. next' \in [Request -> Nat \ {0}]
        BY <3>1 DEF CheckNext, RequestTypes
      <4>2. Indexed'
        BY <1>0, <2>5, <3>1 DEF Passes, CheckNext, RequestTypes, Indexed
      <4>3. QED
        BY <2>5, <3>1, <4>1, <4>2 DEF Passes, CheckNext, RequestTypes
    <3>2. CASE Goto(r, "resolve")
      BY <2>5, <3>2, GotoKeepsTypes DEF Passes, Active
    <3>3. QED
      BY <2>5, <3>1, <3>2 DEF Passes
  <2>6. CASE Blocked(r) \/ QueryFails(r) \/ ResolveFails(r)
    BY <2>1, <2>6 DEF Blocked, QueryFails, ResolveFails, Answer
  <2>7. ASSUME NEW kind \in Kind, ResolvedForProxy(r, kind)
        PROVE  Kept
    BY <2>7 DEF ResolvedForProxy, RequestTypes, Indexed, Active
  <2>8. ASSUME NEW kind \in Kind, ResolvedForAsk(r, kind)
        PROVE  Kept
    BY <2>1, <2>8 DEF ResolvedForAsk, Answer
  <2>9. CASE RequestHandler(r)
    <3>1. HandlerAnswer(record[r]) \in Answer
      BY <2>9 DEF RequestHandler, HandlerAnswer, Kind, Answer, RequestTypes
    <3>2. QED
      BY <2>1, <2>9, <3>1 DEF RequestHandler
  <2>10. CASE RequestHandlerThrows(r)
    <3>1. pc' \in [Request -> Active \cup Ended] /\ \A q \in Request : pc'[q] = pc[q] \/ pc'[q] # "check"
      BY <2>10 DEF RequestHandlerThrows, RequestTypes, Ended, Answer
    <3>2. tries' \in [Request -> 0 .. MaxHops] /\ next' \in [Request -> Nat \ {0}]
      BY <2>10, Bounds DEF RequestHandlerThrows, RequestTypes
    <3>3. record' \in [Request -> Kind]
      BY <2>10 DEF RequestHandlerThrows, RequestTypes, Kind
    <3>4. Indexed'
      BY <2>10 DEF RequestHandlerThrows, RequestTypes, Indexed, Active
    <3>5. QED
      BY <2>10, <3>1, <3>2, <3>3, <3>4 DEF RequestHandlerThrows, RequestTypes
  <2>11. QED
    BY <2>2, <2>3, <2>4, <2>5, <2>6, <2>7, <2>8, <2>9, <2>10 DEF Progress
<1>4. QED
  BY <1>2, <1>3

\* A step of the domains API.
LEMMA ApiKeepsTypes ==
  ASSUME RequestTypes, ApiTypeOK, Indexed,
         Tick \/ \E d \in Contested : ListingChanges(d) \/ Trouble(d)
  PROVE  RequestTypes' /\ ApiTypeOK' /\ Indexed'
<1>1. UNCHANGED <<pc, listener, search, tries, next, record>>
  BY DEF Tick, ListingChanges, Trouble, ApiTick, ApiListingChanges, ApiTrouble, requestVars
<1>2. banned' \in [Request -> SUBSET Domain]
  BY DEF Tick, ListingChanges, Trouble, ApiTick, ApiListingChanges, ApiTrouble, requestVars, RequestTypes
<1>3. blacklist' \subseteq Domain
  BY Bounds DEF Tick, ListingChanges, Trouble, ApiTick, ApiListingChanges, ApiTrouble, ApiTypeOK
<1>4. changed' \in [Domain -> 0 .. MaxAge + 1]
  BY Bounds DEF Tick, ListingChanges, Trouble, ApiTick, ApiListingChanges, ApiTrouble, ApiTypeOK, Older
<1>5. trouble' \in [Domain -> 0 .. MaxAge + 1]
  BY Bounds DEF Tick, ListingChanges, Trouble, ApiTick, ApiListingChanges, ApiTrouble, ApiTypeOK, Older
<1>6. RequestTypes' /\ Indexed'
  BY <1>1, <1>2 DEF RequestTypes, Indexed
<1>7. QED
  BY <1>3, <1>4, <1>5, <1>6 DEF ApiTypeOK

LEMMA TypeInductive ==
  /\ Init => TypeOK
  /\ TypeOK /\ [Next]_vars => TypeOK'
<1>1. ASSUME Init
      PROVE  TypeOK
  <2>1. RequestTypes
    BY <1>1, Bounds DEF Init, RequestTypes, Ended, Kind
  <2>2. ApiTypeOK
    BY <1>1, Bounds DEF Init, ApiInit, ApiTypeOK
  <2>3. Indexed
    BY <1>1 DEF Init, Indexed
  <2>4. QED
    BY <2>1, <2>2, <2>3, TypeParts
<1>2. ASSUME TypeOK, [Next]_vars
      PROVE  TypeOK'
  <2>1. RequestTypes /\ ApiTypeOK /\ Indexed
    BY <1>2, TypeParts
  <2>2. ASSUME UNCHANGED vars
        PROVE  RequestTypes' /\ ApiTypeOK' /\ Indexed'
    BY <2>1, <2>2 DEF vars, apiVars, requestVars, RequestTypes, ApiTypeOK, Indexed
  <2>3. RequestTypes' /\ ApiTypeOK' /\ Indexed'
    BY <1>2, <2>1, <2>2, BeginKeepsTypes, ProgressKeepsTypes, ApiKeepsTypes DEF Next
  <2>4. QED
    BY <2>3 DEF TypeOK, RequestTypes, ApiTypeOK, Indexed
<1>3. QED
  BY <1>1, <1>2

\* Every variable keeps its type, and checkBlacklist its index, for any domains
\* and links.
THEOREM TypeCorrect == Spec => []TypeOK
  BY TypeInductive, PTL DEF Spec

-----------------------------------------------------------------------------
(* The blacklist. *)

\* Where every suffix has been checked.
Past == {"resolve", "handler"} \cup Served

\* What checkBlacklist has passed was not settled on the blacklist when the
\* request began; what was, and has not changed since, still is.
Vetted(r) ==
  /\ banned[r] \subseteq Settled
  /\ pc[r] = "check" => \A i \in 1 .. next[r] - 1 : Suffixes[search[r]][i] \notin banned[r]
  /\ pc[r] \in Past => \A i \in DOMAIN Suffixes[search[r]] : Suffixes[search[r]][i] \notin banned[r]

AllVetted == \A r \in Request : Vetted(r)

\* The caches have only one answer for a domain that is settled on the blacklist.
LEMMA SettledAnswer ==
  ASSUME TypeOK, NEW d \in Settled, NEW answer \in Answers(d)
  PROVE  answer.blacklisted = TRUE
<1>1. d \in blacklist /\ ~(changed[d] <= MaxAge) /\ ~(trouble[d] <= MaxAge)
  <2>1. d \in blacklist /\ changed[d] > MaxAge /\ trouble[d] > MaxAge
    BY DEF Settled
  <2>2. changed[d] \in Int /\ trouble[d] \in Int /\ MaxAge \in Int
    BY <2>1, Bounds DEF TypeOK, ApiTypeOK
  <2>3. QED
    BY <2>1, <2>2
<1> DEFINE Truth == {b \in BOOLEAN : (b <=> d \in blacklist) \/ changed[d] <= MaxAge}
<1>2. answer \in [blacklisted : Truth, canonical : {Canonical[d]}]
  BY <1>1 DEF Answers
<1>3. answer.blacklisted \in Truth
  BY <1>2
<1>4. \A b \in Truth : b = TRUE
  BY <1>1, Zenon
<1>5. QED
  BY <1>3, <1>4, Zenon

\* A request that a step of another leaves alone.
LEMMA OtherStaysVetted ==
  ASSUME NEW q \in Request, Vetted(q), UNCHANGED apiVars,
         pc'[q] = pc[q], next'[q] = next[q], search'[q] = search[q], banned'[q] = banned[q]
  PROVE  Vetted(q)'
  BY DEF Vetted, Settled, apiVars

\* A request whose step leads to a place where nothing has been checked yet.
LEMMA UncheckedIsVetted ==
  ASSUME NEW r \in Request, banned[r] \subseteq Settled, UNCHANGED apiVars,
         banned'[r] = banned[r] \/ banned'[r] = Settled, pc'[r] # "check", pc'[r] \notin Past
  PROVE  Vetted(r)'
<1>1. Settled' = Settled
  BY DEF Settled, apiVars
<1>2. (pc[r])' \notin Past'
  BY DEF Past, Served
<1>3. QED
  BY <1>1, <1>2 DEF Vetted

\* A request that is past checkBlacklist and stays so, or is answered.
LEMMA PastStaysVetted ==
  ASSUME NEW r \in Request, Vetted(r), pc[r] \in Past, UNCHANGED <<apiVars, search, banned>>,
         pc'[r] # "check"
  PROVE  Vetted(r)'
  BY DEF Vetted, Settled, apiVars

LEMMA PassesIsVetted ==
  ASSUME TypeOK, NEW r \in Request, Vetted(r), Passes(r)
  PROVE  Vetted(r)'
<1> DEFINE suffixes == Suffixes[search[r]]
<1>1. pc[r] = "check" /\ UNCHANGED <<apiVars, search, banned>> /\ search[r] \in Domain
  BY DEF Passes, Answered, TypeOK
<1>2. next[r] \in Nat \ {0} /\ next[r] <= Len(suffixes) /\ DOMAIN suffixes = 1 .. Len(suffixes)
  <2>1. suffixes \in Seq(Domain)
    BY <1>1, DomainsApiAssumption
  <2>2. QED
    BY <1>1, <2>1 DEF TypeOK
<1>3. suffixes[next[r]] \notin banned[r]
  BY SettledAnswer DEF Passes, Answered, Vetted
<1>4. \A i \in 1 .. next[r] : suffixes[i] \notin banned[r]
  BY <1>1, <1>2, <1>3 DEF Vetted
<1>5. banned'[r] \subseteq Settled'
  BY <1>1 DEF Vetted, Settled, apiVars
<1>6. CASE next[r] < Len(suffixes)
  <2>1. pc'[r] = "check" /\ next'[r] = next[r] + 1
    BY <1>1, <1>6 DEF Passes, CheckNext, TypeOK
  <2>2. 1 .. next'[r] - 1 = 1 .. next[r]
    BY <1>2, <2>1
  <2>3. "check" \notin Past
    BY DEF Past, Served
  <2>4. QED
    BY <1>1, <1>4, <1>5, <2>1, <2>2, <2>3 DEF Vetted
<1>7. CASE ~(next[r] < Len(suffixes))
  <2>1. pc'[r] = "resolve"
    BY <1>7 DEF Passes, Goto, TypeOK
  <2>2. Len(suffixes) = next[r]
    <3>1. Len(suffixes) \in Nat
      BY <1>1, SuffixesNotEmpty
    <3>2. QED
      BY <1>2, <1>7, <3>1
  <2>3. QED
    BY <1>1, <1>2, <1>4, <1>5, <2>1, <2>2 DEF Vetted
<1>8. QED
  BY <1>6, <1>7

\* A step of a request, seen from that request.
LEMMA ProgressIsVetted ==
  ASSUME TypeOK, NEW r \in Request, Vetted(r), Progress(r)
  PROVE  Vetted(r)'
<1>1. UNCHANGED apiVars /\ UNCHANGED banned /\ pc \in [Request -> Active \cup Ended]
  BY DEF Progress, RateLimited, LinkEnds, LinkQuery, Blocked, Passes, QueryFails, ResolvedForProxy,
         ResolvedForAsk, ResolveFails, RequestHandler, RequestHandlerThrows, TypeOK
<1>2. banned[r] \subseteq Settled /\ banned'[r] = banned[r]
  BY <1>1 DEF Vetted
<1>3. CASE LinkEnds(r)
  <2>1. pc'[r] = "check" /\ next'[r] = 1 /\ "check" \notin Past
    BY <1>1, <1>3 DEF LinkEnds, Past, Served, TypeOK
  <2>2. 1 .. next'[r] - 1 = {}
    BY <2>1
  <2>3. QED
    BY <1>1, <1>2, <2>1, <2>2 DEF Vetted, Settled, apiVars
<1>4. CASE RateLimited(r) \/ LinkQuery(r) \/ Blocked(r) \/ QueryFails(r) \/ ResolveFails(r)
  <2>1. pc'[r] # "check" /\ pc'[r] \notin Past
    BY <1>1, <1>4 DEF RateLimited, LinkQuery, Linking, Blocked, QueryFails, ResolveFails, Return, Enter,
                      Past, Served
  <2>2. QED
    BY <1>1, <1>2, <2>1, UncheckedIsVetted
<1>5. CASE Passes(r)
  BY <1>5, PassesIsVetted
<1>6. ASSUME NEW kind \in Kind, ResolvedForProxy(r, kind) \/ ResolvedForAsk(r, kind)
      PROVE  Vetted(r)'
  <2>1. pc[r] \in Past /\ pc'[r] # "check" /\ UNCHANGED search
    BY <1>1, <1>6 DEF ResolvedForProxy, ResolvedForAsk, Return, Past
  <2>2. QED
    BY <1>1, <2>1, PastStaysVetted
<1>7. CASE RequestHandler(r)
  <2>1. pc[r] \in Past /\ pc'[r] # "check" /\ UNCHANGED search
    BY <1>1, <1>7 DEF RequestHandler, HandlerAnswer, Kind, Return, Past, TypeOK
  <2>2. QED
    BY <1>1, <2>1, PastStaysVetted
<1>8. CASE RequestHandlerThrows(r)
  <2>1. pc'[r] = "lost"
    BY <1>8 DEF RequestHandlerThrows, Active
  <2>2. QED
    BY <1>1, <1>2, <2>1, UncheckedIsVetted DEF Past, Served
<1>9. QED
  BY <1>3, <1>4, <1>5, <1>6, <1>7, <1>8 DEF Progress

\* A step of a request, seen from another.
LEMMA ProgressSparesOthers ==
  ASSUME TypeOK, NEW r \in Request, Progress(r), NEW q \in Request \ {r}, Vetted(q)
  PROVE  Vetted(q)'
<1>1. UNCHANGED apiVars /\ UNCHANGED banned
  BY DEF Progress, RateLimited, LinkEnds, LinkQuery, Blocked, Passes, QueryFails, ResolvedForProxy,
         ResolvedForAsk, ResolveFails, RequestHandler, RequestHandlerThrows
<1>2. CASE RequestHandlerThrows(r) /\ pc[q] \in Active
  <2>1. pc'[q] = "lost"
    BY <1>2 DEF RequestHandlerThrows
  <2>2. QED
    BY <1>1, <2>1, UncheckedIsVetted DEF Past, Served, Vetted
<1>3. CASE ~(RequestHandlerThrows(r) /\ pc[q] \in Active)
  <2>1. pc'[q] = pc[q] /\ next'[q] = next[q] /\ search'[q] = search[q]
    BY <1>3 DEF Progress, RateLimited, LinkEnds, LinkQuery, Blocked, Passes, QueryFails, ResolvedForProxy,
         ResolvedForAsk, ResolveFails, RequestHandler, RequestHandlerThrows, Return, Goto, Enter,
         CheckNext, TypeOK
  <2>2. QED
    BY <1>1, <2>1, OtherStaysVetted
<1>4. QED
  BY <1>2, <1>3

\* A request that comes in.
LEMMA BeginIsVetted ==
  ASSUME TypeOK, AllVetted, NEW r \in Request, NEW d \in Domain, Proxy(r, d) \/ Ask(r, d)
  PROVE  AllVetted'
<1>1. UNCHANGED apiVars /\ banned'[r] = Settled /\ pc'[r] # "check" /\ pc'[r] \notin Past
  BY DEF Proxy, Ask, Begin, Goto, Return, Enter, TypeOK, Past, Served
<1>2. Vetted(r)'
  BY <1>1, UncheckedIsVetted DEF AllVetted, Vetted
<1>3. ASSUME NEW q \in Request \ {r}
      PROVE  Vetted(q)'
  <2>1. pc'[q] = pc[q] /\ next'[q] = next[q] /\ search'[q] = search[q] /\ banned'[q] = banned[q]
    BY DEF Proxy, Ask, Begin, Goto, Return, Enter, TypeOK
  <2>2. QED
    BY <1>1, <2>1, OtherStaysVetted DEF AllVetted
<1>4. QED
  BY <1>2, <1>3 DEF AllVetted

\* The blacklist changes, the API has trouble, time goes on: what is settled
\* stays so, but for the one domain that nobody's history keeps.
LEMMA ApiIsVetted ==
  ASSUME TypeOK, AllVetted, Tick \/ \E d \in Contested : ListingChanges(d) \/ Trouble(d)
  PROVE  AllVetted'
<1>1. UNCHANGED <<pc, next, search>> /\ \A r \in Request : banned'[r] \subseteq banned[r]
  BY DEF Tick, ListingChanges, Trouble, ApiTick, ApiListingChanges, ApiTrouble, requestVars, TypeOK
<1>2. ASSUME NEW r \in Request
      PROVE  banned'[r] \subseteq Settled'
  <2>1. CASE Tick
    <3>1. \A d \in Domain : (changed[d] > MaxAge => changed'[d] > MaxAge) /\ (trouble[d] > MaxAge => trouble'[d] > MaxAge)
      BY <2>1, Bounds DEF Tick, ApiTick, Older, ApiTypeOK, TypeOK
    <3>2. QED
      BY <2>1, <3>1 DEF Tick, ApiTick, requestVars, AllVetted, Vetted, Settled, ApiTypeOK, TypeOK
  <2>2. ASSUME NEW d \in Contested, ListingChanges(d)
        PROVE  banned'[r] \subseteq Settled'
    BY <2>2 DEF ListingChanges, ApiListingChanges, AllVetted, Vetted, Settled, ApiTypeOK, TypeOK
  <2>3. ASSUME NEW d \in Contested, Trouble(d)
        PROVE  banned'[r] \subseteq Settled'
    BY <2>3 DEF Trouble, ApiTrouble, AllVetted, Vetted, Settled, ApiTypeOK, TypeOK
  <2>4. QED
    BY <2>1, <2>2, <2>3
<1>3. QED
  BY <1>1, <1>2 DEF AllVetted, Vetted

LEMMA VettedInductive ==
  /\ Init => AllVetted
  /\ TypeOK /\ AllVetted /\ [Next]_vars => AllVetted'
<1>1. Init => AllVetted
  BY DEF Init, AllVetted, Vetted, Past, Served
<1>2. ASSUME TypeOK, AllVetted, [Next]_vars
      PROVE  AllVetted'
  <2>1. ASSUME NEW r \in Request, Progress(r)
        PROVE  AllVetted'
    BY <1>2, <2>1, ProgressIsVetted, ProgressSparesOthers DEF AllVetted
  <2>2. CASE UNCHANGED vars
    BY <1>2, <2>2, OtherStaysVetted DEF vars, requestVars, AllVetted
  <2>3. QED
    BY <1>2, <2>1, <2>2, BeginIsVetted, ApiIsVetted DEF Next
<1>3. QED
  BY <1>1, <1>2

\* Nothing is served of a domain with a suffix that has been settled on the blacklist
\* since before the request, for any domains, links and cache ages.
THEOREM BlacklistHolds == Spec => []BlacklistEnforced
<1>1. AllVetted => BlacklistEnforced
  BY DEF AllVetted, Vetted, BlacklistEnforced, SuffixesOf, Past
<1>2. QED
  BY <1>1, TypeCorrect, VettedInductive, PTL DEF Spec

-----------------------------------------------------------------------------
(* Every request comes nearer to its answer. That what it awaits can settle  *)
(* is a hypothesis.                                                          *)

\* The distance is one of natural numbers: it cannot shrink for ever.
Measured == \A r \in Request : Stage(r) \in Nat /\ SuffixesLeft(r) \in Nat

LEMMA DistanceIsMeasured == TypeOK => Measured
<1>1. ASSUME TypeOK, NEW r \in Request
      PROVE  Stage(r) \in Nat /\ SuffixesLeft(r) \in Nat
  <2>1. tries[r] \in Nat /\ next[r] \in Nat /\ search[r] \in Domain
    BY <1>1, Bounds DEF TypeOK
  <2>2. pc[r] = "check" => next[r] <= Len(Suffixes[search[r]])
    BY <1>1 DEF TypeOK
  <2>3. Len(Suffixes[search[r]]) \in Nat
    BY <2>1, SuffixesNotEmpty
  <2>4. Stage(r) \in Nat
    BY <2>1, Bounds DEF Stage
  <2>5. SuffixesLeft(r) \in Nat
    BY <2>1, <2>2, <2>3 DEF SuffixesLeft
  <2>6. QED
    BY <2>4, <2>5
<1>2. QED
  BY <1>1 DEF Measured

\* Its own steps take it nearer.
LEMMA ProgressIsNearer ==
  ASSUME TypeOK, NEW r \in Request, Progress(r)
  PROVE  \/ pc'[r] \in Ended
         \/ Stage(r)' < Stage(r)
         \/ Stage(r)' = Stage(r) /\ SuffixesLeft(r)' < SuffixesLeft(r)
<1>1. /\ pc \in [Request -> Active \cup Ended] /\ tries \in [Request -> 0 .. MaxHops]
      /\ next \in [Request -> Nat \ {0}] /\ search \in [Request -> Domain]
      /\ MaxHops \in Nat
  BY Bounds DEF TypeOK
<1>2. ASSUME NEW answer \in Answer, Return(r, answer)
      PROVE  pc'[r] \in Ended
  BY <1>1, <1>2 DEF Return, Ended
<1>3. CASE RateLimited(r)
  <2>1. CASE Enter(r)
    <3>1. pc[r] = "limiter" /\ pc'[r] = "link" /\ tries'[r] = MaxHops
      BY <1>1, <1>3, <2>1 DEF RateLimited, Enter
    <3>2. QED
      BY <1>1, <3>1 DEF Stage
  <2>2. QED
    BY <1>2, <1>3, <2>1 DEF RateLimited, Answer
<1>4. CASE LinkEnds(r)
  <2>1. pc[r] = "link" /\ pc'[r] = "check"
    BY <1>1, <1>4 DEF LinkEnds
  <2>2. QED
    BY <1>1, <2>1 DEF Stage
<1>5. CASE LinkQuery(r)
  <2>1. CASE Return(r, "unsupported")
    BY <1>2, <2>1 DEF Answer
  <2>2. CASE tries' = [tries EXCEPT ![r] = @ - 1] /\ UNCHANGED pc
    <3>1. pc[r] = "link" /\ pc'[r] = "link" /\ tries'[r] = tries[r] - 1
      BY <1>1, <1>5, <2>2 DEF LinkQuery, Linking
    <3>2. QED
      BY <1>1, <3>1 DEF Stage
  <2>3. QED
    BY <1>5, <2>1, <2>2 DEF LinkQuery
<1>6. CASE Passes(r)
  <2>1. pc[r] = "check" /\ UNCHANGED search
    BY <1>6 DEF Passes, Answered
  <2>2. CASE CheckNext(r) /\ next[r] < Len(Suffixes[search[r]])
    <3>1. pc'[r] = "check" /\ next'[r] = next[r] + 1 /\ search'[r] = search[r]
      BY <1>1, <2>1, <2>2 DEF CheckNext
    <3>2. Len(Suffixes[search[r]]) \in Nat
      BY <1>1, SuffixesNotEmpty
    <3>3. SuffixesLeft(r)' < SuffixesLeft(r)
      BY <1>1, <2>1, <3>1, <3>2 DEF SuffixesLeft
    <3>4. Stage(r)' = Stage(r)
      BY <2>1, <3>1 DEF Stage
    <3>5. QED
      BY <3>3, <3>4
  <2>3. CASE Goto(r, "resolve")
    <3>1. pc'[r] = "resolve"
      BY <1>1, <2>3 DEF Goto
    <3>2. QED
      BY <2>1, <3>1 DEF Stage
  <2>4. QED
    BY <1>6, <2>2, <2>3 DEF Passes
<1>7. CASE Blocked(r) \/ QueryFails(r) \/ ResolveFails(r)
  BY <1>2, <1>7 DEF Blocked, QueryFails, ResolveFails, Answer
<1>8. ASSUME NEW kind \in Kind, ResolvedForProxy(r, kind)
      PROVE  Stage(r)' < Stage(r)
  <2>1. pc[r] = "resolve" /\ pc'[r] = "handler"
    BY <1>1, <1>8 DEF ResolvedForProxy
  <2>2. QED
    BY <2>1 DEF Stage
<1>9. ASSUME NEW kind \in Kind, ResolvedForAsk(r, kind)
      PROVE  pc'[r] \in Ended
  BY <1>2, <1>9 DEF ResolvedForAsk, Answer
<1>10. CASE RequestHandler(r)
  <2>1. HandlerAnswer(record[r]) \in Answer
    BY <1>10 DEF RequestHandler, HandlerAnswer, Kind, Answer, TypeOK
  <2>2. QED
    BY <1>2, <1>10, <2>1 DEF RequestHandler
<1>11. CASE RequestHandlerThrows(r)
  BY <1>1, <1>11 DEF RequestHandlerThrows, Active, Ended, Answer
<1>12. QED
  BY <1>3, <1>4, <1>5, <1>6, <1>7, <1>8, <1>9, <1>10, <1>11 DEF Progress

\* Every other step leaves it where it is, or ends its process.
LEMMA OthersStay ==
  ASSUME TypeOK, [Next]_vars, NEW r \in Request, pc[r] \in Active, ~Progress(r)
  PROVE  \/ pc'[r] \in Ended
         \/ pc'[r] = pc[r] /\ tries'[r] = tries[r] /\ next'[r] = next[r] /\ search'[r] = search[r]
<1>1. /\ pc \in [Request -> Active \cup Ended] /\ tries \in [Request -> 0 .. MaxHops]
      /\ next \in [Request -> Nat \ {0}] /\ search \in [Request -> Domain]
  BY DEF TypeOK
<1>2. ASSUME NEW q \in Request \ {r}, Progress(q)
      PROVE  \/ pc'[r] \in Ended
             \/ pc'[r] = pc[r] /\ tries'[r] = tries[r] /\ next'[r] = next[r] /\ search'[r] = search[r]
  <2>1. CASE RequestHandlerThrows(q)
    BY <1>1, <2>1 DEF RequestHandlerThrows, Ended, Answer
  <2>2. CASE ~RequestHandlerThrows(q)
    BY <1>1, <1>2, <2>2 DEF Progress, RateLimited, LinkEnds, LinkQuery, Blocked, Passes, QueryFails,
       ResolvedForProxy, ResolvedForAsk, ResolveFails, RequestHandler, Return, Goto, Enter, CheckNext
  <2>3. QED
    BY <2>1, <2>2
<1>3. ASSUME NEW q \in Request, NEW d \in Domain, Proxy(q, d) \/ Ask(q, d)
      PROVE  pc'[r] = pc[r] /\ tries'[r] = tries[r] /\ next'[r] = next[r] /\ search'[r] = search[r]
  <2>1. q # r
    BY <1>3 DEF Proxy, Ask, Active, Ended, Answer
  <2>2. QED
    BY <1>1, <1>3, <2>1 DEF Proxy, Ask, Begin, Return, Goto, Enter
<1>4. CASE \/ UNCHANGED vars \/ Tick
           \/ \E d \in Contested : ListingChanges(d) \/ Trouble(d)
  BY <1>4 DEF vars, requestVars, Tick, ListingChanges, Trouble
<1>5. QED
  BY <1>2, <1>3, <1>4 DEF Next

\* Wherever a request stands, it is answered or comes nearer, in a distance that
\* cannot shrink for ever: for any domains, links, listings and other requests.
THEOREM RequestsComeNearer ==
  FairSpec /\ []WaitsCanEnd => []Measured /\ AnswersComeNearer
<1>1. ASSUME NEW r \in Request, NEW i \in Nat, NEW j \in Nat
      PROVE  FairSpec /\ []WaitsCanEnd =>
               (Standing(r, i, j) ~> pc[r] \in Ended \/ Nearer(r, i, j))
  <2>1. TypeOK /\ [Next]_vars /\ Standing(r, i, j) =>
          Standing(r, i, j)' \/ (pc[r] \in Ended \/ Nearer(r, i, j))'
    <3>1. ASSUME TypeOK, [Next]_vars, Standing(r, i, j), ~Progress(r)
          PROVE  Standing(r, i, j)' \/ pc'[r] \in Ended
      BY <3>1, OthersStay DEF Standing, Stage, SuffixesLeft
    <3>2. ASSUME TypeOK, Standing(r, i, j), Progress(r)
          PROVE  (pc[r] \in Ended \/ Nearer(r, i, j))'
      BY <3>2, ProgressIsNearer DEF Standing, Nearer
    <3>3. QED
      BY <3>1, <3>2
  <2>2. TypeOK /\ <<Progress(r)>>_vars /\ Standing(r, i, j) =>
          (pc[r] \in Ended \/ Nearer(r, i, j))'
    BY ProgressIsNearer DEF Standing, Nearer
  <2>3. WaitsCanEnd /\ Standing(r, i, j) => ENABLED <<Progress(r)>>_vars
    BY DEF WaitsCanEnd, Standing
  <2>4. Fairness => FairFor(r)
    BY DEF Fairness
  <2>5. QED
    BY <2>1, <2>2, <2>3, <2>4, TypeCorrect, PTL DEF FairSpec, FairFor, Spec
<1>2. FairSpec /\ []WaitsCanEnd => AnswersComeNearer
  BY <1>1 DEF AnswersComeNearer
<1>3. QED
  BY <1>2, DistanceIsMeasured, TypeCorrect, PTL DEF FairSpec
=============================================================================
