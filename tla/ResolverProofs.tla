--------------------------- MODULE ResolverProofs ---------------------------
(* Theorems about Resolver, for every value of its constants, and about the  *)
(* requests of EnsService to its endpoints (Failover).                       *)
EXTENDS Resolver, Failover, FiniteSetTheorems, NaturalsInduction, WellFoundedInduction, TLAPS

-----------------------------------------------------------------------------
(* The parts of the type invariant. *)

ChainTypes ==
  /\ service \in Services
  /\ resolver \in Contract \cup {Nothing}
  /\ content \in [Contract -> Content \cup {Nothing}]
  /\ edits \in 0 .. MaxEdits

CallTypes ==
  /\ pc \in [Request -> Active \cup Ended]
  /\ calls \in [Request -> 0 .. MaxCalls]
  /\ found \in [Request -> Contract \cup {Nothing}]
  /\ held \in [Request -> Content \cup {Nothing}]
  /\ result \in [Request -> Result]
  /\ failed \in [Request -> BOOLEAN]

\* What a request is at was read.
AtHand ==
  /\ \A r \in Request : pc[r] = "content" => found[r] # Nothing
  /\ \A r \in Request : pc[r] \in {"arweave", "kubo"} => held[r] # Nothing

HistoryTypes ==
  /\ hadResolver \in [Request -> SUBSET (Contract \cup {Nothing})]
  /\ hadContent \in [Request -> [Contract -> SUBSET (Content \cup {Nothing})]]

LEMMA TypeParts ==
  TypeOK <=> ChainTypes /\ CallTypes /\ AtHand /\ HistoryTypes /\ cached \subseteq Result
  BY DEF TypeOK, ChainTypes, CallTypes, AtHand, HistoryTypes

-----------------------------------------------------------------------------
(* The inductive invariant. *)

\* The histories of a call hold what the name has now, and what the request has
\* read of it was there.
Traced(r) ==
  /\ pc[r] \in Active =>
       resolver \in hadResolver[r] /\ \A k \in Contract : content[k] \in hadContent[r][k]
  /\ pc[r] = "content" => found[r] \in hadResolver[r]
  /\ pc[r] \in {"arweave", "kubo"} => WasThere(r, held[r])
  /\ pc[r] = "arweave" => Format[held[r]] = "arweave"
  /\ pc[r] = "resolved" => WasThere(r, result[r].from)
  /\ pc[r] = "rejected" =>
       failed[r] \/ (held[r] # Nothing /\ Format[held[r]] \in {"foreign", "arweave"})

Inv == TypeOK /\ \A r \in Request : Traced(r)

LEMMA InitInv == Init => Inv
<1> SUFFICES ASSUME Init PROVE Inv
  OBVIOUS
<1>1. ChainTypes /\ HistoryTypes /\ cached \subseteq Result
  BY ResolverAssumption DEF Init, ChainTypes, HistoryTypes
<1>2. CallTypes /\ AtHand
  BY ResolverAssumption DEF Init, CallTypes, AtHand, Active, Ended, Result, NoResult
<1>3. \A r \in Request : Traced(r)
  BY DEF Init, Traced, Active
<1>4. QED
  BY <1>1, <1>2, <1>3, TypeParts DEF Inv

-----------------------------------------------------------------------------
(* The steps of a request, for itself and for the others. *)

\* A request that a step leaves alone.
LEMMA OtherStaysTraced ==
  ASSUME NEW q \in Request, Traced(q), UNCHANGED chainVars,
         pc'[q] = pc[q], found'[q] = found[q], held'[q] = held[q], result'[q] = result[q],
         failed'[q] = failed[q], hadResolver'[q] = hadResolver[q], hadContent'[q] = hadContent[q]
  PROVE  Traced(q)'
  BY DEF Traced, chainVars, WasThere

\* Every step of r is one that changes nothing of another request.
OthersAlone(r) ==
  \A q \in Request \ {r} :
    /\ pc'[q] = pc[q] /\ found'[q] = found[q] /\ held'[q] = held[q] /\ result'[q] = result[q]
    /\ failed'[q] = failed[q] /\ hadResolver'[q] = hadResolver[q] /\ hadContent'[q] = hadContent[q]

\* So it is enough to look at r.
LEMMA OwnStep ==
  ASSUME Inv, NEW r \in Request, UNCHANGED chainVars, OthersAlone(r),
         CallTypes', AtHand', HistoryTypes', cached' \subseteq Result, Traced(r)'
  PROVE  Inv'
<1>1. ChainTypes'
  BY DEF Inv, TypeOK, ChainTypes, chainVars
<1>2. TypeOK'
  BY <1>1 DEF TypeOK, ChainTypes, CallTypes, AtHand, HistoryTypes
<1>3. \A q \in Request \ {r} : Traced(q)'
  BY OtherStaysTraced DEF OthersAlone, Inv
<1>4. QED
  BY <1>2, <1>3 DEF Inv

\* A call begins.
LEMMA BeginStep ==
  ASSUME Inv, NEW r \in Request, Begin(r), calls[r] < MaxCalls, cached' \subseteq Result,
         UNCHANGED chainVars
  PROVE  Inv'
<1>1. ChainTypes /\ CallTypes /\ AtHand /\ HistoryTypes /\ cached \subseteq Result
  BY TypeParts DEF Inv
<1>2. CallTypes'
  <2>1. calls[r] + 1 \in 0 .. MaxCalls
    BY <1>1, ResolverAssumption DEF CallTypes
  <2>2. calls' \in [Request -> 0 .. MaxCalls]
    BY <1>1, <2>1 DEF CallTypes, Begin
  <2>3. QED
    BY <1>1, <2>2 DEF CallTypes, Begin, Active
<1>3. AtHand'
  BY <1>1 DEF CallTypes, AtHand, Begin
<1>4. HistoryTypes'
  BY <1>1 DEF ChainTypes, HistoryTypes, Begin
<1>5. Traced(r)'
  BY <1>1 DEF Traced, Begin, CallTypes, HistoryTypes, chainVars, Active
<1>6. OthersAlone(r)
  BY <1>1 DEF OthersAlone, Begin, CallTypes, HistoryTypes
<1>7. QED
  BY <1>1, <1>2, <1>3, <1>4, <1>5, <1>6, OwnStep

\* A request has its answer.
LEMMA EndStep ==
  ASSUME Inv, NEW r \in Request, NEW answer \in {"ok", "error"}, NEW x \in Result,
         End(r, answer, x), cached' \subseteq Result, UNCHANGED chainVars
  PROVE  Inv'
<1>1. ChainTypes /\ CallTypes /\ AtHand /\ HistoryTypes
  BY TypeParts DEF Inv
<1>2. CallTypes'
  BY <1>1, ResolverAssumption DEF CallTypes, End, Ended
<1>3. AtHand'
  BY <1>1 DEF CallTypes, AtHand, End
<1>4. HistoryTypes'
  BY <1>1 DEF HistoryTypes, End
<1>5. Traced(r)'
  BY <1>1 DEF Traced, End, CallTypes, Active
<1>6. OthersAlone(r)
  BY <1>1 DEF OthersAlone, End, CallTypes, HistoryTypes
<1>7. QED
  BY <1>2, <1>3, <1>4, <1>5, <1>6, OwnStep

\* The outcome of a content hash that was there.
LEMMA ContentHashStep ==
  ASSUME Inv, NEW r \in Request, pc[r] \in Active, NEW c \in Content \cup {Nothing}, WasThere(r, c),
         ContentHash(r, c), UNCHANGED <<chainVars, cached, found, historyVars>>
  PROVE  Inv'
<1>1. ChainTypes /\ CallTypes /\ AtHand /\ HistoryTypes /\ cached \subseteq Result
  BY TypeParts DEF Inv
<1>2. HistoryTypes'
  BY <1>1 DEF HistoryTypes, historyVars
<1>3. UNCHANGED calls /\ UNCHANGED failed /\ held'[r] = c /\ held' = [held EXCEPT ![r] = c]
  BY <1>1 DEF ContentHash, Fallback, ParseRecord, Resolved, Goto, CallTypes
<1>4. ASSUME NEW tag \in {"none", "null", "record", "dataUri", "dataUrl"}, Resolved(r, tag, c)
      PROVE  Inv'
  <2>1. result' \in [Request -> Result] /\ result'[r].from = c
    BY <1>1, <1>4 DEF Resolved, CallTypes, Result
  <2>2. CallTypes' /\ AtHand'
    BY <1>1, <1>3, <1>4, <2>1 DEF Resolved, CallTypes, AtHand, Active
  <2>3. Traced(r)'
    BY <1>1, <1>4, <2>1 DEF Resolved, CallTypes, Traced, Inv, WasThere, chainVars, historyVars, Active
  <2>4. OthersAlone(r)
    BY <1>1, <1>3, <1>4 DEF OthersAlone, Resolved, CallTypes, historyVars
  <2>5. QED
    BY <1>1, <1>2, <2>2, <2>3, <2>4, OwnStep
<1>5. ASSUME c # Nothing, NEW place \in {"arweave", "kubo", "rejected"}, Goto(r, place),
             place = "rejected" => Format[c] = "foreign", place = "arweave" => Format[c] = "arweave"
      PROVE  Inv'
  <2>1. CallTypes' /\ AtHand'
    BY <1>1, <1>3, <1>5 DEF Goto, CallTypes, AtHand, Active
  <2>2. Traced(r)'
    BY <1>1, <1>3, <1>5 DEF Goto, CallTypes, Traced, Inv, WasThere, chainVars, historyVars, Active
  <2>3. OthersAlone(r)
    BY <1>1, <1>3, <1>5 DEF OthersAlone, Goto, CallTypes, historyVars
  <2>4. QED
    BY <1>1, <1>2, <2>1, <2>2, <2>3, OwnStep
<1>6. QED
  BY <1>4, <1>5 DEF ContentHash, Fallback, ParseRecord

\* A record of the content hash at hand.
LEMMA HeldStep ==
  ASSUME Inv, NEW r \in Request, pc[r] \in {"arweave", "kubo"}, NEW tag \in {"null", "record"},
         Resolved(r, tag, held[r]), UNCHANGED <<chainVars, cached, found, held, historyVars>>
  PROVE  Inv'
<1>1. ChainTypes /\ CallTypes /\ AtHand /\ HistoryTypes /\ cached \subseteq Result
  BY TypeParts DEF Inv
<1>2. HistoryTypes'
  BY <1>1 DEF HistoryTypes, historyVars
<1>3. result' \in [Request -> Result] /\ result'[r].from = held[r]
  BY <1>1 DEF Resolved, CallTypes, Result
<1>4. CallTypes' /\ AtHand'
  BY <1>1, <1>3 DEF Resolved, CallTypes, AtHand, Active
<1>5. Traced(r)'
  BY <1>1, <1>3 DEF Resolved, CallTypes, Traced, Inv, WasThere, chainVars, historyVars, Active
<1>6. OthersAlone(r)
  BY <1>1 DEF OthersAlone, Resolved, CallTypes, historyVars
<1>7. QED
  BY <1>1, <1>2, <1>4, <1>5, <1>6, OwnStep

\* The state of an Arweave contract has another shape.
LEMMA ArweaveRejectStep ==
  ASSUME Inv, NEW r \in Request, pc[r] = "arweave", Goto(r, "rejected"),
         UNCHANGED <<chainVars, cached, found, held, historyVars>>
  PROVE  Inv'
<1>1. ChainTypes /\ CallTypes /\ AtHand /\ HistoryTypes /\ cached \subseteq Result
  BY TypeParts DEF Inv
<1>2. CallTypes' /\ AtHand' /\ HistoryTypes'
  BY <1>1 DEF Goto, CallTypes, AtHand, HistoryTypes, historyVars, Active
<1>3. held[r] # Nothing /\ Format[held[r]] = "arweave"
  BY <1>1 DEF AtHand, Inv, Traced
<1>4. Traced(r)'
  BY <1>1, <1>3 DEF Goto, CallTypes, Traced, Inv, chainVars, historyVars, Active
<1>5. OthersAlone(r)
  BY <1>1 DEF OthersAlone, Goto, CallTypes, historyVars
<1>6. QED
  BY <1>1, <1>2, <1>4, <1>5, OwnStep

\* The first read of the two.
LEMMA ResolverStep ==
  ASSUME Inv, NEW r \in Request, pc[r] = "resolver",
         found' = [found EXCEPT ![r] = resolver],
         IF resolver = Nothing THEN Resolved(r, "none", Nothing) ELSE Goto(r, "content"),
         UNCHANGED <<chainVars, cached, held, historyVars>>
  PROVE  Inv'
<1>1. ChainTypes /\ CallTypes /\ AtHand /\ HistoryTypes /\ cached \subseteq Result
  BY TypeParts DEF Inv
<1>2. HistoryTypes'
  BY <1>1 DEF HistoryTypes, historyVars
<1>3. resolver \in hadResolver[r] /\ resolver \in Contract \cup {Nothing}
  BY <1>1 DEF Inv, Traced, Active, ChainTypes
<1>4. CASE resolver = Nothing
  <2>1. result' \in [Request -> Result] /\ result'[r].from = Nothing
    BY <1>1, <1>4 DEF Resolved, CallTypes, Result
  <2>2. CallTypes' /\ AtHand'
    BY <1>1, <1>3, <1>4, <2>1 DEF Resolved, CallTypes, AtHand, Active
  <2>3. Traced(r)'
    BY <1>1, <1>3, <1>4, <2>1 DEF Resolved, CallTypes, Traced, Inv, WasThere, chainVars, historyVars, Active
  <2>4. OthersAlone(r)
    BY <1>1, <1>4 DEF OthersAlone, Resolved, CallTypes, historyVars
  <2>5. QED
    BY <1>1, <1>2, <2>2, <2>3, <2>4, OwnStep
<1>5. CASE resolver # Nothing
  <2>1. CallTypes' /\ AtHand'
    BY <1>1, <1>3, <1>5 DEF Goto, CallTypes, AtHand, Active
  <2>2. Traced(r)'
    BY <1>1, <1>3, <1>5 DEF Goto, CallTypes, Traced, Inv, chainVars, historyVars, Active
  <2>3. OthersAlone(r)
    BY <1>1, <1>5 DEF OthersAlone, Goto, CallTypes, historyVars
  <2>4. QED
    BY <1>1, <1>2, <2>1, <2>2, <2>3, OwnStep
<1>6. QED
  BY <1>4, <1>5

\* A name service fails.
LEMMA FailStep ==
  ASSUME Inv, NEW r \in Request, RpcFails(r)
  PROVE  Inv'
<1>1. ChainTypes /\ CallTypes /\ AtHand /\ HistoryTypes /\ cached \subseteq Result
  BY TypeParts DEF Inv
<1>2. CallTypes' /\ AtHand' /\ HistoryTypes'
  BY <1>1 DEF RpcFails, CallTypes, AtHand, HistoryTypes, historyVars, Active
<1>3. Traced(r)'
  BY <1>1 DEF RpcFails, CallTypes, Traced, Inv, chainVars, historyVars, Active
<1>4. OthersAlone(r)
  BY <1>1 DEF OthersAlone, RpcFails, CallTypes, historyVars
<1>5. QED
  BY <1>1, <1>2, <1>3, <1>4, OwnStep DEF RpcFails

-----------------------------------------------------------------------------
(* The steps of the specification. *)

\* What is read from the contract that was found was there.
LEMMA ContentWasThere ==
  ASSUME Inv, NEW r \in Request, pc[r] = "content"
  PROVE  content[found[r]] \in Content \cup {Nothing} /\ WasThere(r, content[found[r]])
<1>1. found[r] \in Contract /\ found[r] \in hadResolver[r] /\ found[r] # Nothing
  BY ResolverAssumption DEF Inv, TypeOK, Traced
<1>2. content[found[r]] \in hadContent[r][found[r]]
  BY <1>1 DEF Inv, Traced, Active
<1>3. QED
  BY <1>1, <1>2 DEF WasThere, Inv, TypeOK

LEMMA NameServiceStep ==
  ASSUME Inv, NEW r \in Request, NameServiceEnds(r)
  PROVE  Inv'
<1>1. CASE BasenamesResolver(r) \/ EnsResolver(r)
  BY <1>1, ResolverStep DEF BasenamesResolver, EnsResolver
<1>2. CASE BasenamesContent(r) \/ EnsContent(r)
  BY <1>2, ContentWasThere, ContentHashStep DEF BasenamesContent, EnsContent, Active
<1>3. CASE Web3NameContent(r)
  <2> DEFINE c == IF resolver = Nothing THEN Nothing ELSE content[resolver]
  <2>1. pc[r] \in Active /\ resolver \in hadResolver[r] /\ \A k \in Contract : content[k] \in hadContent[r][k]
    BY <1>3 DEF Web3NameContent, Active, Inv, Traced
  <2>2. c \in Content \cup {Nothing} /\ WasThere(r, c)
    BY <2>1 DEF WasThere, Inv, TypeOK
  <2>3. QED
    BY <1>3, <2>1, <2>2, ContentHashStep DEF Web3NameContent
<1>4. CASE RpcFails(r)
  BY <1>4, FailStep
<1>5. QED
  BY <1>1, <1>2, <1>3, <1>4 DEF NameServiceEnds

\* An idle request has made no calls yet.
Uncalled == \A r \in Request : pc[r] \in Ended => calls[r] = 0

LEMMA MemoizeStep ==
  ASSUME Inv, Uncalled, NEW r \in Request, Hit(r) \/ Miss(r) \/ MemoizeEnds(r)
  PROVE  Inv'
<1>1. cached \subseteq Result /\ result[r] \in Result /\ NoResult \in Result
  BY DEF Inv, TypeOK, Result, NoResult
<1>2. CASE Hit(r)
  <2>1. PICK x \in cached : End(r, "ok", x)
    BY <1>2 DEF Hit
  <2>2. QED
    BY <1>1, <1>2, <2>1, EndStep DEF Hit
<1>3. CASE Miss(r)
  <2>1. calls[r] < MaxCalls
    BY <1>3, ResolverAssumption DEF Miss, Uncalled
  <2>2. QED
    BY <1>1, <1>3, <2>1, BeginStep DEF Miss
<1>4. CASE Again(r)
  <2>1. cached' \subseteq Result
    BY <1>1, <1>4 DEF Again, Kept
  <2>2. QED
    BY <1>4, <2>1, BeginStep DEF Again
<1>5. CASE Return(r)
  <2>1. cached' \subseteq Result
    BY <1>1, <1>5 DEF Return, Kept
  <2>2. QED
    BY <1>1, <1>5, <2>1, EndStep DEF Return
<1>6. CASE Reject(r)
  BY <1>1, <1>6, EndStep DEF Reject
<1>7. QED
  BY <1>2, <1>3, <1>4, <1>5, <1>6 DEF MemoizeEnds

LEMMA HelperStep ==
  ASSUME Inv, NEW r \in Request, ResolveArweave(r) \/ KuboAnswers(r) \/ KuboFails(r)
  PROVE  Inv'
  BY HeldStep, ArweaveRejectStep DEF ResolveArweave, KuboAnswers, KuboFails, ParseRecord

LEMMA ExpireStep ==
  ASSUME Inv, NEW x \in cached, Expire(x)
  PROVE  Inv'
<1>1. \A r \in Request : Traced(r)'
  BY OtherStaysTraced DEF Inv, Expire, callVars, historyVars
<1>2. TypeOK'
  BY DEF Inv, Expire, callVars, historyVars, chainVars, TypeOK
<1>3. QED
  BY <1>1, <1>2 DEF Inv

LEMMA OwnerStep ==
  ASSUME Inv,
         \/ \E k \in Contract \cup {Nothing} : SetResolver(k)
         \/ \E k \in Contract, c \in Content \cup {Nothing} : SetContent(k, c)
  PROVE  Inv'
<1>1. ChainTypes /\ CallTypes /\ AtHand /\ HistoryTypes /\ cached \subseteq Result
  BY TypeParts DEF Inv
<1>2. CallTypes' /\ AtHand' /\ cached' \subseteq Result
  BY <1>1 DEF SetResolver, SetContent, callVars, CallTypes, AtHand
<1>3. ASSUME NEW k \in Contract \cup {Nothing}, SetResolver(k)
      PROVE  Inv'
  <2>1. ChainTypes' /\ HistoryTypes'
    BY <1>1, <1>3, ResolverAssumption DEF SetResolver, ChainTypes, HistoryTypes
  <2>2. TypeOK'
    BY <1>2, <2>1 DEF TypeOK, ChainTypes, CallTypes, AtHand, HistoryTypes
  <2>3. ASSUME NEW r \in Request
        PROVE  Traced(r)'
    <3>1. pc[r] \in Active => hadResolver'[r] = hadResolver[r] \cup {k}
      BY <1>3 DEF SetResolver
    <3>2. QED
      BY <1>3, <3>1 DEF SetResolver, callVars, Traced, WasThere, Active, Inv
  <2>4. QED
    BY <2>2, <2>3 DEF Inv
<1>4. ASSUME NEW k \in Contract, NEW c \in Content \cup {Nothing}, SetContent(k, c)
      PROVE  Inv'
  <2>1. HistoryTypes'
    BY <1>1, <1>4 DEF SetContent, HistoryTypes
  <2>2. ChainTypes'
    BY <1>1, <1>4, ResolverAssumption DEF SetContent, ChainTypes
  <2>3. TypeOK'
    BY <1>2, <2>1, <2>2 DEF TypeOK, ChainTypes, CallTypes, AtHand, HistoryTypes
  <2>4. ASSUME NEW r \in Request
        PROVE  Traced(r)'
    <3>1. \A j \in Contract : hadContent[r][j] \subseteq hadContent'[r][j]
      BY <1>1, <1>4 DEF SetContent, HistoryTypes
    <3>2. pc[r] \in Active => c \in hadContent'[r][k]
      BY <1>1, <1>4 DEF SetContent, HistoryTypes
    <3>3. pc[r] \in Active => \A j \in Contract : content'[j] \in hadContent'[r][j]
      BY <1>1, <1>4, <3>1, <3>2 DEF SetContent, ChainTypes, Traced, Inv
    <3>4. \A d : WasThere(r, d) => WasThere(r, d)'
      BY <1>1, <1>4, <3>1 DEF SetContent, WasThere, HistoryTypes
    <3>5. QED
      BY <1>4, <3>3, <3>4 DEF SetContent, callVars, Traced, Active, Inv
  <2>5. QED
    BY <2>3, <2>4 DEF Inv
<1>5. QED
  BY <1>3, <1>4

LEMMA UncalledInductive ==
  /\ Init => Uncalled
  /\ Inv /\ Uncalled /\ [Next]_vars => Uncalled'
<1>1. Init => Uncalled
  BY DEF Init, Uncalled
<1>2. ASSUME Inv, Uncalled, [Next]_vars
      PROVE  Uncalled'
  <2>1. pc \in [Request -> Active \cup Ended] /\ calls \in [Request -> 0 .. MaxCalls]
    BY <1>2 DEF Inv, TypeOK
  <2>2. ASSUME NEW r \in Request, Hit(r) \/ Miss(r) \/ MemoizeEnds(r)
        PROVE  Uncalled'
    BY <1>2, <2>1, <2>2 DEF Hit, Miss, MemoizeEnds, Again, Return, Reject, Begin, End, Uncalled, Ended
  <2>3. ASSUME NEW r \in Request, NameServiceEnds(r)
        PROVE  Uncalled'
    <3>1. UNCHANGED calls
      BY <2>3 DEF NameServiceEnds, BasenamesResolver, BasenamesContent, EnsResolver, EnsContent,
         Web3NameContent, RpcFails, ContentHash, Fallback, ParseRecord, Resolved, Goto
    <3>2. \A q \in Request : pc'[q] = pc[q] \/ pc'[q] \notin Ended
      BY <2>1, <2>3 DEF NameServiceEnds, BasenamesResolver, BasenamesContent, EnsResolver, EnsContent,
         Web3NameContent, RpcFails, ContentHash, Fallback, ParseRecord, Resolved, Goto, Ended
    <3>3. QED
      BY <1>2, <3>1, <3>2 DEF Uncalled
  <2>4. ASSUME NEW r \in Request, ResolveArweave(r) \/ KuboAnswers(r) \/ KuboFails(r)
        PROVE  Uncalled'
    BY <1>2, <2>1, <2>4 DEF ResolveArweave, KuboAnswers, KuboFails, ParseRecord, Resolved, Goto, Uncalled, Ended
  <2>5. CASE \/ UNCHANGED vars
             \/ \E x \in cached : Expire(x)
             \/ \E k \in Contract \cup {Nothing} : SetResolver(k)
             \/ \E k \in Contract, c \in Content \cup {Nothing} : SetContent(k, c)
    BY <1>2, <2>5 DEF vars, Expire, SetResolver, SetContent, callVars, Uncalled
  <2>6. QED
    BY <1>2, <2>2, <2>3, <2>4, <2>5 DEF Next
<1>3. QED
  BY <1>1, <1>2

LEMMA InvInductive == Inv /\ Uncalled /\ [Next]_vars => Inv'
<1> SUFFICES ASSUME Inv, Uncalled, [Next]_vars PROVE Inv'
  OBVIOUS
<1>1. ASSUME UNCHANGED vars
      PROVE  Inv'
  <2>1. \A r \in Request : Traced(r)'
    BY <1>1, OtherStaysTraced DEF Inv, vars, callVars, historyVars
  <2>2. TypeOK'
    BY <1>1 DEF Inv, vars, callVars, historyVars, chainVars, TypeOK
  <2>3. QED
    BY <2>1, <2>2 DEF Inv
<1>2. QED
  BY <1>1, MemoizeStep, NameServiceStep, HelperStep, ExpireStep, OwnerStep DEF Next

LEMMA Invariance == Spec => [](Inv /\ Uncalled)
<1>1. Init => Inv /\ Uncalled
  BY InitInv, UncalledInductive
<1>2. Inv /\ Uncalled /\ [Next]_vars => (Inv /\ Uncalled)'
  BY InvInductive, UncalledInductive
<1>3. QED
  BY <1>1, <1>2, PTL DEF Spec

-----------------------------------------------------------------------------
(* The theorems. *)

\* Every variable keeps its type, and a request that is to use an address or a
\* content hash has one.
THEOREM TypeCorrect == Spec => []TypeOK
<1>1. Inv => TypeOK
  BY DEF Inv
<1>2. QED
  BY <1>1, Invariance, PTL

\* What is about to be cached was there to be read while it was resolved, for any
\* number of requests, contracts and edits: no failure passes for a missing record.
THEOREM NothingMadeUp == Spec => []ResolvedWasThere
<1>1. Inv => ResolvedWasThere
  BY DEF Inv, Traced, ResolvedWasThere
<1>2. QED
  BY <1>1, Invariance, PTL

\* Kubo fails no resolution, for any content hashes and any failures of the others.
THEOREM KuboIsHarmless == Spec => []KuboFailsNothing
<1>1. Inv => KuboFailsNothing
  BY DEF Inv, Traced, KuboFailsNothing
<1>2. QED
  BY <1>1, Invariance, PTL

\* A result that is out of date was overtaken by the owner while it was resolved.
THEOREM OnlyEditsOutdate == Spec => []UndisturbedIsCurrent
<1>1. ASSUME Inv, NEW r \in Request, pc[r] = "resolved", Undisturbed(r)
      PROVE  result[r].from = Current
  <2>1. WasThere(r, result[r].from) /\ resolver \in Contract \cup {Nothing}
    BY <1>1 DEF Inv, TypeOK, Traced
  <2>2. QED
    BY <1>1, <2>1 DEF Undisturbed, WasThere, Current
<1>2. Inv => UndisturbedIsCurrent
  BY <1>1 DEF UndisturbedIsCurrent
<1>3. QED
  BY <1>2, Invariance, PTL

-----------------------------------------------------------------------------
(* Every request ends. That what it waits for can end is a hypothesis.       *)

At(r, n, place) == pc[r] = place /\ calls[r] = n

\* r is in its n-th call of _resolveEns.
InCall(r, n) == pc[r] \in Active /\ calls[r] = n

\* A request that resolves is in some call.
Called == \A r \in Request : pc[r] \in Active => calls[r] # 0

LEMMA CalledInductive ==
  /\ Init => Called
  /\ TypeOK /\ Called /\ [Next]_vars => Called'
<1>1. Init => Called
  BY DEF Init, Called, Active
<1>2. ASSUME TypeOK, Called, [Next]_vars
      PROVE  Called'
  <2>1. pc \in [Request -> Active \cup Ended] /\ calls \in [Request -> 0 .. MaxCalls] /\ MaxCalls \in Nat
    BY <1>2, ResolverAssumption DEF TypeOK
  <2>2. ASSUME NEW r \in Request, Hit(r) \/ Miss(r) \/ MemoizeEnds(r)
        PROVE  Called'
    BY <1>2, <2>1, <2>2 DEF Hit, Miss, MemoizeEnds, Again, Return, Reject, Begin, End, Called, Active
  <2>3. ASSUME NEW r \in Request, NameServiceEnds(r)
        PROVE  Called'
    <3>1. UNCHANGED calls /\ pc[r] \in Active
      BY <2>3 DEF NameServiceEnds, BasenamesResolver, BasenamesContent, EnsResolver, EnsContent,
         Web3NameContent, RpcFails, ContentHash, Fallback, ParseRecord, Resolved, Goto, Active
    <3>2. \A q \in Request \ {r} : pc'[q] = pc[q]
      BY <2>1, <2>3 DEF NameServiceEnds, BasenamesResolver, BasenamesContent, EnsResolver, EnsContent,
         Web3NameContent, RpcFails, ContentHash, Fallback, ParseRecord, Resolved, Goto
    <3>3. QED
      BY <1>2, <3>1, <3>2 DEF Called
  <2>4. ASSUME NEW r \in Request, ResolveArweave(r) \/ KuboAnswers(r) \/ KuboFails(r)
        PROVE  Called'
    BY <1>2, <2>1, <2>4 DEF ResolveArweave, KuboAnswers, KuboFails, ParseRecord, Resolved, Goto, Called, Active
  <2>5. CASE \/ UNCHANGED vars
             \/ \E x \in cached : Expire(x)
             \/ \E k \in Contract \cup {Nothing} : SetResolver(k)
             \/ \E k \in Contract, c \in Content \cup {Nothing} : SetContent(k, c)
    BY <1>2, <2>5 DEF vars, Expire, SetResolver, SetContent, callVars, Called
  <2>6. QED
    BY <1>2, <2>2, <2>3, <2>4, <2>5 DEF Next
<1>3. QED
  BY <1>1, <1>2

\* A step of another request, of the owner or of the cache leaves r where it is.
LEMMA OthersStay ==
  ASSUME TypeOK, [Next]_vars, NEW r \in Request,
         ~(\/ Hit(r) \/ Miss(r) \/ MemoizeEnds(r) \/ NameServiceEnds(r)
           \/ ResolveArweave(r) \/ KuboAnswers(r) \/ KuboFails(r))
  PROVE  pc'[r] = pc[r] /\ calls'[r] = calls[r]
<1>1. pc \in [Request -> Active \cup Ended] /\ calls \in [Request -> 0 .. MaxCalls]
  BY DEF TypeOK
<1>2. ASSUME NEW q \in Request \ {r}, Hit(q) \/ Miss(q) \/ MemoizeEnds(q)
      PROVE  pc'[r] = pc[r] /\ calls'[r] = calls[r]
  BY <1>1, <1>2 DEF Hit, Miss, MemoizeEnds, Again, Return, Reject, Begin, End
<1>3. ASSUME NEW q \in Request \ {r}, NameServiceEnds(q)
      PROVE  pc'[r] = pc[r] /\ calls'[r] = calls[r]
  BY <1>1, <1>3 DEF NameServiceEnds, BasenamesResolver, BasenamesContent, EnsResolver, EnsContent,
     Web3NameContent, RpcFails, ContentHash, Fallback, ParseRecord, Resolved, Goto
<1>4. ASSUME NEW q \in Request \ {r}, ResolveArweave(q) \/ KuboAnswers(q) \/ KuboFails(q)
      PROVE  pc'[r] = pc[r] /\ calls'[r] = calls[r]
  BY <1>1, <1>4 DEF ResolveArweave, KuboAnswers, KuboFails, ParseRecord, Resolved, Goto
<1>5. CASE \/ UNCHANGED vars
           \/ \E x \in cached : Expire(x)
           \/ \E k \in Contract \cup {Nothing} : SetResolver(k)
           \/ \E k \in Contract, c \in Content \cup {Nothing} : SetContent(k, c)
  BY <1>5 DEF vars, Expire, SetResolver, SetContent, callVars
<1>6. QED
  BY <1>2, <1>3, <1>4, <1>5 DEF Next

\* A call goes from the contract to the content hash to Arweave or Kubo, leaving
\* out what it does not need, until there is an outcome; the next one begins anew.
LEMMA WhereNext ==
  ASSUME TypeOK, [Next]_vars, NEW r \in Request, NEW n \in 1 .. MaxCalls
  PROVE  /\ At(r, n, "resolver") => /\ calls'[r] = n
                                    /\ pc'[r] \in Active
         /\ At(r, n, "content") => /\ calls'[r] = n
                                   /\ pc'[r] \in Active \ {"resolver"}
         /\ At(r, n, "arweave") => /\ calls'[r] = n
                                   /\ pc'[r] \in {"arweave", "resolved", "rejected"}
         /\ At(r, n, "kubo") => /\ calls'[r] = n
                                /\ pc'[r] \in {"kubo", "resolved"}
         /\ pc[r] \in {"resolved", "rejected"} /\ calls[r] = n =>
              \/ pc'[r] = pc[r] /\ calls'[r] = n
              \/ pc'[r] \in Ended
              \/ n < MaxCalls /\ calls'[r] = n + 1 /\ pc'[r] \in Active
<1>1. pc \in [Request -> Active \cup Ended] /\ calls \in [Request -> 0 .. MaxCalls]
  BY DEF TypeOK
<1>2. CASE Hit(r) \/ Miss(r) \/ MemoizeEnds(r)
  BY <1>1, <1>2 DEF At, Hit, Miss, MemoizeEnds, Again, Return, Reject, Begin, End, Active, Ended
<1>3. CASE NameServiceEnds(r)
  BY <1>1, <1>3 DEF At, NameServiceEnds, BasenamesResolver, BasenamesContent, EnsResolver, EnsContent,
     Web3NameContent, RpcFails, ContentHash, Fallback, ParseRecord, Resolved, Goto, Active
<1>4. CASE ResolveArweave(r) \/ KuboAnswers(r) \/ KuboFails(r)
  BY <1>1, <1>4 DEF At, ResolveArweave, KuboAnswers, KuboFails, ParseRecord, Resolved, Goto, Active
<1>5. CASE pc'[r] = pc[r] /\ calls'[r] = calls[r]
  BY <1>1, <1>5 DEF At, Active
<1>6. QED
  BY <1>2, <1>3, <1>4, <1>5, OthersStay

\* The end of what r waits for takes it elsewhere.
LEMMA WaitEnds ==
  ASSUME TypeOK, NEW r \in Request
  PROVE  /\ NameServiceEnds(r) => pc'[r] # pc[r]
         /\ MemoizeEnds(r) => pc'[r] # pc[r]
         /\ ResolveArweave(r) => pc'[r] # "arweave"
         /\ KuboFails(r) => pc'[r] # "kubo"
<1>1. pc \in [Request -> Active \cup Ended]
  BY DEF TypeOK
<1>2. NameServiceEnds(r) => pc'[r] # pc[r]
  BY <1>1 DEF NameServiceEnds, BasenamesResolver, BasenamesContent, EnsResolver, EnsContent,
     Web3NameContent, RpcFails, ContentHash, Fallback, ParseRecord, Resolved, Goto
<1>3. QED
  BY <1>1, <1>2 DEF MemoizeEnds, Again, Return, Reject, Begin, End, ResolveArweave, KuboFails,
     ParseRecord, Resolved, Goto

\* The n-th call ends, in an answer or in the m-th, when what r waits for can.
CallEnds(r, n, m) ==
  /\ Spec /\ FairFor(r)
  /\ [](pc[r] \in {"resolver", "content"} => ENABLED <<NameServiceEnds(r)>>_vars)
  /\ [](pc[r] \in {"resolved", "rejected"} => ENABLED <<MemoizeEnds(r)>>_vars)
  /\ [](pc[r] = "arweave" => ENABLED <<ResolveArweave(r)>>_vars)
  /\ [](pc[r] = "kubo" => ENABLED <<KuboFails(r)>>_vars)
  => (InCall(r, n) ~> pc[r] \in Ended \/ InCall(r, m))

LEMMA EveryCallEnds ==
  ASSUME NEW r \in Request, NEW n \in 1 .. MaxCalls, NEW m, m = n + 1
  PROVE  CallEnds(r, n, m)
<1>1. /\ InCall(r, n) => \/ At(r, n, "resolver") \/ At(r, n, "content") \/ At(r, n, "arweave")
                         \/ At(r, n, "kubo") \/ At(r, n, "resolved") \/ At(r, n, "rejected")
      /\ At(r, n, "resolver") \/ At(r, n, "content") => pc[r] \in {"resolver", "content"}
      /\ At(r, n, "resolved") \/ At(r, n, "rejected") => pc[r] \in {"resolved", "rejected"}
      /\ At(r, n, "arweave") => pc[r] = "arweave"
      /\ At(r, n, "kubo") => pc[r] = "kubo"
  BY DEF InCall, At, Active
<1>2. TypeOK /\ [Next]_vars =>
        /\ At(r, n, "resolver") =>
             \/ At(r, n, "resolver")' \/ At(r, n, "content")' \/ At(r, n, "arweave")'
             \/ At(r, n, "kubo")' \/ At(r, n, "resolved")' \/ At(r, n, "rejected")'
        /\ At(r, n, "content") =>
             \/ At(r, n, "content")' \/ At(r, n, "arweave")'
             \/ At(r, n, "kubo")' \/ At(r, n, "resolved")' \/ At(r, n, "rejected")'
        /\ At(r, n, "arweave") => \/ At(r, n, "arweave")' \/ At(r, n, "resolved")'
                                  \/ At(r, n, "rejected")'
        /\ At(r, n, "kubo") => At(r, n, "kubo")' \/ At(r, n, "resolved")'
        /\ At(r, n, "resolved") => At(r, n, "resolved")' \/ (pc[r] \in Ended)' \/ InCall(r, m)'
        /\ At(r, n, "rejected") => At(r, n, "rejected")' \/ (pc[r] \in Ended)' \/ InCall(r, m)'
  BY WhereNext DEF At, InCall, Active
<1>3. TypeOK =>
        /\ <<NameServiceEnds(r)>>_vars => /\ At(r, n, "resolver") => ~At(r, n, "resolver")'
                                          /\ At(r, n, "content") => ~At(r, n, "content")'
        /\ <<MemoizeEnds(r)>>_vars => /\ At(r, n, "resolved") => ~At(r, n, "resolved")'
                                      /\ At(r, n, "rejected") => ~At(r, n, "rejected")'
        /\ <<ResolveArweave(r)>>_vars => ~At(r, n, "arweave")'
        /\ <<KuboFails(r)>>_vars => ~At(r, n, "kubo")'
  BY WaitEnds DEF At
<1>4. QED
  BY <1>1, <1>2, <1>3, TypeCorrect, PTL DEF Spec, FairFor, CallEnds

\* Every request ends, whether Kubo answers or not, for any number of requests and
\* edits: memoize calls _resolveEns three times at most (ThunkCalls of TieredCache),
\* and each call ends when what it waits for can.
THEOREM RequestsAlwaysEnd ==
  ASSUME MaxCalls \in 1 .. 3
  PROVE  FairSpec /\ []WaitsCanEnd => RequestsEnd
<1>1. ASSUME NEW r \in Request
      PROVE  FairSpec /\ []WaitsCanEnd => (pc[r] \in Active ~> pc[r] \in Ended)
  <2>1. WaitsCanEnd =>
          /\ pc[r] \in {"resolver", "content"} => ENABLED <<NameServiceEnds(r)>>_vars
          /\ pc[r] \in {"resolved", "rejected"} => ENABLED <<MemoizeEnds(r)>>_vars
          /\ pc[r] = "arweave" => ENABLED <<ResolveArweave(r)>>_vars
          /\ pc[r] = "kubo" => ENABLED <<KuboFails(r)>>_vars
    BY DEF WaitsCanEnd
  <2>2. FairRequests => FairFor(r)
    BY DEF FairRequests
  <2>3. TypeOK /\ Called => (pc[r] \in Active => InCall(r, 1) \/ InCall(r, 2) \/ InCall(r, 3))
    <3>1. ASSUME TypeOK, Called, pc[r] \in Active
          PROVE  calls[r] \in {1, 2, 3}
      <4>1. calls[r] \in 0 .. MaxCalls /\ calls[r] # 0
        BY <3>1 DEF TypeOK, Called
      <4>2. QED
        BY <4>1
    <3>2. QED
      BY <3>1 DEF InCall
  <2>4. Spec => []Called
    BY CalledInductive, TypeCorrect, PTL DEF Spec
  <2>5. CASE MaxCalls = 1
    <3>1. CallEnds(r, 1, 2) /\ (TypeOK => ~InCall(r, 2) /\ ~InCall(r, 3))
      BY <2>5, EveryCallEnds DEF TypeOK, InCall
    <3>2. QED
      BY <2>1, <2>2, <2>3, <2>4, <3>1, TypeCorrect, PTL DEF FairSpec, Fairness, CallEnds
  <2>6. CASE MaxCalls = 2
    <3>1. CallEnds(r, 1, 2) /\ CallEnds(r, 2, 3) /\ (TypeOK => ~InCall(r, 3))
      BY <2>6, EveryCallEnds DEF TypeOK, InCall
    <3>2. QED
      BY <2>1, <2>2, <2>3, <2>4, <3>1, TypeCorrect, PTL DEF FairSpec, Fairness, CallEnds
  <2>7. CASE MaxCalls = 3
    <3>1. CallEnds(r, 1, 2) /\ CallEnds(r, 2, 3) /\ CallEnds(r, 3, 4) /\ (TypeOK => ~InCall(r, 4))
      BY <2>7, EveryCallEnds DEF TypeOK, InCall
    <3>2. QED
      BY <2>1, <2>2, <2>3, <2>4, <3>1, TypeCorrect, PTL DEF FairSpec, Fairness, CallEnds
  <2>8. QED
    BY <2>5, <2>6, <2>7
<1>2. QED
  BY <1>1 DEF RequestsEnd

-----------------------------------------------------------------------------
(* The endpoints of EnsService. *)

\* What the configuration allows.
FailoverConstants ==
  /\ Backends \in Nat /\ Quorum \in 1 .. Backends
  /\ provider_stall_timeout_ms \in Nat /\ provider_timeout_ms \in Nat
  /\ MaxTime \in Nat

FailoverTypes ==
  /\ now \in Nat
  /\ applied \in BOOLEAN
  /\ status \in [Endpoint -> {"unasked", "asked", "answered", "failed"}]
  /\ since \in [Endpoint -> Nat]
  /\ bumped \subseteq Endpoint
  /\ request \in {"pending", "answered", "failed"}

\* Asked, and not failed since.
Used == In("asked") \cup In("answered")

\* While endpoints are left to ask, one is asked for each that stalls or fails.
Counts ==
  /\ request = "pending" => /\ Cardinality(In("answered")) < Quorum
                            /\ Cardinality(In("failed")) <= Backends - Quorum
  /\ In("unasked") # {} => Cardinality(Used) = Quorum + Cardinality(bumped)

\* The timers have fired when they were due.
Timers ==
  /\ request = "pending" =>
       \A b \in In("asked") \ bumped : now - since[b] <= provider_timeout_ms
  /\ dropped \subseteq In("failed")
  /\ \A b \in dropped : now - since[b] >= provider_stall_timeout_ms

FailoverInv == FailoverTypes /\ Counts /\ Timers

\* A non-empty set of naturals has a least element.
LEMMA LeastNatural ==
  ASSUME NEW T, T \subseteq Nat, T # {}
  PROVE  \E m \in T : \A y \in T : m <= y
<1> DEFINE Less == {p \in Nat \X Nat : p[1] < p[2]}
<1>1. IsWellFoundedOn(Less, Nat)
  BY NatLessThanWellFounded DEF OpToRel
<1>2. PICK m \in T : \A y \in T : ~ (<<y, m>> \in Less)
  BY <1>1, WFMin
<1>3. \A y \in T : ~ (y < m)
  BY <1>2
<1>4. QED
  BY <1>3

\* Sets of endpoints can be counted.
LEMMA EndpointsFinite ==
  ASSUME FailoverConstants
  PROVE  /\ IsFiniteSet(Endpoint) /\ Cardinality(Endpoint) = Backends
         /\ \A S \in SUBSET Endpoint : IsFiniteSet(S) /\ Cardinality(S) \in Nat
<1>1. IsFiniteSet(Endpoint) /\ Cardinality(Endpoint) = Backends
  BY FS_Interval DEF FailoverConstants, Endpoint
<1>2. QED
  BY <1>1, FS_Subset, FS_CardinalityType

\* The endpoint AskNext chooses is one that was not asked.
LEMMA NextAsked ==
  ASSUME FailoverConstants, NEW st \in [Endpoint -> {"unasked", "asked", "answered", "failed"}],
         AskNext(st)
  PROVE  \/ /\ \A b \in Endpoint : st[b] # "unasked"
            /\ status' = st /\ UNCHANGED since
         \/ \E n \in Endpoint : /\ st[n] = "unasked"
                                /\ status' = [st EXCEPT ![n] = "asked"]
                                /\ since' = [since EXCEPT ![n] = now]
<1> DEFINE rest == {b \in Endpoint : st[b] = "unasked"}
           next == CHOOSE b \in rest : \A c \in rest : b <= c
<1>1. CASE rest = {}
  BY <1>1 DEF AskNext
<1>2. CASE rest # {}
  <2>1. rest \subseteq Nat
    BY DEF Endpoint, FailoverConstants
  <2>2. \E b \in rest : \A c \in rest : b <= c
    BY <1>2, <2>1, LeastNatural
  <2>3. next \in rest
    BY <2>2
  <2>4. status' = [st EXCEPT ![next] = "asked"] /\ since' = [since EXCEPT ![next] = now]
    BY <1>2 DEF AskNext
  <2> HIDE DEF next
  <2>5. QED
    BY <2>3, <2>4
<1>3. QED
  BY <1>1, <1>2

\* An endpoint answers.
LEMMA AnswersKeeps ==
  ASSUME FailoverConstants, FailoverInv, NEW b \in Endpoint, Answers(b)
  PROVE  FailoverInv'
<1> USE DEF FailoverInv
<1>1. FailoverTypes'
  BY DEF FailoverTypes, Answers
<1>2. /\ In("answered")' = In("answered") \cup {b} /\ b \notin In("answered")
      /\ In("failed")' = In("failed") /\ In("unasked")' = In("unasked")
      /\ In("asked")' = In("asked") \ {b} /\ b \in In("asked")
  BY DEF FailoverTypes, Answers, In
<1>3. Used' = Used
  BY <1>2 DEF Used
<1>4. Cardinality(In("answered")') = Cardinality(In("answered")) + 1
  <2>1. In("answered") \subseteq Endpoint
    BY DEF In
  <2>2. QED
    BY <1>2, <2>1, EndpointsFinite, FS_AddElement
<1>5. Counts'
  <2>1. request' = "pending" => Cardinality(In("answered")) + 1 < Quorum
    <3>1. In("answered") \subseteq Endpoint
      BY DEF In
    <3>2. Cardinality(In("answered")) \in Nat
      BY <3>1, EndpointsFinite
    <3>3. QED
      BY <3>2 DEF Answers, FailoverConstants
  <2>2. request' = "pending" => request = "pending"
    BY DEF Answers
  <2>3. bumped' = bumped
    BY DEF Answers
  <2>4. QED
    BY <1>2, <1>3, <1>4, <2>1, <2>2, <2>3 DEF Counts
<1>6. Timers'
  BY <1>2 DEF Answers, Timers
<1>7. QED
  BY <1>1, <1>5, <1>6

\* An endpoint fails, and the next one is asked.
LEMMA FailsKeeps ==
  ASSUME FailoverConstants, FailoverInv, NEW b \in Endpoint, Fails(b),
         \/ UNCHANGED dropped
         \/ dropped' = dropped \cup {b} /\ now - since[b] >= provider_stall_timeout_ms
  PROVE  FailoverInv'
<1> USE DEF FailoverInv
<1> DEFINE st == [status EXCEPT ![b] = "failed"]
<1>1. /\ st \in [Endpoint -> {"unasked", "asked", "answered", "failed"}]
      /\ \A c \in Endpoint : st[c] = IF c = b THEN "failed" ELSE status[c]
      /\ status[b] = "asked" /\ request = "pending"
      /\ UNCHANGED <<now, applied, bumped>>
  BY DEF FailoverTypes, Fails
<1>2. AskNext(st)
  BY DEF Fails
<1> HIDE DEF st
<1>3. /\ In("failed")' = In("failed") \cup {b} /\ b \notin In("failed")
      /\ In("answered")' = In("answered")
      /\ FailoverTypes'
      /\ \A c \in Endpoint : status[c] # "unasked" => since'[c] = since[c]
      /\ \/ In("unasked") = {} /\ In("unasked")' = {} /\ In("asked")' = In("asked") \ {b}
         \/ \E n \in In("unasked") : /\ In("asked")' = (In("asked") \ {b}) \cup {n}
                                     /\ since'[n] = now /\ n # b
  <2>1. request' \in {"pending", "failed"}
    BY <1>1 DEF Fails
  <2>2. CASE (\A c \in Endpoint : st[c] # "unasked") /\ status' = st /\ UNCHANGED since
    BY <1>1, <2>1, <2>2 DEF In, FailoverTypes
  <2>3. ASSUME NEW n \in Endpoint, st[n] = "unasked", status' = [st EXCEPT ![n] = "asked"],
               since' = [since EXCEPT ![n] = now]
        PROVE  /\ In("failed")' = In("failed") \cup {b} /\ b \notin In("failed")
               /\ In("answered")' = In("answered")
               /\ FailoverTypes'
               /\ \A c \in Endpoint : status[c] # "unasked" => since'[c] = since[c]
               /\ n \in In("unasked") /\ In("asked")' = (In("asked") \ {b}) \cup {n}
               /\ since'[n] = now /\ n # b
    <3>1. n # b /\ status[n] = "unasked"
      BY <1>1, <2>3
    <3>2. FailoverTypes'
      BY <1>1, <2>1, <2>3 DEF FailoverTypes
    <3>3. \A c \in Endpoint : status'[c] = IF c = n THEN "asked" ELSE IF c = b THEN "failed" ELSE status[c]
      BY <1>1, <2>3
    <3>4. \A c \in Endpoint : c # n => since'[c] = since[c]
      BY <2>3 DEF FailoverTypes
    <3>5. since'[n] = now
      BY <2>3 DEF FailoverTypes
    <3>6. QED
      BY <1>1, <3>1, <3>2, <3>3, <3>4, <3>5 DEF In
  <2>4. QED
    BY <1>1, <1>2, <2>2, <2>3, NextAsked
<1>4. /\ IsFiniteSet(In("failed")) /\ Cardinality(In("failed")) \in Nat
      /\ IsFiniteSet(Used) /\ Cardinality(Used) \in Nat
      /\ Cardinality(bumped) \in Nat
  <2>1. In("failed") \subseteq Endpoint /\ Used \subseteq Endpoint
    BY DEF In, Used
  <2>2. QED
    BY <2>1, EndpointsFinite DEF FailoverTypes
<1>5. Cardinality(In("failed")') = Cardinality(In("failed")) + 1
  BY <1>3, <1>4, FS_AddElement
<1>6. In("unasked")' # {} => Cardinality(Used') = Cardinality(Used)
  <2>1. SUFFICES ASSUME In("unasked")' # {}
                 PROVE  Cardinality(Used') = Cardinality(Used)
    OBVIOUS
  <2>2. PICK n \in In("unasked") : In("asked")' = (In("asked") \ {b}) \cup {n} /\ n # b
    BY <1>3, <2>1
  <2>3. b \in Used /\ Used' = (Used \ {b}) \cup {n} /\ n \notin Used \ {b}
    BY <1>1, <1>3, <2>2 DEF Used, In
  <2>4. IsFiniteSet(Used \ {b}) /\ Cardinality(Used \ {b}) = Cardinality(Used) - 1
    BY <1>4, <2>3, FS_RemoveElement
  <2>5. Cardinality((Used \ {b}) \cup {n}) = Cardinality(Used \ {b}) + 1
    BY <2>3, <2>4, FS_AddElement
  <2>6. QED
    BY <1>4, <2>3, <2>4, <2>5
<1>7. In("unasked")' # {} => In("unasked") # {}
  BY <1>3
<1>8. Counts'
  <2>1. request' = "pending" => Cardinality(In("failed")) + 1 <= Backends - Quorum
    BY <1>1, <1>4 DEF Fails, FailoverConstants
  <2>2. QED
    BY <1>1, <1>3, <1>4, <1>5, <1>6, <1>7, <2>1 DEF Counts
<1>9. Timers'
  <2>1. \A c \in In("asked")' \ bumped : now - since'[c] <= provider_timeout_ms
    <3>1. \A c \in In("asked") \ bumped : since'[c] = since[c] /\ now - since[c] <= provider_timeout_ms
      BY <1>1, <1>3 DEF Timers, In
    <3>2. \A n \in Endpoint : since'[n] = now => now - since'[n] <= provider_timeout_ms
      BY DEF FailoverTypes, FailoverConstants
    <3>3. In("unasked") \subseteq Endpoint
      BY DEF In
    <3>4. QED
      BY <1>3, <3>1, <3>2, <3>3
  <2>2. dropped \subseteq In("failed") /\ b \in In("asked")
    BY <1>1 DEF Timers, In
  <2>3. \A c \in dropped \cup {b} : since'[c] = since[c]
    BY <1>3, <2>2 DEF In
  <2>4. QED
    BY <1>1, <1>3, <2>1, <2>2, <2>3 DEF Timers
<1>10. QED
  BY <1>3, <1>8, <1>9

\* The stall timer of an endpoint fires, and the next one is asked.
LEMMA StallsKeeps ==
  ASSUME FailoverConstants, FailoverInv, NEW b \in Endpoint, Stalls(b)
  PROVE  FailoverInv'
<1> USE DEF FailoverInv
<1>1. /\ AskNext(status) /\ b \notin bumped /\ bumped' = bumped \cup {b}
      /\ UNCHANGED <<now, applied, dropped, request>>
  BY DEF Stalls
<1>2. /\ In("failed")' = In("failed") /\ In("answered")' = In("answered")
      /\ FailoverTypes'
      /\ \A c \in Endpoint : status[c] # "unasked" => since'[c] = since[c]
      /\ \/ In("unasked") = {} /\ In("unasked")' = {} /\ In("asked")' = In("asked")
         \/ \E n \in In("unasked") : In("asked")' = In("asked") \cup {n} /\ since'[n] = now
  <2>1. CASE (\A c \in Endpoint : status[c] # "unasked") /\ status' = status /\ UNCHANGED since
    BY <1>1, <2>1 DEF In, FailoverTypes
  <2>2. ASSUME NEW n \in Endpoint, status[n] = "unasked", status' = [status EXCEPT ![n] = "asked"],
               since' = [since EXCEPT ![n] = now]
        PROVE  /\ In("failed")' = In("failed") /\ In("answered")' = In("answered")
               /\ FailoverTypes'
               /\ \A c \in Endpoint : status[c] # "unasked" => since'[c] = since[c]
               /\ n \in In("unasked") /\ In("asked")' = In("asked") \cup {n} /\ since'[n] = now
    <3>1. FailoverTypes'
      BY <1>1, <2>2 DEF FailoverTypes
    <3>2. \A c \in Endpoint : status'[c] = IF c = n THEN "asked" ELSE status[c]
      BY <2>2 DEF FailoverTypes
    <3>3. (\A c \in Endpoint : c # n => since'[c] = since[c]) /\ since'[n] = now
      BY <2>2 DEF FailoverTypes
    <3>4. QED
      BY <2>2, <3>1, <3>2, <3>3 DEF In
  <2>3. QED
    BY <1>1, <2>1, <2>2, NextAsked DEF FailoverTypes
<1>3. /\ IsFiniteSet(Used) /\ Cardinality(Used) \in Nat
      /\ IsFiniteSet(bumped) /\ Cardinality(bumped) \in Nat
  <2>1. Used \subseteq Endpoint
    BY DEF In, Used
  <2>2. QED
    BY <2>1, EndpointsFinite DEF FailoverTypes
<1>4. Cardinality(bumped') = Cardinality(bumped) + 1
  BY <1>1, <1>3, FS_AddElement
<1>5. In("unasked")' # {} => In("unasked") # {} /\ Cardinality(Used') = Cardinality(Used) + 1
  <2>1. SUFFICES ASSUME In("unasked")' # {}
                 PROVE  In("unasked") # {} /\ Cardinality(Used') = Cardinality(Used) + 1
    OBVIOUS
  <2>2. PICK n \in In("unasked") : In("asked")' = In("asked") \cup {n}
    BY <1>2, <2>1
  <2>3. Used' = Used \cup {n} /\ n \notin Used
    BY <1>2, <2>2 DEF Used, In
  <2>4. QED
    BY <1>3, <2>2, <2>3, FS_AddElement
<1>6. Counts'
  BY <1>1, <1>2, <1>3, <1>4, <1>5 DEF Counts, FailoverConstants
<1>7. Timers'
  <2>1. request = "pending" => \A c \in In("asked")' \ bumped' : now - since'[c] <= provider_timeout_ms
    <3>1. \A c \in In("asked") : since'[c] = since[c]
      BY <1>2 DEF In
    <3>2. \A n \in Endpoint : since'[n] = now => now - since'[n] <= provider_timeout_ms
      BY DEF FailoverTypes, FailoverConstants
    <3>3. In("unasked") \subseteq Endpoint
      BY DEF In
    <3>4. QED
      BY <1>1, <1>2, <3>1, <3>2, <3>3 DEF Timers
  <2>2. \A c \in dropped : since'[c] = since[c]
    BY <1>2 DEF Timers, In
  <2>3. QED
    BY <1>1, <1>2, <2>1, <2>2 DEF Timers
<1>8. QED
  BY <1>2, <1>6, <1>7

LEMMA FailoverInductive ==
  ASSUME FailoverConstants
  PROVE  /\ FailoverInit => FailoverInv
         /\ FailoverInv /\ [FailoverNext]_failoverVars => FailoverInv'
<1>1. ASSUME FailoverInit
      PROVE  FailoverInv
  <2>1. /\ In("asked") = 1 .. Quorum /\ In("answered") = {} /\ In("failed") = {}
        /\ now = 0 /\ bumped = {} /\ dropped = {} /\ request = "pending"
        /\ \A b \in Endpoint : since[b] = 0
    BY <1>1 DEF FailoverInit, In, Endpoint, FailoverConstants
  <2>2. Cardinality(Used) = Quorum /\ Cardinality(In("answered")) = 0
        /\ Cardinality(In("failed")) = 0 /\ Cardinality(bumped) = 0
    <3>1. Used = 1 .. Quorum
      BY <2>1 DEF Used
    <3>2. Cardinality(1 .. Quorum) = Quorum
      BY FS_Interval DEF FailoverConstants
    <3>3. QED
      BY <2>1, <3>1, <3>2, FS_EmptySet
  <2>3. FailoverTypes
    BY <1>1 DEF FailoverInit, FailoverTypes
  <2>4. Counts
    BY <2>1, <2>2 DEF Counts, FailoverConstants
  <2>5. Timers
    BY <2>1 DEF Timers, FailoverConstants, In
  <2>6. QED
    BY <2>3, <2>4, <2>5 DEF FailoverInv
<1>2. ASSUME FailoverInv, [FailoverNext]_failoverVars
      PROVE  FailoverInv'
  <2>1. ASSUME NEW b \in Endpoint, EndpointFails(b) \/ ConnectionTimesOut(b)
        PROVE  FailoverInv'
    BY <1>2, <2>1, FailsKeeps
       DEF EndpointFails, ConnectionTimesOut, Silent, connectionTimeout, getStallTimeout
  <2>2. CASE Tick
    <3>1. FailoverTypes' /\ Counts'
      BY <1>2, <2>2 DEF Tick, FailoverInv, FailoverTypes, Counts, Used, In
    <3>2. Timers'
      <4>1. \A b \in Endpoint : b \in In("asked") \ bumped => now - since[b] < provider_timeout_ms
        BY <1>2, <2>2 DEF Tick, Silent, stallTimeout, getProviderStallTimeout, In, FailoverInv,
           FailoverTypes, FailoverConstants
      <4>2. In("asked")' = In("asked") /\ In("failed")' = In("failed")
        BY <2>2 DEF Tick, In
      <4>3. now' = now + 1 /\ UNCHANGED <<since, bumped, dropped>>
        BY <2>2 DEF Tick
      <4>4. In("asked") \subseteq Endpoint /\ In("failed") \subseteq Endpoint
        BY DEF In
      <4>5. QED
        BY <1>2, <4>1, <4>2, <4>3, <4>4 DEF FailoverInv, FailoverTypes, Timers, FailoverConstants
    <3>3. QED
      BY <3>1, <3>2 DEF FailoverInv
  <2>3. CASE UNCHANGED failoverVars
    BY <1>2, <2>3 DEF failoverVars, FailoverInv, FailoverTypes, Counts, Timers, Used, In
  <2>4. QED
    BY <1>2, <2>1, <2>2, <2>3, AnswersKeeps, StallsKeeps DEF FailoverNext
<1>3. QED
  BY <1>1, <1>2

\* The endpoints that stalled are outnumbered by those asked, less those that answered.
LEMMA SomeoneUnbumped ==
  ASSUME FailoverConstants, FailoverInv, request = "pending", In("unasked") # {}
  PROVE  \E b \in In("asked") : b \notin bumped
<1>1. /\ In("asked") \subseteq Endpoint /\ In("answered") \subseteq Endpoint /\ bumped \subseteq Endpoint
      /\ In("asked") \cap In("answered") = {}
  BY DEF In, FailoverInv, FailoverTypes
<1>2. /\ IsFiniteSet(In("asked")) /\ IsFiniteSet(In("answered")) /\ IsFiniteSet(bumped)
      /\ Cardinality(In("asked")) \in Nat /\ Cardinality(In("answered")) \in Nat
      /\ Cardinality(bumped) \in Nat
  BY <1>1, EndpointsFinite
<1>3. Cardinality(Used) = Cardinality(In("asked")) + Cardinality(In("answered"))
  <2>1. Cardinality(In("asked") \cap In("answered")) = 0
    BY <1>1, FS_EmptySet
  <2>2. Cardinality(In("asked") \cup In("answered")) =
          Cardinality(In("asked")) + Cardinality(In("answered")) - Cardinality(In("asked") \cap In("answered"))
    BY <1>2, FS_Union
  <2>3. QED
    BY <1>2, <2>1, <2>2 DEF Used
<1>4. Cardinality(In("asked")) > Cardinality(bumped)
  BY <1>2, <1>3 DEF FailoverInv, Counts, FailoverConstants
<1>5. ~(In("asked") \subseteq bumped)
  BY <1>2, <1>4, FS_Subset
<1>6. QED
  BY <1>5

LEMMA FailoverInvariance ==
  ASSUME FailoverConstants
  PROVE  FailoverSpec => []FailoverInv
  BY FailoverInductive, PTL DEF FailoverSpec

\* What the two timeouts do in the code, for any number of endpoints, quorum and
\* timeouts: a silent endpoint is joined by the next one within
\* ETH_PROVIDER_TIMEOUT_MS, and none is dropped before ETH_PROVIDER_STALL_TIMEOUT_MS.
THEOREM FailoverAsBuilt ==
  ASSUME FailoverConstants
  PROVE  FailoverSpec => []TimeoutsAsBuilt
<1>1. FailoverInv => TimeoutsAsBuilt
  BY SomeoneUnbumped DEF FailoverInv, Timers, TimeoutsAsBuilt
<1>2. QED
  BY <1>1, FailoverInvariance, PTL
=============================================================================
