------------------------------ MODULE DnsQuery ------------------------------
(***************************************************************************)
(* DNS over HTTPS: dnsqueryPost, dnsqueryGet and the handleDnsQuery they   *)
(* share, in dweb-api-server/src/dnsquery/index.ts, over the checkBlacklist *)
(* of services/DomainsQueryService/index.ts.                               *)
(*                                                                         *)
(* A packet is the sequence of its questions. The name of a question is    *)
(* checked, what is resolved is DohDomain of it: the two differ for a name *)
(* with the _dnslink. prefix. resolveEns is any record that has a dnslink  *)
(* or has none, or an error (module Resolver).                             *)
(***************************************************************************)
EXTENDS DomainsApi

CONSTANTS
  Request,      \* concurrent requests; each can be used again
  DohDomain,    \* what is resolved for a name: the name, or what its _dnslink.
                \* prefix leaves of it up to the next "_dnslink."
  Packet,       \* the packets that are POSTed; a GET has one question
  MaxQuestions  \* 5

\* A name and whether a TXT record is asked for.
Question == [name : Domain, txt : BOOLEAN]

\* An answer: the index of its question, and the domain whose record it is from.
Response == [question : Nat, resolved : Domain]

ASSUME DnsQueryAssumption ==
  /\ DohDomain \in [Domain -> Domain]
  /\ \A d \in Domain : \A e \in SuffixesOf(d) : SuffixesOf(e) \subseteq SuffixesOf(d)
  /\ Packet \subseteq Seq(Question)
  /\ MaxQuestions \in Nat \ {0}

VARIABLES
  pc,         \* what a request is at, or how it was answered
  method,     \* GET or POST
  questions,  \* dnsRequest.questions
  at,         \* the index of the question in hand
  next,       \* the index in checkBlacklist of the suffix to check next
  responses,  \* the answers, in order
  banned      \* history: the domains settled on the blacklist ever since it began

requestVars == <<pc, method, questions, at, next, responses, banned>>
vars == <<apiVars, requestVars>>

-----------------------------------------------------------------------------
(* State formulae. *)

Active == {"check", "answer"}

\* 200 with a packet, without anything and with Status 2; 451, 400, 415, 500, and
\* the connection lost with the process.
Answer == {"ok", "empty", "servfail", "legal", "badRequest", "mediaType", "error", "lost"}

Ended == {"idle"} \cup Answer

TypeOK ==
  /\ ApiTypeOK
  /\ pc \in [Request -> Active \cup Ended]
  /\ method \in [Request -> {"GET", "POST"}]
  /\ questions \in [Request -> Seq(Question)]
  /\ at \in [Request -> Nat \ {0}]
  /\ next \in [Request -> Nat \ {0}]
  /\ \A r \in Request : pc[r] = "check" =>
       at[r] <= Len(questions[r]) /\ next[r] <= Len(Suffixes[questions[r][at[r]].name])
  /\ \A r \in Request : pc[r] = "answer" => at[r] <= Len(questions[r]) + 1
  /\ responses \in [Request -> Seq(Response)]
  /\ banned \in [Request -> SUBSET Domain]

Init ==
  /\ ApiInit
  /\ pc = [r \in Request |-> "idle"]
  /\ method = [r \in Request |-> "GET"]
  /\ questions = [r \in Request |-> << >>]
  /\ at = [r \in Request |-> 1]
  /\ next = [r \in Request |-> 1]
  /\ responses = [r \in Request |-> << >>]
  /\ banned = [r \in Request |-> {}]

\* r is answered. What an "ok" has answered is kept for the properties.
Return(r, answer) ==
  /\ pc' = [pc EXCEPT ![r] = answer]
  /\ at' = [at EXCEPT ![r] = 1]
  /\ next' = [next EXCEPT ![r] = 1]
  /\ responses' = IF answer = "ok" THEN responses ELSE [responses EXCEPT ![r] = << >>]

-----------------------------------------------------------------------------
(* A request comes in. *)

\* handleDnsQuery begins: too many questions are refused.
Handle(r, packet) ==
  /\ pc' = [pc EXCEPT ![r] = IF Len(packet) > MaxQuestions THEN "badRequest" ELSE "answer"]
  /\ at' = [at EXCEPT ![r] = 1]
  /\ next' = [next EXCEPT ![r] = 1]

\* The checks of a packet begin; one without questions has none.
Decoded(r, packet) ==
  /\ IF packet = << >>
       THEN Handle(r, packet)
       ELSE /\ pc' = [pc EXCEPT ![r] = "check"]
            /\ at' = [at EXCEPT ![r] = 1]
            /\ next' = [next EXCEPT ![r] = 1]
  /\ questions' = [questions EXCEPT ![r] = packet]
  /\ responses' = [responses EXCEPT ![r] = << >>]

\* Refused without a look at a question.
Refused(r, answer) == Return(r, answer) /\ questions' = [questions EXCEPT ![r] = << >>]

Begin(r, how) ==
  /\ pc[r] \in Ended
  /\ method' = [method EXCEPT ![r] = how]
  /\ banned' = [banned EXCEPT ![r] = Settled]
  /\ UNCHANGED apiVars

\* The headers must be right and the body a DNS packet.
DnsqueryPost(r) ==
  /\ Begin(r, "POST")
  /\ \/ Refused(r, "mediaType")
     \/ Refused(r, "error")
     \/ \E packet \in Packet : Decoded(r, packet)

\* The parameters must be strings; without a name there is nothing to answer.
DnsqueryGet(r) ==
  /\ Begin(r, "GET")
  /\ \/ Refused(r, "badRequest")
     \/ Refused(r, "empty")
     \/ \E q \in Question : Decoded(r, <<q>>)

-----------------------------------------------------------------------------
(* The blacklist is checked for every question before any is answered. *)

\* An answer for the suffix to check next.
Answered(r, blacklisted) ==
  /\ pc[r] = "check"
  /\ \E answer \in Answers(Suffixes[questions[r][at[r]].name][next[r]]) :
       answer.blacklisted = blacklisted

Blocked(r) ==
  /\ Answered(r, TRUE)
  /\ Return(r, "legal")
  /\ UNCHANGED <<apiVars, method, questions, banned>>

CheckNextSuffix(r) == next' = [next EXCEPT ![r] = @ + 1] /\ UNCHANGED <<pc, at>>

CheckNextQuestion(r) ==
  /\ at' = [at EXCEPT ![r] = @ + 1]
  /\ next' = [next EXCEPT ![r] = 1]
  /\ UNCHANGED pc

\* Variant: the first question stands for all.
PassesFirstOnly(r) ==
  /\ Answered(r, FALSE)
  /\ IF next[r] < Len(Suffixes[questions[r][at[r]].name])
       THEN CheckNextSuffix(r) ELSE Handle(r, questions[r])
  /\ UNCHANGED <<apiVars, method, questions, responses, banned>>

\* Variant: the loop goes on after the last question.
PassesTooFar(r) ==
  /\ Answered(r, FALSE)
  /\ IF next[r] < Len(Suffixes[questions[r][at[r]].name]) THEN CheckNextSuffix(r)
     ELSE IF at[r] <= Len(questions[r]) THEN CheckNextQuestion(r)
     ELSE Handle(r, questions[r])
  /\ UNCHANGED <<apiVars, method, questions, responses, banned>>

\* A suffix that is not blacklisted: on to the next one, the next question, or
\* the answers.
Passes(r) ==
  /\ Answered(r, FALSE)
  /\ IF next[r] < Len(Suffixes[questions[r][at[r]].name]) THEN CheckNextSuffix(r)
     ELSE IF at[r] < Len(questions[r]) THEN CheckNextQuestion(r)
     ELSE Handle(r, questions[r])
  /\ UNCHANGED <<apiVars, method, questions, responses, banned>>

\* The API answers with a 5xx status or not at all. The checks are outside of
\* the try of dnsqueryGet.
QueryFails(r) ==
  /\ pc[r] = "check"
  /\ Return(r, "error")
  /\ UNCHANGED <<apiVars, method, questions, banned>>

-----------------------------------------------------------------------------
(* questionToEnsAnswer, one question after the other. *)

AtQuestion(r) == pc[r] = "answer" /\ at[r] <= Len(questions[r])

\* Only TXT records of ENS names are resolved. It is the name that must be one.
Answerable(q) == q.txt /\ q.name \in EnsName

\* questionToEnsAnswer resolves what it makes of the name, whatever was checked.
Answering(r) == [question |-> at[r], resolved |-> DohDomain[questions[r][at[r]].name]]

\* Variant: a question without an answer is tried again.
NoAnswerRetried(r) == AtQuestion(r) /\ ~Answerable(questions[r][at[r]]) /\ UNCHANGED vars

\* Not answerable, or a record without a dnslink: there is no answer, and srvfail
\* is set, which nobody reads.
NoAnswer(r) ==
  /\ AtQuestion(r)
  /\ at' = [at EXCEPT ![r] = @ + 1]
  /\ UNCHANGED <<apiVars, pc, method, questions, next, responses, banned>>

\* Variant: the question in hand is answered twice when it is asked for again.
LinkFoundAgain(r) ==
  /\ AtQuestion(r) /\ Answerable(questions[r][at[r]])
  /\ responses' = [responses EXCEPT ![r] = Append(@, Answering(r))]
  /\ at' = [at EXCEPT ![r] = IF Len(responses[r]) = 0 THEN @ ELSE @ + 1]
  /\ UNCHANGED <<apiVars, pc, method, questions, next, banned>>

\* The record has a dnslink.
LinkFound(r) ==
  /\ AtQuestion(r) /\ Answerable(questions[r][at[r]])
  /\ responses' = [responses EXCEPT ![r] = Append(@, Answering(r))]
  /\ at' = [at EXCEPT ![r] = @ + 1]
  /\ UNCHANGED <<apiVars, pc, method, questions, next, banned>>

\* resolveEns rejects: dnsqueryGet catches it, dnsqueryPost does not.
ResolveFails(r) ==
  /\ AtQuestion(r) /\ Answerable(questions[r][at[r]])
  /\ Return(r, IF method[r] = "GET" THEN "servfail" ELSE "error")
  /\ UNCHANGED <<apiVars, method, questions, banned>>

\* All questions are done: the packet is encoded, which may throw. A GET gets it
\* as JSON with Status 0, whatever srvfail says.
Encode(r) ==
  /\ pc[r] = "answer" /\ at[r] > Len(questions[r])
  /\ \E answer \in {"ok", "error"} : Return(r, answer)
  /\ UNCHANGED <<apiVars, method, questions, banned>>

-----------------------------------------------------------------------------
(* The rest of the world. *)

\* Another listener's handler ends the process (Gateway: RequestHandlerThrows).
ProcessEnds ==
  /\ LET lost == {r \in Request : pc[r] \in Active}
     IN  /\ lost # {}
         /\ pc' = [r \in Request |-> IF r \in lost THEN "lost" ELSE pc[r]]
         /\ at' = [r \in Request |-> IF r \in lost THEN 1 ELSE at[r]]
         /\ next' = [r \in Request |-> IF r \in lost THEN 1 ELSE next[r]]
         /\ responses' = [r \in Request |-> IF r \in lost THEN << >> ELSE responses[r]]
  /\ UNCHANGED <<apiVars, method, questions, banned>>

ListingChanges(d) ==
  /\ ApiListingChanges(d)
  /\ banned' = [r \in Request |-> banned[r] \ {d}]
  /\ UNCHANGED <<pc, method, questions, at, next, responses>>

Trouble(d) ==
  /\ ApiTrouble(d)
  /\ banned' = [r \in Request |-> banned[r] \ {d}]
  /\ UNCHANGED <<pc, method, questions, at, next, responses>>

Tick == ApiTick /\ UNCHANGED requestVars

-----------------------------------------------------------------------------
(* The specification. *)

Progress(r) ==
  \/ Blocked(r) \/ Passes(r) \/ QueryFails(r)
  \/ NoAnswer(r) \/ LinkFound(r) \/ ResolveFails(r) \/ Encode(r)

Next ==
  \/ \E r \in Request : DnsqueryPost(r) \/ DnsqueryGet(r) \/ Progress(r)
  \/ ProcessEnds
  \/ \E d \in Contested : ListingChanges(d) \/ Trouble(d)
  \/ Tick

Spec == Init /\ [][Next]_vars

\* What a request awaits settles.
FairFor(r) == WF_vars(Progress(r))

Fairness == \A r \in Request : FairFor(r)

FairSpec == Spec /\ Fairness

-----------------------------------------------------------------------------
(* Properties. *)

\* A packet is not answered when one of its questions, or a domain above one,
\* has been settled on the blacklist since before the request: whichever question
\* it is, and whatever changes while the others are checked and resolved. Nor does
\* an answer come from such a domain, as long as what is resolved is one of the
\* suffixes that were checked. It is not for a name with "_dnslink." once more
\* inside: the code checks the whole name and resolves a piece from its middle, and
\* of that piece this says nothing.
BlacklistEnforced ==
  \A r \in Request : pc[r] = "ok" =>
    /\ \A i \in DOMAIN questions[r] : SuffixesOf(questions[r][i].name) \cap banned[r] = {}
    /\ \A i \in DOMAIN responses[r] :
         LET answer == responses[r][i]
         IN  answer.resolved \in SuffixesOf(questions[r][answer.question].name) =>
               SuffixesOf(answer.resolved) \cap banned[r] = {}

\* The answers of a packet follow its questions: each answers an answerable
\* question, none twice, in the order they were asked, and for no more than
\* MaxQuestions of them, however many resolutions in between found nothing.
AnswersFollowQuestions ==
  \A r \in Request : pc[r] \in {"answer", "ok"} =>
    /\ \A i \in DOMAIN responses[r] :
         /\ responses[r][i].question \in DOMAIN questions[r]
         /\ Answerable(questions[r][responses[r][i].question])
         /\ i > 1 => responses[r][i - 1].question < responses[r][i].question
    /\ Len(responses[r]) <= MaxQuestions

\* Every request is answered, or lost with its process.
RequestsAnswered == \A r \in Request : pc[r] \in Active ~> pc[r] \in Ended

\* What an active request awaits is not out of the question.
WaitsCanEnd == \A r \in Request : pc[r] \in Active => ENABLED <<Progress(r)>>_vars

\* How far a request is from its answer: the questions to check and then to answer,
\* and the suffixes that are left of the one in hand.
QuestionsLeft(r) ==
  CASE pc[r] = "check" -> 2 * Len(questions[r]) + 2 - at[r]
    [] pc[r] = "answer" -> Len(questions[r]) + 1 - at[r]
    [] OTHER -> 0

SuffixesLeft(r) ==
  IF pc[r] = "check" THEN Len(Suffixes[questions[r][at[r]].name]) - next[r] ELSE 0

Standing(r, i, j) == pc[r] \in Active /\ QuestionsLeft(r) = i /\ SuffixesLeft(r) = j

Nearer(r, i, j) == QuestionsLeft(r) < i \/ (QuestionsLeft(r) = i /\ SuffixesLeft(r) < j)

\* Wherever a request stands, it is answered or comes nearer to its answer, whatever
\* its packet and whatever listings do meanwhile: no question is taken up again.
AnswersComeNearer ==
  \A r \in Request, i, j \in Nat : Standing(r, i, j) ~> pc[r] \in Ended \/ Nearer(r, i, j)
=============================================================================
