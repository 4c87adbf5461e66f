--------------------------- MODULE DnsQueryProofs ---------------------------
(* Theorems about DnsQuery, for every value of its constants. *)
EXTENDS DnsQuery, TLAPS

-----------------------------------------------------------------------------
(* The parts of the type invariant. *)

RequestTypes ==
  /\ pc \in [Request -> Active \cup Ended]
  /\ method \in [Request -> {"GET", "POST"}]
  /\ questions \in [Request -> Seq(Question)]
  /\ at \in [Request -> Nat \ {0}]
  /\ next \in [Request -> Nat \ {0}]
  /\ responses \in [Request -> Seq(Response)]
  /\ banned \in [Request -> SUBSET Domain]

\* The loops run over nothing but the questions and their suffixes.
Indexed(r) ==
  /\ pc[r] = "check" =>
       at[r] <= Len(questions[r]) /\ next[r] <= Len(Suffixes[questions[r][at[r]].name])
  /\ pc[r] = "answer" => at[r] <= Len(questions[r]) + 1

LEMMA TypeParts == TypeOK <=> RequestTypes /\ ApiTypeOK /\ \A r \in Request : Indexed(r)
  BY DEF TypeOK, RequestTypes, Indexed

\* The bounds, without the rest of the assumptions.
LEMMA Bounds == MaxAge \in Nat /\ Contested \subseteq Domain
  BY DomainsApiAssumption

\* A name has at least one suffix, itself.
LEMMA SuffixesNotEmpty ==
  ASSUME NEW d \in Domain
  PROVE  Suffixes[d] \in Seq(Domain) /\ Len(Suffixes[d]) \in Nat \ {0}
<1>1. Suffixes[d] \in Seq(Domain) /\ Suffixes[d] # << >>
  BY DomainsApiAssumption
<1>2. QED
  BY <1>1

\* So does a question.
LEMMA QuestionSuffixes ==
  ASSUME NEW packet \in Seq(Question), NEW i \in 1 .. Len(packet)
  PROVE  /\ packet[i] \in Question /\ packet[i].name \in Domain
         /\ Suffixes[packet[i].name] \in Seq(Domain)
         /\ Len(Suffixes[packet[i].name]) \in Nat \ {0}
<1>1. packet[i] \in Question
  OBVIOUS
<1>2. packet[i].name \in Domain
  BY <1>1 DEF Question
<1>3. QED
  BY <1>1, <1>2, SuffixesNotEmpty

-----------------------------------------------------------------------------
(* The inductive invariant. *)

\* No suffix of question i of r was settled on the blacklist when r began.
Clean(r, i) ==
  \A s \in DOMAIN Suffixes[questions[r][i].name] :
    Suffixes[questions[r][i].name][s] \notin banned[r]

\* What checkBlacklist has passed is clean; what was settled on the blacklist then
\* and has not changed since still is.
Vetted(r) ==
  /\ banned[r] \subseteq Settled
  /\ pc[r] = "check" =>
       /\ \A i \in 1 .. at[r] - 1 : Clean(r, i)
       /\ \A s \in 1 .. next[r] - 1 : Suffixes[questions[r][at[r]].name][s] \notin banned[r]
  /\ pc[r] \in {"answer", "ok"} => \A i \in DOMAIN questions[r] : Clean(r, i)

\* The answers are in order and, while there are more to come, end before the
\* question in hand.
Ordered(r) ==
  /\ pc[r] \in {"answer", "ok"} =>
       /\ \A i \in DOMAIN responses[r] :
            /\ responses[r][i].question \in DOMAIN questions[r]
            /\ Answerable(questions[r][responses[r][i].question])
            /\ i > 1 => responses[r][i - 1].question < responses[r][i].question
       /\ Len(questions[r]) <= MaxQuestions
       /\ Len(responses[r]) <= Len(questions[r])
  /\ pc[r] = "answer" =>
       /\ \A i \in DOMAIN responses[r] : responses[r][i].question < at[r]
       /\ Len(responses[r]) < at[r]
  /\ pc[r] = "check" => responses[r] = << >>

Good(r) == Indexed(r) /\ Vetted(r) /\ Ordered(r)

Inv == RequestTypes /\ ApiTypeOK /\ \A r \in Request : Good(r)

\* The caches have only one answer for a domain that is settled on the blacklist.
LEMMA SettledAnswer ==
  ASSUME ApiTypeOK, NEW d \in Settled, NEW answer \in Answers(d)
  PROVE  answer.blacklisted = TRUE
<1>1. d \in blacklist /\ ~(changed[d] <= MaxAge) /\ ~(trouble[d] <= MaxAge)
  <2>1. d \in blacklist /\ changed[d] > MaxAge /\ trouble[d] > MaxAge
    BY DEF Settled
  <2>2. changed[d] \in Int /\ trouble[d] \in Int /\ MaxAge \in Int
    BY <2>1, Bounds DEF ApiTypeOK
  <2>3. QED
    BY <2>1, <2>2
<1> DEFINE Told == {b \in BOOLEAN : (b <=> d \in blacklist) \/ changed[d] <= MaxAge}
<1>2. answer \in [blacklisted : Told, canonical : {Canonical[d]}]
  BY <1>1 DEF Answers
<1>3. answer.blacklisted \in Told
  BY <1>2
<1>4. \A b \in Told : b = TRUE
  BY <1>1, Zenon
<1>5. QED
  BY <1>3, <1>4, Zenon

LEMMA InitInv == Init => Inv
<1> SUFFICES ASSUME Init PROVE Inv
  OBVIOUS
<1>1. RequestTypes
  BY DEF Init, RequestTypes, Ended
<1>2. ApiTypeOK
  BY DomainsApiAssumption DEF Init, ApiInit, ApiTypeOK
<1>3. \A r \in Request : Good(r)
  BY DEF Init, Good, Indexed, Vetted, Ordered
<1>4. QED
  BY <1>1, <1>2, <1>3 DEF Inv

-----------------------------------------------------------------------------
(* The steps of a request, for itself and for the others. *)

\* A request that a step leaves alone.
LEMMA OtherStaysGood ==
  ASSUME NEW q \in Request, Good(q), UNCHANGED apiVars, pc'[q] = pc[q], questions'[q] = questions[q],
         at'[q] = at[q], next'[q] = next[q], responses'[q] = responses[q], banned'[q] = banned[q]
  PROVE  Good(q)'
  BY DEF Good, Indexed, Vetted, Ordered, Clean, Settled, apiVars

OthersAlone(r) ==
  \A q \in Request \ {r} :
    /\ pc'[q] = pc[q] /\ questions'[q] = questions[q] /\ at'[q] = at[q] /\ next'[q] = next[q]
    /\ responses'[q] = responses[q] /\ banned'[q] = banned[q]

\* So it is enough to look at r.
LEMMA OwnStep ==
  ASSUME Inv, NEW r \in Request, UNCHANGED apiVars, OthersAlone(r), RequestTypes', Good(r)'
  PROVE  Inv'
<1>1. ApiTypeOK'
  BY DEF Inv, ApiTypeOK, apiVars
<1>2. \A q \in Request \ {r} : Good(q)'
  BY OtherStaysGood DEF OthersAlone, Inv
<1>3. QED
  BY <1>1, <1>2 DEF Inv

\* A request that is refused, blocked or fails: nothing is left to show.
LEMMA RefusalIsGood ==
  ASSUME NEW r \in Request, banned'[r] \subseteq Settled', pc'[r] \in Ended \ {"ok"}
  PROVE  Good(r)'
  BY DEF Good, Indexed, Vetted, Ordered, Ended, Answer

LEMMA ReturnStep ==
  ASSUME Inv, NEW r \in Request, NEW answer \in Answer \ {"ok"}, Return(r, answer),
         UNCHANGED <<apiVars, method, questions, banned>>
  PROVE  Inv'
<1>1. RequestTypes'
  BY DEF Inv, RequestTypes, Return, Ended
<1>2. banned'[r] \subseteq Settled' /\ pc'[r] \in Ended \ {"ok"}
  BY DEF Inv, RequestTypes, Return, Good, Vetted, Settled, apiVars, Ended, Answer
<1>3. OthersAlone(r)
  BY DEF Inv, RequestTypes, Return, OthersAlone
<1>4. QED
  BY <1>1, <1>2, <1>3, RefusalIsGood, OwnStep

-----------------------------------------------------------------------------
(* A request comes in. *)

LEMMA RefusedStep ==
  ASSUME Inv, NEW r \in Request, NEW how \in {"GET", "POST"}, Begin(r, how),
         NEW answer \in Answer \ {"ok"}, Refused(r, answer)
  PROVE  Inv'
<1>1. Settled \subseteq Domain
  BY DEF Inv, ApiTypeOK, Settled
<1>2. RequestTypes'
  BY <1>1 DEF Inv, RequestTypes, Refused, Return, Begin, Ended
<1>3. banned'[r] \subseteq Settled' /\ pc'[r] \in Ended \ {"ok"}
  BY DEF Inv, RequestTypes, Refused, Return, Begin, Settled, apiVars, Ended, Answer
<1>4. OthersAlone(r)
  BY DEF Inv, RequestTypes, Refused, Return, Begin, OthersAlone
<1>5. QED
  BY <1>2, <1>3, <1>4, RefusalIsGood, OwnStep DEF Begin

LEMMA DecodedStep ==
  ASSUME Inv, NEW r \in Request, NEW how \in {"GET", "POST"}, Begin(r, how),
         NEW packet \in Seq(Question), Decoded(r, packet)
  PROVE  Inv'
<1>1. Settled \subseteq Domain
  BY DEF Inv, ApiTypeOK, Settled
<1>2. /\ pc' = [pc EXCEPT ![r] = IF packet = << >> THEN (IF Len(packet) > MaxQuestions THEN "badRequest" ELSE "answer")
                                  ELSE "check"]
      /\ at' = [at EXCEPT ![r] = 1] /\ next' = [next EXCEPT ![r] = 1]
  BY DEF Decoded, Handle
<1>3. /\ questions' = [questions EXCEPT ![r] = packet] /\ responses' = [responses EXCEPT ![r] = << >>]
      /\ banned' = [banned EXCEPT ![r] = Settled] /\ method' = [method EXCEPT ![r] = how]
      /\ UNCHANGED apiVars
  BY DEF Decoded, Begin
<1>4. RequestTypes'
  BY <1>1, <1>2, <1>3 DEF Inv, RequestTypes, Active, Ended, Answer
<1>5. OthersAlone(r)
  BY <1>2, <1>3 DEF OthersAlone, Inv, RequestTypes
<1>6. questions'[r] = packet /\ responses'[r] = << >> /\ banned'[r] = Settled' /\ at'[r] = 1 /\ next'[r] = 1
  BY <1>2, <1>3 DEF Inv, RequestTypes, Settled, apiVars
<1>7. CASE packet = << >>
  <2>1. Len(packet) = 0 /\ pc'[r] = "answer" /\ DOMAIN packet = {}
    BY <1>2, <1>7, DnsQueryAssumption DEF Inv, RequestTypes
  <2>2. Good(r)'
    BY <1>6, <2>1, DnsQueryAssumption DEF Good, Indexed, Vetted, Ordered
  <2>3. QED
    BY <1>3, <1>4, <1>5, <2>2, OwnStep
<1>8. CASE packet # << >>
  <2>1. pc'[r] = "check"
    BY <1>2, <1>8 DEF Inv, RequestTypes
  <2>2. 1 \in 1 .. Len(packet)
    BY <1>8
  <2>3. 1 <= Len(packet) /\ 1 <= Len(Suffixes[packet[1].name])
    <3>1. Len(Suffixes[packet[1].name]) \in Nat \ {0}
      BY <2>2, QuestionSuffixes
    <3>2. QED
      BY <2>2, <3>1
  <2>4. Indexed(r)'
    BY <1>6, <2>1, <2>3 DEF Indexed
  <2>5. Vetted(r)' /\ Ordered(r)'
    BY <1>6, <2>1 DEF Vetted, Ordered
  <2>6. QED
    BY <1>3, <1>4, <1>5, <2>4, <2>5, OwnStep DEF Good
<1>9. QED
  BY <1>7, <1>8

LEMMA BeginStep ==
  ASSUME Inv, NEW r \in Request, DnsqueryPost(r) \/ DnsqueryGet(r)
  PROVE  Inv'
<1>1. CASE DnsqueryPost(r)
  <2>1. Packet \subseteq Seq(Question)
    BY DnsQueryAssumption
  <2>2. QED
    BY <1>1, <2>1, RefusedStep, DecodedStep DEF DnsqueryPost, Answer
<1>2. CASE DnsqueryGet(r)
  <2>1. \A q \in Question : <<q>> \in Seq(Question)
    OBVIOUS
  <2>2. QED
    BY <1>2, <2>1, RefusedStep, DecodedStep DEF DnsqueryGet, Answer
<1>3. QED
  BY <1>1, <1>2

-----------------------------------------------------------------------------
(* checkBlacklist. *)

LEMMA PassesStep ==
  ASSUME Inv, NEW r \in Request, Passes(r)
  PROVE  Inv'
<1> DEFINE packet == questions[r]
           suffixes == Suffixes[packet[at[r]].name]
<1>1. /\ pc[r] = "check" /\ packet \in Seq(Question) /\ at[r] \in 1 .. Len(packet)
      /\ UNCHANGED <<apiVars, method, questions, responses, banned>>
  BY DEF Inv, Passes, Answered, Good, Indexed, RequestTypes
<1>2. suffixes \in Seq(Domain) /\ Len(suffixes) \in Nat /\ next[r] \in 1 .. Len(suffixes)
  <2>1. suffixes \in Seq(Domain) /\ Len(suffixes) \in Nat
    BY <1>1, QuestionSuffixes
  <2>2. QED
    BY <1>1, <2>1 DEF Inv, Good, Indexed, RequestTypes
<1>3. \A s \in 1 .. next[r] : suffixes[s] \notin banned[r]
  <2>1. suffixes[next[r]] \notin banned[r]
    BY SettledAnswer DEF Passes, Answered, Vetted, Good, Inv
  <2>2. \A s \in 1 .. next[r] - 1 : suffixes[s] \notin banned[r]
    BY <1>1 DEF Vetted, Good, Inv
  <2>3. \A s \in 1 .. next[r] : s = next[r] \/ s \in 1 .. next[r] - 1
    BY <1>2
  <2>4. QED
    BY <2>1, <2>2, <2>3
<1>4. banned'[r] \subseteq Settled'
  BY <1>1 DEF Inv, Good, Vetted, Settled, apiVars
<1>5. \A i \in 1 .. at[r] - 1 : Clean(r, i)
  BY <1>1 DEF Inv, Good, Vetted
<1>6. CASE CheckNextSuffix(r) /\ next[r] < Len(suffixes)
  <2>1. pc'[r] = "check" /\ at'[r] = at[r] /\ next'[r] = next[r] + 1 /\ next'[r] - 1 = next[r]
    BY <1>1, <1>2, <1>6 DEF CheckNextSuffix, Inv, RequestTypes
  <2>2. RequestTypes'
    BY <1>1, <1>6 DEF CheckNextSuffix, Inv, RequestTypes
  <2>3. OthersAlone(r)
    BY <1>1, <1>6 DEF CheckNextSuffix, Inv, RequestTypes, OthersAlone
  <2>4. Indexed(r)'
    BY <1>1, <1>2, <1>6, <2>1 DEF Indexed
  <2>5. Vetted(r)'
    BY <1>1, <1>3, <1>4, <1>5, <2>1 DEF Vetted, Clean
  <2>6. Ordered(r)'
    BY <1>1, <2>1 DEF Ordered, Inv, Good
  <2>7. QED
    BY <1>1, <2>2, <2>3, <2>4, <2>5, <2>6, OwnStep DEF Good
<1> DEFINE Checked == \A i \in 1 .. at[r] : Clean(r, i)
<1>7. ASSUME ~(next[r] < Len(suffixes))
      PROVE  Checked
  <2>1. DOMAIN suffixes = 1 .. next[r]
    <3>1. next[r] = Len(suffixes)
      BY <1>2, <1>7
    <3>2. QED
      BY <1>2, <3>1
  <2>2. Clean(r, at[r])
    BY <1>3, <2>1 DEF Clean
  <2>3. \A i \in 1 .. at[r] : i = at[r] \/ i \in 1 .. at[r] - 1
    BY <1>1
  <2>4. QED
    BY <1>5, <2>2, <2>3
<1>8. CASE CheckNextQuestion(r) /\ ~(next[r] < Len(suffixes)) /\ at[r] < Len(packet)
  <2>1. pc'[r] = "check" /\ at'[r] = at[r] + 1 /\ at'[r] - 1 = at[r] /\ next'[r] = 1
    BY <1>1, <1>8 DEF CheckNextQuestion, Inv, RequestTypes
  <2>2. RequestTypes'
    BY <1>1, <1>8 DEF CheckNextQuestion, Inv, RequestTypes
  <2>3. OthersAlone(r)
    BY <1>1, <1>8 DEF CheckNextQuestion, Inv, RequestTypes, OthersAlone
  <2>4. Indexed(r)'
    <3>1. at'[r] \in 1 .. Len(packet)
      BY <1>1, <1>8, <2>1
    <3>2. Len(Suffixes[packet[at'[r]].name]) \in Nat \ {0}
      BY <1>1, <3>1, QuestionSuffixes
    <3>3. at'[r] <= Len(packet) /\ 1 <= Len(Suffixes[packet[at'[r]].name])
      BY <3>1, <3>2
    <3>4. QED
      BY <1>1, <2>1, <3>3 DEF Indexed
  <2>5. Vetted(r)'
    <3>1. 1 .. next'[r] - 1 = {}
      BY <2>1
    <3>2. Checked
      BY <1>7, <1>8
    <3>3. \A i \in 1 .. at'[r] - 1 : Clean(r, i)'
      BY <1>1, <2>1, <3>2 DEF Clean
    <3>4. QED
      BY <1>4, <2>1, <3>1, <3>3 DEF Vetted
  <2>6. Ordered(r)'
    BY <1>1, <2>1 DEF Ordered, Inv, Good
  <2>7. QED
    BY <1>1, <2>2, <2>3, <2>4, <2>5, <2>6, OwnStep DEF Good
<1>9. CASE Handle(r, packet) /\ ~(next[r] < Len(suffixes)) /\ ~(at[r] < Len(packet))
  <2>1. at'[r] = 1 /\ next'[r] = 1 /\ pc'[r] \in {"badRequest", "answer"}
    BY <1>1, <1>9 DEF Handle, Inv, RequestTypes
  <2>2. RequestTypes'
    BY <1>1, <1>9 DEF Handle, Inv, RequestTypes, Active, Ended, Answer
  <2>3. OthersAlone(r)
    BY <1>1, <1>9 DEF Handle, Inv, RequestTypes, OthersAlone
  <2>4. DOMAIN packet = 1 .. at[r]
    BY <1>1, <1>9
  <2>5. \A i \in DOMAIN packet : Clean(r, i)
    BY <1>7, <1>9, <2>4
  <2>6. pc'[r] = "answer" => Len(packet) <= MaxQuestions
    BY <1>1, <1>9, DnsQueryAssumption DEF Handle, Inv, RequestTypes
  <2>7. Indexed(r)'
    BY <1>1, <2>1 DEF Indexed
  <2>8. Vetted(r)'
    BY <1>1, <1>4, <2>1, <2>5 DEF Vetted, Clean
  <2>9. Ordered(r)'
    <3>1. responses'[r] = << >> /\ DOMAIN responses'[r] = {} /\ Len(responses'[r]) = 0
      BY <1>1 DEF Ordered, Inv, Good
    <3>2. QED
      BY <1>1, <2>1, <2>6, <3>1 DEF Ordered
  <2>10. QED
    BY <1>1, <2>2, <2>3, <2>7, <2>8, <2>9, OwnStep DEF Good
<1>10. QED
  BY <1>6, <1>8, <1>9 DEF Passes

-----------------------------------------------------------------------------
(* The answers. *)

LEMMA NoAnswerStep ==
  ASSUME Inv, NEW r \in Request, NoAnswer(r)
  PROVE  Inv'
<1>1. pc[r] = "answer" /\ questions[r] \in Seq(Question) /\ at[r] \in Nat \ {0} /\ at[r] <= Len(questions[r])
  BY DEF NoAnswer, AtQuestion, Inv, RequestTypes
<1>2. at'[r] = at[r] + 1 /\ UNCHANGED <<apiVars, pc, method, questions, next, responses, banned>>
  BY DEF NoAnswer, Inv, RequestTypes
<1>3. RequestTypes' /\ OthersAlone(r)
  BY DEF NoAnswer, Inv, RequestTypes, OthersAlone
<1>4. Indexed(r)'
  BY <1>1, <1>2 DEF Indexed
<1>5. Vetted(r)'
  BY <1>1, <1>2 DEF Vetted, Clean, Settled, apiVars, Inv, Good
<1>6. Ordered(r)'
  <2>1. \A i \in DOMAIN responses[r] : responses[r][i].question \in Nat
    <3>1. responses[r] \in Seq(Response)
      BY DEF Inv, RequestTypes
    <3>2. \A i \in DOMAIN responses[r] : responses[r][i] \in Response
      BY <3>1
    <3>3. QED
      BY <3>2 DEF Response
  <2>2. (\A i \in DOMAIN responses[r] : responses[r][i].question < at[r] + 1) /\ Len(responses[r]) < at[r] + 1
    BY <1>1, <2>1 DEF Ordered, Inv, Good
  <2>3. QED
    BY <1>1, <1>2, <2>2 DEF Ordered, Inv, Good
<1>7. QED
  BY <1>2, <1>3, <1>4, <1>5, <1>6, OwnStep DEF Good

LEMMA LinkFoundStep ==
  ASSUME Inv, NEW r \in Request, LinkFound(r)
  PROVE  Inv'
<1> DEFINE old == responses[r]
           new == Append(old, Answering(r))
<1>1. /\ pc[r] = "answer" /\ questions[r] \in Seq(Question) /\ at[r] \in Nat \ {0}
      /\ at[r] <= Len(questions[r]) /\ Answerable(questions[r][at[r]]) /\ old \in Seq(Response)
  BY DEF LinkFound, AtQuestion, Inv, RequestTypes
<1>2. /\ at'[r] = at[r] + 1 /\ responses'[r] = new
      /\ UNCHANGED <<apiVars, pc, method, questions, next, banned>>
  BY DEF LinkFound, Inv, RequestTypes
<1>3. Answering(r) \in Response /\ Answering(r).question = at[r] /\ new \in Seq(Response)
  <2>1. questions[r][at[r]].name \in Domain
    BY <1>1, QuestionSuffixes
  <2>2. DohDomain[questions[r][at[r]].name] \in Domain
    BY <2>1, DnsQueryAssumption
  <2>3. Answering(r) \in Response /\ Answering(r).question = at[r]
    BY <1>1, <2>2 DEF Answering, Response
  <2>4. QED
    BY <1>1, <2>3
<1>4. RequestTypes'
  BY <1>3 DEF LinkFound, Inv, RequestTypes
<1>5. OthersAlone(r)
  BY DEF LinkFound, Inv, RequestTypes, OthersAlone
<1>6. Indexed(r)'
  BY <1>1, <1>2 DEF Indexed
<1>7. Vetted(r)'
  BY <1>1, <1>2 DEF Vetted, Clean, Settled, apiVars, Inv, Good
<1>8. Ordered(r)'
  <2>1. /\ \A i \in DOMAIN old : /\ old[i].question \in DOMAIN questions[r] /\ old[i].question < at[r]
                                    /\ Answerable(questions[r][old[i].question])
        /\ \A i \in DOMAIN old : i > 1 => old[i - 1].question < old[i].question
        /\ Len(questions[r]) <= MaxQuestions /\ Len(old) < at[r]
    BY <1>1 DEF Ordered, Inv, Good
  <2>2. /\ Len(new) = Len(old) + 1 /\ DOMAIN new = 1 .. Len(old) + 1 /\ DOMAIN old = 1 .. Len(old) /\ Len(old) \in Nat
        /\ new[Len(old) + 1].question = at[r]
        /\ \A i \in 1 .. Len(old) : new[i] = old[i] /\ old[i].question \in Nat
    <3>1. \A i \in 1 .. Len(old) : old[i] \in Response
      BY <1>1
    <3>2. QED
      BY <1>1, <1>3, <3>1 DEF Response
  <2>3. at[r] \in DOMAIN questions[r]
    BY <1>1
  <2>4. \A i \in DOMAIN new : i = Len(old) + 1 \/ i \in 1 .. Len(old)
    BY <2>2
  <2>5. \A i \in DOMAIN new : /\ new[i].question \in DOMAIN questions[r]
                             /\ Answerable(questions[r][new[i].question])
    BY <1>1, <2>1, <2>2, <2>3, <2>4
  <2>6. \A i \in DOMAIN new : i > 1 => new[i - 1].question < new[i].question
    <3>1. SUFFICES ASSUME NEW i \in DOMAIN new, i > 1 PROVE new[i - 1].question < new[i].question
      OBVIOUS
    <3>2. i - 1 \in 1 .. Len(old) /\ new[i - 1] = old[i - 1]
      BY <2>2, <3>1
    <3>3. CASE i = Len(old) + 1
      BY <2>1, <2>2, <3>2, <3>3
    <3>4. CASE i \in 1 .. Len(old)
      BY <2>1, <2>2, <3>1, <3>2, <3>4
    <3>5. QED
      BY <2>4, <3>3, <3>4
  <2>7. \A i \in DOMAIN new : new[i].question < at[r] + 1
    BY <1>1, <2>1, <2>2, <2>4
  <2>8. Len(new) <= Len(questions[r]) /\ Len(new) < at[r] + 1
    BY <1>1, <2>1, <2>2
  <2>9. QED
    BY <1>1, <1>2, <2>1, <2>5, <2>6, <2>7, <2>8 DEF Ordered
<1>9. QED
  BY <1>2, <1>4, <1>5, <1>6, <1>7, <1>8, OwnStep DEF Good

LEMMA EncodeStep ==
  ASSUME Inv, NEW r \in Request, Encode(r)
  PROVE  Inv'
<1>1. CASE Return(r, "error")
  BY <1>1, ReturnStep DEF Encode, Answer
<1>2. CASE Return(r, "ok")
  <2>1. pc[r] = "answer" /\ pc'[r] = "ok" /\ UNCHANGED <<apiVars, method, questions, responses, banned>>
    BY <1>2 DEF Encode, Return, Inv, RequestTypes
  <2>2. RequestTypes' /\ OthersAlone(r)
    BY <1>2, <2>1 DEF Return, Inv, RequestTypes, OthersAlone, Ended, Answer
  <2>3. Good(r)'
    BY <2>1 DEF Good, Indexed, Vetted, Ordered, Clean, Settled, apiVars, Inv
  <2>4. QED
    BY <2>1, <2>2, <2>3, OwnStep
<1>3. QED
  BY <1>1, <1>2 DEF Encode

LEMMA ProgressStep ==
  ASSUME Inv, NEW r \in Request, Progress(r)
  PROVE  Inv'
<1>1. CASE Blocked(r) \/ QueryFails(r) \/ ResolveFails(r)
  BY <1>1, ReturnStep DEF Blocked, QueryFails, ResolveFails, Answer
<1>2. QED
  BY <1>1, PassesStep, NoAnswerStep, LinkFoundStep, EncodeStep DEF Progress

-----------------------------------------------------------------------------
(* The rest of the world. *)

LEMMA ProcessEndsStep ==
  ASSUME Inv, ProcessEnds
  PROVE  Inv'
<1>1. UNCHANGED <<apiVars, method, questions, banned>>
  BY DEF ProcessEnds
<1>2. RequestTypes'
  BY DEF ProcessEnds, Inv, RequestTypes, Ended, Answer
<1>3. ApiTypeOK'
  BY <1>1 DEF Inv, ApiTypeOK, apiVars
<1>4. ASSUME NEW r \in Request
      PROVE  Good(r)'
  <2>1. CASE pc[r] \in Active
    <3>1. pc'[r] \in Ended \ {"ok"}
      BY <2>1 DEF ProcessEnds, Ended, Answer
    <3>2. banned'[r] \subseteq Settled'
      BY <1>1 DEF Inv, Good, Vetted, Settled, apiVars
    <3>3. QED
      BY <3>1, <3>2, RefusalIsGood
  <2>2. CASE pc[r] \notin Active
    <3>1. pc'[r] = pc[r] /\ at'[r] = at[r] /\ next'[r] = next[r] /\ responses'[r] = responses[r]
      BY <2>2 DEF ProcessEnds
    <3>2. QED
      BY <1>1, <3>1, OtherStaysGood DEF Inv
  <2>3. QED
    BY <2>1, <2>2
<1>5. QED
  BY <1>2, <1>3, <1>4 DEF Inv

\* What is settled stays so, but for the one domain that nobody's history keeps.
LEMMA ApiStep ==
  ASSUME Inv, Tick \/ \E d \in Contested : ListingChanges(d) \/ Trouble(d)
  PROVE  Inv'
<1>1. UNCHANGED <<pc, method, questions, at, next, responses>> /\ \A r \in Request : banned'[r] \subseteq banned[r]
  BY DEF Tick, ListingChanges, Trouble, requestVars, Inv, RequestTypes
<1>2. RequestTypes'
  BY DEF Tick, ListingChanges, Trouble, requestVars, Inv, RequestTypes
<1>3. ApiTypeOK'
  BY Bounds DEF Tick, ListingChanges, Trouble, ApiTick, ApiListingChanges, ApiTrouble, Older,
         Inv, ApiTypeOK
<1>4. ASSUME NEW r \in Request
      PROVE  banned'[r] \subseteq Settled'
  <2>0. banned[r] \subseteq Settled
    BY DEF Inv, Good, Vetted
  <2>1. CASE Tick
    <3>1. \A d \in Domain : (changed[d] > MaxAge => changed'[d] > MaxAge) /\ (trouble[d] > MaxAge => trouble'[d] > MaxAge)
      BY <2>1, Bounds DEF Tick, ApiTick, Older, Inv, ApiTypeOK
    <3>2. QED
      BY <2>0, <2>1, <3>1 DEF Tick, ApiTick, requestVars, Settled, Inv, ApiTypeOK
  <2>2. ASSUME NEW d \in Contested, ListingChanges(d)
        PROVE  banned'[r] \subseteq Settled'
    BY <2>0, <2>2 DEF ListingChanges, ApiListingChanges, Settled, Inv, ApiTypeOK
  <2>3. ASSUME NEW d \in Contested, Trouble(d)
        PROVE  banned'[r] \subseteq Settled'
    BY <2>0, <2>3 DEF Trouble, ApiTrouble, Settled, Inv, ApiTypeOK
  <2>4. QED
    BY <2>1, <2>2, <2>3
<1>5. ASSUME NEW r \in Request
      PROVE  Good(r)'
  BY <1>1, <1>4 DEF Inv, Good, Indexed, Vetted, Ordered, Clean
<1>6. QED
  BY <1>2, <1>3, <1>5 DEF Inv

LEMMA Invariance == Spec => []Inv
<1>1. ASSUME Inv, [Next]_vars
      PROVE  Inv'
  <2>1. CASE UNCHANGED vars
    <3>1. UNCHANGED apiVars /\ UNCHANGED <<pc, method, questions, at, next, responses, banned>>
      BY <2>1 DEF vars, requestVars
    <3>2. RequestTypes' /\ ApiTypeOK'
      BY <1>1, <3>1 DEF Inv, RequestTypes, ApiTypeOK, apiVars
    <3>3. \A r \in Request : Good(r)'
      BY <1>1, <3>1, OtherStaysGood DEF Inv
    <3>4. QED
      BY <3>2, <3>3 DEF Inv
  <2>2. QED
    BY <1>1, <2>1, BeginStep, ProgressStep, ProcessEndsStep, ApiStep DEF Next
<1>2. QED
  BY <1>1, InitInv, PTL DEF Spec

-----------------------------------------------------------------------------
(* The theorems. *)

\* Every variable keeps its type, and the loops of a request their indices.
THEOREM TypeCorrect == Spec => []TypeOK
<1>1. Inv => TypeOK
  BY TypeParts DEF Inv, Good
<1>2. QED
  BY <1>1, Invariance, PTL

\* A packet with a name that has been settled on the blacklist since before the
\* request is never answered, nor from a suffix of such a name that was checked:
\* for any packets, domains and cache ages, and whatever DohDomain makes of a name.
\* What it makes that is none of the suffixes checked is not covered.
THEOREM BlacklistHolds == Spec => []BlacklistEnforced
<1>1. ASSUME Inv, NEW r \in Request, pc[r] = "ok", NEW i \in DOMAIN questions[r]
      PROVE  SuffixesOf(questions[r][i].name) \cap banned[r] = {}
  BY <1>1 DEF Inv, Good, Vetted, Clean, SuffixesOf
<1>2. ASSUME Inv, NEW r \in Request, pc[r] = "ok", NEW i \in DOMAIN responses[r],
             responses[r][i].resolved \in SuffixesOf(questions[r][responses[r][i].question].name)
      PROVE  SuffixesOf(responses[r][i].resolved) \cap banned[r] = {}
  <2>1. questions[r] \in Seq(Question) /\ responses[r][i].question \in DOMAIN questions[r]
    BY <1>2 DEF Inv, RequestTypes, Good, Ordered
  <2>2. questions[r][responses[r][i].question].name \in Domain
    BY <2>1, QuestionSuffixes
  <2>3. SuffixesOf(responses[r][i].resolved) \subseteq SuffixesOf(questions[r][responses[r][i].question].name)
    BY <1>2, <2>2, DnsQueryAssumption
  <2>4. QED
    BY <1>1, <1>2, <2>1, <2>3
<1>3. Inv => BlacklistEnforced
  BY <1>1, <1>2 DEF BlacklistEnforced
<1>4. QED
  BY <1>3, Invariance, PTL

\* The answers follow the questions, for any packets and any outcomes.
THEOREM AnswersInOrder == Spec => []AnswersFollowQuestions
<1>1. Inv => AnswersFollowQuestions
  <2>1. SUFFICES ASSUME Inv, NEW r \in Request, pc[r] \in {"answer", "ok"}
                 PROVE  Len(responses[r]) <= MaxQuestions
    BY DEF Inv, Good, Ordered, AnswersFollowQuestions
  <2>2. Len(responses[r]) \in Nat /\ Len(questions[r]) \in Nat /\ MaxQuestions \in Nat
    BY <2>1, DnsQueryAssumption DEF Inv, RequestTypes
  <2>3. QED
    BY <2>1, <2>2 DEF Inv, Good, Ordered
<1>2. QED
  BY <1>1, Invariance, PTL

-----------------------------------------------------------------------------
(* Every request comes nearer to its answer. That what it awaits can settle  *)
(* is a hypothesis.                                                          *)

\* The distance is one of natural numbers: it cannot shrink for ever.
Measured == \A r \in Request : QuestionsLeft(r) \in Nat /\ SuffixesLeft(r) \in Nat

LEMMA DistanceIsMeasured == TypeOK => Measured
<1>1. ASSUME TypeOK, NEW r \in Request
      PROVE  QuestionsLeft(r) \in Nat /\ SuffixesLeft(r) \in Nat
  <2>1. /\ questions[r] \in Seq(Question) /\ Len(questions[r]) \in Nat
        /\ at[r] \in Nat \ {0} /\ next[r] \in Nat \ {0} /\ Indexed(r)
    BY <1>1, TypeParts DEF RequestTypes
  <2>2. QuestionsLeft(r) \in Nat
    BY <2>1 DEF QuestionsLeft, Indexed
  <2>3. pc[r] = "check" => Len(Suffixes[questions[r][at[r]].name]) \in Nat
    BY <2>1, QuestionSuffixes DEF Indexed
  <2>4. SuffixesLeft(r) \in Nat
    BY <2>1, <2>3 DEF SuffixesLeft, Indexed
  <2>5. QED
    BY <2>2, <2>4
<1>2. QED
  BY <1>1 DEF Measured

\* Its own steps take it nearer.
LEMMA ProgressIsNearer ==
  ASSUME TypeOK, NEW r \in Request, Progress(r)
  PROVE  \/ pc'[r] \in Ended
         \/ QuestionsLeft(r)' < QuestionsLeft(r)
         \/ QuestionsLeft(r)' = QuestionsLeft(r) /\ SuffixesLeft(r)' < SuffixesLeft(r)
<1>1. /\ pc \in [Request -> Active \cup Ended] /\ at \in [Request -> Nat \ {0}]
      /\ next \in [Request -> Nat \ {0}] /\ questions[r] \in Seq(Question)
      /\ Len(questions[r]) \in Nat /\ Indexed(r)
  BY TypeParts DEF RequestTypes
<1>2. ASSUME NEW answer \in Answer, Return(r, answer)
      PROVE  pc'[r] \in Ended
  BY <1>1, <1>2 DEF Return, Ended
<1>3. CASE Blocked(r) \/ QueryFails(r) \/ ResolveFails(r) \/ Encode(r)
  BY <1>2, <1>3 DEF Blocked, QueryFails, ResolveFails, Encode, Answer
<1>4. CASE NoAnswer(r) \/ LinkFound(r)
  <2>1. pc[r] = "answer" /\ pc'[r] = "answer" /\ at'[r] = at[r] + 1 /\ questions'[r] = questions[r]
    BY <1>1, <1>4 DEF NoAnswer, LinkFound, AtQuestion
  <2>2. QED
    BY <1>1, <2>1 DEF QuestionsLeft
<1>5. CASE Passes(r)
  <2>1. pc[r] = "check" /\ questions'[r] = questions[r]
    BY <1>5 DEF Passes, Answered
  <2>2. CASE CheckNextSuffix(r) /\ next[r] < Len(Suffixes[questions[r][at[r]].name])
    <3>1. pc'[r] = "check" /\ next'[r] = next[r] + 1 /\ at'[r] = at[r]
      BY <1>1, <2>1, <2>2 DEF CheckNextSuffix
    <3>2. Len(Suffixes[questions[r][at[r]].name]) \in Nat
      BY <1>1, <2>1, QuestionSuffixes DEF Indexed
    <3>3. SuffixesLeft(r)' < SuffixesLeft(r)
      BY <1>1, <2>1, <3>1, <3>2 DEF SuffixesLeft
    <3>4. QuestionsLeft(r)' = QuestionsLeft(r)
      BY <2>1, <3>1 DEF QuestionsLeft
    <3>5. QED
      BY <3>3, <3>4
  <2>3. CASE CheckNextQuestion(r)
    <3>1. pc'[r] = "check" /\ at'[r] = at[r] + 1
      BY <1>1, <2>1, <2>3 DEF CheckNextQuestion
    <3>2. QED
      BY <1>1, <2>1, <3>1 DEF QuestionsLeft
  <2>4. CASE Handle(r, questions[r])
    <3>1. pc'[r] \in {"badRequest", "answer"} /\ at'[r] = 1
      BY <1>1, <2>4 DEF Handle
    <3>2. at[r] <= Len(questions[r])
      BY <1>1, <2>1 DEF Indexed
    <3>3. QED
      BY <1>1, <2>1, <3>1, <3>2 DEF QuestionsLeft, Ended, Answer
  <2>5. QED
    BY <1>5, <2>2, <2>3, <2>4 DEF Passes
<1>6. QED
  BY <1>3, <1>4, <1>5 DEF Progress

\* Every other step leaves it where it is, or ends its process.
LEMMA OthersStay ==
  ASSUME TypeOK, [Next]_vars, NEW r \in Request, pc[r] \in Active, ~Progress(r)
  PROVE  \/ pc'[r] \in Ended
         \/ pc'[r] = pc[r] /\ questions'[r] = questions[r] /\ at'[r] = at[r] /\ next'[r] = next[r]
<1>1. /\ pc \in [Request -> Active \cup Ended] /\ at \in [Request -> Nat \ {0}]
      /\ next \in [Request -> Nat \ {0}] /\ questions \in [Request -> Seq(Question)]
  BY DEF TypeOK
<1>2. ASSUME NEW q \in Request \ {r}, Progress(q)
      PROVE  pc'[r] = pc[r] /\ questions'[r] = questions[r] /\ at'[r] = at[r] /\ next'[r] = next[r]
  BY <1>1, <1>2 DEF Progress, Blocked, Passes, QueryFails, NoAnswer, LinkFound, ResolveFails, Encode,
     Return, CheckNextSuffix, CheckNextQuestion, Handle
<1>3. ASSUME NEW q \in Request, DnsqueryPost(q) \/ DnsqueryGet(q)
      PROVE  pc'[r] = pc[r] /\ questions'[r] = questions[r] /\ at'[r] = at[r] /\ next'[r] = next[r]
  <2>1. q # r
    BY <1>3 DEF DnsqueryPost, DnsqueryGet, Begin, Active, Ended, Answer
  <2>2. QED
    BY <1>1, <1>3, <2>1 DEF DnsqueryPost, DnsqueryGet, Refused, Decoded, Handle, Return
<1>4. CASE ProcessEnds
  BY <1>1, <1>4 DEF ProcessEnds, Ended, Answer
<1>5. CASE \/ UNCHANGED vars \/ Tick
           \/ \E d \in Contested : ListingChanges(d) \/ Trouble(d)
  BY <1>5 DEF vars, requestVars, Tick, ListingChanges, Trouble
<1>6. QED
  BY <1>2, <1>3, <1>4, <1>5 DEF Next

\* Wherever a request stands, it is answered or comes nearer, in a distance that
\* cannot shrink for ever: for any packets, domains, listings and other requests.
THEOREM RequestsComeNearer ==
  FairSpec /\ []WaitsCanEnd => []Measured /\ AnswersComeNearer
<1>1. ASSUME NEW r \in Request, NEW i \in Nat, NEW j \in Nat
      PROVE  FairSpec /\ []WaitsCanEnd =>
               (Standing(r, i, j) ~> pc[r] \in Ended \/ Nearer(r, i, j))
  <2>1. TypeOK /\ [Next]_vars /\ Standing(r, i, j) =>
          Standing(r, i, j)' \/ (pc[r] \in Ended \/ Nearer(r, i, j))'
    <3>1. ASSUME TypeOK, [Next]_vars, Standing(r, i, j), ~Progress(r)
          PROVE  Standing(r, i, j)' \/ pc'[r] \in Ended
      BY <3>1, OthersStay DEF Standing, QuestionsLeft, SuffixesLeft
    <3>2. ASSUME TypeOK, Standing(r, i, j), Progress(r)
          PROVE  (pc[r] \in Ended \/ Nearer(r, i, j))'
      BY <3>2, ProgressIsNearer DEF Standing, Nearer
    <3>3. QED
      BY <3>1, <3>2
  <2>2. TypeOK /\ <<Progress(r)>>_vars /\ Standing(r, i, j) =>
          (pc[r] \in Ended \/ Nearer(r, i, j))'
    BY ProgressIsNearer DEF Standing, Nearer
  <2>3. WaitsCanEnd /\ Standing(r, i, j) => ENABLED <<Progress(r)>>_vars
    BY DEF WaitsCanEnd, Standing
  <2>4. Fairness => FairFor(r)
    BY DEF Fairness
  <2>5. QED
    BY <2>1, <2>2, <2>3, <2>4, TypeCorrect, PTL DEF FairSpec, FairFor, Spec
<1>2. FairSpec /\ []WaitsCanEnd => AnswersComeNearer
  BY <1>1 DEF AnswersComeNearer
<1>3. QED
  BY <1>2, DistanceIsMeasured, TypeCorrect, PTL DEF FairSpec
=============================================================================
