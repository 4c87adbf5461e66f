----------------------------- MODULE MCDnsQuery -----------------------------
(* The names and packets of the TLC runs of DnsQuery. *)
EXTENDS DnsQuery

S == INSTANCE SequencesExt

CONSTANTS name, eth, com, prefixed, twice

Domains == {name, eth, com, prefixed, twice}

\* name.eth, name.eth behind the prefix, an ENS name with the prefix once more
\* inside, and a domain that is no ENS name.
SuffixTable ==
  [d \in Domains |->
     CASE d = name     -> <<name, eth>>
       [] d = prefixed -> <<prefixed, name, eth>>
       [] d = twice    -> <<twice, eth>>
       [] OTHER        -> <<d>>]

Resolved == [d \in Domains |-> IF d \in {prefixed, twice} THEN name ELSE d]

NoLinks == [d \in Domains |-> NoDomain]

\* Questions that can be answered, and one of another type and name.
Asked == [name : {name, prefixed, twice}, txt : {TRUE}] \cup [name : {com}, txt : {FALSE}]

\* Up to one question too many.
Packets == S!BoundedSeq(Asked, MaxQuestions + 1)
=============================================================================
