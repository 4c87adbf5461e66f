----------------------------- MODULE DomainsApi -----------------------------
(***************************************************************************)
(* The domains API (external) as a server process sees it through          *)
(* domainQuery in services/DomainsQueryService/index.ts.                   *)
(*                                                                         *)
(* The caches are replaced by what they promise: an answer of domainQuery  *)
(* is one the domains API has given at some time within the last MaxAge    *)
(* ticks (TieredCache: ServedAgeBounded).                                  *)
(***************************************************************************)
EXTENDS Integers, Sequences

CONSTANTS
  Domain,      \* hostnames and their suffixes
  EnsName,     \* those under an ENS TLD: hostnameIsENSTLD
  Suffixes,    \* explode.slice(i).join(".") for i = 0, 1, ...
  Canonical,   \* the canonical_name the domains API has for a domain
  NoDomain,    \* none
  Contested,   \* domains that get on and off the blacklist, and API trouble
  MaxAge       \* how old an answer of the cache can be

ASSUME DomainsApiAssumption ==
  /\ EnsName \subseteq Domain
  /\ Suffixes \in [Domain -> Seq(Domain)]
  /\ \A d \in Domain : Suffixes[d] # << >>
  /\ NoDomain \notin Domain
  /\ Canonical \in [Domain -> Domain \cup {NoDomain}]
  /\ Contested \subseteq Domain
  /\ MaxAge \in Nat

VARIABLES
  blacklist,  \* what the domains API has on its blacklist
  changed,    \* ticks since a domain was put on it or taken off
  trouble     \* ticks since the API last failed to tell about a domain with a 4xx
              \* status or an answer that does not parse

apiVars == <<blacklist, changed, trouble>>

ApiTypeOK ==
  /\ blacklist \subseteq Domain
  /\ changed \in [Domain -> 0 .. MaxAge + 1]
  /\ trouble \in [Domain -> 0 .. MaxAge + 1]

ApiInit ==
  /\ blacklist = {}
  /\ changed = [d \in Domain |-> MaxAge + 1]
  /\ trouble = [d \in Domain |-> MaxAge + 1]

-----------------------------------------------------------------------------
(* What is answered. *)

\* What domainQuery can answer: the truth of some time within MaxAge, or the
\* default value cached in its place within MaxAge.
Answers(d) ==
  LET Truth == {b \in BOOLEAN : (b <=> d \in blacklist) \/ changed[d] <= MaxAge}
  IN  [blacklisted : Truth, canonical : {Canonical[d]}]
        \cup (IF trouble[d] <= MaxAge
                THEN {[blacklisted |-> FALSE, canonical |-> NoDomain]} ELSE {})

\* On the blacklist for so long, and without trouble for so long, that no cache
\* has another answer.
Settled == {d \in blacklist : changed[d] > MaxAge /\ trouble[d] > MaxAge}

SuffixesOf(d) == {Suffixes[d][i] : i \in DOMAIN Suffixes[d]}

-----------------------------------------------------------------------------
(* What happens to it. *)

\* A domain gets on the blacklist or off it.
ApiListingChanges(d) ==
  /\ blacklist' = IF d \in blacklist THEN blacklist \ {d} ELSE blacklist \cup {d}
  /\ changed' = [changed EXCEPT ![d] = 0]
  /\ UNCHANGED trouble

\* It answers with a 4xx status, or with something that does not parse.
\* domainQueryInternal makes the default value of it, which is cached.
ApiTrouble(d) ==
  /\ trouble' = [trouble EXCEPT ![d] = 0]
  /\ UNCHANGED <<blacklist, changed>>

Older(age) == IF age <= MaxAge THEN age + 1 ELSE age

ApiTick ==
  /\ changed' = [d \in Domain |-> Older(changed[d])]
  /\ trouble' = [d \in Domain |-> Older(trouble[d])]
  /\ UNCHANGED blacklist
=============================================================================
