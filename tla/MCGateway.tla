----------------------------- MODULE MCGateway -----------------------------
(* The domains of the TLC runs of Gateway. *)
EXTENDS Gateway

CONSTANTS shop, ring1, ring2, sub, name, eth, com

Domains == {shop, ring1, ring2, sub, name, eth, com}
EnsNames == {sub, name}

\* shop.com, ring1.com, ring2.com, sub.name.eth and name.eth.
SuffixTable ==
  [d \in Domains |->
    CASE d \in {shop, ring1, ring2} -> <<d, com>>
      [] d = sub -> <<sub, name, eth>>
      [] d = name -> <<name, eth>>
      [] OTHER -> <<d>>]

\* shop.com leads to sub.name.eth over one domain, and the ring nowhere.
Links ==
  [d \in Domains |->
    CASE d = shop -> sub
      [] d = ring1 -> ring2
      [] d = ring2 -> ring1
      [] OTHER -> NoDomain]
=============================================================================
