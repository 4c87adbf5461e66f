----------------------------- MODULE MCResolver -----------------------------
(* The content hashes of the TLC runs of Resolver. *)
EXTENDS Resolver

CONSTANTS cid, key, tx, odd, k1, k2

\* A CID, an IPNS key, an Arweave id, and bytes that no library decodes.
Contents == {cid, key, tx, odd}

FormatTable ==
  [c \in Contents |->
    CASE c = cid -> "ipfs" [] c = key -> "ipns" [] c = tx -> "arweave" [] c = odd -> "foreign"]

\* The name begins with one contract, and the other is empty.
MCInit == Init /\ resolver = k1 /\ content[k2] = Nothing

MCSpec == MCInit /\ [][Next]_vars /\ Fairness
=============================================================================
