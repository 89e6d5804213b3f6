------------------------------ MODULE HashChain ------------------------------
(***************************************************************************)
(* What the documents of one EGS unit promise to be: a chain that only     *)
(* grows, each link carrying the hash of the link before it, so that the   *)
(* n-th link is the document with invoice counter value n and no value is  *)
(* skipped, reused or reordered (server/src/lib/zatca/domain/icv.ts,       *)
(* domain/pih.ts).                                                         *)
(***************************************************************************)
EXTENDS Sequences, Naturals

CONSTANTS Hashes, Genesis

VARIABLE chain

Links == [prev : Hashes \cup {Genesis}, hash : Hashes]

LastHash == IF chain = <<>> THEN Genesis ELSE chain[Len(chain)].hash

Init == chain = <<>>

Link(h) == chain' = Append(chain, [prev |-> LastHash, hash |-> h])

Next == \E h \in Hashes : Link(h)

Spec == Init /\ [][Next]_chain

=============================================================================
