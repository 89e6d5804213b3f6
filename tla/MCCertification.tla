--------------------------- MODULE MCCertification ---------------------------
(* Instances of CertificationLedger for TLC.                               *)
EXTENDS CertificationLedger, TLC

CONSTANTS m1, m2, c1, c2, r1, r2

\* Item 1 has room for both measurements, item 2 for one of them.
TwoAndOne == [i \in Items |-> IF i = 1 THEN 2 ELSE 1]

Symmetric == Permutations(Measurements) \cup Permutations(Ipcs) \cup Permutations(Requests)

=============================================================================
