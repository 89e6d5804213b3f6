----------------------------- MODULE MCPayables -----------------------------
\* Model-checking instances of Payables.
EXTENDS Payables, TLC

\* Every line is one unit to certify, at a rate of two.
TwoEach == [l \in Lines |-> 2]
OneEach == [l \in Lines |-> 1]

\* Only the rate of a subcontract is ever read.
SubcontractTerms == [c \in Commitments |-> IF c \in Subcontracts THEN Rates ELSE {None}]

Symmetry ==
  Permutations(Requests) \cup Permutations(Ipcs) \cup Permutations(Lines) \cup Permutations(Rates)

=============================================================================
