--------------------------- MODULE MCIdempotency ---------------------------
(* Two callers with the same body and one with another, on one key.        *)
EXTENDS Idempotency, TLC

CONSTANTS p1, p2, p3

MCRequests == {p1, p2, p3}
MCBodyOf == [p \in MCRequests |-> IF p = p3 THEN "other" ELSE "same"]
LocalFaults == {"crash", "freeze", "db"}
\* Callers with the same body are interchangeable.
Callers == Permutations({p1, p2})
TwoRequests == {p1, p3}
=============================================================================
