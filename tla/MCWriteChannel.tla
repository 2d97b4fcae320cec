--------------------------- MODULE MCWriteChannel ---------------------------
(* Two writes to one resource.  "n" stands for a numeric string: the app      *)
(* stores it as it is and reports it back parsed, as another value.           *)
EXTENDS WriteChannel

CONSTANTS w1, w2, a, b, n

MCWants == [r \in Request |-> IF r = w1 THEN a ELSE b]
MCWantsReshaped == [r \in Request |-> IF r = w1 THEN n ELSE Removed]
MCFaithful == [v \in Contents |-> v]
MCReshaping == [v \in Contents |-> IF v = n THEN b ELSE v]

=============================================================================
