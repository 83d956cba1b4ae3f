------------------------------ MODULE MCWatch ------------------------------
EXTENDS Watch

Ev(k, d) == [key |-> k, delete |-> d]

(* A single put, and a transaction that touches both keys. *)
SomeWrites == {<<Ev(2, FALSE)>>, <<Ev(1, TRUE), Ev(2, FALSE)>>}

Req(range, kinds, start) == [range |-> range, kinds |-> kinds, start_revision |-> start]

(* Everything from a revision that may be compacted, past or still to come, *)
(* and the deletions from now on.                                           *)
TwoRequests == {Req({1, 2}, BOOLEAN, 2), Req({1, 2}, {TRUE}, 0)}
============================================================================
