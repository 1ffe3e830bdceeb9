------------------------------- MODULE MCLease -------------------------------
(* Lease on small instances: two or three workers, one outsider. *)
EXTENDS Lease

CONSTANTS w1, w2, w3, h1, h2, o1

(* Every worker has a holder string of its own; *)
Apart == [w \in Worker |-> IF w = w1 THEN h1 ELSE h2]
(* or w1 and w2 act for the same one, w3 for another. *)
Relay == [w \in Worker |-> IF w = w3 THEN h2 ELSE h1]

Ahead == [w \in Worker |-> IF w = w1 THEN 0 ELSE MaxOffset]
Together == [w \in Worker |-> 0]
=============================================================================
