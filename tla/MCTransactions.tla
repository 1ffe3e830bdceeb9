--------------------------- MODULE MCTransactions ---------------------------
(* Transactions on small instances: two managers, up to three transactions.  *)
EXTENDS Transactions, TLC

CONSTANTS m1, m2, t1, t2, t3, x, y

Put(k, t) == [key |-> k, value |-> t]
Delete(k) == [key |-> k, value |-> NoObject]

OneRecordEach == [t \in Event |-> <<t>>]
NoHint == [m \in Writer |-> 0]

(* t1 and t3 run in m1, t2 in m2. *)
Managers == [t \in Event |-> IF t = t2 THEN m2 ELSE m1]
OneManager == [t \in Event |-> m1]

(* t1 creates x, t2 moves what it finds in x to y, t3 updates x from y.      *)
Transfers == [t \in Event |-> IF t = t1 THEN {} ELSE IF t = t2 THEN {x} ELSE {x, y}]
TransferOps ==
  [t \in Event |-> IF t = t1 THEN <<Put(x, t)>>
                   ELSE IF t = t2 THEN <<Put(y, t), Delete(x)>> ELSE <<Put(x, t)>>]

(* Every transaction reads x and writes it. *)
Increments == [t \in Event |-> {x}]
IncrementOps == [t \in Event |-> <<Put(x, t)>>]

(* Every transaction reads x, t1 writes both keys, t2 one. *)
PairOps == [t \in Event |-> IF t = t1 THEN <<Put(x, t), Put(y, t)>> ELSE <<Put(x, t)>>]
=============================================================================
