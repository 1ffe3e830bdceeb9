---------------------------- MODULE MCCommitter ----------------------------
(* Committer on small instances: two Committers, three events. *)
EXTENDS Committer, TLC

CONSTANTS c1, c2, e1, e2, e3, a1, a2, a3

(* One append_many of two events and one append. *)
PairAndSingle == a1 :> <<e1, e2>> @@ a2 :> <<e3>>

(* Three appends. *)
Singles == a1 :> <<e1>> @@ a2 :> <<e2>> @@ a3 :> <<e3>>

(* c1 lists the whole log to find its tail; c2 knows of the old commits.     *)
Hints == c1 :> 0 @@ c2 :> History
=============================================================================
