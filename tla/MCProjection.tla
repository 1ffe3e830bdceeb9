---------------------------- MODULE MCProjection ----------------------------
(* Projections on small instances: one or two writers, one client.           *)
EXTENDS Projection, TLC

CONSTANTS w1, w2, c1
=============================================================================
