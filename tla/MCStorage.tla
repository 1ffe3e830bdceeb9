------------------------------ MODULE MCStorage ------------------------------
(* Storage for TLC: the constants are in the configuration. *)
EXTENDS Storage
==============================================================================
