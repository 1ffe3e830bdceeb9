----------------------------- MODULE MCDocuments -----------------------------
(* The constants of the run of Documents. *)
EXTENDS Documents
==============================================================================
