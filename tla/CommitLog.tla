------------------------------ MODULE CommitLog ------------------------------
(***************************************************************************)
(* What CairnDB's log promises to the callers of Log.append and            *)
(* Log.append_many, whatever writers share the log: a dense sequence of    *)
(* immutable commits, to which batches of events are added only at the     *)
(* end, and outcomes that tell the truth about them.                       *)
(*                                                                         *)
(* An append that returns has its event in the log at the sequence number  *)
(* it returned; an append that fails with CommitError or                   *)
(* EventRejectedError has not, now or later; about an append that was      *)
(* cancelled, whose process died, or that got a StorageError, nothing is   *)
(* promised except that its event occurs at most once.                     *)
(***************************************************************************)
EXTENDS Naturals, Sequences, FiniteSets, Functions

CONSTANTS
  Event,      \* the events handed to append, each by one call
  OldEvent,   \* stands for every event of the commits that came before
  History     \* how many commits the log held before

VARIABLES
  log,        \* the commits, each the sequence of its events
  outcome,    \* what each event's caller knows
  seq         \* the sequence number each acknowledged event's caller got

vars == <<log, outcome, seq>>

Outcome == {"new", "pending", "ok", "failed", "unknown"}

SequenceNumber == [commit : Nat, index : Nat]
NoSeq == [commit |-> 0, index |-> 0]

CommittedAt(e, s) ==
  /\ s.commit \in DOMAIN log
  /\ s.index + 1 \in DOMAIN log[s.commit]
  /\ log[s.commit][s.index + 1] = e

Committed(e) == \E n \in DOMAIN log : e \in Range(log[n])

(* The sequences of events a single commit can hold. *)
Batches ==
  UNION {{b \in [1..n -> Event] : IsInjective(b)} : n \in 1..Cardinality(Event)}

-----------------------------------------------------------------------------

Init ==
  /\ log = [n \in 1..History |-> <<OldEvent>>]
  /\ outcome = [e \in Event |-> "new"]
  /\ seq = [e \in Event |-> NoSeq]

Submit(E) ==
  /\ \A e \in E : outcome[e] = "new"
  /\ outcome' = [e \in Event |-> IF e \in E THEN "pending" ELSE outcome[e]]
  /\ UNCHANGED <<log, seq>>

Commit(batch) ==
  /\ \A e \in Range(batch) : outcome[e] \in {"pending", "unknown"} /\ ~Committed(e)
  /\ log' = Append(log, batch)
  /\ UNCHANGED <<outcome, seq>>

(* Each of the events E is told where it is. *)
Acknowledge(E) ==
  /\ \A e \in E : outcome[e] = "pending" /\ CommittedAt(e, seq'[e])
  /\ outcome' = [e \in Event |-> IF e \in E THEN "ok" ELSE outcome[e]]
  /\ \A e \in Event \ E : seq'[e] = seq[e]
  /\ UNCHANGED log

(* The events E are refused for good, ... *)
Fail(E) ==
  /\ \A e \in E : outcome[e] \in {"new", "pending"} /\ ~Committed(e)
  /\ outcome' = [e \in Event |-> IF e \in E THEN "failed" ELSE outcome[e]]
  /\ UNCHANGED <<log, seq>>

(* ... or their callers never learn what became of them. *)
Forget(E) ==
  /\ \A e \in E : outcome[e] = "pending"
  /\ outcome' = [e \in Event |-> IF e \in E THEN "unknown" ELSE outcome[e]]
  /\ UNCHANGED <<log, seq>>

Next ==
  \/ \E E \in SUBSET Event : Submit(E) \/ Acknowledge(E) \/ Fail(E) \/ Forget(E)
  \/ \E batch \in Batches : Commit(batch)

Spec == Init /\ [][Next]_vars

=============================================================================
