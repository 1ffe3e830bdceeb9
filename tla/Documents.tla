------------------------------ MODULE Documents ------------------------------
(***************************************************************************)
(* Claims and documents (engine/coordination.py) and the object API with   *)
(* wait_for (engine/objects.py), on one key.  A step is one call of the    *)
(* store, which keeps the contract of ObjectStore with the exceptions that *)
(* Storage establishes for each backend: all but the filesystem may send a *)
(* put again and be refused by themselves, S3 refuses while another write  *)
(* to the key is under way, and GCS reads in two requests.  Azure does     *)
(* nothing here that GCS does not.                                         *)
(*                                                                         *)
(* The value of a document is the sequence of the workers that updated it, *)
(* after the initial value 0, which restore writes again.                  *)
(***************************************************************************)
EXTENDS Naturals, Sequences, FiniteSets, Functions

CONSTANTS
    MaxCalls,       \* each worker makes one call, numbered in the order they begin
    MaxAttempts,    \* _ACQUIRE_ATTEMPTS (8), _UPDATE_ATTEMPTS (10), polls
    MaxUpsets,      \* how many calls fail or are cancelled
    Absent, Pending, Conflict, Missing, Raised, TimedOut, Refused, Done

ASSUME DocumentsAssumption ==
    MaxCalls \in Nat /\ MaxAttempts \in Nat \ {0} /\ MaxUpsets \in Nat

Worker == 1..MaxCalls
Initial == 0

\* How calls end differs from how others end, and from what objects contain.
ASSUME OutcomesAssumption ==
    /\ Pending \notin {Conflict, Missing, Raised, TimedOut, Refused, Done}
    /\ Conflict \notin {Missing, Raised, TimedOut, Refused, Done}
    /\ Missing \notin {Raised, TimedOut, Refused, Done}
    /\ TimedOut \notin {Raised, Refused, Done}
    /\ Raised \notin {Refused, Done} /\ Refused # Done
    /\ \A x \in {Absent, Pending, Conflict, Missing, Raised, TimedOut, Refused, Done} :
          x \notin Seq(Worker \union {Initial})
    /\ Absent \notin [value : Seq(Worker \union {Initial}), etag : Nat]

VARIABLES
    store,      \* the backend, chosen once
    topic,      \* whether the key is a claim or a document, chosen once
    doc,        \* the object, or Absent
    edition,    \* of the last object written
    job,        \* the call of each worker
    past        \* history: the values of the object since the call began

vars == <<store, topic, doc, edition, job, past>>

Kinds == [claim |-> {"claim", "delete", "watch"},
          document |-> {"update", "amend", "restore", "delete", "watch"}]

\* An object is its value and its etag: a hash of the value, or a generation.
Hashed == store \in {"filesystem", "s3"}
Object(content) == [value |-> content, etag |-> IF Hashed THEN 0 ELSE edition + 1]
Value(obj) == IF obj = Absent THEN Absent ELSE obj.value

NoJob == [kind |-> "none", pc |-> "idle", read |-> Absent, from |-> Absent, tries |-> 0,
          won |-> FALSE, result |-> Pending]

Kind(w) == job[w].kind
At(w) == job[w].pc
Running(w) == At(w) \notin {"idle", "over"}
Observes(w) == Running(w) /\ Kind(w) \notin {"restore", "delete"} /\ job[w].result = Pending
Keep == UNCHANGED <<store, topic, doc, edition, past>>

Write(obj) ==
    /\ doc' = obj
    /\ edition' = IF obj = Absent THEN edition ELSE obj.etag
    /\ past' = [w \in Worker |-> IF Observes(w) THEN Append(past[w], Value(obj)) ELSE past[w]]
    /\ UNCHANGED <<store, topic>>

\* A caller that was cancelled has its answer already.
End(w, result, won) ==
    job' = [job EXCEPT ![w] = [NoJob EXCEPT !.kind = Kind(w), !.pc = "over", !.won = won,
                                  !.result = IF job[w].result = Pending THEN result ELSE job[w].result]]

Init ==
    /\ store \in {"filesystem", "s3", "gcs"} /\ topic \in DOMAIN Kinds
    /\ doc \in {Absent} \union (IF topic = "claim" THEN {} ELSE {[value |-> <<Initial>>, etag |-> 0]})
    /\ edition = 0
    /\ job = [w \in Worker |-> NoJob]
    /\ past = [w \in Worker |-> <<>>]

(***************************************************************************)
(* A call begins: claim, Document.update with and without create, a put of *)
(* the initial value if absent, delete, and wait_for, which may be given   *)
(* the etag of an earlier get.  Nobody sees a wait_for: one is enough.     *)
(***************************************************************************)
First(kind) ==
    CASE kind \in {"claim", "restore"} -> "put"
      [] kind = "delete" -> "delete"
      [] kind \in {"update", "amend", "watch"} -> "get"

Begin(w) ==
    /\ At(w) = "idle" /\ \A v \in Worker : v < w => At(v) # "idle"
    /\ \E kind \in Kinds[topic], from \in {Absent, doc} :
          /\ from # Absent => kind = "watch"
          /\ kind = "watch" => \A v \in Worker : Kind(v) # "watch"
          /\ job' = [job EXCEPT ![w].kind = kind, ![w].pc = First(kind), ![w].from = from]
          /\ past' = [past EXCEPT ![w] = IF kind \in {"restore", "delete"} THEN <<>> ELSE <<Value(doc)>>]
    /\ UNCHANGED <<store, topic, doc, edition>>

(* Mutant: one attempt less. *)
LastTryMutant(w) == job[w].tries + 2 >= MaxAttempts
LastTry(w) == job[w].tries + 1 = MaxAttempts

GiveUp(w) == End(w, Conflict, FALSE)

Retry(w) ==
    \/ /\ ~LastTry(w)
       /\ job' = [job EXCEPT ![w].tries = @ + 1, ![w].read = Absent, ![w].pc = First(Kind(w))]
    \/ LastTry(w) /\ GiveUp(w)

(***************************************************************************)
(* Reads.  GCS reads the generation and then downloads it, which fails, as *)
(* if there were no object, when it has been replaced.                     *)
(***************************************************************************)
(* Mutant: the data is compared, not the etag. *)
ChangedMutant(w, obj) == obj # Absent /\ Value(obj) # Value(job[w].from)
Changed(w, obj) == obj # Absent /\ obj # job[w].from

(* Mutants: a missing document is like an empty one; any document is missing. *)
MissesMutant(w, obj) == FALSE
MissesAllMutant(w, obj) == Kind(w) = "amend"
Misses(w, obj) == Kind(w) = "amend" /\ obj = Absent

AfterGet(w, obj) ==
    \/ Kind(w) = "watch" /\ Changed(w, obj) /\ End(w, obj.value, FALSE)
    \/ Kind(w) = "watch" /\ ~Changed(w, obj) /\ (End(w, TimedOut, FALSE) \/ (~LastTry(w) /\ Retry(w)))
    \/ Kind(w) = "claim" /\ obj = Absent /\ Retry(w)
    \/ Kind(w) = "claim" /\ obj # Absent /\ End(w, obj.value, FALSE)
    \/ Misses(w, obj) /\ End(w, Missing, FALSE)
    \/ /\ Kind(w) \in {"update", "amend"} /\ ~Misses(w, obj)
       /\ job' = [job EXCEPT ![w].read = obj, ![w].pc = "put"]

Get(w) ==
    /\ At(w) = "get" /\ Keep
    /\ IF store = "gcs" /\ doc # Absent
       THEN job' = [job EXCEPT ![w].read = doc, ![w].pc = "pinned"]
       ELSE AfterGet(w, doc)

Download(w) ==
    /\ At(w) = "pinned" /\ Keep
    /\ AfterGet(w, IF doc = job[w].read THEN doc ELSE Absent)

(***************************************************************************)
(* Conditional puts, which expect what was read.                           *)
(***************************************************************************)
New(w) ==
    CASE Kind(w) = "restore" -> <<Initial>>
      [] Kind(w) # "restore" /\ job[w].read = Absent -> <<w>>
      [] OTHER -> Append(job[w].read.value, w)

AfterPut(w, won) ==
    \/ Kind(w) = "claim" /\ won /\ End(w, New(w), TRUE)
    \/ Kind(w) = "claim" /\ ~won /\ job' = [job EXCEPT ![w].pc = "get"]
    \/ Kind(w) = "restore" /\ End(w, IF won THEN Done ELSE Refused, won)
    \/ Kind(w) \in {"update", "amend"} /\ won /\ End(w, Done, TRUE)
    \/ Kind(w) \in {"update", "amend"} /\ ~won /\ Retry(w)

(* Mutants: put without if_match; put without if_absent. *)
ExpectedMutant(w) == job[w].read # Absent \/ doc = Absent
ExpectedAlwaysMutant(w) == job[w].read = Absent \/ doc = job[w].read
Expected(w) == doc = job[w].read

Put(w) ==
    /\ At(w) = "put" /\ Expected(w)
    /\ Write(Object(New(w)))
    /\ AfterPut(w, TRUE) \/ (store # "filesystem" /\ AfterPut(w, FALSE))

Contended(w) == store = "s3" /\ \E v \in Worker \ {w} : At(v) \in {"put", "delete"}

PutRefused(w) ==
    /\ At(w) = "put" /\ (~Expected(w) \/ Contended(w))
    /\ Keep /\ AfterPut(w, FALSE)

Delete(w) ==
    /\ At(w) = "delete"
    /\ IF doc = Absent THEN Keep ELSE Write(Absent)
    /\ End(w, Done, TRUE)

(***************************************************************************)
(* The caller of a call gets an exception: its task is cancelled while its *)
(* thread goes on, or its process dies or a request fails, which is when   *)
(* the thread does nothing more, or no more than its last request.         *)
(* wait_for has no thread of its own.                                      *)
(***************************************************************************)
Cancel(w) ==
    /\ Running(w) /\ Kind(w) # "watch" /\ job[w].result = Pending
    /\ Cardinality({v \in Worker : job[v].result = Raised}) < MaxUpsets
    /\ job' = [job EXCEPT ![w].result = Raised]
    /\ past' = [past EXCEPT ![w] = <<>>]
    /\ UNCHANGED <<store, topic, doc, edition>>

Step(w) == Get(w) \/ Download(w) \/ Put(w) \/ PutRefused(w) \/ Delete(w)

Terminated == (\A w \in Worker : At(w) = "over") /\ UNCHANGED vars

Next ==
    \/ \E w \in Worker : Begin(w) \/ Step(w) \/ Cancel(w)
    \/ Terminated

Spec == Init /\ [][Next]_vars

(***************************************************************************)
(* Properties                                                              *)
(***************************************************************************)
IsValue(x) == x = Absent \/ \A i \in DOMAIN x : x[i] \in Worker \union {Initial}

\* Variables have their types; a conditional put knows what it expects.
TypeOK ==
    /\ store \in {"filesystem", "s3", "gcs"} /\ topic \in DOMAIN Kinds
    /\ IsValue(Value(doc)) /\ edition \in Nat
    /\ doc # Absent => doc.etag \in 0..edition
    /\ \A w \in Worker :
          /\ Kind(w) \in Kinds[topic] \union {"none"} /\ job[w].tries < MaxAttempts
          /\ At(w) \in {"idle", "get", "pinned", "put", "delete", "over"}
          /\ Kind(w) = "amend" /\ At(w) = "put" => job[w].read # Absent
          /\ \A i \in DOMAIN past[w] : IsValue(past[w][i])

Answered(w) == At(w) = "over" /\ job[w].result # Raised
Deleted == \E w \in Worker : Kind(w) = "delete"
Updates == {w \in Worker : Kind(w) \in {"update", "amend"}}
Claims == {w \in Worker : Kind(w) = "claim"}

\* Of the claims of one key at most one is told that it won, all who get an
\* answer get the same value, and that value is the object's, as long as nobody
\* deletes it (ClaimResult: "exactly one caller wins, everyone converges").
OneClaimant ==
    ~Deleted =>
        \A v, w \in Claims :
            Answered(v) /\ Answered(w) /\ Conflict \notin {job[v].result, job[w].result} =>
                /\ job[v].won /\ job[w].won => v = w
                /\ job[v].result = job[w].result /\ job[v].result = Value(doc)

\* Read-modify-write loses nothing: an update that returned is in the document
\* whatever the others do, unless the document is deleted.  Where puts are not
\* resent, it was applied once, and one that raised because of conflicts or a
\* missing document was not applied at all.
Landings(w) == Cardinality({i \in 2..Len(past[w]) :
                  past[w][i] # Absent /\ past[w][i][Len(past[w][i])] = w})
UpdatesAreKept ==
    \A w \in Updates : Answered(w) =>
        /\ job[w].result = Done /\ ~Deleted => doc # Absent /\ w \in Range(doc.value)
        /\ store = "filesystem" => Landings(w) = IF job[w].result = Done THEN 1 ELSE 0

\* What claim and wait_for return was the value of the object at a moment of
\* the call, and the document that an update misses was missing at one.  GCS may
\* miss an object that is being replaced.
AnswersAreTrue ==
    \A w \in Worker : Answered(w) =>
        /\ Kind(w) \in {"claim", "watch"} /\ job[w].result \notin {Conflict, TimedOut} =>
              job[w].result \in Range(past[w])
        /\ job[w].result = Missing /\ store # "gcs" => Absent \in Range(past[w])

\* A call that gives up after all its attempts was overtaken in each of them:
\* the object changed that often (S3 also refuses for a write that then fails).
ConflictMeansProgress ==
    \A w \in Worker :
        Answered(w) /\ job[w].result = Conflict /\ store # "s3" => Len(past[w]) > MaxAttempts

\* wait_for does not time out on an object that has been deleted and is there
\* again ("an object that has been deleted also counts as changed and returns on
\* its next reappearance"), unless the etag is a hash and the content the same,
\* or GCS misses it at the last poll because it is being replaced.
ReappearanceIsNoticed ==
    [][\A w \in Worker :
          job'[w].result = TimedOut /\ job[w].result # TimedOut =>
              \/ doc = Absent \/ Absent \notin Range(past[w])
              \/ doc = job[w].from /\ Hashed
              \/ At(w) = "pinned" /\ doc # job[w].read]_vars
==============================================================================
