----------------------------- MODULE StorageCalls -----------------------------
(***************************************************************************)
(* What the backends of storage/ have in common: a call (one worker        *)
(* thread) goes from label to label, one request to the store, or one      *)
(* system call that others can see, at each.  What a backend does at a     *)
(* label is in Filesystem and CloudStores.                                 *)
(*                                                                         *)
(* Numbered objects are the commits of a log or the snapshots of a schema: *)
(* their code is the same.  With namespaced, they are those of a named     *)
(* log, which engine/logs.py keeps by means of the object API.             *)
(***************************************************************************)
EXTENDS Naturals, Sequences, FiniteSets

CONSTANTS
    MaxCalls, Last, Doc, Absent, Any, Pending, Raised, Refused, Written,  \* as in ObjectStore
    MaxAttempts,    \* base._APPEND_ATTEMPTS (8)
    MaxUpsets,      \* how many calls fail or are cancelled
    Nobody          \* holds a lock that is free

ASSUME StorageAssumption ==
    /\ MaxCalls \in Nat \ {0} /\ Last \in Nat \ {0} /\ MaxAttempts \in Nat \ {0} /\ MaxUpsets \in Nat
    /\ Doc \notin Nat /\ Nobody \notin Nat

Byte == 0..MaxCalls
Call == 1..MaxCalls
Number == 1..Last
Key == Number \union {Doc}
Data(c) == <<c, c>>
Provider == {"filesystem", "s3", "gcs", "azure"}

\* No content is taken for an absent object or for no precondition, no refusal
\* for a success.
ASSUME ValuesAssumption ==
    /\ Absent \notin Seq(Byte) /\ Any \notin Seq(Byte) \union {Absent}
    /\ Written \notin {Absent, Pending, Raised, Refused}

VARIABLES
    provider, namespaced,   \* chosen once
    about,                  \* "object" or "log": the two never meet
    object,                 \* the bucket: the content of each key
    appendBlobs,            \* the keys that hold an Azure append blob
    holder,                 \* who holds the flock on a key's .lock file
    call                    \* the calls

setup == <<provider, namespaced, about>>
vars == <<provider, namespaced, about, object, appendBlobs, holder, call>>

Op(c) == call[c].op
At(c) == call[c].pc
Target(c) == call[c].key

\* _check_object_preconditions allows one precondition at most; an etag is
\* the content it was read with.
Conditional(c) == call[c].expect # Any
ObjectApi(c) == Target(c) = Doc \/ namespaced

\* The put of an append by compare-and-swap: its precondition is what was
\* read, its content what was read and the new bytes.
Expected(c) == IF Op(c) = "append" THEN call[c].read ELSE call[c].expect
New(c) == IF Op(c) = "append" /\ call[c].read # Absent THEN call[c].read \o Data(c) ELSE Data(c)
Meets(c) == Expected(c) \in {Any, object[Target(c)]}
Store(c, content) == object' = [object EXCEPT ![Target(c)] = content]

Goto(c, label) == call' = [call EXCEPT ![c].pc = label]
Decide(c, result) == call' = [call EXCEPT ![c].pc = "reply", ![c].outcome = result]

\* A request was executed, its reply is lost, and the SDK makes it again: on
\* one key once, here.
SendAgain(c, k) ==
    /\ k \notin call[c].resent
    /\ call' = [call EXCEPT ![c].resent = @ \union {k}]

(***************************************************************************)
(* Where a call begins.                                                    *)
(***************************************************************************)
First(op, key) ==
    CASE op \in {"put", "create", "swap"} -> IF key = Doc \/ namespaced THEN "put" ELSE "create"
      [] op \in {"get", "load"} -> IF key = Doc \/ namespaced THEN "get" ELSE "read"
      [] op = "append" -> IF namespaced \/ provider \in {"s3", "gcs"} THEN "get" ELSE "append"
      [] op = "delete" -> "delete"
      [] op \in {"list", "prune"} -> "list"

Request(op, key, expect, todo) ==
    [op |-> op, key |-> key, expect |-> expect, pc |-> First(op, key), read |-> Absent,
     todo |-> todo, seen |-> {}, tries |-> 0, resent |-> {}, outcome |-> Pending, answer |-> Pending,
     before |-> [n \in Number |-> IF op = "list" THEN object[n] ELSE Absent]]

NoRequest ==
    [op |-> "none", key |-> Doc, expect |-> Any, pc |-> "idle", read |-> Absent,
     todo |-> {}, seen |-> {}, tries |-> 0, resent |-> {}, outcome |-> Absent, answer |-> Pending,
     before |-> [n \in Number |-> Absent]]

Invoke(c) ==
    /\ At(c) = "idle" /\ \A d \in Call : d < c => At(d) # "idle"
    /\ \/ /\ about = "object"
          /\ \/ call' = [call EXCEPT ![c] = Request("create", Doc, Absent, {})]
             \/ \E op \in {"get", "put", "append", "delete"} :
                   call' = [call EXCEPT ![c] = Request(op, Doc, Any, {})]
             \/ /\ object[Doc] # Absent
                /\ call' = [call EXCEPT ![c] = Request("swap", Doc, object[Doc], {})]
       \/ /\ about = "log"
          /\ \/ \E n \in Number : call' = [call EXCEPT ![c] = Request("create", n, Absent, {})]
             \/ \E n \in Number, op \in {"get", "load"} : call' = [call EXCEPT ![c] = Request(op, n, Any, {})]
             \/ \E n \in 0..(Last - 1) : call' = [call EXCEPT ![c] = Request("list", n, Any, (n + 1)..Last)]
             \/ \E n \in 2..(Last + 1) : call' = [call EXCEPT ![c] = Request("prune", n, Any, 1..(n - 1))]
    /\ UNCHANGED <<setup, object, appendBlobs, holder>>

(***************************************************************************)
(* What a call does when a read or a write of its own is over: the loop of *)
(* base.append_object_sync, and get_snapshot, which does not return None.  *)
(***************************************************************************)
AfterGet(c, content) ==
    IF Op(c) = "append"
    THEN call' = [call EXCEPT ![c].read = content, ![c].pc = "put"]
    ELSE Decide(c, IF Op(c) = "load" /\ content = Absent THEN Raised ELSE content)

AfterPut(c, done) ==
    IF Op(c) = "append" /\ ~done /\ call[c].tries + 1 < MaxAttempts
    THEN call' = [call EXCEPT ![c].tries = @ + 1, ![c].resent = {}, ![c].read = Absent,
                                 ![c].pc = "get"]
    ELSE Decide(c, IF done THEN Written ELSE Refused)

(***************************************************************************)
(* Listings, and deletions of what was listed.                             *)
(***************************************************************************)
Visit(c, n) ==
    /\ At(c) = "list" /\ n \in call[c].todo
    /\ provider = "filesystem" \/ \A m \in call[c].todo : n <= m
    /\ call' = [call EXCEPT ![c].todo = @ \ {n},
                            ![c].seen = IF object[n] = Absent THEN @ ELSE @ \union {n}]
    /\ UNCHANGED <<setup, object, appendBlobs, holder>>

(* Mutant: the last page is not asked for. *)
LastPageMutant(c) == Cardinality(call[c].todo) <= 1
LastPage(c) == call[c].todo = {}

Listed(c) ==
    /\ At(c) = "list" /\ LastPage(c)
    /\ IF Op(c) = "list" THEN Decide(c, call[c].seen) ELSE Goto(c, "sweep")
    /\ UNCHANGED <<setup, object, appendBlobs, holder>>

Remove(c, n) ==
    /\ At(c) = "sweep" /\ n \in call[c].seen
    /\ object' = [object EXCEPT ![n] = Absent]
    /\ call' = [call EXCEPT ![c].seen = @ \ {n}]
    /\ UNCHANGED <<setup, appendBlobs, holder>>

Swept(c) ==
    /\ At(c) = "sweep" /\ call[c].seen = {}
    /\ Decide(c, Written)
    /\ UNCHANGED <<setup, object, appendBlobs, holder>>

(***************************************************************************)
(* How a call ends for its caller.  Fail is an exception or a crash; the   *)
(* kernel releases the flock of a process that dies.  Cancel is the        *)
(* cancellation of a task whose work goes on in its thread; on the         *)
(* filesystem the log API has no thread.                                   *)
(***************************************************************************)
Return(c) ==
    /\ At(c) = "reply"
    /\ call' = [call EXCEPT ![c].pc = "over",
                            ![c].answer = IF @ = Pending THEN call[c].outcome ELSE @]
    /\ UNCHANGED <<setup, object, appendBlobs, holder>>

Running(c) == At(c) \notin {"idle", "over"}
Upsets == {d \in Call : call[d].answer = Raised}

Fail(c) ==
    /\ Running(c) /\ Cardinality(Upsets \ {c}) < MaxUpsets
    /\ call' = [call EXCEPT ![c].pc = "over", ![c].outcome = Raised, ![c].answer = Raised]
    /\ holder' = [k \in Key |-> IF holder[k] = c THEN Nobody ELSE holder[k]]
    /\ UNCHANGED <<setup, object, appendBlobs>>

Cancel(c) ==
    /\ Running(c) /\ call[c].answer = Pending /\ Cardinality(Upsets) < MaxUpsets
    /\ provider = "filesystem" => ObjectApi(c)
    /\ call' = [call EXCEPT ![c].answer = Raised]
    /\ UNCHANGED <<setup, object, appendBlobs, holder>>
==============================================================================
