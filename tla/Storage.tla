------------------------------- MODULE Storage -------------------------------
(***************************************************************************)
(* The storage contract (storage/base.py) as its four backends keep it,    *)
(* below the root log or a named one (engine/logs.py).                     *)
(***************************************************************************)
EXTENDS Filesystem, CloudStores

Init ==
    /\ provider \in Provider /\ namespaced \in BOOLEAN /\ about \in {"object", "log"}
    /\ about = "object" /\ namespaced => provider \in {"filesystem", "azure"}
    /\ object \in [Key -> {Absent, Data(0)}]
    /\ \A n \in Number : about = "object" \/ (n > 1 /\ object[n - 1] = Absent) => object[n] = Absent
    /\ about = "log" => object[Doc] = Absent
    /\ appendBlobs \in SUBSET {Doc}
    /\ appendBlobs # {} => provider = "azure" /\ object[Doc] # Absent
    /\ holder = [k \in Key |-> Nobody]
    /\ call = [c \in Call |-> NoRequest]

Step(c) == FsStep(c) \/ S3Step(c) \/ GcsStep(c) \/ AzureStep(c) \/ Return(c)

Terminated == (\A c \in Call : At(c) = "over") /\ UNCHANGED vars

Next ==
    \/ \E c \in Call : Invoke(c) \/ Step(c) \/ Fail(c) \/ Cancel(c)
    \/ Terminated

Spec == Init /\ [][Next]_vars

\* The thread of a call goes on, and its requests are answered.
FairSpec == Spec /\ \A c \in Call : WF_vars(Step(c))

(***************************************************************************)
(* Properties                                                              *)
(***************************************************************************)
IsContent(x) == x = Absent \/ \A i \in 1..Len(x) : x[i] \in Byte

\* Variables have their types, and whoever holds a lock is inside it.
TypeOK ==
    /\ provider \in Provider /\ namespaced \in BOOLEAN /\ about \in {"object", "log"}
    /\ \A k \in Key : IsContent(object[k])
    /\ appendBlobs \in SUBSET {Doc}
    /\ \A k \in Key : holder[k] # Nobody =>
          /\ holder[k] \in Call /\ Target(holder[k]) = k
          /\ At(holder[k]) \in {"check", "refused", "replace", "replaced", "open", "write", "half",
                                "appended", "unlink", "unlinked"}
    /\ \A c \in Call : call[c].todo \subseteq Number /\ call[c].seen \subseteq Number

\* A commit or a snapshot is written whole and never overwritten: it is there
\* as it was, or deleted (base.py, "immutable, conditionally-written objects").
NumberedAreImmutable ==
    [][\A n \in Number :
          /\ object[n] # Absent => object'[n] \in {object[n], Absent}
          /\ object'[n] \in {Absent} \union {Data(b) : b \in Byte}]_vars

\* Of the conditional writes that expect the same, one at most is told that it
\* won, as long as nobody deletes the object (a delete call, a prune, or Azure's
\* replacement of an append blob), and no unconditional put is executed twice:
\* the second time it restores what a winner has replaced, with the same etag
\* where that is a hash of the content.
Won(c) == call[c].answer = Written /\ Conditional(c)
Removable(k) ==
    \/ \E d \in Call : Op(d) \in {"delete", "prune"} \/ (Op(d) = "put" /\ call[d].resent # {})
    \/ provider = "azure" /\ k = Doc
OneWinner ==
    \A c, d \in Call :
        Won(c) /\ Won(d) /\ Target(c) = Target(d) /\ call[c].expect = call[d].expect
        => c = d \/ Removable(Target(c))

\* A listing has every commit that was there when it began, although it is put
\* together while others write, unless it is being pruned.  This is what makes
\* a discovered tail a lower bound.
ListSeesEarlier ==
    \A c \in Call : Op(c) = "list" /\ call[c].answer \notin {Pending, Raised} =>
        \A n \in Number :
            n > Target(c) /\ call[c].before[n] # Absent =>
                \/ n \in call[c].answer
                \/ \E d \in Call : Op(d) = "prune" /\ n < Target(d)

\* Every call returns: no lock outlives its holder, no loop goes on for ever.
CallsReturn == []<>(\A c \in Call : At(c) # "idle" => call[c].answer # Pending)

(***************************************************************************)
(* The backends implement the contract, each with its own exceptions.  A   *)
(* call under the lock has taken effect when the file has changed.         *)
(***************************************************************************)
ExceptionsOf ==
    CASE provider = "filesystem" -> {"torn", "emptied"}
      [] provider = "s3" -> {"resent", "contended"} \union (IF namespaced THEN {} ELSE {"unreported"})
      [] provider = "gcs" -> {"resent", "overlooked"}
      [] provider = "azure" -> {"resent", "emptied", "vacated"}

Outcome(c) ==
    CASE At(c) \in {"replaced", "appended", "unlinked"} -> Written
      [] At(c) = "refused" /\ Op(c) # "append" -> Refused
      [] OTHER -> call[c].outcome

Stage(c) ==
    CASE At(c) = "half" -> "half"
      [] At(c) = "pinned" /\ Op(c) # "append" -> "pinned"
      [] At(c) = "recreate" -> "vacated"
      [] OTHER -> "new"

PromisedCall ==
    [c \in Call |->
        [op |-> Op(c), key |-> Target(c), expect |-> call[c].expect,
         stage |-> Stage(c), read |-> IF Stage(c) \in {"pinned", "vacated"} THEN call[c].read ELSE Absent,
         todo |-> call[c].todo \union (IF Op(c) = "prune" THEN call[c].seen ELSE {}),
         seen |-> IF Op(c) = "prune" THEN {} ELSE call[c].seen,
         outcome |-> Outcome(c), answer |-> call[c].answer]]

Promised == INSTANCE ObjectStore WITH call <- PromisedCall, exceptions <- ExceptionsOf

ImplementsObjectStore == Promised!Spec
==============================================================================
