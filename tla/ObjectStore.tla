----------------------------- MODULE ObjectStore -----------------------------
(***************************************************************************)
(* What a backend promises to the callers of storage/base.py: every call   *)
(* takes effect at one moment between its start and its end, and its       *)
(* answer is the one of that moment.  What a backend does besides is named *)
(* in exceptions, which says what its callers have to put up with.         *)
(*                                                                         *)
(* An object is the sequence of its bytes; the data of call c is the two   *)
(* bytes <<c, c>>, so that a torn write is visible.  No two writes have    *)
(* the same data, hence an etag is the content it was read with.           *)
(***************************************************************************)
EXTENDS Naturals, Sequences

CONSTANTS
    MaxCalls,   \* calls are numbered in the order they are made
    Last,       \* the numbered objects (commits, snapshots) are 1..Last
    Doc,        \* the key of a generic object
    Absent,     \* no object
    Any,        \* no precondition
    Pending, Raised, Refused, Written  \* answers that are not contents

Call == 1..MaxCalls
Number == 1..Last
Key == Number \union {Doc}
Data(c) == <<c, c>>

VARIABLES
    object,     \* the content of each key
    call,       \* the calls: what is asked, what was done, what is answered
    exceptions  \* those of this backend

vars == <<object, call, exceptions>>

Exceptions == {"resent", "contended", "overlooked", "torn", "emptied", "vacated", "unreported"}
Excused(e) == e \in exceptions

Op(c) == call[c].op
Target(c) == call[c].key
Open(c) == Op(c) # "none" /\ call[c].outcome = Pending
Content(c) == IF object[Target(c)] = Absent THEN <<>> ELSE object[Target(c)]
Store(c, content) == object' = [object EXCEPT ![Target(c)] = content]
Settled(c, result, answer) ==
    [call EXCEPT ![c].outcome = result, ![c].answer = answer, ![c].stage = "new", ![c].read = Absent]
Decide(c, result) == call' = Settled(c, result, call[c].answer)
Holds(c) == call[c].expect \in {Any, object[Target(c)]}
Writing == {"put", "create", "swap", "append", "delete"}
Contended(c) ==
    Excused("contended") /\ \E d \in Call \ {c} : Open(d) /\ Target(d) = Target(c) /\ Op(d) \in Writing

Request(op, key, expect, todo) ==
    [op |-> op, key |-> key, expect |-> expect, stage |-> "new", read |-> Absent,
     todo |-> todo, seen |-> {}, outcome |-> Pending, answer |-> Pending]

NoRequest == [Request("none", Doc, Any, {}) EXCEPT !.outcome = Absent]

Init ==
    /\ object \in [Key -> {Absent, Data(0)}]
    /\ call = [c \in Call |-> NoRequest]
    /\ exceptions \in SUBSET Exceptions

Invoke(c) ==
    /\ Op(c) = "none"
    /\ UNCHANGED object
    /\ \/ \E k \in Key : call' = [call EXCEPT ![c] = Request("create", k, Absent, {})]
       \/ \E k \in Key, op \in {"get", "load"} : call' = [call EXCEPT ![c] = Request(op, k, Any, {})]
       \/ \E op \in {"put", "append", "delete"} : call' = [call EXCEPT ![c] = Request(op, Doc, Any, {})]
       \/ call' = [call EXCEPT ![c] = Request("swap", Doc, object[Doc], {})]
       \/ \E n \in 0..Last : call' = [call EXCEPT ![c] = Request("list", n, Any, (n + 1)..Last)]
       \/ \E n \in 1..(Last + 1) : call' = [call EXCEPT ![c] = Request("prune", n, Any, 1..(n - 1))]

\* A request that is resent has taken effect, and the call stays open: it may
\* take effect again.  A conditional write sees itself in the way: it is
\* refused, although it has taken effect.
Resent == Excused("resent") /\ UNCHANGED call

Write(c) ==
    /\ Open(c) /\ Op(c) \in {"put", "create", "swap"} /\ Holds(c)
    /\ Store(c, Data(c))
    /\ Decide(c, Written) \/ Resent

\* S3 also refuses (409) while another write to the key is under way.
Refuse(c) ==
    /\ Open(c) /\ Op(c) \in {"create", "swap"}
    /\ ~Holds(c) \/ Contended(c)
    /\ Decide(c, Refused) /\ UNCHANGED object

Get(c) ==
    /\ Open(c) /\ Op(c) \in {"get", "load"}
    /\ Decide(c, IF object[Target(c)] = Absent /\ Op(c) = "load" THEN Raised ELSE object[Target(c)])
    /\ UNCHANGED object

\* GCS reads in two requests.  If the object is replaced in between, the
\* answer is that there is none.
Pin(c) ==
    /\ Excused("overlooked")
    /\ Open(c) /\ Op(c) \in {"get", "load"} /\ object[Target(c)] # Absent
    /\ call' = [call EXCEPT ![c].stage = "pinned", ![c].read = object[Target(c)]]
    /\ UNCHANGED object

Overlook(c) ==
    /\ Open(c) /\ call[c].stage = "pinned" /\ object[Target(c)] # call[c].read
    /\ Decide(c, IF Op(c) = "load" THEN Raised ELSE Absent)
    /\ UNCHANGED object

\* The bytes of an append follow one another.  The filesystem may write them
\* in two steps, and like Azure creates the object first.
AppendBytes(c) ==
    /\ Open(c) /\ Op(c) = "append"
    /\ \/ /\ call[c].stage = "half"
          /\ Store(c, Append(Content(c), c)) /\ Decide(c, Written)
       \/ /\ call[c].stage = "new" /\ Excused("torn")
          /\ Store(c, Append(Content(c), c)) /\ call' = [call EXCEPT ![c].stage = "half"]
       \/ /\ call[c].stage = "new"
          /\ Store(c, Content(c) \o Data(c))
          /\ Decide(c, Written) \/ Resent

CreateEmpty(c) ==
    /\ Excused("emptied")
    /\ Open(c) /\ Op(c) = "append" /\ object[Target(c)] = Absent
    /\ Store(c, <<>>) /\ (UNCHANGED call \/ Decide(c, Raised))

GiveUp(c) ==
    /\ Open(c) /\ Op(c) = "append" /\ call[c].stage = "new"
    /\ Decide(c, Refused) /\ UNCHANGED object

\* Azure replaces an append blob by deleting it, and then creates the new one
\* or is refused because somebody else was faster.
Vacate(c) ==
    /\ Excused("vacated")
    /\ Open(c) /\ Op(c) \in {"put", "swap", "append"} /\ Holds(c)
    /\ Store(c, Absent)
    /\ \/ call' = [call EXCEPT ![c].stage = "vacated",
                               ![c].read = IF Op(c) = "append" THEN object[Target(c)] ELSE Absent]
       \/ Resent

Refill(c) ==
    LET new == IF Op(c) = "append" THEN call[c].read \o Data(c) ELSE Data(c)
    IN  /\ Open(c) /\ call[c].stage = "vacated"
        /\ \/ /\ object[Target(c)] = Absent \/ Op(c) = "put"
              /\ Store(c, new)
              /\ Decide(c, Written) \/ Resent
           \/ /\ object[Target(c)] # Absent /\ Op(c) = "swap"
              /\ Decide(c, Refused) /\ UNCHANGED object
           \/ /\ object[Target(c)] # Absent /\ Op(c) = "append"
              /\ \/ Decide(c, Refused)
                 \/ call' = [call EXCEPT ![c].stage = "new", ![c].read = Absent]
              /\ UNCHANGED object

Delete(c) ==
    /\ Open(c) /\ Op(c) = "delete"
    /\ Store(c, Absent)
    /\ Decide(c, Written) \/ Resent

\* A listing is not a snapshot: it looks at one object after the other.
Visit(c, n) ==
    /\ Open(c) /\ Op(c) = "list" /\ n \in call[c].todo
    /\ call' = [call EXCEPT ![c].todo = @ \ {n},
                            ![c].seen = IF object[n] = Absent THEN @ ELSE @ \union {n}]
    /\ UNCHANGED object

Listed(c) ==
    /\ Open(c) /\ Op(c) = "list" /\ call[c].todo = {}
    /\ Decide(c, call[c].seen) /\ UNCHANGED object

\* S3 does not say which deletions of a batch failed.
Remove(c, n) ==
    /\ Open(c) /\ Op(c) = "prune" /\ n \in call[c].todo
    /\ \/ /\ object' = [object EXCEPT ![n] = Absent]
          /\ call' = [call EXCEPT ![c].todo = @ \ {n}] \/ Resent
       \/ /\ object[n] = Absent \/ Excused("unreported")
          /\ call' = [call EXCEPT ![c].todo = @ \ {n}] /\ UNCHANGED object

Pruned(c) ==
    /\ Open(c) /\ Op(c) = "prune" /\ call[c].todo = {}
    /\ Decide(c, Written) /\ UNCHANGED object

Return(c) ==
    /\ call[c].answer = Pending /\ call[c].outcome # Pending
    /\ call' = [call EXCEPT ![c].answer = call[c].outcome]
    /\ UNCHANGED object

\* An exception or a crash says nothing about the effect.  A caller that is
\* cancelled leaves a call behind that goes on.
Fail(c) ==
    /\ Op(c) # "none" /\ call[c].answer \in {Pending, Raised}
    /\ Decide(c, Raised) \/ call' = Settled(c, Raised, Raised)
    /\ UNCHANGED object

Abandon(c) ==
    /\ Op(c) # "none" /\ call[c].answer = Pending
    /\ call' = [call EXCEPT ![c].answer = Raised]
    /\ UNCHANGED object

Effect(c) ==
    \/ Write(c) \/ Refuse(c) \/ Get(c) \/ Pin(c) \/ Overlook(c) \/ AppendBytes(c)
    \/ CreateEmpty(c) \/ GiveUp(c) \/ Vacate(c) \/ Refill(c) \/ Delete(c)
    \/ Listed(c) \/ Pruned(c)
    \/ \E n \in Number : Visit(c, n) \/ Remove(c, n)

Next ==
    /\ \E c \in Call : Invoke(c) \/ Effect(c) \/ Return(c) \/ Fail(c) \/ Abandon(c)
    /\ UNCHANGED exceptions

Spec == Init /\ [][Next]_vars
==============================================================================
