---------------------------- MODULE StorageProofs ----------------------------
(* What holds of the objects that the four backends keep, for any number of  *)
(* calls, numbered objects, attempts, failures and cancellations.            *)
EXTENDS Storage, SequenceTheorems, FiniteSetTheorems, TLAPS

(***************************************************************************)
(* The inductive invariant                                                 *)
(***************************************************************************)
Content == Seq(Byte) \union {Absent}
Outcomes == Content \union (SUBSET Number) \union {Pending, Raised, Refused, Written}

\* Labels by what they have in common.
Locked == {"check", "refused", "replace", "replaced", "open", "write", "half",
           "appended", "unlink", "unlinked"}
Putting == {"put", "check", "refused", "replace", "replaced", "retype", "recreate"}
Appending == {"append", "createblob", "open", "write", "half", "appended"}
Labels == {"idle", "create", "get", "pinned", "read", "delete", "unlink", "unlinked", "list",
           "sweep", "reply", "over"} \union Putting \union Appending

Calls == [op : {"none", "create", "put", "swap", "get", "load", "append", "delete", "list", "prune"},
          key : Nat \union {Doc}, expect : Content \union {Any}, pc : Labels, read : Content,
          todo : SUBSET Number, seen : SUBSET Number, tries : Nat, resent : SUBSET Key,
          outcome : Outcomes, answer : Outcomes, before : [Number -> Content]]

\* A numbered object is what one call wrote, and only Azure has append blobs.
Types ==
    /\ provider \in Provider /\ namespaced \in BOOLEAN /\ about \in {"object", "log"}
    /\ object \in [Key -> Content]
    /\ \A n \in Number : object[n] \in {Absent} \union {Data(b) : b \in Byte}
    /\ appendBlobs \in SUBSET {Doc}
    /\ appendBlobs # {} => provider = "azure" /\ object[Doc] # Absent
    /\ holder \in [Key -> Call \union {Nobody}]
    /\ call \in [Call -> Calls]

\* Which calls are at which label, with which arguments and answers.
Proper(c) ==
    /\ Op(c) = "none" <=> At(c) = "idle"
    /\ Op(c) \in {"put", "swap", "append", "delete", "none"} => Target(c) = Doc
    /\ Op(c) \in {"create", "get", "load"} => Target(c) \in Key
    /\ Op(c) \in {"list", "prune"} => Target(c) \in Nat
    /\ Op(c) = "prune" => \A n \in call[c].todo \union call[c].seen : n < Target(c)
    /\ Op(c) = "create" => call[c].expect = Absent
    /\ Op(c) = "swap" => call[c].expect \in Seq(Byte)
    /\ Op(c) \notin {"create", "swap"} => call[c].expect = Any
    /\ Op(c) \in {"put", "create", "swap"} => call[c].resent \subseteq {Target(c)}
    /\ At(c) = "create" => Op(c) = "create" /\ Target(c) \in Number /\ ~namespaced
    /\ At(c) \in Putting => Op(c) \in {"put", "create", "swap", "append"} /\ ObjectApi(c)
    /\ At(c) \in {"get", "pinned"} => Op(c) \in {"get", "load", "append"}
    /\ At(c) \in {"get", "pinned"} /\ Op(c) = "append" => ObjectApi(c)
    /\ At(c) = "read" => Op(c) \in {"get", "load"}
    /\ At(c) \in Appending => Op(c) = "append"
    /\ At(c) \in {"delete", "unlink", "unlinked"} => Op(c) = "delete"
    /\ At(c) = "list" => Op(c) \in {"list", "prune"}
    /\ At(c) = "sweep" => Op(c) = "prune"
    /\ At(c) \in Locked => provider = "filesystem"
    /\ At(c) \in {"retype", "recreate", "createblob"} => provider = "azure" /\ Target(c) = Doc
    /\ At(c) \notin {"idle", "reply", "over"} => call[c].outcome = Pending
    /\ At(c) = "idle" => call[c].outcome = Absent
    /\ At(c) # "over" => call[c].answer \in {Pending, Raised}

\* Whoever is under a lock holds it, and what it has seen of the file is so still.
Locking(c) ==
    /\ At(c) \in Locked => holder[Target(c)] = c
    /\ At(c) = "replace" => Meets(c)
    /\ At(c) \in {"write", "half"} => object[Target(c)] # Absent
LockFree(k) ==
    holder[k] # Nobody => Target(holder[k]) = k /\ At(holder[k]) \in Locked

TypeInv ==
    /\ Types /\ \A c \in Call : Proper(c) /\ Locking(c)
    /\ \A k \in Key : LockFree(k)

\* A call that has not written yet, and whose data are therefore new.
Fresh(c) ==
    \/ At(c) = "idle"
    \/ /\ Op(c) \in {"put", "create", "swap"} /\ call[c].resent = {}
       /\ At(c) \in {"put", "create", "check", "replace", "retype", "recreate"}

\* Content that no call which is still to write will write.
Old(x) == x # Absent /\ x # <<>> => \A c \in Call : Fresh(c) => x[1] # c

\* An object with content x was e before, or never, and will not be e again.
Beyond(x, e) ==
    /\ x # Absent
    /\ e # Absent => \/ e = <<>> /\ x # <<>>
                     \/ /\ e # <<>> /\ x # <<>>
                        /\ x[1] # e[1] \/ Len(x) > Len(e)

\* A conditional write that has taken effect, and was told so or is made again.
Winner(c) ==
    Conditional(c) /\ (At(c) = "replaced" \/ call[c].outcome = Written \/ call[c].resent # {})

\* What a swap expects was the content of the object, and a winner has changed it.
Dated(c) ==
    ~Removable(Target(c)) =>
        /\ Op(c) = "swap" => /\ Old(call[c].expect)
                             /\ object[Doc] = call[c].expect \/ Beyond(object[Doc], call[c].expect)
        /\ Winner(c) => Beyond(object[Target(c)], call[c].expect)

Single(c, d) ==
    Winner(c) /\ Winner(d) /\ Target(c) = Target(d) /\ call[c].expect = call[d].expect
        => c = d \/ Removable(Target(c))

Claimed(c) == Conditional(c) /\ call[c].answer = Written => call[c].outcome = Written

WinInv ==
    /\ \A k \in Key : ~Removable(k) => Old(object[k])
    /\ \A c \in Call : Dated(c) /\ Claimed(c)
    /\ \A c, d \in Call : Single(c, d)

\* A commit that a listing must have is in it, or will be.
Prunable(n) == \E d \in Call : Op(d) = "prune" /\ n < Target(d)
Due(c, n) == n > Target(c) /\ call[c].before[n] # Absent /\ ~Prunable(n)
Listing(c) ==
    Op(c) = "list" => \A n \in Number : Due(c, n) =>
        /\ At(c) = "list" => n \in call[c].seen \/ (n \in call[c].todo /\ object[n] # Absent)
        /\ call[c].outcome \notin {Pending, Raised} => n \in call[c].outcome
        /\ call[c].answer \notin {Pending, Raised} => n \in call[c].answer

ListInv == \A c \in Call : Listing(c)

Inv == TypeInv /\ WinInv /\ ListInv

(***************************************************************************)
(* Contents                                                                *)
(***************************************************************************)
LEMMA ConstantFacts ==
  /\ MaxCalls \in Nat \ {0} /\ Last \in Nat \ {0} /\ MaxAttempts \in Nat \ {0}
  /\ Call \subseteq Nat /\ Call \subseteq Byte /\ Nobody \notin Call
  /\ Doc \notin Number /\ Doc \in Key /\ Number \subseteq Key /\ Number \subseteq Nat
  BY StorageAssumption DEF Call, Number, Key, Byte

\* The data of a call are its own.
LEMMA DataOf ==
  ASSUME NEW b \in Byte
  PROVE  /\ Data(b) \in Seq(Byte) /\ Data(b) # <<>> /\ Data(b)[1] = b /\ Len(Data(b)) = 2
         /\ Data(b) # Absent /\ Data(b) # Any
<1>1. Data(b) \in Seq(Byte) /\ Data(b) # <<>> /\ Data(b)[1] = b /\ Len(Data(b)) = 2
  BY DEF Data
<1>2. QED
  BY <1>1, ValuesAssumption

\* What is appended comes after what is there.
LEMMA Appended ==
  ASSUME NEW x \in Seq(Byte), NEW s \in Seq(Byte), s # <<>>
  PROVE  /\ x \o s \in Seq(Byte) /\ x \o s # <<>> /\ Len(x \o s) > Len(x)
         /\ x # <<>> => (x \o s)[1] = x[1]
<1>1. Len(s) > 0
  BY EmptySeq, LenProperties
<1>2. /\ x \o s \in Seq(Byte) /\ Len(x \o s) = Len(x) + Len(s)
      /\ \A i \in 1..(Len(x) + Len(s)) : (x \o s)[i] = IF i <= Len(x) THEN x[i] ELSE s[i - Len(x)]
  BY ConcatProperties
<1>3. Len(x) \in Nat /\ Len(s) \in Nat
  BY LenProperties
<1>4. x # <<>> => Len(x) > 0
  BY EmptySeq, LenProperties
<1>5. QED
  BY <1>1, <1>2, <1>3, <1>4, EmptySeq

LEMMA AppendOne ==
  ASSUME NEW x \in Seq(Byte), NEW b \in Byte
  PROVE  Append(x, b) = x \o <<b>> /\ <<b>> \in Seq(Byte) /\ <<b>> # <<>>
<1>1. <<b>> \in Seq(Byte) /\ <<b>> # <<>>
  OBVIOUS
<1>2. Append(x, b) = x \o <<b>>
  BY AppendIsConcat
<1>3. QED
  BY <1>1, <1>2

(***************************************************************************)
(* What a step of a call does                                              *)
(***************************************************************************)
\* To the call: the others stay as they are, and so does what was asked.
Alone(c) ==
    /\ call' \in [Call -> Calls] /\ \A d \in Call \ {c} : call'[d] = call[d]
    /\ call'[c].op = Op(c) /\ call'[c].key = Target(c) /\ call'[c].expect = call[c].expect
    /\ call'[c].before = call[c].before
    /\ Op(c) # "append" => call[c].resent \subseteq call'[c].resent

\* It goes on at another label, or is over but for its return.
Gone(c, label) ==
    /\ Alone(c) /\ call'[c].pc = label
    /\ call'[c].todo = call[c].todo /\ call'[c].seen = call[c].seen
    /\ call'[c].outcome = call[c].outcome /\ call'[c].answer = call[c].answer
    /\ Op(c) # "append" => call'[c].resent = call[c].resent
Ended(c, result) ==
    /\ Alone(c) /\ call'[c].pc = "reply" /\ call'[c].outcome = result
    /\ call'[c].todo = call[c].todo /\ call'[c].seen = call[c].seen
    /\ call'[c].answer = call[c].answer /\ call'[c].resent = call[c].resent

\* To the object: a put writes new data, or the same again; an append extends or makes it; a
\* deletion or Azure's replacement of an append blob removes it.
Puts(c) == Op(c) \in {"put", "create", "swap"}
Unsettled(c) == Fresh(c) \/ call[c].resent # {}
Retypable(c) == provider = "azure" /\ Target(c) = Doc
Wrote(c) ==
    /\ Puts(c) /\ Unsettled(c) /\ ~Fresh(c)' /\ Target(c) \in Key
    /\ Meets(c) \/ (provider = "azure" /\ Target(c) = Doc)
    /\ object' = [object EXCEPT ![Target(c)] = Data(c)]
Grew(c) ==
    /\ Op(c) = "append" /\ object[Doc] # Absent
    /\ \E s \in Seq(Byte) \ {<<>>} :
          s[1] = c /\ object' = [object EXCEPT ![Doc] = object[Doc] \o s]
Started(c) ==
    /\ Op(c) = "append" /\ object[Doc] = Absent
    /\ \E x \in Seq(Byte) : /\ object' = [object EXCEPT ![Doc] = x]
                            /\ provider = "azure" \/ x = <<>> \/ x[1] = c
Removed(c) ==
    \E k \in Key :
        /\ object' = [object EXCEPT ![k] = Absent]
        /\ \/ k = Doc /\ (Op(c) = "delete" \/ provider = "azure")
           \/ k \in Number /\ Op(c) = "prune" /\ k < Target(c)
ObjectForm(c) == UNCHANGED object \/ Wrote(c) \/ Grew(c) \/ Started(c) \/ Removed(c)

\* To the locks: it keeps, takes or releases its own, and changes no file that
\* somebody else has locked.
HolderForm(c) ==
    \/ UNCHANGED holder /\ (At(c) \in Locked <=> call'[c].pc \in Locked)
    \/ /\ Target(c) \in Key /\ holder[Target(c)] = Nobody
       /\ At(c) \notin Locked /\ call'[c].pc \in Locked
       /\ holder' = [holder EXCEPT ![Target(c)] = c]
    \/ /\ call'[c].pc \notin Locked
       /\ holder' = [k \in Key |-> IF holder[k] = c THEN Nobody ELSE holder[k]]
Considerate(c) ==
    provider = "filesystem" => \A k \in Key : object'[k] # object[k] =>
        holder[k] \in {c, Nobody} \/ (~namespaced /\ k \in Number)

\* To what a listing has found.
ListForm(c) ==
    Op(c) = "list" =>
        /\ call'[c].pc = "list" =>
              /\ At(c) = "list" /\ call[c].seen \subseteq call'[c].seen
              /\ \A n \in call[c].todo : object[n] # Absent =>
                    n \in call'[c].seen \/ n \in call'[c].todo
        /\ call'[c].outcome # call[c].outcome =>
              \/ call'[c].outcome = Raised
              \/ At(c) = "list" /\ call[c].todo = {} /\ call'[c].outcome = call[c].seen
        /\ call'[c].answer # call[c].answer => call'[c].answer \in {Raised, call[c].outcome}

Blobs ==
    /\ appendBlobs' \in SUBSET {Doc}
    /\ appendBlobs' # {} => provider = "azure" /\ object'[Doc] # Absent

CallForm(c) ==
    /\ Proper(c)' /\ Claimed(c)' /\ ListForm(c)
    /\ Fresh(c)' => Fresh(c)
    /\ Winner(c)' => Winner(c) \/ Wrote(c) \/ Retypable(c)

Effect(c) ==
    /\ UNCHANGED setup /\ Alone(c) /\ CallForm(c) /\ ObjectForm(c)
    /\ HolderForm(c) /\ Considerate(c) /\ Blobs /\ Locking(c)'

(***************************************************************************)
(* The ways a call goes on                                                 *)
(***************************************************************************)
LEMMA GotoGoes ==
  ASSUME Types, NEW c \in Call, NEW label \in Labels, Goto(c, label)
  PROVE  Gone(c, label) /\ call'[c].read = call[c].read
<1>1. call[c] \in Calls
  BY DEF Types
<1>2. call' = [call EXCEPT ![c] = [call[c] EXCEPT !.pc = label]]
  BY DEF Goto
<1>3. /\ call'[c] \in Calls /\ call'[c].pc = label /\ call'[c].read = call[c].read
      /\ call'[c].op = Op(c) /\ call'[c].key = Target(c) /\ call'[c].expect = call[c].expect
      /\ call'[c].before = call[c].before
      /\ call'[c].resent = call[c].resent
      /\ call'[c].todo = call[c].todo /\ call'[c].seen = call[c].seen
      /\ call'[c].outcome = call[c].outcome /\ call'[c].answer = call[c].answer
  BY <1>1, <1>2 DEF Types, Calls, Op, Target
<1>4. call' \in [Call -> Calls] /\ \A d \in Call \ {c} : call'[d] = call[d]
  BY <1>2, <1>3 DEF Types
<1>5. QED
  BY <1>3, <1>4 DEF Gone, Alone

LEMMA DecideEnds ==
  ASSUME Types, NEW c \in Call, NEW result \in Outcomes, Decide(c, result)
  PROVE  Ended(c, result)
<1>1. call[c] \in Calls
  BY DEF Types
<1>2. call' = [call EXCEPT ![c] = [call[c] EXCEPT !.pc = "reply", !.outcome = result]]
  BY DEF Decide
<1>3. /\ call'[c] \in Calls /\ call'[c].pc = "reply"
      /\ call'[c].op = Op(c) /\ call'[c].key = Target(c) /\ call'[c].expect = call[c].expect
      /\ call'[c].before = call[c].before
      /\ call'[c].resent = call[c].resent
      /\ call'[c].todo = call[c].todo /\ call'[c].seen = call[c].seen
      /\ call'[c].outcome = result /\ call'[c].answer = call[c].answer
  BY <1>1, <1>2 DEF Types, Calls, Op, Target, Labels
<1>4. call' \in [Call -> Calls] /\ \A d \in Call \ {c} : call'[d] = call[d]
  BY <1>2, <1>3 DEF Types
<1>5. QED
  BY <1>3, <1>4 DEF Ended, Alone

\* What a read brings.
LEMMA AfterGetGoes ==
  ASSUME Types, NEW c \in Call, NEW content \in Content, AfterGet(c, content)
  PROVE  \/ Op(c) = "append" /\ Gone(c, "put")
         \/ Op(c) # "append" /\ \E result \in Outcomes : Ended(c, result)
<1>1. CASE Op(c) = "append"
  <2>1. call[c] \in Calls
    BY DEF Types
  <2>2. call' = [call EXCEPT ![c] = [call[c] EXCEPT !.read = content, !.pc = "put"]]
    BY <1>1 DEF AfterGet
  <2>3. /\ call'[c] \in Calls /\ call'[c].pc = "put"
        /\ call'[c].op = Op(c) /\ call'[c].key = Target(c) /\ call'[c].expect = call[c].expect
        /\ call'[c].before = call[c].before
        /\ call'[c].resent = call[c].resent
        /\ call'[c].todo = call[c].todo /\ call'[c].seen = call[c].seen
        /\ call'[c].outcome = call[c].outcome /\ call'[c].answer = call[c].answer
    BY <2>1, <2>2 DEF Types, Calls, Op, Target, Labels, Putting
  <2>4. call' \in [Call -> Calls] /\ \A d \in Call \ {c} : call'[d] = call[d]
    BY <2>2, <2>3 DEF Types
  <2>5. QED
    BY <1>1, <2>3, <2>4 DEF Gone, Alone
<1>2. CASE Op(c) # "append"
  <2>1. PICK result \in {Raised, content} : Decide(c, result)
    BY <1>2 DEF AfterGet
  <2>2. result \in Outcomes
    BY DEF Outcomes
  <2>3. QED
    BY <1>2, <2>1, <2>2, DecideEnds
<1>3. QED
  BY <1>1, <1>2

\* What a write brings: an append that lost tries again, as often as it may.
LEMMA AfterPutGoes ==
  ASSUME Types, NEW c \in Call, NEW done \in BOOLEAN, AfterPut(c, done)
  PROVE  \/ Op(c) = "append" /\ ~done /\ Gone(c, "get")
         \/ Ended(c, IF done THEN Written ELSE Refused)
<1>1. CASE Op(c) = "append" /\ ~done /\ call[c].tries + 1 < MaxAttempts
  <2>1. call[c] \in Calls
    BY DEF Types
  <2>2. call' = [call EXCEPT ![c] = [call[c] EXCEPT !.tries = call[c].tries + 1, !.resent = {},
                                                    !.read = Absent, !.pc = "get"]]
    BY <1>1 DEF AfterPut
  <2>3. call[c].tries + 1 \in Nat /\ Absent \in Content
    BY <2>1 DEF Calls, Content
  <2>4. /\ call'[c] \in Calls /\ call'[c].pc = "get"
        /\ call'[c].op = Op(c) /\ call'[c].key = Target(c) /\ call'[c].expect = call[c].expect
        /\ call'[c].before = call[c].before
        /\ call'[c].todo = call[c].todo /\ call'[c].seen = call[c].seen
        /\ call'[c].outcome = call[c].outcome /\ call'[c].answer = call[c].answer
    BY <2>1, <2>2, <2>3 DEF Types, Calls, Op, Target, Labels
  <2>5. call' \in [Call -> Calls] /\ \A d \in Call \ {c} : call'[d] = call[d]
    BY <2>2, <2>4 DEF Types
  <2>6. QED
    BY <1>1, <2>4, <2>5 DEF Gone, Alone
<1>2. CASE ~(Op(c) = "append" /\ ~done /\ call[c].tries + 1 < MaxAttempts)
  <2>1. Decide(c, IF done THEN Written ELSE Refused)
    BY <1>2 DEF AfterPut
  <2>2. (IF done THEN Written ELSE Refused) \in Outcomes
    BY DEF Outcomes
  <2>3. QED
    BY <2>1, <2>2, DecideEnds
<1>3. QED
  BY <1>1, <1>2

\* A call that is over but for its return has its outcome, and changes nothing more.
LEMMA EndedForm ==
  ASSUME TypeInv, NEW c \in Call, NEW result, Ended(c, result), UNCHANGED setup,
         At(c) \notin {"idle", "over"},
         Puts(c) /\ result = Written => Wrote(c) \/ At(c) = "replaced",
         Op(c) = "list" => At(c) = "list" /\ call[c].todo = {} /\ result = call[c].seen
  PROVE  /\ Alone(c) /\ CallForm(c) /\ Locking(c)'
         /\ ~Fresh(c)' /\ call'[c].pc \notin Locked
<1>1. Types /\ Proper(c)
  BY DEF TypeInv
<1>2. /\ Alone(c) /\ call'[c].pc = "reply" /\ call'[c].outcome = result
      /\ call'[c].todo = call[c].todo /\ call'[c].seen = call[c].seen
      /\ call'[c].answer = call[c].answer
      /\ call'[c].op = Op(c) /\ call'[c].key = Target(c) /\ call'[c].expect = call[c].expect
      /\ call'[c].resent = call[c].resent
  BY DEF Ended, Alone
<1>3. Proper(c)'
  BY <1>1, <1>2 DEF Proper, Op, Target, At, Putting, Appending, Locked, setup, ObjectApi
<1>4. At(c) # "over" => call[c].answer \in {Pending, Raised}
  BY <1>1 DEF Proper
<1>5. Claimed(c)'
  BY <1>2, <1>4, ValuesAssumption DEF Claimed
<1>6. ~Fresh(c)'
  BY <1>2 DEF Fresh, At
<1>7. Winner(c)' => Winner(c) \/ Wrote(c)
  BY <1>1, <1>2 DEF Winner, Proper, Conditional, Puts, At
<1>8. ListForm(c)
  BY <1>2 DEF ListForm
<1>9. Locking(c)'
  BY <1>2 DEF Locking, At, Locked
<1>10. QED
  BY <1>2, <1>3, <1>5, <1>6, <1>7, <1>8, <1>9 DEF CallForm, Locked

\* A call that goes on, neither to a listing nor to where its data are new.
LEMMA GoneForm ==
  ASSUME TypeInv, NEW c \in Call, NEW label \in Labels, Gone(c, label), UNCHANGED setup,
         At(c) \notin {"idle", "reply", "over"}, label \notin {"idle", "reply", "over"},
         Op(c) # "list", Proper(c)', Fresh(c)' => Fresh(c),
         label = "replaced" /\ Puts(c) => Wrote(c)
  PROVE  Alone(c) /\ CallForm(c)
<1>1. Types /\ Proper(c)
  BY DEF TypeInv
<1>2. /\ Alone(c) /\ call'[c].pc = label /\ call'[c].outcome = call[c].outcome
      /\ call'[c].answer = call[c].answer
      /\ call'[c].op = Op(c) /\ call'[c].key = Target(c) /\ call'[c].expect = call[c].expect
      /\ (Op(c) # "append" => call'[c].resent = call[c].resent)
  BY DEF Gone, Alone
<1>3. call[c].answer \in {Pending, Raised} /\ call[c].outcome = Pending
  BY <1>1 DEF Proper
<1>4. Claimed(c)'
  BY <1>2, <1>3, ValuesAssumption DEF Claimed
<1>5. Winner(c)' => Winner(c) \/ Wrote(c)
  BY <1>1, <1>2, <1>3, ValuesAssumption DEF Winner, At, Conditional, Proper, Puts
<1>6. QED
  BY <1>2, <1>4, <1>5 DEF CallForm, ListForm

\* A request that is made again.
LEMMA AgainForm ==
  ASSUME TypeInv, NEW c \in Call, NEW k \in Key, SendAgain(c, k), UNCHANGED setup,
         At(c) \in {"put", "create", "delete", "sweep", "retype", "recreate", "append", "createblob"},
         Puts(c) => k = Target(c) /\ (~Fresh(c)' => Wrote(c) \/ Retypable(c))
  PROVE  /\ Alone(c) /\ CallForm(c) /\ Locking(c)' /\ call'[c].pc \notin Locked
         /\ ~Fresh(c)'
<1>1. Types /\ Proper(c) /\ call[c] \in Calls
  BY DEF TypeInv, Types
<1>2. PICK resent : resent = call[c].resent \union {k}
  OBVIOUS
<1>3. call' = [call EXCEPT ![c] = [call[c] EXCEPT !.resent = resent]]
  BY <1>2 DEF SendAgain
<1>4. resent \in SUBSET Key /\ call[c].resent \subseteq resent /\ resent # {}
  BY <1>1, <1>2 DEF Calls
<1>5. /\ call'[c] \in Calls /\ call'[c].pc = At(c) /\ call'[c].resent = resent
      /\ call'[c].op = Op(c) /\ call'[c].key = Target(c) /\ call'[c].expect = call[c].expect
      /\ call'[c].before = call[c].before
      /\ call'[c].todo = call[c].todo /\ call'[c].seen = call[c].seen
      /\ call'[c].outcome = call[c].outcome /\ call'[c].answer = call[c].answer
  BY <1>1, <1>3, <1>4 DEF Types, Calls, Op, Target, At
<1>6. call' \in [Call -> Calls] /\ \A d \in Call \ {c} : call'[d] = call[d]
  BY <1>1, <1>3, <1>5 DEF Types
<1>7. Alone(c)
  BY <1>4, <1>5, <1>6 DEF Alone
<1>8. Puts(c) => resent \subseteq {Target(c)}
  BY <1>1, <1>2 DEF Proper, Puts
<1>9. Proper(c)'
  BY <1>1, <1>5, <1>8 DEF Proper, Puts, Op, Target, At, setup, ObjectApi
<1>10. ~Fresh(c)'
  BY <1>4, <1>5 DEF Fresh, At
<1>11. Op(c) # "list" /\ call[c].outcome = Pending /\ call[c].answer \in {Pending, Raised}
  BY <1>1 DEF Proper, Putting, Appending
<1>12. Claimed(c)' /\ ListForm(c)
  BY <1>5, <1>11, ValuesAssumption DEF Claimed, ListForm
<1>13. Winner(c)' => Winner(c) \/ Wrote(c) \/ Retypable(c)
  <2>1. Conditional(c) => Puts(c)
    BY <1>1 DEF Conditional, Proper, Puts
  <2>2. Conditional(c)' => Conditional(c)
    BY <1>5 DEF Conditional
  <2>3. QED
    BY <1>10, <2>1, <2>2 DEF Winner
<1>14. Locking(c)' /\ call'[c].pc \notin Locked
  BY <1>5 DEF Locking, Locked, At
<1>15. QED
  BY <1>7, <1>9, <1>10, <1>12, <1>13, <1>14 DEF CallForm

\* A step that leaves objects, locks and blob types alone, between labels that
\* are not under a lock.
LEMMA QuietEffect ==
  ASSUME TypeInv, NEW c \in Call, UNCHANGED <<setup, object, appendBlobs, holder>>,
         Alone(c), CallForm(c), Locking(c)',
         At(c) \in Locked <=> call'[c].pc \in Locked
  PROVE  Effect(c)
<1>1. Types
  BY DEF TypeInv
<1>2. Blobs
  BY <1>1 DEF Blobs, Types
<1>3. HolderForm(c) /\ Considerate(c) /\ ObjectForm(c)
  BY DEF HolderForm, Considerate, ObjectForm
<1>4. QED
  BY <1>2, <1>3 DEF Effect

\* A read, by a call that is at no lock.
LEMMA ReadEffect ==
  ASSUME TypeInv, NEW c \in Call, NEW content \in Content, AfterGet(c, content),
         At(c) \in {"get", "pinned", "read"}, UNCHANGED <<setup, object, appendBlobs, holder>>
  PROVE  Effect(c)
<1>1. Types /\ Proper(c)
  BY DEF TypeInv
<1>2. Op(c) \in {"get", "load", "append"}
  BY <1>1 DEF Proper
<1>3. CASE Op(c) = "append" /\ Gone(c, "put")
  <2>1. /\ call'[c].pc = "put" /\ call'[c].outcome = call[c].outcome
        /\ call'[c].answer = call[c].answer
        /\ call'[c].op = Op(c) /\ call'[c].key = Target(c) /\ call'[c].expect = call[c].expect
    BY <1>3 DEF Gone, Alone
  <2>2. ObjectApi(c)
    BY <1>1, <1>3 DEF Proper
  <2>3. Proper(c)'
    BY <1>1, <1>3, <2>1, <2>2 DEF Proper, Op, Target, At, Putting, Appending, Locked, setup, ObjectApi
  <2>4. ~Fresh(c)'
    BY <1>3, <2>1 DEF Fresh, At, Op
  <2>5. Locking(c)'
    BY <2>1 DEF Locking, At, Locked
  <2>6. "put" \in Labels
    BY DEF Labels, Putting
  <2>7. Alone(c) /\ CallForm(c)
    BY <1>3, <2>3, <2>4, <2>6, GoneForm
  <2>8. QED
    BY <2>1, <2>5, <2>7, QuietEffect DEF Locked
<1>4. CASE Op(c) # "append" /\ \E result \in Outcomes : Ended(c, result)
  <2>1. PICK result \in Outcomes : Ended(c, result)
    BY <1>4
  <2>2. Op(c) \notin {"put", "create", "swap", "list"}
    BY <1>2
  <2>3. /\ Alone(c) /\ CallForm(c) /\ Locking(c)' /\ call'[c].pc \notin Locked
    BY <2>1, <2>2, EndedForm DEF Puts
  <2>4. QED
    BY <2>3, QuietEffect DEF Locked
<1>5. QED
  BY <1>1, <1>3, <1>4, AfterGetGoes

\* An append that lost its race reads again.
LEMMA RetryForm ==
  ASSUME TypeInv, NEW c \in Call, UNCHANGED setup, Op(c) = "append", ObjectApi(c),
         At(c) \notin {"idle", "reply", "over"}, Gone(c, "get")
  PROVE  Alone(c) /\ CallForm(c) /\ Locking(c)' /\ call'[c].pc \notin Locked
<1>1. Types /\ Proper(c)
  BY DEF TypeInv
<1>2. /\ call'[c].pc = "get" /\ call'[c].outcome = call[c].outcome
      /\ call'[c].answer = call[c].answer
      /\ call'[c].op = Op(c) /\ call'[c].key = Target(c) /\ call'[c].expect = call[c].expect
  BY DEF Gone, Alone
<1>3. Proper(c)'
  BY <1>1, <1>2 DEF Proper, Op, Target, At, Putting, Appending, Locked, setup, ObjectApi
<1>4. ~Fresh(c)' /\ Locking(c)'
  BY <1>2 DEF Fresh, At, Op, Locking, Locked
<1>5. "get" \in Labels
  BY DEF Labels
<1>6. Alone(c) /\ CallForm(c)
  BY <1>3, <1>4, <1>5, GoneForm
<1>7. QED
  BY <1>2, <1>4, <1>6 DEF Locked

\* A write that was answered.
LEMMA AnswerForm ==
  ASSUME TypeInv, NEW c \in Call, NEW done \in BOOLEAN, AfterPut(c, done), UNCHANGED setup,
         At(c) \notin {"idle", "reply", "over", "list", "sweep"},
         Op(c) = "append" => ObjectApi(c),
         Puts(c) /\ done => At(c) = "replaced" \/ (~Fresh(c)' => Wrote(c))
  PROVE  /\ Alone(c) /\ CallForm(c) /\ Locking(c)' /\ call'[c].pc \notin Locked /\ ~Fresh(c)'
<1>1. Types /\ Proper(c)
  BY DEF TypeInv
<1>2. CASE Op(c) = "append" /\ ~done /\ Gone(c, "get")
  <2>1. Alone(c) /\ CallForm(c) /\ Locking(c)' /\ call'[c].pc \notin Locked
    BY <1>2, RetryForm
  <2>2. ~Fresh(c)'
    BY <1>2 DEF Fresh, Gone, Alone, At, Op
  <2>3. QED
    BY <2>1, <2>2
<1>3. CASE Ended(c, IF done THEN Written ELSE Refused)
  <2>1. PICK result : result = IF done THEN Written ELSE Refused
    OBVIOUS
  <2>2. Ended(c, result) /\ (result = Written => done)
    BY <1>3, <2>1, ValuesAssumption
  <2>3. ~Fresh(c)'
    BY <2>2 DEF Ended, Fresh, At
  <2>4. Op(c) # "list"
    <3>1. At(c) \in Labels
      BY <1>1 DEF Types, Calls, At
    <3>2. QED
      BY <1>1, <3>1 DEF Proper, Labels, Putting, Appending
  <2>5. Puts(c) /\ result = Written => Wrote(c) \/ At(c) = "replaced"
    BY <2>2, <2>3
  <2>6. QED
    BY <2>2, <2>3, <2>4, <2>5, EndedForm
<1>4. QED
  BY <1>1, <1>2, <1>3, AfterPutGoes

(***************************************************************************)
(* Each action has the effect of a step                                    *)
(***************************************************************************)
LEMMA NewData ==
  ASSUME TypeInv, NEW c \in Call
  PROVE  /\ New(c) \in Seq(Byte) /\ New(c) # Absent
         /\ Op(c) # "append" => New(c) = Data(c)
         /\ Op(c) = "append" /\ call[c].read = Absent => New(c) = Data(c)
         /\ Op(c) = "append" /\ call[c].read # Absent =>
               call[c].read \in Seq(Byte) /\ New(c) = call[c].read \o Data(c)
<1>1. Data(c) \in Seq(Byte) /\ Data(c) # <<>>
  BY ConstantFacts, DataOf
<1>2. call[c].read \in Content
  BY DEF TypeInv, Types, Calls
<1>3. call[c].read # Absent => call[c].read \o Data(c) \in Seq(Byte)
  BY <1>1, <1>2, Appended DEF Content
<1>4. QED
  BY <1>1, <1>2, <1>3, ValuesAssumption DEF New, Content

\* The put of an append finds what was read.
LEMMA AppendMeets ==
  ASSUME TypeInv, NEW c \in Call, Op(c) = "append", Meets(c)
  PROVE  call[c].read = object[Doc]
<1>1. call[c].read \in Content /\ Target(c) = Doc
  BY DEF TypeInv, Types, Calls, Proper
<1>2. QED
  BY <1>1, ValuesAssumption DEF Meets, Expected, Content

\* An accepted write is new data, or an append.
LEMMA StoreForm ==
  ASSUME TypeInv, NEW c \in Call, Meets(c), Store(c, New(c)),
         Op(c) \in {"put", "create", "swap", "append"},
         Puts(c) => Unsettled(c) /\ ~Fresh(c)'
  PROVE  /\ ObjectForm(c) /\ object' \in [Key -> Content] /\ object'[Target(c)] # Absent
         /\ \A k \in Key \ {Target(c)} : object'[k] = object[k]
         /\ Puts(c) => Wrote(c)
<1>1. Types /\ Proper(c)
  BY DEF TypeInv
<1>2. Target(c) \in Key
  BY <1>1, ConstantFacts DEF Proper
<1>3. object' = [object EXCEPT ![Target(c)] = New(c)]
  BY DEF Store
<1>4. New(c) \in Content /\ New(c) # Absent
  BY NewData DEF Content
<1>5. /\ object' \in [Key -> Content] /\ object'[Target(c)] # Absent
      /\ \A k \in Key \ {Target(c)} : object'[k] = object[k]
  BY <1>1, <1>2, <1>3, <1>4 DEF Types
<1>6. Puts(c) => Wrote(c)
  BY <1>2, <1>3, NewData DEF Puts, Wrote
<1>7. ASSUME Op(c) = "append"
      PROVE  ObjectForm(c)
  <2>1. Target(c) = Doc /\ call[c].read = object[Doc]
    BY <1>1, <1>7, AppendMeets DEF Proper
  <2>2. CASE object[Doc] = Absent
    <3>1. New(c) = Data(c) /\ Data(c) \in Seq(Byte) /\ Data(c)[1] = c
      BY <1>7, <2>1, <2>2, NewData, ConstantFacts, DataOf
    <3>2. Started(c)
      BY <1>3, <1>7, <2>1, <2>2, <3>1 DEF Started
    <3>3. QED
      BY <3>2 DEF ObjectForm
  <2>3. CASE object[Doc] # Absent
    <3>1. New(c) = object[Doc] \o Data(c) /\ Data(c) \in Seq(Byte) \ {<<>>} /\ Data(c)[1] = c
      BY <1>7, <2>1, <2>3, NewData, ConstantFacts, DataOf
    <3>2. Grew(c)
      BY <1>3, <1>7, <2>1, <2>3, <3>1 DEF Grew
    <3>3. QED
      BY <3>2 DEF ObjectForm
  <2>4. QED
    BY <2>2, <2>3
<1>8. QED
  BY <1>5, <1>6, <1>7 DEF Puts, ObjectForm

LEMMA FsPutIfAbsentEffect ==
  ASSUME TypeInv, NEW c \in Call, FsPutIfAbsent(c)
  PROVE  Effect(c)
<1>1. Types /\ Proper(c)
  BY DEF TypeInv
<1>2. /\ provider = "filesystem" /\ At(c) = "create" /\ Op(c) = "create"
      /\ Target(c) \in Number /\ ~namespaced /\ call[c].expect = Absent
  BY <1>1 DEF FsPutIfAbsent, OnFilesystem, Proper
<1>3. UNCHANGED setup /\ UNCHANGED appendBlobs /\ UNCHANGED holder
  BY DEF FsPutIfAbsent
<1>4. appendBlobs = {}
  BY <1>1, <1>2 DEF Types
<1>5. PICK done \in BOOLEAN : /\ AfterPut(c, done)
                              /\ done => Linkable(c) /\ Store(c, Data(c))
                              /\ ~done => UNCHANGED object
  BY DEF FsPutIfAbsent
<1>7. done /\ ~Fresh(c)' => Wrote(c)
  <2>1. SUFFICES ASSUME done, ~Fresh(c)' PROVE Wrote(c)
    OBVIOUS
  <2>2. Meets(c) /\ New(c) = Data(c) /\ Unsettled(c) /\ Target(c) \in Key
    BY <1>2, <1>5, <2>1, NewData, ConstantFacts DEF Meets, Expected, Linkable, Fresh, Unsettled
  <2>3. QED
    BY <1>2, <1>5, <2>1, <2>2 DEF Wrote, Puts, Store
<1>8. /\ Alone(c) /\ CallForm(c) /\ Locking(c)' /\ call'[c].pc \notin Locked /\ ~Fresh(c)'
  BY <1>2, <1>3, <1>5, <1>7, AnswerForm
<1>9. ObjectForm(c)
  BY <1>5, <1>7, <1>8 DEF ObjectForm
<1>10. Considerate(c)
  BY <1>1, <1>2, <1>5 DEF Considerate, Store, Types
<1>11. Blobs
  BY <1>3, <1>4 DEF Blobs
<1>12. HolderForm(c)
  BY <1>2, <1>3, <1>8 DEF HolderForm, Locked
<1>13. QED
  BY <1>3, <1>8, <1>9, <1>10, <1>11, <1>12 DEF Effect

LEMMA FsReadEffect ==
  ASSUME TypeInv, NEW c \in Call, FsRead(c) \/ FsGetObject(c)
  PROVE  Effect(c)
<1>1. Types /\ Proper(c)
  BY DEF TypeInv
<1>2. At(c) \in {"read", "get"} /\ AfterGet(c, object[Target(c)])
      /\ UNCHANGED <<setup, object, appendBlobs, holder>>
  BY DEF FsRead, FsGetObject, OnFilesystem
<1>3. Target(c) \in Key
  BY <1>1, <1>2, ConstantFacts DEF Proper
<1>4. object[Target(c)] \in Content
  BY <1>1, <1>3 DEF Types
<1>5. QED
  BY <1>2, <1>4, ReadEffect

LEMMA FsLockEffect ==
  ASSUME TypeInv, NEW c \in Call, FsLock(c)
  PROVE  Effect(c)
<1>1. Types /\ Proper(c)
  BY DEF TypeInv
<1>2. /\ provider = "filesystem" /\ At(c) \in {"put", "append", "delete"}
      /\ holder[Target(c)] = Nobody /\ holder' = [holder EXCEPT ![Target(c)] = c]
      /\ UNCHANGED setup /\ UNCHANGED object /\ UNCHANGED appendBlobs
  BY DEF FsLock, OnFilesystem, Lockable
<1>3. Target(c) \in Key
  BY <1>1, <1>2, ConstantFacts DEF Proper, Putting, Appending
<1>4. PICK label \in {"check", "open", "unlink"} :
        /\ Goto(c, label)
        /\ label = "check" => At(c) = "put"
        /\ label = "open" => At(c) = "append"
        /\ label = "unlink" => At(c) = "delete"
  <2>1. CASE At(c) = "put"
    BY <2>1 DEF FsLock
  <2>2. CASE At(c) = "append"
    BY <2>2 DEF FsLock
  <2>3. CASE At(c) = "delete"
    BY <2>3 DEF FsLock
  <2>4. QED
    BY <1>2, <2>1, <2>2, <2>3
<1>5. label \in Labels /\ label \in Locked
  BY DEF Labels, Locked, Putting, Appending
<1>6. Gone(c, label)
  BY <1>1, <1>4, <1>5, GotoGoes
<1>7. /\ call'[c].pc = label /\ call'[c].outcome = call[c].outcome
      /\ call'[c].answer = call[c].answer /\ call'[c].todo = call[c].todo /\ call'[c].seen = call[c].seen
      /\ call'[c].op = Op(c) /\ call'[c].key = Target(c) /\ call'[c].expect = call[c].expect
      /\ (Op(c) # "append" => call'[c].resent = call[c].resent)
  BY <1>6 DEF Gone, Alone
<1>8. Proper(c)'
  BY <1>1, <1>2, <1>4, <1>7 DEF Proper, Op, Target, At, Putting, Appending, Locked, setup, ObjectApi
<1>9. Fresh(c)' => Fresh(c)
  BY <1>2, <1>4, <1>7 DEF Fresh, At, Op
<1>10. Locking(c)'
  BY <1>1, <1>2, <1>3, <1>4, <1>7 DEF Locking, At, Target, Types
<1>11. Op(c) # "list"
  BY <1>1, <1>2 DEF Proper, Putting, Appending
<1>12. Alone(c) /\ CallForm(c)
  BY <1>2, <1>4, <1>5, <1>6, <1>8, <1>9, <1>11, GoneForm
<1>13. HolderForm(c)
  BY <1>2, <1>3, <1>5, <1>7 DEF HolderForm, Locked
<1>14. Blobs /\ ObjectForm(c) /\ Considerate(c)
  BY <1>1, <1>2 DEF Blobs, ObjectForm, Considerate, Types
<1>15. QED
  BY <1>2, <1>10, <1>12, <1>13, <1>14 DEF Effect

\* A call releases the lock on its key and no other.
LEMMA OwnLock ==
  ASSUME TypeInv, NEW c \in Call, At(c) \in Locked
  PROVE  /\ Target(c) \in Key /\ holder[Target(c)] = c
         /\ [holder EXCEPT ![Target(c)] = Nobody] = [k \in Key |-> IF holder[k] = c THEN Nobody ELSE holder[k]]
<1>1. Types /\ Proper(c) /\ Locking(c) /\ \A k \in Key : LockFree(k)
  BY DEF TypeInv
<1>2. Op(c) \in {"put", "create", "swap", "append", "delete"}
  BY <1>1 DEF Proper, Locked, Putting, Appending
<1>3. Target(c) \in Key
  BY <1>1, <1>2, ConstantFacts DEF Proper
<1>4. holder[Target(c)] = c
  BY <1>1 DEF Locking
<1>5. \A k \in Key : holder[k] = c => k = Target(c)
  BY <1>1, ConstantFacts DEF LockFree
<1>6. QED
  BY <1>1, <1>3, <1>4, <1>5 DEF Types

LEMMA FsUnlockEffect ==
  ASSUME TypeInv, NEW c \in Call, FsUnlock(c)
  PROVE  Effect(c)
<1>1. Types /\ Proper(c)
  BY DEF TypeInv
<1>2. /\ provider = "filesystem" /\ At(c) \in {"refused", "replaced", "appended", "unlinked"}
      /\ UNCHANGED setup /\ UNCHANGED object /\ UNCHANGED appendBlobs
      /\ holder' = [holder EXCEPT ![Target(c)] = Nobody]
  BY DEF FsUnlock, OnFilesystem, Unlocked
<1>3. PICK done \in BOOLEAN : AfterPut(c, done) /\ (done <=> At(c) # "refused")
  BY DEF FsUnlock
<1>4. Puts(c) /\ done => At(c) = "replaced"
  BY <1>1, <1>2, <1>3 DEF Proper, Puts, Appending
<1>5. Op(c) = "append" => ObjectApi(c)
  BY <1>1 DEF Proper, ObjectApi
<1>6. /\ Alone(c) /\ CallForm(c) /\ Locking(c)' /\ call'[c].pc \notin Locked
  BY <1>2, <1>3, <1>4, <1>5, AnswerForm
<1>7. At(c) \in Locked
  BY <1>2 DEF Locked
<1>8. HolderForm(c)
  BY <1>2, <1>6, <1>7, OwnLock DEF HolderForm
<1>9. Blobs /\ ObjectForm(c) /\ Considerate(c)
  BY <1>1, <1>2 DEF Blobs, ObjectForm, Considerate, Types
<1>10. QED
  BY <1>2, <1>6, <1>8, <1>9 DEF Effect

\* A step under the lock, to where the lock is still held.
LEMMA UnderLock ==
  ASSUME TypeInv, NEW c \in Call, At(c) \in Locked, NEW label \in Locked, Goto(c, label),
         UNCHANGED setup, UNCHANGED appendBlobs, UNCHANGED holder,
         label \in Putting => At(c) \in Putting,
         label \in Appending => Op(c) = "append",
         label \in {"unlink", "unlinked"} => Op(c) = "delete",
         label \in {"check", "replace"} => At(c) = "check",
         label = "replaced" /\ Puts(c) /\ ~Fresh(c)' => Wrote(c),
         label = "replace" => Meets(c) /\ UNCHANGED object,
         label \in {"write", "half"} => object'[Target(c)] # Absent,
         ~Fresh(c)' => ObjectForm(c), Fresh(c)' => UNCHANGED object,
         \A k \in Key \ {Target(c)} : object'[k] = object[k]
  PROVE  Effect(c)
<1>1. Types /\ Proper(c)
  BY DEF TypeInv
<1>2. /\ Target(c) \in Key /\ holder[Target(c)] = c /\ provider = "filesystem"
      /\ Op(c) \in {"put", "create", "swap", "append", "delete"}
  BY <1>1, OwnLock DEF Proper, Locked, Putting, Appending
<1>3. label \in Labels
  BY DEF Labels, Locked, Putting, Appending
<1>4. Gone(c, label) /\ call'[c].read = call[c].read
  BY <1>1, <1>3, GotoGoes
<1>5. /\ call'[c].pc = label /\ call'[c].outcome = call[c].outcome
      /\ call'[c].answer = call[c].answer /\ call'[c].todo = call[c].todo /\ call'[c].seen = call[c].seen
      /\ call'[c].op = Op(c) /\ call'[c].key = Target(c) /\ call'[c].expect = call[c].expect
      /\ (Op(c) # "append" => call'[c].resent = call[c].resent)
  BY <1>4 DEF Gone, Alone
<1>6. Proper(c)'
  <2>1. /\ Op(c)' = Op(c) /\ Target(c)' = Target(c) /\ At(c)' = label
        /\ ObjectApi(c)' = ObjectApi(c) /\ namespaced' = namespaced /\ provider' = provider
    BY <1>5 DEF Op, Target, At, ObjectApi, setup
  <2>2. label \notin {"idle", "reply", "over", "create", "get", "pinned", "read", "delete",
                      "list", "sweep", "retype", "recreate", "createblob"}
    BY DEF Locked
  <2>3. At(c) \notin {"idle", "reply", "over"}
    BY DEF Locked
  <2>4. /\ Op(c) # "none" /\ call[c].outcome = Pending /\ call[c].answer \in {Pending, Raised}
        /\ label \in Putting => Op(c) \in {"put", "create", "swap", "append"} /\ ObjectApi(c)
    BY <1>1, <2>3 DEF Proper
  <2>5. QED
    BY <1>1, <1>2, <1>5, <2>1, <2>2, <2>4 DEF Proper
<1>7. Fresh(c)' => Fresh(c)
  BY <1>5 DEF Fresh, At, Op, Locked
<1>8. label = "replaced" /\ Puts(c) => Wrote(c)
  BY <1>5 DEF Fresh, At, Op
<1>9. Alone(c) /\ CallForm(c)
  BY <1>2, <1>3, <1>4, <1>6, <1>7, <1>8, GoneForm DEF Locked
<1>10. Locking(c)'
  <2>1. holder'[Target(c)] = c
    BY <1>2
  <2>2. label = "replace" => Meets(c)'
    BY <1>4, <1>5 DEF Meets, Expected, Op, Target
  <2>3. QED
    BY <1>5, <2>1, <2>2 DEF Locking, At, Target
<1>11. ObjectForm(c)
  BY DEF ObjectForm
<1>12. HolderForm(c) /\ Considerate(c)
  BY <1>2, <1>5 DEF HolderForm, Considerate
<1>13. Blobs
  BY <1>1, <1>2 DEF Blobs, Types
<1>14. QED
  BY <1>9, <1>10, <1>11, <1>12, <1>13 DEF Effect

LEMMA FsCheckEffect ==
  ASSUME TypeInv, NEW c \in Call, FsCheck(c)
  PROVE  Effect(c)
<1>1. /\ provider = "filesystem" /\ At(c) = "check" /\ UNCHANGED <<setup, object, appendBlobs, holder>>
  BY DEF FsCheck, OnFilesystem
<1>2. PICK label \in {"replace", "refused"} : Goto(c, label) /\ (label = "replace" => Meets(c))
  BY DEF FsCheck
<1>3. At(c) \in Locked /\ At(c) \in Putting /\ label \in Locked /\ label \notin Appending
  BY <1>1 DEF Locked, Putting, Appending
<1>4. ObjectForm(c) /\ \A k \in Key \ {Target(c)} : object'[k] = object[k]
  BY <1>1 DEF ObjectForm
<1>5. QED
  BY <1>1, <1>2, <1>3, <1>4, UnderLock

LEMMA FsReplaceEffect ==
  ASSUME TypeInv, NEW c \in Call, FsReplace(c)
  PROVE  Effect(c)
<1>1. /\ provider = "filesystem" /\ At(c) = "replace" /\ Store(c, New(c)) /\ Goto(c, "replaced")
      /\ UNCHANGED setup /\ UNCHANGED appendBlobs /\ UNCHANGED holder
  BY DEF FsReplace, OnFilesystem
<1>2. /\ At(c) \in Locked /\ At(c) \in Putting
      /\ "replaced" \in Locked /\ "replaced" \notin Appending /\ "replaced" \in Labels
  BY <1>1 DEF Locked, Putting, Appending, Labels
<1>3. Op(c) \in {"put", "create", "swap", "append"} /\ Meets(c) /\ Types
  BY <1>1, <1>2 DEF TypeInv, Proper, Locking
<1>4. ~Fresh(c)'
  <2>1. call'[c].pc = "replaced"
    BY <1>1, <1>2, <1>3, GotoGoes DEF Gone
  <2>2. QED
    BY <2>1 DEF Fresh, At
<1>5. Puts(c) => Unsettled(c)
  BY <1>1 DEF Puts, Fresh, Unsettled
<1>6. /\ ObjectForm(c) /\ \A k \in Key \ {Target(c)} : object'[k] = object[k]
      /\ Puts(c) => Wrote(c)
  BY <1>1, <1>3, <1>4, <1>5, StoreForm
<1>7. QED
  BY <1>1, <1>2, <1>3, <1>4, <1>6, UnderLock

\* A step of an append under the lock leaves its call neither fresh nor won.
LEMMA FsOpenEffect ==
  ASSUME TypeInv, NEW c \in Call, FsOpen(c)
  PROVE  Effect(c)
<1>1. /\ provider = "filesystem" /\ At(c) = "open" /\ Goto(c, "write")
      /\ Store(c, IF object[Target(c)] = Absent THEN <<>> ELSE object[Target(c)])
      /\ UNCHANGED setup /\ UNCHANGED appendBlobs /\ UNCHANGED holder
  BY DEF FsOpen, OnFilesystem
<1>2. /\ At(c) \in Locked /\ At(c) \in Appending
      /\ "write" \in Locked /\ "write" \notin Putting
  BY <1>1 DEF Locked, Putting, Appending
<1>3. Types /\ Op(c) = "append" /\ Target(c) = Doc /\ Doc \in Key
  BY <1>1, <1>2, ConstantFacts DEF TypeInv, Proper
<1>4. /\ \A k \in Key \ {Target(c)} : object'[k] = object[k]
      /\ object'[Target(c)] = IF object[Doc] = Absent THEN <<>> ELSE object[Doc]
  BY <1>1, <1>3 DEF Store, Types
<1>5. object'[Target(c)] # Absent
  BY <1>3, <1>4, ValuesAssumption, EmptySeq
<1>6. ObjectForm(c)
  <2>1. CASE object[Doc] = Absent
    <3>1. object' = [object EXCEPT ![Doc] = <<>>] /\ <<>> \in Seq(Byte)
      BY <1>1, <1>3, <2>1 DEF Store
    <3>2. Started(c)
      BY <1>3, <2>1, <3>1 DEF Started
    <3>3. QED
      BY <3>2 DEF ObjectForm
  <2>2. CASE object[Doc] # Absent
    <3>1. object' = object
      BY <1>1, <1>3, <2>2 DEF Store, Types
    <3>2. QED
      BY <3>1 DEF ObjectForm
  <2>3. QED
    BY <2>1, <2>2
<1>7. ~Fresh(c)'
  <2>1. call'[c].op = "append" /\ call'[c].pc = "write"
    BY <1>1, <1>3, GotoGoes DEF Gone, Alone, Labels, Appending
  <2>2. QED
    BY <2>1 DEF Fresh, At, Op
<1>8. QED
  BY <1>1, <1>2, <1>3, <1>4, <1>5, <1>6, <1>7, UnderLock

LEMMA FsWriteEffect ==
  ASSUME TypeInv, NEW c \in Call, FsWrite(c)
  PROVE  Effect(c)
<1>1. /\ provider = "filesystem" /\ At(c) \in {"write", "half"}
      /\ UNCHANGED setup /\ UNCHANGED appendBlobs /\ UNCHANGED holder
  BY DEF FsWrite, OnFilesystem
<1>2. /\ At(c) \in Locked /\ At(c) \in Appending
      /\ {"half", "appended"} \subseteq Locked \cap Appending
      /\ "half" \notin Putting /\ "appended" \notin Putting
  BY <1>1 DEF Locked, Putting, Appending
<1>3. /\ Types /\ Op(c) = "append" /\ Target(c) = Doc /\ Doc \in Key /\ object[Doc] # Absent
      /\ object[Doc] \in Seq(Byte)
  BY <1>1, <1>2, ConstantFacts DEF TypeInv, Proper, Types, Content, Locking
<1>4. PICK label \in {"half", "appended"}, s \in Seq(Byte) \ {<<>>} :
        Goto(c, label) /\ s[1] = c /\ object' = [object EXCEPT ![Doc] = object[Doc] \o s]
  <2>1. <<c>> \in Seq(Byte) \ {<<>>} /\ <<c>>[1] = c /\ Append(object[Doc], c) = object[Doc] \o <<c>>
    BY <1>3, ConstantFacts, AppendOne
  <2>2. Data(c) \in Seq(Byte) \ {<<>>} /\ Data(c)[1] = c
    BY ConstantFacts, DataOf
  <2>3. CASE Store(c, Append(object[Target(c)], c)) /\ Goto(c, IF At(c) = "write" THEN "half" ELSE "appended")
    BY <1>3, <2>1, <2>3 DEF Store
  <2>4. CASE Store(c, object[Target(c)] \o Data(c)) /\ Goto(c, "appended")
    BY <1>3, <2>2, <2>4 DEF Store
  <2>5. QED
    BY <2>3, <2>4 DEF FsWrite
<1>5. object[Doc] \o s \in Seq(Byte)
  BY <1>3, Appended
<1>6. /\ \A k \in Key \ {Target(c)} : object'[k] = object[k]
      /\ object'[Target(c)] # Absent
  BY <1>3, <1>4, <1>5, ValuesAssumption DEF Types
<1>7. ObjectForm(c)
  BY <1>3, <1>4 DEF ObjectForm, Grew
<1>8. ~Fresh(c)'
  <2>1. label \in Labels
    BY DEF Labels, Appending
  <2>2. call'[c].op = "append" /\ call'[c].pc \in {"half", "appended"}
    BY <1>3, <1>4, <2>1, GotoGoes DEF Gone, Alone
  <2>3. QED
    BY <2>2 DEF Fresh, At, Op
<1>9. label \in Locked /\ label \notin Putting
  BY <1>2
<1>10. QED
  BY <1>1, <1>2, <1>3, <1>4, <1>6, <1>7, <1>8, <1>9, UnderLock

LEMMA FsUnlinkEffect ==
  ASSUME TypeInv, NEW c \in Call, FsUnlink(c)
  PROVE  Effect(c)
<1>1. /\ provider = "filesystem" /\ At(c) = "unlink" /\ Goto(c, "unlinked") /\ Store(c, Absent)
      /\ UNCHANGED setup /\ UNCHANGED appendBlobs /\ UNCHANGED holder
  BY DEF FsUnlink, OnFilesystem
<1>2. /\ At(c) \in Locked /\ "unlinked" \in Locked /\ "unlinked" \notin Putting
      /\ "unlinked" \notin Appending
  BY <1>1 DEF Locked, Putting, Appending
<1>3. Types /\ Op(c) = "delete" /\ Target(c) = Doc /\ Doc \in Key
  BY <1>1, ConstantFacts DEF TypeInv, Proper
<1>4. \A k \in Key \ {Target(c)} : object'[k] = object[k]
  BY <1>1, <1>3 DEF Store, Types
<1>5. ObjectForm(c)
  BY <1>1, <1>3 DEF ObjectForm, Removed, Store
<1>6. ~Fresh(c)'
  <2>1. call'[c].op = "delete" /\ call'[c].pc = "unlinked"
    BY <1>1, <1>3, GotoGoes DEF Gone, Alone, Labels
  <2>2. QED
    BY <2>1 DEF Fresh, At, Op
<1>7. QED
  BY <1>1, <1>2, <1>3, <1>4, <1>5, <1>6, UnderLock

(***************************************************************************)
(* Listings and deletions of what was listed                               *)
(***************************************************************************)
LEMMA VisitEffect ==
  ASSUME TypeInv, NEW c \in Call, NEW n \in Number, Visit(c, n)
  PROVE  Effect(c)
<1>1. Types /\ Proper(c) /\ call[c] \in Calls
  BY DEF TypeInv, Types
<1>2. At(c) = "list" /\ n \in call[c].todo /\ UNCHANGED <<setup, object, appendBlobs, holder>>
  BY DEF Visit
<1>3. /\ Op(c) \in {"list", "prune"} /\ call[c].outcome = Pending
      /\ call[c].answer \in {Pending, Raised} /\ call[c].expect = Any
  BY <1>1, <1>2 DEF Proper
<1>4. PICK seen : seen = IF object[n] = Absent THEN call[c].seen ELSE call[c].seen \union {n}
  OBVIOUS
<1>5. call' = [call EXCEPT ![c] = [call[c] EXCEPT !.todo = call[c].todo \ {n}, !.seen = seen]]
  BY <1>4 DEF Visit
<1>6. seen \in SUBSET Number /\ call[c].todo \ {n} \in SUBSET Number
  BY <1>1, <1>4 DEF Calls
<1>7. /\ call'[c] \in Calls /\ call'[c].pc = "list"
      /\ call'[c].op = Op(c) /\ call'[c].key = Target(c) /\ call'[c].expect = call[c].expect
      /\ call'[c].before = call[c].before
      /\ call'[c].resent = call[c].resent
      /\ call'[c].todo = call[c].todo \ {n} /\ call'[c].seen = seen
      /\ call'[c].outcome = call[c].outcome /\ call'[c].answer = call[c].answer
  BY <1>1, <1>2, <1>5, <1>6 DEF Types, Calls, Op, Target, At
<1>8. Alone(c)
  BY <1>1, <1>5, <1>7 DEF Types, Alone
<1>9. Proper(c)'
  BY <1>1, <1>2, <1>4, <1>7 DEF Proper, Op, Target, At, Putting, Appending, Locked, setup, ObjectApi
<1>10. /\ ~Fresh(c)' /\ ~Winner(c)' /\ Claimed(c)' /\ Locking(c)' /\ call'[c].pc \notin Locked
       /\ At(c) \notin Locked
  BY <1>2, <1>3, <1>7, ValuesAssumption
     DEF Fresh, At, Op, Winner, Conditional, Claimed, Locking, Locked
<1>11. ListForm(c)
  BY <1>2, <1>4, <1>7 DEF ListForm
<1>12. QED
  BY <1>2, <1>8, <1>9, <1>10, <1>11, QuietEffect DEF CallForm

LEMMA ListedEffect ==
  ASSUME TypeInv, NEW c \in Call, Listed(c)
  PROVE  Effect(c)
<1>1. Types /\ Proper(c) /\ call[c] \in Calls
  BY DEF TypeInv, Types
<1>2. At(c) = "list" /\ call[c].todo = {} /\ UNCHANGED <<setup, object, appendBlobs, holder>>
  BY DEF Listed, LastPage
<1>3. Op(c) \in {"list", "prune"}
  BY <1>1, <1>2 DEF Proper
<1>4. CASE Op(c) = "list"
  <2>1. Decide(c, call[c].seen) /\ call[c].seen \in Outcomes
    BY <1>1, <1>4 DEF Listed, Outcomes, Calls
  <2>2. Ended(c, call[c].seen)
    BY <1>1, <2>1, DecideEnds
  <2>3. /\ Alone(c) /\ CallForm(c) /\ Locking(c)' /\ call'[c].pc \notin Locked
    BY <1>2, <1>4, <2>2, EndedForm DEF Puts
  <2>4. QED
    BY <1>2, <2>3, QuietEffect DEF Locked
<1>5. CASE Op(c) = "prune"
  <2>1. Goto(c, "sweep") /\ "sweep" \in Labels
    BY <1>5 DEF Listed, Labels
  <2>2. Gone(c, "sweep")
    BY <1>1, <2>1, GotoGoes
  <2>3. /\ call'[c].pc = "sweep" /\ call'[c].outcome = call[c].outcome
        /\ call'[c].answer = call[c].answer /\ call'[c].todo = call[c].todo /\ call'[c].seen = call[c].seen
        /\ call'[c].op = Op(c) /\ call'[c].key = Target(c) /\ call'[c].expect = call[c].expect
    BY <2>2 DEF Gone, Alone
  <2>4. Proper(c)'
    BY <1>1, <1>2, <1>5, <2>3 DEF Proper, Op, Target, At, Putting, Appending, Locked, setup, ObjectApi
  <2>5. ~Fresh(c)' /\ Locking(c)' /\ call'[c].pc \notin Locked
    BY <2>3 DEF Fresh, At, Op, Locking, Locked
  <2>6. Alone(c) /\ CallForm(c)
    BY <1>2, <1>5, <2>1, <2>2, <2>4, <2>5, GoneForm
  <2>7. QED
    BY <1>2, <2>5, <2>6, QuietEffect DEF Locked
<1>6. QED
  BY <1>3, <1>4, <1>5

\* One object less to delete, whether it is deleted or not.
LEMMA SweepForm ==
  ASSUME TypeInv, NEW c \in Call, At(c) = "sweep", NEW n \in call[c].seen, UNCHANGED setup,
         NEW left, left = call[c].seen \ {n},
         call' = [call EXCEPT ![c] = [call[c] EXCEPT !.seen = left]]
  PROVE  /\ Alone(c) /\ CallForm(c) /\ Locking(c)' /\ call'[c].pc \notin Locked /\ At(c) \notin Locked
         /\ Op(c) = "prune" /\ n < Target(c) /\ n \in Number
<1>1. Types /\ Proper(c) /\ call[c] \in Calls
  BY DEF TypeInv, Types
<1>2. /\ Op(c) = "prune" /\ call[c].outcome = Pending
      /\ call[c].answer \in {Pending, Raised} /\ call[c].expect = Any
  BY <1>1 DEF Proper
<1>3. left \in SUBSET Number /\ n \in Number
  BY <1>1 DEF Calls
<1>5. /\ call'[c] \in Calls /\ call'[c].pc = "sweep"
      /\ call'[c].op = Op(c) /\ call'[c].key = Target(c) /\ call'[c].expect = call[c].expect
      /\ call'[c].before = call[c].before
      /\ call'[c].resent = call[c].resent
      /\ call'[c].todo = call[c].todo /\ call'[c].seen = left
      /\ call'[c].outcome = call[c].outcome /\ call'[c].answer = call[c].answer
  BY <1>1, <1>3 DEF Types, Calls, Op, Target, At
<1>6. Alone(c)
  BY <1>1, <1>5 DEF Types, Alone
<1>7. Proper(c)'
  BY <1>1, <1>2, <1>3, <1>5 DEF Proper, Op, Target, At, Putting, Appending, Locked, setup, ObjectApi
<1>8. /\ ~Fresh(c)' /\ ~Winner(c)' /\ Claimed(c)' /\ Locking(c)' /\ call'[c].pc \notin Locked
      /\ At(c) \notin Locked /\ ListForm(c)
  BY <1>2, <1>5, ValuesAssumption
     DEF Fresh, At, Op, Winner, Conditional, Claimed, Locking, Locked, ListForm
<1>9. n < Target(c)
  BY <1>1, <1>2 DEF Proper
<1>10. QED
  BY <1>2, <1>3, <1>6, <1>7, <1>8, <1>9 DEF CallForm

LEMMA RemoveEffect ==
  ASSUME TypeInv, NEW c \in Call, NEW n \in Number, Remove(c, n),
         provider = "filesystem" /\ namespaced => holder[n] = Nobody
  PROVE  Effect(c)
<1>1. Types
  BY DEF TypeInv
<1>2. /\ At(c) = "sweep" /\ n \in call[c].seen /\ object' = [object EXCEPT ![n] = Absent]
      /\ call' = [call EXCEPT ![c] = [call[c] EXCEPT !.seen = call[c].seen \ {n}]]
      /\ UNCHANGED setup /\ UNCHANGED appendBlobs /\ UNCHANGED holder
  BY DEF Remove
<1>3. /\ Alone(c) /\ CallForm(c) /\ Locking(c)' /\ call'[c].pc \notin Locked /\ At(c) \notin Locked
      /\ Op(c) = "prune" /\ n < Target(c)
  BY <1>2, SweepForm
<1>4. /\ n \in Key /\ n # Doc /\ Doc \in Key
  BY ConstantFacts
<1>5. ObjectForm(c)
  BY <1>2, <1>3, <1>4 DEF ObjectForm, Removed
<1>6. Blobs
  BY <1>1, <1>2, <1>4 DEF Blobs, Types
<1>7. Considerate(c)
  BY <1>1, <1>2, <1>4 DEF Considerate, Types
<1>8. HolderForm(c)
  BY <1>2, <1>3 DEF HolderForm
<1>9. QED
  BY <1>2, <1>3, <1>5, <1>6, <1>7, <1>8 DEF Effect

LEMMA SweptEffect ==
  ASSUME TypeInv, NEW c \in Call, Swept(c)
  PROVE  Effect(c)
<1>1. Types /\ Proper(c)
  BY DEF TypeInv
<1>2. At(c) = "sweep" /\ Decide(c, Written) /\ UNCHANGED <<setup, object, appendBlobs, holder>>
  BY DEF Swept
<1>3. Op(c) = "prune" /\ Written \in Outcomes
  BY <1>1, <1>2 DEF Proper, Outcomes
<1>4. Ended(c, Written)
  BY <1>1, <1>2, <1>3, DecideEnds
<1>5. Alone(c) /\ CallForm(c) /\ Locking(c)' /\ call'[c].pc \notin Locked
  BY <1>2, <1>3, <1>4, EndedForm DEF Puts
<1>6. QED
  BY <1>2, <1>5, QuietEffect DEF Locked

LEMMA FsEffect ==
  ASSUME TypeInv, NEW c \in Call, FsStep(c)
  PROVE  Effect(c)
<1>1. CASE FsList(c)
  BY <1>1, ListedEffect, VisitEffect DEF FsList
<1>2. CASE FsDeleteBefore(c)
  BY <1>2, SweptEffect, RemoveEffect DEF FsDeleteBefore
<1>3. QED
  BY <1>1, <1>2, FsPutIfAbsentEffect, FsReadEffect, FsLockEffect, FsUnlockEffect, FsCheckEffect,
     FsReplaceEffect, FsOpenEffect, FsWriteEffect, FsUnlinkEffect DEF FsStep

(***************************************************************************)
(* The services                                                            *)
(***************************************************************************)
\* A step of a service knows no locks.
LEMMA CloudEffect ==
  ASSUME TypeInv, NEW c \in Call, provider # "filesystem",
         UNCHANGED setup, UNCHANGED holder, Alone(c), CallForm(c), Locking(c)',
         call'[c].pc \notin Locked, ObjectForm(c), Blobs
  PROVE  Effect(c)
<1>1. At(c) \notin Locked
  BY DEF TypeInv, Proper
<1>2. HolderForm(c) /\ Considerate(c)
  BY <1>1 DEF HolderForm, Considerate
<1>3. QED
  BY <1>2 DEF Effect

\* A deletion of a numbered object, counted or made again.
LEMMA DeletionEffect ==
  ASSUME TypeInv, NEW c \in Call, NEW n \in Number, provider # "filesystem", Deleted(c, n)
  PROVE  Effect(c)
<1>1. Types /\ Proper(c)
  BY DEF TypeInv
<1>2. CASE Remove(c, n)
  BY <1>2, RemoveEffect
<1>3. CASE /\ At(c) = "sweep" /\ n \in call[c].seen
           /\ object' = [object EXCEPT ![n] = Absent] /\ SendAgain(c, n)
           /\ UNCHANGED <<setup, appendBlobs, holder>>
  <2>1. /\ n \in Key /\ n # Doc /\ Doc \in Key
    BY ConstantFacts
  <2>2. Op(c) = "prune" /\ n < Target(c)
    BY <1>1, <1>3 DEF Proper
  <2>3. Alone(c) /\ CallForm(c) /\ Locking(c)' /\ call'[c].pc \notin Locked
    BY <1>3, <2>1, <2>2, AgainForm DEF Puts
  <2>4. ObjectForm(c)
    BY <1>3, <2>1, <2>2 DEF ObjectForm, Removed
  <2>5. Blobs
    BY <1>1, <1>3, <2>1 DEF Blobs, Types
  <2>6. QED
    BY <1>3, <2>3, <2>4, <2>5, CloudEffect
<1>4. QED
  BY <1>2, <1>3 DEF Deleted

\* A write that was stored, whether its sender is told so or makes it again.
LEMMA AcceptedEffect ==
  ASSUME TypeInv, NEW c \in Call, provider # "filesystem", At(c) \in {"put", "create"},
         Accepted(c), UNCHANGED <<setup, appendBlobs, holder>>
  PROVE  Effect(c)
<1>1. Types /\ Proper(c)
  BY DEF TypeInv
<1>2. Op(c) \in {"put", "create", "swap", "append"} /\ (Puts(c) => Unsettled(c))
  BY <1>1 DEF Proper, Putting, Puts, Fresh, Unsettled
<1>3. Op(c) = "append" => ObjectApi(c)
  BY <1>1 DEF Proper, ObjectApi
<1>4. Puts(c) /\ ~Fresh(c)' => Wrote(c)
  BY <1>2, StoreForm DEF Accepted
<1>5. /\ Alone(c) /\ CallForm(c) /\ Locking(c)' /\ call'[c].pc \notin Locked /\ ~Fresh(c)'
  <2>1. CASE AfterPut(c, TRUE)
    BY <1>3, <1>4, <2>1, AnswerForm
  <2>2. CASE SendAgain(c, Target(c))
    <3>1. Target(c) \in Key
      BY <1>1, <1>2, ConstantFacts DEF Proper
    <3>2. QED
      BY <1>4, <2>2, <3>1, AgainForm
  <2>3. QED
    BY <2>1, <2>2 DEF Accepted
<1>6. /\ ObjectForm(c) /\ object' \in [Key -> Content] /\ object'[Target(c)] # Absent
      /\ \A k \in Key \ {Target(c)} : object'[k] = object[k]
  BY <1>2, <1>5, StoreForm DEF Accepted
<1>7. Blobs
  BY <1>1, <1>6, ConstantFacts DEF Blobs, Types
<1>8. QED
  BY <1>5, <1>6, <1>7, CloudEffect

\* A write that was refused.
LEMMA TurnedEffect ==
  ASSUME TypeInv, NEW c \in Call, provider # "filesystem",
         At(c) \in {"put", "create", "retype", "recreate"},
         Turned(c), UNCHANGED <<setup, appendBlobs, holder>>
  PROVE  Effect(c)
<1>1. Types /\ Proper(c) /\ AfterPut(c, FALSE) /\ UNCHANGED object
  BY DEF TypeInv, Turned
<1>2. Op(c) = "append" => ObjectApi(c)
  BY <1>1 DEF Proper, ObjectApi
<1>3. /\ Alone(c) /\ CallForm(c) /\ Locking(c)' /\ call'[c].pc \notin Locked
  BY <1>1, <1>2, AnswerForm
<1>4. ObjectForm(c) /\ Blobs
  BY <1>1 DEF ObjectForm, Blobs, Types
<1>5. QED
  BY <1>3, <1>4, CloudEffect

LEMMA DownloadedEffect ==
  ASSUME TypeInv, NEW c \in Call, At(c) \in {"get", "read"},
         Downloaded(c), UNCHANGED <<setup, appendBlobs, holder>>
  PROVE  Effect(c)
<1>1. Types /\ Proper(c) /\ AfterGet(c, object[Target(c)]) /\ UNCHANGED object
  BY DEF TypeInv, Downloaded
<1>2. Target(c) \in Key
  BY <1>1, ConstantFacts DEF Proper
<1>3. object[Target(c)] \in Content
  BY <1>1, <1>2 DEF Types
<1>4. QED
  BY <1>1, <1>3, ReadEffect

LEMMA DeletedEffect ==
  ASSUME TypeInv, NEW c \in Call, provider # "filesystem", At(c) = "delete",
         DeleteObject(c), UNCHANGED <<setup, holder>>,
         IF provider = "azure" THEN Retyped(c) ELSE UNCHANGED appendBlobs
  PROVE  Effect(c)
<1>1. Types /\ Proper(c) /\ Store(c, Absent)
  BY DEF TypeInv, DeleteObject
<1>2. Op(c) = "delete" /\ Target(c) = Doc /\ Doc \in Key /\ Written \in Outcomes
  BY <1>1, ConstantFacts DEF Proper, Outcomes
<1>3. Decide(c, Written) => Ended(c, Written)
  BY <1>1, <1>2, DecideEnds
<1>4. Alone(c) /\ CallForm(c) /\ Locking(c)' /\ call'[c].pc \notin Locked
  BY <1>2, <1>3, EndedForm, AgainForm DEF Puts, DeleteObject
<1>5. ObjectForm(c)
  BY <1>1, <1>2 DEF Store, Removed, ObjectForm
<1>6. Blobs
  BY <1>1, <1>2 DEF Blobs, Retyped, Types
<1>7. QED
  BY <1>4, <1>5, <1>6, CloudEffect

LEMMA S3Effect ==
  ASSUME TypeInv, NEW c \in Call, S3Step(c)
  PROVE  Effect(c)
<1>1. CASE S3PutIfAbsent(c)
  BY <1>1, AcceptedEffect, TurnedEffect DEF S3PutIfAbsent, On
<1>2. CASE S3Put(c)
  BY <1>2, AcceptedEffect, TurnedEffect DEF S3Put, On
<1>3. CASE S3GetObject(c) \/ S3Get(c)
  BY <1>3, DownloadedEffect DEF S3GetObject, S3Get, On
<1>4. CASE S3Delete(c)
  BY <1>4, DeletedEffect DEF S3Delete, On
<1>5. CASE S3ListKeys(c)
  BY <1>5, ListedEffect, VisitEffect DEF S3ListKeys
<1>6. ASSUME NEW n \in call[c].seen, At(c) = "sweep", provider = "s3",
             call' = [call EXCEPT ![c].seen = @ \ {n}],
             UNCHANGED <<setup, object, appendBlobs, holder>>
      PROVE  Effect(c)
  <2>1. call' = [call EXCEPT ![c] = [call[c] EXCEPT !.seen = call[c].seen \ {n}]]
    BY <1>6
  <2>2. Alone(c) /\ CallForm(c) /\ Locking(c)' /\ call'[c].pc \notin Locked /\ At(c) \notin Locked
    BY <1>6, <2>1, SweepForm
  <2>3. QED
    BY <1>6, <2>2, QuietEffect
<1>7. CASE S3DeleteKeys(c)
  BY <1>6, <1>7, SweptEffect, DeletionEffect DEF S3DeleteKeys, On
<1>8. QED
  BY <1>1, <1>2, <1>3, <1>4, <1>5, <1>7 DEF S3Step

LEMMA GcsGetBlobEffect ==
  ASSUME TypeInv, NEW c \in Call, GcsGetBlob(c)
  PROVE  Effect(c)
<1>1. /\ Types /\ Proper(c) /\ call[c] \in Calls /\ provider = "gcs" /\ At(c) = "get"
      /\ UNCHANGED <<setup, object, appendBlobs, holder>>
  BY DEF TypeInv, Types, GcsGetBlob, On
<1>2. Op(c) \in {"get", "load", "append"} /\ Target(c) \in Key
  BY <1>1, ConstantFacts DEF Proper
<1>3. PICK content \in Content : content = object[Target(c)]
  BY <1>1, <1>2 DEF Types
<1>4. CASE content = Absent
  BY <1>1, <1>3, <1>4, ReadEffect DEF GcsGetBlob, Content
<1>5. CASE content # Absent
  <2>1. call' = [call EXCEPT ![c] = [call[c] EXCEPT !.read = content, !.pc = "pinned"]]
    BY <1>3, <1>5 DEF GcsGetBlob
  <2>2. /\ call'[c] \in Calls /\ call'[c].pc = "pinned"
        /\ call'[c].op = Op(c) /\ call'[c].key = Target(c) /\ call'[c].expect = call[c].expect
        /\ call'[c].before = call[c].before
        /\ call'[c].resent = call[c].resent
        /\ call'[c].todo = call[c].todo /\ call'[c].seen = call[c].seen
        /\ call'[c].outcome = call[c].outcome /\ call'[c].answer = call[c].answer
    BY <1>1, <2>1 DEF Types, Calls, Op, Target, Labels
  <2>3. Gone(c, "pinned")
    BY <1>1, <2>1, <2>2 DEF Gone, Alone, Types
  <2>4. Proper(c)'
    BY <1>1, <1>2, <2>2 DEF Proper, Op, Target, At, Putting, Appending, Locked, setup, ObjectApi
  <2>5. ~Fresh(c)' /\ Locking(c)'
    BY <2>2 DEF Fresh, At, Op, Locking, Locked
  <2>6. "pinned" \in Labels
    BY DEF Labels
  <2>7. Alone(c) /\ CallForm(c)
    BY <1>1, <1>2, <2>3, <2>4, <2>5, <2>6, GoneForm
  <2>8. QED
    BY <1>1, <2>2, <2>5, <2>7, QuietEffect DEF Locked
<1>6. QED
  BY <1>4, <1>5

LEMMA GcsEffect ==
  ASSUME TypeInv, NEW c \in Call, GcsStep(c)
  PROVE  Effect(c)
<1>1. CASE GcsPutIfAbsent(c) \/ GcsPut(c)
  BY <1>1, AcceptedEffect, TurnedEffect DEF GcsPutIfAbsent, GcsPut, On
<1>2. CASE GcsGetObject(c)
  BY <1>2, DownloadedEffect DEF GcsGetObject, On
<1>3. CASE GcsDownload(c)
  <2>1. call[c].read \in Content /\ Absent \in Content
    BY DEF TypeInv, Types, Calls, Content
  <2>2. PICK content \in Content : AfterGet(c, content)
    BY <1>3, <2>1 DEF GcsDownload
  <2>3. QED
    BY <1>3, <2>2, ReadEffect DEF GcsDownload, On
<1>4. CASE GcsDelete(c)
  BY <1>4, DeletedEffect DEF GcsDelete, On
<1>5. CASE GcsListKeys(c)
  BY <1>5, ListedEffect, VisitEffect DEF GcsListKeys
<1>6. CASE GcsDeleteKeys(c)
  BY <1>6, SweptEffect, DeletionEffect DEF GcsDeleteKeys, On
<1>7. QED
  BY <1>1, <1>2, <1>3, <1>4, <1>5, <1>6, GcsGetBlobEffect DEF GcsStep

\* An Azure call that goes on to another request.
LEMMA AzureGoes ==
  ASSUME TypeInv, NEW c \in Call, provider = "azure", UNCHANGED setup,
         NEW label \in {"retype", "recreate", "createblob", "append", "get"}, Gone(c, label),
         At(c) \in {"put", "retype", "append", "createblob"},
         label \in {"retype", "recreate"} => At(c) \in {"put", "retype"} /\ Target(c) = Doc,
         label \in {"createblob", "append", "get"} => Op(c) = "append"
  PROVE  Alone(c) /\ CallForm(c) /\ Locking(c)' /\ call'[c].pc \notin Locked
<1>1. Types /\ Proper(c)
  BY DEF TypeInv
<1>2. /\ call'[c].pc = label /\ call'[c].outcome = call[c].outcome
      /\ call'[c].answer = call[c].answer /\ call'[c].todo = call[c].todo /\ call'[c].seen = call[c].seen
      /\ call'[c].op = Op(c) /\ call'[c].key = Target(c) /\ call'[c].expect = call[c].expect
      /\ (Op(c) # "append" => call'[c].resent = call[c].resent)
  BY DEF Gone, Alone
<1>3. Op(c) \in {"put", "create", "swap", "append"}
  BY <1>1 DEF Proper, Putting, Appending
<1>4. Op(c) = "append" => Target(c) = Doc
  BY <1>1 DEF Proper
<1>5. Proper(c)'
  BY <1>1, <1>2, <1>3, <1>4 DEF Proper, Op, Target, At, Putting, Appending, Locked, setup, ObjectApi
<1>6. (Fresh(c)' => Fresh(c)) /\ Locking(c)' /\ label \notin Locked
  BY <1>2, <1>3 DEF Fresh, At, Op, Locking, Locked
<1>7. label \in Labels
  BY DEF Labels, Putting, Appending
<1>8. Alone(c) /\ CallForm(c)
  BY <1>3, <1>5, <1>6, <1>7, GoneForm
<1>9. QED
  BY <1>2, <1>6, <1>8

LEMMA AzurePutEffect ==
  ASSUME TypeInv, NEW c \in Call, AzurePut(c)
  PROVE  Effect(c)
<1>1. /\ Types /\ Proper(c) /\ provider = "azure" /\ At(c) = "put"
      /\ UNCHANGED <<setup, appendBlobs, holder>>
  BY DEF TypeInv, AzurePut, On
<1>2. CASE IsAppendBlob(c) /\ Goto(c, "retype") /\ UNCHANGED object
  <2>1. Target(c) = Doc /\ "retype" \in Labels
    BY <1>1, <1>2 DEF IsAppendBlob, Types, Labels, Putting
  <2>2. Gone(c, "retype")
    BY <1>1, <1>2, <2>1, GotoGoes
  <2>3. Alone(c) /\ CallForm(c) /\ Locking(c)' /\ call'[c].pc \notin Locked
    BY <1>1, <2>1, <2>2, AzureGoes
  <2>4. QED
    BY <1>1, <1>2, <2>3, QuietEffect DEF Locked
<1>3. CASE Accepted(c)
  BY <1>1, <1>3, AcceptedEffect
<1>4. CASE Turned(c)
  BY <1>1, <1>4, TurnedEffect
<1>5. QED
  BY <1>2, <1>3, <1>4 DEF AzurePut

LEMMA AzureRetypeEffect ==
  ASSUME TypeInv, NEW c \in Call, AzureRetype(c)
  PROVE  Effect(c)
<1>1. /\ Types /\ Proper(c) /\ provider = "azure" /\ At(c) = "retype"
      /\ UNCHANGED setup /\ UNCHANGED holder
  BY DEF TypeInv, AzureRetype, On
<1>2. Target(c) = Doc /\ Doc \in Key /\ (Op(c) = "append" => ObjectApi(c))
  BY <1>1, ConstantFacts DEF Proper, ObjectApi
<1>3. CASE Store(c, Absent) /\ Retyped(c) /\ (Goto(c, "recreate") \/ SendAgain(c, Target(c)))
  <2>1. ObjectForm(c)
    BY <1>1, <1>2, <1>3 DEF Store, Removed, ObjectForm
  <2>2. Blobs
    BY <1>1, <1>2, <1>3 DEF Blobs, Retyped, Types
  <2>3. CASE Goto(c, "recreate")
    <3>1. Gone(c, "recreate")
      BY <1>1, <2>3, GotoGoes DEF Labels, Putting
    <3>2. Alone(c) /\ CallForm(c) /\ Locking(c)' /\ call'[c].pc \notin Locked
      BY <1>1, <1>2, <3>1, AzureGoes
    <3>3. QED
      BY <1>1, <2>1, <2>2, <3>2, CloudEffect
  <2>4. CASE SendAgain(c, Target(c))
    <3>1. /\ Alone(c) /\ CallForm(c) /\ Locking(c)' /\ call'[c].pc \notin Locked
      BY <1>1, <1>2, <2>4, AgainForm DEF Retypable
    <3>2. QED
      BY <1>1, <2>1, <2>2, <3>1, CloudEffect
  <2>5. QED
    BY <1>3, <2>3, <2>4
<1>4. CASE Turned(c) /\ UNCHANGED appendBlobs
  BY <1>1, <1>4, TurnedEffect
<1>5. QED
  BY <1>3, <1>4 DEF AzureRetype

LEMMA AzureRecreateEffect ==
  ASSUME TypeInv, NEW c \in Call, AzureRecreate(c)
  PROVE  Effect(c)
<1>1. /\ Types /\ Proper(c) /\ provider = "azure" /\ At(c) = "recreate"
      /\ UNCHANGED setup /\ UNCHANGED holder /\ UNCHANGED appendBlobs
  BY DEF TypeInv, AzureRecreate, On
<1>2. /\ Target(c) = Doc /\ Doc \in Key /\ (Op(c) = "append" => ObjectApi(c))
      /\ Op(c) \in {"put", "create", "swap", "append"} /\ (Puts(c) => Unsettled(c))
  BY <1>1, ConstantFacts DEF Proper, ObjectApi, Putting, Puts, Fresh, Unsettled
<1>3. CASE Expected(c) = Any /\ Decide(c, Raised) /\ UNCHANGED object
  <2>1. Raised \in Outcomes
    BY DEF Outcomes
  <2>2. Ended(c, Raised)
    BY <1>1, <1>3, <2>1, DecideEnds
  <2>3. Alone(c) /\ CallForm(c) /\ Locking(c)' /\ call'[c].pc \notin Locked
    BY <1>1, <1>2, <2>2, EndedForm, ValuesAssumption
  <2>4. QED
    BY <1>1, <1>3, <2>3, QuietEffect DEF Locked
<1>4. ASSUME Store(c, New(c)), AfterPut(c, TRUE) \/ SendAgain(c, Target(c)),
             Expected(c) = Any \/ object[Doc] = Absent
      PROVE  Effect(c)
  <2>1. object' = [object EXCEPT ![Doc] = New(c)] /\ New(c) \in Seq(Byte) /\ New(c) # Absent
    BY <1>2, <1>4, NewData DEF Store
  <2>2. Puts(c) /\ ~Fresh(c)' => Wrote(c)
    BY <1>1, <1>2, <2>1, NewData DEF Puts, Wrote
  <2>3. /\ Alone(c) /\ CallForm(c) /\ Locking(c)' /\ call'[c].pc \notin Locked /\ ~Fresh(c)'
    <3>1. CASE AfterPut(c, TRUE)
      BY <1>1, <1>2, <2>2, <3>1, AnswerForm
    <3>2. CASE SendAgain(c, Target(c))
      BY <1>1, <1>2, <2>2, <3>2, AgainForm
    <3>3. QED
      BY <1>4, <3>1, <3>2
  <2>4. Op(c) = "append" => object[Doc] = Absent
    <3>1. call[c].read \in Content
      BY <1>1 DEF Types, Calls
    <3>2. QED
      BY <1>4, <3>1, ValuesAssumption DEF Expected, Content
  <2>5. ObjectForm(c)
    BY <1>1, <1>2, <2>1, <2>2, <2>3, <2>4 DEF ObjectForm, Started, Puts
  <2>6. Blobs
    BY <1>1, <1>2, <2>1 DEF Blobs, Types
  <2>7. QED
    BY <1>1, <2>3, <2>5, <2>6, CloudEffect
<1>5. CASE Turned(c)
  BY <1>1, <1>5, TurnedEffect
<1>6. QED
  BY <1>2, <1>3, <1>4, <1>5 DEF AzureRecreate, StillVacant

LEMMA AzureAppendBlockEffect ==
  ASSUME TypeInv, NEW c \in Call, AzureAppendBlock(c)
  PROVE  Effect(c)
<1>1. /\ Types /\ Proper(c) /\ call[c] \in Calls /\ provider = "azure" /\ At(c) = "append"
      /\ UNCHANGED <<setup, appendBlobs, holder>>
  BY DEF TypeInv, Types, AzureAppendBlock, On
<1>2. Target(c) = Doc /\ Doc \in Key /\ Op(c) = "append"
  BY <1>1, ConstantFacts DEF Proper, Appending
<1>3. CASE Goto(c, "createblob") /\ UNCHANGED object
  <2>1. Gone(c, "createblob")
    BY <1>1, <1>3, GotoGoes DEF Labels, Appending
  <2>2. Alone(c) /\ CallForm(c) /\ Locking(c)' /\ call'[c].pc \notin Locked
    BY <1>1, <1>2, <2>1, AzureGoes
  <2>3. QED
    BY <1>1, <1>3, <2>2, QuietEffect DEF Locked
<1>4. CASE /\ object[Target(c)] # Absent /\ Store(c, object[Target(c)] \o Data(c))
           /\ Decide(c, Written) \/ SendAgain(c, Target(c))
  <2>1. /\ object[Doc] \in Seq(Byte) /\ Data(c) \in Seq(Byte) \ {<<>>} /\ Data(c)[1] = c
        /\ object' = [object EXCEPT ![Doc] = object[Doc] \o Data(c)]
    BY <1>1, <1>2, <1>4, ConstantFacts, DataOf DEF Store, Types, Content
  <2>2. object[Doc] \o Data(c) \in Seq(Byte)
    BY <2>1, Appended
  <2>3. ObjectForm(c)
    BY <1>2, <1>4, <2>1 DEF ObjectForm, Grew
  <2>4. Blobs
    BY <1>1, <1>2, <2>1, <2>2, ValuesAssumption DEF Blobs, Types
  <2>5. CASE Decide(c, Written)
    <3>1. Ended(c, Written)
      BY <1>1, <2>5, DecideEnds DEF Outcomes
    <3>2. Alone(c) /\ CallForm(c) /\ Locking(c)' /\ call'[c].pc \notin Locked
      BY <1>1, <1>2, <3>1, EndedForm DEF Puts
    <3>3. QED
      BY <1>1, <2>3, <2>4, <3>2, CloudEffect
  <2>6. CASE SendAgain(c, Target(c))
    <3>1. Alone(c) /\ CallForm(c) /\ Locking(c)' /\ call'[c].pc \notin Locked
      BY <1>1, <1>2, <2>6, AgainForm DEF Puts
    <3>2. QED
      BY <1>1, <2>3, <2>4, <3>1, CloudEffect
  <2>7. QED
    BY <1>4, <2>5, <2>6
<1>5. CASE call' = [call EXCEPT ![c].tries = 0, ![c].pc = "get"] /\ UNCHANGED object
  <2>1. call' = [call EXCEPT ![c] = [call[c] EXCEPT !.tries = 0, !.pc = "get"]]
    BY <1>5
  <2>2. /\ call'[c] \in Calls /\ call'[c].pc = "get"
        /\ call'[c].op = Op(c) /\ call'[c].key = Target(c) /\ call'[c].expect = call[c].expect
        /\ call'[c].before = call[c].before
        /\ call'[c].resent = call[c].resent
        /\ call'[c].todo = call[c].todo /\ call'[c].seen = call[c].seen
        /\ call'[c].outcome = call[c].outcome /\ call'[c].answer = call[c].answer
    BY <1>1, <2>1 DEF Types, Calls, Op, Target, Labels
  <2>3. Gone(c, "get")
    BY <1>1, <2>1, <2>2 DEF Gone, Alone, Types
  <2>4. Alone(c) /\ CallForm(c) /\ Locking(c)' /\ call'[c].pc \notin Locked
    BY <1>1, <1>2, <2>3, AzureGoes
  <2>5. QED
    BY <1>1, <1>5, <2>4, QuietEffect DEF Locked
<1>6. QED
  BY <1>3, <1>4, <1>5 DEF AzureAppendBlock

LEMMA AzureCreateAppendBlobEffect ==
  ASSUME TypeInv, NEW c \in Call, AzureCreateAppendBlob(c)
  PROVE  Effect(c)
<1>1. /\ Types /\ Proper(c) /\ call[c] \in Calls /\ provider = "azure" /\ At(c) = "createblob"
      /\ UNCHANGED setup /\ UNCHANGED holder
  BY DEF TypeInv, Types, AzureCreateAppendBlob, On
<1>2. Target(c) = Doc /\ Doc \in Key /\ Op(c) = "append"
  BY <1>1, ConstantFacts DEF Proper, Appending
<1>3. ObjectForm(c) /\ Blobs
  <2>1. CASE object[Doc] = Absent
    <3>1. /\ object' = [object EXCEPT ![Doc] = <<>>] /\ appendBlobs' = appendBlobs \union {Doc}
          /\ <<>> \in Seq(Byte) /\ <<>> # Absent
      BY <1>2, <2>1, ValuesAssumption, EmptySeq DEF AzureCreateAppendBlob, Store
    <3>2. QED
      BY <1>1, <1>2, <2>1, <3>1 DEF ObjectForm, Started, Blobs, Types
  <2>2. CASE object[Doc] # Absent
    BY <1>1, <1>2, <2>2 DEF AzureCreateAppendBlob, ObjectForm, Blobs, Types
  <2>3. QED
    BY <2>1, <2>2
<1>4. Alone(c) /\ CallForm(c) /\ Locking(c)' /\ call'[c].pc \notin Locked
  <2>1. CASE Decide(c, Raised)
    <3>1. Ended(c, Raised)
      BY <1>1, <2>1, DecideEnds DEF Outcomes
    <3>2. QED
      BY <1>1, <1>2, <3>1, EndedForm DEF Puts
  <2>2. CASE call' = [call EXCEPT ![c] = [call[c] EXCEPT !.tries = 1, !.pc = "append"]]
    <3>1. /\ call'[c] \in Calls /\ call'[c].pc = "append"
          /\ call'[c].op = Op(c) /\ call'[c].key = Target(c) /\ call'[c].expect = call[c].expect
          /\ call'[c].before = call[c].before
          /\ call'[c].resent = call[c].resent
          /\ call'[c].todo = call[c].todo /\ call'[c].seen = call[c].seen
          /\ call'[c].outcome = call[c].outcome /\ call'[c].answer = call[c].answer
      BY <1>1, <2>2 DEF Types, Calls, Op, Target, Labels, Appending
    <3>2. Gone(c, "append")
      BY <1>1, <2>2, <3>1 DEF Gone, Alone, Types
    <3>3. QED
      BY <1>1, <1>2, <3>2, AzureGoes
  <2>3. QED
    BY <2>1, <2>2 DEF AzureCreateAppendBlob
<1>5. QED
  BY <1>1, <1>3, <1>4, CloudEffect

LEMMA AzureEffect ==
  ASSUME TypeInv, NEW c \in Call, AzureStep(c)
  PROVE  Effect(c)
<1>1. CASE AzurePutIfAbsent(c)
  BY <1>1, AcceptedEffect, TurnedEffect DEF AzurePutIfAbsent, On
<1>2. CASE AzureGetObject(c) \/ AzureGet(c)
  BY <1>2, DownloadedEffect DEF AzureGetObject, AzureGet, On
<1>3. CASE AzureDelete(c)
  BY <1>3, DeletedEffect DEF AzureDelete, On
<1>4. CASE AzureListKeys(c)
  BY <1>4, ListedEffect, VisitEffect DEF AzureListKeys
<1>5. CASE AzureDeleteKeys(c)
  BY <1>5, SweptEffect, DeletionEffect DEF AzureDeleteKeys, On
<1>6. QED
  BY <1>1, <1>2, <1>3, <1>4, <1>5, AzurePutEffect, AzureRetypeEffect, AzureRecreateEffect,
     AzureAppendBlockEffect, AzureCreateAppendBlobEffect DEF AzureStep

(***************************************************************************)
(* How calls begin and end                                                 *)
(***************************************************************************)
LEMMA ReturnEffect ==
  ASSUME TypeInv, NEW c \in Call, Return(c)
  PROVE  Effect(c)
<1>1. /\ Types /\ Proper(c) /\ call[c] \in Calls /\ At(c) = "reply"
      /\ UNCHANGED <<setup, object, appendBlobs, holder>>
  BY DEF TypeInv, Types, Return
<1>2. PICK answer : answer = IF call[c].answer = Pending THEN call[c].outcome ELSE call[c].answer
  OBVIOUS
<1>3. call' = [call EXCEPT ![c] = [call[c] EXCEPT !.pc = "over", !.answer = answer]]
  BY <1>2 DEF Return
<1>4. answer \in Outcomes
  BY <1>1, <1>2 DEF Calls
<1>5. /\ call'[c] \in Calls /\ call'[c].pc = "over"
      /\ call'[c].op = Op(c) /\ call'[c].key = Target(c) /\ call'[c].expect = call[c].expect
      /\ call'[c].before = call[c].before
      /\ call'[c].resent = call[c].resent
      /\ call'[c].todo = call[c].todo /\ call'[c].seen = call[c].seen
      /\ call'[c].outcome = call[c].outcome /\ call'[c].answer = answer
  BY <1>1, <1>3, <1>4 DEF Types, Calls, Op, Target, Labels
<1>6. Alone(c)
  BY <1>1, <1>3, <1>5 DEF Types, Alone
<1>7. Proper(c)'
  BY <1>1, <1>5 DEF Proper, Op, Target, At, Putting, Appending, Locked, setup, ObjectApi
<1>8. call[c].answer \in {Pending, Raised}
  BY <1>1 DEF Proper
<1>9. Claimed(c)'
  BY <1>2, <1>5, <1>8, ValuesAssumption DEF Claimed
<1>10. /\ ~Fresh(c)' /\ Locking(c)' /\ At(c) \notin Locked /\ call'[c].pc \notin Locked
       /\ ListForm(c)
  BY <1>1, <1>2, <1>5, <1>8 DEF Fresh, At, Locking, Locked, ListForm
<1>11. Winner(c)' => Winner(c)
  BY <1>5 DEF Winner, Conditional, At
<1>12. QED
  BY <1>1, <1>6, <1>7, <1>9, <1>10, <1>11, QuietEffect DEF CallForm

LEMMA FailEffect ==
  ASSUME TypeInv, NEW c \in Call, Fail(c)
  PROVE  Effect(c)
<1>1. /\ Types /\ Proper(c) /\ call[c] \in Calls /\ At(c) \notin {"idle", "over"}
      /\ UNCHANGED setup /\ UNCHANGED object /\ UNCHANGED appendBlobs
      /\ holder' = [k \in Key |-> IF holder[k] = c THEN Nobody ELSE holder[k]]
      /\ call' = [call EXCEPT ![c] = [call[c] EXCEPT !.pc = "over", !.outcome = Raised, !.answer = Raised]]
      /\ Raised \in Outcomes
  BY DEF TypeInv, Types, Fail, Running, Outcomes
<1>2. /\ call'[c] \in Calls /\ call'[c].pc = "over"
      /\ call'[c].op = Op(c) /\ call'[c].key = Target(c) /\ call'[c].expect = call[c].expect
      /\ call'[c].before = call[c].before
      /\ call'[c].resent = call[c].resent
      /\ call'[c].todo = call[c].todo /\ call'[c].seen = call[c].seen
      /\ call'[c].outcome = Raised /\ call'[c].answer = Raised
  BY <1>1 DEF Types, Calls, Op, Target, Labels
<1>3. Alone(c)
  BY <1>1, <1>2 DEF Types, Alone
<1>4. Proper(c)'
  BY <1>1, <1>2 DEF Proper, Op, Target, At, Putting, Appending, Locked, setup, ObjectApi
<1>5. /\ ~Fresh(c)' /\ Locking(c)' /\ call'[c].pc \notin Locked /\ (Winner(c)' => Winner(c))
      /\ Claimed(c)' /\ ListForm(c)
  BY <1>2, ValuesAssumption DEF Fresh, At, Locking, Locked, Winner, Conditional, Claimed, ListForm
<1>6. HolderForm(c) /\ ObjectForm(c) /\ Considerate(c) /\ Blobs
  BY <1>1, <1>5 DEF HolderForm, ObjectForm, Considerate, Blobs, Types
<1>7. QED
  BY <1>1, <1>3, <1>4, <1>5, <1>6 DEF Effect, CallForm

LEMMA CancelEffect ==
  ASSUME TypeInv, NEW c \in Call, Cancel(c)
  PROVE  Effect(c)
<1>1. /\ Types /\ Proper(c) /\ call[c] \in Calls /\ At(c) \notin {"idle", "over"}
      /\ UNCHANGED <<setup, object, appendBlobs, holder>>
      /\ call' = [call EXCEPT ![c] = [call[c] EXCEPT !.answer = Raised]]
      /\ Raised \in Outcomes /\ Locking(c)
  BY DEF TypeInv, Types, Cancel, Running, Outcomes
<1>2. /\ call'[c] \in Calls /\ call'[c].pc = At(c)
      /\ call'[c].op = Op(c) /\ call'[c].key = Target(c) /\ call'[c].expect = call[c].expect
      /\ call'[c].before = call[c].before /\ call'[c].read = call[c].read
      /\ call'[c].resent = call[c].resent
      /\ call'[c].todo = call[c].todo /\ call'[c].seen = call[c].seen
      /\ call'[c].outcome = call[c].outcome /\ call'[c].answer = Raised
  BY <1>1 DEF Types, Calls, Op, Target, At
<1>3. Alone(c)
  BY <1>1, <1>2 DEF Types, Alone
<1>4. Proper(c)'
  <2>1. /\ Op(c)' = Op(c) /\ Target(c)' = Target(c) /\ At(c)' = At(c)
        /\ ObjectApi(c)' = ObjectApi(c) /\ namespaced' = namespaced /\ provider' = provider
    BY <1>1, <1>2 DEF Op, Target, At, ObjectApi, setup
  <2>2. QED
    BY <1>1, <1>2, <2>1 DEF Proper
<1>5. /\ Fresh(c)' => Fresh(c)
      /\ Winner(c)' => Winner(c)
      /\ Claimed(c)' /\ ListForm(c)
  BY <1>2, ValuesAssumption DEF Fresh, At, Op, Winner, Conditional, Claimed, ListForm
<1>6. Locking(c)'
  BY <1>1, <1>2 DEF Locking, At, Target, Meets, Expected, Op
<1>7. QED
  BY <1>1, <1>2, <1>3, <1>4, <1>5, <1>6, QuietEffect DEF CallForm, At

\* A new call.
Begun(c) ==
    /\ At(c) = "idle" /\ UNCHANGED <<setup, object, appendBlobs, holder>>
    /\ call' \in [Call -> Calls] /\ \A d \in Call \ {c} : call'[d] = call[d]
    /\ Proper(c)' /\ call'[c].pc \notin Locked
    /\ call'[c].answer = Pending /\ call'[c].outcome = Pending /\ call'[c].resent = {}
    /\ call'[c].op = "swap" => call'[c].expect = object[Doc] /\ object[Doc] # Absent
    /\ call'[c].op = "list" => /\ call'[c].pc = "list" /\ call'[c].before = [n \in Number |-> object[n]]
                               /\ call'[c].todo = {n \in Number : n > call'[c].key}

LEMMA RequestForm ==
  ASSUME TypeInv, NEW c \in Call, At(c) = "idle",
         UNCHANGED <<setup, object, appendBlobs, holder>>,
         NEW op \in {"create", "put", "swap", "get", "load", "append", "delete", "list", "prune"},
         NEW key \in Nat \union {Doc}, NEW expect \in Content \union {Any}, NEW todo \in SUBSET Number,
         call' = [call EXCEPT ![c] = Request(op, key, expect, todo)],
         op \in {"put", "swap", "append", "delete"} => key = Doc,
         op \in {"create", "get", "load"} => key \in Key,
         op \in {"list", "prune"} => key \in Nat,
         op = "prune" => \A n \in todo : n < key,
         op = "create" => expect = Absent,
         op = "swap" => expect = object[Doc] /\ object[Doc] # Absent,
         op \notin {"create", "swap"} => expect = Any,
         op = "list" => todo = {n \in Number : n > key}
  PROVE  Begun(c)
<1>1. Types
  BY DEF TypeInv
<1>2. PICK pc : pc = First(op, key)
  OBVIOUS
<1>3. /\ op \in {"put", "create", "swap"} => pc = IF key = Doc \/ namespaced THEN "put" ELSE "create"
      /\ op \in {"get", "load"} => pc \in {"get", "read"}
      /\ op = "append" => pc \in {"get", "append"}
      /\ op = "delete" => pc = "delete"
      /\ op \in {"list", "prune"} => pc = "list"
  BY <1>2 DEF First
<1>4. pc \in Labels /\ pc \notin Locked
  BY <1>3 DEF Labels, Locked, Putting, Appending
<1>5. PICK before : before = [n \in Number |-> IF op = "list" THEN object[n] ELSE Absent]
  OBVIOUS
<1>6. before \in [Number -> Content]
  BY <1>1, <1>5, ConstantFacts DEF Types, Content
<1>7. PICK new : new = [op |-> op, key |-> key, expect |-> expect, pc |-> pc, read |-> Absent,
                        todo |-> todo, seen |-> {}, tries |-> 0, resent |-> {}, outcome |-> Pending,
                        answer |-> Pending, before |-> before]
  OBVIOUS
<1>8. call' = [call EXCEPT ![c] = new]
  BY <1>2, <1>5, <1>7 DEF Request
<1>9. new \in Calls
  BY <1>4, <1>6, <1>7 DEF Calls, Outcomes, Content
<1>10. call'[c] = new /\ call' \in [Call -> Calls] /\ \A d \in Call \ {c} : call'[d] = call[d]
  BY <1>1, <1>8, <1>9 DEF Types
<1>11. Proper(c)'
  <2>1. /\ Op(c)' = op /\ Target(c)' = key /\ At(c)' = pc /\ call'[c].expect = expect
        /\ call'[c].todo = todo /\ call'[c].seen = {} /\ call'[c].outcome = Pending
        /\ call'[c].answer = Pending /\ call'[c].resent = {}
        /\ ObjectApi(c)' = (key = Doc \/ namespaced) /\ namespaced' = namespaced
    BY <1>7, <1>10 DEF Op, Target, At, ObjectApi, setup
  <2>2. op = "swap" => expect \in Seq(Byte)
    BY <1>1, ConstantFacts DEF Types, Content
  <2>3. QED
    BY <1>3, <2>1, <2>2 DEF Proper, Putting, Appending, Locked, Key
<1>12. QED
  BY <1>3, <1>4, <1>5, <1>7, <1>10, <1>11 DEF Begun

LEMMA InvokeBegins ==
  ASSUME TypeInv, NEW c \in Call, Invoke(c)
  PROVE  Begun(c)
<1>1. /\ At(c) = "idle" /\ UNCHANGED <<setup, object, appendBlobs, holder>>
      /\ Types /\ Doc \in Key /\ Doc \in Nat \union {Doc}
      /\ Absent \in Content \union {Any} /\ Any \in Content \union {Any} /\ {} \in SUBSET Number
      /\ Last \in Nat
  BY ConstantFacts DEF TypeInv, Invoke, Content
<1>2. CASE call' = [call EXCEPT ![c] = Request("create", Doc, Absent, {})]
  BY <1>1, <1>2, RequestForm
<1>3. ASSUME NEW op \in {"get", "put", "append", "delete"},
             call' = [call EXCEPT ![c] = Request(op, Doc, Any, {})]
      PROVE  Begun(c)
  BY <1>1, <1>3, RequestForm
<1>4. CASE object[Doc] # Absent /\ call' = [call EXCEPT ![c] = Request("swap", Doc, object[Doc], {})]
  <2>1. object[Doc] \in Content \union {Any}
    BY <1>1 DEF Types
  <2>2. QED
    BY <1>1, <1>4, <2>1, RequestForm
<1>5. ASSUME NEW n \in Number, call' = [call EXCEPT ![c] = Request("create", n, Absent, {})]
      PROVE  Begun(c)
  BY <1>1, <1>5, ConstantFacts, RequestForm
<1>6. ASSUME NEW n \in Number, NEW op \in {"get", "load"},
             call' = [call EXCEPT ![c] = Request(op, n, Any, {})]
      PROVE  Begun(c)
  BY <1>1, <1>6, ConstantFacts, RequestForm
<1>7. ASSUME NEW n \in 0..(Last - 1),
             call' = [call EXCEPT ![c] = Request("list", n, Any, (n + 1)..Last)]
      PROVE  Begun(c)
  <2>1. n \in Nat /\ (n + 1)..Last \in SUBSET Number /\ (n + 1)..Last = {m \in Number : m > n}
    BY <1>1 DEF Number
  <2>2. QED
    BY <1>1, <1>7, <2>1, RequestForm
<1>8. ASSUME NEW n \in 2..(Last + 1),
             call' = [call EXCEPT ![c] = Request("prune", n, Any, 1..(n - 1))]
      PROVE  Begun(c)
  <2>1. n \in Nat /\ 1..(n - 1) \in SUBSET Number /\ \A m \in 1..(n - 1) : m < n
    BY <1>1 DEF Number
  <2>2. QED
    BY <1>1, <1>8, <2>1, RequestForm
<1>9. QED
  BY <1>2, <1>3, <1>4, <1>5, <1>6, <1>7, <1>8 DEF Invoke

\* So much for the actions.
LEMMA NextForm ==
  ASSUME TypeInv, Next
  PROVE  UNCHANGED vars \/ \E c \in Call : Effect(c) \/ Begun(c)
  BY FsEffect, S3Effect, GcsEffect, AzureEffect, ReturnEffect, FailEffect, CancelEffect, InvokeBegins
     DEF Next, Step, Terminated

(***************************************************************************)
(* Types, labels and locks                                                 *)
(***************************************************************************)
\* What a step does to the objects, seen key by key.
LEMMA ObjectStep ==
  ASSUME TypeInv, NEW c \in Call, ObjectForm(c)
  PROVE  /\ object' \in [Key -> Content]
         /\ \A n \in Number : object'[n] \in {object[n], Absent} \union {Data(b) : b \in Byte}
<1>1. Types /\ Data(c) \in Content /\ Absent \in Content /\ c \in Byte
      /\ Doc \in Key /\ Doc \notin Number /\ Number \subseteq Key
  BY ConstantFacts, DataOf DEF TypeInv, Content
<1>2. CASE UNCHANGED object
  BY <1>1, <1>2 DEF Types
<1>3. CASE Wrote(c)
  BY <1>1, <1>3 DEF Types, Wrote
<1>4. CASE Grew(c)
  <2>1. PICK s \in Seq(Byte) \ {<<>>} : object' = [object EXCEPT ![Doc] = object[Doc] \o s]
    BY <1>4 DEF Grew
  <2>2. object[Doc] \o s \in Content
    BY <1>1, <1>4, Appended DEF Grew, Types, Content
  <2>3. QED
    BY <1>1, <2>1, <2>2 DEF Types
<1>5. CASE Started(c)
  <2>1. PICK x \in Seq(Byte) : object' = [object EXCEPT ![Doc] = x]
    BY <1>5 DEF Started
  <2>2. QED
    BY <1>1, <2>1 DEF Types, Content
<1>6. CASE Removed(c)
  BY <1>1, <1>6 DEF Removed, Types
<1>7. QED
  BY <1>2, <1>3, <1>4, <1>5, <1>6 DEF ObjectForm

LEMMA StepTypes ==
  ASSUME TypeInv, NEW c \in Call, Effect(c)
  PROVE  Types'
<1>1. Types /\ UNCHANGED setup /\ call' \in [Call -> Calls] /\ Blobs
  BY DEF TypeInv, Effect, Alone
<1>2. /\ object' \in [Key -> Content]
      /\ \A n \in Number : object'[n] \in {Absent} \union {Data(b) : b \in Byte}
  BY <1>1, ObjectStep DEF Types, Effect
<1>3. holder' \in [Key -> Call \union {Nobody}]
  BY <1>1 DEF Types, Effect, HolderForm
<1>4. QED
  BY <1>1, <1>2, <1>3 DEF Types, Blobs, setup

\* Nobody moves the file or the lock of a call that is under its lock.
LEMMA StepLocking ==
  ASSUME TypeInv, NEW c \in Call, Effect(c), NEW d \in Call, d # c
  PROVE  Proper(d)' /\ Locking(d)'
<1>1. Types /\ Proper(d) /\ Locking(d) /\ UNCHANGED setup /\ call'[d] = call[d]
  BY DEF TypeInv, Effect, Alone
<1>2. /\ Op(d)' = Op(d) /\ Target(d)' = Target(d) /\ At(d)' = At(d) /\ ObjectApi(d)' = ObjectApi(d)
      /\ Expected(d)' = Expected(d) /\ namespaced' = namespaced /\ provider' = provider
  BY <1>1 DEF Op, Target, At, ObjectApi, Expected, setup
<1>3. Proper(d)'
  BY <1>1, <1>2 DEF Proper
<1>4. ASSUME At(d) \in Locked
      PROVE  holder'[Target(d)] = d /\ object'[Target(d)] = object[Target(d)]
  <2>1. /\ Target(d) \in Key /\ holder[Target(d)] = d /\ provider = "filesystem"
        /\ d # Nobody /\ Op(d) \in {"put", "create", "swap", "append", "delete"}
    BY <1>1, <1>4, OwnLock, ConstantFacts DEF Proper, Locked, Putting, Appending
  <2>2. holder'[Target(d)] = d
    BY <1>1, <2>1 DEF Effect, HolderForm, Types
  <2>3. ~(~namespaced /\ Target(d) \in Number)
    <3>1. CASE At(d) \in Putting
      BY <1>1, <3>1, ConstantFacts DEF Proper, ObjectApi
    <3>2. CASE At(d) \notin Putting
      BY <1>1, <1>4, <3>2, ConstantFacts DEF Proper, Putting, Appending, Locked
    <3>3. QED
      BY <3>1, <3>2
  <2>4. object'[Target(d)] = object[Target(d)]
    BY <2>1, <2>3 DEF Effect, Considerate
  <2>5. QED
    BY <2>2, <2>4
<1>5. Locking(d)'
  BY <1>1, <1>2, <1>4 DEF Locking, Meets, Locked
<1>6. QED
  BY <1>3, <1>5

LEMMA StepLockFree ==
  ASSUME TypeInv, NEW c \in Call, Effect(c), NEW k \in Key
  PROVE  LockFree(k)'
<1>1. SUFFICES ASSUME holder'[k] # Nobody
               PROVE  call'[holder'[k]].key = k /\ call'[holder'[k]].pc \in Locked
  BY DEF LockFree, Target, At
<1>2. Types /\ LockFree(k) /\ HolderForm(c) /\ Alone(c) /\ holder'[k] \in Call
  BY <1>1, StepTypes DEF TypeInv, Effect, Types
<1>3. CASE holder'[k] # c
  <2>1. holder'[k] = holder[k] /\ call'[holder[k]] = call[holder[k]]
    BY <1>2, <1>3, ConstantFacts DEF HolderForm, Alone, Types
  <2>2. QED
    BY <1>1, <1>2, <2>1 DEF LockFree, Target, At
<1>4. CASE holder'[k] = c
  <2>1. CASE UNCHANGED holder /\ (At(c) \in Locked <=> call'[c].pc \in Locked)
    BY <1>1, <1>2, <1>4, <2>1 DEF LockFree, Target, At, Alone
  <2>2. CASE /\ Target(c) \in Key /\ holder[Target(c)] = Nobody
             /\ At(c) \notin Locked /\ call'[c].pc \in Locked
             /\ holder' = [holder EXCEPT ![Target(c)] = c]
    BY <1>1, <1>2, <1>4, <2>2, ConstantFacts DEF LockFree, Target, At, Alone, Types
  <2>3. CASE /\ call'[c].pc \notin Locked
             /\ holder' = [j \in Key |-> IF holder[j] = c THEN Nobody ELSE holder[j]]
    BY <1>4, <2>3, ConstantFacts
  <2>4. QED
    BY <1>2, <2>1, <2>2, <2>3 DEF HolderForm
<1>5. QED
  BY <1>3, <1>4

LEMMA EffectTypeInv ==
  ASSUME TypeInv, NEW c \in Call, Effect(c)
  PROVE  TypeInv'
<1>1. ASSUME NEW d \in Call PROVE Proper(d)' /\ Locking(d)'
  <2>1. CASE d = c
    BY <2>1 DEF Effect, CallForm
  <2>2. CASE d # c
    BY <2>2, StepLocking
  <2>3. QED
    BY <2>1, <2>2
<1>2. QED
  BY <1>1, StepTypes, StepLockFree DEF TypeInv

LEMMA BegunTypeInv ==
  ASSUME TypeInv, NEW c \in Call, Begun(c)
  PROVE  TypeInv'
<1>1. /\ Types /\ UNCHANGED <<setup, object, appendBlobs, holder>> /\ call' \in [Call -> Calls]
      /\ \A d \in Call \ {c} : call'[d] = call[d]
      /\ At(c) = "idle" /\ call'[c].pc \notin Locked /\ Proper(c)'
  BY DEF TypeInv, Begun
<1>2. Types'
  BY <1>1 DEF Types, setup
<1>3. ASSUME NEW d \in Call PROVE Proper(d)' /\ Locking(d)'
  <2>1. CASE d = c
    BY <1>1, <2>1 DEF Locking, At, Locked
  <2>2. CASE d # c
    <3>1. call'[d] = call[d] /\ Proper(d) /\ Locking(d)
      BY <1>1, <2>2 DEF TypeInv
    <3>2. /\ Op(d)' = Op(d) /\ Target(d)' = Target(d) /\ At(d)' = At(d) /\ ObjectApi(d)' = ObjectApi(d)
          /\ Expected(d)' = Expected(d) /\ namespaced' = namespaced /\ provider' = provider
      BY <1>1, <3>1 DEF Op, Target, At, ObjectApi, Expected, setup
    <3>3. QED
      BY <1>1, <3>1, <3>2 DEF Proper, Locking, Meets
  <2>3. QED
    BY <2>1, <2>2
<1>4. ASSUME NEW k \in Key PROVE LockFree(k)'
  <2>1. LockFree(k) /\ (holder[k] = Nobody \/ holder[k] \in Call)
    BY <1>1 DEF TypeInv, Types
  <2>2. holder[k] # Nobody => holder[k] # c
    BY <1>1, <2>1 DEF LockFree, Locked
  <2>3. QED
    BY <1>1, <2>1, <2>2 DEF LockFree, Target, At
<1>5. QED
  BY <1>2, <1>3, <1>4 DEF TypeInv

LEMMA StepTypeInv ==
  ASSUME TypeInv, [Next]_vars
  PROVE  TypeInv'
<1>1. CASE UNCHANGED vars
  BY <1>1 DEF vars, TypeInv, Types, Proper, Locking, LockFree, Op, At, Target, ObjectApi, Meets, Expected
<1>2. CASE Next
  BY <1>1, <1>2, NextForm, EffectTypeInv, BegunTypeInv
<1>3. QED
  BY <1>1, <1>2

LEMMA InitTypeInv ==
  ASSUME Init
  PROVE  TypeInv
<1>1. /\ call = [c \in Call |-> NoRequest] /\ holder = [k \in Key |-> Nobody]
      /\ provider \in Provider /\ namespaced \in BOOLEAN /\ about \in {"object", "log"}
      /\ object \in [Key -> {Absent, Data(0)}] /\ appendBlobs \in SUBSET {Doc}
      /\ appendBlobs # {} => provider = "azure" /\ object[Doc] # Absent
  BY DEF Init
<1>2. 0 \in Byte /\ Data(0) \in Content /\ Absent \in Content
  BY ConstantFacts, DataOf DEF Byte, Content
<1>3. [n \in Number |-> Absent] \in [Number -> Content]
  BY <1>2
<1>4. NoRequest \in Calls
  BY <1>2, <1>3 DEF NoRequest, Calls, Labels, Outcomes, Content
<1>5. Types
  BY <1>1, <1>2, <1>4, ConstantFacts DEF Types
<1>6. ASSUME NEW c \in Call PROVE Proper(c) /\ Locking(c)
  <2>1. /\ Op(c) = "none" /\ At(c) = "idle" /\ Target(c) = Doc /\ call[c].expect = Any
        /\ call[c].outcome = Absent /\ call[c].answer = Pending
    BY <1>1 DEF NoRequest, Op, At, Target
  <2>2. QED
    BY <2>1 DEF Proper, Locking, Putting, Appending, Locked
<1>7. \A k \in Key : LockFree(k)
  BY <1>1 DEF LockFree
<1>8. QED
  BY <1>5, <1>6, <1>7 DEF TypeInv

(***************************************************************************)
(* One winner                                                              *)
(***************************************************************************)
LEMMA BeyondPut ==
  ASSUME NEW e \in Content, NEW c \in Call, e # Absent /\ e # <<>> => e[1] # c
  PROVE  Beyond(Data(c), e)
  BY ConstantFacts, DataOf DEF Beyond

LEMMA BeyondGrow ==
  ASSUME NEW e \in Content, NEW x \in Seq(Byte), NEW s \in Seq(Byte), s # <<>>,
         x = e \/ Beyond(x, e)
  PROVE  Beyond(x \o s, e)
<1>1. /\ x \o s \in Seq(Byte) /\ x \o s # <<>> /\ Len(x \o s) > Len(x)
      /\ x # <<>> => (x \o s)[1] = x[1]
  BY Appended
<1>2. Len(x \o s) \in Nat /\ Len(x) \in Nat /\ x \o s # Absent
  BY <1>1, LenProperties, ValuesAssumption
<1>3. e # Absent => Len(e) \in Nat
  BY LenProperties DEF Content
<1>4. QED
  BY <1>1, <1>2, <1>3 DEF Beyond

LEMMA BeyondMoves ==
  ASSUME NEW e \in Content
  PROVE  ~Beyond(e, e)
  BY LenProperties DEF Beyond, Content

\* An object that nobody removes is written with new data, extended or made.
LEMMA KeyForm ==
  ASSUME TypeInv, NEW c \in Call, ObjectForm(c), NEW k \in Key, ~Removable(k)
  PROVE  \/ object'[k] = object[k]
         \/ Wrote(c) /\ Target(c) = k /\ Meets(c) /\ object'[k] = Data(c)
         \/ /\ Op(c) = "append" /\ k = Doc /\ object[k] \in Seq(Byte)
            /\ \E s \in Seq(Byte) \ {<<>>} : s[1] = c /\ object'[k] = object[k] \o s
         \/ /\ Op(c) = "append" /\ k = Doc /\ object[k] = Absent
            /\ \E x \in Seq(Byte) : object'[k] = x /\ (x = <<>> \/ x[1] = c)
<1>1. object \in [Key -> Content] /\ Doc \in Key /\ Doc \notin Number
  BY ConstantFacts DEF TypeInv, Types
<1>2. Op(c) \notin {"delete", "prune"} /\ ~(provider = "azure" /\ k = Doc)
  BY DEF Removable
<1>3. CASE UNCHANGED object
  BY <1>3
<1>4. CASE Wrote(c)
  BY <1>1, <1>2, <1>4 DEF Wrote
<1>5. CASE Grew(c)
  <2>1. PICK s \in Seq(Byte) \ {<<>>} : s[1] = c /\ object' = [object EXCEPT ![Doc] = object[Doc] \o s]
    BY <1>5 DEF Grew
  <2>2. Op(c) = "append" /\ object[Doc] \in Seq(Byte)
    BY <1>1, <1>5 DEF Grew, Content
  <2>3. CASE k = Doc
    BY <1>1, <2>1, <2>2, <2>3
  <2>4. CASE k # Doc
    BY <1>1, <2>1, <2>4
  <2>5. QED
    BY <2>3, <2>4
<1>6. CASE Started(c)
  <2>1. PICK x \in Seq(Byte) : /\ object' = [object EXCEPT ![Doc] = x]
                               /\ provider = "azure" \/ x = <<>> \/ x[1] = c
    BY <1>6 DEF Started
  <2>2. QED
    BY <1>1, <1>2, <1>6, <2>1 DEF Started
<1>7. CASE Removed(c)
  BY <1>1, <1>2, <1>7 DEF Removed
<1>8. QED
  BY <1>3, <1>4, <1>5, <1>6, <1>7 DEF ObjectForm

\* What a conditional write expects.
LEMMA ExpectForm ==
  ASSUME TypeInv, NEW d \in Call
  PROVE  /\ Conditional(d) <=> Op(d) \in {"create", "swap"}
         /\ Conditional(d) => Target(d) \in Key /\ call[d].expect \in Content
         /\ Conditional(d) /\ call[d].expect # Absent => Op(d) = "swap"
         /\ Op(d) = "swap" => Target(d) = Doc /\ call[d].expect # Absent
<1>1. Proper(d) /\ Doc \in Key /\ Any \notin Content /\ Absent \notin Seq(Byte) /\ Absent \in Content
  BY ConstantFacts, ValuesAssumption DEF TypeInv, Content
<1>2. QED
  BY <1>1 DEF Proper, Conditional, Content

\* What was old stays old, and what could be removed can be.
LEMMA OldStays ==
  ASSUME NEW c \in Call, Effect(c)
  PROVE  /\ \A d \in Call : Fresh(d)' => Fresh(d)
         /\ \A k \in Key : Removable(k) => Removable(k)'
         /\ \A d \in Call : Removable(Target(d)) => Removable(Target(d))'
<1>1. /\ \A d \in Call : call'[d].op = call[d].op /\ call'[d].key = call[d].key
      /\ \A d \in Call \ {c} : call'[d] = call[d]
      /\ provider' = provider /\ (Fresh(c)' => Fresh(c))
      /\ (Op(c) # "append" => call[c].resent \subseteq call'[c].resent)
  BY DEF Effect, Alone, CallForm, setup, Op, Target
<1>2. \A d \in Call : Fresh(d)' => Fresh(d)
  BY <1>1 DEF Fresh, At, Op
<1>3. \A d \in Call : Op(d) = "put" /\ call[d].resent # {} => call'[d].resent # {}
  BY <1>1 DEF Op
<1>4. ASSUME NEW k, Removable(k) PROVE Removable(k)'
  <2>1. CASE provider = "azure" /\ k = Doc
    BY <1>1, <2>1 DEF Removable
  <2>2. ASSUME NEW d \in Call, Op(d) \in {"delete", "prune"} \/ (Op(d) = "put" /\ call[d].resent # {})
        PROVE  Removable(k)'
    <3>1. Op(d)' = Op(d)
      BY <1>1 DEF Op
    <3>2. Op(d)' \in {"delete", "prune"} \/ (Op(d)' = "put" /\ call'[d].resent # {})
      BY <1>3, <2>2, <3>1
    <3>3. QED
      BY <3>2 DEF Removable
  <2>3. QED
    BY <1>4, <2>1, <2>2 DEF Removable
<1>5. \A d \in Call : Target(d)' = Target(d)
  BY <1>1 DEF Target
<1>6. ASSUME NEW d \in Call, Removable(Target(d)) PROVE Removable(Target(d))'
  <2>1. PICK k : k = Target(d)
    OBVIOUS
  <2>2. Removable(k)' /\ Target(d)' = k
    BY <1>4, <1>5, <1>6, <2>1
  <2>3. QED
    BY <2>2 DEF Removable
<1>7. QED
  BY <1>2, <1>4, <1>6

\* A write that is made again finds what it did itself: an unconditional one
\* writes the same again, a conditional one cannot.
LEMMA FreshWrite ==
  ASSUME TypeInv, WinInv, NEW c \in Call, Wrote(c), ~Removable(Target(c))
  PROVE  Fresh(c)
<1>1. Proper(c) /\ Puts(c) /\ Unsettled(c) /\ Target(c) \in Key /\ Dated(c)
      /\ Meets(c)
  BY DEF TypeInv, WinInv, Wrote, Removable
<1>2. SUFFICES ASSUME call[c].resent # {} PROVE FALSE
  BY <1>1 DEF Unsettled
<1>3. Op(c) # "put"
  BY <1>2 DEF Removable
<1>4. Conditional(c) /\ call[c].expect \in Content
  BY <1>1, <1>3, ExpectForm DEF Puts
<1>5. Beyond(object[Target(c)], call[c].expect)
  BY <1>1, <1>2, <1>4 DEF Dated, Winner
<1>6. call[c].expect = object[Target(c)]
  BY <1>1, <1>4 DEF Meets, Expected, Conditional, Puts
<1>7. QED
  BY <1>4, <1>5, <1>6, BeyondMoves

LEMMA StepOld ==
  ASSUME TypeInv, WinInv, NEW c \in Call, Effect(c), NEW k \in Key, ~Removable(k)
  PROVE  Old(object[k])'
<1>1. SUFFICES ASSUME object'[k] # Absent, object'[k] # <<>>, NEW d \in Call, Fresh(d)'
               PROVE  object'[k][1] # d
  BY DEF Old
<1>2. Fresh(d) /\ ObjectForm(c) /\ Old(object[k])
  BY <1>1, OldStays DEF Effect, WinInv
<1>3. Op(c) = "append" => ~Fresh(c)
  BY DEF TypeInv, Proper, Fresh
<1>4. CASE object'[k] = object[k]
  BY <1>1, <1>2, <1>4 DEF Old
<1>5. ASSUME Wrote(c), Target(c) = k, object'[k] = Data(c) PROVE object'[k][1] # d
  <2>1. Fresh(c)
    BY <1>5, FreshWrite
  <2>2. ~Fresh(c)' /\ d # c
    BY <1>1, <1>5 DEF Wrote
  <2>3. QED
    BY <1>5, <2>2, ConstantFacts, DataOf
<1>6. ASSUME Op(c) = "append", object[k] \in Seq(Byte), NEW s \in Seq(Byte) \ {<<>>}, s[1] = c,
             object'[k] = object[k] \o s
      PROVE  object'[k][1] # d
  <2>1. CASE object[k] = <<>>
    BY <1>2, <1>3, <1>6, <2>1, ConcatEmptySeq
  <2>2. CASE object[k] # <<>>
    BY <1>1, <1>2, <1>6, <2>2, Appended, ValuesAssumption DEF Old
  <2>3. QED
    BY <2>1, <2>2
<1>7. ASSUME Op(c) = "append", NEW x \in Seq(Byte), object'[k] = x, x = <<>> \/ x[1] = c
      PROVE  object'[k][1] # d
  BY <1>1, <1>2, <1>3, <1>7
<1>8. QED
  BY <1>2, <1>4, <1>5, <1>6, <1>7, KeyForm

\* An object that is past what somebody expects stays past it.
LEMMA StepBeyond ==
  ASSUME TypeInv, WinInv, NEW c \in Call, Effect(c), NEW k \in Key, ~Removable(k),
         NEW e \in Content, e # Absent => Old(e),
         object[k] = e \/ Beyond(object[k], e)
  PROVE  /\ Beyond(object[k], e) => Beyond(object'[k], e)
         /\ e # Absent => object'[k] = e \/ Beyond(object'[k], e)
         /\ Wrote(c) /\ Target(c) = k => Beyond(object'[k], e)
<1>1. ObjectForm(c)
  BY DEF Effect
<1>2. Wrote(c) /\ Target(c) = k => Beyond(Data(c), e)
  <2>1. Wrote(c) /\ Target(c) = k => (e # Absent /\ e # <<>> => e[1] # c)
    BY FreshWrite DEF Old
  <2>2. QED
    BY <2>1, BeyondPut
<1>3. Wrote(c) /\ Target(c) = k => object'[k] = Data(c)
  BY DEF TypeInv, Types, Wrote
<1>4. CASE object'[k] = object[k]
  BY <1>2, <1>3, <1>4
<1>5. CASE Wrote(c) /\ Target(c) = k /\ object'[k] = Data(c)
  BY <1>2, <1>5
<1>6. ASSUME Op(c) = "append", object[k] \in Seq(Byte), NEW s \in Seq(Byte) \ {<<>>},
             object'[k] = object[k] \o s
      PROVE  Beyond(object'[k], e)
  BY <1>6, BeyondGrow
<1>7. CASE object[k] = Absent /\ Op(c) = "append"
  BY <1>7 DEF Beyond, Wrote, Puts
<1>8. QED
  BY <1>1, <1>2, <1>3, <1>4, <1>5, <1>6, <1>7, KeyForm

LEMMA EffectDated ==
  ASSUME TypeInv, WinInv, NEW c \in Call, Effect(c), NEW d \in Call
  PROVE  Dated(d)'
<1>1. /\ call'[d].op = Op(d) /\ call'[d].key = Target(d) /\ call'[d].expect = call[d].expect
      /\ (Conditional(d)' <=> Conditional(d))
      /\ (Removable(Target(d)) => Removable(Target(d))')
  <2>1. call'[d].op = Op(d) /\ call'[d].key = Target(d) /\ call'[d].expect = call[d].expect
    BY DEF Effect, Alone, Op, Target
  <2>2. (Removable(Target(d)) => Removable(Target(d))')
    BY OldStays
  <2>3. QED
    BY <2>1, <2>2 DEF Conditional
<1>2. PICK e : e = call[d].expect
  OBVIOUS
<1>3. PICK k : k = Target(d)
  OBVIOUS
<1>4. SUFFICES ASSUME ~Removable(k)
               PROVE  /\ Op(d) = "swap" => Old(e)' /\ (object'[Doc] = e \/ Beyond(object'[Doc], e))
                      /\ Winner(d)' => Beyond(object'[k], e)
  <2>1. Op(d)' = Op(d) /\ Target(d)' = k /\ call'[d].expect = e
    BY <1>1, <1>2, <1>3 DEF Op, Target
  <2>2. Op(d) = "swap" => (Old(call[d].expect)' <=> Old(e)')
    BY <2>1 DEF Old
  <2>3. QED
    BY <1>1, <1>3, <2>1, <2>2 DEF Dated
<1>5. Dated(d) /\ ~Removable(Target(d))
  BY <1>3, <1>4 DEF WinInv
<1>6. /\ Op(d) = "swap" => Old(e) /\ (object[Doc] = e \/ Beyond(object[Doc], e))
      /\ Winner(d) => Beyond(object[k], e)
  BY <1>2, <1>3, <1>5 DEF Dated
<1>7. /\ Conditional(d) => k \in Key /\ e \in Content /\ (e # Absent => Op(d) = "swap")
      /\ Op(d) = "swap" => k = Doc /\ e # Absent /\ Conditional(d)
  BY <1>2, <1>3, ExpectForm
<1>8. Old(e) => Old(e)'
  BY OldStays DEF Old
<1>9. Op(d) = "swap" => object'[Doc] = e \/ Beyond(object'[Doc], e)
  BY <1>4, <1>6, <1>7, StepBeyond
<1>10. ASSUME Winner(d) PROVE Beyond(object'[k], e)
  BY <1>4, <1>6, <1>7, <1>10, StepBeyond DEF Winner
<1>11. ASSUME Winner(d)', ~Winner(d) PROVE Beyond(object'[k], e)
  <2>1. d = c /\ Wrote(c) /\ Conditional(d)
    <3>1. d = c
      BY <1>11 DEF Effect, Alone, Winner, Conditional, At
    <3>2. ~Retypable(d)
      BY <1>3, <1>4 DEF Retypable, Removable
    <3>3. QED
      BY <1>1, <1>11, <3>1, <3>2 DEF Effect, CallForm, Winner
  <2>2. CASE Op(d) = "swap"
    BY <1>3, <1>4, <1>6, <1>7, <2>1, <2>2, StepBeyond
  <2>3. CASE Op(d) # "swap"
    <3>1. e = Absent /\ e \in Content
      BY <1>7, <2>1, <2>3
    <3>2. object'[k] = Data(c)
      BY <1>3, <1>7, <2>1 DEF Wrote, TypeInv, Types
    <3>3. QED
      BY <3>1, <3>2, BeyondPut
  <2>4. QED
    BY <2>2, <2>3
<1>12. QED
  BY <1>6, <1>8, <1>9, <1>10, <1>11

LEMMA EffectSingle ==
  ASSUME TypeInv, WinInv, NEW c \in Call, Effect(c), NEW a \in Call, NEW b \in Call
  PROVE  Single(a, b)'
<1>1. ASSUME NEW d \in Call
      PROVE  /\ Target(d)' = Target(d) /\ call'[d].expect = call[d].expect
             /\ (Removable(Target(d)) => Removable(Target(d))')
             /\ Winner(d)' /\ ~Removable(Target(d)) =>
                   Winner(d) \/ (d = c /\ Wrote(c) /\ Conditional(c))
  <2>1. /\ call'[d].op = Op(d) /\ call'[d].key = Target(d) /\ call'[d].expect = call[d].expect
        /\ d # c => call'[d] = call[d]
    BY DEF Effect, Alone, Op, Target
  <2>2. (Removable(Target(d)) => Removable(Target(d))')
    BY OldStays
  <2>3. ASSUME Winner(d)', ~Removable(Target(d)), ~Winner(d)
        PROVE  d = c /\ Wrote(c) /\ Conditional(c)
    <3>1. d = c
      BY <2>1, <2>3 DEF Winner, Conditional, At
    <3>2. ~Retypable(c) /\ Winner(c)' /\ ~Winner(c)
      BY <2>3, <3>1 DEF Retypable, Removable
    <3>3. Wrote(c)
      BY <3>2 DEF Effect, CallForm
    <3>4. Conditional(c)
      BY <2>1, <3>1, <3>2 DEF Winner, Conditional
    <3>5. QED
      BY <3>1, <3>3, <3>4
  <2>4. Target(d)' = Target(d) /\ call'[d].expect = call[d].expect
    BY <2>1 DEF Target
  <2>5. QED
    BY <2>2, <2>3, <2>4
<1>2. ASSUME NEW d \in Call, Winner(d), Wrote(c), Conditional(c), Target(c) = Target(d),
             call[c].expect = call[d].expect, ~Removable(Target(d))
      PROVE  FALSE
  <2>1. Beyond(object[Target(d)], call[d].expect)
    BY <1>2 DEF WinInv, Dated
  <2>2. call[c].expect = object[Target(d)]
    BY <1>2 DEF Wrote, Meets, Expected, Conditional, Removable, Puts
  <2>3. call[c].expect \in Content
    BY <1>2, ExpectForm
  <2>4. QED
    BY <1>2, <2>1, <2>2, <2>3, BeyondMoves
<1>3. Single(a, b)
  BY DEF WinInv
<1>4. ASSUME Winner(a)', Winner(b)', Target(a) = Target(b), call[a].expect = call[b].expect,
             a # b, ~Removable(Target(a))
      PROVE  FALSE
  <2>1. CASE Winner(a) /\ Winner(b)
    BY <1>3, <1>4, <2>1 DEF Single
  <2>2. CASE ~Winner(a)
    <3>1. a = c /\ Wrote(c) /\ Conditional(c) /\ Winner(b)
      BY <1>1, <1>4, <2>2
    <3>2. QED
      BY <1>2, <1>4, <3>1
  <2>3. CASE ~Winner(b)
    <3>1. b = c /\ Wrote(c) /\ Conditional(c) /\ Winner(a)
      BY <1>1, <1>4, <2>3
    <3>2. QED
      BY <1>2, <1>4, <3>1
  <2>4. QED
    BY <2>1, <2>2, <2>3
<1>5. QED
  BY <1>1, <1>4 DEF Single

LEMMA EffectWinInv ==
  ASSUME TypeInv, WinInv, NEW c \in Call, Effect(c)
  PROVE  WinInv'
<1>1. ASSUME NEW d \in Call PROVE Claimed(d)'
  BY DEF WinInv, Effect, CallForm, Alone, Claimed, Conditional
<1>2. \A k \in Key : ~Removable(k)' => Old(object[k])'
  BY OldStays, StepOld
<1>3. QED
  BY <1>1, <1>2, EffectDated, EffectSingle DEF WinInv

\* A new swap expects what the object is, and has won nothing yet.
LEMMA BegunWinInv ==
  ASSUME TypeInv, WinInv, NEW c \in Call, Begun(c)
  PROVE  WinInv'
<1>1. /\ At(c) = "idle" /\ UNCHANGED <<setup, object>>
      /\ \A d \in Call \ {c} : call'[d] = call[d]
      /\ Proper(c)' /\ call'[c].answer = Pending /\ call'[c].outcome = Pending
      /\ call'[c].resent = {} /\ Op(c) = "none" /\ Pending # Written /\ call'[c].pc # "replaced"
      /\ call'[c].op = "swap" => call'[c].expect = object[Doc]
      /\ provider' = provider
  <2>1. Op(c) = "none" /\ Pending # Written
    BY ValuesAssumption DEF Begun, TypeInv, Proper
  <2>2. call'[c].pc # "replaced"
    BY DEF Begun, Locked
  <2>3. QED
    BY <2>1, <2>2 DEF Begun, setup
<1>2. \A k \in Key \union {Doc} : Removable(k) => Removable(k)'
  BY <1>1 DEF Removable, Op
<1>3. \A d \in Call : Fresh(d)' => Fresh(d)
  BY <1>1 DEF Fresh, At, Op
<1>4. ASSUME NEW x, Old(x) PROVE Old(x)'
  BY <1>3, <1>4 DEF Old
<1>5. \A k \in Key : ~Removable(k)' => Old(object[k])'
  <2>1. SUFFICES ASSUME NEW k \in Key, ~Removable(k)' PROVE Old(object[k])'
    OBVIOUS
  <2>2. PICK x : x = object[k]
    OBVIOUS
  <2>3. Old(x) /\ object'[k] = x
    BY <1>1, <1>2, <2>1, <2>2 DEF WinInv
  <2>4. QED
    BY <1>4, <2>3 DEF Old
<1>6. ~Winner(c)'
  BY <1>1 DEF Winner, At
<1>7. ASSUME NEW d \in Call PROVE Dated(d)' /\ Claimed(d)'
  <2>1. CASE d = c
    <3>1. Claimed(c)'
      BY <1>1 DEF Claimed
    <3>2. ASSUME ~Removable(Target(c))', Op(c)' = "swap"
          PROVE  Old(call[c].expect)' /\ object'[Doc] = call'[c].expect
      <4>1. Target(c)' = Doc /\ Doc \in Key
        BY <1>1, <3>2, ConstantFacts DEF Proper
      <4>2. call'[c].expect = object'[Doc]
        BY <1>1, <3>2 DEF Op
      <4>3. ~Removable(Doc)'
        BY <3>2, <4>1 DEF Removable
      <4>4. QED
        BY <1>5, <4>1, <4>2, <4>3 DEF Old
    <3>3. QED
      BY <1>6, <2>1, <3>1, <3>2 DEF Dated
  <2>2. CASE d # c
    <3>1. call'[d] = call[d] /\ Dated(d) /\ Claimed(d)
      BY <1>1, <2>2 DEF WinInv
    <3>2. PICK e : e = call[d].expect
      OBVIOUS
    <3>3. Old(e) => Old(e)'
      BY <1>4
    <3>4. Removable(Target(d)) => Removable(Target(d))'
      BY <1>1, <3>1 DEF Removable, Target, Op
    <3>5. (Old(call[d].expect) <=> Old(e)) /\ (Old(call[d].expect)' <=> Old(e)')
      BY <3>1, <3>2 DEF Old
    <3>6. Op(d)' = Op(d) /\ Target(d)' = Target(d) /\ (Winner(d)' <=> Winner(d))
      BY <3>1 DEF Op, Target, Winner, Conditional, At
    <3>7. Dated(d)'
      BY <1>1, <3>1, <3>3, <3>4, <3>5, <3>6 DEF Dated
    <3>8. QED
      BY <3>1, <3>7 DEF Claimed, Conditional
  <2>3. QED
    BY <2>1, <2>2
<1>8. ASSUME NEW a \in Call, NEW b \in Call PROVE Single(a, b)'
  <2>1. CASE a # c /\ b # c
    <3>1. Single(a, b) /\ call'[a] = call[a] /\ call'[b] = call[b]
      BY <1>1, <2>1 DEF WinInv
    <3>2. Removable(Target(a)) => Removable(Target(a))'
      BY <1>1, <3>1 DEF Removable, Target, Op
    <3>3. QED
      BY <3>1, <3>2 DEF Single, Target, Winner, Conditional, At
  <2>2. CASE a = c \/ b = c
    BY <1>6, <2>2 DEF Single
  <2>3. QED
    BY <2>1, <2>2
<1>9. QED
  BY <1>5, <1>7, <1>8 DEF WinInv

LEMMA StepWinInv ==
  ASSUME TypeInv, WinInv, [Next]_vars
  PROVE  WinInv'
<1>1. CASE UNCHANGED vars
  BY <1>1 DEF vars, WinInv, Dated, Claimed, Single, Old, Fresh, Winner, Removable, Conditional, Op, At, Target
<1>2. CASE Next
  BY <1>1, <1>2, NextForm, EffectWinInv, BegunWinInv
<1>3. QED
  BY <1>1, <1>2

LEMMA InitWinInv ==
  ASSUME Init
  PROVE  WinInv
<1>1. ASSUME NEW c \in Call
      PROVE  /\ Op(c) = "none" /\ At(c) = "idle" /\ call[c].expect = Any
             /\ call[c].answer = Pending
  BY DEF Init, NoRequest, Op, At
<1>2. ASSUME NEW c \in Call PROVE ~Winner(c) /\ Claimed(c) /\ Dated(c)
  BY <1>1 DEF Winner, Conditional, Claimed, Dated
<1>3. ASSUME NEW k \in Key PROVE Old(object[k])
  <2>1. object[k] \in {Absent, <<0, 0>>} /\ 0 \notin Call
    BY StorageAssumption DEF Init, Data, Call
  <2>2. QED
    BY <2>1 DEF Old
<1>4. QED
  BY <1>2, <1>3 DEF WinInv, Single

(***************************************************************************)
(* Listings                                                                *)
(***************************************************************************)
\* Only a prune deletes a commit, and nothing overwrites one.
LEMMA NumberStep ==
  ASSUME TypeInv, NEW c \in Call, Effect(c), NEW n \in Number, object[n] # Absent
  PROVE  object'[n] = object[n] \/ (object'[n] = Absent /\ Prunable(n))
<1>1. /\ object \in [Key -> Content] /\ n \in Key /\ Doc \in Key /\ n # Doc /\ ObjectForm(c)
      /\ Proper(c)
  BY ConstantFacts DEF TypeInv, Types, Effect
<1>2. CASE Wrote(c)
  <2>1. CASE Target(c) = n
    <3>1. Op(c) = "create" /\ call[c].expect = Absent /\ Any # Absent
      BY <1>1, <1>2, <2>1, ValuesAssumption DEF Proper, Wrote, Puts
    <3>2. Meets(c)
      BY <1>1, <1>2, <2>1 DEF Wrote
    <3>3. QED
      BY <2>1, <3>1, <3>2 DEF Meets, Expected
  <2>2. CASE Target(c) # n
    BY <1>1, <1>2, <2>2 DEF Wrote
  <2>3. QED
    BY <2>1, <2>2
<1>3. CASE Grew(c)
  BY <1>1, <1>3 DEF Grew
<1>4. CASE Started(c)
  BY <1>1, <1>4 DEF Started
<1>5. CASE Removed(c)
  <2>1. PICK k \in Key : /\ object' = [object EXCEPT ![k] = Absent]
                         /\ k = Doc \/ (k \in Number /\ Op(c) = "prune" /\ k < Target(c))
    BY <1>5 DEF Removed
  <2>2. CASE k = n
    BY <1>1, <2>1, <2>2 DEF Prunable
  <2>3. CASE k # n
    BY <1>1, <2>1, <2>3
  <2>4. QED
    BY <2>2, <2>3
<1>6. QED
  BY <1>1, <1>2, <1>3, <1>4, <1>5 DEF ObjectForm

LEMMA EffectListInv ==
  ASSUME TypeInv, ListInv, NEW c \in Call, Effect(c)
  PROVE  ListInv'
<1>1. SUFFICES ASSUME NEW d \in Call, Op(d)' = "list", NEW n \in Number, Due(d, n)'
               PROVE  /\ call'[d].pc = "list" => n \in call'[d].seen \/ (n \in call'[d].todo /\ object'[n] # Absent)
                      /\ call'[d].outcome \notin {Pending, Raised} => n \in call'[d].outcome
                      /\ call'[d].answer \notin {Pending, Raised} => n \in call'[d].answer
  BY DEF ListInv, Listing, At
<1>2. \A e \in Call : /\ call'[e].op = call[e].op /\ call'[e].key = call[e].key
                      /\ call'[e].before = call[e].before
  BY DEF Effect, Alone, Op, Target
<1>3. Op(d) = "list" /\ Due(d, n)
  BY <1>1, <1>2 DEF Due, Prunable, Op, Target
<1>4. ~Prunable(n)
  BY <1>3 DEF Due
<1>5. /\ At(d) = "list" => n \in call[d].seen \/ (n \in call[d].todo /\ object[n] # Absent)
      /\ call[d].outcome \notin {Pending, Raised} => n \in call[d].outcome
      /\ call[d].answer \notin {Pending, Raised} => n \in call[d].answer
  BY <1>3 DEF ListInv, Listing
<1>6. object[n] # Absent => object'[n] # Absent
  BY <1>4, NumberStep
<1>7. CASE d = c
  <2>1. ListForm(c)
    BY DEF Effect, CallForm
  <2>2. QED
    BY <1>3, <1>5, <1>6, <1>7, <2>1 DEF ListForm
<1>8. CASE d # c
  <2>1. call'[d] = call[d]
    BY <1>8 DEF Effect, Alone
  <2>2. QED
    BY <1>5, <1>6, <2>1 DEF At
<1>9. QED
  BY <1>7, <1>8

LEMMA BegunListInv ==
  ASSUME TypeInv, ListInv, NEW c \in Call, Begun(c)
  PROVE  ListInv'
<1>1. /\ Op(c) = "none" /\ UNCHANGED object /\ call'[c].answer = Pending /\ call'[c].outcome = Pending
      /\ \A e \in Call \ {c} : call'[e] = call[e]
      /\ call'[c].op = "list" => /\ call'[c].before = [n \in Number |-> object[n]]
                                 /\ call'[c].todo = {n \in Number : n > call'[c].key}
  BY DEF Begun, TypeInv, Proper
<1>2. SUFFICES ASSUME NEW d \in Call, Op(d)' = "list", NEW n \in Number, Due(d, n)'
               PROVE  /\ call'[d].pc = "list" => n \in call'[d].seen \/ (n \in call'[d].todo /\ object'[n] # Absent)
                      /\ call'[d].outcome \notin {Pending, Raised} => n \in call'[d].outcome
                      /\ call'[d].answer \notin {Pending, Raised} => n \in call'[d].answer
  BY DEF ListInv, Listing, At
<1>3. CASE d = c
  BY <1>1, <1>2, <1>3 DEF Due, Op, Target
<1>4. CASE d # c
  <2>1. call'[d] = call[d] /\ Op(d) = "list"
    BY <1>1, <1>2, <1>4 DEF Op
  <2>2. Due(d, n)
    BY <1>1, <1>2, <2>1 DEF Due, Prunable, Op, Target
  <2>3. QED
    BY <1>1, <2>1, <2>2 DEF ListInv, Listing, At
<1>5. QED
  BY <1>3, <1>4

LEMMA StepListInv ==
  ASSUME TypeInv, ListInv, [Next]_vars
  PROVE  ListInv'
<1>1. CASE UNCHANGED vars
  BY <1>1 DEF vars, ListInv, Listing, Due, Prunable, Op, At, Target
<1>2. CASE Next
  BY <1>1, <1>2, NextForm, EffectListInv, BegunListInv
<1>3. QED
  BY <1>1, <1>2

(***************************************************************************)
(* The theorems                                                            *)
(***************************************************************************)
THEOREM Invariance == Spec => []Inv
<1>1. Init => Inv
  <2>1. Init => ListInv
    BY DEF Init, NoRequest, ListInv, Listing, Op
  <2>2. QED
    BY <2>1, InitTypeInv, InitWinInv DEF Inv
<1>2. Inv /\ [Next]_vars => Inv'
  BY StepTypeInv, StepWinInv, StepListInv DEF Inv
<1>3. QED
  BY <1>1, <1>2, PTL DEF Spec

\* Objects hold content or nothing, listings find commits, and the holder of a
\* lock is a call that is inside it.
THEOREM TypeCorrect == Spec => []TypeOK
<1>1. Inv => TypeOK
  <2>1. SUFFICES ASSUME Inv PROVE TypeOK
    OBVIOUS
  <2>2. Types /\ \A k \in Key : LockFree(k)
    BY <2>1 DEF Inv, TypeInv
  <2>3. \A k \in Key : IsContent(object[k])
    <3>1. SUFFICES ASSUME NEW x \in Seq(Byte) PROVE \A i \in 1..Len(x) : x[i] \in Byte
      BY <2>2 DEF Types, Content, IsContent
    <3>2. QED
      OBVIOUS
  <2>4. \A k \in Key : holder[k] # Nobody => holder[k] \in Call
    BY <2>2 DEF Types
  <2>5. ASSUME NEW c \in Call PROVE call[c].todo \subseteq Number /\ call[c].seen \subseteq Number
    BY <2>2 DEF Types, Calls
  <2>6. QED
    BY <2>2, <2>3, <2>4, <2>5 DEF Types, LockFree, Locked, TypeOK
<1>2. QED
  BY <1>1, Invariance, PTL

\* Of the callers whose conditional writes expected the same, one at most is
\* told that it won, however the backend resends, retries or crashes, as long as
\* nothing is deleted.
THEOREM OneWins == Spec => []OneWinner
<1>1. Inv => OneWinner
  BY DEF Inv, WinInv, OneWinner, Single, Claimed, Won, Winner
<1>2. QED
  BY <1>1, Invariance, PTL

\* Whatever is written during a listing, it has every commit that was there when
\* it began and that nobody prunes.
THEOREM ListingsAreComplete == Spec => []ListSeesEarlier
<1>1. Inv => ListSeesEarlier
  BY DEF Inv, ListInv, Listing, Due, Prunable, ListSeesEarlier
<1>2. QED
  BY <1>1, Invariance, PTL

\* A commit or a snapshot, once written, is that or deleted, and what a step
\* makes of an absent one is what one call put there, whole.
THEOREM NumberedStay == Spec => NumberedAreImmutable
<1>1. ASSUME Inv, [Next]_vars, NEW n \in Number
      PROVE  /\ object[n] # Absent => object'[n] \in {object[n], Absent}
             /\ object'[n] \in {Absent} \union {Data(b) : b \in Byte}
  <2>1. TypeInv /\ Types'
    BY <1>1, StepTypeInv DEF Inv, TypeInv
  <2>2. object'[n] \in {Absent} \union {Data(b) : b \in Byte}
    BY <2>1 DEF Types
  <2>3. CASE UNCHANGED object
    BY <2>2, <2>3
  <2>4. CASE \E c \in Call : Effect(c)
    BY <2>1, <2>2, <2>4, NumberStep
  <2>5. QED
    BY <1>1, <2>1, <2>2, <2>3, <2>4, NextForm DEF vars, Begun
<1>2. Inv /\ [Next]_vars => [\A n \in Number :
          /\ object[n] # Absent => object'[n] \in {object[n], Absent}
          /\ object'[n] \in {Absent} \union {Data(b) : b \in Byte}]_vars
  BY <1>1
<1>3. QED
  BY <1>2, Invariance, PTL DEF Spec, NumberedAreImmutable
=============================================================================
