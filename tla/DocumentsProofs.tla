-------------------------- MODULE DocumentsProofs --------------------------
(* What holds of claims, documents and wait_for for any number of calls on   *)
(* one key, of attempts, and of failures and cancellations.                  *)
EXTENDS Documents, SequenceTheorems, FiniteSetTheorems, TLAPS

(***************************************************************************)
(* The inductive invariant                                                 *)
(***************************************************************************)
Content == Seq(Worker \union {Initial}) \ {<<>>}
Objects == [value : Content, etag : Nat]

Jobs == [kind : {"none", "claim", "update", "amend", "restore", "delete", "watch"},
         pc : {"idle", "get", "pinned", "put", "delete", "over"},
         read : Objects \union {Absent}, from : Objects \union {Absent},
         tries : 0..(MaxAttempts - 1), won : BOOLEAN,
         result : {Pending, Conflict, Missing, Raised, TimedOut, Refused, Done} \union Content]

\* Where a call of each kind can be.
Stages == [none |-> {"idle"}, claim |-> {"put", "get", "pinned", "over"},
           update |-> {"get", "pinned", "put", "over"}, amend |-> {"get", "pinned", "put", "over"},
           restore |-> {"put", "over"}, delete |-> {"delete", "over"},
           watch |-> {"get", "pinned", "over"}]

Types ==
    /\ store \in {"filesystem", "s3", "gcs"} /\ topic \in DOMAIN Kinds
    /\ doc \in Objects \union {Absent} /\ edition \in Nat
    /\ Hashed => edition = 0
    /\ doc # Absent => doc.etag <= edition
    /\ job \in [Worker -> Jobs]
    /\ past \in [Worker -> Seq(Content \union {Absent})]

\* A call is at a stage of its kind, has no answer yet but an exception, and a
\* put expects what its kind may expect.
Proper(w) ==
    /\ Kind(w) \in Kinds[topic] \union {"none"} /\ At(w) \in Stages[Kind(w)]
    /\ At(w) = "idle" => job[w] = NoJob
    /\ Running(w) => job[w].result \in {Pending, Raised}
    /\ At(w) = "put" => (Kind(w) \in {"claim", "restore"} => job[w].read = Absent)
                        /\ (Kind(w) = "amend" => job[w].read # Absent)
    /\ At(w) = "pinned" => store = "gcs" /\ job[w].read # Absent

\* The history of a call that is still watched ends with what the object is.
Current(w) ==
    Observes(w) => Len(past[w]) > 0 /\ past[w][Len(past[w])] = Value(doc)

TypeInv == Types /\ \A w \in Worker : Proper(w) /\ Current(w)

\* As long as nobody deletes, the first claim decides.
Decided(w) ==
    Kind(w) = "claim" /\ ~Deleted =>
        /\ Answered(w) /\ job[w].result # Conflict => doc # Absent /\ job[w].result = doc.value
        /\ job[w].won => doc # Absent /\ doc.value = <<w>>

\* Once an update has returned, the others append to what it wrote.
Kept(w) ==
    Kind(w) \in {"update", "amend"} /\ job[w].result = Done /\ ~Deleted =>
        doc # Absent /\ w \in Range(doc.value)

\* What an update wrote to the filesystem, it wrote in its last step.
Landed(w) ==
    Kind(w) \in {"update", "amend"} /\ job[w].result # Raised /\ store = "filesystem" =>
        Landings(w) = IF job[w].result = Done THEN 1 ELSE 0

Truthful(w) ==
    Answered(w) =>
        /\ Kind(w) \in {"claim", "watch"} /\ job[w].result \notin {Conflict, TimedOut} =>
              job[w].result \in Range(past[w])
        /\ job[w].result = Missing /\ store # "gcs" => Absent \in Range(past[w])

\* Each attempt that has failed, or is bound to fail, has seen a change.
Overtaken(w) ==
    store # "s3" =>
        /\ job[w].result = Conflict => Len(past[w]) > MaxAttempts
        /\ Observes(w) /\ Kind(w) \in {"claim", "update", "amend"} =>
              /\ Len(past[w]) > job[w].tries
              /\ Kind(w) = "claim" /\ At(w) = "get" /\ doc = Absent =>
                    Len(past[w]) > job[w].tries + 1
              /\ Kind(w) # "claim" /\ At(w) = "put" /\ doc # job[w].read =>
                    Len(past[w]) > job[w].tries + 1
              /\ At(w) = "pinned" /\ doc # job[w].read => Len(past[w]) > job[w].tries + 1

\* An object with a generation does not come back as the one it was.
Distinguished(w) ==
    Observes(w) /\ Kind(w) = "watch" /\ job[w].from # Absent =>
        /\ job[w].from.etag <= edition
        /\ ~Hashed /\ Absent \in Range(past[w]) /\ doc # Absent => doc.etag > job[w].from.etag

Inv == TypeInv /\ \A w \in Worker : Decided(w) /\ Kept(w) /\ Landed(w) /\ Truthful(w)
                                      /\ Overtaken(w) /\ Distinguished(w)

(***************************************************************************)
(* Values and objects                                                      *)
(***************************************************************************)
\* A value is a sequence that is not empty, and no outcome is one.
LEMMA ContentIsSeq ==
  /\ \A c \in Content : /\ c \in Seq(Worker \union {Initial})
                        /\ c \notin {Absent, Pending, Conflict, Missing, Raised,
                                     TimedOut, Refused, Done}
                        /\ Len(c) \in Nat \ {0}
  /\ \A obj \in Objects : obj # Absent /\ Value(obj) = obj.value /\ Value(obj) \in Content
  /\ Value(Absent) = Absent
<1>1. \A c \in Content : Len(c) \in Nat \ {0}
  BY EmptySeq DEF Content
<1>2. \A obj \in Objects : obj # Absent
  BY OutcomesAssumption DEF Objects, Content
<1>3. QED
  BY <1>1, <1>2, OutcomesAssumption DEF Value, Objects, Content

\* What a worker writes over content ends with the worker, and keeps the rest.
LEMMA AppendedContent ==
  ASSUME NEW c \in Content, NEW w \in Worker
  PROVE  /\ Append(c, w) \in Content
         /\ Len(Append(c, w)) = Len(c) + 1
         /\ Append(c, w)[Len(Append(c, w))] = w
         /\ Range(c) \subseteq Range(Append(c, w)) /\ w \in Range(Append(c, w))
<1>1. c \in Seq(Worker \union {Initial}) /\ w \in Worker \union {Initial}
  BY DEF Content
<1>2. /\ Append(c, w) \in Seq(Worker \union {Initial}) /\ Append(c, w) # <<>>
      /\ Len(Append(c, w)) = Len(c) + 1
      /\ \A i \in 1..Len(c) : Append(c, w)[i] = c[i]
      /\ Append(c, w)[Len(c) + 1] = w
  BY <1>1, AppendProperties
<1>3. /\ DOMAIN c = 1..Len(c) /\ Len(c) \in Nat
      /\ DOMAIN Append(c, w) = 1..Len(Append(c, w))
  BY <1>1, <1>2, LenProperties
<1>4. QED
  BY <1>2, <1>3 DEF Range, Content

LEMMA SingleContent ==
  ASSUME NEW x \in Worker \union {Initial}
  PROVE  /\ <<x>> \in Content /\ Len(<<x>>) = 1 /\ <<x>>[1] = x /\ x \in Range(<<x>>)
  BY DEF Content, Range

\* Which kinds of call can be at a stage, and where a kind can be.
LEMMA KindOfStage ==
  ASSUME Types, NEW w \in Worker, Proper(w)
  PROVE  /\ At(w) = "put" => Kind(w) \in {"claim", "restore", "update", "amend"}
         /\ At(w) \in {"get", "pinned"} => Kind(w) \in {"claim", "update", "amend", "watch"}
         /\ At(w) = "delete" => Kind(w) = "delete"
         /\ At(w) = "idle" <=> Kind(w) = "none"
         /\ Kind(w) \in {"claim", "watch"} => topic = "claim" \/ Kind(w) = "watch"
         /\ Kind(w) \in {"update", "amend", "restore"} => topic = "document"
<1>1. /\ Kind(w) \in {"none", "claim", "update", "amend", "restore", "delete", "watch"}
      /\ topic \in {"claim", "document"}
  BY DEF Types, Jobs, Kind, Kinds
<1>2. At(w) \in Stages[Kind(w)] /\ Kind(w) \in Kinds[topic] \union {"none"}
  BY DEF Proper
<1>3. /\ At(w) = "put" => Kind(w) \in {"claim", "restore", "update", "amend"}
      /\ At(w) \in {"get", "pinned"} => Kind(w) \in {"claim", "update", "amend", "watch"}
      /\ At(w) = "delete" => Kind(w) = "delete"
      /\ At(w) = "idle" <=> Kind(w) = "none"
  BY <1>1, <1>2 DEF Stages
<1>4. /\ Kind(w) \in {"claim", "watch"} => topic = "claim" \/ Kind(w) = "watch"
      /\ Kind(w) \in {"update", "amend", "restore"} => topic = "document"
  <2>1. CASE topic = "claim"
    BY <1>1, <1>2, <2>1 DEF Kinds
  <2>2. CASE topic = "document"
    BY <1>1, <1>2, <2>2 DEF Kinds
  <2>3. QED
    BY <1>1, <2>1, <2>2
<1>5. QED
  BY <1>3, <1>4

\* A put writes an object with a value that ends with the worker, or the initial one.
LEMMA Written ==
  ASSUME Types, NEW w \in Worker, Proper(w), At(w) = "put"
  PROVE  /\ New(w) \in Content
         /\ Object(New(w)) \in Objects
         /\ Object(New(w)) # Absent
         /\ Object(New(w)).value = New(w)
         /\ Object(New(w)).etag = IF Hashed THEN 0 ELSE edition + 1
         /\ Kind(w) # "restore" => New(w)[Len(New(w))] = w
         /\ Kind(w) = "restore" => New(w) = <<Initial>>
<1>1. New(w) \in Content
  BY AppendedContent, SingleContent, ContentIsSeq DEF New, Types, Jobs, Objects, Kind
<1>2. Kind(w) # "restore" => New(w)[Len(New(w))] = w
  BY AppendedContent, SingleContent DEF New, Types, Jobs, Objects, Kind
<1>3. Object(New(w)) \in Objects
  BY <1>1 DEF Object, Objects, Types
<1>4. Object(New(w)) # Absent
  BY <1>3, ContentIsSeq
<1>5. Kind(w) = "restore" => New(w) = <<Initial>>
  BY DEF New
<1>6. /\ Object(New(w)).value = New(w)
      /\ Object(New(w)).etag = IF Hashed THEN 0 ELSE edition + 1
  BY DEF Object
<1>7. QED
  BY <1>1, <1>2, <1>3, <1>4, <1>5, <1>6

(***************************************************************************)
(* What steps do to the job of their worker, field by field                *)
(***************************************************************************)
Outcome == {Conflict, Missing, TimedOut, Refused, Done} \union Content

\* The worker's job ends with this result, or the exception its caller had.
Ended(w, result, won) ==
    /\ job'[w].kind = Kind(w) /\ job'[w].pc = "over" /\ job'[w].won = won
    /\ job'[w].result = IF job[w].result = Pending THEN result ELSE Raised

\* The worker's job goes on at another stage.
Moved(w, pc, read, tries) ==
    /\ job'[w].kind = Kind(w) /\ job'[w].pc = pc /\ job'[w].read = read
    /\ job'[w].from = job[w].from /\ job'[w].tries = tries /\ job'[w].won = job[w].won
    /\ job'[w].result = job[w].result

\* The jobs of all others stay as they are.
Alone(w) == job' \in [Worker -> Jobs] /\ \A v \in Worker \ {w} : job'[v] = job[v]

\* How a call goes on once it has read obj.
Learned(w, obj) ==
    \/ /\ Kind(w) \in {"watch", "claim"} /\ obj # Absent
       /\ Kind(w) = "watch" => obj # job[w].from
       /\ obj.value \in Content /\ Ended(w, obj.value, FALSE)
    \/ /\ Kind(w) = "watch" /\ (obj = Absent \/ obj = job[w].from)
       /\ Ended(w, TimedOut, FALSE)
    \/ /\ Kind(w) = "watch" /\ job[w].tries + 1 < MaxAttempts
       /\ Moved(w, "get", Absent, job[w].tries + 1)
    \/ /\ Kind(w) = "claim" /\ obj = Absent /\ job[w].tries + 1 < MaxAttempts
       /\ Moved(w, "put", Absent, job[w].tries + 1)
    \/ /\ Kind(w) = "claim" /\ obj = Absent /\ job[w].tries + 1 = MaxAttempts
       /\ Ended(w, Conflict, FALSE)
    \/ Kind(w) = "amend" /\ obj = Absent /\ Ended(w, Missing, FALSE)
    \/ /\ Kind(w) \in {"update", "amend"} /\ (Kind(w) = "amend" => obj # Absent)
       /\ Moved(w, "put", obj, job[w].tries)

\* How a call goes on once its put was answered.
Told(w, won) ==
    \/ Kind(w) = "claim" /\ won /\ Ended(w, New(w), TRUE)
    \/ Kind(w) = "claim" /\ ~won /\ Moved(w, "get", job[w].read, job[w].tries)
    \/ Kind(w) = "restore" /\ won /\ Ended(w, Done, TRUE)
    \/ Kind(w) = "restore" /\ ~won /\ Ended(w, Refused, FALSE)
    \/ Kind(w) \in {"update", "amend"} /\ won /\ Ended(w, Done, TRUE)
    \/ /\ Kind(w) \in {"update", "amend"} /\ ~won
       /\ \/ /\ job[w].tries + 1 < MaxAttempts
             /\ Moved(w, "get", Absent, job[w].tries + 1)
          \/ job[w].tries + 1 = MaxAttempts /\ Ended(w, Conflict, FALSE)

LEMMA EndEnds ==
  ASSUME Types, NEW w \in Worker, Proper(w), Running(w),
         NEW result \in Outcome, NEW won \in BOOLEAN, End(w, result, won)
  PROVE  Alone(w) /\ Ended(w, result, won)
<1>1. job'[w] = [NoJob EXCEPT !.kind = Kind(w), !.pc = "over", !.won = won,
                   !.result = IF job[w].result = Pending THEN result ELSE job[w].result]
  BY DEF End, Types
<1>2. \A v \in Worker \ {w} : job'[v] = job[v]
  BY DEF End, Types
<1>3. job[w] \in Jobs /\ MaxAttempts \in Nat \ {0}
  BY DocumentsAssumption DEF Types
<1>4. job'[w] \in Jobs
  <2>1. /\ job[w].kind \in {"none", "claim", "update", "amend", "restore", "delete", "watch"}
        /\ job[w].result \in {Pending, Conflict, Missing, Raised, TimedOut, Refused, Done} \union Content
        /\ 0 \in 0..(MaxAttempts - 1)
    BY <1>3 DEF Jobs
  <2>2. result \in {Pending, Conflict, Missing, Raised, TimedOut, Refused, Done} \union Content
    BY DEF Outcome
  <2>3. QED
    BY <1>1, <2>1, <2>2 DEF Jobs, NoJob, Kind
<1>5. Ended(w, result, won)
  BY <1>1 DEF Ended, NoJob, Proper
<1>6. job' \in [Worker -> Jobs]
  BY <1>2, <1>4 DEF End, Types
<1>7. QED
  BY <1>2, <1>5, <1>6 DEF Alone

\* A retry begins again, or gives up after the last attempt.
LEMMA RetryRetries ==
  ASSUME Types, NEW w \in Worker, Proper(w), Running(w), Retry(w),
         First(Kind(w)) \in {"get", "put", "delete"}
  PROVE  /\ Alone(w)
         /\ \/ job[w].tries + 1 < MaxAttempts /\ Moved(w, First(Kind(w)), Absent, job[w].tries + 1)
            \/ job[w].tries + 1 = MaxAttempts /\ Ended(w, Conflict, FALSE)
<1>1. job[w] \in Jobs /\ MaxAttempts \in Nat \ {0}
  BY DocumentsAssumption DEF Types
<1>2. CASE ~LastTry(w)
  <2>1. job' = [job EXCEPT ![w].tries = @ + 1, ![w].read = Absent, ![w].pc = First(Kind(w))]
    BY <1>2 DEF Retry
  <2>2. job[w].tries + 1 \in 0..(MaxAttempts - 1) /\ job[w].tries + 1 < MaxAttempts
    BY <1>1, <1>2 DEF LastTry, Jobs
  <2>3. job'[w] \in Jobs /\ Moved(w, First(Kind(w)), Absent, job[w].tries + 1)
    BY <1>1, <2>1, <2>2 DEF Types, Jobs, Moved, Kind
  <2>4. job' \in [Worker -> Jobs] /\ \A v \in Worker \ {w} : job'[v] = job[v]
    BY <2>1, <2>3 DEF Types
  <2>5. QED
    BY <2>2, <2>3, <2>4 DEF Alone
<1>3. CASE LastTry(w)
  BY <1>3, EndEnds DEF Retry, GiveUp, LastTry, Outcome
<1>4. QED
  BY <1>2, <1>3

\* Going on to the put with what was read, or with the same job at a new stage.
LEMMA MoveMoves ==
  ASSUME Types, NEW w \in Worker,
         NEW pc \in {"get", "pinned", "put"}, NEW obj \in Objects \union {Absent},
         \/ job' = [job EXCEPT ![w].read = obj, ![w].pc = pc]
         \/ job' = [job EXCEPT ![w].pc = pc] /\ obj = job[w].read
  PROVE  Alone(w) /\ Moved(w, pc, obj, job[w].tries)
<1>1. job[w] \in Jobs
  BY DEF Types
<1>2. job'[w] \in Jobs /\ Moved(w, pc, obj, job[w].tries)
  BY <1>1 DEF Types, Jobs, Moved, Kind
<1>3. job' \in [Worker -> Jobs] /\ \A v \in Worker \ {w} : job'[v] = job[v]
  BY <1>2 DEF Types
<1>4. QED
  BY <1>2, <1>3 DEF Alone

\* What follows a read.
LEMMA AfterGetMoves ==
  ASSUME Types, NEW w \in Worker, Proper(w), At(w) \in {"get", "pinned"},
         NEW obj \in Objects \union {Absent}, AfterGet(w, obj)
  PROVE  /\ Alone(w)
         /\ Learned(w, obj)
<1>1. Running(w)
  BY DEF Running
<1>2. Running(w) /\ Kind(w) \in {"claim", "update", "amend", "watch"}
  BY <1>1, KindOfStage
<1>3. obj # Absent => obj.value \in Content /\ obj.value \in Outcome
  BY DEF Objects, Outcome
<1>4. First("watch") = "get" /\ First("claim") = "put"
  BY DEF First
<1>5. CASE Kind(w) = "watch" /\ Changed(w, obj)
  BY <1>2, <1>3, <1>5, EndEnds DEF AfterGet, Changed, Misses, Learned
<1>6. CASE Kind(w) = "watch" /\ ~Changed(w, obj)
  <2>1. End(w, TimedOut, FALSE) \/ (~LastTry(w) /\ Retry(w))
    BY <1>6 DEF AfterGet, Misses
  <2>2. TimedOut \in Outcome
    BY DEF Outcome
  <2>3. job[w].tries \in Nat /\ MaxAttempts \in Nat
    BY DocumentsAssumption DEF Types, Jobs
  <2>4. CASE End(w, TimedOut, FALSE)
    BY <1>2, <1>6, <2>2, <2>4, EndEnds DEF Changed, Learned
  <2>5. CASE ~LastTry(w) /\ Retry(w)
    BY <1>2, <1>4, <1>6, <2>3, <2>5, RetryRetries DEF LastTry, Learned
  <2>6. QED
    BY <2>1, <2>4, <2>5
<1>7. CASE Kind(w) = "claim" /\ obj = Absent
  BY <1>2, <1>4, <1>7, RetryRetries DEF AfterGet, Misses, Learned
<1>8. CASE Kind(w) = "claim" /\ obj # Absent
  BY <1>2, <1>3, <1>8, EndEnds DEF AfterGet, Misses, Learned
<1>9. CASE Misses(w, obj)
  <2>1. End(w, Missing, FALSE) /\ Missing \in Outcome
    BY <1>9 DEF AfterGet, Misses, Outcome
  <2>2. QED
    BY <1>2, <1>9, <2>1, EndEnds DEF Misses, Learned
<1>10. CASE Kind(w) \in {"update", "amend"} /\ ~Misses(w, obj)
  <2>1. job' = [job EXCEPT ![w].read = obj, ![w].pc = "put"]
    BY <1>10 DEF AfterGet
  <2>2. QED
    BY <1>10, <2>1, MoveMoves DEF Misses, Learned
<1>11. QED
  BY <1>2, <1>5, <1>6, <1>7, <1>8, <1>9, <1>10

\* What follows a put: a claim that lost reads, an update that lost tries again.
LEMMA AfterPutMoves ==
  ASSUME Types, NEW w \in Worker, Proper(w), At(w) = "put", NEW won \in BOOLEAN, AfterPut(w, won)
  PROVE  /\ Alone(w)
         /\ Told(w, won)
<1>1. Running(w)
  BY DEF Running
<1>2. Running(w) /\ Kind(w) \in {"claim", "restore", "update", "amend"}
  BY <1>1, KindOfStage
<1>3. Done \in Outcome /\ Refused \in Outcome /\ New(w) \in Outcome
  BY Written DEF Outcome
<1>4. First("update") = "get" /\ First("amend") = "get"
  BY DEF First
<1>5. CASE Kind(w) = "claim" /\ won
  BY <1>2, <1>3, <1>5, EndEnds DEF AfterPut, Told
<1>6. CASE Kind(w) = "claim" /\ ~won
  <2>1. job' = [job EXCEPT ![w].pc = "get"] /\ job[w].read \in Objects \union {Absent}
    BY <1>6 DEF AfterPut, Types, Jobs
  <2>2. QED
    BY <1>6, <2>1, MoveMoves DEF Told
<1>7. CASE Kind(w) = "restore"
  BY <1>2, <1>3, <1>7, EndEnds DEF AfterPut, Told
<1>8. CASE Kind(w) \in {"update", "amend"} /\ won
  BY <1>2, <1>3, <1>8, EndEnds DEF AfterPut, Told
<1>9. CASE Kind(w) \in {"update", "amend"} /\ ~won
  BY <1>2, <1>4, <1>9, RetryRetries DEF AfterPut, Told
<1>10. QED
  BY <1>2, <1>5, <1>6, <1>7, <1>8, <1>9

(***************************************************************************)
(* The steps, in terms of what they do to each variable                    *)
(***************************************************************************)
\* A write goes into the history of every call that is still watched.
LEMMA WriteIsSeen ==
  ASSUME Types, NEW obj \in Objects \union {Absent}, Write(obj)
  PROVE  /\ past' \in [Worker -> Seq(Content \union {Absent})]
         /\ Value(obj) \in Content \union {Absent}
         /\ \A v \in Worker :
               /\ ~Observes(v) => past'[v] = past[v]
               /\ Observes(v) =>
                     /\ past'[v] = Append(past[v], Value(obj))
                     /\ Len(past'[v]) = Len(past[v]) + 1
                     /\ past'[v][Len(past[v]) + 1] = Value(obj)
                     /\ Range(past'[v]) = Range(past[v]) \union {Value(obj)}
<1>1. Value(obj) \in Content \union {Absent}
  BY ContentIsSeq
<1>2. past' = [v \in Worker |-> IF Observes(v) THEN Append(past[v], Value(obj)) ELSE past[v]]
  BY DEF Write
<1>3. ASSUME NEW v \in Worker
      PROVE  /\ Append(past[v], Value(obj)) \in Seq(Content \union {Absent})
             /\ Len(Append(past[v], Value(obj))) = Len(past[v]) + 1
             /\ Append(past[v], Value(obj))[Len(past[v]) + 1] = Value(obj)
             /\ Range(Append(past[v], Value(obj))) = Range(past[v]) \union {Value(obj)}
  <2>1. past[v] \in Seq(Content \union {Absent})
    BY DEF Types
  <2>2. /\ Append(past[v], Value(obj)) \in Seq(Content \union {Absent})
        /\ Len(Append(past[v], Value(obj))) = Len(past[v]) + 1
        /\ \A i \in 1..Len(past[v]) : Append(past[v], Value(obj))[i] = past[v][i]
        /\ Append(past[v], Value(obj))[Len(past[v]) + 1] = Value(obj)
    BY <1>1, <2>1, AppendProperties
  <2>3. /\ DOMAIN past[v] = 1..Len(past[v]) /\ Len(past[v]) \in Nat
        /\ DOMAIN Append(past[v], Value(obj)) = 1..Len(past[v]) + 1
    BY <2>1, <2>2, LenProperties
  <2>4. QED
    BY <2>2, <2>3 DEF Range
<1>4. \A v \in Worker : past[v] \in Seq(Content \union {Absent})
  BY DEF Types
<1>5. past' \in [Worker -> Seq(Content \union {Absent})]
  BY <1>2, <1>3, <1>4
<1>6. QED
  BY <1>1, <1>2, <1>3, <1>5

Reads(w) ==
    /\ At(w) \in {"get", "pinned"} /\ Keep /\ Alone(w)
    /\ \/ At(w) = "get" /\ store = "gcs" /\ doc # Absent /\ Moved(w, "pinned", doc, job[w].tries)
       \/ (At(w) = "get" => store # "gcs" \/ doc = Absent)
          /\ (At(w) = "pinned" => doc = job[w].read) /\ Learned(w, doc)
       \/ At(w) = "pinned" /\ doc # job[w].read /\ Learned(w, Absent)

Writes(w) ==
    /\ At(w) = "put" /\ doc = job[w].read /\ Write(Object(New(w))) /\ Alone(w)
    /\ Told(w, TRUE) \/ (store # "filesystem" /\ Told(w, FALSE))

IsRefused(w) ==
    /\ At(w) = "put" /\ (doc # job[w].read \/ store = "s3") /\ Keep /\ Alone(w)
    /\ Told(w, FALSE)

Deletes(w) ==
    /\ At(w) = "delete" /\ Alone(w) /\ Ended(w, Done, TRUE)
    /\ (doc = Absent /\ Keep) \/ Write(Absent)

Begins(w) ==
    /\ At(w) = "idle" /\ Alone(w) /\ UNCHANGED <<store, topic, doc, edition>>
    /\ \E kind \in Kinds[topic], from \in {Absent, doc} :
          /\ job'[w].kind = kind /\ job'[w].pc = First(kind) /\ job'[w].read = Absent
          /\ job'[w].from = from /\ job'[w].tries = 0 /\ job'[w].won = FALSE
          /\ job'[w].result = Pending
          /\ past' = [past EXCEPT ![w] = IF kind \in {"restore", "delete"} THEN <<>> ELSE <<Value(doc)>>]

Raises(w) ==
    /\ Running(w) /\ job[w].result = Pending /\ Kind(w) # "watch"
    /\ Alone(w) /\ UNCHANGED <<store, topic, doc, edition>>
    /\ job'[w].result = Raised /\ job'[w].kind = Kind(w) /\ job'[w].pc = At(w)
    /\ job'[w].read = job[w].read /\ job'[w].won = job[w].won
    /\ past' = [past EXCEPT ![w] = <<>>]

\* A call can begin at its first stage.
LEMMA FirstStage ==
  ASSUME NEW t \in {"claim", "document"}, NEW kind \in Kinds[t]
  PROVE  /\ kind \in {"claim", "update", "amend", "restore", "delete", "watch"}
         /\ First(kind) \in Stages[kind] /\ First(kind) \in {"get", "put", "delete"}
         /\ First(kind) = "put" => kind \in {"claim", "restore"}
         /\ First(kind) = "delete" <=> kind = "delete"
<1>1. kind \in {"claim", "update", "amend", "restore", "delete", "watch"}
  BY DEF Kinds
<1>2. QED
  BY <1>1 DEF First, Stages

LEMMA BeginForm ==
  ASSUME TypeInv, NEW w \in Worker, Begin(w)
  PROVE  Begins(w)
<1>1. PICK kind \in Kinds[topic], from \in {Absent, doc} :
        /\ job' = [job EXCEPT ![w].kind = kind, ![w].pc = First(kind), ![w].from = from]
        /\ past' = [past EXCEPT ![w] = IF kind \in {"restore", "delete"} THEN <<>> ELSE <<Value(doc)>>]
  BY DEF Begin
<1>2. job[w] = NoJob /\ job[w] \in Jobs /\ MaxAttempts \in Nat \ {0}
  BY DocumentsAssumption DEF Begin, TypeInv, Types, Proper
<1>3. /\ kind \in {"claim", "update", "amend", "restore", "delete", "watch"}
      /\ First(kind) \in {"get", "put", "delete"}
  BY FirstStage DEF TypeInv, Types, Kinds
<1>4. from \in Objects \union {Absent}
  BY DEF TypeInv, Types
<1>5. job'[w] \in Jobs
  <2>1. PICK j : j = [job[w] EXCEPT !.kind = kind, !.pc = First(kind), !.from = from]
    OBVIOUS
  <2>2. j \in Jobs
    BY <1>2, <1>3, <1>4, <2>1 DEF Jobs
  <2>3. job'[w] = j
    BY <1>1, <2>1 DEF TypeInv, Types
  <2>4. QED
    BY <2>2, <2>3
<1>6. Alone(w)
  BY <1>1, <1>5 DEF Alone, TypeInv, Types
<1>7. /\ job'[w].kind = kind /\ job'[w].pc = First(kind) /\ job'[w].read = Absent
      /\ job'[w].from = from /\ job'[w].tries = 0 /\ job'[w].won = FALSE
      /\ job'[w].result = Pending
  BY <1>1, <1>2 DEF TypeInv, Types, Jobs, NoJob
<1>8. QED
  BY <1>1, <1>6, <1>7 DEF Begin, Begins

LEMMA GetForm ==
  ASSUME TypeInv, NEW w \in Worker, Get(w)
  PROVE  Reads(w)
<1>1. Types /\ Proper(w) /\ doc \in Objects \union {Absent}
  BY DEF TypeInv, Types
<1>2. CASE store = "gcs" /\ doc # Absent
  <2>1. job' = [job EXCEPT ![w].read = doc, ![w].pc = "pinned"]
    BY <1>2 DEF Get
  <2>2. Alone(w) /\ Moved(w, "pinned", doc, job[w].tries)
    BY <1>1, <2>1, MoveMoves
  <2>3. QED
    BY <1>2, <2>2 DEF Get, Reads
<1>3. CASE store # "gcs" \/ doc = Absent
  <2>1. AfterGet(w, doc)
    BY <1>3 DEF Get
  <2>2. Alone(w) /\ Learned(w, doc)
    BY <1>1, <2>1, AfterGetMoves DEF Get
  <2>3. QED
    BY <1>3, <2>2 DEF Get, Reads
<1>4. QED
  BY <1>2, <1>3

LEMMA DownloadForm ==
  ASSUME TypeInv, NEW w \in Worker, Download(w)
  PROVE  Reads(w)
<1>1. Types /\ Proper(w) /\ doc \in Objects \union {Absent} /\ At(w) = "pinned"
  BY DEF TypeInv, Types, Download
<1>2. CASE doc = job[w].read
  BY <1>1, <1>2, AfterGetMoves DEF Download, Reads
<1>3. CASE doc # job[w].read
  BY <1>1, <1>3, AfterGetMoves DEF Download, Reads
<1>4. QED
  BY <1>2, <1>3

LEMMA PutForm ==
  ASSUME TypeInv, NEW w \in Worker, Put(w)
  PROVE  Writes(w)
<1>1. Types /\ Proper(w) /\ At(w) = "put"
  BY DEF TypeInv, Put
<1>2. AfterPut(w, TRUE) \/ (store # "filesystem" /\ AfterPut(w, FALSE))
  BY DEF Put
<1>3. Alone(w) /\ (Told(w, TRUE) \/ (store # "filesystem" /\ Told(w, FALSE)))
  BY <1>1, <1>2, AfterPutMoves
<1>4. QED
  BY <1>3 DEF Put, Writes, Expected

LEMMA PutRefusedForm ==
  ASSUME TypeInv, NEW w \in Worker, PutRefused(w)
  PROVE  IsRefused(w)
  BY AfterPutMoves DEF TypeInv, PutRefused, IsRefused, Expected, Contended

LEMMA DeleteForm ==
  ASSUME TypeInv, NEW w \in Worker, Delete(w)
  PROVE  Deletes(w)
<1>1. Types /\ Proper(w) /\ Running(w) /\ Done \in Outcome
  BY DEF TypeInv, Delete, Running, Outcome
<1>2. Alone(w) /\ Ended(w, Done, TRUE)
  BY <1>1, EndEnds DEF Delete
<1>3. QED
  BY <1>2 DEF Delete, Deletes

LEMMA CancelForm ==
  ASSUME TypeInv, NEW w \in Worker, Cancel(w)
  PROVE  Raises(w)
<1>1. job' = [job EXCEPT ![w].result = Raised] /\ job[w] \in Jobs
  BY DEF Cancel, TypeInv, Types
<1>2. job'[w] \in Jobs
  BY <1>1 DEF TypeInv, Types, Jobs
<1>3. Alone(w)
  BY <1>1, <1>2 DEF Alone, TypeInv, Types
<1>4. /\ job'[w].result = Raised /\ job'[w].kind = Kind(w) /\ job'[w].pc = At(w)
      /\ job'[w].read = job[w].read /\ job'[w].won = job[w].won
  BY <1>1 DEF Kind, At, TypeInv, Types, Jobs
<1>5. QED
  BY <1>3, <1>4 DEF Cancel, Raises

\* Whatever happens is one of these, of one worker.
LEMMA StepForms ==
  ASSUME TypeInv, Next
  PROVE  \/ UNCHANGED vars
         \/ \E w \in Worker : \/ Begins(w) \/ Reads(w) \/ Writes(w) \/ IsRefused(w)
                              \/ Deletes(w) \/ Raises(w)
<1>1. CASE Terminated
  BY <1>1 DEF Terminated
<1>2. ASSUME NEW w \in Worker, Begin(w) \/ Step(w) \/ Cancel(w)
      PROVE  Begins(w) \/ Reads(w) \/ Writes(w) \/ IsRefused(w) \/ Deletes(w) \/ Raises(w)
  BY <1>2, BeginForm, GetForm, DownloadForm, PutForm, PutRefusedForm, DeleteForm, CancelForm DEF Step
<1>3. QED
  BY <1>1, <1>2 DEF Next

(***************************************************************************)
(* The type invariant                                                      *)
(***************************************************************************)
LEMMA InitTypes == Init => TypeInv
<1> SUFFICES ASSUME Init PROVE TypeInv
  OBVIOUS
<1>1. NoJob \in Jobs /\ MaxAttempts \in Nat \ {0}
  BY DocumentsAssumption DEF NoJob, Jobs
<1>2. <<Initial>> \in Content
  BY SingleContent
<1>3. doc \in Objects \union {Absent} /\ (doc # Absent => doc.etag = 0)
  BY <1>2 DEF Init, Objects
<1>4. \A w \in Worker : <<>> \in Seq(Content \union {Absent})
  OBVIOUS
<1>5. Types
  BY <1>1, <1>3, <1>4 DEF Init, Types
<1>6. ASSUME NEW w \in Worker PROVE Proper(w) /\ Current(w)
  BY DEF Init, Proper, Current, NoJob, Stages, Kind, At, Running, Observes
<1>7. QED
  BY <1>5, <1>6 DEF TypeInv

\* A write leaves an object whose number is the last one, or none.
LEMMA WriteTypes ==
  ASSUME Types, NEW w \in Worker, Write(Absent) \/ (At(w) = "put" /\ Proper(w) /\ Write(Object(New(w)))),
         job' \in [Worker -> Jobs]
  PROVE  Types'
<1>1. CASE Write(Absent)
  <2>1. past' \in [Worker -> Seq(Content \union {Absent})]
    BY <1>1, WriteIsSeen
  <2>2. doc' = Absent /\ edition' = edition /\ UNCHANGED <<store, topic>>
    BY <1>1 DEF Write
  <2>3. QED
    BY <2>1, <2>2 DEF Types, Hashed
<1>2. CASE At(w) = "put" /\ Proper(w) /\ Write(Object(New(w)))
  <2>1. /\ Object(New(w)) \in Objects /\ Object(New(w)) # Absent
        /\ Object(New(w)).etag = IF Hashed THEN 0 ELSE edition + 1
    BY <1>2, Written
  <2>2. past' \in [Worker -> Seq(Content \union {Absent})]
    BY <1>2, <2>1, WriteIsSeen
  <2>3. doc' = Object(New(w)) /\ edition' = Object(New(w)).etag /\ UNCHANGED <<store, topic>>
    BY <1>2, <2>1 DEF Write
  <2>4. edition' \in Nat /\ (Hashed => edition' = 0)
    BY <2>1, <2>3 DEF Types
  <2>5. QED
    BY <2>1, <2>2, <2>3, <2>4 DEF Types, Hashed, Objects
<1>3. QED
  BY <1>1, <1>2

\* A step of one worker leaves the jobs of the others proper.
LEMMA OthersProper ==
  ASSUME TypeInv, NEW w \in Worker, Alone(w), UNCHANGED <<store, topic>>, NEW v \in Worker \ {w}
  PROVE  Proper(v)'
<1>1. job'[v] = job[v] /\ Proper(v)
  BY DEF Alone, TypeInv
<1>2. QED
  BY <1>1 DEF Proper, Kind, At, Running, NoJob

\* Neither does a step that ends, or moves on, its own job improperly.
LEMMA EndedProper ==
  ASSUME TypeInv, NEW w \in Worker, NEW r, NEW won, Running(w), Ended(w, r, won),
         UNCHANGED <<store, topic>>
  PROVE  Proper(w)'
<1>1. Proper(w) /\ At(w) # "idle" /\ Types
  BY DEF TypeInv, Running
<1>2. Kind(w) \in {"claim", "update", "amend", "restore", "delete", "watch"}
  BY <1>1, KindOfStage DEF Types, Jobs, Kind
<1>3. Kind(w)' = Kind(w) /\ At(w)' = "over" /\ At(w)' \in Stages[Kind(w)]
  BY <1>2 DEF Ended, Kind, At, Stages
<1>4. Kind(w)' \in Kinds[topic] \union {"none"}
  BY <1>1, <1>3 DEF Proper
<1>5. QED
  BY <1>3, <1>4 DEF Proper, Running

LEMMA MovedProper ==
  ASSUME TypeInv, NEW w \in Worker, Running(w),
         NEW pc \in {"get", "pinned", "put"}, NEW read, NEW tries, Moved(w, pc, read, tries),
         UNCHANGED <<store, topic>>,
         pc \in Stages[Kind(w)],
         pc = "put" => /\ Kind(w) \in {"claim", "restore"} => read = Absent
                       /\ Kind(w) = "amend" => read # Absent,
         pc = "pinned" => store = "gcs" /\ read # Absent
  PROVE  Proper(w)'
<1>1. Proper(w)
  BY DEF TypeInv
<1>2. Kind(w)' = Kind(w) /\ At(w)' = pc
  BY DEF Moved, Kind, At
<1>3. /\ job'[w].read = read /\ job'[w].result = job[w].result
  BY DEF Moved
<1>4. QED
  BY <1>1, <1>2, <1>3 DEF Proper, Running

LEMMA TypesStep ==
  ASSUME TypeInv, NEW w \in Worker,
         Begins(w) \/ Reads(w) \/ Writes(w) \/ IsRefused(w) \/ Deletes(w) \/ Raises(w)
  PROVE  Types' /\ Alone(w) /\ UNCHANGED <<store, topic>>
<1>1. Types /\ Proper(w)
  BY DEF TypeInv
<1>2. CASE Begins(w)
  <2>1. PICK kind \in Kinds[topic] :
          past' = [past EXCEPT ![w] = IF kind \in {"restore", "delete"} THEN <<>> ELSE <<Value(doc)>>]
    BY <1>2 DEF Begins
  <2>2. Value(doc) \in Content \union {Absent}
    BY <1>1, ContentIsSeq DEF Types
  <2>3. past' \in [Worker -> Seq(Content \union {Absent})]
    <3> DEFINE h == IF kind \in {"restore", "delete"} THEN <<>> ELSE <<Value(doc)>>
    <3>1. h \in Seq(Content \union {Absent})
      <4>1. /\ <<>> \in Seq(Content \union {Absent})
            /\ <<Value(doc)>> \in Seq(Content \union {Absent})
        BY <2>2
      <4>2. QED
        BY <4>1 DEF h
    <3> HIDE DEF h
    <3>2. past' = [past EXCEPT ![w] = h]
      BY <2>1 DEF h
    <3>3. QED
      BY <1>1, <3>1, <3>2 DEF Types
  <2>4. QED
    BY <1>1, <1>2, <2>3 DEF Begins, Types, Alone, Hashed
<1>3. CASE Reads(w) \/ IsRefused(w)
  BY <1>1, <1>3 DEF Reads, IsRefused, Keep, Types, Alone, Hashed
<1>4. CASE Writes(w)
  BY <1>1, <1>4, WriteTypes DEF Writes, Alone, Write
<1>5. CASE Deletes(w)
  <2>1. CASE Write(Absent)
    BY <1>1, <1>5, <2>1, WriteTypes DEF Deletes, Alone, Write
  <2>2. CASE Keep
    BY <1>1, <1>5, <2>2 DEF Deletes, Keep, Types, Alone, Hashed
  <2>3. QED
    BY <1>5, <2>1, <2>2 DEF Deletes
<1>6. CASE Raises(w)
  <2>1. past' \in [Worker -> Seq(Content \union {Absent})]
    BY <1>1, <1>6 DEF Raises, Types
  <2>2. QED
    BY <1>1, <1>6, <2>1 DEF Raises, Types, Alone, Hashed
<1>7. QED
  BY <1>2, <1>3, <1>4, <1>5, <1>6

\* A call that learns or is told something goes where its kind may go.
LEMMA LearnedProper ==
  ASSUME TypeInv, NEW w \in Worker, Running(w), NEW obj, Learned(w, obj), UNCHANGED <<store, topic>>
  PROVE  Proper(w)'
<1>1. /\ "get" \in Stages["watch"] /\ "put" \in Stages["claim"]
      /\ "put" \in Stages["update"] /\ "put" \in Stages["amend"]
  BY DEF Stages
<1>2. CASE \E r, won : Ended(w, r, won)
  BY <1>2, EndedProper
<1>3. CASE Kind(w) = "watch" /\ Moved(w, "get", Absent, job[w].tries + 1)
  BY <1>1, <1>3, MovedProper
<1>4. CASE Kind(w) = "claim" /\ Moved(w, "put", Absent, job[w].tries + 1)
  BY <1>1, <1>4, MovedProper
<1>5. CASE Kind(w) \in {"update", "amend"} /\ (Kind(w) = "amend" => obj # Absent) /\ Moved(w, "put", obj, job[w].tries)
  BY <1>1, <1>5, MovedProper
<1>6. QED
  BY <1>2, <1>3, <1>4, <1>5 DEF Learned

LEMMA ToldProper ==
  ASSUME TypeInv, NEW w \in Worker, Running(w), NEW won, Told(w, won), UNCHANGED <<store, topic>>
  PROVE  Proper(w)'
<1>1. "get" \in Stages["claim"] /\ "get" \in Stages["update"] /\ "get" \in Stages["amend"]
  BY DEF Stages
<1>2. CASE \E r, k : Ended(w, r, k)
  BY <1>2, EndedProper
<1>3. CASE Kind(w) = "claim" /\ Moved(w, "get", job[w].read, job[w].tries)
  BY <1>1, <1>3, MovedProper
<1>4. CASE Kind(w) \in {"update", "amend"} /\ Moved(w, "get", Absent, job[w].tries + 1)
  BY <1>1, <1>4, MovedProper
<1>5. QED
  BY <1>2, <1>3, <1>4 DEF Told

LEMMA ProperStep ==
  ASSUME TypeInv, NEW w \in Worker,
         Begins(w) \/ Reads(w) \/ Writes(w) \/ IsRefused(w) \/ Deletes(w) \/ Raises(w)
  PROVE  \A v \in Worker : Proper(v)'
<1>1. Types /\ Proper(w) /\ Alone(w) /\ UNCHANGED <<store, topic>>
  BY TypesStep DEF TypeInv
<1>2. \A v \in Worker \ {w} : Proper(v)'
  BY <1>1, OthersProper
<1>3. CASE Begins(w)
  <2>1. PICK kind \in Kinds[topic] :
          /\ job'[w].kind = kind /\ job'[w].pc = First(kind) /\ job'[w].read = Absent
          /\ job'[w].result = Pending
    BY <1>3 DEF Begins
  <2>2. topic \in {"claim", "document"}
    BY <1>1 DEF Types, Kinds
  <2>3. /\ kind \in {"claim", "update", "amend", "restore", "delete", "watch"}
        /\ First(kind) \in Stages[kind] /\ First(kind) \in {"get", "put", "delete"}
        /\ First(kind) = "put" => kind \in {"claim", "restore"}
    BY <2>2, FirstStage
  <2>4. Kind(w)' = kind /\ At(w)' = First(kind)
    BY <2>1 DEF Kind, At
  <2>5. Proper(w)'
    BY <1>1, <2>1, <2>3, <2>4 DEF Proper
  <2>6. QED
    BY <1>2, <2>5
<1>4. CASE Reads(w)
  <2>1. Running(w) /\ Kind(w) \in {"claim", "update", "amend", "watch"}
    BY <1>1, <1>4, KindOfStage DEF Reads, Running
  <2>2. "pinned" \in Stages[Kind(w)]
    BY <2>1 DEF Stages
  <2>3. CASE store = "gcs" /\ doc # Absent /\ Moved(w, "pinned", doc, job[w].tries)
    BY <1>1, <1>2, <2>1, <2>2, <2>3, MovedProper
  <2>4. CASE \E obj : Learned(w, obj)
    BY <1>1, <1>2, <2>1, <2>4, LearnedProper
  <2>5. QED
    BY <1>4, <2>3, <2>4 DEF Reads
<1>5. CASE Writes(w) \/ IsRefused(w)
  BY <1>1, <1>2, <1>5, ToldProper DEF Writes, IsRefused, Running
<1>6. CASE Deletes(w)
  BY <1>1, <1>2, <1>6, EndedProper DEF Deletes, Running
<1>7. CASE Raises(w)
  <2>1. Proper(w)'
    BY <1>1, <1>7 DEF Raises, Proper, Kind, At, Running
  <2>2. QED
    BY <1>2, <2>1
<1>8. QED
  BY <1>3, <1>4, <1>5, <1>6, <1>7

\* Whether a call is still watched, after a step.
LEMMA StillObserved ==
  ASSUME TypeInv, NEW w \in Worker,
         Begins(w) \/ Reads(w) \/ Writes(w) \/ IsRefused(w) \/ Deletes(w) \/ Raises(w),
         NEW v \in Worker
  PROVE  /\ v # w => (Observes(v)' <=> Observes(v))
         /\ ~Begins(w) /\ Observes(v)' => Observes(v)
         /\ v = w => (~Raises(w) /\ ~Deletes(w)) \/ ~Observes(v)'
<1>1. Types /\ Proper(w) /\ Alone(w)
  BY TypesStep DEF TypeInv
<1>2. v # w => (Observes(v)' <=> Observes(v))
  BY <1>1 DEF Alone, Observes, Running, At, Kind
<1>3. ASSUME Raises(w) \/ Deletes(w), v = w PROVE ~Observes(v)'
  BY <1>3, OutcomesAssumption DEF Raises, Deletes, Ended, Observes, Running, At, Kind
<1>4. ASSUME ~Begins(w), v = w, Observes(v)' PROVE Observes(v)
  <2>1. Reads(w) \/ Writes(w) \/ IsRefused(w)
    BY <1>3, <1>4
  <2>2. Running(w) /\ (\A r, won : ~Ended(w, r, won))
    BY <1>4, <2>1 DEF Reads, Writes, IsRefused, Running, Ended, Observes, At
  <2>3. (\E pc, read, tries : Moved(w, pc, read, tries)) \/ (\E r, won : Ended(w, r, won))
    BY <2>1 DEF Reads, Writes, IsRefused, Learned, Told
  <2>4. Kind(w)' = Kind(w) /\ job'[w].result = job[w].result
    BY <2>2, <2>3 DEF Moved, Kind
  <2>5. QED
    BY <1>4, <2>2, <2>4 DEF Observes
<1>5. QED
  BY <1>2, <1>3, <1>4

LEMMA CurrentStep ==
  ASSUME TypeInv, NEW w \in Worker,
         Begins(w) \/ Reads(w) \/ Writes(w) \/ IsRefused(w) \/ Deletes(w) \/ Raises(w)
  PROVE  \A v \in Worker : Current(v)'
<1> SUFFICES ASSUME NEW v \in Worker, Observes(v)'
             PROVE  Len(past'[v]) > 0 /\ past'[v][Len(past'[v])] = Value(doc')
  BY DEF Current, Value
<1>1. Types /\ Current(v) /\ past[v] \in Seq(Content \union {Absent})
  BY DEF TypeInv, Types
<1>2. Len(past[v]) \in Nat
  BY <1>1, LenProperties
<1>3. CASE Begins(w) /\ v = w
  <2>1. PICK kind \in Kinds[topic] :
          /\ job'[w].kind = kind
          /\ past' = [past EXCEPT ![w] = IF kind \in {"restore", "delete"} THEN <<>> ELSE <<Value(doc)>>]
    BY <1>3 DEF Begins
  <2>2. kind \notin {"restore", "delete"}
    BY <1>3, <2>1 DEF Observes, Kind
  <2>3. past'[v] = <<Value(doc)>> /\ doc' = doc
    BY <1>1, <1>3, <2>1, <2>2 DEF Begins, Types
  <2>4. QED
    BY <2>3
<1>4. CASE ~(Begins(w) /\ v = w)
  <2>1. Observes(v) /\ (v = w => ~Raises(w) /\ ~Deletes(w))
    BY <1>4, StillObserved
  <2>2. CASE past'[v] = past[v] /\ doc' = doc
    BY <1>1, <2>1, <2>2 DEF Current
  <2>3. CASE \E obj \in Objects \union {Absent} : Write(obj)
    <3>1. PICK obj \in Objects \union {Absent} : Write(obj)
      BY <2>3
    <3>2. doc' = obj
      BY <3>1 DEF Write
    <3>3. /\ Len(past'[v]) = Len(past[v]) + 1
          /\ past'[v][Len(past[v]) + 1] = Value(obj)
      BY <1>1, <2>1, <3>1, WriteIsSeen
    <3>4. QED
      BY <1>2, <3>2, <3>3
  <2>4. CASE Begins(w) \/ Raises(w)
    BY <1>1, <1>4, <2>1, <2>2, <2>4 DEF Begins, Raises, Types
  <2>5. CASE Reads(w) \/ IsRefused(w)
    BY <2>2, <2>5 DEF Reads, IsRefused, Keep
  <2>6. CASE Writes(w)
    <3>1. Proper(w) /\ At(w) = "put"
      BY <2>6 DEF TypeInv, Writes
    <3>2. QED
      BY <1>1, <2>3, <2>6, <3>1, Written DEF Writes
  <2>7. CASE Deletes(w)
    BY <2>2, <2>3, <2>7 DEF Deletes, Keep
  <2>8. QED
    BY <2>4, <2>5, <2>6, <2>7
<1>5. QED
  BY <1>3, <1>4

LEMMA TypeInvStep == TypeInv /\ [Next]_vars => TypeInv'
<1> SUFFICES ASSUME TypeInv, [Next]_vars PROVE TypeInv'
  OBVIOUS
<1>1. CASE UNCHANGED vars
  BY <1>1 DEF vars, TypeInv, Types, Hashed, Proper, Current, Kind, At, Running, Observes
<1>2. ASSUME NEW w \in Worker,
             Begins(w) \/ Reads(w) \/ Writes(w) \/ IsRefused(w) \/ Deletes(w) \/ Raises(w)
      PROVE  TypeInv'
  BY <1>2, TypesStep, ProperStep, CurrentStep DEF TypeInv
<1>3. QED
  BY <1>1, <1>2, StepForms

(***************************************************************************)
(* What a step leaves alone                                                *)
(***************************************************************************)
Acts(w) == Begins(w) \/ Reads(w) \/ Writes(w) \/ IsRefused(w) \/ Deletes(w) \/ Raises(w)

LEMMA StepLeaves ==
  ASSUME TypeInv, NEW w \in Worker, Acts(w)
  PROVE  /\ Types /\ Proper(w) /\ Proper(w)' /\ Alone(w) /\ UNCHANGED <<store, topic>>
         /\ \A v \in Worker \ {w} : job'[v] = job[v] /\ Kind(v)' = Kind(v)
         /\ Kind(w) # "none" => Kind(w)' = Kind(w)
         /\ Deleted => Deleted'
         /\ Begins(w) \/ Raises(w) =>
               doc' = doc /\ edition' = edition /\ \A v \in Worker \ {w} : past'[v] = past[v]
         /\ Reads(w) \/ IsRefused(w) => doc' = doc /\ edition' = edition /\ past' = past
         /\ Deletes(w) => (doc' = doc /\ edition' = edition /\ past' = past) \/ Write(Absent)
         /\ Writes(w) => Write(Object(New(w)))
<1>1. Types /\ Proper(w) /\ Alone(w) /\ UNCHANGED <<store, topic>>
  BY TypesStep DEF TypeInv, Acts
<1>2. Proper(w)'
  BY ProperStep DEF Acts
<1>3. \A v \in Worker \ {w} : job'[v] = job[v] /\ Kind(v)' = Kind(v)
  BY <1>1 DEF Alone, Kind
<1>4. Kind(w) # "none" => Kind(w)' = Kind(w)
  <2>1. Begins(w) => Kind(w) = "none"
    BY <1>1, KindOfStage DEF Begins
  <2>2. Kind(w)' = Kind(w) \/ Begins(w)
    BY DEF Acts, Reads, Writes, IsRefused, Deletes, Raises, Learned, Told, Ended, Moved, Kind
  <2>3. QED
    BY <2>1, <2>2
<1>5. Deleted => Deleted'
  BY <1>3, <1>4 DEF Deleted
<1>6. Begins(w) \/ Raises(w) => \A v \in Worker \ {w} : past'[v] = past[v]
  BY <1>1 DEF Begins, Raises, Types
<1>7. QED
  BY <1>1, <1>2, <1>3, <1>4, <1>5, <1>6 DEF Begins, Raises, Reads, IsRefused, Deletes, Writes, Keep

\* A call that begins has neither an answer nor a try behind it.
LEMMA BeginsFresh ==
  ASSUME TypeInv, NEW w \in Worker, Begins(w)
  PROVE  /\ At(w)' \in {"get", "put", "delete"} /\ job'[w].won = FALSE
         /\ job'[w].result = Pending /\ job'[w].tries = 0 /\ job'[w].read = Absent
         /\ At(w)' = "put" => Kind(w)' \in {"claim", "restore"}
         /\ Kind(w)' \notin {"restore", "delete"} => past'[w] = <<Value(doc)>>
         /\ job'[w].from \in {Absent, doc}
<1>1. PICK kind \in Kinds[topic], from \in {Absent, doc} :
          /\ job'[w].kind = kind /\ job'[w].pc = First(kind) /\ job'[w].read = Absent
          /\ job'[w].from = from /\ job'[w].tries = 0 /\ job'[w].won = FALSE
          /\ job'[w].result = Pending
          /\ past' = [past EXCEPT ![w] = IF kind \in {"restore", "delete"} THEN <<>> ELSE <<Value(doc)>>]
  BY DEF Begins
<1>2. /\ First(kind) \in {"get", "put", "delete"}
      /\ First(kind) = "put" => kind \in {"claim", "restore"}
  BY FirstStage DEF TypeInv, Types, Kinds
<1>3. kind \notin {"restore", "delete"} => past'[w] = <<Value(doc)>>
  BY <1>1 DEF TypeInv, Types
<1>4. QED
  BY <1>1, <1>2, <1>3 DEF At, Kind

(***************************************************************************)
(* Claims                                                                  *)
(***************************************************************************)
LEMMA DecidedStep ==
  ASSUME TypeInv, NEW w \in Worker, Acts(w), NEW v \in Worker, Decided(v)
  PROVE  Decided(v)'
<1> SUFFICES ASSUME Kind(v)' = "claim", ~Deleted'
             PROVE  /\ Answered(v)' /\ job'[v].result # Conflict =>
                          doc' # Absent /\ job'[v].result = doc'.value
                    /\ job'[v].won => doc' # Absent /\ doc'.value = <<v>>
  BY DEF Decided
<1>1. Types /\ Proper(w) /\ ~Deleted
  BY StepLeaves
<1>2. ~Deletes(w)
  <2>1. Deletes(w) => Kind(w)' = "delete"
    BY <1>1, KindOfStage DEF Deletes, Ended, Kind
  <2>2. QED
    BY <2>1 DEF Deleted
<1>3. Writes(w) /\ Kind(v) = "claim" =>
        Kind(w) = "claim" /\ doc = Absent /\ doc' # Absent /\ doc'.value = <<w>>
  <2> SUFFICES ASSUME Writes(w), Kind(v) = "claim"
               PROVE  Kind(w) = "claim" /\ doc = Absent /\ doc' # Absent /\ doc'.value = <<w>>
    OBVIOUS
  <2>1. Proper(v) /\ At(w) = "put" /\ doc = job[w].read /\ doc' = Object(New(w))
    BY DEF TypeInv, Writes, Write
  <2>2. Kind(w) = "claim"
    BY <1>1, <2>1, KindOfStage
  <2>3. job[w].read = Absent
    BY <1>1, <2>1, <2>2 DEF Proper
  <2>4. New(w) = <<w>>
    BY <2>2, <2>3 DEF New
  <2>5. QED
    BY <1>1, <2>1, <2>2, <2>3, <2>4, Written
<1>4. CASE v # w
  <2>1. Kind(v) = "claim" /\ job'[v] = job[v] /\ (Answered(v)' <=> Answered(v))
    BY <1>4, StepLeaves DEF Answered, At
  <2>2. CASE Writes(w)
    BY <1>1, <1>3, <2>1, <2>2 DEF Decided
  <2>3. CASE ~Writes(w)
    BY <1>1, <1>2, <2>1, <2>3, StepLeaves DEF Decided, Acts
  <2>4. QED
    BY <2>2, <2>3
<1>5. CASE v = w
  <2>1. CASE Begins(w)
    BY <1>5, <2>1, BeginsFresh DEF Answered
  <2>2. ~Begins(w) => Kind(w) = "claim"
    BY <1>5, StepLeaves, KindOfStage DEF Acts, Reads, Writes, IsRefused, Deletes, Raises, Running
  <2>3. Proper(w) /\ (Running(w) => job[w].result \in {Pending, Raised}) /\ Pending # Raised
    BY <1>1, OutcomesAssumption DEF Proper
  <2>4. CASE Reads(w)
    <3>1. doc' = doc /\ Running(w)
      BY <2>4, StepLeaves DEF Reads, Running
    <3>2. CASE \E pc \in {"pinned", "put", "get"} : \E read, tries : Moved(w, pc, read, tries)
      BY <1>1, <1>5, <2>2, <2>4, <3>1, <3>2 DEF Moved, Decided, Answered, At, Reads, Begins
    <3>3. CASE Ended(w, Conflict, FALSE)
      BY <1>5, <3>3 DEF Ended, Answered
    <3>4. CASE doc # Absent /\ Ended(w, doc.value, FALSE)
      BY <1>5, <3>1, <3>4 DEF Ended, Answered
    <3>5. QED
      BY <2>2, <2>4, <3>2, <3>3, <3>4 DEF Reads, Learned, Begins
  <2>5. CASE Writes(w)
    <3>1. Kind(w) = "claim" /\ doc = Absent /\ doc' # Absent /\ doc'.value = <<w>>
      BY <1>3, <1>5, <2>2, <2>5 DEF Writes, Begins
    <3>2. job[w].won = FALSE
      BY <1>1, <1>5, <3>1 DEF Decided, Types, Jobs
    <3>3. New(w) = doc'.value
      BY <1>1, <2>5, Written DEF Writes, Write
    <3>4. CASE Moved(w, "get", job[w].read, job[w].tries)
      BY <1>5, <3>2, <3>4 DEF Moved, Answered, At
    <3>5. CASE Ended(w, New(w), TRUE)
      BY <1>5, <3>1, <3>3, <3>5 DEF Ended, Answered
    <3>6. QED
      BY <2>5, <3>1, <3>4, <3>5 DEF Writes, Told
  <2>6. CASE IsRefused(w)
    <3>1. doc' = doc /\ Kind(w) = "claim"
      BY <2>2, <2>6, StepLeaves DEF IsRefused, Begins
    <3>2. Moved(w, "get", job[w].read, job[w].tries)
      BY <2>6, <3>1 DEF IsRefused, Told
    <3>3. QED
      BY <1>1, <1>5, <3>1, <3>2 DEF Moved, Answered, At, Decided
  <2>7. CASE Raises(w)
    BY <1>1, <1>5, <2>7 DEF Raises, Answered, At, Decided, Kind
  <2>8. QED
    BY <1>2, <2>1, <2>4, <2>5, <2>6, <2>7 DEF Acts
<1>6. QED
  BY <1>4, <1>5

(***************************************************************************)
(* Updates                                                                 *)
(***************************************************************************)
\* An update or amend has its answer in its last step, and Done only by its put.
LEMMA AnswerOfUpdate ==
  ASSUME TypeInv, NEW w \in Worker, Acts(w), Kind(w)' \in {"update", "amend"}
  PROVE  /\ job'[w].result = Done => Writes(w)
         /\ Writes(w) /\ job[w].result = Pending /\ Told(w, TRUE) => job'[w].result = Done
         /\ job'[w].result \notin {Raised, Done} => job[w].result # Raised
         /\ ~Begins(w) => job[w].result \in {Pending, Raised} /\ Kind(w) \in {"update", "amend"}
<1>1. Types /\ Proper(w)
  BY DEF TypeInv
<1>2. ~Begins(w) => Running(w) /\ Kind(w) \in {"update", "amend"} /\ ~Deletes(w)
  <2>1. Reads(w) \/ Writes(w) \/ IsRefused(w) \/ Raises(w) => Running(w)
    BY DEF Reads, Writes, IsRefused, Raises, Running
  <2>2. ~Deletes(w)
    BY <1>1, KindOfStage DEF Deletes, Ended, Kind
  <2>3. Running(w) => Kind(w) # "none"
    BY <1>1, KindOfStage DEF Running
  <2>4. QED
    BY <2>1, <2>2, <2>3, StepLeaves DEF Acts
<1>3. ~Begins(w) => job[w].result \in {Pending, Raised}
  BY <1>1, <1>2 DEF Proper
<1>4. CASE Begins(w)
  <2>1. job'[w].result = Pending /\ job[w].result = Pending
    BY <1>1, <1>4, BeginsFresh DEF Begins, Proper, NoJob
  <2>2. QED
    BY <1>4, <2>1, OutcomesAssumption DEF Begins, Writes
<1>5. Writes(w) /\ job[w].result = Pending /\ Told(w, TRUE) => job'[w].result = Done
  <2> SUFFICES ASSUME Writes(w), job[w].result = Pending, Told(w, TRUE)
               PROVE  job'[w].result = Done
    OBVIOUS
  <2>1. Kind(w) \in {"update", "amend"}
    BY <1>2 DEF Writes, Begins
  <2>2. QED
    BY <2>1 DEF Told, Ended
<1>6. CASE Raises(w)
  BY <1>2, <1>3, <1>6, <1>5, OutcomesAssumption DEF Raises, Begins, Running
<1>7. CASE Reads(w)
  <2>1. /\ At(w) \in {"get", "pinned"} /\ Kind(w) \in {"update", "amend"}
        /\ job[w].result \in {Pending, Raised}
    BY <1>2, <1>3, <1>7 DEF Reads, Begins
  <2>2. \/ \E pc, read, tries : Moved(w, pc, read, tries)
        \/ Ended(w, Missing, FALSE)
    BY <1>7, <2>1 DEF Reads, Learned
  <2>3. QED
    BY <2>1, <2>2, OutcomesAssumption DEF Ended, Moved, Writes
<1>8. CASE IsRefused(w)
  <2>1. /\ At(w) = "put" /\ Kind(w) \in {"update", "amend"}
        /\ job[w].result \in {Pending, Raised}
    BY <1>2, <1>3, <1>8 DEF IsRefused, Begins
  <2>2. \/ \E pc, read, tries : Moved(w, pc, read, tries)
        \/ Ended(w, Conflict, FALSE)
    BY <1>8, <2>1 DEF IsRefused, Told
  <2>3. job'[w].result # Done /\ (job'[w].result # Raised => job[w].result # Raised)
    BY <2>1, <2>2, OutcomesAssumption DEF Ended, Moved
  <2>4. QED
    BY <1>2, <1>3, <1>5, <2>3
<1>9. CASE Writes(w)
  <2>1. /\ Kind(w) \in {"update", "amend"} /\ job[w].result \in {Pending, Raised}
    BY <1>2, <1>3, <1>9 DEF Writes, Begins
  <2>2. Told(w, TRUE) => Ended(w, Done, TRUE)
    BY <2>1 DEF Told
  <2>3. Told(w, FALSE) => \/ \E pc, read, tries : Moved(w, pc, read, tries)
                          \/ Ended(w, Conflict, FALSE)
    BY <2>1 DEF Told
  <2>4. QED
    BY <1>2, <1>3, <1>9, <2>1, <2>2, <2>3, OutcomesAssumption DEF Ended, Moved, Writes
<1>10. QED
  BY <1>2, <1>4, <1>6, <1>7, <1>8, <1>9 DEF Acts

LEMMA KeptStep ==
  ASSUME TypeInv, NEW w \in Worker, Acts(w), NEW v \in Worker, Kept(v)
  PROVE  Kept(v)'
<1> SUFFICES ASSUME Kind(v)' \in {"update", "amend"}, job'[v].result = Done, ~Deleted'
             PROVE  doc' # Absent /\ v \in Range(doc'.value)
  BY DEF Kept
<1>1. Types /\ Proper(w) /\ ~Deleted /\ ~Deletes(w)
  <2>1. Types /\ Proper(w) /\ ~Deleted
    BY StepLeaves
  <2>2. Deletes(w) => Kind(w)' = "delete"
    BY <2>1, KindOfStage DEF Deletes, Ended, Kind
  <2>3. QED
    BY <2>1, <2>2 DEF Deleted
<1>2. Writes(w) => /\ doc' = Object(New(w)) /\ doc' # Absent /\ doc'.value = New(w)
                   /\ At(w) = "put" /\ doc = job[w].read
  BY <1>1, Written DEF Writes, Write
<1>3. CASE v # w
  <2>1. Kind(v) \in {"update", "amend"} /\ job[v].result = Done
    BY <1>3, StepLeaves
  <2>2. doc # Absent /\ v \in Range(doc.value)
    BY <1>1, <2>1 DEF Kept
  <2>3. CASE Writes(w)
    <3>1. Kind(w) \in {"update", "amend"}
      BY <1>1, <1>2, <2>2, <2>3, KindOfStage DEF Proper
    <3>2. New(w) = Append(doc.value, w) /\ doc.value \in Content
      BY <1>1, <1>2, <2>2, <2>3, <3>1 DEF New, Types, Objects
    <3>3. Range(doc.value) \subseteq Range(New(w))
      BY <3>2, AppendedContent
    <3>4. QED
      BY <1>2, <2>2, <2>3, <3>3
  <2>4. CASE ~Writes(w)
    BY <1>1, <2>2, <2>4, StepLeaves DEF Acts
  <2>5. QED
    BY <2>3, <2>4
<1>4. CASE v = w
  <2>1. Writes(w)
    BY <1>4, AnswerOfUpdate
  <2>2. Kind(w) \in {"update", "amend"}
    BY <1>1, <1>2, <1>4, <2>1, StepLeaves, KindOfStage
  <2>3. New(w) = <<w>> \/ (New(w) = Append(doc.value, w) /\ doc.value \in Content)
    BY <1>1, <1>2, <2>1, <2>2 DEF New, Types, Objects
  <2>4. w \in Range(New(w))
    BY <2>3, AppendedContent, SingleContent
  <2>5. QED
    BY <1>2, <1>4, <2>1, <2>4
<1>5. QED
  BY <1>3, <1>4

\* The entries of a history that a worker wrote.
Signed(s, w) == {i \in 2..Len(s) : s[i] # Absent /\ s[i][Len(s[i])] = w}

LEMMA SignedAppend ==
  ASSUME NEW s \in Seq(Content \union {Absent}), Len(s) > 0,
         NEW x \in Content \union {Absent}, NEW w
  PROVE  Signed(Append(s, x), w) =
           IF x # Absent /\ x[Len(x)] = w THEN Signed(s, w) \union {Len(s) + 1} ELSE Signed(s, w)
<1>1. Len(s) \in Nat
  BY LenProperties
<1>2. /\ Len(Append(s, x)) = Len(s) + 1
      /\ \A i \in 1..Len(s) : Append(s, x)[i] = s[i]
      /\ Append(s, x)[Len(s) + 1] = x
  BY AppendProperties
<1>3. 2..(Len(s) + 1) = 2..Len(s) \union {Len(s) + 1}
  BY <1>1
<1>4. ASSUME NEW i \in 2..Len(s)
      PROVE  Append(s, x)[i] = s[i] /\ i # Len(s) + 1
  BY <1>1, <1>2
<1>5. QED
  BY <1>2, <1>3, <1>4 DEF Signed

LEMMA LandingsSigned == \A w \in Worker : Landings(w) = Cardinality(Signed(past[w], w))
  BY DEF Landings, Signed

LEMMA LandedStep ==
  ASSUME TypeInv, NEW w \in Worker, Acts(w), NEW v \in Worker, Landed(v)
  PROVE  Landed(v)'
<1> SUFFICES ASSUME Kind(v)' \in {"update", "amend"}, job'[v].result # Raised,
                    store' = "filesystem"
             PROVE  Landings(v)' = IF job'[v].result = Done THEN 1 ELSE 0
  BY DEF Landed
<1>1. Types /\ Proper(w) /\ store = "filesystem" /\ past[v] \in Seq(Content \union {Absent})
  BY StepLeaves DEF Types
<1>2. Landings(v)' = Cardinality(Signed(past'[v], v))
  BY DEF Landings, Signed
<1>3. /\ Cardinality({}) = 0 /\ \A x : Cardinality({x}) = 1
      /\ Pending # Done /\ Pending # Raised
  BY FS_EmptySet, FS_Singleton, OutcomesAssumption
<1>4. CASE Begins(w) /\ v = w
  <2>1. past'[v] = <<Value(doc)>> /\ job'[v].result = Pending
    BY <1>4, BeginsFresh
  <2>2. Signed(past'[v], v) = {}
    BY <2>1 DEF Signed
  <2>3. QED
    BY <1>2, <1>3, <2>1, <2>2
<1>5. CASE ~(Begins(w) /\ v = w)
  <2>1. /\ Kind(v) \in {"update", "amend"} /\ job[v].result # Raised
        /\ v = w => job[v].result = Pending /\ Running(v)
    <3>1. CASE v # w
      BY <3>1, StepLeaves
    <3>2. CASE v = w
      <4>1. Kind(v) \in {"update", "amend"} /\ job[v].result \in {Pending, Raised}
        BY <1>5, <3>2, AnswerOfUpdate
      <4>2. Running(v)
        BY <1>5, <3>2 DEF Acts, Reads, Writes, IsRefused, Deletes, Raises, Running
      <4>3. job[v].result # Raised
        <5>1. ~Raises(w)
          BY <3>2 DEF Raises
        <5>2. (\E pc, read, tries : Moved(w, pc, read, tries)) \/ (\E r, won : Ended(w, r, won))
          BY <1>5, <3>2, <5>1 DEF Acts, Reads, Writes, IsRefused, Deletes, Learned, Told
        <5>3. QED
          BY <1>3, <3>2, <5>2 DEF Moved, Ended
      <4>4. QED
        BY <4>1, <4>2, <4>3
    <3>3. QED
      BY <3>1, <3>2
  <2>2. Landings(v) = IF job[v].result = Done THEN 1 ELSE 0
    BY <1>1, <2>1 DEF Landed
  <2>3. Observes(v) <=> Running(v) /\ job[v].result = Pending
    BY <2>1 DEF Observes
  <2>4. Observes(v) => Signed(past[v], v) = {} /\ Len(past[v]) > 0
    <3>1. ASSUME Observes(v) PROVE Landings(v) = 0 /\ Len(past[v]) > 0
      BY <1>3, <2>2, <2>3, <3>1 DEF TypeInv, Current
    <3>2. Len(past[v]) \in Nat
      BY <1>1, LenProperties
    <3>3. IsFiniteSet(Signed(past[v], v))
      <4>1. IsFiniteSet(2..Len(past[v]))
        BY <3>2, FS_Interval
      <4>2. QED
        BY <4>1, FS_Subset DEF Signed
    <3>4. QED
      BY <3>1, <3>3, LandingsSigned, FS_EmptySet
  <2>5. CASE past'[v] = past[v] /\ (v = w => ~Writes(w))
    <3>1. Landings(v)' = Landings(v)
      BY <1>2, <2>5, LandingsSigned
    <3>2. v = w => job[v].result # Done /\ job'[v].result # Done
      BY <1>3, <2>1, <2>5, AnswerOfUpdate
    <3>3. v # w => job'[v] = job[v]
      BY StepLeaves
    <3>4. QED
      BY <2>2, <3>1, <3>2, <3>3
  <2>6. ASSUME NEW obj \in Objects \union {Absent}, Write(obj),
               v # w => obj = Absent \/ obj.value[Len(obj.value)] # v,
               v = w => Observes(v) /\ obj # Absent /\ obj.value[Len(obj.value)] = v
                        /\ job'[v].result = Done
        PROVE  Landings(v)' = IF job'[v].result = Done THEN 1 ELSE 0
    <3>1. CASE ~Observes(v)
      BY <1>1, <2>5, <2>6, <3>1, WriteIsSeen
    <3>2. CASE Observes(v)
      <4>1. past'[v] = Append(past[v], Value(obj)) /\ Value(obj) \in Content \union {Absent}
        BY <1>1, <2>6, <3>2, WriteIsSeen
      <4>2. /\ obj = Absent => Value(obj) = Absent
            /\ obj # Absent => Value(obj) = obj.value /\ Value(obj) # Absent
        BY <2>6, ContentIsSeq
      <4>3. Signed(past'[v], v) = IF v = w THEN {Len(past[v]) + 1} ELSE {}
        <5>1. Signed(Append(past[v], Value(obj)), v) =
                IF Value(obj) # Absent /\ Value(obj)[Len(Value(obj))] = v
                THEN Signed(past[v], v) \union {Len(past[v]) + 1} ELSE Signed(past[v], v)
          BY <1>1, <2>4, <3>2, <4>1, SignedAppend
        <5>2. Signed(past[v], v) = {}
          BY <2>4, <3>2
        <5>3. Value(obj) # Absent /\ Value(obj)[Len(Value(obj))] = v <=> v = w
          BY <2>6, <4>2
        <5>4. QED
          BY <4>1, <5>1, <5>2, <5>3
      <4>4. v # w => job'[v] = job[v] /\ job[v].result # Done
        BY <1>3, <2>3, <3>2, StepLeaves
      <4>5. QED
        BY <1>2, <1>3, <2>6, <4>3, <4>4
    <3>3. QED
      BY <3>1, <3>2
  <2>7. CASE Writes(w)
    <3>1. /\ Write(Object(New(w))) /\ Object(New(w)) \in Objects /\ Object(New(w)) # Absent
          /\ Object(New(w)).value = New(w) /\ At(w) = "put"
          /\ Kind(w) # "restore" => New(w)[Len(New(w))] = w
          /\ Kind(w) = "restore" => New(w) = <<Initial>>
      BY <1>1, <2>7, Written DEF Writes
    <3>2. v # w => New(w)[Len(New(w))] # v
      BY <3>1 DEF Worker, Initial
    <3>3. v = w => Observes(v) /\ New(w)[Len(New(w))] = v /\ job'[v].result = Done
      BY <1>1, <2>1, <2>3, <2>7, <3>1, AnswerOfUpdate DEF Writes
    <3>4. QED
      BY <2>6, <3>1, <3>2, <3>3
  <2>8. CASE Deletes(w)
    <3>1. v # w
      BY <1>1, <2>1, <2>8, KindOfStage DEF Deletes
    <3>2. CASE past' = past
      BY <2>5, <3>1, <3>2
    <3>3. CASE Write(Absent)
      BY <2>6, <3>1, <3>3
    <3>4. QED
      BY <2>8, <3>2, <3>3, StepLeaves
  <2>9. CASE Begins(w) \/ Raises(w)
    <3>1. v # w
      BY <1>5, <2>9 DEF Raises
    <3>2. QED
      BY <2>5, <2>9, <3>1, StepLeaves
  <2>10. CASE Reads(w) \/ IsRefused(w)
    <3>1. CASE ~Writes(w)
      BY <2>5, <2>10, <3>1, StepLeaves
    <3>2. QED
      BY <2>7, <3>1
  <2>11. QED
    BY <2>7, <2>8, <2>9, <2>10 DEF Acts
<1>6. QED
  BY <1>4, <1>5

(***************************************************************************)
(* Answers                                                                 *)
(***************************************************************************)
LEMMA Endings ==
  ASSUME TypeInv, NEW w \in Worker, Acts(w), At(w)' = "over", job'[w].result # Raised
  PROVE  /\ Running(w) /\ job[w].result = Pending
         /\ \/ /\ Reads(w) /\ Kind(w) \in {"claim", "watch"} /\ doc # Absent
               /\ job'[w].result = doc.value
            \/ /\ Reads(w) /\ Kind(w) = "watch" /\ job'[w].result = TimedOut
               /\ doc \in {Absent, job[w].from} \/ (At(w) = "pinned" /\ doc # job[w].read)
            \/ /\ Reads(w) /\ Kind(w) = "claim" /\ job'[w].result = Conflict
               /\ job[w].tries + 1 = MaxAttempts
               /\ (At(w) = "get" /\ doc = Absent) \/ (At(w) = "pinned" /\ doc # job[w].read)
            \/ /\ Reads(w) /\ Kind(w) = "amend" /\ job'[w].result = Missing
               /\ doc = Absent \/ store = "gcs"
            \/ Writes(w) /\ Kind(w) = "claim" /\ job'[w].result = New(w)
            \/ /\ Writes(w) \/ IsRefused(w)
               /\ Kind(w) \in {"update", "amend"} /\ job'[w].result = Conflict
               /\ job[w].tries + 1 = MaxAttempts
            \/ /\ job'[w].result \in {Done, Refused}
               /\ Kind(w) \in {"restore", "delete", "update", "amend"}
<1>1. Types /\ Proper(w) /\ job'[w].pc = "over"
  BY DEF TypeInv, At
<1>2. ~Begins(w)
  BY BeginsFresh
<1>3. ~Raises(w)
  BY DEF Raises
<1>4. Running(w)
  BY <1>2, <1>3 DEF Acts, Reads, Writes, IsRefused, Deletes, Running
<1>5. ASSUME NEW pc \in {"get", "pinned", "put"}, NEW read, NEW tries
      PROVE  ~Moved(w, pc, read, tries)
  BY <1>1 DEF Moved
<1>6. ASSUME NEW r, NEW won, Ended(w, r, won)
      PROVE  job[w].result = Pending /\ job'[w].result = r
  BY <1>6 DEF Ended
<1>7. At(w) = "pinned" => store = "gcs" /\ job[w].read # Absent
  BY <1>1 DEF Proper
<1>8. CASE Reads(w)
  <2>1. PICK obj : /\ Learned(w, obj)
                   /\ \/ obj = doc
                      \/ At(w) = "pinned" /\ doc # job[w].read /\ obj = Absent
                   /\ At(w) \in {"get", "pinned"}
                   /\ At(w) = "pinned" /\ obj = doc => doc = job[w].read \/ doc = Absent
    BY <1>5, <1>8 DEF Reads
  <2>2. \/ /\ Kind(w) \in {"watch", "claim"} /\ obj # Absent
           /\ Ended(w, obj.value, FALSE)
        \/ /\ Kind(w) = "watch" /\ (obj = Absent \/ obj = job[w].from)
           /\ Ended(w, TimedOut, FALSE)
        \/ /\ Kind(w) = "claim" /\ obj = Absent /\ job[w].tries + 1 = MaxAttempts
           /\ Ended(w, Conflict, FALSE)
        \/ Kind(w) = "amend" /\ obj = Absent /\ Ended(w, Missing, FALSE)
    BY <1>5, <2>1 DEF Learned
  <2>3. CASE Kind(w) \in {"watch", "claim"} /\ obj # Absent /\ Ended(w, obj.value, FALSE)
    BY <1>4, <1>6, <1>8, <2>1, <2>3
  <2>4. CASE Kind(w) = "watch" /\ (obj = Absent \/ obj = job[w].from) /\ Ended(w, TimedOut, FALSE)
    BY <1>4, <1>6, <1>8, <2>1, <2>4
  <2>5. CASE Kind(w) = "claim" /\ obj = Absent /\ job[w].tries + 1 = MaxAttempts
             /\ Ended(w, Conflict, FALSE)
    BY <1>4, <1>6, <1>7, <1>8, <2>1, <2>5
  <2>6. CASE Kind(w) = "amend" /\ obj = Absent /\ Ended(w, Missing, FALSE)
    BY <1>4, <1>6, <1>7, <1>8, <2>1, <2>6
  <2>7. QED
    BY <2>2, <2>3, <2>4, <2>5, <2>6
<1>9. CASE Writes(w) \/ IsRefused(w)
  <2>1. PICK told : Told(w, told) /\ (told => Writes(w))
    BY <1>9 DEF Writes, IsRefused
  <2>2. \/ Kind(w) = "claim" /\ told /\ Ended(w, New(w), TRUE)
        \/ Kind(w) = "restore" /\ Ended(w, Done, TRUE)
        \/ Kind(w) = "restore" /\ Ended(w, Refused, FALSE)
        \/ Kind(w) \in {"update", "amend"} /\ Ended(w, Done, TRUE)
        \/ /\ Kind(w) \in {"update", "amend"} /\ job[w].tries + 1 = MaxAttempts
           /\ Ended(w, Conflict, FALSE)
    BY <1>5, <2>1 DEF Told
  <2>3. QED
    BY <1>4, <1>6, <1>9, <2>1, <2>2
<1>10. CASE Deletes(w)
  BY <1>1, <1>4, <1>6, <1>10, KindOfStage DEF Deletes
<1>11. QED
  BY <1>2, <1>3, <1>8, <1>9, <1>10 DEF Acts

LEMMA TruthfulStep ==
  ASSUME TypeInv, NEW w \in Worker, Acts(w), NEW v \in Worker, Truthful(v)
  PROVE  Truthful(v)'
<1> SUFFICES ASSUME Answered(v)'
             PROVE  /\ Kind(v)' \in {"claim", "watch"} /\ job'[v].result \notin {Conflict, TimedOut} =>
                          job'[v].result \in Range(past'[v])
                    /\ job'[v].result = Missing /\ store' # "gcs" => Absent \in Range(past'[v])
  BY DEF Truthful
<1>1. /\ Types /\ Proper(w) /\ doc \in Objects \union {Absent}
      /\ past[v] \in Seq(Content \union {Absent})
  BY DEF TypeInv, Types
<1>2. CASE v # w
  <2>1. job'[v] = job[v] /\ Kind(v)' = Kind(v) /\ Answered(v) /\ ~Observes(v) /\ store' = store
    BY <1>2, StepLeaves DEF Answered, At, Observes, Running
  <2>2. past'[v] = past[v]
    <3>1. ASSUME NEW obj \in Objects \union {Absent}, Write(obj) PROVE past'[v] = past[v]
      BY <1>1, <2>1, <3>1, WriteIsSeen
    <3>2. Writes(w) => Object(New(w)) \in Objects
      BY <1>1, Written DEF Writes
    <3>3. QED
      BY <1>2, <3>1, <3>2, StepLeaves DEF Acts
  <2>3. QED
    BY <2>1, <2>2 DEF Truthful
<1>3. CASE v = w
  <2>1. At(w)' = "over" /\ job'[w].result # Raised
    BY <1>3 DEF Answered
  <2>2. Kind(w) # "none"
    BY <1>1, <2>1, Endings, KindOfStage DEF Running
  <2>3. Kind(w)' = Kind(w) /\ store' = store
    BY <2>2, StepLeaves
  <2>4. Kind(w) \notin {"restore", "delete"} => Observes(w) /\ Value(doc) \in Range(past[w])
    <3> SUFFICES ASSUME Kind(w) \notin {"restore", "delete"}
                 PROVE  Observes(w) /\ Value(doc) \in Range(past[w])
      OBVIOUS
    <3>1. Observes(w) /\ Current(w)
      BY <2>1, Endings DEF Observes, TypeInv
    <3>2. past[w][Len(past[w])] = Value(doc) /\ Len(past[w]) > 0
      BY <3>1 DEF Current
    <3>3. DOMAIN past[w] = 1..Len(past[w]) /\ Len(past[w]) \in Nat
      BY <1>1, <1>3, LenProperties
    <3>4. QED
      BY <3>1, <3>2, <3>3 DEF Range
  <2>5. CASE Reads(w)
    <3>1. past' = past
      BY <2>5, StepLeaves
    <3>2. /\ doc = Absent => Value(doc) = Absent
          /\ doc # Absent => Value(doc) = doc.value /\ doc.value # Missing
      BY <1>1, ContentIsSeq DEF Objects
    <3>3. Missing \notin {Conflict, TimedOut, Done, Refused}
      BY OutcomesAssumption
    <3>4. \/ Kind(w) \in {"claim", "watch"} /\ doc # Absent /\ job'[w].result = doc.value
          \/ Kind(w) = "watch" /\ job'[w].result = TimedOut
          \/ Kind(w) = "claim" /\ job'[w].result = Conflict
          \/ Kind(w) = "amend" /\ job'[w].result = Missing /\ (doc = Absent \/ store = "gcs")
          \/ Kind(w) \notin {"claim", "watch"} /\ job'[w].result \in {Conflict, Done, Refused}
      <4>1. ~Writes(w) \/ Kind(w) # "claim" \/ At(w) = "put"
        BY DEF Writes
      <4>2. ~(At(w) = "put")
        BY <2>5 DEF Reads
      <4>3. QED
        BY <2>1, <4>1, <4>2, Endings
    <3>5. QED
      BY <1>3, <2>3, <2>4, <3>1, <3>2, <3>3, <3>4
  <2>6. CASE ~Reads(w)
    <3>1. \/ Writes(w) /\ Kind(w) = "claim" /\ job'[w].result = New(w)
          \/ job'[w].result \in {Conflict, Done, Refused} /\ Kind(w) \notin {"claim", "watch"}
      BY <2>1, <2>6, Endings
    <3>2. Missing \notin {Conflict, Done, Refused}
      BY OutcomesAssumption
    <3>3. CASE Writes(w) /\ Kind(w) = "claim" /\ job'[w].result = New(w)
      <4>1. /\ Object(New(w)) \in Objects /\ Object(New(w)).value = New(w) /\ New(w) \in Content
            /\ Write(Object(New(w)))
        BY <1>1, <3>3, Written DEF Writes
      <4>2. Value(Object(New(w))) = New(w) /\ New(w) # Missing
        BY <4>1, ContentIsSeq
      <4>3. New(w) \in Range(past'[w])
        BY <1>1, <2>4, <3>3, <4>1, <4>2, WriteIsSeen
      <4>4. QED
        BY <1>3, <3>3, <4>2, <4>3
    <3>4. QED
      BY <1>3, <2>3, <3>1, <3>2, <3>3
  <2>7. QED
    BY <2>5, <2>6
<1>4. QED
  BY <1>2, <1>3

(***************************************************************************)
(* Giving up                                                               *)
(***************************************************************************)
\* The part of Overtaken that speaks of a call under way.
Pursued(w) ==
    Observes(w) /\ Kind(w) \in {"claim", "update", "amend"} =>
        /\ Len(past[w]) > job[w].tries
        /\ Kind(w) = "claim" /\ At(w) = "get" /\ doc = Absent => Len(past[w]) > job[w].tries + 1
        /\ Kind(w) # "claim" /\ At(w) = "put" /\ doc # job[w].read => Len(past[w]) > job[w].tries + 1
        /\ At(w) = "pinned" /\ doc # job[w].read => Len(past[w]) > job[w].tries + 1

LEMMA OvertakenParts ==
  \A w \in Worker : Overtaken(w) <=> (store # "s3" =>
      Pursued(w) /\ (job[w].result = Conflict => Len(past[w]) > MaxAttempts))
  BY DEF Overtaken, Pursued

LEMMA PursuedStep ==
  ASSUME TypeInv, NEW w \in Worker, Acts(w), store # "s3", NEW v \in Worker, Pursued(v)
  PROVE  Pursued(v)'
<1> SUFFICES ASSUME Observes(v)', Kind(v)' \in {"claim", "update", "amend"}
             PROVE  /\ Len(past'[v]) > job'[v].tries
                    /\ Kind(v)' = "claim" /\ At(v)' = "get" /\ doc' = Absent =>
                          Len(past'[v]) > job'[v].tries + 1
                    /\ Kind(v)' # "claim" /\ At(v)' = "put" /\ doc' # job'[v].read =>
                          Len(past'[v]) > job'[v].tries + 1
                    /\ At(v)' = "pinned" /\ doc' # job'[v].read => Len(past'[v]) > job'[v].tries + 1
  BY DEF Pursued
<1>1. /\ Types /\ Proper(w) /\ doc \in Objects \union {Absent}
      /\ Len(past[v]) \in Nat /\ job[v].tries \in Nat
  <2>1. past[v] \in Seq(Content \union {Absent}) /\ job[v] \in Jobs
    BY DEF TypeInv, Types
  <2>2. QED
    BY <2>1, LenProperties DEF TypeInv, Types, Jobs
<1>2. CASE Begins(w) /\ v = w
  <2>1. /\ past'[v] = <<Value(doc)>> /\ job'[v].tries = 0 /\ At(v)' \in {"get", "put", "delete"}
        /\ At(v)' = "put" => Kind(v)' \in {"claim", "restore"}
        /\ Kind(v)' = "claim" => At(v)' # "get"
    <3>1. PICK kind \in Kinds[topic] : job'[w].kind = kind /\ job'[w].pc = First(kind)
      BY <1>2 DEF Begins
    <3>2. kind = "claim" => First(kind) = "put"
      BY DEF First
    <3>3. Kind(v)' = "claim" => At(v)' # "get"
      BY <1>2, <3>1, <3>2 DEF Kind, At
    <3>4. QED
      BY <1>2, <3>3, BeginsFresh
  <2>2. Len(past'[v]) = 1
    BY <2>1
  <2>3. QED
    BY <2>1, <2>2
<1>3. ASSUME v # w \/ ~Begins(w)
      PROVE  Observes(v) /\ (v = w => ~Raises(w) /\ ~Deletes(w))
  BY <1>3, StillObserved DEF Acts
<1>4. CASE v # w
  <2>1. job'[v] = job[v] /\ At(v)' = At(v) /\ Kind(v)' = Kind(v) /\ Observes(v)
    BY <1>3, <1>4, StepLeaves DEF At
  <2>2. CASE past'[v] = past[v] /\ doc' = doc
    BY <2>1, <2>2 DEF Pursued
  <2>3. ASSUME NEW obj \in Objects \union {Absent}, Write(obj)
        PROVE  Len(past'[v]) = Len(past[v]) + 1
    BY <1>1, <2>1, <2>3, WriteIsSeen
  <2>4. CASE Len(past'[v]) = Len(past[v]) + 1
    BY <1>1, <2>1, <2>4 DEF Pursued
  <2>5. Writes(w) => Object(New(w)) \in Objects
    BY <1>1, Written DEF Writes
  <2>6. QED
    BY <1>4, <2>2, <2>3, <2>4, <2>5, StepLeaves DEF Acts
<1>5. CASE v = w /\ ~Begins(w)
  <2>1. Observes(w) /\ ~Raises(w) /\ ~Deletes(w) /\ Running(w) /\ Kind(w)' = Kind(w)
    BY <1>3, <1>5, StepLeaves, KindOfStage DEF Observes, Running
  <2>2. /\ Len(past[w]) > job[w].tries
        /\ Kind(w) = "claim" /\ At(w) = "get" /\ doc = Absent => Len(past[w]) > job[w].tries + 1
        /\ Kind(w) # "claim" /\ At(w) = "put" /\ doc # job[w].read => Len(past[w]) > job[w].tries + 1
        /\ At(w) = "pinned" /\ doc # job[w].read => Len(past[w]) > job[w].tries + 1
    BY <1>5, <2>1 DEF Pursued
  <2>3. ASSUME NEW r, NEW won PROVE ~Ended(w, r, won)
    BY <1>5 DEF Ended, Observes, Running, At
  <2>4. CASE Reads(w)
    <3>1. past' = past /\ doc' = doc
      BY <2>4, StepLeaves
    <3>2. CASE Moved(w, "pinned", doc, job[w].tries)
      BY <1>1, <1>5, <2>2, <3>1, <3>2 DEF Moved, At
    <3>3. ASSUME ~Moved(w, "pinned", doc, job[w].tries)
          PROVE  Pursued(w)'
      <4>1. PICK obj : /\ Learned(w, obj)
                       /\ obj = doc \/ (At(w) = "pinned" /\ doc # job[w].read /\ obj = Absent)
        BY <2>4, <3>3 DEF Reads
      <4>2. CASE Kind(w) \in {"update", "amend"}
        <5>1. Moved(w, "put", obj, job[w].tries)
          BY <2>3, <4>1, <4>2 DEF Learned
        <5>2. QED
          BY <1>1, <1>5, <2>1, <2>2, <3>1, <4>1, <4>2, <5>1 DEF Moved, At, Pursued
      <4>3. CASE Kind(w) = "claim"
        <5>1. obj = Absent /\ Moved(w, "put", Absent, job[w].tries + 1)
          BY <2>3, <4>1, <4>3 DEF Learned
        <5>2. At(w) = "pinned" => job[w].read # Absent
          BY <1>1 DEF Proper
        <5>3. doc = Absent \/ (At(w) = "pinned" /\ doc # job[w].read)
          BY <4>1, <5>1
        <5>4. Len(past[w]) > job[w].tries + 1
          BY <2>2, <2>4, <4>3, <5>2, <5>3 DEF Reads
        <5>5. QED
          BY <1>1, <1>5, <2>1, <3>1, <4>3, <5>1, <5>4 DEF Moved, At, Pursued
      <4>4. QED
        BY <1>5, <2>1, <4>2, <4>3 DEF Kind
    <3>4. QED
      BY <1>5, <3>2, <3>3 DEF Pursued
  <2>5. CASE Writes(w)
    <3>1. /\ Object(New(w)) \in Objects /\ Object(New(w)) # Absent
          /\ Write(Object(New(w))) /\ At(w) = "put"
      BY <1>1, <2>5, Written DEF Writes
    <3>2. Len(past'[w]) = Len(past[w]) + 1 /\ doc' # Absent
      BY <1>1, <2>1, <3>1, WriteIsSeen DEF Write
    <3>3. CASE Kind(w) = "claim"
      <4>1. Moved(w, "get", job[w].read, job[w].tries)
        BY <2>3, <2>5, <3>3 DEF Writes, Told
      <4>2. QED
        BY <1>1, <1>5, <2>2, <3>2, <4>1 DEF Moved, At
    <3>4. CASE Kind(w) \in {"update", "amend"}
      <4>1. Moved(w, "get", Absent, job[w].tries + 1)
        BY <2>3, <2>5, <3>4 DEF Writes, Told
      <4>2. QED
        BY <1>1, <1>5, <2>1, <2>2, <3>2, <3>4, <4>1 DEF Moved, At
    <3>5. QED
      BY <1>5, <2>1, <3>3, <3>4
  <2>6. CASE IsRefused(w)
    <3>1. past' = past /\ doc' = doc /\ At(w) = "put" /\ doc # job[w].read
      BY <2>6, StepLeaves DEF IsRefused
    <3>2. CASE Kind(w) = "claim"
      <4>1. Moved(w, "get", job[w].read, job[w].tries) /\ job[w].read = Absent
        BY <1>1, <2>3, <2>6, <3>1, <3>2 DEF IsRefused, Told, Proper
      <4>2. QED
        BY <1>1, <1>5, <2>2, <3>1, <4>1 DEF Moved, At
    <3>3. CASE Kind(w) \in {"update", "amend"}
      <4>1. Moved(w, "get", Absent, job[w].tries + 1)
        BY <2>3, <2>6, <3>3 DEF IsRefused, Told
      <4>2. QED
        BY <1>1, <1>5, <2>1, <2>2, <3>1, <3>3, <4>1 DEF Moved, At
    <3>4. QED
      BY <1>5, <2>1, <3>2, <3>3
  <2>7. QED
    BY <1>5, <2>1, <2>4, <2>5, <2>6 DEF Acts
<1>6. QED
  BY <1>2, <1>4, <1>5

LEMMA OvertakenStep ==
  ASSUME TypeInv, NEW w \in Worker, Acts(w), NEW v \in Worker, Overtaken(v)
  PROVE  Overtaken(v)'
<1> SUFFICES ASSUME store # "s3", Pursued(v), job[v].result = Conflict => Len(past[v]) > MaxAttempts
             PROVE  Pursued(v)' /\ (job'[v].result = Conflict => Len(past'[v]) > MaxAttempts)
  BY StepLeaves DEF Overtaken, Pursued
<1>1. Pursued(v)'
  BY PursuedStep
<1>2. /\ Types /\ Proper(w) /\ Proper(v) /\ doc \in Objects \union {Absent}
      /\ Len(past[w]) \in Nat /\ job[w].tries \in Nat
      /\ MaxAttempts \in Nat
  <2>1. past[w] \in Seq(Content \union {Absent}) /\ job[w] \in Jobs
    BY DEF TypeInv, Types
  <2>2. QED
    BY <2>1, LenProperties, DocumentsAssumption DEF TypeInv, Types, Jobs
<1>3. ASSUME job'[v].result = Conflict PROVE Len(past'[v]) > MaxAttempts
  <2>1. Conflict \notin {Pending, Raised, Missing, TimedOut, Refused, Done}
    BY OutcomesAssumption
  <2>2. CASE v # w
    <3>1. job[v].result = Conflict /\ ~Observes(v)
      BY <1>3, <2>1, <2>2, StepLeaves DEF Observes
    <3>2. ASSUME NEW obj \in Objects \union {Absent}, Write(obj) PROVE past'[v] = past[v]
      BY <1>2, <3>1, <3>2, WriteIsSeen
    <3>3. Writes(w) => Object(New(w)) \in Objects
      BY <1>2, Written DEF Writes
    <3>4. past'[v] = past[v]
      BY <2>2, <3>2, <3>3, StepLeaves DEF Acts
    <3>5. QED
      BY <3>1, <3>4
  <2>3. CASE v = w
    <3>1. ~Begins(w) /\ ~Raises(w)
      BY <1>3, <2>1, <2>3, BeginsFresh DEF Raises
    <3>2. Running(w)
      BY <3>1 DEF Acts, Reads, Writes, IsRefused, Deletes, Running
    <3>3. job[w].result # Conflict
      BY <1>2, <2>1, <3>2 DEF Proper
    <3>4. At(w)' = "over"
      <4>1. \/ \E pc, read, tries : Moved(w, pc, read, tries)
            \/ \E r, won : Ended(w, r, won)
        BY <3>1 DEF Acts, Reads, Writes, IsRefused, Deletes, Learned, Told
      <4>2. QED
        BY <1>3, <2>3, <3>3, <4>1 DEF Moved, Ended, At
    <3>5. /\ job[w].result = Pending
          /\ \/ /\ Reads(w) /\ Kind(w) = "claim" /\ job[w].tries + 1 = MaxAttempts
                /\ (At(w) = "get" /\ doc = Absent) \/ (At(w) = "pinned" /\ doc # job[w].read)
             \/ /\ Writes(w) \/ IsRefused(w)
                /\ Kind(w) \in {"update", "amend"} /\ job[w].tries + 1 = MaxAttempts
      <4>1. \A obj \in Objects : obj.value # Conflict
        BY ContentIsSeq DEF Objects
      <4>2. Writes(w) => New(w) # Conflict
        BY <1>2, Written, ContentIsSeq DEF Writes
      <4>3. QED
        BY <1>2, <1>3, <2>1, <2>3, <3>4, <4>1, <4>2, Endings
    <3>6. Observes(w)
      BY <3>2, <3>5 DEF Observes
    <3>7. CASE Reads(w) /\ Kind(w) = "claim"
      <4>1. past' = past
        BY <3>7, StepLeaves
      <4>2. Len(past[w]) > job[w].tries + 1
        BY <2>3, <3>5, <3>6, <3>7 DEF Pursued, Reads, Writes, IsRefused
      <4>3. QED
        BY <1>2, <2>3, <3>5, <3>7, <4>1, <4>2
    <3>8. CASE Writes(w) /\ Kind(w) \in {"update", "amend"}
      <4>1. Object(New(w)) \in Objects /\ Write(Object(New(w)))
        BY <1>2, <3>8, Written DEF Writes
      <4>2. Len(past'[w]) = Len(past[w]) + 1
        BY <1>2, <3>6, <4>1, WriteIsSeen
      <4>3. Len(past[w]) > job[w].tries
        BY <2>3, <3>6, <3>8 DEF Pursued
      <4>4. QED
        BY <1>2, <2>3, <3>5, <3>8, <4>2, <4>3
    <3>9. CASE IsRefused(w) /\ Kind(w) \in {"update", "amend"}
      <4>1. past' = past
        BY <3>9, StepLeaves
      <4>2. Len(past[w]) > job[w].tries + 1
        BY <2>3, <3>6, <3>9 DEF Pursued, IsRefused
      <4>3. QED
        BY <1>2, <2>3, <3>5, <3>9, <4>1, <4>2
    <3>10. QED
      BY <3>5, <3>7, <3>8, <3>9
  <2>4. QED
    BY <2>2, <2>3
<1>4. QED
  BY <1>1, <1>3

(***************************************************************************)
(* wait_for                                                                *)
(***************************************************************************)
LEMMA DistinguishedStep ==
  ASSUME TypeInv, NEW w \in Worker, Acts(w), NEW v \in Worker, Distinguished(v)
  PROVE  Distinguished(v)'
<1> SUFFICES ASSUME Observes(v)', Kind(v)' = "watch", job'[v].from # Absent
             PROVE  /\ job'[v].from.etag <= edition'
                    /\ ~Hashed' /\ Absent \in Range(past'[v]) /\ doc' # Absent =>
                          doc'.etag > job'[v].from.etag
  BY DEF Distinguished
<1>1. /\ Types /\ Proper(w) /\ doc \in Objects \union {Absent} /\ edition \in Nat
      /\ Hashed' = Hashed /\ (Hashed => edition = 0)
  BY StepLeaves DEF Types, Hashed
<1>2. CASE Begins(w) /\ v = w
  <2>1. /\ past'[v] = <<Value(doc)>> /\ job'[v].from = doc /\ doc # Absent
        /\ doc' = doc /\ edition' = edition
    BY <1>2, BeginsFresh, StepLeaves
  <2>2. Absent \notin Range(past'[v])
    BY <1>1, <2>1, ContentIsSeq DEF Range
  <2>3. QED
    BY <1>1, <2>1, <2>2 DEF Types
<1>3. CASE v = w /\ ~Begins(w)
  <2>1. Observes(w) /\ ~Raises(w) /\ ~Deletes(w) /\ Kind(w) = "watch"
    BY <1>3, StillObserved, StepLeaves, KindOfStage DEF Acts, Observes, Running
  <2>2. Reads(w)
    BY <1>1, <1>3, <2>1, KindOfStage DEF Acts, Writes, IsRefused
  <2>3. \E pc, read, tries : Moved(w, pc, read, tries)
    BY <1>3, <2>2 DEF Reads, Learned, Ended, Observes, Running, At
  <2>4. job'[w].from = job[w].from /\ past' = past /\ doc' = doc /\ edition' = edition
    BY <2>2, <2>3, StepLeaves DEF Moved
  <2>5. QED
    BY <1>1, <1>3, <2>1, <2>4 DEF Distinguished
<1>4. CASE v # w
  <2>1. job'[v] = job[v] /\ Kind(v) = "watch" /\ Observes(v)
    BY <1>4, StepLeaves, StillObserved DEF Acts
  <2>2. /\ job[v].from.etag <= edition /\ job[v].from \in Objects
        /\ ~Hashed /\ Absent \in Range(past[v]) /\ doc # Absent => doc.etag > job[v].from.etag
    BY <2>1 DEF Distinguished, TypeInv, Types, Jobs
  <2>3. CASE past'[v] = past[v] /\ doc' = doc /\ edition' = edition
    BY <1>1, <2>1, <2>2, <2>3
  <2>4. CASE Writes(w)
    <3>1. /\ Object(New(w)) # Absent /\ Write(Object(New(w)))
          /\ Object(New(w)).etag = IF Hashed THEN 0 ELSE edition + 1
      BY <1>1, <2>4, Written DEF Writes
    <3>2. doc' = Object(New(w)) /\ edition' = doc'.etag
      BY <3>1 DEF Write
    <3>3. job[v].from.etag \in Nat
      BY <2>2 DEF Objects
    <3>4. QED
      BY <1>1, <2>1, <2>2, <3>1, <3>2, <3>3
  <2>5. CASE Write(Absent)
    BY <1>1, <2>1, <2>2, <2>5 DEF Write
  <2>6. QED
    BY <1>4, <2>3, <2>4, <2>5, StepLeaves DEF Acts
<1>5. QED
  BY <1>2, <1>3, <1>4

(***************************************************************************)
(* The invariant, and what follows from it                                 *)
(***************************************************************************)
LEMMA InitInv == Init => Inv
<1> SUFFICES ASSUME Init PROVE Inv
  OBVIOUS
<1>1. TypeInv
  BY InitTypes
<1>2. ASSUME NEW w \in Worker
      PROVE  Decided(w) /\ Kept(w) /\ Landed(w) /\ Truthful(w) /\ Overtaken(w) /\ Distinguished(w)
  <2>1. job[w] = NoJob /\ Conflict # Pending
    BY OutcomesAssumption DEF Init
  <2>2. Kind(w) = "none" /\ At(w) = "idle" /\ job[w].result = Pending
    BY <2>1 DEF NoJob, Kind, At
  <2>3. QED
    BY <2>1, <2>2 DEF Decided, Kept, Landed, Truthful, Overtaken, Distinguished,
                      Answered, Observes, Running
<1>3. QED
  BY <1>1, <1>2 DEF Inv

LEMMA InvStep == Inv /\ [Next]_vars => Inv'
<1> SUFFICES ASSUME Inv, [Next]_vars PROVE Inv'
  OBVIOUS
<1>1. TypeInv /\ TypeInv'
  BY TypeInvStep DEF Inv
<1>2. CASE UNCHANGED vars
  <2>1. ASSUME NEW w \in Worker
        PROVE  (Decided(w) /\ Kept(w) /\ Landed(w) /\ Truthful(w) /\ Overtaken(w) /\ Distinguished(w))'
    BY <1>2 DEF vars, Inv, Decided, Kept, Landed, Truthful, Overtaken, Distinguished, Landings,
                Answered, Observes, Running, Kind, At, Deleted, Hashed
  <2>2. QED
    BY <1>1, <2>1 DEF Inv
<1>3. ASSUME NEW w \in Worker, Acts(w) PROVE Inv'
  <2>1. ASSUME NEW v \in Worker
        PROVE  (Decided(v) /\ Kept(v) /\ Landed(v) /\ Truthful(v) /\ Overtaken(v) /\ Distinguished(v))'
    BY <1>1, <1>3, DecidedStep, KeptStep, LandedStep, TruthfulStep, OvertakenStep,
       DistinguishedStep DEF Inv
  <2>2. QED
    BY <1>1, <2>1 DEF Inv
<1>4. QED
  BY <1>1, <1>2, <1>3, StepForms DEF Acts

THEOREM Invariance == Spec => []Inv
<1>1. Init => Inv
  BY InitInv
<1>2. Inv /\ [Next]_vars => Inv'
  BY InvStep
<1>3. QED
  BY <1>1, <1>2, PTL DEF Spec

\* A value is made of workers and the initial value.
LEMMA ContentIsValue == \A x \in Content \union {Absent} : IsValue(x)
<1>1. ASSUME NEW x \in Content, NEW i \in DOMAIN x PROVE x[i] \in Worker \union {Initial}
  <2>1. x \in Seq(Worker \union {Initial})
    BY DEF Content
  <2>2. DOMAIN x = 1..Len(x)
    BY <2>1, LenProperties
  <2>3. QED
    BY <1>1, <2>1, <2>2, ElementOfSeq
<1>2. QED
  BY <1>1 DEF IsValue

(* The variables of claims and documents have their types, and an amend puts *)
(* only over what it has read (Document.update without create).              *)
THEOREM TypeCorrect == Spec => []TypeOK
<1>1. TypeInv => TypeOK
  <2> SUFFICES ASSUME TypeInv PROVE TypeOK
    OBVIOUS
  <2>1. Types
    BY DEF TypeInv
  <2>2. /\ IsValue(Value(doc))
        /\ doc # Absent => doc.etag \in 0..edition
    BY <2>1, ContentIsSeq, ContentIsValue DEF Types, Objects
  <2>3. ASSUME NEW w \in Worker
        PROVE  /\ Kind(w) \in Kinds[topic] \union {"none"} /\ job[w].tries < MaxAttempts
               /\ At(w) \in {"idle", "get", "pinned", "put", "delete", "over"}
               /\ Kind(w) = "amend" /\ At(w) = "put" => job[w].read # Absent
               /\ \A i \in DOMAIN past[w] : IsValue(past[w][i])
    <3>1. Proper(w) /\ job[w] \in Jobs /\ past[w] \in Seq(Content \union {Absent})
      BY <2>1 DEF TypeInv, Types
    <3>2. job[w].tries < MaxAttempts
      BY <3>1, DocumentsAssumption DEF Jobs
    <3>3. \A i \in DOMAIN past[w] : past[w][i] \in Content \union {Absent}
      <4>1. DOMAIN past[w] = 1..Len(past[w])
        BY <3>1, LenProperties
      <4>2. QED
        BY <3>1, <4>1, ElementOfSeq
    <3>4. At(w) \in {"idle", "get", "pinned", "put", "delete", "over"}
      BY <3>1 DEF Jobs, At
    <3>5. QED
      BY <3>1, <3>2, <3>3, <3>4, ContentIsValue DEF Proper
  <2>4. QED
    BY <2>1, <2>2, <2>3 DEF TypeOK, Types
<1>2. QED
  BY <1>1, Invariance, PTL DEF Inv

(* Of any number of claims of a key that nobody deletes, one wins at most,   *)
(* and all that are answered get the winner's value (claim, ClaimResult).    *)
THEOREM ClaimsConverge == Spec => []OneClaimant
<1>1. Inv => OneClaimant
  <2> SUFFICES ASSUME Inv, ~Deleted, NEW v \in Claims, NEW w \in Claims,
                      Answered(v), Answered(w), Conflict \notin {job[v].result, job[w].result}
               PROVE  /\ job[v].won /\ job[w].won => v = w
                      /\ job[v].result = job[w].result /\ job[v].result = Value(doc)
    BY DEF OneClaimant
  <2>1. v \in Worker /\ w \in Worker /\ Kind(v) = "claim" /\ Kind(w) = "claim"
    BY DEF Claims
  <2>2. /\ doc # Absent /\ job[v].result = doc.value /\ job[w].result = doc.value
        /\ job[v].won => doc.value = <<v>>
        /\ job[w].won => doc.value = <<w>>
    BY <2>1 DEF Inv, Decided
  <2>3. <<v>> = <<w>> => v = w
    BY <2>1
  <2>4. QED
    BY <2>2, <2>3 DEF Value
<1>2. QED
  BY <1>1, Invariance, PTL

(* No update that returned is lost, whatever the others do but delete; on    *)
(* the filesystem it is applied once, or not at all if it raised             *)
(* (Document.update).                                                        *)
THEOREM UpdatesLast == Spec => []UpdatesAreKept
<1>1. Inv => UpdatesAreKept
  BY DEF Inv, Kept, Landed, UpdatesAreKept, Updates, Answered
<1>2. QED
  BY <1>1, Invariance, PTL

(* What claim and wait_for return was the object during the call, and an     *)
(* update reports a missing document truthfully.                             *)
THEOREM AnswersHold == Spec => []AnswersAreTrue
<1>1. Inv => AnswersAreTrue
  BY DEF Inv, Truthful, AnswersAreTrue
<1>2. QED
  BY <1>1, Invariance, PTL

(* A claim or update that gives up has been overtaken in every attempt       *)
(* (_ACQUIRE_ATTEMPTS, _UPDATE_ATTEMPTS).                                    *)
THEOREM ConflictsAreEarned == Spec => []ConflictMeansProgress
<1>1. Inv => ConflictMeansProgress
  BY DEF Inv, Overtaken, ConflictMeansProgress
<1>2. QED
  BY <1>1, Invariance, PTL

(* wait_for does not time out on an object that was deleted and is back, up  *)
(* to hashes and GCS's two requests (the docstring of wait_for).             *)
THEOREM ReappearancesAreNoticed == Spec => ReappearanceIsNoticed
<1> DEFINE Noticed == \A w \in Worker :
          job'[w].result = TimedOut /\ job[w].result # TimedOut =>
              \/ doc = Absent \/ Absent \notin Range(past[w])
              \/ doc = job[w].from /\ Hashed
              \/ At(w) = "pinned" /\ doc # job[w].read
<1>1. Inv /\ [Next]_vars => [Noticed]_vars
  <2> SUFFICES ASSUME Inv, Next, NEW v \in Worker,
                      job'[v].result = TimedOut, job[v].result # TimedOut
               PROVE  \/ doc = Absent \/ Absent \notin Range(past[v])
                      \/ doc = job[v].from /\ Hashed
                      \/ At(v) = "pinned" /\ doc # job[v].read
    BY DEF Noticed
  <2>1. TypeInv /\ Distinguished(v) /\ Types
    BY DEF Inv, TypeInv
  <2>2. PICK w \in Worker : Acts(w)
    BY <2>1, StepForms DEF Acts, vars
  <2>3. v = w
    BY <2>1, <2>2, StepLeaves
  <2>4. TimedOut \notin {Pending, Conflict, Missing, Raised, Refused, Done}
    BY OutcomesAssumption
  <2>5. At(w)' = "over"
    <3>1. ~Begins(w) /\ ~Raises(w)
      BY <2>1, <2>3, <2>4, BeginsFresh DEF Raises
    <3>2. \/ \E pc, read, tries : Moved(w, pc, read, tries)
          \/ \E r, won : Ended(w, r, won)
      BY <2>2, <3>1 DEF Acts, Reads, Writes, IsRefused, Deletes, Learned, Told
    <3>3. QED
      BY <2>3, <3>2 DEF Moved, Ended, At
  <2>6. /\ job[w].result = Pending /\ Running(w) /\ Kind(w) = "watch"
        /\ doc \in {Absent, job[w].from} \/ (At(w) = "pinned" /\ doc # job[w].read)
    <3>1. doc # Absent => doc.value # TimedOut
      BY <2>1, ContentIsSeq DEF Types, Objects
    <3>2. Writes(w) => New(w) # TimedOut
      BY <2>1, Written, ContentIsSeq DEF Writes, TypeInv
    <3>3. QED
      BY <2>1, <2>2, <2>3, <2>4, <2>5, <3>1, <3>2, Endings
  <2>7. Observes(w)
    BY <2>6 DEF Observes
  <2>8. doc # Absent => doc.etag \in Nat
    BY <2>1 DEF Types, Objects
  <2>9. QED
    BY <2>1, <2>3, <2>6, <2>7, <2>8 DEF Distinguished
<1>2. QED
  BY <1>1, Invariance, PTL DEF Spec, ReappearanceIsNoticed
=============================================================================
